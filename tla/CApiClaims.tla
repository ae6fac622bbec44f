------------------------------ MODULE CApiClaims ------------------------------
(***************************************************************************)
(* What the header of the C interface says of its results.                 *)
(***************************************************************************)
EXTENDS QspiCApi

(* The C functions return a qspi_result_t, "qspi_ok if successful, or a    *)
(* qspi error if the flash could not be identified"                        *)
(* (qspi-flash-c-wrapper.cpp:94): what they return is the enumerator of    *)
(* that name (qspi-flash-c-api.h:44-51).                                   *)
ResultHasItsName ==
  ~Running =>
    /\ result = "ok" => Returned = CValue.qspi_ok
    /\ result = "timeout" => Returned = CValue.qspi_timeout
    /\ result = "type_not_found" => Returned = CValue.qspi_type_not_found

==============================================================================
