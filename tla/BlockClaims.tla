------------------------------ MODULE BlockClaims ------------------------------
(***************************************************************************)
(* A statement of a comment which do_write_block does not keep.            *)
(***************************************************************************)
EXTENDS BlockDevice

(* do_write_block returns "Number of blocks written or -1 if error"        *)
(* (qspi-flash.cpp:157): when it returns the number asked for, these       *)
(* blocks hold the data.                                                   *)
WrittenMeansStored ==
  [][phase # "idle" /\ phase' = "idle" /\ reply' = Count =>
       \A c \in DOMAIN data : mem'[c] = data[c]]_vars

==============================================================================
