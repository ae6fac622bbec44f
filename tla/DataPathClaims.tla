---------------------------- MODULE DataPathClaims ----------------------------
(***************************************************************************)
(* The comments at the two places where the cache is maintained say that   *)
(* this mitigates the incoherence of DMA transfers (qspi-flash.cpp:519-522 *)
(* and :620-623), for every buffer. Here nothing is assumed of the single  *)
(* transfers, but buffers are cached memory and start a cache line.        *)
(***************************************************************************)
EXTENDS DataPath

AlignedInit == Init /\ call.buff >= Sram1Base /\ call.buff % LineSize = 0

AlignedSpec == AlignedInit /\ [][Next]_vars

(* "Write data to flash": what the flash gets is the source data, in the   *)
(* cache or not (qspi-flash.cpp:541-546).                                  *)
SourceDataWritten ==
  call.op = "write" /\ step = "returned" /\ result = "ok" =>
    \A i \in 0 .. call.count - 1 : cell[call.address + i] = << call.buff + i, "new" >>

==============================================================================
