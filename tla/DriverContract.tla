---------------------------- MODULE DriverContract ----------------------------
(***************************************************************************)
(* What the block device relies on when it calls the driver: the outcomes  *)
(* a call may have.  QspiCApi shows that the driver keeps to it, and       *)
(* BlockDevice is built on nothing else.                                   *)
(*                                                                         *)
(* The driver is trusted from an undisturbed initialize on, until a call   *)
(* fails or uninitialize is called.  An outcome is                         *)
(*   ok       what the caller is told                                      *)
(*   done     the buffer was filled from the chip, the program or erase    *)
(*            has ended                                                    *)
(*   trusted  the driver is trusted afterwards                             *)
(***************************************************************************)
DataCalls     == {"read", "write", "erase"}
ContractCalls == DataCalls \cup {"initialize", "uninitialize"}

(* While trusted, ok means done, and stays so. A failure ends the trust;   *)
(* only initialize brings it back, and it may be ok without doing so: a    *)
(* completion left over from before may have been taken for its own.       *)
Outcomes(call, trusted) ==
  {o \in [ok : BOOLEAN, done : BOOLEAN, trusted : BOOLEAN] :
     /\ o.trusted => /\ o.ok
                     /\ call # "uninitialize"
                     /\ trusted \/ call = "initialize"
     /\ call \in DataCalls /\ trusted /\ o.ok => o.done /\ o.trusted}

==============================================================================
