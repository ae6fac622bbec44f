------------------------------ MODULE QspiClaims ------------------------------
(***************************************************************************)
(* What comments of the source say of the driver, to be compared with what *)
(* the code does in any situation, failures included.                      *)
(***************************************************************************)
EXTENDS QspiDriver

(* read: "Initiate read, then wait for the event" (qspi-flash.cpp:515),    *)
(* "qspi::ok if successful" (488): when read returns ok, the transfer it   *)
(* started is over and the caller's buffer was written.                    *)
ReadOkMeansFilled ==
  ~Running /\ op = "read" /\ result = "ok" => buf # "none"

(* get_sector_size: "zero if system is not initialized" (844), and         *)
(* get_memory_type: "null pointer if the system is not initialized" (834): *)
(* both are told by pdevice_, so after uninitialize it is null.            *)
UninitializedHasNoDevice ==
  ~Running /\ op = "uninitialize" /\ result = "ok" => pdevice = Null

==============================================================================
