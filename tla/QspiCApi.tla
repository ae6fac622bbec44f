------------------------------- MODULE QspiCApi -------------------------------
(***************************************************************************)
(* The plain C interface, for one task.  Its functions forward to the      *)
(* class and cast the result.  The object is made and deleted at run time  *)
(* while the HAL handle, the peripheral and the chip live on, and the HAL  *)
(* callbacks reach it through a pointer that is tested for NULL only and   *)
(* is not reset when the object is deleted (as in test-qspi-c-api.c).      *)
(***************************************************************************)
EXTENDS QspiDriver, DriverContract

VARIABLES
  obj,      \* the object behind the pointer: "none" (NULL), "live" or "gone"
  quiet,    \* history: when it was deleted, no call had failed since a
            \* clean initialize
  strayed   \* history: a callback posted the semaphore of a deleted object

cVars == << vars, obj, quiet, strayed >>

(* The functions of the interface, and the operation each forwards to;     *)
(* qspi_sleep (true) and (false) are two entries.                          *)
ControlFunctions ==
  [qspi_sleep |-> "sleep", qspi_wake |-> "wake", qspi_initialize |-> "initialize",
   qspi_uninitialize |-> "uninitialize",
   qspi_enter_mem_mapped |-> "enter_mem_mapped",
   qspi_exit_mem_mapped |-> "exit_mem_mapped"]
DataFunctions == [qspi_read |-> "read", qspi_write |-> "write"]
ChipFunctions ==
  [qspi_erase_block32K |-> "erase", qspi_erase_block64K |-> "erase",
   qspi_erase_chip |-> "erase", qspi_reset_chip |-> "reset_chip"]

(* These multiply with the sector size of pdevice_ before anything tests   *)
(* it for null: the caller has to have initialized the driver.             *)
SectorFunctions ==
  [qspi_read_sector |-> "read", qspi_write_sector |-> "write",
   qspi_erase_sector |-> "erase"]

(* The values of the results of the class, which the C functions pass on,  *)
(* and those of the C enumerators.                                         *)
Value == [ok |-> 0, error |-> 1, busy |-> 2, timeout |-> 3, type_not_found |-> 10]
CValue == [qspi_ok |-> 0, qspi_error |-> 1, qspi_busy |-> 2, qspi_timeout |-> 3,
           qspi_type_not_found |-> 4]
Returned == Value[result]

CTypeOK ==
  /\ TypeOK
  /\ obj \in {"none", "live", "gone"}
  /\ quiet \in BOOLEAN /\ strayed \in BOOLEAN
  /\ Running => obj = "live"
  /\ obj = "none" => ~InFlight

CInit == Init /\ obj = "none" /\ quiet = FALSE /\ strayed = FALSE

(* qspi_new: a fresh object, on whatever an earlier one left behind.       *)
New ==
  /\ obj # "live"
  /\ obj' = "live"
  /\ pdevice' = Null /\ pimpl' = Null /\ sem' = 0
  /\ op' = "none" /\ left' = 0 /\ result' = "ok" /\ buf' = "none"
  /\ owed' = 0 /\ smooth' = TRUE /\ session' = "none"
  /\ UNCHANGED << phase, pc, try, halVars, chip, quiet, strayed >>

(* qspi_delete stops nothing: a transfer that was given up on goes on.     *)
Delete ==
  /\ obj = "live" /\ ~Running
  /\ obj' = "gone"
  /\ quiet' = (session # "none")
  /\ strayed' = FALSE
  /\ UNCHANGED vars

CCall ==
  /\ obj = "live"
  /\ \E n \in 1 .. MaxPages :
       \/ \E f \in DOMAIN ControlFunctions : Call(ControlFunctions[f], n)
       \/ \E f \in DOMAIN DataFunctions : Call(DataFunctions[f], n)
       \/ \E f \in DOMAIN ChipFunctions : Call(ChipFunctions[f], n)
       \/ pdevice # Null /\ \E f \in DOMAIN SectorFunctions : Call(SectorFunctions[f], n)
  /\ UNCHANGED << obj, quiet, strayed >>

(* The HAL's callbacks call qspi_event_cb if the pointer is not NULL.      *)
EventCb ==
  /\ Complete
  /\ strayed' = (strayed \/ obj = "gone")
  /\ UNCHANGED << obj, quiet >>

CReboot == Reboot /\ obj' = "none" /\ quiet' = FALSE /\ strayed' = FALSE

CNext ==
  \/ New
  \/ Delete
  \/ CCall
  \/ EventCb
  \/ (DriverStep \/ TransferError \/ ChipDone) /\ UNCHANGED << obj, quiet, strayed >>
  \/ CReboot

CSpec == CInit /\ [][CNext]_cVars /\ WF_cVars(DriverStep /\ UNCHANGED << obj, quiet, strayed >>)

-----------------------------------------------------------------------------
(* An object that is deleted after calls that all succeeded leaves no      *)
(* transfer behind whose completion would call into the freed memory.      *)
DeletedQuietly == obj = "gone" /\ quiet => ~strayed /\ ~InFlight

(* Every call returns as the driver's contract says, objects made, deleted *)
(* and made again included: once trusted, ok means that the buffer was     *)
(* filled, or that the program or erase is over.                           *)
Done == CASE op = "read" -> buf = "good"
          [] op \in {"write", "erase"} -> owed = 0
          [] OTHER -> TRUE
Outcome == [ok |-> result = "ok", done |-> Done, trusted |-> session = "quad"]
ContractKept ==
  [][Running /\ ~Running' /\ op' = op /\ op \in ContractCalls =>
       Outcome' \in Outcomes(op, session = "quad")]_cVars

==============================================================================
