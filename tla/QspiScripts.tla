----------------------------- MODULE QspiScripts -----------------------------
(***************************************************************************)
(* The functions of class qspi_impl, and of its two helpers qspi_winbond   *)
(* and qspi_micron, have one shape: a sequence of HAL calls, each made     *)
(* only when the one before returned ok, the first other result being the  *)
(* function's.  This module holds those sequences as data, and the order   *)
(* in which the public operations run the functions.                       *)
(***************************************************************************)
EXTENDS Naturals, Sequences

Results == {"ok", "error", "busy", "timeout", "type_not_found"}

(***************************************************************************)
(* One step of a sequence:                                                 *)
(*   cmd       qspi_command without data: the chip has the whole command   *)
(*   setup     qspi_command with data: the data phase is the next step     *)
(*   transmit  HAL_QSPI_Transmit, a register written by polling            *)
(*   rx, tx    HAL_QSPI_Receive_DMA or _IT, HAL_QSPI_Transmit_DMA          *)
(*   poll      HAL_QSPI_AutoPolling_IT on the status register's busy bit   *)
(*   wait      semaphore_.timed_wait                                       *)
(*   identify  the look-up of the three ID bytes in qspi_manufacturers     *)
(*   map       HAL_QSPI_MemoryMapped                                       *)
(*   abort     HAL_QSPI_Abort                                              *)
(***************************************************************************)
Kinds == {"cmd", "setup", "transmit", "rx", "tx", "poll", "wait", "identify",
          "map", "abort"}

Step(do, instr, lines) == [do |-> do, instr |-> instr, lines |-> lines]
Wait     == Step("wait", "none", 4)
PollBusy == Step("poll", "READ_STATUS_REGISTER", 4)

(* The sequences. PageWriteUnpolled, EraseTwice, SleepOneLine and          *)
(* QuadUntuned are faulty variants, used to show that the properties       *)
(* notice such mistakes.                                                   *)
ReadJedecId   == << Step("setup", "JEDEC_ID", 1), Step("rx", "JEDEC_ID", 1), Wait,
                    Step("identify", "none", 1) >>
Read          == << Step("setup", "FAST_READ_QUAD_IN_OUT", 4),
                    Step("rx", "FAST_READ_QUAD_IN_OUT", 4), Wait >>
PageWriteUnpolled == << Step("cmd", "WRITE_ENABLE", 4), Step("setup", "PAGE_PROGRAM", 4),
                        Step("tx", "PAGE_PROGRAM", 4), Wait >>
PageWrite     == << Step("cmd", "WRITE_ENABLE", 4), Step("setup", "PAGE_PROGRAM", 4),
                    Step("tx", "PAGE_PROGRAM", 4), Wait, PollBusy, Wait >>
EraseTwice    == << Step("cmd", "WRITE_ENABLE", 4), Step("cmd", "ERASE", 4),
                    Step("cmd", "WRITE_ENABLE", 4), Step("cmd", "ERASE", 4),
                    PollBusy, Wait >>
Erase         == << Step("cmd", "WRITE_ENABLE", 4), Step("cmd", "ERASE", 4),
                    PollBusy, Wait >>
SleepOneLine  == << Step("cmd", "POWER_DOWN", 1) >>
Sleep         == << Step("cmd", "POWER_DOWN", 4) >>
Wake          == << Step("cmd", "RELEASE_POWER_DOWN", 4) >>
ResetChip     == << Step("cmd", "RESET_ENABLE", 4), Step("cmd", "RESET_DEVICE", 4) >>
EnterMapped   == << Step("map", "FAST_READ_QUAD_IN_OUT", 4) >>
ExitMapped    == << Step("abort", "none", 4) >>
QuadUntuned   == << Step("cmd", "VOLATILE_SR_WRITE_ENABLE", 1),
                    Step("setup", "WRITE_STATUS_REGISTER_2", 1),
                    Step("transmit", "WRITE_STATUS_REGISTER_2", 1),
                    Step("cmd", "ENTER_QUAD_MODE", 1) >>
QuadWinbond   == << Step("cmd", "VOLATILE_SR_WRITE_ENABLE", 1),
                    Step("setup", "WRITE_STATUS_REGISTER_2", 1),
                    Step("transmit", "WRITE_STATUS_REGISTER_2", 1),
                    Step("cmd", "ENTER_QUAD_MODE", 1),
                    Step("setup", "SET_READ_PARAMETERS", 4),
                    Step("transmit", "SET_READ_PARAMETERS", 4) >>
QuadMicron    == << Step("cmd", "WRITE_ENABLE", 1),
                    Step("setup", "WRITE_VOLATILE_STATUS_REGISTER", 1),
                    Step("transmit", "WRITE_VOLATILE_STATUS_REGISTER", 1),
                    Step("cmd", "WRITE_ENABLE", 1),
                    Step("setup", "WRITE_ENH_VOLATILE_STATUS_REGISTER", 1),
                    Step("transmit", "WRITE_ENH_VOLATILE_STATUS_REGISTER", 1),
                    Step("cmd", "ENTER_QUAD_MODE", 1) >>

(* A phase is one run of a function; "winbond" and "micron" are the        *)
(* enter_quad_mode of the two classes.                                     *)
Phases == {"id1", "id2", "read", "page", "erase", "sleep", "wake", "reset",
           "map", "unmap", "winbond", "micron"}

Script(ph) ==
  CASE ph \in {"id1", "id2"} -> ReadJedecId
    [] ph = "read"    -> Read
    [] ph = "page"    -> PageWrite
    [] ph = "erase"   -> Erase
    [] ph = "sleep"   -> Sleep
    [] ph = "wake"    -> Wake
    [] ph = "reset"   -> ResetChip
    [] ph = "map"     -> EnterMapped
    [] ph = "unmap"   -> ExitMapped
    [] ph = "winbond" -> QuadWinbond
    [] ph = "micron"  -> QuadMicron

(***************************************************************************)
(* The public operations.  sleep(true) and sleep(false) are "sleep" and    *)
(* "wake"; the three erase commands differ in a timeout only.              *)
(***************************************************************************)
Ops == {"initialize", "uninitialize", "read", "write", "erase", "sleep",
        "wake", "reset_chip", "enter_mem_mapped", "exit_mem_mapped"}

(* The operations that return error at once when pdevice_ is null.         *)
NeedsDevice == {"read", "write", "erase", "enter_mem_mapped"}

FirstPhase(op) ==
  CASE op = "initialize"       -> "id1"
    [] op = "uninitialize"     -> "wake"
    [] op = "write"            -> "page"
    [] op = "reset_chip"       -> "reset"
    [] op = "enter_mem_mapped" -> "map"
    [] op = "exit_mem_mapped"  -> "unmap"
    [] OTHER                   -> op

(* write goes on while bytes are left.                                     *)
MorePagesOffByOne(left) == left >= 0
MorePages(left) == left > 0

(* What initialize does first when no known ID was read. (Faulty variant:  *)
(* the chip is reset but not woken up.)                                    *)
RescueAsleep == "reset"
Rescue == "wake"

(* What operation op runs after its function ph returned r; "idle" when    *)
(* the operation returns r.  quad is the class pimpl points to, left the   *)
(* number of pages still to be written.                                    *)
NextPhase(op, ph, r, quad, left) ==
  CASE ph \in {"id1", "id2"} /\ r = "ok"                         -> quad
    [] ph = "id1" /\ r # "ok"                                    -> Rescue
    [] ph = "wake" /\ op \in {"initialize", "uninitialize"}      -> "reset"
    [] ph = "reset" /\ op = "initialize" /\ r = "ok"             -> "id2"
    [] ph = "page" /\ r = "ok" /\ MorePages(left)               -> "page"
    [] OTHER                                                     -> "idle"

==============================================================================
