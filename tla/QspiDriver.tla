------------------------------ MODULE QspiDriver ------------------------------
(***************************************************************************)
(* One qspi_impl object, called by one task at a time (the lockable block  *)
(* device holds its mutex around every call), with the HAL handle it       *)
(* drives, the interrupt that posts its semaphore, and the flash chip.     *)
(*                                                                         *)
(* A step of the driver is one HAL call or one semaphore wait.  Between    *)
(* two steps the completion interrupt may come, late or never; the chip    *)
(* may finish a program or erase; the controller may be reset while the    *)
(* chip is not.  Any HAL call may fail and any wait may time out.          *)
(***************************************************************************)
EXTENDS Integers, QspiScripts, FlashChip

CONSTANTS
  MaxPages,  \* bound: 256-byte pages one write call spans
  Fitted     \* the families of chip the board may carry

ASSUME MaxPagesAssumption == MaxPages \in Nat \ {0}
ASSUME FittedAssumption == Fitted \subseteq Families

VARIABLES
  \* members of qspi_impl
  pdevice,  \* pdevice_: the descriptor found, by its family, or "null"
  pimpl,    \* the quad mode helper, by its class, or "null"
  sem,      \* semaphore_, a binary semaphore
  \* the running call
  op,       \* the public operation, kept after it returns
  phase,    \* the function it runs, or "idle"
  pc,       \* the step of the function's script
  try,      \* where qspi_command is: "first", "abort" or "retry"
  left,     \* write: pages not yet written
  result,   \* the last function's result; the operation's when idle
  buf,      \* the bytes the function's own receive left: "none" untouched
  \* the HAL handle
  hal,      \* its State: "rx", "tx", "poll" while a transfer is in flight
  mine,     \* the transfer in flight was started by the running function
  answered, \* the chip was able to answer when the transfer started
  \* the chip
  chip,
  \* history, read by properties only
  owed,     \* programs and erases the call asked for, not yet finished
  smooth,   \* no function of the call met a failed HAL call or a timeout,
            \* and every token in its semaphore was its own
  session   \* what the results so far entitle the caller to expect of the
            \* chip: "quad", "asleep" or, after any failure, "none"

objVars  == << pdevice, pimpl >>
halVars  == << hal, mine, answered >>
callVars == << op, left >>
posVars  == << phase, pc, try, result >>
histVars == << smooth, session >>
vars == << pdevice, pimpl, sem, op, phase, pc, try, left, result, buf, hal,
           mine, answered, chip, owed, smooth, session >>

Null == "null"
InFlight == hal \in {"rx", "tx", "poll"}
HalBusy  == InFlight \/ hal = "mapped"
Running  == phase # "idle"
Now      == Script(phase)[pc]
At(kinds) == Running /\ Now.do \in kinds

TypeOK ==
  /\ pdevice \in Families \cup {Null}
  /\ pimpl \in Families \cup {Null}
  /\ sem \in {0, 1}
  /\ op \in Ops \cup {"none"}
  /\ phase \in Phases \cup {"idle"}
  /\ pc \in Nat
  /\ Running => pc \in 1 .. Len(Script(phase))
  /\ try \in {"first", "abort", "retry"}
  /\ left \in 0 .. MaxPages
  /\ result \in Results
  /\ buf \in {"none", "good", "junk"}
  /\ hal \in {"ready", "error", "rx", "tx", "poll", "mapped"}
  /\ mine \in BOOLEAN
  /\ answered \in BOOLEAN
  /\ chip \in Chips
  /\ owed \in Int
  /\ smooth \in BOOLEAN
  /\ session \in {"none", "quad", "asleep"}

(* Power-on of the controller, with a fresh driver object.                 *)
Init ==
  /\ pdevice = Null /\ pimpl = Null /\ sem = 0
  /\ op = "none" /\ phase = "idle" /\ pc = 0 /\ try = "first" /\ left = 0
  /\ result = "ok" /\ buf = "none"
  /\ hal = "ready" /\ mine = FALSE /\ answered = FALSE
  /\ owed = 0 /\ smooth = TRUE /\ session = "none"
  /\ \E f \in Fitted : chip = PowerOn(f)

-----------------------------------------------------------------------------
(* Control flow shared by the steps.                                       *)

(* What the caller may expect of the chip once the call returned r.        *)
SessionAfter(r, clean) ==
  CASE op = "initialize" -> IF r = "ok" /\ clean THEN "quad" ELSE "none"
    [] op \in {"uninitialize", "reset_chip"} -> "none"
    [] op = "sleep" /\ session # "none" -> "asleep"
    [] op = "wake" /\ session # "none"  -> "quad"
    [] OTHER -> session

(* The running function returns r, its class pointer being quad and rest   *)
(* pages remaining; d is the chip's state after the step.                  *)
FunctionReturns(r, quad, rest, d) ==
  LET next  == NextPhase(op, phase, r, quad, rest)
      clean == smooth /\ r \in {"ok", "type_not_found"}
  IN  /\ result' = r
      /\ phase' = next
      /\ pc' = IF next = "idle" THEN 0 ELSE 1
      /\ try' = "first"
      /\ mine' = FALSE
      /\ answered' = FALSE
      /\ chip' = Disown(d)
      /\ smooth' = clean
      /\ session' = IF r \notin {"ok", "type_not_found"} THEN "none"
                    ELSE IF next = "idle" THEN SessionAfter(r, clean) ELSE session

(* The step succeeded, leaving the chip in state d: on to the next step,   *)
(* or the function returns ok.                                             *)
Proceed(d) ==
  IF pc < Len(Script(phase))
  THEN /\ pc' = pc + 1
       /\ try' = "first"
       /\ chip' = d
       /\ UNCHANGED << phase, result, mine, answered, left, histVars >>
  ELSE /\ left' = (IF phase = "page" THEN left - 1 ELSE left)
       /\ FunctionReturns("ok", pimpl, left', d)

(* The step gave r, which ends the function.                               *)
Fail(r, d) ==
  /\ FunctionReturns(r, pimpl, left, d)
  /\ UNCHANGED left

(* The buffer of a new function is untouched.                              *)
KeepBuffer == buf' = IF pc' = 1 THEN "none" ELSE buf

-----------------------------------------------------------------------------
(* Calls                                                                   *)

(* A task calls public operation o; n is the number of pages of a write.   *)
(* Without a device descriptor the data operations return error at once.   *)
Call(o, n) ==
  /\ ~Running
  /\ n > 1 => o = "write"
  /\ op' = o
  /\ left' = (IF o = "write" THEN n ELSE 0)
  /\ owed' = (IF o \in {"write", "erase"} THEN n ELSE 0)
  /\ buf' = "none"
  /\ pimpl' = (IF o = "uninitialize" THEN Null ELSE pimpl)
  /\ smooth' = (sem = 0)
  /\ try' = "first"
  /\ IF o \in NeedsDevice /\ pdevice = Null
     THEN phase' = "idle" /\ pc' = 0
     ELSE phase' = FirstPhase(o) /\ pc' = 1
  /\ result' = "error"
  /\ UNCHANGED << pdevice, sem, halVars, chip, session >>

-----------------------------------------------------------------------------
(* qspi_command: try, and on any failure abort, mark ready and retry.      *)

(* HAL_QSPI_Command succeeds. A command with data reaches the chip in its  *)
(* data phase.                                                             *)
CommandOk ==
  /\ At({"cmd", "setup"})
  /\ try \in {"first", "retry"}
  /\ hal = "ready"
  /\ Proceed(IF Now.do = "cmd" THEN After(chip, Now.instr, Now.lines) ELSE chip)
  /\ KeepBuffer
  /\ UNCHANGED << objVars, sem, op, hal, owed >>

(* The first failure leads to an abort and one retry, the second is the    *)
(* function's result. (Faulty variants: the failure is ignored; retries    *)
(* without end.)                                                           *)
FirstFailsUnnoticed(d) == Proceed(d)
FirstFails(d) ==
  /\ try' = "abort"
  /\ chip' = d
  /\ UNCHANGED << phase, pc, result, mine, answered, left, histVars >>

RetryFailsForever(d) == FirstFails(d)
RetryFails(d) == Fail("error", d)

(* HAL_QSPI_Command refuses a handle that is not ready, or times out on a  *)
(* status flag: then the chip may have the command or not.                 *)
CommandFails ==
  /\ At({"cmd", "setup"})
  /\ try \in {"first", "retry"}
  /\ \E d \in {chip, IF hal = "ready" /\ Now.do = "cmd"
                     THEN After(chip, Now.instr, Now.lines) ELSE chip} :
       IF try = "first" THEN FirstFails(d) ELSE RetryFails(d)
  /\ hal' = (IF hal = "ready" THEN "error" ELSE hal)
  /\ KeepBuffer
  /\ UNCHANGED << objVars, sem, op, owed >>

(* A transmission that is cut short may leave the chip programming what it *)
(* received so far.                                                        *)
CutShort(c) == IF hal = "tx" THEN Disown(After(c, "PAGE_PROGRAM", 4)) ELSE c

(* The workaround: abort whatever the peripheral does, force the handle's  *)
(* State to ready.                                                         *)
AbortBeforeRetry ==
  /\ At({"cmd", "setup"})
  /\ try = "abort"
  /\ try' = "retry"
  /\ hal' = "ready"
  /\ mine' = FALSE
  /\ answered' = FALSE
  /\ chip' \in {chip, CutShort(chip)}
  /\ UNCHANGED << objVars, sem, callVars, phase, pc, result, buf, owed, histVars >>

-----------------------------------------------------------------------------
(* The other steps                                                         *)

(* HAL_QSPI_Transmit writes a chip register by polling; when it fails the  *)
(* chip may have the byte or not.                                          *)
Transmit ==
  /\ At({"transmit"})
  /\ LET d == After(chip, Now.instr, Now.lines) IN
       \/ /\ hal = "ready"
          /\ Proceed(d)
          /\ UNCHANGED hal
       \/ /\ \E c \in {chip, d} : Fail("timeout", c)
          /\ hal' = "error"
  /\ KeepBuffer
  /\ UNCHANGED << objVars, sem, op, owed >>

(* HAL_QSPI_Receive_DMA, _Receive_IT, _Transmit_DMA and _AutoPolling_IT    *)
(* start a transfer; a handle that is not ready is refused as busy.        *)
StartTransfer ==
  /\ At({"rx", "tx", "poll"})
  /\ hal = "ready"
  /\ hal' = Now.do
  /\ answered' = /\ Accepts(chip, Now.instr, Now.lines)
                 /\ Now.instr = "FAST_READ_QUAD_IN_OUT" => chip.tuned
  /\ mine' = TRUE
  /\ pc' = pc + 1
  /\ try' = "first"
  /\ UNCHANGED << objVars, sem, callVars, phase, result, buf, chip, owed, histVars >>

StartFails ==
  /\ At({"rx", "tx", "poll"})
  /\ Fail(IF hal = "ready" THEN "error" ELSE "busy", chip)
  /\ hal' = (IF hal = "ready" THEN "error" ELSE hal)
  /\ KeepBuffer
  /\ UNCHANGED << objVars, sem, op, owed >>

(* semaphore_.timed_wait returns with the token, whoever's it is, ...      *)
WaitOk ==
  /\ At({"wait"})
  /\ sem = 1
  /\ sem' = 0
  /\ Proceed(chip)
  /\ KeepBuffer
  /\ UNCHANGED << objVars, op, hal, owed >>

(* ... or after the timeout, the transfer being left as it is. (Faulty:    *)
(* what timed_wait returns is not looked at.)                              *)
WaitTimeoutIgnored ==
  /\ At({"wait"})
  /\ sem = 0
  /\ Proceed(chip)
  /\ KeepBuffer
  /\ UNCHANGED << objVars, sem, op, hal, owed >>
WaitTimeout ==
  /\ At({"wait"})
  /\ sem = 0
  /\ Fail("timeout", chip)
  /\ KeepBuffer
  /\ UNCHANGED << objVars, sem, op, hal, owed >>

(* The ID bytes are looked up. Bytes no receive of this function wrote are *)
(* whatever the stack holds: a known ID of an earlier call, or not.        *)
Identify ==
  /\ At({"identify"})
  /\ \E known \in IF buf = "none" THEN BOOLEAN ELSE {buf = "good"} :
       IF known
       THEN /\ pdevice' = chip.family
            /\ pimpl' = chip.family
            /\ FunctionReturns("ok", chip.family, left, chip)
       ELSE /\ FunctionReturns("type_not_found", pimpl, left, chip)
            /\ UNCHANGED objVars
  /\ buf' = "none"
  /\ UNCHANGED << sem, callVars, hal, owed >>

(* HAL_QSPI_MemoryMapped: no abort and retry here.                         *)
EnterMemMapped ==
  /\ At({"map"})
  /\ \/ hal = "ready" /\ hal' = "mapped" /\ Proceed(chip)
     \/ hal # "ready" /\ hal' = hal /\ Fail("busy", chip)
     \/ hal = "ready" /\ hal' = "error" /\ Fail("error", chip)
  /\ KeepBuffer
  /\ UNCHANGED << objVars, sem, op, owed >>

(* HAL_QSPI_Abort ends a mapping or a transfer; a handle that is not busy  *)
(* is left as it is.                                                       *)
ExitMemMapped ==
  /\ At({"abort"})
  /\ \E d \in {chip, CutShort(chip)} :
       \/ Proceed(d) /\ hal' = (IF HalBusy THEN "ready" ELSE hal)
       \/ HalBusy /\ Fail("error", d) /\ hal' = "error"
  /\ KeepBuffer
  /\ UNCHANGED << objVars, sem, op, owed >>

DriverStep ==
  \/ CommandOk \/ CommandFails \/ AbortBeforeRetry \/ Transmit
  \/ StartTransfer \/ StartFails \/ WaitOk \/ WaitTimeout \/ Identify
  \/ EnterMemMapped \/ ExitMemMapped

-----------------------------------------------------------------------------
(* The environment                                                         *)

(* The status register is matched once the chip is no longer busy; the     *)
(* lines of a chip that does not answer float, and may match.              *)
MayComplete ==
  hal = "poll" /\ Accepts(chip, "READ_STATUS_REGISTER", 4) => chip.job = "idle"

(* The transfer in flight completes: the HAL's interrupt handler marks the *)
(* handle ready and its callback calls cb_event, which posts the           *)
(* semaphore.  The transfer may be one nobody waits for any more.          *)
Complete ==
  /\ InFlight
  /\ MayComplete
  /\ hal' = "ready"
  /\ mine' = FALSE
  /\ answered' = FALSE
  /\ sem' = 1
  /\ buf' = (IF hal = "rx" /\ mine THEN IF answered THEN "good" ELSE "junk" ELSE buf)
  /\ LET d == After(chip, "PAGE_PROGRAM", 4) IN
       chip' = IF hal = "tx" THEN IF mine THEN d ELSE Disown(d) ELSE chip
  /\ smooth' = (smooth /\ mine)
  /\ UNCHANGED << objVars, callVars, posVars, owed, session >>

(* The transfer in flight fails: the HAL marks the handle ready and calls  *)
(* its error callback, which nobody defines.                               *)
TransferError ==
  /\ InFlight
  /\ hal' = "ready"
  /\ mine' = FALSE
  /\ answered' = FALSE
  /\ chip' \in {chip, CutShort(chip)}
  /\ UNCHANGED << objVars, sem, callVars, posVars, buf, owed, histVars >>

(* The chip finishes its program or erase.                                 *)
ChipDone ==
  /\ chip.job # "idle"
  /\ chip' = [chip EXCEPT !.job = "idle"]
  /\ owed' = (IF chip.job = "mine" THEN owed - 1 ELSE owed)
  /\ UNCHANGED << objVars, sem, callVars, posVars, buf, halVars, histVars >>

(* The controller is reset, the chip is not.                               *)
Reboot ==
  /\ pdevice' = Null /\ pimpl' = Null /\ sem' = 0
  /\ op' = "none" /\ phase' = "idle" /\ pc' = 0 /\ try' = "first" /\ left' = 0
  /\ result' = "ok" /\ buf' = "none"
  /\ hal' = "ready" /\ mine' = FALSE /\ answered' = FALSE
  /\ owed' = 0 /\ smooth' = TRUE /\ session' = "none"
  /\ chip' \in {Disown(chip), Disown(CutShort(chip))}

Next ==
  \/ \E o \in Ops, n \in 1 .. MaxPages : Call(o, n)
  \/ DriverStep
  \/ Complete
  \/ TransferError
  \/ ChipDone
  \/ Reboot

(* HAL calls and waits all have a timeout: the driver never stops between  *)
(* two steps. Nothing is assumed of callers, interrupt, chip or resets.    *)
Fairness == WF_vars(DriverStep)

Spec == Init /\ [][Next]_vars /\ Fairness

-----------------------------------------------------------------------------
(* Safety                                                                  *)

(* Once a function's first command was accepted, the peripheral works for  *)
(* nobody else: qspi_command's abort ended any mapping, and any transfer   *)
(* an earlier call gave up waiting for.                                    *)
NoForeignTransfer ==
  Running /\ pc > 1 => /\ hal # "mapped"
                       /\ InFlight => mine

(* A chip that is busy or asleep is in quad mode. initialize relies on it: *)
(* its way out of any state it finds the chip in, sleep (false) and        *)
(* reset_chip, talks on four lines only.                                   *)
BusyOrAsleepIsQuad == Recoverable(chip)

(* However often qspi_command retries, and whatever fails, a call makes    *)
(* the chip run no more programs and erases than the caller asked for.     *)
NothingRunsTwice ==
  /\ owed >= 0
  /\ Running /\ phase = "page" => owed >= left - 1

(* After a clean initialize, and until something fails, the chip is what   *)
(* the results said: ready to read, program and erase, or sleeping; and no *)
(* token, transfer or half-done operation is left behind by any call.      *)
SessionAgrees ==
  ~Running =>
    /\ session # "none" => /\ sem = 0 /\ ~InFlight /\ hal # "error"
                           /\ pdevice = chip.family /\ chip.job = "idle"
    /\ session = "quad"   => Usable(chip)
    /\ session = "asleep" => ~chip.awake

(* In such a session ok means done: a read filled the caller's buffer from *)
(* the chip, a write or an erase is finished, also when commands were      *)
(* retried on the way.                                                     *)
OkMeansDone ==
  ~Running /\ session = "quad" /\ result = "ok" =>
    /\ op = "read" => buf = "good"
    /\ op \in {"write", "erase"} => owed = 0

(* initialize succeeds whenever no HAL call fails for good and no wait     *)
(* times out, in whatever state earlier calls, failures and resets of the  *)
(* controller left the chip: quad mode, asleep, busy or half configured.   *)
InitRecovers ==
  ~Running /\ op = "initialize" /\ smooth => result = "ok"

(* Every function of a call is a finite sequence, sent at most twice with  *)
(* an abort in between, and the calls run finitely many of them: of the    *)
(* HAL calls and waits that may be left at worst, each step of the driver  *)
(* uses up at least one, and nothing else gives it new ones.               *)
StepsIn(ph) == 3 * Len(Script(ph))
StepsAfter ==  \* those of the functions that may still follow
  LET quad == StepsIn("micron")
      id2  == StepsIn("id2") + quad
  IN  CASE phase = "page"                         -> (left - 1) * StepsIn("page")
        [] phase = "id1"                          -> StepsIn("wake") + StepsIn("reset") + id2
        [] phase = "wake" /\ op = "initialize"    -> StepsIn("reset") + id2
        [] phase = "wake" /\ op = "uninitialize"  -> StepsIn("reset")
        [] phase = "reset" /\ op = "initialize"   -> id2
        [] phase = "id2"                          -> quad
        [] OTHER                                  -> 0
TriesLeft == [first |-> 3, abort |-> 2, retry |-> 1]
StepsLeft ==
  IF Running THEN 3 * (Len(Script(phase)) - pc) + TriesLeft[try] + StepsAfter ELSE 0
CallAdvances ==
  [][Running => /\ StepsLeft' \in 0 .. StepsLeft
                /\ DriverStep => StepsLeft' # StepsLeft]_vars

(* Liveness: every call returns, whatever the peripheral does.             *)
EveryCallReturns == Running ~> ~Running

==============================================================================
