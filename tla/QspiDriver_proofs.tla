--------------------------- MODULE QspiDriver_proofs ---------------------------
(***************************************************************************)
(* Machine-checked proofs about the driver, for every number of pages and  *)
(* every set of fitted chips.                                              *)
(***************************************************************************)
EXTENDS QspiDriver, TLAPS

-----------------------------------------------------------------------------
(* The sequences                                                           *)

(* What the proofs use of the sequence of phase ph: it starts with a       *)
(* command, or is a single call; a started transfer is waited for next;    *)
(* only page_write transmits and only erase sends an erase; what makes the *)
(* chip busy or sleep is sent on four lines.                               *)
WellFormed(ph, s) ==
  /\ Len(s) \in Nat \ {0}
  /\ s[1].do \in {"cmd", "setup", "map", "abort"}
  /\ \A i \in 1 .. Len(s) :
       /\ s[i].do \in {"map", "abort"} => i = 1 /\ Len(s) = 1
       /\ s[i].do \in {"rx", "tx", "poll"} => i < Len(s)
       /\ s[i].do = "tx" => ph = "page"
       /\ s[i].do = "identify" <=> ph \in {"id1", "id2"} /\ i = Len(s)
       /\ s[i].do \in {"cmd", "transmit"} =>
            /\ s[i].instr # "PAGE_PROGRAM"
            /\ s[i].instr = "ERASE" => ph = "erase" /\ i > 1
            /\ s[i].instr \in {"ERASE", "POWER_DOWN"} => s[i].lines = 4
            /\ ph \in {"page", "erase"} /\ s[i].instr = "WRITE_ENABLE" => i = 1

(* Every sequence of the driver is well formed.                            *)
LEMMA ScriptsWellFormed ==
  ASSUME NEW ph \in Phases
  PROVE  WellFormed(ph, Script(ph))
<1> USE DEF Script, WellFormed, Step, Wait, PollBusy
<1>1. CASE ph = "id1" BY <1>1 DEF ReadJedecId
<1>2. CASE ph = "id2" BY <1>2 DEF ReadJedecId
<1>3. CASE ph = "read" BY <1>3 DEF Read
<1>4. CASE ph = "page" BY <1>4 DEF PageWrite
<1>5. CASE ph = "erase" BY <1>5 DEF Erase
<1>6. CASE ph = "sleep" BY <1>6 DEF Sleep
<1>7. CASE ph = "wake" BY <1>7 DEF Wake
<1>8. CASE ph = "reset" BY <1>8 DEF ResetChip
<1>9. CASE ph = "map" BY <1>9 DEF EnterMapped
<1>10. CASE ph = "unmap" BY <1>10 DEF ExitMapped
<1>11. CASE ph = "winbond" BY <1>11 DEF QuadWinbond
<1>12. CASE ph = "micron" BY <1>12 DEF QuadMicron
<1> QED BY <1>1, <1>2, <1>3, <1>4, <1>5, <1>6, <1>7, <1>8, <1>9, <1>10, <1>11, <1>12 DEF Phases

-----------------------------------------------------------------------------
(* The chip                                                                *)

(* A command leaves the chip a chip.                                       *)
LEMMA AfterType ==
  ASSUME NEW c \in Chips, NEW instr, NEW lines
  PROVE  After(c, instr, lines) \in Chips
<1>1. PowerOn(c.family) \in Chips BY DEF PowerOn, Chips, Jobs
<1>2. Obey(c, instr) \in Chips BY <1>1 DEF Obey, Chips, Jobs
<1> QED BY <1>2 DEF After

(* So does the end of the function that started its job.                   *)
LEMMA DisownType ==
  ASSUME NEW c \in Chips
  PROVE  Disown(c) \in Chips
BY DEF Disown, Chips, Jobs

(* A transmission cut short is nothing, or a page program.                 *)
LEMMA CutShortType ==
  ASSUME NEW c \in Chips
  PROVE  CutShort(c) \in Chips
BY AfterType, DisownType DEF CutShort

-----------------------------------------------------------------------------
(* Types                                                                   *)

(* Pages are left while one is written.                                    *)
PageLeft == phase = "page" => left > 0

TypeInv == TypeOK /\ PageLeft

(* Where a function returns, the operation goes on with another function,  *)
(* at its first step, or has returned.                                     *)
LEMMA ReturnType ==
  ASSUME TypeInv, Running, NEW r \in Results, NEW quad \in Families \cup {Null},
         NEW rest \in 0 .. MaxPages, NEW d \in Chips,
         phase \in {"id1", "id2"} /\ r = "ok" => quad \in Families,
         FunctionReturns(r, quad, rest, d)
  PROVE  /\ phase' \in Phases \cup {"idle"}
         /\ phase' = "page" => rest > 0
         /\ pc' = IF phase' = "idle" THEN 0 ELSE 1
         /\ try' = "first" /\ result' = r /\ mine' = FALSE /\ answered' = FALSE
         /\ chip' = Disown(d) /\ chip' \in Chips
         /\ smooth' \in BOOLEAN /\ session' \in {"none", "quad", "asleep"}
<1>1. phase \in Phases BY DEF TypeInv, TypeOK, Running
<1>2. phase' = NextPhase(op, phase, r, quad, rest) BY DEF FunctionReturns
<1>3. phase' \in Phases \cup {"idle"} /\ (phase' = "page" => rest > 0)
  BY <1>1, <1>2 DEF NextPhase, Phases, Families, Rescue, MorePages
<1>4. chip' \in Chips BY DisownType DEF FunctionReturns
<1>5. SessionAfter(r, smooth /\ r \in {"ok", "type_not_found"}) \in {"none", "quad", "asleep"}
  BY DEF SessionAfter, TypeInv, TypeOK
<1>6. smooth' \in BOOLEAN /\ session' \in {"none", "quad", "asleep"}
  BY <1>5 DEF FunctionReturns, TypeInv, TypeOK
<1> QED BY <1>2, <1>3, <1>4, <1>6 DEF FunctionReturns

(* The part of TypeInv about the variables Proceed and Fail assign.        *)
CallTyped ==
  /\ phase \in Phases \cup {"idle"}
  /\ pc \in Nat
  /\ Running => pc \in 1 .. Len(Script(phase))
  /\ try \in {"first", "abort", "retry"}
  /\ left \in 0 .. MaxPages
  /\ phase = "page" => left > 0
  /\ result \in Results
  /\ mine \in BOOLEAN /\ answered \in BOOLEAN
  /\ chip \in Chips
  /\ smooth \in BOOLEAN /\ session \in {"none", "quad", "asleep"}

(* Between two functions the call is well typed.                           *)
LEMMA FirstStep ==
  ASSUME NEW ph \in Phases \cup {"idle"}, NEW n, n = IF ph = "idle" THEN 0 ELSE 1
  PROVE  n \in Nat /\ (ph # "idle" => n \in 1 .. Len(Script(ph)))
<1>1. CASE ph = "idle" BY <1>1
<1>2. CASE ph # "idle"
  <2>1. Len(Script(ph)) \in Nat \ {0} BY <1>2, ScriptsWellFormed DEF WellFormed
  <2> QED BY <1>2, <2>1
<1> QED BY <1>1, <1>2

LEMMA ProceedType ==
  ASSUME TypeInv, Running, Now.do # "identify", NEW d \in Chips, Proceed(d)
  PROVE  CallTyped'
<1>1. phase \in Phases /\ pc \in 1 .. Len(Script(phase)) BY DEF TypeInv, TypeOK, Running
<1>2. WellFormed(phase, Script(phase)) BY <1>1, ScriptsWellFormed
<1>3. CASE pc < Len(Script(phase))
  <2>1. /\ pc' = pc + 1 /\ try' = "first" /\ chip' = d
        /\ UNCHANGED << phase, result, mine, answered, left, smooth, session >>
    BY <1>3 DEF Proceed, histVars
  <2>2. pc' \in 1 .. Len(Script(phase)) BY <1>1, <1>2, <1>3, <2>1 DEF WellFormed
  <2> QED BY <2>1, <2>2 DEF CallTyped, TypeInv, TypeOK, PageLeft, Running
<1>4. CASE ~(pc < Len(Script(phase)))
  <2>1. phase \notin {"id1", "id2"} BY <1>1, <1>2, <1>4 DEF WellFormed, Now
  <2>2. left' \in 0 .. MaxPages
    BY <1>4, MaxPagesAssumption DEF Proceed, TypeInv, TypeOK, PageLeft
  <2>3. FunctionReturns("ok", pimpl, left', d) BY <1>4 DEF Proceed
  <2>4. pimpl \in Families \cup {Null} /\ "ok" \in Results BY DEF TypeInv, TypeOK, Results
  <2>5. /\ phase' \in Phases \cup {"idle"}
        /\ phase' = "page" => left' > 0
        /\ pc' = IF phase' = "idle" THEN 0 ELSE 1
        /\ try' = "first" /\ result' = "ok" /\ mine' = FALSE /\ answered' = FALSE
        /\ chip' \in Chips
        /\ smooth' \in BOOLEAN /\ session' \in {"none", "quad", "asleep"}
    BY <2>1, <2>2, <2>3, <2>4, ReturnType
  <2> QED BY <2>2, <2>4, <2>5, FirstStep DEF CallTyped, Running
<1> QED BY <1>3, <1>4

LEMMA FailType ==
  ASSUME TypeInv, Running, NEW r \in Results \ {"ok"}, NEW d \in Chips, Fail(r, d)
  PROVE  CallTyped'
<1>1. FunctionReturns(r, pimpl, left, d) /\ left' = left BY DEF Fail
<1>2. pimpl \in Families \cup {Null} /\ left \in 0 .. MaxPages BY DEF TypeInv, TypeOK
<1>3. /\ phase' \in Phases \cup {"idle"}
      /\ phase' = "page" => left > 0
      /\ pc' = IF phase' = "idle" THEN 0 ELSE 1
      /\ try' = "first" /\ result' = r /\ mine' = FALSE /\ answered' = FALSE
      /\ chip' \in Chips
      /\ smooth' \in BOOLEAN /\ session' \in {"none", "quad", "asleep"}
  BY <1>1, <1>2, ReturnType
<1> QED BY <1>1, <1>2, <1>3, FirstStep DEF CallTyped, Running

(* A started transfer is waited for in the next step.                      *)
LEMMA StartIsNotLast ==
  ASSUME TypeInv, At({"rx", "tx", "poll"})
  PROVE  pc + 1 \in 1 .. Len(Script(phase))
<1>1. phase \in Phases /\ pc \in 1 .. Len(Script(phase)) BY DEF TypeInv, TypeOK, At, Running
<1>2. WellFormed(phase, Script(phase)) BY <1>1, ScriptsWellFormed
<1> QED BY <1>1, <1>2 DEF WellFormed, At, Now

(* The part of TypeInv about the other variables.                          *)
RestTyped ==
  /\ pdevice \in Families \cup {Null} /\ pimpl \in Families \cup {Null}
  /\ sem \in {0, 1} /\ op \in Ops \cup {"none"}
  /\ buf \in {"none", "good", "junk"}
  /\ hal \in {"ready", "error", "rx", "tx", "poll", "mapped"}
  /\ owed \in Int

LEMMA TypeInit == Init => TypeInv
<1> SUFFICES ASSUME Init PROVE TypeInv
  OBVIOUS
<1>1. chip \in Chips BY FittedAssumption DEF Init, PowerOn, Chips, Jobs
<1>2. ~Running BY DEF Init, Running
<1>3. mine \in BOOLEAN /\ answered \in BOOLEAN /\ smooth \in BOOLEAN BY DEF Init
<1>4. left \in 0 .. MaxPages /\ pc \in Nat /\ owed \in Int BY MaxPagesAssumption DEF Init
<1> QED BY <1>1, <1>2, <1>3, <1>4 DEF Init, TypeInv, TypeOK, PageLeft, Null, Results

LEMMA TypeNext == TypeInv /\ [Next]_vars => TypeInv'
<1> SUFFICES ASSUME TypeInv, [Next]_vars PROVE CallTyped' /\ RestTyped'
  BY DEF TypeInv, TypeOK, PageLeft, CallTyped, RestTyped
<1> USE DEF TypeInv, TypeOK
<1>1. ASSUME NEW o \in Ops, NEW n \in 1 .. MaxPages, Call(o, n) PROVE CallTyped' /\ RestTyped'
  <2>1. phase' \in Phases \cup {"idle"} /\ pc' = IF phase' = "idle" THEN 0 ELSE 1
    BY <1>1 DEF Call, FirstPhase, Ops, Phases
  <2>2. phase' = "page" => o = "write" BY <1>1 DEF Call, FirstPhase, Ops
  <2>3. left' \in 0 .. MaxPages /\ (o = "write" => left' > 0) BY <1>1, MaxPagesAssumption DEF Call
  <2>4. /\ try' = "first" /\ result' \in Results /\ smooth' \in BOOLEAN
        /\ UNCHANGED << mine, answered, chip, session >>
    BY <1>1 DEF Call, Results, halVars
  <2>5. CallTyped' BY <2>1, <2>2, <2>3, <2>4, FirstStep DEF CallTyped, Running
  <2> QED BY <1>1, <2>5, MaxPagesAssumption DEF Call, RestTyped, Null, halVars
<1>2. CASE CommandOk
  <2>1. After(chip, Now.instr, Now.lines) \in Chips BY AfterType
  <2>2. CallTyped' BY <1>2, <2>1, ProceedType DEF CommandOk, At
  <2> QED BY <1>2, <2>2 DEF CommandOk, RestTyped, objVars, KeepBuffer
<1>3. CASE CommandFails
  <2>1. PICK d \in Chips : IF try = "first" THEN FirstFails(d) ELSE RetryFails(d)
    BY <1>3, AfterType DEF CommandFails
  <2>2. ASSUME try = "first" PROVE CallTyped'
    <3>1. FirstFails(d) BY <2>1, <2>2
    <3> QED BY <3>1 DEF FirstFails, CallTyped, PageLeft, Running, histVars
  <2>3. ASSUME try # "first" PROVE CallTyped'
    <3>1. Fail("error", d) BY <2>1, <2>3 DEF RetryFails
    <3>2. Running BY <1>3 DEF CommandFails, At
    <3> QED BY <3>1, <3>2, FailType DEF Results
  <2> QED BY <1>3, <2>2, <2>3 DEF CommandFails, RestTyped, objVars, KeepBuffer
<1>4. CASE AbortBeforeRetry
  <2>1. chip' \in Chips BY <1>4, CutShortType DEF AbortBeforeRetry
  <2> QED BY <1>4, <2>1 DEF AbortBeforeRetry, CallTyped, RestTyped, PageLeft, Running,
                            objVars, callVars, histVars
<1>5. CASE Transmit
  <2>1. After(chip, Now.instr, Now.lines) \in Chips BY AfterType
  <2>2. CallTyped' BY <1>5, <2>1, ProceedType, FailType DEF Transmit, At, Results
  <2> QED BY <1>5, <2>2 DEF Transmit, RestTyped, objVars, KeepBuffer
<1>6. CASE StartTransfer
  <2>1. answered' \in BOOLEAN BY <1>6 DEF StartTransfer, Accepts, Chips
  <2> QED BY <1>6, <2>1, StartIsNotLast
          DEF StartTransfer, CallTyped, RestTyped, PageLeft, Running, At, objVars, callVars, histVars
<1>7. CASE StartFails
  <2>1. CallTyped' BY <1>7, FailType DEF StartFails, At, Results
  <2> QED BY <1>7, <2>1 DEF StartFails, RestTyped, objVars, KeepBuffer
<1>8. CASE WaitOk
  <2>1. CallTyped' BY <1>8, ProceedType DEF WaitOk, At
  <2> QED BY <1>8, <2>1 DEF WaitOk, RestTyped, objVars, KeepBuffer
<1>9. CASE WaitTimeout
  <2>1. CallTyped' BY <1>9, FailType DEF WaitTimeout, At, Results
  <2> QED BY <1>9, <2>1 DEF WaitTimeout, RestTyped, objVars, KeepBuffer
<1>10. CASE Identify
  <2>1. chip.family \in Families BY DEF Chips
  <2>2. PICK r \in {"ok", "type_not_found"} :
          /\ FunctionReturns(r, IF r = "ok" THEN chip.family ELSE pimpl, left, chip)
          /\ pdevice' \in Families \cup {Null} /\ pimpl' \in Families \cup {Null}
    BY <1>10, <2>1 DEF Identify, objVars
  <2>3. CallTyped'
    BY <1>10, <2>1, <2>2, ReturnType, FirstStep
       DEF Identify, At, CallTyped, Running, Results, callVars
  <2> QED BY <1>10, <2>2, <2>3 DEF Identify, RestTyped, callVars
<1>11. CASE EnterMemMapped
  <2>1. CallTyped' BY <1>11, ProceedType, FailType DEF EnterMemMapped, At, Results
  <2> QED BY <1>11, <2>1 DEF EnterMemMapped, RestTyped, objVars, KeepBuffer
<1>12. CASE ExitMemMapped
  <2>1. CallTyped' BY <1>12, CutShortType, ProceedType, FailType DEF ExitMemMapped, At, Results
  <2> QED BY <1>12, <2>1 DEF ExitMemMapped, RestTyped, objVars, KeepBuffer
<1>13. CASE Complete
  <2>1. chip' \in Chips BY <1>13, AfterType, DisownType DEF Complete
  <2> QED BY <1>13, <2>1 DEF Complete, CallTyped, RestTyped, PageLeft, Running,
                             objVars, callVars, posVars
<1>14. CASE TransferError
  <2>1. chip' \in Chips BY <1>14, CutShortType DEF TransferError
  <2> QED BY <1>14, <2>1 DEF TransferError, CallTyped, RestTyped, PageLeft, Running,
                             objVars, callVars, posVars, histVars
<1>15. CASE ChipDone
  <2>1. chip' \in Chips BY <1>15 DEF ChipDone, Chips, Jobs
  <2> QED BY <1>15, <2>1 DEF ChipDone, CallTyped, RestTyped, PageLeft, Running,
                             objVars, callVars, posVars, histVars, halVars
<1>16. CASE Reboot
  <2>1. chip' \in Chips BY <1>16, CutShortType, DisownType DEF Reboot
  <2>2. ~Running' /\ left' \in 0 .. MaxPages /\ pc' \in Nat /\ owed' \in Int
    BY <1>16, MaxPagesAssumption DEF Reboot, Running
  <2>3. mine' \in BOOLEAN /\ answered' \in BOOLEAN /\ smooth' \in BOOLEAN BY <1>16 DEF Reboot
  <2> QED BY <1>16, <2>1, <2>2, <2>3 DEF Reboot, CallTyped, RestTyped, Null, Results
<1>17. CASE UNCHANGED vars
  BY <1>17 DEF vars, CallTyped, RestTyped, PageLeft, Running
<1> QED BY <1>1, <1>2, <1>3, <1>4, <1>5, <1>6, <1>7, <1>8, <1>9, <1>10, <1>11, <1>12,
           <1>13, <1>14, <1>15, <1>16, <1>17 DEF Next, DriverStep

(* Type correctness, in every state of every behaviour.                    *)
THEOREM TypeCorrect == Spec => []TypeOK
<1>1. TypeInv => TypeOK BY DEF TypeInv
<1> QED BY TypeInit, TypeNext, <1>1, PTL DEF Spec

-----------------------------------------------------------------------------
(* No function shares the peripheral                                       *)

(* NoForeignTransfer needs to know that a transfer marked as the running   *)
(* function's is in flight, was started by a step of that function, and    *)
(* transmits only for page_write.                                          *)
MineInFlight ==
  mine => /\ InFlight /\ Running /\ pc > 1
          /\ hal = "tx" => phase = "page"

TransferInv == NoForeignTransfer /\ MineInFlight

(* Between two functions nothing is marked.                                *)
Between == pc \in {0, 1} /\ ~mine

LEMMA ReturnIsBetween ==
  ASSUME NEW r, NEW quad, NEW rest, NEW d, FunctionReturns(r, quad, rest, d)
  PROVE  Between'
BY DEF FunctionReturns, Between

LEMMA BetweenIsSafe ==
  ASSUME Between'
  PROVE  TransferInv'
BY DEF Between, TransferInv, NoForeignTransfer, MineInFlight

LEMMA FailIsSafe ==
  ASSUME NEW r, NEW d, Fail(r, d)
  PROVE  TransferInv'
BY ReturnIsBetween, BetweenIsSafe DEF Fail

(* A step taken with an idle handle, or past the first command, is safe.   *)
LEMMA ProceedIsSafe ==
  ASSUME TypeInv, TransferInv, Running, NEW d, Proceed(d), hal' = hal,
         hal = "ready" \/ pc > 1
  PROVE  TransferInv'
<1>1. CASE pc < Len(Script(phase))
  <2>1. pc' = pc + 1 /\ phase' = phase /\ mine' = mine BY <1>1 DEF Proceed
  <2>2. pc \in Nat BY DEF TypeInv, TypeOK
  <2> QED BY <2>1, <2>2 DEF TransferInv, NoForeignTransfer, MineInFlight, InFlight, Running
<1>2. CASE ~(pc < Len(Script(phase)))
  BY <1>2, ReturnIsBetween, BetweenIsSafe DEF Proceed
<1> QED BY <1>1, <1>2

(* A function of one call returns after it.                                *)
LEMMA SingleCall ==
  ASSUME TypeInv, At({"map", "abort"}), NEW d, Proceed(d)
  PROVE  TransferInv'
<1>1. phase \in Phases /\ pc \in 1 .. Len(Script(phase)) BY DEF TypeInv, TypeOK, At, Running
<1>2. ~(pc < Len(Script(phase))) BY <1>1, ScriptsWellFormed DEF WellFormed, At, Now
<1> QED BY <1>2, ReturnIsBetween, BetweenIsSafe DEF Proceed

LEMMA TransferInit == Init => TransferInv
BY DEF Init, TransferInv, NoForeignTransfer, MineInFlight, Running

LEMMA TransferNext == TypeInv /\ TransferInv /\ [Next]_vars => TransferInv'
<1> SUFFICES ASSUME TypeInv, TransferInv, [Next]_vars PROVE TransferInv'
  OBVIOUS
<1>0. ASSUME Running
      PROVE  phase \in Phases /\ pc \in 1 .. Len(Script(phase)) /\ WellFormed(phase, Script(phase))
  BY <1>0, ScriptsWellFormed DEF TypeInv, TypeOK, Running
<1>1. ASSUME NEW o \in Ops, NEW n \in 1 .. MaxPages, Call(o, n) PROVE TransferInv'
  <2>1. Between' BY <1>1 DEF Call, Between, halVars, TransferInv, MineInFlight
  <2> QED BY <2>1, BetweenIsSafe
<1>2. CASE CommandOk
  BY <1>2, ProceedIsSafe DEF CommandOk, At
<1>3. CASE CommandFails
  <2>1. PICK d : IF try = "first" THEN FirstFails(d) ELSE RetryFails(d)
    BY <1>3 DEF CommandFails
  <2>2. CASE try # "first" BY <2>1, <2>2, FailIsSafe DEF RetryFails
  <2>3. CASE try = "first"
    <3>1. UNCHANGED << phase, pc, mine >> BY <2>1, <2>3 DEF FirstFails
    <3>2. hal' = IF hal = "ready" THEN "error" ELSE hal BY <1>3 DEF CommandFails
    <3> QED BY <3>1, <3>2 DEF TransferInv, NoForeignTransfer, MineInFlight, InFlight, Running
  <2> QED BY <2>2, <2>3
<1>4. CASE AbortBeforeRetry
  BY <1>4 DEF AbortBeforeRetry, TransferInv, NoForeignTransfer, MineInFlight, InFlight
<1>5. CASE Transmit
  BY <1>5, ProceedIsSafe, FailIsSafe DEF Transmit, At
<1>6. CASE StartTransfer
  <2>1. pc \in Nat \ {0} /\ (Now.do = "tx" => phase = "page") /\ Running
    BY <1>0, <1>6 DEF StartTransfer, At, Now, WellFormed
  <2>2. /\ hal' = Now.do /\ Now.do \in {"rx", "tx", "poll"}
        /\ mine' = TRUE /\ pc' = pc + 1 /\ phase' = phase
    BY <1>6 DEF StartTransfer, At
  <2> QED BY <2>1, <2>2 DEF TransferInv, NoForeignTransfer, MineInFlight, InFlight, Running
<1>7. CASE StartFails
  BY <1>7, FailIsSafe DEF StartFails
<1>8. CASE WaitOk
  <2>1. Running /\ pc > 1 BY <1>0, <1>8 DEF WaitOk, At, Now, WellFormed
  <2> QED BY <1>8, <2>1, ProceedIsSafe DEF WaitOk
<1>9. CASE WaitTimeout
  BY <1>9, FailIsSafe DEF WaitTimeout
<1>10. CASE Identify
  BY <1>10, ReturnIsBetween, BetweenIsSafe DEF Identify
<1>11. CASE EnterMemMapped
  BY <1>11, SingleCall, FailIsSafe DEF EnterMemMapped, At
<1>12. CASE ExitMemMapped
  BY <1>12, SingleCall, FailIsSafe DEF ExitMemMapped, At
<1>13. CASE Complete
  BY <1>13 DEF Complete, TransferInv, NoForeignTransfer, MineInFlight, InFlight
<1>14. CASE TransferError
  BY <1>14 DEF TransferError, TransferInv, NoForeignTransfer, MineInFlight, InFlight
<1>15. CASE ChipDone
  BY <1>15 DEF ChipDone, halVars, posVars, TransferInv, NoForeignTransfer, MineInFlight,
              InFlight, Running
<1>16. CASE Reboot
  BY <1>16 DEF Reboot, TransferInv, NoForeignTransfer, MineInFlight, Running
<1>17. CASE UNCHANGED vars
  BY <1>17 DEF vars, TransferInv, NoForeignTransfer, MineInFlight, InFlight, Running
<1> QED BY <1>1, <1>2, <1>3, <1>4, <1>5, <1>6, <1>7, <1>8, <1>9, <1>10, <1>11, <1>12,
           <1>13, <1>14, <1>15, <1>16, <1>17 DEF Next, DriverStep

(* Past its first command a function has the peripheral for itself: no     *)
(* transfer an earlier call gave up, and no mapping, is still there.       *)
THEOREM PeripheralNotShared == Spec => []NoForeignTransfer
<1>1. TransferInv => NoForeignTransfer BY DEF TransferInv
<1> QED BY TypeInit, TypeNext, TransferInit, TransferNext, <1>1, PTL DEF Spec

-----------------------------------------------------------------------------
(* A chip that is busy or asleep can be reset                              *)

LEMMA AfterRecoverable ==
  ASSUME NEW c \in Chips, Recoverable(c), NEW instr, NEW lines,
         instr \in {"PAGE_PROGRAM", "ERASE", "POWER_DOWN"} => lines = 4
  PROVE  Recoverable(After(c, instr, lines))
<1>1. Recoverable(PowerOn(c.family)) BY DEF PowerOn, Recoverable
<1>2. CASE ~Accepts(c, instr, lines) BY <1>2 DEF After
<1>3. CASE Accepts(c, instr, lines)
  <2>1. lines = 4 => c.mode = "qpi" BY <1>3 DEF Accepts, Chips
  <2> QED BY <1>1, <1>3, <2>1 DEF After, Obey, Recoverable, StartsJob, Chips
<1> QED BY <1>2, <1>3

LEMMA DisownRecoverable ==
  ASSUME NEW c \in Chips, Recoverable(c)
  PROVE  Recoverable(Disown(c))
BY DEF Disown, Recoverable, Chips

LEMMA CutShortRecoverable ==
  ASSUME NEW c \in Chips, Recoverable(c)
  PROVE  Recoverable(CutShort(c))
<1>1. Recoverable(After(c, "PAGE_PROGRAM", 4)) BY AfterRecoverable
<1> QED BY <1>1, AfterType, DisownRecoverable DEF CutShort

LEMMA ProceedChip ==
  ASSUME NEW d, Proceed(d)
  PROVE  chip' \in {d, Disown(d)}
BY DEF Proceed, FunctionReturns

LEMMA FailChip ==
  ASSUME NEW r, NEW d, Fail(r, d)
  PROVE  chip' = Disown(d)
BY DEF Fail, FunctionReturns

(* What a command or register write of any sequence does to the chip.      *)
LEMMA CommandRecoverable ==
  ASSUME TypeInv, BusyOrAsleepIsQuad, At({"cmd", "transmit"})
  PROVE  Recoverable(After(chip, Now.instr, Now.lines))
<1>1. phase \in Phases /\ pc \in 1 .. Len(Script(phase)) /\ chip \in Chips
  BY DEF TypeInv, TypeOK, At, Running
<1>2. Now.instr \in {"PAGE_PROGRAM", "ERASE", "POWER_DOWN"} => Now.lines = 4
  BY <1>1, ScriptsWellFormed DEF WellFormed, At, Now
<1> QED BY <1>1, <1>2, AfterRecoverable DEF BusyOrAsleepIsQuad

LEMMA RecoverableInit == Init => BusyOrAsleepIsQuad
BY FittedAssumption DEF Init, BusyOrAsleepIsQuad, Recoverable, PowerOn

LEMMA RecoverableNext == TypeInv /\ BusyOrAsleepIsQuad /\ [Next]_vars => BusyOrAsleepIsQuad'
<1> SUFFICES ASSUME TypeInv, BusyOrAsleepIsQuad, [Next]_vars PROVE Recoverable(chip')
  BY DEF BusyOrAsleepIsQuad
<1>0. chip \in Chips /\ Recoverable(chip) BY DEF TypeInv, TypeOK, BusyOrAsleepIsQuad
<1> DEFINE Sent == After(chip, Now.instr, Now.lines)
           Done == After(chip, "PAGE_PROGRAM", 4)
<1>a. Sent \in Chips /\ Done \in Chips /\ CutShort(chip) \in Chips
  BY <1>0, AfterType, CutShortType
<1>b. Recoverable(Done) /\ Recoverable(CutShort(chip))
  BY <1>0, AfterRecoverable, CutShortRecoverable
<1>1. ASSUME NEW o \in Ops, NEW n \in 1 .. MaxPages, Call(o, n) PROVE chip' = chip
  BY <1>1 DEF Call
<1>2. CASE CommandOk
  <2>1. CASE Now.do = "cmd"
    <3>1. Recoverable(Sent) BY <1>2, <2>1, CommandRecoverable DEF CommandOk, At
    <3>2. chip' \in {Sent, Disown(Sent)} BY <1>2, <2>1, ProceedChip DEF CommandOk
    <3> QED BY <1>a, <3>1, <3>2, DisownRecoverable
  <2>2. CASE Now.do # "cmd"
    BY <1>0, <1>2, <2>2, ProceedChip, DisownRecoverable DEF CommandOk
  <2> QED BY <2>1, <2>2
<1>3. CASE CommandFails
  <2>1. PICK d \in Chips : /\ Recoverable(d)
                           /\ IF try = "first" THEN FirstFails(d) ELSE RetryFails(d)
    <3>1. CASE Now.do = "cmd"
      <4>1. Recoverable(Sent) BY <1>3, <3>1, CommandRecoverable DEF CommandFails, At
      <4> QED BY <1>0, <1>3, <1>a, <4>1 DEF CommandFails
    <3>2. CASE Now.do # "cmd" BY <1>0, <1>3, <3>2 DEF CommandFails
    <3> QED BY <3>1, <3>2
  <2>2. chip' = d \/ chip' = Disown(d) BY <2>1, FailChip DEF FirstFails, RetryFails
  <2> QED BY <2>1, <2>2, DisownRecoverable
<1>4. CASE AbortBeforeRetry BY <1>0, <1>4, <1>b DEF AbortBeforeRetry
<1>5. CASE Transmit
  <2>1. Recoverable(Sent) BY <1>5, CommandRecoverable DEF Transmit, At
  <2>2. chip' \in {Sent, Disown(Sent), Disown(chip)} BY <1>5, ProceedChip, FailChip DEF Transmit
  <2> QED BY <1>0, <1>a, <2>1, <2>2, DisownRecoverable
<1>6. CASE StartTransfer BY <1>0, <1>6 DEF StartTransfer
<1>7. CASE StartFails BY <1>0, <1>7, FailChip, DisownRecoverable DEF StartFails
<1>8. CASE WaitOk BY <1>0, <1>8, ProceedChip, DisownRecoverable DEF WaitOk
<1>9. CASE WaitTimeout BY <1>0, <1>9, FailChip, DisownRecoverable DEF WaitTimeout
<1>10. CASE Identify
  BY <1>0, <1>10, DisownRecoverable DEF Identify, FunctionReturns
<1>11. CASE EnterMemMapped
  BY <1>0, <1>11, ProceedChip, FailChip, DisownRecoverable DEF EnterMemMapped
<1>12. CASE ExitMemMapped
  <2>1. PICK d \in Chips : Recoverable(d) /\ (Proceed(d) \/ Fail("error", d))
    BY <1>0, <1>12, <1>a, <1>b DEF ExitMemMapped
  <2> QED BY <2>1, ProceedChip, FailChip, DisownRecoverable
<1>13. CASE Complete
  BY <1>0, <1>13, <1>a, <1>b, DisownRecoverable DEF Complete
<1>14. CASE TransferError BY <1>0, <1>14, <1>b DEF TransferError
<1>15. CASE ChipDone BY <1>0, <1>15 DEF ChipDone, Recoverable, Chips
<1>16. CASE Reboot BY <1>0, <1>16, <1>a, <1>b, DisownRecoverable DEF Reboot
<1>17. CASE UNCHANGED vars BY <1>0, <1>17 DEF vars
<1> QED BY <1>0, <1>1, <1>2, <1>3, <1>4, <1>5, <1>6, <1>7, <1>8, <1>9, <1>10, <1>11, <1>12,
           <1>13, <1>14, <1>15, <1>16, <1>17 DEF Next, DriverStep

(* sleep (false) and reset_chip reach every chip that is busy or asleep.   *)
THEOREM RescueIsHeard == Spec => []BusyOrAsleepIsQuad
BY TypeInit, TypeNext, RecoverableInit, RecoverableNext, PTL DEF Spec

-----------------------------------------------------------------------------
(* No program or erase runs twice                                          *)

Programs == {"page", "erase"}

(* Programs and erases the running function may still add to what the chip *)
(* has done of this call, itself included.                                 *)
Quota == IF phase = "page" THEN left ELSE 1

(* The one job of the function: its write enable latch is set, or it runs; *)
(* never both.                                                             *)
Committed(c) == c.wel \/ c.job = "mine"
OneJob(c)    == ~(c.wel /\ c.job = "mine")

(* The function starts with its whole quota and sets the latch once, in    *)
(* its first step: a job that begins uses the latch up.                    *)
OnceInv ==
  /\ owed >= 0
  /\ chip.job = "mine" => Running /\ phase \in Programs /\ pc > 1
  /\ Running /\ phase \in Programs /\ pc = 1 => owed >= Quota
  /\ Running /\ phase \in Programs /\ pc > 1 =>
       /\ OneJob(chip)
       /\ owed >= Quota - 1
       /\ Committed(chip) => owed >= Quota

(* A chip state d that a step of the running function may lead to.         *)
Within(d) ==
  /\ d \in Chips
  /\ d.job = "mine" => Running /\ phase \in Programs /\ pc > 1
  /\ Running /\ phase \in Programs /\ pc > 1 =>
       OneJob(d) /\ (Committed(d) => Committed(chip))

LEMMA DisownsJob ==
  ASSUME NEW c \in Chips
  PROVE  Disown(c).job # "mine" /\ Disown(c).wel = c.wel
BY DEF Disown, Chips, Jobs

(* Only WRITE_ENABLE sets the latch, only a program or erase starts a job, *)
(* and that clears it.                                                     *)
LEMMA AfterCommits ==
  ASSUME NEW c \in Chips, NEW instr, NEW lines, instr # "WRITE_ENABLE"
  PROVE  /\ OneJob(c) => OneJob(After(c, instr, lines))
         /\ Committed(After(c, instr, lines)) => Committed(c)
<1>1. PowerOn(c.family).wel = FALSE /\ PowerOn(c.family).job = "idle" BY DEF PowerOn
<1> QED BY <1>1 DEF After, Accepts, Obey, OneJob, Committed, StartsJob, Chips

LEMMA AfterStarts ==
  ASSUME NEW c \in Chips, NEW instr, NEW lines, instr \notin StartsJob,
         After(c, instr, lines).job = "mine"
  PROVE  c.job = "mine"
<1>1. PowerOn(c.family).job = "idle" BY DEF PowerOn
<1> QED BY <1>1 DEF After, Obey

LEMMA WithinChip == TypeInv /\ OnceInv => Within(chip)
BY DEF TypeInv, TypeOK, OnceInv, Within

LEMMA WithinDisowned ==
  ASSUME NEW d, Within(d)
  PROVE  Within(Disown(d))
BY DisownType, DisownsJob DEF Within, OneJob, Committed

LEMMA WithinSent ==
  ASSUME TypeInv, OnceInv, At({"cmd", "transmit"})
  PROVE  Within(After(chip, Now.instr, Now.lines))
<1> DEFINE Sent == After(chip, Now.instr, Now.lines)
<1>1. phase \in Phases /\ pc \in 1 .. Len(Script(phase)) /\ chip \in Chips /\ Running
  BY DEF TypeInv, TypeOK, At, Running
<1>2. /\ Now.instr # "PAGE_PROGRAM"
      /\ Now.instr = "ERASE" => phase = "erase" /\ pc > 1
      /\ phase \in Programs /\ pc > 1 => Now.instr # "WRITE_ENABLE"
  BY <1>1, ScriptsWellFormed DEF WellFormed, At, Now, Programs
<1>3. Sent \in Chips BY <1>1, AfterType
<1>4. Sent.job = "mine" => phase \in Programs /\ pc > 1
  BY <1>1, <1>2, AfterStarts DEF OnceInv, StartsJob, Programs
<1>5. phase \in Programs /\ pc > 1 => OneJob(Sent) /\ (Committed(Sent) => Committed(chip))
  BY <1>1, <1>2, AfterCommits DEF OnceInv
<1> QED BY <1>1, <1>3, <1>4, <1>5 DEF Within

(* A page program that begins, for the running function or another.        *)
LEMMA WithinDone ==
  ASSUME TypeInv, OnceInv
  PROVE  LET Done == After(chip, "PAGE_PROGRAM", 4)
         IN  /\ Running /\ phase = "page" /\ pc > 1 => Within(Done)
             /\ Within(Disown(Done))
<1> DEFINE Done == After(chip, "PAGE_PROGRAM", 4)
<1>1. chip \in Chips /\ Done \in Chips BY AfterType DEF TypeInv, TypeOK
<1>2. (OneJob(chip) => OneJob(Done)) /\ (Committed(Done) => Committed(chip))
  BY <1>1, AfterCommits
<1>3. Disown(Done) \in Chips /\ Disown(Done).job # "mine" /\ Disown(Done).wel = Done.wel
  BY <1>1, DisownType, DisownsJob
<1> QED BY <1>1, <1>2, <1>3 DEF Within, OnceInv, OneJob, Committed, Programs

LEMMA WithinCutShort ==
  ASSUME TypeInv, OnceInv
  PROVE  Within(CutShort(chip))
BY WithinChip, WithinDone DEF CutShort

(* The chip changes under a function that stays where it is.               *)
LEMMA OnceStays ==
  ASSUME TypeInv, OnceInv, Within(chip'), UNCHANGED << phase, pc, left, owed >>
  PROVE  OnceInv'
BY DEF OnceInv, Within, Quota, Running

(* Only a page that was written is followed by a program.                  *)
LEMMA NextProgram ==
  ASSUME TypeInv, Running, NEW r \in Results, NEW rest,
         NextPhase(op, phase, r, pimpl, rest) \in Programs
  PROVE  phase = "page" /\ r = "ok" /\ NextPhase(op, phase, r, pimpl, rest) = "page"
BY DEF TypeInv, TypeOK, NextPhase, Programs, Families, Null, Rescue, Results

LEMMA OnceFails ==
  ASSUME TypeInv, OnceInv, Running, NEW d, Within(d), NEW r \in Results \ {"ok"},
         Fail(r, d), owed' = owed
  PROVE  OnceInv'
<1>1. phase' \notin Programs BY NextProgram DEF Fail, FunctionReturns
<1>2. chip' = Disown(d) BY FailChip
<1>3. chip'.job # "mine" BY <1>2, DisownsJob DEF Within
<1> QED BY <1>1, <1>3 DEF OnceInv

LEMMA OnceProceeds ==
  ASSUME TypeInv, OnceInv, Running, NEW d, Within(d), Proceed(d), owed' = owed
  PROVE  OnceInv'
<1>1. pc \in Nat \ {0} BY DEF TypeInv, TypeOK
<1>2. CASE pc < Len(Script(phase))
  <2>1. pc' = pc + 1 /\ chip' = d /\ phase' = phase /\ left' = left
    BY <1>2 DEF Proceed
  <2>2. Running' /\ pc' > 1 BY <1>1, <2>1 DEF Running
  <2>3. Quota' = Quota BY <2>1 DEF Quota
  <2>4. phase \in Programs => owed >= Quota - 1 /\ (Committed(d) => owed >= Quota) /\ OneJob(d)
    <3>1. CASE pc = 1
      BY <3>1 DEF OnceInv, Within, OneJob, Committed, Quota, TypeInv, TypeOK
    <3>2. CASE pc > 1
      BY <3>2 DEF OnceInv, Within
    <3> QED BY <1>1, <3>1, <3>2
  <2> QED BY <2>1, <2>2, <2>3, <2>4 DEF OnceInv, Within
<1>3. CASE ~(pc < Len(Script(phase)))
  <2>1. /\ left' = (IF phase = "page" THEN left - 1 ELSE left)
        /\ FunctionReturns("ok", pimpl, left', d)
    BY <1>3 DEF Proceed
  <2>2. phase' = NextPhase(op, phase, "ok", pimpl, left') /\ chip' = Disown(d) /\ pc' \in {0, 1}
    BY <2>1 DEF FunctionReturns
  <2>3. phase' \in Programs => phase = "page" /\ phase' = "page"
    BY <2>2, NextProgram DEF Results
  <2>4. chip'.job # "mine" BY <2>2, DisownsJob DEF Within
  <2>5. phase' \in Programs => owed' >= Quota'
    BY <1>1, <2>1, <2>3 DEF OnceInv, Quota, Programs, TypeInv, TypeOK
  <2> QED BY <2>2, <2>4, <2>5 DEF OnceInv
<1> QED BY <1>2, <1>3

LEMMA OnceInit == Init => OnceInv
BY DEF Init, OnceInv, Running, PowerOn

LEMMA OnceNext == TypeInv /\ TransferInv /\ OnceInv /\ [Next]_vars => OnceInv'
<1> SUFFICES ASSUME TypeInv, TransferInv, OnceInv, [Next]_vars PROVE OnceInv'
  OBVIOUS
<1> DEFINE Sent == After(chip, Now.instr, Now.lines)
           Done == After(chip, "PAGE_PROGRAM", 4)
<1>0. Within(chip) /\ Within(CutShort(chip)) BY WithinChip, WithinCutShort
<1>1. ASSUME NEW o \in Ops, NEW n \in 1 .. MaxPages, Call(o, n) PROVE OnceInv'
  <2>1. chip' = chip /\ chip.job # "mine" BY <1>1 DEF Call, OnceInv
  <2>2. pc' \in {0, 1} /\ (phase' = "page" => o = "write") /\ (phase' = "erase" => o = "erase")
    BY <1>1 DEF Call, FirstPhase, Ops
  <2>3. owed' >= 0 /\ (phase' \in Programs => owed' >= Quota')
    BY <1>1, <2>2, MaxPagesAssumption DEF Call, Quota, Programs
  <2> QED BY <2>1, <2>2, <2>3 DEF OnceInv
<1>2. CASE CommandOk
  <2>1. PICK d : Within(d) /\ Proceed(d)
    BY <1>0, <1>2, WithinSent DEF CommandOk, At
  <2> QED BY <1>2, <2>1, OnceProceeds DEF CommandOk, At
<1>3. CASE CommandFails
  <2>1. PICK d : Within(d) /\ IF try = "first" THEN FirstFails(d) ELSE RetryFails(d)
    <3>1. CASE Now.do = "cmd"
      <4>1. Within(Sent) BY <1>3, <3>1, WithinSent DEF CommandFails, At
      <4> QED BY <1>0, <1>3, <4>1 DEF CommandFails
    <3>2. CASE Now.do # "cmd" BY <1>0, <1>3, <3>2 DEF CommandFails
    <3> QED BY <3>1, <3>2
  <2>2. CASE try = "first"
    BY <1>3, <2>1, <2>2, OnceStays DEF CommandFails, FirstFails
  <2>3. CASE try # "first"
    BY <1>3, <2>1, <2>3, OnceFails DEF CommandFails, RetryFails, At, Results
  <2> QED BY <2>2, <2>3
<1>4. CASE AbortBeforeRetry
  BY <1>0, <1>4, OnceStays DEF AbortBeforeRetry, callVars
<1>5. CASE Transmit
  <2>1. Within(Sent) BY <1>5, WithinSent DEF Transmit, At
  <2> QED BY <1>0, <1>5, <2>1, OnceProceeds, OnceFails DEF Transmit, At, Results
<1>6. CASE StartTransfer
  <2>1. /\ pc' = pc + 1 /\ pc \in Nat \ {0} /\ Running
        /\ UNCHANGED << phase, left, owed, chip >>
    BY <1>6 DEF StartTransfer, At, callVars, TypeInv, TypeOK
  <2>2. pc > 1
    <3>1. phase \in Phases /\ pc \in 1 .. Len(Script(phase))
      BY <2>1 DEF TypeInv, TypeOK, Running
    <3> QED BY <1>6, <2>1, <3>1, ScriptsWellFormed DEF StartTransfer, At, Now, WellFormed
  <2> QED BY <2>1, <2>2 DEF OnceInv, Quota, Running
<1>7. CASE StartFails
  BY <1>0, <1>7, OnceFails DEF StartFails, At, Results
<1>8. CASE WaitOk BY <1>0, <1>8, OnceProceeds DEF WaitOk, At
<1>9. CASE WaitTimeout BY <1>0, <1>9, OnceFails DEF WaitTimeout, At, Results
<1>10. CASE Identify
  <2>1. phase \in {"id1", "id2"}
    <3>1. phase \in Phases /\ pc \in 1 .. Len(Script(phase))
      BY <1>10 DEF Identify, At, TypeInv, TypeOK, Running
    <3> QED BY <1>10, <3>1, ScriptsWellFormed DEF Identify, At, Now, WellFormed
  <2>2. PICK r \in {"ok", "type_not_found"}, quad \in Families \cup {Null} :
          FunctionReturns(r, quad, left, chip)
    BY <1>10 DEF Identify, TypeInv, TypeOK, Chips
  <2>3. phase' = NextPhase(op, phase, r, quad, left) /\ chip' = Disown(chip)
    BY <2>2 DEF FunctionReturns
  <2>4. phase' \notin Programs
    BY <2>1, <2>3 DEF NextPhase, Programs, Families, Null, Rescue
  <2>5. chip'.job # "mine" BY <2>3, DisownsJob DEF TypeInv, TypeOK
  <2> QED BY <1>10, <2>4, <2>5 DEF OnceInv, Identify
<1>11. CASE EnterMemMapped
  BY <1>0, <1>11, OnceProceeds, OnceFails DEF EnterMemMapped, At, Results
<1>12. CASE ExitMemMapped
  <2>1. PICK d : Within(d) /\ (Proceed(d) \/ Fail("error", d))
    BY <1>0, <1>12 DEF ExitMemMapped
  <2> QED BY <1>12, <2>1, OnceProceeds, OnceFails DEF ExitMemMapped, At, Results
<1>13. CASE Complete
  <2>1. hal = "tx" /\ mine => Running /\ phase = "page" /\ pc > 1
    BY DEF TransferInv, MineInFlight
  <2>2. Within(chip')
    BY <1>0, <1>13, <2>1, WithinDone DEF Complete
  <2> QED BY <1>13, <2>2, OnceStays DEF Complete, callVars, posVars
<1>14. CASE TransferError
  BY <1>0, <1>14, OnceStays DEF TransferError, callVars, posVars
<1>15. CASE ChipDone
  <2>1. /\ UNCHANGED << phase, pc, left >>
        /\ chip' = [chip EXCEPT !.job = "idle"] /\ chip \in Chips
        /\ owed' = IF chip.job = "mine" THEN owed - 1 ELSE owed
    BY <1>15 DEF ChipDone, callVars, posVars, TypeInv, TypeOK
  <2>2. chip'.job = "idle" /\ chip'.wel = chip.wel BY <2>1 DEF Chips
  <2>3. owed \in Int /\ Quota \in Int /\ (phase \in Programs => Quota >= 1) /\ Quota' = Quota
    BY <2>1 DEF Quota, TypeInv, TypeOK, PageLeft, Programs
  <2> QED BY <2>1, <2>2, <2>3 DEF OnceInv, OneJob, Committed, Running
<1>16. CASE Reboot
  <2>1. chip'.job # "mine" BY <1>16, CutShortType, DisownsJob DEF Reboot, TypeInv, TypeOK
  <2> QED BY <1>16, <2>1 DEF Reboot, OnceInv, Running
<1>17. CASE UNCHANGED vars
  BY <1>0, <1>17, OnceStays DEF vars
<1> QED BY <1>1, <1>2, <1>3, <1>4, <1>5, <1>6, <1>7, <1>8, <1>9, <1>10, <1>11, <1>12,
           <1>13, <1>14, <1>15, <1>16, <1>17 DEF Next, DriverStep

(* Whatever fails and however often commands are retried, the chip never   *)
(* runs more programs and erases than the caller asked for.                *)
THEOREM NeverTwice == Spec => []NothingRunsTwice
<1>1. TypeInv /\ OnceInv => NothingRunsTwice
  <2> SUFFICES ASSUME TypeInv, OnceInv PROVE NothingRunsTwice
    OBVIOUS
  <2>1. Running => pc = 1 \/ pc > 1 BY DEF TypeInv, TypeOK
  <2> QED BY <2>1 DEF OnceInv, NothingRunsTwice, Quota, Programs, TypeInv, TypeOK
<1> QED BY TypeInit, TypeNext, TransferInit, TransferNext, OnceInit, OnceNext, <1>1, PTL DEF Spec

==============================================================================
