---------------------------- MODULE QspiInit_proofs ----------------------------
(***************************************************************************)
(* Machine-checked proof that initialize finds its way out of any state of *)
(* the chip, for every number of pages and every set of fitted chips; and  *)
(* how the driver moves from function to function, which chips it can      *)
(* meet, and whose tokens it takes.                                        *)
(***************************************************************************)
EXTENDS QspiDriver_proofs

-----------------------------------------------------------------------------
(* How the driver moves                                                    *)

(* The functions an operation may run.                                     *)
PhasesOf(o) ==
  CASE o = "initialize"   -> {"id1", "wake", "reset", "id2", "winbond", "micron"}
    [] o = "uninitialize" -> {"wake", "reset"}
    [] OTHER              -> {FirstPhase(o)}

OfItsOp == Running => op \in Ops /\ phase \in PhasesOf(op)

(* The function that is running returns r in a step of operation op.       *)
Returns(r, quad, rest, d) ==
  /\ Running /\ op' = op
  /\ r \in Results /\ quad \in Families \cup {Null} /\ rest \in 0 .. MaxPages /\ d \in Chips
  /\ phase \in {"id1", "id2"} /\ r = "ok" => quad \in Families
  /\ FunctionReturns(r, quad, rest, d)

(* The last step of a look-up is no HAL call.                              *)
LEMMA ProceedReturns ==
  ASSUME TypeInv, Running, Now.do # "identify", NEW d \in Chips, Proceed(d), op' = op
  PROVE  \/ pc' = pc + 1 /\ pc < Len(Script(phase)) /\ phase' = phase
         \/ Returns("ok", pimpl, left', d) /\ pc = Len(Script(phase))
<1>1. phase \in Phases /\ pc \in 1 .. Len(Script(phase)) BY DEF TypeInv, TypeOK, Running
<1>2. WellFormed(phase, Script(phase)) BY <1>1, ScriptsWellFormed
<1>3. CASE pc < Len(Script(phase)) BY <1>3 DEF Proceed
<1>4. CASE ~(pc < Len(Script(phase)))
  <2>1. pc = Len(Script(phase)) BY <1>1, <1>2, <1>4 DEF WellFormed
  <2>2. phase \notin {"id1", "id2"} BY <1>1, <1>2, <2>1 DEF WellFormed, Now
  <2>3. left' \in 0 .. MaxPages
    BY <1>4, MaxPagesAssumption DEF Proceed, TypeInv, TypeOK, PageLeft
  <2>4. FunctionReturns("ok", pimpl, left', d) BY <1>4 DEF Proceed
  <2> QED BY <2>1, <2>2, <2>3, <2>4 DEF Returns, TypeInv, TypeOK, Results
<1> QED BY <1>3, <1>4

LEMMA FailReturns ==
  ASSUME TypeInv, Running, NEW r \in Results \ {"ok"}, NEW d \in Chips, Fail(r, d), op' = op
  PROVE  Returns(r, pimpl, left, d)
BY DEF Fail, Returns, TypeInv, TypeOK

(* The operation and its function change where a call is made, where a     *)
(* function returns, and where the controller is reset.                    *)
LEMMA PhaseMoves ==
  ASSUME TypeInv, [Next]_vars
  PROVE  \/ \E o \in Ops, n \in 1 .. MaxPages : Call(o, n)
         \/ Reboot
         \/ op' = op /\ phase' = phase
         \/ \E r, quad, rest, d : Returns(r, quad, rest, d)
<1>0. chip \in Chips /\ After(chip, Now.instr, Now.lines) \in Chips /\ CutShort(chip) \in Chips
  BY AfterType, CutShortType DEF TypeInv, TypeOK
<1>2. CASE CommandOk
  BY <1>0, <1>2, ProceedReturns DEF CommandOk, At
<1>3. CASE CommandFails
  <2>1. PICK d \in Chips : IF try = "first" THEN FirstFails(d) ELSE RetryFails(d)
    BY <1>0, <1>3 DEF CommandFails
  <2> QED BY <1>3, <2>1, FailReturns DEF CommandFails, At, FirstFails, RetryFails, Results
<1>4. CASE AbortBeforeRetry BY <1>4 DEF AbortBeforeRetry, callVars
<1>5. CASE Transmit
  BY <1>0, <1>5, ProceedReturns, FailReturns DEF Transmit, At, Results
<1>6. CASE StartTransfer BY <1>6 DEF StartTransfer, callVars
<1>7. CASE StartFails BY <1>0, <1>7, FailReturns DEF StartFails, At, Results
<1>8. CASE WaitOk BY <1>0, <1>8, ProceedReturns DEF WaitOk, At
<1>9. CASE WaitTimeout BY <1>0, <1>9, FailReturns DEF WaitTimeout, At, Results
<1>10. CASE Identify
  <2>1. chip.family \in Families BY <1>0 DEF Chips
  <2>2. PICK r \in {"ok", "type_not_found"} :
          FunctionReturns(r, IF r = "ok" THEN chip.family ELSE pimpl, left, chip)
    BY <1>10 DEF Identify
  <2>3. Returns(r, IF r = "ok" THEN chip.family ELSE pimpl, left, chip)
    BY <1>0, <1>10, <2>1, <2>2 DEF Returns, Identify, At, callVars, Results, TypeInv, TypeOK
  <2> QED BY <2>3
<1>11. CASE EnterMemMapped
  BY <1>0, <1>11, ProceedReturns, FailReturns DEF EnterMemMapped, At, Results
<1>12. CASE ExitMemMapped
  BY <1>0, <1>12, ProceedReturns, FailReturns DEF ExitMemMapped, At, Results
<1>13. CASE Complete BY <1>13 DEF Complete, callVars, posVars
<1>14. CASE TransferError BY <1>14 DEF TransferError, callVars, posVars
<1>15. CASE ChipDone BY <1>15 DEF ChipDone, callVars, posVars
<1>17. CASE UNCHANGED vars BY <1>17 DEF vars
<1> QED BY <1>2, <1>3, <1>4, <1>5, <1>6, <1>7, <1>8, <1>9, <1>10, <1>11, <1>12,
           <1>13, <1>14, <1>15, <1>17 DEF Next, DriverStep

LEMMA OfItsOpInit == Init => OfItsOp
BY DEF Init, OfItsOp, Running

LEMMA OfItsOpNext == TypeInv /\ OfItsOp /\ [Next]_vars => OfItsOp'
<1> SUFFICES ASSUME TypeInv, OfItsOp, [Next]_vars PROVE OfItsOp'
  OBVIOUS
<1>1. ASSUME NEW o \in Ops, NEW n \in 1 .. MaxPages, Call(o, n) PROVE OfItsOp'
  BY <1>1 DEF Call, OfItsOp, Running, PhasesOf, FirstPhase, Ops
<1>2. CASE Reboot BY <1>2 DEF Reboot, OfItsOp, Running
<1>3. CASE op' = op /\ phase' = phase BY <1>3 DEF OfItsOp, Running
<1>4. ASSUME NEW r, NEW quad, NEW rest, NEW d, Returns(r, quad, rest, d) PROVE OfItsOp'
  <2>1. phase' = NextPhase(op, phase, r, quad, rest) /\ op' = op /\ op \in Ops
    BY <1>4 DEF Returns, FunctionReturns, OfItsOp
  <2>2. phase \in PhasesOf(op) BY <1>4 DEF OfItsOp, Returns
  <2>3. phase' # "idle" => phase' \in PhasesOf(op)
    BY <1>4, <2>1, <2>2
    DEF Returns, NextPhase, PhasesOf, FirstPhase, Families, Rescue, MorePages, Ops
  <2> QED BY <2>1, <2>3 DEF OfItsOp, Running
<1> QED BY <1>1, <1>2, <1>3, <1>4, PhaseMoves

(* What no step does to the chip: make another of it, or let it be busy    *)
(* while it sleeps.                                                        *)
AwakeWhenBusy(c) == c.job # "idle" => c.awake
Kin(c, d) ==
  d \in Chips /\ d.family = c.family /\ (AwakeWhenBusy(c) => AwakeWhenBusy(d))

LEMMA KinAfter ==
  ASSUME NEW c \in Chips, NEW instr, NEW lines
  PROVE  Kin(c, c) /\ Kin(c, After(c, instr, lines)) /\ Kin(c, Disown(c))
<1>1. PowerOn(c.family).family = c.family /\ PowerOn(c.family).job = "idle"
  BY DEF PowerOn
<1>2. Kin(c, After(c, instr, lines))
  <2>1. After(c, instr, lines) \in Chips BY AfterType
  <2>2. After(c, instr, lines).family = c.family BY <1>1 DEF After, Obey
  <2>3. AwakeWhenBusy(c) => AwakeWhenBusy(After(c, instr, lines))
    BY <1>1 DEF After, Obey, Accepts, AwakeWhenBusy, StartsJob, Chips
  <2> QED BY <2>1, <2>2, <2>3 DEF Kin
<1>3. Kin(c, Disown(c)) BY DisownType DEF Kin, Disown, AwakeWhenBusy, Chips
<1> QED BY <1>2, <1>3 DEF Kin

LEMMA KinTransitive ==
  ASSUME NEW c, NEW d, NEW e, Kin(c, d), Kin(d, e)
  PROVE  Kin(c, e)
BY DEF Kin

LEMMA KinMoves ==
  ASSUME TypeInv, [Next]_vars
  PROVE  Kin(chip, chip')
<1> DEFINE Sent == After(chip, Now.instr, Now.lines)
           Done == After(chip, "PAGE_PROGRAM", 4)
<1>0. chip \in Chips BY DEF TypeInv, TypeOK
<1>a. ASSUME NEW d \in {chip, Sent, Done, CutShort(chip)}
      PROVE  Kin(chip, d) /\ Kin(chip, Disown(d))
  <2>1. Kin(chip, Done) /\ Kin(chip, Sent) /\ Kin(chip, chip) BY <1>0, KinAfter
  <2>2. Kin(chip, Disown(Done)) BY <2>1, KinAfter, KinTransitive DEF Kin
  <2>3. Kin(chip, d) BY <2>1, <2>2 DEF CutShort
  <2> QED BY <2>3, KinAfter, KinTransitive DEF Kin
<1>b. ASSUME NEW d \in {chip, Sent, Done, CutShort(chip)}, chip' \in {d, Disown(d)}
      PROVE  Kin(chip, chip')
  BY <1>a, <1>b
<1> HIDE DEF Sent, Done
<1>1. ASSUME NEW o \in Ops, NEW n \in 1 .. MaxPages, Call(o, n) PROVE Kin(chip, chip')
  BY <1>1, <1>b DEF Call
<1>2. CASE CommandOk
  <2>1. PICK d \in {chip, Sent} : Proceed(d) BY <1>2 DEF CommandOk, Sent
  <2> QED BY <2>1, <1>b, ProceedChip
<1>3. CASE CommandFails
  <2>1. PICK d \in {chip, Sent} : IF try = "first" THEN FirstFails(d) ELSE RetryFails(d)
    BY <1>3 DEF CommandFails, Sent
  <2>2. chip' \in {d, Disown(d)} BY <2>1, FailChip DEF FirstFails, RetryFails
  <2> QED BY <2>2, <1>b
<1>4. CASE AbortBeforeRetry BY <1>4, <1>b DEF AbortBeforeRetry
<1>5. CASE Transmit
  <2>1. PICK d \in {chip, Sent} : Proceed(d) \/ Fail("timeout", d) BY <1>5 DEF Transmit, Sent
  <2> QED BY <2>1, <1>b, ProceedChip, FailChip
<1>6. CASE StartTransfer BY <1>6, <1>b DEF StartTransfer
<1>7. CASE StartFails BY <1>7, <1>b, FailChip DEF StartFails
<1>8. CASE WaitOk BY <1>8, <1>b, ProceedChip DEF WaitOk
<1>9. CASE WaitTimeout BY <1>9, <1>b, FailChip DEF WaitTimeout
<1>10. CASE Identify BY <1>10, <1>b DEF Identify, FunctionReturns
<1>11. CASE EnterMemMapped BY <1>11, <1>b, ProceedChip, FailChip DEF EnterMemMapped
<1>12. CASE ExitMemMapped
  <2>1. PICK d \in {chip, CutShort(chip)} : Proceed(d) \/ Fail("error", d)
    BY <1>12 DEF ExitMemMapped
  <2> QED BY <2>1, <1>b, ProceedChip, FailChip
<1>13. CASE Complete BY <1>13, <1>b DEF Complete, Done
<1>14. CASE TransferError BY <1>14, <1>b DEF TransferError
<1>15. CASE ChipDone BY <1>0, <1>15 DEF ChipDone, Kin, AwakeWhenBusy, Chips, Jobs
<1>16. CASE Reboot BY <1>16, <1>b DEF Reboot
<1>17. CASE UNCHANGED vars BY <1>17, <1>b DEF vars
<1> QED BY <1>1, <1>2, <1>3, <1>4, <1>5, <1>6, <1>7, <1>8, <1>9, <1>10, <1>11, <1>12,
           <1>13, <1>14, <1>15, <1>16, <1>17 DEF Next, DriverStep

LEMMA AwakeInit == Init => AwakeWhenBusy(chip)
BY DEF Init, AwakeWhenBusy, PowerOn

LEMMA AwakeNext == TypeInv /\ AwakeWhenBusy(chip) /\ [Next]_vars => AwakeWhenBusy(chip')
BY KinMoves DEF Kin

-----------------------------------------------------------------------------
(* Tokens                                                                  *)

(* While nothing has failed or come late, a token is one the function's    *)
(* own completed transfer posted, and it is still waiting for it.          *)
TokenInv == smooth =>
  /\ mine => At({"wait"}) /\ sem = 0
  /\ sem = 1 => At({"wait"}) /\ ~InFlight

(* A started transfer is waited for at once.                               *)
LEMMA WaitFollows ==
  ASSUME NEW ph \in Phases, NEW n \in 1 .. Len(Script(ph)),
         Script(ph)[n].do \in {"rx", "tx", "poll"}
  PROVE  n + 1 \in 1 .. Len(Script(ph)) /\ Script(ph)[n + 1].do = "wait"
<1> USE DEF Script, Step, Wait, PollBusy
<1>1. CASE ph = "id1" BY <1>1 DEF ReadJedecId
<1>2. CASE ph = "id2" BY <1>2 DEF ReadJedecId
<1>3. CASE ph = "read" BY <1>3 DEF Read
<1>4. CASE ph = "page" BY <1>4 DEF PageWrite
<1>5. CASE ph = "erase" BY <1>5 DEF Erase
<1>6. CASE ph = "sleep" BY <1>6 DEF Sleep
<1>7. CASE ph = "wake" BY <1>7 DEF Wake
<1>8. CASE ph = "reset" BY <1>8 DEF ResetChip
<1>9. CASE ph = "map" BY <1>9 DEF EnterMapped
<1>10. CASE ph = "unmap" BY <1>10 DEF ExitMapped
<1>11. CASE ph = "winbond" BY <1>11 DEF QuadWinbond
<1>12. CASE ph = "micron" BY <1>12 DEF QuadMicron
<1> QED BY <1>1, <1>2, <1>3, <1>4, <1>5, <1>6, <1>7, <1>8, <1>9, <1>10, <1>11, <1>12 DEF Phases

(* A function that ends with a failure is not smooth.                      *)
LEMMA FailNotSmooth ==
  ASSUME NEW r \in {"error", "busy", "timeout"}, NEW d, Fail(r, d)
  PROVE  smooth' = FALSE /\ session' = "none"
BY DEF Fail, FunctionReturns

LEMMA ProceedSmooth ==
  ASSUME TypeInv, NEW d, Proceed(d)
  PROVE  /\ smooth' = smooth
         /\ mine' => mine /\ phase' = phase /\ pc' = pc + 1 /\ pc < Len(Script(phase))
BY DEF Proceed, FunctionReturns, histVars, TypeInv, TypeOK

LEMMA TokenInit == Init => TokenInv
BY DEF Init, TokenInv

LEMMA TokenNext == TypeInv /\ TransferInv /\ TokenInv /\ [Next]_vars => TokenInv'
<1> SUFFICES ASSUME TypeInv, TransferInv, TokenInv, [Next]_vars, smooth' PROVE TokenInv'
  BY DEF TokenInv
<1>a. mine => InFlight /\ Running BY DEF TransferInv, MineInFlight
<1>b. sem \in {0, 1} BY DEF TypeInv, TypeOK
<1>c. ASSUME ~mine', sem' = 0 PROVE TokenInv'
  BY <1>c DEF TokenInv
<1>d. ASSUME smooth, ~At({"wait"}) PROVE ~mine /\ sem = 0
  BY <1>b, <1>d DEF TokenInv
<1>1. ASSUME NEW o \in Ops, NEW n \in 1 .. MaxPages, Call(o, n) PROVE TokenInv'
  BY <1>1, <1>a, <1>c DEF Call, halVars
<1>2. CASE CommandOk
  <2>1. ~mine' /\ sem' = sem /\ smooth
    BY <1>2, <1>d, ProceedSmooth DEF CommandOk, At
  <2> QED BY <1>2, <2>1, <1>c, <1>d DEF CommandOk, At
<1>3. CASE CommandFails
  <2>1. PICK d : IF try = "first" THEN FirstFails(d) ELSE RetryFails(d)
    BY <1>3 DEF CommandFails
  <2>2. FirstFails(d) BY <2>1, FailNotSmooth DEF RetryFails
  <2> QED BY <1>3, <2>2, <1>c, <1>d DEF CommandFails, FirstFails, At, histVars
<1>4. CASE AbortBeforeRetry
  BY <1>4, <1>c, <1>d DEF AbortBeforeRetry, At, histVars
<1>5. CASE Transmit
  <2>1. PICK d : Proceed(d) BY <1>5, FailNotSmooth DEF Transmit
  <2> QED BY <1>5, <2>1, <1>c, <1>d, ProceedSmooth DEF Transmit, At
<1>6. CASE StartTransfer
  <2>1. phase \in Phases /\ pc \in 1 .. Len(Script(phase)) /\ Running
    BY <1>6 DEF StartTransfer, At, TypeInv, TypeOK, Running
  <2>2. /\ pc' = pc + 1 /\ phase' = phase /\ sem' = sem /\ smooth
        /\ Now.do \in {"rx", "tx", "poll"}
    BY <1>6 DEF StartTransfer, At, histVars
  <2>3. Script(phase)[pc + 1].do = "wait" BY <2>1, <2>2, WaitFollows DEF Now
  <2>4. At({"wait"})' BY <2>1, <2>2, <2>3 DEF At, Now, Running
  <2>5. sem = 0 BY <2>2, <1>d DEF At
  <2> QED BY <2>2, <2>4, <2>5 DEF TokenInv
<1>7. CASE StartFails BY <1>7, FailNotSmooth DEF StartFails
<1>8. CASE WaitOk
  <2>1. ~mine BY <1>8, <1>a, ProceedSmooth DEF WaitOk, TokenInv
  <2> QED BY <1>8, <2>1, <1>c, ProceedSmooth DEF WaitOk
<1>9. CASE WaitTimeout BY <1>9, FailNotSmooth DEF WaitTimeout
<1>10. CASE Identify
  <2>1. ~mine' /\ sem' = sem /\ smooth
    BY <1>10 DEF Identify, FunctionReturns
  <2> QED BY <1>10, <2>1, <1>c, <1>d DEF Identify, At
<1>11. CASE EnterMemMapped
  <2>1. PICK d : Proceed(d) BY <1>11, FailNotSmooth DEF EnterMemMapped
  <2> QED BY <1>11, <2>1, <1>c, <1>d, ProceedSmooth DEF EnterMemMapped, At
<1>12. CASE ExitMemMapped
  <2>1. PICK d : Proceed(d) BY <1>12, FailNotSmooth DEF ExitMemMapped
  <2> QED BY <1>12, <2>1, <1>c, <1>d, ProceedSmooth DEF ExitMemMapped, At
<1>13. CASE Complete
  <2>1. /\ smooth /\ mine /\ ~mine' /\ ~InFlight'
        /\ UNCHANGED << phase, pc >>
    BY <1>13 DEF Complete, InFlight, posVars
  <2> QED BY <2>1 DEF TokenInv, At, Running, Now
<1>14. CASE TransferError
  <2>1. /\ smooth /\ ~mine' /\ ~InFlight' /\ sem' = sem
        /\ UNCHANGED << phase, pc >>
    BY <1>14 DEF TransferError, InFlight, posVars, histVars
  <2> QED BY <2>1 DEF TokenInv, At, Running, Now
<1>15. CASE ChipDone
  BY <1>15 DEF ChipDone, TokenInv, At, Running, Now, InFlight, posVars, histVars, halVars
<1>16. CASE Reboot BY <1>16, <1>c DEF Reboot
<1>17. CASE UNCHANGED vars
  BY <1>17 DEF vars, TokenInv, At, Running, Now, InFlight
<1> QED BY <1>1, <1>2, <1>3, <1>4, <1>5, <1>6, <1>7, <1>8, <1>9, <1>10, <1>11, <1>12,
           <1>13, <1>14, <1>15, <1>16, <1>17 DEF Next, DriverStep

-----------------------------------------------------------------------------
(* What read_JEDEC_ID reads                                                *)

SpiReady(c) == c.mode = "spi" /\ c.awake /\ c.job = "idle"

(* The bytes are an ID exactly when the chip listens on one line; it then  *)
(* is awake and not busy. Once the transfer is complete there are bytes.   *)
IdInv == Running /\ phase \in {"id1", "id2"} =>
  /\ pc \in {1, 2} => buf = "none" /\ ~mine
  /\ mine => hal = "rx" /\ (IF answered THEN SpiReady(chip) ELSE chip.mode = "qpi")
  /\ buf = "good" => SpiReady(chip)
  /\ buf = "junk" => chip.mode = "qpi"
  /\ smooth /\ (pc = 4 \/ sem = 1) => buf # "none"

LEMMA IdSteps ==
  ASSUME NEW ph \in {"id1", "id2"}, NEW n \in 1 .. Len(Script(ph))
  PROVE  /\ n \in 1 .. 4 /\ Len(Script(ph)) = 4
         /\ n = 1 => Script(ph)[n].do = "setup"
         /\ n = 2 => Script(ph)[n].do = "rx" /\ Script(ph)[n].instr = "JEDEC_ID"
                     /\ Script(ph)[n].lines = 1
         /\ n = 3 => Script(ph)[n].do = "wait"
         /\ n = 4 => Script(ph)[n].do = "identify"
<1>1. Script(ph) = ReadJedecId BY DEF Script
<1>2. Len(ReadJedecId) = 4 BY DEF ReadJedecId
<1> QED BY <1>1, <1>2 DEF ReadJedecId, Step, Wait

(* A function starts with an untouched buffer.                             *)
LEMMA IdStarts ==
  ASSUME TypeInv', TokenInv', ~mine', pc' \in {0, 1}, pc' = 1 => buf' = "none"
  PROVE  IdInv'
<1> SUFFICES ASSUME Running', phase' \in {"id1", "id2"} PROVE IdInv'
  BY DEF IdInv
<1>1. pc' \in 1 .. Len(Script(phase')) BY DEF TypeInv, TypeOK
<1>2. pc' = 1 /\ Script(phase')[pc'].do = "setup"
  BY <1>1, IdSteps
<1>3. ~At({"wait"})' BY <1>2 DEF At, Now
<1>4. smooth' => sem' # 1 BY <1>3 DEF TokenInv
<1> QED BY <1>2, <1>4 DEF IdInv

LEMMA ReturnStarts ==
  ASSUME TypeInv', TokenInv', NEW r, NEW quad, NEW rest, NEW d,
         FunctionReturns(r, quad, rest, d), KeepBuffer \/ buf' = "none"
  PROVE  IdInv'
BY IdStarts DEF FunctionReturns, KeepBuffer

LEMMA IdInit == Init => IdInv
BY DEF Init, IdInv, Running

LEMMA IdNext ==
  ASSUME TypeInv, TypeInv', TransferInv, BusyOrAsleepIsQuad, TokenInv, TokenInv', IdInv,
         [Next]_vars
  PROVE  IdInv'
<1>a. ASSUME Running, phase \in {"id1", "id2"}
      PROVE  /\ pc \in 1 .. 4 /\ Len(Script(phase)) = 4
             /\ pc = 1 => Now.do = "setup"
             /\ pc = 2 => Now.do = "rx" /\ Now.instr = "JEDEC_ID" /\ Now.lines = 1
             /\ pc = 3 => Now.do = "wait"
             /\ pc = 4 => Now.do = "identify"
  <2>1. pc \in 1 .. Len(Script(phase)) BY <1>a DEF TypeInv, TypeOK
  <2> QED BY <1>a, <2>1, IdSteps DEF Now
<1>b. chip \in Chips BY DEF TypeInv, TypeOK
<1>c. ASSUME NEW d, Fail("error", d) \/ Fail("busy", d) \/ Fail("timeout", d), KeepBuffer
      PROVE  IdInv'
  BY <1>c, ReturnStarts DEF Fail
<1>d. ASSUME NEW d, Proceed(d), KeepBuffer, ~(pc < Len(Script(phase)))
      PROVE  IdInv'
  BY <1>d, ReturnStarts DEF Proceed
<1>1. ASSUME NEW o \in Ops, NEW n \in 1 .. MaxPages, Call(o, n) PROVE IdInv'
  <2>1. ~mine' BY <1>1 DEF Call, halVars, TransferInv, MineInFlight
  <2> QED BY <1>1, <2>1, IdStarts DEF Call
<1>2. CASE CommandOk
  <2>1. PICK d : Proceed(d) /\ (Now.do # "cmd" => d = chip) BY <1>2 DEF CommandOk
  <2>2. CASE ~(pc < Len(Script(phase))) BY <1>2, <1>d, <2>1, <2>2 DEF CommandOk
  <2>3. CASE pc < Len(Script(phase))
    <3>1. /\ pc' = pc + 1 /\ chip' = d
          /\ UNCHANGED << phase, mine, answered, smooth, hal, sem >>
      BY <1>2, <2>1, <2>3 DEF Proceed, CommandOk, histVars
    <3> SUFFICES ASSUME Running, phase \in {"id1", "id2"} PROVE IdInv'
      BY <3>1 DEF IdInv, Running
    <3>2. pc = 1 /\ Now.do = "setup" BY <1>2, <1>a DEF CommandOk, At
    <3>3. buf' = buf /\ chip' = chip
      BY <1>2, <2>1, <3>1, <3>2 DEF CommandOk, KeepBuffer
    <3>4. sem' # 1 \/ ~smooth'
      BY <3>1, <3>2 DEF TokenInv, At
    <3> QED BY <3>1, <3>2, <3>3, <3>4 DEF IdInv
  <2> QED BY <2>2, <2>3
<1>3. CASE CommandFails
  <2>1. PICK d : /\ IF try = "first" THEN FirstFails(d) ELSE RetryFails(d)
                 /\ Now.do # "cmd" => d = chip
    BY <1>3 DEF CommandFails
  <2>2. CASE try # "first" BY <1>3, <1>c, <2>1, <2>2 DEF CommandFails, RetryFails
  <2>3. CASE try = "first"
    <3>1. /\ chip' = d /\ UNCHANGED << phase, pc, mine, answered, smooth, sem >>
      BY <1>3, <2>1, <2>3 DEF FirstFails, CommandFails, histVars
    <3> SUFFICES ASSUME Running, phase \in {"id1", "id2"} PROVE IdInv'
      BY <3>1 DEF IdInv, Running
    <3>2. pc = 1 /\ Now.do = "setup" BY <1>3, <1>a DEF CommandFails, At
    <3>3. buf' = "none"
      BY <1>3, <3>1, <3>2 DEF CommandFails, KeepBuffer
    <3>4. ~mine' BY <3>1, <3>2 DEF IdInv
    <3> QED BY <3>1, <3>2, <3>3, <3>4, IdStarts
  <2> QED BY <2>2, <2>3
<1>4. CASE AbortBeforeRetry
  <2>1. ~mine' /\ UNCHANGED << phase, pc, buf, smooth, sem >>
    BY <1>4 DEF AbortBeforeRetry, histVars
  <2> SUFFICES ASSUME Running, phase \in {"id1", "id2"} PROVE IdInv'
    BY <2>1 DEF IdInv, Running
  <2>2. pc = 1 BY <1>4, <1>a DEF AbortBeforeRetry, At
  <2> QED BY <2>1, <2>2, IdStarts DEF IdInv
<1>5. CASE Transmit
  <2>1. ASSUME Running, phase \in {"id1", "id2"} PROVE FALSE
    BY <1>5, <1>a, <2>1 DEF Transmit, At
  <2>2. CASE pc < Len(Script(phase)) /\ \E d : Proceed(d)
    <3>1. phase' = phase BY <2>2 DEF Proceed
    <3> QED BY <2>1, <3>1 DEF IdInv, Running
  <2> QED BY <1>5, <1>c, <1>d, <2>2 DEF Transmit
<1>6. CASE StartTransfer
  <2>1. /\ pc' = pc + 1 /\ UNCHANGED << phase, chip, buf, smooth, sem >>
        /\ hal' = Now.do /\ mine' = TRUE
        /\ answered' = /\ Accepts(chip, Now.instr, Now.lines)
                       /\ Now.instr = "FAST_READ_QUAD_IN_OUT" => chip.tuned
    BY <1>6 DEF StartTransfer, histVars
  <2> SUFFICES ASSUME Running, phase \in {"id1", "id2"} PROVE IdInv'
    BY <2>1 DEF IdInv, Running
  <2>2. pc = 2 /\ Now.do = "rx" /\ Now.instr = "JEDEC_ID" /\ Now.lines = 1
    BY <1>6, <1>a DEF StartTransfer, At
  <2>3. IF answered' THEN SpiReady(chip) ELSE chip.mode = "qpi"
    BY <1>b, <2>1, <2>2
    DEF Accepts, SpiReady, BusyOrAsleepIsQuad, Recoverable, Chips, Jobs
  <2>4. sem' # 1 \/ ~smooth'
    BY <2>1, <2>2 DEF TokenInv, At
  <2>5. buf = "none" BY <2>2 DEF IdInv
  <2> QED BY <2>1, <2>2, <2>3, <2>4, <2>5 DEF IdInv
<1>7. CASE StartFails BY <1>7, <1>c DEF StartFails
<1>8. CASE WaitOk
  <2>2. CASE ~(pc < Len(Script(phase))) BY <1>8, <1>d, <2>2 DEF WaitOk
  <2>3. CASE pc < Len(Script(phase))
    <3>1. /\ pc' = pc + 1 /\ chip' = chip /\ sem = 1 /\ sem' = 0
          /\ UNCHANGED << phase, mine, answered, smooth, hal >>
      BY <1>8, <2>3 DEF Proceed, WaitOk, histVars
    <3> SUFFICES ASSUME Running, phase \in {"id1", "id2"} PROVE IdInv'
      BY <3>1 DEF IdInv, Running
    <3>2. pc = 3 BY <1>8, <1>a DEF WaitOk, At
    <3>3. buf' = buf BY <1>8, <3>1, <3>2 DEF WaitOk, KeepBuffer
    <3> QED BY <3>1, <3>2, <3>3 DEF IdInv
  <2> QED BY <2>2, <2>3
<1>9. CASE WaitTimeout BY <1>9, <1>c DEF WaitTimeout
<1>10. CASE Identify BY <1>10, ReturnStarts DEF Identify
<1>11. CASE EnterMemMapped
  <2>1. ~(pc < Len(Script(phase)))
    <3>1. phase \in Phases /\ pc \in 1 .. Len(Script(phase))
      BY <1>11 DEF EnterMemMapped, At, TypeInv, TypeOK, Running
    <3> QED BY <1>11, <3>1, ScriptsWellFormed DEF EnterMemMapped, WellFormed, At, Now
  <2> QED BY <1>11, <1>c, <1>d, <2>1 DEF EnterMemMapped
<1>12. CASE ExitMemMapped
  <2>1. ~(pc < Len(Script(phase)))
    <3>1. phase \in Phases /\ pc \in 1 .. Len(Script(phase))
      BY <1>12 DEF ExitMemMapped, At, TypeInv, TypeOK, Running
    <3> QED BY <1>12, <3>1, ScriptsWellFormed DEF ExitMemMapped, WellFormed, At, Now
  <2> QED BY <1>12, <1>c, <1>d, <2>1 DEF ExitMemMapped
<1>13. CASE Complete
  <2>1. /\ UNCHANGED << phase, pc >> /\ mine' = FALSE /\ InFlight
        /\ smooth' => smooth /\ mine
        /\ buf' = (IF hal = "rx" /\ mine THEN IF answered THEN "good" ELSE "junk" ELSE buf)
        /\ hal # "tx" => chip' = chip
    BY <1>13 DEF Complete, posVars, TypeInv, TypeOK
  <2> SUFFICES ASSUME Running, phase \in {"id1", "id2"} PROVE IdInv'
    BY <2>1 DEF IdInv, Running
  <2>2. CASE mine
    <3>1. hal = "rx" BY <2>2 DEF IdInv
    <3>2. pc \notin {1, 2} BY <2>2 DEF IdInv
    <3> QED BY <2>1, <2>2, <3>1, <3>2 DEF IdInv
  <2>3. CASE ~mine
    <3>1. pc = 1 BY <1>a, <2>1, <2>3 DEF TransferInv, NoForeignTransfer
    <3> QED BY <2>1, <2>3, <3>1, IdStarts DEF IdInv
  <2> QED BY <2>2, <2>3
<1>14. CASE TransferError
  <2>1. /\ UNCHANGED << phase, pc, buf, smooth, sem >> /\ mine' = FALSE /\ InFlight
        /\ hal # "tx" => chip' = chip
    BY <1>14 DEF TransferError, posVars, histVars, CutShort
  <2> SUFFICES ASSUME Running, phase \in {"id1", "id2"} PROVE IdInv'
    BY <2>1 DEF IdInv, Running
  <2>2. CASE mine
    <3>1. hal = "rx" BY <2>2 DEF IdInv
    <3> QED BY <2>1, <2>2, <3>1 DEF IdInv
  <2>3. CASE ~mine
    <3>1. pc = 1 BY <1>a, <2>1, <2>3 DEF TransferInv, NoForeignTransfer
    <3> QED BY <2>1, <2>3, <3>1, IdStarts DEF IdInv
  <2> QED BY <2>2, <2>3
<1>15. CASE ChipDone
  <2>1. /\ UNCHANGED << phase, pc, buf, smooth, sem, mine, answered, hal >>
        /\ chip.job # "idle" /\ chip' = [chip EXCEPT !.job = "idle"]
    BY <1>15 DEF ChipDone, posVars, histVars, halVars
  <2>2. ~SpiReady(chip) /\ chip'.mode = chip.mode BY <1>b, <2>1 DEF SpiReady, Chips
  <2> QED BY <2>1, <2>2 DEF IdInv, Running
<1>16. CASE Reboot BY <1>16 DEF Reboot, IdInv, Running
<1>17. CASE UNCHANGED vars
  BY <1>17 DEF vars, IdInv, Running
<1> QED BY <1>1, <1>2, <1>3, <1>4, <1>5, <1>6, <1>7, <1>8, <1>9, <1>10, <1>11, <1>12,
           <1>13, <1>14, <1>15, <1>16, <1>17 DEF Next, DriverStep

-----------------------------------------------------------------------------
(* initialize finds its way out                                            *)

Quad(c)     == c.mode = "qpi" /\ c.awake
QuadIdle(c) == Quad(c) /\ c.job = "idle"

(* What initialize knows of the chip c in the course of its functions: at  *)
(* step n of function ph, qspi_command being at its try t.  A chip whose   *)
(* ID cannot be read is in quad mode, so that it hears the commands that   *)
(* wake it up and reset it; a command may have been heard although it      *)
(* failed, and the chip then be a step ahead.                              *)
InitChip(ph, n, t, c) ==
  /\ ph = "wake" => c.mode = "qpi"
  /\ ph = "reset" => \/ Quad(c) /\ (n = 2 => c.rsten)
                     \/ n = 2 /\ t # "first" /\ SpiReady(c)
  /\ ph = "id2" => SpiReady(c)
  /\ ph = "winbond" =>
       /\ n <= 4 => \/ SpiReady(c) /\ (n \in {2, 3} => c.vsr) /\ (n = 4 => c.qe)
                    \/ n = 4 /\ t # "first" /\ QuadIdle(c)
       /\ n > 4 => QuadIdle(c)
  /\ ph = "micron" =>
       /\ IF n <= 6 THEN SpiReady(c) ELSE QuadIdle(c)
       /\ n \in {2, 3, 5, 6} => c.wel
       /\ n >= 4 => c.tuned

(* ... and when the function has returned ok.                              *)
InitDone(ph, c) ==
  /\ ph = "wake" => Quad(c)
  /\ ph = "reset" => SpiReady(c)
  /\ ph \in {"winbond", "micron"} => Usable(c)

InitInv ==
  /\ smooth /\ op = "initialize" /\ Running =>
       /\ phase # "id1" => (InFlight => mine)
       /\ InitChip(phase, pc, try, chip)
       /\ phase \in {"winbond", "micron"} => pdevice = chip.family /\ phase = chip.family
  /\ InitRecovers

(* What the commands of initialize do to a chip in either mode.            *)
LEMMA SpiHears ==
  ASSUME NEW c \in Chips, SpiReady(c)
  PROVE  /\ \A i : After(c, i, 4) = c
         /\ LET d == After(c, "VOLATILE_SR_WRITE_ENABLE", 1) IN SpiReady(d) /\ d.vsr
         /\ c.vsr => LET d == After(c, "WRITE_STATUS_REGISTER_2", 1) IN SpiReady(d) /\ d.qe
         /\ c.qe => QuadIdle(After(c, "ENTER_QUAD_MODE", 1))
         /\ LET d == After(c, "WRITE_ENABLE", 1)
            IN  SpiReady(d) /\ d.wel /\ d.tuned = c.tuned
         /\ c.wel => LET d == After(c, "WRITE_VOLATILE_STATUS_REGISTER", 1)
                     IN  SpiReady(d) /\ d.tuned
         /\ c.wel => LET d == After(c, "WRITE_ENH_VOLATILE_STATUS_REGISTER", 1)
                     IN  QuadIdle(d) /\ d.tuned = c.tuned
<1> USE DEF SpiReady, QuadIdle, Quad, WritesRegister, StartsJob, Chips
<1>1. ASSUME NEW i PROVE After(c, i, 1) = Obey(c, i) /\ After(c, i, 4) = c
  BY DEF After, Accepts
<1>2. LET d == Obey(c, "VOLATILE_SR_WRITE_ENABLE") IN SpiReady(d) /\ d.vsr
  BY DEF Obey
<1>3. c.vsr => LET d == Obey(c, "WRITE_STATUS_REGISTER_2") IN SpiReady(d) /\ d.qe
  BY DEF Obey
<1>4. c.qe => QuadIdle(Obey(c, "ENTER_QUAD_MODE"))
  BY DEF Obey
<1>5. LET d == Obey(c, "WRITE_ENABLE") IN SpiReady(d) /\ d.wel /\ d.tuned = c.tuned
  BY DEF Obey
<1>6. c.wel => LET d == Obey(c, "WRITE_VOLATILE_STATUS_REGISTER") IN SpiReady(d) /\ d.tuned
  BY DEF Obey
<1>7. c.wel => LET d == Obey(c, "WRITE_ENH_VOLATILE_STATUS_REGISTER")
               IN  QuadIdle(d) /\ d.tuned = c.tuned
  BY DEF Obey
<1> HIDE DEF SpiReady, QuadIdle, Quad
<1> QED BY <1>1, <1>2, <1>3, <1>4, <1>5, <1>6, <1>7

LEMMA QuadHears ==
  ASSUME NEW c \in Chips, c.mode = "qpi"
  PROVE  /\ \A i : After(c, i, 1) = c
         /\ AwakeWhenBusy(c) => Quad(After(c, "RELEASE_POWER_DOWN", 4))
         /\ Quad(c) => LET d == After(c, "RESET_ENABLE", 4) IN Quad(d) /\ d.rsten
         /\ Quad(c) /\ c.rsten => SpiReady(After(c, "RESET_DEVICE", 4))
         /\ QuadIdle(c) => Usable(After(c, "SET_READ_PARAMETERS", 4))
<1> USE DEF SpiReady, QuadIdle, Quad, Usable, AwakeWhenBusy, StartsJob, Chips
<1>1. ASSUME NEW i PROVE After(c, i, 1) = c
  BY DEF After, Accepts
<1>2. AwakeWhenBusy(c) => Quad(After(c, "RELEASE_POWER_DOWN", 4))
  BY DEF After, Accepts, Obey
<1>3. Quad(c) => LET d == After(c, "RESET_ENABLE", 4) IN Quad(d) /\ d.rsten
  BY DEF After, Accepts, Obey
<1>4. Quad(c) /\ c.rsten => SpiReady(After(c, "RESET_DEVICE", 4))
  <2>1. SpiReady(PowerOn(c.family)) BY DEF PowerOn
  <2>2. Quad(c) /\ c.rsten => After(c, "RESET_DEVICE", 4) = PowerOn(c.family)
    BY DEF After, Accepts, Obey
  <2> QED BY <2>1, <2>2
<1>5. QuadIdle(c) => Usable(After(c, "SET_READ_PARAMETERS", 4))
  BY DEF After, Accepts, Obey
<1> HIDE DEF SpiReady, QuadIdle, Quad, Usable, AwakeWhenBusy
<1> QED BY <1>1, <1>2, <1>3, <1>4, <1>5

(* Commands and register writes take the chip from each step to the next.  *)
LEMMA InitCommand ==
  ASSUME NEW ph \in {"wake", "reset", "winbond", "micron"}, NEW n \in 1 .. Len(Script(ph)),
         NEW t, NEW c \in Chips, AwakeWhenBusy(c),
         Script(ph)[n].do \in {"cmd", "transmit"}, InitChip(ph, n, t, c)
  PROVE  LET d == After(c, Script(ph)[n].instr, Script(ph)[n].lines) IN
           /\ Script(ph)[n].do = "cmd" => InitChip(ph, n, "abort", d)
           /\ n < Len(Script(ph)) => InitChip(ph, n + 1, "first", d)
           /\ n = Len(Script(ph)) => InitDone(ph, d)
<1> DEFINE d == After(c, Script(ph)[n].instr, Script(ph)[n].lines)
<1> SUFFICES /\ Script(ph)[n].do = "cmd" => InitChip(ph, n, "abort", d)
             /\ n < Len(Script(ph)) => InitChip(ph, n + 1, "first", d)
             /\ n = Len(Script(ph)) => InitDone(ph, d)
  OBVIOUS
<1>c. Script(ph)[n].do = "cmd" \/ Script(ph)[n].do = "transmit"
  OBVIOUS
<1>d. d = After(c, Script(ph)[n].instr, Script(ph)[n].lines)
  OBVIOUS
<1> HIDE DEF d
<1>1. CASE ph = "wake"
  <2>1. Script(ph) = Wake BY <1>1 DEF Script
  <2>2. n \in {1} /\ Len(Wake) = 1 BY <1>c, <2>1 DEF Wake, Step
  <2>3. CASE n = 1
    <3>1. Wake[1] = Step("cmd", "RELEASE_POWER_DOWN", 4) BY DEF Wake
    <3>2. d = After(c, "RELEASE_POWER_DOWN", 4) BY <1>d, <2>1, <2>3, <3>1 DEF Step
    <3>3. c.mode = "qpi" BY <1>1, <2>3 DEF InitChip
    <3>4. Quad(d) BY <3>2, <3>3, QuadHears DEF QuadIdle, Quad
    <3>5. InitChip(ph, 1, "abort", d) /\ InitDone(ph, d)
      BY <1>1, <3>4 DEF InitChip, InitDone, Usable, QuadIdle, Quad
    <3> QED BY <2>1, <2>2, <2>3, <3>5
  <2> QED BY <2>2, <2>3
<1>2. CASE ph = "reset"
  <2>1. Script(ph) = ResetChip BY <1>2 DEF Script
  <2>2. n \in {1, 2} /\ Len(ResetChip) = 2 BY <1>c, <2>1 DEF ResetChip, Step
  <2>3. CASE n = 1
    <3>1. ResetChip[1] = Step("cmd", "RESET_ENABLE", 4) BY DEF ResetChip
    <3>2. d = After(c, "RESET_ENABLE", 4) BY <1>d, <2>1, <2>3, <3>1 DEF Step
    <3>3. Quad(c) BY <1>2, <2>3 DEF InitChip
    <3>4. Quad(d) /\ d.rsten BY <3>2, <3>3, QuadHears DEF QuadIdle, Quad
    <3>5. InitChip(ph, 1, "abort", d) /\ InitChip(ph, 2, "first", d)
      BY <1>2, <3>4 DEF InitChip, InitDone, Usable, QuadIdle, Quad
    <3> QED BY <2>1, <2>2, <2>3, <3>5
  <2>4. CASE n = 2
    <3>1. ResetChip[2] = Step("cmd", "RESET_DEVICE", 4) BY DEF ResetChip
    <3>2. d = After(c, "RESET_DEVICE", 4) BY <1>d, <2>1, <2>4, <3>1 DEF Step
    <3>3. (Quad(c) /\ c.rsten) \/ SpiReady(c) BY <1>2, <2>4 DEF InitChip
    <3>4. SpiReady(d) BY <3>2, <3>3, SpiHears, QuadHears DEF QuadIdle, Quad
    <3>5. InitChip(ph, 2, "abort", d) /\ InitDone(ph, d)
      BY <1>2, <3>4 DEF InitChip, InitDone, Usable, QuadIdle, Quad
    <3> QED BY <2>1, <2>2, <2>4, <3>5
  <2> QED BY <2>2, <2>3, <2>4
<1>3. CASE ph = "winbond"
  <2>1. Script(ph) = QuadWinbond BY <1>3 DEF Script
  <2>2. n \in {1, 3, 4, 6} /\ Len(QuadWinbond) = 6 BY <1>c, <2>1 DEF QuadWinbond, Step
  <2>3. CASE n = 1
    <3>1. QuadWinbond[1] = Step("cmd", "VOLATILE_SR_WRITE_ENABLE", 1) BY DEF QuadWinbond
    <3>2. d = After(c, "VOLATILE_SR_WRITE_ENABLE", 1) BY <1>d, <2>1, <2>3, <3>1 DEF Step
    <3>3. SpiReady(c) BY <1>3, <2>3 DEF InitChip
    <3>4. SpiReady(d) /\ d.vsr BY <3>2, <3>3, SpiHears
    <3>5. InitChip(ph, 1, "abort", d) /\ InitChip(ph, 2, "first", d)
      BY <1>3, <3>4 DEF InitChip, InitDone, Usable, QuadIdle, Quad
    <3> QED BY <2>1, <2>2, <2>3, <3>5
  <2>4. CASE n = 3
    <3>1. QuadWinbond[3] = Step("transmit", "WRITE_STATUS_REGISTER_2", 1) BY DEF QuadWinbond
    <3>2. d = After(c, "WRITE_STATUS_REGISTER_2", 1) BY <1>d, <2>1, <2>4, <3>1 DEF Step
    <3>3. SpiReady(c) /\ c.vsr BY <1>3, <2>4 DEF InitChip
    <3>4. SpiReady(d) /\ d.qe BY <3>2, <3>3, SpiHears
    <3>5. InitChip(ph, 4, "first", d)
      BY <1>3, <3>4 DEF InitChip, InitDone, Usable, QuadIdle, Quad
    <3>6. QuadWinbond[3].do # "cmd" BY <3>1 DEF Step
    <3> QED BY <2>1, <2>2, <2>4, <3>5, <3>6
  <2>5. CASE n = 4
    <3>1. QuadWinbond[4] = Step("cmd", "ENTER_QUAD_MODE", 1) BY DEF QuadWinbond
    <3>2. d = After(c, "ENTER_QUAD_MODE", 1) BY <1>d, <2>1, <2>5, <3>1 DEF Step
    <3>3. (SpiReady(c) /\ c.qe) \/ QuadIdle(c) BY <1>3, <2>5 DEF InitChip
    <3>4. QuadIdle(d) BY <3>2, <3>3, SpiHears, QuadHears DEF QuadIdle, Quad
    <3>5. InitChip(ph, 4, "abort", d) /\ InitChip(ph, 5, "first", d)
      BY <1>3, <3>4 DEF InitChip, InitDone, Usable, QuadIdle, Quad
    <3> QED BY <2>1, <2>2, <2>5, <3>5
  <2>6. CASE n = 6
    <3>1. QuadWinbond[6] = Step("transmit", "SET_READ_PARAMETERS", 4) BY DEF QuadWinbond
    <3>2. d = After(c, "SET_READ_PARAMETERS", 4) BY <1>d, <2>1, <2>6, <3>1 DEF Step
    <3>3. QuadIdle(c) BY <1>3, <2>6 DEF InitChip
    <3>4. Usable(d) BY <3>2, <3>3, QuadHears DEF QuadIdle, Quad
    <3>5. InitDone(ph, d)
      BY <1>3, <3>4 DEF InitChip, InitDone, Usable, QuadIdle, Quad
    <3>6. QuadWinbond[6].do # "cmd" BY <3>1 DEF Step
    <3> QED BY <2>1, <2>2, <2>6, <3>5, <3>6
  <2> QED BY <2>2, <2>3, <2>4, <2>5, <2>6
<1>4. CASE ph = "micron"
  <2>1. Script(ph) = QuadMicron BY <1>4 DEF Script
  <2>2. n \in {1, 3, 4, 6, 7} /\ Len(QuadMicron) = 7 BY <1>c, <2>1 DEF QuadMicron, Step
  <2>3. CASE n = 1
    <3>1. QuadMicron[1] = Step("cmd", "WRITE_ENABLE", 1) BY DEF QuadMicron
    <3>2. d = After(c, "WRITE_ENABLE", 1) BY <1>d, <2>1, <2>3, <3>1 DEF Step
    <3>3. SpiReady(c) BY <1>4, <2>3 DEF InitChip
    <3>4. SpiReady(d) /\ d.wel BY <3>2, <3>3, SpiHears
    <3>5. InitChip(ph, 1, "abort", d) /\ InitChip(ph, 2, "first", d)
      BY <1>4, <3>4 DEF InitChip, InitDone, Usable, QuadIdle, Quad
    <3> QED BY <2>1, <2>2, <2>3, <3>5
  <2>4. CASE n = 3
    <3>1. QuadMicron[3] = Step("transmit", "WRITE_VOLATILE_STATUS_REGISTER", 1) BY DEF QuadMicron
    <3>2. d = After(c, "WRITE_VOLATILE_STATUS_REGISTER", 1) BY <1>d, <2>1, <2>4, <3>1 DEF Step
    <3>3. SpiReady(c) /\ c.wel BY <1>4, <2>4 DEF InitChip
    <3>4. SpiReady(d) /\ d.tuned BY <3>2, <3>3, SpiHears
    <3>5. InitChip(ph, 4, "first", d)
      BY <1>4, <3>4 DEF InitChip, InitDone, Usable, QuadIdle, Quad
    <3>6. QuadMicron[3].do # "cmd" BY <3>1 DEF Step
    <3> QED BY <2>1, <2>2, <2>4, <3>5, <3>6
  <2>5. CASE n = 4
    <3>1. QuadMicron[4] = Step("cmd", "WRITE_ENABLE", 1) BY DEF QuadMicron
    <3>2. d = After(c, "WRITE_ENABLE", 1) BY <1>d, <2>1, <2>5, <3>1 DEF Step
    <3>3. SpiReady(c) /\ c.tuned BY <1>4, <2>5 DEF InitChip
    <3>4. SpiReady(d) /\ d.wel /\ d.tuned BY <3>2, <3>3, SpiHears
    <3>5. InitChip(ph, 4, "abort", d) /\ InitChip(ph, 5, "first", d)
      BY <1>4, <3>4 DEF InitChip, InitDone, Usable, QuadIdle, Quad
    <3> QED BY <2>1, <2>2, <2>5, <3>5
  <2>6. CASE n = 6
    <3>1. QuadMicron[6] = Step("transmit", "WRITE_ENH_VOLATILE_STATUS_REGISTER", 1) BY DEF QuadMicron
    <3>2. d = After(c, "WRITE_ENH_VOLATILE_STATUS_REGISTER", 1) BY <1>d, <2>1, <2>6, <3>1 DEF Step
    <3>3. SpiReady(c) /\ c.wel /\ c.tuned BY <1>4, <2>6 DEF InitChip
    <3>4. QuadIdle(d) /\ d.tuned BY <3>2, <3>3, SpiHears
    <3>5. InitChip(ph, 7, "first", d)
      BY <1>4, <3>4 DEF InitChip, InitDone, Usable, QuadIdle, Quad
    <3>6. QuadMicron[6].do # "cmd" BY <3>1 DEF Step
    <3> QED BY <2>1, <2>2, <2>6, <3>5, <3>6
  <2>7. CASE n = 7
    <3>1. QuadMicron[7] = Step("cmd", "ENTER_QUAD_MODE", 1) BY DEF QuadMicron
    <3>2. d = After(c, "ENTER_QUAD_MODE", 1) BY <1>d, <2>1, <2>7, <3>1 DEF Step
    <3>3. QuadIdle(c) /\ c.tuned BY <1>4, <2>7 DEF InitChip
    <3>4. QuadIdle(d) /\ d.tuned BY <3>2, <3>3, QuadHears DEF QuadIdle, Quad
    <3>5. InitChip(ph, 7, "abort", d) /\ InitDone(ph, d)
      BY <1>4, <3>4 DEF InitChip, InitDone, Usable, QuadIdle, Quad
    <3> QED BY <2>1, <2>2, <2>7, <3>5
  <2> QED BY <2>2, <2>3, <2>4, <2>5, <2>6, <2>7
<1> QED BY <1>1, <1>2, <1>3, <1>4

(* The other steps leave it where it is; none of them is the last but the  *)
(* look-up of an ID.                                                       *)
LEMMA InitNoCommand ==
  ASSUME NEW ph \in PhasesOf("initialize"), NEW n \in 1 .. Len(Script(ph)), NEW t, NEW c,
         Script(ph)[n].do \notin {"cmd", "transmit", "identify"}, InitChip(ph, n, t, c)
  PROVE  n < Len(Script(ph)) /\ InitChip(ph, n + 1, "first", c)
<1> USE DEF InitChip, Step, Wait, PhasesOf
<1>1. CASE ph = "wake"
  <2>1. Script(ph) = Wake BY <1>1 DEF Script
  <2> QED BY <1>1, <2>1 DEF Wake
<1>2. CASE ph = "reset"
  <2>1. Script(ph) = ResetChip BY <1>2 DEF Script
  <2> QED BY <1>2, <2>1 DEF ResetChip
<1>3. CASE ph = "winbond"
  <2>1. Script(ph) = QuadWinbond BY <1>3 DEF Script
  <2>2. n \in {2, 5} BY <2>1 DEF QuadWinbond
  <2>3. CASE n = 2
    <3>1. Len(QuadWinbond) = 6 BY DEF QuadWinbond
    <3>2. n + 1 = 3 BY <2>3
    <3>3. SpiReady(c) /\ c.vsr BY <1>3, <2>3
    <3>4. InitChip(ph, 3, "first", c) BY <1>3, <3>3
    <3> QED BY <2>1, <2>3, <3>1, <3>2, <3>4
  <2>4. CASE n = 5
    <3>1. Len(QuadWinbond) = 6 BY DEF QuadWinbond
    <3>2. n + 1 = 6 BY <2>4
    <3>3. QuadIdle(c) BY <1>3, <2>4
    <3>4. InitChip(ph, 6, "first", c) BY <1>3, <3>3
    <3> QED BY <2>1, <2>4, <3>1, <3>2, <3>4
  <2> QED BY <2>2, <2>3, <2>4
<1>4. CASE ph = "micron"
  <2>1. Script(ph) = QuadMicron BY <1>4 DEF Script
  <2>2. n \in {2, 5} BY <2>1 DEF QuadMicron
  <2>3. CASE n = 2
    <3>1. Len(QuadMicron) = 7 BY DEF QuadMicron
    <3>2. n + 1 = 3 BY <2>3
    <3>3. SpiReady(c) /\ c.wel BY <1>4, <2>3
    <3>4. InitChip(ph, 3, "first", c) BY <1>4, <3>3
    <3> QED BY <2>1, <2>3, <3>1, <3>2, <3>4
  <2>4. CASE n = 5
    <3>1. Len(QuadMicron) = 7 BY DEF QuadMicron
    <3>2. n + 1 = 6 BY <2>4
    <3>3. SpiReady(c) /\ c.wel /\ c.tuned BY <1>4, <2>4
    <3>4. InitChip(ph, 6, "first", c) BY <1>4, <3>3
    <3> QED BY <2>1, <2>4, <3>1, <3>2, <3>4
  <2> QED BY <2>2, <2>3, <2>4
<1>5. CASE ph \in {"id1", "id2"}
  <2>1. n \in 1 .. 4 /\ Len(Script(ph)) = 4 /\ n # 4 BY <1>5, IdSteps
  <2> QED BY <1>5, <2>1
<1> QED BY <1>1, <1>2, <1>3, <1>4, <1>5

(* Nor does it matter that a command has to be repeated, ...               *)
LEMMA InitStays ==
  ASSUME NEW ph \in PhasesOf("initialize"), NEW n \in Nat, NEW t, NEW c \in Chips,
         InitChip(ph, n, t, c)
  PROVE  /\ t = "first" => InitChip(ph, n, "abort", c)
         /\ t # "first" => InitChip(ph, n, "retry", c)
BY DEF InitChip, PhasesOf

(* ... that a program or erase of an earlier call ends, or that it is      *)
(* another call's.                                                         *)
LEMMA InitIdles ==
  ASSUME NEW ph \in PhasesOf("initialize"), NEW n \in Nat, NEW t, NEW c \in Chips,
         InitChip(ph, n, t, c)
  PROVE  InitChip(ph, n, t, [c EXCEPT !.job = "idle"])
BY DEF InitChip, SpiReady, QuadIdle, Quad, PhasesOf, Chips

LEMMA DoneStays ==
  ASSUME NEW ph, NEW c \in Chips, InitDone(ph, c)
  PROVE  InitDone(ph, Disown(c))
BY DEF InitDone, SpiReady, Quad, Usable, Disown, Chips

(* How initialize goes on, in a step that was a success.                   *)
LEMMA InitAdvances ==
  ASSUME TypeInv, Running, phase \in PhasesOf("initialize"), op = "initialize", op' = op,
         NEW d \in Chips, Proceed(d), d.family = chip.family,
         UNCHANGED << pdevice, hal >>, InFlight => mine,
         pc < Len(Script(phase)) => InitChip(phase, pc + 1, "first", d),
         ~(pc < Len(Script(phase))) => ~InFlight /\ phase \notin {"id1", "id2"} /\ InitDone(phase, d),
         phase \in {"winbond", "micron"} => pdevice = chip.family /\ phase = chip.family
  PROVE  InitInv'
<1>1. CASE pc < Len(Script(phase))
  <2>1. /\ pc' = pc + 1 /\ try' = "first" /\ chip' = d /\ UNCHANGED << phase, mine >>
    BY <1>1 DEF Proceed
  <2>2. Running' /\ (InFlight' => mine') BY <2>1 DEF Running, InFlight
  <2>3. InitChip(phase, pc, try, chip)' BY <1>1, <2>1
  <2> QED BY <2>1, <2>2, <2>3 DEF InitInv, InitRecovers
<1>2. CASE ~(pc < Len(Script(phase)))
  <2>1. /\ phase' = NextPhase(op, phase, "ok", pimpl, left')
        /\ try' = "first" /\ chip' = Disown(d) /\ result' = "ok"
        /\ pc' = IF phase' = "idle" THEN 0 ELSE 1
    BY <1>2 DEF Proceed, FunctionReturns
  <2>2. InitDone(phase, chip') BY <1>2, <2>1, DoneStays
  <2>3. ~InFlight' BY <1>2 DEF InFlight
  <2>4. CASE phase = "wake"
    <3>1. phase' = "reset" /\ pc' = 1 BY <2>1, <2>4 DEF NextPhase
    <3>2. InitChip("reset", 1, "first", chip') BY <2>2, <2>4 DEF InitChip, InitDone
    <3> QED BY <2>1, <2>3, <3>1, <3>2 DEF InitInv, InitRecovers, Running
  <2>5. CASE phase = "reset"
    <3>1. phase' = "id2" /\ pc' = 1 BY <2>1, <2>5 DEF NextPhase
    <3>2. InitChip("id2", 1, "first", chip') BY <2>2, <2>5 DEF InitChip, InitDone
    <3> QED BY <2>1, <2>3, <3>1, <3>2 DEF InitInv, InitRecovers, Running
  <2>6. CASE phase \in {"winbond", "micron"}
    <3>1. phase' = "idle" BY <2>1, <2>6 DEF NextPhase
    <3> QED BY <2>1, <3>1 DEF InitInv, InitRecovers, Running
  <2> QED BY <1>2, <2>4, <2>5, <2>6 DEF PhasesOf
<1> QED BY <1>1, <1>2

(* A command or register write of initialize.                              *)
LEMMA InitSends ==
  ASSUME TypeInv, OfItsOp, AwakeWhenBusy(chip), InitInv,
         op = "initialize", smooth, Running, Now.do \in {"cmd", "transmit"}
  PROVE  LET d == After(chip, Now.instr, Now.lines) IN
           /\ Now.do = "cmd" => InitChip(phase, pc, "abort", d)
           /\ pc < Len(Script(phase)) => InitChip(phase, pc + 1, "first", d)
           /\ ~(pc < Len(Script(phase))) => InitDone(phase, d)
           /\ phase \notin {"id1", "id2"}
<1>1. /\ phase \in PhasesOf("initialize") /\ pc \in 1 .. Len(Script(phase))
      /\ InitChip(phase, pc, try, chip) /\ chip \in Chips
  BY DEF InitInv, OfItsOp, TypeInv, TypeOK, Running
<1>2. phase \notin {"id1", "id2"} BY <1>1, IdSteps DEF Now
<1>3. phase \in {"wake", "reset", "winbond", "micron"} BY <1>1, <1>2 DEF PhasesOf
<1>4. Len(Script(phase)) \in Nat \ {0} BY <1>3, ScriptsWellFormed DEF WellFormed, Phases
<1>5. ~(pc < Len(Script(phase))) => pc = Len(Script(phase)) BY <1>1, <1>4
<1> QED BY <1>1, <1>2, <1>3, <1>5, InitCommand DEF Now

LEMMA InitInit == Init => InitInv
BY DEF Init, InitInv, InitRecovers, Running

LEMMA InitNext ==
  ASSUME TypeInv, TransferInv, OfItsOp, AwakeWhenBusy(chip), TokenInv, IdInv, InitInv,
         [Next]_vars
  PROVE  InitInv'
<1> SUFFICES ASSUME smooth', op' = "initialize" PROVE InitInv'
  BY DEF InitInv, InitRecovers
<1> DEFINE Sent == After(chip, Now.instr, Now.lines)
<1>a. chip \in Chips /\ Sent \in Chips /\ Sent.family = chip.family /\ pc \in Nat
  <2>1. chip \in Chips /\ pc \in Nat BY DEF TypeInv, TypeOK
  <2> QED BY <2>1, KinAfter DEF Kin
<1>b. ASSUME op = "initialize", smooth, Running
      PROVE  /\ phase \in PhasesOf("initialize") /\ phase \in Phases
             /\ pc \in 1 .. Len(Script(phase))
             /\ phase # "id1" => (InFlight => mine)
             /\ InitChip(phase, pc, try, chip)
             /\ phase \in {"winbond", "micron"} => pdevice = chip.family /\ phase = chip.family
  BY <1>b DEF InitInv, OfItsOp, TypeInv, TypeOK, Running
<1>c. ASSUME op = "initialize", smooth, Running, Now.do \notin {"cmd", "transmit", "identify"}
      PROVE  /\ pc < Len(Script(phase))
             /\ InitChip(phase, pc + 1, "first", chip)
  BY <1>b, <1>c, InitNoCommand DEF Now
<1>d. ASSUME op = "initialize", smooth, Running, Now.do \in {"cmd", "transmit"}
      PROVE  /\ Now.do = "cmd" => InitChip(phase, pc, "abort", Sent)
             /\ pc < Len(Script(phase)) => InitChip(phase, pc + 1, "first", Sent)
             /\ ~(pc < Len(Script(phase))) => InitDone(phase, Sent)
             /\ phase \notin {"id1", "id2"}
  BY <1>d, InitSends
<1>e. ASSUME smooth, ~At({"wait"}) PROVE ~mine
  BY <1>e DEF TokenInv
<1>f. ASSUME smooth, op = "initialize", Running, InFlight, mine PROVE hal # "tx"
  BY <1>b, <1>f DEF TransferInv, MineInFlight, PhasesOf
<1> HIDE DEF Sent
<1>1. ASSUME NEW o \in Ops, NEW n \in 1 .. MaxPages, Call(o, n) PROVE InitInv'
  <2>1. o = "initialize" BY <1>1 DEF Call
  <2>2. phase' = "id1" BY <1>1, <2>1 DEF Call, NeedsDevice, FirstPhase
  <2> QED BY <2>2 DEF InitInv, InitRecovers, InitChip, Running
<1>2. CASE CommandOk
  <2>1. PICK d : d = (IF Now.do = "cmd" THEN Sent ELSE chip) /\ Proceed(d)
    BY <1>2 DEF CommandOk, Sent
  <2>2. /\ Running /\ op = "initialize" /\ op' = op /\ hal = "ready" /\ smooth
        /\ UNCHANGED << pdevice, hal >> /\ Now.do \in {"cmd", "setup"}
    BY <1>2, <2>1, ProceedSmooth DEF CommandOk, At, objVars
  <2>3. ~InFlight BY <2>2 DEF InFlight
  <2>4. CASE Now.do = "cmd"
    BY <1>a, <1>b, <1>d, <2>1, <2>2, <2>3, <2>4, InitAdvances
  <2>5. CASE Now.do = "setup"
    BY <1>a, <1>b, <1>c, <2>1, <2>2, <2>3, <2>5, InitAdvances
  <2> QED BY <2>2, <2>4, <2>5
<1>3. CASE CommandFails
  <2>1. PICK d : /\ d = chip \/ (Now.do = "cmd" /\ d = Sent)
                 /\ IF try = "first" THEN FirstFails(d) ELSE RetryFails(d)
    BY <1>3 DEF CommandFails, Sent
  <2>2. try = "first" /\ FirstFails(d) BY <2>1, FailNotSmooth DEF RetryFails
  <2>3. /\ Running /\ op = "initialize" /\ smooth /\ ~mine
        /\ try' = "abort" /\ chip' = d /\ d.family = chip.family
        /\ UNCHANGED << phase, pc, pdevice, mine >>
    BY <1>a, <1>3, <1>e, <2>1, <2>2 DEF CommandFails, FirstFails, At, objVars, histVars
  <2>4. InitChip(phase, pc, "abort", d)
    BY <1>a, <1>b, <1>d, <2>1, <2>2, <2>3, InitStays
  <2>5. InFlight' => InFlight BY <1>3 DEF CommandFails, InFlight
  <2> QED BY <1>b, <2>3, <2>4, <2>5 DEF InitInv, InitRecovers, Running
<1>4. CASE AbortBeforeRetry
  <2>1. /\ Running /\ op = "initialize" /\ smooth /\ ~mine
        /\ try = "abort" /\ try' = "retry" /\ ~InFlight'
        /\ chip' \in {chip, CutShort(chip)}
        /\ UNCHANGED << phase, pc, pdevice >>
    BY <1>4, <1>e DEF AbortBeforeRetry, At, InFlight, objVars, callVars, histVars
  <2>2. phase # "id1" => chip' = chip
    BY <1>b, <2>1 DEF CutShort, InFlight
  <2>3. InitChip(phase, pc, "retry", chip')
    <3>0. InitChip(phase, pc, "abort", chip) /\ phase \in PhasesOf("initialize")
      BY <1>b, <2>1
    <3>1. InitChip(phase, pc, "retry", chip) BY <1>a, <3>0, InitStays
    <3> QED BY <2>2, <3>1 DEF InitChip
  <2>4. phase \in {"winbond", "micron"} => pdevice = chip.family /\ phase = chip.family
    BY <1>b, <2>1
  <2> QED BY <2>1, <2>2, <2>3, <2>4 DEF InitInv, InitRecovers, Running
<1>5. CASE Transmit
  <2>1. PICK d : d = Sent /\ Proceed(d) /\ hal = "ready" /\ hal' = hal
    BY <1>5, FailNotSmooth DEF Transmit, Sent
  <2>2. /\ Running /\ op = "initialize" /\ op' = op /\ smooth
        /\ UNCHANGED << pdevice, hal >> /\ Now.do = "transmit"
    BY <1>5, <2>1, ProceedSmooth DEF Transmit, At, objVars
  <2>3. ~InFlight BY <2>1 DEF InFlight
  <2> QED BY <1>a, <1>b, <1>d, <2>1, <2>2, <2>3, InitAdvances
<1>6. CASE StartTransfer
  <2>1. /\ Running /\ op = "initialize" /\ smooth /\ Now.do \in {"rx", "tx", "poll"}
        /\ mine' /\ try' = "first" /\ pc' = pc + 1
        /\ UNCHANGED << phase, chip, pdevice >>
    BY <1>6 DEF StartTransfer, At, objVars, callVars, histVars
  <2>2. InitChip(phase, pc + 1, "first", chip) BY <1>c, <2>1
  <2> QED BY <1>b, <2>1, <2>2 DEF InitInv, InitRecovers, Running
<1>7. CASE StartFails BY <1>7, FailNotSmooth DEF StartFails
<1>8. CASE WaitOk
  <2>1. /\ Running /\ op = "initialize" /\ smooth /\ Now.do = "wait" /\ Proceed(chip)
        /\ UNCHANGED << pdevice, hal, op >>
    BY <1>8, ProceedSmooth DEF WaitOk, At, objVars
  <2>2. pc < Len(Script(phase)) /\ InitChip(phase, pc + 1, "first", chip) BY <1>c, <2>1
  <2>3. /\ pc' = pc + 1 /\ try' = "first" /\ UNCHANGED << phase, chip, mine >>
    BY <2>1, <2>2 DEF Proceed
  <2> QED BY <1>b, <2>1, <2>2, <2>3 DEF InitInv, InitRecovers, Running, InFlight
<1>9. CASE WaitTimeout BY <1>9, FailNotSmooth DEF WaitTimeout
<1>10. CASE Identify
  <2>1. Running /\ op = "initialize" /\ Now.do = "identify" /\ hal' = hal
    BY <1>10 DEF Identify, At, callVars
  <2>2. smooth /\ mine' = FALSE BY <1>10 DEF Identify, FunctionReturns
  <2>3. phase \in {"id1", "id2"} /\ pc = 4
    BY <1>b, <2>1, <2>2, ScriptsWellFormed, IdSteps DEF WellFormed, Now
  <2>4. buf # "none" /\ ~InFlight /\ ~InFlight'
    BY <1>e, <2>1, <2>2, <2>3 DEF IdInv, TransferInv, NoForeignTransfer, At, InFlight
  <2>5. CASE buf = "good"
    <3>1. SpiReady(chip) BY <2>1, <2>3, <2>5 DEF IdInv
    <3>2. pdevice' = chip.family /\ FunctionReturns("ok", chip.family, left, chip)
      BY <1>10, <2>5 DEF Identify
    <3>3. chip' = chip BY <3>1, <3>2 DEF FunctionReturns, Disown, SpiReady
    <3>4. chip.family \in {"winbond", "micron"} BY <1>a DEF Chips, Families
    <3>5. phase' = chip.family /\ pc' = 1 /\ try' = "first"
      BY <2>3, <3>2, <3>4 DEF FunctionReturns, NextPhase
    <3>6. InitChip(chip.family, 1, "first", chip) BY <3>1, <3>4 DEF InitChip
    <3> QED BY <2>4, <3>2, <3>3, <3>4, <3>5, <3>6 DEF InitInv, InitRecovers, Running
  <2>6. CASE buf # "good"
    <3>1. chip.mode = "qpi" BY <2>1, <2>3, <2>4, <2>6 DEF IdInv, TypeInv, TypeOK
    <3>2. phase = "id1" BY <1>b, <2>1, <2>2, <2>3, <3>1 DEF InitChip, SpiReady
    <3>3. FunctionReturns("type_not_found", pimpl, left, chip)
      BY <1>10, <2>4, <2>6 DEF Identify
    <3>4. phase' = "wake" /\ pc' = 1 /\ try' = "first"
      BY <3>2, <3>3 DEF FunctionReturns, NextPhase, Rescue
    <3>5. chip'.mode = "qpi" BY <1>a, <3>1, <3>3 DEF FunctionReturns, Disown, Chips
    <3> QED BY <2>4, <3>4, <3>5 DEF InitInv, InitRecovers, InitChip, Running
  <2> QED BY <2>5, <2>6
<1>11. CASE EnterMemMapped
  <2>1. Running /\ op = "initialize" /\ Now.do = "map"
    BY <1>11 DEF EnterMemMapped, At
  <2>2. smooth BY <1>11, ProceedSmooth, FailNotSmooth DEF EnterMemMapped
  <2>3. pc = 1 /\ Len(Script(phase)) = 1
    BY <1>b, <2>1, <2>2, ScriptsWellFormed DEF WellFormed, Now
  <2> QED BY <1>c, <2>1, <2>2, <2>3
<1>12. CASE ExitMemMapped
  <2>1. Running /\ op = "initialize" /\ Now.do = "abort"
    BY <1>12 DEF ExitMemMapped, At
  <2>2. smooth BY <1>12, ProceedSmooth, FailNotSmooth DEF ExitMemMapped
  <2>3. pc = 1 /\ Len(Script(phase)) = 1
    BY <1>b, <2>1, <2>2, ScriptsWellFormed DEF WellFormed, Now
  <2> QED BY <1>c, <2>1, <2>2, <2>3
<1>13. CASE Complete
  <2>1. /\ smooth /\ mine /\ InFlight /\ ~InFlight'
        /\ hal # "tx" => chip' = chip
        /\ UNCHANGED << op, phase, pc, try, result, pdevice >>
    BY <1>13 DEF Complete, InFlight, objVars, callVars, posVars, TypeInv, TypeOK
  <2>2. Running BY <2>1 DEF TransferInv, MineInFlight
  <2>3. chip' = chip BY <1>f, <2>1, <2>2
  <2> QED BY <1>b, <2>1, <2>2, <2>3 DEF InitInv, InitRecovers, Running
<1>14. CASE TransferError
  <2>1. /\ smooth /\ InFlight /\ ~InFlight' /\ op = "initialize"
        /\ hal # "tx" => chip' = chip
        /\ UNCHANGED << op, phase, pc, try, result, pdevice >>
    BY <1>14 DEF TransferError, CutShort, InFlight, objVars, callVars, posVars, histVars
  <2>2. CASE ~Running BY <2>1, <2>2 DEF InitInv, InitRecovers, Running
  <2>3. CASE Running /\ phase = "id1"
    BY <2>1, <2>3 DEF InitInv, InitRecovers, InitChip, Running
  <2>4. CASE Running /\ phase # "id1"
    <3>1. chip' = chip BY <1>b, <1>f, <2>1, <2>4
    <3> QED BY <1>b, <2>1, <2>4, <3>1 DEF InitInv, InitRecovers, Running
  <2> QED BY <2>2, <2>3, <2>4
<1>15. CASE ChipDone
  <2>1. /\ smooth /\ op = "initialize"
        /\ chip' = [chip EXCEPT !.job = "idle"] /\ chip'.family = chip.family
        /\ UNCHANGED << op, phase, pc, try, result, pdevice, hal, mine >>
    BY <1>a, <1>15 DEF ChipDone, Chips, objVars, callVars, posVars, histVars, halVars
  <2>2. CASE ~Running BY <2>1, <2>2 DEF InitInv, InitRecovers, Running
  <2>3. CASE Running
    <3>1. InitChip(phase, pc, try, chip') BY <1>a, <1>b, <2>1, <2>3, InitIdles
    <3> QED BY <1>b, <2>1, <2>3, <3>1 DEF InitInv, InitRecovers, Running, InFlight
  <2> QED BY <2>2, <2>3
<1>16. CASE Reboot BY <1>16 DEF Reboot
<1>17. CASE UNCHANGED vars
  BY <1>17 DEF vars, InitInv, InitRecovers, Running, InFlight
<1> QED BY <1>1, <1>2, <1>3, <1>4, <1>5, <1>6, <1>7, <1>8, <1>9, <1>10, <1>11, <1>12,
           <1>13, <1>14, <1>15, <1>16, <1>17 DEF Next, DriverStep

(* All that is known of a call and its chip so far.                        *)
Known ==
  /\ TypeInv /\ TransferInv /\ BusyOrAsleepIsQuad /\ OfItsOp /\ AwakeWhenBusy(chip)
  /\ TokenInv /\ IdInv /\ InitInv

LEMMA KnownInit == Init => Known
BY TypeInit, TransferInit, RecoverableInit, OfItsOpInit, AwakeInit, TokenInit, IdInit, InitInit
   DEF Known

LEMMA KnownNext == Known /\ [Next]_vars => Known'
<1> SUFFICES ASSUME Known, [Next]_vars PROVE Known'
  OBVIOUS
<1> USE DEF Known
<1>1. TypeInv' /\ TransferInv' BY TypeNext, TransferNext
<1>2. BusyOrAsleepIsQuad' BY RecoverableNext
<1>3. OfItsOp' BY OfItsOpNext
<1>4. AwakeWhenBusy(chip)' BY AwakeNext
<1>5. TokenInv' BY TokenNext
<1>6. IdInv' BY <1>1, <1>5, IdNext
<1>7. InitInv' BY InitNext
<1> QED BY <1>1, <1>2, <1>3, <1>4, <1>5, <1>6, <1>7

(* initialize succeeds unless a HAL call fails for good or a wait times    *)
(* out, in whatever state the chip was left: in quad mode, asleep, busy or *)
(* half configured.                                                        *)
THEOREM InitializeRecovers == Spec => []InitRecovers
<1>1. Known => InitRecovers BY DEF Known, InitInv
<1> QED BY KnownInit, KnownNext, <1>1, PTL DEF Spec

==============================================================================
