--------------------------- MODULE QspiSession_proofs ---------------------------
(***************************************************************************)
(* Machine-checked proof of what the results of a driver object's calls    *)
(* say about the chip, for every number of pages and every set of fitted   *)
(* chips: after a clean initialize and until something fails, the chip is  *)
(* what the results said, and an operation that returned ok is done.       *)
(***************************************************************************)
EXTENDS QspiInit_proofs

-----------------------------------------------------------------------------
(* The sequences, step by step                                             *)

LEMMA ReadSteps ==
  ASSUME NEW n \in 1 .. Len(Script("read"))
  PROVE  /\ n \in 1 .. 3 /\ Len(Script("read")) = 3
         /\ n = 1 => Script("read")[n].do = "setup"
         /\ n = 2 => /\ Script("read")[n].do = "rx"
                      /\ Script("read")[n].instr = "FAST_READ_QUAD_IN_OUT"
                      /\ Script("read")[n].lines = 4
         /\ n = 3 => Script("read")[n].do = "wait"
<1>1. Script("read") = Read BY DEF Script
<1>2. Len(Read) = 3 BY DEF Read
<1>3. n \in 1 .. 3 BY <1>1, <1>2
<1>4. Read[1].do = "setup"
  BY DEF Read, Step, Wait
<1>5. Read[2].do = "rx" /\ Read[2].instr = "FAST_READ_QUAD_IN_OUT" /\ Read[2].lines = 4
  BY DEF Read, Step, Wait
<1>6. Read[3].do = "wait"
  BY DEF Read, Step, Wait
<1> QED BY <1>1, <1>2, <1>3, <1>4, <1>5, <1>6

LEMMA PageSteps ==
  ASSUME NEW n \in 1 .. Len(Script("page"))
  PROVE  /\ n \in 1 .. 6 /\ Len(Script("page")) = 6
         /\ n = 1 => /\ Script("page")[n].do = "cmd" /\ Script("page")[n].instr = "WRITE_ENABLE"
                      /\ Script("page")[n].lines = 4
         /\ n = 2 => Script("page")[n].do = "setup"
         /\ n = 3 => Script("page")[n].do = "tx"
         /\ n = 4 => Script("page")[n].do = "wait"
         /\ n = 5 => Script("page")[n].do = "poll"
         /\ n = 6 => Script("page")[n].do = "wait"
<1>1. Script("page") = PageWrite BY DEF Script
<1>2. Len(PageWrite) = 6 BY DEF PageWrite
<1>3. n \in 1 .. 6 BY <1>1, <1>2
<1>4. PageWrite[1].do = "cmd" /\ PageWrite[1].instr = "WRITE_ENABLE" /\ PageWrite[1].lines = 4
  BY DEF PageWrite, Step, Wait, PollBusy
<1>5. PageWrite[2].do = "setup"
  BY DEF PageWrite, Step, Wait, PollBusy
<1>6. PageWrite[3].do = "tx"
  BY DEF PageWrite, Step, Wait, PollBusy
<1>7. PageWrite[4].do = "wait"
  BY DEF PageWrite, Step, Wait, PollBusy
<1>8. PageWrite[5].do = "poll"
  BY DEF PageWrite, Step, Wait, PollBusy
<1>9. PageWrite[6].do = "wait"
  BY DEF PageWrite, Step, Wait, PollBusy
<1> QED BY <1>1, <1>2, <1>3, <1>4, <1>5, <1>6, <1>7, <1>8, <1>9

LEMMA EraseSteps ==
  ASSUME NEW n \in 1 .. Len(Script("erase"))
  PROVE  /\ n \in 1 .. 4 /\ Len(Script("erase")) = 4
         /\ n = 1 => /\ Script("erase")[n].do = "cmd" /\ Script("erase")[n].instr = "WRITE_ENABLE"
                      /\ Script("erase")[n].lines = 4
         /\ n = 2 => /\ Script("erase")[n].do = "cmd" /\ Script("erase")[n].instr = "ERASE"
                      /\ Script("erase")[n].lines = 4
         /\ n = 3 => Script("erase")[n].do = "poll"
         /\ n = 4 => Script("erase")[n].do = "wait"
<1>1. Script("erase") = Erase BY DEF Script
<1>2. Len(Erase) = 4 BY DEF Erase
<1>3. n \in 1 .. 4 BY <1>1, <1>2
<1>4. Erase[1].do = "cmd" /\ Erase[1].instr = "WRITE_ENABLE" /\ Erase[1].lines = 4
  BY DEF Erase, Step, Wait, PollBusy
<1>5. Erase[2].do = "cmd" /\ Erase[2].instr = "ERASE" /\ Erase[2].lines = 4
  BY DEF Erase, Step, Wait, PollBusy
<1>6. Erase[3].do = "poll"
  BY DEF Erase, Step, Wait, PollBusy
<1>7. Erase[4].do = "wait"
  BY DEF Erase, Step, Wait, PollBusy
<1> QED BY <1>1, <1>2, <1>3, <1>4, <1>5, <1>6, <1>7

LEMMA SingleSteps ==
  /\ Len(Script("sleep")) = 1 /\ Script("sleep")[1] = Step("cmd", "POWER_DOWN", 4)
  /\ Len(Script("wake")) = 1 /\ Script("wake")[1] = Step("cmd", "RELEASE_POWER_DOWN", 4)
  /\ Len(Script("map")) = 1 /\ Script("map")[1].do = "map"
  /\ Len(Script("unmap")) = 1 /\ Script("unmap")[1].do = "abort"
BY DEF Script, Sleep, Wake, EnterMapped, ExitMapped, Step

(* Only enter_quad_mode writes registers, only two functions map and       *)
(* unmap; what is sent with data is not the end of a function.             *)
LEMMA SpecialSteps ==
  ASSUME NEW ph \in Phases, NEW n \in 1 .. Len(Script(ph))
  PROVE  /\ Script(ph)[n].do = "transmit" => ph \in {"winbond", "micron"}
         /\ Script(ph)[n].do = "map" => ph = "map"
         /\ Script(ph)[n].do = "abort" => ph = "unmap"
         /\ Script(ph)[n].do = "setup" => n < Len(Script(ph))
<1> USE DEF Script, Step, Wait, PollBusy
<1>1. CASE ph = "id1" BY <1>1 DEF ReadJedecId
<1>2. CASE ph = "id2" BY <1>2 DEF ReadJedecId
<1>3. CASE ph = "read" BY <1>3 DEF Read
<1>4. CASE ph = "page" BY <1>4 DEF PageWrite
<1>5. CASE ph = "erase" BY <1>5 DEF Erase
<1>6. CASE ph = "sleep" BY <1>6 DEF Sleep
<1>7. CASE ph = "wake" BY <1>7 DEF Wake
<1>8. CASE ph = "reset" BY <1>8 DEF ResetChip
<1>9. CASE ph = "map" BY <1>9 DEF EnterMapped
<1>10. CASE ph = "unmap" BY <1>10 DEF ExitMapped
<1>11. CASE ph = "winbond" BY <1>11 DEF QuadWinbond
<1>12. CASE ph = "micron" BY <1>12 DEF QuadMicron
<1> QED BY <1>1, <1>2, <1>3, <1>4, <1>5, <1>6, <1>7, <1>8, <1>9, <1>10, <1>11, <1>12 DEF Phases

-----------------------------------------------------------------------------
(* What the commands do to a chip that was initialized                     *)

Asleep(c) == c.mode = "qpi" /\ ~c.awake /\ c.tuned /\ c.job = "idle"

LEMMA SleeperIsDeaf ==
  ASSUME NEW c \in Chips, Asleep(c), NEW i, i # "RELEASE_POWER_DOWN", NEW l
  PROVE  After(c, i, l) = c
BY DEF Asleep, After, Accepts, Chips

LEMMA AtRestDisowned ==
  ASSUME NEW c \in Chips, c.job = "idle"
  PROVE  Disown(c) = c
BY DEF Disown

LEMMA PowerCommands ==
  ASSUME NEW c \in Chips, Usable(c) \/ Asleep(c)
  PROVE  /\ Asleep(After(c, "POWER_DOWN", 4))
         /\ Usable(After(c, "RELEASE_POWER_DOWN", 4))
<1> USE DEF Usable, Asleep, After, Accepts, Obey, StartsJob, Chips
<1>1. Asleep(After(c, "POWER_DOWN", 4)) OBVIOUS
<1>2. Usable(After(c, "RELEASE_POWER_DOWN", 4)) OBVIOUS
<1> QED BY <1>1, <1>2

LEMMA ReadyHears ==
  ASSUME NEW c \in Chips, Usable(c)
  PROVE  /\ LET d == After(c, "WRITE_ENABLE", 4) IN Usable(d) /\ d.wel
         /\ c.wel => \A i \in StartsJob :
              LET d == After(c, i, 4) IN Quad(d) /\ d.tuned /\ d.job = "mine" /\ ~d.wel
<1> USE DEF Usable, Quad, After, Accepts, Obey, StartsJob, WritesRegister, Chips
<1>1. LET d == After(c, "WRITE_ENABLE", 4) IN Usable(d) /\ d.wel OBVIOUS
<1>2. ASSUME c.wel, NEW i \in StartsJob
      PROVE  LET d == After(c, i, 4) IN Quad(d) /\ d.tuned /\ d.job = "mine" /\ ~d.wel
  BY <1>2
<1> QED BY <1>1, <1>2

(* An erase command that is repeated finds its latch used up.              *)
LEMMA EraseRepeated ==
  ASSUME NEW c \in Chips, Quad(c), c.tuned, ~c.wel
  PROVE  LET d == After(c, "ERASE", 4) IN Quad(d) /\ d.tuned /\ ~d.wel /\ d.job = c.job
BY DEF Quad, After, Accepts, Obey, StartsJob, WritesRegister, Chips

-----------------------------------------------------------------------------
(* What holds of the call while the session lasts                          *)

(* Nothing has failed, the peripheral works for the running function or    *)
(* for nobody, and the driver knows its chip.                              *)
Sound == session # "none" => /\ smooth
                             /\ InFlight => mine
                             /\ pdevice = chip.family

(* A transfer that is waited for was started with a handle in good order.  *)
WaitInv == At({"wait"}) => hal # "error"

(* A function that returns ok and leaves a session behind had one, or was  *)
(* the last of initialize.                                                 *)
LEMMA SessionGoesOn ==
  ASSUME Known, Sound, Running, op' = op, Now.do # "identify", NEW d, Proceed(d),
         session' # "none"
  PROVE  /\ smooth /\ (InFlight => mine) /\ pdevice = chip.family
         /\ pc < Len(Script(phase)) => session' = session /\ phase' = phase
         /\ ~(pc < Len(Script(phase))) =>
              \/ session # "none"
              \/ op = "initialize" /\ phase \in {"winbond", "micron"} /\ ~Running'
<1>1. /\ op \in Ops /\ phase \in PhasesOf(op) /\ phase \in Phases /\ pc \in 1 .. Len(Script(phase))
  BY DEF Known, OfItsOp, TypeInv, TypeOK, Running
<1>2. CASE pc < Len(Script(phase))
  BY <1>2 DEF Proceed, histVars, Sound
<1>3. CASE ~(pc < Len(Script(phase)))
  <2>1. phase \notin {"id1", "id2"}
    BY <1>1, <1>3, ScriptsWellFormed DEF WellFormed, Now
  <2>2. /\ phase' = NextPhase(op, phase, "ok", pimpl, left')
        /\ session' = IF phase' = "idle" THEN SessionAfter("ok", smooth) ELSE session
    BY <1>3 DEF Proceed, FunctionReturns, Known, TypeInv, TypeOK
  <2>3. CASE session # "none" BY <1>3, <2>3 DEF Sound
  <2>4. CASE session = "none"
    <3>1. op = "initialize" /\ smooth /\ phase' = "idle" BY <2>2, <2>4 DEF SessionAfter
    <3>2. phase \in {"winbond", "micron"}
      BY <1>1, <2>1, <2>2, <3>1 DEF NextPhase, PhasesOf
    <3> QED BY <1>3, <3>1, <3>2 DEF Known, InitInv, Running
  <2> QED BY <2>3, <2>4
<1> QED BY <1>2, <1>3

(* Except in a wait, nothing is in flight in a session.                    *)
LEMMA Quiet ==
  ASSUME Known, smooth, InFlight => mine, ~At({"wait"}) \/ sem = 1
  PROVE  ~InFlight /\ ~mine
BY DEF Known, TokenInv, TransferInv, MineInFlight

LEMMA SoundProceeds ==
  ASSUME Known, Sound, [Next]_vars, Running, op' = op, Now.do # "identify", NEW d, Proceed(d),
         pdevice' = pdevice, ~At({"wait"}) \/ sem = 1, InFlight' => InFlight
  PROVE  Sound'
<1> SUFFICES ASSUME session' # "none" PROVE Sound'
  BY DEF Sound
<1>1. smooth /\ (InFlight => mine) /\ pdevice = chip.family BY SessionGoesOn
<1>2. chip'.family = chip.family BY KinMoves DEF Known, Kin
<1>3. ~InFlight' BY <1>1, Quiet
<1>4. smooth' BY <1>1 DEF Proceed, FunctionReturns, histVars
<1> QED BY <1>1, <1>2, <1>3, <1>4 DEF Sound

LEMMA SoundInit == Init => Sound
BY DEF Init, Sound

LEMMA SoundNext == Known /\ Sound /\ [Next]_vars => Sound'
<1> SUFFICES ASSUME Known, Sound, [Next]_vars, session' # "none" PROVE Sound'
  BY DEF Sound
<1>a. chip'.family = chip.family BY KinMoves DEF Known, Kin
<1>1. ASSUME NEW o \in Ops, NEW n \in 1 .. MaxPages, Call(o, n) PROVE Sound'
  <2>1. smooth /\ session # "none" /\ ~Running BY <1>1 DEF Call, Sound
  <2>2. sem # 1 /\ sem \in {0, 1} BY <2>1 DEF Known, TokenInv, At, TypeInv, TypeOK
  <2> QED BY <1>1, <2>1, <2>2 DEF Call, Sound, halVars, InFlight
<1>2. CASE CommandOk
  BY <1>2, SoundProceeds DEF CommandOk, At, objVars, InFlight
<1>3. CASE CommandFails
  <2>1. PICK d : IF try = "first" THEN FirstFails(d) ELSE RetryFails(d)
    BY <1>3 DEF CommandFails
  <2>2. FirstFails(d) BY <2>1, FailNotSmooth DEF RetryFails
  <2> QED BY <1>3, <1>a, <2>2 DEF CommandFails, FirstFails, Sound, InFlight, objVars, histVars
<1>4. CASE AbortBeforeRetry
  BY <1>4, <1>a DEF AbortBeforeRetry, Sound, InFlight, objVars, histVars
<1>5. CASE Transmit
  BY <1>5, SoundProceeds, FailNotSmooth DEF Transmit, At, objVars, InFlight
<1>6. CASE StartTransfer
  BY <1>6 DEF StartTransfer, Sound, InFlight, objVars, histVars
<1>7. CASE StartFails BY <1>7, FailNotSmooth DEF StartFails
<1>8. CASE WaitOk
  BY <1>8, SoundProceeds DEF WaitOk, At, objVars, InFlight
<1>9. CASE WaitTimeout BY <1>9, FailNotSmooth DEF WaitTimeout
<1>10. CASE Identify
  <2>1. Running /\ op' = op /\ Now.do = "identify" /\ hal' = hal
    BY <1>10 DEF Identify, At, callVars
  <2>2. PICK r \in {"ok", "type_not_found"} :
          FunctionReturns(r, IF r = "ok" THEN chip.family ELSE pimpl, left, chip)
    BY <1>10 DEF Identify
  <2>3. smooth /\ smooth' BY <2>2 DEF FunctionReturns, SessionAfter, Sound
  <2>4. phase \in {"id1", "id2"} /\ pc = 4
    <3>1. phase \in Phases /\ pc \in 1 .. Len(Script(phase))
      BY <2>1 DEF Known, TypeInv, TypeOK, Running
    <3> QED BY <2>1, <3>1, ScriptsWellFormed, IdSteps DEF WellFormed, Now
  <2>5. chip.family \in {"winbond", "micron"} BY DEF Known, TypeInv, TypeOK, Chips, Families
  <2>6. session # "none"
    <3>1. CASE r = "ok"
      <4>1. phase' = chip.family BY <2>2, <2>4, <3>1 DEF FunctionReturns, NextPhase
      <4> QED BY <2>2, <2>5, <4>1 DEF FunctionReturns
    <3>2. CASE r # "ok"
      BY <2>2, <3>2 DEF FunctionReturns, SessionAfter
    <3> QED BY <3>1, <3>2
  <2>7. ~InFlight BY <2>1, <2>3, <2>6, Quiet DEF Sound, At
  <2>8. pdevice' = chip.family BY <1>10, <2>6 DEF Identify, Sound, objVars
  <2> QED BY <1>a, <2>1, <2>3, <2>7, <2>8 DEF Sound, InFlight
<1>11. CASE EnterMemMapped
  BY <1>11, SoundProceeds, FailNotSmooth DEF EnterMemMapped, At, objVars, InFlight
<1>12. CASE ExitMemMapped
  <2>1. PICK d : Proceed(d) BY <1>12, FailNotSmooth DEF ExitMemMapped
  <2>2. InFlight' => InFlight BY <1>12, FailNotSmooth DEF ExitMemMapped, InFlight
  <2> QED BY <1>12, <2>1, <2>2, SoundProceeds DEF ExitMemMapped, At, objVars
<1>13. CASE Complete
  BY <1>13, <1>a DEF Complete, Sound, InFlight, objVars
<1>14. CASE TransferError
  BY <1>14, <1>a DEF TransferError, Sound, InFlight, objVars, histVars
<1>15. CASE ChipDone
  BY <1>15, <1>a DEF ChipDone, Sound, InFlight, objVars, halVars, histVars
<1>16. CASE Reboot BY <1>16 DEF Reboot
<1>17. CASE UNCHANGED vars BY <1>17 DEF vars, Sound, InFlight
<1> QED BY <1>1, <1>2, <1>3, <1>4, <1>5, <1>6, <1>7, <1>8, <1>9, <1>10, <1>11, <1>12,
           <1>13, <1>14, <1>15, <1>16, <1>17 DEF Next, DriverStep

LEMMA WaitInit == Init => WaitInv
BY DEF Init, WaitInv

LEMMA WaitNext ==
  ASSUME Known, Known', WaitInv, [Next]_vars
  PROVE  WaitInv'
<1>a. ASSUME Running', pc' = 1 PROVE ~At({"wait"})'
  <2>1. phase' \in Phases BY <1>a DEF Known, TypeInv, TypeOK, Running
  <2> QED BY <1>a, <2>1, ScriptsWellFormed DEF WellFormed, At, Now
<1>b. ASSUME NEW r, NEW quad, NEW rest, NEW d, FunctionReturns(r, quad, rest, d)
      PROVE  WaitInv'
  <2>1. Running' => pc' = 1 BY <1>b DEF FunctionReturns, Running
  <2> QED BY <1>a, <2>1 DEF WaitInv, At
<1>c. ASSUME NEW d, Proceed(d), ~(pc < Len(Script(phase))) PROVE WaitInv'
  BY <1>b, <1>c DEF Proceed
<1>d. ASSUME NEW r, NEW d, Fail(r, d) PROVE WaitInv'
  BY <1>b, <1>d DEF Fail
<1>e. ASSUME UNCHANGED << phase, pc >>, hal' = "error" => hal = "error" PROVE WaitInv'
  BY <1>e DEF WaitInv, At, Running, Now
<1>1. ASSUME NEW o \in Ops, NEW n \in 1 .. MaxPages, Call(o, n) PROVE WaitInv'
  <2>1. Running' => pc' = 1 BY <1>1 DEF Call, Running
  <2> QED BY <1>a, <2>1 DEF WaitInv, At
<1>2. CASE CommandOk BY <1>2 DEF CommandOk, WaitInv
<1>3. CASE CommandFails
  <2>1. PICK d : IF try = "first" THEN FirstFails(d) ELSE RetryFails(d)
    BY <1>3 DEF CommandFails
  <2>2. CASE FirstFails(d)
    BY <1>3, <2>2 DEF CommandFails, FirstFails, WaitInv, At, Running, Now
  <2> QED BY <1>d, <2>1, <2>2 DEF RetryFails
<1>4. CASE AbortBeforeRetry BY <1>4 DEF AbortBeforeRetry, WaitInv
<1>5. CASE Transmit BY <1>5, <1>d DEF Transmit, WaitInv
<1>6. CASE StartTransfer BY <1>6 DEF StartTransfer, At, WaitInv
<1>7. CASE StartFails BY <1>7, <1>d DEF StartFails
<1>8. CASE WaitOk BY <1>8 DEF WaitOk, WaitInv
<1>9. CASE WaitTimeout BY <1>9, <1>d DEF WaitTimeout
<1>10. CASE Identify BY <1>10, <1>b DEF Identify
<1>11. CASE EnterMemMapped BY <1>11, <1>d DEF EnterMemMapped, WaitInv
<1>12. CASE ExitMemMapped
  <2>1. pc = 1 /\ Len(Script(phase)) = 1
    <3>1. phase \in Phases /\ pc \in 1 .. Len(Script(phase)) /\ Now.do = "abort"
      BY <1>12 DEF ExitMemMapped, At, Known, TypeInv, TypeOK, Running
    <3> QED BY <3>1, ScriptsWellFormed DEF WellFormed, Now
  <2> QED BY <1>12, <1>c, <1>d, <2>1 DEF ExitMemMapped
<1>13. CASE Complete BY <1>13 DEF Complete, WaitInv
<1>14. CASE TransferError BY <1>14 DEF TransferError, WaitInv
<1>15. CASE ChipDone BY <1>15, <1>e DEF ChipDone, posVars, halVars
<1>16. CASE Reboot BY <1>16 DEF Reboot, WaitInv
<1>17. CASE UNCHANGED vars BY <1>17, <1>e DEF vars
<1> QED BY <1>1, <1>2, <1>3, <1>4, <1>5, <1>6, <1>7, <1>8, <1>9, <1>10, <1>11, <1>12,
           <1>13, <1>14, <1>15, <1>16, <1>17 DEF Next, DriverStep

-----------------------------------------------------------------------------
(* What the chip is while the session lasts                                *)

AtRest(s, c) == /\ s = "quad" => Usable(c)
                /\ s = "asleep" => Asleep(c)

DataPhases == {"read", "page", "erase", "map", "unmap"}

(* A chip c may be met by the running function in this session.  What      *)
(* needs an awake chip does nothing to a sleeping one.                     *)
Fits(c) ==
  /\ op \in {"sleep", "wake"} => Usable(c) \/ Asleep(c)
  /\ phase \in DataPhases /\ session = "asleep" => Asleep(c)
  /\ phase \in {"read", "map", "unmap"} /\ session = "quad" => Usable(c)

(* The write enable latch is set for the running function's job; the chip  *)
(* works on that job, or is done with it.                                  *)
Enabled(c)     == Usable(c) /\ c.wel /\ owed = Quota
Programming(c) == /\ Quad(c) /\ c.tuned
                  /\ \/ c.job = "mine" /\ owed = Quota
                     \/ c.job = "idle" /\ owed = Quota - 1

(* The status register is polled until the chip is done.                   *)
PollAt ==
  /\ mine => Programming(chip) /\ hal = "poll"
  /\ sem = 1 => Programming(chip) /\ chip.job = "idle"

ReadAt == phase = "read" =>
  /\ mine => answered /\ hal = "rx"
  /\ sem = 1 => buf = "good"

PageAt == phase = "page" =>
  /\ pc = 1 => Usable(chip) /\ owed = Quota
  /\ pc \in {2, 3} => Enabled(chip)
  /\ pc = 4 => /\ mine => Enabled(chip) /\ hal = "tx"
               /\ sem = 1 => Programming(chip)
  /\ pc = 5 => Programming(chip)
  /\ pc = 6 => PollAt

(* An erase command that seemed to fail may have been heard: then the      *)
(* repeated one finds no latch set, and does nothing.                      *)
EraseAt == phase = "erase" =>
  /\ pc = 1 => Usable(chip) /\ owed = Quota
  /\ pc = 2 => Enabled(chip) \/ (try # "first" /\ Programming(chip) /\ ~chip.wel)
  /\ pc = 3 => Programming(chip)
  /\ pc = 4 => PollAt

SessionInv == session # "none" =>
  /\ ~Running => hal # "error" /\ AtRest(session, chip)
  /\ phase = "unmap" => hal # "error"
  /\ Running => Fits(chip)
  /\ session = "quad" => ReadAt /\ PageAt /\ EraseAt

LEMMA FitsInit == Init => SessionInv
BY DEF Init, SessionInv

(* A command that keeps to the session.                                    *)
LEMMA FitsSent ==
  ASSUME Known, Fits(chip), At({"cmd"})
  PROVE  Fits(After(chip, Now.instr, Now.lines))
<1>1. /\ op \in Ops /\ phase \in PhasesOf(op) /\ phase \in Phases /\ pc \in 1 .. Len(Script(phase))
      /\ chip \in Chips /\ Now.do = "cmd"
  BY DEF Known, OfItsOp, TypeInv, TypeOK, At, Running
<1>2. ASSUME op \in {"sleep", "wake"}
      PROVE  LET d == After(chip, Now.instr, Now.lines) IN Usable(d) \/ Asleep(d)
  <2>1. phase = op
    <3>1. CASE op = "sleep" BY <1>1, <3>1 DEF PhasesOf, FirstPhase
    <3>2. CASE op = "wake" BY <1>1, <3>2 DEF PhasesOf, FirstPhase
    <3> QED BY <1>2, <3>1, <3>2
  <2>2. Len(Script(phase)) = 1 BY <1>2, <2>1, SingleSteps
  <2>3. pc = 1 BY <1>1, <2>2
  <2>4. Now \in {Step("cmd", "POWER_DOWN", 4), Step("cmd", "RELEASE_POWER_DOWN", 4)}
    BY <1>2, <2>1, <2>3, SingleSteps DEF Now
  <2>5. Usable(chip) \/ Asleep(chip) BY <1>2 DEF Fits
  <2> QED BY <1>1, <2>4, <2>5, PowerCommands DEF Step
<1>3. phase \in DataPhases => phase \in {"page", "erase"} /\ Now.instr \in {"WRITE_ENABLE", "ERASE"}
  BY <1>1, ReadSteps, PageSteps, EraseSteps, SingleSteps DEF Now, DataPhases
<1>4. ASSUME phase \in DataPhases, session = "asleep"
      PROVE  Asleep(After(chip, Now.instr, Now.lines))
  <2>1. Asleep(chip) BY <1>4 DEF Fits
  <2>2. Now.instr # "RELEASE_POWER_DOWN" BY <1>3, <1>4
  <2> QED BY <1>1, <2>1, <2>2, SleeperIsDeaf
<1> QED BY <1>2, <1>3, <1>4 DEF Fits, DataPhases

(* ... and what it means for a page program or an erase.                   *)
LEMMA ProgramSent ==
  ASSUME Known, PageAt, EraseAt, At({"cmd"})
  PROVE  LET d == After(chip, Now.instr, Now.lines) IN
           /\ phase = "page" => pc = 1 /\ Enabled(d)
           /\ phase = "erase" => pc \in {1, 2}
           /\ phase = "erase" /\ pc = 1 => Enabled(d)
           /\ phase = "erase" /\ pc = 2 => Programming(d) /\ ~d.wel
<1> DEFINE d == After(chip, Now.instr, Now.lines)
<1>1. /\ phase \in Phases /\ pc \in 1 .. Len(Script(phase)) /\ chip \in Chips /\ Now.do = "cmd"
  BY DEF Known, TypeInv, TypeOK, At, Running
<1>2. phase = "page" => pc = 1 /\ Now.instr = "WRITE_ENABLE" /\ Now.lines = 4
  BY <1>1, PageSteps DEF Now
<1>3. phase = "erase" =>
        /\ pc \in {1, 2} /\ Now.lines = 4
        /\ Now.instr = IF pc = 1 THEN "WRITE_ENABLE" ELSE "ERASE"
  BY <1>1, EraseSteps DEF Now
<1>4. ASSUME phase \in {"page", "erase"}, pc = 1 PROVE Enabled(d)
  <2>1. Usable(chip) /\ owed = Quota BY <1>4 DEF PageAt, EraseAt
  <2>2. d = After(chip, "WRITE_ENABLE", 4) BY <1>2, <1>3, <1>4
  <2> QED BY <1>1, <2>1, <2>2, ReadyHears DEF Enabled
<1>5. ASSUME phase = "erase", pc = 2 PROVE Programming(d) /\ ~d.wel
  <2>1. d = After(chip, "ERASE", 4) BY <1>3, <1>5
  <2>2. CASE Enabled(chip)
    BY <1>1, <2>1, <2>2, ReadyHears DEF Enabled, Programming, StartsJob
  <2>3. CASE Programming(chip) /\ ~chip.wel
    BY <1>1, <2>1, <2>3, EraseRepeated DEF Programming
  <2> QED BY <1>5, <2>2, <2>3 DEF EraseAt
<1> QED BY <1>2, <1>3, <1>4, <1>5

(* The function goes on, or is where it was.                               *)
LEMMA SessionStays ==
  ASSUME session' = session, Running, Running', UNCHANGED << op, phase >>, Fits(chip'),
         phase = "unmap" => hal' # "error",
         session = "quad" => ReadAt' /\ PageAt' /\ EraseAt'
  PROVE  SessionInv'
BY DEF SessionInv, Fits

(* The function returns ok.                                                *)
LEMMA SessionEnds ==
  ASSUME Known, Sound, Running, op' = op, Now.do # "identify", NEW d \in Chips, Proceed(d),
         ~(pc < Len(Script(phase))), session' # "none", hal' # "error", owed' = owed,
         phase = "sleep" => Asleep(d),
         op = "wake" => Usable(d),
         op = "initialize" /\ phase \in {"winbond", "micron"} => Usable(d),
         phase \in DataPhases => AtRest(session, d),
         phase = "page" /\ session = "quad" => owed = left - 1
  PROVE  SessionInv'
<1>1. /\ op \in Ops /\ phase \in PhasesOf(op) /\ phase \in Phases /\ pc \in 1 .. Len(Script(phase))
      /\ session \in {"none", "quad", "asleep"} /\ left \in Nat
  BY DEF Known, OfItsOp, TypeInv, TypeOK, Running
<1>2. phase \notin {"id1", "id2"} BY <1>1, ScriptsWellFormed DEF WellFormed, Now
<1>3. /\ phase' = NextPhase(op, phase, "ok", pimpl, left')
      /\ session' = IF phase' = "idle" THEN SessionAfter("ok", smooth) ELSE session
      /\ pc' = (IF phase' = "idle" THEN 0 ELSE 1) /\ ~mine'
      /\ chip' = Disown(d)
      /\ left' = (IF phase = "page" THEN left - 1 ELSE left)
  BY DEF Proceed, FunctionReturns, Known, TypeInv, TypeOK
<1>4. \/ session # "none"
      \/ op = "initialize" /\ phase \in {"winbond", "micron"}
  BY SessionGoesOn
<1>5. ASSUME d.job = "idle" PROVE chip' = d BY <1>3, <1>5, AtRestDisowned
<1>6. Usable(d) \/ Asleep(d) => d.job = "idle" BY DEF Usable, Asleep
<1>i. ASSUME phase' = "idle", AtRest(session', chip') PROVE SessionInv'
  BY <1>i DEF SessionInv, Running, ReadAt, PageAt, EraseAt
<1>7. CASE phase = "sleep"
  <2>1. op = "sleep" BY <1>1, <1>7 DEF PhasesOf, FirstPhase, Ops
  <2>2. phase' = "idle" /\ session' = "asleep"
    BY <1>3, <1>4, <1>7, <2>1 DEF NextPhase, SessionAfter
  <2> QED BY <1>5, <1>6, <1>7, <1>i, <2>2 DEF AtRest
<1>8. CASE op = "wake"
  <2>1. phase = "wake" BY <1>1, <1>8 DEF PhasesOf, FirstPhase
  <2>2. phase' = "idle" /\ session' = "quad"
    BY <1>3, <1>4, <1>8, <2>1 DEF NextPhase, SessionAfter
  <2> QED BY <1>5, <1>6, <1>8, <1>i, <2>2 DEF AtRest
<1>9. CASE op = "initialize" /\ phase \in {"winbond", "micron"}
  <2>1. phase' = "idle" /\ session' = "quad"
    BY <1>3, <1>9 DEF NextPhase, SessionAfter
  <2> QED BY <1>5, <1>6, <1>9, <1>i, <2>1 DEF AtRest
<1>10. CASE phase \in {"wake", "reset"} /\ op # "wake"
  <2>1. op \in {"initialize", "uninitialize", "reset_chip"}
    BY <1>1, <1>10 DEF PhasesOf, FirstPhase, Ops
  <2>2. phase' \in {"reset", "id2"}
    BY <1>3, <1>10, <2>1 DEF NextPhase, SessionAfter
  <2>3. phase' # "idle" /\ phase' # "unmap" /\ phase' \notin DataPhases
    BY <2>2 DEF DataPhases
  <2>4. Fits(chip)' BY <2>1, <2>3 DEF Fits, DataPhases
  <2>5. ReadAt' /\ PageAt' /\ EraseAt' BY <2>2 DEF ReadAt, PageAt, EraseAt
  <2> QED BY <2>3, <2>4, <2>5 DEF SessionInv, Running
<1>11. CASE \/ phase \in {"read", "erase", "map", "unmap"}
            \/ phase = "page" /\ phase' = "idle"
  <2>1. op \notin {"initialize", "uninitialize", "reset_chip", "sleep", "wake"}
    BY <1>1, <1>11 DEF PhasesOf, FirstPhase
  <2>2. phase' = "idle" BY <1>3, <1>11, <2>1 DEF NextPhase
  <2>3. session' = session BY <1>3, <2>1, <2>2 DEF SessionAfter
  <2>4. AtRest(session, d) BY <1>11 DEF DataPhases
  <2>5. AtRest(session', chip')
    BY <1>1, <1>4, <1>5, <1>6, <1>11, <2>1, <2>3, <2>4 DEF AtRest
  <2> QED BY <1>i, <2>2, <2>5
<1>12. CASE phase = "page" /\ phase' # "idle"
  <2>1. op = "write" BY <1>1, <1>12 DEF PhasesOf, FirstPhase, Ops
  <2>2. phase' = "page" /\ pc' = 1 /\ session' = session
    BY <1>3, <1>12 DEF NextPhase
  <2>3. AtRest(session, chip')
    <3>1. AtRest(session, d) BY <1>12 DEF DataPhases
    <3> QED BY <1>1, <1>4, <1>5, <1>6, <1>12, <3>1 DEF AtRest
  <2>4. Fits(chip)' BY <2>1, <2>2, <2>3 DEF Fits, AtRest
  <2>5. session = "quad" => PageAt'
    BY <1>3, <1>12, <2>2, <2>3 DEF PageAt, AtRest, Quota
  <2>6. ReadAt' /\ EraseAt' BY <2>2 DEF ReadAt, EraseAt
  <2> QED BY <2>2, <2>4, <2>5, <2>6 DEF SessionInv, Running
<1> QED
  <2>1. phase \in {"winbond", "micron"} => op = "initialize"
    BY <1>1 DEF PhasesOf, FirstPhase, Ops
  <2>2. \/ phase \in {"sleep", "wake", "reset", "page"}
        \/ phase \in {"winbond", "micron"}
        \/ phase \in {"read", "erase", "map", "unmap"}
    BY <1>1, <1>2 DEF Phases
  <2> QED BY <1>7, <1>8, <1>9, <1>10, <1>11, <1>12, <2>1, <2>2

(* Outside a wait no token and no transfer is there; in a wait a token     *)
(* means that the transfer is over.                                        *)
LEMMA InSession ==
  ASSUME Known, Sound, session # "none"
  PROVE  /\ smooth /\ (InFlight => mine) /\ pdevice = chip.family
         /\ mine => InFlight /\ Running /\ At({"wait"}) /\ sem = 0
         /\ ~At({"wait"}) => sem = 0 /\ ~mine /\ ~InFlight
         /\ sem = 1 => ~mine /\ ~InFlight
BY DEF Known, Sound, TokenInv, TransferInv, MineInFlight, TypeInv, TypeOK

LEMMA SessionNext ==
  ASSUME Known, Known', Sound, Sound', WaitInv, SessionInv, [Next]_vars
  PROVE  SessionInv'
<1> SUFFICES ASSUME session' # "none" PROVE SessionInv'
  BY DEF SessionInv
<1> DEFINE Sent == After(chip, Now.instr, Now.lines)
<1>a. /\ chip \in Chips /\ Sent \in Chips /\ pc \in Nat /\ sem \in {0, 1} /\ left \in Nat
      /\ owed \in Int /\ session \in {"none", "quad", "asleep"}
  BY AfterType DEF Known, TypeInv, TypeOK
<1>b. ASSUME Running
      PROVE  /\ op \in Ops /\ phase \in PhasesOf(op) /\ phase \in Phases
             /\ pc \in 1 .. Len(Script(phase))
  BY <1>b DEF Known, OfItsOp, TypeInv, TypeOK, Running
<1>c. ASSUME session # "none", ~At({"wait"}) PROVE sem = 0 /\ ~mine /\ ~InFlight
  BY <1>c, InSession
<1>d. ASSUME session # "none"
      PROVE  /\ ~Running => hal # "error" /\ AtRest(session, chip)
             /\ phase = "unmap" => hal # "error"
             /\ Running => Fits(chip)
             /\ session = "quad" => ReadAt /\ PageAt /\ EraseAt
  BY <1>d DEF SessionInv
<1>e. ASSUME ~mine', sem' = 0 PROVE ReadAt'
  BY <1>e DEF ReadAt
<1> HIDE DEF Sent
<1>1. ASSUME NEW o \in Ops, NEW n \in 1 .. MaxPages, Call(o, n) PROVE SessionInv'
  <2>1. /\ ~Running /\ session # "none" /\ session' = session /\ chip' = chip
        /\ hal' = hal /\ mine' = mine /\ sem' = sem /\ op' = o
    BY <1>1 DEF Call, halVars
  <2>2. AtRest(session', chip') /\ hal' # "error" /\ ~mine' /\ sem' = 0
    BY <1>c, <1>d, <2>1 DEF At
  <2>3. Fits(chip') /\ Fits(chip)'
    BY <1>a, <2>1, <2>2 DEF AtRest, Fits, Running, DataPhases
  <2>4. phase' \in {"idle", FirstPhase(o)} /\ pc' \in {0, 1} /\ (phase' # "idle" => pc' = 1)
    BY <1>1 DEF Call
  <2>5. phase' = "page" => o = "write" BY <2>4 DEF FirstPhase, Ops
  <2>6. phase' = "erase" => o = "erase" BY <2>4 DEF FirstPhase, Ops
  <2>7. /\ phase' = "page" => owed' = n /\ left' = n
        /\ phase' = "erase" => owed' = 1
    BY <1>1, <2>5, <2>6, MaxPagesAssumption DEF Call
  <2>8. session' = "quad" => PageAt' /\ EraseAt'
    BY <2>2, <2>4, <2>7 DEF PageAt, EraseAt, AtRest, Quota
  <2> QED BY <1>e, <2>2, <2>3, <2>8 DEF SessionInv
<1>2. CASE CommandOk
  <2>1. PICK d : d = (IF Now.do = "cmd" THEN Sent ELSE chip) /\ Proceed(d)
    BY <1>2 DEF CommandOk, Sent
  <2>2. /\ Running /\ op' = op /\ hal = "ready" /\ hal' = "ready" /\ Now.do \in {"cmd", "setup"}
        /\ UNCHANGED << sem, owed >> /\ ~At({"wait"})
    BY <1>2 DEF CommandOk, At
  <2>3. d \in Chips BY <1>a, <2>1
  <2>4. CASE pc < Len(Script(phase))
    <3>1. /\ session' = session /\ UNCHANGED << phase, mine, left >> /\ chip' = d
          /\ pc' = pc + 1 /\ try' = "first"
      BY <2>1, <2>4 DEF Proceed, histVars
    <3>2. session # "none" /\ Running' BY <2>2, <3>1 DEF Running
    <3>3. sem' = 0 /\ ~mine' BY <1>c, <2>2, <3>1, <3>2
    <3>4. Fits(chip')
      BY <1>d, <2>1, <2>2, <3>1, <3>2, FitsSent DEF At, Sent
    <3>5. ASSUME session = "quad" PROVE PageAt'
      <4>1. PageAt /\ EraseAt BY <1>d, <3>5
      <4>2. CASE phase = "page" /\ Now.do = "cmd"
        <5>1. pc = 1 /\ Enabled(d) BY <2>1, <2>2, <4>1, <4>2, ProgramSent DEF At, Sent
        <5>2. Enabled(chip)' BY <2>2, <3>1, <5>1 DEF Enabled, Quota
        <5> QED BY <3>1, <5>1, <5>2 DEF PageAt
      <4>3. CASE phase = "page" /\ Now.do = "setup"
        <5>1. pc = 2 BY <1>b, <2>2, <4>3, PageSteps DEF Now
        <5>2. Enabled(chip) /\ d = chip BY <2>1, <4>1, <4>3, <5>1 DEF PageAt
        <5>3. Enabled(chip)' BY <2>2, <3>1, <5>2 DEF Enabled, Quota
        <5> QED BY <3>1, <5>1, <5>3 DEF PageAt
      <4> QED BY <2>2, <3>1, <4>2, <4>3 DEF PageAt
    <3>6. ASSUME session = "quad" PROVE EraseAt'
      <4>1. PageAt /\ EraseAt BY <1>d, <3>6
      <4>2. CASE phase = "erase" /\ Now.do = "cmd"
        <5>1. /\ pc \in {1, 2}
              /\ pc = 1 => Enabled(d)
              /\ pc = 2 => Programming(d)
          BY <2>1, <2>2, <4>1, <4>2, ProgramSent DEF At, Sent
        <5>2. pc = 1 => Enabled(chip)' BY <2>2, <3>1, <5>1 DEF Enabled, Quota
        <5>3. pc = 2 => Programming(chip)' BY <2>2, <3>1, <5>1 DEF Programming, Quota
        <5> QED BY <3>1, <5>1, <5>2, <5>3 DEF EraseAt
      <4>3. CASE phase = "erase" /\ Now.do = "setup"
        BY <1>b, <2>2, <4>3, EraseSteps DEF Now
      <4> QED BY <2>2, <3>1, <4>2, <4>3 DEF EraseAt
    <3> QED BY <1>e, <2>2, <3>1, <3>2, <3>3, <3>4, <3>5, <3>6, SessionStays
  <2>5. CASE ~(pc < Len(Script(phase)))
    <3>1. Now.do = "cmd" /\ d = Sent /\ pc = Len(Script(phase))
      <4>1. Now.do = "cmd" BY <1>b, <2>2, <2>5, SpecialSteps DEF Now
      <4>2. Len(Script(phase)) \in Nat BY <1>b, <2>2, ScriptsWellFormed DEF WellFormed
      <4> QED BY <1>b, <2>1, <2>2, <2>5, <4>1, <4>2
    <3>2. \/ session # "none" /\ Fits(chip)
          \/ op = "initialize" /\ phase \in {"winbond", "micron"}
      BY <1>d, <2>1, <2>2, <2>5, SessionGoesOn
    <3>3. phase \notin DataPhases
      <4>1. phase # "read" BY <1>b, <2>2, <3>1, ReadSteps DEF Now
      <4>2. phase # "page" BY <1>b, <2>2, <3>1, PageSteps DEF Now
      <4>3. phase # "erase" BY <1>b, <2>2, <3>1, EraseSteps DEF Now
      <4>4. phase \notin {"map", "unmap"} BY <1>b, <2>2, <3>1, SingleSteps DEF Now
      <4> QED BY <4>1, <4>2, <4>3, <4>4 DEF DataPhases
    <3>4. phase = "sleep" => Asleep(d)
      <4> SUFFICES ASSUME phase = "sleep" PROVE Asleep(d)
        OBVIOUS
      <4>1. op = "sleep" BY <1>b, <2>2 DEF PhasesOf, FirstPhase, Ops
      <4>2. Usable(chip) \/ Asleep(chip) BY <3>2, <4>1 DEF Fits
      <4>3. pc = 1 BY <3>1, SingleSteps
      <4>4. Now = Step("cmd", "POWER_DOWN", 4) BY <4>3, SingleSteps DEF Now
      <4>5. d = After(chip, "POWER_DOWN", 4) BY <3>1, <4>4 DEF Sent, Step
      <4> QED BY <1>a, <4>2, <4>5, PowerCommands
    <3>5. op = "wake" => Usable(d)
      <4> SUFFICES ASSUME op = "wake" PROVE Usable(d)
        OBVIOUS
      <4>1. phase = "wake" BY <1>b, <2>2 DEF PhasesOf, FirstPhase
      <4>2. Usable(chip) \/ Asleep(chip) BY <3>2 DEF Fits
      <4>3. pc = 1 BY <3>1, <4>1, SingleSteps
      <4>4. Now = Step("cmd", "RELEASE_POWER_DOWN", 4) BY <4>1, <4>3, SingleSteps DEF Now
      <4>5. d = After(chip, "RELEASE_POWER_DOWN", 4) BY <3>1, <4>4 DEF Sent, Step
      <4> QED BY <1>a, <4>2, <4>5, PowerCommands
    <3>6. op = "initialize" /\ phase \in {"winbond", "micron"} => Usable(d)
      <4> SUFFICES ASSUME op = "initialize", phase \in {"winbond", "micron"} PROVE Usable(d)
        OBVIOUS
      <4>1. smooth BY <2>1, <2>2, SessionGoesOn
      <4>2. InitDone(phase, Sent) BY <2>2, <2>5, <3>1, <4>1, InitSends DEF Known, Sent
      <4> QED BY <3>1, <4>2 DEF InitDone
    <3>7. phase # "page" BY <3>3 DEF DataPhases
    <3> QED BY <2>1, <2>2, <2>3, <2>5, <3>3, <3>4, <3>5, <3>6, <3>7, SessionEnds
  <2> QED BY <2>4, <2>5
<1>3. CASE CommandFails
  <2>1. PICK d : /\ d = chip \/ (Now.do = "cmd" /\ d = Sent)
                 /\ IF try = "first" THEN FirstFails(d) ELSE RetryFails(d)
    BY <1>3 DEF CommandFails, Sent
  <2>2. FirstFails(d) BY <2>1, FailNotSmooth DEF RetryFails
  <2>3. /\ session' = session /\ chip' = d /\ try' = "abort"
        /\ UNCHANGED << op, phase, pc, mine, left, sem, owed >>
        /\ Running /\ Running' /\ ~At({"wait"}) /\ Now.do \in {"cmd", "setup"}
    BY <1>3, <2>2 DEF CommandFails, FirstFails, At, histVars, Running
  <2>4. session # "none" BY <2>3
  <2>5. sem' = 0 /\ ~mine' BY <1>c, <2>3, <2>4
  <2>6. Fits(chip') BY <1>d, <2>1, <2>3, <2>4, FitsSent DEF At, Sent
  <2>7. phase # "unmap" BY <1>b, <2>3, SingleSteps DEF Now
  <2>8. ASSUME session = "quad" PROVE PageAt'
    <3>1. PageAt /\ EraseAt BY <1>d, <2>8
    <3>2. CASE d = chip
      BY <2>3, <2>5, <3>1, <3>2 DEF PageAt, PollAt, Enabled, Programming, Quota
    <3>3. CASE phase = "page" /\ Now.do = "cmd" /\ d = Sent
      <4>1. pc = 1 /\ Enabled(d) BY <2>3, <3>1, <3>3, ProgramSent DEF At, Sent
      <4> QED BY <2>3, <4>1 DEF PageAt, Enabled, Quota
    <3> QED BY <2>1, <2>3, <3>2, <3>3 DEF PageAt
  <2>9. ASSUME session = "quad" PROVE EraseAt'
    <3>1. PageAt /\ EraseAt BY <1>d, <2>9
    <3>2. CASE d = chip
      BY <2>3, <2>5, <3>1, <3>2 DEF EraseAt, PollAt, Enabled, Programming, Quota
    <3>3. CASE phase = "erase" /\ Now.do = "cmd" /\ d = Sent
      <4>1. /\ pc \in {1, 2}
            /\ pc = 1 => Enabled(d)
            /\ pc = 2 => Programming(d) /\ ~d.wel
        BY <2>3, <3>1, <3>3, ProgramSent DEF At, Sent
      <4> QED BY <2>3, <4>1 DEF EraseAt, Enabled, Programming, Quota
    <3> QED BY <2>1, <2>3, <3>2, <3>3 DEF EraseAt
  <2> QED BY <1>e, <2>3, <2>5, <2>6, <2>7, <2>8, <2>9, SessionStays
<1>4. CASE AbortBeforeRetry
  <2>1. /\ session' = session /\ try' = "retry" /\ ~mine' /\ hal' = "ready"
        /\ UNCHANGED << op, phase, pc, left, sem, owed >>
        /\ Running /\ Running' /\ ~At({"wait"}) /\ chip' \in {chip, CutShort(chip)}
    BY <1>4 DEF AbortBeforeRetry, At, histVars, callVars, Running
  <2>2. session # "none" BY <2>1
  <2>3. sem' = 0 /\ ~InFlight BY <1>c, <2>1, <2>2
  <2>4. chip' = chip BY <2>1, <2>3 DEF CutShort, InFlight
  <2>5. Fits(chip') BY <1>d, <2>1, <2>2, <2>4
  <2>6. session = "quad" => PageAt'
    BY <1>d, <2>1, <2>3, <2>4 DEF PageAt, PollAt, Enabled, Programming, Quota
  <2>7. session = "quad" => EraseAt'
    BY <1>d, <2>1, <2>3, <2>4 DEF EraseAt, PollAt, Enabled, Programming, Quota
  <2> QED BY <1>e, <2>1, <2>3, <2>5, <2>6, <2>7, SessionStays
<1>5. CASE Transmit
  <2>1. Proceed(Sent) /\ hal' = "ready" BY <1>5, FailNotSmooth DEF Transmit, Sent
  <2>2. Running /\ op' = op /\ Now.do = "transmit" /\ UNCHANGED << sem, owed >>
    BY <1>5 DEF Transmit, At
  <2>3. phase \in {"winbond", "micron"} BY <1>b, <2>2, SpecialSteps DEF Now
  <2>4. op = "initialize" BY <1>b, <2>2, <2>3 DEF PhasesOf, FirstPhase, Ops
  <2>5. CASE pc < Len(Script(phase))
    <3>1. session' = session /\ phase' = phase BY <2>1, <2>5 DEF Proceed, histVars
    <3>2. Fits(chip') BY <2>3, <2>4 DEF Fits, DataPhases
    <3>3. ReadAt' /\ PageAt' /\ EraseAt' BY <2>3, <3>1 DEF ReadAt, PageAt, EraseAt
    <3> QED BY <2>1, <2>2, <3>1, <3>2, <3>3, SessionStays DEF Running
  <2>6. CASE ~(pc < Len(Script(phase)))
    <3>1. smooth BY <2>1, <2>2, SessionGoesOn
    <3>2. Usable(Sent) BY <2>2, <2>3, <2>4, <2>6, <3>1, InitSends DEF Known, Sent, InitDone
    <3> QED BY <1>a, <2>1, <2>2, <2>3, <2>4, <2>6, <3>2, SessionEnds DEF DataPhases
  <2> QED BY <2>5, <2>6
<1>6. CASE StartTransfer
  <2>1. /\ session' = session /\ mine' = TRUE /\ hal' = Now.do /\ pc' = pc + 1 /\ chip' = chip
        /\ answered' = /\ Accepts(chip, Now.instr, Now.lines)
                       /\ Now.instr = "FAST_READ_QUAD_IN_OUT" => chip.tuned
        /\ UNCHANGED << op, phase, left, sem, owed >>
        /\ Running /\ Running' /\ ~At({"wait"}) /\ Now.do \in {"rx", "tx", "poll"}
    BY <1>6 DEF StartTransfer, At, histVars, callVars, Running
  <2>2. session # "none" BY <2>1
  <2>3. sem' = 0 BY <1>c, <2>1, <2>2
  <2>4. Fits(chip) /\ Fits(chip') BY <1>d, <2>1, <2>2
  <2>5. phase = "unmap" => hal' # "error" BY <2>1
  <2>6. ASSUME session = "quad" PROVE ReadAt'
    <3> SUFFICES ASSUME phase = "read" PROVE answered' /\ hal' = "rx"
      BY <2>1, <2>3 DEF ReadAt
    <3>1. Now.do = "rx" /\ Now.instr = "FAST_READ_QUAD_IN_OUT" /\ Now.lines = 4
      BY <1>b, <2>1, ReadSteps DEF Now
    <3>2. Usable(chip) BY <2>4, <2>6 DEF Fits
    <3> QED BY <2>1, <3>1, <3>2 DEF Usable, Accepts
  <2>7. ASSUME session = "quad" PROVE PageAt'
    <3> SUFFICES ASSUME phase = "page" PROVE PageAt'
      BY <2>1 DEF PageAt
    <3>1. PageAt BY <1>d, <2>7
    <3>2. \/ pc = 3 /\ Now.do = "tx"
          \/ pc = 5 /\ Now.do = "poll"
      BY <1>b, <2>1, PageSteps DEF Now
    <3>3. pc = 3 => Enabled(chip)' BY <2>1, <3>1 DEF PageAt, Enabled, Quota
    <3>4. pc = 5 => Programming(chip)' BY <2>1, <3>1 DEF PageAt, Programming, Quota
    <3> QED BY <2>1, <2>3, <3>2, <3>3, <3>4 DEF PageAt, PollAt
  <2>8. ASSUME session = "quad" PROVE EraseAt'
    <3> SUFFICES ASSUME phase = "erase" PROVE EraseAt'
      BY <2>1 DEF EraseAt
    <3>1. EraseAt BY <1>d, <2>8
    <3>2. pc = 3 /\ Now.do = "poll" BY <1>b, <2>1, EraseSteps DEF Now
    <3>3. Programming(chip)' BY <2>1, <3>1, <3>2 DEF EraseAt, Programming, Quota
    <3> QED BY <2>1, <2>3, <3>2, <3>3 DEF EraseAt, PollAt
  <2> QED BY <2>1, <2>4, <2>5, <2>6, <2>7, <2>8, SessionStays
<1>7. CASE StartFails BY <1>7, FailNotSmooth DEF StartFails
<1>8. CASE WaitOk
  <2>1. /\ Running /\ op' = op /\ Now.do = "wait" /\ sem = 1 /\ sem' = 0 /\ Proceed(chip)
        /\ UNCHANGED << hal, owed >> /\ hal # "error"
    BY <1>8 DEF WaitOk, At, WaitInv
  <2>2. session # "none" /\ ~mine
    <3>1. pc < Len(Script(phase)) \/ op # "initialize" \/ phase \notin {"winbond", "micron"}
      <4>1. smooth BY <2>1, SessionGoesOn
      <4>2. ASSUME op = "initialize", phase \in {"winbond", "micron"}
            PROVE  pc < Len(Script(phase))
        <5>1. InitChip(phase, pc, try, chip) /\ phase \in PhasesOf("initialize")
          BY <1>b, <2>1, <4>1, <4>2 DEF Known, InitInv
        <5> QED BY <1>b, <2>1, <5>1, InitNoCommand DEF Now
      <4> QED BY <4>2
    <3>2. session # "none" BY <2>1, <3>1, SessionGoesOn
    <3> QED BY <2>1, <3>2, InSession
  <2>3. Fits(chip) /\ (session = "quad" => ReadAt /\ PageAt /\ EraseAt) BY <1>d, <2>1, <2>2
  <2>4. phase # "unmap" /\ phase # "map" /\ phase # "sleep" /\ op # "wake"
    <3>1. phase \notin {"unmap", "map", "sleep", "wake"} BY <1>b, <2>1, SingleSteps DEF Now, Step
    <3>2. op = "wake" => phase = "wake" BY <1>b, <2>1 DEF PhasesOf, FirstPhase
    <3> QED BY <3>1, <3>2
  <2>5. CASE pc < Len(Script(phase))
    <3>1. /\ session' = session /\ pc' = pc + 1 /\ chip' = chip
          /\ UNCHANGED << phase, mine, left >> /\ Running'
      BY <2>1, <2>5 DEF Proceed, histVars, Running
    <3>2. ASSUME session = "quad" PROVE PageAt'
      <4> SUFFICES ASSUME phase = "page" PROVE PageAt'
        BY <3>1 DEF PageAt
      <4>1. pc = 4 BY <1>b, <2>1, <2>5, PageSteps DEF Now
      <4>2. Programming(chip) BY <2>1, <2>3, <3>2, <4>1 DEF PageAt
      <4>3. Programming(chip)' BY <2>1, <3>1, <4>2 DEF Programming, Quota
      <4> QED BY <3>1, <4>1, <4>3 DEF PageAt
    <3>3. phase # "erase" BY <1>b, <2>1, <2>5, EraseSteps DEF Now
    <3>4. EraseAt' BY <3>1, <3>3 DEF EraseAt
    <3> QED BY <1>e, <2>1, <2>2, <2>3, <2>4, <3>1, <3>2, <3>4, SessionStays
  <2>6. CASE ~(pc < Len(Script(phase)))
    <3>1. ASSUME session = "quad", phase \in {"page", "erase"}
          PROVE  Usable(chip) /\ owed = Quota - 1
      <4>1. /\ phase = "page" => pc = 6
            /\ phase = "erase" => pc = 4
        <5>1. ASSUME phase = "page" PROVE pc = 6
          <6>1. pc \in 1 .. Len(Script("page")) BY <1>b, <2>1, <5>1
          <6>2. Len(Script("page")) = 6 BY <6>1, PageSteps
          <6>3. Len(Script(phase)) = 6 BY <5>1, <6>2
          <6>4. pc \in 1 .. 6 BY <6>1, <6>2
          <6>5. ~(pc < 6) BY <2>6, <6>3
          <6> QED BY <6>4, <6>5
        <5>2. ASSUME phase = "erase" PROVE pc = 4
          <6>1. pc \in 1 .. Len(Script("erase")) BY <1>b, <2>1, <5>2
          <6>2. Len(Script("erase")) = 4 BY <6>1, EraseSteps
          <6>3. Len(Script(phase)) = 4 BY <5>2, <6>2
          <6>4. pc \in 1 .. 4 BY <6>1, <6>2
          <6>5. ~(pc < 4) BY <2>6, <6>3
          <6> QED BY <6>4, <6>5
        <5> QED BY <5>1, <5>2
      <4>2. PollAt BY <2>3, <3>1, <4>1 DEF PageAt, EraseAt
      <4> QED BY <2>1, <4>2 DEF PollAt, Programming, Quad, Usable
    <3>2. AtRest(session, chip) \/ phase \notin DataPhases
      BY <2>3, <2>4, <3>1 DEF AtRest, Fits, DataPhases
    <3>3. phase = "page" /\ session = "quad" => owed = left - 1
      BY <3>1 DEF Quota
    <3>4. ~(op = "initialize" /\ phase \in {"winbond", "micron"})
      <4>1. smooth BY <2>2, InSession
      <4>2. ASSUME op = "initialize", phase \in {"winbond", "micron"} PROVE FALSE
        <5>1. InitChip(phase, pc, try, chip) /\ phase \in PhasesOf("initialize")
          BY <1>b, <2>1, <4>1, <4>2 DEF Known, InitInv
        <5> QED BY <1>b, <2>1, <2>6, <5>1, InitNoCommand DEF Now
      <4> QED BY <4>2
    <3> QED BY <1>a, <2>1, <2>4, <2>6, <3>2, <3>3, <3>4, SessionEnds
  <2> QED BY <2>5, <2>6
<1>9. CASE WaitTimeout BY <1>9, FailNotSmooth DEF WaitTimeout
<1>10. CASE Identify
  <2>1. Running /\ op' = op /\ Now.do = "identify" BY <1>10 DEF Identify, At, callVars
  <2>2. PICK r \in {"ok", "type_not_found"} :
          FunctionReturns(r, IF r = "ok" THEN chip.family ELSE pimpl, left, chip)
    BY <1>10 DEF Identify
  <2>3. phase \in {"id1", "id2"} BY <1>b, <2>1, ScriptsWellFormed DEF WellFormed, Now
  <2>4. op = "initialize" BY <1>b, <2>1, <2>3 DEF PhasesOf, FirstPhase, Ops
  <2>5. chip.family \in {"winbond", "micron"} BY <1>a DEF Chips, Families
  <2>6. phase' \in {"winbond", "micron", "wake"}
    BY <2>2, <2>3, <2>4, <2>5 DEF FunctionReturns, NextPhase, Rescue, SessionAfter
  <2>7. Fits(chip)' BY <2>1, <2>4, <2>6 DEF Fits, DataPhases
  <2>8. ReadAt' /\ PageAt' /\ EraseAt' BY <2>6 DEF ReadAt, PageAt, EraseAt
  <2> QED BY <2>6, <2>7, <2>8 DEF SessionInv, Running
<1>11. CASE EnterMemMapped
  <2>1. /\ Running /\ op' = op /\ Now.do = "map" /\ Proceed(chip) /\ hal' = "mapped"
        /\ owed' = owed
    BY <1>11, FailNotSmooth DEF EnterMemMapped, At
  <2>2. phase = "map" /\ ~(pc < Len(Script(phase)))
    BY <1>b, <2>1, SpecialSteps, SingleSteps DEF Now
  <2>3. session # "none" BY <2>1, <2>2, SessionGoesOn
  <2>4. AtRest(session, chip) BY <1>d, <2>1, <2>2, <2>3 DEF AtRest, Fits, DataPhases
  <2>5. op # "wake" BY <1>b, <2>1, <2>2 DEF PhasesOf, FirstPhase
  <2> QED BY <1>a, <2>1, <2>2, <2>4, <2>5, SessionEnds
<1>12. CASE ExitMemMapped
  <2>1. PICK d \in {chip, CutShort(chip)} :
          /\ Running /\ op' = op /\ Now.do = "abort" /\ Proceed(d) /\ owed' = owed
          /\ hal' = IF HalBusy THEN "ready" ELSE hal
    BY <1>12, FailNotSmooth DEF ExitMemMapped, At
  <2>2. phase = "unmap" /\ ~(pc < Len(Script(phase)))
    BY <1>b, <2>1, SpecialSteps, SingleSteps DEF Now
  <2>3. session # "none" BY <2>1, <2>2, SessionGoesOn
  <2>4. d = chip BY <1>c, <2>1, <2>3 DEF At, CutShort, InFlight
  <2>5. AtRest(session, chip) BY <1>d, <2>1, <2>2, <2>3 DEF AtRest, Fits, DataPhases
  <2>6. op # "wake" BY <1>b, <2>1, <2>2 DEF PhasesOf, FirstPhase
  <2>7. hal' # "error" BY <1>d, <2>1, <2>2, <2>3
  <2> QED BY <1>a, <2>1, <2>2, <2>4, <2>5, <2>6, <2>7, SessionEnds
<1>13. CASE Complete
  <2>1. /\ session' = session /\ InFlight /\ MayComplete /\ ~mine' /\ sem' = 1 /\ hal' = "ready"
        /\ buf' = (IF hal = "rx" /\ mine THEN IF answered THEN "good" ELSE "junk" ELSE buf)
        /\ UNCHANGED << op, phase, pc, try, left, owed >>
    BY <1>13 DEF Complete, callVars, posVars
  <2>2. session # "none" BY <2>1
  <2>3. mine /\ Running /\ Running' /\ Now.do = "wait" BY <2>1, <2>2, InSession DEF At, Running
  <2>4. chip' = IF hal = "tx" THEN After(chip, "PAGE_PROGRAM", 4) ELSE chip
    BY <1>13, <2>3 DEF Complete
  <2>5. hal = "tx" => phase = "page" BY <2>3 DEF Known, TransferInv, MineInFlight
  <2>6. Fits(chip) /\ (session = "quad" => ReadAt /\ PageAt /\ EraseAt) BY <1>d, <2>2, <2>3
  <2>7. Fits(chip')
    <3>1. CASE hal # "tx" BY <2>4, <2>6, <3>1
    <3>2. CASE hal = "tx"
      <4>1. phase = "page" /\ op = "write"
        BY <1>b, <2>3, <2>5, <3>2 DEF PhasesOf, FirstPhase, Ops
      <4>2. session = "asleep" => Asleep(chip')
        BY <1>a, <2>4, <2>6, <4>1, SleeperIsDeaf DEF Fits, DataPhases
      <4> QED BY <4>1, <4>2 DEF Fits
    <3> QED BY <3>1, <3>2
  <2>8. session = "quad" => ReadAt' BY <2>1, <2>3, <2>6 DEF ReadAt
  <2>9. ASSUME PollAt, hal = "poll" PROVE PollAt'
    <3>1. Programming(chip) BY <2>3, <2>9 DEF PollAt
    <3>2. Accepts(chip, "READ_STATUS_REGISTER", 4)
      BY <1>a, <3>1 DEF Programming, Quad, Accepts, Chips
    <3>3. chip.job = "idle" /\ chip' = chip BY <2>1, <2>4, <2>9, <3>2 DEF MayComplete
    <3> QED BY <2>1, <3>1, <3>3 DEF PollAt, Programming, Quota
  <2>10. ASSUME session = "quad" PROVE PageAt'
    <3> SUFFICES ASSUME phase = "page" PROVE PageAt'
      BY <2>1 DEF PageAt
    <3>1. pc \in {4, 6} BY <1>b, <2>3, PageSteps DEF Now
    <3>2. CASE pc = 4
      <4>1. Enabled(chip) /\ hal = "tx" BY <2>3, <2>6, <2>10, <3>2 DEF PageAt
      <4>2. Programming(chip)'
        BY <1>a, <2>1, <2>4, <4>1, ReadyHears DEF Enabled, Programming, Quota, StartsJob
      <4> QED BY <2>1, <3>2, <4>2 DEF PageAt
    <3>3. CASE pc = 6
      <4>1. PollAt /\ hal = "poll" BY <2>3, <2>6, <2>10, <3>3 DEF PageAt, PollAt
      <4> QED BY <2>1, <2>9, <3>3, <4>1 DEF PageAt
    <3> QED BY <3>1, <3>2, <3>3
  <2>11. ASSUME session = "quad" PROVE EraseAt'
    <3> SUFFICES ASSUME phase = "erase" PROVE EraseAt'
      BY <2>1 DEF EraseAt
    <3>1. pc = 4 BY <1>b, <2>3, EraseSteps DEF Now
    <3>2. PollAt /\ hal = "poll" BY <2>3, <2>6, <2>11, <3>1 DEF EraseAt, PollAt
    <3> QED BY <2>1, <2>9, <3>1, <3>2 DEF EraseAt
  <2> QED BY <2>1, <2>3, <2>7, <2>8, <2>10, <2>11, SessionStays
<1>14. CASE TransferError
  <2>1. /\ session' = session /\ InFlight /\ ~mine' /\ hal' = "ready"
        /\ chip' \in {chip, CutShort(chip)}
        /\ UNCHANGED << op, phase, pc, try, left, sem, owed >>
    BY <1>14 DEF TransferError, callVars, posVars, histVars
  <2>2. session # "none" BY <2>1
  <2>3. mine /\ Running /\ Running' /\ Now.do = "wait" /\ sem' = 0
    BY <2>1, <2>2, InSession DEF At, Running
  <2>4. hal = "tx" => phase = "page" BY <2>3 DEF Known, TransferInv, MineInFlight
  <2>5. Fits(chip) BY <1>d, <2>2, <2>3
  <2>6. Fits(chip')
    <3>1. CASE chip' = chip BY <2>5, <3>1
    <3>2. CASE chip' # chip
      <4>1. hal = "tx" /\ chip' = Disown(After(chip, "PAGE_PROGRAM", 4)) /\ phase = "page"
        BY <2>1, <2>4, <3>2 DEF CutShort
      <4>2. op = "write" BY <1>b, <2>3, <4>1 DEF PhasesOf, FirstPhase, Ops
      <4>3. session # "asleep"
        <5>1. ASSUME Asleep(chip) PROVE chip' = chip
          <6>1. After(chip, "PAGE_PROGRAM", 4) = chip BY <1>a, <5>1, SleeperIsDeaf
          <6>2. Disown(chip) = chip BY <1>a, <5>1, AtRestDisowned DEF Asleep
          <6> QED BY <4>1, <6>1, <6>2
        <5> QED BY <2>5, <3>2, <4>1, <5>1 DEF Fits, DataPhases
      <4> QED BY <4>1, <4>2, <4>3 DEF Fits
    <3> QED BY <3>1, <3>2
  <2>7. PageAt'
    <3> SUFFICES ASSUME phase = "page" PROVE PageAt'
      BY <2>1 DEF PageAt
    <3>1. pc \in {4, 6} BY <1>b, <2>3, PageSteps DEF Now
    <3> QED BY <2>1, <2>3, <3>1 DEF PageAt, PollAt
  <2>8. EraseAt'
    <3> SUFFICES ASSUME phase = "erase" PROVE EraseAt'
      BY <2>1 DEF EraseAt
    <3>1. pc = 4 BY <1>b, <2>3, EraseSteps DEF Now
    <3> QED BY <2>1, <2>3, <3>1 DEF EraseAt, PollAt
  <2> QED BY <1>e, <2>1, <2>3, <2>6, <2>7, <2>8, SessionStays
<1>15. CASE ChipDone
  <2>1. /\ session' = session /\ chip.job # "idle" /\ chip' = [chip EXCEPT !.job = "idle"]
        /\ owed' = (IF chip.job = "mine" THEN owed - 1 ELSE owed)
        /\ UNCHANGED << op, phase, pc, try, left, sem, hal, mine, answered, buf >>
    BY <1>15 DEF ChipDone, callVars, posVars, histVars, halVars
  <2>2. session # "none" /\ ~Usable(chip) /\ ~Asleep(chip) BY <2>1 DEF Usable, Asleep
  <2>3. Running /\ Running' BY <1>a, <1>d, <2>1, <2>2 DEF AtRest, Running
  <2>4. Fits(chip') BY <1>d, <2>2, <2>3 DEF Fits
  <2>5. Programming(chip) => Programming(chip)' /\ chip'.job = "idle"
    <3>1. /\ chip'.mode = chip.mode /\ chip'.awake = chip.awake /\ chip'.tuned = chip.tuned
          /\ chip'.job = "idle"
      BY <1>a, <2>1 DEF Chips
    <3>2. Quota' = Quota BY <2>1 DEF Quota
    <3> QED BY <2>1, <3>1, <3>2 DEF Programming, Quad
  <2>6. chip'.wel = chip.wel BY <1>a, <2>1 DEF Chips
  <2>7. PollAt => PollAt' BY <2>1, <2>5 DEF PollAt
  <2>8. ~Enabled(chip) BY <2>2 DEF Enabled
  <2>9. session = "quad" => ReadAt' /\ PageAt' /\ EraseAt'
    <3> SUFFICES ASSUME session = "quad" PROVE ReadAt' /\ PageAt' /\ EraseAt'
      OBVIOUS
    <3>1. ReadAt /\ PageAt /\ EraseAt BY <1>d
    <3>2. ReadAt' BY <2>1, <3>1 DEF ReadAt
    <3>3. PageAt' BY <2>1, <2>2, <2>5, <2>7, <2>8, <3>1 DEF PageAt
    <3>4. EraseAt' BY <2>1, <2>2, <2>5, <2>6, <2>7, <2>8, <3>1 DEF EraseAt
    <3> QED BY <3>2, <3>3, <3>4
  <2> QED BY <1>d, <2>1, <2>2, <2>3, <2>4, <2>9, SessionStays
<1>16. CASE Reboot BY <1>16 DEF Reboot
<1>17. CASE UNCHANGED vars
  BY <1>17 DEF vars, SessionInv, AtRest, Fits, Running, ReadAt, PageAt, EraseAt, PollAt,
               Enabled, Programming, Quota
<1> QED BY <1>1, <1>2, <1>3, <1>4, <1>5, <1>6, <1>7, <1>8, <1>9, <1>10, <1>11, <1>12,
           <1>13, <1>14, <1>15, <1>16, <1>17 DEF Next, DriverStep

-----------------------------------------------------------------------------
(* ok means done                                                           *)

DataOps == {"read", "write", "erase"}

(* A data operation returns ok from a wait only.                           *)
LEMMA DataEndsInWait ==
  ASSUME Known, Running, op \in DataOps, ~(pc < Len(Script(phase)))
  PROVE  /\ Now.do = "wait"
         /\ op = "read" => phase = "read"
         /\ op = "write" => phase = "page" /\ pc = 6
         /\ op = "erase" => phase = "erase" /\ pc = 4
<1>1. /\ phase \in PhasesOf(op) /\ pc \in 1 .. Len(Script(phase))
  BY DEF Known, OfItsOp, TypeInv, TypeOK, Running
<1>2. CASE op = "read"
  <2>1. phase = "read" BY <1>1, <1>2 DEF PhasesOf, FirstPhase
  <2>2. pc = 3
    <3>1. pc \in 1 .. Len(Script("read")) /\ ~(pc < Len(Script("read"))) BY <1>1, <2>1
    <3>2. Len(Script("read")) = 3 BY <3>1, ReadSteps
    <3>3. pc \in 1 .. 3 /\ ~(pc < 3) BY <3>1, <3>2
    <3> QED BY <3>3
  <2> QED BY <1>1, <1>2, <2>1, <2>2, ReadSteps DEF Now
<1>3. CASE op = "write"
  <2>1. phase = "page" BY <1>1, <1>3 DEF PhasesOf, FirstPhase
  <2>2. pc = 6
    <3>1. pc \in 1 .. Len(Script("page")) /\ ~(pc < Len(Script("page"))) BY <1>1, <2>1
    <3>2. Len(Script("page")) = 6 BY <3>1, PageSteps
    <3>3. pc \in 1 .. 6 /\ ~(pc < 6) BY <3>1, <3>2
    <3> QED BY <3>3
  <2> QED BY <1>1, <1>3, <2>1, <2>2, PageSteps DEF Now
<1>4. CASE op = "erase"
  <2>1. phase = "erase" BY <1>1, <1>4 DEF PhasesOf, FirstPhase
  <2>2. pc = 4
    <3>1. pc \in 1 .. Len(Script("erase")) /\ ~(pc < Len(Script("erase"))) BY <1>1, <2>1
    <3>2. Len(Script("erase")) = 4 BY <3>1, EraseSteps
    <3>3. pc \in 1 .. 4 /\ ~(pc < 4) BY <3>1, <3>2
    <3> QED BY <3>3
  <2> QED BY <1>1, <1>4, <2>1, <2>2, EraseSteps DEF Now
<1> QED BY <1>2, <1>3, <1>4 DEF DataOps

LEMMA DoneNext ==
  ASSUME Known, Known', Sound, SessionInv, OkMeansDone, [Next]_vars
  PROVE  OkMeansDone'
<1> SUFFICES ASSUME ~Running', session' = "quad", result' = "ok"
             PROVE  /\ op' = "read" => buf' = "good"
                    /\ op' \in {"write", "erase"} => owed' = 0
  BY DEF OkMeansDone
<1>a. ASSUME UNCHANGED << op, phase, result, buf, owed, session >>
      PROVE  /\ op' = "read" => buf' = "good"
             /\ op' \in {"write", "erase"} => owed' = 0
  BY <1>a DEF OkMeansDone, Running
<1>b. ASSUME op' = op, op \notin DataOps
      PROVE  /\ op' = "read" => buf' = "good"
             /\ op' \in {"write", "erase"} => owed' = 0
  BY <1>b DEF DataOps
<1>c. ASSUME Running, UNCHANGED phase PROVE FALSE
  BY <1>c DEF Running
<1>d. ASSUME NEW r, NEW d, Fail(r, d), r # "ok" PROVE FALSE
  BY <1>d DEF Fail, FunctionReturns
<1>e. ASSUME Running, NEW d, Proceed(d) PROVE ~(pc < Len(Script(phase)))
  BY <1>c, <1>e DEF Proceed
<1>f. ASSUME Running, op' = op, NEW d, Proceed(d), ~At({"wait"})
      PROVE  op' = op /\ op \notin DataOps
  BY <1>e, <1>f, DataEndsInWait DEF At
<1>1. ASSUME NEW o \in Ops, NEW n \in 1 .. MaxPages, Call(o, n) PROVE FALSE
  BY <1>1 DEF Call
<1>2. CASE CommandOk
  <2>1. PICK d : Proceed(d) BY <1>2 DEF CommandOk
  <2>2. Running /\ op' = op /\ ~At({"wait"}) BY <1>2 DEF CommandOk, At
  <2> QED BY <1>b, <1>f, <2>1, <2>2
<1>3. CASE CommandFails
  <2>1. PICK d : IF try = "first" THEN FirstFails(d) ELSE RetryFails(d)
    BY <1>3 DEF CommandFails
  <2>2. FirstFails(d) BY <1>d, <2>1 DEF RetryFails
  <2> QED BY <1>3, <1>c, <2>2 DEF CommandFails, At, FirstFails
<1>4. CASE AbortBeforeRetry BY <1>4, <1>c DEF AbortBeforeRetry, At
<1>5. CASE Transmit
  <2>1. PICK d : Proceed(d) BY <1>5, <1>d DEF Transmit
  <2>2. Running /\ op' = op /\ ~At({"wait"}) BY <1>5 DEF Transmit, At
  <2> QED BY <1>b, <1>f, <2>1, <2>2
<1>6. CASE StartTransfer BY <1>6, <1>c DEF StartTransfer, At
<1>7. CASE StartFails BY <1>7, <1>d DEF StartFails
<1>8. CASE WaitOk
  <2>1. /\ Running /\ op' = op /\ Now.do = "wait" /\ sem = 1 /\ Proceed(chip) /\ owed' = owed
        /\ KeepBuffer
    BY <1>8 DEF WaitOk, At
  <2>2. ~(pc < Len(Script(phase))) BY <1>e, <2>1
  <2> SUFFICES ASSUME op \in DataOps
               PROVE  /\ op' = "read" => buf' = "good"
                      /\ op' \in {"write", "erase"} => owed' = 0
    BY <1>b, <2>1
  <2>3. op # "initialize" BY DEF DataOps
  <2>4. session # "none" BY <2>1, <2>2, <2>3, SessionGoesOn
  <2>5. phase' = "idle" /\ buf' = buf
    BY <2>1, <2>2 DEF Running, KeepBuffer, Proceed, FunctionReturns
  <2>6. session = "quad"
    BY <2>1, <2>2, <2>5 DEF DataOps, Proceed, FunctionReturns, SessionAfter
  <2>7. ReadAt /\ PageAt /\ EraseAt BY <2>4, <2>6 DEF SessionInv
  <2>8. op = "read" => buf = "good" BY <2>1, <2>2, <2>7, DataEndsInWait DEF ReadAt
  <2>9. ASSUME op = "erase" PROVE owed = 0
    <3>1. phase = "erase" /\ PollAt BY <2>1, <2>2, <2>7, <2>9, DataEndsInWait DEF EraseAt
    <3> QED BY <2>1, <3>1 DEF PollAt, Programming, Quota
  <2>10. ASSUME op = "write" PROVE owed = 0
    <3>1. phase = "page" /\ PollAt BY <2>1, <2>2, <2>7, <2>10, DataEndsInWait DEF PageAt
    <3>2. owed = left - 1 BY <2>1, <3>1 DEF PollAt, Programming, Quota
    <3>3. left' = left - 1 /\ phase' = NextPhase(op, phase, "ok", pimpl, left')
      BY <2>1, <2>2, <3>1 DEF Proceed, FunctionReturns
    <3>4. ~MorePages(left') BY <2>5, <3>1, <3>3 DEF NextPhase
    <3>5. left' \in Nat /\ left \in Nat BY DEF Known, TypeInv, TypeOK
    <3>6. left' = 0 BY <3>4, <3>5 DEF MorePages
    <3>7. owed = left' BY <3>2, <3>3
    <3> QED BY <3>6, <3>7
  <2> QED BY <2>1, <2>5, <2>8, <2>9, <2>10
<1>9. CASE WaitTimeout BY <1>9, <1>d DEF WaitTimeout
<1>10. CASE Identify
  <2>1. /\ Running /\ op' = op /\ Now.do = "identify" /\ phase \in Phases
        /\ pc \in 1 .. Len(Script(phase)) /\ phase \in PhasesOf(op)
    BY <1>10 DEF Identify, At, callVars, Known, OfItsOp, TypeInv, TypeOK, Running
  <2>2. phase \in {"id1", "id2"} BY <2>1, ScriptsWellFormed DEF WellFormed, Now
  <2>3. op \notin DataOps BY <2>1, <2>2 DEF PhasesOf, FirstPhase, DataOps
  <2> QED BY <1>b, <2>1, <2>3
<1>11. CASE EnterMemMapped
  <2>1. PICK d : Proceed(d) BY <1>11, <1>d DEF EnterMemMapped
  <2>2. Running /\ op' = op /\ ~At({"wait"}) BY <1>11 DEF EnterMemMapped, At
  <2> QED BY <1>b, <1>f, <2>1, <2>2
<1>12. CASE ExitMemMapped
  <2>1. PICK d : Proceed(d) BY <1>12, <1>d DEF ExitMemMapped
  <2>2. Running /\ op' = op /\ ~At({"wait"}) BY <1>12 DEF ExitMemMapped, At
  <2> QED BY <1>b, <1>f, <2>1, <2>2
<1>13. CASE Complete
  <2>1. ~Running /\ InFlight /\ session # "none"
    BY <1>13 DEF Complete, posVars, Running
  <2> QED BY <2>1 DEF Sound, Known, TransferInv, MineInFlight
<1>14. CASE TransferError
  BY <1>14, <1>a DEF TransferError, callVars, posVars, histVars
<1>15. CASE ChipDone
  <2>1. ~Running /\ session = "quad" BY <1>15 DEF ChipDone, posVars, histVars, Running
  <2>2. chip.job = "idle" BY <2>1 DEF SessionInv, AtRest, Usable
  <2> QED BY <1>15, <2>2 DEF ChipDone
<1>16. CASE Reboot BY <1>16 DEF Reboot
<1>17. CASE UNCHANGED vars BY <1>17, <1>a DEF vars
<1> QED BY <1>1, <1>2, <1>3, <1>4, <1>5, <1>6, <1>7, <1>8, <1>9, <1>10, <1>11, <1>12,
           <1>13, <1>14, <1>15, <1>16, <1>17 DEF Next, DriverStep

-----------------------------------------------------------------------------
(* The theorems                                                            *)

SessionKnown == Known /\ Sound /\ WaitInv /\ SessionInv

LEMMA SessionKnownInit == Init => SessionKnown
BY KnownInit, SoundInit, WaitInit, FitsInit DEF SessionKnown

LEMMA SessionKnownNext == SessionKnown /\ [Next]_vars => SessionKnown'
<1> SUFFICES ASSUME SessionKnown, [Next]_vars PROVE SessionKnown'
  OBVIOUS
<1>1. Known' BY KnownNext DEF SessionKnown
<1>2. Sound' BY SoundNext DEF SessionKnown
<1>3. WaitInv' BY <1>1, WaitNext DEF SessionKnown
<1>4. SessionInv' BY <1>1, <1>2, SessionNext DEF SessionKnown
<1> QED BY <1>1, <1>2, <1>3, <1>4 DEF SessionKnown

LEMMA SessionKnownAlways == Spec => []SessionKnown
BY SessionKnownInit, SessionKnownNext, PTL DEF Spec

(* After a clean initialize, and until a HAL call fails or a wait times    *)
(* out, the chip is between two calls what the results said it is, idle,   *)
(* and the call has left no token, transfer or error state behind.         *)
THEOREM SessionsHold == Spec => []SessionAgrees
<1>1. ASSUME SessionKnown, ~Running, session # "none"
      PROVE  /\ sem = 0 /\ ~InFlight /\ hal # "error" /\ pdevice = chip.family
             /\ AtRest(session, chip)
  <2>1. ~At({"wait"}) BY <1>1 DEF At
  <2> QED BY <1>1, <2>1, InSession DEF SessionKnown, SessionInv
<1>2. SessionKnown => SessionAgrees
  <2> SUFFICES ASSUME SessionKnown, ~Running PROVE SessionAgrees
    BY DEF SessionAgrees
  <2>1. session \in {"none", "quad", "asleep"} BY DEF SessionKnown, Known, TypeInv, TypeOK
  <2> QED BY <1>1, <2>1 DEF SessionAgrees, AtRest, Asleep, Usable
<1> QED BY SessionKnownAlways, <1>2, PTL

(* In such a session a read that returned ok filled its buffer from the    *)
(* chip, and a write or an erase that returned ok is finished.             *)
THEOREM ResultsHold == Spec => []OkMeansDone
<1>1. Init => OkMeansDone BY DEF Init, OkMeansDone
<1>2. SessionKnown /\ SessionKnown' /\ OkMeansDone /\ [Next]_vars => OkMeansDone'
  BY DoneNext DEF SessionKnown
<1> QED BY SessionKnownAlways, <1>1, <1>2, PTL DEF Spec

=================================================================================
