-------------------------- MODULE QspiProgress_proofs --------------------------
(***************************************************************************)
(* Machine-checked proof that a call of the driver turns back nowhere, for *)
(* every number of pages and every set of fitted chips, whatever HAL, chip *)
(* and interrupt do: the part of termination that needs no fairness.       *)
(***************************************************************************)
EXTENDS QspiInit_proofs

(* A function returns with the pages that are left then.                   *)
ReturnsNow(r, quad, d) ==
  /\ Returns(r, quad, left', d)
  /\ left' = IF phase = "page" /\ r = "ok" THEN left - 1 ELSE left

(* How the driver itself moves: a step further in its function, on from a  *)
(* failed try, or out of the function.                                     *)
Moves ==
  \/ /\ phase' = phase /\ op' = op /\ left' = left
     /\ \/ pc' = pc + 1 /\ pc < Len(Script(phase)) /\ try' = "first"
        \/ pc' = pc /\ try = "first" /\ try' = "abort"
        \/ pc' = pc /\ try = "abort" /\ try' = "retry"
  \/ \E r, quad, d : ReturnsNow(r, quad, d)

(* A step that succeeded is one further, or the last.                      *)
LEMMA ProceedMoves ==
  ASSUME TypeInv, Running, Now.do # "identify", NEW d \in Chips, Proceed(d), op' = op
  PROVE  Moves
<1>1. CASE pc < Len(Script(phase)) BY <1>1 DEF Proceed, Moves
<1>2. CASE ~(pc < Len(Script(phase)))
  <2>1. phase \in Phases /\ pc \in 1 .. Len(Script(phase)) BY DEF TypeInv, TypeOK, Running
  <2>2. Len(Script(phase)) \in Nat BY <2>1, ScriptsWellFormed DEF WellFormed
  <2>3. Returns("ok", pimpl, left', d) BY <1>2, <2>1, <2>2, ProceedReturns
  <2>4. left' = IF phase = "page" THEN left - 1 ELSE left BY <1>2 DEF Proceed
  <2> QED BY <2>3, <2>4 DEF Moves, ReturnsNow
<1> QED BY <1>1, <1>2

(* A step that fails ends the function.                                    *)
LEMMA FailMoves ==
  ASSUME TypeInv, Running, NEW r \in Results \ {"ok"}, NEW d \in Chips, Fail(r, d), op' = op
  PROVE  Moves
<1>1. left' = left BY DEF Fail
<1>2. Returns(r, pimpl, left', d) BY <1>1, FailReturns
<1> QED BY <1>1, <1>2 DEF Moves, ReturnsNow

(* Every step of the driver is one of these.                               *)
LEMMA DriverMoves ==
  ASSUME TypeInv, DriverStep
  PROVE  Running /\ Moves
<1>0. chip \in Chips /\ After(chip, Now.instr, Now.lines) \in Chips /\ CutShort(chip) \in Chips
  BY AfterType, CutShortType DEF TypeInv, TypeOK
<1>1. Running
  BY DEF DriverStep, CommandOk, CommandFails, AbortBeforeRetry, Transmit, StartTransfer,
         StartFails, WaitOk, WaitTimeout, Identify, EnterMemMapped, ExitMemMapped, At
<1>2. CASE CommandOk BY <1>0, <1>2, ProceedMoves DEF CommandOk, At
<1>3. CASE CommandFails
  <2>1. PICK d \in Chips : IF try = "first" THEN FirstFails(d) ELSE RetryFails(d)
    BY <1>0, <1>3 DEF CommandFails
  <2>2. op' = op BY <1>3 DEF CommandFails
  <2>3. CASE try = "first" BY <2>1, <2>2, <2>3, <1>1 DEF FirstFails, Moves
  <2>4. CASE try # "first" BY <2>1, <2>2, <2>4, <1>1, FailMoves DEF RetryFails, Results
  <2> QED BY <2>3, <2>4
<1>4. CASE AbortBeforeRetry BY <1>1, <1>4 DEF AbortBeforeRetry, callVars, Moves
<1>5. CASE Transmit BY <1>0, <1>5, ProceedMoves, FailMoves DEF Transmit, At, Results
<1>6. CASE StartTransfer
  <2>1. phase' = phase /\ op' = op /\ left' = left /\ pc' = pc + 1 /\ try' = "first"
    BY <1>6 DEF StartTransfer, callVars
  <2>2. pc < Len(Script(phase))
    <3>1. phase \in Phases /\ pc \in 1 .. Len(Script(phase))
      BY <1>1 DEF TypeInv, TypeOK, Running
    <3>2. WellFormed(phase, Script(phase)) BY <3>1, ScriptsWellFormed
    <3> QED BY <3>1, <3>2, <1>6 DEF WellFormed, StartTransfer, At, Now
  <2> QED BY <2>1, <2>2, <1>1 DEF Moves
<1>7. CASE StartFails BY <1>0, <1>7, FailMoves DEF StartFails, At, Results
<1>8. CASE WaitOk BY <1>0, <1>8, ProceedMoves DEF WaitOk, At
<1>9. CASE WaitTimeout BY <1>0, <1>9, FailMoves DEF WaitTimeout, At, Results
<1>10. CASE Identify
  <2>1. chip.family \in Families BY <1>0 DEF Chips
  <2>2. PICK r \in {"ok", "type_not_found"} :
          FunctionReturns(r, IF r = "ok" THEN chip.family ELSE pimpl, left, chip)
    BY <1>10 DEF Identify
  <2>3. left' = left /\ phase # "page"
    <3>1. phase \in Phases /\ pc \in 1 .. Len(Script(phase))
      BY <1>1 DEF TypeInv, TypeOK, Running
    <3>2. WellFormed(phase, Script(phase)) BY <3>1, ScriptsWellFormed
    <3> QED BY <3>1, <3>2, <1>10 DEF WellFormed, Identify, At, Now, callVars
  <2>4. Returns(r, IF r = "ok" THEN chip.family ELSE pimpl, left', chip)
    BY <1>0, <1>10, <2>1, <2>2, <2>3
    DEF Returns, Identify, At, callVars, Results, TypeInv, TypeOK
  <2> QED BY <2>3, <2>4, <1>1 DEF Moves, ReturnsNow
<1>11. CASE EnterMemMapped BY <1>0, <1>11, ProceedMoves, FailMoves DEF EnterMemMapped, At, Results
<1>12. CASE ExitMemMapped BY <1>0, <1>12, ProceedMoves, FailMoves DEF ExitMemMapped, At, Results
<1> QED BY <1>1, <1>2, <1>3, <1>4, <1>5, <1>6, <1>7, <1>8, <1>9, <1>10, <1>11, <1>12
    DEF DriverStep


(* The lengths of the sequences that matter.                               *)
LEMMA Lengths ==
  /\ \A ph \in Phases : StepsIn(ph) \in Nat \ {0} /\ StepsIn(ph) = 3 * Len(Script(ph))
  /\ StepsIn("id1") = 12 /\ StepsIn("id2") = 12 /\ StepsIn("wake") = 3
  /\ StepsIn("reset") = 6 /\ StepsIn("winbond") = 18 /\ StepsIn("micron") = 21
  /\ StepsIn("page") = 18
<1>1. ASSUME NEW ph \in Phases
      PROVE  StepsIn(ph) \in Nat \ {0} /\ StepsIn(ph) = 3 * Len(Script(ph))
  <2>1. Len(Script(ph)) \in Nat \ {0} BY ScriptsWellFormed DEF WellFormed
  <2> QED BY <2>1 DEF StepsIn
<1>2. Len(Script("id1")) = 4 /\ Len(Script("id2")) = 4 BY DEF Script, ReadJedecId
<1>3. Len(Script("wake")) = 1 /\ Len(Script("reset")) = 2 BY DEF Script, Wake, ResetChip
<1>4. Len(Script("winbond")) = 6 BY DEF Script, QuadWinbond
<1>5. Len(Script("micron")) = 7 BY DEF Script, QuadMicron
<1>6. Len(Script("page")) = 6 BY DEF Script, PageWrite
<1>7. \A ph, n : Len(Script(ph)) = n => StepsIn(ph) = 3 * n BY DEF StepsIn
<1>8. 3 * 4 = 12 /\ 3 * 1 = 3 /\ 3 * 2 = 6 /\ 3 * 6 = 18 /\ 3 * 7 = 21 OBVIOUS
<1>9. StepsIn("id1") = 12 /\ StepsIn("id2") = 12 BY <1>2, <1>7, <1>8
<1>10. StepsIn("wake") = 3 /\ StepsIn("reset") = 6 BY <1>3, <1>7, <1>8
<1>11. StepsIn("winbond") = 18 BY <1>4, <1>7, <1>8
<1>12. StepsIn("micron") = 21 BY <1>5, <1>7, <1>8
<1>13. StepsIn("page") = 18 BY <1>6, <1>7, <1>8
<1> QED BY <1>1, <1>9, <1>10, <1>11, <1>12, <1>13

(* What may follow function ph of operation o with n pages left; with it,  *)
(* and with its own steps.                                                 *)
Following(o, ph, n) ==
  CASE ph = "page"                       -> (n - 1) * 18
    [] ph = "id1"                        -> 42
    [] ph = "wake" /\ o = "initialize"   -> 39
    [] ph = "wake" /\ o = "uninitialize" -> 6
    [] ph = "reset" /\ o = "initialize"  -> 33
    [] ph = "id2"                        -> 21
    [] OTHER                             -> 0
Whole(o, ph, n) == IF ph = "idle" THEN 0 ELSE StepsIn(ph) + Following(o, ph, n)

(* It is what StepsAfter adds up.                                          *)
LEMMA FollowingIs == StepsAfter = Following(op, phase, left)
BY Lengths DEF StepsAfter, Following

(* No function is followed by more than that.                              *)
LEMMA NextIsLess ==
  ASSUME NEW o \in Ops, NEW ph \in PhasesOf(o), NEW r \in Results,
         NEW quad \in Families \cup {Null}, NEW n \in Nat, NEW m \in Nat,
         ph \in {"id1", "id2"} /\ r = "ok" => quad \in Families,
         ph = "page" => n > 0,
         m = IF ph = "page" /\ r = "ok" THEN n - 1 ELSE n
  PROVE  Whole(o, NextPhase(o, ph, r, quad, m), m) \in 0 .. Following(o, ph, n)
<1> DEFINE next == NextPhase(o, ph, r, quad, m)
<1>1. CASE o = "initialize"
  <2>1. ph \in {"id1", "wake", "reset", "id2", "winbond", "micron"} BY <1>1 DEF PhasesOf
  <2>2. CASE ph = "id1"
    <3>1. next \in {"winbond", "micron", "wake"}
      BY <2>2 DEF NextPhase, Rescue, Families
    <3>2. Whole(o, next, m) \in {18, 21, 42}
      BY <3>1, <1>1, Lengths DEF Whole, Following
    <3>3. Following(o, ph, n) = 42 BY <2>2 DEF Following
    <3> QED BY <3>2, <3>3
  <2>3. CASE ph = "wake"
    <3>1. next = "reset" BY <2>3, <1>1 DEF NextPhase
    <3>2. Whole(o, next, m) = 39 BY <3>1, <1>1, Lengths DEF Whole, Following
    <3>3. Following(o, ph, n) = 39 BY <2>3, <1>1 DEF Following
    <3> QED BY <3>2, <3>3
  <2>4. CASE ph = "reset"
    <3>1. next \in {"id2", "idle"} BY <2>4, <1>1 DEF NextPhase
    <3>2. Whole(o, next, m) \in {33, 0} BY <3>1, Lengths DEF Whole, Following
    <3>3. Following(o, ph, n) = 33 BY <2>4, <1>1 DEF Following
    <3> QED BY <3>2, <3>3
  <2>5. CASE ph = "id2"
    <3>1. next \in {"winbond", "micron", "idle"} BY <2>5 DEF NextPhase, Families
    <3>2. Whole(o, next, m) \in {18, 21, 0} BY <3>1, Lengths DEF Whole, Following
    <3>3. Following(o, ph, n) = 21 BY <2>5 DEF Following
    <3> QED BY <3>2, <3>3
  <2>6. CASE ph \in {"winbond", "micron"}
    <3>1. next = "idle" BY <2>6 DEF NextPhase
    <3>2. Following(o, ph, n) = 0 BY <2>6 DEF Following
    <3> QED BY <3>1, <3>2 DEF Whole
  <2> QED BY <2>1, <2>2, <2>3, <2>4, <2>5, <2>6
<1>2. CASE o = "uninitialize"
  <2>1. ph \in {"wake", "reset"} BY <1>2 DEF PhasesOf
  <2>2. CASE ph = "wake"
    <3>1. next = "reset" BY <2>2, <1>2 DEF NextPhase
    <3>2. Whole(o, next, m) = 6 BY <3>1, <1>2, Lengths DEF Whole, Following
    <3>3. Following(o, ph, n) = 6 BY <2>2, <1>2 DEF Following
    <3> QED BY <3>2, <3>3
  <2>3. CASE ph = "reset"
    <3>1. next = "idle" BY <2>3, <1>2 DEF NextPhase
    <3>2. Following(o, ph, n) = 0 BY <2>3, <1>2 DEF Following
    <3> QED BY <3>1, <3>2 DEF Whole
  <2> QED BY <2>1, <2>2, <2>3
<1>3. CASE o = "write"
  <2>1. ph = "page" BY <1>3 DEF PhasesOf, FirstPhase
  <2>2. Following(o, ph, n) = (n - 1) * 18 BY <2>1 DEF Following
  <2>3. next \in {"page", "idle"} /\ (next = "page" => r = "ok" /\ m > 0)
    BY <2>1 DEF NextPhase, MorePages
  <2>4. CASE next = "page"
    <3>1. m = n - 1 /\ m > 0 BY <2>1, <2>3, <2>4
    <3>2. Whole(o, next, m) = 18 + (m - 1) * 18 BY <2>4, Lengths DEF Whole, Following
    <3> QED BY <3>1, <3>2, <2>2
  <2>5. CASE next = "idle" BY <2>1, <2>2, <2>5 DEF Whole
  <2> QED BY <2>3, <2>4, <2>5
<1>4. CASE o \notin {"initialize", "uninitialize", "write"}
  <2>1. ph \in {"read", "erase", "sleep", "wake", "reset", "map", "unmap"}
    BY <1>4 DEF PhasesOf, FirstPhase, Ops
  <2>2. next = "idle" BY <2>1, <1>4 DEF NextPhase
  <2>3. Following(o, ph, n) = 0 BY <2>1, <1>4 DEF Following
  <2> QED BY <2>2, <2>3 DEF Whole
<1> QED BY <1>1, <1>2, <1>3, <1>4

(* So much is a number: of a write, a page is left.                        *)
LEMMA FollowingType ==
  ASSUME TypeInv
  PROVE  Following(op, phase, left) \in Nat
<1>1. phase = "page" => left > 0 /\ left \in Nat BY DEF TypeInv, TypeOK, PageLeft
<1>2. phase = "page" => (left - 1) * 18 \in Nat BY <1>1
<1> QED BY <1>2 DEF Following

(* What is left is a number.                                               *)
LEMMA StepsLeftType ==
  ASSUME TypeInv
  PROVE  StepsLeft \in Nat
<1>1. CASE ~Running BY <1>1 DEF StepsLeft
<1>2. CASE Running
  <2>1. phase \in Phases /\ pc \in 1 .. Len(Script(phase)) BY <1>2 DEF TypeInv, TypeOK, Running
  <2>2. Len(Script(phase)) \in Nat BY <2>1, ScriptsWellFormed DEF WellFormed
  <2>3. 3 * (Len(Script(phase)) - pc) \in Nat BY <2>1, <2>2
  <2>4. TriesLeft[try] \in Nat BY DEF TypeInv, TypeOK, TriesLeft
  <2>5. StepsAfter \in Nat BY FollowingIs, FollowingType
  <2> QED BY <1>2, <2>3, <2>4, <2>5 DEF StepsLeft
<1> QED BY <1>1, <1>2

(* A step further, all tries left, is nearer; so is one try less.          *)
LEMMA Countdown ==
  ASSUME NEW n \in Nat, NEW p \in Nat, p <= n, NEW t \in {1, 2, 3}, NEW f \in Nat
  PROVE  /\ p < n => 3 * (n - (p + 1)) + 3 + f \in 0 .. (3 * (n - p) + t + f) - 1
         /\ \A u \in Nat : u = t - 1 =>
              3 * (n - p) + u + f \in 0 .. (3 * (n - p) + t + f) - 1
OBVIOUS

(* Whatever the driver does next, less is left.                            *)
LEMMA MovesLower ==
  ASSUME TypeInv, OfItsOp, Running, Moves
  PROVE  StepsLeft' \in 0 .. StepsLeft - 1
<1>1. /\ phase \in Phases /\ phase \in PhasesOf(op) /\ op \in Ops
      /\ pc \in 1 .. Len(Script(phase)) /\ left \in Nat /\ (phase = "page" => left > 0)
      /\ try \in {"first", "abort", "retry"}
  BY DEF TypeInv, TypeOK, PageLeft, OfItsOp, Running
<1>2. Len(Script(phase)) \in Nat /\ pc \in Nat /\ pc <= Len(Script(phase))
  BY <1>1, ScriptsWellFormed DEF WellFormed
<1>3. Following(op, phase, left) \in Nat BY FollowingType
<1>4. TriesLeft.first = 3 /\ TriesLeft.abort = 2 /\ TriesLeft.retry = 1
      /\ TriesLeft[try] \in {1, 2, 3}
  BY <1>1 DEF TriesLeft
<1>5. StepsLeft = 3 * (Len(Script(phase)) - pc) + TriesLeft[try] + Following(op, phase, left)
  BY FollowingIs DEF StepsLeft
<1>6. CASE /\ phase' = phase /\ op' = op /\ left' = left
           /\ \/ pc' = pc + 1 /\ pc < Len(Script(phase)) /\ try' = "first"
              \/ pc' = pc /\ try = "first" /\ try' = "abort"
              \/ pc' = pc /\ try = "abort" /\ try' = "retry"
  <2>1. StepsAfter' = Following(op, phase, left)
    <3>1. StepsAfter' = StepsAfter BY <1>6 DEF StepsAfter
    <3> QED BY <3>1, FollowingIs
  <2>2. StepsLeft' = 3 * (Len(Script(phase)) - pc') + TriesLeft[try'] + Following(op, phase, left)
    <3>1. phase' # "idle" /\ Script(phase') = Script(phase) BY <1>6 DEF Running
    <3>2. StepsLeft' = 3 * (Len(Script(phase')) - pc') + TriesLeft[try'] + StepsAfter'
      BY <3>1 DEF StepsLeft, Running
    <3> QED BY <2>1, <3>1, <3>2
  <2>3. CASE pc' = pc + 1 /\ pc < Len(Script(phase)) /\ try' = "first"
    <3>1. TriesLeft[try'] = 3 BY <2>3, <1>4
    <3>2. StepsLeft' = 3 * (Len(Script(phase)) - (pc + 1)) + 3 + Following(op, phase, left)
      BY <2>2, <2>3, <3>1
    <3> QED BY <1>2, <1>3, <1>4, <1>5, <2>3, <3>2, Countdown
  <2>4. ASSUME pc' = pc, TriesLeft[try'] = TriesLeft[try] - 1
        PROVE  StepsLeft' \in 0 .. StepsLeft - 1
    <3>1. StepsLeft' = 3 * (Len(Script(phase)) - pc) + TriesLeft[try'] + Following(op, phase, left)
      BY <2>2, <2>4, Zenon
    <3>2. TriesLeft[try'] \in Nat BY <1>4, <2>4
    <3> QED BY <1>2, <1>3, <1>4, <1>5, <2>4, <3>1, <3>2, Countdown
  <2>5. CASE pc' = pc /\ try = "first" /\ try' = "abort"
    <3>1. TriesLeft[try'] = TriesLeft[try] - 1 BY <2>5, <1>4
    <3> QED BY <2>4, <2>5, <3>1, Zenon
  <2>6. CASE pc' = pc /\ try = "abort" /\ try' = "retry"
    <3>1. TriesLeft[try'] = TriesLeft[try] - 1 BY <2>6, <1>4
    <3> QED BY <2>4, <2>6, <3>1, Zenon
  <2> QED BY <1>6, <2>3, <2>5, <2>6, Zenon
<1>7. ASSUME NEW r, NEW quad, NEW d, ReturnsNow(r, quad, d)
      PROVE  StepsLeft' \in 0 .. StepsLeft - 1
  <2>1. /\ op' = op /\ r \in Results /\ quad \in Families \cup {Null} /\ left' \in 0 .. MaxPages
        /\ (phase \in {"id1", "id2"} /\ r = "ok" => quad \in Families)
        /\ left' = (IF phase = "page" /\ r = "ok" THEN left - 1 ELSE left)
        /\ d \in Chips /\ FunctionReturns(r, quad, left', d)
    BY <1>7 DEF ReturnsNow, Returns
  <2>2. phase' = NextPhase(op, phase, r, quad, left')
        /\ pc' = (IF phase' = "idle" THEN 0 ELSE 1) /\ try' = "first"
    BY <2>1 DEF FunctionReturns
  <2>3. phase' \in Phases \cup {"idle"}
    BY <2>1, ReturnType
  <2>4. left' \in Nat BY <2>1, MaxPagesAssumption
  <2>5. Whole(op, phase', left') \in 0 .. Following(op, phase, left)
    BY <1>1, <2>1, <2>2, <2>4, NextIsLess
  <2>6. StepsLeft' = Whole(op, phase', left')
    <3>1. CASE phase' = "idle" BY <3>1 DEF StepsLeft, Running, Whole
    <3>2. CASE phase' # "idle"
      <4>1. StepsAfter' = Following(op, phase', left')
        BY <2>1, Lengths DEF StepsAfter, Following
      <4>2. TriesLeft[try'] = 3 BY <2>2 DEF TriesLeft
      <4>3. StepsLeft' = 3 * (Len(Script(phase')) - 1) + 3 + Following(op, phase', left')
        BY <2>2, <3>2, <4>1, <4>2 DEF StepsLeft, Running
      <4>4. phase' \in Phases BY <2>3, <3>2
      <4>5. StepsIn(phase') = 3 * Len(Script(phase')) /\ Len(Script(phase')) \in Nat
        BY <4>4, Lengths, ScriptsWellFormed DEF WellFormed
      <4>6. 3 * (Len(Script(phase')) - 1) + 3 = StepsIn(phase') BY <4>5
      <4> QED BY <4>3, <4>6, <3>2 DEF Whole
    <3> QED BY <3>1, <3>2
  <2> QED BY <1>2, <1>3, <1>4, <1>5, <2>5, <2>6
<1> QED BY <1>6, <1>7 DEF Moves

(* A call turns back nowhere, whatever HAL, interrupt and chip do: each    *)
(* HAL call and wait leaves fewer to come, and nothing else adds any. With *)
(* the timeout each of them has, every call is bounded: initialize by 54   *)
(* of them, a write of n pages by 18 * n.                                  *)
THEOREM CallsAdvance == Spec => CallAdvances
<1>1. TypeInv /\ OfItsOp /\ [Next]_vars =>
        [Running => /\ StepsLeft' \in 0 .. StepsLeft
                    /\ DriverStep => StepsLeft' # StepsLeft]_vars
  <2> SUFFICES ASSUME TypeInv, OfItsOp, Next, Running
               PROVE  /\ StepsLeft' \in 0 .. StepsLeft
                      /\ DriverStep => StepsLeft' # StepsLeft
    OBVIOUS
  <2>1. StepsLeft \in Nat BY StepsLeftType
  <2>2. CASE DriverStep
    <3>1. StepsLeft' \in 0 .. StepsLeft - 1 BY <2>2, DriverMoves, MovesLower
    <3> QED BY <2>1, <3>1
  <2>3. CASE ~DriverStep
    <3>1. Complete \/ TransferError \/ ChipDone \/ Reboot BY <2>3 DEF Next, Call
    <3>2. CASE Reboot
      <4>1. StepsLeft' = 0 BY <3>2 DEF Reboot, StepsLeft, Running
      <4> QED BY <2>1, <2>3, <4>1
    <3>3. CASE Complete \/ TransferError \/ ChipDone
      <4>1. UNCHANGED << callVars, posVars >>
        BY <3>3 DEF Complete, TransferError, ChipDone
      <4>2. StepsLeft' = StepsLeft
        BY <4>1 DEF callVars, posVars, StepsLeft, StepsAfter, Running
      <4> QED BY <2>1, <2>3, <4>2
    <3> QED BY <3>1, <3>2, <3>3
  <2> QED BY <2>2, <2>3
<1>2. Spec => [](TypeInv /\ OfItsOp)
  BY TypeInit, TypeNext, OfItsOpInit, OfItsOpNext, PTL DEF Spec
<1> QED BY <1>1, <1>2, PTL DEF Spec, CallAdvances

===============================================================================
