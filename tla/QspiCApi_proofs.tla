---------------------------- MODULE QspiCApi_proofs ----------------------------
(***************************************************************************)
(* Machine-checked proofs about the C interface, for every number of pages *)
(* and every set of fitted chips: what holds of one driver object carries  *)
(* over to objects that are made, deleted and made again on the same       *)
(* peripheral; and every call keeps the contract the block device is built *)
(* on.                                                                     *)
(***************************************************************************)
EXTENDS QspiCApi, QspiSession_proofs

(* Only qspi_new is not a step of the driver and its surroundings.         *)
LEMMA CNextIsNext == CNext /\ ~New => [Next]_vars
<1> SUFFICES ASSUME CNext, ~New PROVE [Next]_vars
  OBVIOUS
<1>1. CASE Delete BY <1>1 DEF Delete
<1>2. CASE CCall
  <2>1. /\ \A f \in DOMAIN ControlFunctions : ControlFunctions[f] \in Ops
        /\ \A f \in DOMAIN DataFunctions : DataFunctions[f] \in Ops
        /\ \A f \in DOMAIN ChipFunctions : ChipFunctions[f] \in Ops
        /\ \A f \in DOMAIN SectorFunctions : SectorFunctions[f] \in Ops
    BY DEF ControlFunctions, DataFunctions, ChipFunctions, SectorFunctions, Ops
  <2>2. \E o \in Ops, n \in 1 .. MaxPages : Call(o, n) BY <1>2, <2>1 DEF CCall
  <2> QED BY <2>2 DEF Next
<1>3. CASE EventCb BY <1>3 DEF EventCb, Next
<1>4. CASE (DriverStep \/ TransferError \/ ChipDone) /\ UNCHANGED << obj, quiet, strayed >>
  BY <1>4 DEF Next
<1>5. CASE CReboot BY <1>5 DEF CReboot, Next
<1> QED BY <1>1, <1>2, <1>3, <1>4, <1>5 DEF CNext

(* A new object starts on whatever the last one left behind.               *)
LEMMA NewKeeps ==
  ASSUME SessionKnown, OkMeansDone, New, ~Running
  PROVE  SessionKnown' /\ OkMeansDone'
<1>1. /\ pdevice' = Null /\ pimpl' = Null /\ sem' = 0 /\ op' = "none" /\ left' = 0
      /\ result' = "ok" /\ buf' = "none" /\ owed' = 0 /\ smooth' = TRUE /\ session' = "none"
      /\ UNCHANGED << phase, pc, try, hal, mine, answered, chip >>
  BY DEF New, halVars
<1>2. ~Running' /\ phase = "idle" BY <1>1 DEF Running
<1>3. TypeInv'
  <2>1. TypeOK BY DEF SessionKnown, Known, TypeInv
  <2>2. mine' \in BOOLEAN /\ answered' \in BOOLEAN /\ smooth' \in BOOLEAN
    BY <1>1, <2>1 DEF TypeOK
  <2>3. left' \in 0 .. MaxPages /\ owed' \in Int /\ pc' \in Nat
    BY <1>1, <2>1, MaxPagesAssumption DEF TypeOK
  <2> QED BY <1>1, <1>2, <2>1, <2>2, <2>3 DEF TypeInv, TypeOK, PageLeft, Results, Null
<1>4. ~mine' BY <1>1 DEF SessionKnown, Known, TransferInv, MineInFlight
<1>5. TransferInv' BY <1>2, <1>4 DEF TransferInv, NoForeignTransfer, MineInFlight
<1>6. BusyOrAsleepIsQuad' /\ AwakeWhenBusy(chip)'
  BY <1>1 DEF SessionKnown, Known, BusyOrAsleepIsQuad, Recoverable, AwakeWhenBusy
<1>7. OfItsOp' /\ TokenInv' /\ IdInv' /\ InitInv' /\ WaitInv'
  BY <1>1, <1>2, <1>4 DEF OfItsOp, TokenInv, IdInv, InitInv, InitRecovers, WaitInv, At
<1>8. Sound' /\ SessionInv' /\ OkMeansDone'
  BY <1>1 DEF Sound, SessionInv, OkMeansDone
<1> QED BY <1>3, <1>5, <1>6, <1>7, <1>8 DEF SessionKnown, Known

(* What holds of the driver, and who runs.                                 *)
CInv == /\ SessionKnown /\ OkMeansDone
        /\ obj \in {"none", "live", "gone"} /\ quiet \in BOOLEAN /\ strayed \in BOOLEAN
        /\ Running => obj = "live"
        /\ obj = "none" => ~InFlight
        /\ DeletedQuietly

LEMMA CInvInit == CInit => CInv
<1> SUFFICES ASSUME CInit PROVE CInv
  OBVIOUS
<1>1. SessionKnown /\ OkMeansDone
  BY SessionKnownInit DEF CInit, Init, OkMeansDone
<1>2. ~Running /\ ~InFlight BY DEF CInit, Init, Running, InFlight
<1> QED BY <1>1, <1>2 DEF CInit, CInv, DeletedQuietly

LEMMA CInvNext == CInv /\ [CNext]_cVars => CInv'
<1> SUFFICES ASSUME CInv, [CNext]_cVars PROVE CInv'
  OBVIOUS
<1>1. CASE New
  <2>1. ~Running /\ obj # "live" /\ obj' = "live" /\ UNCHANGED << quiet, strayed >>
    BY <1>1 DEF New, CInv
  <2>2. SessionKnown' /\ OkMeansDone' BY <1>1, <2>1, NewKeeps DEF CInv
  <2> QED BY <2>1, <2>2 DEF CInv, DeletedQuietly
<1>2. CASE ~New
  <2>1. [Next]_vars BY <1>2, CNextIsNext DEF cVars
  <2>2. SessionKnown' /\ OkMeansDone'
    BY <2>1, SessionKnownNext, DoneNext DEF CInv, SessionKnown
  <2>3. CASE Delete
    <3>1. obj = "live" /\ ~Running /\ obj' = "gone" /\ quiet' = (session # "none") /\ ~strayed'
          /\ Running' = Running /\ InFlight' = InFlight /\ strayed' \in BOOLEAN
      BY <2>3 DEF Delete, vars, Running, InFlight
    <3>2. session # "none" => ~InFlight
      BY <3>1, InSession DEF CInv, SessionKnown, At
    <3>3. quiet' \in BOOLEAN BY <3>1
    <3> QED BY <2>2, <3>1, <3>2, <3>3 DEF CInv, DeletedQuietly
  <2>4. CASE CCall
    <3>1. obj = "live" /\ UNCHANGED << obj, quiet, strayed >> BY <2>4 DEF CCall
    <3> QED BY <2>2, <3>1 DEF CInv, DeletedQuietly
  <2>5. CASE EventCb
    <3>1. InFlight /\ ~InFlight' /\ Running' = Running /\ UNCHANGED << obj, quiet >>
          /\ strayed' = (strayed \/ obj = "gone")
      BY <2>5 DEF EventCb, Complete, InFlight, Running, posVars
    <3>2. strayed' \in BOOLEAN BY <3>1
    <3> QED BY <2>2, <3>1, <3>2 DEF CInv, DeletedQuietly
  <2>6. CASE (DriverStep \/ TransferError \/ ChipDone) /\ UNCHANGED << obj, quiet, strayed >>
    <3>1. CASE DriverStep
      <4>1. Running
        BY <3>1 DEF DriverStep, CommandOk, CommandFails, AbortBeforeRetry, Transmit,
                    StartTransfer, StartFails, WaitOk, WaitTimeout, Identify,
                    EnterMemMapped, ExitMemMapped, At
      <4> QED BY <2>2, <2>6, <4>1 DEF CInv, DeletedQuietly
    <3>2. CASE TransferError
      <4>1. InFlight /\ ~InFlight' /\ Running' = Running
        BY <3>2 DEF TransferError, InFlight, Running, posVars
      <4> QED BY <2>2, <2>6, <4>1 DEF CInv, DeletedQuietly
    <3>3. CASE ChipDone
      <4>1. InFlight' = InFlight /\ Running' = Running
        BY <3>3 DEF ChipDone, InFlight, Running, posVars, halVars
      <4> QED BY <2>2, <2>6, <4>1 DEF CInv, DeletedQuietly
    <3> QED BY <2>6, <3>1, <3>2, <3>3
  <2>7. CASE CReboot
    <3>1. obj' = "none" /\ quiet' = FALSE /\ strayed' = FALSE /\ ~InFlight' /\ ~Running'
      BY <2>7 DEF CReboot, Reboot, InFlight, Running
    <3> QED BY <2>2, <3>1 DEF CInv, DeletedQuietly
  <2>8. CASE UNCHANGED cVars
    <3>1. InFlight' = InFlight /\ Running' = Running /\ UNCHANGED << obj, quiet, strayed >>
      BY <2>8 DEF cVars, vars, InFlight, Running
    <3> QED BY <2>2, <3>1 DEF CInv, DeletedQuietly
  <2> QED BY <1>2, <2>3, <2>4, <2>5, <2>6, <2>7, <2>8 DEF CNext
<1> QED BY <1>1, <1>2

LEMMA CInvAlways == CSpec => []CInv
BY CInvInit, CInvNext, PTL DEF CSpec

(* Types; a call runs in a live object only, and before the first object   *)
(* is made nothing is in flight.                                           *)
THEOREM CTypesHold == CSpec => []CTypeOK
<1>1. CInv => CTypeOK BY DEF CInv, CTypeOK, SessionKnown, Known, TypeInv
<1> QED BY CInvAlways, <1>1, PTL

(* initialize recovers the chip for every object, also for one made after  *)
(* another was deleted in the middle of a transfer it had given up on.     *)
THEOREM NewObjectRecovers == CSpec => []InitRecovers
<1>1. CInv => InitRecovers BY DEF CInv, SessionKnown, Known, InitInv
<1> QED BY CInvAlways, <1>1, PTL

(* A deleted object after whose clean initialize no call failed is never   *)
(* called back.                                                            *)
THEOREM QuietDeletion == CSpec => []DeletedQuietly
<1>1. CInv => DeletedQuietly BY DEF CInv
<1> QED BY CInvAlways, <1>1, PTL

-----------------------------------------------------------------------------
(* The contract                                                            *)

(* A call returns with a function of it, and only a look-up by initialize  *)
(* gives type_not_found.                                                   *)
CallEnds ==
  /\ result' \notin {"ok", "type_not_found"} => session' = "none"
  /\ result' = "type_not_found" => op = "initialize"
  /\ session' \in {"none", SessionAfter(result', TRUE)}
  /\ op \in DataOps /\ result' = "ok" => session' = session

LEMMA ReturnOfCall ==
  ASSUME Known, Running, ~Running', op' = op, op \in Ops, [Next]_vars
  PROVE  CallEnds
<1>a. ASSUME NEW r, NEW quad, NEW rest, NEW d, FunctionReturns(r, quad, rest, d),
             r = "type_not_found" => op = "initialize"
      PROVE  CallEnds
  <2>1. phase' = "idle" /\ result' = r
        /\ session' = IF r \notin {"ok", "type_not_found"} THEN "none"
                      ELSE IF phase' = "idle"
                           THEN SessionAfter(r, smooth /\ r \in {"ok", "type_not_found"})
                           ELSE session
    BY <1>a DEF FunctionReturns, Running
  <2>2. \A clean \in BOOLEAN : SessionAfter(r, clean) \in {"none", SessionAfter(r, TRUE)}
    BY DEF SessionAfter
  <2>3. op \in DataOps => \A clean : SessionAfter(r, clean) = session
    BY DEF SessionAfter, DataOps
  <2>4. smooth \in BOOLEAN BY DEF Known, TypeInv, TypeOK
  <2> QED BY <1>a, <2>1, <2>2, <2>3, <2>4 DEF CallEnds
<1>b. ASSUME NEW d, Proceed(d) PROVE CallEnds
  BY <1>a, <1>b DEF Proceed, Running
<1>c. ASSUME NEW r, NEW d, Fail(r, d), r # "type_not_found" PROVE CallEnds
  BY <1>a, <1>c DEF Fail
<1>d. ASSUME UNCHANGED phase PROVE CallEnds
  BY <1>d DEF Running
<1>1. ASSUME NEW o \in Ops, NEW n \in 1 .. MaxPages, Call(o, n) PROVE CallEnds
  BY <1>1 DEF Call
<1>2. CASE CommandOk BY <1>2, <1>b DEF CommandOk
<1>3. CASE CommandFails
  <2>1. PICK d : IF try = "first" THEN FirstFails(d) ELSE RetryFails(d)
    BY <1>3 DEF CommandFails
  <2> QED BY <1>c, <1>d, <2>1 DEF FirstFails, RetryFails
<1>4. CASE AbortBeforeRetry BY <1>4, <1>d DEF AbortBeforeRetry
<1>5. CASE Transmit BY <1>5, <1>b, <1>c DEF Transmit
<1>6. CASE StartTransfer BY <1>6, <1>d DEF StartTransfer
<1>7. CASE StartFails BY <1>7, <1>c DEF StartFails
<1>8. CASE WaitOk BY <1>8, <1>b DEF WaitOk
<1>9. CASE WaitTimeout BY <1>9, <1>c DEF WaitTimeout
<1>10. CASE Identify
  <2>1. op = "initialize"
    <3>1. /\ Now.do = "identify" /\ phase \in Phases
          /\ pc \in 1 .. Len(Script(phase)) /\ phase \in PhasesOf(op)
      BY <1>10 DEF Identify, At, Known, OfItsOp, TypeInv, TypeOK, Running
    <3>2. phase \in {"id1", "id2"} BY <3>1, ScriptsWellFormed DEF WellFormed, Now
    <3> QED BY <3>1, <3>2 DEF PhasesOf, FirstPhase, Ops
  <2> QED BY <1>10, <1>a, <2>1 DEF Identify
<1>11. CASE EnterMemMapped BY <1>11, <1>b, <1>c DEF EnterMemMapped
<1>12. CASE ExitMemMapped BY <1>12, <1>b, <1>c DEF ExitMemMapped
<1>13. CASE Complete BY <1>13, <1>d DEF Complete, posVars
<1>14. CASE TransferError BY <1>14, <1>d DEF TransferError, posVars
<1>15. CASE ChipDone BY <1>15, <1>d DEF ChipDone, posVars
<1>16. CASE Reboot BY <1>16 DEF Reboot, Ops
<1>17. CASE UNCHANGED vars BY <1>17, <1>d DEF vars
<1> QED
  BY <1>1, <1>2, <1>3, <1>4, <1>5, <1>6, <1>7, <1>8, <1>9, <1>10, <1>11, <1>12,
     <1>13, <1>14, <1>15, <1>16, <1>17 DEF Next, DriverStep

LEMMA OutcomeAllowed ==
  ASSUME CInv, CInv', [CNext]_cVars, Running, ~Running', op' = op, op \in ContractCalls
  PROVE  Outcome' \in Outcomes(op, session = "quad")
<1>1. ~New BY DEF New, CInv
<1>2. [Next]_vars BY <1>1, CNextIsNext DEF cVars
<1>3. op \in Ops /\ (op \in DataCalls <=> op \in DataOps)
  BY DEF ContractCalls, DataCalls, DataOps, Ops
<1>4. /\ result' \notin {"ok", "type_not_found"} => session' = "none"
      /\ result' = "type_not_found" => op = "initialize"
      /\ session' \in {"none", SessionAfter(result', TRUE)}
      /\ op \in DataOps /\ result' = "ok" => session' = session
  BY <1>2, <1>3, ReturnOfCall DEF CInv, SessionKnown, CallEnds
<1> DEFINE ok == result' = "ok"
           trusted == session' = "quad"
<1>5. ASSUME trusted
      PROVE  ok /\ op # "uninitialize" /\ (session = "quad" \/ op = "initialize")
  <2>1. SessionAfter(result', TRUE) = "quad" BY <1>4, <1>5
  <2>2. op # "uninitialize" BY <2>1 DEF SessionAfter
  <2>3. op = "initialize" => ok BY <2>1 DEF SessionAfter
  <2>4. op # "initialize" => ok BY <1>4, <1>5
  <2>5. op # "initialize" => session = "quad"
    BY <2>1, <2>2 DEF SessionAfter, ContractCalls, DataCalls
  <2> QED BY <2>2, <2>3, <2>4, <2>5
<1>6. ASSUME op \in DataCalls, session = "quad", ok PROVE Done' /\ trusted
  <2>1. trusted BY <1>3, <1>4, <1>6
  <2>2. OkMeansDone' BY DEF CInv
  <2>3. /\ op' = "read" => buf' = "good"
        /\ op' \in {"write", "erase"} => owed' = 0
    BY <1>6, <2>1, <2>2 DEF OkMeansDone
  <2> QED BY <1>6, <2>1, <2>3 DEF Done, DataCalls
<1>7. Done' \in BOOLEAN BY DEF Done
<1>8. Outcome' = [ok |-> ok, done |-> Done', trusted |-> trusted] BY DEF Outcome
<1>9. Outcome' \in [ok : BOOLEAN, done : BOOLEAN, trusted : BOOLEAN] BY <1>7, <1>8
<1>10. Outcome'.ok = ok /\ Outcome'.done = Done' /\ Outcome'.trusted = trusted BY <1>8
<1> QED BY <1>5, <1>6, <1>9, <1>10 DEF Outcomes

(* The contract the block device is built on: once trusted, a call that    *)
(* returns ok has done what it was asked, and the driver stays trusted;    *)
(* only a clean initialize makes it so.                                    *)
THEOREM DriverKeepsContract == CSpec => ContractKept
<1>1. CInv /\ CInv' /\ [CNext]_cVars =>
        [Running /\ ~Running' /\ op' = op /\ op \in ContractCalls =>
           Outcome' \in Outcomes(op, session = "quad")]_cVars
  BY OutcomeAllowed
<1> QED BY CInvAlways, <1>1, PTL DEF CSpec, ContractKept

================================================================================
