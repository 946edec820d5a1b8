------------------------- MODULE ExecutionServiceProofs -------------------------
(***************************************************************************)
(* Admission, cancellation and restart for any number of requests, any     *)
(* policies and any number of failures and restarts.                       *)
(***************************************************************************)
EXTENDS ExecutionService, TLAPS

--------------------------------------------------------------------------------
(***************************************************************************)
(* The inductive invariant.  An execution is carried out only once its     *)
(* request has registered it, its record says "running" from then until    *)
(* the outcome is saved, and whatever a request found when it was admitted *)
(* under "skip" was over then, so that it cannot be in flight later.       *)
(***************************************************************************)
StageInv ==
    \A r \in Requests :
       /\ stage[r] \in {"new", "create", "refused"} => execRow[r] = "none"
       /\ stage[r] \in {"records", "register", "start"} => execRow[r] = "running"
       /\ dag[r] # "none" => stage[r] \in {"returned", "gone"}
       /\ stage[r] = "start" => r \in cancels

RecordInv ==
    \A r \in Requests :
       /\ dag[r] \in {"running", "deciding"} => execRow[r] = "running"
       /\ execRow[r] \in Outcomes => dag[r] \in {"ended", "gone"} /\ execRow[r] = decided[r]

CancelInv ==
    \A r \in Requests :
       /\ ctx[r] = "cancelled" => user[r] = "answered"
       /\ decided[r] = "cancelled" => ctx[r] = "cancelled"

\* What is decided when a cancel ends the context is what stays decided.
ReachedInv ==
    \A r \in Requests :
       /\ decided[r] # "none" => dag[r] \in {"deciding", "ended", "gone"}
       /\ reached[r] # "not" => ctx[r] = "cancelled"
       /\ reached[r] = "none" => decided[r] \in {"none", "cancelled"}
       /\ reached[r] \in Outcomes => decided[r] = reached[r]

FoundInv ==
    policy = "skip" => \A r \in Requests : \A q \in found[r] : execRow[q] \in Outcomes

\* A record that says "running" is of an execution in flight, unless an access
\* failed or the server was restarted.
RunningInv ==
    \A r \in Requests : execRow[r] = "running" => InFlight(r) \/ lost + crashes > 0

IInv == /\ TypeOK /\ StageInv /\ RecordInv /\ CancelInv /\ CancelsMatch /\ FoundInv
        /\ ReachedInv

\* With no request made, the invariant holds.
LEMMA InitInvariant == Init => IInv
  BY BoundsAssumption
  DEF Init, IInv, TypeOK, StageInv, RecordInv, CancelInv, CancelsMatch, FoundInv, ReachedInv,
      Outcomes

\* Every step, a restart of the process included, keeps the invariant.
LEMMA NextInvariant == IInv /\ [Next]_vars => IInv'
  <1> SUFFICES ASSUME IInv, [Next]_vars PROVE IInv'
    OBVIOUS
  <1> USE BoundsAssumption DEF rowVars, dagVars, historyVars, Outcomes
  <1>1. ASSUME NEW r \in Requests, CheckPolicy(r) PROVE IInv'
    <2>1. TypeOK'
      BY <1>1 DEF IInv, TypeOK, StageInv, RecordInv, CheckPolicy, At, Blocked, RunningRows
    <2>2. StageInv'
      BY <1>1 DEF IInv, TypeOK, StageInv, CheckPolicy, At, Blocked, RunningRows
    <2>3. RecordInv'
      BY <1>1 DEF IInv, TypeOK, RecordInv, StageInv, CheckPolicy, At, Blocked, RunningRows
    <2>4. CancelInv'
      BY <1>1 DEF IInv, TypeOK, CancelInv, CheckPolicy, At, Blocked, RunningRows
    <2>5. CancelsMatch'
      BY <1>1 DEF IInv, TypeOK, CancelsMatch, StageInv, CheckPolicy, At, Blocked, RunningRows
    <2>6. FoundInv'
      BY <1>1 DEF IInv, TypeOK, FoundInv, RecordInv, StageInv, CheckPolicy, At, Blocked, RunningRows
    <2>7. ReachedInv'
      BY <1>1 DEF IInv, TypeOK, ReachedInv, CheckPolicy, At
    <2> QED
      BY <2>1, <2>2, <2>3, <2>4, <2>5, <2>6, <2>7 DEF IInv
  <1>2. ASSUME NEW r \in Requests, Refuse(r) PROVE IInv'
    <2>1. TypeOK'
      BY <1>2 DEF IInv, TypeOK, StageInv, RecordInv, Refuse, At
    <2>2. StageInv'
      BY <1>2 DEF IInv, TypeOK, StageInv, Refuse, At
    <2>3. RecordInv'
      BY <1>2 DEF IInv, TypeOK, RecordInv, StageInv, Refuse, At
    <2>4. CancelInv'
      BY <1>2 DEF IInv, TypeOK, CancelInv, Refuse, At
    <2>5. CancelsMatch'
      BY <1>2 DEF IInv, TypeOK, CancelsMatch, StageInv, Refuse, At
    <2>6. FoundInv'
      BY <1>2 DEF IInv, TypeOK, FoundInv, RecordInv, StageInv, Refuse, At
    <2>7. ReachedInv'
      BY <1>2 DEF IInv, TypeOK, ReachedInv, Refuse, At
    <2> QED
      BY <2>1, <2>2, <2>3, <2>4, <2>5, <2>6, <2>7 DEF IInv
  <1>3. ASSUME NEW r \in Requests, CreateExecution(r) PROVE IInv'
    <2>1. TypeOK'
      BY <1>3 DEF IInv, TypeOK, StageInv, RecordInv, CreateExecution, At
    <2>2. StageInv'
      BY <1>3 DEF IInv, TypeOK, StageInv, CreateExecution, At
    <2>3. RecordInv'
      BY <1>3 DEF IInv, TypeOK, RecordInv, StageInv, CreateExecution, At
    <2>4. CancelInv'
      BY <1>3 DEF IInv, TypeOK, CancelInv, CreateExecution, At
    <2>5. CancelsMatch'
      BY <1>3 DEF IInv, TypeOK, CancelsMatch, StageInv, CreateExecution, At
    <2>6. FoundInv'
      BY <1>3 DEF IInv, TypeOK, FoundInv, RecordInv, StageInv, CreateExecution, At
    <2>7. ReachedInv'
      BY <1>3 DEF IInv, TypeOK, ReachedInv, CreateExecution, At
    <2> QED
      BY <2>1, <2>2, <2>3, <2>4, <2>5, <2>6, <2>7 DEF IInv
  <1>4. ASSUME NEW r \in Requests, CreateStepRecords(r) PROVE IInv'
    <2>1. TypeOK'
      BY <1>4 DEF IInv, TypeOK, StageInv, RecordInv, CreateStepRecords, At
    <2>2. StageInv'
      BY <1>4 DEF IInv, TypeOK, StageInv, CreateStepRecords, At
    <2>3. RecordInv'
      BY <1>4 DEF IInv, TypeOK, RecordInv, StageInv, CreateStepRecords, At
    <2>4. CancelInv'
      BY <1>4 DEF IInv, TypeOK, CancelInv, CreateStepRecords, At
    <2>5. CancelsMatch'
      BY <1>4 DEF IInv, TypeOK, CancelsMatch, StageInv, CreateStepRecords, At
    <2>6. FoundInv'
      BY <1>4 DEF IInv, TypeOK, FoundInv, RecordInv, StageInv, CreateStepRecords, At
    <2>7. ReachedInv'
      BY <1>4 DEF IInv, TypeOK, ReachedInv, CreateStepRecords, At
    <2> QED
      BY <2>1, <2>2, <2>3, <2>4, <2>5, <2>6, <2>7 DEF IInv
  <1>5. ASSUME NEW r \in Requests, AdmissionFails(r) PROVE IInv'
    <2>1. TypeOK'
      BY <1>5 DEF IInv, TypeOK, StageInv, RecordInv, AdmissionFails, AccessFails
    <2>2. StageInv'
      BY <1>5 DEF IInv, TypeOK, StageInv, AdmissionFails, AccessFails
    <2>3. RecordInv'
      BY <1>5 DEF IInv, TypeOK, RecordInv, StageInv, AdmissionFails, AccessFails
    <2>4. CancelInv'
      BY <1>5 DEF IInv, TypeOK, CancelInv, AdmissionFails, AccessFails
    <2>5. CancelsMatch'
      BY <1>5 DEF IInv, TypeOK, CancelsMatch, StageInv, AdmissionFails, AccessFails
    <2>6. FoundInv'
      BY <1>5 DEF IInv, TypeOK, FoundInv, RecordInv, StageInv, AdmissionFails, AccessFails
    <2>7. ReachedInv'
      BY <1>5 DEF IInv, TypeOK, ReachedInv, AdmissionFails
    <2> QED
      BY <2>1, <2>2, <2>3, <2>4, <2>5, <2>6, <2>7 DEF IInv
  <1>6. ASSUME NEW r \in Requests, Register(r) PROVE IInv'
    <2>1. TypeOK'
      BY <1>6 DEF IInv, TypeOK, StageInv, RecordInv, Register, At, Kept
    <2>2. StageInv'
      BY <1>6 DEF IInv, TypeOK, StageInv, Register, At, Kept
    <2>3. RecordInv'
      BY <1>6 DEF IInv, TypeOK, RecordInv, StageInv, Register, At, Kept
    <2>4. CancelInv'
      BY <1>6 DEF IInv, TypeOK, CancelInv, Register, At, Kept
    <2>5. CancelsMatch'
      BY <1>6 DEF IInv, TypeOK, CancelsMatch, StageInv, Register, At, Kept
    <2>6. FoundInv'
      BY <1>6 DEF IInv, TypeOK, FoundInv, RecordInv, StageInv, Register, At, Kept
    <2>7. ReachedInv'
      BY <1>6 DEF IInv, TypeOK, ReachedInv, Register, At
    <2> QED
      BY <2>1, <2>2, <2>3, <2>4, <2>5, <2>6, <2>7 DEF IInv
  <1>7. ASSUME NEW r \in Requests, Start(r) PROVE IInv'
    <2>1. TypeOK'
      BY <1>7 DEF IInv, TypeOK, StageInv, RecordInv, Start, At
    <2>2. StageInv'
      BY <1>7 DEF IInv, TypeOK, StageInv, Start, At
    <2>3. RecordInv'
      BY <1>7 DEF IInv, TypeOK, RecordInv, StageInv, Start, At
    <2>4. CancelInv'
      BY <1>7 DEF IInv, TypeOK, CancelInv, Start, At
    <2>5. CancelsMatch'
      BY <1>7 DEF IInv, TypeOK, CancelsMatch, StageInv, Start, At
    <2>6. FoundInv'
      BY <1>7 DEF IInv, TypeOK, FoundInv, RecordInv, StageInv, Start, At
    <2>7. ReachedInv'
      BY <1>7 DEF IInv, TypeOK, ReachedInv, Start, At, StageInv
    <2> QED
      BY <2>1, <2>2, <2>3, <2>4, <2>5, <2>6, <2>7 DEF IInv
  <1>8. ASSUME NEW r \in Requests, Decide(r) PROVE IInv'
    <2>1. TypeOK'
      BY <1>8 DEF IInv, TypeOK, StageInv, RecordInv, Decide, OutcomesFor
    <2>2. StageInv'
      BY <1>8 DEF IInv, TypeOK, StageInv, Decide, OutcomesFor
    <2>3. RecordInv'
      BY <1>8 DEF IInv, TypeOK, RecordInv, StageInv, Decide, OutcomesFor
    <2>4. CancelInv'
      BY <1>8 DEF IInv, TypeOK, CancelInv, RecordInv, Decide, OutcomesFor
    <2>5. CancelsMatch'
      BY <1>8 DEF IInv, TypeOK, CancelsMatch, StageInv, Decide, OutcomesFor
    <2>6. FoundInv'
      BY <1>8 DEF IInv, TypeOK, FoundInv, RecordInv, StageInv, Decide, OutcomesFor
    <2>7. ReachedInv'
      BY <1>8 DEF IInv, TypeOK, ReachedInv, Decide, OutcomesFor
    <2> QED
      BY <2>1, <2>2, <2>3, <2>4, <2>5, <2>6, <2>7 DEF IInv
  <1>9. ASSUME NEW r \in Requests, Expire(r) PROVE IInv'
    <2>1. TypeOK'
      BY <1>9 DEF IInv, TypeOK, StageInv, RecordInv, Expire
    <2>2. StageInv'
      BY <1>9 DEF IInv, TypeOK, StageInv, Expire
    <2>3. RecordInv'
      BY <1>9 DEF IInv, TypeOK, RecordInv, StageInv, Expire
    <2>4. CancelInv'
      BY <1>9 DEF IInv, TypeOK, CancelInv, Expire
    <2>5. CancelsMatch'
      BY <1>9 DEF IInv, TypeOK, CancelsMatch, StageInv, Expire
    <2>6. FoundInv'
      BY <1>9 DEF IInv, TypeOK, FoundInv, RecordInv, StageInv, Expire
    <2>7. ReachedInv'
      BY <1>9 DEF IInv, TypeOK, ReachedInv, Expire
    <2> QED
      BY <2>1, <2>2, <2>3, <2>4, <2>5, <2>6, <2>7 DEF IInv
  <1>10. ASSUME NEW r \in Requests, SaveOutcome(r) PROVE IInv'
    <2>1. TypeOK'
      BY <1>10 DEF IInv, TypeOK, StageInv, RecordInv, SaveOutcome, AccessFails
    <2>2. StageInv'
      BY <1>10 DEF IInv, TypeOK, StageInv, RecordInv, SaveOutcome, AccessFails
    <2>3. RecordInv'
      BY <1>10 DEF IInv, TypeOK, RecordInv, StageInv, SaveOutcome, AccessFails
    <2>4. CancelInv'
      BY <1>10 DEF IInv, TypeOK, CancelInv, SaveOutcome, AccessFails
    <2>5. CancelsMatch'
      BY <1>10 DEF IInv, TypeOK, CancelsMatch, StageInv, SaveOutcome, AccessFails
    <2>6. FoundInv'
      BY <1>10 DEF IInv, TypeOK, FoundInv, RecordInv, StageInv, SaveOutcome, AccessFails
    <2>7. ReachedInv'
      BY <1>10 DEF IInv, TypeOK, ReachedInv, SaveOutcome
    <2> QED
      BY <2>1, <2>2, <2>3, <2>4, <2>5, <2>6, <2>7 DEF IInv
  <1>11. ASSUME NEW r \in Requests, Forget(r) PROVE IInv'
    <2>1. TypeOK'
      BY <1>11 DEF IInv, TypeOK, StageInv, RecordInv, Forget, Dropped
    <2>2. StageInv'
      BY <1>11 DEF IInv, TypeOK, StageInv, RecordInv, Forget, Dropped
    <2>3. RecordInv'
      BY <1>11 DEF IInv, TypeOK, RecordInv, StageInv, Forget, Dropped
    <2>4. CancelInv'
      BY <1>11 DEF IInv, TypeOK, CancelInv, Forget, Dropped
    <2>5. CancelsMatch'
      BY <1>11 DEF IInv, TypeOK, CancelsMatch, StageInv, Forget, Dropped
    <2>6. FoundInv'
      BY <1>11 DEF IInv, TypeOK, FoundInv, RecordInv, StageInv, Forget, Dropped
    <2>7. ReachedInv'
      BY <1>11 DEF IInv, TypeOK, ReachedInv, Forget
    <2> QED
      BY <2>1, <2>2, <2>3, <2>4, <2>5, <2>6, <2>7 DEF IInv
  <1>12. ASSUME NEW r \in Requests, AskCancel(r) PROVE IInv'
    <2>1. TypeOK'
      BY <1>12 DEF IInv, TypeOK, StageInv, RecordInv, AskCancel
    <2>2. StageInv'
      BY <1>12 DEF IInv, TypeOK, StageInv, AskCancel
    <2>3. RecordInv'
      BY <1>12 DEF IInv, TypeOK, RecordInv, StageInv, AskCancel
    <2>4. CancelInv'
      BY <1>12 DEF IInv, TypeOK, CancelInv, AskCancel
    <2>5. CancelsMatch'
      BY <1>12 DEF IInv, TypeOK, CancelsMatch, StageInv, AskCancel
    <2>6. FoundInv'
      BY <1>12 DEF IInv, TypeOK, FoundInv, RecordInv, StageInv, AskCancel
    <2>7. ReachedInv'
      BY <1>12 DEF IInv, TypeOK, ReachedInv, AskCancel
    <2> QED
      BY <2>1, <2>2, <2>3, <2>4, <2>5, <2>6, <2>7 DEF IInv
  <1>13. ASSUME NEW r \in Requests, Cancel(r) PROVE IInv'
    <2>1. TypeOK'
      BY <1>13 DEF IInv, TypeOK, StageInv, RecordInv, Cancel, Reach, Reached
    <2>2. StageInv'
      BY <1>13 DEF IInv, TypeOK, StageInv, Cancel, Reached
    <2>3. RecordInv'
      BY <1>13 DEF IInv, TypeOK, RecordInv, StageInv, Cancel, Reached
    <2>4. CancelInv'
      BY <1>13 DEF IInv, TypeOK, CancelInv, RecordInv, Cancel, Reached
    <2>5. CancelsMatch'
      BY <1>13 DEF IInv, TypeOK, CancelsMatch, StageInv, Cancel, Reached
    <2>6. FoundInv'
      BY <1>13 DEF IInv, TypeOK, FoundInv, RecordInv, StageInv, Cancel, Reached
    <2>7. ReachedInv'
      BY <1>13 DEF IInv, TypeOK, ReachedInv, Cancel, Reach, Reached
    <2> QED
      BY <2>1, <2>2, <2>3, <2>4, <2>5, <2>6, <2>7 DEF IInv
  <1>14. CASE Restart
    <2>1. TypeOK'
      BY <1>14 DEF IInv, TypeOK, StageInv, RecordInv, Restart
    <2>2. StageInv'
      BY <1>14 DEF IInv, TypeOK, StageInv, Restart
    <2>3. RecordInv'
      BY <1>14 DEF IInv, TypeOK, RecordInv, StageInv, Restart
    <2>4. CancelInv'
      BY <1>14 DEF IInv, TypeOK, CancelInv, Restart
    <2>5. CancelsMatch'
      BY <1>14 DEF IInv, TypeOK, CancelsMatch, StageInv, Restart
    <2>6. FoundInv'
      BY <1>14 DEF IInv, TypeOK, FoundInv, RecordInv, StageInv, Restart
    <2>7. ReachedInv'
      BY <1>14 DEF IInv, TypeOK, ReachedInv, Restart
    <2> QED
      BY <2>1, <2>2, <2>3, <2>4, <2>5, <2>6, <2>7 DEF IInv
  <1>15. CASE UNCHANGED vars
    BY <1>15 DEF IInv, TypeOK, StageInv, RecordInv, CancelInv, CancelsMatch, FoundInv,
       ReachedInv, vars
  <1> QED
    BY <1>1, <1>2, <1>3, <1>4, <1>5, <1>6, <1>7, <1>8, <1>9, <1>10, <1>11, <1>12, <1>13, <1>14, <1>15 DEF Next, Execute, Carry

\* The invariant holds in every reachable state, for every set of requests and bounds.
THEOREM Invariant == Spec => []IInv
  BY InitInvariant, NextInvariant, PTL DEF Spec

--------------------------------------------------------------------------------
\* Every variable keeps its type, and a goroutine has a record and an outcome.
THEOREM ServiceTypeCorrect == Spec => []TypeOK
  BY Invariant, PTL DEF IInv

\* The executor can cancel exactly the executions it carries out.
THEOREM Cancellable == Spec => []CancelsMatch
  BY Invariant, PTL DEF IInv

\* Under "skip" executions overlap only by a race of their admissions.
THEOREM NoOtherOverlap == Spec => []OverlapOnlyByRace
  <1>1. IInv => OverlapOnlyByRace
    BY DEF IInv, StageInv, RecordInv, FoundInv, OverlapOnlyByRace, InFlight, Outcomes
  <1> QED
    BY Invariant, <1>1, PTL

\* A record says "cancelled" only if a user asked for it, and a cancel that ended the
\* context is recorded unless it came after the decision.
THEOREM CancelledRecords == Spec => []CancelledIfAsked
  <1>1. IInv => CancelledIfAsked
    BY DEF IInv, TypeOK, RecordInv, CancelInv, ReachedInv, CancelledIfAsked, Outcomes
  <1> QED
    BY Invariant, <1>1, PTL

\* Nobody is refused for an execution that is not in flight, unless an access
\* failed or the server was restarted.
THEOREM RefusedForGoodReason == Spec => []RefusedForOne
  <1>1. Init => RunningInv /\ RefusedForOne
    BY DEF Init, RunningInv, RefusedForOne
  <1>2. ASSUME IInv, RunningInv, RefusedForOne, [Next]_vars
        PROVE  RunningInv' /\ RefusedForOne'
    <2> USE <1>2 DEF rowVars, dagVars, historyVars
    <2>1. /\ lost \in Nat /\ crashes \in Nat
          /\ lost' \in Nat /\ crashes' \in Nat
          /\ lost' >= lost /\ crashes' >= crashes
      <3>1. lost \in Nat /\ crashes \in Nat
        BY BoundsAssumption DEF IInv, TypeOK
      <3>2. /\ lost' = lost \/ lost' = lost + 1
            /\ crashes' = crashes \/ crashes' = crashes + 1
        BY DEF Next, Execute, Carry, CheckPolicy, Refuse, CreateExecution, CreateStepRecords,
           AdmissionFails, Register, Start, Decide, Expire, SaveOutcome, Forget, AskCancel, Cancel,
           Restart, AccessFails, vars
      <3> QED
        BY <3>1, <3>2
    <2>2. CASE lost' + crashes' > 0
      BY <2>2 DEF RunningInv, RefusedForOne
    <2>3. CASE ~(lost' + crashes' > 0)
      <3>1. lost' = 0 /\ crashes' = 0 /\ lost = 0 /\ crashes = 0
        <4>1. \A a, b \in Nat : ~(a + b > 0) => a = 0 /\ b = 0
          OBVIOUS
        <4>2. lost' = 0 /\ crashes' = 0
          BY <2>1, <2>3, <4>1, Zenon
        <4> QED
          BY <2>1, <4>2
      <3>2. \A r \in Requests : ~AdmissionFails(r)
        BY <3>1 DEF AdmissionFails, AccessFails
      <3>3. RunningInv'
        <4> SUFFICES ASSUME NEW q \in Requests, execRow'[q] = "running"
                     PROVE  InFlight(q)'
          BY DEF RunningInv
        <4>1. execRow[q] = "running" => InFlight(q)
          BY <3>1 DEF RunningInv
        <4>2. ASSUME NEW r \in Requests,
                     CheckPolicy(r) \/ Refuse(r) \/ CreateExecution(r) \/ CreateStepRecords(r)
              PROVE  InFlight(q)'
          BY <4>1, <4>2 DEF CheckPolicy, Refuse, CreateExecution, CreateStepRecords, At, InFlight,
             IInv, TypeOK, StageInv
        <4>3. ASSUME NEW r \in Requests, Register(r) \/ Start(r)
              PROVE  InFlight(q)'
          BY <4>1, <4>3 DEF Register, Start, At, InFlight, IInv, TypeOK
        <4>4. ASSUME NEW r \in Requests, Carry(r)
              PROVE  InFlight(q)'
          BY <3>1, <4>1, <4>4 DEF Carry, Decide, SaveOutcome, Forget, AccessFails, InFlight,
             IInv, TypeOK, Outcomes
        <4>5. CASE UNCHANGED <<execRow, stage, dag>>
          BY <4>1, <4>5 DEF InFlight
        <4>6. CASE Restart
          BY <3>1, <4>6 DEF Restart
        <4> QED
          BY <3>2, <4>2, <4>3, <4>4, <4>5, <4>6
          DEF Next, Execute, Expire, AskCancel, Cancel, vars
      <3>4. RefusedForOne'
        <4> SUFFICES ASSUME NEW q \in Requests PROVE refusal'[q] # "idle"
          BY DEF RefusedForOne
        <4>1. refusal[q] # "idle"
          BY <3>1 DEF RefusedForOne
        <4>2. ASSUME NEW r \in Requests, Refuse(r) PROVE refusal'[q] # "idle"
          <5>1. \E x \in Requests : InFlight(x)
            BY <3>1, <4>2 DEF Refuse, Blocked, RunningRows, RunningInv
          <5> QED
            BY <4>1, <4>2, <5>1 DEF Refuse, IInv, TypeOK
        <4>3. CASE UNCHANGED refusal
          BY <4>1, <4>3
        <4> QED
          BY <4>2, <4>3 DEF Next, Execute, Carry, CheckPolicy, CreateExecution,
             CreateStepRecords, AdmissionFails, Register, Start, Decide, Expire, SaveOutcome,
             Forget, AskCancel, Cancel, Restart, vars
      <3> QED
        BY <3>3, <3>4
    <2> QED
      BY <2>2, <2>3
  <1>3. (RunningInv /\ RefusedForOne) => RefusedForOne
    OBVIOUS
  <1> QED
    BY <1>1, <1>2, Invariant, PTL DEF Spec

\* An outcome that was recorded is never overwritten.
THEOREM OutcomesStay == Spec => OutcomeFinal
  <1> DEFINE Stays(r) == execRow[r] \in Outcomes => execRow'[r] = execRow[r]
  <1>1. ASSUME IInv, [Next]_vars PROVE \A r \in Requests : Stays(r)
    <2> USE <1>1 DEF IInv, TypeOK, rowVars
    <2>1. CASE \E r \in Requests : CreateExecution(r)
      BY <2>1 DEF CreateExecution, At, StageInv, Outcomes
    <2>2. CASE \E r \in Requests : SaveOutcome(r)
      BY <2>2 DEF SaveOutcome, AccessFails, RecordInv, Outcomes
    <2>3. CASE UNCHANGED execRow
      BY <2>3
    <2> QED
      BY <2>1, <2>2, <2>3 DEF Next, Execute, Carry, CheckPolicy, Refuse, CreateStepRecords,
         AdmissionFails, Register, Start, Decide, Expire, Forget, AskCancel, Cancel,
         Restart, vars
  <1> QED
    BY Invariant, <1>1, PTL DEF Spec, OutcomeFinal

================================================================================
