---------------------------- MODULE ExecutionService ----------------------------
(***************************************************************************)
(* Admission, cancellation and restart of the executions of one workflow:  *)
(* Executor.Execute and Executor.Cancel with the handlers that call them   *)
(* (src/internal/engine/executor.go, 43-52 and 105-192,                    *)
(* src/internal/execution/handler.go, 28-60).                              *)
(*                                                                         *)
(* An execution is named by the request that starts it: manual, webhook or *)
(* cron, each on a goroutine of its own.  How the steps run is the         *)
(* business of DagExecutor; here executeDAG runs, decides on an outcome    *)
(* by what its context says, and writes it.                                *)
(***************************************************************************)
EXTENDS Naturals, FiniteSets

CONSTANTS Requests,
          Policies,    \* the concurrency policies to look at
          MaxLost,     \* bound: accesses to the database that fail
          MaxCrashes   \* bound: restarts of the server

ASSUME PoliciesAssumption == Policies \subseteq {"allow", "skip", "queue"}
ASSUME BoundsAssumption == MaxLost \in Nat /\ MaxCrashes \in Nat

VARIABLES
    policy,   \* Workflow.concurrency
    stage,    \* where the call of Execute is
    execRow,  \* WorkflowExecution.status, "none" while there is no record
    cancels,  \* the cancel functions the executor keeps
    ctx,      \* the context of an execution: "live", "cancelled" or "deadline"
    dag,      \* "none", "running", "deciding", "ended", "gone"
    decided,  \* the outcome executeDAG decided on
    hangs,    \* whether a step of it waits for an answer that never comes
    user,     \* a user's cancel of an execution: "none", "calling" or "answered"
    lost, crashes,
    \* History, for the properties only:
    found,    \* the executions there were when a request looked for running ones
    refusal,  \* whether an execution was in flight when a request was refused
    reached   \* what was decided when a cancel ended the context, "not" if none did

rowVars == <<execRow, lost>>
dagVars == <<dag, decided, hangs>>
historyVars == <<found, refusal, reached>>
vars == <<policy, stage, rowVars, cancels, ctx, dagVars, user, crashes, historyVars>>

Outcomes == {"completed", "failed", "cancelled"}

Init ==
    /\ policy \in Policies
    /\ stage = [r \in Requests |-> "new"]
    /\ execRow = [r \in Requests |-> "none"]
    /\ cancels = {}
    /\ ctx = [r \in Requests |-> "live"]
    /\ dag = [r \in Requests |-> "none"]
    /\ decided = [r \in Requests |-> "none"]
    /\ hangs = [r \in Requests |-> FALSE]
    /\ user = [r \in Requests |-> "none"]
    /\ lost = 0 /\ crashes = 0
    /\ found = [r \in Requests |-> {}]
    /\ refusal = [r \in Requests |-> "none"]
    /\ reached = [r \in Requests |-> "not"]

At(r, from, to) == stage[r] = from /\ stage' = [stage EXCEPT ![r] = to]

AccessFails == lost < MaxLost /\ lost' = lost + 1

--------------------------------------------------------------------------------
(***************************************************************************)
(* Executor.Execute, from the check of the policy to the go statement.     *)
(***************************************************************************)
RunningRows == {q \in Requests : execRow[q] = "running"}

\* An execution that is being admitted or carried out.
InFlight(q) ==
    \/ stage[q] \in {"records", "register", "start"}
    \/ dag[q] \in {"running", "deciding"}

\* Mutant: records that are over count, those that run do not.
Blocked_ByOver == policy = "skip" /\ \E q \in Requests : execRow[q] \in Outcomes

\* Only the policy "skip" is looked at.
Blocked == policy = "skip" /\ RunningRows # {}

CheckPolicy(r) ==
    /\ At(r, "new", "create")
    /\ ~Blocked
    /\ found' = [found EXCEPT ![r] = {q \in Requests : execRow[q] # "none"}]
    /\ UNCHANGED <<policy, rowVars, cancels, ctx, dagVars, user, crashes, refusal,
                   reached>>

Refuse(r) ==
    /\ At(r, "new", "refused")
    /\ Blocked
    /\ refusal' = [refusal EXCEPT ![r] =
                     IF \E q \in Requests : InFlight(q) THEN "busy" ELSE "idle"]
    /\ UNCHANGED <<policy, rowVars, cancels, ctx, dagVars, user, crashes, found,
                   reached>>

CreateExecution(r) ==
    /\ At(r, "create", "records")
    /\ execRow' = [execRow EXCEPT ![r] = "running"]
    /\ UNCHANGED <<policy, lost, cancels, ctx, dagVars, user, crashes, historyVars>>

CreateStepRecords(r) ==
    /\ At(r, "records", "register")
    /\ UNCHANGED <<policy, rowVars, cancels, ctx, dagVars, user, crashes, historyVars>>

\* Any access fails, for one because the caller has hung up: Execute returns an
\* error and leaves behind what it has written so far.
AdmissionFails(r) ==
    /\ stage[r] \in {"new", "create", "records"}
    /\ AccessFails
    /\ stage' = [stage EXCEPT ![r] = "error"]
    /\ UNCHANGED <<policy, execRow, cancels, ctx, dagVars, user, crashes, historyVars>>

\* Mutant: the cancel function is not kept.
Kept_Not(r) == cancels

Kept(r) == cancels \cup {r}

Register(r) ==
    /\ At(r, "register", "start")
    /\ cancels' = Kept(r)
    /\ UNCHANGED <<policy, rowVars, ctx, dagVars, user, crashes, historyVars>>

\* A request without a time limit may wait for ever (http_request.go:48).
Start(r) ==
    /\ At(r, "start", "returned")
    /\ dag' = [dag EXCEPT ![r] = "running"]
    /\ \E b \in BOOLEAN : hangs' = [hangs EXCEPT ![r] = b]
    /\ UNCHANGED <<policy, rowVars, cancels, ctx, decided, user, crashes, historyVars>>

Execute(r) ==
    \/ CheckPolicy(r) \/ Refuse(r) \/ CreateExecution(r) \/ CreateStepRecords(r)
    \/ Register(r) \/ Start(r)

--------------------------------------------------------------------------------
(***************************************************************************)
(* The goroutine of an execution: executeDAG, then the deferred delete.    *)
(***************************************************************************)
\* Mutant: the context is not looked at once the steps have succeeded.
OutcomesFor_Succeeded(r) == CASE ctx[r] = "cancelled" -> {"cancelled", "completed"}
                              [] ctx[r] = "deadline" -> {"failed"}
                              [] OTHER -> {"completed", "failed"}

OutcomesFor(r) == CASE ctx[r] = "cancelled" -> {"cancelled"}
                    [] ctx[r] = "deadline" -> {"failed"}
                    [] OTHER -> {"completed", "failed"}

\* The timeout of the workflow, set when executeDAG begins.
Expire(r) ==
    /\ dag[r] \in {"running", "deciding"}
    /\ ctx[r] = "live"
    /\ ctx' = [ctx EXCEPT ![r] = "deadline"]
    /\ UNCHANGED <<policy, stage, rowVars, cancels, dagVars, user, crashes, historyVars>>

\* A step that waits for ever returns once the context of its request has ended.
Decide(r) ==
    /\ dag[r] = "running"
    /\ hangs[r] => ctx[r] # "live"
    /\ dag' = [dag EXCEPT ![r] = "deciding"]
    /\ \E st \in OutcomesFor(r) : decided' = [decided EXCEPT ![r] = st]
    /\ UNCHANGED <<policy, stage, rowVars, cancels, ctx, hangs, user, crashes, historyVars>>

SaveOutcome(r) ==
    /\ dag[r] = "deciding"
    /\ dag' = [dag EXCEPT ![r] = "ended"]
    /\ \/ execRow' = [execRow EXCEPT ![r] = decided[r]] /\ UNCHANGED lost
       \/ AccessFails /\ UNCHANGED execRow
    /\ UNCHANGED <<policy, stage, cancels, ctx, decided, hangs, user, crashes,
                   historyVars>>

\* Mutant: the cancel function is never deleted.
Dropped_Not(r) == cancels

Dropped(r) == cancels \ {r}

Forget(r) ==
    /\ dag[r] = "ended"
    /\ dag' = [dag EXCEPT ![r] = "gone"]
    /\ cancels' = Dropped(r)
    /\ UNCHANGED <<policy, stage, rowVars, ctx, decided, hangs, user, crashes,
                   historyVars>>

Carry(r) == Decide(r) \/ SaveOutcome(r) \/ Forget(r)

--------------------------------------------------------------------------------
(***************************************************************************)
(* The cancel endpoint: the record is read, then the executor is asked; it *)
(* answers "cancellation requested" whatever the executor says.            *)
(***************************************************************************)
AskCancel(r) ==
    /\ user[r] = "none"
    /\ execRow[r] = "running"
    /\ user' = [user EXCEPT ![r] = "calling"]
    /\ UNCHANGED <<policy, stage, rowVars, cancels, ctx, dagVars, crashes, historyVars>>

\* The first of a cancel and a timeout is what the context says from then on.
Reached(r) == r \in cancels /\ ctx[r] = "live"

Reach(r) == reached' = IF Reached(r) THEN [reached EXCEPT ![r] = decided[r]] ELSE reached

\* Mutant: the endpoint writes the record itself.
Cancel_Records(r) ==
    /\ user[r] = "calling"
    /\ user' = [user EXCEPT ![r] = "answered"]
    /\ ctx' = IF Reached(r) THEN [ctx EXCEPT ![r] = "cancelled"] ELSE ctx
    /\ execRow' = [execRow EXCEPT ![r] = "cancelled"]
    /\ Reach(r)
    /\ UNCHANGED <<policy, stage, lost, cancels, dagVars, crashes, found, refusal>>

Cancel(r) ==
    /\ user[r] = "calling"
    /\ user' = [user EXCEPT ![r] = "answered"]
    /\ ctx' = IF Reached(r) THEN [ctx EXCEPT ![r] = "cancelled"] ELSE ctx
    /\ Reach(r)
    /\ UNCHANGED <<policy, stage, rowVars, cancels, dagVars, crashes, found, refusal>>

--------------------------------------------------------------------------------
\* The server stops, with everything it had in memory, and starts again; it
\* looks at no record then.
Restart ==
    /\ crashes < MaxCrashes
    /\ crashes' = crashes + 1
    /\ stage' = [r \in Requests |-> IF stage[r] = "new" THEN "new" ELSE "gone"]
    /\ dag' = [r \in Requests |-> IF dag[r] = "none" THEN "none" ELSE "gone"]
    /\ cancels' = {}
    /\ user' = [r \in Requests |-> IF user[r] = "calling" THEN "none" ELSE user[r]]
    /\ UNCHANGED <<policy, rowVars, ctx, decided, hangs, historyVars>>

Next == \/ \E r \in Requests : Execute(r) \/ AdmissionFails(r) \/ Carry(r) \/ Expire(r)
        \/ \E r \in Requests : AskCancel(r) \/ Cancel(r)
        \/ Restart

Spec == Init /\ [][Next]_vars

\* Goroutines are scheduled, and executeDAG ends unless a step waits for ever
\* (Terminates of DagExecutor).
FairSpec == Spec /\ \A r \in Requests : WF_vars(Execute(r)) /\ WF_vars(Carry(r))

--------------------------------------------------------------------------------
\* Every variable has its type, and a goroutine has a record and an outcome.
TypeOK ==
    /\ policy \in Policies
    /\ stage \in [Requests -> {"new", "create", "records", "register", "start",
                               "refused", "error", "returned", "gone"}]
    /\ execRow \in [Requests -> {"none", "running"} \cup Outcomes]
    /\ cancels \subseteq Requests
    /\ ctx \in [Requests -> {"live", "cancelled", "deadline"}]
    /\ dag \in [Requests -> {"none", "running", "deciding", "ended", "gone"}]
    /\ decided \in [Requests -> {"none"} \cup Outcomes]
    /\ hangs \in [Requests -> BOOLEAN]
    /\ user \in [Requests -> {"none", "calling", "answered"}]
    /\ lost \in 0 .. MaxLost /\ crashes \in 0 .. MaxCrashes
    /\ found \in [Requests -> SUBSET Requests]
    /\ refusal \in [Requests -> {"none", "busy", "idle"}]
    /\ reached \in [Requests -> {"not", "none"} \cup Outcomes]
    /\ \A r \in Requests :
          /\ dag[r] # "none" => execRow[r] # "none"
          /\ dag[r] \in {"deciding", "ended"} => decided[r] # "none"

\* The executor can cancel exactly the executions it carries out: none is out of
\* reach while its goroutine runs, and nothing is kept for one that is over.
CancelsMatch ==
    \A r \in Requests :
       /\ dag[r] \in {"running", "deciding", "ended"} => r \in cancels
       /\ r \in cancels => stage[r] = "start" \/ dag[r] \in {"running", "deciding", "ended"}

\* Under "skip" two executions overlap only if neither had a record yet when the
\* other was admitted, however many failures and restarts there were.
OverlapOnlyByRace ==
    policy = "skip" =>
       \A r, q \in Requests :
          r # q /\ InFlight(r) /\ InFlight(q) => q \notin found[r]

\* A record says "cancelled" only if a user asked for it before the timeout.  A cancel
\* that ended the context of an execution is obeyed: what is recorded is "cancelled", or
\* the outcome if that had been decided before.
CancelledIfAsked ==
    \A r \in Requests :
       /\ execRow[r] = "cancelled" => user[r] = "answered" /\ ctx[r] = "cancelled"
       /\ execRow[r] \in Outcomes /\ reached[r] # "not" =>
             execRow[r] = IF reached[r] = "none" THEN "cancelled" ELSE reached[r]

\* A record that says an outcome says so for ever.
OutcomeFinal ==
    [][\A r \in Requests : execRow[r] \in Outcomes => execRow'[r] = execRow[r]]_vars

\* Every execution that was recorded is recorded to end and its cancel function
\* released, and with that the refusals of a "skip" workflow end: only an access
\* that failed or a restart can leave one behind, or a step that waits for ever, as long
\* as neither the user nor a timeout ends the context.
EveryExecutionEnds ==
    \A r \in Requests :
       \/ execRow[r] = "running" ~>
             (execRow[r] \in Outcomes /\ r \notin cancels) \/ lost + crashes > 0
       \/ <>[](hangs[r] /\ ctx[r] = "live")

\* A request is refused for an execution that is in flight; for one that nobody
\* carries out any more only after an access that failed or a restart.
RefusedForOne == \A r \in Requests : refusal[r] = "idle" => lost + crashes > 0

================================================================================
