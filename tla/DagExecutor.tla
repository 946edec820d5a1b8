------------------------------ MODULE DagExecutor ------------------------------
(***************************************************************************)
(* One execution of a workflow: Executor.executeDAG and the step           *)
(* goroutines it starts (src/internal/engine/executor.go, 194-686).        *)
(*                                                                         *)
(* The coordinator runs the steps in waves: every step whose in-degree is  *)
(* zero or less is started at once, the wave is awaited, and then the      *)
(* results are delivered along the links of the graph one by one, a        *)
(* branch not taken being skipped depth first.  While it does so the user  *)
(* may cancel the execution, the workflow timeout may expire, and writes   *)
(* to the database may fail; none of them is looked at by the code.        *)
(***************************************************************************)
EXTENDS WorkflowGraph

CONSTANTS Workflows,   \* the workflows an execution may be started on
          Interrupts,  \* what may end the context: "cancelled", "deadline"
          MaxLost      \* bound: database writes that fail on a live context

ASSUME WorkflowsAssumption == \A g \in Workflows : IsWorkflow(g)
ASSUME InterruptsAssumption == Interrupts \subseteq {"cancelled", "deadline"}
ASSUME MaxLostAssumption == MaxLost \in Nat

VARIABLES
    wf,            \* the workflow, as loaded when the execution was created
    pc,            \* where the coordinator is
    wave,          \* steps of the current wave whose result is not processed
    stack,         \* steps whose outcome is being delivered, innermost first
    owed,          \* the links of a step not delivered yet
    inDegree, done, skipped, stepOutputs, executionErr,  \* as in the code
    execCtx,       \* steps whose output the resolver can find
    th,            \* where the goroutine of a step is
    attempt,       \* the attempt a step is at
    result,        \* what executeStep returned
    ctx,           \* the error of the context: "live" stands for nil
    row,           \* StepExecution.status
    execRow,       \* WorkflowExecution.status
    status,        \* the status the coordinator decided on
    reason,        \* the error message it decided on
    event,         \* the terminal status published on the event bus
    lost           \* failed writes so far, for the bound only

engineVars == <<pc, wave, stack, owed, inDegree, done, skipped, stepOutputs,
                executionErr, execCtx, status, reason, event>>
threadVars == <<th, attempt, result>>
dbVars == <<row, execRow, lost>>
outcomeVars == <<status, reason, event>>
resultVars == <<stepOutputs, executionErr, execCtx>>
queueVars == <<wave, stack, owed, inDegree, done, skipped>>
otherVars == <<wf, threadVars, ctx, dbVars>>  \* no part of the coordinator
vars == <<wf, engineVars, threadVars, ctx, dbVars>>

Steps == StepsOf(wf)

TerminalStatus == {"completed", "failed", "cancelled"}

Init ==
    /\ wf \in Workflows
    /\ pc = "select"
    /\ wave = {}
    /\ stack = <<>>
    /\ owed = [s \in Steps |-> OutLinks(wf, s)]
    /\ inDegree = [s \in Steps |-> InitialInDegree(wf, s)]
    /\ done = {} /\ skipped = {} /\ stepOutputs = {} /\ execCtx = {}
    /\ executionErr = "nil"
    /\ th = [s \in Steps |-> "idle"]
    /\ attempt = [s \in Steps |-> 0]
    /\ result = [s \in Steps |-> "none"]
    /\ ctx = "live"
    /\ row = [s \in Steps |-> "pending"]
    /\ execRow = "running"
    /\ status = "none" /\ reason = "none" /\ event = "none"
    /\ lost = 0

--------------------------------------------------------------------------------
(***************************************************************************)
(* Writes.  A row of a step is written with the context of the execution,  *)
(* so nothing is written once that has ended; the result of the write is   *)
(* ignored in every case.                                                  *)
(***************************************************************************)
WriteFails == lost < MaxLost /\ lost' = lost + 1

SaveStep(s, st) ==
    \/ ctx = "live" /\ row' = [row EXCEPT ![s] = st] /\ UNCHANGED lost
    \/ ctx = "live" /\ WriteFails /\ UNCHANGED row
    \/ ctx # "live" /\ UNCHANGED <<row, lost>>

SaveExecution(st) ==
    \/ execRow' = st /\ UNCHANGED lost
    \/ WriteFails /\ UNCHANGED execRow

--------------------------------------------------------------------------------
(***************************************************************************)
(* The goroutine of a step: executeStep and failStep.                      *)
(***************************************************************************)
MaxAttempts(s) == wf.retries[s] + 1

\* What a runner can return: a condition decides, any other step has an
\* output, which may be nil.
RunnerOutputs(s) == IF s \in wf.condition THEN {"true", "false"} ELSE {"ok", "nil"}

Goto(s, place, r) ==
    /\ th' = [th EXCEPT ![s] = place]
    /\ result' = [result EXCEPT ![s] = r]

\* The runner may be missing, or the config refer to a field that the outputs
\* do not have; it cannot be resolved while a step it needs has no output.
BeginStep(s) ==
    /\ th[s] = "spawned"
    /\ SaveStep(s, "running")
    /\ \/ Goto(s, "failing", "err") /\ UNCHANGED attempt
       \/ /\ wf.uses[s] \subseteq execCtx
          /\ MaxAttempts(s) >= 1
          /\ Goto(s, "running", "none")
          /\ attempt' = [attempt EXCEPT ![s] = 1]
       \/ /\ wf.uses[s] \subseteq execCtx
          /\ MaxAttempts(s) < 1
          /\ Goto(s, "completing", "nil") /\ UNCHANGED attempt
    /\ UNCHANGED <<wf, engineVars, ctx, execRow>>

RunAttempt(s) ==
    /\ th[s] = "running"
    /\ \/ \E r \in RunnerOutputs(s) : Goto(s, "completing", r) /\ UNCHANGED attempt
       \/ /\ attempt[s] < MaxAttempts(s)
          /\ attempt' = [attempt EXCEPT ![s] = @ + 1]
          /\ UNCHANGED <<th, result>>
       \/ /\ attempt[s] >= MaxAttempts(s)
          /\ Goto(s, "failing", "err") /\ UNCHANGED attempt
    /\ UNCHANGED <<wf, engineVars, ctx, dbVars>>

CompleteStep(s) ==
    /\ th[s] = "completing"
    /\ SaveStep(s, "completed")
    /\ th' = [th EXCEPT ![s] = "returned"]
    /\ UNCHANGED <<wf, engineVars, attempt, result, ctx, execRow>>

\* Mutant: a step returns its error without recording it.
FailStep_Unrecorded(s) ==
    /\ th[s] = "failing"
    /\ th' = [th EXCEPT ![s] = "returned"]
    /\ UNCHANGED <<wf, engineVars, attempt, result, ctx, dbVars>>

FailStep(s) ==
    /\ th[s] = "failing"
    /\ SaveStep(s, "failed")
    /\ th' = [th EXCEPT ![s] = "returned"]
    /\ UNCHANGED <<wf, engineVars, attempt, result, ctx, execRow>>

Run(s) ==
    /\ s \in Steps
    /\ BeginStep(s) \/ RunAttempt(s) \/ CompleteStep(s) \/ FailStep(s)

--------------------------------------------------------------------------------
(***************************************************************************)
(* The coordinator: one wave.                                              *)
(***************************************************************************)
\* Mutant: a step that is done is started again.
Ready_Again == {s \in Steps : inDegree[s] <= 0}

Ready == {s \in Steps \ done : inDegree[s] <= 0}

StartWave ==
    /\ pc = "select"
    /\ Ready # {}
    /\ pc' = "wave"
    /\ wave' = Ready
    /\ done' = done \cup Ready
    /\ th' = [s \in Steps |-> IF s \in Ready THEN "spawned" ELSE th[s]]
    /\ UNCHANGED <<wf, stack, owed, inDegree, skipped, resultVars, outcomeVars,
                   attempt, result, ctx, dbVars>>

NothingReady ==
    /\ pc = "select"
    /\ Ready = {}
    /\ pc' = "final"
    /\ UNCHANGED <<queueVars, resultVars, outcomeVars, otherVars>>

\* Mutant: the coordinator goes on when the first goroutine has returned.
WaveReturned_First == \E s \in wave : th[s] = "returned"

WaveReturned == \A s \in wave : th[s] = "returned"

AwaitWave ==
    /\ pc = "wave"
    /\ WaveReturned
    /\ pc' = "process"
    /\ UNCHANGED <<queueVars, resultVars, outcomeVars, otherVars>>

(***************************************************************************)
(* Results are processed in the order of the steps, each one completely    *)
(* before the next: the links of a processed step go on the stack.         *)
(***************************************************************************)
NextResult(s) == /\ pc = "process"
            /\ stack = <<>>
            /\ s \in wave
            /\ \A r \in wave : s <= r

\* Mutant: the failure of a step without an error edge is forgotten.
ErrorAfter_Forgotten(s) == executionErr

ErrorAfter(s) == IF wf.error[s] = {} THEN "step" ELSE executionErr

ProcessError(s) ==
    /\ NextResult(s)
    /\ result[s] = "err"
    /\ wave' = wave \ {s}
    /\ inDegree' = [t \in Steps |-> IF t \in wf.error[s] THEN 0 ELSE inDegree[t]]
    /\ executionErr' = ErrorAfter(s)
    /\ execCtx' = IF wf.error[s] = {} THEN execCtx ELSE execCtx \cup {s}
    /\ UNCHANGED <<pc, stack, owed, done, skipped, stepOutputs, outcomeVars, otherVars>>

ProcessOutput(s) ==
    /\ NextResult(s)
    /\ result[s] # "err"
    /\ wave' = wave \ {s}
    /\ stepOutputs' = stepOutputs \cup {s}
    /\ execCtx' = IF result[s] = "nil" THEN execCtx ELSE execCtx \cup {s}
    /\ stack' = <<s>>
    /\ UNCHANGED <<pc, owed, inDegree, done, skipped, executionErr, outcomeVars, otherVars>>

\* The link the coordinator is at, out of the innermost step on the stack.
Delivering(s, p) ==
    /\ pc = "process"
    /\ stack # <<>>
    /\ s = Head(stack)
    /\ p \in owed[s]
    /\ \A q \in owed[s] : p <= q
    /\ owed' = [owed EXCEPT ![s] = @ \ {p}]

\* Not taken: every link of a skipped step, and the edges of a condition
\* that are labelled with the other outcome.
Taken(s, p) ==
    /\ s \notin skipped
    /\ (s \in wf.condition /\ p \in Explicit(wf, s)) =>
         wf.normal[s][p].out = (IF result[s] = "true" THEN "true" ELSE "false")

Lowered(t) == [inDegree EXCEPT ![t] = @ - 1]

DeliverTaken(s, p) ==
    /\ Delivering(s, p)
    /\ Taken(s, p)
    /\ inDegree' = Lowered(Target(wf, s, p))
    /\ UNCHANGED <<pc, wave, stack, done, skipped, resultVars, outcomeVars, otherVars>>

(***************************************************************************)
(* skipBranch: returns at once for a step that is done, only decrements    *)
(* while the in-degree stays positive, and otherwise skips the step and    *)
(* calls itself for its links before the caller goes on.                   *)
(***************************************************************************)
SkipIgnored(s, p) ==
    /\ Delivering(s, p)
    /\ ~Taken(s, p)
    /\ Target(wf, s, p) \in done
    /\ UNCHANGED <<pc, wave, stack, inDegree, done, skipped, resultVars, outcomeVars,
                   otherVars>>

\* Mutant: skipBranch returns before it decrements.
SkipDecrement_Not(s, p) ==
    /\ Delivering(s, p)
    /\ ~Taken(s, p)
    /\ Target(wf, s, p) \notin done
    /\ inDegree[Target(wf, s, p)] - 1 > 0
    /\ UNCHANGED <<pc, wave, stack, inDegree, done, skipped, resultVars, outcomeVars,
                   otherVars>>

SkipDecrement(s, p) ==
    /\ Delivering(s, p)
    /\ ~Taken(s, p)
    /\ Target(wf, s, p) \notin done
    /\ inDegree[Target(wf, s, p)] - 1 > 0
    /\ inDegree' = Lowered(Target(wf, s, p))
    /\ UNCHANGED <<pc, wave, stack, done, skipped, resultVars, outcomeVars, otherVars>>

\* Mutant: a skip is not propagated to the dependents of the skipped step.
Propagate_Never(t) == stack

Propagate(t) == <<t>> \o stack

SkipTarget(s, p) ==
    /\ Delivering(s, p)
    /\ ~Taken(s, p)
    /\ Target(wf, s, p) \notin done
    /\ inDegree[Target(wf, s, p)] - 1 <= 0
    /\ inDegree' = Lowered(Target(wf, s, p))
    /\ skipped' = skipped \cup {Target(wf, s, p)}
    /\ done' = done \cup {Target(wf, s, p)}
    /\ SaveStep(Target(wf, s, p), "skipped")
    /\ stack' = Propagate(Target(wf, s, p))
    /\ UNCHANGED <<pc, wave, resultVars, outcomeVars, wf, threadVars, ctx, execRow>>

Deliver(s, p) ==
    \/ DeliverTaken(s, p) \/ SkipIgnored(s, p)
    \/ SkipDecrement(s, p) \/ SkipTarget(s, p)

Delivered ==
    /\ pc = "process"
    /\ stack # <<>>
    /\ owed[Head(stack)] = {}
    /\ stack' = Tail(stack)
    /\ UNCHANGED <<pc, wave, owed, inDegree, done, skipped, resultVars, outcomeVars,
                   otherVars>>

CheckContext ==
    /\ pc = "process"
    /\ stack = <<>> /\ wave = {}
    /\ IF ctx = "live"
       THEN pc' = "select" /\ UNCHANGED executionErr
       ELSE pc' = "final" /\ executionErr' = ctx
    /\ UNCHANGED <<queueVars, stepOutputs, execCtx, outcomeVars, otherVars>>

--------------------------------------------------------------------------------
(***************************************************************************)
(* The end of an execution.  The context is read again, up to three times. *)
(***************************************************************************)
Decide(place, st, why) ==
    /\ pc' = place /\ status' = st /\ reason' = why
    /\ UNCHANGED <<queueVars, resultVars, event, otherVars>>

Final ==
    /\ pc = "final"
    /\ IF executionErr # "nil" \/ ctx # "live"
       THEN Decide("status", status, reason)
       ELSE Decide("save", "completed", reason)

DecideStatus ==
    /\ pc = "status"
    /\ IF ctx = "cancelled"
       THEN Decide("save", "cancelled", "cancelled")
       ELSE Decide("reason", "failed", reason)

DecideReason ==
    /\ pc = "reason"
    /\ Decide("save", status, IF ctx # "live" THEN "deadline" ELSE executionErr)

SaveOutcome ==
    /\ pc = "save"
    /\ SaveExecution(status)
    /\ pc' = "publish"
    /\ UNCHANGED <<queueVars, resultVars, outcomeVars, wf, threadVars, ctx, row>>

PublishOutcome ==
    /\ pc = "publish"
    /\ event' = status
    /\ pc' = "exited"
    /\ UNCHANGED <<queueVars, resultVars, status, reason, otherVars>>

Coordinator ==
    \/ StartWave \/ NothingReady \/ AwaitWave
    \/ \E s \in Steps : ProcessError(s) \/ ProcessOutput(s)
    \/ \E s \in Steps : \E p \in OutLinks(wf, s) : Deliver(s, p)
    \/ Delivered \/ CheckContext
    \/ Final \/ DecideStatus \/ DecideReason \/ SaveOutcome \/ PublishOutcome

--------------------------------------------------------------------------------
(***************************************************************************)
(* The user cancels or the workflow timeout expires; the first of the two  *)
(* is what ctx.Err() returns from then on.                                 *)
(***************************************************************************)
Interrupt(why) ==
    /\ ctx = "live"
    /\ pc # "exited"
    /\ why = "deadline" => wf.timed
    /\ ctx' = why
    /\ UNCHANGED <<wf, engineVars, threadVars, dbVars>>

Terminated == pc = "exited" /\ UNCHANGED vars

Next == \/ Coordinator
        \/ \E s \in Steps : Run(s)
        \/ \E why \in Interrupts : Interrupt(why)
        \/ Terminated

Spec == Init /\ [][Next]_vars

\* The Go scheduler runs every goroutine that can run, the timer of the workflow
\* fires, and a runner returns, but one that waits for a server without a time
\* limit only once the context of its request has ended.
AllSteps == UNION {StepsOf(g) : g \in Workflows}

Waits(s) == s \in wf.endless /\ th[s] = "running" /\ ctx = "live"

FairSpec == /\ Spec
            /\ WF_vars(Coordinator)
            /\ \A s \in AllSteps : WF_vars(Run(s) /\ ~Waits(s))
            /\ WF_vars("deadline" \in Interrupts /\ Interrupt("deadline"))

--------------------------------------------------------------------------------
\* Every variable has its type, and the status of the execution is decided
\* before an error message is taken, the row written or the event published.
TypeOK ==
    /\ IsWorkflow(wf)
    /\ pc \in {"select", "wave", "process", "final", "status", "reason", "save",
               "publish", "exited"}
    /\ wave \subseteq Steps
    /\ stack \in Seq(Steps)
    /\ owed \in [Steps -> SUBSET Int]
    /\ inDegree \in [Steps -> Int]
    /\ done \subseteq Steps /\ skipped \subseteq Steps
    /\ stepOutputs \subseteq Steps /\ execCtx \subseteq Steps
    /\ executionErr \in {"nil", "step", "cancelled", "deadline"}
    /\ th \in [Steps -> {"idle", "spawned", "running", "completing", "failing",
                         "returned"}]
    /\ attempt \in [Steps -> Nat]
    /\ result \in [Steps -> {"none", "ok", "nil", "true", "false", "err"}]
    /\ ctx \in {"live", "cancelled", "deadline"}
    /\ row \in [Steps -> {"pending", "running", "completed", "failed", "skipped"}]
    /\ execRow \in {"running"} \cup TerminalStatus
    /\ status \in {"none"} \cup TerminalStatus
    /\ pc \in {"reason", "save", "publish", "exited"} => status \in TerminalStatus
    /\ reason \in {"none", "nil", "step", "cancelled", "deadline"}
    /\ event \in {"none"} \cup TerminalStatus
    /\ lost \in 0 .. MaxLost

--------------------------------------------------------------------------------
\* Steps whose failure was processed, steps whose outcome went to their
\* dependents, and the handlers that a failure made ready.
Failed == {s \in done \ wave : result[s] = "err"}
Settled == stepOutputs \cup skipped
Forced == UNION {wf.error[s] : s \in Failed}

\* A step is started only when each of its dependencies has completed or was
\* skipped, and the outcome was delivered, unless it handles a failure that
\* was processed: whatever the order in which results, skips and error edges
\* change the in-degrees.
DependenciesSettled ==
    \A s \in Steps : th[s] # "idle" /\ s \notin Forced
                       => /\ DependsOn(wf, s) \subseteq Settled
                          /\ \A l \in InLinks(wf, s) : l[2] \notin owed[l[1]]

\* Nothing of a wave outlives it: while the coordinator is anywhere but in
\* wg.Wait no goroutine of a step runs, so none of them writes the database
\* or reads the context while results are processed or after the execution.
NoStrayGoroutines ==
    pc # "wave" => \A s \in Steps : th[s] \in {"idle", "returned"}

\* The published outcome is the right one for what happened: "completed" only
\* if every failure had an error edge, "cancelled" only if the user cancelled
\* first, "failed" only for a failure that nothing handles or for a timeout,
\* and then there is an error whose message can be taken.
OutcomeExplained ==
    /\ reason # "nil"
    /\ event = "completed" => \A s \in Failed : wf.error[s] # {}
    /\ event = "cancelled" => ctx = "cancelled"
    /\ event = "failed" => \/ ctx = "deadline"
                          \/ \E s \in Failed : wf.error[s] = {}

\* A step that is never run nor skipped has a reason: when the waves end by
\* themselves it still depends on a step that failed or that was left as well.
StuckExplained ==
    pc = "exited" /\ executionErr \notin {"cancelled", "deadline"}
       => \A t \in Steps \ done :
             \E d \in DependsOn(wf, t) : d \in Failed \/ d \notin done

\* A ranking of the steps that every link climbs: the graph has no cycle.
Acyclic(g) ==
    \E rank \in [StepsOf(g) -> StepsOf(g)] :
       \A l \in Links(g) : rank[l[1]] < rank[Target(g, l[1], l[2])]

\* In a graph without cycles an execution that ended by itself without a
\* failure has run or skipped every step.
NothingLeftBehind ==
    pc = "exited" /\ ctx = "live" /\ Failed = {} /\ Acyclic(wf) => done = Steps

\* The database agrees with the memory of the executor when an execution ends
\* whose writes were all possible: what a reader sees of each step, and of the
\* execution, is what the outcome was computed from.
RowsAgree ==
    event # "none" /\ ctx = "live" /\ lost = 0
       => /\ execRow = event
          /\ \A s \in Steps :
                row[s] = CASE s \in stepOutputs -> "completed"
                           [] s \in skipped -> "skipped"
                           [] s \in Failed -> "failed"
                           [] OTHER -> "pending"

\* Every execution ends and says so, whatever the graph (cycles included), the
\* runners' answers, failing writes, a cancel or a timeout; unless the workflow has
\* no timeout, nobody cancels, and a step waits for ever for a server.
Terminates ==
    \/ <>(event # "none")
    \/ <>[](~wf.timed /\ \E s \in Steps : Waits(s))

--------------------------------------------------------------------------------
(***************************************************************************)
(* What a comment of the code says, which its behaviour does not bear out. *)
(***************************************************************************)

\* executor.go:646 "Only skip if in-degree is 0 ... (all paths leading to it
\* were skipped)": no link into a skipped step was taken.
SkippedOnlyIfAllPathsSkipped ==
    \A t \in skipped : \A l \in InLinks(wf, t) : ~Taken(l[1], l[2])

================================================================================
