---------------------------- MODULE DagExecutorInv -----------------------------
(***************************************************************************)
(* The inductive invariant behind the safety properties of DagExecutor.    *)
(* None of the properties is inductive by itself: an in-degree says that   *)
(* dependencies are settled only because it counts the links that are      *)
(* still owed, and it counts them only while each outcome is delivered     *)
(* along each link once.                                                   *)
(***************************************************************************)
EXTENDS DagExecutor

\* Goroutines run only while the coordinator waits for them, for the steps of
\* the wave; a step is started or skipped, never both; what a goroutine leaves.
ThreadInv ==
    /\ skipped \subseteq done
    /\ wave \subseteq done \ skipped
    /\ \A s \in Steps :
          /\ th[s] # "idle" <=> s \in done \ skipped
          /\ th[s] \notin {"idle", "returned"} => s \in wave /\ pc = "wave"
          /\ th[s] \in {"idle", "spawned", "running"} => result[s] = "none"
          /\ th[s] = "completing" => result[s] \in {"ok", "nil", "true", "false"}
          /\ th[s] = "failing" => result[s] = "err"

\* Outcomes are delivered between two waves, and completely before the next.
FlowInv ==
    /\ pc # "process" => stack = <<>>
    /\ pc \notin {"wave", "process"} => wave = {}
    /\ stepOutputs \subseteq done \ wave
    /\ \A s \in stepOutputs : result[s] # "err"
    /\ done \ wave \subseteq Settled \cup Failed
    /\ \A i \in 1 .. Len(stack) : stack[i] \in Settled
    /\ \A s \in Settled : owed[s] # {} => \E i \in 1 .. Len(stack) : stack[i] = s

\* The links into a step along which the outcome was not delivered yet.
Owing(t) == {l \in InLinks(wf, t) : l[2] \in owed[l[1]]}

\* The in-degree of a step that is not done is the number of links owed to it,
\* unless a failure made it ready.
CountInv ==
    /\ \A s \in Steps : owed[s] \subseteq OutLinks(wf, s)
    /\ \A s \in Steps \ Settled : owed[s] = OutLinks(wf, s)
    /\ \A t \in Steps \ done :
          IF t \in Forced THEN inDegree[t] <= 0 ELSE inDegree[t] = Cardinality(Owing(t))
    /\ \A t \in Steps : th[t] # "idle" /\ t \notin Forced => Owing(t) = {}

\* When the loop ended by itself no step was ready.
ReadyInv ==
    /\ pc \in {"final", "status", "reason", "save", "publish", "exited"}
         /\ executionErr \notin {"cancelled", "deadline"} => Ready = {}
    /\ executionErr \in {"cancelled", "deadline"} =>
         /\ ctx = executionErr
         /\ pc \in {"final", "status", "reason", "save", "publish", "exited"}

RowInv ==
    \A s \in Steps :
       /\ row[s] \in {"completed", "failed"} => th[s] = "returned"
       /\ row[s] = "running" => th[s] # "idle"
       /\ row[s] = "skipped" => s \in skipped
       /\ th[s] = "spawned" => row[s] = "pending"

OutcomeInv ==
    /\ executionErr = "nil" => \A s \in Failed : wf.error[s] # {}
    /\ executionErr = "step" => \E s \in Failed : wf.error[s] = {}
    /\ pc \in {"status", "reason"} => executionErr # "nil" \/ ctx # "live"
    /\ status = "completed" => executionErr = "nil"
    /\ status = "cancelled" => ctx = "cancelled"
    /\ status = "failed" => executionErr = "step" \/ ctx = "deadline"
    /\ status # "none" => pc \in {"reason", "save", "publish", "exited"}
    /\ reason # "nil"
    /\ event \in {"none", status}

RecordInv ==
    /\ pc \notin {"publish", "exited"} => execRow = "running"
    /\ pc # "exited" => event = "none"
    /\ pc = "publish" => execRow \in {"running", status}
    /\ pc \in {"publish", "exited"} => status \in TerminalStatus

\* A row is where its step is, and the row of the execution where the coordinator is,
\* as long as every write was possible.
AgreeInv ==
    /\ \A s \in stepOutputs : th[s] = "returned"
    /\ ctx = "live" /\ lost = 0 =>
         /\ \A s \in Steps :
               /\ th[s] = "idle" /\ s \notin skipped => row[s] = "pending"
               /\ s \in skipped => row[s] = "skipped"
               /\ th[s] = "returned" =>
                     row[s] = IF result[s] = "err" THEN "failed" ELSE "completed"
         /\ pc \in {"publish", "exited"} => execRow = status

--------------------------------------------------------------------------------
Recorded == INSTANCE ExecutionRecord

\* An execution keeps the promise of ExecutionRecord: no step is recorded out
\* of order or after the outcome, and what is announced is what was recorded.
KeepsRecords == Recorded!Spec

================================================================================
