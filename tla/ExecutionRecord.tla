---------------------------- MODULE ExecutionRecord ----------------------------
(***************************************************************************)
(* What an execution promises to those who read its records and listen to  *)
(* its events, whatever its workflow is (ent/schema/stepexecution.go,      *)
(* ent/schema/workflowexecution.go and their readers): the record of each  *)
(* step advances, the outcome is recorded at most once and after the last  *)
(* record of a step, and announced once, as it was recorded.  A write that *)
(* failed leaves a record behind, it never brings a wrong one about.       *)
(***************************************************************************)

VARIABLES row,      \* StepExecution.status of each step
          execRow,  \* WorkflowExecution.status
          event     \* the outcome announced on the event bus

recordVars == <<row, execRow, event>>

Outcomes == {"completed", "failed", "cancelled"}

Advances == ({"pending"} \X {"running", "skipped", "completed", "failed"})
              \cup ({"running"} \X {"completed", "failed"})

Init ==
    /\ row = [s \in DOMAIN row |-> "pending"]
    /\ execRow = "running"
    /\ event = "none"

Advance(s, st) ==
    /\ execRow = "running" /\ event = "none"
    /\ <<row[s], st>> \in Advances
    /\ row' = [row EXCEPT ![s] = st]
    /\ UNCHANGED <<execRow, event>>

Record(st) ==
    /\ execRow = "running" /\ event = "none"
    /\ execRow' = st
    /\ UNCHANGED <<row, event>>

Announce(st) ==
    /\ event = "none"
    /\ execRow \in {"running", st}
    /\ event' = st
    /\ UNCHANGED <<row, execRow>>

Next == \/ \E s \in DOMAIN row : \E st \in {"running", "skipped", "completed", "failed"} :
              Advance(s, st)
        \/ \E st \in Outcomes : Record(st) \/ Announce(st)

Spec == Init /\ [][Next]_recordVars

================================================================================
