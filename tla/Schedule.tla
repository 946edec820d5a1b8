-------------------------------- MODULE Schedule --------------------------------
(***************************************************************************)
(* What the rest of the system may rely on of the cron scheduler: at most  *)
(* one schedule per workflow.  Telling it about a workflow changes the     *)
(* schedule of that one only, and nothing starts an execution but a        *)
(* schedule in force.                                                      *)
(***************************************************************************)
EXTENDS Naturals

CONSTANTS Workflows, Expressions, Unscheduled

VARIABLES schedule,  \* the expression by which a workflow is run, or Unscheduled
          firing     \* calls of Execute on their way, by workflow

scheduleVars == <<schedule, firing>>

Init ==
    /\ schedule = [w \in Workflows |-> Unscheduled]
    /\ firing = [w \in Workflows |-> 0]

Tell(w, e) ==
    /\ schedule' = [schedule EXCEPT ![w] = e]
    /\ UNCHANGED firing

Fire(w) ==
    /\ schedule[w] # Unscheduled
    /\ firing' = [firing EXCEPT ![w] = @ + 1]
    /\ UNCHANGED schedule

Call(w) ==
    /\ firing[w] > 0
    /\ firing' = [firing EXCEPT ![w] = @ - 1]
    /\ UNCHANGED schedule

\* The process ends, or a new one has read the workflows.
Reload ==
    /\ schedule' \in [Workflows -> Expressions \cup {Unscheduled}]
    /\ firing' = [w \in Workflows |-> 0]

Next ==
    \/ Reload
    \/ \E w \in Workflows :
          \/ \E e \in Expressions \cup {Unscheduled} : Tell(w, e)
          \/ Fire(w)
          \/ Call(w)

Spec == Init /\ [][Next]_scheduleVars

================================================================================
