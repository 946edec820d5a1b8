---------------------------- MODULE ExecutionEvents ----------------------------
(***************************************************************************)
(* What the engine writes and publishes about one execution, as seen from  *)
(* one channel of the event bus (src/internal/engine/executor.go, 421-686, *)
(* and events.go).  Every change is written to the database first and      *)
(* published afterwards, two steps that readers may come between; a write  *)
(* may fail, and what is published to a full channel is dropped.           *)
(*                                                                         *)
(* Which step runs when is the business of DagExecutor; here any step may  *)
(* run or be skipped, and the execution may end with any outcome once no   *)
(* step runs.  The channel behaves as EventFeed.                           *)
(***************************************************************************)
EXTENDS Naturals, Sequences

CONSTANTS Steps,
          Capacity,  \* of a channel: 64 in the code
          MaxLogs,   \* bound: step_log events of a step
          MaxLost    \* bound: accesses to the database that fail

ASSUME FeedAssumption == Capacity \in Nat \ {0} /\ MaxLogs \in Nat /\ MaxLost \in Nat

VARIABLES
    phase,      \* the status the engine gave a step last
    unsaid,     \* steps whose status is not published yet
    row,        \* StepExecution.status
    execRow,    \* WorkflowExecution.status
    outcome,    \* the status the engine gave the execution: "none" at first
    announced,  \* the outcome once it is published
    channel,    \* "none", "open" or "closed"
    buffer,     \* events in the channel, oldest first
    dropped,    \* history: the types of the events the channel had no room for
    logs, lost  \* for the bounds only

engineVars == <<phase, unsaid, row, execRow, outcome, announced, logs>>
channelVars == <<channel, buffer, dropped>>

Outcomes == {"completed", "failed", "cancelled"}
StepStatus == {"pending", "running", "completed", "failed", "skipped"}

EventType == {"step_status", "step_log", "execution_status"}

Event == [type : EventType,
          step : Steps \cup {"none"},
          status : {"none"} \cup StepStatus \cup Outcomes]

StepEvent(s, st) == [type |-> "step_status", step |-> s, status |-> st]
LogEvent(s) == [type |-> "step_log", step |-> s, status |-> "none"]
ExecutionEvent(st) == [type |-> "execution_status", step |-> "none", status |-> st]

FeedInit ==
    /\ phase = [s \in Steps |-> "pending"]
    /\ unsaid = {}
    /\ row = [s \in Steps |-> "pending"]
    /\ execRow = "running"
    /\ outcome = "none" /\ announced = "none"
    /\ channel = "none" /\ buffer = <<>> /\ dropped = {}
    /\ logs = [s \in Steps |-> 0] /\ lost = 0

--------------------------------------------------------------------------------
\* Mutant: the send does not mind a full channel.
Publish_Unbounded(e) ==
    /\ UNCHANGED <<channel, dropped>>
    /\ buffer' = IF channel = "open" THEN Append(buffer, e) ELSE buffer

Publish(e) ==
    /\ UNCHANGED channel
    /\ \/ channel # "open" /\ UNCHANGED <<buffer, dropped>>
       \/ channel = "open" /\ Len(buffer) < Capacity
          /\ buffer' = Append(buffer, e) /\ UNCHANGED dropped
       \/ channel = "open" /\ Len(buffer) >= Capacity
          /\ dropped' = dropped \cup {e.type} /\ UNCHANGED buffer

Subscribe == channel = "none" /\ channel' = "open" /\ UNCHANGED <<buffer, dropped>>

Unsubscribe == channel' = "closed" /\ UNCHANGED <<buffer, dropped>>

AccessFails == lost < MaxLost /\ lost' = lost + 1

\* The goroutine of a step that runs ends it; the coordinator starts a step,
\* or skips one while none runs, until it has decided the outcome.
Following(s) ==
    CASE phase[s] = "running" -> {"completed", "failed"}
      [] phase[s] = "pending" /\ outcome = "none" ->
            IF unsaid = {} /\ \A r \in Steps : phase[r] # "running"
            THEN {"running", "skipped"} ELSE {"running"}
      [] OTHER -> {}

WriteStep(s) ==
    /\ s \notin unsaid
    /\ \E st \in Following(s) :
          /\ phase' = [phase EXCEPT ![s] = st]
          /\ \/ row' = [row EXCEPT ![s] = st] /\ UNCHANGED lost
             \/ AccessFails /\ UNCHANGED row
    /\ unsaid' = unsaid \cup {s}
    /\ UNCHANGED <<execRow, outcome, announced, logs, channelVars>>

PublishStep(s) ==
    /\ s \in unsaid
    /\ unsaid' = unsaid \ {s}
    /\ Publish(StepEvent(s, phase[s]))
    /\ UNCHANGED <<phase, row, execRow, outcome, announced, logs, lost>>

PublishLog(s) ==
    /\ phase[s] = "running" /\ s \notin unsaid
    /\ logs[s] < MaxLogs
    /\ logs' = [logs EXCEPT ![s] = @ + 1]
    /\ Publish(LogEvent(s))
    /\ UNCHANGED <<phase, unsaid, row, execRow, outcome, announced, lost>>

\* Mutant: the coordinator does not wait for the goroutines of the wave.
NoStepRuns_Unjoined == TRUE

NoStepRuns == unsaid = {} /\ \A s \in Steps : phase[s] # "running"

WriteOutcome ==
    /\ outcome = "none"
    /\ NoStepRuns
    /\ outcome' \in Outcomes
    /\ \/ execRow' = outcome' /\ UNCHANGED lost
       \/ AccessFails /\ UNCHANGED execRow
    /\ UNCHANGED <<phase, unsaid, row, announced, logs, channelVars>>

PublishOutcome ==
    /\ outcome # "none" /\ announced = "none"
    /\ announced' = outcome
    /\ Publish(ExecutionEvent(outcome))
    /\ UNCHANGED <<phase, unsaid, row, execRow, outcome, logs, lost>>

StepGoroutine(s) == WriteStep(s) \/ PublishStep(s) \/ PublishLog(s)

Engine == WriteOutcome \/ PublishOutcome \/ \E s \in Steps : StepGoroutine(s)

--------------------------------------------------------------------------------
FeedTypeOK ==
    /\ phase \in [Steps -> StepStatus]
    /\ unsaid \subseteq Steps
    /\ row \in [Steps -> StepStatus]
    /\ execRow \in {"running"} \cup Outcomes
    /\ outcome \in {"none"} \cup Outcomes
    /\ announced \in {"none", outcome}
    /\ channel \in {"none", "open", "closed"}
    /\ buffer \in Seq(Event)
    /\ Len(buffer) <= Capacity
    /\ dropped \subseteq EventType
    /\ logs \in [Steps -> 0 .. MaxLogs]
    /\ lost \in 0 .. MaxLost

Recorded == INSTANCE ExecutionRecord WITH event <- announced

\* The engine seen from here keeps the promise that DagExecutor keeps: records
\* advance, the outcome comes last and is announced as it was recorded.
KeepsRecords == Recorded!Spec

================================================================================
