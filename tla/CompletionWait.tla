----------------------------- MODULE CompletionWait -----------------------------
(***************************************************************************)
(* A webhook that waits for its execution: Executor.WaitForCompletion and  *)
(* what WebhookHandler.Handle makes of it (src/internal/engine/executor.go,*)
(* 59-103, src/internal/trigger/webhook.go, 81-96), beside the engine that *)
(* runs the execution.                                                     *)
(***************************************************************************)
EXTENDS ExecutionEvents

VARIABLES wait,    \* where the waiter is; "gone" once it has unsubscribed
          reply,   \* what it returned: an execution record, or a timeout
          missed   \* history: the outcome was announced before the waiter listened

waitVars == <<wait, reply, missed>>
webhookVars == <<engineVars, lost, channelVars, waitVars>>

WaitInit == FeedInit /\ wait = "check" /\ reply = "none" /\ missed = FALSE

\* The record is read once before subscribing; if the read fails the waiter
\* subscribes as well.
CheckRecord ==
    /\ wait = "check"
    /\ \/ execRow \in Outcomes /\ wait' = "gone" /\ reply' = execRow /\ UNCHANGED lost
       \/ execRow \notin Outcomes /\ wait' = "subscribe" /\ UNCHANGED <<reply, lost>>
       \/ AccessFails /\ wait' = "subscribe" /\ UNCHANGED reply
    /\ UNCHANGED <<engineVars, channelVars, missed>>

StartListening ==
    /\ wait = "subscribe"
    /\ Subscribe
    /\ wait' = "listen"
    /\ missed' = (announced # "none")
    /\ UNCHANGED <<engineVars, lost, reply>>

\* Mutants: the type of the event is not looked at; a cancel does not end the wait.
Ends_AnyType(e) == e.status \in Outcomes
Ends_NotCancel(e) == e.type = "execution_status" /\ e.status \in {"completed", "failed"}

Ends(e) == e.type = "execution_status" /\ e.status \in Outcomes

ReceiveEvent ==
    /\ wait = "listen"
    /\ buffer # <<>>
    /\ buffer' = Tail(buffer)
    /\ wait' = IF Ends(Head(buffer)) THEN "fetch" ELSE "listen"
    /\ UNCHANGED <<engineVars, lost, channel, dropped, reply, missed>>

\* Mutant: the subscription is left behind.
Leave_Subscribed == UNCHANGED channelVars

Leave == Unsubscribe

\* The record as it is now; a read that fails is answered as a timeout is.
FetchRecord ==
    /\ wait = "fetch"
    /\ \/ reply' = execRow /\ UNCHANGED lost
       \/ AccessFails /\ reply' = "timeout"
    /\ wait' = "gone"
    /\ Leave
    /\ UNCHANGED <<engineVars, missed>>

\* The deadline passes or the caller of the webhook hangs up.
TimeOut ==
    /\ wait = "listen"
    /\ wait' = "gone"
    /\ reply' = "timeout"
    /\ Leave
    /\ UNCHANGED <<engineVars, lost, missed>>

Waiter == CheckRecord \/ StartListening \/ ReceiveEvent \/ FetchRecord

WaitNext == \/ Engine /\ UNCHANGED waitVars
        \/ Waiter
        \/ TimeOut

WaitSpec == WaitInit /\ [][WaitNext]_webhookVars

\* The goroutine of the webhook is scheduled.  Nothing is assumed of the engine,
\* which a step that waits for a server may hold up, and the deadline may be far away.
FairWaitSpec == WaitSpec /\ WF_webhookVars(Waiter)

--------------------------------------------------------------------------------
\* Every variable has its type.
WaitTypeOK ==
    /\ FeedTypeOK
    /\ wait \in {"check", "subscribe", "listen", "fetch", "gone"}
    /\ reply \in {"none", "running", "timeout"} \cup Outcomes
    /\ missed \in BOOLEAN

\* What a waiting webhook answers is the outcome of the execution, never a
\* record read too early: "running" only if the outcome could not be written.
AnswersOutcome ==
    /\ reply \in Outcomes => reply = outcome
    /\ reply = "running" => outcome # "none" /\ lost > 0

\* Whichever way the waiter leaves, it leaves no subscription behind.
LeavesNothing == wait = "gone" => channel # "open"

\* A waiter that listened before the outcome was announced is answered then and need
\* not wait for its deadline, unless its channel had no room for the outcome.
HearsOutcome ==
    wait = "listen" /\ ~missed /\ announced # "none"
       ~> wait = "gone" \/ "execution_status" \in dropped

================================================================================
