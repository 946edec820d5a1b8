------------------------------ MODULE LiveUpdates ------------------------------
(***************************************************************************)
(* The live view of an execution: WSHandler.Handle, the connection and the *)
(* hook useExecutionWS with the state it keeps for its page                *)
(* (src/internal/engine/ws_handler.go, web/src/hooks/useExecutionWS.ts),   *)
(* beside the engine that runs the execution.                              *)
(*                                                                         *)
(* The handler subscribes, reads the state so far from the database (two   *)
(* queries: the execution, then its steps), replays it and then forwards   *)
(* what the channel brings.  What was published meanwhile is therefore     *)
(* seen twice, and older than what was replayed.                           *)
(***************************************************************************)
EXTENDS ExecutionEvents, SequencesExt

CONSTANT MaxBroken  \* bound: connections that break, 0 or 1

ASSUME StepsAssumption == IsFiniteSet(Steps)

VARIABLES
    handler,   \* the stage the handler is at
    seenExec,  \* the status of the execution it has read
    seenRows,  \* the statuses of the steps it has read
    net,       \* "up", "closing" by the handler after what is on the wire, "cut" or "broken"
    wire,      \* messages under way to the browser
    page,      \* "open", "error" (onerror was called), "polling", "closed" or "left"
    shown,     \* executionStatus in the page
    view       \* stepStatuses in the page

handlerVars == <<handler, seenExec, seenRows>>
pageVars == <<page, shown, view>>
liveVars == <<handlerVars, net, wire, pageVars>>
vars == <<engineVars, lost, channelVars, liveVars>>

\* Mutants: the subscription comes after the state was read; the steps are read
\* before the execution.
Order_ListenLast == <<"execution", "steps", "subscribe", "replay", "stream">>
Order_StepsFirst == <<"subscribe", "steps", "execution", "replay", "stream">>

\* The stages of Handle.
Order == <<"subscribe", "execution", "steps", "replay", "stream">>

Init ==
    /\ FeedInit
    /\ handler = Order[1]
    /\ seenExec = "none" /\ seenRows = [s \in Steps |-> "none"]
    /\ net = "up" /\ wire = <<>>
    /\ page = "open" /\ shown = "none" /\ view = [s \in Steps |-> "none"]

--------------------------------------------------------------------------------
(***************************************************************************)
(* The handler.                                                            *)
(***************************************************************************)
\* The stage after h, the handler starting with the first one.
After(h) == Order[CHOOSE i \in 2 .. Len(Order) : Order[i - 1] = h]

Stage(h) == handler = h /\ handler' = After(h)

Listen ==
    /\ Stage("subscribe")
    /\ Subscribe
    /\ UNCHANGED <<engineVars, lost, seenExec, seenRows, net, wire, pageVars>>

ReadExecution ==
    /\ Stage("execution")
    /\ seenExec' = execRow
    /\ UNCHANGED <<engineVars, lost, channelVars, seenRows, net, wire, pageVars>>

ReadSteps ==
    /\ Stage("steps")
    /\ seenRows' = row
    /\ UNCHANGED <<engineVars, lost, channelVars, seenExec, net, wire, pageVars>>

\* If either query fails nothing is replayed.
ReadFails ==
    /\ handler \in {"execution", "steps"}
    /\ AccessFails
    /\ handler' = "stream"
    /\ UNCHANGED <<engineVars, channelVars, seenExec, seenRows, net, wire, pageVars>>

Sent(msgs) == IF net = "up" THEN wire \o msgs ELSE wire

Replayed == [i \in 1 .. Cardinality(Steps) |->
               StepEvent(SetToSeq(Steps)[i], seenRows[SetToSeq(Steps)[i]])]

\* One message per step and, if the execution was over, its status: the handler
\* returns, which unsubscribes and closes the connection.  The results of these
\* writes are not looked at.
Replay ==
    /\ handler = "replay"
    /\ IF seenExec \in Outcomes
       THEN /\ wire' = Sent(Append(Replayed, ExecutionEvent(seenExec)))
            /\ net' = IF net = "up" THEN "closing" ELSE net
            /\ handler' = "returned"
            /\ Unsubscribe
       ELSE /\ wire' = Sent(Replayed)
            /\ handler' = "stream"
            /\ UNCHANGED <<net, channelVars>>
    /\ UNCHANGED <<engineVars, lost, seenExec, seenRows, pageVars>>

\* A write on a connection that is gone fails, and the handler returns.
Forward ==
    /\ handler = "stream"
    /\ buffer # <<>>
    /\ buffer' = Tail(buffer)
    /\ IF net = "up"
       THEN wire' = Append(wire, Head(buffer)) /\ UNCHANGED <<handler, channel>>
       ELSE handler' = "returned" /\ channel' = "closed" /\ UNCHANGED wire
    /\ UNCHANGED <<engineVars, lost, dropped, seenExec, seenRows, net, pageVars>>

Handler == Listen \/ ReadExecution \/ ReadSteps \/ Replay \/ Forward

--------------------------------------------------------------------------------
(***************************************************************************)
(* The connection and the page.                                            *)
(***************************************************************************)
Terminal(st) == st \in Outcomes

\* Mutant: the status of a step is taken for that of the execution.
ShowsStatus_AnyType(e) == e.status \in {"running"} \cup Outcomes

ShowsStatus(e) == e.type = "execution_status"

OnMessage ==
    /\ page = "open"
    /\ wire # <<>>
    /\ wire' = Tail(wire)
    /\ LET e == Head(wire) IN
         /\ view' = IF e.type = "step_status" THEN [view EXCEPT ![e.step] = e.status] ELSE view
         /\ shown' = IF ShowsStatus(e) THEN e.status ELSE shown
    /\ UNCHANGED <<engineVars, lost, channelVars, handlerVars, net, page>>

\* The connection is lost, or something between the two ends closes it in order.
Break ==
    /\ MaxBroken > 0
    /\ net = "up" /\ page = "open"
    /\ net' \in {"broken", "cut"}
    /\ wire' \in {SubSeq(wire, 1, k) : k \in 0 .. Len(wire)}
    /\ UNCHANGED <<engineVars, lost, channelVars, handlerVars, pageVars>>

\* The browser calls onerror before onclose for a connection that broke.
OnError ==
    /\ page = "open"
    /\ net = "broken" /\ wire = <<>>
    /\ page' = "error"
    /\ shown' = "failed"
    /\ UNCHANGED <<engineVars, lost, channelVars, handlerVars, net, wire, view>>

OnClose ==
    /\ \/ page = "error"
       \/ page = "open" /\ net \in {"closing", "cut"} /\ wire = <<>>
    /\ page' = IF Terminal(shown) THEN "closed" ELSE "polling"
    /\ UNCHANGED <<engineVars, lost, channelVars, handlerVars, net, wire, shown, view>>

\* The answer of GET /v1/executions/{id}: a request that fails counts as failed, an
\* error of the server, which has no status, changes nothing.
Poll ==
    /\ page = "polling"
    /\ page' = "closed"
    /\ shown' \in {execRow, "failed", shown}
    /\ UNCHANGED <<engineVars, lost, channelVars, handlerVars, net, wire, view>>

\* The user leaves the page.
LeavePage ==
    /\ page = "open" /\ net = "up" /\ MaxBroken > 0
    /\ page' = "left"
    /\ net' = "broken" /\ wire' = <<>>
    /\ UNCHANGED <<engineVars, lost, channelVars, handlerVars, shown, view>>

Page == OnMessage \/ OnError \/ OnClose \/ Poll

Next == \/ Engine /\ UNCHANGED liveVars
        \/ Handler \/ ReadFails
        \/ Page \/ Break \/ LeavePage

Spec == Init /\ [][Next]_vars

\* The goroutine of the connection and the browser's event loop are scheduled and the
\* network delivers what it carries; nothing is assumed of the engine.
FairSpec == Spec /\ WF_vars(Handler) /\ WF_vars(Page)

--------------------------------------------------------------------------------
\* Every variable has its type, and only a handler that listens has a channel.
TypeOK ==
    /\ FeedTypeOK
    /\ handler \in {"subscribe", "execution", "steps", "replay", "stream", "returned"}
    /\ (channel = "open") = (handler \in {"execution", "steps", "replay", "stream"})
    /\ seenExec \in {"none", "running"} \cup Outcomes
    /\ seenRows \in [Steps -> {"none"} \cup StepStatus]
    /\ net \in {"up", "closing", "cut", "broken"}
    /\ page \in {"open", "error", "polling", "closed", "left"}
    /\ shown \in {"none", "running"} \cup Outcomes
    /\ view \in [Steps -> {"none"} \cup StepStatus]

\* Everything that was published has arrived in a page that is still there.
Quiet == /\ announced # "none" /\ wire = <<>>
         /\ page = "open"
         /\ \/ handler = "stream" /\ buffer = <<>>
            \/ handler = "returned"
         /\ net \in {"up", "closing"}

\* Replay and stream together miss nothing: whenever the page connects, and
\* however writes, events and the two queries interleave, it ends with the
\* status of every step and of the execution, if its channel had room for them.
ViewConverges ==
    Quiet /\ lost = 0 /\ dropped \subseteq {"step_log"} =>
       /\ shown = announced
       /\ \A s \in Steps : IF phase[s] = "pending" THEN view[s] \in {"none", "pending"}
                           ELSE view[s] = phase[s]

\* The page never shows an outcome that the execution does not have, unless its
\* connection broke or its request failed.
ShowsNoOtherOutcome ==
    Terminal(shown) /\ page = "open" => shown = outcome

\* Once the outcome is announced, a page that is not left is shown one, unless its
\* channel had no room for it, an access to the database failed, or its connection was
\* cut: it asks only once then, and may be told that the execution is running.
OutcomeShown ==
    announced # "none" ~>
       \/ Terminal(shown) \/ page = "left"
       \/ net = "cut" \/ lost > 0 \/ "execution_status" \in dropped

================================================================================
