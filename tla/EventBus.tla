-------------------------------- MODULE EventBus --------------------------------
(***************************************************************************)
(* The event bus (src/internal/engine/events.go): channels per execution,  *)
(* published to by the goroutines of the engine and read by those of the   *)
(* WebSocket handler and of a waiting webhook.                             *)
(*                                                                         *)
(* Subscribe, Unsubscribe and Cleanup hold the write lock from their first *)
(* line to their last and are one step each; Publish holds the read lock   *)
(* only, so several run at once, one send at a time.  Receiving takes no   *)
(* lock at all.  A send on a closed channel, or a second close, ends the   *)
(* process.                                                                *)
(***************************************************************************)
EXTENDS Integers, Sequences, FiniteSets

CONSTANTS Executions, Publishers, Channels,
          Capacity,   \* of a channel: 64 in the code
          MaxEvents   \* bound: events published by each publisher

ASSUME CapacityAssumption == Capacity \in Nat \ {0}
ASSUME MaxEventsAssumption == MaxEvents \in Nat

VARIABLES
    subscribers,  \* per execution, the registered channels
    buffer,       \* what a channel holds, oldest first
    closed,       \* channels that were closed
    client,       \* per channel: "new", "open" or "gone"
    topic,        \* the execution a channel was made for
    pub,          \* per publisher: "idle" or "sending", with the read lock
    about,        \* the execution a publisher publishes about
    targets,      \* channels a publisher has still to send to
    num,          \* events a publisher has published
    panicked,
    \* History, for the properties only:
    taken,        \* events received from a channel
    dropped,      \* events a channel was too full for
    audience      \* the clients there when the current publish began

busVars == <<subscribers, closed, client, topic>>
pubVars == <<pub, about, targets, num, audience>>
vars == <<busVars, pubVars, buffer, panicked, taken, dropped>>

Event == [from : Publishers, n : 0 .. MaxEvents]

Init ==
    /\ subscribers = [e \in Executions |-> {}]
    /\ buffer = [c \in Channels |-> <<>>]
    /\ closed = {}
    /\ client = [c \in Channels |-> "new"]
    /\ topic \in [Channels -> Executions]
    /\ pub = [p \in Publishers |-> "idle"]
    /\ about \in [Publishers -> Executions]
    /\ targets = [p \in Publishers |-> {}]
    /\ num = [p \in Publishers |-> 0]
    /\ panicked = FALSE
    /\ taken = [c \in Channels |-> {}]
    /\ dropped = [c \in Channels |-> {}]
    /\ audience = [p \in Publishers |-> {}]

--------------------------------------------------------------------------------
\* Mutant: the lock is not taken.
Exclusive_Unlocked == TRUE

\* The write lock excludes every publisher that holds the read lock.
Exclusive == \A p \in Publishers : pub[p] = "idle"

Registered(e, c) == [subscribers EXCEPT ![e] = @ \cup {c}]

Subscribe(c) ==
    /\ client[c] = "new"
    /\ Exclusive
    /\ client' = [client EXCEPT ![c] = "open"]
    /\ subscribers' = Registered(topic[c], c)
    /\ UNCHANGED <<closed, topic, pubVars, buffer, panicked, taken, dropped>>

\* Mutant: the list of the execution is deleted with its first channel.
Removed_All(e, c) == [subscribers EXCEPT ![e] = {}]

Removed(e, c) == [subscribers EXCEPT ![e] = @ \ {c}]

\* A channel that is not registered any more (after Cleanup) is not closed.
Unsubscribe(c) ==
    /\ client[c] = "open"
    /\ Exclusive
    /\ client' = [client EXCEPT ![c] = "gone"]
    /\ IF c \in subscribers[topic[c]]
       THEN /\ subscribers' = Removed(topic[c], c)
            /\ closed' = closed \cup {c}
            /\ panicked' = (panicked \/ c \in closed)
       ELSE UNCHANGED <<subscribers, closed, panicked>>
    /\ UNCHANGED <<topic, pubVars, buffer, taken, dropped>>

Emptied(e) == [subscribers EXCEPT ![e] = {}]

Cleanup(e) ==
    /\ Exclusive
    /\ subscribers[e] # {}
    /\ subscribers' = Emptied(e)
    /\ closed' = closed \cup subscribers[e]
    /\ panicked' = (panicked \/ subscribers[e] \cap closed # {})
    /\ UNCHANGED <<client, topic, pubVars, buffer, taken, dropped>>

--------------------------------------------------------------------------------
BeginPublish(p) ==
    /\ pub[p] = "idle"
    /\ num[p] < MaxEvents
    /\ pub' = [pub EXCEPT ![p] = "sending"]
    /\ \E e \in Executions :
          /\ about' = [about EXCEPT ![p] = e]
          /\ targets' = [targets EXCEPT ![p] = subscribers[e]]
          /\ audience' = [audience EXCEPT ![p] =
                            {c \in Channels \ closed : client[c] = "open" /\ topic[c] = e}]
    /\ UNCHANGED <<busVars, num, buffer, panicked, taken, dropped>>

Current(p) == [from |-> p, n |-> num[p]]

\* Mutant: the loop does not move on.
Rest_Again(p, c) == targets[p]

HasRoom(c) == Len(buffer[c]) < Capacity

Rest(p, c) == targets[p] \ {c}

\* Mutant: the send waits until the reader has made room.
Send_Blocking(p, c) ==
    /\ c \in targets[p]
    /\ HasRoom(c)
    /\ targets' = [targets EXCEPT ![p] = Rest(p, c)]
    /\ buffer' = [buffer EXCEPT ![c] = Append(@, Current(p))]
    /\ UNCHANGED <<busVars, pub, about, num, audience, taken, dropped, panicked>>

\* One turn of the loop: select with a default.
Send(p, c) ==
    /\ c \in targets[p]
    /\ targets' = [targets EXCEPT ![p] = Rest(p, c)]
    /\ \/ c \in closed
          /\ panicked' = TRUE /\ UNCHANGED <<buffer, dropped>>
       \/ c \notin closed /\ HasRoom(c)
          /\ buffer' = [buffer EXCEPT ![c] = Append(@, Current(p))]
          /\ UNCHANGED <<panicked, dropped>>
       \/ c \notin closed /\ ~HasRoom(c)
          /\ dropped' = [dropped EXCEPT ![c] = @ \cup {Current(p)}]
          /\ UNCHANGED <<panicked, buffer>>
    /\ UNCHANGED <<busVars, pub, about, num, audience, taken>>

EndPublish(p) ==
    /\ pub[p] = "sending"
    /\ targets[p] = {}
    /\ pub' = [pub EXCEPT ![p] = "idle"]
    /\ num' = [num EXCEPT ![p] = @ + 1]
    /\ UNCHANGED <<busVars, about, targets, audience, buffer, panicked, taken, dropped>>

\* A closed channel is drained before it reports that it is closed.
Receive(c) ==
    /\ client[c] = "open"
    /\ buffer[c] # <<>>
    /\ taken' = [taken EXCEPT ![c] = @ \cup {Head(buffer[c])}]
    /\ buffer' = [buffer EXCEPT ![c] = Tail(@)]
    /\ UNCHANGED <<busVars, pubVars, panicked, dropped>>

PublishStep(p) == EndPublish(p) \/ \E c \in Channels : Send(p, c)

Next ==
    \/ \E c \in Channels : Subscribe(c) \/ Unsubscribe(c) \/ Receive(c)
    \/ \E e \in Executions : Cleanup(e)
    \/ \E p \in Publishers : BeginPublish(p) \/ PublishStep(p)

Spec == Init /\ [][Next]_vars

\* Only the publisher itself is assumed to be scheduled: no reader has to be.
FairSpec == Spec /\ \A p \in Publishers : WF_vars(PublishStep(p))

--------------------------------------------------------------------------------
\* Every variable has its type and no channel holds more than its capacity.
TypeOK ==
    /\ subscribers \in [Executions -> SUBSET Channels]
    /\ buffer \in [Channels -> Seq(Event)]
    /\ \A c \in Channels : Len(buffer[c]) <= Capacity
    /\ closed \subseteq Channels
    /\ client \in [Channels -> {"new", "open", "gone"}]
    /\ topic \in [Channels -> Executions]
    /\ pub \in [Publishers -> {"idle", "sending"}]
    /\ about \in [Publishers -> Executions]
    /\ targets \in [Publishers -> SUBSET Channels]
    /\ num \in [Publishers -> 0 .. MaxEvents]
    /\ panicked \in BOOLEAN
    /\ taken \in [Channels -> SUBSET Event]
    /\ dropped \in [Channels -> SUBSET Event]
    /\ audience \in [Publishers -> SUBSET Channels]

\* No goroutine sends on a closed channel and none is closed twice, however
\* publishes, unsubscribes and cleanups interleave.
NeverPanics == ~panicked

\* A publish reaches everyone: when its loop has ended, each client that was
\* subscribed when it began has the event, or its channel was full.
EveryoneServed ==
    \A p \in Publishers : pub[p] = "sending" /\ targets[p] = {} =>
       \A c \in audience[p] :
          \/ Current(p) \in taken[c] \cup dropped[c]
          \/ \E i \in 1 .. Len(buffer[c]) : buffer[c][i] = Current(p)

--------------------------------------------------------------------------------
\* A channel seen as a feed.
Feed(c) == INSTANCE EventFeed WITH
              feed <- IF client[c] = "new" THEN "new"
                      ELSE IF c \in closed THEN "closed" ELSE "open",
              buffer <- buffer[c],
              taken <- taken[c]

\* A step is a step of the feed of every channel, or changes nothing of it.
FeedStep(c) == Feed(c)!Next \/ UNCHANGED Feed(c)!feedVars

\* Each channel is a feed: open once, bounded, in the order of each publisher,
\* without a duplicate, and silent once it is closed.
KeepsFeeds == /\ \A c \in Channels : Feed(c)!Init
              /\ [][\A c \in Channels : FeedStep(c)]_vars

\* A slow reader never holds a publisher up: every publish that has begun ends,
\* even if nobody ever receives.
NeverBlocked == \A p \in Publishers : pub[p] = "sending" ~> pub[p] = "idle"

================================================================================
