----------------------------- MODULE EventBusProofs -----------------------------
(***************************************************************************)
(* What the event bus guarantees for any number of executions, publishers  *)
(* and channels, and any capacity.                                         *)
(***************************************************************************)
EXTENDS EventBus, TLAPS

--------------------------------------------------------------------------------
(***************************************************************************)
(* The inductive invariant.  NeverPanics needs that nobody who could be    *)
(* sent to is closed: a channel is registered exactly while it is open,    *)
(* and a publisher under way sends to registered channels only, because    *)
(* the write lock waits for it.                                            *)
(***************************************************************************)
RegisteredInv ==
    /\ \A e \in Executions : \A c \in subscribers[e] :
          client[c] = "open" /\ topic[c] = e /\ c \notin closed
    /\ \A c \in Channels :
          /\ client[c] = "open" /\ c \notin closed => c \in subscribers[topic[c]]
          /\ client[c] = "new" => c \notin closed /\ buffer[c] = <<>> /\ taken[c] = {}
          /\ client[c] = "gone" => c \in closed

TargetsInv ==
    \A p \in Publishers :
       /\ targets[p] \subseteq subscribers[about[p]]
       /\ pub[p] = "idle" => targets[p] = {}
       /\ pub[p] = "sending" => num[p] < MaxEvents

\* What is in a channel or was taken from it.
In(c) == taken[c] \cup {buffer[c][i] : i \in 1 .. Len(buffer[c])}

ServedInv ==
    \A p \in Publishers : pub[p] = "sending" =>
       \A c \in audience[p] : c \in targets[p] \/ Current(p) \in In(c) \cup dropped[c]

\* The events of a publisher come in the order it counts them, and its current
\* event is in no channel that it has still to send to.
OrderInv ==
    \A c \in Channels : \A e \in In(c) :
       \/ e.n < num[e.from]
       \/ e.n = num[e.from] /\ pub[e.from] = "sending" /\ c \notin targets[e.from]

IInv == TypeOK /\ RegisteredInv /\ TargetsInv /\ ServedInv /\ OrderInv /\ NeverPanics

--------------------------------------------------------------------------------
\* Receiving moves an event, sending adds one.
LEMMA InAfterReceive ==
    ASSUME TypeOK, NEW c \in Channels, Receive(c), NEW d \in Channels
    PROVE  In(d)' = In(d)
  <1>1. CASE d = c
    <2>1. /\ buffer[c] \in Seq(Event) /\ buffer[c] # <<>>
          /\ buffer'[c] = Tail(buffer[c])
          /\ taken'[c] = taken[c] \cup {Head(buffer[c])}
      BY DEF TypeOK, Receive
    <2>2. /\ Len(buffer[c]) \in Nat /\ Len(buffer[c]) >= 1
          /\ Len(buffer'[c]) = Len(buffer[c]) - 1
          /\ \A i \in 1 .. Len(buffer'[c]) : buffer'[c][i] = buffer[c][i + 1]
          /\ Head(buffer[c]) = buffer[c][1]
      BY <2>1
    <2>3. \A i \in 1 .. Len(buffer[c]) : i = 1 \/ i - 1 \in 1 .. Len(buffer'[c])
      BY <2>2
    <2>4. \A i \in 1 .. Len(buffer[c]) : buffer[c][i] \in In(c)'
      <3> TAKE i \in 1 .. Len(buffer[c])
      <3>1. CASE i = 1
        BY <2>1, <2>2, <3>1 DEF In
      <3>2. CASE i # 1
        <4>1. /\ i - 1 \in 1 .. Len(buffer'[c])
              /\ buffer'[c][i - 1] = buffer[c][i]
          BY <2>2, <2>3, <3>2
        <4> QED
          BY <4>1 DEF In
      <3> QED
        BY <3>1, <3>2
    <2>5. \A i \in 1 .. Len(buffer'[c]) : buffer'[c][i] \in In(c)
      <3> TAKE i \in 1 .. Len(buffer'[c])
      <3>1. i + 1 \in 1 .. Len(buffer[c]) /\ buffer'[c][i] = buffer[c][i + 1]
        BY <2>2
      <3> QED
        BY <3>1 DEF In
    <2>6. Head(buffer[c]) \in In(c)
      BY <2>2 DEF In
    <2> QED
      BY <1>1, <2>1, <2>4, <2>5, <2>6 DEF In
  <1>2. CASE d # c
    BY <1>2 DEF TypeOK, Receive, In
  <1> QED
    BY <1>1, <1>2

\* A send puts its event into its channel, or counts it as dropped, and changes no other.
LEMMA InAfterSend ==
    ASSUME TypeOK, NeverPanics', NEW p \in Publishers, NEW c \in Channels, Send(p, c),
           NEW d \in Channels
    PROVE  /\ d # c => In(d)' = In(d)
           /\ \/ In(c)' = In(c) \cup {Current(p)} /\ UNCHANGED dropped
              \/ In(c)' = In(c) /\ Current(p) \in dropped'[c]
  <1>1. d # c => In(d)' = In(d)
    BY DEF TypeOK, Send, In
  <1>2. CASE buffer' = [buffer EXCEPT ![c] = Append(@, Current(p))] /\ UNCHANGED dropped
    <2>1. /\ buffer[c] \in Seq(Event)
          /\ buffer'[c] = Append(buffer[c], Current(p))
          /\ taken'[c] = taken[c]
      BY <1>2 DEF TypeOK, Send
    <2>2. /\ Len(buffer[c]) \in Nat
          /\ Len(buffer'[c]) = Len(buffer[c]) + 1
          /\ \A i \in 1 .. Len(buffer[c]) : buffer'[c][i] = buffer[c][i]
          /\ buffer'[c][Len(buffer[c]) + 1] = Current(p)
      BY <2>1
    <2>3. \A i \in 1 .. Len(buffer'[c]) :
             i \in 1 .. Len(buffer[c]) \/ i = Len(buffer[c]) + 1
      BY <2>2
    <2>4. In(c)' \subseteq In(c) \cup {Current(p)}
      BY <2>1, <2>2, <2>3 DEF In
    <2>5. Len(buffer[c]) + 1 \in 1 .. Len(buffer'[c])
      BY <2>2
    <2>6. \A i \in 1 .. Len(buffer[c]) : i \in 1 .. Len(buffer'[c])
      BY <2>2
    <2>7. In(c) \cup {Current(p)} \subseteq In(c)'
      BY <2>1, <2>2, <2>5, <2>6 DEF In
    <2> QED
      BY <1>1, <1>2, <2>4, <2>7
  <1>3. CASE UNCHANGED buffer /\ Current(p) \in dropped'[c]
    BY <1>1, <1>3 DEF Send, In
  <1> QED
    BY <1>1, <1>2, <1>3 DEF Send, NeverPanics, TypeOK

--------------------------------------------------------------------------------
\* An empty bus satisfies the invariant.
LEMMA InitInvariant == Init => IInv
  <1> SUFFICES ASSUME Init PROVE IInv
    OBVIOUS
  <1>1. TypeOK
    <2>1. panicked \in BOOLEAN
      BY DEF Init
    <2>2. buffer \in [Channels -> Seq(Event)] /\ \A c \in Channels : Len(buffer[c]) <= Capacity
      BY CapacityAssumption DEF Init
    <2>3. num \in [Publishers -> 0 .. MaxEvents]
      BY MaxEventsAssumption DEF Init
    <2> QED
      BY <2>1, <2>2, <2>3 DEF Init, TypeOK
  <1> QED
    BY <1>1 DEF Init, IInv, RegisteredInv, TargetsInv, ServedInv, OrderInv, NeverPanics, In

\* Every step of the bus keeps the types, given that sends go to known channels.
LEMMA TypeInvariant == TypeOK /\ TargetsInv /\ [Next]_vars => TypeOK'
  <1> SUFFICES ASSUME TypeOK, TargetsInv, [Next]_vars PROVE TypeOK'
    OBVIOUS
  <1> USE CapacityAssumption, MaxEventsAssumption
  <1>1. ASSUME NEW c \in Channels, Subscribe(c) PROVE TypeOK'
    BY <1>1 DEF TypeOK, Subscribe, Registered, pubVars
  <1>2. ASSUME NEW c \in Channels, Unsubscribe(c) PROVE TypeOK'
    <2>1. /\ subscribers' \in [Executions -> SUBSET Channels]
          /\ closed' \subseteq Channels
          /\ panicked' \in BOOLEAN
      <3>1. CASE c \in subscribers[topic[c]]
        <4>1. /\ subscribers' = Removed(topic[c], c) /\ closed' = closed \cup {c}
              /\ panicked' = (panicked \/ c \in closed)
          BY <1>2, <3>1 DEF Unsubscribe
        <4>2. (panicked \/ c \in closed) \in BOOLEAN
          OBVIOUS
        <4> QED
          BY <4>1, <4>2 DEF TypeOK, Removed
      <3>2. CASE c \notin subscribers[topic[c]]
        BY <1>2, <3>2 DEF TypeOK, Unsubscribe
      <3> QED
        BY <3>1, <3>2
    <2>2. client' \in [Channels -> {"new", "open", "gone"}]
      BY <1>2 DEF TypeOK, Unsubscribe
    <2> QED
      BY <1>2, <2>1, <2>2 DEF TypeOK, Unsubscribe, pubVars
  <1>3. ASSUME NEW c \in Channels, Receive(c) PROVE TypeOK'
    <2>1. /\ buffer[c] \in Seq(Event) /\ buffer[c] # <<>> /\ Len(buffer[c]) <= Capacity
          /\ buffer' = [buffer EXCEPT ![c] = Tail(@)]
      BY <1>3 DEF TypeOK, Receive
    <2>2. /\ Tail(buffer[c]) \in Seq(Event) /\ Len(Tail(buffer[c])) <= Capacity
          /\ Head(buffer[c]) \in Event
      BY <2>1
    <2>3. buffer' \in [Channels -> Seq(Event)] /\ \A d \in Channels : Len(buffer'[d]) <= Capacity
      BY <2>1, <2>2 DEF TypeOK
    <2>4. taken' \in [Channels -> SUBSET Event]
      BY <1>3, <2>2 DEF TypeOK, Receive
    <2> QED
      BY <1>3, <2>3, <2>4 DEF TypeOK, Receive, busVars, pubVars
  <1>4. ASSUME NEW e \in Executions, Cleanup(e) PROVE TypeOK'
    BY <1>4 DEF TypeOK, Cleanup, Emptied, pubVars
  <1>5. ASSUME NEW p \in Publishers, BeginPublish(p) PROVE TypeOK'
    BY <1>5 DEF TypeOK, BeginPublish, busVars
  <1>6. ASSUME NEW p \in Publishers, NEW c \in Channels, Send(p, c) PROVE TypeOK'
    <2>1. Current(p) \in Event
      BY DEF TypeOK, Current, Event
    <2>2. \A d \in Channels : Len(buffer'[d]) <= Capacity /\ buffer'[d] \in Seq(Event)
      <3> TAKE d \in Channels
      <3>1. CASE d = c /\ HasRoom(c) /\ buffer' = [buffer EXCEPT ![c] = Append(@, Current(p))]
        <4>1. buffer[c] \in Seq(Event) /\ buffer'[c] = Append(buffer[c], Current(p))
          BY <3>1 DEF TypeOK
        <4> QED
          BY <2>1, <3>1, <4>1 DEF HasRoom
      <3> QED
        BY <1>6, <3>1 DEF TypeOK, Send
    <2>3. buffer' \in [Channels -> Seq(Event)]
      BY <1>6, <2>2 DEF TypeOK, Send
    <2>4. dropped' \in [Channels -> SUBSET Event] /\ panicked' \in BOOLEAN
      <3>1. \/ UNCHANGED dropped
            \/ dropped' = [dropped EXCEPT ![c] = @ \cup {Current(p)}]
        BY <1>6 DEF Send
      <3>2. dropped' \in [Channels -> SUBSET Event]
        <4> DEFINE D == dropped[c] \cup {Current(p)}
        <4>1. dropped \in [Channels -> SUBSET Event] /\ D \in SUBSET Event
          BY <2>1 DEF TypeOK
        <4>2. dropped' = dropped \/ dropped' = [dropped EXCEPT ![c] = D]
          BY <3>1
        <4> HIDE DEF D
        <4> QED
          BY <4>1, <4>2
      <3>3. panicked' = TRUE \/ UNCHANGED panicked
        BY <1>6 DEF Send
      <3>4. panicked' \in BOOLEAN
        BY <3>3, Zenon DEF TypeOK
      <3> QED
        BY <3>2, <3>4
    <2> QED
      BY <1>6, <2>2, <2>3, <2>4 DEF TypeOK, Send, Rest, busVars
  <1>7. ASSUME NEW p \in Publishers, EndPublish(p) PROVE TypeOK'
    BY <1>7 DEF TypeOK, TargetsInv, EndPublish, busVars
  <1>8. CASE UNCHANGED vars
    BY <1>8 DEF TypeOK, vars, busVars, pubVars
  <1> QED
    BY <1>1, <1>2, <1>3, <1>4, <1>5, <1>6, <1>7, <1>8 DEF Next, PublishStep

(***************************************************************************)
(* The rest of the invariant, one step per action.                         *)
(***************************************************************************)
\* Every step of the bus keeps the invariant.
LEMMA NextInvariant == IInv /\ [Next]_vars => IInv'
  <1> SUFFICES ASSUME IInv, [Next]_vars PROVE IInv'
    OBVIOUS
  <1> USE DEF IInv
  <1>0. TypeOK'
    BY TypeInvariant
  <1>1. ASSUME NEW c \in Channels, Subscribe(c) PROVE IInv'
    <2> USE <1>1 DEF Subscribe, Registered, pubVars
    <2>1. RegisteredInv'
      BY DEF TypeOK, RegisteredInv
    <2>2. TargetsInv'
      BY DEF TypeOK, TargetsInv
    <2>3. ServedInv'
      BY DEF ServedInv, In, Current
    <2>4. OrderInv'
      BY DEF OrderInv, In
    <2> QED
      BY <1>0, <2>1, <2>2, <2>3, <2>4 DEF NeverPanics
  <1>2. ASSUME NEW c \in Channels, Unsubscribe(c) PROVE IInv'
    <2> USE <1>2 DEF Unsubscribe, Removed, pubVars
    <2>0. /\ c \in subscribers[topic[c]] \/ c \in closed
          /\ topic[c] \in Executions /\ client' = [client EXCEPT ![c] = "gone"]
          /\ UNCHANGED <<topic, buffer, taken>>
      BY DEF TypeOK, RegisteredInv
    <2>1. RegisteredInv'
      <3>1. CASE c \in subscribers[topic[c]]
        <4>1. /\ subscribers' = [subscribers EXCEPT ![topic[c]] = @ \ {c}]
              /\ closed' = closed \cup {c}
          BY <3>1
        <4>2. \A e \in Executions : \A d \in subscribers'[e] :
                 d \in subscribers[e] /\ d # c
          BY <2>0, <4>1 DEF TypeOK, RegisteredInv
        <4>3. \A d \in Channels \ {c} : d \in subscribers[topic[d]] => d \in subscribers'[topic[d]]
          BY <4>1 DEF TypeOK
        <4> QED
          BY <2>0, <4>1, <4>2, <4>3 DEF TypeOK, RegisteredInv
      <3>2. CASE c \notin subscribers[topic[c]]
        <4>1. UNCHANGED <<subscribers, closed>>
          BY <3>2
        <4> QED
          BY <2>0, <3>2, <4>1 DEF TypeOK, RegisteredInv
      <3> QED
        BY <3>1, <3>2
    <2>2. TargetsInv'
      BY DEF TypeOK, TargetsInv, Exclusive
    <2>3. ServedInv'
      BY DEF ServedInv, In, Current
    <2>4. OrderInv'
      BY DEF OrderInv, In
    <2>5. NeverPanics'
      BY DEF NeverPanics, RegisteredInv, TypeOK
    <2> QED
      BY <1>0, <2>1, <2>2, <2>3, <2>4, <2>5
  <1>3. ASSUME NEW c \in Channels, Receive(c) PROVE IInv'
    <2> USE <1>3 DEF Receive, busVars, pubVars
    <2>0. \A d \in Channels : In(d)' = In(d)
      BY InAfterReceive
    <2>1. RegisteredInv'
      BY DEF TypeOK, RegisteredInv
    <2>2. TargetsInv'
      BY DEF TargetsInv
    <2>3. ServedInv'
      BY <2>0 DEF ServedInv, Current, TypeOK
    <2>4. OrderInv'
      BY <2>0 DEF OrderInv
    <2> QED
      BY <1>0, <2>1, <2>2, <2>3, <2>4 DEF NeverPanics
  <1>4. ASSUME NEW e \in Executions, Cleanup(e) PROVE IInv'
    <2> USE <1>4 DEF Cleanup, Emptied, pubVars
    <2>1. RegisteredInv'
      BY DEF TypeOK, RegisteredInv
    <2>2. TargetsInv'
      BY DEF TypeOK, TargetsInv, Exclusive
    <2>3. ServedInv'
      BY DEF ServedInv, In, Current
    <2>4. OrderInv'
      BY DEF OrderInv, In
    <2>5. NeverPanics'
      BY DEF NeverPanics, RegisteredInv, TypeOK
    <2> QED
      BY <1>0, <2>1, <2>2, <2>3, <2>4, <2>5
  <1>5. ASSUME NEW p \in Publishers, BeginPublish(p) PROVE IInv'
    <2> USE <1>5 DEF BeginPublish, busVars
    <2>1. RegisteredInv'
      BY DEF RegisteredInv
    <2>2. TargetsInv'
      BY DEF TypeOK, TargetsInv
    <2>3. ServedInv'
      BY DEF TypeOK, ServedInv, RegisteredInv, In, Current
    <2>4. OrderInv'
      BY DEF TypeOK, OrderInv, In
    <2> QED
      BY <1>0, <2>1, <2>2, <2>3, <2>4 DEF NeverPanics
  <1>6. ASSUME NEW p \in Publishers, NEW c \in Channels, Send(p, c) PROVE IInv'
    <2> USE <1>6
    <2>1. c \notin closed
      BY DEF Send, TypeOK, TargetsInv, RegisteredInv
    <2>2. NeverPanics'
      BY <2>1 DEF Send, NeverPanics
    <2>3. /\ \A d \in Channels \ {c} : In(d)' = In(d)
          /\ \/ In(c)' = In(c) \cup {Current(p)} /\ UNCHANGED dropped
             \/ In(c)' = In(c) /\ Current(p) \in dropped'[c]
      BY <2>2, InAfterSend
    <2>4. /\ targets' = [targets EXCEPT ![p] = @ \ {c}]
          /\ UNCHANGED <<busVars, pub, about, num, audience, taken>>
          /\ c \in targets[p]
      BY DEF Send, Rest
    <2>5. RegisteredInv'
      BY <2>1, <2>4 DEF Send, TypeOK, RegisteredInv, TargetsInv, busVars
    <2>6. TargetsInv'
      BY <2>4 DEF TypeOK, TargetsInv, busVars
    <2>7. ServedInv'
      <3> SUFFICES ASSUME NEW q \in Publishers, pub[q] = "sending", NEW d \in audience[q]
                   PROVE  d \in targets'[q] \/ Current(q) \in In(d)' \cup dropped'[d]
        BY <2>4 DEF ServedInv, Current
      <3>1. d \in Channels
        BY DEF TypeOK
      <3>2. d \in targets[q] \/ Current(q) \in In(d) \cup dropped[d]
        BY DEF ServedInv
      <3>3. dropped[d] \subseteq dropped'[d] /\ In(d) \subseteq In(d)'
        <4>1. dropped[d] \subseteq dropped'[d]
          BY <3>1 DEF Send, TypeOK
        <4>2. In(d) \subseteq In(d)'
          BY <2>3, <3>1
        <4> QED
          BY <4>1, <4>2
      <3>4. CASE d \in targets[q] /\ d \notin targets'[q]
        <4>1. q = p /\ d = c
          BY <2>4, <3>4 DEF TypeOK
        <4> QED
          BY <2>3, <4>1
      <3> QED
        BY <3>2, <3>3, <3>4
    <2>8. OrderInv'
      <3> SUFFICES ASSUME NEW d \in Channels, NEW e \in In(d)'
                   PROVE  \/ e.n < num[e.from]
                          \/ /\ e.n = num[e.from] /\ pub[e.from] = "sending"
                             /\ d \notin targets'[e.from]
        BY <2>4 DEF OrderInv
      <3>1. CASE e \in In(d)
        BY <2>4, <3>1 DEF OrderInv, TypeOK
      <3>2. CASE e = Current(p) /\ d = c
        <4>1. e.n = num[p] /\ e.from = p /\ pub[p] = "sending"
          BY <2>4, <3>2 DEF Current, TargetsInv, TypeOK
        <4> QED
          BY <2>4, <3>2, <4>1 DEF TypeOK
      <3> QED
        BY <2>3, <3>1, <3>2
    <2> QED
      BY <1>0, <2>2, <2>5, <2>6, <2>7, <2>8
  <1>7. ASSUME NEW p \in Publishers, EndPublish(p) PROVE IInv'
    <2> USE <1>7 DEF EndPublish, busVars
    <2>1. RegisteredInv'
      BY DEF RegisteredInv
    <2>2. TargetsInv'
      BY DEF TypeOK, TargetsInv
    <2>3. ServedInv'
      BY DEF TypeOK, ServedInv, In, Current
    <2>4. OrderInv'
      <3> SUFFICES ASSUME NEW d \in Channels, NEW e \in In(d)
                   PROVE  \/ e.n < num'[e.from]
                          \/ /\ e.n = num'[e.from] /\ pub'[e.from] = "sending"
                             /\ d \notin targets[e.from]
        BY DEF OrderInv, In
      <3>1. e \in Event
        BY DEF TypeOK, In
      <3>2. e.from \in Publishers /\ e.n \in Nat
        BY <3>1, MaxEventsAssumption DEF Event
      <3>3. num[p] \in Nat
        BY MaxEventsAssumption DEF TypeOK
      <3> QED
        BY <3>2, <3>3 DEF OrderInv, TypeOK
    <2> QED
      BY <1>0, <2>1, <2>2, <2>3, <2>4 DEF NeverPanics
  <1>8. CASE UNCHANGED vars
    <2> USE <1>8 DEF vars, busVars, pubVars
    <2>1. RegisteredInv' /\ TargetsInv' /\ NeverPanics'
      BY DEF RegisteredInv, TargetsInv, NeverPanics
    <2>2. ServedInv' /\ OrderInv'
      BY DEF ServedInv, OrderInv, In, Current
    <2> QED
      BY <1>0, <2>1, <2>2
  <1> QED
    BY <1>1, <1>2, <1>3, <1>4, <1>5, <1>6, <1>7, <1>8 DEF Next, PublishStep

\* The invariant holds in every reachable state of the bus.
LEMMA Invariance == Spec => []IInv
  <1>1. Init => IInv
    BY InitInvariant
  <1>2. IInv /\ [Next]_vars => IInv'
    BY NextInvariant
  <1> QED
    BY <1>1, <1>2, PTL DEF Spec

--------------------------------------------------------------------------------
\* The variables of the bus keep their types, and no channel exceeds its capacity.
THEOREM BusTypeCorrect == Spec => []TypeOK
  BY Invariance, PTL DEF IInv

\* No send on a closed channel and no second close (events.go, 47-98), for any
\* number of goroutines.
THEOREM NoPanic == Spec => []NeverPanics
  BY Invariance, PTL DEF IInv

\* Publish (events.go, 76-87) misses no subscriber but one whose channel is full.
THEOREM Served == Spec => []EveryoneServed
  <1>1. IInv => EveryoneServed
    BY DEF IInv, ServedInv, EveryoneServed, In
  <1> QED
    BY <1>1, Invariance, PTL

(***************************************************************************)
(* The bus implements EventFeed for each of its channels.                  *)
(***************************************************************************)
\* An empty bus is an initial state of every feed.
LEMMA FeedInit ==
    ASSUME Init, NEW c \in Channels
    PROVE  Feed(c)!Init
  BY DEF Init, Feed!Init

\* Every step of the bus is, for each channel, a step of EventFeed or none.
LEMMA FeedNext ==
    ASSUME IInv, IInv', [Next]_vars, NEW d \in Channels
    PROVE  FeedStep(d)
  <1> USE DEF IInv
  <1>1. ASSUME NEW c \in Channels, Subscribe(c) PROVE FeedStep(d)
    <2>1. CASE d = c
      <3>1. Feed(d)!Open
        BY <1>1, <2>1 DEF Subscribe, RegisteredInv, TypeOK, Feed!Open
      <3> QED
        BY <3>1 DEF FeedStep, Feed!Next
    <2>2. CASE d # c
      BY <1>1, <2>2 DEF Subscribe, TypeOK, FeedStep, Feed!feedVars
    <2> QED
      BY <2>1, <2>2
  <1>2. ASSUME NEW c \in Channels, Unsubscribe(c) PROVE FeedStep(d)
    <2>0. UNCHANGED <<buffer, taken>> /\ client' = [client EXCEPT ![c] = "gone"]
      BY <1>2 DEF Unsubscribe
    <2>1. CASE d = c /\ c \in subscribers[topic[c]]
      <3>1. c \notin closed /\ c \in closed' /\ client[c] = "open"
        BY <1>2, <2>1 DEF Unsubscribe, RegisteredInv, TypeOK
      <3>2. Feed(d)!Close
        BY <2>0, <2>1, <3>1 DEF TypeOK, Feed!Close
      <3> QED
        BY <3>2 DEF FeedStep, Feed!Next
    <2>2. CASE d = c /\ c \notin subscribers[topic[c]]
      <3>1. c \in closed /\ UNCHANGED closed /\ client[c] = "open"
        BY <1>2, <2>2 DEF Unsubscribe, RegisteredInv
      <3> QED
        BY <2>0, <2>2, <3>1 DEF TypeOK, FeedStep, Feed!feedVars
    <2>3. CASE d # c
      <3>1. (d \in closed' <=> d \in closed) /\ client'[d] = client[d]
        BY <1>2, <2>0, <2>3 DEF Unsubscribe, TypeOK
      <3> QED
        BY <2>0, <3>1 DEF FeedStep, Feed!feedVars
    <2> QED
      BY <2>1, <2>2, <2>3
  <1>3. ASSUME NEW c \in Channels, Receive(c) PROVE FeedStep(d)
    <2>1. CASE d = c
      <3>1. Feed(d)!Take
        BY <1>3, <2>1 DEF Receive, TypeOK, busVars, Feed!Take
      <3> QED
        BY <3>1 DEF FeedStep, Feed!Next
    <2>2. CASE d # c
      BY <1>3, <2>2 DEF Receive, TypeOK, busVars, FeedStep, Feed!feedVars
    <2> QED
      BY <2>1, <2>2
  <1>4. ASSUME NEW e \in Executions, Cleanup(e) PROVE FeedStep(d)
    <2>0. UNCHANGED <<client, buffer, taken>> /\ closed' = closed \cup subscribers[e]
      BY <1>4 DEF Cleanup
    <2>1. CASE d \in subscribers[e]
      <3>1. d \notin closed /\ d \in closed' /\ client[d] = "open"
        BY <2>0, <2>1 DEF RegisteredInv
      <3>2. Feed(d)!Close
        BY <2>0, <3>1 DEF Feed!Close
      <3> QED
        BY <3>2 DEF FeedStep, Feed!Next
    <2>2. CASE d \notin subscribers[e]
      <3>1. d \in closed' <=> d \in closed
        BY <2>0, <2>2
      <3> QED
        BY <2>0, <3>1 DEF FeedStep, Feed!feedVars
    <2> QED
      BY <2>1, <2>2
  <1>5. ASSUME NEW p \in Publishers, BeginPublish(p) PROVE FeedStep(d)
    BY <1>5 DEF BeginPublish, busVars, FeedStep, Feed!feedVars
  <1>6. ASSUME NEW p \in Publishers, NEW c \in Channels, Send(p, c) PROVE FeedStep(d)
    <2>0. UNCHANGED <<client, closed, taken>>
      BY <1>6 DEF Send, busVars
    <2>1. CASE d = c /\ HasRoom(c) /\ buffer' = [buffer EXCEPT ![c] = Append(@, Current(p))]
      <3>1. client[d] = "open" /\ d \notin closed
        BY <1>6, <2>1 DEF Send, TypeOK, TargetsInv, RegisteredInv
      <3>2. pub[p] = "sending" /\ d \in targets[p]
        BY <1>6, <2>1 DEF Send, TypeOK, TargetsInv
      <3>3. \A f \in In(d) : f.from = p => f.n < num[p]
        BY <3>2 DEF OrderInv
      <3>4. \A f \in taken[d] \cup Feed(d)!Queued : Feed(d)!Later(Current(p), f)
        BY <3>3 DEF In, Feed!Queued, Feed!Later, Current
      <3>5. Current(p) \in Event
        BY DEF TypeOK, Current, Event
      <3>6. buffer'[d] = Append(buffer[d], Current(p)) /\ Len(buffer[d]) < Capacity
        BY <2>1 DEF TypeOK, HasRoom
      <3>7. Feed(d)!Put(Current(p))
        BY <2>0, <3>1, <3>4, <3>6 DEF Feed!Put
      <3> QED
        BY <3>5, <3>7 DEF FeedStep, Feed!Next
    <2>2. CASE buffer'[d] = buffer[d]
      BY <2>0, <2>2 DEF FeedStep, Feed!feedVars
    <2> QED
      BY <1>6, <2>1, <2>2 DEF Send, TypeOK
  <1>7. ASSUME NEW p \in Publishers, EndPublish(p) PROVE FeedStep(d)
    BY <1>7 DEF EndPublish, busVars, FeedStep, Feed!feedVars
  <1>8. CASE UNCHANGED vars
    BY <1>8 DEF vars, busVars, FeedStep, Feed!feedVars
  <1> QED
    BY <1>1, <1>2, <1>3, <1>4, <1>5, <1>6, <1>7, <1>8 DEF Next, PublishStep

\* Every channel is an EventFeed, whatever the goroutines do.
THEOREM Feeds == Spec => KeepsFeeds
  <1>1. Init => \A c \in Channels : Feed(c)!Init
    BY FeedInit
  <1>2. IInv /\ IInv' /\ [Next]_vars => [\A c \in Channels : FeedStep(c)]_vars
    BY FeedNext
  <1> QED
    BY <1>1, <1>2, Invariance, PTL DEF Spec, KeepsFeeds

================================================================================
