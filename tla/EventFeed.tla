------------------------------- MODULE EventFeed -------------------------------
(***************************************************************************)
(* What a subscriber of the event bus may rely on: one channel, opened     *)
(* once and closed at most once, a bounded queue.  An event may be missed, *)
(* it never comes twice, late or out of the order of its publisher.        *)
(***************************************************************************)
EXTENDS Naturals, Sequences

CONSTANTS Event,      \* records with a publisher, from, and its count, n
          Capacity

VARIABLES feed,    \* "new", "open" or "closed"
          buffer,  \* events waiting in the channel, oldest first
          taken    \* events that were received

feedVars == <<feed, buffer, taken>>

Queued == {buffer[i] : i \in 1 .. Len(buffer)}

Later(e, f) == f.from = e.from => f.n < e.n

Init == feed = "new" /\ buffer = <<>> /\ taken = {}

Open == feed = "new" /\ feed' = "open" /\ UNCHANGED <<buffer, taken>>

Put(e) ==
    /\ feed = "open"
    /\ Len(buffer) < Capacity
    /\ \A f \in taken \cup Queued : Later(e, f)
    /\ buffer' = Append(buffer, e)
    /\ UNCHANGED <<feed, taken>>

Take ==
    /\ buffer # <<>>
    /\ taken' = taken \cup {Head(buffer)}
    /\ buffer' = Tail(buffer)
    /\ UNCHANGED feed

Close == feed = "open" /\ feed' = "closed" /\ UNCHANGED <<buffer, taken>>

Next == Open \/ Take \/ Close \/ \E e \in Event : Put(e)

Spec == Init /\ [][Next]_feedVars

================================================================================
