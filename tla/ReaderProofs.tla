----------------------------- MODULE ReaderProofs ------------------------------
(***************************************************************************)
(* What those who follow an execution learn of it: the answer of a webhook *)
(* that waits, and what a live view shows; for any steps, any capacity of  *)
(* the channel and any number of failing accesses.                         *)
(***************************************************************************)
EXTENDS CompletionWait, LiveUpdates, FiniteSetTheorems, SequenceTheorems, TLAPS

--------------------------------------------------------------------------------
(***************************************************************************)
(* The inductive invariant of a webhook that waits.  An answer is right    *)
(* because no event of the outcome is in the channel, and no record says   *)
(* one, before the outcome was decided; and the outcome is decided when no *)
(* step runs, so that no record of a step changes later.                   *)
(***************************************************************************)
WaitRecordInv ==
    /\ execRow \in {"running", outcome}
    /\ outcome = "none" => execRow = "running" /\ announced = "none"
    /\ outcome # "none" /\ execRow = "running" => lost > 0

RowInv ==
    /\ outcome # "none" => NoStepRuns
    /\ \A s \in Steps : /\ phase[s] = "pending" => row[s] = "pending"
                        /\ phase[s] = "running" => row[s] \in {"pending", "running"}

BufferInv == \A i \in 1 .. Len(buffer) : Ends(buffer[i]) => outcome # "none"

WaitInv ==
    /\ wait \in {"check", "subscribe"} => channel = "none"
    /\ wait \in {"listen", "fetch"} => channel = "open"
    /\ wait = "fetch" => outcome # "none"

WaitIInv == /\ WaitTypeOK /\ WaitRecordInv /\ RowInv /\ BufferInv /\ WaitInv
        /\ AnswersOutcome /\ LeavesNothing

--------------------------------------------------------------------------------
\* What a publish does to the channel, and a receive.
LEMMA PublishAppends ==
    ASSUME FeedTypeOK, NEW e \in Event, Publish(e)
    PROVE  /\ buffer' \in Seq(Event) /\ Len(buffer') <= Capacity
           /\ dropped' \subseteq EventType
           /\ \A i \in 1 .. Len(buffer') :
                 buffer'[i] = e \/ (i \in 1 .. Len(buffer) /\ buffer'[i] = buffer[i])
  <1>1. buffer \in Seq(Event) /\ Len(buffer) <= Capacity /\ Capacity \in Nat
    BY FeedAssumption DEF FeedTypeOK
  <1>2. dropped' \subseteq EventType
    BY DEF FeedTypeOK, Publish, Event
  <1>3. CASE buffer' = Append(buffer, e) /\ Len(buffer) < Capacity
    BY <1>1, <1>2, <1>3
  <1>4. CASE buffer' = buffer
    BY <1>1, <1>2, <1>4
  <1> QED
    BY <1>3, <1>4 DEF Publish

\* A receive takes the first event and leaves the others in their order.
LEMMA ReceiveTakes ==
    ASSUME FeedTypeOK, buffer # <<>>, buffer' = Tail(buffer)
    PROVE  /\ buffer' \in Seq(Event) /\ Len(buffer') <= Capacity
           /\ Head(buffer) = buffer[1] /\ 1 \in 1 .. Len(buffer)
           /\ \A i \in 1 .. Len(buffer') : i + 1 \in 1 .. Len(buffer) /\ buffer'[i] = buffer[i + 1]
  <1>1. buffer \in Seq(Event) /\ Len(buffer) <= Capacity /\ Capacity \in Nat
    BY FeedAssumption DEF FeedTypeOK
  <1> QED
    BY <1>1

\* The initial states satisfy the invariant: nothing is sent, no one waits.
LEMMA WaitInitInvariant == WaitInit => WaitIInv
  <1> SUFFICES ASSUME WaitInit PROVE WaitIInv
    OBVIOUS
  <1>1. buffer \in Seq(Event) /\ Len(buffer) <= Capacity /\ \A i \in 1 .. Len(buffer) : FALSE
    BY FeedAssumption DEF WaitInit, FeedInit
  <1>2. FeedTypeOK
    BY <1>1, FeedAssumption DEF WaitInit, FeedInit, FeedTypeOK, StepStatus, Outcomes, EventType
  <1> QED
    BY <1>1, <1>2 DEF WaitInit, FeedInit, WaitIInv, WaitTypeOK, WaitRecordInv, RowInv, BufferInv, WaitInv,
       AnswersOutcome, LeavesNothing, Outcomes

\* What the engine leaves alone of the waiter, and what it does to the channel:
\* nothing, or one event more, of the outcome only once that was decided.
LEMMA EngineFeeds ==
    ASSUME FeedTypeOK, WaitRecordInv, BufferInv, Engine
    PROVE  /\ UNCHANGED channel
           /\ buffer' \in Seq(Event) /\ Len(buffer') <= Capacity
           /\ dropped' \subseteq EventType
           /\ BufferInv'
  <1>1. outcome # "none" => outcome' = outcome
    BY DEF Engine, WriteOutcome, PublishOutcome, StepGoroutine, WriteStep, PublishStep, PublishLog
  <1>2. CASE UNCHANGED channelVars
    BY <1>1, <1>2 DEF channelVars, FeedTypeOK, BufferInv, Ends
  <1>3. ASSUME NEW e \in Event, Publish(e), UNCHANGED outcome,
               Ends(e) => outcome # "none"
        PROVE  /\ UNCHANGED channel
               /\ buffer' \in Seq(Event) /\ Len(buffer') <= Capacity
               /\ dropped' \subseteq EventType
               /\ BufferInv'
    <2>1. UNCHANGED channel
      BY <1>3 DEF Publish
    <2> QED
      BY <1>3, <2>1, PublishAppends DEF BufferInv, Ends
  <1>4. ASSUME NEW s \in Steps, PublishStep(s)
        PROVE  \E e \in Event : Publish(e) /\ UNCHANGED outcome /\ ~Ends(e)
    <2>1. StepEvent(s, phase[s]) \in Event /\ ~Ends(StepEvent(s, phase[s]))
      BY DEF FeedTypeOK, Event, EventType, StepEvent, Ends
    <2> QED
      BY <1>4, <2>1 DEF PublishStep
  <1>5. ASSUME NEW s \in Steps, PublishLog(s)
        PROVE  \E e \in Event : Publish(e) /\ UNCHANGED outcome /\ ~Ends(e)
    <2>1. LogEvent(s) \in Event /\ ~Ends(LogEvent(s))
      BY DEF Event, EventType, LogEvent, Ends
    <2> QED
      BY <1>5, <2>1 DEF PublishLog
  <1>6. ASSUME PublishOutcome
        PROVE  \E e \in Event : Publish(e) /\ UNCHANGED outcome /\ outcome # "none"
    <2>1. ExecutionEvent(outcome) \in Event
      BY <1>6 DEF PublishOutcome, FeedTypeOK, Event, EventType, ExecutionEvent
    <2> QED
      BY <1>6, <2>1 DEF PublishOutcome
  <1>7. CASE WriteOutcome \/ \E s \in Steps : WriteStep(s)
    BY <1>2, <1>7 DEF WriteOutcome, WriteStep
  <1> QED
    BY <1>3, <1>4, <1>5, <1>6, <1>7 DEF Engine, StepGoroutine

\* The records and the steps, which only the engine changes.
EngineTypes ==
    /\ phase \in [Steps -> StepStatus] /\ unsaid \subseteq Steps
    /\ row \in [Steps -> StepStatus]
    /\ execRow \in {"running"} \cup Outcomes
    /\ outcome \in {"none"} \cup Outcomes
    /\ announced \in {"none", outcome}
    /\ logs \in [Steps -> 0 .. MaxLogs]
    /\ lost \in 0 .. MaxLost

\* The failing accesses to the database are counted, up to their bound.
LEMMA AccessesCount ==
    ASSUME EngineTypes, UNCHANGED lost \/ AccessFails
    PROVE  lost' \in 0 .. MaxLost /\ lost' >= lost /\ lost \in Nat
  BY FeedAssumption DEF EngineTypes, AccessFails

\* A write to a step's record follows the step's life, or fails and changes none.
LEMMA StepWrites ==
    ASSUME EngineTypes, WaitRecordInv, RowInv, NEW s \in Steps, WriteStep(s)
    PROVE  \E st \in {"running", "skipped", "completed", "failed"} :
              /\ phase' = [phase EXCEPT ![s] = st]
              /\ row' = row \/ row' = [row EXCEPT ![s] = st]
              /\ UNCHANGED lost \/ AccessFails
              /\ <<row[s], st>> \in Recorded!Advances
              /\ outcome = "none"
  <1>1. PICK st \in Following(s) :
             /\ phase' = [phase EXCEPT ![s] = st]
             /\ \/ row' = [row EXCEPT ![s] = st] /\ UNCHANGED lost
                \/ AccessFails /\ UNCHANGED row
    BY DEF WriteStep
  <1>2. CASE phase[s] = "running"
    <2>1. st \in {"completed", "failed"}
      BY <1>2 DEF Following
    <2>2. row[s] \in {"pending", "running"} /\ outcome = "none"
      BY <1>2 DEF RowInv, NoStepRuns
    <2> QED
      BY <1>1, <2>1, <2>2 DEF Recorded!Advances
  <1>3. CASE phase[s] = "pending" /\ outcome = "none"
    <2>1. st \in {"running", "skipped"}
      BY <1>3 DEF Following
    <2>2. row[s] = "pending"
      BY <1>3 DEF RowInv
    <2> QED
      BY <1>1, <1>3, <2>1, <2>2 DEF Recorded!Advances
  <1>4. CASE phase[s] # "running" /\ ~(phase[s] = "pending" /\ outcome = "none")
    BY <1>4 DEF Following
  <1> QED
    BY <1>2, <1>3, <1>4

\* A step of the engine keeps the types and what ties records and steps together,
\* and is a step of ExecutionRecord or changes no record.
LEMMA EngineRecords ==
    ASSUME EngineTypes, WaitRecordInv, RowInv, Engine
    PROVE  /\ EngineTypes' /\ WaitRecordInv' /\ RowInv'
           /\ lost' >= lost /\ (outcome # "none" => outcome' = outcome)
           /\ [Recorded!Next]_(Recorded!recordVars)
  <1> DEFINE Goal == /\ EngineTypes' /\ WaitRecordInv' /\ RowInv'
                     /\ lost' >= lost /\ (outcome # "none" => outcome' = outcome)
                     /\ [Recorded!Next]_(Recorded!recordVars)
  <1>1. ASSUME NEW s \in Steps, WriteStep(s) PROVE Goal
    <2>1. PICK st \in {"running", "skipped", "completed", "failed"} :
              /\ phase' = [phase EXCEPT ![s] = st]
              /\ row' = row \/ row' = [row EXCEPT ![s] = st]
              /\ UNCHANGED lost \/ AccessFails
              /\ <<row[s], st>> \in Recorded!Advances
              /\ outcome = "none"
      BY <1>1, StepWrites
    <2>2. UNCHANGED <<execRow, outcome, announced, logs>> /\ unsaid' = unsaid \cup {s}
      BY <1>1 DEF WriteStep
    <2>3. lost' \in 0 .. MaxLost /\ lost' >= lost
      BY <2>1, AccessesCount
    <2>4. EngineTypes'
      BY <2>1, <2>2, <2>3 DEF EngineTypes, StepStatus
    <2>5. WaitRecordInv'
      BY <2>1, <2>2 DEF WaitRecordInv
    <2>6. RowInv'
      BY <2>1, <2>2 DEF RowInv, EngineTypes, Recorded!Advances
    <2>7. [Recorded!Next]_(Recorded!recordVars)
      <3>1. execRow = "running" /\ announced = "none" /\ DOMAIN row = Steps
        BY <2>1 DEF WaitRecordInv, EngineTypes
      <3> QED
        BY <2>1, <2>2, <3>1 DEF Recorded!Next, Recorded!Advance, Recorded!recordVars
    <2> QED
      BY <2>1, <2>3, <2>4, <2>5, <2>6, <2>7
  <1>2. ASSUME NEW s \in Steps, PublishStep(s) \/ PublishLog(s) PROVE Goal
    <2>1. /\ UNCHANGED <<phase, row, execRow, outcome, announced, lost>>
          /\ unsaid' \subseteq unsaid
          /\ logs' \in [Steps -> 0 .. MaxLogs]
      BY <1>2, FeedAssumption DEF PublishStep, PublishLog, EngineTypes
    <2>2. lost' >= lost
      BY <2>1, AccessesCount
    <2> QED
      BY <2>1, <2>2 DEF EngineTypes, WaitRecordInv, RowInv, NoStepRuns, Recorded!recordVars
  <1>3. CASE WriteOutcome
    <2>1. /\ outcome = "none" /\ outcome' \in Outcomes /\ NoStepRuns
          /\ \/ execRow' = outcome' /\ UNCHANGED lost
             \/ AccessFails /\ UNCHANGED execRow
          /\ UNCHANGED <<phase, unsaid, row, announced, logs>>
      BY <1>3 DEF WriteOutcome
    <2>2. lost' \in 0 .. MaxLost /\ lost' >= lost /\ lost \in Nat
      BY <2>1, AccessesCount
    <2>3. execRow = "running" /\ announced = "none"
      BY <2>1 DEF WaitRecordInv
    <2>4. EngineTypes'
      BY <2>1, <2>2, <2>3 DEF EngineTypes
    <2>5. WaitRecordInv'
      <3>1. AccessFails => lost' > 0
        BY <2>2 DEF AccessFails
      <3> QED
        BY <2>1, <2>3, <3>1 DEF WaitRecordInv, Outcomes
    <2>6. RowInv'
      BY <2>1 DEF RowInv, NoStepRuns
    <2>7. [Recorded!Next]_(Recorded!recordVars)
      BY <2>1, <2>3 DEF Recorded!Next, Recorded!Record, Recorded!recordVars, Outcomes,
         Recorded!Outcomes
    <2> QED
      BY <2>1, <2>2, <2>4, <2>5, <2>6, <2>7
  <1>4. CASE PublishOutcome
    <2>1. /\ outcome # "none" /\ announced = "none" /\ announced' = outcome
          /\ UNCHANGED <<phase, unsaid, row, execRow, outcome, logs, lost>>
      BY <1>4 DEF PublishOutcome
    <2>2. lost' >= lost
      BY <2>1, AccessesCount
    <2>3. [Recorded!Next]_(Recorded!recordVars)
      BY <2>1 DEF WaitRecordInv, EngineTypes, Recorded!Next, Recorded!Announce, Outcomes,
         Recorded!Outcomes
    <2> QED
      BY <2>1, <2>2, <2>3 DEF EngineTypes, WaitRecordInv, RowInv, NoStepRuns
  <1> QED
    BY <1>1, <1>2, <1>3, <1>4 DEF Engine, StepGoroutine

--------------------------------------------------------------------------------
\* A step of the engine keeps the invariant while the waiter does nothing.
LEMMA EngineStep ==
    ASSUME WaitIInv, Engine, UNCHANGED waitVars
    PROVE  WaitIInv'
  <1>1. FeedTypeOK /\ EngineTypes /\ WaitRecordInv /\ RowInv /\ BufferInv
    BY DEF WaitIInv, WaitTypeOK, FeedTypeOK, EngineTypes
  <1>2. /\ UNCHANGED channel /\ BufferInv'
        /\ buffer' \in Seq(Event) /\ Len(buffer') <= Capacity
        /\ dropped' \subseteq EventType
    BY <1>1, EngineFeeds
  <1>3. /\ EngineTypes' /\ WaitRecordInv' /\ RowInv'
        /\ lost' >= lost /\ (outcome # "none" => outcome' = outcome)
    BY <1>1, EngineRecords
  <1>4. WaitTypeOK'
    <2>1. Event' = Event
      BY DEF Event
    <2> QED
      BY <1>1, <1>2, <1>3, <2>1 DEF WaitIInv, WaitTypeOK, FeedTypeOK, EngineTypes, waitVars
  <1>5. WaitInv' /\ LeavesNothing'
    BY <1>2, <1>3 DEF WaitIInv, WaitInv, LeavesNothing, waitVars
  <1>6. AnswersOutcome'
    <2>1. lost \in Nat /\ lost' \in Nat
      BY <1>1, <1>3, FeedAssumption DEF EngineTypes
    <2> QED
      BY <1>3, <2>1 DEF WaitIInv, AnswersOutcome, Outcomes, waitVars
  <1> QED
    BY <1>2, <1>3, <1>4, <1>5, <1>6 DEF WaitIInv

\* A step of the waiter, or its deadline, keeps the invariant.
LEMMA WaitStep ==
    ASSUME WaitIInv, Waiter \/ TimeOut
    PROVE  WaitIInv'
  <1>1. FeedTypeOK /\ EngineTypes /\ WaitRecordInv /\ RowInv /\ BufferInv /\ WaitInv
    BY DEF WaitIInv, WaitTypeOK, FeedTypeOK, EngineTypes
  <1>2. UNCHANGED engineVars /\ (UNCHANGED lost \/ AccessFails)
    BY DEF Waiter, TimeOut, CheckRecord, StartListening, ReceiveEvent, FetchRecord
  <1>3. lost' \in 0 .. MaxLost /\ lost' >= lost /\ lost \in Nat
    BY <1>1, <1>2, AccessesCount
  <1>4. EngineTypes' /\ WaitRecordInv' /\ RowInv'
    BY <1>1, <1>2, <1>3 DEF EngineTypes, WaitRecordInv, RowInv, NoStepRuns, engineVars
  <1>5. /\ buffer' \in Seq(Event) /\ Len(buffer') <= Capacity /\ BufferInv'
        /\ channel' \in {"none", "open", "closed"} /\ dropped' = dropped
    <2>1. CASE ReceiveEvent
      BY <1>1, <2>1, ReceiveTakes DEF ReceiveEvent, engineVars, BufferInv, Ends, FeedTypeOK
    <2>2. CASE UNCHANGED <<buffer, dropped>> /\ channel' \in {"none", "open", "closed"}
      BY <1>1, <1>2, <2>2 DEF FeedTypeOK, BufferInv, Ends, engineVars
    <2> QED
      BY <1>1, <2>1, <2>2 DEF Waiter, TimeOut, CheckRecord, StartListening, FetchRecord, Subscribe,
         Leave, Unsubscribe, channelVars, FeedTypeOK
  <1>6. WaitTypeOK'
    <2>1. Event' = Event
      BY DEF Event
    <2>2. /\ wait' \in {"check", "subscribe", "listen", "fetch", "gone"}
          /\ reply' \in {"none", "running", "timeout"} \cup Outcomes
          /\ missed' \in BOOLEAN
      BY <1>1 DEF WaitIInv, WaitTypeOK, Waiter, TimeOut, CheckRecord, StartListening, ReceiveEvent,
         FetchRecord, EngineTypes
    <2> QED
      BY <1>1, <1>4, <1>5, <2>1, <2>2 DEF WaitTypeOK, FeedTypeOK, EngineTypes, EventType
  <1>7. WaitInv' /\ LeavesNothing'
    <2>1. ASSUME ReceiveEvent, wait' = "fetch" PROVE outcome # "none"
      BY <1>1, <2>1, ReceiveTakes DEF ReceiveEvent, BufferInv
    <2> QED
      BY <1>1, <1>2, <2>1 DEF WaitIInv, WaitInv, LeavesNothing, Waiter, TimeOut, CheckRecord, engineVars,
         StartListening, ReceiveEvent, FetchRecord, Subscribe, Leave, Unsubscribe, channelVars,
         Outcomes
  <1>8. AnswersOutcome'
    BY <1>1, <1>2, <1>3 DEF WaitIInv, AnswersOutcome, WaitInv, WaitRecordInv, Waiter, TimeOut,
       CheckRecord, StartListening, ReceiveEvent, FetchRecord, engineVars, Outcomes, EngineTypes
  <1> QED
    BY <1>4, <1>5, <1>6, <1>7, <1>8 DEF WaitIInv

\* Every step keeps the invariant.
LEMMA WaitNextInvariant == WaitIInv /\ [WaitNext]_webhookVars => WaitIInv'
  <1>1. ASSUME WaitIInv, UNCHANGED webhookVars PROVE WaitIInv'
    BY <1>1 DEF webhookVars, engineVars, channelVars, waitVars, WaitIInv, WaitTypeOK, FeedTypeOK, Event,
       WaitRecordInv, RowInv, NoStepRuns, BufferInv, Ends, WaitInv, AnswersOutcome, LeavesNothing
  <1> QED
    BY <1>1, EngineStep, WaitStep DEF WaitNext

\* The invariant holds in every reachable state, for every set of steps, channel
\* capacity and number of failing accesses.
THEOREM WaitInvariant == WaitSpec => []WaitIInv
  BY WaitInitInvariant, WaitNextInvariant, PTL DEF WaitSpec

--------------------------------------------------------------------------------
\* Every variable keeps its type, and the channel its capacity.
THEOREM WaitTypeCorrect == WaitSpec => []WaitTypeOK
  BY WaitInvariant, PTL DEF WaitIInv

\* A webhook that waits answers the outcome of its execution, and no other.
THEOREM RightAnswer == WaitSpec => []AnswersOutcome
  BY WaitInvariant, PTL DEF WaitIInv

\* A waiter that has left has no subscription.
THEOREM NothingLeft == WaitSpec => []LeavesNothing
  BY WaitInvariant, PTL DEF WaitIInv

\* The engine beside a waiter implements ExecutionRecord.
THEOREM EngineKeepsRecords == WaitSpec => KeepsRecords
  <1>1. WaitInit => Recorded!Init
    BY DEF WaitInit, FeedInit, Recorded!Init
  <1>2. ASSUME WaitIInv, [WaitNext]_webhookVars PROVE [Recorded!Next]_(Recorded!recordVars)
    <2>1. CASE Engine
      BY <1>2, <2>1, EngineRecords DEF WaitIInv, WaitTypeOK, FeedTypeOK, EngineTypes
    <2>2. CASE UNCHANGED engineVars
      BY <2>2 DEF engineVars, Recorded!recordVars
    <2> QED
      BY <1>2, <2>1, <2>2 DEF WaitNext, Waiter, TimeOut, CheckRecord, StartListening, ReceiveEvent,
         FetchRecord, webhookVars
  <1> QED
    BY <1>1, <1>2, WaitInvariant, PTL DEF WaitSpec, KeepsRecords, Recorded!Spec

--------------------------------------------------------------------------------
(***************************************************************************)
(* The inductive invariant of a live view.  What the page will have been   *)
(* told of a step once it has received all that is under way is the step's *)
(* status, unless that status is still to be published: first the rows     *)
(* that were read and the channel together tell it, then the wire and the  *)
(* channel.                                                                *)
(***************************************************************************)
\* The places in a queue where it says something of a step.
About(q, s) == {i \in 1 .. Len(q) : q[i].type = "step_status" /\ q[i].step = s}

\* Who begins with the status v and receives q ends with the status st.
Tells(q, s, v, st) ==
    IF About(q, s) = {} THEN v = st
    ELSE \E i \in About(q, s) : q[i].status = st /\ \A j \in About(q, s) : j <= i

HasOutcome(q) == \E i \in 1 .. Len(q) : q[i].type = "execution_status"

\* What may be on its way.
Known(e) ==
    /\ e.type = "step_status" => e.step \in Steps /\ e.status \in {"none"} \cup StepStatus
    /\ e.type = "execution_status" => outcome \in Outcomes /\ e.status = outcome

EventsInv ==
    /\ wire \in Seq(Event)
    /\ \A i \in 1 .. Len(wire) : Known(wire[i])
    /\ \A i \in 1 .. Len(buffer) : Known(buffer[i])

RecordInv ==
    /\ execRow \in {"running", outcome}
    /\ outcome = "none" => execRow = "running" /\ announced = "none"
    /\ outcome # "none" => NoStepRuns
    /\ lost = 0 => row = phase /\ (outcome # "none" => execRow = outcome)

Connecting == {"subscribe", "execution", "steps", "replay"}

HandlerInv ==
    /\ channel = "none" => buffer = <<>>
    /\ handler = "subscribe" => channel = "none"
    /\ handler \in Connecting => wire = <<>> /\ (page = "open" => shown = "none")
    /\ handler \in {"steps", "replay"} => seenExec # "none"
    /\ seenExec \in {"none", "running", outcome}
    /\ net = "closing" => handler = "returned"
    /\ page = "open" => shown \in {"none", outcome}

\* Nothing that matters was lost on the way to the page.
Intact == /\ lost = 0 /\ dropped \subseteq {"step_log"}
          /\ page = "open" /\ net \in {"up", "closing"}

StepsTold ==
    /\ handler \in {"execution", "steps"} =>
          \A s \in Steps \ unsaid : Tells(buffer, s, phase[s], phase[s])
    /\ handler = "replay" =>
          \A s \in Steps \ unsaid : Tells(buffer, s, seenRows[s], phase[s])
    /\ handler = "replay" /\ seenExec \in Outcomes => seenRows = phase
    /\ handler = "stream" =>
          \A s \in Steps \ unsaid : Tells(wire \o buffer, s, view[s], phase[s])
    /\ handler = "returned" =>
          outcome # "none" /\ \A s \in Steps : Tells(wire, s, view[s], phase[s])

OutcomeTold ==
    /\ handler \in {"steps", "replay"} /\ seenExec = "running" /\ announced # "none" =>
          HasOutcome(buffer)
    /\ handler = "stream" /\ announced # "none" =>
          shown = outcome \/ HasOutcome(wire \o buffer)
    /\ handler = "returned" => shown = outcome \/ HasOutcome(wire)

ToldInv == Intact => StepsTold /\ OutcomeTold

IInv == TypeOK /\ EventsInv /\ RecordInv /\ HandlerInv /\ ToldInv

--------------------------------------------------------------------------------
(***************************************************************************)
(* Queues and what they tell.                                              *)
(***************************************************************************)
\* A finite set as a sequence has every member of the set once.
LEMMA SeqOfSet ==
    ASSUME NEW S, IsFiniteSet(S)
    PROVE  /\ Cardinality(S) \in Nat
           /\ SetToSeq(S) \in [1 .. Cardinality(S) -> S]
           /\ \A x \in S : \E i \in 1 .. Cardinality(S) : SetToSeq(S)[i] = x
           /\ \A i, j \in 1 .. Cardinality(S) : SetToSeq(S)[i] = SetToSeq(S)[j] => i = j
  <1> DEFINE n == Cardinality(S)
             q == SetToSeq(S)
  <1>1. n \in Nat /\ ExistsBijection(1 .. n, S)
    BY FS_CardinalityType
  <1>2. \E f \in [1 .. n -> S] : IsInjective(f)
    BY <1>1 DEF ExistsBijection, Bijection, Injection
  <1>3. q \in [1 .. n -> S] /\ IsInjective(q)
    BY <1>2 DEF SetToSeq
  <1> HIDE DEF n, q
  <1>4. q \in Injection(1 .. n, S)
    BY <1>3 DEF Injection
  <1>5. IsFiniteSet(1 .. n) /\ Cardinality(1 .. n) = n
    BY <1>1, FS_Interval
  <1>6. q \in Surjection(1 .. n, S)
    BY <1>4, <1>5, FS_Injection DEF n
  <1> QED
    BY <1>1, <1>3, <1>6 DEF n, q, IsInjective, Surjection

\* An event about a step that is added last is what the step ends with; any other event
\* changes nothing about it.
LEMMA TellsAppend ==
    ASSUME NEW q \in Seq(Event), NEW e \in Event, NEW s, NEW v, NEW st
    PROVE  /\ e.type = "step_status" /\ e.step = s /\ e.status = st =>
                 Tells(Append(q, e), s, v, st)
           /\ ~(e.type = "step_status" /\ e.step = s) /\ Tells(q, s, v, st) =>
                 Tells(Append(q, e), s, v, st)
  <1> DEFINE r == Append(q, e)
  <1>1. /\ Len(q) \in Nat /\ Len(r) = Len(q) + 1
        /\ r[Len(q) + 1] = e
        /\ \A i \in 1 .. Len(q) : r[i] = q[i]
    BY AppendProperties, LenProperties
  <1> HIDE DEF r
  <1>2. \A i \in 1 .. Len(r) : i \in 1 .. Len(q) \/ i = Len(q) + 1
    BY <1>1
  <1>3. ASSUME e.type = "step_status", e.step = s, e.status = st PROVE Tells(r, s, v, st)
    <2>1. Len(q) + 1 \in About(r, s)
      BY <1>1, <1>3 DEF About
    <2>2. \A j \in About(r, s) : j <= Len(q) + 1
      BY <1>1 DEF About
    <2> QED
      BY <1>1, <1>3, <2>1, <2>2 DEF Tells
  <1>4. ASSUME ~(e.type = "step_status" /\ e.step = s), Tells(q, s, v, st)
        PROVE  Tells(r, s, v, st)
    <2>1. About(r, s) = About(q, s)
      BY <1>1, <1>2, <1>4 DEF About
    <2>2. \A i \in About(q, s) : r[i] = q[i]
      BY <1>1 DEF About
    <2> QED
      BY <1>4, <2>1, <2>2 DEF Tells
  <1> QED
    BY <1>3, <1>4 DEF r

\* Who takes the first event knows what it says; the rest tells the same end.
LEMMA TellsTail ==
    ASSUME NEW q \in Seq(Event), q # <<>>, NEW s, NEW v, NEW st, Tells(q, s, v, st)
    PROVE  Tells(Tail(q), s,
                 IF Head(q).type = "step_status" /\ Head(q).step = s
                 THEN Head(q).status ELSE v, st)
  <1> DEFINE r == Tail(q)
             u == IF Head(q).type = "step_status" /\ Head(q).step = s
                  THEN Head(q).status ELSE v
  <1>1. /\ Len(q) \in Nat \ {0} /\ Len(r) = Len(q) - 1 /\ Head(q) = q[1]
        /\ \A i \in 1 .. Len(r) : r[i] = q[i + 1]
    BY HeadTailProperties, LenProperties, EmptySeq
  <1> HIDE DEF r
  <1>2. \A i \in 1 .. Len(r) : i \in About(r, s) <=> i + 1 \in About(q, s)
    BY <1>1 DEF About
  <1>3. \A i \in About(q, s) : i = 1 \/ i - 1 \in About(r, s)
    <2> SUFFICES ASSUME NEW i \in About(q, s), i # 1 PROVE i - 1 \in About(r, s)
      OBVIOUS
    <2>1. i \in 1 .. Len(q) /\ i - 1 \in 1 .. Len(r) /\ (i - 1) + 1 = i
      BY <1>1 DEF About
    <2> QED
      BY <1>2, <2>1
  <1>4. CASE About(q, s) = {}
    <2>1. About(r, s) = {}
      BY <1>2, <1>4 DEF About
    <2>2. u = v
      BY <1>1, <1>4 DEF About
    <2> HIDE DEF u
    <2> QED
      BY <1>4, <2>1, <2>2 DEF Tells, r, u
  <1>5. CASE About(q, s) # {}
    <2>1. PICK i \in About(q, s) : q[i].status = st /\ \A j \in About(q, s) : j <= i
      BY <1>5 DEF Tells
    <2>2. CASE i = 1
      <3>1. About(r, s) = {}
        <4> SUFFICES ASSUME NEW j \in About(r, s) PROVE FALSE
          OBVIOUS
        <4>1. j \in 1 .. Len(r)
          BY DEF About
        <4>2. j + 1 \in About(q, s)
          BY <1>2, <4>1
        <4> QED
          BY <1>1, <2>1, <2>2, <4>1, <4>2
      <3>2. u = st
        BY <1>1, <2>1, <2>2 DEF About
      <3> HIDE DEF u
      <3> QED
        BY <3>1, <3>2 DEF Tells, r, u
    <2>3. CASE i # 1
      <3>1. i - 1 \in About(r, s) /\ i - 1 \in 1 .. Len(r)
        BY <1>3, <2>3 DEF About
      <3>2. r[i - 1].status = st
        <4>1. (i - 1) + 1 = i
          BY DEF About
        <4> QED
          BY <1>1, <2>1, <3>1, <4>1
      <3>3. ASSUME NEW j \in About(r, s) PROVE j <= i - 1
        <4>1. j \in 1 .. Len(r) /\ i \in 1 .. Len(q)
          BY DEF About
        <4>2. j + 1 <= i
          BY <1>2, <2>1, <4>1
        <4> QED
          BY <1>1, <4>1, <4>2
      <3> HIDE DEF u
      <3> QED
        BY <3>1, <3>2, <3>3 DEF Tells, r, u
    <2> QED
      BY <2>2, <2>3
  <1> QED
    BY <1>4, <1>5

\* One queue after the other: the second begins with what the first ends with.
LEMMA TellsConcat ==
    ASSUME NEW q \in Seq(Event), NEW r \in Seq(Event), NEW s, NEW v, NEW u, NEW st,
           Tells(q, s, v, u), Tells(r, s, u, st)
    PROVE  Tells(q \o r, s, v, st)
  <1> DEFINE c == q \o r
  <1>1. /\ Len(q) \in Nat /\ Len(r) \in Nat /\ Len(c) = Len(q) + Len(r)
        /\ \A i \in 1 .. Len(q) : i \in 1 .. Len(c) /\ c[i] = q[i]
        /\ \A i \in 1 .. Len(r) : i + Len(q) \in 1 .. Len(c) /\ c[i + Len(q)] = r[i]
    <2>1. /\ Len(c) = Len(q) + Len(r)
          /\ \A i \in 1 .. Len(q) + Len(r) : c[i] = IF i <= Len(q) THEN q[i] ELSE r[i - Len(q)]
      BY ConcatProperties
    <2>2. Len(q) \in Nat /\ Len(r) \in Nat
      BY LenProperties
    <2> HIDE DEF c
    <2>3. ASSUME NEW i \in 1 .. Len(r) PROVE i + Len(q) \in 1 .. Len(c) /\ c[i + Len(q)] = r[i]
      <3>1. i + Len(q) \in 1 .. Len(q) + Len(r) /\ ~(i + Len(q) <= Len(q)) /\ (i + Len(q)) - Len(q) = i
        BY <2>2
      <3> QED
        BY <2>1, <3>1
    <2> QED
      BY <2>1, <2>2, <2>3
  <1> HIDE DEF c
  <1>2. \A i \in 1 .. Len(c) : i \in 1 .. Len(q) \/ \E k \in 1 .. Len(r) : i = k + Len(q)
    <2> SUFFICES ASSUME NEW i \in 1 .. Len(c), i \notin 1 .. Len(q)
                 PROVE  \E k \in 1 .. Len(r) : i = k + Len(q)
      OBVIOUS
    <2>1. i - Len(q) \in 1 .. Len(r) /\ i = (i - Len(q)) + Len(q)
      BY <1>1
    <2> QED
      BY <2>1
  <1>3. \A i \in 1 .. Len(q) : i \in About(c, s) <=> i \in About(q, s)
    BY <1>1 DEF About
  <1>4. \A i \in 1 .. Len(r) : i + Len(q) \in About(c, s) <=> i \in About(r, s)
    BY <1>1 DEF About
  <1>5. CASE About(r, s) = {}
    <2>1. About(c, s) = About(q, s)
      <3>1. About(c, s) \subseteq 1 .. Len(c) /\ About(q, s) \subseteq 1 .. Len(q)
        BY DEF About
      <3> QED
        BY <1>2, <1>3, <1>4, <1>5, <3>1
    <2>2. \A i \in About(q, s) : c[i] = q[i]
      BY <1>1 DEF About
    <2>3. u = st
      BY <1>5 DEF Tells
    <2> QED
      BY <2>1, <2>2, <2>3 DEF Tells, c
  <1>6. CASE About(r, s) # {}
    <2>1. PICK i \in About(r, s) : r[i].status = st /\ \A j \in About(r, s) : j <= i
      BY <1>6 DEF Tells
    <2>2. i \in 1 .. Len(r)
      BY DEF About
    <2>3. i + Len(q) \in About(c, s) /\ c[i + Len(q)].status = st
      BY <1>1, <1>4, <2>1, <2>2
    <2>4. ASSUME NEW j \in About(c, s) PROVE j <= i + Len(q)
      <3>1. j \in 1 .. Len(c)
        BY DEF About
      <3>2. CASE j \in 1 .. Len(q)
        BY <1>1, <2>2, <3>2
      <3>3. CASE \E k \in 1 .. Len(r) : j = k + Len(q)
        BY <1>1, <1>4, <2>1, <2>2, <3>3
      <3> QED
        BY <1>2, <3>1, <3>2, <3>3
    <2> QED
      BY <2>3, <2>4 DEF Tells, c
  <1> QED
    BY <1>5, <1>6

\* An event may be added to the second of two queues or to both in a row.
LEMMA ConcatAppend ==
    ASSUME NEW q \in Seq(Event), NEW r \in Seq(Event), NEW e \in Event
    PROVE  q \o Append(r, e) = Append(q \o r, e)
  <1>1. <<e>> \in Seq(Event) /\ q \o r \in Seq(Event)
    BY ConcatProperties
  <1>2. Append(r, e) = r \o <<e>> /\ Append(q \o r, e) = (q \o r) \o <<e>>
    BY <1>1, AppendIsConcat
  <1> QED
    BY <1>1, <1>2, ConcatAssociative

\* The first event of a queue may move to the end of the queue before it.
LEMMA ConcatMove ==
    ASSUME NEW q \in Seq(Event), NEW r \in Seq(Event), r # <<>>
    PROVE  Append(q, Head(r)) \o Tail(r) = q \o r
  <1> DEFINE h == Head(r)
             u == Tail(r)
  <1>1. h \in Event /\ u \in Seq(Event) /\ r = <<h>> \o u
    BY HeadTailProperties
  <1> HIDE DEF h, u
  <1>2. <<h>> \in Seq(Event) /\ Append(q, h) = q \o <<h>>
    BY <1>1, AppendIsConcat
  <1> QED
    BY SMTT(20), <1>1, <1>2, ConcatAssociative DEF h, u

\* The first event of two queues in a row is the first of the first one.
LEMMA ConcatTail ==
    ASSUME NEW q \in Seq(Event), NEW r \in Seq(Event), q # <<>>
    PROVE  /\ q \o r # <<>> /\ Head(q \o r) = Head(q)
           /\ Tail(q \o r) = Tail(q) \o r
  BY ConcatProperties, HeadTailProperties

\* What an outcome on its way still is when events are added behind it, or before it.
LEMMA OutcomeStays ==
    ASSUME NEW q \in Seq(Event), NEW r \in Seq(Event)
    PROVE  /\ HasOutcome(q) => HasOutcome(q \o r)
           /\ HasOutcome(r) => HasOutcome(q \o r)
           /\ \A e \in Event : HasOutcome(q) \/ e.type = "execution_status" =>
                 HasOutcome(Append(q, e))
           /\ q # <<>> /\ HasOutcome(q) =>
                 Head(q).type = "execution_status" \/ HasOutcome(Tail(q))
  <1>1. /\ Len(q) \in Nat /\ Len(r) \in Nat /\ Len(q \o r) = Len(q) + Len(r)
        /\ \A i \in 1 .. Len(q) + Len(r) :
              (q \o r)[i] = IF i <= Len(q) THEN q[i] ELSE r[i - Len(q)]
    BY ConcatProperties, LenProperties
  <1>2. HasOutcome(q) => HasOutcome(q \o r)
    BY <1>1 DEF HasOutcome
  <1>3. ASSUME HasOutcome(r) PROVE HasOutcome(q \o r)
    <2>1. PICK i \in 1 .. Len(r) : r[i].type = "execution_status"
      BY <1>3 DEF HasOutcome
    <2>2. /\ i + Len(q) \in 1 .. Len(q) + Len(r)
          /\ ~(i + Len(q) <= Len(q)) /\ (i + Len(q)) - Len(q) = i
      BY <1>1
    <2>3. (q \o r)[i + Len(q)] = r[i]
      BY <1>1, <2>2
    <2> QED
      BY <1>1, <2>1, <2>2, <2>3 DEF HasOutcome
  <1>4. ASSUME NEW e \in Event, HasOutcome(q) \/ e.type = "execution_status"
        PROVE  HasOutcome(Append(q, e))
    BY <1>1, <1>4, AppendProperties DEF HasOutcome
  <1>5. ASSUME q # <<>>, HasOutcome(q), Head(q).type # "execution_status"
        PROVE  HasOutcome(Tail(q))
    <2>1. PICK i \in 1 .. Len(q) : q[i].type = "execution_status"
      BY <1>5 DEF HasOutcome
    <2>2. i # 1
      BY <1>5, <2>1
    <2>3. i - 1 \in 1 .. Len(Tail(q)) /\ (i - 1) + 1 = i
      BY <1>1, <1>5, <2>2, HeadTailProperties
    <2>4. Tail(q)[i - 1] = q[i]
      BY <1>5, <2>3, HeadTailProperties
    <2> QED
      BY <2>1, <2>3, <2>4 DEF HasOutcome
  <1> QED
    BY <1>2, <1>3, <1>4, <1>5

\* What is replayed is a queue of events that tells the status read for every step.
LEMMA ReplayedTells ==
    ASSUME seenRows \in [Steps -> {"none"} \cup StepStatus]
    PROVE  /\ Replayed \in Seq(Event)
           /\ \A i \in 1 .. Len(Replayed) : Known(Replayed[i])
           /\ \A s \in Steps : \A v : Tells(Replayed, s, v, seenRows[s])
  <1> DEFINE n == Cardinality(Steps)
             q == SetToSeq(Steps)
             ev(i) == StepEvent(q[i], seenRows[q[i]])
  <1>1. /\ n \in Nat /\ q \in [1 .. n -> Steps]
        /\ \A x \in Steps : \E i \in 1 .. n : q[i] = x
        /\ \A i, j \in 1 .. n : q[i] = q[j] => i = j
    BY SeqOfSet, StepsAssumption
  <1>2. Replayed = [i \in 1 .. n |-> ev(i)]
    BY DEF Replayed
  <1> HIDE DEF n, q
  <1>3. \A i \in 1 .. n : ev(i) \in Event /\ q[i] \in Steps /\ seenRows[q[i]] \in {"none"} \cup StepStatus
    BY <1>1 DEF StepEvent, Event, EventType
  <1>4. \A i \in 1 .. n : ev(i).type = "step_status" /\ ev(i).step = q[i] /\ ev(i).status = seenRows[q[i]]
    BY DEF StepEvent
  <1> HIDE DEF ev
  <1>5. Replayed \in [1 .. n -> Event]
    BY <1>2, <1>3
  <1>6. Replayed \in Seq(Event) /\ Len(Replayed) = n
    BY <1>1, <1>5
  <1>7. \A i \in 1 .. n : Replayed[i] = ev(i)
    BY <1>2
  <1> HIDE DEF Replayed
  <1>8. \A i \in 1 .. Len(Replayed) : Known(Replayed[i])
    BY <1>3, <1>4, <1>6, <1>7 DEF Known
  <1>9. ASSUME NEW s \in Steps, NEW v PROVE Tells(Replayed, s, v, seenRows[s])
    <2>1. PICK i \in 1 .. n : q[i] = s
      BY <1>1
    <2>2. About(Replayed, s) = {i}
      BY <1>1, <1>4, <1>6, <1>7, <2>1 DEF About
    <2> QED
      BY <1>1, <1>4, <1>7, <2>1, <2>2 DEF Tells
  <1> QED
    BY <1>6, <1>8, <1>9

\* The stages of the handler in their order.
LEMMA Stages ==
    /\ After("subscribe") = "execution" /\ After("execution") = "steps"
    /\ After("steps") = "replay"
  <1>1. /\ Len(Order) = 5
        /\ Order[1] = "subscribe" /\ Order[2] = "execution" /\ Order[3] = "steps"
        /\ Order[4] = "replay" /\ Order[5] = "stream"
    BY DEF Order
  <1>2. \A i \in 2 .. 5 : /\ Order[i - 1] = "subscribe" <=> i = 2
                          /\ Order[i - 1] = "execution" <=> i = 3
                          /\ Order[i - 1] = "steps" <=> i = 4
    <2>1. \A i \in 2 .. 5 : i = 2 \/ i = 3 \/ i = 4 \/ i = 5
      OBVIOUS
    <2> QED
      BY <1>1, <2>1
  <1>3. /\ (CHOOSE i \in 2 .. Len(Order) : Order[i - 1] = "subscribe") = 2
        /\ (CHOOSE i \in 2 .. Len(Order) : Order[i - 1] = "execution") = 3
        /\ (CHOOSE i \in 2 .. Len(Order) : Order[i - 1] = "steps") = 4
    BY <1>1, <1>2
  <1> QED
    BY <1>1, <1>3 DEF After

--------------------------------------------------------------------------------
(***************************************************************************)
(* The invariant holds at first, and every step keeps it.                  *)
(***************************************************************************)
\* The types of the channel, and of what is the page's and its handler's.
ChannelTypes ==
    /\ channel \in {"none", "open", "closed"}
    /\ buffer \in Seq(Event) /\ Len(buffer) <= Capacity
    /\ dropped \subseteq EventType

LiveTypes ==
    /\ handler \in {"subscribe", "execution", "steps", "replay", "stream", "returned"}
    /\ (channel = "open") = (handler \in {"execution", "steps", "replay", "stream"})
    /\ seenExec \in {"none", "running"} \cup Outcomes
    /\ seenRows \in [Steps -> {"none"} \cup StepStatus]
    /\ net \in {"up", "closing", "cut", "broken"}
    /\ page \in {"open", "error", "polling", "closed", "left"}
    /\ shown \in {"none", "running"} \cup Outcomes
    /\ view \in [Steps -> {"none"} \cup StepStatus]

\* The three parts make up the types of the model.
LEMMA TypeParts ==
    /\ TypeOK <=> EngineTypes /\ ChannelTypes /\ LiveTypes
    /\ TypeOK' <=> EngineTypes' /\ ChannelTypes' /\ LiveTypes'
  BY DEF TypeOK, FeedTypeOK, EngineTypes, ChannelTypes, LiveTypes

\* The page is not connected yet, nothing is on its way.
LEMMA InitInvariant == Init => IInv
  <1> SUFFICES ASSUME Init PROVE IInv
    OBVIOUS
  <1>1. handler = "subscribe"
    BY DEF Init, Order
  <1>2. /\ <<>> \in Seq(Event) /\ Len(<<>>) = 0
        /\ \A i \in 1 .. Len(<<>>) : FALSE
    OBVIOUS
  <1>3. FeedTypeOK
    BY <1>2, FeedAssumption DEF Init, FeedInit, FeedTypeOK, StepStatus, Outcomes, EventType
  <1>4. TypeOK
    BY <1>1, <1>3 DEF Init, FeedInit, TypeOK, Outcomes, StepStatus
  <1>5. EventsInv /\ RecordInv /\ HandlerInv
    BY <1>1, <1>2 DEF Init, FeedInit, EventsInv, RecordInv, HandlerInv
  <1>6. ToldInv
    BY <1>1 DEF ToldInv, StepsTold, OutcomeTold
  <1> QED
    BY <1>4, <1>5, <1>6 DEF IInv

\* The failing accesses to the database are counted, up to their bound.
LEMMA AccessCounts ==
    ASSUME lost \in 0 .. MaxLost, UNCHANGED lost \/ AccessFails
    PROVE  /\ lost' \in 0 .. MaxLost
           /\ lost' = 0 => lost = 0 /\ UNCHANGED lost
           /\ AccessFails => lost' # 0
  BY FeedAssumption DEF AccessFails

\* What a publish does to the channel of the page, and to all that is on its way.
LEMMA PublishAdds ==
    ASSUME TypeOK, EventsInv, NEW e \in Event, Publish(e)
    PROVE  /\ UNCHANGED channel /\ dropped \subseteq dropped' /\ dropped' \subseteq EventType
           /\ buffer' \in Seq(Event) /\ Len(buffer') <= Capacity
           /\ \/ buffer' = Append(buffer, e) /\ channel = "open"
              \/ buffer' = buffer /\ (channel = "open" => e.type \in dropped')
           /\ \A i \in 1 .. Len(buffer') :
                 buffer'[i] = e \/ (i \in 1 .. Len(buffer) /\ buffer'[i] = buffer[i])
  <1>1. buffer \in Seq(Event) /\ Len(buffer) <= Capacity /\ Capacity \in Nat
    BY FeedAssumption DEF TypeOK, FeedTypeOK
  <1>2. e.type \in EventType /\ dropped \subseteq EventType
    BY DEF TypeOK, FeedTypeOK, Event
  <1>3. CASE buffer' = Append(buffer, e) /\ Len(buffer) < Capacity
    BY <1>1, <1>2, <1>3 DEF Publish
  <1>4. CASE buffer' = buffer
    BY <1>1, <1>2, <1>4 DEF Publish
  <1> QED
    BY <1>3, <1>4 DEF Publish

\* The events of the engine are events, and about what they are named for.
LEMMA EventKinds ==
    /\ \A s \in Steps, st \in StepStatus :
          /\ StepEvent(s, st) \in Event
          /\ StepEvent(s, st).type = "step_status"
          /\ StepEvent(s, st).step = s /\ StepEvent(s, st).status = st
    /\ \A s \in Steps : LogEvent(s) \in Event /\ LogEvent(s).type = "step_log"
    /\ \A st \in Outcomes :
          /\ ExecutionEvent(st) \in Event
          /\ ExecutionEvent(st).type = "execution_status" /\ ExecutionEvent(st).status = st
  BY DEF StepEvent, LogEvent, ExecutionEvent, Event, EventType

\* The outcome is decided once, and the page loses no more while the engine works.
LEMMA EngineKeepsIntact ==
    ASSUME EngineTypes, UNCHANGED lost \/ AccessFails, dropped \subseteq dropped',
           UNCHANGED liveVars, Intact'
    PROVE  Intact
  BY AccessCounts DEF Intact, EngineTypes, liveVars, pageVars

\* A write of a step's status: it is unsaid from now on, and the row says it unless the
\* access failed.
LEMMA WriteStepKeeps ==
    ASSUME IInv, NEW s \in Steps, WriteStep(s), UNCHANGED liveVars
    PROVE  IInv'
  <1>0. EngineTypes /\ ChannelTypes /\ LiveTypes /\ RecordInv /\ EventsInv /\ HandlerInv
    BY TypeParts DEF IInv
  <1>1. PICK st \in StepStatus :
             /\ outcome = "none"
             /\ phase' = [phase EXCEPT ![s] = st]
             /\ \/ row' = [row EXCEPT ![s] = st] /\ UNCHANGED lost
                \/ AccessFails /\ UNCHANGED row
    <2>1. PICK st \in Following(s) :
             /\ phase' = [phase EXCEPT ![s] = st]
             /\ \/ row' = [row EXCEPT ![s] = st] /\ UNCHANGED lost
                \/ AccessFails /\ UNCHANGED row
      BY DEF WriteStep
    <2>2. phase[s] = "running" => outcome = "none"
      BY <1>0 DEF RecordInv, NoStepRuns
    <2>3. st \in StepStatus /\ outcome = "none"
      BY <2>2 DEF Following, StepStatus
    <2> QED
      BY <2>1, <2>3
  <1>2. /\ unsaid' = unsaid \cup {s} /\ s \notin unsaid
        /\ UNCHANGED <<execRow, outcome, announced, logs, channel, buffer, dropped>>
        /\ UNCHANGED <<handler, seenExec, seenRows, net, wire, page, shown, view>>
    BY DEF WriteStep, channelVars, liveVars, handlerVars, pageVars
  <1>3. /\ lost' \in 0 .. MaxLost
        /\ lost' = 0 => lost = 0 /\ UNCHANGED lost
        /\ AccessFails => lost' # 0
    BY <1>0, <1>1, AccessCounts DEF EngineTypes
  <1>4. EngineTypes'
    BY <1>0, <1>1, <1>2, <1>3 DEF EngineTypes
  <1>5. ChannelTypes' /\ LiveTypes'
    BY <1>0, <1>2 DEF ChannelTypes, LiveTypes, Event
  <1>6. EventsInv' /\ HandlerInv'
    BY <1>0, <1>2 DEF EventsInv, Known, HandlerInv, Connecting, Event
  <1>7. RecordInv'
    BY <1>0, <1>1, <1>2, <1>3 DEF RecordInv
  <1>8. ToldInv'
    <2> SUFFICES ASSUME Intact' PROVE StepsTold' /\ OutcomeTold'
      BY DEF ToldInv
    <2>1. StepsTold /\ OutcomeTold
      BY <1>0, <1>1, <1>2, EngineKeepsIntact DEF IInv, ToldInv
    <2>2. \A r \in Steps \ unsaid' : r \in Steps \ unsaid /\ phase'[r] = phase[r]
      BY <1>0, <1>1, <1>2 DEF EngineTypes
    <2>3. seenExec \notin Outcomes
      BY <1>0, <1>1 DEF HandlerInv, Outcomes
    <2>4. StepsTold'
      BY <1>1, <1>2, <2>1, <2>2, <2>3 DEF StepsTold, Tells, About
    <2>5. OutcomeTold'
      BY <1>2, <2>1 DEF OutcomeTold, HasOutcome
    <2> QED
      BY <2>4, <2>5
  <1> QED
    BY <1>4, <1>5, <1>6, <1>7, <1>8, TypeParts DEF IInv

\* A publication: what was to come, of the step or of the outcome, is on its way to a page
\* that listens.
LEMMA PublishStepKeeps ==
    ASSUME IInv, NEW s \in Steps, PublishStep(s), UNCHANGED liveVars
    PROVE  IInv'
  <1> DEFINE e == StepEvent(s, phase[s])
  <1>0. EngineTypes /\ ChannelTypes /\ LiveTypes /\ RecordInv /\ EventsInv /\ HandlerInv
    BY TypeParts DEF IInv
  <1>1. /\ e \in Event /\ e.type = "step_status" /\ e.step = s /\ e.status = phase[s]
        /\ phase[s] \in StepStatus
    BY <1>0, EventKinds DEF EngineTypes
  <1>2. /\ s \in unsaid /\ unsaid' = unsaid \ {s} /\ Publish(e)
        /\ UNCHANGED <<phase, row, execRow, outcome, announced, logs, lost>>
        /\ UNCHANGED <<handler, seenExec, seenRows, net, wire, page, shown, view>>
    BY DEF PublishStep, liveVars, handlerVars, pageVars
  <1> HIDE DEF e
  <1>3. /\ UNCHANGED channel /\ dropped \subseteq dropped' /\ dropped' \subseteq EventType
        /\ buffer' \in Seq(Event) /\ Len(buffer') <= Capacity
        /\ \/ buffer' = Append(buffer, e) /\ channel = "open"
           \/ buffer' = buffer /\ (channel = "open" => e.type \in dropped')
        /\ \A i \in 1 .. Len(buffer') :
              buffer'[i] = e \/ (i \in 1 .. Len(buffer) /\ buffer'[i] = buffer[i])
    BY <1>1, <1>2, PublishAdds DEF IInv
  <1>4. EngineTypes' /\ ChannelTypes' /\ LiveTypes'
    <2>1. Event' = Event
      BY DEF Event
    <2> QED
      BY <1>0, <1>2, <1>3, <2>1 DEF EngineTypes, ChannelTypes, LiveTypes
  <1>5. EventsInv'
    <2>1. Known(e)
      BY <1>1 DEF Known
    <2> QED
      BY <1>0, <1>2, <1>3, <2>1 DEF EventsInv, Known, Event
  <1>6. HandlerInv' /\ RecordInv'
    <2>1. NoStepRuns' <=> unsaid' = {} /\ \A r \in Steps : phase[r] # "running"
      BY <1>2 DEF NoStepRuns
    <2> QED
      BY <1>0, <1>2, <1>3, <2>1 DEF HandlerInv, Connecting, RecordInv, NoStepRuns
  <1>7. ToldInv'
    <2> SUFFICES ASSUME Intact' PROVE StepsTold' /\ OutcomeTold'
      BY DEF ToldInv
    <2>1. StepsTold /\ OutcomeTold
      BY <1>0, <1>2, <1>3, EngineKeepsIntact DEF IInv, ToldInv
    <2>2. outcome = "none" /\ announced = "none" /\ handler # "returned"
      BY <1>0, <1>2, <2>1 DEF RecordInv, NoStepRuns, StepsTold
    <2>3. ASSUME channel = "open"
          PROVE  buffer' = Append(buffer, e) /\ wire' \o buffer' = Append(wire \o buffer, e)
      <3>1. e.type \notin dropped'
        BY <1>1 DEF Intact
      <3>2. buffer' = Append(buffer, e)
        BY <1>3, <2>3, <3>1
      <3>3. wire \in Seq(Event) /\ buffer \in Seq(Event) /\ wire' = wire
        BY <1>0, <1>2 DEF ChannelTypes, EventsInv
      <3>4. wire \o Append(buffer, e) = Append(wire \o buffer, e)
        BY <1>1, <3>3, ConcatAppend
      <3> QED
        BY <3>2, <3>3, <3>4
    <2>4. ASSUME NEW q \in Seq(Event), NEW v, NEW r \in Steps \ unsaid',
                 r # s => Tells(q, r, v, phase[r])
          PROVE  Tells(Append(q, e), r, v, phase'[r])
      BY <1>1, <1>2, <2>4, TellsAppend
    <2>5. handler \in {"execution", "steps", "replay", "stream"} => channel = "open"
      BY <1>0 DEF LiveTypes
    <2>6. buffer \in Seq(Event) /\ wire \o buffer \in Seq(Event)
      BY <1>0, ConcatProperties DEF ChannelTypes, EventsInv
    <2>7. seenExec \notin Outcomes
      BY <1>0, <2>2 DEF HandlerInv, Outcomes
    <2>8. StepsTold'
      <3>1. ASSUME handler \in {"execution", "steps"}, NEW r \in Steps \ unsaid'
            PROVE  Tells(buffer, r, phase[r], phase[r])'
        <4>1. r # s => Tells(buffer, r, phase[r], phase[r])
          BY <1>2, <2>1, <3>1 DEF StepsTold
        <4>2. buffer' = Append(buffer, e) /\ phase' = phase
          BY <1>2, <2>3, <2>5, <3>1
        <4>3. Tells(Append(buffer, e), r, phase[r], phase'[r])
          BY <2>4, <2>6, <3>1, <4>1
        <4>4. Tells(buffer', r, phase'[r], phase'[r])
          BY <4>2, <4>3
        <4> QED
          BY <4>4 DEF Tells, About
      <3>2. ASSUME handler = "replay", NEW r \in Steps \ unsaid'
            PROVE  Tells(buffer, r, seenRows[r], phase[r])'
        <4>1. r # s => Tells(buffer, r, seenRows[r], phase[r])
          BY <1>2, <2>1, <3>2 DEF StepsTold
        <4> QED
          BY <1>2, <2>3, <2>4, <2>5, <2>6, <3>2, <4>1
      <3>3. ASSUME handler = "stream", NEW r \in Steps \ unsaid'
            PROVE  Tells(wire \o buffer, r, view[r], phase[r])'
        <4>1. r # s => Tells(wire \o buffer, r, view[r], phase[r])
          BY <1>2, <2>1, <3>3 DEF StepsTold
        <4> QED
          BY <1>2, <2>3, <2>4, <2>5, <2>6, <3>3, <4>1
      <3> QED
        BY <1>2, <2>2, <2>7, <3>1, <3>2, <3>3 DEF StepsTold
    <2>9. OutcomeTold'
      BY <1>2, <2>1, <2>2 DEF OutcomeTold
    <2> QED
      BY <2>8, <2>9
  <1> QED
    BY <1>4, <1>5, <1>6, <1>7, TypeParts DEF IInv

\* A log event is about no step's status and no outcome, and may be missed.
LEMMA PublishLogKeeps ==
    ASSUME IInv, NEW s \in Steps, PublishLog(s), UNCHANGED liveVars
    PROVE  IInv'
  <1> DEFINE e == LogEvent(s)
  <1>0. EngineTypes /\ ChannelTypes /\ LiveTypes /\ RecordInv /\ EventsInv /\ HandlerInv
    BY TypeParts DEF IInv
  <1>1. e \in Event /\ e.type = "step_log"
    BY EventKinds
  <1>2. /\ Publish(e) /\ logs' \in [Steps -> 0 .. MaxLogs]
        /\ UNCHANGED <<phase, unsaid, row, execRow, outcome, announced, lost>>
        /\ UNCHANGED <<handler, seenExec, seenRows, net, wire, page, shown, view>>
    BY <1>0, FeedAssumption DEF PublishLog, liveVars, handlerVars, pageVars, EngineTypes
  <1> HIDE DEF e
  <1>3. /\ UNCHANGED channel /\ dropped \subseteq dropped' /\ dropped' \subseteq EventType
        /\ buffer' \in Seq(Event) /\ Len(buffer') <= Capacity
        /\ \/ buffer' = Append(buffer, e) /\ channel = "open"
           \/ buffer' = buffer /\ (channel = "open" => e.type \in dropped')
        /\ \A i \in 1 .. Len(buffer') :
              buffer'[i] = e \/ (i \in 1 .. Len(buffer) /\ buffer'[i] = buffer[i])
    BY <1>1, <1>2, PublishAdds DEF IInv
  <1>4. EngineTypes' /\ ChannelTypes' /\ LiveTypes'
    <2>1. Event' = Event
      BY DEF Event
    <2> QED
      BY <1>0, <1>2, <1>3, <2>1 DEF EngineTypes, ChannelTypes, LiveTypes
  <1>5. EventsInv'
    <2>1. Known(e)
      BY <1>1 DEF Known
    <2> QED
      BY <1>0, <1>2, <1>3, <2>1 DEF EventsInv, Known, Event
  <1>6. HandlerInv' /\ RecordInv'
    BY <1>0, <1>2, <1>3 DEF HandlerInv, Connecting, RecordInv, NoStepRuns
  <1>7. ToldInv'
    <2> SUFFICES ASSUME Intact' PROVE StepsTold' /\ OutcomeTold'
      BY DEF ToldInv
    <2>1. StepsTold /\ OutcomeTold
      BY <1>0, <1>2, <1>3, EngineKeepsIntact DEF IInv, ToldInv
    <2>2. \/ buffer' = Append(buffer, e) /\ wire' \o buffer' = Append(wire \o buffer, e)
          \/ buffer' = buffer /\ wire' \o buffer' = wire \o buffer
      <3>1. wire \in Seq(Event) /\ buffer \in Seq(Event) /\ wire' = wire
        BY <1>0, <1>2 DEF ChannelTypes, EventsInv
      <3>2. wire \o Append(buffer, e) = Append(wire \o buffer, e)
        BY <1>1, <3>1, ConcatAppend
      <3> QED
        BY <1>3, <3>1, <3>2
    <2>3. buffer \in Seq(Event) /\ wire \o buffer \in Seq(Event)
      BY <1>0, ConcatProperties DEF ChannelTypes, EventsInv
    <2>4. \A q \in Seq(Event) : \A r, v, st : Tells(q, r, v, st) => Tells(Append(q, e), r, v, st)
      BY <1>1, TellsAppend
    <2>5. \A q \in Seq(Event) : HasOutcome(q) => HasOutcome(Append(q, e))
      BY <1>1, OutcomeStays
    <2>6. StepsTold'
      <3>1. CASE buffer' = buffer /\ wire' \o buffer' = wire \o buffer
        <4>1. \A r, v, st : /\ Tells(buffer, r, v, st)' <=> Tells(buffer, r, v, st)
                            /\ Tells(wire, r, v, st)' <=> Tells(wire, r, v, st)
                            /\ Tells(wire \o buffer, r, v, st)' <=> Tells(wire \o buffer, r, v, st)
          BY <1>2, <3>1 DEF Tells, About
        <4> QED
          BY <1>2, <2>1, <4>1 DEF StepsTold
      <3>2. CASE buffer' = Append(buffer, e) /\ wire' \o buffer' = Append(wire \o buffer, e)
        <4> DEFINE Told(q, v) == \A r \in Steps \ unsaid : Tells(q, r, v[r], phase[r])
        <4>1. /\ \A v : Told(buffer, v) => Told(Append(buffer, e), v)
              /\ \A v : Told(wire \o buffer, v) => Told(Append(wire \o buffer, e), v)
          BY <2>3, <2>4
        <4> QED
          BY <1>2, <2>1, <3>2, <4>1 DEF StepsTold
      <3> QED
        BY <2>2, <3>1, <3>2
    <2>7. OutcomeTold'
      BY <1>2, <2>1, <2>2, <2>3, <2>5 DEF OutcomeTold
    <2> QED
      BY <2>6, <2>7
  <1> QED
    BY <1>4, <1>5, <1>6, <1>7, TypeParts DEF IInv

\* The outcome is decided while no step runs, and recorded unless the access failed; no page
\* has heard of it.
LEMMA WriteOutcomeKeeps ==
    ASSUME IInv, WriteOutcome, UNCHANGED liveVars
    PROVE  IInv'
  <1>0. EngineTypes /\ ChannelTypes /\ LiveTypes /\ RecordInv /\ EventsInv /\ HandlerInv
    BY TypeParts DEF IInv
  <1>1. /\ outcome = "none" /\ outcome' \in Outcomes /\ NoStepRuns
        /\ \/ execRow' = outcome' /\ UNCHANGED lost
           \/ AccessFails /\ UNCHANGED execRow
        /\ UNCHANGED <<phase, unsaid, row, announced, logs, channel, buffer, dropped>>
        /\ UNCHANGED <<handler, seenExec, seenRows, net, wire, page, shown, view>>
    BY DEF WriteOutcome, channelVars, liveVars, handlerVars, pageVars
  <1>2. /\ lost' \in 0 .. MaxLost
        /\ lost' = 0 => lost = 0 /\ UNCHANGED lost
        /\ AccessFails => lost' # 0
    BY <1>0, <1>1, AccessCounts DEF EngineTypes
  <1>3. execRow = "running" /\ announced = "none"
    BY <1>0, <1>1 DEF RecordInv
  <1>4. EngineTypes' /\ ChannelTypes' /\ LiveTypes'
    <2>1. Event' = Event
      BY DEF Event
    <2> QED
      BY <1>0, <1>1, <1>2, <1>3, <2>1 DEF EngineTypes, ChannelTypes, LiveTypes
  <1>5. EventsInv'
    BY <1>0, <1>1 DEF EventsInv, Known, Event, Outcomes
  <1>6. RecordInv'
    BY <1>0, <1>1, <1>2, <1>3 DEF RecordInv, NoStepRuns, Outcomes
  <1>7. HandlerInv'
    BY <1>0, <1>1 DEF HandlerInv, Connecting
  <1>8. ToldInv'
    <2> SUFFICES ASSUME Intact' PROVE StepsTold' /\ OutcomeTold'
      BY DEF ToldInv
    <2>1. StepsTold /\ OutcomeTold
      BY <1>0, <1>1, EngineKeepsIntact DEF IInv, ToldInv, channelVars
    <2>2. handler # "returned"
      BY <1>1, <2>1 DEF StepsTold
    <2>3. StepsTold'
      BY <1>1, <2>1, <2>2 DEF StepsTold, Tells, About
    <2>4. OutcomeTold'
      BY <1>1, <1>3, <2>2 DEF OutcomeTold
    <2> QED
      BY <2>3, <2>4
  <1> QED
    BY <1>4, <1>5, <1>6, <1>7, <1>8, TypeParts DEF IInv

\* A page that listens has the outcome on its way once it is published.
LEMMA PublishOutcomeKeeps ==
    ASSUME IInv, PublishOutcome, UNCHANGED liveVars
    PROVE  IInv'
  <1> DEFINE e == ExecutionEvent(outcome)
  <1>0. EngineTypes /\ ChannelTypes /\ LiveTypes /\ RecordInv /\ EventsInv /\ HandlerInv
    BY TypeParts DEF IInv
  <1>1. /\ outcome # "none" /\ announced = "none" /\ announced' = outcome /\ Publish(e)
        /\ UNCHANGED <<phase, unsaid, row, execRow, outcome, logs, lost>>
        /\ UNCHANGED <<handler, seenExec, seenRows, net, wire, page, shown, view>>
    BY DEF PublishOutcome, liveVars, handlerVars, pageVars
  <1>2. outcome \in Outcomes /\ e \in Event /\ e.type = "execution_status" /\ e.status = outcome
    BY <1>0, <1>1, EventKinds DEF EngineTypes
  <1> HIDE DEF e
  <1>3. /\ UNCHANGED channel /\ dropped \subseteq dropped' /\ dropped' \subseteq EventType
        /\ buffer' \in Seq(Event) /\ Len(buffer') <= Capacity
        /\ \/ buffer' = Append(buffer, e) /\ channel = "open"
           \/ buffer' = buffer /\ (channel = "open" => e.type \in dropped')
        /\ \A i \in 1 .. Len(buffer') :
              buffer'[i] = e \/ (i \in 1 .. Len(buffer) /\ buffer'[i] = buffer[i])
    BY <1>1, <1>2, PublishAdds DEF IInv
  <1>4. EngineTypes' /\ ChannelTypes' /\ LiveTypes'
    <2>1. Event' = Event
      BY DEF Event
    <2> QED
      BY <1>0, <1>1, <1>3, <2>1 DEF EngineTypes, ChannelTypes, LiveTypes
  <1>5. EventsInv'
    <2>1. Known(e)
      BY <1>2 DEF Known
    <2> QED
      BY <1>0, <1>1, <1>3, <2>1 DEF EventsInv, Known, Event
  <1>6. HandlerInv' /\ RecordInv'
    BY <1>0, <1>1, <1>3 DEF HandlerInv, Connecting, RecordInv, NoStepRuns
  <1>7. ToldInv'
    <2> SUFFICES ASSUME Intact' PROVE StepsTold' /\ OutcomeTold'
      BY DEF ToldInv
    <2>1. StepsTold /\ OutcomeTold
      BY <1>0, <1>1, <1>3, EngineKeepsIntact DEF IInv, ToldInv
    <2>2. ASSUME channel = "open"
          PROVE  buffer' = Append(buffer, e) /\ wire' \o buffer' = Append(wire \o buffer, e)
      <3>1. e.type \notin dropped'
        BY <1>2 DEF Intact
      <3>2. buffer' = Append(buffer, e)
        BY <1>3, <2>2, <3>1
      <3>3. wire \in Seq(Event) /\ buffer \in Seq(Event) /\ wire' = wire
        BY <1>0, <1>1 DEF ChannelTypes, EventsInv
      <3>4. wire \o Append(buffer, e) = Append(wire \o buffer, e)
        BY <1>2, <3>3, ConcatAppend
      <3> QED
        BY <3>2, <3>3, <3>4
    <2>3. buffer \in Seq(Event) /\ wire \o buffer \in Seq(Event)
      BY <1>0, ConcatProperties DEF ChannelTypes, EventsInv
    <2>4. \A q \in Seq(Event) : \A r, v, st : Tells(q, r, v, st) => Tells(Append(q, e), r, v, st)
      BY <1>2, TellsAppend
    <2>5. \A q \in Seq(Event) : HasOutcome(Append(q, e))
      BY <1>2, OutcomeStays
    <2>6. handler \in {"execution", "steps", "replay", "stream"} => channel = "open"
      BY <1>0 DEF LiveTypes
    <2>7. StepsTold'
      BY <1>1, <2>1, <2>2, <2>3, <2>4, <2>6 DEF StepsTold
    <2>8. OutcomeTold'
      BY <1>1, <2>1, <2>2, <2>3, <2>5, <2>6 DEF OutcomeTold
    <2> QED
      BY <2>7, <2>8
  <1> QED
    BY <1>4, <1>5, <1>6, <1>7, TypeParts DEF IInv

\* What the handler, the connection and the page leave alone of the engine.
LEMMA EngineRests ==
    ASSUME EngineTypes, RecordInv, UNCHANGED engineVars, UNCHANGED lost \/ AccessFails
    PROVE  /\ EngineTypes' /\ RecordInv'
           /\ UNCHANGED <<phase, unsaid, row, execRow, outcome, announced>>
           /\ lost' = 0 => lost = 0
           /\ AccessFails => lost' # 0
           /\ \A e \in Event : Known(e) => Known(e)'
  <1>1. UNCHANGED <<phase, unsaid, row, execRow, outcome, announced, logs>>
    BY DEF engineVars
  <1>2. /\ lost' \in 0 .. MaxLost
        /\ lost' = 0 => lost = 0 /\ UNCHANGED lost
        /\ AccessFails => lost' # 0
    BY AccessCounts DEF EngineTypes
  <1> QED
    BY <1>1, <1>2 DEF EngineTypes, RecordInv, NoStepRuns, Known

\* The handler subscribes: nothing is in its channel yet, and nothing is missed from now on.
LEMMA ListenKeeps ==
    ASSUME IInv, Listen
    PROVE  IInv'
  <1>0. EngineTypes /\ ChannelTypes /\ LiveTypes /\ RecordInv /\ EventsInv /\ HandlerInv
    BY TypeParts DEF IInv
  <1>1. /\ handler = "subscribe" /\ handler' = "execution"
        /\ channel = "none" /\ channel' = "open" /\ buffer = <<>>
        /\ UNCHANGED <<buffer, dropped, seenExec, seenRows, net, wire, page, shown, view>>
        /\ UNCHANGED engineVars /\ UNCHANGED lost
    BY <1>0, Stages DEF Listen, Stage, Subscribe, pageVars, HandlerInv
  <1>2. /\ EngineTypes' /\ RecordInv'
        /\ UNCHANGED <<phase, unsaid, row, execRow, outcome, announced>>
    BY <1>0, <1>1, EngineRests
  <1>3. ChannelTypes' /\ LiveTypes' /\ EventsInv'
    BY <1>0, <1>1, <1>2 DEF ChannelTypes, LiveTypes, EventsInv, Known, Event
  <1>4. HandlerInv'
    BY <1>0, <1>1, <1>2 DEF HandlerInv, Connecting
  <1>5. ToldInv'
    <2>1. \A s, st : About(<<>>, s) = {} /\ Tells(<<>>, s, st, st)
      BY DEF Tells, About
    <2> QED
      BY <1>1, <2>1 DEF ToldInv, StepsTold, OutcomeTold
  <1> QED
    BY <1>2, <1>3, <1>4, <1>5, TypeParts DEF IInv

\* An execution that is read as running has its outcome published to the channel later, for
\* it is recorded before.
LEMMA ReadExecutionKeeps ==
    ASSUME IInv, ReadExecution
    PROVE  IInv'
  <1>0. EngineTypes /\ ChannelTypes /\ LiveTypes /\ RecordInv /\ EventsInv /\ HandlerInv
    BY TypeParts DEF IInv
  <1>1. /\ handler = "execution" /\ handler' = "steps" /\ seenExec' = execRow
        /\ UNCHANGED <<channel, buffer, dropped, seenRows, net, wire, page, shown, view>>
        /\ UNCHANGED engineVars /\ UNCHANGED lost
    BY Stages DEF ReadExecution, Stage, pageVars, channelVars
  <1>2. /\ EngineTypes' /\ RecordInv'
        /\ UNCHANGED <<phase, unsaid, row, execRow, outcome, announced>>
    BY <1>0, <1>1, EngineRests
  <1>3. ChannelTypes' /\ LiveTypes' /\ EventsInv'
    BY <1>0, <1>1, <1>2 DEF ChannelTypes, LiveTypes, EngineTypes, EventsInv, Known, Event
  <1>4. HandlerInv'
    BY <1>0, <1>1, <1>2 DEF HandlerInv, Connecting, EngineTypes, RecordInv, Outcomes
  <1>5. ToldInv'
    <2> SUFFICES ASSUME Intact' PROVE StepsTold' /\ OutcomeTold'
      BY DEF ToldInv
    <2>1. StepsTold /\ lost = 0
      BY <1>1, <1>2 DEF IInv, ToldInv, Intact
    <2>2. StepsTold'
      BY <1>1, <1>2, <2>1 DEF StepsTold, Tells, About
    <2>3. announced # "none" => execRow = outcome /\ outcome \in Outcomes
      BY <1>0, <2>1 DEF RecordInv, EngineTypes
    <2>4. OutcomeTold'
      BY <1>1, <1>2, <2>3 DEF OutcomeTold, Outcomes
    <2> QED
      BY <2>2, <2>4
  <1> QED
    BY <1>2, <1>3, <1>4, <1>5, TypeParts DEF IInv

\* The steps' rows are what their statuses are, up to those still to be published.
LEMMA ReadStepsKeeps ==
    ASSUME IInv, ReadSteps
    PROVE  IInv'
  <1>0. EngineTypes /\ ChannelTypes /\ LiveTypes /\ RecordInv /\ EventsInv /\ HandlerInv
    BY TypeParts DEF IInv
  <1>1. /\ handler = "steps" /\ handler' = "replay" /\ seenRows' = row
        /\ UNCHANGED <<channel, buffer, dropped, seenExec, net, wire, page, shown, view>>
        /\ UNCHANGED engineVars /\ UNCHANGED lost
    BY Stages DEF ReadSteps, Stage, pageVars, channelVars
  <1>2. /\ EngineTypes' /\ RecordInv'
        /\ UNCHANGED <<phase, unsaid, row, execRow, outcome, announced>>
    BY <1>0, <1>1, EngineRests
  <1>3. ChannelTypes' /\ LiveTypes' /\ EventsInv'
    <2>1. seenRows' \in [Steps -> {"none"} \cup StepStatus]
      BY <1>0, <1>1 DEF EngineTypes
    <2> QED
      BY <1>0, <1>1, <1>2, <2>1 DEF ChannelTypes, LiveTypes, EventsInv, Known, Event
  <1>4. HandlerInv'
    BY <1>0, <1>1, <1>2 DEF HandlerInv, Connecting
  <1>5. ToldInv'
    <2> SUFFICES ASSUME Intact' PROVE StepsTold' /\ OutcomeTold'
      BY DEF ToldInv
    <2>1. StepsTold /\ OutcomeTold /\ row = phase
      BY <1>0, <1>1, <1>2 DEF IInv, ToldInv, Intact, RecordInv
    <2>2. StepsTold'
      BY <1>1, <1>2, <2>1 DEF StepsTold, Tells, About
    <2>3. OutcomeTold'
      BY <1>1, <1>2, <2>1 DEF OutcomeTold, HasOutcome
    <2> QED
      BY <2>2, <2>3
  <1> QED
    BY <1>2, <1>3, <1>4, <1>5, TypeParts DEF IInv

\* A query that fails leaves the page without what was before, and is counted.
LEMMA ReadFailsKeeps ==
    ASSUME IInv, ReadFails
    PROVE  IInv'
  <1>0. EngineTypes /\ ChannelTypes /\ LiveTypes /\ RecordInv /\ EventsInv /\ HandlerInv
    BY TypeParts DEF IInv
  <1>1. /\ handler \in {"execution", "steps"} /\ handler' = "stream" /\ AccessFails
        /\ UNCHANGED <<channel, buffer, dropped, seenExec, seenRows, net, wire>>
        /\ UNCHANGED <<page, shown, view>> /\ UNCHANGED engineVars
    BY DEF ReadFails, pageVars, channelVars
  <1>2. /\ EngineTypes' /\ RecordInv' /\ lost' # 0
        /\ UNCHANGED <<phase, unsaid, row, execRow, outcome, announced>>
    BY <1>0, <1>1, EngineRests
  <1>3. ChannelTypes' /\ LiveTypes' /\ EventsInv'
    BY <1>0, <1>1, <1>2 DEF ChannelTypes, LiveTypes, EventsInv, Known, Event
  <1>4. HandlerInv'
    BY <1>0, <1>1, <1>2 DEF HandlerInv, Connecting
  <1>5. ToldInv'
    BY <1>2 DEF ToldInv, Intact
  <1> QED
    BY <1>2, <1>3, <1>4, <1>5, TypeParts DEF IInv

\* The rows that were read are followed by what came to the channel meanwhile: older news
\* of a step comes before its last one, which is its status.
LEMMA ReplayKeeps ==
    ASSUME IInv, Replay
    PROVE  IInv'
  <1>0. EngineTypes /\ ChannelTypes /\ LiveTypes /\ RecordInv /\ EventsInv /\ HandlerInv
    BY TypeParts DEF IInv
  <1>1. /\ handler = "replay"
        /\ UNCHANGED <<buffer, dropped, seenExec, seenRows, page, shown, view>>
        /\ UNCHANGED engineVars /\ UNCHANGED lost
    BY DEF Replay, pageVars, channelVars, Unsubscribe
  <1>2. /\ EngineTypes' /\ RecordInv'
        /\ UNCHANGED <<phase, unsaid, row, execRow, outcome, announced>>
        /\ lost' = 0 => lost = 0
        /\ \A e \in Event : Known(e) => Known(e)'
    BY <1>0, <1>1, EngineRests
  <1>3. /\ Replayed \in Seq(Event)
        /\ \A i \in 1 .. Len(Replayed) : Known(Replayed[i])
        /\ \A s \in Steps : \A v : Tells(Replayed, s, v, seenRows[s])
    BY <1>0, ReplayedTells DEF LiveTypes
  <1>4. wire = <<>> /\ net # "closing"
    BY <1>0, <1>1 DEF HandlerInv, Connecting
  <1> DEFINE msgs == IF seenExec \in Outcomes THEN Append(Replayed, ExecutionEvent(seenExec))
                     ELSE Replayed
  <1>5. /\ wire' = IF net = "up" THEN msgs ELSE <<>>
        /\ net' = IF net = "up" /\ seenExec \in Outcomes THEN "closing" ELSE net
        /\ handler' = IF seenExec \in Outcomes THEN "returned" ELSE "stream"
        /\ channel' = IF seenExec \in Outcomes THEN "closed" ELSE channel
    <2>1. msgs \in Seq(Event)
      BY <1>3, EventKinds
    <2>2. <<>> \o msgs = msgs
      BY <2>1
    <2> QED
      BY <1>4, <2>2 DEF Replay, Sent, Unsubscribe, channelVars
  <1>6. seenExec \in Outcomes => /\ seenExec = outcome
                                 /\ ExecutionEvent(outcome) \in Event
                                 /\ ExecutionEvent(outcome).type = "execution_status"
                                 /\ ExecutionEvent(outcome).status = outcome
    BY <1>0, EventKinds DEF HandlerInv, Outcomes
  <1>7. msgs \in Seq(Event) /\ \A i \in 1 .. Len(msgs) : Known(msgs[i])
    <2>1. CASE seenExec \in Outcomes
      <3>1. Known(ExecutionEvent(outcome))
        BY <1>6, <2>1 DEF Known
      <3>2. /\ msgs \in Seq(Event) /\ Len(msgs) = Len(Replayed) + 1
            /\ msgs[Len(Replayed) + 1] = ExecutionEvent(outcome)
            /\ \A i \in 1 .. Len(Replayed) : msgs[i] = Replayed[i]
        BY <1>3, <1>6, <2>1, AppendProperties
      <3>3. Len(Replayed) \in Nat
        BY <1>3
      <3> HIDE DEF msgs
      <3> QED
        BY <1>3, <3>1, <3>2, <3>3
    <2> QED
      BY <1>3, <2>1
  <1> HIDE DEF msgs
  <1>8. ChannelTypes' /\ LiveTypes'
    <2>1. Event' = Event
      BY DEF Event
    <2> QED
      BY <1>0, <1>1, <1>5, <2>1 DEF ChannelTypes, LiveTypes
  <1>9. EventsInv'
    <2>1. Event' = Event
      BY DEF Event
    <2>2. wire' \in Seq(Event) /\ \A i \in 1 .. Len(wire') : wire'[i] \in Event /\ Known(wire'[i])
      BY <1>5, <1>7
    <2>3. \A i \in 1 .. Len(buffer) : buffer[i] \in Event /\ Known(buffer[i])
      BY <1>0 DEF ChannelTypes, EventsInv
    <2> QED
      BY <1>1, <1>2, <2>1, <2>2, <2>3 DEF EventsInv
  <1>10. HandlerInv'
    BY <1>0, <1>1, <1>2, <1>4, <1>5 DEF HandlerInv, Connecting, ChannelTypes, LiveTypes
  <1>11. ToldInv'
    <2> SUFFICES ASSUME Intact' PROVE StepsTold' /\ OutcomeTold'
      BY DEF ToldInv
    <2>1. net = "up" /\ StepsTold /\ OutcomeTold
      BY <1>0, <1>1, <1>2, <1>4, <1>5 DEF IInv, ToldInv, Intact, LiveTypes
    <2>2. buffer \in Seq(Event)
      BY <1>0 DEF ChannelTypes
    <2>3. CASE seenExec \in Outcomes
      <3>1. wire' = Append(Replayed, ExecutionEvent(outcome)) /\ handler' = "returned"
        BY <1>5, <1>6, <2>1, <2>3 DEF msgs
      <3>2. \A s \in Steps : Tells(wire', s, view[s], phase[s])
        BY <1>1, <1>3, <1>6, <2>1, <2>3, <3>1, TellsAppend DEF StepsTold
      <3>3. HasOutcome(wire')
        BY <1>3, <1>6, <2>3, <3>1, OutcomeStays
      <3>4. outcome # "none"
        BY <1>6, <2>3 DEF Outcomes
      <3> QED
        BY <1>1, <1>2, <3>1, <3>2, <3>3, <3>4 DEF StepsTold, OutcomeTold
    <2>4. CASE seenExec \notin Outcomes
      <3>1. wire' = Replayed /\ handler' = "stream"
        BY <1>5, <2>1, <2>4 DEF msgs
      <3>2. \A s \in Steps \ unsaid : Tells(Replayed \o buffer, s, view[s], phase[s])
        BY <1>1, <1>3, <2>1, <2>2, TellsConcat DEF StepsTold
      <3>3. announced # "none" => HasOutcome(Replayed \o buffer)
        <4>1. seenExec = "running"
          BY <1>0, <1>1, <2>4 DEF HandlerInv, EngineTypes, LiveTypes
        <4> QED
          BY <1>1, <1>3, <2>1, <2>2, <4>1, OutcomeStays DEF OutcomeTold
      <3> QED
        BY <1>1, <1>2, <3>1, <3>2, <3>3 DEF StepsTold, OutcomeTold
    <2> QED
      BY <2>3, <2>4
  <1> QED
    BY <1>2, <1>8, <1>9, <1>10, <1>11, TypeParts DEF IInv

\* Forwarding takes an event from the channel to the wire; without a connection the handler
\* gives up.
LEMMA ForwardKeeps ==
    ASSUME IInv, Forward
    PROVE  IInv'
  <1>0. EngineTypes /\ ChannelTypes /\ LiveTypes /\ RecordInv /\ EventsInv /\ HandlerInv
    BY TypeParts DEF IInv
  <1>1. /\ handler = "stream" /\ buffer # <<>> /\ buffer' = Tail(buffer)
        /\ \/ /\ net = "up" /\ wire' = Append(wire, Head(buffer))
              /\ UNCHANGED <<handler, channel>>
           \/ net # "up" /\ handler' = "returned" /\ channel' = "closed" /\ UNCHANGED wire
        /\ UNCHANGED <<dropped, seenExec, seenRows, net, page, shown, view>>
        /\ UNCHANGED engineVars /\ UNCHANGED lost
    BY DEF Forward, pageVars
  <1>2. /\ EngineTypes' /\ RecordInv'
        /\ UNCHANGED <<phase, unsaid, row, execRow, outcome, announced>>
        /\ lost' = 0 => lost = 0
        /\ \A e \in Event : Known(e) => Known(e)'
    BY <1>0, <1>1, EngineRests
  <1>3. wire \in Seq(Event) /\ buffer \in Seq(Event) /\ Event' = Event
    BY <1>0 DEF ChannelTypes, EventsInv, Event
  <1>4. /\ buffer' \in Seq(Event) /\ Len(buffer') = Len(buffer) - 1 /\ Len(buffer) \in Nat \ {0}
        /\ Head(buffer) \in Event /\ Head(buffer) = buffer[1]
        /\ \A i \in 1 .. Len(buffer') : i + 1 \in 1 .. Len(buffer) /\ buffer'[i] = buffer[i + 1]
    BY <1>1, <1>3, HeadTailProperties, EmptySeq
  <1>5. ChannelTypes' /\ LiveTypes'
    <2>1. Len(buffer') <= Capacity
      BY <1>0, <1>4, FeedAssumption DEF ChannelTypes
    <2>2. ChannelTypes'
      BY <1>0, <1>1, <1>3, <1>4, <2>1 DEF ChannelTypes
    <2>3. LiveTypes'
      BY <1>0, <1>1, <1>3 DEF LiveTypes
    <2> QED
      BY <2>2, <2>3
  <1>6. EventsInv'
    <2>1. \A i \in 1 .. Len(buffer') : buffer'[i] \in Event /\ Known(buffer'[i])
      BY SMTT(20), <1>0, <1>3, <1>4 DEF EventsInv
    <2>2. Known(Head(buffer))
      BY <1>0, <1>4 DEF EventsInv
    <2>3. wire' \in Seq(Event) /\ \A i \in 1 .. Len(wire') : wire'[i] \in Event /\ Known(wire'[i])
      <3>1. CASE wire' = wire
        <4>1. \A i \in 1 .. Len(wire) : wire[i] \in Event /\ Known(wire[i])
          BY <1>0, <1>3 DEF EventsInv
        <4> QED
          BY <1>3, <3>1, <4>1
      <3>2. CASE wire' = Append(wire, Head(buffer))
        <4>1. /\ wire' \in Seq(Event) /\ Len(wire') = Len(wire) + 1 /\ Len(wire) \in Nat
              /\ wire'[Len(wire) + 1] = Head(buffer)
              /\ \A i \in 1 .. Len(wire) : wire'[i] = wire[i]
          BY <1>3, <1>4, <3>2, AppendProperties, LenProperties
        <4> QED
          BY SMTT(20), <1>0, <1>3, <1>4, <2>2, <4>1 DEF EventsInv
      <3> QED
        BY <1>1, <3>1, <3>2
    <2> QED
      BY <1>2, <1>3, <2>1, <2>3 DEF EventsInv
  <1>7. HandlerInv'
    BY <1>0, <1>1, <1>2 DEF HandlerInv, Connecting, LiveTypes
  <1>8. ToldInv'
    <2> SUFFICES ASSUME Intact' PROVE StepsTold' /\ OutcomeTold'
      BY DEF ToldInv
    <2>1. net = "up" /\ StepsTold /\ OutcomeTold
      BY <1>0, <1>1, <1>2 DEF IInv, ToldInv, Intact, HandlerInv
    <2>2. wire' \o buffer' = wire \o buffer
      BY <1>1, <1>3, <2>1, ConcatMove
    <2>3. StepsTold'
      BY <1>1, <1>2, <2>1, <2>2 DEF StepsTold
    <2>4. OutcomeTold'
      BY <1>1, <1>2, <2>1, <2>2 DEF OutcomeTold
    <2> QED
      BY <2>3, <2>4
  <1> QED
    BY <1>2, <1>5, <1>6, <1>7, <1>8, TypeParts DEF IInv

\* The page takes the first message: it knows what that says, the rest tells it the same end.
LEMMA OnMessageKeeps ==
    ASSUME IInv, OnMessage
    PROVE  IInv'
  <1> DEFINE e == Head(wire)
  <1>0. EngineTypes /\ ChannelTypes /\ LiveTypes /\ RecordInv /\ EventsInv /\ HandlerInv
    BY TypeParts DEF IInv
  <1>1. /\ page = "open" /\ wire # <<>> /\ wire' = Tail(wire)
        /\ view' = IF e.type = "step_status" THEN [view EXCEPT ![e.step] = e.status] ELSE view
        /\ shown' = IF e.type = "execution_status" THEN e.status ELSE shown
        /\ UNCHANGED <<channel, buffer, dropped, handler, seenExec, seenRows, net, page>>
        /\ UNCHANGED engineVars /\ UNCHANGED lost
    BY DEF OnMessage, ShowsStatus, channelVars, handlerVars
  <1>2. /\ EngineTypes' /\ RecordInv'
        /\ UNCHANGED <<phase, unsaid, row, execRow, outcome, announced>>
        /\ lost' = 0 => lost = 0
        /\ \A f \in Event : Known(f) => Known(f)'
    BY <1>0, <1>1, EngineRests
  <1>3. wire \in Seq(Event) /\ buffer \in Seq(Event) /\ Event' = Event
    BY <1>0 DEF ChannelTypes, EventsInv, Event
  <1>4. /\ wire' \in Seq(Event) /\ e \in Event /\ e = wire[1]
        /\ Len(wire) \in Nat \ {0} /\ Len(wire') = Len(wire) - 1
        /\ \A i \in 1 .. Len(wire') : i + 1 \in 1 .. Len(wire) /\ wire'[i] = wire[i + 1]
    BY <1>1, <1>3, HeadTailProperties, EmptySeq
  <1> HIDE DEF e
  <1>5. Known(e)
    BY <1>0, <1>4 DEF EventsInv
  <1>6. ChannelTypes' /\ LiveTypes'
    <2>1. view' \in [Steps -> {"none"} \cup StepStatus] /\ shown' \in {"none", "running"} \cup Outcomes
      BY <1>0, <1>1, <1>5 DEF LiveTypes, Known
    <2> QED
      BY <1>0, <1>1, <1>3, <2>1 DEF ChannelTypes, LiveTypes
  <1>7. EventsInv'
    <2>1. ASSUME NEW i \in 1 .. Len(wire') PROVE wire'[i] \in Event /\ Known(wire'[i])
      <3>1. i + 1 \in 1 .. Len(wire) /\ wire'[i] = wire[i + 1]
        BY <1>4
      <3> QED
        BY <1>0, <1>3, <3>1, ElementOfSeq DEF EventsInv
    <2>2. \A i \in 1 .. Len(buffer) : buffer[i] \in Event /\ Known(buffer[i])
      BY <1>0, <1>3 DEF EventsInv
    <2> QED
      BY <1>1, <1>2, <1>3, <1>4, <2>1, <2>2 DEF EventsInv
  <1>8. HandlerInv'
    <2>1. handler \notin Connecting
      BY <1>0, <1>1 DEF HandlerInv
    <2>2. shown' \in {"none", outcome}
      BY <1>0, <1>1, <1>5 DEF HandlerInv, Known
    <2> QED
      BY <1>0, <1>1, <1>2, <2>1, <2>2 DEF HandlerInv, Connecting
  <1>9. ToldInv'
    <2> SUFFICES ASSUME Intact' PROVE StepsTold' /\ OutcomeTold'
      BY DEF ToldInv
    <2>1. /\ StepsTold /\ OutcomeTold
          /\ handler \in {"stream", "returned"}
      BY <1>0, <1>1, <1>2 DEF IInv, ToldInv, Intact, HandlerInv, Connecting, LiveTypes
    <2>2. /\ wire \o buffer \in Seq(Event) /\ wire \o buffer # <<>> /\ Head(wire \o buffer) = e
          /\ Tail(wire \o buffer) = wire' \o buffer'
      BY <1>1, <1>3, ConcatTail, ConcatProperties DEF e
    <2>3. ASSUME NEW q \in Seq(Event), q # <<>>, Head(q) = e, NEW s \in Steps,
                 Tells(q, s, view[s], phase[s])
          PROVE  Tells(Tail(q), s, view'[s], phase'[s])
      <3>1. view'[s] = IF Head(q).type = "step_status" /\ Head(q).step = s
                       THEN Head(q).status ELSE view[s]
        BY <1>0, <1>1, <1>5, <2>3 DEF LiveTypes, Known
      <3> QED
        BY <1>2, <2>3, <3>1, TellsTail
    <2>4. StepsTold'
      <3>1. CASE handler = "stream"
        <4>1. ASSUME NEW s \in Steps \ unsaid PROVE Tells(wire' \o buffer', s, view'[s], phase'[s])
          BY <2>1, <2>2, <2>3, <3>1 DEF StepsTold
        <4> QED
          BY <1>1, <1>2, <3>1, <4>1 DEF StepsTold
      <3>2. CASE handler = "returned"
        <4>1. ASSUME NEW s \in Steps PROVE Tells(wire', s, view'[s], phase'[s])
          BY <1>1, <1>3, <2>1, <2>3, <3>2 DEF StepsTold, e
        <4> QED
          BY <1>1, <1>2, <2>1, <3>2, <4>1 DEF StepsTold
      <3> QED
        BY <2>1, <3>1, <3>2
    <2>5. OutcomeTold'
      <3>1. e.type = "execution_status" => shown' = outcome
        BY <1>1, <1>5 DEF Known
      <3>2. HasOutcome(wire \o buffer) => shown' = outcome \/ HasOutcome(wire' \o buffer')
        BY <2>2, <3>1, OutcomeStays
      <3>3. HasOutcome(wire) => shown' = outcome \/ HasOutcome(wire')
        BY <1>1, <1>3, <3>1, OutcomeStays DEF e
      <3>4. shown = outcome => shown' = outcome
        BY <1>1, <3>1
      <3> QED
        BY <1>1, <1>2, <2>1, <3>2, <3>3, <3>4 DEF OutcomeTold
    <2> QED
      BY <2>4, <2>5
  <1> QED
    BY <1>2, <1>6, <1>7, <1>8, <1>9, TypeParts DEF IInv

\* What befalls the connection: a page whose connection broke, or that is left, is told no more.
LEMMA ConnectionKeeps ==
    ASSUME IInv, Break \/ LeavePage
    PROVE  IInv'
  <1>0. EngineTypes /\ ChannelTypes /\ LiveTypes /\ RecordInv /\ EventsInv /\ HandlerInv
    BY TypeParts DEF IInv
  <1>1. /\ net = "up" /\ page = "open" /\ net' \in {"broken", "cut"}
        /\ page' = page \/ page' = "left"
        /\ UNCHANGED <<channel, buffer, dropped, handler, seenExec, seenRows, shown, view>>
        /\ UNCHANGED engineVars /\ UNCHANGED lost
    BY DEF Break, LeavePage, channelVars, handlerVars, pageVars
  <1>2. /\ EngineTypes' /\ RecordInv'
        /\ UNCHANGED <<phase, unsaid, row, execRow, outcome, announced>>
        /\ \A f \in Event : Known(f) => Known(f)'
    BY <1>0, <1>1, EngineRests
  <1>3. wire \in Seq(Event) /\ buffer \in Seq(Event) /\ Event' = Event
    BY <1>0 DEF ChannelTypes, EventsInv, Event
  <1>4. \E k \in 0 .. Len(wire) : wire' = SubSeq(wire, 1, k)
    <2>1. Len(wire) \in Nat /\ SubSeq(wire, 1, 0) = <<>>
      BY <1>3, LenProperties, SubSeqEmpty
    <2>2. LeavePage => wire' = SubSeq(wire, 1, 0) /\ 0 \in 0 .. Len(wire)
      BY <2>1 DEF LeavePage
    <2>3. Break => \E k \in 0 .. Len(wire) : wire' = SubSeq(wire, 1, k)
      BY DEF Break
    <2> QED
      BY <2>2, <2>3
  <1>5. /\ wire' \in Seq(Event) /\ (wire = <<>> => wire' = <<>>)
        /\ \A i \in 1 .. Len(wire') : i \in 1 .. Len(wire) /\ wire'[i] = wire[i]
    BY <1>3, <1>4
  <1>6. ChannelTypes' /\ LiveTypes'
    BY <1>0, <1>1, <1>3 DEF ChannelTypes, LiveTypes
  <1>7. EventsInv'
    <2>1. \A i \in 1 .. Len(wire') : wire'[i] \in Event /\ Known(wire'[i])
      BY <1>0, <1>3, <1>5 DEF EventsInv
    <2>2. \A i \in 1 .. Len(buffer) : buffer[i] \in Event /\ Known(buffer[i])
      BY <1>0, <1>3 DEF EventsInv
    <2> QED
      BY <1>1, <1>2, <1>3, <1>5, <2>1, <2>2 DEF EventsInv
  <1>8. HandlerInv'
    BY <1>0, <1>1, <1>2, <1>5 DEF HandlerInv, Connecting
  <1>9. ToldInv'
    BY <1>1 DEF ToldInv, Intact
  <1> QED
    BY <1>2, <1>6, <1>7, <1>8, <1>9, TypeParts DEF IInv

\* A page that has no connection any more is not told anything; what it shows may be wrong
\* from then on.
LEMMA PageEndsKeeps ==
    ASSUME IInv, OnError \/ OnClose \/ Poll
    PROVE  IInv'
  <1>0. EngineTypes /\ ChannelTypes /\ LiveTypes /\ RecordInv /\ EventsInv /\ HandlerInv
    BY TypeParts DEF IInv
  <1>1. /\ page' \in {"error", "polling", "closed"}
        /\ shown' \in {shown, "failed", execRow}
        /\ UNCHANGED <<channel, buffer, dropped, handler, seenExec, seenRows, net, wire, view>>
        /\ UNCHANGED engineVars /\ UNCHANGED lost
    BY DEF OnError, OnClose, Poll, channelVars, handlerVars
  <1>2. /\ EngineTypes' /\ RecordInv'
        /\ UNCHANGED <<phase, unsaid, row, execRow, outcome, announced>>
    BY <1>0, <1>1, EngineRests
  <1>3. ChannelTypes' /\ LiveTypes'
    <2>1. shown' \in {"none", "running"} \cup Outcomes
      BY <1>0, <1>1 DEF EngineTypes, LiveTypes, Outcomes
    <2> QED
      BY <1>0, <1>1, <2>1 DEF ChannelTypes, LiveTypes, Event
  <1>4. EventsInv' /\ HandlerInv'
    BY <1>0, <1>1, <1>2 DEF EventsInv, Known, Event, HandlerInv, Connecting
  <1>5. ToldInv'
    BY <1>1 DEF ToldInv, Intact
  <1> QED
    BY <1>2, <1>3, <1>4, <1>5, TypeParts DEF IInv

\* Every step keeps the invariant.
LEMMA NextInvariant == IInv /\ [Next]_vars => IInv'
  <1>1. ASSUME IInv, UNCHANGED vars PROVE IInv'
    <2>0. EngineTypes /\ ChannelTypes /\ LiveTypes /\ RecordInv /\ EventsInv /\ HandlerInv /\ ToldInv
      BY <1>1, TypeParts DEF IInv
    <2>1. /\ UNCHANGED engineVars /\ UNCHANGED lost
          /\ UNCHANGED <<channel, buffer, dropped, handler, seenExec, seenRows, net, wire>>
          /\ UNCHANGED <<page, shown, view>>
      BY <1>1 DEF vars, channelVars, liveVars, handlerVars, pageVars
    <2>2. /\ EngineTypes' /\ RecordInv'
          /\ UNCHANGED <<phase, unsaid, row, execRow, outcome, announced>>
      BY <2>0, <2>1, EngineRests
    <2>3. ChannelTypes' /\ LiveTypes' /\ EventsInv' /\ HandlerInv'
      BY <2>0, <2>1, <2>2 DEF ChannelTypes, LiveTypes, EventsInv, Known, Event, HandlerInv, Connecting
    <2>4. ToldInv'
      BY <2>0, <2>1, <2>2 DEF ToldInv, Intact, StepsTold, OutcomeTold
    <2> QED
      BY <2>2, <2>3, <2>4, TypeParts DEF IInv
  <1>2. ASSUME IInv, Engine, UNCHANGED liveVars PROVE IInv'
    BY <1>2, WriteStepKeeps, PublishStepKeeps, PublishLogKeeps, WriteOutcomeKeeps,
       PublishOutcomeKeeps DEF Engine, StepGoroutine
  <1>3. ASSUME IInv, Handler \/ ReadFails PROVE IInv'
    BY <1>3, ListenKeeps, ReadExecutionKeeps, ReadStepsKeeps, ReadFailsKeeps, ReplayKeeps,
       ForwardKeeps DEF Handler
  <1>4. ASSUME IInv, Page \/ Break \/ LeavePage PROVE IInv'
    BY <1>4, OnMessageKeeps, ConnectionKeeps, PageEndsKeeps DEF Page
  <1> QED
    BY <1>1, <1>2, <1>3, <1>4 DEF Next

\* The invariant holds in every reachable state, for every set of steps, channel
\* capacity and number of failing accesses.
THEOREM Invariant == Spec => []IInv
  BY InitInvariant, NextInvariant, PTL DEF Spec

--------------------------------------------------------------------------------
\* Every variable keeps its type, and a handler has a channel exactly while it listens.
THEOREM LiveTypeCorrect == Spec => []TypeOK
  BY Invariant, PTL DEF IInv

\* A page whose connection is in order never shows an outcome that the execution does not
\* have.
THEOREM NoOtherOutcomeShown == Spec => []ShowsNoOtherOutcome
  <1>1. IInv => ShowsNoOtherOutcome
    BY DEF IInv, HandlerInv, ShowsNoOtherOutcome, Terminal, Outcomes
  <1> QED
    BY <1>1, Invariant, PTL

\* Replay and stream together miss nothing: a page that received all there was shows the
\* status of every step and the outcome, however it connected.
THEOREM ViewsConverge == Spec => []ViewConverges
  <1>1. ASSUME IInv PROVE ViewConverges
    <2> SUFFICES ASSUME Quiet, lost = 0, dropped \subseteq {"step_log"}
                 PROVE  /\ shown = announced
                        /\ \A s \in Steps : view[s] = phase[s]
      BY <1>1 DEF ViewConverges
    <2>1. EngineTypes /\ RecordInv /\ EventsInv /\ ToldInv
      BY <1>1, TypeParts DEF IInv
    <2>2. /\ announced = outcome /\ outcome # "none" /\ unsaid = {}
      BY <2>1 DEF Quiet, EngineTypes, RecordInv, NoStepRuns
    <2>3. StepsTold /\ OutcomeTold
      BY <2>1 DEF Quiet, ToldInv, Intact
    <2>4. /\ wire = <<>> /\ <<>> \o <<>> = <<>> /\ Len(<<>>) = 0
          /\ handler = "returned" \/ (handler = "stream" /\ buffer = <<>>)
      BY DEF Quiet
    <2>5. ~HasOutcome(<<>>)
      BY <2>4 DEF HasOutcome
    <2>6. \A s \in Steps : Tells(<<>>, s, view[s], phase[s])
      BY <2>2, <2>3, <2>4 DEF StepsTold
    <2>7. \A s \in Steps : view[s] = phase[s]
      <3>1. \A s : About(<<>>, s) = {}
        BY <2>4 DEF About
      <3> QED
        BY <2>6, <3>1 DEF Tells
    <2>8. shown = outcome
      BY <2>2, <2>3, <2>4, <2>5 DEF OutcomeTold, Quiet
    <2> QED
      BY <2>2, <2>7, <2>8
  <1> QED
    BY <1>1, Invariant, PTL

================================================================================
