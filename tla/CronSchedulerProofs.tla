-------------------------- MODULE CronSchedulerProofs --------------------------
(***************************************************************************)
(* The cron scheduler for any number of workflows, handlers, saves and     *)
(* restarts.                                                               *)
(***************************************************************************)
EXTENDS CronScheduler, FiniteSetTheorems, TLAPS

--------------------------------------------------------------------------------
(***************************************************************************)
(* The inductive invariant.                                                *)
(***************************************************************************)
\* Entries and jobs name each other.
JobInv ==
    /\ \A w \in Workflows :
          /\ entries[w].id = 0 <=> entries[w].expr = Unscheduled
          /\ entries[w].id # 0 => [id |-> entries[w].id, wf |-> w] \in jobs
    /\ \A j \in jobs : entries[j.wf].id = j.id
    /\ \A v, w \in Workflows :
          entries[v].id = entries[w].id /\ entries[v].id # 0 => v = w

\* While the server is down nothing of the scheduler is left.
DownInv ==
    ~up => /\ entries = [w \in Workflows |-> NoEntry]
           /\ jobs = {} /\ lastID = 0
           /\ firing = [w \in Workflows |-> 0]
           /\ \A h \in Handlers : pc[h] = "idle"

Confused(w) == excuses[w] \cap {"raced", "lost", "unread"} # {}

\* Where nothing was confused, at most one handler has something to tell of a
\* workflow, and that is what the row says.
PendingInv ==
    \A w \in Workflows : \A h \in Handlers :
       pc[h] # "idle" /\ told[h].wf = w /\ ~Confused(w) =>
          /\ excuses[w] = {}
          /\ told[h].row = rows[w]
          /\ \A g \in Handlers : pc[g] # "idle" /\ told[g].wf = w => g = h

\* An id that was not used yet is not scheduled, nor does any handler know of it.
UnusedInv ==
    \A w \in Workflows :
       rows[w].status = "unused" =>
          /\ Scheduled(w) = Unscheduled
          /\ up => excuses[w] \subseteq {"unread"}
          /\ \A h \in Handlers : pc[h] # "idle" => told[h].wf # w

ToldInv ==
    \A h \in Handlers :
       pc[h] # "idle" => told[h] \in [wf : Workflows, row : Row \cup {Deleted}]

IInv ==
    /\ TypeOK /\ JobInv /\ DownInv /\ PendingInv /\ UnusedInv /\ ToldInv
    /\ OutOfStepExplained

\* When the server has not started yet, the invariant holds.
LEMMA InitInvariant == Init => IInv
  <1> SUFFICES ASSUME Init PROVE IInv
    OBVIOUS
  <1>1. TypeOK
    <2>1. rows \in [Workflows -> Row \cup {Unused, Deleted}]
      BY DEF Init
    <2>2. entries \in [Workflows -> [id : 0 .. lastID, expr : Expressions \cup {Unscheduled}]]
      BY DEF Init, NoEntry
    <2>3. /\ jobs \subseteq [id : 1 .. lastID, wf : Workflows]
          /\ firing \in [Workflows -> 0 .. MaxFiring]
          /\ saves \in 0 .. MaxSaves /\ crashes \in 0 .. MaxCrashes
      BY BoundsAssumption DEF Init
    <2> QED
      BY <2>1, <2>2, <2>3 DEF Init, TypeOK
  <1>2. JobInv /\ DownInv
    BY DEF Init, JobInv, DownInv, NoEntry
  <1>3. PendingInv /\ ToldInv /\ UnusedInv
    BY DEF Init, PendingInv, ToldInv, UnusedInv, Scheduled, NoEntry
  <1> QED
    BY <1>1, <1>2, <1>3 DEF IInv, OutOfStepExplained, Init

\* A start registers every workflow that asks for it, and nothing else.
LEMMA StartStep == IInv /\ Start => IInv'
  <1> SUFFICES ASSUME IInv, Start PROVE IInv'
    OBVIOUS
  <1> DEFINE due == {w \in Workflows :
                       Exists(w) /\ Registered(rows[w].config) # Unscheduled}
  <1>1. PICK id \in [due -> 1 .. Cardinality(due)] :
           /\ \A v, w \in due : id[v] = id[w] => v = w
           /\ lastID' = Cardinality(due)
           /\ entries' = [w \in Workflows |->
                 IF w \in due THEN [id |-> id[w], expr |-> Registered(rows[w].config)]
                              ELSE NoEntry]
           /\ jobs' = {[id |-> id[w], wf |-> w] : w \in due}
    BY DEF Start
  <1>2. Cardinality(due) \in Nat
    BY WorkflowsAssumption, FS_Subset, FS_CardinalityType
  <1>3. \A w \in due : Registered(rows[w].config) \in Expressions
    BY DEF Registered
  <1> HIDE DEF due
  <1>4. /\ rows' = rows /\ firing' = firing /\ pc' = pc /\ told' = told
        /\ saves' = saves /\ crashes' = crashes /\ up' = TRUE /\ ticking' = TRUE
    BY DEF Start, handlerVars
  <1>5. \A w \in Workflows :
           excuses'[w] = IF Exists(w) /\ rows[w].status = "archived" THEN {"archived"} ELSE {}
    BY DEF Start
  <1>6. \A h \in Handlers : pc[h] = "idle"
    BY DEF IInv, DownInv, Start
  <1>7. TypeOK'
    <2>1. entries' \in [Workflows -> [id : 0 .. lastID', expr : Expressions \cup {Unscheduled}]]
      BY <1>1, <1>2, <1>3 DEF NoEntry
    <2>2. jobs' \subseteq [id : 1 .. lastID', wf : Workflows]
      BY <1>1, <1>2 DEF due
    <2>3. excuses' \in [Workflows ->
             SUBSET {"down", "archived", "unread", "created", "raced", "lost"}]
      BY DEF Start
    <2> QED
      BY <1>1, <1>2, <1>4, <2>1, <2>2, <2>3 DEF IInv, TypeOK
  <1>8. JobInv'
    <2>1. \A w \in Workflows : w \in due => entries'[w].id = id[w] /\ id[w] > 0
      BY <1>1, <1>2
    <2>2. \A w \in Workflows : w \notin due => entries'[w] = NoEntry
      BY <1>1
    <2>3. \A w \in Workflows :
             w \in due => entries'[w].expr = Registered(rows[w].config)
      BY <1>1
    <2>4. \A w \in due : Registered(rows[w].config) # Unscheduled
      BY DEF due
    <2>5. \A w \in Workflows : entries'[w].id = 0 <=> entries'[w].expr = Unscheduled
      BY <2>1, <2>2, <2>3, <2>4 DEF NoEntry
    <2>6. \A w \in Workflows :
             entries'[w].id # 0 => [id |-> entries'[w].id, wf |-> w] \in jobs'
      BY <1>1, <2>1, <2>2 DEF NoEntry
    <2>7. \A j \in jobs' : entries'[j.wf].id = j.id
      BY <1>1, <2>1 DEF due
    <2>8. \A v, w \in Workflows :
             entries'[v].id = entries'[w].id /\ entries'[v].id # 0 => v = w
      BY <1>1, <2>1, <2>2 DEF NoEntry
    <2> QED
      BY <2>5, <2>6, <2>7, <2>8 DEF JobInv
  <1>9. OutOfStepExplained'
    <2> SUFFICES ASSUME NEW w \in Workflows
                 PROVE  \/ InStep(w)'
                        \/ excuses'[w] = {"archived"} /\ Scheduled(w)' = Registered(rows'[w].config)
      BY DEF OutOfStepExplained
    <2>1. rows[w] \in Row \cup {Unused, Deleted}
      BY DEF IInv, TypeOK
    <2>2. Scheduled(w)' = IF w \in due THEN Registered(rows[w].config) ELSE Unscheduled
      BY <1>1 DEF Scheduled, NoEntry
    <2>3. CASE Exists(w)
      <3>1. Scheduled(w)' = Registered(rows[w].config)
        BY <2>2, <2>3 DEF due
      <3> QED
        BY <3>1, <2>1, <2>3, <1>4, <1>5 DEF InStep, Wanted, Exists, Statuses
    <2>4. CASE ~Exists(w)
      BY <2>1, <2>2, <2>4, <1>4 DEF InStep, Wanted, Exists, Statuses, due
    <2> QED
      BY <2>3, <2>4
  <1>10. UnusedInv'
    <2> SUFFICES ASSUME NEW w \in Workflows, rows[w].status = "unused"
                 PROVE  Scheduled(w)' = Unscheduled /\ excuses'[w] = {}
      BY <1>4, <1>6 DEF UnusedInv
    <2>1. ~Exists(w)
      BY DEF Exists, Statuses
    <2> QED
      BY <1>1, <1>5, <2>1 DEF Scheduled, NoEntry, due
  <1>11. PendingInv' /\ ToldInv' /\ DownInv'
    BY <1>4, <1>6 DEF PendingInv, ToldInv, DownInv
  <1> QED
    BY <1>7, <1>8, <1>9, <1>10, <1>11 DEF IInv

\* What a handler tells changes the entry of its workflow and that one's job only.
LEMMA ReplaceKeepsJobs ==
  ASSUME TypeOK, JobInv, NEW w \in Workflows, NEW e \in Expressions \cup {Unscheduled},
         Replace(w, e)
  PROVE  /\ JobInv'
         /\ lastID' \in Nat
         /\ entries' \in [Workflows -> [id : 0 .. lastID', expr : Expressions \cup {Unscheduled}]]
         /\ jobs' \subseteq [id : 1 .. lastID', wf : Workflows]
         /\ \A v \in Workflows : Scheduled(v)' = IF v = w THEN e ELSE Scheduled(v)
  <1> USE DEF TypeOK
  <1>1. \A j \in jobs : j.id = entries[w].id <=> j.wf = w
    BY DEF JobInv
  <1>2. CASE e = Unscheduled
    <2>1. /\ entries' = [entries EXCEPT ![w] = NoEntry]
          /\ jobs' = {j \in jobs : j.wf # w}
          /\ lastID' = lastID
      BY <1>1, <1>2 DEF Replace, Forgotten
    <2>2. JobInv'
      BY <2>1 DEF JobInv, NoEntry
    <2> QED
      BY <2>1, <2>2, <1>2 DEF NoEntry, Scheduled
  <1>3. CASE e # Unscheduled
    <2>1. /\ entries' = [entries EXCEPT ![w] = [id |-> lastID + 1, expr |-> e]]
          /\ jobs' = {j \in jobs : j.wf # w} \cup {[id |-> lastID + 1, wf |-> w]}
          /\ lastID' = lastID + 1
      BY <1>1, <1>3 DEF Replace, Forgotten
    <2>2. JobInv'
      <3>1. \A v \in Workflows : v # w => entries'[v] = entries[v]
        BY <2>1
      <3>2. entries'[w] = [id |-> lastID + 1, expr |-> e]
        BY <2>1
      <3>3. \A v \in Workflows : entries[v].id \in 0 .. lastID
        OBVIOUS
      <3>4. \A v \in Workflows : entries'[v].id = 0 <=> entries'[v].expr = Unscheduled
        <4> SUFFICES ASSUME NEW v \in Workflows
                     PROVE  entries'[v].id = 0 <=> entries'[v].expr = Unscheduled
          OBVIOUS
        <4>1. CASE v = w
          <5>1. lastID + 1 # 0
            OBVIOUS
          <5> QED
            BY <3>2, <4>1, <5>1, <1>3
        <4>2. CASE v # w
          BY <3>1, <4>2 DEF JobInv
        <4> QED
          BY <4>1, <4>2
      <3>5. \A v \in Workflows :
               entries'[v].id # 0 => [id |-> entries'[v].id, wf |-> v] \in jobs'
        BY <2>1, <3>1, <3>2 DEF JobInv
      <3>6. \A j \in jobs' : entries'[j.wf].id = j.id
        BY <2>1, <3>1, <3>2 DEF JobInv
      <3>7. \A u, v \in Workflows :
               entries'[u].id = entries'[v].id /\ entries'[u].id # 0 => u = v
        BY <3>1, <3>2, <3>3 DEF JobInv
      <3> QED
        BY <3>4, <3>5, <3>6, <3>7 DEF JobInv
    <2>3. entries' \in [Workflows -> [id : 0 .. lastID', expr : Expressions \cup {Unscheduled}]]
      BY <2>1
    <2>4. jobs' \subseteq [id : 1 .. lastID', wf : Workflows]
      BY <2>1
    <2>5. \A v \in Workflows : Scheduled(v)' = IF v = w THEN e ELSE Scheduled(v)
      BY <2>1 DEF Scheduled
    <2>6. lastID' \in Nat
      BY <2>1
    <2> QED
      BY <2>2, <2>3, <2>4, <2>5, <2>6
  <1> QED
    BY <1>2, <1>3

\* A handler tells what it has committed, and nobody else has if nothing was confused.
LEMMA FinishStep == IInv /\ (\E h \in Handlers : Finish(h)) => IInv'
  <1> SUFFICES ASSUME IInv, NEW h \in Handlers, Finish(h) PROVE IInv'
    OBVIOUS
  <1> DEFINE w == told[h].wf
             row == told[h].row
  <1>1. w \in Workflows /\ row \in Row \cup {Deleted}
    BY DEF IInv, ToldInv, Finish
  <1>2. Wanted(row) \in Expressions \cup {Unscheduled}
    BY DEF Wanted, Registered
  <1>3. /\ JobInv'
        /\ lastID' \in Nat
        /\ entries' \in [Workflows -> [id : 0 .. lastID', expr : Expressions \cup {Unscheduled}]]
        /\ jobs' \subseteq [id : 1 .. lastID', wf : Workflows]
        /\ \A v \in Workflows : Scheduled(v)' = IF v = w THEN Wanted(row) ELSE Scheduled(v)
    <2> HIDE DEF w, row
    <2>1. Replace(w, Wanted(row))
      BY DEF Finish, TellScheduler, w, row
    <2> QED
      BY <1>1, <1>2, <2>1, ReplaceKeepsJobs DEF IInv
  <1>4. /\ pc' = [pc EXCEPT ![h] = "idle"] /\ told' = [told EXCEPT ![h] = Idle]
        /\ rows' = rows /\ up' = up /\ ticking' = ticking /\ firing' = firing
        /\ saves' = saves /\ crashes' = crashes /\ excuses' = excuses
        /\ pc[h] # "idle"
    BY DEF Finish
  <1>5. TypeOK'
    BY <1>3, <1>4 DEF IInv, TypeOK
  <1>6. up
    BY <1>4 DEF IInv, DownInv
  <1>7. PendingInv' /\ ToldInv'
    BY <1>4 DEF IInv, TypeOK, PendingInv, ToldInv, Confused
  <1>8. UnusedInv'
    <2>1. rows[w].status # "unused"
      BY <1>1, <1>4 DEF IInv, UnusedInv
    <2> QED
      BY <1>3, <1>4, <2>1 DEF IInv, TypeOK, UnusedInv
  <1>9. OutOfStepExplained'
    <2> SUFFICES ASSUME NEW v \in Workflows, ~Confused(v), ~Pending(v)'
                 PROVE  \/ InStep(v)'
                        \/ excuses[v] = {"created"} /\ Scheduled(v)' = Unscheduled
                        \/ excuses[v] = {"archived"} /\ Scheduled(v)' = Registered(rows[v].config)
      BY <1>4 DEF OutOfStepExplained, Confused
    <2>1. CASE v = w
      <3>1. row = rows[w]
        BY <1>1, <1>4, <2>1 DEF IInv, PendingInv
      <3> QED
        BY <1>3, <1>4, <2>1, <3>1 DEF InStep
    <2>2. CASE v # w
      <3>1. ~Pending(v)
        BY <1>4, <2>2 DEF IInv, TypeOK, Pending
      <3> QED
        BY <1>3, <1>4, <1>6, <2>2, <3>1 DEF IInv, OutOfStepExplained, InStep, Confused
    <2> QED
      BY <2>1, <2>2
  <1> QED
    BY <1>3, <1>5, <1>6, <1>7, <1>8, <1>9, <1>4 DEF IInv, DownInv

\* Steps that leave rows, entries, handlers and excuses alone.
LEMMA FiringStep ==
  IInv /\ ((\E j \in jobs : Fire(j)) \/ (\E w \in Workflows : CallExecute(w))) => IInv'
  <1> SUFFICES ASSUME IInv,
                      (\E j \in jobs : Fire(j)) \/ (\E w \in Workflows : CallExecute(w))
               PROVE  IInv'
    OBVIOUS
  <1>1. /\ rows' = rows /\ up' = up /\ ticking' = ticking /\ entries' = entries
        /\ jobs' = jobs /\ lastID' = lastID /\ pc' = pc /\ told' = told
        /\ saves' = saves /\ crashes' = crashes /\ excuses' = excuses
    BY DEF Fire, CallExecute, schedulerVars, handlerVars
  <1>2. firing' \in [Workflows -> 0 .. MaxFiring]
    <2>1. CASE \E j \in jobs : Fire(j)
      BY <2>1, BoundsAssumption DEF IInv, TypeOK, Fire
    <2>2. CASE \E w \in Workflows : CallExecute(w)
      BY <2>2, BoundsAssumption DEF IInv, TypeOK, CallExecute
    <2> QED
      BY <2>1, <2>2
  <1>3. up
    BY DEF IInv, TypeOK, DownInv, Fire, CallExecute
  <1>4. TypeOK'
    BY <1>1, <1>2 DEF IInv, TypeOK
  <1>5. JobInv' /\ PendingInv' /\ UnusedInv' /\ ToldInv' /\ DownInv'
    BY <1>1, <1>3 DEF IInv, JobInv, PendingInv, UnusedInv, ToldInv, DownInv, Confused, Scheduled
  <1>6. OutOfStepExplained'
    BY <1>1 DEF IInv, OutOfStepExplained, InStep, Pending, Scheduled
  <1> QED
    BY <1>4, <1>5, <1>6 DEF IInv

\* A start that cannot read the workflows excuses everything.
LEMMA StartFailsStep == IInv /\ StartFails => IInv'
  <1> SUFFICES ASSUME IInv, StartFails PROVE IInv'
    OBVIOUS
  <1>1. /\ rows' = rows /\ up' = TRUE /\ ticking' = ticking /\ entries' = entries
        /\ jobs' = jobs /\ lastID' = lastID /\ pc' = pc /\ told' = told
        /\ saves' = saves /\ crashes' = crashes /\ firing' = firing
        /\ excuses' = [w \in Workflows |-> {"unread"}]
    BY DEF StartFails, schedulerVars, handlerVars
  <1>2. TypeOK'
    BY <1>1 DEF IInv, TypeOK
  <1>3. JobInv' /\ PendingInv' /\ UnusedInv' /\ ToldInv' /\ DownInv'
    BY <1>1 DEF IInv, JobInv, PendingInv, UnusedInv, ToldInv, DownInv, Confused, Scheduled
  <1>4. OutOfStepExplained'
    BY <1>1 DEF OutOfStepExplained
  <1> QED
    BY <1>2, <1>3, <1>4 DEF IInv

\* Nothing of a server that stops is left.
LEMMA RestartStep == IInv /\ Restart => IInv'
  <1> SUFFICES ASSUME IInv, Restart PROVE IInv'
    OBVIOUS
  <1> USE DEF Restart
  <1>1. TypeOK'
    <2>1. /\ entries' \in [Workflows -> [id : 0 .. lastID', expr : Expressions \cup {Unscheduled}]]
          /\ jobs' \subseteq [id : 1 .. lastID', wf : Workflows]
      BY DEF NoEntry
    <2>2. /\ firing' \in [Workflows -> 0 .. MaxFiring]
          /\ crashes' \in 0 .. MaxCrashes
          /\ told' \in [Handlers -> [wf : Workflows, row : Row \cup {Deleted}] \cup {Idle}]
      BY BoundsAssumption DEF IInv, TypeOK
    <2> QED
      BY <2>1, <2>2 DEF IInv, TypeOK
  <1>2. JobInv' /\ DownInv'
    BY DEF JobInv, DownInv, NoEntry
  <1>3. PendingInv' /\ ToldInv' /\ UnusedInv'
    BY DEF PendingInv, ToldInv, UnusedInv, Scheduled, NoEntry
  <1> QED
    BY <1>1, <1>2, <1>3 DEF IInv, OutOfStepExplained

\* A workflow that was just created runs by no schedule.
LEMMA CreateStep == IInv /\ (\E w \in Workflows : Create(w)) => IInv'
  <1> SUFFICES ASSUME IInv, NEW w \in Workflows, Create(w) PROVE IInv'
    OBVIOUS
  <1>1. PICK config \in Configs : Commit(w, [status |-> "draft", config |-> config])
    BY DEF Create
  <1> DEFINE row == [status |-> "draft", config |-> config]
  <1>2. /\ up /\ up' = up /\ ticking' = ticking /\ entries' = entries
        /\ jobs' = jobs /\ lastID' = lastID /\ pc' = pc /\ told' = told
        /\ crashes' = crashes /\ firing' = firing
        /\ saves < MaxSaves /\ saves' = saves + 1
        /\ rows' = [rows EXCEPT ![w] = row] /\ rows[w] = Unused
        /\ excuses' = [excuses EXCEPT ![w] = @ \cup {"created"}]
    BY <1>1 DEF Commit, Create, schedulerVars, handlerVars
  <1>3. row \in Row
    BY DEF Row, Statuses
  <1> HIDE DEF row
  <1>4. TypeOK'
    <2>1. rows' \in [Workflows -> Row \cup {Unused, Deleted}]
      BY <1>2, <1>3 DEF IInv, TypeOK
    <2>2. saves' \in 0 .. MaxSaves
      BY <1>2, BoundsAssumption DEF IInv, TypeOK
    <2>3. excuses' \in [Workflows ->
             SUBSET {"down", "archived", "unread", "created", "raced", "lost"}]
      BY <1>2 DEF IInv, TypeOK
    <2> QED
      BY <1>2, <2>1, <2>2, <2>3 DEF IInv, TypeOK
  <1>5. JobInv' /\ DownInv' /\ ToldInv'
    BY <1>2 DEF IInv, JobInv, DownInv, ToldInv
  <1>6. \A h \in Handlers : pc[h] # "idle" => told[h].wf # w
    BY <1>2 DEF IInv, UnusedInv, Unused
  <1>7. rows'[w].status = "draft" /\ \A v \in Workflows : v # w =>
           rows'[v] = rows[v] /\ excuses'[v] = excuses[v]
    BY <1>2 DEF IInv, TypeOK, row
  <1>8. PendingInv'
    BY <1>2, <1>6, <1>7 DEF IInv, PendingInv, Confused
  <1>9. UnusedInv'
    BY <1>2, <1>7 DEF IInv, UnusedInv, Scheduled
  <1>10. OutOfStepExplained'
    <2> SUFFICES ASSUME NEW v \in Workflows
                 PROVE  \/ InStep(v)'
                        \/ Pending(v)'
                        \/ Confused(v)'
                        \/ excuses'[v] = {"created"} /\ Scheduled(v)' = Unscheduled
                        \/ /\ excuses'[v] = {"archived"}
                           /\ Scheduled(v)' = Registered(rows'[v].config)
      BY DEF OutOfStepExplained, Confused
    <2>1. CASE v # w
      BY <1>2, <1>7, <2>1
         DEF IInv, OutOfStepExplained, InStep, Pending, Scheduled, Confused
    <2>2. CASE v = w
      <3>1. Scheduled(w) = Unscheduled /\ Scheduled(w)' = Unscheduled
        BY <1>2 DEF IInv, UnusedInv, Unused, Scheduled
      <3>2. excuses[w] \subseteq {"unread"} /\ excuses'[w] = excuses[w] \cup {"created"}
        BY <1>2 DEF IInv, TypeOK, UnusedInv, Unused
      <3>3. excuses'[w] = {"created"} \/ Confused(w)'
        BY <3>2 DEF Confused
      <3> QED
        BY <2>2, <3>1, <3>3
    <2> QED
      BY <2>1, <2>2
  <1> QED
    BY <1>4, <1>5, <1>8, <1>9, <1>10 DEF IInv

\* An update and a delete: the row changes, and the handler has it to tell, unless it
\* does not know of it.
LEMMA ChangeStep ==
  ASSUME IInv, NEW h \in Handlers, NEW w \in Workflows, NEW row \in Row \cup {Deleted},
         NEW label \in {"sync", "remove"},
         pc[h] = "idle", Exists(w), Commit(w, row), Tell(h, w, label),
         UNCHANGED <<up, schedulerVars, ticking, firing, crashes>>
  PROVE  IInv'
  <1>1. /\ up /\ up' = up /\ ticking' = ticking /\ entries' = entries
        /\ jobs' = jobs /\ lastID' = lastID
        /\ crashes' = crashes /\ firing' = firing
        /\ saves < MaxSaves /\ saves' = saves + 1
        /\ rows' = [rows EXCEPT ![w] = row]
    BY DEF Commit, schedulerVars
  <1>2. rows'[w] = row /\ \A v \in Workflows : v # w => rows'[v] = rows[v]
    BY <1>1 DEF IInv, TypeOK
  <1>3. \A v \in Workflows : v # w => excuses'[v] = excuses[v]
    BY DEF Tell, IInv, TypeOK
  <1>4. row.status # "unused"
    BY DEF Row, Statuses, Deleted
  <1>5. JobInv' /\ DownInv'
    BY <1>1 DEF IInv, JobInv, DownInv
  <1>6. /\ rows' \in [Workflows -> Row \cup {Unused, Deleted}]
        /\ saves' \in 0 .. MaxSaves
    BY <1>1, BoundsAssumption DEF IInv, TypeOK
  <1>7. CASE /\ pc' = [pc EXCEPT ![h] = label]
             /\ told' = [told EXCEPT ![h] = [wf |-> w, row |-> rows'[w]]]
             /\ excuses' = [excuses EXCEPT ![w] = Overlap(w)]
    <2>1. excuses'[w] = Overlap(w)
      BY <1>7 DEF IInv, TypeOK
    <2>2. /\ pc'[h] = label /\ told'[h] = [wf |-> w, row |-> row]
          /\ \A g \in Handlers : g # h => pc'[g] = pc[g] /\ told'[g] = told[g]
      BY <1>2, <1>7 DEF IInv, TypeOK
    <2>3. TypeOK'
      <3>1. excuses' \in [Workflows ->
               SUBSET {"down", "archived", "unread", "created", "raced", "lost"}]
        BY <1>7 DEF IInv, TypeOK, Overlap
      <3>2. /\ pc' \in [Handlers -> {"idle", "sync", "remove"}]
            /\ told' \in [Handlers -> [wf : Workflows, row : Row \cup {Deleted}] \cup {Idle}]
        BY <1>2, <1>7 DEF IInv, TypeOK
      <3> QED
        BY <1>1, <1>6, <3>1, <3>2 DEF IInv, TypeOK
    <2>4. Confused(w)' \/ (excuses'[w] = {} /\ ~Pending(w))
      BY <2>1 DEF Overlap, Confused
    <2>5. PendingInv'
      <3> SUFFICES ASSUME NEW v \in Workflows, NEW g \in Handlers,
                          pc'[g] # "idle", told'[g].wf = v, ~Confused(v)'
                   PROVE  /\ excuses'[v] = {}
                          /\ told'[g].row = rows'[v]
                          /\ \A k \in Handlers : pc'[k] # "idle" /\ told'[k].wf = v => k = g
        BY DEF PendingInv
      <3>1. CASE v = w
        BY <1>2, <2>2, <2>4, <3>1 DEF Pending
      <3>2. CASE v # w
        <4>1. g # h /\ pc[g] # "idle" /\ told[g].wf = v /\ ~Confused(v)
          BY <1>3, <2>2, <3>2 DEF Confused
        <4>2. \A k \in Handlers : pc'[k] # "idle" /\ told'[k].wf = v =>
                                      pc[k] # "idle" /\ told[k].wf = v
          BY <2>2, <3>2
        <4> QED
          BY <1>2, <1>3, <2>2, <3>2, <4>1, <4>2 DEF IInv, PendingInv
      <3> QED
        BY <3>1, <3>2
    <2>6. UnusedInv'
      BY <1>1, <1>2, <1>3, <1>4, <2>2 DEF IInv, UnusedInv, Scheduled
    <2>7. ToldInv'
      BY <2>2 DEF IInv, ToldInv
    <2>8. OutOfStepExplained'
      <3>1. Pending(w)'
        BY <2>2 DEF Pending
      <3>2. \A v \in Workflows : v # w /\ Pending(v) => Pending(v)'
        BY <2>2 DEF Pending
      <3> QED
        BY <1>1, <1>2, <1>3, <3>1, <3>2
           DEF IInv, OutOfStepExplained, InStep, Scheduled
    <2> QED
      BY <1>5, <2>3, <2>5, <2>6, <2>7, <2>8 DEF IInv
  <1>8. CASE /\ excuses' = [excuses EXCEPT ![w] = @ \cup {"lost"}]
             /\ UNCHANGED handlerVars
    <2>1. pc' = pc /\ told' = told
      BY <1>8 DEF handlerVars
    <2>2. "lost" \in excuses'[w]
      BY <1>8 DEF IInv, TypeOK
    <2>3. TypeOK'
      <3>1. excuses' \in [Workflows ->
               SUBSET {"down", "archived", "unread", "created", "raced", "lost"}]
        BY <1>8 DEF IInv, TypeOK
      <3> QED
        BY <1>1, <1>6, <2>1, <3>1 DEF IInv, TypeOK
    <2>4. PendingInv'
      BY <1>2, <1>3, <2>1, <2>2 DEF IInv, PendingInv, Confused
    <2>5. UnusedInv' /\ ToldInv'
      BY <1>1, <1>2, <1>3, <1>4, <2>1 DEF IInv, UnusedInv, ToldInv, Scheduled
    <2>6. OutOfStepExplained'
      BY <1>1, <1>2, <1>3, <2>1, <2>2
         DEF IInv, OutOfStepExplained, InStep, Scheduled, Pending
    <2> QED
      BY <1>5, <2>3, <2>4, <2>5, <2>6 DEF IInv
  <1> QED
    BY <1>7, <1>8 DEF Tell

\* The invariant is inductive.
LEMMA NextInvariant == IInv /\ [Next]_vars => IInv'
  <1> SUFFICES ASSUME IInv, [Next]_vars PROVE IInv'
    OBVIOUS
  <1>1. CASE Start
    BY <1>1, StartStep
  <1>2. CASE StartFails
    BY <1>2, StartFailsStep
  <1>3. CASE Restart
    BY <1>3, RestartStep
  <1>4. CASE (\E j \in jobs : Fire(j)) \/ (\E w \in Workflows : CallExecute(w))
    BY <1>4, FiringStep
  <1>5. CASE \E w \in Workflows : Create(w)
    BY <1>5, CreateStep
  <1>6. CASE \E h \in Handlers : Finish(h)
    BY <1>6, FinishStep
  <1>7. ASSUME NEW h \in Handlers, NEW w \in Workflows, Update(h, w) PROVE IInv'
    <2>1. PICK status \in Statuses, config \in (Configs \ {"unset"}) \cup {rows[w].config} :
             Commit(w, [status |-> status, config |-> config])
      BY <1>7 DEF Update
    <2>2. rows[w].config \in Configs
      BY DEF IInv, TypeOK, Row, Unused, Deleted, Configs
    <2>3. [status |-> status, config |-> config] \in Row
      BY <2>2 DEF Row
    <2> QED
      BY <1>7, <2>1, <2>3, ChangeStep DEF Update
  <1>8. ASSUME NEW h \in Handlers, NEW w \in Workflows, Delete(h, w) PROVE IInv'
    BY <1>8, ChangeStep DEF Delete
  <1>9. CASE UNCHANGED vars
    <2>1. /\ rows' = rows /\ up' = up /\ ticking' = ticking /\ entries' = entries
          /\ jobs' = jobs /\ lastID' = lastID /\ pc' = pc /\ told' = told
          /\ saves' = saves /\ crashes' = crashes /\ excuses' = excuses /\ firing' = firing
      BY <1>9 DEF vars, schedulerVars, handlerVars
    <2>2. TypeOK' /\ JobInv' /\ PendingInv' /\ UnusedInv' /\ ToldInv' /\ DownInv'
      BY <2>1 DEF IInv, TypeOK, JobInv, PendingInv, UnusedInv, ToldInv, DownInv, Confused, Scheduled
    <2>3. OutOfStepExplained'
      BY <2>1 DEF IInv, OutOfStepExplained, InStep, Pending, Scheduled
    <2> QED
      BY <2>2, <2>3 DEF IInv
  <1> QED
    BY <1>1, <1>2, <1>3, <1>4, <1>5, <1>6, <1>7, <1>8, <1>9 DEF Next

\* The invariant holds in every reachable state.
LEMMA AlwaysIInv == Spec => []IInv
  BY InitInvariant, NextInvariant, PTL DEF Spec

--------------------------------------------------------------------------------
(***************************************************************************)
(* What the runs check, for every instance.                                *)
(***************************************************************************)
\* Types, and that an entry holds an id the library has given.
THEOREM CronTypeCorrect == Spec => []TypeOK
  BY AlwaysIInv, PTL DEF IInv

\* A workflow runs by the schedule in its row or there is a reason why it does not.
THEOREM ScheduleExplained == Spec => []OutOfStepExplained
  BY AlwaysIInv, PTL DEF IInv

\* Entries and jobs together are one schedule per workflow: what a handler tells
\* changes that of its workflow, and no job fires but by a schedule in force.
THEOREM KeepsOneSchedule == Spec => KeepsSchedule
  <1> DEFINE bar == [w \in Workflows |-> Scheduled(w)]
  <1>1. Init => S!Init
    BY DEF Init, S!Init, Scheduled, NoEntry, Unscheduled
  <1>2. IInv /\ [Next]_vars => [S!Next]_(S!scheduleVars)
    <2> SUFFICES ASSUME IInv, [Next]_vars PROVE S!Next \/ UNCHANGED S!scheduleVars
      OBVIOUS
    <2>1. ASSUME entries' \in [Workflows -> [id : 0 .. lastID', expr : Expressions \cup {Unscheduled}]],
                 firing' = [w \in Workflows |-> 0]
          PROVE  S!Next
      <3>1. bar' \in [Workflows -> Expressions \cup {Unscheduled}]
        BY <2>1 DEF Scheduled
      <3> QED
        BY <2>1, <3>1 DEF S!Next, S!Reload
    <2>2. IInv'
      BY NextInvariant
    <2>3. CASE Start
      <3>1. firing' = [w \in Workflows |-> 0]
        BY <2>3 DEF Start, IInv, DownInv
      <3> QED
        BY <2>1, <2>2, <3>1 DEF IInv, TypeOK
    <2>4. CASE Restart
      BY <2>1, <2>2, <2>4 DEF IInv, TypeOK, Restart
    <2>5. CASE StartFails \/ UNCHANGED vars
      BY <2>5 DEF StartFails, vars, schedulerVars, S!scheduleVars, Scheduled
    <2>6. ASSUME NEW j \in jobs, Fire(j) PROVE S!Next
      <3>1. j.wf \in Workflows /\ j.id # 0
        BY DEF IInv, TypeOK
      <3>2. bar[j.wf] # Unscheduled
        BY <3>1 DEF IInv, JobInv, Scheduled
      <3>3. bar' = bar
        BY <2>6 DEF Fire, schedulerVars, Scheduled
      <3> QED
        BY <2>6, <3>1, <3>2, <3>3 DEF S!Next, S!Fire, Fire
    <2>7. ASSUME NEW w \in Workflows, CallExecute(w) PROVE S!Next
      <3>1. bar' = bar
        BY <2>7 DEF CallExecute, schedulerVars, Scheduled
      <3> QED
        BY <2>7, <3>1 DEF S!Next, S!Call, CallExecute
    <2>8. CASE \E w \in Workflows : Create(w) \/ \E h \in Handlers : Update(h, w) \/ Delete(h, w)
      BY <2>8 DEF Create, Update, Delete, schedulerVars, S!scheduleVars, Scheduled
    <2>9. ASSUME NEW h \in Handlers, Finish(h) PROVE S!Next
      <3> DEFINE w == told[h].wf
                 e == Wanted(told[h].row)
      <3>1. w \in Workflows /\ e \in Expressions \cup {Unscheduled}
        BY <2>9 DEF IInv, ToldInv, Finish, Wanted, Registered
      <3>2. Replace(w, e)
        BY <2>9 DEF Finish, TellScheduler
      <3> HIDE DEF w, e
      <3>3. \A v \in Workflows : Scheduled(v)' = IF v = w THEN e ELSE Scheduled(v)
        BY <3>1, <3>2, ReplaceKeepsJobs DEF IInv
      <3>4. bar' = [bar EXCEPT ![w] = e]
        BY <3>1, <3>3
      <3> QED
        BY <2>9, <3>1, <3>4 DEF S!Next, S!Tell, Finish
    <2> QED
      BY <2>3, <2>4, <2>5, <2>6, <2>7, <2>8, <2>9 DEF Next
  <1> QED
    BY <1>1, <1>2, AlwaysIInv, PTL DEF Spec, KeepsSchedule, S!Spec

================================================================================
