----------------------------- MODULE CronScheduler -----------------------------
(***************************************************************************)
(* The cron scheduler (src/internal/trigger/cron.go) beside the handlers   *)
(* that create, update, clone and delete workflows                         *)
(* (src/internal/workflow/handler.go).                                     *)
(*                                                                         *)
(* A handler commits a change of the row first and tells the scheduler     *)
(* afterwards, with the row its own commit returned; others may come       *)
(* between.  The scheduler keeps one entry per workflow, the library one   *)
(* job per entry, and a job that is due calls Execute on a goroutine.      *)
(***************************************************************************)
EXTENDS Naturals, FiniteSets

CONSTANTS Workflows, Handlers,
          Expressions,  \* cron expressions the library can parse
          Unusable,     \* other settings: not enabled, enabled with an empty or a
                        \* malformed expression
          MaxSaves,     \* bound: changes of rows
          MaxFiring,    \* bound: goroutines of one workflow at a time
          MaxCrashes    \* bound: restarts of the server

Unscheduled == "unscheduled"

\* Workflow.trigger_config.
Configs == {"unset"} \cup Unusable \cup Expressions

ASSUME ExpressionsAssumption ==
    Expressions \cap (Unusable \cup {"unset", Unscheduled}) = {}
ASSUME WorkflowsAssumption == IsFiniteSet(Workflows)
ASSUME BoundsAssumption == MaxSaves \in Nat /\ MaxFiring \in Nat /\ MaxCrashes \in Nat

Statuses == {"draft", "active", "archived"}
Row == [status : Statuses, config : Configs]
Unused == [status |-> "unused", config |-> "unset"]    \* an id not given to a workflow yet
Deleted == [status |-> "deleted", config |-> "unset"]

VARIABLES
    rows,      \* the table of workflows
    up,        \* whether the server has started
    entries,   \* CronScheduler.entries: the id of the job and its expression
    jobs,      \* the jobs of the library
    lastID,    \* the id the library gave last
    ticking,   \* whether the library was started
    firing,    \* goroutines of jobs that have not called Execute yet
    pc, told,  \* a handler that has committed: what it has to tell, and about what
    saves, crashes,
    \* History, for the properties only:
    excuses    \* why the schedule of a workflow may differ from its row

schedulerVars == <<entries, jobs, lastID>>
handlerVars == <<pc, told>>
vars == <<rows, up, schedulerVars, ticking, firing, handlerVars, saves, crashes, excuses>>

NoEntry == [id |-> 0, expr |-> Unscheduled]
Idle == [wf |-> "none", row |-> Deleted]

Exists(w) == rows[w].status \in Statuses

Init ==
    /\ rows \in [Workflows -> Row \cup {Unused}]
    /\ up = FALSE
    /\ entries = [w \in Workflows |-> NoEntry]
    /\ jobs = {} /\ lastID = 0 /\ ticking = FALSE
    /\ firing = [w \in Workflows |-> 0]
    /\ pc = [h \in Handlers |-> "idle"]
    /\ told = [h \in Handlers |-> Idle]
    /\ saves = 0 /\ crashes = 0
    /\ excuses = [w \in Workflows |-> {"down"}]

--------------------------------------------------------------------------------
(***************************************************************************)
(* The scheduler.                                                          *)
(***************************************************************************)
\* What register makes of a config: nothing but an expression that can be parsed.
Registered(config) == IF config \in Expressions THEN config ELSE Unscheduled

\* What Sync makes of a row, and Remove of a workflow that is gone.
Wanted(row) ==
    IF row.status \in {"draft", "active"} THEN Registered(row.config) ELSE Unscheduled

Scheduled(w) == entries[w].expr

\* Mutant: the library is not told to forget the job of an entry that is replaced.
Forgotten_Kept(w) == {}

\* Mutant: the job that goes is the one added last.
Forgotten_Last(w) == {j \in jobs : j.id = lastID}

\* The jobs that go when the entry of w does.
Forgotten(w) == {j \in jobs : j.id = entries[w].id}

\* Under the lock: the old entry goes, with its job, and a new one may come.
Replace(w, expr) ==
    LET kept == jobs \ Forgotten(w)
    IN IF expr = Unscheduled
       THEN /\ entries' = [entries EXCEPT ![w] = NoEntry]
            /\ jobs' = kept
            /\ UNCHANGED lastID
       ELSE /\ lastID' = lastID + 1
            /\ entries' = [entries EXCEPT ![w] = [id |-> lastID + 1, expr |-> expr]]
            /\ jobs' = kept \cup {[id |-> lastID + 1, wf |-> w]}

\* Start reads all workflows, whatever their status, and registers each, in the order
\* in which they come; the library counts the jobs.
Start ==
    /\ ~up /\ up' = TRUE /\ ticking' = TRUE
    /\ LET due == {w \in Workflows :
                     Exists(w) /\ Registered(rows[w].config) # Unscheduled}
       IN \E id \in [due -> 1 .. Cardinality(due)] :
             /\ \A v, w \in due : id[v] = id[w] => v = w
             /\ lastID' = Cardinality(due)
             /\ entries' = [w \in Workflows |->
                   IF w \in due THEN [id |-> id[w], expr |-> Registered(rows[w].config)]
                                ELSE NoEntry]
             /\ jobs' = {[id |-> id[w], wf |-> w] : w \in due}
    /\ excuses' = [w \in Workflows |->
                     IF Exists(w) /\ rows[w].status = "archived" THEN {"archived"} ELSE {}]
    /\ UNCHANGED <<rows, firing, handlerVars, saves, crashes>>

\* The query fails; the server logs it and starts all the same.
StartFails ==
    /\ ~up /\ up' = TRUE
    /\ excuses' = [w \in Workflows |-> {"unread"}]
    /\ UNCHANGED <<rows, schedulerVars, ticking, firing, handlerVars, saves, crashes>>

\* A job is due.  The library calls its function on a goroutine of its own.
Fire(j) ==
    /\ ticking /\ j \in jobs
    /\ firing[j.wf] < MaxFiring
    /\ firing' = [firing EXCEPT ![j.wf] = @ + 1]
    /\ UNCHANGED <<rows, up, schedulerVars, ticking, handlerVars, saves, crashes, excuses>>

\* The goroutine calls Execute, which finds the workflow or returns an error.
CallExecute(w) ==
    /\ firing[w] > 0
    /\ firing' = [firing EXCEPT ![w] = @ - 1]
    /\ UNCHANGED <<rows, up, schedulerVars, ticking, handlerVars, saves, crashes, excuses>>

--------------------------------------------------------------------------------
(***************************************************************************)
(* The handlers: a commit, then a call of the scheduler.                   *)
(***************************************************************************)
\* A handler has committed a change of w and has yet to say so.
Pending(w) == \E h \in Handlers : pc[h] # "idle" /\ told[h].wf = w

\* Two handlers of one workflow at once may tell of their changes in either order.
Overlap(w) == IF Pending(w) THEN excuses[w] \cup {"raced"} ELSE {}

Commit(w, row) ==
    /\ up /\ saves < MaxSaves
    /\ saves' = saves + 1
    /\ rows' = [rows EXCEPT ![w] = row]

\* The handler goes on to tell the scheduler, unless the answer of its commit was lost.
Tell(h, w, label) ==
    \/ /\ pc' = [pc EXCEPT ![h] = label]
       /\ told' = [told EXCEPT ![h] = [wf |-> w, row |-> rows'[w]]]
       /\ excuses' = [excuses EXCEPT ![w] = Overlap(w)]
    \/ /\ excuses' = [excuses EXCEPT ![w] = @ \cup {"lost"}]
       /\ UNCHANGED handlerVars

\* Create and Clone: a draft, with the config asked for or that of the original.  The
\* scheduler is not told.
Create(w) ==
    /\ rows[w] = Unused
    /\ \E config \in Configs : Commit(w, [status |-> "draft", config |-> config])
    /\ excuses' = [excuses EXCEPT ![w] = @ \cup {"created"}]
    /\ UNCHANGED <<up, schedulerVars, ticking, firing, handlerVars, crashes>>

\* Update: a status or a config that the request leaves out stays as it is.
Update(h, w) ==
    /\ pc[h] = "idle" /\ Exists(w)
    /\ \E status \in Statuses, config \in (Configs \ {"unset"}) \cup {rows[w].config} :
          Commit(w, [status |-> status, config |-> config])
    /\ Tell(h, w, "sync")
    /\ UNCHANGED <<up, schedulerVars, ticking, firing, crashes>>

Delete(h, w) ==
    /\ pc[h] = "idle" /\ Exists(w)
    /\ Commit(w, Deleted)
    /\ Tell(h, w, "remove")
    /\ UNCHANGED <<up, schedulerVars, ticking, firing, crashes>>

\* Mutant: the handler of a delete does not call the scheduler.
TellScheduler_NotRemove(h) ==
    IF pc[h] = "remove" THEN UNCHANGED schedulerVars
                        ELSE Replace(told[h].wf, Wanted(told[h].row))

\* Sync, with the row that the update returned, or Remove.
TellScheduler(h) == Replace(told[h].wf, Wanted(told[h].row))

Finish(h) ==
    /\ pc[h] # "idle"
    /\ TellScheduler(h)
    /\ pc' = [pc EXCEPT ![h] = "idle"]
    /\ told' = [told EXCEPT ![h] = Idle]
    /\ UNCHANGED <<rows, up, ticking, firing, saves, crashes, excuses>>

\* The server stops or is killed: nothing of it is left but the rows.
Restart ==
    /\ up /\ crashes < MaxCrashes
    /\ crashes' = crashes + 1
    /\ up' = FALSE
    /\ entries' = [w \in Workflows |-> NoEntry]
    /\ jobs' = {} /\ lastID' = 0 /\ ticking' = FALSE
    /\ firing' = [w \in Workflows |-> 0]
    /\ pc' = [h \in Handlers |-> "idle"]
    /\ told' = [h \in Handlers |-> Idle]
    /\ excuses' = [w \in Workflows |-> {"down"}]
    /\ UNCHANGED <<rows, saves>>

Next ==
    \/ Start \/ StartFails \/ Restart
    \/ \E j \in jobs : Fire(j)
    \/ \E w \in Workflows : CallExecute(w) \/ Create(w)
    \/ \E h \in Handlers :
          \/ Finish(h)
          \/ \E w \in Workflows : Update(h, w) \/ Delete(h, w)

Spec == Init /\ [][Next]_vars

\* A handler that has committed goes on, a goroutine that was started runs.  That the
\* server starts again, a job is due or a request comes is not assumed.
FairSpec ==
    /\ Spec
    /\ \A h \in Handlers : WF_vars(Finish(h))
    /\ \A w \in Workflows : WF_vars(CallExecute(w))

--------------------------------------------------------------------------------
(***************************************************************************)
(* Properties.                                                             *)
(***************************************************************************)
\* Types; and the id an entry holds is one the library has given.
TypeOK ==
    /\ rows \in [Workflows -> Row \cup {Unused, Deleted}]
    /\ up \in BOOLEAN /\ ticking \in BOOLEAN
    /\ entries \in [Workflows -> [id : 0 .. lastID, expr : Expressions \cup {Unscheduled}]]
    /\ jobs \subseteq [id : 1 .. lastID, wf : Workflows]
    /\ lastID \in Nat
    /\ firing \in [Workflows -> 0 .. MaxFiring]
    /\ pc \in [Handlers -> {"idle", "sync", "remove"}]
    /\ told \in [Handlers -> [wf : Workflows, row : Row \cup {Deleted}] \cup {Idle}]
    /\ saves \in 0 .. MaxSaves /\ crashes \in 0 .. MaxCrashes
    /\ excuses \in [Workflows ->
          SUBSET {"down", "archived", "unread", "created", "raced", "lost"}]

InStep(w) == Scheduled(w) = Wanted(rows[w])

\* A workflow runs by the schedule in its row and not otherwise (Sync, cron.go:69), but
\* for these: a handler has yet to tell of its change; two handlers told of theirs at
\* once; a commit went unheard; the workflow was created or cloned since the server
\* started, then nothing runs it; it is archived and was not touched since, then its
\* expression does; or the workflows could not be read when the server started.
OutOfStepExplained ==
    up => \A w \in Workflows :
             \/ InStep(w)
             \/ Pending(w)
             \/ excuses[w] \cap {"raced", "lost", "unread"} # {}
             \/ excuses[w] = {"created"} /\ Scheduled(w) = Unscheduled
             \/ excuses[w] = {"archived"} /\ Scheduled(w) = Registered(rows[w].config)

\* Map and library act as one schedule per workflow (cron.go:75-79, 96-104): nothing fires
\* for a workflow that has no entry, so that no job outlives its entry and one that was
\* added twice is found out when its entry goes, and telling of one workflow changes no other.
S == INSTANCE Schedule WITH
        schedule <- [w \in Workflows |-> Scheduled(w)], firing <- firing

KeepsSchedule == S!Spec

\* A workflow that is deleted is left alone in the end (Remove, cron.go:95): no job
\* calls Execute for it any more, unless the delete raced with an update or was lost.
SilentOnceDeleted ==
    \A w \in Workflows :
       rows[w] = Deleted ~> \/ firing[w] = 0 /\ \A j \in jobs : j.wf # w
                            \/ excuses[w] \cap {"raced", "lost"} # {}

================================================================================
