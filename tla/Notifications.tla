----------------------------- MODULE Notifications -----------------------------
(***************************************************************************)
(* Notifications of one workflow (src/internal/notification): the settings *)
(* that an update of the workflow replaces row by row                      *)
(* (src/internal/workflow/handler.go:292), the goroutine that each         *)
(* execution starts when it ends (Dispatch), and the marks of the reader.  *)
(*                                                                         *)
(* A goroutine has 15 seconds for all settings; a webhook that does not    *)
(* answer takes 5 of them.  Time is counted in such calls.                 *)
(***************************************************************************)
EXTENDS Naturals, Sequences, FiniteSets

CONSTANTS Executions, Handlers,
          Lists,       \* the lists of settings that pages send
          Budget,      \* slow webhooks until the time of a goroutine is over; 3 in the code
          MaxUpdates,  \* bound: updates
          MaxFaults,   \* bound: accesses of the database that fail
          MaxCrashes   \* bound: restarts

Channels == {"in_app", "email", "webhook"}

\* What a page may send: the channels in the list are not validated by the handler.
Setting ==
    [enabled : BOOLEAN, channel : Channels \cup {"unknown"},
     notifyOn : {"failure", "success", "all"}]

Outcomes == {"completed", "failed", "cancelled"}

ASSUME ListsAssumption == Lists \subseteq Seq(Setting)
ASSUME BudgetAssumption == Budget \in Nat \ {0}
ASSUME BoundsAssumption ==
    MaxUpdates \in Nat /\ MaxFaults \in Nat /\ MaxCrashes \in Nat

VARIABLES
    exists,            \* the workflow has not been deleted
    settings,          \* rows: the update they come from, the place in its list, the setting
    pc, list, number,  \* an update: what comes next, what is left of its list, its number
    updates,
    outcome, long,     \* of an execution; whether its error is longer than a message may be
    sender,            \* its goroutine: "none", "load", "send", "done"
    left, spent,       \* the settings it has still to look at, the time it has used
    notes,             \* rows: the execution, the setting, the status; how many they are
    faults, crashes,
    \* History, for the properties only:
    settled,           \* the update whose list the settings are, 0 if that is not known
    sent,              \* the lists of the updates
    alone,             \* whether an update was neither met by another nor hit by a failure
    excused            \* whether a goroutine was hit by a failure, a restart or a delete

updateVars == <<settings, pc, list, number, updates, settled, sent, alone>>
senderVars == <<outcome, long, sender, left, spent>>
vars == <<exists, updateVars, senderVars, notes, faults, crashes, excused>>

Init ==
    /\ exists = TRUE
    /\ settings = {}
    /\ pc = [h \in Handlers |-> "idle"]
    /\ list = [h \in Handlers |-> <<>>]
    /\ number = [h \in Handlers |-> 0]
    /\ updates = 0
    /\ outcome = [e \in Executions |-> "running"]
    /\ long = [e \in Executions |-> FALSE]
    /\ sender = [e \in Executions |-> "none"]
    /\ left = [e \in Executions |-> {}]
    /\ spent = [e \in Executions |-> 0]
    /\ notes = {}
    /\ faults = 0 /\ crashes = 0
    /\ settled = 0
    /\ sent = <<>>
    /\ alone = [h \in Handlers |-> FALSE]
    /\ excused = [e \in Executions |-> FALSE]

AccessFails == faults < MaxFaults /\ faults' = faults + 1

--------------------------------------------------------------------------------
(***************************************************************************)
(* Update, after the workflow itself is saved.                             *)
(***************************************************************************)
Busy(h) == pc[h] # "idle"

BeginUpdate(h) ==
    /\ exists /\ ~Busy(h) /\ updates < MaxUpdates
    /\ \E l \in Lists :
          /\ list' = [list EXCEPT ![h] = l]
          /\ sent' = Append(sent, l)
    /\ updates' = updates + 1
    /\ number' = [number EXCEPT ![h] = updates + 1]
    /\ pc' = [pc EXCEPT ![h] = "clear"]
    /\ alone' = [g \in Handlers |->
                   IF g = h THEN \A k \in Handlers : ~Busy(k) ELSE alone[g] /\ ~Busy(g)]
    /\ UNCHANGED <<exists, settings, senderVars, notes, faults, crashes, settled, excused>>

\* An update has created its last row, or failed to.
Finished(h, clean) ==
    /\ pc' = [pc EXCEPT ![h] = "idle"]
    /\ settled' = IF clean THEN number[h] ELSE 0

Continued(h, clean) ==
    IF list'[h] = <<>> THEN Finished(h, clean)
    ELSE pc' = [pc EXCEPT ![h] = "create"] /\ UNCHANGED settled

\* Mutant: what is not in the new list stays.
Kept_All == settings

\* The rows that stay when the settings are cleared.
Kept == {}

\* Whether the delete succeeds is not looked at.
ClearSettings(h) ==
    /\ pc[h] = "clear"
    /\ UNCHANGED list
    /\ \/ /\ settings' = Kept
          /\ Continued(h, alone[h])
          /\ UNCHANGED <<faults, alone>>
       \/ /\ AccessFails
          /\ Continued(h, FALSE)
          /\ alone' = [alone EXCEPT ![h] = FALSE]
          /\ UNCHANGED settings
    /\ UNCHANGED <<exists, number, updates, sent, senderVars, notes, crashes, excused>>

\* The row of a setting: what follows from the update and the place in its list.
RowOf(u, i) == [update |-> u, place |-> i, set |-> sent[u][i]]

\* A row that cannot be created is logged and the next one is tried.
CreateSetting(h) ==
    /\ pc[h] = "create"
    /\ list' = [list EXCEPT ![h] = Tail(@)]
    /\ \/ /\ exists /\ Head(list[h]).channel \in Channels
          /\ settings' = settings \cup
                {RowOf(number[h], Len(sent[number[h]]) - Len(list[h]) + 1)}
          /\ Continued(h, alone[h])
          /\ UNCHANGED <<faults, alone>>
       \/ /\ Head(list[h]).channel \notin Channels
          /\ Continued(h, alone[h])
          /\ UNCHANGED <<settings, faults, alone>>
       \/ /\ IF exists THEN AccessFails ELSE UNCHANGED faults
          /\ Continued(h, FALSE)
          /\ alone' = [alone EXCEPT ![h] = FALSE]
          /\ UNCHANGED settings
    /\ UNCHANGED <<exists, number, updates, sent, senderVars, notes, crashes, excused>>

--------------------------------------------------------------------------------
(***************************************************************************)
(* Dispatch.                                                               *)
(***************************************************************************)
\* Mutant: everything but a success counts as a failure.
shouldNotify_NotSuccess(notifyOn, status) ==
    \/ notifyOn = "all"
    \/ notifyOn = "failure" /\ status # "completed"
    \/ notifyOn = "success" /\ status = "completed"

shouldNotify(notifyOn, status) ==
    \/ notifyOn = "all"
    \/ notifyOn = "failure" /\ status = "failed"
    \/ notifyOn = "success" /\ status = "completed"

\* The execution has ended; the goroutine starts.
Dispatch(e) ==
    /\ outcome[e] = "running"
    /\ \E status \in Outcomes :
          /\ outcome' = [outcome EXCEPT ![e] = status]
          /\ \E b \in {FALSE, status = "failed"} : long' = [long EXCEPT ![e] = b]
    /\ sender' = [sender EXCEPT ![e] = "load"]
    /\ UNCHANGED <<exists, updateVars, left, spent, notes, faults, crashes, excused>>

LoadSettings(e) ==
    /\ sender[e] = "load"
    /\ \/ /\ left' = [left EXCEPT ![e] = {r \in settings : r.set.enabled}]
          /\ sender' = [sender EXCEPT ![e] = "send"]
          /\ UNCHANGED <<faults, excused>>
       \/ /\ AccessFails
          /\ sender' = [sender EXCEPT ![e] = "done"]
          /\ excused' = [excused EXCEPT ![e] = TRUE]
          /\ UNCHANGED left
    /\ UNCHANGED <<exists, updateVars, outcome, long, spent, notes, crashes>>

\* Mutant: the first setting that does not apply ends the loop.
Rest_Stops(e, r) ==
    IF shouldNotify(r.set.notifyOn, outcome[e]) THEN left[e] \ {r} ELSE {}

\* What is left to look at after a setting.
Rest(e, r) == left[e] \ {r}

InTime(e) == spent[e] < Budget

\* dispatchInApp: the message must fit, the workflow be there, and the time not be over.
AddNote(e, r) ==
    /\ r.set.channel = "in_app"
    /\ \/ /\ InTime(e) /\ ~long[e] /\ exists
          /\ notes' = notes \cup {[id |-> Cardinality(notes) + 1, execution |-> e,
                                   setting |-> r, status |-> "unread"]}
          /\ UNCHANGED <<faults, excused>>
       \/ /\ ~InTime(e) \/ long[e] \/ ~exists
          /\ UNCHANGED <<notes, faults, excused>>
       \/ /\ AccessFails
          /\ excused' = [excused EXCEPT ![e] = TRUE]
          /\ UNCHANGED notes
    /\ UNCHANGED spent

\* dispatchWebhook: answered, or given up; nothing is called when the time is over.
CallWebhook(e, r) ==
    /\ r.set.channel = "webhook"
    /\ \/ UNCHANGED spent
       \/ InTime(e) /\ spent' = [spent EXCEPT ![e] = @ + 1]
    /\ UNCHANGED <<notes, faults, excused>>

\* The rows come in any order.  No sender exists for e-mail.
Send(e) ==
    /\ sender[e] = "send"
    /\ \E r \in left[e] :
          /\ left' = [left EXCEPT ![e] = Rest(e, r)]
          /\ \/ /\ shouldNotify(r.set.notifyOn, outcome[e])
                /\ AddNote(e, r) \/ CallWebhook(e, r)
             \/ /\ \/ ~shouldNotify(r.set.notifyOn, outcome[e])
                   \/ r.set.channel = "email"
                /\ UNCHANGED <<spent, notes, faults, excused>>
    /\ UNCHANGED <<exists, updateVars, outcome, long, sender, crashes>>

Return(e) ==
    /\ sender[e] = "send" /\ left[e] = {}
    /\ sender' = [sender EXCEPT ![e] = "done"]
    /\ UNCHANGED <<exists, updateVars, outcome, long, left, spent, notes>>
    /\ UNCHANGED <<faults, crashes, excused>>

--------------------------------------------------------------------------------
(***************************************************************************)
(* The reader of the notifications, a delete, a restart.                   *)
(***************************************************************************)
Read(n) == [n EXCEPT !.status = "read"]

MarkRead ==
    /\ \E n \in notes : notes' = (notes \ {n}) \cup {Read(n)}
    /\ UNCHANGED <<exists, updateVars, senderVars, faults, crashes, excused>>

MarkAllRead ==
    /\ notes # {} /\ notes' = {Read(n) : n \in notes}
    /\ UNCHANGED <<exists, updateVars, senderVars, faults, crashes, excused>>

\* The delete of the workflow takes settings and notifications with it.
DeleteWorkflow ==
    /\ exists /\ exists' = FALSE
    /\ settings' = {} /\ notes' = {}
    /\ settled' = 0
    /\ alone' = [h \in Handlers |-> FALSE]
    /\ excused' = [e \in Executions |-> TRUE]
    /\ UNCHANGED <<pc, list, number, updates, sent, senderVars, faults, crashes>>

\* Nobody waits for handlers or goroutines that are not done.
Restart ==
    /\ crashes < MaxCrashes /\ crashes' = crashes + 1
    /\ pc' = [h \in Handlers |-> "idle"]
    /\ list' = [h \in Handlers |-> <<>>]
    /\ settled' = IF \E h \in Handlers : Busy(h) THEN 0 ELSE settled
    /\ alone' = [h \in Handlers |-> FALSE]
    /\ sender' = [e \in Executions |-> "done"]
    /\ outcome' = [e \in Executions |-> IF outcome[e] = "running" THEN "lost" ELSE outcome[e]]
    /\ left' = [e \in Executions |-> {}]
    /\ excused' = [e \in Executions |-> excused[e] \/ sender[e] # "done"]
    /\ UNCHANGED <<exists, settings, number, updates, long, spent, notes, faults, sent>>

Update(h) == ClearSettings(h) \/ CreateSetting(h)
Goroutine(e) == LoadSettings(e) \/ Send(e) \/ Return(e)

Next ==
    \/ \E h \in Handlers : BeginUpdate(h) \/ Update(h)
    \/ \E e \in Executions : Dispatch(e) \/ Goroutine(e)
    \/ MarkRead \/ MarkAllRead \/ DeleteWorkflow \/ Restart

Spec == Init /\ [][Next]_vars

\* A goroutine that was started goes on; nothing else has to happen.
FairSpec == Spec /\ \A e \in Executions : WF_vars(Goroutine(e))

--------------------------------------------------------------------------------
(***************************************************************************)
(* Properties.                                                             *)
(***************************************************************************)
SettingRow == [update : 1 .. MaxUpdates, place : Nat \ {0}, set : Setting]
Note ==
    [id : Nat \ {0}, execution : Executions, setting : SettingRow, status : {"unread", "read"}]

UpdateTypes ==
    /\ exists \in BOOLEAN
    /\ settings \subseteq SettingRow
    /\ pc \in [Handlers -> {"idle", "clear", "create"}]
    /\ list \in [Handlers -> Seq(Setting)]
    /\ updates \in 0 .. MaxUpdates
    /\ number \in [Handlers -> 0 .. updates]
    /\ sent \in Seq(Lists) /\ Len(sent) = updates
    /\ settled \in 0 .. updates
    /\ alone \in [Handlers -> BOOLEAN]

SenderTypes ==
    /\ outcome \in [Executions -> Outcomes \cup {"running", "lost"}]
    /\ long \in [Executions -> BOOLEAN]
    /\ sender \in [Executions -> {"none", "load", "send", "done"}]
    /\ left \in [Executions -> SUBSET SettingRow]
    /\ spent \in [Executions -> 0 .. Budget]
    /\ notes \subseteq Note
    /\ faults \in 0 .. MaxFaults /\ crashes \in 0 .. MaxCrashes
    /\ excused \in [Executions -> BOOLEAN]

\* Every variable has its type: a row is one a page has sent, and no goroutine waits for
\* webhooks after its 15 seconds (dispatch.go:23).
TypeOK == UpdateTypes /\ SenderTypes

\* When no update is under way, the settings are the list of one of them, each place
\* once and without the channels that do not exist (handler.go:292), unless updates met
\* or an access failed.
SettingsOfOneUpdate ==
    settled # 0 /\ (\A h \in Handlers : ~Busy(h)) =>
       settings = {RowOf(settled, i) :
                     i \in {j \in DOMAIN sent[settled] : sent[settled][j].channel \in Channels}}

\* A notification follows from a setting that asks for the outcome of its execution
\* (dispatch.go:49), and none is sent twice for one setting.
NotifiedAsAsked ==
    /\ \A n \in notes :
          /\ n.setting.set.enabled /\ n.setting.set.channel = "in_app"
          /\ \/ n.setting.set.notifyOn = "all"
             \/ <<n.setting.set.notifyOn, outcome[n.execution]>>
                   \in {<<"failure", "failed">>, <<"success", "completed">>}
    /\ \A n, m \in notes :
          n.execution = m.execution /\ n.setting = m.setting => n = m

\* The rows that may ask for a notification in the application.
Askers ==
    {r \in UNION {{[update |-> u, place |-> i, set |-> l[i]] : i \in DOMAIN l} :
                      u \in 1 .. MaxUpdates, l \in Lists} :
        r.set.enabled /\ r.set.channel = "in_app"}

\* Who asked to be notified when an execution ends is notified, unless the setting was
\* replaced, the error is too long for a message, webhooks that do not answer used up
\* the time of all (dispatch.go:23, 115), or an access failed, the workflow was deleted or
\* the server stopped.
NotifiedInTheEnd ==
    \A e \in Executions : \A r \in Askers :
       /\ sender[e] = "load" /\ r \in settings
       /\ shouldNotify(r.set.notifyOn, outcome[e])
       ~> \/ \E n \in notes : n.execution = e /\ n.setting = r
          \/ r \notin settings
          \/ long[e] \/ ~InTime(e) \/ excused[e]

================================================================================
