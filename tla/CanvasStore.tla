------------------------------ MODULE CanvasStore ------------------------------
(***************************************************************************)
(* The canvas of a workflow in the database: SaveCanvas, Delete and Clone  *)
(* (src/internal/workflow) beside the admission of an execution            *)
(* (src/internal/engine/executor.go), which reads the canvas and adds      *)
(* records that refer to it.                                               *)
(*                                                                         *)
(* An operation is a sequence of statements.  Those from the first DELETE  *)
(* to Commit are a transaction of PostgreSQL at its default level, READ    *)
(* COMMITTED: every statement sees what is committed when it starts, waits *)
(* for rows that others hold, and fails if it breaks a foreign key or a    *)
(* unique id.  Statements outside a transaction commit by themselves.      *)
(***************************************************************************)
EXTENDS Naturals, Sequences, FiniteSets, SequencesExt

CONSTANTS Operations,  \* requests, each for one operation; a clone gets its name
          Requests,    \* what they ask for: functions to "save", "delete", "execute", "clone"
          w, other,    \* the workflow they are about, and one they are not about
          Canvases,    \* what pages send: [steps, edges, notes], sequences; an
                       \* edge is a record [id, from, to]
          Rest,        \* the canvas of the other workflow
          page,        \* whoever chooses the ids of a canvas that is sent
          MaxFaults    \* bound: statements that fail from outside

ASSUME RequestsAssumption ==
    Requests \subseteq [Operations -> {"save", "delete", "execute", "clone"}]

\* Ids are fresh.
ASSUME NamesAssumption ==
    w \notin Operations /\ other \notin Operations \cup {w} /\ page \notin Operations

ASSUME OperationsAssumption == IsFiniteSet(Operations)

ASSUME CanvasesAssumption ==
    \A canvas \in Canvases \cup {Rest} :
       /\ canvas.steps \in Seq(ToSet(canvas.steps))
       /\ canvas.edges \in Seq(ToSet(canvas.edges))
       /\ canvas.notes \in Seq(ToSet(canvas.notes))

VARIABLES
    committed,           \* the rows
    inserted, deleted,   \* by operation: what its transaction has done to them
    open,                \* whether its transaction is open
    found,               \* the rows a DELETE that waits has found when it started
    kind, todo, result,  \* the operation, its statements still to come, its answer
    loaded,              \* the rows it has read
    faults,
    \* History, for the properties only:
    asked,      \* the canvas an operation saves
    last,       \* the canvas of the save committed last
    met,        \* the operations that were under way at the same time
    edgeless,   \* whether it found no edge to delete, or found them gone when its turn came
    merged,     \* whether the save committed last met another that it may have missed
    stale,      \* whether a save or delete was committed while the operation was under way
    lost        \* whether a statement of it failed from outside

txVars == <<inserted, deleted, open, found>>
history == <<asked, last, met, edgeless, merged, stale, lost>>
vars == <<committed, txVars, kind, todo, result, loaded, faults, history>>

--------------------------------------------------------------------------------
(***************************************************************************)
(* Rows.                                                                   *)
(***************************************************************************)
Unread == <<>>
Empty == [steps |-> <<>>, edges |-> <<>>, notes |-> <<>>]

Key(r) == <<r.tab, r.id>>
Keys(R) == {Key(r) : r \in R}

\* A row has an id, which is the only one in its table, and something in it; it belongs
\* to a workflow, refers to other rows, and is a version by somebody.
Row(tab, id, has, wf, refs, op) ==
    [tab |-> tab, id |-> id, has |-> has, wf |-> wf, refs |-> refs, by |-> op]

\* Ids are of no workflow: pages may send one that is taken elsewhere, or an edge to a step
\* that is.  A copy gets ids of its own.
Origin(wf) == IF wf \in Operations THEN wf ELSE page

StepKey(wf, s) == <<"step", <<Origin(wf), s>>>>

WorkflowRow(wf, op) == Row("workflow", wf, wf, wf, {}, op)
StepRow(wf, s, op) == Row("step", <<Origin(wf), s>>, s, wf, {<<"workflow", wf>>}, op)
NoteRow(wf, n, op) == Row("note", <<Origin(wf), n>>, n, wf, {<<"workflow", wf>>}, op)
ExecutionRow(wf, op) == Row("execution", op, op, wf, {<<"workflow", wf>>}, op)
RecordRow(wf, s, op) ==
    Row("record", <<op, s>>, s, wf, {<<"execution", op>>, StepKey(wf, s)}, op)
NotificationRow(wf, op) ==
    Row("notification", op, op, wf, {<<"execution", op>>, <<"workflow", wf>>}, op)

\* Nothing asks whose steps an edge joins.
EdgeRow(wf, e, op) ==
    Row("edge", <<Origin(wf), e.id>>, e, wf,
        {<<"workflow", wf>>, StepKey(wf, e.from), StepKey(wf, e.to)}, op)

CanvasRows(wf, canvas, op) ==
    {StepRow(wf, s, op) : s \in ToSet(canvas.steps)}
        \cup {EdgeRow(wf, e, op) : e \in ToSet(canvas.edges)}
        \cup {NoteRow(wf, n, op) : n \in ToSet(canvas.notes)}

\* What is in those rows of a table that belong to a workflow.
Names(R, tab, wf) == {r.has : r \in {x \in R : x.tab = tab /\ x.wf = wf}}

Holds(R, wf, canvas) ==
    /\ Names(R, "step", wf) = ToSet(canvas.steps)
    /\ Names(R, "edge", wf) = ToSet(canvas.edges)
    /\ Names(R, "note", wf) = ToSet(canvas.notes)

\* A second workflow that was executed once is there from the start.
OtherRows ==
    {WorkflowRow(other, other), ExecutionRow(other, other)}
        \cup {RecordRow(other, s, other) : s \in ToSet(Rest.steps)}
        \cup CanvasRows(other, Rest, other)

\* The keys hold at first.
Init ==
    /\ \E canvas \in Canvases :
          /\ committed = OtherRows \cup {WorkflowRow(w, w)} \cup CanvasRows(w, canvas, w)
          /\ \A r \in committed : r.refs \subseteq Keys(committed)
          /\ \A r, x \in committed : Key(r) = Key(x) => r = x
          /\ last = canvas
    /\ inserted = [p \in Operations |-> {}] /\ deleted = [p \in Operations |-> {}]
    /\ open = [p \in Operations |-> FALSE]
    /\ found = [p \in Operations |-> Unread]
    /\ kind \in Requests
    /\ todo = [p \in Operations |-> <<>>]
    /\ result = [p \in Operations |-> "none"]
    /\ loaded = [p \in Operations |-> {}]
    /\ faults = 0
    /\ asked = [p \in Operations |-> Empty]
    /\ met = [p \in Operations |-> {}]
    /\ edgeless = [p \in Operations |-> FALSE]
    /\ merged = FALSE
    /\ stale = [p \in Operations |-> FALSE]
    /\ lost = [p \in Operations |-> FALSE]

--------------------------------------------------------------------------------
(***************************************************************************)
(* The operations as statements.                                           *)
(***************************************************************************)
\* The first DELETE opens the transaction.
Commit == [do |-> "commit"]
Read(tab) == [do |-> "read", tab |-> tab]
DeleteFrom(tab, wf) == [do |-> "delete", tab |-> tab, wf |-> wf]
Insert(row) == [do |-> "insert", row |-> row]

DeleteAll(tabs, wf) == [i \in DOMAIN tabs |-> DeleteFrom(tabs[i], wf)]
InsertAll(rows) == [i \in DOMAIN rows |-> Insert(rows[i])]

\* Mutants: the steps go before their edges and records; the notes are kept.
Cleared_StepsFirst == <<"step", "edge", "record", "note">>
Cleared_NotNotes == <<"edge", "record", "step">>

\* What SaveCanvas deletes.
Cleared == <<"edge", "record", "step", "note">>

Save(wf, canvas, op) ==
    DeleteAll(Cleared, wf)
        \o InsertAll([i \in DOMAIN canvas.steps |-> StepRow(wf, canvas.steps[i], op)])
        \o InsertAll([i \in DOMAIN canvas.edges |-> EdgeRow(wf, canvas.edges[i], op)])
        \o InsertAll([i \in DOMAIN canvas.notes |-> NoteRow(wf, canvas.notes[i], op)])
        \o <<Commit>>

DeleteWorkflow ==
    DeleteAll(<<"notification", "record", "execution", "edge", "step", "note",
                "workflow">>, w)
        \o <<Commit>>

\* Execute and Clone read table by table, then do what depends on what they have read.
Reads(k) ==
    IF k = "execute" THEN <<Read("workflow"), Read("step"), Read("edge")>>
    ELSE <<Read("workflow"), Read("step"), Read("edge"), Read("note")>>

\* Admission without steps is refused.  A notification is added when the execution ends.
Admit(rows, op) ==
    LET steps == SetToSeq(Names(rows, "step", w))
    IN <<Insert(ExecutionRow(w, op))>>
          \o InsertAll([i \in DOMAIN steps |-> RecordRow(w, steps[i], op)])
          \o <<Insert(NotificationRow(w, op))>>

\* Mutant: the notes are left behind.
Copy_WithoutNotes(rows, op) ==
    LET canvas == [steps |-> SetToSeq(Names(rows, "step", w)),
                   edges |-> SetToSeq(Names(rows, "edge", w)), notes |-> <<>>]
    IN <<Insert(WorkflowRow(op, op))>> \o Save(op, canvas, op)

\* Every row gets an id of its own; an edge to a step that was not read, of another
\* workflow perhaps, has none to refer to.
Copy(rows, op) ==
    LET canvas == [steps |-> SetToSeq(Names(rows, "step", w)),
                   edges |-> SetToSeq(Names(rows, "edge", w)),
                   notes |-> SetToSeq(Names(rows, "note", w))]
    IN <<Insert(WorkflowRow(op, op))>> \o Save(op, canvas, op)

--------------------------------------------------------------------------------
(***************************************************************************)
(* The database.                                                           *)
(***************************************************************************)
Active == {p \in Operations : todo[p] # <<>>}
Statement(p) == Head(todo[p])

Visible(p) == (committed \ deleted[p]) \cup inserted[p]

Matching(p, s) == {r \in Visible(p) : r.tab = s.tab /\ r.wf = s.wf}

\* The rows a DELETE has found and that are still there.
Found(p) == IF found[p] = Unread THEN Matching(p, Statement(p))
                                 ELSE Head(found[p]) \cap Visible(p)

RefersTo(r, keys) == r.refs \cap keys # {}

\* Those that have to end before the statement can go on: who deletes rows it deletes, or
\* refers to or has added; who adds a row that refers to one it deletes, or has its id.
Blockers(p) ==
    LET s == Statement(p)
        InTheWay(q) ==
          CASE s.do = "delete" -> \/ Found(p) \cap deleted[q] # {}
                                  \/ \E r \in inserted[q] : RefersTo(r, Keys(Found(p)))
            [] s.do = "check"  -> \E r \in Visible(p) \cap deleted[q] : RefersTo(r, s.keys)
            [] s.do = "insert" -> \/ Key(s.row) \in Keys(inserted[q] \cup deleted[q])
                                  \/ RefersTo(s.row, Keys(deleted[q]))
            [] OTHER -> FALSE
    IN {q \in Operations \ {p} : InTheWay(q)}

\* Operations that wait for one another; the database ends one of them.
Deadlocked(p) ==
    \E C \in SUBSET Active :
       /\ p \in C
       /\ \A q \in C : Blockers(q) \cap C # {} /\ \E r \in C : q \in Blockers(r)

Answer(p, answer) ==
    /\ todo' = [todo EXCEPT ![p] = <<>>]
    /\ result' = [result EXCEPT ![p] = answer]

\* The transaction is over; outside one there is nothing to close.
Close(p) ==
    /\ inserted' = [inserted EXCEPT ![p] = {}]
    /\ deleted' = [deleted EXCEPT ![p] = {}]
    /\ open' = [open EXCEPT ![p] = FALSE]

\* Mutant: the transaction is left open.
RollBack_Not(p) == UNCHANGED <<inserted, deleted, open>>

RollBack(p) == Close(p)

Notifies(s) == s.do = "insert" /\ s.row.tab = "notification"

\* A statement fails: the operation rolls back and answers.  Whether a notification
\* could be added is not looked at.
Fail(p) ==
    /\ RollBack(p)
    /\ found' = [found EXCEPT ![p] = Unread]
    /\ Answer(p, IF Notifies(Statement(p)) THEN "ok" ELSE "error")
    /\ UNCHANGED <<committed, kind, loaded>>

Advance(p, more) == todo' = [todo EXCEPT ![p] = more \o Tail(todo[p])]

--------------------------------------------------------------------------------
(***************************************************************************)
(* Steps.                                                                  *)
(***************************************************************************)
Start(p) ==
    /\ result[p] = "none" /\ todo[p] = <<>>
    /\ \/ /\ kind[p] = "save"
          /\ \E canvas \in Canvases :
                /\ todo' = [todo EXCEPT ![p] = Save(w, canvas, p)]
                /\ asked' = [asked EXCEPT ![p] = canvas]
       \/ /\ kind[p] = "delete"
          /\ todo' = [todo EXCEPT ![p] = DeleteWorkflow]
          /\ UNCHANGED asked
       \/ /\ kind[p] \in {"execute", "clone"}
          /\ todo' = [todo EXCEPT ![p] = Reads(kind[p])]
          /\ UNCHANGED asked
    /\ met' = [q \in Operations |-> IF q = p THEN Active
                                    ELSE IF q \in Active THEN met[q] \cup {p} ELSE met[q]]
    /\ UNCHANGED <<committed, txVars, kind, result, loaded, faults, last, edgeless, merged,
                   stale, lost>>

\* What is read is not locked: the next table may be read after somebody's commit.
ReadTable(p) ==
    /\ p \in Active /\ Statement(p).do = "read"
    /\ LET rows == Matching(p, [tab |-> Statement(p).tab, wf |-> w])
           all == loaded[p] \cup rows
       IN /\ loaded' = [loaded EXCEPT ![p] = all]
          /\ \/ /\ Statement(p).tab = "workflow" /\ rows = {}
                /\ Answer(p, "error")
             \/ /\ Len(todo[p]) > 1 /\ (Statement(p).tab = "workflow" => rows # {})
                /\ Advance(p, <<>>)
                /\ UNCHANGED result
             \/ /\ Len(todo[p]) = 1 /\ kind[p] = "execute" /\ Names(all, "step", w) = {}
                /\ Answer(p, "error")
             \/ /\ Len(todo[p]) = 1 /\ kind[p] = "execute" /\ Names(all, "step", w) # {}
                /\ Advance(p, Admit(all, p))
                /\ UNCHANGED result
             \/ /\ Len(todo[p]) = 1 /\ kind[p] = "clone"
                /\ Advance(p, Copy(all, p))
                /\ UNCHANGED result
    /\ UNCHANGED <<committed, txVars, kind, faults, history>>

\* A DELETE that has to wait goes on with the rows it has found before.
Wait(p) ==
    /\ p \in Active /\ Statement(p).do = "delete" /\ found[p] = Unread
    /\ Blockers(p) # {}
    /\ found' = [found EXCEPT ![p] = <<Matching(p, Statement(p))>>]
    /\ open' = [open EXCEPT ![p] = TRUE]
    /\ UNCHANGED <<committed, inserted, deleted, kind, todo, result, loaded, faults, history>>

\* Rows that others refer to may go once these have gone too, before the next statement.
DeleteRows(p) ==
    /\ p \in Active /\ Statement(p).do = "delete"
    /\ Blockers(p) = {}
    /\ LET rows == Found(p)
           keys == Keys(rows)
       IN \/ /\ Statement(p).tab = "workflow" /\ rows = {}
             /\ Fail(p)
             /\ UNCHANGED edgeless
          \/ /\ Statement(p).tab = "workflow" => rows # {}
             /\ deleted' = [deleted EXCEPT ![p] = @ \cup (rows \cap committed)]
             /\ inserted' = [inserted EXCEPT ![p] = @ \ rows]
             /\ open' = [open EXCEPT ![p] = TRUE]
             /\ found' = [found EXCEPT ![p] = Unread]
             /\ Advance(p, IF \E r \in Visible(p) : RefersTo(r, keys)
                           THEN <<[do |-> "check", keys |-> keys]>> ELSE <<>>)
             /\ edgeless' = [edgeless EXCEPT
                   ![p] = IF Statement(p).tab = "edge" THEN rows = {} ELSE @]
             /\ UNCHANGED <<committed, kind, result, loaded>>
    /\ UNCHANGED <<faults, asked, last, met, merged, stale, lost>>

CheckReferences(p) ==
    /\ p \in Active /\ Statement(p).do = "check"
    /\ Blockers(p) = {}
    /\ IF \E r \in Visible(p) : RefersTo(r, Statement(p).keys)
       THEN Fail(p)
       ELSE /\ Advance(p, <<>>)
            /\ UNCHANGED <<committed, txVars, kind, result, loaded>>
    /\ UNCHANGED <<faults, history>>

InsertRow(p) ==
    /\ p \in Active /\ Statement(p).do = "insert"
    /\ Blockers(p) = {}
    /\ LET row == Statement(p).row
       IN IF Key(row) \in Keys(Visible(p)) \/ ~ row.refs \subseteq Keys(Visible(p))
          THEN Fail(p)
          ELSE /\ IF open[p]
                  THEN /\ inserted' = [inserted EXCEPT ![p] = @ \cup {row}]
                       /\ UNCHANGED committed
                  ELSE /\ committed' = committed \cup {row}
                       /\ UNCHANGED inserted
               /\ IF Len(todo[p]) = 1 THEN Answer(p, "ok")
                                      ELSE Advance(p, <<>>) /\ UNCHANGED result
               /\ UNCHANGED <<deleted, open, found, kind, loaded>>
    /\ UNCHANGED <<faults, history>>

\* A canvas whose edges all have an end that is no step of the other workflow.
Anchored(canvas) ==
    \A e \in ToSet(canvas.edges) : ~ {e.from, e.to} \subseteq ToSet(Rest.steps)

\* The answer of a commit may be lost.
CommitTx(p) ==
    /\ p \in Active /\ Statement(p).do = "commit"
    /\ committed' = (committed \ deleted[p]) \cup inserted[p]
    /\ Close(p)
    /\ \/ Answer(p, "ok") /\ UNCHANGED <<faults, lost>>
       \/ /\ faults < MaxFaults /\ faults' = faults + 1
          /\ Answer(p, "error")
          /\ lost' = [lost EXCEPT ![p] = TRUE]
    /\ last' = CASE kind[p] = "save" -> asked[p]
                 [] kind[p] = "delete" -> Empty
                 [] OTHER -> last
    /\ merged' = IF kind[p] = "clone" THEN merged
                 ELSE \E q \in met[p] :
                        /\ kind[q] = "save" /\ todo[q] = <<>>
                        /\ edgeless[p] \/ edgeless[q] \/ ~Anchored(asked[q])
    /\ stale' = [q \in Operations |-> stale[q] \/ (q \in Active \ {p} /\ kind[p] # "clone")]
    /\ UNCHANGED <<found, kind, loaded, asked, met, edgeless>>

\* The connection is lost, or the request is given up.
StatementFails(p) ==
    /\ p \in Active /\ faults < MaxFaults
    /\ faults' = faults + 1
    /\ Fail(p)
    /\ lost' = [lost EXCEPT ![p] = TRUE]
    /\ UNCHANGED <<asked, last, met, edgeless, merged, stale>>

\* The database ends an operation that waits for itself.
EndDeadlock(p) ==
    /\ Deadlocked(p)
    /\ Fail(p)
    /\ UNCHANGED <<faults, history>>

Step(p) ==
    \/ ReadTable(p) \/ DeleteRows(p) \/ CheckReferences(p) \/ InsertRow(p)
    \/ CommitTx(p) \/ EndDeadlock(p)

Next == \E p \in Operations : Start(p) \/ Step(p) \/ Wait(p) \/ StatementFails(p)

Spec == Init /\ [][Next]_vars

--------------------------------------------------------------------------------
(***************************************************************************)
(* Properties.                                                             *)
(***************************************************************************)
\* The canvas of a workflow is what one save has sent, the last one committed, edges,
\* steps and notes together (SaveCanvas, repository.go:188), unless two operations met of
\* which one found no edge to delete, or found them gone when its turn came, and so did not
\* delete those of the other, or the first sent an edge that joins only steps of another
\* workflow: the second does not see it, and no foreign key stops the second.  A delete
\* leaves nothing.  Other workflows keep what they had.
OneSavesCanvas ==
    /\ merged \/ Holds(committed, w, last)
    /\ OtherRows \subseteq committed

Executed(p) == kind[p] = "execute" /\ result[p] = "ok"
Copied(p) == kind[p] = "clone" /\ result[p] = "ok"
NotCopied(p) == kind[p] = "clone" /\ result[p] = "error" /\ ~lost[p]

ReadAsIs(p, tab) == Names(loaded[p], tab, w) = Names(committed, tab, w)
CopiedWhole(p, tab) == Names(committed, tab, p) = Names(loaded[p], tab, w)
HasRecords(p) == \A s \in Names(loaded[p], "step", w) : RecordRow(w, s, p) \in committed

\* What an execution was admitted to run is one canvas, and each of its steps has its
\* record, unless a save or delete was committed meanwhile (executor.go:107, 162).  A copy
\* is what was read of the original, all of it or nothing (service.go:119), and what was
\* read is one canvas in the same way.
ReadersSeeOneCanvas ==
    [][\A p \in Operations : result'[p] # result[p] =>
         /\ Executed(p)' /\ ~stale[p] =>
               HasRecords(p)' /\ \A tab \in {"step", "edge"} : ReadAsIs(p, tab)'
         /\ Copied(p)' =>
               \A tab \in {"step", "edge", "note"} :
                  CopiedWhole(p, tab)' /\ (~stale[p] => ReadAsIs(p, tab)')
         /\ NotCopied(p)' => ~ \E r \in committed' : r.wf = p /\ r.tab # "workflow"]_vars

NewIds(sent, taken) == IsInjective(sent) /\ ToSet(sent) \cap ToSet(taken) = {}

EdgeIds(canvas) == [i \in DOMAIN canvas.edges |-> canvas.edges[i].id]

\* The ids of a canvas are distinct and not taken elsewhere, and its edges join steps,
\* of whatever workflow.
Acceptable(canvas) ==
    /\ NewIds(canvas.steps, Rest.steps)
    /\ NewIds(EdgeIds(canvas), EdgeIds(Rest))
    /\ NewIds(canvas.notes, Rest.notes)
    /\ \A e \in ToSet(canvas.edges) :
          {e.from, e.to} \subseteq ToSet(canvas.steps) \cup ToSet(Rest.steps)

\* An edge of the other workflow joins a step of this one.
Held ==
    \E r \in OtherRows : r.tab = "edge" /\ RefersTo(r, Keys({x \in committed : x.wf = w}))

\* What was read of the edges joins steps that were read.
Joined(R) ==
    \A e \in Names(R, "edge", w) : {e.from, e.to} \subseteq Names(R, "step", w)

\* An operation that nobody else's meets and no statement of which is lost succeeds:
\* rows are deleted after those that refer to them ("Order matters", repository.go:123).
\* It may still be refused when its workflow is gone, when there is nothing to execute,
\* when the canvas it sends is refused by the keys of the tables, when it deletes steps that
\* an edge of another workflow joins, and when it copies an edge to a step of another.
AloneSucceeds ==
    \A p \in Operations :
       result[p] = "error" /\ met[p] = {} =>
          \/ lost[p]
          \/ WorkflowRow(w, w) \notin committed
          \/ kind[p] = "execute" /\ Names(loaded[p], "step", w) = {}
          \/ kind[p] = "save" /\ ~Acceptable(asked[p])
          \/ kind[p] \in {"save", "delete"} /\ Held
          \/ kind[p] = "clone" /\ ~Joined(loaded[p])

\* While operations are under way, one of them can go on, or the database ends one; as
\* each is a bounded number of statements, all are answered.  Every error path rolls back
\* (repository.go:131), so nobody waits for an operation that is over.
SomebodyGoesOn ==
    Active # {} => \E p \in Active : Blockers(p) = {} \/ Deadlocked(p)

================================================================================
