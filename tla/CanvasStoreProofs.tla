--------------------------- MODULE CanvasStoreProofs ---------------------------
(***************************************************************************)
(* What saves, deletes, copies and admissions leave of a canvas in the     *)
(* database, what those that read it get, and that one alone succeeds, for *)
(* any number of operations, any canvases and any failures.                *)
(***************************************************************************)
EXTENDS CanvasStore, FiniteSetTheorems, SequenceTheorems, TLAPS

--------------------------------------------------------------------------------
(***************************************************************************)
(* The inductive invariant.                                                *)
(***************************************************************************)
IsSeq(t) == t \in Seq(ToSet(t))

CanvasTabs == {"step", "edge", "note"}

\* The workflow whose rows an operation deletes and adds: a clone those of its copy.
Target(k, p) == IF k = "clone" THEN p ELSE w

Has(t, do) == \E i \in 1 .. Len(t) : t[i].do = do
Deletes(t, tab) == \E i \in 1 .. Len(t) : t[i].do = "delete" /\ t[i].tab = tab
ToInsert(t) == {t[i].row : i \in {j \in 1 .. Len(t) : t[j].do = "insert"}}

RowOK(r) ==
    /\ r.tab = "step" => r.id[1] = Origin(r.wf)
    /\ r.tab = "edge" =>
         /\ \A k \in r.refs : k[1] = "step" => k[2][1] = Origin(r.wf)
         /\ \E k \in r.refs : k[1] = "step"

\* The workflow of a row: nothing is ever added to the other one.
WhoseOK(r) == r.wf \in Operations \cup {w} \/ r \in OtherRows

\* An edge that joins a step which is not the other workflow's.
Attached(r) == \E k \in r.refs : k[1] = "step" /\ k \notin Keys(OtherRows)

OwnRow(r, k, p) == RowOK(r) /\ r.by = p /\ r.wf = Target(k, p)

InsertOK(t, i, k, p, o) ==
    /\ k # "delete" /\ OwnRow(t[i].row, k, p)
    /\ t[i].row.tab \in CanvasTabs =>
          k # "execute" /\ (o \/ \E j \in 1 .. i - 1 : t[j].do = "delete")

DeleteOK(t, i, k, p, o) ==
    /\ k # "execute" /\ t[i].wf = Target(k, p)
    /\ \A j \in 1 .. i - 1 : t[j].do = "insert" => j = 1 /\ ~o
    /\ t[i].tab = "edge" =>
          \A tab \in {"step", "note"} :
             \E j \in i + 1 .. Len(t) : t[j].do = "delete" /\ t[j].tab = tab
    /\ t[i].tab \in CanvasTabs =>
          \A j \in i + 1 .. Len(t) : t[j].do = "delete" => t[j].tab # "edge"

Shape(t, k, p, o) ==
    /\ IsSeq(t)
    /\ o \/ Has(t, "delete") => t # <<>> /\ t[Len(t)].do = "commit"
    /\ \A i \in 1 .. Len(t) :
         /\ t[i].do \in {"read", "delete", "check", "insert", "commit"}
         /\ t[i].do = "read" =>
               /\ ~o /\ k \in {"execute", "clone"}
               /\ \A j \in 1 .. Len(t) : t[j].do = "read"
         /\ t[i].do = "delete" => DeleteOK(t, i, k, p, o)
         /\ t[i].do = "check" => i = 1 /\ o
         /\ t[i].do = "insert" => InsertOK(t, i, k, p, o)
         /\ t[i].do = "commit" => i = Len(t) /\ k # "execute"

\* The rows a DELETE that waits has found.
Snapshot(p) == IF found[p] = Unread THEN {} ELSE Head(found[p])

\* The transaction of an operation: what it still has to do and what it has done fit
\* together, and a save has added, or will add, its canvas.
Tx(p) ==
    /\ open[p] \in BOOLEAN
    /\ Shape(todo[p], kind[p], p, open[p])
    /\ result[p] # "none" => todo[p] = <<>>
    /\ ~open[p] => inserted[p] = {} /\ deleted[p] = {} /\ found[p] = Unread
    /\ Has(todo[p], "delete") \/ kind[p] = "delete" => inserted[p] = {}
    /\ \A r \in inserted[p] : OwnRow(r, kind[p], p)
    /\ \A r \in deleted[p] \cup Snapshot(p) : r.wf = Target(kind[p], p)
    /\ found[p] # Unread =>
          /\ todo[p] # <<>> /\ Statement(p).do = "delete"
          /\ \A r \in Head(found[p]) : r.tab = Statement(p).tab
    /\ Deletes(todo[p], "edge") => \A r \in deleted[p] : r.tab # "edge"
    /\ kind[p] = "save" /\ todo[p] # <<>> =>
          inserted[p] \cup ToInsert(todo[p]) = CanvasRows(w, asked[p], p)

TxInv == \A p \in Operations : Tx(p)

TypeInv ==
    /\ kind \in Requests
    /\ DOMAIN todo = Operations /\ DOMAIN result = Operations
    /\ DOMAIN inserted = Operations /\ DOMAIN deleted = Operations
    /\ DOMAIN open = Operations /\ DOMAIN found = Operations
    /\ DOMAIN loaded = Operations /\ DOMAIN asked = Operations
    /\ DOMAIN edgeless = Operations

FiniteInv ==
    /\ IsFiniteSet(committed)
    /\ \A p \in Operations : IsFiniteSet(inserted[p]) /\ IsFiniteSet(loaded[p])

\* Nobody sees a row of a canvas before whoever adds it is over.
Over(r) == r.tab \in CanvasTabs /\ r.by \in Operations => result[r.by] # "none"

RowsInv ==
    /\ OtherRows \subseteq committed
    /\ \A r \in committed : RowOK(r) /\ WhoseOK(r) /\ Over(r)
    /\ \A p \in Operations : \A r \in Snapshot(p) : Over(r)

\* A row is deleted by one operation at a time.
DeletedInv ==
    /\ \A p \in Operations : deleted[p] \subseteq committed
    /\ \A p, q \in Operations : p # q => deleted[p] \cap deleted[q] = {}

\* The rows whose references an operation has still to look for.
Checking(p) == IF todo[p] # <<>> /\ Statement(p).do = "check" THEN Statement(p).keys ELSE {}

\* Foreign keys: what is committed refers to what is committed, what an operation adds to
\* what it sees and to nothing another deletes, and what it leaves to nothing it deletes.
AddedRefer(p) == \A r \in inserted[p] : r.refs \subseteq Keys(Visible(p))
KeptRefer(p) ==
    \A r \in committed \ deleted[p] : r.refs \cap Keys(deleted[p]) \subseteq Checking(p)
Apart(p, q) == \A r \in inserted[p] : r.refs \cap Keys(deleted[q]) = {}

ReferencesInv ==
    /\ \A r \in committed : r.refs \subseteq Keys(committed)
    /\ \A p \in Operations : AddedRefer(p) /\ KeptRefer(p)
    /\ \A p, q \in Operations : p # q => Apart(p, q)

\* Operations that are under way together know of each other, and of nobody to come.
MetInv ==
    \A p \in Operations :
       /\ \A q \in Active \ {p} : p \in Active => q \in met[p]
       /\ met[p] \subseteq {q \in Operations : q \in Active \/ result[q] # "none"}

Changes(p) == p \in Active /\ kind[p] \in {"save", "delete"}

CanvasRow(r, tab) == r.tab = tab /\ r.wf = w

\* The edges that an operation deletes or waits to delete.
Snap(p) == {r \in deleted[p] \cup Snapshot(p) : CanvasRow(r, "edge")}

\* Whoever looks later for edges finds all that others have found and that are still there.
ChainInv ==
    \A p, q \in Operations :
       \/ Snap(p) \cap committed \subseteq Snap(q)
       \/ Snap(q) \cap committed \subseteq Snap(p)

\* A save met another save that is over, and one of the two found no edge, or that one
\* sent edges that nothing stops it from leaving behind.
Excuse(p) ==
    \E q \in met[p] : kind[q] = "save" /\ todo[q] = <<>>
                     /\ (edgeless[p] \/ edgeless[q] \/ ~Anchored(asked[q]))

Waits(p, tab) == found[p] # Unread /\ Statement(p).tab = tab

\* Every row of the table is deleted, or will be.
Complete(p, tab) ==
    \A r \in committed \ deleted[p] : CanvasRow(r, tab) =>
       /\ Deletes(todo[p], tab)
       /\ Waits(p, tab) => r \in Head(found[p])

\* An edge that the first DELETE has not found makes the operation fail, for it refers to
\* a step that goes.
EdgesDoomed(p) ==
    \A x \in committed \ deleted[p] : CanvasRow(x, "edge") =>
       /\ Attached(x)
       /\ Waits(p, "step") =>
             \E k \in Head(found[p]) \cap committed : Key(k) \in x.refs
       /\ ~Deletes(todo[p], "step") =>
             Statement(p).do = "check" /\ x.refs \cap Statement(p).keys # {}

\* Once its edges are deleted, an operation clears the canvas or fails.
Clears(p) ==
    Changes(p) /\ ~Deletes(todo[p], "edge") =>
       /\ ~edgeless[p] => \E r \in deleted[p] : CanvasRow(r, "edge")
       /\ \/ Excuse(p)
          \/ EdgesDoomed(p) /\ Complete(p, "step") /\ Complete(p, "note")

ClearedInv == \A p \in Operations : Clears(p)

\* While an operation waits to delete the edges, those added meanwhile refer to steps of the
\* workflow, unless a save it met sent others.
Missed(p) == \E q \in met[p] : kind[q] = "save" /\ todo[q] = <<>> /\ ~Anchored(asked[q])

Aware(p) ==
    Changes(p) /\ Waits(p, "edge") =>
       Missed(p) \/ \A x \in committed : CanvasRow(x, "edge") => x \in Head(found[p]) \/ Attached(x)

AwareInv == \A p \in Operations : Aware(p)

HoldsInv == merged \/ Holds(committed, w, last)

IInv ==
    /\ TypeInv /\ TxInv /\ FiniteInv /\ RowsInv /\ DeletedInv /\ ReferencesInv
    /\ MetInv /\ ChainInv /\ ClearedInv /\ AwareInv /\ HoldsInv

--------------------------------------------------------------------------------
(***************************************************************************)
(* Lists of statements.                                                    *)
(***************************************************************************)
\* A sequence of anything is one of its own elements.
LEMMA SeqOfAny ==
    ASSUME NEW S, NEW t \in Seq(S)
    PROVE  IsSeq(t)
  <1>1. t \in [1 .. Len(t) -> S] /\ Len(t) \in Nat /\ DOMAIN t = 1 .. Len(t)
    BY LenProperties
  <1>2. \A i \in 1 .. Len(t) : t[i] \in ToSet(t)
    BY <1>1 DEF ToSet
  <1> QED
    BY <1>1, <1>2 DEF IsSeq

\* The first statement and the others.
LEMMA SeqParts ==
    ASSUME NEW t, IsSeq(t)
    PROVE  /\ Len(t) \in Nat /\ DOMAIN t = 1 .. Len(t)
           /\ t = <<>> <=> Len(t) = 0
           /\ t # <<>> => /\ Len(t) >= 1 /\ Head(t) = t[1]
                          /\ IsSeq(Tail(t)) /\ Len(Tail(t)) = Len(t) - 1
                          /\ \A i \in 1 .. Len(t) - 1 : Tail(t)[i] = t[i + 1]
  <1>1. t \in Seq(ToSet(t))
    BY DEF IsSeq
  <1>2. Len(t) \in Nat /\ DOMAIN t = 1 .. Len(t)
    BY <1>1, LenProperties
  <1>3. t = <<>> <=> Len(t) = 0
    BY <1>1, EmptySeq
  <1>4. ASSUME t # <<>>
        PROVE  /\ Len(t) >= 1 /\ Head(t) = t[1]
               /\ IsSeq(Tail(t)) /\ Len(Tail(t)) = Len(t) - 1
               /\ \A i \in 1 .. Len(t) - 1 : Tail(t)[i] = t[i + 1]
    <2>1. /\ Head(t) = t[1] /\ Tail(t) \in Seq(ToSet(t)) /\ Len(Tail(t)) = Len(t) - 1
          /\ \A i \in 1 .. Len(Tail(t)) : Tail(t)[i] = t[i + 1]
      BY <1>1, <1>4, HeadTailProperties
    <2>2. IsSeq(Tail(t))
      BY <2>1, SeqOfAny
    <2> QED
      BY <1>2, <1>3, <1>4, <2>1, <2>2
  <1> QED
    BY <1>2, <1>3, <1>4

\* One list after the other.
LEMMA SeqConcat ==
    ASSUME NEW s, NEW t, IsSeq(s), IsSeq(t)
    PROVE  /\ IsSeq(s \o t) /\ Len(s \o t) = Len(s) + Len(t)
           /\ \A i \in 1 .. Len(s) : (s \o t)[i] = s[i]
           /\ \A i \in 1 .. Len(t) : (s \o t)[Len(s) + i] = t[i]
           /\ \A i \in Len(s) + 1 .. Len(s) + Len(t) : (s \o t)[i] = t[i - Len(s)]
  <1> DEFINE S == ToSet(s) \cup ToSet(t)
  <1>1. s \in Seq(S) /\ t \in Seq(S)
    BY SeqMonotonic DEF IsSeq
  <1> HIDE DEF S
  <1>2. Len(s) \in Nat /\ Len(t) \in Nat
    BY SeqParts
  <1>3. s \o t \in Seq(S) /\ Len(s \o t) = Len(s) + Len(t)
    BY <1>1, ConcatProperties
  <1>4. \A i \in 1 .. Len(s) + Len(t) :
           (s \o t)[i] = IF i <= Len(s) THEN s[i] ELSE t[i - Len(s)]
    BY <1>1, ConcatProperties
  <1>5. IsSeq(s \o t)
    BY <1>3, SeqOfAny
  <1>6. \A i \in 1 .. Len(t) : (s \o t)[Len(s) + i] = t[i]
    <2> TAKE i \in 1 .. Len(t)
    <2>1. Len(s) + i \in 1 .. Len(s) + Len(t) /\ ~(Len(s) + i <= Len(s)) /\ (Len(s) + i) - Len(s) = i
      BY <1>2
    <2> QED
      BY <1>4, <2>1
  <1> QED
    BY <1>2, <1>3, <1>4, <1>5, <1>6

\* One statement.
LEMMA SeqOne == \A x : IsSeq(<<x>>) /\ Len(<<x>>) = 1 /\ <<x>>[1] = x
  <1> TAKE x
  <1>1. <<x>> \in Seq({x})
    OBVIOUS
  <1> QED
    BY <1>1, SeqOfAny

\* Nothing, and what is done after nothing.
LEMMA SeqNone == IsSeq(<<>>) /\ Len(<<>>) = 0 /\ \A t : IsSeq(t) => <<>> \o t = t /\ t \o <<>> = t
  <1>1. <<>> \in Seq({})
    OBVIOUS
  <1>2. \A t : IsSeq(t) => <<>> \o t = t /\ t \o <<>> = t
    BY ConcatEmptySeq DEF IsSeq
  <1> QED
    BY <1>1, <1>2, SeqOfAny, EmptySeq

\* Lists put together from left to right or from right to left are the same.
LEMMA SeqAssociative ==
    ASSUME NEW s, NEW t, NEW u, IsSeq(s), IsSeq(t), IsSeq(u)
    PROVE  (s \o t) \o u = s \o (t \o u)
  <1> DEFINE S == (ToSet(s) \cup ToSet(t)) \cup ToSet(u)
  <1>1. s \in Seq(S) /\ t \in Seq(S) /\ u \in Seq(S)
    BY SeqMonotonic DEF IsSeq
  <1> HIDE DEF S
  <1> QED
    BY <1>1, ConcatAssociative

\* What is made of the places of a list is a list.
LEMMA SeqOfPlaces ==
    ASSUME NEW n \in Nat, NEW f, f = [i \in 1 .. n |-> f[i]]
    PROVE  IsSeq(f) /\ Len(f) = n
  <1> DEFINE S == {f[i] : i \in 1 .. n}
  <1>1. f \in [1 .. n -> S]
    OBVIOUS
  <1> HIDE DEF S
  <1>2. f \in Seq(S) /\ Len(f) = n
    BY <1>1
  <1> QED
    BY <1>2, SeqOfAny

\* A list of statements that adds rows, and nothing else.
Inserts(t, R) ==
    /\ IsSeq(t)
    /\ \A i \in 1 .. Len(t) : t[i] = Insert(t[i].row) /\ t[i].row \in R
    /\ \A r \in R : \E i \in 1 .. Len(t) : t[i].row = r

\* A list of rows becomes one of statements.
LEMMA InsertsOfRows ==
    ASSUME NEW rows, NEW n \in Nat, rows = [i \in 1 .. n |-> rows[i]]
    PROVE  Inserts(InsertAll(rows), {rows[i] : i \in 1 .. n})
  <1>1. DOMAIN rows = 1 .. n
    OBVIOUS
  <1> DEFINE t == InsertAll(rows)
  <1>2. t = [i \in 1 .. n |-> t[i]] /\ \A i \in 1 .. n : t[i] = Insert(rows[i])
    BY <1>1 DEF InsertAll
  <1> HIDE DEF t
  <1>3. \A i \in 1 .. n : t[i].row = rows[i]
    BY <1>2 DEF Insert
  <1>4. IsSeq(t) /\ Len(t) = n
    BY <1>2, SeqOfPlaces
  <1> QED
    BY <1>2, <1>3, <1>4 DEF t, Inserts

\* Two of them.
LEMMA InsertsConcat ==
    ASSUME NEW s, NEW t, NEW R, NEW T, Inserts(s, R), Inserts(t, T)
    PROVE  Inserts(s \o t, R \cup T)
  <1>1. IsSeq(s) /\ IsSeq(t) /\ Len(s) \in Nat /\ Len(t) \in Nat
    BY SeqParts DEF Inserts
  <1>2. /\ IsSeq(s \o t) /\ Len(s \o t) = Len(s) + Len(t)
        /\ \A i \in 1 .. Len(s) : (s \o t)[i] = s[i]
        /\ \A i \in 1 .. Len(t) : (s \o t)[Len(s) + i] = t[i]
        /\ \A i \in Len(s) + 1 .. Len(s) + Len(t) : (s \o t)[i] = t[i - Len(s)]
    BY <1>1, SeqConcat
  <1> DEFINE u == s \o t
  <1> HIDE DEF u
  <1>3. ASSUME NEW i \in 1 .. Len(u) PROVE u[i] = Insert(u[i].row) /\ u[i].row \in R \cup T
    <2>1. CASE i \in 1 .. Len(s)
      BY <1>2, <2>1 DEF u, Inserts
    <2>2. CASE i \in Len(s) + 1 .. Len(s) + Len(t)
      <3>1. i - Len(s) \in 1 .. Len(t) /\ u[i] = t[i - Len(s)]
        BY <1>1, <1>2, <2>2 DEF u
      <3> QED
        BY <3>1 DEF Inserts
    <2> QED
      BY <1>1, <1>2, <2>1, <2>2 DEF u
  <1>4. ASSUME NEW r \in R \cup T PROVE \E i \in 1 .. Len(u) : u[i].row = r
    <2>1. CASE r \in R
      <3>1. PICK i \in 1 .. Len(s) : s[i].row = r
        BY <2>1 DEF Inserts
      <3>2. i \in 1 .. Len(u) /\ u[i] = s[i]
        BY <1>1, <1>2 DEF u
      <3> QED
        BY <3>1, <3>2
    <2>2. CASE r \in T
      <3>1. PICK i \in 1 .. Len(t) : t[i].row = r
        BY <2>2 DEF Inserts
      <3>2. Len(s) + i \in 1 .. Len(u) /\ u[Len(s) + i] = t[i]
        BY <1>1, <1>2 DEF u
      <3> QED
        BY <3>1, <3>2
    <2> QED
      BY <2>1, <2>2
  <1> QED
    BY <1>2, <1>3, <1>4 DEF u, Inserts

IsCanvas(canvas) == IsSeq(canvas.steps) /\ IsSeq(canvas.edges) /\ IsSeq(canvas.notes)

\* A save deletes what Cleared names, adds the rows of its canvas and commits.
LEMMA SaveParts ==
    ASSUME NEW wf, NEW canvas, NEW op, IsCanvas(canvas)
    PROVE  \E rows : /\ Inserts(rows, CanvasRows(wf, canvas, op))
                     /\ Save(wf, canvas, op) = DeleteAll(Cleared, wf) \o (rows \o <<Commit>>)
  <1> DEFINE a == [i \in DOMAIN canvas.steps |-> StepRow(wf, canvas.steps[i], op)]
             b == [i \in DOMAIN canvas.edges |-> EdgeRow(wf, canvas.edges[i], op)]
             c == [i \in DOMAIN canvas.notes |-> NoteRow(wf, canvas.notes[i], op)]
             A == {StepRow(wf, s, op) : s \in ToSet(canvas.steps)}
             B == {EdgeRow(wf, e, op) : e \in ToSet(canvas.edges)}
             C == {NoteRow(wf, n, op) : n \in ToSet(canvas.notes)}
             D == DeleteAll(Cleared, wf)
  <1>1. Inserts(InsertAll(a), A)
    <2> DEFINE n == Len(canvas.steps)
    <2>1. n \in Nat /\ DOMAIN canvas.steps = 1 .. n
      BY SeqParts DEF IsCanvas
    <2>2. a = [i \in 1 .. n |-> a[i]]
      BY <2>1
    <2>3. {a[i] : i \in 1 .. n} = A
      BY <2>1 DEF ToSet
    <2> HIDE DEF a, A, n
    <2> QED
      BY <2>1, <2>2, <2>3, InsertsOfRows
  <1>2. Inserts(InsertAll(b), B)
    <2> DEFINE n == Len(canvas.edges)
    <2>1. n \in Nat /\ DOMAIN canvas.edges = 1 .. n
      BY SeqParts DEF IsCanvas
    <2>2. b = [i \in 1 .. n |-> b[i]]
      BY <2>1
    <2>3. {b[i] : i \in 1 .. n} = B
      BY <2>1 DEF ToSet
    <2> HIDE DEF b, B, n
    <2> QED
      BY <2>1, <2>2, <2>3, InsertsOfRows
  <1>3. Inserts(InsertAll(c), C)
    <2> DEFINE n == Len(canvas.notes)
    <2>1. n \in Nat /\ DOMAIN canvas.notes = 1 .. n
      BY SeqParts DEF IsCanvas
    <2>2. c = [i \in 1 .. n |-> c[i]]
      BY <2>1
    <2>3. {c[i] : i \in 1 .. n} = C
      BY <2>1 DEF ToSet
    <2> HIDE DEF c, C, n
    <2> QED
      BY <2>1, <2>2, <2>3, InsertsOfRows
  <1>4. /\ CanvasRows(wf, canvas, op) = (A \cup B) \cup C
        /\ Save(wf, canvas, op)
             = (((D \o InsertAll(a)) \o InsertAll(b)) \o InsertAll(c)) \o <<Commit>>
    BY DEF CanvasRows, Save
  <1> HIDE DEF a, b, c, A, B, C
  <1> DEFINE rows == (InsertAll(a) \o InsertAll(b)) \o InsertAll(c)
  <1>5. Inserts(rows, (A \cup B) \cup C) /\ IsSeq(InsertAll(a) \o InsertAll(b))
    <2>1. Inserts(InsertAll(a) \o InsertAll(b), A \cup B)
      BY <1>1, <1>2, InsertsConcat
    <2>2. Inserts(rows, (A \cup B) \cup C)
      BY <1>3, <2>1, InsertsConcat
    <2> QED
      BY <2>1, <2>2 DEF Inserts
  <1>6. IsSeq(D) /\ IsSeq(<<Commit>>)
    <2>1. D = [i \in 1 .. 4 |-> D[i]]
      BY DEF DeleteAll, Cleared
    <2> HIDE DEF D
    <2> QED
      BY <2>1, SeqOfPlaces, SeqOne
  <1>7. Save(wf, canvas, op) = D \o (rows \o <<Commit>>)
    <2>1. /\ IsSeq(InsertAll(a)) /\ IsSeq(InsertAll(b)) /\ IsSeq(InsertAll(c)) /\ IsSeq(rows)
      BY <1>1, <1>2, <1>3, <1>5 DEF Inserts
    <2> HIDE DEF D
    <2>2. ASSUME NEW x, NEW y, IsSeq(x), IsSeq(y) PROVE (D \o x) \o y = D \o (x \o y)
      BY <1>6, <2>2, SeqAssociative
    <2>3. (D \o InsertAll(a)) \o InsertAll(b) = D \o (InsertAll(a) \o InsertAll(b))
      BY <2>1, <2>2
    <2>4. (D \o (InsertAll(a) \o InsertAll(b))) \o InsertAll(c) = D \o rows
      BY <1>5, <2>1, <2>2
    <2> HIDE DEF rows
    <2>5. ASSUME NEW end, IsSeq(end) PROVE (D \o rows) \o end = D \o (rows \o end)
      <3>1. IsSeq(D) /\ IsSeq(rows)
        BY <1>6, <2>1
      <3> QED
        BY <2>5, <3>1, SeqAssociative
    <2> QED
      BY <1>4, <1>6, <2>3, <2>4, <2>5
  <1> QED
    BY <1>4, <1>5, <1>7

--------------------------------------------------------------------------------
(***************************************************************************)
(* What the lists of the operations look like.                             *)
(***************************************************************************)
\* The rows of a canvas are of its workflow, and by who saves it.
LEMMA CanvasRowsOwn ==
    ASSUME NEW wf, NEW canvas, NEW op, NEW r \in CanvasRows(wf, canvas, op)
    PROVE  RowOK(r) /\ r.by = op /\ r.wf = wf /\ r.tab \in CanvasTabs
  <1>1. ASSUME NEW s, r = StepRow(wf, s, op)
        PROVE  RowOK(r) /\ r.by = op /\ r.wf = wf /\ r.tab \in CanvasTabs
    BY <1>1 DEF StepRow, Row, RowOK, CanvasTabs
  <1>2. ASSUME NEW e, r = EdgeRow(wf, e, op)
        PROVE  RowOK(r) /\ r.by = op /\ r.wf = wf /\ r.tab \in CanvasTabs
    <2>1. /\ r.tab = "edge" /\ r.by = op /\ r.wf = wf
          /\ r.refs = {<<"workflow", wf>>, StepKey(wf, e.from), StepKey(wf, e.to)}
      BY <1>2 DEF EdgeRow, Row
    <2>2. \A x : StepKey(wf, x)[1] = "step" /\ StepKey(wf, x)[2][1] = Origin(wf)
      BY DEF StepKey
    <2>3. ASSUME NEW k \in r.refs, k[1] = "step" PROVE k[2][1] = Origin(r.wf)
      <3>1. k = StepKey(wf, e.from) \/ k = StepKey(wf, e.to)
        BY <2>1, <2>3
      <3> QED
        BY <2>1, <2>2, <3>1
    <2> QED
      BY <2>1, <2>2, <2>3 DEF RowOK, CanvasTabs
  <1>3. ASSUME NEW n, r = NoteRow(wf, n, op)
        PROVE  RowOK(r) /\ r.by = op /\ r.wf = wf /\ r.tab \in CanvasTabs
    BY <1>3 DEF NoteRow, Row, RowOK, CanvasTabs
  <1> QED
    BY <1>1, <1>2, <1>3 DEF CanvasRows

\* The statements of a save, one by one.
LEMMA SavePlaces ==
    ASSUME NEW wf, NEW canvas, NEW op, IsCanvas(canvas)
    PROVE  LET t == Save(wf, canvas, op)
               R == CanvasRows(wf, canvas, op)
           IN  /\ IsSeq(t) /\ Len(t) \in Nat /\ Len(t) >= 5
               /\ \A i \in 1 .. 4 : t[i] = DeleteFrom(Cleared[i], wf)
               /\ \A i \in 5 .. Len(t) - 1 : t[i].do = "insert" /\ t[i].row \in R
               /\ t[Len(t)] = Commit
               /\ \A r \in R : \E i \in 5 .. Len(t) - 1 : t[i].row = r
  <1> DEFINE t == Save(wf, canvas, op)
             R == CanvasRows(wf, canvas, op)
             d == DeleteAll(Cleared, wf)
             e == <<Commit>>
  <1>1. PICK rows : Inserts(rows, R) /\ t = d \o (rows \o e)
    BY SaveParts
  <1>2. IsSeq(d) /\ Len(d) = 4 /\ \A i \in 1 .. 4 : d[i] = DeleteFrom(Cleared[i], wf)
    <2>1. d = [i \in 1 .. 4 |-> d[i]] /\ \A i \in 1 .. 4 : d[i] = DeleteFrom(Cleared[i], wf)
      BY DEF DeleteAll, Cleared
    <2> HIDE DEF d
    <2> QED
      BY <2>1, SeqOfPlaces
  <1>3. IsSeq(e) /\ Len(e) = 1 /\ e[1] = Commit
    BY SeqOne
  <1>4. /\ IsSeq(rows) /\ Len(rows) \in Nat
        /\ \A i \in 1 .. Len(rows) : rows[i].do = "insert" /\ rows[i].row \in R
        /\ \A r \in R : \E i \in 1 .. Len(rows) : rows[i].row = r
    <2> HIDE DEF t, R, d, e
    <2>1. Inserts(rows, R)
      BY <1>1
    <2>2. \A x : Insert(x).do = "insert"
      BY DEF Insert
    <2>3. IsSeq(rows)
      BY <2>1 DEF Inserts
    <2>4. Len(rows) \in Nat
      BY <2>3, SeqParts
    <2> QED
      BY <2>1, <2>2, <2>3, <2>4 DEF Inserts
  <1> HIDE DEF t, R, d, e
  <1> DEFINE n == Len(rows)
             f == rows \o e
  <1>5. /\ IsSeq(f) /\ Len(f) = n + 1 /\ f[n + 1] = Commit
        /\ \A i \in 1 .. n : f[i] = rows[i]
    <2>1. /\ IsSeq(rows \o e) /\ Len(rows \o e) = Len(rows) + Len(e)
          /\ \A i \in 1 .. Len(rows) : (rows \o e)[i] = rows[i]
          /\ \A i \in 1 .. Len(e) : (rows \o e)[Len(rows) + i] = e[i]
      <3>1. IsSeq(rows) /\ IsSeq(e)
        BY <1>3, <1>4
      <3> HIDE DEF n, f
      <3> QED
        BY <3>1, SeqConcat
    <2> QED
      BY <1>3, <1>4, <2>1
  <1>6. t = d \o f
    BY <1>1
  <1> HIDE DEF n, f
  <1>7. n \in Nat
    BY <1>4 DEF n
  <1>8. /\ IsSeq(t) /\ Len(t) = n + 5
        /\ \A i \in 1 .. 4 : t[i] = d[i]
        /\ \A i \in 1 .. n + 1 : t[4 + i] = f[i]
        /\ \A i \in 5 .. n + 5 : t[i] = f[i - 4]
    <2>1. /\ IsSeq(d \o f) /\ Len(d \o f) = Len(d) + Len(f)
          /\ \A i \in 1 .. Len(d) : (d \o f)[i] = d[i]
          /\ \A i \in 1 .. Len(f) : (d \o f)[Len(d) + i] = f[i]
          /\ \A i \in Len(d) + 1 .. Len(d) + Len(f) : (d \o f)[i] = f[i - Len(d)]
      <3>1. IsSeq(d) /\ IsSeq(f)
        BY <1>2, <1>5
      <3> QED
        BY <3>1, SeqConcat
    <2>2. 4 + (n + 1) = n + 5 /\ 4 + 1 = 5
      BY <1>7
    <2>3. IsSeq(t) /\ Len(t) = n + 5
      BY <1>2, <1>5, <1>6, <2>1, <2>2
    <2>4. \A i \in 1 .. 4 : t[i] = d[i]
      BY <1>2, <1>6, <2>1
    <2>5. \A i \in 1 .. n + 1 : t[4 + i] = f[i]
      BY <1>2, <1>5, <1>6, <2>1
    <2>6. \A i \in 5 .. n + 5 : t[i] = f[i - 4]
      BY <1>2, <1>5, <1>6, <2>1, <2>2
    <2> QED
      BY <2>3, <2>4, <2>5, <2>6
  <1>9. t[Len(t)] = Commit
    BY <1>5, <1>7, <1>8
  <1>10. ASSUME NEW i \in 5 .. Len(t) - 1 PROVE t[i].do = "insert" /\ t[i].row \in R
    <2>1. i - 4 \in 1 .. n /\ t[i] = f[i - 4]
      BY <1>7, <1>8
    <2> QED
      BY <1>4, <1>5, <2>1 DEF n
  <1>11. ASSUME NEW r \in R PROVE \E i \in 5 .. Len(t) - 1 : t[i].row = r
    <2>1. PICK i \in 1 .. n : rows[i].row = r
      BY <1>4 DEF n
    <2>2. 4 + i \in 5 .. Len(t) - 1 /\ t[4 + i] = rows[i]
      BY <1>5, <1>7, <1>8
    <2> QED
      BY <2>1, <2>2
  <1>12. IsSeq(t) /\ Len(t) \in Nat /\ Len(t) >= 5
    BY <1>7, <1>8
  <1>13. \A i \in 1 .. 4 : t[i] = DeleteFrom(Cleared[i], wf)
    BY <1>2, <1>8
  <1>14. /\ \A i \in 5 .. Len(t) - 1 : t[i].do = "insert" /\ t[i].row \in R
         /\ \A r \in R : \E i \in 5 .. Len(t) - 1 : t[i].row = r
    BY <1>10, <1>11
  <1> QED
    BY <1>9, <1>12, <1>13, <1>14 DEF t, R

\* A list that reads nothing, checks nothing and deletes before it adds.
Straight(t) ==
    /\ \A i \in 1 .. Len(t) : t[i].do \notin {"read", "check"}
    /\ \A i \in 1 .. Len(t) : t[i].do = "delete" => \A j \in 1 .. i - 1 : t[j].do # "insert"

\* A save, of a page or of a copy, has the shape of an operation and adds its canvas.
LEMMA SaveShape ==
    ASSUME NEW p, NEW k \in {"save", "clone"}, NEW canvas, IsCanvas(canvas), NEW o \in BOOLEAN
    PROVE  LET t == Save(Target(k, p), canvas, p)
           IN  /\ Shape(t, k, p, o) /\ t # <<>> /\ Straight(t)
               /\ Has(t, "delete") /\ Deletes(t, "edge")
               /\ ToInsert(t) = CanvasRows(Target(k, p), canvas, p)
  <1> DEFINE wf == Target(k, p)
             t == Save(wf, canvas, p)
             R == CanvasRows(wf, canvas, p)
  <1>1. /\ IsSeq(t) /\ Len(t) \in Nat /\ Len(t) >= 5
        /\ \A i \in 1 .. 4 : t[i] = DeleteFrom(Cleared[i], wf)
        /\ \A i \in 5 .. Len(t) - 1 : t[i].do = "insert" /\ t[i].row \in R
        /\ t[Len(t)] = Commit
        /\ \A r \in R : \E i \in 5 .. Len(t) - 1 : t[i].row = r
    BY SavePlaces
  <1>2. \A r \in R : OwnRow(r, k, p) /\ r.tab \in CanvasTabs
    BY CanvasRowsOwn DEF OwnRow
  <1> HIDE DEF wf, t, R
  <1>3. /\ t[1].do = "delete" /\ t[1].tab = "edge" /\ t[1].wf = wf
        /\ t[2].do = "delete" /\ t[2].tab = "record" /\ t[2].wf = wf
        /\ t[3].do = "delete" /\ t[3].tab = "step" /\ t[3].wf = wf
        /\ t[4].do = "delete" /\ t[4].tab = "note" /\ t[4].wf = wf
        /\ t[Len(t)].do = "commit"
    BY <1>1 DEF DeleteFrom, Cleared, Commit
  <1>4. \A i \in 1 .. Len(t) : \/ i \in 1 .. 4 /\ t[i].do = "delete"
                               \/ i \in 5 .. Len(t) - 1 /\ t[i].do = "insert"
                               \/ i = Len(t) /\ t[i].do = "commit"
    <2> TAKE i \in 1 .. Len(t)
    <2>1. i \in 1 .. 4 => i = 1 \/ i = 2 \/ i = 3 \/ i = 4
      OBVIOUS
    <2>2. i \in 1 .. 4 \/ i \in 5 .. Len(t) - 1 \/ i = Len(t)
      BY <1>1
    <2> QED
      BY <1>1, <1>3, <2>1, <2>2
  <1>5. t # <<>>
    BY <1>1, SeqParts
  <1>6. ASSUME NEW i \in 1 .. Len(t), t[i].do = "delete" PROVE DeleteOK(t, i, k, p, o)
    <2>1. i \in 1 .. 4
      BY <1>4, <1>6
    <2>2. i = 1 \/ i = 2 \/ i = 3 \/ i = 4
      BY <2>1
    <2>3. t[i].wf = wf
      BY <1>3, <2>2
    <2>4. \A j \in 1 .. i - 1 : t[j].do # "insert"
      BY <1>1, <1>4, <2>1
    <2>5. t[i].tab = "edge" =>
             \A tab \in {"step", "note"} :
                \E j \in i + 1 .. Len(t) : t[j].do = "delete" /\ t[j].tab = tab
      <3>1. t[i].tab = "edge" => i = 1 /\ 3 \in i + 1 .. Len(t) /\ 4 \in i + 1 .. Len(t)
        BY <1>1, <1>3, <2>2
      <3> QED
        BY <1>3, <3>1
    <2>6. \A j \in i + 1 .. Len(t) : t[j].do = "delete" => t[j].tab # "edge"
      <3> TAKE j \in i + 1 .. Len(t)
      <3> HAVE t[j].do = "delete"
      <3>1. j \in 1 .. Len(t)
        BY <1>1, <2>1
      <3>2. j = 2 \/ j = 3 \/ j = 4
        BY <1>1, <1>4, <2>1, <3>1
      <3> QED
        BY <1>3, <3>2
    <2> QED
      BY <2>3, <2>4, <2>5, <2>6 DEF DeleteOK, wf
  <1>7. ASSUME NEW i \in 1 .. Len(t), t[i].do = "insert" PROVE InsertOK(t, i, k, p, o)
    <2>1. i \in 5 .. Len(t) - 1 /\ t[i].row \in R
      BY <1>1, <1>4, <1>7
    <2>2. 1 \in 1 .. i - 1
      BY <1>1, <2>1
    <2> QED
      BY <1>2, <1>3, <2>1, <2>2 DEF InsertOK
  <1>8. Shape(t, k, p, o)
    BY <1>1, <1>3, <1>4, <1>5, <1>6, <1>7 DEF Shape
  <1>9. ToInsert(t) = R
    <2>1. ToInsert(t) \subseteq R
      BY <1>1, <1>4 DEF ToInsert
    <2>2. \A r \in R : \E i \in 1 .. Len(t) : t[i].do = "insert" /\ t[i].row = r
      BY <1>1
    <2> QED
      BY <2>1, <2>2 DEF ToInsert
  <1>10. Straight(t)
    <2>1. ASSUME NEW i \in 1 .. Len(t), t[i].do = "delete", NEW j \in 1 .. i - 1
          PROVE  t[j].do # "insert"
      <3>1. i \in 1 .. 4 /\ j \in 1 .. 4 /\ j \in 1 .. Len(t)
        BY <1>1, <1>4, <2>1
      <3> QED
        BY <1>4, <3>1
    <2> QED
      BY <1>4, <2>1 DEF Straight
  <1>11. Has(t, "delete") /\ Deletes(t, "edge")
    <2>1. 1 \in 1 .. Len(t)
      BY <1>1
    <2> QED
      BY <1>3, <2>1 DEF Has, Deletes
  <1> QED
    BY <1>5, <1>8, <1>9, <1>10, <1>11 DEF wf, t, R

\* The statement x in front of the list t.
Before(u, x, t) ==
    /\ IsSeq(u) /\ Len(u) = Len(t) + 1
    /\ u[1] = x /\ \A i \in 1 .. Len(t) : u[i + 1] = t[i]

LEMMA PrependPlaces ==
    ASSUME NEW x, NEW t, IsSeq(t)
    PROVE  Before(<<x>> \o t, x, t)
  <1>1. Len(t) \in Nat
    BY SeqParts
  <1>2. ASSUME NEW e, IsSeq(e), Len(e) = 1 PROVE Before(e \o t, e[1], t)
    <2>1. /\ IsSeq(e \o t) /\ Len(e \o t) = Len(e) + Len(t)
          /\ \A i \in 1 .. Len(e) : (e \o t)[i] = e[i]
          /\ \A i \in 1 .. Len(t) : (e \o t)[Len(e) + i] = t[i]
      <3>1. IsSeq(e)
        BY <1>2
      <3> QED
        BY <3>1, SeqConcat
    <2>2. \A i \in 1 .. Len(t) : 1 + i = i + 1
      OBVIOUS
    <2>3. 1 \in 1 .. 1
      OBVIOUS
    <2> QED
      BY <1>1, <1>2, <2>1, <2>2, <2>3 DEF Before
  <1>3. IsSeq(<<x>>) /\ Len(<<x>>) = 1 /\ <<x>>[1] = x
    BY SeqOne
  <1> QED
    BY <1>2, <1>3

\* An operation keeps its shape when an INSERT of a workflow, or a check, comes first.
LEMMA PrependShape ==
    ASSUME NEW x, NEW t, NEW u, Before(u, x, t), NEW k, NEW p, NEW o \in BOOLEAN,
           Shape(t, k, p, o), o \/ Has(t, "delete"),
           Straight(t),
           \/ x.do = "check" /\ o
           \/ /\ x.do = "insert" /\ ~o /\ k # "delete"
              /\ OwnRow(x.row, k, p) /\ x.row.tab \notin CanvasTabs
    PROVE  Shape(u, k, p, o)
  <1> DEFINE n == Len(t)
  <1>1. /\ n \in Nat /\ t # <<>> /\ n >= 1 /\ t[n].do = "commit"
        /\ IsSeq(u) /\ Len(u) = n + 1 /\ u[1] = x
    BY SeqParts DEF Shape, Before
  <1>2. \A i \in 1 .. n : u[i + 1] = t[i]
    BY DEF Before
  <1>3. \A i \in 2 .. n + 1 : i - 1 \in 1 .. n /\ u[i] = t[i - 1]
    BY <1>1, <1>2
  <1> HIDE DEF n
  <1>4. u # <<>> /\ u[Len(u)].do = "commit"
    BY <1>1, <1>2, SeqParts
  <1>5. \A i \in 1 .. n + 1 : i = 1 \/ i \in 2 .. n + 1
    BY <1>1
  <1>6. \A i \in 2 .. n + 1 :
           /\ u[i].do \in {"delete", "insert", "commit"}
           /\ u[i].do = "commit" => i = Len(u) /\ k # "execute"
    <2> TAKE i \in 2 .. n + 1
    <2>1. i - 1 \in 1 .. n /\ u[i] = t[i - 1]
      BY <1>3
    <2> QED
      BY <1>1, <2>1 DEF Shape, Straight, n
  <1>7. ASSUME NEW i \in 2 .. n + 1, u[i].do = "delete" PROVE DeleteOK(u, i, k, p, o)
    <2>1. i - 1 \in 1 .. n /\ u[i] = t[i - 1]
      BY <1>3
    <2>2. DeleteOK(t, i - 1, k, p, o)
      BY <1>7, <2>1 DEF Shape, n
    <2>3. \A j \in 1 .. i - 1 : u[j].do = "insert" => j = 1 /\ ~o
      <3> TAKE j \in 1 .. i - 1
      <3>1. j # 1 => j \in 2 .. n + 1 /\ j - 1 \in 1 .. (i - 1) - 1
        BY <1>1
      <3>2. j # 1 => u[j].do # "insert"
        BY <1>3, <1>7, <2>1, <3>1 DEF n, Straight
      <3> QED
        BY <1>1, <3>2
    <2>4. u[i].tab = "edge" =>
             \A tab \in {"step", "note"} :
                \E j \in i + 1 .. Len(u) : u[j].do = "delete" /\ u[j].tab = tab
      <3> SUFFICES ASSUME u[i].tab = "edge", NEW tab \in {"step", "note"}
                   PROVE  \E j \in i + 1 .. Len(u) : u[j].do = "delete" /\ u[j].tab = tab
        OBVIOUS
      <3>1. PICK j \in (i - 1) + 1 .. n : t[j].do = "delete" /\ t[j].tab = tab
        BY <2>1, <2>2 DEF DeleteOK, n
      <3>2. j \in 1 .. n /\ j + 1 \in i + 1 .. n + 1
        BY <1>1, <3>1
      <3> QED
        BY <1>1, <1>2, <3>1, <3>2
    <2>5. u[i].tab \in CanvasTabs =>
             \A j \in i + 1 .. Len(u) : u[j].do = "delete" => u[j].tab # "edge"
      <3> SUFFICES ASSUME u[i].tab \in CanvasTabs, NEW j \in i + 1 .. Len(u), u[j].do = "delete"
                   PROVE  u[j].tab # "edge"
        OBVIOUS
      <3>1. j \in 2 .. n + 1 /\ j - 1 \in (i - 1) + 1 .. n
        BY <1>1, <2>1
      <3>2. u[j] = t[j - 1]
        BY <1>3, <3>1
      <3> QED
        BY <2>1, <2>2, <3>1, <3>2 DEF DeleteOK, n
    <2> QED
      BY <2>1, <2>2, <2>3, <2>4, <2>5 DEF DeleteOK
  <1>8. ASSUME NEW i \in 2 .. n + 1, u[i].do = "insert" PROVE InsertOK(u, i, k, p, o)
    <2>1. i - 1 \in 1 .. n /\ u[i] = t[i - 1]
      BY <1>3
    <2>2. InsertOK(t, i - 1, k, p, o)
      BY <1>8, <2>1 DEF Shape, n
    <2>3. ASSUME NEW j \in 1 .. (i - 1) - 1 PROVE j + 1 \in 1 .. i - 1 /\ u[j + 1] = t[j]
      BY <1>1, <1>2
    <2> QED
      BY <2>1, <2>2, <2>3 DEF InsertOK
  <1>9. u[1].do = "insert" => InsertOK(u, 1, k, p, o)
    BY <1>1 DEF InsertOK
  <1> QED
    BY <1>1, <1>4, <1>5, <1>6, <1>7, <1>8, <1>9 DEF Shape

\* The names of a finite set of rows are finitely many.
LEMMA NamesFinite ==
    ASSUME NEW R, IsFiniteSet(R), NEW tab, NEW wf
    PROVE  IsFiniteSet(Names(R, tab, wf))
  <1> DEFINE T == {x \in R : x.tab = tab /\ x.wf = wf}
             S == Names(R, tab, wf)
             f == [r \in T |-> r.has]
  <1>1. IsFiniteSet(T)
    BY FS_Subset
  <1>2. f \in Surjection(T, S)
    <2>1. f \in [T -> S] /\ \A y \in S : \E r \in T : f[r] = y
      BY DEF Names
    <2> HIDE DEF f, T, S
    <2> QED
      BY <2>1 DEF Surjection
  <1> HIDE DEF f, T, S
  <1>3. IsFiniteSet(S)
    BY <1>1, <1>2, FS_Surjection
  <1> QED
    BY <1>3 DEF S

\* The names of a finite set are a list of them, each of them once.
LEMMA SeqOfSet ==
    ASSUME NEW S, IsFiniteSet(S)
    PROVE  IsSeq(SetToSeq(S)) /\ ToSet(SetToSeq(S)) = S /\ IsInjective(SetToSeq(S))
  <1> DEFINE n == Cardinality(S)
             q == SetToSeq(S)
  <1>1. n \in Nat /\ ExistsBijection(1 .. n, S)
    BY FS_CardinalityType
  <1>2. \E f \in [1 .. n -> S] : IsInjective(f)
    BY <1>1 DEF ExistsBijection, Bijection, Injection
  <1>3. q \in [1 .. n -> S] /\ IsInjective(q)
    BY <1>2 DEF SetToSeq
  <1> HIDE DEF n, q
  <1>4. q \in Injection(1 .. n, S)
    BY <1>3 DEF Injection
  <1>5. IsFiniteSet(1 .. n) /\ Cardinality(1 .. n) = n
    BY <1>1, FS_Interval
  <1>6. q \in Surjection(1 .. n, S)
    BY <1>4, <1>5, FS_Injection DEF n
  <1>7. q \in Seq(S)
    BY <1>1, <1>3
  <1>8. IsSeq(q)
    BY <1>7, SeqOfAny
  <1>9. ToSet(q) = S
    BY <1>3, <1>6 DEF ToSet, Surjection
  <1> QED
    BY <1>3, <1>8, <1>9 DEF q

\* The list of one INSERT.
LEMMA InsertsOne == \A r : Inserts(<<Insert(r)>>, {r})
  <1> TAKE r
  <1> DEFINE x == Insert(r)
  <1>1. x.row = r
    BY DEF Insert
  <1> HIDE DEF x
  <1>2. IsSeq(<<x>>) /\ Len(<<x>>) = 1 /\ <<x>>[1] = x
    BY SeqOne
  <1> DEFINE t == <<x>>
  <1> HIDE DEF t
  <1>3. IsSeq(t) /\ Len(t) = 1 /\ t[1] = Insert(r) /\ t[1].row = r
    BY <1>1, <1>2 DEF t, x
  <1>4. Inserts(t, {r})
    <2>1. \A i \in 1 .. 1 : i = 1
      OBVIOUS
    <2>2. 1 \in 1 .. 1
      OBVIOUS
    <2> QED
      BY <1>3, <2>1, <2>2 DEF Inserts
  <1> QED
    BY <1>4 DEF t, x

\* The admission of an execution adds records, and no row of the canvas.
LEMMA AdmitShape ==
    ASSUME NEW p, NEW rows, IsFiniteSet(rows)
    PROVE  Shape(Admit(rows, p), "execute", p, FALSE) /\ Admit(rows, p) # <<>>
  <1> DEFINE steps == SetToSeq(Names(rows, "step", w))
             records == [i \in DOMAIN steps |-> RecordRow(w, steps[i], p)]
             t == Admit(rows, p)
             R == {records[i] : i \in 1 .. Len(steps)}
             first == ExecutionRow(w, p)
             end == NotificationRow(w, p)
             all == ({first} \cup R) \cup {end}
  <1>1. IsSeq(steps)
    BY NamesFinite, SeqOfSet
  <1>2. Len(steps) \in Nat /\ DOMAIN steps = 1 .. Len(steps)
    BY <1>1, SeqParts
  <1>3. Inserts(InsertAll(records), R)
    <2>1. records = [i \in 1 .. Len(steps) |-> records[i]]
      BY <1>2
    <2> HIDE DEF records, steps
    <2> QED
      BY <1>2, <2>1, InsertsOfRows
  <1>4. t = (<<Insert(first)>> \o InsertAll(records)) \o <<Insert(end)>>
    BY DEF Admit
  <1>5. \A r \in all : OwnRow(r, "execute", p) /\ r.tab \notin CanvasTabs
    <2>1. \A r \in R : \E i : r = RecordRow(w, steps[i], p)
      BY <1>2
    <2> HIDE DEF R
    <2>2. \A r \in all : r.by = p /\ r.wf = w /\ r.tab \in {"execution", "record", "notification"}
      BY <2>1 DEF ExecutionRow, RecordRow, NotificationRow, Row
    <2> HIDE DEF all
    <2> QED
      BY <2>2 DEF OwnRow, RowOK, Target, CanvasTabs
  <1>6. Inserts(t, all)
    <2> HIDE DEF steps, records, R, first, end
    <2>1. Inserts(<<Insert(first)>> \o InsertAll(records), {first} \cup R)
      BY <1>3, InsertsOne, InsertsConcat
    <2> DEFINE s == <<Insert(first)>> \o InsertAll(records)
    <2> HIDE DEF s
    <2>2. Inserts(s \o <<Insert(end)>>, all)
      BY <2>1, InsertsOne, InsertsConcat DEF s
    <2> QED
      BY <1>4, <2>2 DEF s
  <1> HIDE DEF all, t, R, steps, records, first, end
  <1>7. IsSeq(t) /\ \A i \in 1 .. Len(t) : t[i].do = "insert" /\ t[i].row \in all
    <2>1. \A r : Insert(r).do = "insert"
      BY DEF Insert
    <2> QED
      BY <1>6, <2>1 DEF Inserts
  <1>8. \A i \in 1 .. Len(t) : InsertOK(t, i, "execute", p, FALSE)
    BY <1>5, <1>7 DEF InsertOK
  <1>9. t # <<>>
    <2>1. \E i \in 1 .. Len(t) : t[i].row = first
      BY <1>6 DEF Inserts, all
    <2> QED
      BY <1>7, <2>1, SeqParts
  <1>10. Shape(t, "execute", p, FALSE)
    BY <1>7, <1>8, <1>9 DEF Shape, Has
  <1> QED
    BY <1>9, <1>10 DEF t

\* A copy adds its workflow and saves its canvas.
LEMMA CopyShape ==
    ASSUME NEW p, NEW rows, IsFiniteSet(rows)
    PROVE  Shape(Copy(rows, p), "clone", p, FALSE) /\ Copy(rows, p) # <<>>
  <1> DEFINE canvas == [steps |-> SetToSeq(Names(rows, "step", w)),
                        edges |-> SetToSeq(Names(rows, "edge", w)),
                        notes |-> SetToSeq(Names(rows, "note", w))]
             s == Save(p, canvas, p)
             x == Insert(WorkflowRow(p, p))
             u == <<x>> \o s
  <1>1. IsCanvas(canvas)
    BY NamesFinite, SeqOfSet DEF IsCanvas
  <1>2. Copy(rows, p) = u
    BY DEF Copy
  <1> HIDE DEF canvas
  <1>3. Target("clone", p) = p
    BY DEF Target
  <1>4. Shape(s, "clone", p, FALSE) /\ s # <<>> /\ Straight(s) /\ Has(s, "delete")
    <2>1. LET t == Save(Target("clone", p), canvas, p)
          IN  Shape(t, "clone", p, FALSE) /\ t # <<>> /\ Straight(t) /\ Has(t, "delete")
      BY <1>1, SaveShape
    <2> QED
      BY <1>3, <2>1
  <1>5. /\ x.do = "insert" /\ OwnRow(x.row, "clone", p) /\ x.row.tab \notin CanvasTabs
    BY <1>3 DEF Insert, WorkflowRow, Row, OwnRow, RowOK, CanvasTabs
  <1> HIDE DEF s, x
  <1>6. IsSeq(s)
    BY <1>4 DEF Shape
  <1>7. Before(u, x, s)
    BY <1>6, PrependPlaces
  <1> HIDE DEF u
  <1>8. Shape(u, "clone", p, FALSE)
    BY <1>4, <1>5, <1>7, PrependShape
  <1>9. u # <<>>
    <2>1. IsSeq(u) /\ Len(u) = Len(s) + 1 /\ Len(s) \in Nat
      BY <1>6, <1>7, SeqParts DEF Before
    <2> QED
      BY <2>1, SeqParts
  <1> QED
    BY <1>2, <1>8, <1>9

\* The deletion of a workflow deletes table after table and adds nothing.
LEMMA DeleteShape ==
    ASSUME NEW p
    PROVE  /\ Shape(DeleteWorkflow, "delete", p, FALSE) /\ DeleteWorkflow # <<>>
           /\ Deletes(DeleteWorkflow, "edge")
  <1> DEFINE tabs == <<"notification", "record", "execution", "edge", "step", "note", "workflow">>
             d == DeleteAll(tabs, w)
             e == <<Commit>>
             t == DeleteWorkflow
  <1>1. d = [i \in 1 .. 7 |-> d[i]] /\ \A i \in 1 .. 7 : d[i] = DeleteFrom(tabs[i], w)
    BY DEF DeleteAll
  <1>2. IsSeq(e) /\ Len(e) = 1 /\ e[1] = Commit
    BY SeqOne
  <1>3. t = d \o e
    BY DEF DeleteWorkflow
  <1>4. \A x : DeleteFrom(x, w).do = "delete" /\ DeleteFrom(x, w).tab = x /\ DeleteFrom(x, w).wf = w
    BY DEF DeleteFrom
  <1> HIDE DEF d, e, t
  <1>5. IsSeq(d) /\ Len(d) = 7
    BY <1>1, SeqOfPlaces
  <1>6. \A i \in 1 .. 7 : d[i].do = "delete" /\ d[i].tab = tabs[i] /\ d[i].wf = w
    BY <1>1, <1>4
  <1>7. /\ IsSeq(t) /\ Len(t) = 8
        /\ \A i \in 1 .. 7 : t[i].do = "delete" /\ t[i].tab = tabs[i] /\ t[i].wf = w
        /\ t[8].do = "commit"
    <2>1. /\ IsSeq(d \o e) /\ Len(d \o e) = Len(d) + Len(e)
          /\ \A i \in 1 .. Len(d) : (d \o e)[i] = d[i]
          /\ \A i \in 1 .. Len(e) : (d \o e)[Len(d) + i] = e[i]
      <3>1. IsSeq(d) /\ IsSeq(e)
        BY <1>2, <1>5
      <3> HIDE DEF tabs
      <3> QED
        BY <3>1, SeqConcat
    <2>2. 1 \in 1 .. 1 /\ 7 + 1 = 8
      OBVIOUS
    <2> HIDE DEF tabs
    <2>3. t[8] = Commit
      BY <1>2, <1>3, <1>5, <2>1, <2>2
    <2> QED
      BY <1>2, <1>3, <1>5, <1>6, <2>1, <2>3 DEF Commit
  <1>8. /\ t[4].tab = "edge" /\ t[5].tab = "step" /\ t[6].tab = "note"
        /\ t[1].tab \notin CanvasTabs /\ t[2].tab \notin CanvasTabs /\ t[3].tab \notin CanvasTabs
        /\ t[7].tab \notin CanvasTabs
    BY <1>7 DEF CanvasTabs
  <1> HIDE DEF tabs
  <1>9. \A i \in 1 .. 8 : \/ i \in 1 .. 7 /\ t[i].do = "delete"
                          \/ i = 8 /\ t[i].do = "commit"
    <2> TAKE i \in 1 .. 8
    <2>1. i \in 1 .. 7 \/ i = 8
      OBVIOUS
    <2>2. i \in 1 .. 7 => t[i].do = "delete"
      BY <1>7
    <2>3. i = 8 => t[i].do = "commit"
      BY <1>7
    <2> QED
      BY <2>1, <2>2, <2>3
  <1>10. t # <<>>
    <2>1. IsSeq(t) /\ Len(t) # 0
      BY <1>7
    <2>2. t = <<>> <=> Len(t) = 0
      BY <2>1, SeqParts
    <2> QED
      BY <2>1, <2>2
  <1>11. ASSUME NEW i \in 1 .. 8, t[i].do = "delete" PROVE DeleteOK(t, i, "delete", p, FALSE)
    <2>1. i \in 1 .. 7 /\ t[i].wf = Target("delete", p)
      <3>1. i # 8
        BY <1>7, <1>11
      <3>2. i \in 1 .. 7
        BY <3>1
      <3> QED
        BY <1>7, <3>2 DEF Target
    <2>2. \A j \in 1 .. i - 1 : t[j].do # "insert"
      <3> TAKE j \in 1 .. i - 1
      <3>1. j \in 1 .. 8
        BY <2>1
      <3> QED
        BY <1>9, <3>1
    <2>3. t[i].tab = "edge" => i = 4
      <3>1. i = 1 \/ i = 2 \/ i = 3 \/ i = 4 \/ i = 5 \/ i = 6 \/ i = 7
        BY <2>1
      <3> QED
        BY <1>8, <3>1 DEF CanvasTabs
    <2>4. t[i].tab \in CanvasTabs => i = 4 \/ i = 5 \/ i = 6
      <3>1. i = 1 \/ i = 2 \/ i = 3 \/ i = 4 \/ i = 5 \/ i = 6 \/ i = 7
        BY <2>1
      <3> QED
        BY <1>8, <3>1
    <2>5. t[i].tab = "edge" =>
             \A tab \in {"step", "note"} :
                \E j \in i + 1 .. 8 : t[j].do = "delete" /\ t[j].tab = tab
      <3>1. 5 \in 1 .. 7 /\ 6 \in 1 .. 7 /\ 5 \in 4 + 1 .. 8 /\ 6 \in 4 + 1 .. 8
        OBVIOUS
      <3> QED
        BY <1>7, <1>8, <2>3, <3>1
    <2>6. t[i].tab \in CanvasTabs => \A j \in i + 1 .. 8 : t[j].do = "delete" => t[j].tab # "edge"
      <3> SUFFICES ASSUME t[i].tab \in CanvasTabs, NEW j \in i + 1 .. 8, t[j].do = "delete"
                   PROVE  t[j].tab # "edge"
        OBVIOUS
      <3>1. j \in 1 .. 8
        BY <2>1
      <3>2. j # 8
        BY <1>7
      <3>3. j = 5 \/ j = 6 \/ j = 7
        BY <2>4, <3>1, <3>2
      <3> QED
        BY <1>8, <3>3 DEF CanvasTabs
    <2> QED
      BY <1>7, <2>1, <2>2, <2>5, <2>6 DEF DeleteOK
  <1>12. Shape(t, "delete", p, FALSE)
    BY <1>7, <1>9, <1>10, <1>11 DEF Shape
  <1>13. Deletes(t, "edge")
    <2>1. 4 \in 1 .. 7 /\ 4 \in 1 .. 8
      OBVIOUS
    <2> QED
      BY <1>7, <1>8, <2>1 DEF Deletes
  <1> QED
    BY <1>10, <1>12, <1>13 DEF t

\* Execute and Clone begin with reading.
LEMMA ReadsShape ==
    ASSUME NEW p, NEW k \in {"execute", "clone"}
    PROVE  Shape(Reads(k), k, p, FALSE) /\ Reads(k) # <<>>
  <1> DEFINE t == Reads(k)
             n == IF k = "execute" THEN 3 ELSE 4
  <1>1. t = [i \in 1 .. n |-> t[i]] /\ \A i \in 1 .. n : t[i].do = "read"
    <2>1. CASE k = "execute"
      BY <2>1 DEF Reads, Read
    <2>2. CASE k = "clone"
      BY <2>2 DEF Reads, Read
    <2> QED
      BY <2>1, <2>2
  <1> HIDE DEF t
  <1>2. n \in Nat /\ n # 0
    OBVIOUS
  <1> HIDE DEF n
  <1>3. IsSeq(t) /\ Len(t) = n
    BY <1>1, <1>2, SeqOfPlaces
  <1>4. t # <<>>
    BY <1>2, <1>3, SeqParts
  <1>5. Shape(t, k, p, FALSE)
    BY <1>1, <1>3 DEF Shape, Has
  <1> QED
    BY <1>4, <1>5 DEF t

--------------------------------------------------------------------------------
(***************************************************************************)
(* One statement after the other.                                          *)
(***************************************************************************)
\* What is known of the first statement.
LEMMA HeadShape ==
    ASSUME NEW t, NEW k, NEW p, NEW o \in BOOLEAN, Shape(t, k, p, o), t # <<>>
    PROVE  /\ IsSeq(t) /\ Len(t) \in Nat /\ Len(t) >= 1 /\ Head(t) = t[1] /\ 1 \in 1 .. Len(t)
           /\ Before(t, Head(t), Tail(t))
           /\ t[1].do \in {"read", "delete", "check", "insert", "commit"}
           /\ t[1].do = "read" => ~o /\ k \in {"execute", "clone"} /\ ~Has(t, "delete")
           /\ t[1].do = "delete" => t[1].wf = Target(k, p) /\ k # "execute" /\ Len(t) > 1
           /\ t[1].do = "check" => o /\ Len(t) > 1
           /\ t[1].do = "insert" => /\ k # "delete" /\ OwnRow(t[1].row, k, p)
                                    /\ t[1].row.tab \in CanvasTabs => o
                                    /\ o => Len(t) > 1
           /\ t[1].do = "commit" => Len(t) = 1 /\ k # "execute"
  <1>1. /\ IsSeq(t) /\ Len(t) \in Nat /\ Len(t) >= 1 /\ Head(t) = t[1]
        /\ IsSeq(Tail(t)) /\ Len(Tail(t)) = Len(t) - 1
        /\ \A i \in 1 .. Len(t) - 1 : Tail(t)[i] = t[i + 1]
    BY SeqParts DEF Shape
  <1>2. 1 \in 1 .. Len(t)
    BY <1>1
  <1>3. Before(t, Head(t), Tail(t))
    BY <1>1 DEF Before
  <1>4. /\ t[1].do \in {"read", "delete", "check", "insert", "commit"}
        /\ t[1].do = "read" => /\ ~o /\ k \in {"execute", "clone"}
                               /\ \A j \in 1 .. Len(t) : t[j].do = "read"
        /\ t[1].do = "delete" => DeleteOK(t, 1, k, p, o)
        /\ t[1].do = "check" => o
        /\ t[1].do = "insert" => InsertOK(t, 1, k, p, o)
        /\ t[1].do = "commit" => 1 = Len(t) /\ k # "execute"
    BY <1>2 DEF Shape
  <1>5. t[1].do = "read" => ~Has(t, "delete")
    BY <1>4 DEF Has
  <1>6. o \/ t[1].do = "delete" => t[Len(t)].do = "commit"
    BY <1>2 DEF Shape, Has
  <1>7. Len(t) = 1 => t[Len(t)] = t[1]
    OBVIOUS
  <1>8. t[1].do \in {"delete", "check"} \/ (t[1].do = "insert" /\ o) => Len(t) > 1
    BY <1>1, <1>4, <1>6, <1>7
  <1>9. t[1].do = "insert" =>
           k # "delete" /\ OwnRow(t[1].row, k, p) /\ (t[1].row.tab \in CanvasTabs => o)
    <2>1. \A j \in 1 .. 1 - 1 : FALSE
      OBVIOUS
    <2> QED
      BY <1>4, <2>1 DEF InsertOK
  <1>10. t[1].do = "delete" => t[1].wf = Target(k, p) /\ k # "execute"
    BY <1>4 DEF DeleteOK
  <1>11. t[1].do = "check" => o
    BY <1>4
  <1>12. t[1].do = "commit" => Len(t) = 1 /\ k # "execute"
    BY <1>4
  <1>13. t[1].do = "read" => ~o /\ k \in {"execute", "clone"} /\ ~Has(t, "delete")
    BY <1>4, <1>5
  <1>14. t[1].do \in {"read", "delete", "check", "insert", "commit"}
    BY <1>4
  <1>15. t[1].do \in {"delete", "check"} => Len(t) > 1
    BY <1>8
  <1>16. t[1].do = "insert" /\ o => Len(t) > 1
    BY <1>8
  <1>17. /\ IsSeq(t) /\ Len(t) \in Nat /\ Len(t) >= 1 /\ Head(t) = t[1]
    BY <1>1
  <1> QED
    BY <1>2, <1>3, <1>9, <1>10, <1>11, <1>12, <1>13, <1>14, <1>15, <1>16, <1>17

\* The first statement is over; the first DELETE has opened the transaction.
LEMMA TailShape ==
    ASSUME NEW t, NEW k, NEW p, NEW o \in BOOLEAN, Shape(t, k, p, o), t # <<>>,
           NEW v, v = (o \/ Head(t).do = "delete"), Head(t).do # "commit"
    PROVE  /\ Shape(Tail(t), k, p, v)
           /\ Tail(t) # <<>> => Head(Tail(t)).do # "check"
           /\ v => Straight(Tail(t))
  <1> DEFINE u == Tail(t)
             n == Len(u)
  <1>1. /\ IsSeq(t) /\ Len(t) \in Nat /\ Len(t) >= 1 /\ Head(t) = t[1] /\ 1 \in 1 .. Len(t)
        /\ Before(t, Head(t), u)
    BY HeadShape
  <1>2. IsSeq(u) /\ n = Len(t) - 1
    BY <1>1, SeqParts
  <1>3. n \in Nat /\ Len(t) = n + 1
    BY <1>1, <1>2
  <1>4. \A i \in 1 .. n : i + 1 \in 1 .. n + 1 /\ i + 1 # 1 /\ u[i] = t[i + 1]
    BY <1>1, <1>3 DEF Before
  <1> HIDE DEF u, n
  <1>5. \A i \in 1 .. n :
           /\ t[i + 1].do \in {"read", "delete", "check", "insert", "commit"}
           /\ t[i + 1].do = "read" => /\ ~o /\ k \in {"execute", "clone"}
                                      /\ \A j \in 1 .. n + 1 : t[j].do = "read"
           /\ t[i + 1].do = "delete" => DeleteOK(t, i + 1, k, p, o)
           /\ t[i + 1].do # "check"
           /\ t[i + 1].do = "insert" => InsertOK(t, i + 1, k, p, o)
           /\ t[i + 1].do = "commit" => i + 1 = n + 1 /\ k # "execute"
    BY <1>3, <1>4 DEF Shape
  <1>6. v \/ Has(u, "delete") => u # <<>> /\ u[n].do = "commit"
    <2>1. v \/ Has(u, "delete") => o \/ Has(t, "delete")
      BY <1>1, <1>3, <1>4 DEF Has, n
    <2>2. o \/ Has(t, "delete") => t[n + 1].do = "commit"
      BY <1>3 DEF Shape
    <2>3. t[n + 1].do = "commit" => n # 0
      BY <1>1
    <2>4. n # 0 => u # <<>> /\ u[n] = t[n + 1]
      BY <1>2, <1>3, <1>4, SeqParts DEF n
    <2> QED
      BY <2>1, <2>2, <2>3, <2>4
  <1>7. ASSUME NEW i \in 1 .. n, u[i].do = "read"
        PROVE  ~v /\ k \in {"execute", "clone"} /\ \A j \in 1 .. n : u[j].do = "read"
    BY <1>1, <1>3, <1>4, <1>5, <1>7
  <1>8. ASSUME NEW i \in 1 .. n, u[i].do = "delete"
        PROVE  DeleteOK(u, i, k, p, v)
    <2>1. DeleteOK(t, i + 1, k, p, o) /\ u[i] = t[i + 1]
      BY <1>4, <1>5, <1>8
    <2>2. \A j \in 1 .. i - 1 : u[j].do # "insert"
      <3> TAKE j \in 1 .. i - 1
      <3>1. j \in 1 .. n /\ j + 1 \in 1 .. (i + 1) - 1 /\ j + 1 # 1
        BY <1>3
      <3> QED
        BY <1>4, <2>1, <3>1 DEF DeleteOK
    <2>3. u[i].tab = "edge" =>
             \A tab \in {"step", "note"} :
                \E j \in i + 1 .. n : u[j].do = "delete" /\ u[j].tab = tab
      <3> SUFFICES ASSUME u[i].tab = "edge", NEW tab \in {"step", "note"}
                   PROVE  \E j \in i + 1 .. n : u[j].do = "delete" /\ u[j].tab = tab
        OBVIOUS
      <3>1. PICK j \in (i + 1) + 1 .. n + 1 : t[j].do = "delete" /\ t[j].tab = tab
        BY <1>3, <2>1 DEF DeleteOK
      <3>2. j - 1 \in 1 .. n /\ j - 1 \in i + 1 .. n /\ (j - 1) + 1 = j
        BY <1>3, <3>1
      <3> QED
        BY <1>4, <3>1, <3>2
    <2>4. u[i].tab \in CanvasTabs => \A j \in i + 1 .. n : u[j].do = "delete" => u[j].tab # "edge"
      <3> SUFFICES ASSUME u[i].tab \in CanvasTabs, NEW j \in i + 1 .. n, u[j].do = "delete"
                   PROVE  u[j].tab # "edge"
        OBVIOUS
      <3>1. j \in 1 .. n /\ j + 1 \in (i + 1) + 1 .. n + 1 /\ u[j] = t[j + 1]
        BY <1>3, <1>4
      <3> QED
        BY <1>3, <2>1, <3>1 DEF DeleteOK
    <2> QED
      BY <1>3, <2>1, <2>2, <2>3, <2>4 DEF DeleteOK, n
  <1>9. ASSUME NEW i \in 1 .. n, u[i].do = "insert"
        PROVE  InsertOK(u, i, k, p, v)
    <2>1. InsertOK(t, i + 1, k, p, o) /\ u[i] = t[i + 1]
      BY <1>4, <1>5, <1>9
    <2>2. ASSUME NEW j \in 1 .. (i + 1) - 1, t[j].do = "delete"
          PROVE  v \/ \E m \in 1 .. i - 1 : u[m].do = "delete"
      <3>1. CASE j = 1
        BY <1>1, <2>2, <3>1
      <3>2. CASE j # 1
        <4>1. j - 1 \in 1 .. n /\ j - 1 \in 1 .. i - 1 /\ (j - 1) + 1 = j
          BY <1>3, <3>2
        <4> QED
          BY <1>4, <2>2, <4>1
      <3> QED
        BY <3>1, <3>2
    <2> QED
      BY <2>1, <2>2 DEF InsertOK
  <1>10. \A i \in 1 .. n : u[i].do = "commit" => i = n /\ k # "execute"
    BY <1>3, <1>4, <1>5
  <1>11. \A i \in 1 .. n : u[i].do \in {"read", "delete", "check", "insert", "commit"} /\ u[i].do # "check"
    BY <1>4, <1>5
  <1>12. Shape(u, k, p, v)
    BY <1>2, <1>6, <1>7, <1>8, <1>9, <1>10, <1>11 DEF Shape, n
  <1>13. u # <<>> => Head(u).do # "check"
    <2>1. u # <<>> => Head(u) = u[1] /\ 1 \in 1 .. n
      BY <1>2, <1>3, SeqParts DEF n
    <2> QED
      BY <1>11, <2>1
  <1>14. v => Straight(u)
    <2>1. v => \A i \in 1 .. n : u[i].do # "read"
      BY <1>7
    <2>2. ASSUME NEW i \in 1 .. n, u[i].do = "delete", NEW j \in 1 .. i - 1
          PROVE  u[j].do # "insert"
      <3>1. DeleteOK(t, i + 1, k, p, o)
        BY <1>4, <1>5, <2>2
      <3>2. j \in 1 .. n /\ j + 1 \in 1 .. (i + 1) - 1 /\ j + 1 # 1
        BY <1>3
      <3> QED
        BY <1>4, <3>1, <3>2 DEF DeleteOK
    <2> QED
      BY <1>11, <2>1, <2>2 DEF Straight, n
  <1> QED
    BY <1>12, <1>13, <1>14 DEF u

\* What is to be seen of a list that another statement goes before.
LEMMA BeforeSees ==
    ASSUME NEW u, NEW x, NEW t, IsSeq(t), Before(u, x, t)
    PROVE  /\ \A do : Has(u, do) <=> x.do = do \/ Has(t, do)
           /\ \A tab : Deletes(u, tab) <=> (x.do = "delete" /\ x.tab = tab) \/ Deletes(t, tab)
           /\ ToInsert(u) = (IF x.do = "insert" THEN {x.row} ELSE {}) \cup ToInsert(t)
  <1> DEFINE n == Len(t)
  <1>1. n \in Nat
    BY SeqParts
  <1>2. Len(u) = n + 1 /\ u[1] = x /\ \A i \in 1 .. n : u[i + 1] = t[i]
    BY DEF Before
  <1> HIDE DEF n
  <1>3. \A i \in 1 .. n + 1 : i = 1 \/ (i - 1 \in 1 .. n /\ u[i] = t[i - 1])
    <2> TAKE i \in 1 .. n + 1
    <2>1. i # 1 => i - 1 \in 1 .. n /\ (i - 1) + 1 = i
      BY <1>1
    <2> QED
      BY <1>2, <2>1
  <1>4. 1 \in 1 .. n + 1 /\ \A i \in 1 .. n : i + 1 \in 1 .. n + 1
    BY <1>1
  <1>5. \A do : Has(u, do) <=> x.do = do \/ Has(t, do)
    <2> SUFFICES ASSUME NEW do PROVE Has(u, do) <=> x.do = do \/ Has(t, do)
      OBVIOUS
    <2>1. Has(u, do) <=> \E i \in 1 .. n + 1 : u[i].do = do
      BY <1>2 DEF Has
    <2>2. Has(t, do) <=> \E i \in 1 .. n : t[i].do = do
      BY DEF Has, n
    <2> QED
      BY <1>2, <1>3, <1>4, <2>1, <2>2
  <1>6. \A tab : Deletes(u, tab) <=> (x.do = "delete" /\ x.tab = tab) \/ Deletes(t, tab)
    <2> SUFFICES ASSUME NEW tab
                 PROVE  Deletes(u, tab) <=> (x.do = "delete" /\ x.tab = tab) \/ Deletes(t, tab)
      OBVIOUS
    <2>1. Deletes(u, tab) <=> \E i \in 1 .. n + 1 : u[i].do = "delete" /\ u[i].tab = tab
      BY <1>2 DEF Deletes
    <2>2. Deletes(t, tab) <=> \E i \in 1 .. n : t[i].do = "delete" /\ t[i].tab = tab
      BY DEF Deletes, n
    <2> QED
      BY <1>2, <1>3, <1>4, <2>1, <2>2
  <1>7. ASSUME NEW r
        PROVE  r \in ToInsert(u) <=> (x.do = "insert" /\ r = x.row) \/ r \in ToInsert(t)
    <2>1. r \in ToInsert(u) <=> \E i \in 1 .. n + 1 : u[i].do = "insert" /\ r = u[i].row
      BY <1>2 DEF ToInsert
    <2>2. r \in ToInsert(t) <=> \E i \in 1 .. n : t[i].do = "insert" /\ r = t[i].row
      BY DEF ToInsert, n
    <2> QED
      BY <1>2, <1>3, <1>4, <2>1, <2>2
  <1> QED
    BY <1>5, <1>6, <1>7

\* Nothing is to be seen of an empty list.
LEMMA NothingSeen ==
    /\ \A do : ~Has(<<>>, do)
    /\ \A tab : ~Deletes(<<>>, tab)
    /\ ToInsert(<<>>) = {}
  <1>1. Len(<<>>) = 0
    BY SeqNone
  <1> QED
    BY <1>1 DEF Has, Deletes, ToInsert

--------------------------------------------------------------------------------
(***************************************************************************)
(* What a step leaves alone.                                               *)
(***************************************************************************)
\* What q has asked for, done and found stays.
Same(q) ==
    /\ todo'[q] = todo[q] /\ result'[q] = result[q] /\ asked'[q] = asked[q]
    /\ inserted'[q] = inserted[q] /\ deleted'[q] = deleted[q]
    /\ open'[q] = open[q] /\ found'[q] = found[q] /\ edgeless'[q] = edgeless[q]
    /\ loaded'[q] = loaded[q]

Others(p) == kind' = kind /\ \A q \in Operations : q # p => Same(q)

\* What an operation has is its own: a step of p changes nothing of q's.
LEMMA OwnSteps ==
    ASSUME NEW p \in Operations, TypeInv, Start(p) \/ Step(p) \/ Wait(p) \/ StatementFails(p)
    PROVE  Others(p) /\ TypeInv'
  <1> USE DEF Others, Same, TypeInv
  <1>1. ASSUME Fail(p), UNCHANGED <<asked, edgeless>> PROVE Others(p) /\ TypeInv'
    BY <1>1 DEF Fail, RollBack, Close, Answer
  <1>2. CASE Start(p)
    BY <1>2 DEF Start, txVars
  <1>3. CASE ReadTable(p)
    BY <1>3 DEF ReadTable, Answer, Advance, txVars, history
  <1>4. CASE DeleteRows(p)
    BY <1>1, <1>4 DEF DeleteRows, Advance
  <1>5. CASE CheckReferences(p)
    BY <1>1, <1>5 DEF CheckReferences, Advance, txVars, history
  <1>6. CASE InsertRow(p)
    BY <1>1, <1>6 DEF InsertRow, Answer, Advance, history
  <1>7. CASE CommitTx(p)
    BY <1>7 DEF CommitTx, Close, Answer
  <1>8. CASE EndDeadlock(p)
    BY <1>1, <1>8 DEF EndDeadlock, history
  <1>9. CASE Wait(p)
    BY <1>9 DEF Wait, history
  <1>10. CASE StatementFails(p)
    BY <1>1, <1>10 DEF StatementFails
  <1> QED
    BY <1>2, <1>3, <1>4, <1>5, <1>6, <1>7, <1>8, <1>9, <1>10 DEF Step

\* What is said of an operation alone stays true when it stays as it is.
LEMMA TxSame ==
    ASSUME NEW q \in Operations, Same(q), kind' = kind
    PROVE  /\ Tx(q) => Tx(q)'
           /\ Snapshot(q)' = Snapshot(q) /\ Checking(q)' = Checking(q)
           /\ Snap(q)' = Snap(q) /\ Statement(q)' = Statement(q)
  <1>1. Statement(q)' = Statement(q)
    BY DEF Same, Statement
  <1>2. Snapshot(q)' = Snapshot(q)
    BY DEF Same, Snapshot
  <1>3. Checking(q)' = Checking(q)
    BY <1>1 DEF Same, Checking
  <1>4. Snap(q)' = Snap(q)
    BY <1>2 DEF Same, Snap
  <1>5. Tx(q) => Tx(q)'
    BY <1>1, <1>2 DEF Same, Tx
  <1> QED
    BY <1>1, <1>2, <1>3, <1>4, <1>5

\* What a row is does not change.
LEMMA RowsSame ==
    /\ OtherRows' = OtherRows
    /\ \A r : /\ RowOK(r)' <=> RowOK(r)
              /\ WhoseOK(r)' <=> WhoseOK(r)
              /\ Attached(r)' <=> Attached(r)
  <1>1. OtherRows' = OtherRows
    BY DEF OtherRows, CanvasRows, WorkflowRow, StepRow, EdgeRow, NoteRow, ExecutionRow, RecordRow,
           Row, StepKey, Origin
  <1>2. Keys(OtherRows)' = Keys(OtherRows)
    BY <1>1 DEF Keys, Key
  <1>3. \A r : RowOK(r)' <=> RowOK(r)
    BY DEF RowOK, Origin
  <1>4. \A r : WhoseOK(r)' <=> WhoseOK(r)
    BY <1>1 DEF WhoseOK
  <1>5. \A r : Attached(r)' <=> Attached(r)
    BY <1>2 DEF Attached
  <1> QED
    BY <1>1, <1>3, <1>4, <1>5

\* The rows of the other workflow are its own, and its steps those of its canvas.
LEMMA RowsOfOther ==
    /\ \A r \in OtherRows : RowOK(r) /\ r.wf = other /\ r.by = other
    /\ \A r \in OtherRows : r.tab = "step" =>
          \E s \in ToSet(Rest.steps) : r.id = <<Origin(other), s>>
  <1> DEFINE R == {RecordRow(other, s, other) : s \in ToSet(Rest.steps)}
             C == CanvasRows(other, Rest, other)
  <1>1. OtherRows = {WorkflowRow(other, other), ExecutionRow(other, other)} \cup R \cup C
    BY DEF OtherRows
  <1>2. \A r \in {WorkflowRow(other, other), ExecutionRow(other, other)} \cup R :
           r.wf = other /\ r.by = other /\ r.tab \notin CanvasTabs
    BY DEF WorkflowRow, ExecutionRow, RecordRow, Row, CanvasTabs
  <1>3. \A r \in C : RowOK(r) /\ r.wf = other /\ r.by = other
    BY CanvasRowsOwn
  <1>4. ASSUME NEW r \in C, r.tab = "step"
        PROVE  \E s \in ToSet(Rest.steps) : r.id = <<Origin(other), s>>
    BY <1>4 DEF CanvasRows, StepRow, EdgeRow, NoteRow, Row
  <1> HIDE DEF R, C
  <1>5. \A r \in OtherRows : r \in C \/ (r.wf = other /\ r.by = other /\ r.tab \notin CanvasTabs)
    BY <1>1, <1>2
  <1>6. \A r : r.tab \notin CanvasTabs => RowOK(r) /\ r.tab # "step"
    BY DEF RowOK, CanvasTabs
  <1> QED
    BY <1>3, <1>4, <1>5, <1>6

\* The edges of an anchored canvas join steps that are not the other workflow's.
LEMMA AnchoredRows ==
    ASSUME NEW canvas, Anchored(canvas), NEW op, NEW x \in CanvasRows(w, canvas, op),
           x.tab = "edge"
    PROVE  Attached(x)
  <1>1. PICK e \in ToSet(canvas.edges) : x = EdgeRow(w, e, op)
    BY DEF CanvasRows, StepRow, EdgeRow, NoteRow, Row
  <1>2. PICK s \in {e.from, e.to} : s \notin ToSet(Rest.steps)
    BY <1>1 DEF Anchored
  <1> DEFINE k == <<"step", <<Origin(w), s>>>>
  <1>3. k \in x.refs /\ k[1] = "step"
    BY <1>1, <1>2 DEF EdgeRow, Row, StepKey
  <1>4. k \notin Keys(OtherRows)
    <2> SUFFICES ASSUME NEW r \in OtherRows, Key(r) = k PROVE FALSE
      BY DEF Keys
    <2>1. r.tab = "step" /\ r.id = <<Origin(w), s>>
      BY DEF Key
    <2>2. PICK y \in ToSet(Rest.steps) : r.id = <<Origin(other), y>>
      BY <2>1, RowsOfOther
    <2>3. y = s
      BY <2>1, <2>2
    <2> QED
      BY <1>2, <2>3
  <1> QED
    BY <1>3, <1>4 DEF Attached

\* The excuse of a save stays as long as whoever is over stays over.
LEMMA ExcuseStays ==
    ASSUME NEW p \in Operations, NEW q \in Operations, Others(p), Excuse(q),
           met[q] \subseteq Operations, met[q] \subseteq met'[q],
           edgeless'[q] = edgeless[q], todo[p] # <<>> \/ p \notin met[q]
    PROVE  Excuse(q)'
  <1>1. PICK r \in met[q] : /\ kind[r] = "save" /\ todo[r] = <<>>
                            /\ edgeless[q] \/ edgeless[r] \/ ~Anchored(asked[r])
    BY DEF Excuse
  <1>2. r # p /\ r \in Operations /\ r \in met'[q]
    BY <1>1
  <1>3. /\ kind'[r] = "save" /\ todo'[r] = <<>>
        /\ edgeless'[q] \/ edgeless'[r] \/ ~Anchored(asked[r])'
    <2>1. Same(r) /\ kind' = kind
      BY <1>2 DEF Others
    <2>2. Anchored(asked[r])' <=> Anchored(asked[r])
      BY <2>1 DEF Same, Anchored
    <2> QED
      BY <1>1, <2>1, <2>2 DEF Same
  <1> QED
    BY <1>2, <1>3 DEF Excuse

LEMMA MissedStays ==
    ASSUME NEW p \in Operations, NEW q \in Operations, Others(p), Missed(q),
           met[q] \subseteq Operations, met[q] \subseteq met'[q],
           todo[p] # <<>> \/ p \notin met[q]
    PROVE  Missed(q)'
  <1>1. PICK r \in met[q] : kind[r] = "save" /\ todo[r] = <<>> /\ ~Anchored(asked[r])
    BY DEF Missed
  <1>2. r # p /\ r \in Operations /\ r \in met'[q]
    BY <1>1
  <1>3. kind'[r] = "save" /\ todo'[r] = <<>> /\ ~Anchored(asked[r])'
    <2>1. Same(r) /\ kind' = kind
      BY <1>2 DEF Others
    <2>2. Anchored(asked[r])' <=> Anchored(asked[r])
      BY <2>1 DEF Same, Anchored
    <2> QED
      BY <1>1, <2>1, <2>2 DEF Same
  <1> QED
    BY <1>2, <1>3 DEF Missed

\* Who has nothing to do with a step clears its canvas as before.
LEMMA ClearsSame ==
    ASSUME NEW q \in Operations, Same(q), kind' = kind, committed' = committed,
           Clears(q), Excuse(q) => Excuse(q)'
    PROVE  Clears(q)'
  <1>1. Statement(q)' = Statement(q)
    BY DEF Same, Statement
  <1>2. Changes(q)' <=> Changes(q)
    BY DEF Same, Changes, Active
  <1>3. \A tab : Waits(q, tab)' <=> Waits(q, tab)
    BY <1>1 DEF Same, Waits
  <1>4. \A tab : Complete(q, tab)' <=> Complete(q, tab)
    BY <1>3 DEF Same, Complete, CanvasRow
  <1>5. EdgesDoomed(q)' <=> EdgesDoomed(q)
    BY <1>1, <1>3, RowsSame DEF Same, EdgesDoomed, CanvasRow
  <1>6. deleted'[q] = deleted[q] /\ edgeless'[q] = edgeless[q] /\ todo'[q] = todo[q]
    BY DEF Same
  <1> QED
    BY <1>2, <1>4, <1>5, <1>6 DEF Clears, CanvasRow

\* An edge added while it waits that refers to a step of the workflow is no surprise to it.
LEMMA AwareSame ==
    ASSUME NEW q \in Operations, Same(q), kind' = kind, Aware(q), Missed(q) => Missed(q)',
           \A x \in committed' : CanvasRow(x, "edge") => x \in committed \/ Attached(x)
    PROVE  Aware(q)'
  <1>1. Statement(q)' = Statement(q)
    BY DEF Same, Statement
  <1>2. Changes(q)' <=> Changes(q)
    BY DEF Same, Changes, Active
  <1>3. Waits(q, "edge")' <=> Waits(q, "edge")
    BY <1>1 DEF Same, Waits
  <1>4. \A x : CanvasRow(x, "edge")' <=> CanvasRow(x, "edge")
    BY DEF CanvasRow
  <1>5. found'[q] = found[q]
    BY DEF Same
  <1>6. ASSUME Changes(q), Waits(q, "edge"), ~Missed(q)', NEW x \in committed', CanvasRow(x, "edge")
        PROVE  x \in Head(found[q]) \/ Attached(x)
    BY <1>6 DEF Aware
  <1> QED
    BY <1>2, <1>3, <1>4, <1>5, <1>6, RowsSame DEF Aware

\* A step that changes only what its own operation has.
Steady == UNCHANGED <<committed, last, merged, met>>

\* Of such a step, it is enough to show what it means for its own operation.
LEMMA SteadyKeeps ==
    ASSUME NEW p \in Operations, IInv, TypeInv', Others(p), Steady, todo[p] # <<>>,
           Tx(p)',
           IsFiniteSet(inserted'[p]), IsFiniteSet(loaded'[p]),
           result'[p] = result[p] \/ result'[p] # "none",
           todo'[p] # <<>> \/ result'[p] # "none",
           Snapshot(p)' \subseteq Snapshot(p) \cup committed,
           deleted'[p] \subseteq committed,
           \A q \in Operations : q # p => deleted'[p] \cap deleted[q] = {},
           AddedRefer(p)', KeptRefer(p)',
           \A q \in Operations : q # p => Apart(p, q)' /\ Apart(q, p)',
           \A q \in Operations : q # p =>
              \/ Snap(p)' \cap committed \subseteq Snap(q)
              \/ Snap(q) \cap committed \subseteq Snap(p)',
           Clears(p)', Aware(p)'
    PROVE  IInv'
  <1>1. \A q \in Operations : q # p =>
           /\ Same(q) /\ (Tx(q) => Tx(q)')
           /\ Snapshot(q)' = Snapshot(q) /\ Checking(q)' = Checking(q) /\ Snap(q)' = Snap(q)
    BY TxSame DEF Others
  <1>2. TxInv'
    BY <1>1 DEF TxInv, IInv
  <1>3. FiniteInv'
    BY <1>1 DEF FiniteInv, IInv, Same, Steady
  <1>4. \A r : Over(r) => Over(r)'
    BY <1>1 DEF Over, Same
  <1>5. RowsInv'
    <2>1. OtherRows \subseteq committed' /\ \A r \in committed' : RowOK(r) /\ WhoseOK(r) /\ Over(r)'
      BY <1>4 DEF IInv, RowsInv, Steady
    <2>2. \A q \in Operations : \A r \in Snapshot(q)' : Over(r)'
      BY <1>1, <1>4 DEF IInv, RowsInv
    <2> QED
      BY <2>1, <2>2, RowsSame DEF RowsInv
  <1>6. DeletedInv'
    BY <1>1 DEF IInv, DeletedInv, Steady, Same
  <1>7. ReferencesInv'
    <2>1. \A r \in committed' : r.refs \subseteq Keys(committed)'
      BY DEF IInv, ReferencesInv, Steady, Keys, Key
    <2>2. ASSUME NEW q \in Operations, q # p PROVE AddedRefer(q)' /\ KeptRefer(q)'
      <3>1. AddedRefer(q) /\ KeptRefer(q)
        BY DEF IInv, ReferencesInv
      <3>2. Same(q) /\ Checking(q)' = Checking(q) /\ committed' = committed
        BY <1>1, <2>2 DEF Steady
      <3>3. Keys(deleted[q])' = Keys(deleted[q]) /\ Keys(Visible(q))' = Keys(Visible(q))
        BY <3>2 DEF Same, Keys, Key, Visible
      <3> QED
        BY <3>1, <3>2, <3>3 DEF AddedRefer, KeptRefer, Same
    <2>3. ASSUME NEW q \in Operations, NEW r \in Operations, q # r, q # p, r # p PROVE Apart(q, r)'
      <3>1. Apart(q, r)
        BY <2>3 DEF IInv, ReferencesInv
      <3>2. inserted'[q] = inserted[q] /\ Keys(deleted[r])' = Keys(deleted[r])
        BY <1>1, <2>3 DEF Same, Keys, Key
      <3> QED
        BY <3>1, <3>2 DEF Apart
    <2>4. \A q \in Operations : AddedRefer(q)' /\ KeptRefer(q)'
      BY <2>2
    <2>5. \A q, r \in Operations : q # r => Apart(q, r)'
      BY <2>3
    <2> QED
      BY <2>1, <2>4, <2>5 DEF ReferencesInv
  <1>8. MetInv'
    <2>1. MetInv /\ met' = met
      BY DEF IInv, Steady
    <2>2. \A q \in Operations : q \in Active' => q \in Active
      BY <1>1 DEF Active, Same
    <2>3. \A q \in Operations : q \in Active \/ result[q] # "none" => q \in Active' \/ result'[q] # "none"
      BY <1>1 DEF Active, Same
    <2>4. Active' \subseteq Operations
      BY DEF Active
    <2> QED
      BY <2>1, <2>2, <2>3, <2>4 DEF MetInv
  <1>9. ChainInv'
    <2>1. \A q, r \in Operations : q # p /\ r # p =>
             \/ Snap(q)' \cap committed' \subseteq Snap(r)'
             \/ Snap(r)' \cap committed' \subseteq Snap(q)'
      BY <1>1 DEF IInv, ChainInv, Steady
    <2>2. \A q \in Operations : q # p =>
             \/ Snap(q)' \cap committed' \subseteq Snap(p)'
             \/ Snap(p)' \cap committed' \subseteq Snap(q)'
      BY <1>1 DEF Steady
    <2> QED
      BY <2>1, <2>2 DEF ChainInv
  <1>10. ClearedInv'
    <2>1. ASSUME NEW q \in Operations, q # p PROVE Clears(q)'
      <3>1. Clears(q) /\ met[q] \subseteq Operations /\ met'[q] = met[q]
        BY DEF IInv, ClearedInv, MetInv, Steady
      <3>2. Same(q) /\ kind' = kind /\ committed' = committed
        BY <2>1 DEF Others, Steady
      <3>3. Excuse(q) => Excuse(q)'
        BY <3>1, <3>2, ExcuseStays DEF Same
      <3> QED
        BY <3>1, <3>2, <3>3, ClearsSame
    <2> QED
      BY <2>1 DEF ClearedInv
  <1>11. AwareInv'
    <2>1. ASSUME NEW q \in Operations, q # p PROVE Aware(q)'
      <3>1. Aware(q) /\ met[q] \subseteq Operations /\ met'[q] = met[q]
        BY DEF IInv, AwareInv, MetInv, Steady
      <3>2. Same(q) /\ kind' = kind /\ committed' = committed
        BY <2>1 DEF Others, Steady
      <3>3. Missed(q) => Missed(q)'
        BY <3>1, MissedStays
      <3> QED
        BY <3>1, <3>2, <3>3, AwareSame
    <2> QED
      BY <2>1 DEF AwareInv
  <1>12. HoldsInv'
    BY DEF IInv, HoldsInv, Holds, Names, Steady
  <1> QED
    BY <1>2, <1>3, <1>5, <1>6, <1>7, <1>8, <1>9, <1>10, <1>11, <1>12 DEF IInv

\* The operation is over, and nothing of its transaction is left.
Ended(p) ==
    /\ todo'[p] = <<>> /\ result'[p] # "none" /\ open'[p] = FALSE
    /\ inserted'[p] = {} /\ deleted'[p] = {} /\ found'[p] = Unread

LEMMA EmptyShape == \A k, p : Shape(<<>>, k, p, FALSE)
  <1>1. IsSeq(<<>>) /\ Len(<<>>) = 0
    BY SeqNone
  <1> QED
    BY <1>1 DEF Shape, Has

LEMMA EndedKeeps ==
    ASSUME NEW p \in Operations, IInv, TypeInv', Others(p), Steady, todo[p] # <<>>, Ended(p),
           IsFiniteSet(loaded'[p])
    PROVE  IInv'
  <1>1. Tx(p)'
    <2>1. Snapshot(p)' = {}
      BY DEF Ended, Snapshot
    <2> QED
      BY <2>1, EmptyShape, NothingSeen DEF Ended, Tx
  <1>2. IsFiniteSet(inserted'[p])
    BY FS_EmptySet DEF Ended
  <1>3. Snapshot(p)' = {} /\ Snap(p)' = {}
    BY DEF Ended, Snapshot, Snap
  <1>4. AddedRefer(p)' /\ KeptRefer(p)'
    BY DEF Ended, AddedRefer, KeptRefer, Keys
  <1>5. \A q \in Operations : q # p => Apart(p, q)' /\ Apart(q, p)'
    BY DEF Ended, Apart, Keys
  <1>6. Clears(p)' /\ Aware(p)'
    BY DEF Clears, Aware, Changes, Active, Ended
  <1>7. /\ deleted'[p] \subseteq committed /\ result'[p] # "none"
        /\ \A q \in Operations : q # p => deleted'[p] \cap deleted[q] = {}
        /\ Snapshot(p)' \subseteq Snapshot(p) \cup committed
        /\ \A q \in Operations : q # p =>
              \/ Snap(p)' \cap committed \subseteq Snap(q)
              \/ Snap(q) \cap committed \subseteq Snap(p)'
    BY <1>3 DEF Ended
  <1> QED
    BY <1>1, <1>2, <1>4, <1>5, <1>6, <1>7, SteadyKeeps

LEMMA FailEnds ==
    ASSUME NEW p \in Operations, TypeInv, Fail(p)
    PROVE  Ended(p) /\ committed' = committed /\ loaded' = loaded
  BY DEF TypeInv, Fail, RollBack, Close, Answer, Ended

\* What is known of an operation that is under way.
LEMMA UnderWay ==
    ASSUME NEW p \in Operations, IInv, todo[p] # <<>>
    PROVE  /\ Tx(p) /\ Shape(todo[p], kind[p], p, open[p]) /\ open[p] \in BOOLEAN
           /\ result[p] = "none" /\ p \in Active
           /\ IsSeq(todo[p]) /\ IsSeq(Tail(todo[p])) /\ Statement(p) = todo[p][1]
           /\ Before(todo[p], Statement(p), Tail(todo[p]))
           /\ Statement(p).do # "delete" => found[p] = Unread
           /\ kind[p] \in {"save", "delete", "execute", "clone"}
  <1>1. Tx(p)
    BY DEF IInv, TxInv
  <1>2. Shape(todo[p], kind[p], p, open[p]) /\ open[p] \in BOOLEAN
    BY <1>1 DEF Tx
  <1>3. IsSeq(todo[p]) /\ Head(todo[p]) = todo[p][1] /\ Before(todo[p], Head(todo[p]), Tail(todo[p]))
    BY <1>2, HeadShape
  <1>4. IsSeq(Tail(todo[p]))
    BY <1>3, SeqParts
  <1>5. kind[p] \in {"save", "delete", "execute", "clone"}
    BY RequestsAssumption DEF IInv, TypeInv
  <1> QED
    BY <1>1, <1>2, <1>3, <1>4, <1>5 DEF Tx, Active, Statement

\* An operation that goes on to its next statement, and changes nothing.
LEMMA MovesOn ==
    ASSUME NEW p \in Operations, IInv, TypeInv', Others(p), Steady,
           todo[p] # <<>>, todo'[p] # <<>>,
           result'[p] = result[p], asked'[p] = asked[p], open'[p] = open[p],
           inserted'[p] = inserted[p], deleted'[p] = deleted[p],
           found[p] = Unread, found'[p] = Unread, IsFiniteSet(loaded'[p]),
           Shape(todo'[p], kind[p], p, open[p]),
           Has(todo'[p], "delete") => inserted[p] = {},
           Deletes(todo'[p], "edge") => \A r \in deleted[p] : r.tab # "edge",
           kind[p] = "save" => ToInsert(todo'[p]) = ToInsert(todo[p]),
           KeptRefer(p)', Clears(p)'
    PROVE  IInv'
  <1>1. Tx(p) /\ kind' = kind
    BY UnderWay DEF Others
  <1>2. Snapshot(p) = {} /\ Snapshot(p)' = {} /\ Snap(p)' = Snap(p)
    BY DEF Snapshot, Snap
  <1>3. Tx(p)'
    <2>1. kind'[p] = "save" /\ todo'[p] # <<>> =>
             inserted'[p] \cup ToInsert(todo'[p]) = CanvasRows(w, asked'[p], p)
      BY <1>1 DEF Tx
    <2>2. CanvasRows(w, asked[p], p)' = CanvasRows(w, asked'[p], p)
      BY DEF CanvasRows, StepRow, EdgeRow, NoteRow, Row
    <2>3. result'[p] = "none"
      BY UnderWay
    <2> QED
      BY <1>1, <1>2, <2>1, <2>2, <2>3 DEF Tx
  <1>4. IsFiniteSet(inserted'[p])
    BY DEF IInv, FiniteInv
  <1>5. AddedRefer(p)'
    <2>1. AddedRefer(p)
      BY DEF IInv, ReferencesInv
    <2>2. Keys(Visible(p))' = Keys(Visible(p))
      BY DEF Keys, Key, Visible, Steady
    <2> QED
      BY <2>1, <2>2 DEF AddedRefer
  <1>6. ASSUME NEW q \in Operations, q # p PROVE Apart(p, q)' /\ Apart(q, p)'
    <2>1. Apart(p, q) /\ Apart(q, p)
      BY <1>6 DEF IInv, ReferencesInv
    <2>2. Same(q)
      BY <1>6 DEF Others
    <2>3. Keys(deleted[p])' = Keys(deleted[p]) /\ Keys(deleted[q])' = Keys(deleted[q])
      BY <2>2 DEF Keys, Key, Same
    <2> QED
      BY <2>1, <2>2, <2>3 DEF Apart, Same
  <1>7. /\ deleted'[p] \subseteq committed
        /\ \A q \in Operations : q # p => deleted'[p] \cap deleted[q] = {}
    BY DEF IInv, DeletedInv
  <1>8. \A q \in Operations : q # p =>
           \/ Snap(p)' \cap committed \subseteq Snap(q)
           \/ Snap(q) \cap committed \subseteq Snap(p)'
    BY <1>2 DEF IInv, ChainInv
  <1>9. Aware(p)'
    BY DEF Aware, Waits
  <1> QED
    BY <1>2, <1>3, <1>4, <1>5, <1>6, <1>7, <1>8, <1>9, SteadyKeeps

\* Before the first DELETE there is no transaction.
LEMMA ReadTableKeeps ==
    ASSUME NEW p \in Operations, IInv, ReadTable(p)
    PROVE  IInv'
  <1>1. p \in Active /\ Statement(p).do = "read" /\ todo[p] # <<>>
    BY DEF ReadTable, Active
  <1>2. /\ Tx(p) /\ Shape(todo[p], kind[p], p, open[p]) /\ open[p] \in BOOLEAN
        /\ result[p] = "none"
        /\ IsSeq(todo[p]) /\ IsSeq(Tail(todo[p])) /\ Statement(p) = todo[p][1]
        /\ Before(todo[p], Statement(p), Tail(todo[p])) /\ found[p] = Unread
    BY <1>1, UnderWay
  <1>3. ~open[p] /\ kind[p] \in {"execute", "clone"} /\ ~Has(todo[p], "delete")
    BY <1>1, <1>2, HeadShape
  <1>4. inserted[p] = {} /\ deleted[p] = {}
    BY <1>2, <1>3 DEF Tx
  <1>5. Others(p) /\ TypeInv' /\ TypeInv
    BY OwnSteps DEF IInv, Step
  <1>6. UNCHANGED <<committed, inserted, deleted, open, found, asked, last, met, merged>>
    BY DEF ReadTable, txVars, history
  <1>7. Steady
    BY <1>6 DEF Steady
  <1> DEFINE rows == Matching(p, [tab |-> Statement(p).tab, wf |-> w])
             all == loaded[p] \cup rows
  <1>8. IsFiniteSet(all)
    <2>1. IsFiniteSet(committed) /\ IsFiniteSet(inserted[p]) /\ IsFiniteSet(loaded[p])
      BY DEF IInv, FiniteInv
    <2>2. rows \subseteq committed
      BY <1>4 DEF Matching, Visible
    <2> HIDE DEF rows
    <2>3. IsFiniteSet(rows)
      BY <2>1, <2>2, FS_Subset
    <2> QED
      BY <2>1, <2>3, FS_Union
  <1>9. /\ loaded' = [loaded EXCEPT ![p] = all]
        /\ \/ Answer(p, "error")
           \/ Len(todo[p]) > 1 /\ Advance(p, <<>>) /\ UNCHANGED result
           \/ /\ Len(todo[p]) = 1 /\ kind[p] = "execute" /\ Advance(p, Admit(all, p))
              /\ UNCHANGED result
           \/ /\ Len(todo[p]) = 1 /\ kind[p] = "clone" /\ Advance(p, Copy(all, p))
              /\ UNCHANGED result
    BY DEF ReadTable
  <1> HIDE DEF rows, all
  <1>10. loaded'[p] = all
    BY <1>5, <1>9 DEF TypeInv
  <1>11. CASE Answer(p, "error")
    <2>1. Ended(p)
      BY <1>2, <1>3, <1>4, <1>5, <1>6, <1>11 DEF Answer, Ended, TypeInv
    <2> QED
      BY <1>1, <1>5, <1>7, <1>8, <1>10, <2>1, EndedKeeps
  <1>12. ASSUME NEW u, todo' = [todo EXCEPT ![p] = u], UNCHANGED result, u # <<>>,
                Shape(u, kind[p], p, FALSE)
         PROVE  IInv'
    <2>1. todo'[p] = u
      BY <1>5, <1>12 DEF TypeInv
    <2>2. KeptRefer(p)'
      BY <1>4, <1>6 DEF KeptRefer, Keys
    <2>3. Clears(p)'
      BY <1>3, <1>5 DEF Clears, Changes, Others
    <2>4. Shape(todo'[p], kind[p], p, open[p])
      BY <1>2, <1>3, <1>12, <2>1
    <2>5. /\ result'[p] = result[p] /\ asked'[p] = asked[p] /\ open'[p] = open[p]
          /\ inserted'[p] = inserted[p] /\ deleted'[p] = deleted[p]
          /\ found'[p] = Unread /\ IsFiniteSet(loaded'[p]) /\ kind[p] # "save"
          /\ todo'[p] # <<>>
      BY <1>2, <1>3, <1>6, <1>8, <1>10, <1>12, <2>1
    <2> QED
      BY <1>1, <1>2, <1>4, <1>5, <1>7, <2>2, <2>3, <2>4, <2>5, MovesOn
  <1>13. CASE Len(todo[p]) > 1 /\ Advance(p, <<>>) /\ UNCHANGED result
    <2> DEFINE u == Tail(todo[p])
    <2>1. <<>> \o u = u
      BY <1>2, SeqNone
    <2>2. todo' = [todo EXCEPT ![p] = u]
      BY <1>13, <2>1 DEF Advance
    <2>3. Shape(u, kind[p], p, FALSE)
      BY <1>1, <1>2, <1>3, TailShape DEF Statement
    <2>4. u # <<>>
      <3>1. Len(u) = Len(todo[p]) - 1 /\ Len(todo[p]) \in Nat
        BY <1>1, <1>2, SeqParts DEF u
      <3>2. Len(u) # 0
        <4>1. Len(todo[p]) > 1
          BY <1>13
        <4>2. \A n \in Nat : n > 1 => n - 1 # 0
          OBVIOUS
        <4> HIDE DEF u
        <4> QED
          BY <3>1, <4>1, <4>2
      <3>3. IsSeq(u)
        BY <1>2
      <3> HIDE DEF u
      <3> QED
        BY <3>2, <3>3, SeqParts
    <2> HIDE DEF u
    <2> QED
      BY <1>12, <1>13, <2>2, <2>3, <2>4
  <1>14. ASSUME Len(todo[p]) = 1, NEW u, IsSeq(u), Advance(p, u)
         PROVE  todo' = [todo EXCEPT ![p] = u]
    <2>1. Tail(todo[p]) = <<>>
      <3>1. Len(Tail(todo[p])) = 0
        BY <1>1, <1>2, <1>14, SeqParts
      <3> QED
        BY <1>2, <3>1, SeqParts
    <2>2. u \o <<>> = u
      BY <1>14, SeqNone
    <2> QED
      BY <1>14, <2>1, <2>2 DEF Advance
  <1>15. CASE /\ Len(todo[p]) = 1 /\ kind[p] = "execute" /\ Advance(p, Admit(all, p))
              /\ UNCHANGED result
    <2>1. Shape(Admit(all, p), "execute", p, FALSE) /\ Admit(all, p) # <<>>
      BY <1>8, AdmitShape
    <2>2. IsSeq(Admit(all, p))
      BY <2>1 DEF Shape
    <2> QED
      BY <1>12, <1>14, <1>15, <2>1, <2>2
  <1>16. CASE /\ Len(todo[p]) = 1 /\ kind[p] = "clone" /\ Advance(p, Copy(all, p))
              /\ UNCHANGED result
    <2>1. Shape(Copy(all, p), "clone", p, FALSE) /\ Copy(all, p) # <<>>
      BY <1>8, CopyShape
    <2>2. IsSeq(Copy(all, p))
      BY <2>1 DEF Shape
    <2> QED
      BY <1>12, <1>14, <1>16, <2>1, <2>2
  <1> QED
    BY <1>9, <1>11, <1>13, <1>15, <1>16

\* A DELETE that waits keeps the transaction open.
LEMMA OpenShape ==
    ASSUME NEW t, NEW k, NEW p, NEW o \in BOOLEAN, Shape(t, k, p, o), t # <<>>,
           Head(t).do = "delete"
    PROVE  Shape(t, k, p, TRUE)
  <1>1. Head(t) = t[1] /\ 1 \in 1 .. Len(t) /\ Len(t) \in Nat /\ IsSeq(t)
    BY HeadShape
  <1>2. Has(t, "delete")
    BY <1>1 DEF Has
  <1>3. t[Len(t)].do = "commit"
    BY <1>2 DEF Shape
  <1>4. \A i \in 1 .. Len(t) :
           /\ t[i].do \in {"delete", "insert", "commit"}
           /\ t[i].do = "commit" => i = Len(t) /\ k # "execute"
           /\ t[i].do = "delete" => DeleteOK(t, i, k, p, o)
           /\ t[i].do = "insert" => InsertOK(t, i, k, p, o)
    BY <1>1 DEF Shape
  <1>5. ASSUME NEW i \in 1 .. Len(t), t[i].do = "delete" PROVE DeleteOK(t, i, k, p, TRUE)
    <2>1. DeleteOK(t, i, k, p, o)
      BY <1>4, <1>5
    <2>2. \A j \in 1 .. i - 1 : t[j].do # "insert"
      BY <1>1, <2>1 DEF DeleteOK
    <2> QED
      BY <2>1, <2>2 DEF DeleteOK
  <1>6. \A i \in 1 .. Len(t) : t[i].do = "insert" => InsertOK(t, i, k, p, TRUE)
    BY <1>4 DEF InsertOK
  <1> QED
    BY <1>1, <1>3, <1>4, <1>5, <1>6 DEF Shape

\* A committed edge that an operation leaves belongs to a step it leaves.
LEMMA StepOfEdge ==
    ASSUME NEW p \in Operations, IInv, todo[p] # <<>>, Statement(p).do # "check",
           NEW x \in committed \ deleted[p], CanvasRow(x, "edge"), Attached(x)
    PROVE  \E k \in committed \ deleted[p] : CanvasRow(k, "step") /\ Key(k) \in x.refs
  <1>1. RowOK(x) /\ x.refs \subseteq Keys(committed)
    BY DEF IInv, RowsInv, ReferencesInv
  <1>2. PICK key \in x.refs : /\ key[1] = "step" /\ key \notin Keys(OtherRows)
                              /\ key[2][1] = page
    BY <1>1, NamesAssumption DEF RowOK, CanvasRow, Attached, Origin
  <1>3. PICK k \in committed : Key(k) = key
    BY <1>1, <1>2 DEF Keys
  <1>4. CanvasRow(k, "step")
    <2>1. k.tab = "step" /\ k.id = key[2]
      BY <1>2, <1>3 DEF Key
    <2>2. RowOK(k) /\ WhoseOK(k)
      BY <1>3 DEF IInv, RowsInv
    <2>3. k \notin OtherRows
      BY <1>2, <1>3 DEF Keys
    <2>4. k.id[1] = Origin(k.wf) /\ k.wf \in Operations \cup {w}
      BY <2>1, <2>2, <2>3 DEF RowOK, WhoseOK
    <2>5. k.wf \notin Operations
      BY <1>2, <2>1, <2>4, NamesAssumption DEF Origin
    <2> QED
      BY <2>1, <2>4, <2>5 DEF CanvasRow
  <1>5. k \notin deleted[p]
    <2>1. x.refs \cap Keys(deleted[p]) \subseteq Checking(p)
      BY DEF IInv, ReferencesInv, KeptRefer
    <2>2. Checking(p) = {}
      BY DEF Checking
    <2> QED
      BY <1>2, <1>3, <2>1, <2>2 DEF Keys
  <1> QED
    BY <1>2, <1>3, <1>4, <1>5

\* What is known of an operation that deletes.
LEMMA Deleting ==
    ASSUME NEW p \in Operations, IInv, todo[p] # <<>>, Statement(p).do = "delete"
    PROVE  /\ Statement(p).wf = Target(kind[p], p) /\ inserted[p] = {}
           /\ Checking(p) = {} /\ Has(todo[p], "delete")
           /\ Changes(p) => Statement(p).wf = w
           /\ Matching(p, Statement(p)) =
                {r \in committed \ deleted[p] : r.tab = Statement(p).tab /\ r.wf = Statement(p).wf}
  <1>1. /\ Tx(p) /\ Shape(todo[p], kind[p], p, open[p]) /\ open[p] \in BOOLEAN
        /\ Statement(p) = todo[p][1]
    BY UnderWay
  <1>2. Statement(p).wf = Target(kind[p], p) /\ Has(todo[p], "delete")
    <2>1. 1 \in 1 .. Len(todo[p])
      BY <1>1, HeadShape
    <2> QED
      BY <1>1, <2>1, HeadShape DEF Has
  <1>3. inserted[p] = {}
    BY <1>1, <1>2 DEF Tx
  <1> QED
    BY <1>2, <1>3 DEF Checking, Changes, Target, Matching, Visible

LEMMA WaitKeeps ==
    ASSUME NEW p \in Operations, IInv, Wait(p)
    PROVE  IInv'
  <1>1. todo[p] # <<>> /\ Statement(p).do = "delete" /\ found[p] = Unread
    BY DEF Wait, Active
  <1>2. Others(p) /\ TypeInv' /\ TypeInv
    BY OwnSteps DEF IInv
  <1>3. /\ Steady
        /\ UNCHANGED <<committed, inserted, deleted, kind, todo, result, loaded, asked, edgeless, met>>
    BY DEF Wait, history, Steady
  <1> DEFINE rows == Matching(p, Statement(p))
  <1>4. found'[p] = <<rows>> /\ open'[p] = TRUE
    BY <1>2 DEF Wait, TypeInv
  <1>5. /\ Statement(p).wf = Target(kind[p], p) /\ inserted[p] = {}
        /\ Changes(p) => Statement(p).wf = w
        /\ rows = {r \in committed \ deleted[p] : r.tab = Statement(p).tab /\ r.wf = Statement(p).wf}
    BY <1>1, Deleting
  <1> HIDE DEF rows
  <1>6. found'[p] # Unread /\ Head(found'[p]) = rows /\ Snapshot(p)' = rows /\ Snapshot(p) = {}
    <2>1. <<rows>> # <<>> /\ Head(<<rows>>) = rows
      OBVIOUS
    <2> QED
      BY <1>1, <1>4, <2>1 DEF Unread, Snapshot
  <1>7. /\ Tx(p) /\ Shape(todo[p], kind[p], p, open[p]) /\ open[p] \in BOOLEAN
        /\ result[p] = "none" /\ IsSeq(todo[p])
    BY <1>1, UnderWay
  <1>8. Shape(todo[p], kind[p], p, TRUE)
    BY <1>1, <1>7, OpenShape DEF Statement
  <1>9. Statement(p)' = Statement(p)
    BY <1>3 DEF Statement
  <1>10. Tx(p)'
    <2>1. CanvasRows(w, asked[p], p)' = CanvasRows(w, asked[p], p)
      BY <1>3 DEF CanvasRows, StepRow, EdgeRow, NoteRow, Row
    <2>2. \A r \in rows : r.wf = Target(kind[p], p) /\ r.tab = Statement(p).tab
      BY <1>5
    <2> QED
      BY <1>1, <1>3, <1>4, <1>6, <1>7, <1>8, <1>9, <2>1, <2>2 DEF Tx
  <1>11. IsFiniteSet(inserted'[p]) /\ IsFiniteSet(loaded'[p])
    BY <1>3 DEF IInv, FiniteInv
  <1>12. Snapshot(p)' \subseteq Snapshot(p) \cup committed
    BY <1>5, <1>6
  <1>13. deleted'[p] \subseteq committed /\ \A q \in Operations : q # p => deleted'[p] \cap deleted[q] = {}
    BY <1>3 DEF IInv, DeletedInv
  <1>14. AddedRefer(p)' /\ KeptRefer(p)'
    <2>1. AddedRefer(p) /\ KeptRefer(p)
      BY DEF IInv, ReferencesInv
    <2>2. Checking(p)' = Checking(p) /\ Keys(Visible(p))' = Keys(Visible(p)) /\ Keys(deleted[p])' = Keys(deleted[p])
      BY <1>3, <1>9 DEF Checking, Keys, Key, Visible
    <2> QED
      BY <1>3, <2>1, <2>2 DEF AddedRefer, KeptRefer
  <1>15. ASSUME NEW q \in Operations, q # p PROVE Apart(p, q)' /\ Apart(q, p)'
    <2>1. Apart(p, q) /\ Apart(q, p)
      BY <1>15 DEF IInv, ReferencesInv
    <2> QED
      BY <1>3, <2>1 DEF Apart, Keys, Key
  <1>16. ASSUME NEW q \in Operations, q # p
         PROVE  \/ Snap(p)' \cap committed \subseteq Snap(q)
                \/ Snap(q) \cap committed \subseteq Snap(p)'
    <2>1. CASE Statement(p).tab = "edge" /\ Statement(p).wf = w
      <3>1. \A r \in committed : CanvasRow(r, "edge") => r \in rows \cup deleted[p]
        BY <1>5, <2>1 DEF CanvasRow
      <3>2. \A r \in Snap(q) \cap committed : r \in Snap(p)'
        BY <1>3, <1>6, <3>1 DEF Snap, CanvasRow
      <3> QED
        BY <3>2
    <2>2. CASE ~(Statement(p).tab = "edge" /\ Statement(p).wf = w)
      <3>1. \A r \in rows : ~CanvasRow(r, "edge")
        BY <1>5, <2>2 DEF CanvasRow
      <3>2. Snap(p)' = Snap(p)
        BY <1>3, <1>6, <3>1 DEF Snap, CanvasRow
      <3> QED
        BY <3>2 DEF IInv, ChainInv
    <2> QED
      BY <2>1, <2>2
  <1>17. Clears(p)'
    <2> SUFFICES ASSUME Changes(p)', ~Deletes(todo'[p], "edge")
                 PROVE  /\ ~edgeless'[p] => \E r \in deleted'[p] : CanvasRow(r, "edge")'
                        /\ \/ Excuse(p)'
                           \/ (EdgesDoomed(p) /\ Complete(p, "step") /\ Complete(p, "note"))'
      BY DEF Clears
    <2>1. Changes(p) /\ ~Deletes(todo[p], "edge") /\ Statement(p).wf = w
      BY <1>3, <1>5 DEF Changes, Active
    <2>2. /\ ~edgeless[p] => \E r \in deleted[p] : CanvasRow(r, "edge")
          /\ Excuse(p) \/ (EdgesDoomed(p) /\ Complete(p, "step") /\ Complete(p, "note"))
      BY <2>1 DEF IInv, ClearedInv, Clears
    <2>3. \A r, tab : CanvasRow(r, tab)' <=> CanvasRow(r, tab)
      BY DEF CanvasRow
    <2>4. Excuse(p) => Excuse(p)'
      BY <1>3 DEF Excuse, Anchored
    <2>5. Waits(p, "step")' => Statement(p).tab = "step"
      BY <1>9 DEF Waits
    <2>6. Waits(p, "note")' => Statement(p).tab = "note"
      BY <1>9 DEF Waits
    <2>7. EdgesDoomed(p) => EdgesDoomed(p)'
      <3> SUFFICES ASSUME EdgesDoomed(p), NEW x \in committed \ deleted[p], CanvasRow(x, "edge")
                   PROVE  /\ Attached(x)
                          /\ Waits(p, "step")' =>
                                \E k \in Head(found'[p]) \cap committed : Key(k) \in x.refs
                          /\ ~Deletes(todo[p], "step") =>
                                Statement(p).do = "check" /\ x.refs \cap Statement(p).keys # {}
        BY <1>3, <1>9, <2>3, RowsSame DEF EdgesDoomed, Key
      <3>1. Attached(x)
        BY DEF EdgesDoomed
      <3>2. PICK k \in committed \ deleted[p] : CanvasRow(k, "step") /\ Key(k) \in x.refs
        BY <1>1, <3>1, StepOfEdge
      <3>3. Statement(p).tab = "step" => k \in rows
        BY <1>5, <2>1, <3>2 DEF CanvasRow
      <3> QED
        BY <1>6, <2>5, <3>1, <3>2, <3>3 DEF EdgesDoomed
    <2>8. Complete(p, "step") => Complete(p, "step")'
      BY <1>3, <1>5, <1>6, <2>1, <2>3, <2>5 DEF Complete, CanvasRow
    <2>9. Complete(p, "note") => Complete(p, "note")'
      BY <1>3, <1>5, <1>6, <2>1, <2>3, <2>6 DEF Complete, CanvasRow
    <2> QED
      BY <1>3, <2>2, <2>3, <2>4, <2>7, <2>8, <2>9
  <1>18. Aware(p)'
    <2> SUFFICES ASSUME Changes(p)', Waits(p, "edge")', NEW x \in committed, CanvasRow(x, "edge")
                 PROVE  x \in rows
      <3>1. \A x : CanvasRow(x, "edge")' <=> CanvasRow(x, "edge")
        BY DEF CanvasRow
      <3> QED
        BY <1>3, <1>6, <3>1 DEF Aware
    <2>1. Statement(p).tab = "edge" /\ Statement(p).wf = w
      BY <1>3, <1>5, <1>9 DEF Waits, Changes, Active
    <2>2. Deletes(todo[p], "edge")
      <3>1. Statement(p) = todo[p][1] /\ 1 \in 1 .. Len(todo[p])
        BY <1>1, <1>7, UnderWay, HeadShape
      <3> QED
        BY <1>1, <2>1, <3>1 DEF Deletes
    <2>3. x \notin deleted[p]
      BY <1>7, <2>2 DEF Tx, CanvasRow
    <2> QED
      BY <1>5, <2>1, <2>3 DEF CanvasRow
  <1>19. result'[p] = result[p] /\ todo'[p] # <<>>
    BY <1>1, <1>3
  <1> QED
    BY <1>1, <1>2, <1>3, <1>10, <1>11, <1>12, <1>13, <1>14, <1>15, <1>16, <1>17, <1>18, <1>19,
       SteadyKeeps

\* What Fail means, wherever it is done.
LEMMA FailKeeps ==
    ASSUME NEW p \in Operations, IInv, Others(p), TypeInv', todo[p] # <<>>, Fail(p),
           UNCHANGED <<last, merged, met>>
    PROVE  IInv'
  <1>1. Ended(p) /\ committed' = committed /\ loaded' = loaded
    BY FailEnds DEF IInv
  <1>2. Steady /\ IsFiniteSet(loaded'[p])
    BY <1>1 DEF Steady, IInv, FiniteInv
  <1> QED
    BY <1>1, <1>2, EndedKeeps

\* The lists of an operation that goes on to its next statement.
LEMMA NextStatement ==
    ASSUME NEW p \in Operations, IInv, todo[p] # <<>>, Advance(p, <<>>),
           Statement(p).do \in {"check", "insert"}
    PROVE  /\ todo' = [todo EXCEPT ![p] = Tail(todo[p])] /\ todo'[p] = Tail(todo[p])
           /\ Shape(todo'[p], kind[p], p, open[p])
           /\ todo'[p] # <<>> => Head(todo'[p]).do # "check"
           /\ Len(todo[p]) > 1 => todo'[p] # <<>>
           /\ Has(todo'[p], "delete") <=> Has(todo[p], "delete")
           /\ \A tab : Deletes(todo'[p], tab) <=> Deletes(todo[p], tab)
           /\ ToInsert(todo[p])
                = (IF Statement(p).do = "insert" THEN {Statement(p).row} ELSE {})
                     \cup ToInsert(todo'[p])
  <1> DEFINE u == Tail(todo[p])
  <1>1. /\ Shape(todo[p], kind[p], p, open[p]) /\ open[p] \in BOOLEAN
        /\ IsSeq(todo[p]) /\ IsSeq(u) /\ Before(todo[p], Statement(p), u)
    BY UnderWay
  <1>2. <<>> \o u = u
    BY <1>1, SeqNone
  <1>3. todo' = [todo EXCEPT ![p] = u]
    BY <1>2 DEF Advance
  <1>4. todo'[p] = u
    BY <1>3 DEF IInv, TypeInv
  <1>5. Shape(u, kind[p], p, open[p]) /\ (u # <<>> => Head(u).do # "check")
    BY <1>1, TailShape DEF Statement
  <1>6. Len(todo[p]) > 1 => u # <<>>
    <2>1. Len(u) = Len(todo[p]) - 1 /\ Len(todo[p]) \in Nat
      BY <1>1, SeqParts
    <2>2. \A n \in Nat : n > 1 => n - 1 # 0
      OBVIOUS
    <2> HIDE DEF u
    <2> QED
      BY <1>1, <2>1, <2>2, SeqParts
  <1> HIDE DEF u
  <1>7. /\ \A do : Has(todo[p], do) <=> Statement(p).do = do \/ Has(u, do)
        /\ \A tab : Deletes(todo[p], tab) <=>
                      (Statement(p).do = "delete" /\ Statement(p).tab = tab) \/ Deletes(u, tab)
        /\ ToInsert(todo[p])
             = (IF Statement(p).do = "insert" THEN {Statement(p).row} ELSE {}) \cup ToInsert(u)
    BY <1>1, BeforeSees
  <1> QED
    BY <1>3, <1>4, <1>5, <1>6, <1>7 DEF u

LEMMA CheckReferencesKeeps ==
    ASSUME NEW p \in Operations, IInv, CheckReferences(p)
    PROVE  IInv'
  <1>1. todo[p] # <<>> /\ Statement(p).do = "check"
    BY DEF CheckReferences, Active
  <1>2. Others(p) /\ TypeInv' /\ TypeInv
    BY OwnSteps DEF IInv, Step
  <1>3. CASE Fail(p)
    BY <1>1, <1>2, <1>3, FailKeeps DEF CheckReferences, history
  <1>4. CASE ~Fail(p)
    <2>1. /\ ~ \E r \in Visible(p) : RefersTo(r, Statement(p).keys)
          /\ Advance(p, <<>>)
          /\ UNCHANGED <<committed, inserted, deleted, open, found, kind, result, loaded>>
          /\ UNCHANGED <<asked, last, met, edgeless, merged>>
      BY <1>4 DEF CheckReferences, txVars, history
    <2>2. /\ Tx(p) /\ Shape(todo[p], kind[p], p, open[p]) /\ open[p] \in BOOLEAN
          /\ Statement(p) = todo[p][1] /\ found[p] = Unread
      BY <1>1, UnderWay
    <2>3. Len(todo[p]) > 1
      BY <1>1, <2>2, HeadShape
    <2>4. /\ todo'[p] # <<>>
          /\ Shape(todo'[p], kind[p], p, open[p])
          /\ Has(todo'[p], "delete") <=> Has(todo[p], "delete")
          /\ \A tab : Deletes(todo'[p], tab) <=> Deletes(todo[p], tab)
          /\ ToInsert(todo'[p]) = ToInsert(todo[p])
      BY <1>1, <2>1, <2>3, NextStatement
    <2>5. ASSUME NEW r \in committed \ deleted[p] PROVE r.refs \cap Statement(p).keys = {}
      BY <2>1 DEF Visible, RefersTo
    <2>6. KeptRefer(p)'
      <3>1. \A r \in committed \ deleted[p] : r.refs \cap Keys(deleted[p]) = {}
        <4>1. \A r \in committed \ deleted[p] : r.refs \cap Keys(deleted[p]) \subseteq Statement(p).keys
          BY <1>1 DEF IInv, ReferencesInv, KeptRefer, Checking
        <4> QED
          BY <2>5, <4>1
      <3>2. Keys(deleted[p])' = Keys(deleted[p])
        BY <2>1 DEF Keys, Key
      <3> QED
        BY <2>1, <3>1, <3>2 DEF KeptRefer
    <2>7. Clears(p)'
      <3> SUFFICES ASSUME Changes(p)', ~Deletes(todo'[p], "edge")
                   PROVE  /\ ~edgeless'[p] => \E r \in deleted'[p] : CanvasRow(r, "edge")'
                          /\ \/ Excuse(p)'
                             \/ (EdgesDoomed(p) /\ Complete(p, "step") /\ Complete(p, "note"))'
        BY DEF Clears
      <3>1. Changes(p) /\ ~Deletes(todo[p], "edge")
        BY <1>1, <2>1, <2>4 DEF Changes, Active
      <3>2. /\ ~edgeless[p] => \E r \in deleted[p] : CanvasRow(r, "edge")
            /\ Excuse(p) \/ (EdgesDoomed(p) /\ Complete(p, "step") /\ Complete(p, "note"))
        BY <3>1 DEF IInv, ClearedInv, Clears
      <3>3. \A r, tab : CanvasRow(r, tab)' <=> CanvasRow(r, tab)
        BY DEF CanvasRow
      <3>4. Excuse(p) => Excuse(p)'
        <4>1. met[p] \subseteq Operations /\ met[p] \subseteq met'[p] /\ edgeless'[p] = edgeless[p]
          BY <2>1 DEF IInv, MetInv
        <4> QED
          BY <1>1, <1>2, <4>1, ExcuseStays
      <3>5. \A tab : ~Waits(p, tab)'
        BY <2>1, <2>2 DEF Waits
      <3>6. EdgesDoomed(p) => EdgesDoomed(p)'
        <4>1. ASSUME EdgesDoomed(p), NEW x \in committed \ deleted[p], CanvasRow(x, "edge")
              PROVE  Attached(x) /\ Deletes(todo'[p], "step")
          BY <2>4, <2>5, <4>1 DEF EdgesDoomed
        <4> QED
          BY <2>1, <3>3, <3>5, <4>1, RowsSame DEF EdgesDoomed
      <3>7. \A tab : Complete(p, tab) => Complete(p, tab)'
        BY <2>1, <2>4, <3>3, <3>5 DEF Complete
      <3> QED
        BY <2>1, <3>2, <3>3, <3>4, <3>6, <3>7
    <2>8. /\ Steady /\ result'[p] = result[p] /\ asked'[p] = asked[p] /\ open'[p] = open[p]
          /\ inserted'[p] = inserted[p] /\ deleted'[p] = deleted[p]
          /\ found'[p] = Unread /\ IsFiniteSet(loaded'[p])
      BY <2>1, <2>2 DEF Steady, IInv, FiniteInv
    <2>9. /\ Has(todo'[p], "delete") => inserted[p] = {}
          /\ Deletes(todo'[p], "edge") => \A r \in deleted[p] : r.tab # "edge"
      BY <2>2, <2>4 DEF Tx
    <2> QED
      BY <1>1, <1>2, <2>2, <2>4, <2>6, <2>7, <2>8, <2>9, MovesOn
  <1> QED
    BY <1>3, <1>4

\* The lists of an operation that has deleted, with or without a check to come.
CheckOf(keys) == [do |-> "check", keys |-> keys]

LEMMA AfterDelete ==
    ASSUME NEW p \in Operations, IInv, todo[p] # <<>>, Statement(p).do = "delete",
           NEW keys, NEW more \in {<<>>, <<CheckOf(keys)>>}, Advance(p, more)
    PROVE  /\ todo'[p] # <<>> /\ Shape(todo'[p], kind[p], p, TRUE)
           /\ \A tab : Deletes(todo[p], tab) <=> Statement(p).tab = tab \/ Deletes(todo'[p], tab)
           /\ ToInsert(todo'[p]) = ToInsert(todo[p])
           /\ Statement(p).tab \in CanvasTabs => ~Deletes(todo'[p], "edge")
           /\ Statement(p).tab = "edge" =>
                 Deletes(todo'[p], "step") /\ Deletes(todo'[p], "note")
           /\ more # <<>> => Head(todo'[p]) = CheckOf(keys)
  <1> DEFINE t == todo[p]
             u == Tail(todo[p])
             v == todo'[p]
             x == CheckOf(keys)
  <1>1. /\ Shape(t, kind[p], p, open[p]) /\ open[p] \in BOOLEAN
        /\ IsSeq(t) /\ IsSeq(u) /\ Before(t, Statement(p), u) /\ Statement(p) = t[1]
    BY UnderWay
  <1>2. v = more \o u
    BY DEF Advance, IInv, TypeInv
  <1>3. /\ Shape(u, kind[p], p, TRUE) /\ Straight(u)
    BY <1>1, TailShape DEF Statement
  <1>4. u # <<>>
    BY <1>3 DEF Shape
  <1>5. /\ \A tab : Deletes(t, tab) <=> Statement(p).tab = tab \/ Deletes(u, tab)
        /\ ToInsert(t) = ToInsert(u)
    <2>1. /\ \A tab : Deletes(t, tab) <=>
                        (Statement(p).do = "delete" /\ Statement(p).tab = tab) \/ Deletes(u, tab)
          /\ ToInsert(t)
               = (IF Statement(p).do = "insert" THEN {Statement(p).row} ELSE {}) \cup ToInsert(u)
      BY <1>1, BeforeSees
    <2> HIDE DEF t, u
    <2> QED
      BY <2>1
  <1>6. DeleteOK(t, 1, kind[p], p, open[p]) /\ 1 \in 1 .. Len(t)
    <2>1. 1 \in 1 .. Len(t)
      BY <1>1, HeadShape
    <2> QED
      BY <1>1, <2>1 DEF Shape
  <1>7. /\ Len(t) = Len(u) + 1 /\ Len(u) \in Nat
        /\ \A i \in 1 .. Len(u) : u[i] = t[i + 1]
    BY <1>1, SeqParts DEF Before
  <1>8. Statement(p).tab \in CanvasTabs => ~Deletes(u, "edge")
    <2> SUFFICES ASSUME Statement(p).tab \in CanvasTabs, NEW i \in 1 .. Len(u),
                        u[i].do = "delete", u[i].tab = "edge"
                 PROVE  FALSE
      BY DEF Deletes
    <2>1. i + 1 \in 1 + 1 .. Len(t) /\ u[i] = t[i + 1]
      BY <1>7
    <2> QED
      BY <1>1, <1>6, <2>1 DEF DeleteOK
  <1>9. Statement(p).tab = "edge" => Deletes(u, "step") /\ Deletes(u, "note")
    <2> SUFFICES ASSUME Statement(p).tab = "edge", NEW tab \in {"step", "note"}
                 PROVE  Deletes(u, tab)
      OBVIOUS
    <2>1. PICK j \in 1 + 1 .. Len(t) : t[j].do = "delete" /\ t[j].tab = tab
      BY <1>1, <1>6 DEF DeleteOK
    <2>2. j - 1 \in 1 .. Len(u) /\ (j - 1) + 1 = j
      BY <1>7
    <2> QED
      BY <1>7, <2>1, <2>2 DEF Deletes
  <1> HIDE DEF t, u, v
  <1>10. CASE more = <<>>
    <2>1. v = u
      BY <1>1, <1>2, <1>10, SeqNone
    <2> QED
      BY <1>3, <1>4, <1>5, <1>8, <1>9, <1>10, <2>1 DEF t, v
  <1>11. CASE more = <<x>>
    <2>1. Before(v, x, u)
      BY <1>1, <1>2, <1>11, PrependPlaces
    <2>2. x.do = "check"
      BY DEF CheckOf
    <2> HIDE DEF x
    <2>3. Shape(v, kind[p], p, TRUE)
      BY <1>3, <2>1, <2>2, PrependShape
    <2>4. IsSeq(v) /\ Len(v) = Len(u) + 1 /\ v[1] = x
      BY <2>1 DEF Before
    <2>5. v # <<>> /\ Head(v) = x
      BY <1>7, <2>4, SeqParts
    <2>6. (\A tab : Deletes(v, tab) <=> Deletes(u, tab)) /\ ToInsert(v) = ToInsert(u)
      <3>1. IsSeq(u)
        BY <1>1
      <3>2. /\ \A tab : Deletes(v, tab) <=> (x.do = "delete" /\ x.tab = tab) \/ Deletes(u, tab)
            /\ ToInsert(v) = (IF x.do = "insert" THEN {x.row} ELSE {}) \cup ToInsert(u)
        BY <2>1, <3>1, BeforeSees
      <3> QED
        BY <2>2, <3>2
    <2> QED
      BY <1>5, <1>8, <1>9, <2>3, <2>5, <2>6 DEF t, v, x
  <1> QED
    BY <1>10, <1>11

\* What a DELETE finds.
LEMMA FoundRows ==
    ASSUME NEW p \in Operations, IInv, todo[p] # <<>>, Statement(p).do = "delete"
    PROVE  /\ \A r \in Found(p) : /\ r \in committed \ deleted[p]
                                  /\ r.tab = Statement(p).tab /\ r.wf = Statement(p).wf
           /\ found[p] # Unread => Found(p) = Head(found[p]) \cap (committed \ deleted[p])
           /\ found[p] = Unread =>
                 \A r \in committed \ deleted[p] :
                    r.tab = Statement(p).tab /\ r.wf = Statement(p).wf => r \in Found(p)
  <1>1. /\ Statement(p).wf = Target(kind[p], p) /\ inserted[p] = {}
        /\ Matching(p, Statement(p)) =
             {r \in committed \ deleted[p] : r.tab = Statement(p).tab /\ r.wf = Statement(p).wf}
    BY Deleting
  <1>2. Tx(p)
    BY UnderWay
  <1>3. Visible(p) = committed \ deleted[p]
    BY <1>1 DEF Visible
  <1>4. CASE found[p] = Unread
    BY <1>1, <1>4 DEF Found
  <1>5. CASE found[p] # Unread
    <2>1. Found(p) = Head(found[p]) \cap (committed \ deleted[p])
      BY <1>3, <1>5 DEF Found
    <2>2. \A r \in Head(found[p]) : r.tab = Statement(p).tab /\ r.wf = Statement(p).wf
      BY <1>1, <1>2, <1>5 DEF Tx, Snapshot
    <2> QED
      BY <1>5, <2>1, <2>2
  <1> QED
    BY <1>4, <1>5

\* Nobody is in the way of a DELETE: what it deletes nobody else deletes, and what others
\* have added does not refer to it.
LEMMA NobodyInTheWay ==
    ASSUME NEW p \in Operations, todo[p] # <<>>, Statement(p).do = "delete", Blockers(p) = {},
           NEW q \in Operations, q # p
    PROVE  /\ Found(p) \cap deleted[q] = {}
           /\ \A r \in inserted[q] : r.refs \cap Keys(Found(p)) = {}
  <1>1. q \notin Blockers(p)
    OBVIOUS
  <1>2. ~(\/ Found(p) \cap deleted[q] # {}
          \/ \E r \in inserted[q] : RefersTo(r, Keys(Found(p))))
    BY <1>1 DEF Blockers
  <1> QED
    BY <1>2 DEF RefersTo

\* Rows are deleted, and the check that is due comes next.
LEMMA DeleteRowsKeeps ==
    ASSUME NEW p \in Operations, IInv, DeleteRows(p)
    PROVE  IInv'
  <1>1. todo[p] # <<>> /\ Statement(p).do = "delete" /\ Blockers(p) = {}
    BY DEF DeleteRows, Active
  <1>2. Others(p) /\ TypeInv' /\ TypeInv
    BY OwnSteps DEF IInv, Step
  <1>3. CASE Fail(p)
    BY <1>1, <1>2, <1>3, FailKeeps DEF DeleteRows
  <1>4. CASE ~Fail(p)
    <2> DEFINE rows == Found(p)
               keys == Keys(rows)
               more == IF \E r \in Visible(p) : RefersTo(r, keys) THEN <<CheckOf(keys)>> ELSE <<>>
    <2>1. /\ deleted' = [deleted EXCEPT ![p] = @ \cup (rows \cap committed)]
          /\ inserted' = [inserted EXCEPT ![p] = @ \ rows]
          /\ open' = [open EXCEPT ![p] = TRUE]
          /\ found' = [found EXCEPT ![p] = Unread]
          /\ Advance(p, more)
          /\ edgeless' = [edgeless EXCEPT
                ![p] = IF Statement(p).tab = "edge" THEN rows = {} ELSE @]
          /\ UNCHANGED <<committed, kind, result, loaded, asked, last, met, merged>>
      BY <1>4 DEF DeleteRows, CheckOf
    <2>2. /\ Statement(p).wf = Target(kind[p], p) /\ inserted[p] = {} /\ Checking(p) = {}
          /\ Has(todo[p], "delete") /\ (Changes(p) => Statement(p).wf = w)
      BY <1>1, Deleting
    <2>3. /\ \A r \in rows : /\ r \in committed \ deleted[p]
                             /\ r.tab = Statement(p).tab /\ r.wf = Statement(p).wf
          /\ found[p] # Unread => rows = Head(found[p]) \cap (committed \ deleted[p])
          /\ found[p] = Unread =>
                \A r \in committed \ deleted[p] :
                   r.tab = Statement(p).tab /\ r.wf = Statement(p).wf => r \in rows
      BY <1>1, FoundRows
    <2>4. Visible(p) = committed \ deleted[p]
      BY <2>2 DEF Visible
    <2> HIDE DEF rows
    <2>5. /\ deleted'[p] = deleted[p] \cup rows /\ inserted'[p] = {} /\ open'[p] = TRUE
          /\ found'[p] = Unread /\ result'[p] = result[p] /\ loaded'[p] = loaded[p]
          /\ asked'[p] = asked[p]
          /\ edgeless'[p] = (IF Statement(p).tab = "edge" THEN rows = {} ELSE edgeless[p])
      BY <1>2, <2>1, <2>2, <2>3 DEF TypeInv
    <2>6. /\ todo'[p] # <<>> /\ Shape(todo'[p], kind[p], p, TRUE)
          /\ \A tab : Deletes(todo[p], tab) <=> Statement(p).tab = tab \/ Deletes(todo'[p], tab)
          /\ ToInsert(todo'[p]) = ToInsert(todo[p])
          /\ Statement(p).tab \in CanvasTabs => ~Deletes(todo'[p], "edge")
          /\ Statement(p).tab = "edge" =>
                Deletes(todo'[p], "step") /\ Deletes(todo'[p], "note")
          /\ more # <<>> => Head(todo'[p]) = CheckOf(keys)
      <3>1. Advance(p, more) /\ more \in {<<>>, <<CheckOf(keys)>>}
        BY <2>1
      <3> HIDE DEF more, keys
      <3> QED
        BY <1>1, <3>1, AfterDelete
    <2>7. ASSUME NEW r \in committed \ deleted[p], r.refs \cap keys # {}
          PROVE  /\ Head(todo'[p]).do = "check" /\ Head(todo'[p]).keys = keys
      <3>1. more = <<CheckOf(keys)>> /\ <<CheckOf(keys)>> # <<>>
        BY <2>4, <2>7 DEF RefersTo
      <3>2. Head(todo'[p]) = CheckOf(keys)
        BY <2>6, <3>1
      <3> QED
        BY <3>2 DEF CheckOf
    <2> HIDE DEF keys, more
    <2>8. Tx(p) /\ result[p] = "none"
      BY <1>1, UnderWay
    <2>9. Snapshot(p)' = {}
      BY <2>5 DEF Snapshot
    <2>10. Tx(p)'
      <3>1. kind' = kind
        BY <2>1
      <3>2. CanvasRows(w, asked[p], p)' = CanvasRows(w, asked'[p], p)
        BY DEF CanvasRows, StepRow, EdgeRow, NoteRow, Row
      <3>3. kind'[p] = "save" =>
               inserted'[p] \cup ToInsert(todo'[p]) = CanvasRows(w, asked'[p], p)
        BY <1>1, <2>1, <2>2, <2>5, <2>6, <2>8 DEF Tx
      <3>4. \A r \in deleted'[p] : r.wf = Target(kind[p], p)
        BY <2>2, <2>3, <2>5, <2>8 DEF Tx
      <3>5. Deletes(todo'[p], "edge") => \A r \in deleted'[p] : r.tab # "edge"
        BY <2>3, <2>5, <2>6, <2>8 DEF Tx, CanvasTabs
      <3> QED
        BY <2>5, <2>6, <2>8, <2>9, <3>1, <3>2, <3>3, <3>4, <3>5 DEF Tx
    <2>11. IsFiniteSet(inserted'[p]) /\ IsFiniteSet(loaded'[p])
      BY <2>5, FS_EmptySet DEF IInv, FiniteInv
    <2>12. /\ deleted'[p] \subseteq committed
           /\ \A q \in Operations : q # p => deleted'[p] \cap deleted[q] = {}
      <3>1. \A q \in Operations : q # p => rows \cap deleted[q] = {}
        BY <1>1, NobodyInTheWay DEF rows
      <3> QED
        BY <2>3, <2>5, <3>1 DEF IInv, DeletedInv
    <2>13. AddedRefer(p)'
      BY <2>5 DEF AddedRefer
    <2>14. Keys(deleted[p])' = Keys(deleted[p]) \cup keys
      BY <2>5 DEF Keys, Key, keys
    <2>15. KeptRefer(p)'
      <3> SUFFICES ASSUME NEW r \in committed \ deleted[p]
                   PROVE  r.refs \cap (Keys(deleted[p]) \cup keys) \subseteq Checking(p)'
        BY <2>1, <2>5, <2>14 DEF KeptRefer
      <3>1. r.refs \cap Keys(deleted[p]) = {}
        BY <2>2 DEF IInv, ReferencesInv, KeptRefer
      <3>2. r.refs \cap keys # {} => Checking(p)' = keys
        BY <2>6, <2>7 DEF Checking, Statement
      <3> QED
        BY <3>1, <3>2
    <2>16. ASSUME NEW q \in Operations, q # p PROVE Apart(p, q)' /\ Apart(q, p)'
      <3>1. Apart(q, p) /\ Same(q)
        BY <1>2, <2>16 DEF IInv, ReferencesInv, Others
      <3>2. \A r \in inserted[q] : r.refs \cap keys = {}
        BY <1>1, <2>16, NobodyInTheWay DEF rows, keys
      <3> QED
        BY <2>5, <2>14, <3>1, <3>2 DEF Apart, Same
    <2>17. ASSUME NEW q \in Operations, q # p
           PROVE  \/ Snap(p)' \cap committed \subseteq Snap(q)
                  \/ Snap(q) \cap committed \subseteq Snap(p)'
      <3>1. Snap(p)' = {r \in deleted[p] \cup rows : CanvasRow(r, "edge")}
        BY <2>5, <2>9 DEF Snap, CanvasRow
      <3>2. \/ Snap(p) \cap committed \subseteq Snap(q)
            \/ Snap(q) \cap committed \subseteq Snap(p)
        BY DEF IInv, ChainInv
      <3>3. CASE Statement(p).tab = "edge"
        <4>1. \A r \in deleted[p] : r.tab # "edge"
          BY <2>6, <2>8, <3>3 DEF Tx
        <4>2. CASE found[p] # Unread
          <5>1. Snap(p)' = Snap(p) \cap committed
            BY <2>3, <3>1, <4>1, <4>2 DEF Snap, Snapshot, CanvasRow
          <5> QED
            BY <3>2, <5>1
        <4>3. CASE found[p] = Unread /\ Statement(p).wf = w
          <5>1. \A r \in committed : CanvasRow(r, "edge") => r \in rows
            BY <2>3, <3>3, <4>1, <4>3 DEF CanvasRow
          <5> QED
            BY <3>1, <5>1 DEF Snap
        <4>4. CASE found[p] = Unread /\ Statement(p).wf # w
          <5>1. Snap(p)' = Snap(p)
            BY <2>3, <3>1, <4>4 DEF Snap, Snapshot, CanvasRow
          <5> QED
            BY <3>2, <5>1
        <4> QED
          BY <4>2, <4>3, <4>4
      <3>4. CASE Statement(p).tab # "edge"
        <4>1. \A r \in rows : r.tab # "edge"
          BY <2>3, <3>4
        <4>2. \A r \in Snapshot(p) : r.tab # "edge"
          BY <2>8, <3>4 DEF Tx, Snapshot
        <4>3. Snap(p)' = Snap(p)
          BY <3>1, <4>1, <4>2 DEF Snap, CanvasRow
        <4> QED
          BY <3>2, <4>3
      <3> QED
        BY <3>3, <3>4
    <2>18. Clears(p)'
      <3> SUFFICES ASSUME Changes(p)', ~Deletes(todo'[p], "edge")
                   PROVE  /\ ~edgeless'[p] => \E r \in deleted'[p] : CanvasRow(r, "edge")'
                          /\ \/ Excuse(p)'
                             \/ (EdgesDoomed(p) /\ Complete(p, "step") /\ Complete(p, "note"))'
        BY DEF Clears
      <3>1. Changes(p) /\ Statement(p).wf = w
        BY <1>1, <2>1, <2>2 DEF Changes, Active
      <3>2. \A r, tab : CanvasRow(r, tab)' <=> CanvasRow(r, tab)
        BY DEF CanvasRow
      <3>3. \A tab : ~Waits(p, tab)'
        BY <2>5 DEF Waits
      <3>4. CASE Statement(p).tab = "edge"
        <4>1. ~edgeless'[p] => \E r \in deleted'[p] : CanvasRow(r, "edge")'
          <5>1. edgeless'[p] = (rows = {})
            BY <2>5, <3>4
          <5>2. rows = {} \/ \E r \in deleted'[p] : CanvasRow(r, "edge")'
            BY <2>3, <2>5, <3>1, <3>2, <3>4 DEF CanvasRow
          <5> QED
            BY <5>1, <5>2
        <4>2. Deletes(todo'[p], "step") /\ Deletes(todo'[p], "note")
          BY <2>6, <3>4
        <4>3. Complete(p, "step")' /\ Complete(p, "note")'
          BY <3>3, <4>2 DEF Complete
        <4>4. Missed(p) => Excuse(p)'
          <5>1. met[p] \subseteq Operations /\ met[p] \subseteq met'[p]
            BY <2>1 DEF IInv, MetInv
          <5>2. Missed(p) => Missed(p)'
            BY <1>1, <1>2, <5>1, MissedStays
          <5> QED
            BY <5>2 DEF Missed, Excuse
        <4>5. ASSUME ~Missed(p), NEW x \in committed \ deleted'[p], CanvasRow(x, "edge")
              PROVE  Attached(x)
          <5>1. x \in committed \ deleted[p] /\ x \notin rows
            BY <2>5, <4>5
          <5>2. found[p] # Unread /\ x \notin Head(found[p])
            BY <2>3, <3>1, <3>4, <4>5, <5>1 DEF CanvasRow
          <5> QED
            BY <3>1, <3>4, <4>5, <5>1, <5>2 DEF IInv, AwareInv, Aware, Waits
        <4>6. ~Missed(p) => EdgesDoomed(p)'
          BY <2>1, <3>2, <3>3, <4>2, <4>5, RowsSame DEF EdgesDoomed
        <4> QED
          BY <4>1, <4>3, <4>4, <4>6
      <3>5. CASE Statement(p).tab # "edge"
        <4>1. ~Deletes(todo[p], "edge")
          BY <2>6, <3>5
        <4>2. /\ ~edgeless[p] => \E r \in deleted[p] : CanvasRow(r, "edge")
              /\ Excuse(p) \/ (EdgesDoomed(p) /\ Complete(p, "step") /\ Complete(p, "note"))
          BY <3>1, <4>1 DEF IInv, ClearedInv, Clears
        <4>3. Excuse(p) => Excuse(p)'
          <5>1. met[p] \subseteq Operations /\ met[p] \subseteq met'[p] /\ edgeless'[p] = edgeless[p]
            BY <2>1, <2>5, <3>5 DEF IInv, MetInv
          <5> QED
            BY <1>1, <1>2, <5>1, ExcuseStays
        <4>4. ASSUME NEW tab \in {"step", "note"}, Complete(p, tab) PROVE Complete(p, tab)'
          <5> SUFFICES ASSUME NEW r \in committed \ deleted'[p], CanvasRow(r, tab)
                       PROVE  Deletes(todo'[p], tab)
            BY <2>1, <3>2, <3>3 DEF Complete
          <5>1. /\ r \in committed \ deleted[p] /\ r \notin rows /\ Deletes(todo[p], tab)
                /\ Waits(p, tab) => r \in Head(found[p])
            BY <2>5, <4>4 DEF Complete
          <5>2. Statement(p).tab # tab
            BY <2>3, <3>1, <5>1 DEF Waits, CanvasRow
          <5> QED
            BY <2>6, <5>1, <5>2
        <4>5. EdgesDoomed(p) => EdgesDoomed(p)'
          <5> SUFFICES ASSUME EdgesDoomed(p), NEW x \in committed \ deleted'[p],
                              CanvasRow(x, "edge")
                       PROVE  /\ Attached(x)
                              /\ ~Deletes(todo'[p], "step") =>
                                    Head(todo'[p]).do = "check" /\ x.refs \cap Head(todo'[p]).keys # {}
            BY <2>1, <3>2, <3>3, RowsSame DEF EdgesDoomed, Statement
          <5>1. x \in committed \ deleted[p] /\ Attached(x)
            BY <2>5 DEF EdgesDoomed
          <5> SUFFICES ASSUME ~Deletes(todo'[p], "step")
                       PROVE  Head(todo'[p]).do = "check" /\ x.refs \cap Head(todo'[p]).keys # {}
            BY <5>1
          <5>2. Statement(p).tab = "step"
            BY <1>1, <2>6, <5>1 DEF EdgesDoomed
          <5>3. \E k \in rows : Key(k) \in x.refs
            <6>1. CASE found[p] = Unread
              <7>1. PICK k \in committed \ deleted[p] : CanvasRow(k, "step") /\ Key(k) \in x.refs
                BY <1>1, <5>1, StepOfEdge
              <7> QED
                BY <2>3, <3>1, <5>2, <6>1, <7>1 DEF CanvasRow
            <6>2. CASE found[p] # Unread
              <7>1. PICK k \in Head(found[p]) \cap committed : Key(k) \in x.refs
                BY <5>1, <5>2, <6>2 DEF EdgesDoomed, Waits
              <7>2. k \notin deleted[p]
                BY <2>2, <5>1, <7>1 DEF IInv, ReferencesInv, KeptRefer, Keys
              <7> QED
                BY <2>3, <6>2, <7>1, <7>2
            <6> QED
              BY <6>1, <6>2
          <5>4. x.refs \cap keys # {}
            BY <5>3 DEF keys, Keys
          <5> QED
            BY <2>7, <5>1, <5>4
        <4>6. edgeless'[p] = edgeless[p] /\ deleted[p] \subseteq deleted'[p]
          BY <2>5, <3>5
        <4> QED
          BY <3>2, <4>2, <4>3, <4>4, <4>5, <4>6
      <3> QED
        BY <3>4, <3>5
    <2>19. Steady /\ Aware(p)'
      BY <2>1, <2>5 DEF Steady, Aware, Waits
    <2> QED
      BY <1>1, <1>2, <2>5, <2>6, <2>9, <2>10, <2>11, <2>12, <2>13, <2>15, <2>16, <2>17,
         <2>18, <2>19, SteadyKeeps
  <1> QED
    BY <1>3, <1>4

\* Nobody is in the way of an INSERT: nobody deletes what it refers to.
LEMMA NobodyDeletes ==
    ASSUME NEW p \in Operations, todo[p] # <<>>, Statement(p).do = "insert", Blockers(p) = {},
           NEW q \in Operations, q # p
    PROVE  Statement(p).row.refs \cap Keys(deleted[q]) = {}
  <1>1. q \notin Blockers(p)
    OBVIOUS
  <1>2. ~(\/ Key(Statement(p).row) \in Keys(inserted[q] \cup deleted[q])
          \/ RefersTo(Statement(p).row, Keys(deleted[q])))
    BY <1>1 DEF Blockers
  <1> QED
    BY <1>2 DEF RefersTo

\* What is known of an operation that adds a row.
LEMMA Inserting ==
    ASSUME NEW p \in Operations, IInv, todo[p] # <<>>, Statement(p).do = "insert"
    PROVE  LET row == Statement(p).row
           IN  /\ OwnRow(row, kind[p], p) /\ kind[p] # "delete"
               /\ open[p] => Len(todo[p]) > 1 /\ ~Has(todo[p], "delete")
               /\ ~open[p] => row.tab \notin CanvasTabs /\ kind[p] \in {"execute", "clone"}
               /\ found[p] = Unread /\ Checking(p) = {}
  <1> DEFINE row == Statement(p).row
  <1>1. /\ Tx(p) /\ Shape(todo[p], kind[p], p, open[p]) /\ open[p] \in BOOLEAN
        /\ Statement(p) = todo[p][1] /\ found[p] = Unread
        /\ kind[p] \in {"save", "delete", "execute", "clone"}
        /\ Before(todo[p], Statement(p), Tail(todo[p])) /\ IsSeq(Tail(todo[p]))
    BY UnderWay
  <1>2. /\ kind[p] # "delete" /\ OwnRow(row, kind[p], p)
        /\ row.tab \in CanvasTabs => open[p]
        /\ open[p] => Len(todo[p]) > 1
        /\ 1 \in 1 .. Len(todo[p]) /\ Len(todo[p]) \in Nat
    BY <1>1, HeadShape
  <1>3. open[p] => ~Has(todo[p], "delete")
    <2> SUFFICES ASSUME open[p], NEW i \in 1 .. Len(todo[p]), todo[p][i].do = "delete"
                 PROVE  FALSE
      BY DEF Has
    <2>1. DeleteOK(todo[p], i, kind[p], p, open[p])
      BY <1>1 DEF Shape
    <2>2. i # 1 /\ 1 \in 1 .. i - 1
      BY <1>1, <1>2
    <2> QED
      BY <1>1, <2>1, <2>2 DEF DeleteOK
  <1>4. ~open[p] => row.tab \notin CanvasTabs
    BY <1>2
  <1>5. kind[p] = "save" => row.tab \in CanvasTabs
    <2>1. row \in ToInsert(todo[p])
      BY <1>1, <1>2 DEF ToInsert
    <2>2. kind[p] = "save" => row \in CanvasRows(w, asked[p], p)
      BY <1>1, <2>1 DEF Tx
    <2> QED
      BY <2>2, CanvasRowsOwn
  <1> QED
    BY <1>1, <1>2, <1>3, <1>4, <1>5 DEF Checking

\* A row is added to a transaction.
LEMMA InsertKeeps ==
    ASSUME NEW p \in Operations, IInv, InsertRow(p), ~Fail(p), open[p]
    PROVE  IInv'
  <1> DEFINE row == Statement(p).row
  <1>1. todo[p] # <<>> /\ Statement(p).do = "insert" /\ Blockers(p) = {}
    BY DEF InsertRow, Active
  <1>2. Others(p) /\ TypeInv' /\ TypeInv
    BY OwnSteps DEF IInv, Step
  <1>3. /\ OwnRow(row, kind[p], p) /\ kind[p] # "delete"
        /\ Len(todo[p]) > 1 /\ ~Has(todo[p], "delete")
        /\ found[p] = Unread /\ Checking(p) = {}
    BY <1>1, Inserting
  <1>4. Len(todo[p]) # 1
    <2>1. ~(1 > 1)
      OBVIOUS
    <2> QED
      BY <1>3, <2>1
  <1>5. /\ row.refs \subseteq Keys(Visible(p))
        /\ inserted' = [inserted EXCEPT ![p] = @ \cup {row}]
        /\ UNCHANGED <<committed, deleted, open, found, kind, loaded, result>>
        /\ UNCHANGED <<asked, last, met, edgeless, merged>>
        /\ Advance(p, <<>>)
    BY <1>4 DEF InsertRow, history
  <1>6. /\ todo'[p] = Tail(todo[p])
        /\ Shape(todo'[p], kind[p], p, open[p])
        /\ todo'[p] # <<>> /\ Head(todo'[p]).do # "check"
        /\ Has(todo'[p], "delete") <=> Has(todo[p], "delete")
        /\ \A tab : Deletes(todo'[p], tab) <=> Deletes(todo[p], tab)
        /\ ToInsert(todo[p]) = {row} \cup ToInsert(todo'[p])
    <2>1. /\ todo'[p] = Tail(todo[p])
          /\ Shape(todo'[p], kind[p], p, open[p])
          /\ todo'[p] # <<>> => Head(todo'[p]).do # "check"
          /\ Len(todo[p]) > 1 => todo'[p] # <<>>
          /\ Has(todo'[p], "delete") <=> Has(todo[p], "delete")
          /\ \A tab : Deletes(todo'[p], tab) <=> Deletes(todo[p], tab)
          /\ ToInsert(todo[p])
               = (IF Statement(p).do = "insert" THEN {Statement(p).row} ELSE {})
                    \cup ToInsert(todo'[p])
      BY <1>1, <1>5, NextStatement
    <2> QED
      BY <1>1, <1>3, <2>1
  <1> HIDE DEF row
  <1>7. /\ inserted'[p] = inserted[p] \cup {row}
        /\ result'[p] = result[p] /\ deleted'[p] = deleted[p] /\ found'[p] = Unread
    BY <1>2, <1>3, <1>5 DEF TypeInv
  <1>8. Tx(p) /\ result[p] = "none" /\ Statement(p).do = "insert"
    BY <1>1, UnderWay
  <1>9. Snapshot(p) = {} /\ Snapshot(p)' = {} /\ Snap(p)' = Snap(p)
    BY <1>3, <1>7 DEF Snapshot, Snap, CanvasRow
  <1>10. Tx(p)'
    <2>1. CanvasRows(w, asked[p], p)' = CanvasRows(w, asked[p], p)
      BY <1>5 DEF CanvasRows, StepRow, EdgeRow, NoteRow, Row
    <2>2. kind[p] = "save" => inserted'[p] \cup ToInsert(todo'[p]) = CanvasRows(w, asked[p], p)
      BY <1>1, <1>6, <1>7, <1>8 DEF Tx
    <2>3. \A r \in inserted'[p] : OwnRow(r, kind[p], p)
      BY <1>3, <1>7, <1>8 DEF Tx
    <2>4. ~Has(todo'[p], "delete") /\ kind[p] # "delete"
      BY <1>3, <1>6
    <2>5. \A r : OwnRow(r, kind[p], p)' <=> OwnRow(r, kind[p], p)
      BY <1>5 DEF OwnRow, RowOK, Target
    <2>6. open'[p] = open[p] /\ kind'[p] = kind[p] /\ asked'[p] = asked[p] /\ found'[p] = Unread
      BY <1>5, <1>7
    <2>7. Deletes(todo'[p], "edge") => \A r \in deleted'[p] : r.tab # "edge"
      BY <1>6, <1>7, <1>8 DEF Tx
    <2>8. \A r \in deleted'[p] \cup Snapshot(p)' : r.wf = Target(kind[p], p)
      BY <1>7, <1>8, <1>9 DEF Tx
    <2>9. open[p] \in BOOLEAN
      BY <1>8 DEF Tx
    <2> QED
      BY <1>5, <1>6, <1>7, <1>8, <2>1, <2>2, <2>3, <2>4, <2>5, <2>6, <2>7, <2>8, <2>9 DEF Tx
  <1>11. IsFiniteSet(inserted'[p]) /\ IsFiniteSet(loaded'[p])
    <2>1. IsFiniteSet(inserted[p]) /\ IsFiniteSet(loaded[p])
      BY DEF IInv, FiniteInv
    <2>2. IsFiniteSet(inserted[p] \cup {row})
      BY <2>1, FS_AddElement
    <2> QED
      BY <1>5, <1>7, <2>1, <2>2
  <1>12. AddedRefer(p)'
    <2>1. \A r \in inserted'[p] : r.refs \subseteq Keys(Visible(p))
      BY <1>5, <1>7 DEF IInv, ReferencesInv, AddedRefer, row
    <2>2. Visible(p) \subseteq Visible(p)'
      BY <1>5, <1>7 DEF Visible
    <2>3. Keys(Visible(p)) \subseteq Keys(Visible(p))'
      BY <2>2 DEF Keys, Key
    <2> QED
      BY <2>1, <2>3 DEF AddedRefer
  <1>13. KeptRefer(p)'
    <2>1. \A r \in committed \ deleted[p] : r.refs \cap Keys(deleted[p]) = {}
      BY <1>3 DEF IInv, ReferencesInv, KeptRefer
    <2>2. Keys(deleted[p])' = Keys(deleted[p])
      BY <1>5 DEF Keys, Key
    <2> QED
      BY <1>5, <2>1, <2>2 DEF KeptRefer
  <1>14. ASSUME NEW q \in Operations, q # p PROVE Apart(p, q)' /\ Apart(q, p)'
    <2>1. Apart(p, q) /\ Apart(q, p) /\ Same(q)
      BY <1>2, <1>14 DEF IInv, ReferencesInv, Others
    <2>2. row.refs \cap Keys(deleted[q]) = {}
      BY <1>1, <1>14, NobodyDeletes DEF row
    <2>3. Keys(deleted[p])' = Keys(deleted[p]) /\ Keys(deleted[q])' = Keys(deleted[q])
      BY <1>5 DEF Keys, Key
    <2> QED
      BY <1>7, <2>1, <2>2, <2>3 DEF Apart, Same
  <1>15. Clears(p)'
    <2> SUFFICES ASSUME Changes(p)', ~Deletes(todo'[p], "edge")
                 PROVE  /\ ~edgeless'[p] => \E r \in deleted'[p] : CanvasRow(r, "edge")'
                        /\ \/ Excuse(p)'
                           \/ (EdgesDoomed(p) /\ Complete(p, "step") /\ Complete(p, "note"))'
      BY DEF Clears
    <2>1. Changes(p) /\ ~Deletes(todo[p], "edge")
      BY <1>1, <1>5, <1>6 DEF Changes, Active
    <2>2. /\ ~edgeless[p] => \E r \in deleted[p] : CanvasRow(r, "edge")
          /\ Excuse(p) \/ (EdgesDoomed(p) /\ Complete(p, "step") /\ Complete(p, "note"))
      BY <2>1 DEF IInv, ClearedInv, Clears
    <2>3. \A r, tab : CanvasRow(r, tab)' <=> CanvasRow(r, tab)
      BY DEF CanvasRow
    <2>4. Excuse(p) => Excuse(p)'
      <3>1. met[p] \subseteq Operations /\ met[p] \subseteq met'[p] /\ edgeless'[p] = edgeless[p]
        BY <1>5 DEF IInv, MetInv
      <3> QED
        BY <1>1, <1>2, <3>1, ExcuseStays
    <2>5. \A tab : ~Waits(p, tab)'
      BY <1>7 DEF Waits
    <2>6. EdgesDoomed(p) => EdgesDoomed(p)'
      <3>1. ASSUME EdgesDoomed(p), NEW x \in committed \ deleted[p], CanvasRow(x, "edge")
            PROVE  Attached(x) /\ Deletes(todo'[p], "step")
        BY <1>1, <1>6, <3>1 DEF EdgesDoomed
      <3> QED
        BY <1>5, <2>3, <2>5, <3>1, RowsSame DEF EdgesDoomed
    <2>7. \A tab : Complete(p, tab) => Complete(p, tab)'
      BY <1>5, <1>6, <2>3, <2>5 DEF Complete
    <2> QED
      BY <1>5, <2>2, <2>3, <2>4, <2>6, <2>7
  <1>16. /\ Steady /\ Snapshot(p)' \subseteq Snapshot(p) \cup committed
         /\ deleted'[p] \subseteq committed
         /\ \A q \in Operations : q # p => deleted'[p] \cap deleted[q] = {}
         /\ \A q \in Operations : q # p =>
               \/ Snap(p)' \cap committed \subseteq Snap(q)
               \/ Snap(q) \cap committed \subseteq Snap(p)'
    BY <1>5, <1>7, <1>9 DEF Steady, IInv, DeletedInv, ChainInv
  <1>17. Aware(p)'
    BY <1>7 DEF Aware, Waits
  <1> QED
    BY <1>1, <1>2, <1>6, <1>7, <1>10, <1>11, <1>12, <1>13, <1>14, <1>15, <1>16, <1>17, SteadyKeeps

\* Outside a transaction a row is there at once: an admission adds records, and a clone
\* its workflow, but no row of a canvas.
LEMMA PublishKeeps ==
    ASSUME NEW p \in Operations, IInv, InsertRow(p), ~Fail(p), ~open[p]
    PROVE  IInv'
  <1> DEFINE row == Statement(p).row
  <1>1. todo[p] # <<>> /\ Statement(p).do = "insert" /\ Blockers(p) = {}
    BY DEF InsertRow, Active
  <1>2. Others(p) /\ TypeInv' /\ TypeInv
    BY OwnSteps DEF IInv, Step
  <1>3. /\ OwnRow(row, kind[p], p) /\ row.tab \notin CanvasTabs
        /\ kind[p] \in {"execute", "clone"} /\ found[p] = Unread
    BY <1>1, Inserting
  <1>4. Tx(p) /\ result[p] = "none" /\ Shape(todo[p], kind[p], p, open[p]) /\ IsSeq(todo[p])
    BY <1>1, UnderWay
  <1>5. inserted[p] = {} /\ deleted[p] = {}
    BY <1>4 DEF Tx
  <1>6. /\ row.refs \subseteq Keys(committed) /\ committed' = committed \cup {row}
        /\ UNCHANGED <<inserted, deleted, open, found, kind, loaded>>
        /\ UNCHANGED <<asked, last, met, edgeless, merged>>
        /\ \/ Len(todo[p]) = 1 /\ Answer(p, "ok")
           \/ Len(todo[p]) # 1 /\ Advance(p, <<>>) /\ UNCHANGED result
    <2>1. Visible(p) = committed
      BY <1>5 DEF Visible
    <2> QED
      BY <2>1 DEF InsertRow, history
  <1>7. /\ Shape(todo'[p], kind[p], p, FALSE)
        /\ result'[p] = result[p] \/ result'[p] # "none"
        /\ result'[p] # "none" <=> todo'[p] = <<>>
    <2>1. CASE Answer(p, "ok")
      <3>1. todo'[p] = <<>> /\ result'[p] = "ok"
        BY <1>2, <2>1 DEF Answer, TypeInv
      <3> QED
        BY <3>1, EmptyShape
    <2>2. CASE Len(todo[p]) # 1 /\ Advance(p, <<>>) /\ UNCHANGED result
      <3>1. /\ todo'[p] = Tail(todo[p]) /\ Shape(todo'[p], kind[p], p, open[p])
            /\ Len(todo[p]) > 1 => todo'[p] # <<>>
        BY <1>1, <2>2, NextStatement
      <3>2. Len(todo[p]) > 1
        <4>1. Len(todo[p]) \in Nat /\ Len(todo[p]) >= 1
          BY <1>1, <1>4, SeqParts
        <4>2. \A n \in Nat : n >= 1 /\ n # 1 => n > 1
          OBVIOUS
        <4> QED
          BY <2>2, <4>1, <4>2
      <3>3. open[p] = FALSE
        BY <1>4 DEF Tx
      <3> QED
        BY <1>4, <2>2, <3>1, <3>2, <3>3
    <2> QED
      BY <1>6, <2>1, <2>2
  <1> HIDE DEF row
  <1>8. \A q \in Operations : q # p =>
           /\ Same(q) /\ (Tx(q) => Tx(q)')
           /\ Snapshot(q)' = Snapshot(q) /\ Checking(q)' = Checking(q) /\ Snap(q)' = Snap(q)
           /\ Statement(q)' = Statement(q)
    BY <1>2, TxSame DEF Others
  <1>9. Snapshot(p) = {} /\ Snapshot(p)' = {} /\ Snap(p)' = Snap(p)
    BY <1>3, <1>6 DEF Snapshot, Snap, CanvasRow
  <1>10. ~Has(todo'[p], "delete") \/ inserted'[p] = {}
    BY <1>5, <1>6
  <1>11. Tx(p)'
    <2>1. open'[p] = FALSE /\ inserted'[p] = {} /\ deleted'[p] = {} /\ found'[p] = Unread
      BY <1>3, <1>4, <1>5, <1>6 DEF Tx
    <2> QED
      BY <1>3, <1>6, <1>7, <1>9, <2>1 DEF Tx
  <1>12. TxInv'
    BY <1>8, <1>11 DEF TxInv, IInv
  <1>13. FiniteInv'
    <2>1. IsFiniteSet(committed \cup {row})
      BY FS_AddElement DEF IInv, FiniteInv
    <2> QED
      BY <1>6, <2>1 DEF IInv, FiniteInv
  <1>14. RowsInv'
    <2>1. \A r : Over(r) => Over(r)'
      BY <1>7, <1>8 DEF Over, Same
    <2>2. \A r : r = row => RowOK(r) /\ WhoseOK(r) /\ Over(r)'
      BY <1>3 DEF OwnRow, WhoseOK, Target, Over
    <2>3. OtherRows \subseteq committed /\ \A r \in committed : RowOK(r) /\ WhoseOK(r) /\ Over(r)
      BY DEF IInv, RowsInv
    <2>4. \A q \in Operations : \A r \in Snapshot(q)' : Over(r)'
      BY <1>8, <1>9, <2>1 DEF IInv, RowsInv
    <2> QED
      BY <1>6, <2>1, <2>2, <2>3, <2>4, RowsSame DEF RowsInv
  <1>15. DeletedInv'
    BY <1>6 DEF IInv, DeletedInv
  <1>16. ReferencesInv'
    <2>1. Keys(committed) \subseteq Keys(committed)'
      BY <1>6 DEF Keys, Key
    <2>2. \A r \in committed' : r.refs \subseteq Keys(committed)'
      BY <1>6, <2>1 DEF IInv, ReferencesInv
    <2>3. \A q \in Operations : Keys(deleted[q])' = Keys(deleted[q])
      BY <1>6 DEF Keys, Key
    <2>4. ASSUME NEW q \in Operations PROVE AddedRefer(q)'
      <3>1. Visible(q) \subseteq Visible(q)'
        BY <1>6 DEF Visible
      <3>2. Keys(Visible(q)) \subseteq Keys(Visible(q))'
        BY <3>1 DEF Keys, Key
      <3> QED
        BY <1>6, <3>2 DEF IInv, ReferencesInv, AddedRefer
    <2>5. ASSUME NEW q \in Operations, q # p PROVE KeptRefer(q)'
      <3>1. row.refs \cap Keys(deleted[q]) = {}
        BY <1>1, <2>5, NobodyDeletes DEF row
      <3>2. KeptRefer(q) /\ Checking(q)' = Checking(q)
        BY <1>8, <2>5 DEF IInv, ReferencesInv
      <3> QED
        BY <1>6, <2>3, <3>1, <3>2 DEF KeptRefer
    <2>6. KeptRefer(p)'
      BY <1>5, <1>6 DEF KeptRefer, Keys
    <2>7. \A q, r \in Operations : q # r => Apart(q, r)'
      BY <1>6, <2>3 DEF IInv, ReferencesInv, Apart
    <2>8. \A q \in Operations : AddedRefer(q)' /\ KeptRefer(q)'
      BY <2>4, <2>5, <2>6
    <2> QED
      BY <2>2, <2>7, <2>8 DEF ReferencesInv
  <1>17. MetInv'
    <2>1. MetInv /\ met' = met
      BY <1>6 DEF IInv
    <2>2. \A q \in Operations : q \in Active' => q \in Active
      BY <1>1, <1>8 DEF Active, Same
    <2>3. \A q \in Operations : q \in Active \/ result[q] # "none" => q \in Active' \/ result'[q] # "none"
      BY <1>7, <1>8 DEF Active, Same
    <2>4. Active' \subseteq Operations
      BY DEF Active
    <2> QED
      BY <2>1, <2>2, <2>3, <2>4 DEF MetInv
  <1>18. \A tab \in CanvasTabs : ~CanvasRow(row, tab)
    BY <1>3 DEF CanvasRow
  <1>19. ChainInv'
    <2>1. \A q \in Operations : Snap(q)' = Snap(q)
      BY <1>8, <1>9
    <2>2. \A q \in Operations : Snap(q) \cap committed' = Snap(q) \cap committed
      BY <1>6, <1>18 DEF Snap, CanvasTabs
    <2> QED
      BY <2>1, <2>2 DEF IInv, ChainInv
  <1>20. ClearedInv'
    <2>1. ASSUME NEW q \in Operations, q # p PROVE Clears(q)'
      <3>1. Same(q) /\ kind' = kind /\ Statement(q)' = Statement(q) /\ Clears(q)
        BY <1>2, <1>8, <2>1 DEF Others, IInv, ClearedInv
      <3>2. Excuse(q) => Excuse(q)'
        <4>1. met[q] \subseteq Operations /\ met[q] \subseteq met'[q] /\ edgeless'[q] = edgeless[q]
          BY <1>6 DEF IInv, MetInv
        <4> QED
          BY <1>1, <1>2, <4>1, ExcuseStays
      <3>3. \A r, tab : CanvasRow(r, tab)' <=> CanvasRow(r, tab)
        BY DEF CanvasRow
      <3>4. \A tab : Waits(q, tab)' <=> Waits(q, tab)
        BY <3>1 DEF Waits, Same
      <3>5. \A tab \in CanvasTabs : Complete(q, tab) => Complete(q, tab)'
        BY <1>6, <1>18, <3>1, <3>3, <3>4 DEF Complete, Same
      <3>6. EdgesDoomed(q) => EdgesDoomed(q)'
        BY <1>6, <1>18, <3>1, <3>3, <3>4, RowsSame DEF EdgesDoomed, Same, CanvasTabs
      <3>7. Changes(q)' <=> Changes(q)
        BY <3>1 DEF Changes, Active, Same
      <3> QED
        BY <3>1, <3>2, <3>3, <3>5, <3>6, <3>7 DEF Clears, Same, CanvasTabs
    <2>2. Clears(p)'
      BY <1>3, <1>6 DEF Clears, Changes
    <2> QED
      BY <2>1, <2>2 DEF ClearedInv
  <1>21. HoldsInv'
    <2>1. \A tab \in CanvasTabs : Names(committed, tab, w)' = Names(committed, tab, w)
      BY <1>6, <1>18 DEF Names, CanvasRow
    <2> QED
      BY <1>6, <2>1 DEF IInv, HoldsInv, Holds, CanvasTabs
  <1>22. AwareInv'
    <2>1. ASSUME NEW q \in Operations, q # p PROVE Aware(q)'
      <3>1. Same(q) /\ kind' = kind /\ Aware(q)
        BY <1>2, <1>8, <2>1 DEF Others, IInv, AwareInv
      <3>2. Missed(q) => Missed(q)'
        <4>1. met[q] \subseteq Operations /\ met[q] \subseteq met'[q]
          BY <1>6 DEF IInv, MetInv
        <4> QED
          BY <1>1, <1>2, <4>1, MissedStays
      <3>3. \A x \in committed' : CanvasRow(x, "edge") => x \in committed
        BY <1>6, <1>18 DEF CanvasTabs
      <3> QED
        BY <3>1, <3>2, <3>3, AwareSame
    <2>2. Aware(p)'
      BY <1>3, <1>6 DEF Aware, Changes
    <2> QED
      BY <2>1, <2>2 DEF AwareInv
  <1> QED
    BY <1>2, <1>12, <1>13, <1>14, <1>15, <1>16, <1>17, <1>19, <1>20, <1>21, <1>22 DEF IInv

LEMMA InsertRowKeeps ==
    ASSUME NEW p \in Operations, IInv, InsertRow(p)
    PROVE  IInv'
  <1>1. todo[p] # <<>>
    BY DEF InsertRow, Active
  <1>2. Others(p) /\ TypeInv'
    BY OwnSteps DEF IInv, Step
  <1>3. CASE Fail(p)
    BY <1>1, <1>2, <1>3, FailKeeps DEF InsertRow, history
  <1> QED
    BY <1>3, InsertKeeps, PublishKeeps

--------------------------------------------------------------------------------
(***************************************************************************)
(* The end of a transaction.                                               *)
(***************************************************************************)
\* Rows whose part in a workflow is the canvas of a save are that canvas.
LEMMA HoldsSaved ==
    ASSUME NEW R, NEW canvas, NEW op,
           \A r : r \in CanvasRows(w, canvas, op) => r \in R,
           \A r \in R, tab \in CanvasTabs : CanvasRow(r, tab) => r \in CanvasRows(w, canvas, op)
    PROVE  Holds(R, w, canvas)
  <1> DEFINE C == CanvasRows(w, canvas, op)
  <1>1. \A r \in C : /\ r.tab = "step" => \E s \in ToSet(canvas.steps) : r = StepRow(w, s, op)
                     /\ r.tab = "edge" => \E e \in ToSet(canvas.edges) : r = EdgeRow(w, e, op)
                     /\ r.tab = "note" => \E n \in ToSet(canvas.notes) : r = NoteRow(w, n, op)
    <2>1. \A x : /\ StepRow(w, x, op).tab = "step" /\ EdgeRow(w, x, op).tab = "edge"
                 /\ NoteRow(w, x, op).tab = "note"
      BY DEF StepRow, EdgeRow, NoteRow, Row
    <2> QED
      BY <2>1 DEF CanvasRows
  <1>2. \A x : /\ StepRow(w, x, op).tab = "step" /\ StepRow(w, x, op).wf = w
               /\ StepRow(w, x, op).has = x
               /\ EdgeRow(w, x, op).tab = "edge" /\ EdgeRow(w, x, op).wf = w
               /\ EdgeRow(w, x, op).has = x
               /\ NoteRow(w, x, op).tab = "note" /\ NoteRow(w, x, op).wf = w
               /\ NoteRow(w, x, op).has = x
    BY DEF StepRow, EdgeRow, NoteRow, Row
  <1>3. \A r \in R, tab \in CanvasTabs : r.tab = tab /\ r.wf = w => r \in C
    BY DEF CanvasRow
  <1>4. /\ \A s \in ToSet(canvas.steps) : StepRow(w, s, op) \in R
        /\ \A e \in ToSet(canvas.edges) : EdgeRow(w, e, op) \in R
        /\ \A n \in ToSet(canvas.notes) : NoteRow(w, n, op) \in R
    BY DEF CanvasRows
  <1> HIDE DEF C
  <1>5. Names(R, "step", w) = ToSet(canvas.steps)
    <2>1. \A x \in Names(R, "step", w) : x \in ToSet(canvas.steps)
      BY <1>1, <1>2, <1>3 DEF Names, CanvasTabs
    <2>2. \A x \in ToSet(canvas.steps) : x \in Names(R, "step", w)
      <3> TAKE x \in ToSet(canvas.steps)
      <3> DEFINE r == StepRow(w, x, op)
      <3>1. r \in R /\ r.tab = "step" /\ r.wf = w /\ r.has = x
        BY <1>2, <1>4
      <3> HIDE DEF r
      <3> QED
        BY <3>1 DEF Names
    <2> QED
      BY <2>1, <2>2
  <1>6. Names(R, "edge", w) = ToSet(canvas.edges)
    <2>1. \A x \in Names(R, "edge", w) : x \in ToSet(canvas.edges)
      BY <1>1, <1>2, <1>3 DEF Names, CanvasTabs
    <2>2. \A x \in ToSet(canvas.edges) : x \in Names(R, "edge", w)
      <3> TAKE x \in ToSet(canvas.edges)
      <3> DEFINE r == EdgeRow(w, x, op)
      <3>1. r \in R /\ r.tab = "edge" /\ r.wf = w /\ r.has = x
        BY <1>2, <1>4
      <3> HIDE DEF r
      <3> QED
        BY <3>1 DEF Names
    <2> QED
      BY <2>1, <2>2
  <1>7. Names(R, "note", w) = ToSet(canvas.notes)
    <2>1. \A x \in Names(R, "note", w) : x \in ToSet(canvas.notes)
      BY <1>1, <1>2, <1>3 DEF Names, CanvasTabs
    <2>2. \A x \in ToSet(canvas.notes) : x \in Names(R, "note", w)
      <3> TAKE x \in ToSet(canvas.notes)
      <3> DEFINE r == NoteRow(w, x, op)
      <3>1. r \in R /\ r.tab = "note" /\ r.wf = w /\ r.has = x
        BY <1>2, <1>4
      <3> HIDE DEF r
      <3> QED
        BY <3>1 DEF Names
    <2> QED
      BY <2>1, <2>2
  <1> QED
    BY <1>5, <1>6, <1>7 DEF Holds

\* Without rows of it there is no canvas.
LEMMA HoldsNothing ==
    ASSUME NEW R, \A r \in R, tab \in CanvasTabs : ~CanvasRow(r, tab)
    PROVE  Holds(R, w, Empty)
  <1>1. ToSet(<<>>) = {}
    BY DEF ToSet
  <1>2. \A tab \in CanvasTabs : Names(R, tab, w) = {}
    BY DEF Names, CanvasRow
  <1>3. Empty.steps = <<>> /\ Empty.edges = <<>> /\ Empty.notes = <<>>
    BY DEF Empty
  <1> QED
    BY <1>1, <1>2, <1>3 DEF Holds, CanvasTabs

\* What is known of an operation that commits.
LEMMA Committing ==
    ASSUME NEW p \in Operations, IInv, todo[p] # <<>>, Statement(p).do = "commit"
    PROVE  /\ Len(todo[p]) = 1 /\ kind[p] \in {"save", "delete", "clone"}
           /\ found[p] = Unread /\ Checking(p) = {} /\ Snapshot(p) = {}
           /\ \A tab : ~Deletes(todo[p], tab) /\ ~Waits(p, tab)
           /\ kind[p] = "save" => inserted[p] = CanvasRows(w, asked[p], p)
           /\ kind[p] = "delete" => inserted[p] = {}
  <1>1. /\ Tx(p) /\ Shape(todo[p], kind[p], p, open[p]) /\ open[p] \in BOOLEAN
        /\ IsSeq(todo[p]) /\ Statement(p) = todo[p][1] /\ found[p] = Unread
        /\ kind[p] \in {"save", "delete", "execute", "clone"}
    BY UnderWay
  <1>2. Len(todo[p]) = 1 /\ kind[p] # "execute"
    BY <1>1, HeadShape
  <1>3. \A i \in 1 .. 1 : i = 1
    OBVIOUS
  <1>4. \A i \in 1 .. Len(todo[p]) : todo[p][i].do = "commit"
    BY <1>1, <1>2, <1>3
  <1>5. \A tab : ~Deletes(todo[p], tab)
    BY <1>4 DEF Deletes
  <1>6. ToInsert(todo[p]) = {}
    BY <1>4 DEF ToInsert
  <1> QED
    BY <1>1, <1>2, <1>5, <1>6 DEF Tx, Checking, Snapshot, Waits

\* Two operations that have both deleted edges cannot both go on: one has waited for the
\* other, and then finds no edge of its own.
LEMMA OneOfTwoEdgeless ==
    ASSUME NEW p \in Operations, NEW q \in Operations, p # q, IInv,
           Changes(p), ~Deletes(todo[p], "edge"), Changes(q), ~Deletes(todo[q], "edge")
    PROVE  edgeless[p] \/ edgeless[q]
  <1> SUFFICES ASSUME ~edgeless[p], ~edgeless[q] PROVE FALSE
    OBVIOUS
  <1>1. /\ \E r \in deleted[p] : CanvasRow(r, "edge")
        /\ \E r \in deleted[q] : CanvasRow(r, "edge")
    BY DEF IInv, ClearedInv, Clears
  <1>2. ASSUME NEW o \in Operations, Changes(o), ~Deletes(todo[o], "edge")
        PROVE  \A r \in Snapshot(o) : r.tab # "edge"
    <2>1. Tx(o) /\ todo[o] # <<>> /\ Shape(todo[o], kind[o], o, open[o]) /\ open[o] \in BOOLEAN
          /\ Statement(o) = todo[o][1]
      BY <1>2, UnderWay DEF Changes, Active
    <2>2. 1 \in 1 .. Len(todo[o])
      BY <2>1, HeadShape
    <2>3. Statement(o).do = "delete" => Statement(o).tab # "edge"
      BY <1>2, <2>1, <2>2 DEF Deletes
    <2> QED
      BY <2>1, <2>3 DEF Tx, Snapshot
  <1>3. /\ Snap(p) = {r \in deleted[p] : CanvasRow(r, "edge")}
        /\ Snap(q) = {r \in deleted[q] : CanvasRow(r, "edge")}
    BY <1>2 DEF Snap, CanvasRow
  <1>4. deleted[p] \cap deleted[q] = {} /\ deleted[p] \subseteq committed /\ deleted[q] \subseteq committed
    BY DEF IInv, DeletedInv
  <1>5. \/ Snap(p) \cap committed \subseteq Snap(q)
        \/ Snap(q) \cap committed \subseteq Snap(p)
    BY DEF IInv, ChainInv
  <1> QED
    BY <1>1, <1>3, <1>4, <1>5

LEMMA CommitTxKeeps ==
    ASSUME NEW p \in Operations, IInv, CommitTx(p)
    PROVE  IInv'
  <1>1. todo[p] # <<>> /\ Statement(p).do = "commit"
    BY DEF CommitTx, Active
  <1>2. Others(p) /\ TypeInv' /\ TypeInv
    BY OwnSteps DEF IInv, Step
  <1>3. /\ Len(todo[p]) = 1 /\ kind[p] \in {"save", "delete", "clone"}
        /\ found[p] = Unread /\ Checking(p) = {} /\ Snapshot(p) = {}
        /\ \A tab : ~Deletes(todo[p], tab) /\ ~Waits(p, tab)
        /\ kind[p] = "save" => inserted[p] = CanvasRows(w, asked[p], p)
        /\ kind[p] = "delete" => inserted[p] = {}
    BY <1>1, Committing
  <1>4. Tx(p) /\ result[p] = "none" /\ p \in Active
    BY <1>1, UnderWay
  <1>5. /\ committed' = (committed \ deleted[p]) \cup inserted[p]
        /\ Close(p)
        /\ Answer(p, "ok") \/ Answer(p, "error")
        /\ UNCHANGED <<found, kind, loaded, asked, met, edgeless>>
        /\ last' = CASE kind[p] = "save" -> asked[p]
                     [] kind[p] = "delete" -> Empty
                     [] OTHER -> last
        /\ merged' = IF kind[p] = "clone" THEN merged ELSE Excuse(p)
    BY DEF CommitTx, Excuse
  <1>6. /\ todo'[p] = <<>> /\ result'[p] # "none" /\ open'[p] = FALSE
        /\ inserted'[p] = {} /\ deleted'[p] = {} /\ found'[p] = Unread
    BY <1>2, <1>3, <1>5 DEF Answer, Close, TypeInv
  <1>7. \A q \in Operations : q # p =>
           /\ Same(q) /\ (Tx(q) => Tx(q)')
           /\ Snapshot(q)' = Snapshot(q) /\ Checking(q)' = Checking(q) /\ Snap(q)' = Snap(q)
           /\ Statement(q)' = Statement(q)
    BY <1>2, TxSame DEF Others
  <1>8. Snapshot(p)' = {} /\ Snap(p)' = {}
    BY <1>6 DEF Snapshot, Snap
  <1>9. \A r : Over(r) => Over(r)'
    BY <1>6, <1>7 DEF Over, Same
  <1>10. /\ \A r \in inserted[p] : RowOK(r) /\ r.by = p /\ r.wf = Target(kind[p], p)
         /\ \A r \in deleted[p] : r.wf = Target(kind[p], p)
         /\ Target(kind[p], p) # other
         /\ kind[p] = "clone" => Target(kind[p], p) # w
    BY <1>4, NamesAssumption DEF Tx, OwnRow, Target
  <1>11. \A q \in Operations : q # p => deleted[p] \cap deleted[q] = {}
    BY DEF IInv, DeletedInv
  <1>12. \A q \in Operations : q # p =>
            /\ \A r \in inserted[p] : r.refs \cap Keys(deleted[q]) = {}
            /\ \A r \in inserted[q] : r.refs \cap Keys(deleted[p]) = {}
    BY DEF IInv, ReferencesInv, Apart
  <1>13. /\ \A r \in committed : r.refs \subseteq Keys(committed)
         /\ \A r \in inserted[p] : r.refs \subseteq Keys((committed \ deleted[p]) \cup inserted[p])
         /\ \A r \in committed \ deleted[p] : r.refs \cap Keys(deleted[p]) = {}
    BY <1>3 DEF IInv, ReferencesInv, AddedRefer, KeptRefer, Visible
  <1>14. TxInv'
    <2>1. Tx(p)'
      BY <1>6, <1>8, EmptyShape, NothingSeen DEF Tx
    <2> QED
      BY <1>7, <2>1 DEF TxInv, IInv
  <1>15. FiniteInv'
    <2>1. IsFiniteSet(committed) /\ IsFiniteSet(inserted[p])
      BY DEF IInv, FiniteInv
    <2>2. IsFiniteSet(committed \ deleted[p])
      BY <2>1, FS_Subset
    <2>3. IsFiniteSet((committed \ deleted[p]) \cup inserted[p])
      BY <2>1, <2>2, FS_Union
    <2>4. IsFiniteSet(inserted'[p])
      BY <1>6, FS_EmptySet
    <2>5. IsFiniteSet(committed') /\ loaded' = loaded
      BY <1>5, <2>3
    <2> QED
      BY <1>7, <2>4, <2>5 DEF IInv, FiniteInv, Same
  <1>16. RowsInv'
    <2>1. OtherRows \subseteq committed'
      BY <1>5, <1>10, RowsOfOther DEF IInv, RowsInv
    <2>2. \A r \in inserted[p] : RowOK(r) /\ WhoseOK(r) /\ Over(r)'
      BY <1>6, <1>10 DEF Over, WhoseOK, Target
    <2>3. \A r \in committed : RowOK(r) /\ WhoseOK(r) /\ Over(r)
      BY DEF IInv, RowsInv
    <2>4. \A q \in Operations : \A r \in Snapshot(q)' : Over(r)'
      BY <1>7, <1>8, <1>9 DEF IInv, RowsInv
    <2> QED
      BY <1>5, <1>9, <2>1, <2>2, <2>3, <2>4, RowsSame DEF RowsInv
  <1>17. DeletedInv'
    <2>1. \A q \in Operations : deleted'[q] \subseteq committed'
      BY <1>5, <1>6, <1>7, <1>11 DEF IInv, DeletedInv, Same
    <2>2. \A q, r \in Operations : q # r => deleted'[q] \cap deleted'[r] = {}
      BY <1>6, <1>7 DEF IInv, DeletedInv, Same
    <2> QED
      BY <2>1, <2>2 DEF DeletedInv
  <1>18. ReferencesInv'
    <2>1. \A R : Keys(R)' = Keys(R)
      BY DEF Keys, Key
    <2>2. ASSUME NEW r \in committed' PROVE r.refs \subseteq Keys(committed')
      <3>1. CASE r \in inserted[p]
        BY <1>5, <1>13, <3>1
      <3>2. CASE r \in committed \ deleted[p]
        <4> SUFFICES ASSUME NEW k \in r.refs PROVE k \in Keys(committed')
          OBVIOUS
        <4>1. PICK x \in committed : k = Key(x)
          BY <1>13, <3>2 DEF Keys
        <4>2. x \notin deleted[p]
          BY <1>13, <3>2, <4>1 DEF Keys
        <4> QED
          BY <1>5, <4>1, <4>2 DEF Keys
      <3> QED
        BY <1>5, <3>1, <3>2
    <2>3. ASSUME NEW q \in Operations, q # p PROVE AddedRefer(q)'
      <3>1. Same(q)
        BY <1>7, <2>3
      <3> SUFFICES ASSUME NEW r \in inserted[q], NEW k \in r.refs
                   PROVE  k \in Keys((committed' \ deleted[q]) \cup inserted[q])
        BY <3>1 DEF AddedRefer, Visible, Same, Keys, Key
      <3>2. PICK x \in (committed \ deleted[q]) \cup inserted[q] : k = Key(x)
        BY DEF IInv, ReferencesInv, AddedRefer, Visible, Keys
      <3>3. x \notin deleted[p]
        BY <1>12, <2>3, <3>2 DEF Keys
      <3>4. x \in (committed' \ deleted[q]) \cup inserted[q]
        BY <1>5, <3>2, <3>3
      <3> QED
        BY <3>2, <3>4 DEF Keys
    <2>4. ASSUME NEW q \in Operations, q # p PROVE KeptRefer(q)'
      <3>1. Same(q) /\ Checking(q)' = Checking(q) /\ KeptRefer(q)
        BY <1>7, <2>4 DEF IInv, ReferencesInv
      <3>2. \A r \in inserted[p] : r.refs \cap Keys(deleted[q]) = {}
        BY <1>12, <2>4
      <3>3. Keys(deleted[q])' = Keys(deleted[q])
        BY <3>1 DEF Same, Keys, Key
      <3>4. \A r \in committed' \ deleted[q] : r.refs \cap Keys(deleted[q]) \subseteq Checking(q)
        BY <1>5, <3>1, <3>2 DEF KeptRefer
      <3> QED
        BY <3>1, <3>3, <3>4 DEF KeptRefer, Same
    <2>5. AddedRefer(p)' /\ KeptRefer(p)'
      BY <1>6 DEF AddedRefer, KeptRefer, Keys
    <2>6. ASSUME NEW q \in Operations, NEW r \in Operations, q # r PROVE Apart(q, r)'
      <3>1. Apart(q, r)
        BY <2>6 DEF IInv, ReferencesInv
      <3>2. CASE q = p \/ r = p
        BY <1>6, <3>2 DEF Apart, Keys
      <3>3. CASE q # p /\ r # p
        <4>1. inserted'[q] = inserted[q] /\ Keys(deleted[r])' = Keys(deleted[r])
          BY <1>7, <3>3 DEF Same, Keys, Key
        <4> QED
          BY <3>1, <4>1 DEF Apart
      <3> QED
        BY <3>2, <3>3
    <2>7. \A q \in Operations : AddedRefer(q)' /\ KeptRefer(q)'
      BY <2>3, <2>4, <2>5
    <2>8. \A r \in committed' : r.refs \subseteq Keys(committed)'
      BY <2>2 DEF Keys, Key
    <2>9. \A q, r \in Operations : q # r => Apart(q, r)'
      BY <2>6
    <2> QED
      BY <2>7, <2>8, <2>9 DEF ReferencesInv
  <1>19. MetInv'
    <2>1. MetInv /\ met' = met
      BY <1>5 DEF IInv
    <2>2. \A q \in Operations : q \in Active' => q \in Active
      BY <1>4, <1>7 DEF Active, Same
    <2>3. \A q \in Operations : q \in Active \/ result[q] # "none" => q \in Active' \/ result'[q] # "none"
      BY <1>6, <1>7 DEF Active, Same
    <2>4. Active' \subseteq Operations
      BY DEF Active
    <2> QED
      BY <2>1, <2>2, <2>3, <2>4 DEF MetInv
  <1>20. ChainInv'
    <2>1. ASSUME NEW q \in Operations, q # p PROVE Snap(q) \cap inserted[p] = {}
      <3> SUFFICES ASSUME NEW r \in Snap(q), r \in inserted[p] PROVE FALSE
        OBVIOUS
      <3>1. Over(r)
        BY DEF Snap, IInv, RowsInv, DeletedInv
      <3>2. r.tab \in CanvasTabs /\ r.by = p
        BY <1>10 DEF Snap, CanvasRow, CanvasTabs
      <3> QED
        BY <1>4, <3>1, <3>2 DEF Over
    <2>2. ASSUME NEW q \in Operations, NEW r \in Operations, q # p, r # p
          PROVE  \/ Snap(q)' \cap committed' \subseteq Snap(r)'
                 \/ Snap(r)' \cap committed' \subseteq Snap(q)'
      <3>1. \/ Snap(q) \cap committed \subseteq Snap(r)
            \/ Snap(r) \cap committed \subseteq Snap(q)
        BY DEF IInv, ChainInv
      <3>2. /\ Snap(q) \cap committed' \subseteq Snap(q) \cap committed
            /\ Snap(r) \cap committed' \subseteq Snap(r) \cap committed
        BY <1>5, <2>1, <2>2
      <3> QED
        BY <1>7, <2>2, <3>1, <3>2
    <2> QED
      BY <1>8, <2>2 DEF ChainInv
  <1>21. ClearedInv'
    <2>1. ASSUME NEW q \in Operations, q # p PROVE Clears(q)'
      <3> SUFFICES ASSUME Changes(q)', ~Deletes(todo'[q], "edge")
                   PROVE  /\ ~edgeless'[q] => \E r \in deleted'[q] : CanvasRow(r, "edge")'
                          /\ \/ Excuse(q)'
                             \/ (EdgesDoomed(q) /\ Complete(q, "step") /\ Complete(q, "note"))'
        BY DEF Clears
      <3>1. Same(q) /\ kind' = kind /\ Statement(q)' = Statement(q) /\ Tx(q)
        BY <1>2, <1>7, <2>1 DEF Others, IInv, TxInv
      <3>2. Changes(q) /\ ~Deletes(todo[q], "edge")
        BY <3>1 DEF Changes, Active, Same
      <3>3. /\ ~edgeless[q] => \E r \in deleted[q] : CanvasRow(r, "edge")
            /\ Excuse(q) \/ (EdgesDoomed(q) /\ Complete(q, "step") /\ Complete(q, "note"))
        BY <3>2 DEF IInv, ClearedInv, Clears
      <3>4. Excuse(q) => Excuse(q)'
        <4>1. met[q] \subseteq Operations /\ met[q] \subseteq met'[q] /\ edgeless'[q] = edgeless[q]
          BY <1>5 DEF IInv, MetInv
        <4> QED
          BY <1>1, <1>2, <4>1, ExcuseStays
      <3>5. \A r, tab : CanvasRow(r, tab)' <=> CanvasRow(r, tab)
        BY DEF CanvasRow
      <3>6. \A tab : Waits(q, tab)' <=> Waits(q, tab)
        BY <3>1 DEF Waits, Same
      <3>7. kind[p] # "save" => \A r \in inserted[p], tab \in CanvasTabs : ~CanvasRow(r, tab)
        BY <1>3, <1>10 DEF CanvasRow
      <3>8. kind[p] # "save" =>
               \A tab \in CanvasTabs : Complete(q, tab) => Complete(q, tab)'
        BY <1>5, <3>1, <3>5, <3>6, <3>7 DEF Complete, Same
      <3>9. ASSUME kind[p] # "save", EdgesDoomed(q) PROVE EdgesDoomed(q)'
        <4> SUFFICES ASSUME NEW x \in committed' \ deleted[q], CanvasRow(x, "edge")
                     PROVE  /\ Attached(x)
                            /\ Waits(q, "step") =>
                                  \E k \in Head(found[q]) \cap committed' : Key(k) \in x.refs
                            /\ ~Deletes(todo[q], "step") =>
                                  Statement(q).do = "check" /\ x.refs \cap Statement(q).keys # {}
          BY <3>1, <3>5, <3>6, RowsSame DEF EdgesDoomed, Same, Key
        <4>1. x \in committed /\ x \notin deleted[p]
          BY <1>5, <3>7, <3>9 DEF CanvasTabs
        <4>2. ASSUME NEW k \in Head(found[q]) \cap committed, Key(k) \in x.refs
              PROVE  k \in committed'
          BY <1>5, <1>13, <4>1, <4>2 DEF Keys
        <4> QED
          BY <3>9, <4>1, <4>2 DEF EdgesDoomed
      <3>10. kind[p] = "save" => Excuse(q)'
        <4> SUFFICES ASSUME kind[p] = "save" PROVE Excuse(q)'
          OBVIOUS
        <4>1. Changes(p)
          BY <1>4 DEF Changes
        <4>2. edgeless[p] \/ edgeless[q]
          BY <1>3, <2>1, <3>2, <4>1, OneOfTwoEdgeless
        <4>3. p \in met[q]
          BY <1>4, <2>1, <3>2 DEF IInv, MetInv, Changes
        <4> QED
          BY <1>5, <1>6, <4>2, <4>3 DEF Excuse
      <3>11. edgeless'[q] = edgeless[q] /\ deleted'[q] = deleted[q]
        BY <3>1 DEF Same
      <3> QED
        BY <3>3, <3>4, <3>5, <3>8, <3>9, <3>10, <3>11 DEF CanvasTabs
    <2>2. Clears(p)'
      BY <1>6 DEF Clears, Changes, Active
    <2> QED
      BY <2>1, <2>2 DEF ClearedInv
  <1>22. HoldsInv'
    <2>1. CASE kind[p] = "clone"
      <3>1. merged' = merged /\ last' = last
        BY <1>5, <2>1
      <3>2. \A r, tab : CanvasRow(r, tab) => (r \in committed' <=> r \in committed)
        BY <1>5, <1>10, <2>1 DEF CanvasRow
      <3>3. \A tab : Names(committed, tab, w)' = Names(committed, tab, w)
        BY <3>2 DEF Names, CanvasRow
      <3> QED
        BY <3>1, <3>3 DEF IInv, HoldsInv, Holds
    <2>2. CASE kind[p] # "clone" /\ Excuse(p)
      BY <1>5, <2>2 DEF HoldsInv
    <2>3. CASE kind[p] # "clone" /\ ~Excuse(p)
      <3>1. Changes(p)
        BY <1>3, <1>4, <2>3 DEF Changes
      <3>2. EdgesDoomed(p) /\ Complete(p, "step") /\ Complete(p, "note")
        BY <1>3, <2>3, <3>1 DEF IInv, ClearedInv, Clears
      <3>3. \A r \in committed \ deleted[p] : ~CanvasRow(r, "edge")
        BY <1>1, <1>3, <3>2 DEF EdgesDoomed
      <3>4. \A r \in committed \ deleted[p] : ~CanvasRow(r, "step") /\ ~CanvasRow(r, "note")
        BY <1>3, <3>2 DEF Complete
      <3>5. \A r \in committed', tab \in CanvasTabs : CanvasRow(r, tab) => r \in inserted[p]
        BY <1>5, <3>3, <3>4 DEF CanvasTabs
      <3>6. CASE kind[p] = "save"
        <4>1. last' = asked[p] /\ inserted[p] = CanvasRows(w, asked[p], p)
          BY <1>3, <1>5, <3>6
        <4>2. Holds(committed', w, asked[p])
          BY <1>5, <3>5, <4>1, HoldsSaved
        <4> QED
          BY <4>1, <4>2 DEF HoldsInv, Holds, Names
      <3>7. CASE kind[p] = "delete"
        <4>1. last' = Empty /\ inserted[p] = {}
          BY <1>3, <1>5, <3>7
        <4>2. \A r \in committed', tab \in CanvasTabs : ~CanvasRow(r, tab)
          BY <3>5, <4>1
        <4>3. Holds(committed', w, Empty)
          BY <4>2, HoldsNothing
        <4> QED
          BY <4>1, <4>3 DEF HoldsInv, Holds, Names
      <3> QED
        BY <1>3, <2>3, <3>6, <3>7
    <2> QED
      BY <2>1, <2>2, <2>3
  <1>23. AwareInv'
    <2>1. ASSUME NEW q \in Operations, q # p, Changes(q) PROVE Aware(q)'
      <3>1. Same(q) /\ kind' = kind /\ Aware(q)
        BY <1>5, <1>7, <2>1 DEF IInv, AwareInv
      <3>2. Missed(q) => Missed(q)'
        <4>1. met[q] \subseteq Operations /\ met[q] \subseteq met'[q]
          BY <1>5 DEF IInv, MetInv
        <4> QED
          BY <1>1, <1>2, <4>1, MissedStays
      <3>3. CASE kind[p] = "save" /\ ~Anchored(asked[p])
        <4>1. p \in met'[q]
          BY <1>4, <1>5, <2>1 DEF IInv, MetInv, Changes
        <4>2. kind'[p] = "save" /\ todo'[p] = <<>>
          BY <1>5, <1>6, <3>3
        <4>3. ~Anchored(asked[p])'
          BY <1>5, <3>3 DEF Anchored
        <4>4. Missed(q)'
          BY <4>1, <4>2, <4>3 DEF Missed
        <4> QED
          BY <4>4 DEF Aware
      <3>4. CASE ~(kind[p] = "save" /\ ~Anchored(asked[p]))
        <4>1. ASSUME NEW x \in inserted[p], CanvasRow(x, "edge") PROVE Attached(x)
          <5>1. kind[p] = "save"
            BY <1>3, <1>10, <4>1 DEF CanvasRow
          <5> QED
            BY <1>3, <3>4, <4>1, <5>1, AnchoredRows DEF CanvasRow
        <4>2. \A x \in committed' : CanvasRow(x, "edge") => x \in committed \/ Attached(x)
          BY <1>5, <4>1
        <4> QED
          BY <3>1, <3>2, <4>2, AwareSame
      <3> QED
        BY <3>3, <3>4
    <2>2. ASSUME NEW q \in Operations, q = p \/ ~Changes(q) PROVE Aware(q)'
      BY <1>5, <1>6, <1>7, <2>2 DEF Aware, Changes, Active, Same
    <2> QED
      BY <2>1, <2>2 DEF AwareInv
  <1> QED
    BY <1>2, <1>14, <1>15, <1>16, <1>17, <1>18, <1>19, <1>20, <1>21, <1>22, <1>23 DEF IInv

--------------------------------------------------------------------------------
(***************************************************************************)
(* The invariant holds.                                                    *)
(***************************************************************************)
LEMMA CanvasOfPage ==
    ASSUME NEW canvas \in Canvases
    PROVE  IsCanvas(canvas)
  BY CanvasesAssumption DEF IsCanvas, IsSeq

\* The lists of an operation that begins.
LEMMA StartShape ==
    ASSUME NEW p \in Operations, IInv, Start(p)
    PROVE  /\ todo'[p] # <<>> /\ Shape(todo'[p], kind[p], p, FALSE)
           /\ kind[p] \in {"save", "delete"} => Deletes(todo'[p], "edge")
           /\ kind[p] = "save" => ToInsert(todo'[p]) = CanvasRows(w, asked'[p], p)
  <1>1. DOMAIN todo = Operations /\ DOMAIN asked = Operations
    BY DEF IInv, TypeInv
  <1>2. CASE kind[p] = "save"
    <2>1. PICK canvas \in Canvases :
             /\ todo' = [todo EXCEPT ![p] = Save(w, canvas, p)]
             /\ asked' = [asked EXCEPT ![p] = canvas]
      BY <1>2 DEF Start
    <2>2. todo'[p] = Save(w, canvas, p) /\ asked'[p] = canvas
      BY <1>1, <2>1
    <2>3. Target("save", p) = w
      BY DEF Target
    <2>4. LET t == Save(Target("save", p), canvas, p)
          IN  /\ Shape(t, "save", p, FALSE) /\ t # <<>> /\ Deletes(t, "edge")
              /\ ToInsert(t) = CanvasRows(Target("save", p), canvas, p)
      BY CanvasOfPage, SaveShape
    <2> QED
      BY <1>2, <2>2, <2>3, <2>4
  <1>3. CASE kind[p] = "delete"
    <2>1. todo'[p] = DeleteWorkflow
      BY <1>1, <1>3 DEF Start
    <2> QED
      BY <1>3, <2>1, DeleteShape
  <1>4. CASE kind[p] \in {"execute", "clone"}
    <2>1. todo'[p] = Reads(kind[p])
      BY <1>1, <1>4 DEF Start
    <2>2. Shape(Reads(kind[p]), kind[p], p, FALSE) /\ Reads(kind[p]) # <<>>
      BY <1>4, ReadsShape
    <2> QED
      BY <1>4, <2>1, <2>2
  <1> QED
    BY <1>2, <1>3, <1>4 DEF Start

LEMMA StartKeeps ==
    ASSUME NEW p \in Operations, IInv, Start(p)
    PROVE  IInv'
  <1>1. Others(p) /\ TypeInv' /\ TypeInv
    BY OwnSteps DEF IInv
  <1>2. /\ todo[p] = <<>> /\ result[p] = "none"
        /\ UNCHANGED <<committed, inserted, deleted, open, found, kind, result, loaded>>
        /\ UNCHANGED <<last, edgeless, merged>>
        /\ met' = [q \in Operations |-> IF q = p THEN Active
                                        ELSE IF q \in Active THEN met[q] \cup {p} ELSE met[q]]
    BY DEF Start, txVars
  <1>3. /\ todo'[p] # <<>> /\ Shape(todo'[p], kind[p], p, FALSE)
        /\ kind[p] \in {"save", "delete"} => Deletes(todo'[p], "edge")
        /\ kind[p] = "save" => ToInsert(todo'[p]) = CanvasRows(w, asked'[p], p)
    BY StartShape
  <1>4. Tx(p) /\ open[p] = FALSE
    <2>1. Tx(p)
      BY DEF IInv, TxInv
    <2>2. Shape(todo[p], kind[p], p, open[p]) /\ open[p] \in BOOLEAN
      BY <2>1 DEF Tx
    <2>3. ~open[p]
      BY <1>2, <2>2 DEF Shape
    <2> QED
      BY <2>1, <2>2, <2>3
  <1>5. inserted[p] = {} /\ deleted[p] = {} /\ found[p] = Unread
    BY <1>4 DEF Tx
  <1>6. \A q \in Operations : q # p =>
           /\ Same(q) /\ (Tx(q) => Tx(q)')
           /\ Snapshot(q)' = Snapshot(q) /\ Checking(q)' = Checking(q) /\ Snap(q)' = Snap(q)
    BY <1>1, TxSame DEF Others
  <1>7. Snapshot(p) = {} /\ Snapshot(p)' = {} /\ Snap(p)' = Snap(p)
    BY <1>2, <1>5 DEF Snapshot, Snap, CanvasRow
  <1>8. TxInv'
    <2>1. CanvasRows(w, asked[p], p)' = CanvasRows(w, asked'[p], p)
      BY DEF CanvasRows, StepRow, EdgeRow, NoteRow, Row
    <2>2. open'[p] = FALSE /\ inserted'[p] = {} /\ deleted'[p] = {} /\ found'[p] = Unread
          /\ kind' = kind /\ result'[p] = "none"
      BY <1>2, <1>4, <1>5
    <2>3. Tx(p)'
      BY <1>3, <1>7, <2>1, <2>2 DEF Tx
    <2> QED
      BY <1>6, <2>3 DEF TxInv, IInv
  <1>9. FiniteInv'
    BY <1>2 DEF IInv, FiniteInv
  <1>10. RowsInv'
    <2>1. \A r : Over(r)' <=> Over(r)
      BY <1>2 DEF Over
    <2> QED
      BY <1>2, <1>6, <1>7, <2>1, RowsSame DEF IInv, RowsInv
  <1>11. DeletedInv'
    BY <1>2 DEF IInv, DeletedInv
  <1>12. ReferencesInv'
    <2>1. \A q \in Operations :
             /\ Keys(deleted[q])' = Keys(deleted[q]) /\ Keys(Visible(q))' = Keys(Visible(q))
      BY <1>2 DEF Keys, Key, Visible
    <2>2. Keys(committed)' = Keys(committed)
      BY <1>2 DEF Keys, Key
    <2>3. \A q \in Operations : AddedRefer(q)'
      BY <1>2, <2>1 DEF IInv, ReferencesInv, AddedRefer
    <2>4. KeptRefer(p)'
      BY <1>2, <1>5 DEF KeptRefer, Keys
    <2>5. \A q \in Operations : q # p => KeptRefer(q)'
      BY <1>2, <1>6, <2>1 DEF IInv, ReferencesInv, KeptRefer
    <2>6. \A q, r \in Operations : q # r => Apart(q, r)'
      BY <1>2, <2>1 DEF IInv, ReferencesInv, Apart
    <2>7. \A r \in committed' : r.refs \subseteq Keys(committed)'
      BY <1>2, <2>2 DEF IInv, ReferencesInv
    <2>8. \A q \in Operations : AddedRefer(q)' /\ KeptRefer(q)'
      BY <2>3, <2>4, <2>5
    <2> QED
      BY <2>6, <2>7, <2>8 DEF ReferencesInv
  <1>13. \A q \in Operations : q \in Active' <=> q = p \/ q \in Active
    BY <1>3, <1>6 DEF Active, Same
  <1>14. Active \subseteq Operations /\ p \notin Active
    BY <1>2 DEF Active
  <1>15. \A q \in Operations : met[q] \subseteq Operations /\ p \notin met[q]
    BY <1>2, <1>14 DEF IInv, MetInv
  <1>16. MetInv'
    <2>1. \A q \in Operations : met'[q] = IF q = p THEN Active
                                          ELSE IF q \in Active THEN met[q] \cup {p} ELSE met[q]
      BY <1>2
    <2>2. ASSUME NEW q \in Operations
          PROVE  met'[q] \subseteq {r \in Operations : r \in Active' \/ result'[r] # "none"}
      BY <1>2, <1>13, <1>14, <2>1 DEF IInv, MetInv
    <2>3. ASSUME NEW q \in Operations, NEW r \in Operations, r # q, q \in Active', r \in Active'
          PROVE  r \in met'[q]
      BY <1>13, <2>1, <2>3 DEF IInv, MetInv
    <2>4. Active' \subseteq Operations
      BY DEF Active
    <2> QED
      BY <2>2, <2>3, <2>4 DEF MetInv
  <1>17. ChainInv'
    <2>1. \A q \in Operations : Snap(q)' = Snap(q)
      BY <1>6, <1>7
    <2> QED
      BY <1>2, <2>1 DEF IInv, ChainInv
  <1>18. ClearedInv'
    <2>1. ASSUME NEW q \in Operations, q # p PROVE Clears(q)'
      <3>1. Same(q) /\ kind' = kind /\ committed' = committed /\ Clears(q)
        BY <1>2, <1>6, <2>1 DEF IInv, ClearedInv
      <3>2. Excuse(q) => Excuse(q)'
        <4>1. met[q] \subseteq met'[q] /\ edgeless'[q] = edgeless[q]
          BY <1>2, <2>1
        <4> QED
          BY <1>1, <1>15, <4>1, ExcuseStays
      <3> QED
        BY <3>1, <3>2, ClearsSame
    <2>2. Clears(p)'
      BY <1>2, <1>3 DEF Clears, Changes
    <2> QED
      BY <2>1, <2>2 DEF ClearedInv
  <1>19. HoldsInv'
    BY <1>2 DEF IInv, HoldsInv, Holds, Names
  <1>20. AwareInv'
    <2>1. ASSUME NEW q \in Operations, q # p PROVE Aware(q)'
      <3>1. Same(q) /\ kind' = kind /\ committed' = committed /\ Aware(q)
        BY <1>2, <1>6, <2>1 DEF IInv, AwareInv
      <3>2. Missed(q) => Missed(q)'
        <4>1. met[q] \subseteq met'[q]
          BY <1>2, <2>1
        <4> QED
          BY <1>1, <1>15, <4>1, MissedStays
      <3> QED
        BY <3>1, <3>2, AwareSame
    <2>2. Aware(p)'
      BY <1>2, <1>5 DEF Aware, Waits
    <2> QED
      BY <2>1, <2>2 DEF AwareInv
  <1> QED
    BY <1>1, <1>8, <1>9, <1>10, <1>11, <1>12, <1>16, <1>17, <1>18, <1>19, <1>20 DEF IInv

\* What is made of a list is finitely many.
LEMMA RowsFinite ==
    ASSUME NEW t, IsSeq(t), NEW f, NEW S, f \in [1 .. Len(t) -> S],
           \A x \in S : \E i \in 1 .. Len(t) : f[i] = x
    PROVE  IsFiniteSet(S)
  <1>1. Len(t) \in Nat
    BY SeqParts
  <1>2. IsFiniteSet(1 .. Len(t))
    BY <1>1, FS_Interval
  <1>3. f \in Surjection(1 .. Len(t), S)
    BY DEF Surjection
  <1> QED
    BY <1>2, <1>3, FS_Surjection

LEMMA CanvasRowsFinite ==
    ASSUME NEW canvas, IsCanvas(canvas), NEW wf, NEW op
    PROVE  IsFiniteSet(CanvasRows(wf, canvas, op))
  <1> DEFINE A == {StepRow(wf, s, op) : s \in ToSet(canvas.steps)}
             B == {EdgeRow(wf, e, op) : e \in ToSet(canvas.edges)}
             C == {NoteRow(wf, n, op) : n \in ToSet(canvas.notes)}
  <1>1. IsFiniteSet(A)
    <2> DEFINE t == canvas.steps
               f == [i \in 1 .. Len(t) |-> StepRow(wf, t[i], op)]
    <2>1. IsSeq(t)
      BY DEF IsCanvas
    <2>2. DOMAIN t = 1 .. Len(t)
      BY <2>1, SeqParts
    <2>3. f \in [1 .. Len(t) -> A] /\ \A x \in A : \E i \in 1 .. Len(t) : f[i] = x
      BY <2>2 DEF ToSet
    <2> HIDE DEF t, f, A
    <2> QED
      BY <2>1, <2>3, RowsFinite
  <1>2. IsFiniteSet(B)
    <2> DEFINE t == canvas.edges
               f == [i \in 1 .. Len(t) |-> EdgeRow(wf, t[i], op)]
    <2>1. IsSeq(t)
      BY DEF IsCanvas
    <2>2. DOMAIN t = 1 .. Len(t)
      BY <2>1, SeqParts
    <2>3. f \in [1 .. Len(t) -> B] /\ \A x \in B : \E i \in 1 .. Len(t) : f[i] = x
      BY <2>2 DEF ToSet
    <2> HIDE DEF t, f, B
    <2> QED
      BY <2>1, <2>3, RowsFinite
  <1>3. IsFiniteSet(C)
    <2> DEFINE t == canvas.notes
               f == [i \in 1 .. Len(t) |-> NoteRow(wf, t[i], op)]
    <2>1. IsSeq(t)
      BY DEF IsCanvas
    <2>2. DOMAIN t = 1 .. Len(t)
      BY <2>1, SeqParts
    <2>3. f \in [1 .. Len(t) -> C] /\ \A x \in C : \E i \in 1 .. Len(t) : f[i] = x
      BY <2>2 DEF ToSet
    <2> HIDE DEF t, f, C
    <2> QED
      BY <2>1, <2>3, RowsFinite
  <1>4. CanvasRows(wf, canvas, op) = (A \cup B) \cup C
    BY DEF CanvasRows
  <1> HIDE DEF A, B, C
  <1>5. IsFiniteSet(A \cup B)
    BY <1>1, <1>2, FS_Union
  <1>6. IsFiniteSet((A \cup B) \cup C)
    BY <1>3, <1>5, FS_Union
  <1> QED
    BY <1>4, <1>6

LEMMA OtherRowsFinite == IsFiniteSet(OtherRows)
  <1> DEFINE t == Rest.steps
             A == {WorkflowRow(other, other), ExecutionRow(other, other)}
             B == {RecordRow(other, s, other) : s \in ToSet(t)}
             C == CanvasRows(other, Rest, other)
             f == [i \in 1 .. Len(t) |-> RecordRow(other, t[i], other)]
  <1>1. IsCanvas(Rest)
    BY CanvasesAssumption DEF IsCanvas, IsSeq
  <1>2. IsSeq(t)
    BY <1>1 DEF IsCanvas
  <1>3. IsFiniteSet(C)
    BY <1>1, CanvasRowsFinite
  <1>4. IsFiniteSet(B)
    <2>1. DOMAIN t = 1 .. Len(t)
      BY <1>2, SeqParts
    <2>2. f \in [1 .. Len(t) -> B] /\ \A x \in B : \E i \in 1 .. Len(t) : f[i] = x
      BY <2>1 DEF ToSet
    <2> HIDE DEF t, f, B
    <2> QED
      BY <1>2, <2>2, RowsFinite
  <1>5. IsFiniteSet(A)
    <2>1. \A a, b : IsFiniteSet({a} \cup {b})
      BY FS_Singleton, FS_AddElement
    <2>2. A = {WorkflowRow(other, other)} \cup {ExecutionRow(other, other)}
      OBVIOUS
    <2> HIDE DEF A
    <2> QED
      BY <2>1, <2>2
  <1>6. OtherRows = (A \cup B) \cup C
    BY DEF OtherRows
  <1> HIDE DEF A, B, C
  <1>7. IsFiniteSet(A \cup B)
    BY <1>4, <1>5, FS_Union
  <1>8. IsFiniteSet((A \cup B) \cup C)
    BY <1>3, <1>7, FS_Union
  <1> QED
    BY <1>6, <1>8

LEMMA InitKeeps == Init => IInv
  <1> SUFFICES ASSUME Init PROVE IInv
    OBVIOUS
  <1>1. PICK canvas \in Canvases :
           /\ committed = OtherRows \cup {WorkflowRow(w, w)} \cup CanvasRows(w, canvas, w)
           /\ \A r \in committed : r.refs \subseteq Keys(committed)
           /\ last = canvas
    BY DEF Init
  <1>2. IsCanvas(canvas)
    BY CanvasOfPage
  <1>3. TypeInv
    BY DEF Init, TypeInv
  <1>4. \A p \in Operations :
           /\ todo[p] = <<>> /\ result[p] = "none" /\ open[p] = FALSE /\ found[p] = Unread
           /\ inserted[p] = {} /\ deleted[p] = {} /\ loaded[p] = {} /\ met[p] = {}
    BY DEF Init
  <1>5. \A p \in Operations : Snapshot(p) = {} /\ Snap(p) = {} /\ ~Changes(p)
    BY <1>4 DEF Snapshot, Snap, Changes, Active
  <1>6. TxInv
    <2> SUFFICES ASSUME NEW p \in Operations PROVE Tx(p)
      BY DEF TxInv
    <2> QED
      BY <1>4, <1>5, EmptyShape, NothingSeen DEF Tx
  <1>7. /\ RowOK(WorkflowRow(w, w)) /\ WorkflowRow(w, w).by = w
        /\ WorkflowRow(w, w).tab = "workflow" /\ WorkflowRow(w, w).wf = w
    BY DEF WorkflowRow, Row, RowOK
  <1>8. \A r \in CanvasRows(w, canvas, w) : RowOK(r) /\ r.by = w /\ r.wf = w
    BY CanvasRowsOwn
  <1>9. FiniteInv
    <2> DEFINE R == OtherRows \cup {WorkflowRow(w, w)}
    <2>1. IsFiniteSet(R)
      BY OtherRowsFinite, FS_AddElement
    <2>2. IsFiniteSet(CanvasRows(w, canvas, w))
      BY <1>2, CanvasRowsFinite
    <2> HIDE DEF R
    <2>3. IsFiniteSet(R \cup CanvasRows(w, canvas, w))
      BY <2>1, <2>2, FS_Union
    <2>4. committed = R \cup CanvasRows(w, canvas, w)
      BY <1>1 DEF R
    <2> QED
      BY <1>4, <2>3, <2>4, FS_EmptySet DEF FiniteInv
  <1>10. RowsInv
    <2>1. \A r \in committed : RowOK(r) /\ WhoseOK(r) /\ r.by \notin Operations
      BY <1>1, <1>7, <1>8, RowsOfOther, NamesAssumption DEF WhoseOK
    <2> QED
      BY <1>1, <1>5, <2>1 DEF RowsInv, Over
  <1>11. DeletedInv
    BY <1>4 DEF DeletedInv
  <1>12. ReferencesInv
    BY <1>1, <1>4 DEF ReferencesInv, AddedRefer, KeptRefer, Apart, Keys
  <1>13. MetInv
    BY <1>4 DEF MetInv, Active
  <1>14. ChainInv
    BY <1>5 DEF ChainInv
  <1>15. ClearedInv
    BY <1>5 DEF ClearedInv, Clears
  <1>16. HoldsInv
    <2>1. \A r \in committed, tab \in CanvasTabs :
             CanvasRow(r, tab) => r \in CanvasRows(w, canvas, w)
      BY <1>1, <1>7, RowsOfOther, NamesAssumption DEF CanvasRow, CanvasTabs
    <2>2. Holds(committed, w, canvas)
      BY <1>1, <2>1, HoldsSaved
    <2> QED
      BY <1>1, <2>2 DEF HoldsInv
  <1>17. AwareInv
    BY <1>5 DEF AwareInv, Aware
  <1> QED
    BY <1>3, <1>6, <1>9, <1>10, <1>11, <1>12, <1>13, <1>14, <1>15, <1>16, <1>17 DEF IInv

--------------------------------------------------------------------------------
(***************************************************************************)
(* Every step.                                                             *)
(***************************************************************************)
\* A step that changes nothing.
LEMMA StutterKeeps ==
    ASSUME IInv, UNCHANGED vars
    PROVE  IInv'
  <1> USE DEF vars, txVars, history
  <1>1. TypeInv' /\ FiniteInv' /\ DeletedInv'
    BY DEF IInv, TypeInv, FiniteInv, DeletedInv
  <1>2. TxInv'
    <2> SUFFICES ASSUME NEW p \in Operations PROVE Tx(p)'
      BY DEF TxInv
    <2> QED
      BY TxSame DEF Same, IInv, TxInv
  <1>3. RowsInv'
    BY RowsSame DEF IInv, RowsInv, Over, Snapshot
  <1>4. ReferencesInv'
    BY DEF IInv, ReferencesInv, AddedRefer, KeptRefer, Apart, Visible, Checking, Statement
  <1>5. MetInv' /\ ChainInv'
    BY DEF IInv, MetInv, Active, ChainInv, Snap, Snapshot
  <1>6. ClearedInv'
    <2> SUFFICES ASSUME NEW p \in Operations PROVE Clears(p)'
      BY DEF ClearedInv
    <2>1. Clears(p)
      BY DEF IInv, ClearedInv
    <2>2. Excuse(p) => Excuse(p)'
      BY DEF Excuse, Anchored
    <2> QED
      BY <2>1, <2>2, ClearsSame DEF Same
  <1>7. HoldsInv'
    BY DEF IInv, HoldsInv
  <1>8. AwareInv'
    <2> SUFFICES ASSUME NEW p \in Operations PROVE Aware(p)'
      BY DEF AwareInv
    <2>1. Aware(p)
      BY DEF IInv, AwareInv
    <2>2. Missed(p) => Missed(p)'
      BY DEF Missed, Anchored
    <2> QED
      BY <2>1, <2>2, AwareSame DEF Same
  <1> QED
    BY <1>1, <1>2, <1>3, <1>4, <1>5, <1>6, <1>7, <1>8 DEF IInv

\* The database ends only operations that are under way.
LEMMA EndDeadlockKeeps ==
    ASSUME NEW p \in Operations, IInv, EndDeadlock(p)
    PROVE  IInv'
  <1>1. Others(p) /\ TypeInv'
    BY OwnSteps DEF IInv, Step
  <1>2. todo[p] # <<>>
    BY DEF EndDeadlock, Deadlocked, Active
  <1>3. Fail(p) /\ UNCHANGED <<last, merged, met>>
    BY DEF EndDeadlock, history
  <1> QED
    BY <1>1, <1>2, <1>3, FailKeeps

LEMMA StatementFailsKeeps ==
    ASSUME NEW p \in Operations, IInv, StatementFails(p)
    PROVE  IInv'
  <1>1. Others(p) /\ TypeInv'
    BY OwnSteps DEF IInv
  <1>2. todo[p] # <<>> /\ Fail(p) /\ UNCHANGED <<last, merged, met>>
    BY DEF StatementFails, Active
  <1> QED
    BY <1>1, <1>2, FailKeeps

LEMMA Invariant == Spec => []IInv
  <1>1. ASSUME IInv, [Next]_vars PROVE IInv'
    <2>1. CASE UNCHANGED vars
      BY <1>1, <2>1, StutterKeeps
    <2>2. ASSUME NEW p \in Operations, Start(p) \/ Step(p) \/ Wait(p) \/ StatementFails(p)
          PROVE  IInv'
      <3>1. CASE Start(p)
        BY <1>1, <3>1, StartKeeps
      <3>2. CASE ReadTable(p)
        BY <1>1, <3>2, ReadTableKeeps
      <3>3. CASE DeleteRows(p)
        BY <1>1, <3>3, DeleteRowsKeeps
      <3>4. CASE CheckReferences(p)
        BY <1>1, <3>4, CheckReferencesKeeps
      <3>5. CASE InsertRow(p)
        BY <1>1, <3>5, InsertRowKeeps
      <3>6. CASE CommitTx(p)
        BY <1>1, <3>6, CommitTxKeeps
      <3>7. CASE EndDeadlock(p)
        BY <1>1, <3>7, EndDeadlockKeeps
      <3>8. CASE Wait(p)
        BY <1>1, <3>8, WaitKeeps
      <3>9. CASE StatementFails(p)
        BY <1>1, <3>9, StatementFailsKeeps
      <3> QED
        BY <2>2, <3>1, <3>2, <3>3, <3>4, <3>5, <3>6, <3>7, <3>8, <3>9 DEF Step
    <2> QED
      BY <1>1, <2>1, <2>2 DEF Next
  <1> QED
    BY InitKeeps, <1>1, PTL DEF Spec

--------------------------------------------------------------------------------
(***************************************************************************)
(* What the store promises.                                                *)
(***************************************************************************)
\* The canvas is what the save committed last has sent, whole, whatever saves, deletes,
\* admissions and copies run beside it and whatever fails (SaveCanvas, repository.go:188),
\* unless it met another operation and one of the two found no edge to delete, or found them
\* gone when its turn came, or the first sent an edge that joins only steps of another
\* workflow; other workflows keep what they had.
THEOREM SavesDoNotMix == Spec => []OneSavesCanvas
  <1>1. IInv => OneSavesCanvas
    BY DEF IInv, HoldsInv, RowsInv, OneSavesCanvas
  <1> QED
    BY Invariant, <1>1, PTL

\* Whoever holds a row is under way: every path out of a transaction ends it.
LEMMA BlockersUnderWay ==
    ASSUME IInv, NEW p \in Operations
    PROVE  Blockers(p) \subseteq Active \ {p}
  <1>1. ASSUME NEW q \in Operations, todo[q] = <<>>
        PROVE  inserted[q] = {} /\ deleted[q] = {}
    <2>1. Tx(q)
      BY DEF IInv, TxInv
    <2>2. ~open[q]
      BY <1>1, <2>1 DEF Tx, Shape
    <2> QED
      BY <2>1, <2>2 DEF Tx
  <1>2. ASSUME NEW q \in Operations, inserted[q] = {}, deleted[q] = {}
        PROVE  q \notin Blockers(p)
    BY <1>2 DEF Blockers, Keys, RefersTo
  <1> QED
    BY <1>1, <1>2 DEF Blockers, Active

\* Operations each of which waits for one of them.
Stuck(C) == C # {} /\ \A p \in C : Blockers(p) \cap C # {}

\* When everybody waits, there is a smallest set of operations that wait for one another,
\* and nobody in it is waited for by nobody, or the others would do without it.
LEMMA SomeDeadlocked ==
    ASSUME IInv, Stuck(Active)
    PROVE  \E p \in Active : Deadlocked(p)
  <1> DEFINE T == {C \in SUBSET Active : Stuck(C)}
  <1>1. IsFiniteSet(Active)
    <2>1. Active \in SUBSET Operations
      BY DEF Active
    <2> QED
      BY <2>1, OperationsAssumption, FS_Subset
  <1>2. IsWellFoundedOn(StrictSubsetOrdering(Active), SUBSET Active)
    BY <1>1, FS_StrictSubsetOrderingWellFounded, FS_FiniteSubsetsOfFinite
  <1>3. Active \in T
    OBVIOUS
  <1>4. T \subseteq SUBSET Active /\ T # {}
    BY <1>3
  <1>5. PICK C \in T : \A D \in T : ~(<<D, C>> \in StrictSubsetOrdering(Active))
    <2> HIDE DEF T
    <2> QED
      BY <1>2, <1>4, WFMin
  <1>6. C \subseteq Active /\ C # {} /\ \A q \in C : Blockers(q) \cap C # {}
    BY DEF Stuck
  <1>7. ASSUME NEW q \in C PROVE \E r \in C : q \in Blockers(r)
    <2> SUFFICES ASSUME \A r \in C : q \notin Blockers(r) PROVE FALSE
      OBVIOUS
    <2> DEFINE D == C \ {q}
    <2>1. q \notin Blockers(q) /\ D # {}
      BY <1>6
    <2>2. \A r \in D : Blockers(r) \cap D # {}
      BY <1>6
    <2>3. D \in T
      BY <1>6, <2>1, <2>2 DEF Stuck
    <2>4. <<D, C>> \in StrictSubsetOrdering(Active)
      BY <1>6 DEF StrictSubsetOrdering
    <2> QED
      BY <1>5, <2>3, <2>4
  <1>8. PICK p \in C : TRUE
    BY <1>6
  <1>9. Deadlocked(p)
    BY <1>6, <1>7 DEF Deadlocked
  <1> QED
    BY <1>6, <1>9

\* Whatever number of operations is under way, one of them can go on, or waits for itself
\* and is ended: nobody waits for an operation that is over (repository.go:131).
THEOREM NobodyWaitsForever == Spec => []SomebodyGoesOn
  <1>1. ASSUME IInv PROVE SomebodyGoesOn
    <2> SUFFICES ASSUME Active # {}, \A p \in Active : Blockers(p) # {}
                 PROVE  \E p \in Active : Deadlocked(p)
      BY DEF SomebodyGoesOn
    <2>1. \A p \in Active : Blockers(p) \cap Active # {}
      BY <1>1, BlockersUnderWay DEF Active
    <2> QED
      BY <1>1, <2>1, SomeDeadlocked DEF Stuck
  <1> QED
    BY Invariant, <1>1, PTL

--------------------------------------------------------------------------------
(***************************************************************************)
(* What operations read and add: a second invariant.                       *)
(***************************************************************************)
\* Every row is one of those the operations add, and belongs to the workflow that who
\* added it is about.
Formed(r) ==
    \/ r = WorkflowRow(r.wf, r.wf)
    \/ r.tab = "step" /\ r = StepRow(r.wf, r.has, r.by)
    \/ r.tab = "edge" /\ r = EdgeRow(r.wf, r.has, r.by)
    \/ r.tab = "note" /\ r = NoteRow(r.wf, r.has, r.by)
    \/ r = ExecutionRow(r.wf, r.by)
    \/ r.tab = "record" /\ r = RecordRow(r.wf, r.has, r.by)
    \/ r = NotificationRow(r.wf, r.by)

Owned(r) ==
    IF r.by \in Operations THEN r.wf = Target(kind[r.by], r.by)
                           ELSE r.by = r.wf /\ r.by \in {w, other}

FormInv ==
    /\ \A r \in committed : Formed(r) /\ Owned(r)
    /\ \A p \in Operations : \A r \in inserted[p] \cup ToInsert(todo[p]) : Formed(r)

Waiting(p) == todo[p] = <<>> /\ result[p] = "none"
Reading(p) == Has(todo[p], "read")

\* Before it has read what it needs, an operation has added nothing.
Unknown(p) == Waiting(p) \/ Reading(p) => \A r \in committed : r.by # p

\* Only an operation that has met another reads what is stale.
Fresh(p) == stale[p] => met[p] # {} /\ ~Waiting(p)

\* What an operation has read of the workflow is what is committed, table by table, until
\* a save or delete is committed; the tables still to be read it has not read.
Part(R, tab) == {r \in R : r.tab = tab /\ r.wf = w}
ReadTabs(k) ==
    IF k = "execute" THEN {"workflow", "step", "edge"} ELSE {"workflow", "step", "edge", "note"}
ReadsOf(t, tab) == \E i \in 1 .. Len(t) : t[i] = Read(tab)

\* Every table is read once.
ReadsOnce(t) ==
    \A i \in 1 .. Len(t) : t[i].do = "read" =>
       t[i] = Read(t[i].tab) /\ \A j \in i + 1 .. Len(t) : t[j] # t[i]

ReadInv(p) ==
    /\ Waiting(p) => loaded[p] = {}
    /\ ReadsOnce(todo[p])
    /\ todo[p] # <<>> /\ kind[p] \in {"execute", "clone"} =>
          \A tab \in ReadTabs(kind[p]) :
             IF ReadsOf(todo[p], tab) THEN Part(loaded[p], tab) = {}
             ELSE stale[p] \/ Part(loaded[p], tab) = Part(committed, tab)

\* A workflow is its own version.
LEMMA FormedRow ==
    ASSUME NEW r, Formed(r), r.tab = "workflow"
    PROVE  r = WorkflowRow(r.wf, r.wf) /\ r.by = r.wf
  <1>1. r = WorkflowRow(r.wf, r.wf)
    BY DEF Formed, ExecutionRow, NotificationRow, Row
  <1> QED
    BY <1>1 DEF WorkflowRow, Row

\* A list that is not empty is its first statement before the others.
LEMMA FirstBefore ==
    ASSUME NEW t, IsSeq(t), t # <<>>
    PROVE  IsSeq(Tail(t)) /\ Before(t, Head(t), Tail(t)) /\ Head(t) = t[1] /\ 1 \in 1 .. Len(t)
  <1>1. /\ Len(t) \in Nat /\ Len(t) >= 1 /\ Head(t) = t[1] /\ IsSeq(Tail(t))
        /\ Len(Tail(t)) = Len(t) - 1
        /\ \A i \in 1 .. Len(t) - 1 : Tail(t)[i] = t[i + 1]
    BY SeqParts
  <1> QED
    BY <1>1 DEF Before

\* The statements of an admission by their places.
LEMMA AdmitList ==
    ASSUME NEW rows, IsFiniteSet(rows), NEW op
    PROVE  LET t == Admit(rows, op)
               steps == SetToSeq(Names(rows, "step", w))
               n == Len(steps)
           IN  /\ IsSeq(t) /\ Len(t) = (1 + n) + 1 /\ n \in Nat
               /\ t[1] = Insert(ExecutionRow(w, op))
               /\ \A i \in 1 .. n : t[1 + i] = Insert(RecordRow(w, steps[i], op))
               /\ t[(1 + n) + 1] = Insert(NotificationRow(w, op))
               /\ ToSet(steps) = Names(rows, "step", w)
               /\ \A i \in 1 .. n, j \in 1 .. n : steps[i] = steps[j] => i = j
  <1> DEFINE steps == SetToSeq(Names(rows, "step", w))
             n == Len(steps)
             R == InsertAll([i \in DOMAIN steps |-> RecordRow(w, steps[i], op)])
             f == <<Insert(ExecutionRow(w, op))>>
             e == <<Insert(NotificationRow(w, op))>>
             t == Admit(rows, op)
  <1>1. IsSeq(steps) /\ ToSet(steps) = Names(rows, "step", w) /\ IsInjective(steps)
    BY NamesFinite, SeqOfSet
  <1>2. t = (f \o R) \o e
    BY DEF Admit
  <1> HIDE DEF steps
  <1>3. n \in Nat /\ DOMAIN steps = 1 .. n
    BY <1>1, SeqParts
  <1> HIDE DEF n
  <1>4. IsSeq(R) /\ Len(R) = n /\ \A i \in 1 .. n : R[i] = Insert(RecordRow(w, steps[i], op))
    <2>1. R = [i \in 1 .. n |-> R[i]] /\ \A i \in 1 .. n : R[i] = Insert(RecordRow(w, steps[i], op))
      BY <1>3 DEF InsertAll
    <2> HIDE DEF R
    <2> QED
      BY <1>3, <2>1, SeqOfPlaces
  <1>5. /\ IsSeq(f) /\ Len(f) = 1 /\ f[1] = Insert(ExecutionRow(w, op))
        /\ IsSeq(e) /\ Len(e) = 1 /\ e[1] = Insert(NotificationRow(w, op))
    BY SeqOne
  <1> HIDE DEF R, f, e, t
  <1>6. ASSUME NEW x, NEW y, IsSeq(x), IsSeq(y)
        PROVE  /\ IsSeq(x \o y) /\ Len(x \o y) = Len(x) + Len(y)
               /\ \A i \in 1 .. Len(x) : (x \o y)[i] = x[i]
               /\ \A i \in 1 .. Len(y) : (x \o y)[Len(x) + i] = y[i]
    BY <1>6, SeqConcat
  <1> DEFINE fR == f \o R
  <1>7. /\ IsSeq(fR) /\ Len(fR) = 1 + n
        /\ \A i \in 1 .. 1 : fR[i] = f[i]
        /\ \A i \in 1 .. n : fR[1 + i] = R[i]
    <2>1. IsSeq(f) /\ IsSeq(R)
      BY <1>4, <1>5
    <2>2. /\ IsSeq(f \o R) /\ Len(f \o R) = Len(f) + Len(R)
          /\ \A i \in 1 .. Len(f) : (f \o R)[i] = f[i]
          /\ \A i \in 1 .. Len(R) : (f \o R)[Len(f) + i] = R[i]
      BY <2>1, <1>6
    <2> QED
      BY <1>4, <1>5, <2>2
  <1> HIDE DEF fR
  <1>8. t = fR \o e
    BY <1>2 DEF fR
  <1>9. /\ IsSeq(t) /\ Len(t) = (1 + n) + 1
        /\ \A i \in 1 .. 1 + n : t[i] = fR[i]
        /\ \A i \in 1 .. 1 : t[(1 + n) + i] = e[i]
    <2>1. IsSeq(fR) /\ IsSeq(e)
      BY <1>5, <1>7
    <2>2. /\ IsSeq(fR \o e) /\ Len(fR \o e) = Len(fR) + Len(e)
          /\ \A i \in 1 .. Len(fR) : (fR \o e)[i] = fR[i]
          /\ \A i \in 1 .. Len(e) : (fR \o e)[Len(fR) + i] = e[i]
      BY <2>1, <1>6
    <2> QED
      BY <1>5, <1>7, <1>8, <2>2
  <1>10. 1 \in 1 .. 1 /\ 1 \in 1 .. 1 + n /\ \A i \in 1 .. n : 1 + i \in 1 .. 1 + n
    BY <1>3
  <1>11. t[1] = Insert(ExecutionRow(w, op)) /\ t[(1 + n) + 1] = Insert(NotificationRow(w, op))
    BY <1>5, <1>7, <1>9, <1>10
  <1>12. \A i \in 1 .. n : t[1 + i] = Insert(RecordRow(w, steps[i], op))
    BY <1>4, <1>7, <1>9, <1>10
  <1>13. \A i \in 1 .. n, j \in 1 .. n : steps[i] = steps[j] => i = j
    BY <1>1, <1>3 DEF IsInjective
  <1> QED
    BY <1>1, <1>3, <1>9, <1>11, <1>12, <1>13 DEF t, n, steps

\* The statements of a deletion by their places.
DeletedTabs == <<"notification", "record", "execution", "edge", "step", "note", "workflow">>

LEMMA DeleteList ==
    LET t == DeleteWorkflow
    IN  /\ IsSeq(t) /\ Len(t) = 8 /\ t[8] = Commit
        /\ \A i \in 1 .. 7 : t[i] = DeleteFrom(DeletedTabs[i], w)
  <1> DEFINE d == DeleteAll(DeletedTabs, w)
             e == <<Commit>>
             t == DeleteWorkflow
  <1>1. d = [i \in 1 .. 7 |-> d[i]] /\ \A i \in 1 .. 7 : d[i] = DeleteFrom(DeletedTabs[i], w)
    BY DEF DeleteAll, DeletedTabs
  <1>2. IsSeq(e) /\ Len(e) = 1 /\ e[1] = Commit
    BY SeqOne
  <1>3. t = d \o e
    BY DEF DeleteWorkflow, DeletedTabs
  <1> HIDE DEF d, e, t
  <1>4. IsSeq(d) /\ Len(d) = 7
    BY <1>1, SeqOfPlaces
  <1>5. /\ IsSeq(d \o e) /\ Len(d \o e) = Len(d) + Len(e)
        /\ \A i \in 1 .. Len(d) : (d \o e)[i] = d[i]
        /\ \A i \in 1 .. Len(e) : (d \o e)[Len(d) + i] = e[i]
    <2>1. IsSeq(d) /\ IsSeq(e)
      BY <1>2, <1>4
    <2> QED
      BY <2>1, SeqConcat
  <1>6. 1 \in 1 .. 1 /\ 7 + 1 = 8
    OBVIOUS
  <1> QED
    BY <1>1, <1>2, <1>3, <1>4, <1>5, <1>6 DEF t

Moves(p) == Start(p) \/ Step(p) \/ Wait(p) \/ StatementFails(p)

\* Neither the beginning of an operation nor a step that reads.
Proceeds(p) ==
    \/ DeleteRows(p) \/ CheckReferences(p) \/ InsertRow(p) \/ CommitTx(p) \/ EndDeadlock(p)
    \/ Wait(p) \/ StatementFails(p)

\* Reads come first and alone.
LEMMA NotReading ==
    ASSUME NEW t, NEW k, NEW p, NEW o \in BOOLEAN, Shape(t, k, p, o), t # <<>>,
           o \/ Head(t).do # "read"
    PROVE  ~Has(t, "read") /\ ~Has(Tail(t), "read")
  <1>1. IsSeq(t) /\ Head(t) = t[1] /\ 1 \in 1 .. Len(t) /\ Before(t, Head(t), Tail(t))
    BY HeadShape
  <1>2. ~Has(t, "read")
    BY <1>1 DEF Shape, Has
  <1>3. IsSeq(Tail(t))
    BY <1>1, SeqParts
  <1> QED
    BY <1>1, <1>2, <1>3, BeforeSees

\* An operation that goes on adds what it was to add, and has less to do.
LEMMA Proceeding ==
    ASSUME NEW p \in Operations, IInv, Proceeds(p)
    PROVE  /\ todo[p] # <<>> /\ Others(p) /\ UNCHANGED <<kind, loaded, asked, met>>
           /\ ToInsert(todo'[p]) \subseteq ToInsert(todo[p])
           /\ inserted'[p] \subseteq inserted[p] \cup ToInsert(todo[p])
           /\ todo'[p] # <<>> \/ result'[p] # "none"
           /\ ~Has(todo'[p], "read")
           /\ stale'[p] <=> stale[p]
           /\ result'[p] = result[p] \/ todo'[p] = <<>>
  <1>1. Others(p) /\ TypeInv' /\ TypeInv
    BY OwnSteps DEF IInv, Step, Proceeds
  <1>2. todo[p] # <<>>
    BY DEF Proceeds, DeleteRows, CheckReferences, InsertRow, CommitTx, EndDeadlock, Deadlocked,
           Wait, StatementFails, Active
  <1>3. /\ Shape(todo[p], kind[p], p, open[p]) /\ open[p] \in BOOLEAN /\ result[p] = "none"
        /\ IsSeq(todo[p]) /\ IsSeq(Tail(todo[p])) /\ Statement(p) = todo[p][1]
        /\ Before(todo[p], Statement(p), Tail(todo[p])) /\ Statement(p) = Head(todo[p])
    BY <1>2, UnderWay DEF Statement
  <1>4. UNCHANGED <<kind, loaded, asked, met>>
    BY DEF Proceeds, DeleteRows, CheckReferences, InsertRow, CommitTx, EndDeadlock, Wait,
           StatementFails, Fail, history
  <1>5. stale' = stale \/ CommitTx(p)
    BY DEF Proceeds, DeleteRows, CheckReferences, InsertRow, EndDeadlock, Wait,
           StatementFails, history
  <1>6. ~Has(<<>>, "read") /\ ToInsert(<<>>) = {}
    BY NothingSeen
  <1> DEFINE Goal == /\ ToInsert(todo'[p]) \subseteq ToInsert(todo[p])
                     /\ inserted'[p] \subseteq inserted[p] \cup ToInsert(todo[p])
                     /\ todo'[p] # <<>> \/ result'[p] # "none"
                     /\ ~Has(todo'[p], "read")
                     /\ stale'[p] <=> stale[p]
                     /\ result'[p] = result[p] \/ todo'[p] = <<>>
  <1>7. ASSUME Fail(p), stale' = stale PROVE Goal
    <2>1. Ended(p)
      BY <1>1, <1>7, FailEnds
    <2> QED
      BY <1>6, <1>7, <2>1 DEF Ended
  <1>8. ASSUME EndDeadlock(p) \/ StatementFails(p) PROVE Goal
    BY <1>7, <1>8 DEF EndDeadlock, StatementFails, history
  <1>9. ASSUME Wait(p) PROVE Goal
    <2>1. todo' = todo /\ inserted' = inserted /\ result' = result /\ stale' = stale
      BY <1>9 DEF Wait, history
    <2>2. Statement(p).do = "delete"
      BY <1>9 DEF Wait
    <2>3. ~Has(todo[p], "read")
      BY <1>2, <1>3, <2>2, NotReading
    <2> QED
      BY <1>2, <2>1, <2>3
  <1>10. ASSUME DeleteRows(p) PROVE Goal
    <2>1. CASE Fail(p)
      BY <1>7, <1>10, <2>1 DEF DeleteRows
    <2>2. CASE ~Fail(p)
      <3> DEFINE keys == Keys(Found(p))
                 more == IF \E r \in Visible(p) : RefersTo(r, keys) THEN <<CheckOf(keys)>>
                                                                    ELSE <<>>
      <3>1. /\ Statement(p).do = "delete" /\ Advance(p, more)
            /\ inserted' = [inserted EXCEPT ![p] = @ \ Found(p)]
            /\ result' = result /\ stale' = stale
        BY <1>10, <2>2 DEF DeleteRows, CheckOf
      <3>2. /\ todo'[p] # <<>> /\ Shape(todo'[p], kind[p], p, TRUE)
            /\ ToInsert(todo'[p]) = ToInsert(todo[p])
        <4>1. Advance(p, more) /\ more \in {<<>>, <<CheckOf(keys)>>}
          BY <3>1
        <4> HIDE DEF more, keys
        <4> QED
          BY <1>2, <3>1, <4>1, AfterDelete
      <3>3. ~Has(todo'[p], "read")
        BY <3>2, NotReading
      <3>4. inserted'[p] \subseteq inserted[p]
        BY <1>1, <3>1 DEF TypeInv
      <3> QED
        BY <3>1, <3>2, <3>3, <3>4
    <2> QED
      BY <2>1, <2>2
  <1>11. ASSUME CheckReferences(p) PROVE Goal
    <2>1. CASE Fail(p)
      BY <1>7, <1>11, <2>1 DEF CheckReferences, history
    <2>2. CASE ~Fail(p)
      <3>1. /\ Statement(p).do = "check" /\ Advance(p, <<>>)
            /\ inserted' = inserted /\ result' = result /\ stale' = stale
        BY <1>11, <2>2 DEF CheckReferences, txVars, history
      <3>2. todo'[p] # <<>> /\ ToInsert(todo'[p]) = ToInsert(todo[p]) /\ todo'[p] = Tail(todo[p])
        <4>1. Len(todo[p]) > 1
          BY <1>2, <1>3, <3>1, HeadShape
        <4> QED
          BY <1>2, <3>1, <4>1, NextStatement
      <3>3. ~Has(todo'[p], "read")
        BY <1>2, <1>3, <3>1, <3>2, NotReading
      <3> QED
        BY <3>1, <3>2, <3>3
    <2> QED
      BY <2>1, <2>2
  <1>12. ASSUME InsertRow(p) PROVE Goal
    <2>1. CASE Fail(p)
      BY <1>7, <1>12, <2>1 DEF InsertRow, history
    <2>2. CASE ~Fail(p)
      <3> DEFINE row == Statement(p).row
      <3>1. /\ Statement(p).do = "insert" /\ stale' = stale
            /\ inserted' = inserted \/ inserted' = [inserted EXCEPT ![p] = @ \cup {row}]
            /\ \/ Len(todo[p]) = 1 /\ Answer(p, "ok")
               \/ Len(todo[p]) # 1 /\ Advance(p, <<>>) /\ UNCHANGED result
        BY <1>12, <2>2 DEF InsertRow, history
      <3>2. row \in ToInsert(todo[p])
        <4>1. ToInsert(todo[p]) = {row} \cup ToInsert(Tail(todo[p]))
          BY <1>3, <3>1, BeforeSees
        <4> QED
          BY <4>1
      <3>3. inserted'[p] \subseteq inserted[p] \cup ToInsert(todo[p])
        BY <1>1, <3>1, <3>2 DEF TypeInv
      <3>4. CASE Answer(p, "ok")
        <4>1. todo'[p] = <<>> /\ result'[p] = "ok"
          BY <1>1, <3>4 DEF Answer, TypeInv
        <4> QED
          BY <1>6, <3>1, <3>3, <4>1
      <3>5. CASE Len(todo[p]) # 1 /\ Advance(p, <<>>) /\ UNCHANGED result
        <4>1. Len(todo[p]) \in Nat /\ Len(todo[p]) >= 1
          BY <1>2, <1>3, SeqParts
        <4>2. Len(todo[p]) > 1
          <5>1. \A n \in Nat : n >= 1 /\ n # 1 => n > 1
            OBVIOUS
          <5> QED
            BY <3>5, <4>1, <5>1
        <4>3. /\ todo'[p] = Tail(todo[p]) /\ todo'[p] # <<>>
              /\ ToInsert(todo[p]) = {row} \cup ToInsert(todo'[p])
          BY <1>2, <3>1, <3>5, <4>2, NextStatement
        <4>4. ~Has(todo'[p], "read")
          BY <1>2, <1>3, <3>1, <4>3, NotReading
        <4> QED
          BY <3>1, <3>3, <3>5, <4>3, <4>4
      <3> QED
        BY <3>1, <3>4, <3>5
    <2> QED
      BY <2>1, <2>2
  <1>13. ASSUME CommitTx(p) PROVE Goal
    <2>1. todo'[p] = <<>> /\ inserted'[p] = {} /\ result'[p] # "none"
      BY <1>1, <1>13 DEF CommitTx, Close, Answer, TypeInv
    <2>2. stale'[p] = (stale[p] \/ (p \in Active \ {p} /\ kind[p] # "clone"))
      BY <1>13 DEF CommitTx
    <2>3. stale'[p] <=> stale[p]
      <3>1. p \notin Active \ {p}
        OBVIOUS
      <3> QED
        BY <2>2, <3>1, Zenon
    <2> QED
      BY <1>6, <2>1, <2>3
  <1> HIDE DEF Goal
  <1>14. Goal
    BY <1>8, <1>9, <1>10, <1>11, <1>12, <1>13 DEF Proceeds
  <1> QED
    BY <1>1, <1>2, <1>4, <1>14 DEF Goal

\* What is added is what an operation was to add.
LEMMA Added ==
    ASSUME NEW p \in Operations, IInv, Moves(p), NEW r \in committed', r \notin committed
    PROVE  /\ todo[p] # <<>> /\ OwnRow(r, kind[p], p)
           /\ r \in inserted[p] \cup ToInsert(todo[p])
           /\ \/ CommitTx(p) /\ r \in inserted[p]
              \/ /\ InsertRow(p) /\ ~open[p] /\ r = Statement(p).row /\ r.tab \notin CanvasTabs
                 /\ Statement(p).do = "insert"
  <1>1. CommitTx(p) \/ InsertRow(p)
    BY DEF Moves, Step, Start, ReadTable, DeleteRows, CheckReferences, EndDeadlock, Wait,
           StatementFails, Fail
  <1>2. todo[p] # <<>>
    BY <1>1 DEF CommitTx, InsertRow, Active
  <1>3. Tx(p) /\ IsSeq(Tail(todo[p])) /\ Before(todo[p], Statement(p), Tail(todo[p]))
    BY <1>2, UnderWay
  <1>4. CASE CommitTx(p)
    <2>1. r \in inserted[p]
      BY <1>4 DEF CommitTx
    <2> QED
      BY <1>2, <1>3, <1>4, <2>1 DEF Tx
  <1>5. CASE InsertRow(p)
    <2>1. Statement(p).do = "insert" /\ ~open[p] /\ r = Statement(p).row
      BY <1>5 DEF InsertRow, Fail
    <2>2. OwnRow(r, kind[p], p) /\ r.tab \notin CanvasTabs
      BY <1>2, <2>1, Inserting
    <2>3. ToInsert(todo[p]) = {r} \cup ToInsert(Tail(todo[p]))
      BY <1>3, <2>1, BeforeSees
    <2> QED
      BY <1>2, <1>5, <2>1, <2>2, <2>3
  <1> QED
    BY <1>1, <1>4, <1>5

\* Only a transaction takes rows away, of the workflow its operation is about.
LEMMA Removed ==
    ASSUME NEW p \in Operations, IInv, Moves(p), NEW r \in committed, r \notin committed'
    PROVE  CommitTx(p) /\ r.wf = Target(kind[p], p)
  <1>1. CommitTx(p)
    BY DEF Moves, Step, Start, ReadTable, DeleteRows, CheckReferences, InsertRow, EndDeadlock,
           Wait, StatementFails, Fail
  <1>2. r \in deleted[p]
    BY <1>1 DEF CommitTx
  <1> QED
    BY <1>1, <1>2 DEF IInv, TxInv, Tx

--------------------------------------------------------------------------------
(***************************************************************************)
(* The rows are formed and owned.                                          *)
(***************************************************************************)
\* The rows of a canvas are formed.
LEMMA CanvasFormed ==
    ASSUME NEW wf, NEW canvas, NEW op, NEW r \in CanvasRows(wf, canvas, op)
    PROVE  Formed(r)
  <1>1. ASSUME NEW s, r = StepRow(wf, s, op) PROVE Formed(r)
    <2>1. r.tab = "step" /\ r.wf = wf /\ r.has = s /\ r.by = op
      BY <1>1 DEF StepRow, Row
    <2> QED
      BY <1>1, <2>1 DEF Formed
  <1>2. ASSUME NEW e, r = EdgeRow(wf, e, op) PROVE Formed(r)
    <2>1. r.tab = "edge" /\ r.wf = wf /\ r.has = e /\ r.by = op
      BY <1>2 DEF EdgeRow, Row
    <2> QED
      BY <1>2, <2>1 DEF Formed
  <1>3. ASSUME NEW n, r = NoteRow(wf, n, op) PROVE Formed(r)
    <2>1. r.tab = "note" /\ r.wf = wf /\ r.has = n /\ r.by = op
      BY <1>3 DEF NoteRow, Row
    <2> QED
      BY <1>3, <2>1 DEF Formed
  <1> QED
    BY <1>1, <1>2, <1>3 DEF CanvasRows

\* What an admission adds: the execution, a record of each step that was read, and the
\* notification at the end.
LEMMA AdmitRows ==
    ASSUME NEW rows, IsFiniteSet(rows), NEW op
    PROVE  LET t == Admit(rows, op)
           IN  /\ IsSeq(t) /\ ~Has(t, "read") /\ t # <<>>
               /\ \A r \in ToInsert(t) : /\ Formed(r) /\ r.wf = w /\ r.by = op
                                         /\ r.tab \in {"execution", "record", "notification"}
               /\ \A s \in Names(rows, "step", w) : RecordRow(w, s, op) \in ToInsert(t)
               /\ \A i \in 1 .. Len(t) : t[i].do = "insert" /\ (Notifies(t[i]) => i = Len(t))
  <1> DEFINE t == Admit(rows, op)
             steps == SetToSeq(Names(rows, "step", w))
             n == Len(steps)
  <1>1. /\ IsSeq(t) /\ Len(t) = (1 + n) + 1 /\ n \in Nat
        /\ t[1] = Insert(ExecutionRow(w, op))
        /\ \A i \in 1 .. n : t[1 + i] = Insert(RecordRow(w, steps[i], op))
        /\ t[(1 + n) + 1] = Insert(NotificationRow(w, op))
        /\ ToSet(steps) = Names(rows, "step", w)
    BY AdmitList
  <1>2. IsSeq(steps) /\ DOMAIN steps = 1 .. n
    BY NamesFinite, SeqOfSet, SeqParts
  <1> HIDE DEF t, steps, n
  <1>3. \A i \in 1 .. Len(t) : i = 1 \/ (\E x \in 1 .. n : i = 1 + x) \/ i = Len(t)
    <2> TAKE i \in 1 .. Len(t)
    <2>1. i # 1 /\ i # Len(t) => i - 1 \in 1 .. n /\ i = 1 + (i - 1)
      BY <1>1
    <2> QED
      BY <2>1
  <1>4. /\ 1 \in 1 .. Len(t) /\ Len(t) \in 1 .. Len(t)
        /\ \A x \in 1 .. n : 1 + x \in 1 .. Len(t)
    BY <1>1
  <1> DEFINE Fine(r) == /\ Formed(r) /\ r.wf = w /\ r.by = op
                        /\ r.tab \in {"execution", "record", "notification"}
  <1>5. t[1].do = "insert" /\ Fine(t[1].row) /\ t[1].row.tab # "notification"
    <2>1. t[1].do = "insert" /\ t[1].row = ExecutionRow(w, op)
      BY <1>1 DEF Insert
    <2>2. t[1].row.wf = w /\ t[1].row.by = op /\ t[1].row.tab = "execution"
      BY <2>1 DEF ExecutionRow, Row
    <2> QED
      BY <2>1, <2>2 DEF Formed
  <1>6. \A x \in 1 .. n : /\ t[1 + x].do = "insert" /\ Fine(t[1 + x].row)
                          /\ t[1 + x].row = RecordRow(w, steps[x], op)
                          /\ t[1 + x].row.tab # "notification"
    <2> TAKE x \in 1 .. n
    <2>1. t[1 + x].do = "insert" /\ t[1 + x].row = RecordRow(w, steps[x], op)
      <3>1. t[1 + x] = Insert(RecordRow(w, steps[x], op))
        BY <1>1
      <3> QED
        BY <3>1 DEF Insert
    <2> DEFINE r == t[1 + x].row
    <2>2. r.wf = w /\ r.by = op /\ r.tab = "record" /\ r.has = steps[x]
      BY <2>1 DEF RecordRow, Row
    <2>3. Formed(r)
      BY <2>1, <2>2 DEF Formed
    <2> QED
      BY <2>1, <2>2, <2>3
  <1>7. t[Len(t)].do = "insert" /\ Fine(t[Len(t)].row)
    <2>1. t[Len(t)].do = "insert" /\ t[Len(t)].row = NotificationRow(w, op)
      BY <1>1 DEF Insert
    <2>2. t[Len(t)].row.wf = w /\ t[Len(t)].row.by = op /\ t[Len(t)].row.tab = "notification"
      BY <2>1 DEF NotificationRow, Row
    <2> QED
      BY <2>1, <2>2 DEF Formed
  <1> HIDE DEF Fine
  <1>8. \A i \in 1 .. Len(t) : t[i].do = "insert" /\ Fine(t[i].row)
                               /\ (i # Len(t) => t[i].row.tab # "notification")
    BY <1>3, <1>5, <1>6, <1>7
  <1>9. \A r \in ToInsert(t) : Fine(r)
    BY <1>8 DEF ToInsert
  <1>10. ~Has(t, "read")
    BY <1>8 DEF Has
  <1>11. \A s \in Names(rows, "step", w) : RecordRow(w, s, op) \in ToInsert(t)
    <2> TAKE s \in Names(rows, "step", w)
    <2>1. PICK x \in 1 .. n : steps[x] = s
      BY <1>1, <1>2 DEF ToSet
    <2> QED
      BY <1>4, <1>6, <2>1 DEF ToInsert
  <1>12. \A i \in 1 .. Len(t) : t[i].do = "insert" /\ (Notifies(t[i]) => i = Len(t))
    BY <1>8 DEF Notifies
  <1>13. t # <<>>
    BY <1>1, <1>4, SeqParts
  <1> QED
    BY <1>1, <1>9, <1>10, <1>11, <1>12, <1>13 DEF t, Fine

\* What a copy adds: its workflow, and the names of the rows that were read.
LEMMA CopyRows ==
    ASSUME NEW rows, IsFiniteSet(rows), NEW op
    PROVE  LET t == Copy(rows, op)
           IN  /\ IsSeq(t) /\ ~Has(t, "read") /\ Has(t, "delete") /\ t # <<>>
               /\ \A r \in ToInsert(t) : /\ Formed(r) /\ r.by = op /\ r.wf = op
                                         /\ r.tab \in CanvasTabs \cup {"workflow"}
               /\ \A tab \in CanvasTabs : Names(ToInsert(t), tab, op) = Names(rows, tab, w)
  <1> DEFINE canvas == [steps |-> SetToSeq(Names(rows, "step", w)),
                        edges |-> SetToSeq(Names(rows, "edge", w)),
                        notes |-> SetToSeq(Names(rows, "note", w))]
             row == WorkflowRow(op, op)
             t == Save(op, canvas, op)
             u == <<Insert(row)>> \o t
             R == CanvasRows(op, canvas, op)
  <1>1. Copy(rows, op) = u
    BY DEF Copy
  <1>2. /\ IsCanvas(canvas) /\ ToSet(canvas.steps) = Names(rows, "step", w)
        /\ ToSet(canvas.edges) = Names(rows, "edge", w)
        /\ ToSet(canvas.notes) = Names(rows, "note", w)
    <2>1. ASSUME NEW tab
          PROVE  LET s == SetToSeq(Names(rows, tab, w))
                 IN  IsSeq(s) /\ ToSet(s) = Names(rows, tab, w)
      BY NamesFinite, SeqOfSet
    <2> QED
      BY <2>1 DEF IsCanvas
  <1> HIDE DEF canvas
  <1>3. row.tab = "workflow" /\ row.wf = op /\ row.by = op /\ Formed(row)
    BY DEF WorkflowRow, Row, Formed
  <1>4. /\ IsSeq(t) /\ ToInsert(t) = R /\ Has(t, "delete")
        /\ \A i \in 1 .. Len(t) : t[i].do # "read"
    <2>1. Target("clone", op) = op
      BY DEF Target
    <2>2. LET s == Save(Target("clone", op), canvas, op)
          IN  /\ Shape(s, "clone", op, FALSE) /\ Straight(s) /\ Has(s, "delete")
              /\ ToInsert(s) = CanvasRows(Target("clone", op), canvas, op)
      BY <1>2, SaveShape
    <2> QED
      BY <2>1, <2>2 DEF Shape, Straight
  <1>5. Insert(row).do = "insert" /\ Insert(row).row = row
    BY DEF Insert
  <1> HIDE DEF row, t
  <1>6. Before(u, Insert(row), t)
    BY <1>4, PrependPlaces
  <1> HIDE DEF u
  <1>7. /\ Has(u, "read") <=> Insert(row).do = "read" \/ Has(t, "read")
        /\ Has(u, "delete") <=> Insert(row).do = "delete" \/ Has(t, "delete")
        /\ ToInsert(u) = (IF Insert(row).do = "insert" THEN {Insert(row).row} ELSE {}) \cup ToInsert(t)
    BY <1>4, <1>6, BeforeSees
  <1>8. ~Has(t, "read")
    BY <1>4 DEF Has
  <1>9. ~Has(u, "read") /\ Has(u, "delete") /\ ToInsert(u) = {row} \cup R
    BY <1>4, <1>5, <1>7, <1>8
  <1>10. \A r \in R : Formed(r) /\ r.by = op /\ r.wf = op /\ r.tab \in CanvasTabs
    BY CanvasFormed, CanvasRowsOwn
  <1>11. ASSUME NEW tab \in CanvasTabs PROVE Names({row} \cup R, tab, op) = Names(R, tab, op)
    <2>1. row.tab # tab
      BY <1>3, <1>11 DEF CanvasTabs
    <2> QED
      BY <2>1 DEF Names
  <1>12. /\ Names(R, "step", op) = ToSet(canvas.steps)
         /\ Names(R, "edge", op) = ToSet(canvas.edges)
         /\ Names(R, "note", op) = ToSet(canvas.notes)
    <2>1. \A s : /\ StepRow(op, s, op).tab = "step" /\ StepRow(op, s, op).has = s
                 /\ StepRow(op, s, op).wf = op
      BY DEF StepRow, Row
    <2>2. \A s : /\ EdgeRow(op, s, op).tab = "edge" /\ EdgeRow(op, s, op).has = s
                 /\ EdgeRow(op, s, op).wf = op
      BY DEF EdgeRow, Row
    <2>3. \A s : /\ NoteRow(op, s, op).tab = "note" /\ NoteRow(op, s, op).has = s
                 /\ NoteRow(op, s, op).wf = op
      BY DEF NoteRow, Row
    <2>4. \A r : r \in R <=> \/ \E s \in ToSet(canvas.steps) : r = StepRow(op, s, op)
                             \/ \E s \in ToSet(canvas.edges) : r = EdgeRow(op, s, op)
                             \/ \E s \in ToSet(canvas.notes) : r = NoteRow(op, s, op)
      BY DEF CanvasRows
    <2> HIDE DEF R
    <2>5. Names(R, "step", op) = ToSet(canvas.steps)
      BY <2>1, <2>2, <2>3, <2>4 DEF Names
    <2>6. Names(R, "edge", op) = ToSet(canvas.edges)
      BY <2>1, <2>2, <2>3, <2>4 DEF Names
    <2>7. Names(R, "note", op) = ToSet(canvas.notes)
      BY <2>1, <2>2, <2>3, <2>4 DEF Names
    <2> QED
      BY <2>5, <2>6, <2>7
  <1> HIDE DEF R
  <1>13. \A tab \in CanvasTabs : Names(ToInsert(u), tab, op) = Names(rows, tab, w)
    BY <1>2, <1>9, <1>11, <1>12 DEF CanvasTabs
  <1>14. IsSeq(u) /\ u # <<>>
    <2>1. IsSeq(u) /\ Len(u) = Len(t) + 1 /\ Len(t) \in Nat
      BY <1>4, <1>6, SeqParts DEF Before
    <2> QED
      BY <2>1, SeqParts
  <1> QED
    BY <1>1, <1>3, <1>9, <1>10, <1>13, <1>14

\* An operation reads each table once, and these.
LEMMA ReadsList ==
    ASSUME NEW k \in {"execute", "clone"}
    PROVE  LET t == Reads(k)
           IN  /\ IsSeq(t) /\ ReadsOnce(t) /\ ToInsert(t) = {} /\ t # <<>>
               /\ \A i \in 1 .. Len(t) : t[i].do = "read"
               /\ \A tab \in ReadTabs(k) : ReadsOf(t, tab)
  <1> DEFINE t == Reads(k)
             n == IF k = "execute" THEN 3 ELSE 4
             tabs == <<"workflow", "step", "edge", "note">>
  <1>1. t = [i \in 1 .. n |-> t[i]] /\ \A i \in 1 .. n : t[i] = Read(tabs[i])
    <2>1. CASE k = "execute"
      BY <2>1 DEF Reads, Read
    <2>2. CASE k = "clone"
      BY <2>2 DEF Reads, Read
    <2> QED
      BY <2>1, <2>2
  <1> HIDE DEF t
  <1>2. n \in {3, 4} /\ (k = "execute" => n = 3) /\ (k # "execute" => n = 4)
    OBVIOUS
  <1> HIDE DEF n
  <1>3. IsSeq(t) /\ Len(t) = n
    BY <1>1, <1>2, SeqOfPlaces
  <1>4. \A x, y : Read(x).do = "read" /\ Read(x).tab = x /\ (Read(x) = Read(y) => x = y)
    BY DEF Read
  <1>5. \A i \in 1 .. n : t[i].do = "read"
    BY <1>1, <1>4
  <1>6. ReadsOnce(t)
    <2>1. \A i \in 1 .. 4, j \in 1 .. 4 : tabs[i] = tabs[j] => i = j
      <3>1. \A i \in 1 .. 4 : i = 1 \/ i = 2 \/ i = 3 \/ i = 4
        OBVIOUS
      <3> QED
        BY <3>1
    <2> HIDE DEF tabs
    <2>2. ASSUME NEW i \in 1 .. n, NEW j \in i + 1 .. n PROVE t[j] # t[i]
      <3>1. i \in 1 .. 4 /\ j \in 1 .. 4 /\ j \in 1 .. n /\ i # j
        BY <1>2
      <3> QED
        BY <1>1, <1>4, <2>1, <3>1
    <2>3. \A i \in 1 .. n : t[i] = Read(t[i].tab)
      BY <1>1, <1>4
    <2> QED
      BY <1>3, <2>2, <2>3 DEF ReadsOnce
  <1>7. ToInsert(t) = {}
    BY <1>3, <1>5 DEF ToInsert
  <1>8. ASSUME NEW tab \in ReadTabs(k) PROVE ReadsOf(t, tab)
    <2>1. \E i \in 1 .. n : tab = tabs[i]
      <3>1. tab = tabs[1] \/ tab = tabs[2] \/ tab = tabs[3] \/ (n = 4 /\ tab = tabs[4])
        BY <1>2, <1>8 DEF ReadTabs
      <3>2. 1 \in 1 .. n /\ 2 \in 1 .. n /\ 3 \in 1 .. n /\ (n = 4 => 4 \in 1 .. n)
        BY <1>2
      <3> HIDE DEF tabs
      <3> QED
        BY <3>1, <3>2
    <2> HIDE DEF tabs
    <2> QED
      BY <1>1, <1>3, <2>1 DEF ReadsOf
  <1>9. t # <<>>
    BY <1>2, <1>3, SeqParts
  <1> QED
    BY <1>3, <1>5, <1>6, <1>7, <1>8, <1>9 DEF t

\* What a step that reads does.
AllRead(p) ==
    loaded[p] \cup {r \in committed : r.tab = Statement(p).tab /\ r.wf = w}

LEMMA ReadingStep ==
    ASSUME NEW p \in Operations, IInv, ReadTable(p)
    PROVE  /\ todo[p] # <<>> /\ Others(p) /\ kind[p] \in {"execute", "clone"}
           /\ Statement(p).do = "read" /\ Statement(p) = todo[p][1]
           /\ IsSeq(todo[p]) /\ Before(todo[p], Statement(p), Tail(todo[p]))
           /\ IsSeq(Tail(todo[p])) /\ \A i \in 1 .. Len(todo[p]) : todo[p][i].do = "read"
           /\ ~open[p] /\ found[p] = Unread /\ Visible(p) = committed
           /\ UNCHANGED <<committed, txVars, kind, asked, met, stale, lost>>
           /\ IsFiniteSet(AllRead(p)) /\ loaded'[p] = AllRead(p)
           /\ \/ /\ todo'[p] = <<>> /\ result'[p] = "error"
                 /\ \/ Statement(p).tab = "workflow" /\ Part(committed, "workflow") = {}
                    \/ kind[p] = "execute" /\ Names(AllRead(p), "step", w) = {}
              \/ /\ todo'[p] = Tail(todo[p]) /\ todo'[p] # <<>> /\ result'[p] = result[p]
                 /\ Len(todo[p]) > 1
              \/ /\ Len(todo[p]) = 1 /\ kind[p] = "execute" /\ result'[p] = result[p]
                 /\ todo'[p] = Admit(AllRead(p), p)
              \/ /\ Len(todo[p]) = 1 /\ kind[p] = "clone" /\ result'[p] = result[p]
                 /\ todo'[p] = Copy(AllRead(p), p)
  <1>1. p \in Active /\ Statement(p).do = "read" /\ todo[p] # <<>>
    BY DEF ReadTable, Active
  <1>2. /\ Tx(p) /\ Shape(todo[p], kind[p], p, open[p]) /\ open[p] \in BOOLEAN
        /\ result[p] = "none"
        /\ IsSeq(todo[p]) /\ IsSeq(Tail(todo[p])) /\ Statement(p) = todo[p][1]
        /\ Before(todo[p], Statement(p), Tail(todo[p])) /\ found[p] = Unread
    BY <1>1, UnderWay
  <1>3. ~open[p] /\ kind[p] \in {"execute", "clone"}
    BY <1>1, <1>2, HeadShape
  <1>4. inserted[p] = {} /\ deleted[p] = {}
    BY <1>2, <1>3 DEF Tx
  <1>5. Others(p) /\ TypeInv' /\ TypeInv
    BY OwnSteps DEF IInv, Step
  <1>6. UNCHANGED <<committed, txVars, kind, asked, met, stale, lost>>
    BY DEF ReadTable, history
  <1>7. \A i \in 1 .. Len(todo[p]) : todo[p][i].do = "read"
    <2>1. 1 \in 1 .. Len(todo[p])
      BY <1>1, <1>2, HeadShape
    <2> QED
      BY <1>1, <1>2, <2>1 DEF Shape
  <1>8. Visible(p) = committed
    BY <1>4 DEF Visible
  <1> DEFINE rows == Matching(p, [tab |-> Statement(p).tab, wf |-> w])
             all == loaded[p] \cup rows
  <1>9. rows = {r \in committed : r.tab = Statement(p).tab /\ r.wf = w}
    BY <1>8 DEF Matching
  <1>10. all = AllRead(p) /\ (Statement(p).tab = "workflow" => rows = Part(committed, "workflow"))
    BY <1>9 DEF AllRead, Part
  <1>11. IsFiniteSet(all)
    <2>1. IsFiniteSet(committed) /\ IsFiniteSet(loaded[p])
      BY DEF IInv, FiniteInv
    <2>2. rows \subseteq committed
      BY <1>9
    <2> HIDE DEF rows
    <2>3. IsFiniteSet(rows)
      BY <2>1, <2>2, FS_Subset
    <2> QED
      BY <2>1, <2>3, FS_Union
  <1>12. /\ loaded' = [loaded EXCEPT ![p] = all]
         /\ \/ Statement(p).tab = "workflow" /\ rows = {} /\ Answer(p, "error")
            \/ Len(todo[p]) > 1 /\ Advance(p, <<>>) /\ UNCHANGED result
            \/ /\ Len(todo[p]) = 1 /\ kind[p] = "execute" /\ Names(all, "step", w) = {}
               /\ Answer(p, "error")
            \/ /\ Len(todo[p]) = 1 /\ kind[p] = "execute" /\ Advance(p, Admit(all, p))
               /\ UNCHANGED result
            \/ /\ Len(todo[p]) = 1 /\ kind[p] = "clone" /\ Advance(p, Copy(all, p))
               /\ UNCHANGED result
    BY DEF ReadTable
  <1> HIDE DEF rows, all
  <1>13. loaded'[p] = all
    BY <1>5, <1>12 DEF TypeInv
  <1>14. ASSUME Answer(p, "error") PROVE todo'[p] = <<>> /\ result'[p] = "error"
    BY <1>5, <1>14 DEF Answer, TypeInv
  <1>15. ASSUME NEW u, IsSeq(u), Advance(p, u) PROVE todo'[p] = u \o Tail(todo[p])
    BY <1>5, <1>15 DEF Advance, TypeInv
  <1>16. ASSUME Len(todo[p]) > 1, Advance(p, <<>>)
         PROVE  todo'[p] = Tail(todo[p]) /\ todo'[p] # <<>>
    <2>1. todo'[p] = Tail(todo[p])
      BY <1>2, <1>15, <1>16, SeqNone
    <2>2. Len(Tail(todo[p])) = Len(todo[p]) - 1 /\ Len(todo[p]) \in Nat
      BY <1>1, <1>2, SeqParts
    <2>3. \A n \in Nat : n > 1 => n - 1 # 0
      OBVIOUS
    <2> QED
      BY <1>2, <1>16, <2>1, <2>2, <2>3, SeqParts
  <1>17. ASSUME Len(todo[p]) = 1, NEW u, IsSeq(u), Advance(p, u)
         PROVE  todo'[p] = u
    <2>1. Tail(todo[p]) = <<>>
      <3>1. Len(Tail(todo[p])) = 0
        BY <1>1, <1>2, <1>17, SeqParts
      <3> QED
        BY <1>2, <3>1, SeqParts
    <2>2. u \o <<>> = u
      BY <1>17, SeqNone
    <2> QED
      BY <1>15, <1>17, <2>1, <2>2
  <1>18. IsSeq(Admit(all, p)) /\ IsSeq(Copy(all, p))
    BY <1>11, AdmitRows, CopyRows
  <1>19. \/ /\ todo'[p] = <<>> /\ result'[p] = "error"
            /\ \/ Statement(p).tab = "workflow" /\ Part(committed, "workflow") = {}
               \/ kind[p] = "execute" /\ Names(all, "step", w) = {}
         \/ /\ todo'[p] = Tail(todo[p]) /\ todo'[p] # <<>> /\ result'[p] = result[p]
            /\ Len(todo[p]) > 1
         \/ /\ Len(todo[p]) = 1 /\ kind[p] = "execute" /\ result'[p] = result[p]
            /\ todo'[p] = Admit(all, p)
         \/ /\ Len(todo[p]) = 1 /\ kind[p] = "clone" /\ result'[p] = result[p]
            /\ todo'[p] = Copy(all, p)
    <2>1. CASE Statement(p).tab = "workflow" /\ rows = {} /\ Answer(p, "error")
      BY <1>10, <1>14, <2>1
    <2>2. CASE Len(todo[p]) > 1 /\ Advance(p, <<>>) /\ UNCHANGED result
      BY <1>16, <2>2
    <2>3. CASE /\ Len(todo[p]) = 1 /\ kind[p] = "execute" /\ Names(all, "step", w) = {}
               /\ Answer(p, "error")
      BY <1>14, <2>3
    <2>4. CASE /\ Len(todo[p]) = 1 /\ kind[p] = "execute" /\ Advance(p, Admit(all, p))
               /\ UNCHANGED result
      BY <1>17, <1>18, <2>4
    <2>5. CASE /\ Len(todo[p]) = 1 /\ kind[p] = "clone" /\ Advance(p, Copy(all, p))
               /\ UNCHANGED result
      BY <1>17, <1>18, <2>5
    <2> QED
      BY <1>12, <2>1, <2>2, <2>3, <2>4, <2>5
  <1>20. /\ todo[p] # <<>> /\ Others(p) /\ kind[p] \in {"execute", "clone"}
         /\ Statement(p).do = "read" /\ Statement(p) = todo[p][1]
         /\ IsSeq(todo[p]) /\ Before(todo[p], Statement(p), Tail(todo[p]))
         /\ IsSeq(Tail(todo[p])) /\ ~open[p] /\ found[p] = Unread
    BY <1>1, <1>2, <1>3, <1>5
  <1> QED
    BY <1>6, <1>7, <1>8, <1>10, <1>11, <1>13, <1>19, <1>20

\* The rows that an operation is to add when it begins.
LEMMA StartRows ==
    ASSUME NEW p \in Operations, IInv, Start(p)
    PROVE  \A r \in ToInsert(todo'[p]) : Formed(r)
  <1>1. DOMAIN todo = Operations
    BY DEF IInv, TypeInv
  <1>2. CASE kind[p] = "save"
    <2>1. ToInsert(todo'[p]) = CanvasRows(w, asked'[p], p)
      BY <1>2, StartShape
    <2> QED
      BY <2>1, CanvasFormed
  <1>3. CASE kind[p] = "delete"
    <2>1. todo'[p] = DeleteWorkflow
      BY <1>1, <1>3 DEF Start
    <2>2. \A i \in 1 .. Len(DeleteWorkflow) : DeleteWorkflow[i].do # "insert"
      <3> DEFINE t == DeleteWorkflow
      <3>1. Len(t) = 8 /\ t[8] = Commit /\ \A i \in 1 .. 7 : t[i] = DeleteFrom(DeletedTabs[i], w)
        BY DeleteList
      <3> HIDE DEF t
      <3>2. \A i \in 1 .. 8 : i = 8 \/ i \in 1 .. 7
        OBVIOUS
      <3>3. t[8].do = "commit" /\ \A i \in 1 .. 7 : t[i].do = "delete"
        BY <3>1 DEF Commit, DeleteFrom
      <3> QED
        BY <3>1, <3>2, <3>3 DEF t
    <2> QED
      BY <2>1, <2>2 DEF ToInsert
  <1>4. CASE kind[p] \in {"execute", "clone"}
    <2>1. todo'[p] = Reads(kind[p])
      BY <1>1, <1>4 DEF Start
    <2> QED
      BY <1>4, <2>1, ReadsList
  <1> QED
    BY <1>2, <1>3, <1>4 DEF Start

\* Every row that is added is formed and owned.
LEMMA FormKeeps ==
    ASSUME NEW p \in Operations, IInv, FormInv, Moves(p)
    PROVE  FormInv'
  <1>1. Others(p) /\ kind' = kind
    BY OwnSteps DEF IInv, Moves, Others
  <1>2. ASSUME NEW r \in committed' PROVE Formed(r) /\ Owned(r)'
    <2>1. CASE r \in committed
      BY <1>1, <2>1 DEF FormInv, Owned
    <2>2. CASE r \notin committed
      <3>1. OwnRow(r, kind[p], p) /\ r \in inserted[p] \cup ToInsert(todo[p])
        BY <1>2, <2>2, Added
      <3> QED
        BY <1>1, <3>1 DEF FormInv, OwnRow, Owned
    <2> QED
      BY <2>1, <2>2
  <1>3. \A r \in inserted'[p] \cup ToInsert(todo'[p]) : Formed(r)
    <2>1. CASE Start(p)
      <3>1. inserted' = inserted
        BY <2>1 DEF Start, txVars
      <3> QED
        BY <2>1, <3>1, StartRows DEF FormInv
    <2>2. CASE ReadTable(p)
      <3>1. inserted' = inserted
        BY <2>2, ReadingStep DEF txVars
      <3>2. \A r \in ToInsert(todo'[p]) : Formed(r)
        <4>1. CASE todo'[p] = <<>>
          BY <4>1, NothingSeen
        <4>2. CASE todo'[p] = Tail(todo[p])
          <5>1. ToInsert(todo'[p]) \subseteq ToInsert(todo[p])
            BY <2>2, <4>2, ReadingStep, BeforeSees
          <5> QED
            BY <5>1 DEF FormInv
        <4>3. CASE todo'[p] = Admit(AllRead(p), p)
          BY <2>2, <4>3, ReadingStep, AdmitRows
        <4>4. CASE todo'[p] = Copy(AllRead(p), p)
          BY <2>2, <4>4, ReadingStep, CopyRows
        <4> QED
          BY <2>2, <4>1, <4>2, <4>3, <4>4, ReadingStep
      <3> QED
        BY <3>1, <3>2 DEF FormInv
    <2>3. CASE Proceeds(p)
      <3>1. inserted'[p] \cup ToInsert(todo'[p]) \subseteq inserted[p] \cup ToInsert(todo[p])
        BY <2>3, Proceeding
      <3> QED
        BY <3>1 DEF FormInv
    <2> QED
      BY <2>1, <2>2, <2>3 DEF Moves, Step, Proceeds
  <1>4. \A q \in Operations : \A r \in inserted'[q] \cup ToInsert(todo'[q]) : Formed(r)
    BY <1>1, <1>3 DEF Others, Same, FormInv
  <1> QED
    BY <1>2, <1>4 DEF FormInv

--------------------------------------------------------------------------------
(***************************************************************************)
(* What is read stays as it is.                                            *)
(***************************************************************************)
\* Only a save or delete changes the tables that others read, when it is committed.
LEMMA Undisturbed ==
    ASSUME NEW p \in Operations, IInv, FormInv, Moves(p),
           ~ (CommitTx(p) /\ kind[p] # "clone"),
           NEW tab \in {"workflow", "step", "edge", "note"}
    PROVE  Part(committed', tab) = Part(committed, tab)
  <1>1. p # w
    BY NamesAssumption
  <1>2. ASSUME NEW r \in committed', r \notin committed, r.tab = tab PROVE r.wf # w
    <2>1. /\ OwnRow(r, kind[p], p) /\ r \in inserted[p] \cup ToInsert(todo[p])
          /\ CommitTx(p) \/ r.tab \notin CanvasTabs
      BY <1>2, Added
    <2>2. CASE CommitTx(p)
      BY <1>1, <2>1, <2>2 DEF OwnRow, Target
    <2>3. CASE r.tab \notin CanvasTabs
      <3>1. r.tab = "workflow"
        BY <1>2, <2>3 DEF CanvasTabs
      <3>2. Formed(r)
        BY <2>1 DEF FormInv
      <3>3. r.by = r.wf
        BY <3>1, <3>2, FormedRow
      <3> QED
        BY <1>1, <2>1, <3>3 DEF OwnRow
    <2> QED
      BY <2>1, <2>2, <2>3
  <1>3. ASSUME NEW r \in committed, r \notin committed' PROVE r.wf # w
    <2>1. CommitTx(p) /\ r.wf = Target(kind[p], p)
      BY <1>3, Removed
    <2> QED
      BY <1>1, <2>1 DEF Target
  <1> QED
    BY <1>2, <1>3 DEF Part

\* Who is met, and who learns of a commit.
LEMMA Meeting ==
    ASSUME NEW p \in Operations, NEW q \in Operations, q # p, Moves(p)
    PROVE  /\ met'[q] = met[q] \/ met'[q] = met[q] \cup {p}
           /\ Start(p) /\ todo[q] # <<>> => p \in met'[q]
           /\ todo[q] = <<>> => met'[q] = met[q] /\ (stale'[q] <=> stale[q])
           /\ stale'[q] => stale[q] \/ (CommitTx(p) /\ todo[q] # <<>>)
           /\ stale[q] => stale'[q]
           /\ CommitTx(p) /\ kind[p] # "clone" /\ todo[q] # <<>> => stale'[q]
  <1>1. CASE Start(p)
    <2>1. met'[q] = IF q \in Active THEN met[q] \cup {p} ELSE met[q]
      BY <1>1 DEF Start
    <2>2. stale' = stale
      BY <1>1 DEF Start
    <2>3. q \in Active <=> todo[q] # <<>>
      BY DEF Active
    <2>4. ~CommitTx(p)
      BY <1>1 DEF Start, CommitTx, Active
    <2> QED
      BY <1>1, <2>1, <2>2, <2>3, <2>4
  <1>2. CASE CommitTx(p)
    <2>1. met' = met
      BY <1>2 DEF CommitTx
    <2>2. stale'[q] = (stale[q] \/ (q \in Active \ {p} /\ kind[p] # "clone"))
      BY <1>2 DEF CommitTx
    <2>3. ~Start(p)
      BY <1>2 DEF Start, CommitTx, Active
    <2>4. q \in Active \ {p} <=> todo[q] # <<>>
      BY DEF Active
    <2>5. /\ stale'[q] => stale[q] \/ todo[q] # <<>>
          /\ stale[q] => stale'[q]
          /\ kind[p] # "clone" /\ todo[q] # <<>> => stale'[q]
      BY <2>2, <2>4, Zenon
    <2> QED
      BY <1>2, <2>1, <2>3, <2>5
  <1>3. CASE ~Start(p) /\ ~CommitTx(p)
    <2>1. met' = met /\ stale' = stale
      BY <1>3 DEF Moves, Step, ReadTable, DeleteRows, CheckReferences, InsertRow, EndDeadlock,
                  Wait, StatementFails, history
    <2> QED
      BY <1>3, <2>1
  <1> QED
    BY <1>1, <1>2, <1>3

\* What an operation has read stays as it is while others go on.
LEMMA OthersRead ==
    ASSUME NEW p \in Operations, NEW q \in Operations, q # p, IInv, FormInv, Moves(p),
           Unknown(q), Fresh(q), ReadInv(q)
    PROVE  Unknown(q)' /\ Fresh(q)' /\ ReadInv(q)'
  <1>1. Same(q) /\ kind' = kind
    BY OwnSteps DEF IInv, Moves, Others
  <1>2. /\ todo'[q] = todo[q] /\ result'[q] = result[q] /\ loaded'[q] = loaded[q]
        /\ kind'[q] = kind[q]
    BY <1>1 DEF Same
  <1>3. Waiting(q)' <=> Waiting(q)
    BY <1>2 DEF Waiting
  <1>4. Reading(q)' <=> Reading(q)
    BY <1>2 DEF Reading
  <1>5. Unknown(q)'
    <2>1. \A r \in committed' : r \in committed \/ r.by = p
      BY Added DEF OwnRow
    <2> QED
      BY <1>3, <1>4, <2>1 DEF Unknown
  <1>6. Fresh(q)'
    <2>1. CASE stale[q]
      <3>1. met'[q] # {}
        BY <2>1, Meeting DEF Fresh
      <3> QED
        BY <1>3, <2>1, <3>1 DEF Fresh
    <2>2. CASE CommitTx(p) /\ todo[q] # <<>>
      <3>1. p \in met[q]
        BY <2>2 DEF CommitTx, IInv, MetInv, Active
      <3>2. met'[q] # {} /\ ~Waiting(q)'
        BY <1>2, <2>2, <3>1, Meeting DEF Waiting
      <3> QED
        BY <3>2 DEF Fresh
    <2>3. stale'[q] => stale[q] \/ (CommitTx(p) /\ todo[q] # <<>>)
      BY Meeting
    <2> QED
      BY <2>1, <2>2, <2>3 DEF Fresh
  <1>7. ReadInv(q)'
    <2>1. (Waiting(q) => loaded[q] = {})' /\ ReadsOnce(todo[q])'
      BY <1>2, <1>3 DEF ReadInv
    <2>2. ASSUME todo[q] # <<>>, kind[q] \in {"execute", "clone"}, NEW tab \in ReadTabs(kind[q])
          PROVE  IF ReadsOf(todo[q], tab) THEN Part(loaded[q], tab) = {}
                 ELSE stale'[q] \/ Part(loaded[q], tab) = Part(committed', tab)
      <3>1. IF ReadsOf(todo[q], tab) THEN Part(loaded[q], tab) = {}
            ELSE stale[q] \/ Part(loaded[q], tab) = Part(committed, tab)
        BY <2>2 DEF ReadInv
      <3>2. CASE CommitTx(p) /\ kind[p] # "clone"
        <4>1. stale'[q]
          BY <2>2, <3>2, Meeting
        <4> QED
          BY <3>1, <4>1, Zenon
      <3>3. CASE ~ (CommitTx(p) /\ kind[p] # "clone")
        <4>1. tab \in {"workflow", "step", "edge", "note"}
          BY <2>2 DEF ReadTabs
        <4>2. Part(committed', tab) = Part(committed, tab)
          BY <3>3, <4>1, Undisturbed
        <4>3. stale[q] => stale'[q]
          BY Meeting
        <4> QED
          BY <3>1, <4>2, <4>3, Zenon
      <3> QED
        BY <3>2, <3>3
    <2> QED
      BY <1>2, <2>1, <2>2 DEF ReadInv
  <1> QED
    BY <1>5, <1>6, <1>7

\* An operation begins with nothing read.
LEMMA StartRead ==
    ASSUME NEW p \in Operations, IInv, Start(p), Unknown(p), Fresh(p), ReadInv(p)
    PROVE  Unknown(p)' /\ Fresh(p)' /\ ReadInv(p)'
  <1>1. /\ Waiting(p) /\ UNCHANGED <<committed, loaded, kind, stale>> /\ DOMAIN todo = Operations
        /\ kind[p] \in {"save", "delete", "execute", "clone"}
    BY DEF Start, Waiting, IInv, TypeInv
  <1>2. todo'[p] # <<>> /\ Shape(todo'[p], kind[p], p, FALSE)
    BY StartShape
  <1>3. ~Waiting(p)'
    BY <1>2 DEF Waiting
  <1>4. Unknown(p)'
    BY <1>1 DEF Unknown
  <1>5. Fresh(p)'
    <2>1. ~stale[p]
      BY <1>1 DEF Fresh
    <2> QED
      BY <1>1, <2>1 DEF Fresh
  <1>6. CASE kind[p] \in {"save", "delete"}
    <2>1. \A i \in 1 .. Len(todo'[p]) : todo'[p][i].do # "read"
      BY <1>2, <1>6 DEF Shape
    <2>2. ReadsOnce(todo'[p])
      BY <2>1 DEF ReadsOnce
    <2> QED
      BY <1>1, <1>3, <1>4, <1>5, <1>6, <2>2 DEF ReadInv
  <1>7. CASE kind[p] \in {"execute", "clone"}
    <2>1. todo'[p] = Reads(kind[p])
      BY <1>1, <1>7 DEF Start
    <2>2. ReadsOnce(todo'[p]) /\ \A tab \in ReadTabs(kind[p]) : ReadsOf(todo'[p], tab)
      BY <1>7, <2>1, ReadsList
    <2>3. loaded'[p] = {} /\ \A tab : Part({}, tab) = {}
      BY <1>1 DEF ReadInv, Part
    <2> QED
      BY <1>1, <1>3, <1>4, <1>5, <2>2, <2>3 DEF ReadInv
  <1> QED
    BY <1>1, <1>6, <1>7

\* What is read is what is committed.
LEMMA StepRead ==
    ASSUME NEW p \in Operations, IInv, ReadTable(p), Unknown(p), Fresh(p), ReadInv(p)
    PROVE  /\ Unknown(p)' /\ Fresh(p)' /\ ReadInv(p)'
           /\ \A tab \in ReadTabs(kind[p]) :
                 IF ReadsOf(Tail(todo[p]), tab) THEN Part(AllRead(p), tab) = {}
                 ELSE stale[p] \/ Part(AllRead(p), tab) = Part(committed, tab)
  <1> DEFINE t == todo[p]
             u == Tail(t)
             s == Statement(p)
  <1>1. /\ t # <<>> /\ kind[p] \in {"execute", "clone"} /\ s.do = "read" /\ s = t[1]
        /\ IsSeq(t) /\ Before(t, s, u) /\ IsSeq(u) /\ \A i \in 1 .. Len(t) : t[i].do = "read"
        /\ UNCHANGED <<committed, kind, met, stale>> /\ loaded'[p] = AllRead(p)
    BY ReadingStep
  <1>2. \/ todo'[p] = <<>> /\ result'[p] = "error"
        \/ todo'[p] = u /\ todo'[p] # <<>>
        \/ Len(t) = 1 /\ todo'[p] # <<>> /\ ~Has(todo'[p], "read")
    <2>1. IsFiniteSet(AllRead(p))
      BY ReadingStep
    <2>2. /\ Admit(AllRead(p), p) # <<>> /\ ~Has(Admit(AllRead(p), p), "read")
          /\ Copy(AllRead(p), p) # <<>> /\ ~Has(Copy(AllRead(p), p), "read")
      BY <2>1, AdmitRows, CopyRows
    <2> QED
      BY <2>2, ReadingStep
  <1> HIDE DEF t, u, s
  <1>3. Len(t) = Len(u) + 1 /\ Len(u) \in Nat /\ \A i \in 1 .. Len(u) : t[i + 1] = u[i] /\ i + 1 \in 1 .. Len(t)
    BY <1>1, SeqParts DEF Before
  <1>4. 1 \in 1 .. Len(t)
    BY <1>3
  <1>5. Unknown(p)'
    <2>1. Reading(p)
      BY <1>1, <1>4 DEF Reading, Has, t
    <2> QED
      BY <1>1, <2>1 DEF Unknown
  <1>6. ~Waiting(p)'
    BY <1>2 DEF Waiting
  <1>7. Fresh(p)'
    BY <1>1, <1>6 DEF Fresh
  <1>8. ReadsOnce(t)
    BY DEF ReadInv, t
  <1>9. ReadsOnce(u)
    <2> SUFFICES ASSUME NEW i \in 1 .. Len(u)
                 PROVE  u[i] = Read(u[i].tab) /\ \A j \in i + 1 .. Len(u) : u[j] # u[i]
      BY DEF ReadsOnce
    <2>1. t[i + 1] = u[i] /\ i + 1 \in 1 .. Len(t) /\ t[i + 1].do = "read"
      BY <1>1, <1>3
    <2>2. t[i + 1] = Read(t[i + 1].tab) /\ \A j \in (i + 1) + 1 .. Len(t) : t[j] # t[i + 1]
      BY <1>8, <2>1 DEF ReadsOnce
    <2>3. ASSUME NEW j \in i + 1 .. Len(u)
          PROVE  j + 1 \in (i + 1) + 1 .. Len(t) /\ t[j + 1] = u[j]
      <3>1. j \in 1 .. Len(u) /\ j + 1 \in (i + 1) + 1 .. Len(t)
        BY <1>3
      <3> QED
        BY <1>3, <3>1
    <2> QED
      BY <2>1, <2>2, <2>3
  <1>10. ASSUME NEW v, ~Has(v, "read") PROVE ReadsOnce(v) /\ \A tab : ~ReadsOf(v, tab)
    BY <1>10 DEF ReadsOnce, ReadsOf, Has, Read
  <1>11. ReadsOnce(todo'[p])
    BY <1>2, <1>9, <1>10, NothingSeen
  <1>12. ASSUME NEW tab PROVE ReadsOf(t, tab) <=> s = Read(tab) \/ ReadsOf(u, tab)
    <2>1. \A i \in 1 .. Len(t) : i = 1 \/ (i - 1 \in 1 .. Len(u) /\ (i - 1) + 1 = i)
      BY <1>3
    <2>2. \A i \in 1 .. Len(t) : i = 1 \/ (i - 1 \in 1 .. Len(u) /\ t[i] = u[i - 1])
      <3>1. \A j \in 1 .. Len(u) : t[j + 1] = u[j]
        BY <1>3
      <3> TAKE i \in 1 .. Len(t)
      <3>2. ASSUME i # 1 PROVE i - 1 \in 1 .. Len(u) /\ t[i] = u[i - 1]
        <4>1. i - 1 \in 1 .. Len(u) /\ (i - 1) + 1 = i
          BY <2>1, <3>2
        <4>2. t[(i - 1) + 1] = u[i - 1]
          BY <3>1, <4>1
        <4> QED
          BY <4>1, <4>2
      <3> QED
        BY <3>2
    <2>3. ASSUME NEW i \in 1 .. Len(t), t[i] = Read(tab) PROVE s = Read(tab) \/ ReadsOf(u, tab)
      BY <1>1, <2>2, <2>3 DEF ReadsOf
    <2>4. ASSUME NEW i \in 1 .. Len(u), u[i] = Read(tab) PROVE ReadsOf(t, tab)
      <3>1. i + 1 \in 1 .. Len(t) /\ t[i + 1] = Read(tab)
        BY <1>3, <2>4
      <3> QED
        BY <3>1 DEF ReadsOf
    <2>5. s = Read(tab) => ReadsOf(t, tab)
      BY <1>1, <1>4 DEF ReadsOf
    <2> QED
      BY <2>3, <2>4, <2>5 DEF ReadsOf
  <1>13. s = Read(s.tab) /\ ~ReadsOf(u, s.tab)
    <2>1. t[1] = Read(t[1].tab) /\ \A j \in 1 + 1 .. Len(t) : t[j] # t[1]
      BY <1>1, <1>4, <1>8 DEF ReadsOnce
    <2>2. \A i \in 1 .. Len(u) : i + 1 \in 1 + 1 .. Len(t)
      BY <1>3
    <2> QED
      BY <1>1, <1>3, <2>1, <2>2 DEF ReadsOf
  <1>14. ASSUME NEW tab \in ReadTabs(kind[p])
         PROVE  IF ReadsOf(u, tab) THEN Part(AllRead(p), tab) = {}
                ELSE stale[p] \/ Part(AllRead(p), tab) = Part(committed, tab)
    <2>1. IF ReadsOf(t, tab) THEN Part(loaded[p], tab) = {}
          ELSE stale[p] \/ Part(loaded[p], tab) = Part(committed, tab)
      BY <1>1, <1>14 DEF ReadInv, t
    <2>2. CASE s.tab = tab
      <3>1. Part(loaded[p], tab) = {} /\ ~ReadsOf(u, tab)
        BY <1>12, <1>13, <2>1, <2>2
      <3>2. Part(AllRead(p), tab) = Part(committed, tab)
        BY <2>2, <3>1 DEF Part, AllRead, s
      <3> QED
        BY <3>1, <3>2
    <2>3. CASE s.tab # tab
      <3>1. Read(tab).tab = tab
        BY DEF Read
      <3>2. ReadsOf(t, tab) <=> ReadsOf(u, tab)
        BY <1>12, <2>3, <3>1
      <3>3. Part(AllRead(p), tab) = Part(loaded[p], tab)
        BY <2>3 DEF Part, AllRead, s
      <3> QED
        BY <2>1, <3>2, <3>3, Zenon
    <2> QED
      BY <2>2, <2>3
  <1>15. ASSUME todo'[p] # <<>>, NEW tab PROVE ReadsOf(todo'[p], tab) <=> ReadsOf(u, tab)
    <2>1. CASE todo'[p] = u
      BY <2>1
    <2>2. CASE Len(t) = 1 /\ ~Has(todo'[p], "read")
      <3>1. \A n \in Nat : 1 = n + 1 => 1 .. n = {}
        OBVIOUS
      <3>2. 1 .. Len(u) = {}
        BY <1>3, <2>2, <3>1
      <3> QED
        BY <1>10, <2>2, <3>2 DEF ReadsOf
    <2> QED
      BY <1>2, <1>15, <2>1, <2>2
  <1>16. ReadInv(p)'
    <2>1. \A tab \in ReadTabs(kind[p]) : todo'[p] # <<>> =>
             IF ReadsOf(todo'[p], tab) THEN Part(loaded'[p], tab) = {}
             ELSE stale'[p] \/ Part(loaded'[p], tab) = Part(committed', tab)
      <3> TAKE tab \in ReadTabs(kind[p])
      <3> HAVE todo'[p] # <<>>
      <3>1. IF ReadsOf(todo'[p], tab) THEN Part(AllRead(p), tab) = {}
            ELSE stale[p] \/ Part(AllRead(p), tab) = Part(committed, tab)
        BY <1>14, <1>15, Zenon
      <3>2. loaded'[p] = AllRead(p) /\ stale' = stale /\ committed' = committed
        BY <1>1
      <3> QED
        BY <3>1, <3>2, Zenon
    <2> QED
      BY <1>1, <1>6, <1>11, <2>1 DEF ReadInv
  <1> QED
    BY <1>5, <1>7, <1>14, <1>16 DEF u, t

\* An operation that goes on and has more to do has read what it needs, and no statement
\* of it has failed.
LEMMA GoesOn ==
    ASSUME NEW p \in Operations, IInv, Proceeds(p), todo'[p] # <<>>
    PROVE  /\ ~CommitTx(p) /\ ~StatementFails(p) /\ ~EndDeadlock(p) /\ ~Fail(p)
           /\ ~Has(todo[p], "read") /\ Statement(p).do # "read" /\ todo[p] # <<>>
  <1>1. todo[p] # <<>>
    BY Proceeding
  <1>2. \A answer : ~Answer(p, answer)
    BY DEF Answer, IInv, TypeInv
  <1>3. ~CommitTx(p) /\ ~StatementFails(p) /\ ~EndDeadlock(p) /\ ~Fail(p)
    BY <1>2 DEF CommitTx, StatementFails, EndDeadlock, Fail
  <1>4. Statement(p).do # "read"
    BY <1>3 DEF Proceeds, DeleteRows, CheckReferences, InsertRow, Wait
  <1>5. Shape(todo[p], kind[p], p, open[p]) /\ open[p] \in BOOLEAN
    BY <1>1, UnderWay
  <1> QED
    BY <1>1, <1>3, <1>4, <1>5, NotReading DEF Statement

\* Who has read goes on with what it has read.
LEMMA ProceedRead ==
    ASSUME NEW p \in Operations, IInv, FormInv, Proceeds(p), Unknown(p), Fresh(p), ReadInv(p)
    PROVE  Unknown(p)' /\ Fresh(p)' /\ ReadInv(p)'
  <1>1. /\ todo[p] # <<>> /\ UNCHANGED <<kind, loaded, met>>
        /\ todo'[p] # <<>> \/ result'[p] # "none"
        /\ ~Has(todo'[p], "read")
    BY Proceeding
  <1>2. stale'[p] <=> stale[p]
    BY Proceeding
  <1>3. ~Waiting(p)' /\ ~Reading(p)'
    BY <1>1 DEF Waiting, Reading
  <1>4. Unknown(p)'
    BY <1>3 DEF Unknown
  <1>5. Fresh(p)'
    <2>1. stale[p] => met[p] # {}
      BY DEF Fresh
    <2> QED
      BY <1>1, <1>2, <1>3, <2>1 DEF Fresh
  <1>6. ASSUME NEW v, ~Has(v, "read") PROVE ReadsOnce(v) /\ \A tab : ~ReadsOf(v, tab)
    BY <1>6 DEF ReadsOnce, ReadsOf, Has, Read
  <1>7. ASSUME todo'[p] # <<>>, NEW tab \in ReadTabs(kind[p]), kind[p] \in {"execute", "clone"}
        PROVE  stale'[p] \/ Part(loaded'[p], tab) = Part(committed', tab)
    <2>1. ~CommitTx(p) /\ ~Has(todo[p], "read")
      BY <1>7, GoesOn
    <2>2. stale[p] \/ Part(loaded[p], tab) = Part(committed, tab)
      BY <1>1, <1>6, <1>7, <2>1 DEF ReadInv
    <2>3. Part(committed', tab) = Part(committed, tab)
      <3>1. Moves(p) /\ tab \in {"workflow", "step", "edge", "note"}
        BY <1>7 DEF Moves, Step, Proceeds, ReadTabs
      <3> QED
        BY <2>1, <3>1, Undisturbed
    <2> QED
      BY <1>1, <1>2, <2>2, <2>3
  <1>8. ReadInv(p)'
    BY <1>1, <1>3, <1>6, <1>7 DEF ReadInv
  <1> QED
    BY <1>4, <1>5, <1>8

\* Of what everybody has read.
ReadersInv == \A p \in Operations : Unknown(p) /\ Fresh(p) /\ ReadInv(p)

LEMMA ReadersKeep ==
    ASSUME NEW p \in Operations, IInv, FormInv, ReadersInv, Moves(p)
    PROVE  ReadersInv'
  <1>1. ASSUME NEW q \in Operations, q # p
        PROVE  Unknown(q)' /\ Fresh(q)' /\ ReadInv(q)'
    BY <1>1, OthersRead DEF ReadersInv
  <1>2. Unknown(p) /\ Fresh(p) /\ ReadInv(p)
    BY DEF ReadersInv
  <1>3. CASE Start(p)
    BY <1>1, <1>2, <1>3, StartRead DEF ReadersInv
  <1>4. CASE ReadTable(p)
    BY <1>1, <1>2, <1>4, StepRead DEF ReadersInv
  <1>5. CASE Proceeds(p)
    BY <1>1, <1>2, <1>5, ProceedRead DEF ReadersInv
  <1> QED
    BY <1>3, <1>4, <1>5 DEF Moves, Step, Proceeds

--------------------------------------------------------------------------------
(***************************************************************************)
(* An operation and its history.                                           *)
(***************************************************************************)
\* Who moves begins, or is under way.
LEMMA Acting ==
    ASSUME NEW p \in Operations, Moves(p)
    PROVE  Start(p) \/ todo[p] # <<>>
  BY DEF Moves, Step, ReadTable, DeleteRows, CheckReferences, InsertRow, CommitTx, EndDeadlock,
         Deadlocked, Wait, StatementFails, Active

\* Who is under way stays what it is.
LEMMA Staying ==
    ASSUME NEW p \in Operations, IInv, Moves(p)
    PROVE  ~Start(p) => UNCHANGED <<met, kind, asked>>
  <1>1. CASE ReadTable(p)
    BY <1>1, ReadingStep
  <1>2. CASE Proceeds(p)
    BY <1>2, Proceeding
  <1> QED
    BY <1>1, <1>2 DEF Moves, Step, Proceeds

\* What is lost is known of every operation.
LostInv == DOMAIN lost = Operations

LEMMA LostKeeps ==
    ASSUME NEW p \in Operations, LostInv, Moves(p)
    PROVE  LostInv'
  <1>1. lost' = lost \/ lost' = [lost EXCEPT ![p] = TRUE]
    BY DEF Moves, Step, Start, ReadTable, DeleteRows, CheckReferences, InsertRow, EndDeadlock,
           Wait, CommitTx, StatementFails, history
  <1> QED
    BY <1>1 DEF LostInv

\* Each step an execution has read has its record, or it is still to be added, unless a
\* save or delete was committed meanwhile; the notification is the last row.
ExecInv(p) ==
    todo[p] # <<>> /\ kind[p] = "execute" =>
       /\ \A i \in 1 .. Len(todo[p]) : Notifies(todo[p][i]) => i = Len(todo[p])
       /\ \/ Reading(p) \/ stale[p]
          \/ \A s \in Names(loaded[p], "step", w) :
                RecordRow(w, s, p) \in committed \cup ToInsert(todo[p])

\* A copy has the names that were read, in one transaction; before that there is no more
\* of it than its workflow.
CopyInv(p) ==
    todo[p] # <<>> /\ kind[p] = "clone" =>
       /\ \A r \in committed : r.by = p => r.tab = "workflow"
       /\ \A r \in ToInsert(todo[p]) : r.tab \in CanvasTabs \cup {"workflow"}
       /\ \/ Reading(p)
          \/ /\ open[p] \/ Has(todo[p], "delete")
             /\ \A tab \in CanvasTabs :
                   Names(inserted[p] \cup ToInsert(todo[p]), tab, p) = Names(loaded[p], tab, w)

\* An execution has no transaction: it only reads and adds.
LEMMA Executing ==
    ASSUME NEW p \in Operations, IInv, todo[p] # <<>>, kind[p] = "execute"
    PROVE  ~open[p] /\ Statement(p).do \in {"read", "insert"}
  <1>1. /\ Shape(todo[p], kind[p], p, open[p]) /\ open[p] \in BOOLEAN /\ Tx(p)
        /\ Statement(p) = todo[p][1]
    BY UnderWay
  <1>2. /\ Len(todo[p]) \in 1 .. Len(todo[p])
        /\ todo[p][1].do \in {"read", "delete", "check", "insert", "commit"}
        /\ todo[p][1].do = "delete" => kind[p] # "execute"
        /\ todo[p][1].do = "check" => open[p]
        /\ todo[p][1].do = "commit" => kind[p] # "execute"
    BY <1>1, HeadShape
  <1>3. ~open[p]
    BY <1>1, <1>2 DEF Shape
  <1> QED
    BY <1>1, <1>2, <1>3

LEMMA OthersAdd ==
    ASSUME NEW p \in Operations, NEW q \in Operations, q # p, IInv, Moves(p),
           ExecInv(q), CopyInv(q)
    PROVE  ExecInv(q)' /\ CopyInv(q)'
  <1>1. /\ todo'[q] = todo[q] /\ loaded'[q] = loaded[q] /\ kind' = kind
        /\ inserted'[q] = inserted[q] /\ open'[q] = open[q]
    BY OwnSteps DEF IInv, Moves, Others, Same
  <1>2. Reading(q)' <=> Reading(q)
    BY <1>1 DEF Reading
  <1>3. stale[q] => stale'[q]
    BY Meeting
  <1>4. ExecInv(q)'
    <2> SUFFICES ASSUME todo[q] # <<>>, kind[q] = "execute"
                 PROVE  /\ \A i \in 1 .. Len(todo[q]) : Notifies(todo[q][i]) => i = Len(todo[q])
                        /\ \/ Reading(q)' \/ stale'[q]
                           \/ \A s \in Names(loaded[q], "step", w) :
                                 RecordRow(w, s, q) \in committed' \cup ToInsert(todo[q])
      BY <1>1 DEF ExecInv
    <2>1. \A i \in 1 .. Len(todo[q]) : Notifies(todo[q][i]) => i = Len(todo[q])
      BY DEF ExecInv
    <2>2. \/ Reading(q) \/ stale[q]
          \/ \A s \in Names(loaded[q], "step", w) :
                RecordRow(w, s, q) \in committed \cup ToInsert(todo[q])
      BY DEF ExecInv
    <2>3. ASSUME NEW s, RecordRow(w, s, q) \in committed, RecordRow(w, s, q) \notin committed'
          PROVE  stale'[q]
      <3>1. CommitTx(p) /\ RecordRow(w, s, q).wf = Target(kind[p], p)
        BY <2>3, Removed
      <3>2. RecordRow(w, s, q).wf = w /\ p # w
        BY NamesAssumption DEF RecordRow, Row
      <3> QED
        BY <3>1, <3>2, Meeting DEF Target
    <2>4. \/ Reading(q)' \/ stale'[q]
          \/ \A s \in Names(loaded[q], "step", w) :
                RecordRow(w, s, q) \in committed' \cup ToInsert(todo[q])
      BY <1>2, <1>3, <2>2, <2>3
    <2> QED
      BY <2>1, <2>4
  <1>5. CopyInv(q)'
    <2>1. \A r \in committed' : r \in committed \/ r.by = p
      BY Added DEF OwnRow
    <2>2. \A tab : Names(inserted[q] \cup ToInsert(todo[q]), tab, q)'
                      = Names(inserted[q] \cup ToInsert(todo[q]), tab, q)
      BY <1>1
    <2>3. \A tab : Names(loaded[q], tab, w)' = Names(loaded[q], tab, w)
      BY <1>1
    <2>4. (\A r \in ToInsert(todo[q]) : r.tab \in CanvasTabs \cup {"workflow"})'
             <=> \A r \in ToInsert(todo[q]) : r.tab \in CanvasTabs \cup {"workflow"}
      BY <1>1
    <2>5. (open[q] \/ Has(todo[q], "delete"))' <=> open[q] \/ Has(todo[q], "delete")
      BY <1>1
    <2>6. todo'[q] = todo[q] /\ kind'[q] = kind[q]
      BY <1>1
    <2> QED
      BY <1>2, <2>1, <2>2, <2>3, <2>4, <2>5, <2>6 DEF CopyInv
  <1> QED
    BY <1>4, <1>5

\* Who is still to read adds nothing yet.
LEMMA StartAdds ==
    ASSUME NEW p \in Operations, IInv, Start(p), Unknown(p)
    PROVE  ExecInv(p)' /\ CopyInv(p)'
  <1>1. /\ Waiting(p) /\ UNCHANGED <<committed, kind>> /\ DOMAIN todo = Operations
    BY DEF Start, Waiting, IInv, TypeInv
  <1>2. \A r \in committed' : r.by # p
    BY <1>1 DEF Unknown
  <1>3. ASSUME kind[p] \in {"execute", "clone"}
        PROVE  /\ Reading(p)' /\ ToInsert(todo'[p]) = {}
               /\ \A i \in 1 .. Len(todo'[p]) : ~Notifies(todo'[p][i])
    <2>1. todo'[p] = Reads(kind[p])
      BY <1>1, <1>3 DEF Start
    <2>2. /\ IsSeq(todo'[p]) /\ ToInsert(todo'[p]) = {} /\ todo'[p] # <<>>
          /\ \A i \in 1 .. Len(todo'[p]) : todo'[p][i].do = "read"
      BY <1>3, <2>1, ReadsList
    <2>3. 1 \in 1 .. Len(todo'[p])
      BY <2>2, FirstBefore
    <2> QED
      BY <2>2, <2>3 DEF Reading, Has, Notifies
  <1>4. ExecInv(p)'
    BY <1>1, <1>3 DEF ExecInv
  <1>5. CopyInv(p)'
    BY <1>1, <1>2, <1>3 DEF CopyInv
  <1> QED
    BY <1>4, <1>5

\* Who has read is to add what depends on it.
LEMMA ReadAdds ==
    ASSUME NEW p \in Operations, IInv, ReadTable(p), Unknown(p)
    PROVE  ExecInv(p)' /\ CopyInv(p)'
  <1>1. /\ todo[p] # <<>> /\ kind' = kind /\ committed' = committed /\ UNCHANGED txVars
        /\ IsSeq(todo[p]) /\ \A i \in 1 .. Len(todo[p]) : todo[p][i].do = "read"
        /\ Before(todo[p], Statement(p), Tail(todo[p])) /\ IsSeq(Tail(todo[p]))
        /\ ~open[p] /\ IsFiniteSet(AllRead(p)) /\ loaded'[p] = AllRead(p)
    BY ReadingStep
  <1>2. Reading(p)
    <2>1. 1 \in 1 .. Len(todo[p])
      BY <1>1, FirstBefore
    <2> QED
      BY <1>1, <2>1 DEF Reading, Has
  <1>3. \A r \in committed' : r.by # p
    BY <1>1, <1>2 DEF Unknown
  <1>4. CASE todo'[p] = <<>>
    BY <1>4 DEF ExecInv, CopyInv
  <1>5. CASE todo'[p] = Tail(todo[p]) /\ todo'[p] # <<>>
    <2>1. \A i \in 1 .. Len(Tail(todo[p])) : i + 1 \in 1 .. Len(todo[p])
                                              /\ todo[p][i + 1] = Tail(todo[p])[i]
      BY <1>1, SeqParts DEF Before
    <2>2. \A i \in 1 .. Len(todo'[p]) : todo'[p][i].do = "read"
      BY <1>1, <1>5, <2>1
    <2>3. 1 \in 1 .. Len(todo'[p])
      BY <1>1, <1>5, FirstBefore
    <2>4. Reading(p)' /\ ToInsert(todo'[p]) = {}
      BY <2>2, <2>3 DEF Reading, Has, ToInsert
    <2>5. \A i \in 1 .. Len(todo'[p]) : ~Notifies(todo'[p][i])
      BY <2>2 DEF Notifies
    <2> QED
      BY <1>3, <2>4, <2>5 DEF ExecInv, CopyInv
  <1>6. CASE kind[p] = "execute" /\ todo'[p] = Admit(AllRead(p), p)
    <2>1. /\ \A s \in Names(AllRead(p), "step", w) : RecordRow(w, s, p) \in ToInsert(todo'[p])
          /\ \A i \in 1 .. Len(todo'[p]) : Notifies(todo'[p][i]) => i = Len(todo'[p])
      BY <1>1, <1>6, AdmitRows
    <2> QED
      BY <1>1, <1>6, <2>1 DEF ExecInv, CopyInv
  <1>7. CASE kind[p] = "clone" /\ todo'[p] = Copy(AllRead(p), p)
    <2>1. /\ Has(todo'[p], "delete")
          /\ \A r \in ToInsert(todo'[p]) : r.tab \in CanvasTabs \cup {"workflow"}
          /\ \A tab \in CanvasTabs :
                Names(ToInsert(todo'[p]), tab, p) = Names(AllRead(p), tab, w)
      BY <1>1, <1>7, CopyRows
    <2>2. inserted'[p] = {}
      BY <1>1, UnderWay DEF Tx, txVars
    <2>3. \A tab \in CanvasTabs :
             Names(inserted'[p] \cup ToInsert(todo'[p]), tab, p) = Names(loaded'[p], tab, w)
      BY <1>1, <2>1, <2>2
    <2>4. CopyInv(p)'
      BY <1>3, <2>1, <2>3 DEF CopyInv
    <2> QED
      BY <1>1, <1>7, <2>4 DEF ExecInv
  <1> QED
    BY <1>1, <1>4, <1>5, <1>6, <1>7, ReadingStep

\* An execution adds a record after the other, and the notification in the end.
LEMMA ExecutionAdds ==
    ASSUME NEW p \in Operations, IInv, Proceeds(p), ExecInv(p)
    PROVE  ExecInv(p)'
  <1> SUFFICES ASSUME todo'[p] # <<>>, kind'[p] = "execute"
               PROVE  /\ \A i \in 1 .. Len(todo'[p]) : Notifies(todo'[p][i]) => i = Len(todo'[p])
                      /\ \/ Reading(p)' \/ stale'[p]
                         \/ \A s \in Names(loaded'[p], "step", w) :
                               RecordRow(w, s, p) \in committed' \cup ToInsert(todo'[p])
    BY DEF ExecInv
  <1>1. /\ todo[p] # <<>> /\ kind[p] = "execute" /\ loaded' = loaded
        /\ ~Has(todo[p], "read") /\ Statement(p).do # "read" /\ ~Fail(p)
        /\ ~CommitTx(p) /\ ~StatementFails(p) /\ ~EndDeadlock(p)
    BY Proceeding, GoesOn
  <1>2. stale'[p] <=> stale[p]
    BY Proceeding
  <1>3. ~open[p] /\ Statement(p).do = "insert"
    BY <1>1, Executing
  <1>4. InsertRow(p)
    BY <1>1, <1>3 DEF Proceeds, DeleteRows, CheckReferences, Wait
  <1>5. DOMAIN todo = Operations
    BY DEF IInv, TypeInv
  <1>6. committed' = committed \cup {Statement(p).row} /\ Advance(p, <<>>)
    BY <1>1, <1>3, <1>4, <1>5 DEF InsertRow, Answer
  <1>7. /\ todo'[p] = Tail(todo[p])
        /\ ToInsert(todo[p]) = {Statement(p).row} \cup ToInsert(todo'[p])
    BY <1>1, <1>3, <1>6, NextStatement
  <1>8. /\ Len(todo[p]) \in Nat /\ Len(Tail(todo[p])) = Len(todo[p]) - 1
        /\ \A i \in 1 .. Len(todo[p]) - 1 : Tail(todo[p])[i] = todo[p][i + 1]
    BY <1>1, UnderWay, SeqParts
  <1>9. ASSUME NEW i \in 1 .. Len(todo'[p]), Notifies(todo'[p][i]) PROVE i = Len(todo'[p])
    <2>1. i \in 1 .. Len(todo[p]) - 1
      BY <1>7, <1>8
    <2>2. i + 1 \in 1 .. Len(todo[p]) /\ todo'[p][i] = todo[p][i + 1]
      BY <1>7, <1>8, <2>1
    <2>3. i + 1 = Len(todo[p])
      BY <1>1, <1>9, <2>2 DEF ExecInv
    <2> QED
      BY <1>7, <1>8, <2>1, <2>3
  <1>10. \/ stale[p]
         \/ \A s \in Names(loaded[p], "step", w) :
               RecordRow(w, s, p) \in committed \cup ToInsert(todo[p])
    BY <1>1 DEF ExecInv, Reading
  <1>11. \/ stale'[p]
         \/ \A s \in Names(loaded'[p], "step", w) :
               RecordRow(w, s, p) \in committed' \cup ToInsert(todo'[p])
    BY <1>1, <1>2, <1>6, <1>7, <1>10
  <1> QED
    BY <1>9, <1>11

\* A copy adds, in its transaction, every name that was read.
LEMMA CopyAdds ==
    ASSUME NEW p \in Operations, IInv, Proceeds(p), CopyInv(p)
    PROVE  CopyInv(p)'
  <1> DEFINE Adds(tab) == Names(inserted[p] \cup ToInsert(todo[p]), tab, p)
             Begun == open[p] \/ Has(todo[p], "delete")
  <1> SUFFICES ASSUME todo'[p] # <<>>, kind'[p] = "clone"
               PROVE  /\ \A r \in committed' : r.by = p => r.tab = "workflow"
                      /\ \A r \in ToInsert(todo'[p]) : r.tab \in CanvasTabs \cup {"workflow"}
                      /\ Begun'
                      /\ \A tab \in CanvasTabs : Adds(tab)' = Names(loaded'[p], tab, w)
    BY DEF CopyInv
  <1>1. /\ todo[p] # <<>> /\ kind[p] = "clone" /\ loaded' = loaded
        /\ ~Has(todo[p], "read") /\ Statement(p).do # "read" /\ ~Fail(p)
        /\ ~CommitTx(p) /\ ~StatementFails(p) /\ ~EndDeadlock(p)
        /\ ToInsert(todo'[p]) \subseteq ToInsert(todo[p])
    BY Proceeding, GoesOn
  <1>2. /\ \A r \in committed : r.by = p => r.tab = "workflow"
        /\ \A r \in ToInsert(todo[p]) : r.tab \in CanvasTabs \cup {"workflow"}
        /\ Begun /\ \A tab \in CanvasTabs : Adds(tab) = Names(loaded[p], tab, w)
    BY <1>1 DEF CopyInv, Reading
  <1>3. ASSUME NEW r \in committed', r.by = p PROVE r.tab = "workflow"
    <2>1. CASE r \in committed
      BY <1>2, <1>3, <2>1
    <2>2. CASE r \notin committed
      <3>1. Moves(p)
        BY DEF Moves, Step, Proceeds
      <3>2. /\ InsertRow(p) /\ ~open[p] /\ r.tab \notin CanvasTabs
            /\ r \in inserted[p] \cup ToInsert(todo[p])
        BY <1>1, <2>2, <3>1, Added
      <3>3. inserted[p] = {}
        BY <1>1, <3>2, UnderWay DEF Tx
      <3> QED
        BY <1>2, <3>2, <3>3
    <2> QED
      BY <2>1, <2>2
  <1> DEFINE Goal == Begun' /\ \A tab \in CanvasTabs : Adds(tab)' = Adds(tab)
  <1>4. /\ DOMAIN todo = Operations /\ DOMAIN open = Operations
        /\ DOMAIN inserted = Operations
    BY DEF IInv, TypeInv
  <1>5. ASSUME Wait(p) PROVE Goal
    <2>1. open'[p] = TRUE /\ inserted' = inserted /\ todo' = todo
      BY <1>4, <1>5 DEF Wait
    <2> QED
      BY <2>1
  <1>6. ASSUME DeleteRows(p) PROVE Goal
    <2>1. Statement(p).do = "delete"
      BY <1>6 DEF DeleteRows
    <2>2. inserted[p] = {}
      BY <1>1, <2>1, Deleting
    <2>3. open'[p] = TRUE /\ inserted'[p] = inserted[p] \ Found(p)
      BY <1>1, <1>4, <1>6 DEF DeleteRows
    <2>4. \E more \in {<<>>, <<CheckOf(Keys(Found(p)))>>} : Advance(p, more)
      BY <1>1, <1>6 DEF DeleteRows, CheckOf
    <2>5. ToInsert(todo'[p]) = ToInsert(todo[p])
      BY <1>1, <2>1, <2>4, AfterDelete
    <2>6. inserted'[p] = inserted[p]
      BY <2>2, <2>3
    <2> QED
      BY <2>3, <2>5, <2>6
  <1>7. ASSUME CheckReferences(p) PROVE Goal
    <2>1. Statement(p).do = "check" /\ Advance(p, <<>>) /\ UNCHANGED <<inserted, open>>
      BY <1>1, <1>7 DEF CheckReferences, txVars
    <2>2. /\ Has(todo'[p], "delete") <=> Has(todo[p], "delete")
          /\ ToInsert(todo[p]) = (IF Statement(p).do = "insert" THEN {Statement(p).row} ELSE {})
                                    \cup ToInsert(todo'[p])
      BY <1>1, <2>1, NextStatement
    <2>3. ToInsert(todo'[p]) = ToInsert(todo[p])
      BY <2>1, <2>2
    <2> QED
      BY <1>2, <2>1, <2>2, <2>3
  <1>8. ASSUME InsertRow(p) PROVE Goal
    <2> DEFINE row == Statement(p).row
    <2>1. /\ Statement(p).do = "insert" /\ UNCHANGED open
          /\ IF open[p] THEN inserted' = [inserted EXCEPT ![p] = @ \cup {row}]
                        ELSE UNCHANGED inserted
      BY <1>1, <1>8 DEF InsertRow
    <2>2. Advance(p, <<>>)
      BY <1>1, <1>4, <1>8 DEF InsertRow, Answer
    <2>3. /\ Has(todo'[p], "delete") <=> Has(todo[p], "delete")
          /\ ToInsert(todo[p]) = {row} \cup ToInsert(todo'[p])
      BY <1>1, <2>1, <2>2, NextStatement
    <2>4. ~open[p] => row.tab \notin CanvasTabs
      BY <1>1, <2>1, Inserting
    <2> HIDE DEF row
    <2>5. \A tab \in CanvasTabs : Adds(tab)' = Adds(tab)
      <3>1. CASE open[p]
        <4>1. inserted'[p] = inserted[p] \cup {row}
          BY <1>4, <2>1, <3>1
        <4>2. inserted'[p] \cup ToInsert(todo'[p]) = inserted[p] \cup ToInsert(todo[p])
          BY <2>3, <4>1
        <4> QED
          BY <4>2
      <3>2. CASE ~open[p]
        <4>1. inserted'[p] = inserted[p]
          BY <2>1, <3>2
        <4> QED
          BY <2>3, <2>4, <3>2, <4>1 DEF Names
      <3> QED
        BY <3>1, <3>2
    <2>6. Begun'
      BY <1>2, <2>1, <2>3
    <2> QED
      BY <2>5, <2>6
  <1> HIDE DEF Goal
  <1>9. Goal
    BY <1>1, <1>5, <1>6, <1>7, <1>8 DEF Proceeds
  <1> QED
    BY <1>1, <1>2, <1>3, <1>9 DEF Goal

\* What everybody adds.
AddersInv == \A p \in Operations : ExecInv(p) /\ CopyInv(p)

LEMMA AddersKeep ==
    ASSUME NEW p \in Operations, IInv, ReadersInv, AddersInv, Moves(p)
    PROVE  AddersInv'
  <1>1. ASSUME NEW q \in Operations, q # p PROVE ExecInv(q)' /\ CopyInv(q)'
    BY <1>1, OthersAdd DEF AddersInv
  <1>2. ExecInv(p) /\ CopyInv(p) /\ Unknown(p)
    BY DEF AddersInv, ReadersInv
  <1>3. CASE Start(p)
    BY <1>1, <1>2, <1>3, StartAdds DEF AddersInv
  <1>4. CASE ReadTable(p)
    BY <1>1, <1>2, <1>4, ReadAdds DEF AddersInv
  <1>5. CASE Proceeds(p)
    BY <1>1, <1>2, <1>5, ExecutionAdds, CopyAdds DEF AddersInv
  <1> QED
    BY <1>3, <1>4, <1>5 DEF Moves, Step, Proceeds

--------------------------------------------------------------------------------
(***************************************************************************)
(* The second invariant holds.                                             *)
(***************************************************************************)
SInv ==
    FormInv /\ ReadersInv /\ AddersInv /\ LostInv

LEMMA SecondAtFirst == Init => SInv
  <1> SUFFICES ASSUME Init PROVE SInv
    OBVIOUS
  <1>1. PICK canvas \in Canvases :
           committed = OtherRows \cup {WorkflowRow(w, w)} \cup CanvasRows(w, canvas, w)
    BY DEF Init
  <1>2. ASSUME NEW p \in Operations
        PROVE  /\ inserted[p] = {} /\ todo[p] = <<>> /\ loaded[p] = {}
               /\ ~stale[p] /\ result[p] = "none"
    BY DEF Init
  <1>3. w \notin Operations /\ other \notin Operations
    BY NamesAssumption
  <1>4. ASSUME NEW r \in committed PROVE Formed(r) /\ Owned(r) /\ r.by \notin Operations
    <2>1. CASE r \in CanvasRows(w, canvas, w)
      BY <1>3, <2>1, CanvasFormed, CanvasRowsOwn DEF Owned
    <2>2. CASE r = WorkflowRow(w, w) \/ r = WorkflowRow(other, other)
      BY <1>3, <2>2 DEF Formed, Owned, WorkflowRow, Row
    <2>3. CASE r \in CanvasRows(other, Rest, other)
      BY <1>3, <2>3, CanvasFormed, CanvasRowsOwn DEF Owned
    <2>4. CASE r = ExecutionRow(other, other)
      <3>1. r.wf = other /\ r.by = other
        BY <2>4 DEF ExecutionRow, Row
      <3> QED
        BY <1>3, <2>4, <3>1 DEF Formed, Owned
    <2>5. ASSUME NEW s, r = RecordRow(other, s, other)
          PROVE  Formed(r) /\ Owned(r) /\ r.by \notin Operations
      <3>1. r.tab = "record" /\ r.wf = other /\ r.has = s /\ r.by = other
        BY <2>5 DEF RecordRow, Row
      <3> QED
        BY <1>3, <2>5, <3>1 DEF Formed, Owned
    <2> QED
      BY <1>1, <2>1, <2>2, <2>3, <2>4, <2>5 DEF OtherRows
  <1>5. FormInv
    BY <1>2, <1>4, NothingSeen DEF FormInv
  <1>6. ReadersInv
    <2> SUFFICES ASSUME NEW p \in Operations PROVE Unknown(p) /\ Fresh(p) /\ ReadInv(p)
      BY DEF ReadersInv
    <2>1. ReadsOnce(<<>>)
      BY SeqNone DEF ReadsOnce
    <2> QED
      BY <1>2, <1>4, <2>1 DEF Unknown, Fresh, ReadInv
  <1>7. LostInv
    BY DEF Init, LostInv
  <1>8. AddersInv
    BY <1>2 DEF AddersInv, ExecInv, CopyInv
  <1> QED
    BY <1>5, <1>6, <1>7, <1>8 DEF SInv

LEMMA SecondStutters ==
    ASSUME SInv, UNCHANGED vars
    PROVE  SInv'
  <1> USE DEF vars, txVars, history
  <1>1. FormInv' /\ LostInv'
    BY DEF SInv, FormInv, Owned, LostInv
  <1>2. ReadersInv'
    <2> SUFFICES ASSUME NEW p \in Operations PROVE Unknown(p)' /\ Fresh(p)' /\ ReadInv(p)'
      BY DEF ReadersInv
    <2>1. Unknown(p) /\ Fresh(p) /\ ReadInv(p)
      BY DEF SInv, ReadersInv
    <2>2. Unknown(p)' /\ Fresh(p)'
      BY <2>1 DEF Unknown, Fresh, Waiting, Reading
    <2>3. ReadInv(p)'
      BY <2>1 DEF ReadInv, Waiting
    <2> QED
      BY <2>2, <2>3
  <1>3. AddersInv'
    <2> SUFFICES ASSUME NEW p \in Operations PROVE ExecInv(p)' /\ CopyInv(p)'
      BY DEF AddersInv
    <2>1. ExecInv(p) /\ CopyInv(p)
      BY DEF SInv, AddersInv
    <2> QED
      BY <2>1 DEF ExecInv, CopyInv, Reading
  <1> QED
    BY <1>1, <1>2, <1>3 DEF SInv

LEMMA SecondKeeps ==
    ASSUME IInv, SInv, [Next]_vars
    PROVE  SInv'
  <1>1. CASE UNCHANGED vars
    BY <1>1, SecondStutters
  <1>2. ASSUME NEW p \in Operations, Moves(p) PROVE SInv'
    BY <1>2, FormKeeps, ReadersKeep, AddersKeep, LostKeeps DEF SInv
  <1> QED
    BY <1>1, <1>2 DEF Next, Moves

LEMMA SecondInvariant == Spec => []SInv
  <1>1. IInv /\ SInv /\ [Next]_vars => SInv'
    BY SecondKeeps
  <1> QED
    BY Invariant, SecondAtFirst, <1>1, PTL DEF Spec

\* How an operation is answered.
LEMMA Answers ==
    ASSUME NEW p \in Operations, IInv, Moves(p), result'[p] # result[p]
    PROVE  /\ todo[p] # <<>> /\ kind' = kind
           /\ \/ result'[p] = "error" /\ committed' = committed
              \/ /\ Statement(p).do = "insert" /\ ~Reading(p) /\ loaded' = loaded
                 /\ ~CommitTx(p) /\ result'[p] = "ok"
                 /\ \/ Notifies(Statement(p)) /\ committed' = committed
                    \/ /\ Len(todo[p]) = 1 /\ ~open[p]
                       /\ committed' = committed \cup {Statement(p).row}
              \/ /\ CommitTx(p) /\ ~Reading(p) /\ loaded' = loaded
                 /\ result'[p] = "ok" \/ lost' = [lost EXCEPT ![p] = TRUE]
  <1>1. ~Start(p) /\ ~Wait(p)
    BY DEF Start, Wait
  <1>2. todo[p] # <<>> /\ kind' = kind
    BY <1>1, Acting, Staying
  <1>3. DOMAIN result = Operations /\ Shape(todo[p], kind[p], p, open[p]) /\ open[p] \in BOOLEAN
    BY <1>2, UnderWay DEF IInv, TypeInv
  <1>4. Statement(p).do # "read" => ~Reading(p)
    BY <1>2, <1>3, NotReading DEF Reading, Statement
  <1>5. CASE Fail(p)
    <2>1. committed' = committed /\ loaded' = loaded
      BY <1>5 DEF Fail
    <2>2. CASE Notifies(Statement(p))
      <3>1. Statement(p).do = "insert" /\ result'[p] = "ok"
        BY <1>3, <1>5, <2>2 DEF Notifies, Fail, Answer
      <3>2. ~CommitTx(p)
        BY <3>1 DEF CommitTx
      <3> QED
        BY <1>2, <1>4, <2>1, <2>2, <3>1, <3>2
    <2>3. CASE ~Notifies(Statement(p))
      <3>1. result'[p] = "error"
        BY <1>3, <1>5, <2>3 DEF Fail, Answer
      <3> QED
        BY <1>2, <2>1, <3>1
    <2> QED
      BY <2>2, <2>3
  <1>6. CASE ReadTable(p)
    <2>1. result'[p] = "error" /\ committed' = committed
      BY <1>6, ReadingStep
    <2> QED
      BY <1>2, <2>1
  <1>7. CASE InsertRow(p) /\ ~Fail(p)
    <2>1. /\ Statement(p).do = "insert" /\ Len(todo[p]) = 1 /\ loaded' = loaded
          /\ ~open[p] => committed' = committed \cup {Statement(p).row}
          /\ Answer(p, "ok")
      BY <1>7 DEF InsertRow
    <2>2. ~open[p]
      <3>1. open[p] => Len(todo[p]) > 1
        BY <1>2, <2>1, Inserting
      <3> QED
        BY <2>1, <3>1
    <2>3. ~CommitTx(p) /\ result'[p] = "ok"
      BY <1>3, <2>1 DEF CommitTx, Answer
    <2> QED
      BY <1>2, <1>4, <2>1, <2>2, <2>3
  <1>8. CASE CommitTx(p)
    <2>1. /\ Statement(p).do = "commit" /\ loaded' = loaded
          /\ Answer(p, "ok") \/ lost' = [lost EXCEPT ![p] = TRUE]
      BY <1>8 DEF CommitTx
    <2>2. Answer(p, "ok") => result'[p] = "ok"
      BY <1>3 DEF Answer
    <2> QED
      BY <1>2, <1>4, <1>8, <2>1, <2>2
  <1> QED
    BY <1>1, <1>5, <1>6, <1>7, <1>8 DEF Moves, Step, DeleteRows, CheckReferences, EndDeadlock,
       StatementFails

\* Who has read, and whose reading is not stale, has read what is committed.
LEMMA ReadStays ==
    ASSUME NEW p \in Operations, IInv, SInv, Moves(p), todo[p] # <<>>, ~Reading(p),
           loaded' = loaded, kind[p] \in {"execute", "clone"}, ~stale[p],
           ~ (CommitTx(p) /\ kind[p] # "clone"), NEW tab \in ReadTabs(kind[p])
    PROVE  ReadAsIs(p, tab)'
  <1>1. ~ReadsOf(todo[p], tab)
    BY DEF ReadsOf, Reading, Has, Read
  <1>2. Part(loaded[p], tab) = Part(committed, tab)
    <2>1. ReadInv(p)
      BY DEF SInv, ReadersInv
    <2>2. IF ReadsOf(todo[p], tab) THEN Part(loaded[p], tab) = {}
          ELSE stale[p] \/ Part(loaded[p], tab) = Part(committed, tab)
      BY <2>1 DEF ReadInv
    <2> QED
      BY <1>1, <2>2, Zenon
  <1>3. Part(committed', tab) = Part(committed, tab)
    <2>1. tab \in {"workflow", "step", "edge", "note"}
      BY DEF ReadTabs
    <2> QED
      BY <2>1, Undisturbed DEF SInv
  <1>4. \A R, S : Part(R, tab) = Part(S, tab) => Names(R, tab, w) = Names(S, tab, w)
    <2> TAKE R, S
    <2>1. \A T : {r \in T : r.tab = tab /\ r.wf = w} = Part(T, tab)
      BY DEF Part
    <2> QED
      BY <2>1 DEF Names
  <1>5. Names(loaded'[p], tab, w) = Names(committed', tab, w)
    BY <1>2, <1>3, <1>4
  <1> QED
    BY <1>5 DEF ReadAsIs


\* An execution is answered when each step it has read has its record.
LEMMA ExecutionSees ==
    ASSUME NEW p \in Operations, IInv, SInv, Moves(p), result'[p] # result[p],
           Executed(p)', ~stale[p]
    PROVE  HasRecords(p)' /\ \A tab \in {"step", "edge"} : ReadAsIs(p, tab)'
  <1>1. /\ todo[p] # <<>> /\ kind' = kind /\ kind[p] = "execute" /\ result'[p] = "ok"
    BY Answers DEF Executed
  <1>2. ~CommitTx(p)
    BY <1>1, Executing DEF CommitTx
  <1>3. /\ Statement(p).do = "insert" /\ ~Reading(p) /\ loaded' = loaded
        /\ \/ Notifies(Statement(p)) /\ committed' = committed
           \/ /\ Len(todo[p]) = 1 /\ committed' = committed \cup {Statement(p).row}
    BY <1>1, <1>2, Answers
  <1>4. \A tab \in {"step", "edge"} : ReadAsIs(p, tab)'
    <2>1. {"step", "edge"} \subseteq ReadTabs(kind[p])
      BY DEF ReadTabs
    <2> QED
      BY <1>1, <1>2, <1>3, <2>1, ReadStays
  <1>5. /\ \A i \in 1 .. Len(todo[p]) : Notifies(todo[p][i]) => i = Len(todo[p])
        /\ \A s \in Names(loaded[p], "step", w) :
              RecordRow(w, s, p) \in committed \cup ToInsert(todo[p])
    <2>1. ExecInv(p)
      BY DEF SInv, AddersInv
    <2> QED
      BY <1>1, <1>3, <2>1 DEF ExecInv
  <1>6. Statement(p) = todo[p][1] /\ 1 \in 1 .. Len(todo[p])
    BY <1>1, UnderWay, FirstBefore
  <1>7. Len(todo[p]) = 1
    BY <1>3, <1>5, <1>6
  <1>8. \A r \in ToInsert(todo[p]) : r = Statement(p).row
    <2>1. \A i \in 1 .. 1 : i = 1
      OBVIOUS
    <2> QED
      BY <1>6, <1>7, <2>1 DEF ToInsert
  <1>9. ASSUME NEW s \in Names(loaded[p], "step", w) PROVE RecordRow(w, s, p) \in committed'
    <2>1. RecordRow(w, s, p) \in committed \/ RecordRow(w, s, p) = Statement(p).row
      BY <1>5, <1>8
    <2>2. RecordRow(w, s, p).tab = "record"
      BY DEF RecordRow, Row
    <2>3. Notifies(Statement(p)) => Statement(p).row.tab = "notification"
      BY DEF Notifies
    <2> QED
      BY <1>3, <2>1, <2>2, <2>3
  <1> QED
    BY <1>3, <1>4, <1>9 DEF HasRecords

\* Rows of a copy are added by who copies.
LEMMA OwnCopy ==
    ASSUME NEW p \in Operations, FormInv, NEW r \in committed, r.wf = p, kind[p] = "clone"
    PROVE  r.by = p
  <1>1. Owned(r) /\ p # w /\ p # other
    BY NamesAssumption DEF FormInv
  <1> QED
    BY <1>1 DEF Owned, Target

\* A copy is answered when it holds the names that were read.
LEMMA CopySees ==
    ASSUME NEW p \in Operations, IInv, SInv, Moves(p), result'[p] # result[p], Copied(p)'
    PROVE  \A tab \in {"step", "edge", "note"} :
              CopiedWhole(p, tab)' /\ (~stale[p] => ReadAsIs(p, tab)')
  <1>1. /\ todo[p] # <<>> /\ kind' = kind /\ kind[p] = "clone" /\ result'[p] = "ok"
    BY Answers DEF Copied
  <1>2. /\ \A r \in committed : r.by = p => r.tab = "workflow"
        /\ \A r \in ToInsert(todo[p]) : r.tab \in CanvasTabs \cup {"workflow"}
        /\ \/ Reading(p)
           \/ /\ open[p] \/ Has(todo[p], "delete")
              /\ \A tab \in CanvasTabs :
                    Names(inserted[p] \cup ToInsert(todo[p]), tab, p) = Names(loaded[p], tab, w)
    <2>1. CopyInv(p)
      BY DEF SInv, AddersInv
    <2> QED
      BY <1>1, <2>1 DEF CopyInv
  <1>3. Statement(p) = todo[p][1] /\ 1 \in 1 .. Len(todo[p])
    BY <1>1, UnderWay, FirstBefore
  <1>4. \A i \in 1 .. 1 : i = 1
    OBVIOUS
  <1>5. CommitTx(p) /\ ~Reading(p) /\ loaded' = loaded
    <2> SUFFICES ASSUME ~CommitTx(p) PROVE FALSE
      BY <1>1, Answers
    <2>1. /\ Statement(p).do = "insert" /\ ~Reading(p)
          /\ Notifies(Statement(p)) \/ (Len(todo[p]) = 1 /\ ~open[p])
      BY <1>1, Answers
    <2>2. ~Notifies(Statement(p))
      <3>1. Statement(p).row \in ToInsert(todo[p])
        BY <1>3, <2>1 DEF ToInsert
      <3>2. Statement(p).row.tab \in CanvasTabs \cup {"workflow"}
        BY <1>2, <3>1
      <3> QED
        BY <3>2 DEF Notifies, CanvasTabs
    <2>3. ~Has(todo[p], "delete")
      BY <1>3, <1>4, <2>1, <2>2 DEF Has
    <2> QED
      BY <1>2, <2>1, <2>2, <2>3
  <1>6. /\ ToInsert(todo[p]) = {} /\ committed' = (committed \ deleted[p]) \cup inserted[p]
    <2>1. Statement(p).do = "commit" /\ committed' = (committed \ deleted[p]) \cup inserted[p]
      BY <1>5 DEF CommitTx
    <2>2. Len(todo[p]) = 1
      BY <1>1, <2>1, Committing
    <2> QED
      BY <1>3, <1>4, <2>1, <2>2 DEF ToInsert
  <1>7. ASSUME NEW tab \in {"step", "edge", "note"} PROVE CopiedWhole(p, tab)'
    <2>1. tab \in CanvasTabs
      BY DEF CanvasTabs
    <2>2. Names(inserted[p], tab, p) = Names(loaded[p], tab, w)
      <3>1. inserted[p] \cup ToInsert(todo[p]) = inserted[p]
        BY <1>6
      <3> QED
        BY <1>2, <1>5, <2>1, <3>1
    <2>3. \A r \in committed : ~ (r.tab = tab /\ r.wf = p)
      BY <1>1, <1>2, OwnCopy DEF SInv
    <2>4. Names(committed', tab, p) = Names(inserted[p], tab, p)
      BY <1>6, <2>3 DEF Names
    <2>5. Names(committed', tab, p) = Names(loaded'[p], tab, w)
      BY <1>5, <2>2, <2>4
    <2> QED
      BY <2>5 DEF CopiedWhole
  <1>8. ASSUME NEW tab \in {"step", "edge", "note"}, ~stale[p] PROVE ReadAsIs(p, tab)'
    <2>1. tab \in ReadTabs(kind[p])
      BY <1>1 DEF ReadTabs
    <2> QED
      BY <1>1, <1>5, <1>8, <2>1, ReadStays
  <1> QED
    BY <1>7, <1>8

\* A copy that fails leaves no more than its workflow.
LEMMA NoCopyLeft ==
    ASSUME NEW p \in Operations, IInv, SInv, Moves(p), result'[p] # result[p], NotCopied(p)'
    PROVE  ~ \E r \in committed' : r.wf = p /\ r.tab # "workflow"
  <1>1. /\ todo[p] # <<>> /\ kind[p] = "clone" /\ result'[p] = "error" /\ ~lost'[p]
    BY Answers DEF NotCopied
  <1>2. \A r \in committed : r.by = p => r.tab = "workflow"
    <2>1. CopyInv(p)
      BY DEF SInv, AddersInv
    <2> QED
      BY <1>1, <2>1 DEF CopyInv
  <1>3. \A r \in committed : r.wf = p => r.tab = "workflow"
    BY <1>1, <1>2, OwnCopy DEF SInv
  <1>4. ~ (lost' = [lost EXCEPT ![p] = TRUE])
    BY <1>1 DEF SInv, LostInv
  <1>5. committed' = committed
    BY <1>1, <1>4, Answers
  <1> QED
    BY <1>1, <1>3, <1>5


\* An execution is admitted to run one canvas, each step of it with its record, and a copy
\* is all of one canvas, or nothing of it, whatever saves and deletes run beside them,
\* unless one is committed before the reader is answered (Execute, executor.go:107, Clone,
\* service.go:119).
THEOREM ReadersGetOneCanvas == Spec => ReadersSeeOneCanvas
  <1> DEFINE Sees(p) ==
               result'[p] # result[p] =>
                 /\ Executed(p)' /\ ~stale[p] =>
                       HasRecords(p)' /\ \A tab \in {"step", "edge"} : ReadAsIs(p, tab)'
                 /\ Copied(p)' =>
                       \A tab \in {"step", "edge", "note"} :
                          CopiedWhole(p, tab)' /\ (~stale[p] => ReadAsIs(p, tab)')
                 /\ NotCopied(p)' => ~ \E r \in committed' : r.wf = p /\ r.tab # "workflow"
  <1>1. ASSUME IInv, SInv, [Next]_vars PROVE [\A p \in Operations : Sees(p)]_vars
    <2> SUFFICES ASSUME Next, NEW p \in Operations, result'[p] # result[p] PROVE Sees(p)
      BY <1>1
    <2>1. PICK q \in Operations : Moves(q)
      BY DEF Next, Moves
    <2>2. q = p
      BY <1>1, <2>1, OwnSteps DEF IInv, Moves, Others, Same
    <2> QED
      BY <1>1, <2>1, <2>2, ExecutionSees, CopySees, NoCopyLeft
  <1> QED
    BY Invariant, SecondInvariant, <1>1, PTL DEF Spec, ReadersSeeOneCanvas

--------------------------------------------------------------------------------
(***************************************************************************)
(* Ids are unique.                                                         *)
(***************************************************************************)
\* No two rows that are committed have the same key, nor two rows that an operation sees,
\* nor two that operations add.
Unique(R) == \A r, x \in R : Key(r) = Key(x) => r = x

UniqueInv ==
    /\ Unique(committed)
    /\ \A p \in Operations :
          Unique(inserted[p]) /\ Keys(inserted[p]) \cap Keys(committed \ deleted[p]) = {}
    /\ \A p, q \in Operations : p # q =>
          Keys(inserted[p]) \cap Keys(inserted[q] \cup deleted[q]) = {}

\* Rows with keys that the others do not have.
LEMMA UniqueTogether ==
    ASSUME NEW R, Unique(R), NEW S, Unique(S), Keys(R) \cap Keys(S) = {}
    PROVE  Unique(R \cup S)
  BY DEF Unique, Keys

LEMMA KeysTogether == \A R, S : Keys(R \cup S) = Keys(R) \cup Keys(S)
  BY DEF Keys

LEMMA KeysWithin == \A R, S : R \subseteq S => Keys(R) \subseteq Keys(S)
  BY DEF Keys

LEMMA KeysOne == \A r : Keys({r}) = {Key(r)} /\ Unique({r})
  BY DEF Keys, Unique

LEMMA KeysNone == Keys({}) = {} /\ Unique({})
  BY DEF Keys, Unique

\* What one operation changes of what it adds and deletes.
LEMMA UniqueBeside ==
    ASSUME NEW p \in Operations, UniqueInv, Unique(committed'), Unique(inserted'[p]),
           Keys(inserted'[p]) \cap Keys(committed' \ deleted'[p]) = {},
           \A q \in Operations : q # p =>
              /\ inserted'[q] = inserted[q] /\ deleted'[q] = deleted[q]
              /\ Keys(inserted[q]) \cap Keys(committed' \ deleted[q]) = {}
              /\ Keys(inserted[q]) \cap Keys(inserted'[p] \cup deleted'[p]) = {}
              /\ Keys(inserted'[p]) \cap Keys(inserted[q] \cup deleted[q]) = {}
    PROVE  UniqueInv'
  <1>1. ASSUME NEW q \in Operations
        PROVE  Unique(inserted'[q]) /\ Keys(inserted'[q]) \cap Keys(committed' \ deleted'[q]) = {}
    <2>1. CASE q = p
      BY <2>1
    <2>2. CASE q # p
      BY <2>2 DEF UniqueInv
    <2> QED
      BY <2>1, <2>2
  <1>2. ASSUME NEW q \in Operations, NEW x \in Operations, q # x
        PROVE  Keys(inserted'[q]) \cap Keys(inserted'[x] \cup deleted'[x]) = {}
    <2>1. CASE q = p
      <3>1. inserted'[x] = inserted[x] /\ deleted'[x] = deleted[x]
        BY <1>2, <2>1
      <3> QED
        BY <1>2, <2>1, <3>1
    <2>2. CASE x = p
      <3>1. inserted'[q] = inserted[q]
        BY <1>2, <2>2
      <3> QED
        BY <1>2, <2>2, <3>1
    <2>3. CASE q # p /\ x # p
      <3>1. inserted'[q] = inserted[q] /\ inserted'[x] = inserted[x] /\ deleted'[x] = deleted[x]
        BY <2>3
      <3> QED
        BY <1>2, <3>1 DEF UniqueInv
    <2> QED
      BY <2>1, <2>2, <2>3
  <1> QED
    BY <1>1, <1>2 DEF UniqueInv, Unique, Keys, Key

\* An operation that rolls back.
LEMMA UniqueClosed ==
    ASSUME NEW p \in Operations, IInv, UniqueInv, committed' = committed, Close(p)
    PROVE  UniqueInv'
  <1>1. DOMAIN inserted = Operations /\ DOMAIN deleted = Operations
    BY DEF IInv, TypeInv
  <1>2. inserted'[p] = {} /\ deleted'[p] = {}
    BY <1>1 DEF Close
  <1>3. \A q \in Operations : q # p => inserted'[q] = inserted[q] /\ deleted'[q] = deleted[q]
    BY <1>1 DEF Close
  <1>4. Keys(inserted'[p]) = {} /\ Keys(inserted'[p] \cup deleted'[p]) = {} /\ Unique(inserted'[p])
    BY <1>2, KeysNone
  <1>5. Unique(committed') /\ \A q \in Operations : Keys(inserted[q]) \cap Keys(committed' \ deleted[q]) = {}
    BY DEF UniqueInv
  <1> QED
    BY <1>3, <1>4, <1>5, UniqueBeside

\* An INSERT.
LEMMA UniqueInserted ==
    ASSUME NEW p \in Operations, IInv, UniqueInv, InsertRow(p)
    PROVE  UniqueInv'
  <1> DEFINE row == Statement(p).row
  <1>1. /\ DOMAIN inserted = Operations /\ Statement(p).do = "insert" /\ Blockers(p) = {}
    BY DEF IInv, TypeInv, InsertRow
  <1>2. CASE Fail(p)
    BY <1>2, UniqueClosed DEF Fail, RollBack
  <1>3. CASE ~Fail(p)
    <2>1. /\ Key(row) \notin Keys(Visible(p))
          /\ IF open[p] THEN /\ inserted' = [inserted EXCEPT ![p] = @ \cup {row}]
                             /\ committed' = committed
                        ELSE committed' = committed \cup {row} /\ inserted' = inserted
          /\ deleted' = deleted
      BY <1>3 DEF InsertRow
    <2>2. \A q \in Operations : q # p => Key(row) \notin Keys(inserted[q] \cup deleted[q])
      BY <1>1 DEF Blockers
    <2>3. Key(row) \notin Keys(committed \ deleted[p]) \cup Keys(inserted[p])
      BY <2>1, KeysTogether DEF Visible
    <2> HIDE DEF row
    <2>4. CASE open[p]
      <3>1. inserted'[p] = inserted[p] \cup {row} /\ committed' = committed /\ deleted' = deleted
        BY <1>1, <2>1, <2>4
      <3>2. \A q \in Operations : q # p => inserted'[q] = inserted[q]
        BY <1>1, <2>1, <2>4
      <3>3. Keys(inserted'[p]) = Keys(inserted[p]) \cup {Key(row)}
        BY <3>1 DEF Keys
      <3>4. Unique(inserted'[p])
        <4>1. Unique(inserted[p]) /\ Unique({row}) /\ Keys({row}) = {Key(row)}
          BY KeysOne DEF UniqueInv
        <4> QED
          BY <2>3, <3>1, <4>1, UniqueTogether
      <3>5. ASSUME NEW q \in Operations, q # p
            PROVE  /\ Keys(inserted[q]) \cap Keys(inserted'[p] \cup deleted'[p]) = {}
                   /\ Keys(inserted'[p]) \cap Keys(inserted[q] \cup deleted[q]) = {}
        <4>1. /\ Keys(inserted[q]) \cap Keys(inserted[p] \cup deleted[p]) = {}
              /\ Keys(inserted[p]) \cap Keys(inserted[q] \cup deleted[q]) = {}
          BY <3>5 DEF UniqueInv
        <4>2. Keys(inserted'[p] \cup deleted'[p]) = Keys(inserted[p] \cup deleted[p]) \cup {Key(row)}
          BY <3>1 DEF Keys
        <4>3. Key(row) \notin Keys(inserted[q] \cup deleted[q]) /\ Key(row) \notin Keys(inserted[q])
          BY <2>2, <3>5 DEF Keys
        <4> QED
          BY <3>3, <4>1, <4>2, <4>3
      <3>6. Unique(committed') /\ Keys(inserted'[p]) \cap Keys(committed' \ deleted'[p]) = {}
        BY <2>3, <3>1, <3>3 DEF UniqueInv
      <3> QED
        BY <3>1, <3>2, <3>4, <3>5, <3>6, UniqueBeside DEF UniqueInv
    <2>5. CASE ~open[p]
      <3>1. inserted[p] = {} /\ deleted[p] = {}
        BY <2>5 DEF IInv, TxInv, Tx
      <3>2. committed' = committed \cup {row} /\ inserted' = inserted /\ deleted' = deleted
        BY <2>1, <2>5
      <3>3. Unique(committed')
        <4>1. Key(row) \notin Keys(committed)
          BY <2>3, <3>1
        <4> QED
          BY <3>2, <4>1 DEF UniqueInv, Unique, Keys
      <3>4. ASSUME NEW q \in Operations, q # p
            PROVE  Keys(inserted[q]) \cap Keys(committed' \ deleted[q]) = {}
        <4>1. Keys(committed' \ deleted[q]) \subseteq Keys(committed \ deleted[q]) \cup {Key(row)}
          <5>1. committed' \ deleted[q] \subseteq (committed \ deleted[q]) \cup {row}
            BY <3>2
          <5> QED
            BY <5>1 DEF Keys
        <4> QED
          <5>1. Keys(inserted[q]) \cap Keys(committed \ deleted[q]) = {}
            BY <3>4 DEF UniqueInv
          <5>2. Key(row) \notin Keys(inserted[q])
            BY <2>2, <3>4 DEF Keys
          <5> QED
            BY <4>1, <5>1, <5>2
      <3>5. \A q \in Operations : q # p =>
               /\ Keys(inserted[q]) \cap Keys(inserted'[p] \cup deleted'[p]) = {}
               /\ Keys(inserted'[p]) \cap Keys(inserted[q] \cup deleted[q]) = {}
        BY <3>2 DEF UniqueInv
      <3>6. Unique(inserted'[p]) /\ Keys(inserted'[p]) \cap Keys(committed' \ deleted'[p]) = {}
        BY <3>1, <3>2, KeysNone
      <3> QED
        BY <3>2, <3>3, <3>4, <3>5, <3>6, UniqueBeside
    <2> QED
      BY <2>4, <2>5
  <1> QED
    BY <1>2, <1>3

\* A DELETE.
LEMMA UniqueDeleted ==
    ASSUME NEW p \in Operations, IInv, UniqueInv, DeleteRows(p)
    PROVE  UniqueInv'
  <1>1. /\ DOMAIN inserted = Operations /\ DOMAIN deleted = Operations
        /\ Statement(p).do = "delete" /\ Blockers(p) = {}
    BY DEF IInv, TypeInv, DeleteRows
  <1>2. CASE Fail(p)
    BY <1>2, UniqueClosed DEF Fail, RollBack
  <1>3. CASE ~Fail(p)
    <2> DEFINE F == Found(p)
    <2>1. /\ deleted' = [deleted EXCEPT ![p] = @ \cup (F \cap committed)]
          /\ inserted' = [inserted EXCEPT ![p] = @ \ F]
          /\ committed' = committed
      BY <1>3 DEF DeleteRows
    <2>2. \A q \in Operations : q # p => F \cap deleted[q] = {}
      BY <1>1 DEF Blockers
    <2> HIDE DEF F
    <2>3. deleted'[p] = deleted[p] \cup (F \cap committed) /\ inserted'[p] \subseteq inserted[p]
      BY <1>1, <2>1
    <2>4. \A q \in Operations : q # p => inserted'[q] = inserted[q] /\ deleted'[q] = deleted[q]
      BY <1>1, <2>1
    <2>5. Keys(inserted'[p]) \subseteq Keys(inserted[p]) /\ Unique(inserted'[p])
      BY <2>3, KeysWithin DEF UniqueInv, Unique
    <2>6. Keys(committed' \ deleted'[p]) \subseteq Keys(committed \ deleted[p])
      <3>1. committed' \ deleted'[p] \subseteq committed \ deleted[p]
        BY <2>1, <2>3
      <3> QED
        BY <3>1, KeysWithin
    <2>7. ASSUME NEW q \in Operations, q # p
          PROVE  Keys(inserted[q]) \cap Keys(inserted'[p] \cup deleted'[p]) = {}
      <3>1. F \cap committed \subseteq committed \ deleted[q]
        BY <2>2, <2>7
      <3>2. Keys(F \cap committed) \subseteq Keys(committed \ deleted[q])
        BY <3>1, KeysWithin
      <3>3. Keys(inserted'[p] \cup deleted'[p])
               \subseteq Keys(inserted[p] \cup deleted[p]) \cup Keys(F \cap committed)
        BY <2>3 DEF Keys
      <3>4. /\ Keys(inserted[q]) \cap Keys(committed \ deleted[q]) = {}
            /\ Keys(inserted[q]) \cap Keys(inserted[p] \cup deleted[p]) = {}
        BY <2>7 DEF UniqueInv
      <3> QED
        BY <3>2, <3>3, <3>4
    <2>8. ASSUME NEW q \in Operations, q # p
          PROVE  /\ Keys(inserted'[p]) \cap Keys(inserted[q] \cup deleted[q]) = {}
                 /\ Keys(inserted[q]) \cap Keys(committed' \ deleted[q]) = {}
      <3>1. /\ Keys(inserted[p]) \cap Keys(inserted[q] \cup deleted[q]) = {}
            /\ Keys(inserted[q]) \cap Keys(committed \ deleted[q]) = {}
        BY <2>8 DEF UniqueInv
      <3> QED
        BY <2>1, <2>5, <3>1
    <2>9. Unique(committed') /\ Keys(inserted[p]) \cap Keys(committed \ deleted[p]) = {}
      BY <2>1 DEF UniqueInv
    <2>10. Keys(inserted'[p]) \cap Keys(committed' \ deleted'[p]) = {}
      BY <2>5, <2>6, <2>9
    <2> QED
      BY <2>4, <2>5, <2>7, <2>8, <2>9, <2>10, UniqueBeside
  <1> QED
    BY <1>2, <1>3

\* A commit.
LEMMA UniqueCommitted ==
    ASSUME NEW p \in Operations, IInv, UniqueInv, CommitTx(p)
    PROVE  UniqueInv'
  <1> DEFINE kept == committed \ deleted[p]
  <1>1. DOMAIN inserted = Operations /\ DOMAIN deleted = Operations
    BY DEF IInv, TypeInv
  <1>2. committed' = kept \cup inserted[p] /\ inserted'[p] = {} /\ deleted'[p] = {}
    BY <1>1 DEF CommitTx, Close
  <1>3. \A q \in Operations : q # p => inserted'[q] = inserted[q] /\ deleted'[q] = deleted[q]
    BY <1>1 DEF CommitTx, Close
  <1>4. Unique(kept) /\ Unique(inserted[p]) /\ Keys(kept) \cap Keys(inserted[p]) = {}
    BY DEF UniqueInv, Unique
  <1>5. \A q \in Operations : committed \ deleted[p] \subseteq committed
    OBVIOUS
  <1> HIDE DEF kept
  <1>6. Unique(committed')
    BY <1>2, <1>4, UniqueTogether
  <1>7. ASSUME NEW q \in Operations, q # p
        PROVE  Keys(inserted[q]) \cap Keys(committed' \ deleted[q]) = {}
    <2>1. committed' \ deleted[q] \subseteq (committed \ deleted[q]) \cup (inserted[p] \cup deleted[p])
      BY <1>2 DEF kept
    <2>2. Keys(committed' \ deleted[q])
             \subseteq Keys(committed \ deleted[q]) \cup Keys(inserted[p] \cup deleted[p])
      BY <2>1 DEF Keys
    <2>3. /\ Keys(inserted[q]) \cap Keys(committed \ deleted[q]) = {}
          /\ Keys(inserted[q]) \cap Keys(inserted[p] \cup deleted[p]) = {}
      BY <1>7 DEF UniqueInv
    <2> QED
      BY <2>2, <2>3
  <1> QED
    BY <1>2, <1>3, <1>6, <1>7, UniqueBeside, KeysNone

LEMMA UniqueKeeps ==
    ASSUME NEW p \in Operations, IInv, UniqueInv, Moves(p)
    PROVE  UniqueInv'
  <1>1. ASSUME UNCHANGED <<committed, inserted, deleted>> PROVE UniqueInv'
    BY <1>1 DEF UniqueInv
  <1>2. ASSUME Fail(p) PROVE UniqueInv'
    BY <1>2, UniqueClosed DEF Fail, RollBack
  <1>3. Start(p) \/ ReadTable(p) \/ Wait(p) => UNCHANGED <<committed, inserted, deleted>>
    BY DEF Start, ReadTable, Wait, txVars
  <1>4. CheckReferences(p) => Fail(p) \/ UNCHANGED <<committed, inserted, deleted>>
    BY DEF CheckReferences, txVars
  <1>5. StatementFails(p) \/ EndDeadlock(p) => Fail(p)
    BY DEF StatementFails, EndDeadlock
  <1> QED
    BY <1>1, <1>2, <1>3, <1>4, <1>5, UniqueInserted, UniqueDeleted, UniqueCommitted
       DEF Moves, Step

LEMMA UniqueAtFirst == Init => UniqueInv
  <1> SUFFICES ASSUME Init PROVE UniqueInv
    OBVIOUS
  <1>1. Unique(committed)
    BY DEF Init, Unique
  <1>2. \A p \in Operations : inserted[p] = {} /\ deleted[p] = {}
    BY DEF Init
  <1> QED
    BY <1>1, <1>2, KeysNone DEF UniqueInv

--------------------------------------------------------------------------------
(***************************************************************************)
(* Rows and the keys they refer to.                                        *)
(***************************************************************************)
\* What each table holds.
LEMMA RowsOfTable ==
    ASSUME NEW r, Formed(r)
    PROVE  /\ r.tab \in {"workflow", "step", "edge", "note", "execution", "record",
                         "notification"}
           /\ r.tab = "workflow" => r.id = r.wf /\ r.by = r.wf /\ r.refs = {}
           /\ r.tab \in {"step", "note"} =>
                 r.id = <<Origin(r.wf), r.has>> /\ r.refs = {<<"workflow", r.wf>>}
           /\ r.tab = "edge" =>
                 /\ r.id = <<Origin(r.wf), r.has.id>>
                 /\ r.refs = {<<"workflow", r.wf>>, StepKey(r.wf, r.has.from),
                              StepKey(r.wf, r.has.to)}
           /\ r.tab = "execution" => r.id = r.by /\ r.refs = {<<"workflow", r.wf>>}
           /\ r.tab = "record" =>
                 /\ r.id = <<r.by, r.has>>
                 /\ r.refs = {<<"execution", r.by>>, StepKey(r.wf, r.has)}
           /\ r.tab = "notification" =>
                 r.id = r.by /\ r.refs = {<<"execution", r.by>>, <<"workflow", r.wf>>}
  <1>1. CASE r = WorkflowRow(r.wf, r.wf)
    BY <1>1 DEF WorkflowRow, Row
  <1>2. CASE r.tab = "step" /\ r = StepRow(r.wf, r.has, r.by)
    BY <1>2 DEF StepRow, Row
  <1>3. CASE r.tab = "edge" /\ r = EdgeRow(r.wf, r.has, r.by)
    BY <1>3 DEF EdgeRow, Row
  <1>4. CASE r.tab = "note" /\ r = NoteRow(r.wf, r.has, r.by)
    BY <1>4 DEF NoteRow, Row
  <1>5. CASE r = ExecutionRow(r.wf, r.by)
    BY <1>5 DEF ExecutionRow, Row
  <1>6. CASE r.tab = "record" /\ r = RecordRow(r.wf, r.has, r.by)
    BY <1>6 DEF RecordRow, Row
  <1>7. CASE r = NotificationRow(r.wf, r.by)
    BY <1>7 DEF NotificationRow, Row
  <1> QED
    BY <1>1, <1>2, <1>3, <1>4, <1>5, <1>6, <1>7 DEF Formed

\* What the rows of the other workflow are about.
LEMMA OtherHas ==
    /\ \A r \in OtherRows : r.wf = other
    /\ \A r \in OtherRows :
          /\ r.tab \in {"step", "record"} => r.has \in ToSet(Rest.steps)
          /\ r.tab = "edge" => r.has \in ToSet(Rest.edges)
          /\ r.tab = "note" => r.has \in ToSet(Rest.notes)
    /\ \A s \in ToSet(Rest.steps) : StepRow(other, s, other) \in OtherRows
    /\ \A e \in ToSet(Rest.edges) : EdgeRow(other, e, other) \in OtherRows
  <1>1. /\ WorkflowRow(other, other).tab = "workflow"
        /\ ExecutionRow(other, other).tab = "execution"
    BY DEF WorkflowRow, ExecutionRow, Row
  <1>2. \A s : /\ RecordRow(other, s, other).tab = "record" /\ RecordRow(other, s, other).has = s
               /\ StepRow(other, s, other).tab = "step" /\ StepRow(other, s, other).has = s
               /\ NoteRow(other, s, other).tab = "note" /\ NoteRow(other, s, other).has = s
               /\ EdgeRow(other, s, other).tab = "edge" /\ EdgeRow(other, s, other).has = s
    BY DEF RecordRow, StepRow, NoteRow, EdgeRow, Row
  <1>3. ASSUME NEW r \in OtherRows
        PROVE  \/ r = WorkflowRow(other, other) \/ r = ExecutionRow(other, other)
               \/ \E s \in ToSet(Rest.steps) : r = RecordRow(other, s, other)
               \/ \E s \in ToSet(Rest.steps) : r = StepRow(other, s, other)
               \/ \E e \in ToSet(Rest.edges) : r = EdgeRow(other, e, other)
               \/ \E n \in ToSet(Rest.notes) : r = NoteRow(other, n, other)
    BY DEF OtherRows, CanvasRows
  <1>4. ASSUME NEW r \in OtherRows
        PROVE  /\ r.tab \in {"step", "record"} => r.has \in ToSet(Rest.steps)
               /\ r.tab = "edge" => r.has \in ToSet(Rest.edges)
               /\ r.tab = "note" => r.has \in ToSet(Rest.notes)
    BY <1>1, <1>2, <1>3
  <1>5. /\ \A s \in ToSet(Rest.steps) : StepRow(other, s, other) \in OtherRows
        /\ \A e \in ToSet(Rest.edges) : EdgeRow(other, e, other) \in OtherRows
    BY DEF OtherRows, CanvasRows
  <1> QED
    BY <1>4, <1>5, RowsOfOther

\* Pages choose the ids of both workflows, and of no copy.
LEMMA Origins ==
    /\ Origin(w) = page /\ Origin(other) = page /\ w # other
    /\ \A p \in Operations : Origin(p) = p /\ p # page /\ p # w /\ p # other
  BY NamesAssumption DEF Origin

\* Whose step a key is of.
LEMMA WhoseStep ==
    ASSUME IInv, FormInv, NEW f \in committed, NEW wf, NEW s, Key(f) = StepKey(wf, s)
    PROVE  /\ f.tab = "step" /\ f.has = s /\ Origin(f.wf) = Origin(wf)
           /\ wf \in Operations => f.wf = wf
           /\ wf \in {w, other} => f.wf = w \/ (f \in OtherRows /\ s \in ToSet(Rest.steps))
  <1>1. f.tab = "step" /\ f.id = <<Origin(wf), s>>
    BY DEF Key, StepKey
  <1>2. f.id = <<Origin(f.wf), f.has>>
    BY <1>1, RowsOfTable DEF FormInv
  <1>3. f.has = s /\ Origin(f.wf) = Origin(wf)
    BY <1>1, <1>2
  <1>4. f.wf \in Operations \cup {w} \/ f \in OtherRows
    BY DEF IInv, RowsInv, WhoseOK
  <1>5. wf \in Operations => f.wf = wf
    BY <1>3, <1>4, Origins, OtherHas
  <1>6. ASSUME wf \in {w, other}
        PROVE  f.wf = w \/ (f \in OtherRows /\ s \in ToSet(Rest.steps))
    <2>1. f.wf \notin Operations
      BY <1>3, <1>6, Origins
    <2> QED
      BY <1>1, <1>3, <1>4, <2>1, OtherHas
  <1> QED
    BY <1>1, <1>3, <1>5, <1>6

\* The edges of the other workflow join its own steps.
RestJoined == \A e \in ToSet(Rest.edges) : {e.from, e.to} \subseteq ToSet(Rest.steps)

\* Or one of them joins a step of this one, for good.
LEMMA HeldOrJoined ==
    ASSUME IInv, FormInv, ~RestJoined
    PROVE  Held
  <1>0. PICK e \in ToSet(Rest.edges) : ~ {e.from, e.to} \subseteq ToSet(Rest.steps)
    BY DEF RestJoined
  <1>1. PICK s \in {e.from, e.to} : s \notin ToSet(Rest.steps)
    BY <1>0
  <1> DEFINE r == EdgeRow(other, e, other)
  <1>2. r.tab = "edge" /\ StepKey(other, s) \in r.refs
    BY <1>1 DEF EdgeRow, Row
  <1>3. r \in OtherRows
    BY OtherHas
  <1>4. r \in committed /\ r.refs \subseteq Keys(committed)
    BY <1>3 DEF IInv, RowsInv, ReferencesInv
  <1>5. PICK f \in committed : Key(f) = StepKey(other, s)
    BY <1>2, <1>4 DEF Keys
  <1>6. f.wf = w
    BY <1>1, <1>5, WhoseStep
  <1>7. StepKey(other, s) \in Keys({x \in committed : x.wf = w})
    BY <1>5, <1>6 DEF Keys
  <1>8. RefersTo(r, Keys({x \in committed : x.wf = w}))
    BY <1>2, <1>7 DEF RefersTo
  <1> QED
    BY <1>2, <1>3, <1>8 DEF Held

\* The tables that refer to a table.
Referring(tab) ==
    CASE tab = "step" -> {"edge", "record"}
      [] tab = "execution" -> {"record", "notification"}
      [] tab = "workflow" -> {"step", "edge", "note", "execution", "record", "notification"}
      [] OTHER -> {}

\* Rows of the workflow are referred to by rows of it, in the tables that refer to theirs.
LEMMA Refers ==
    ASSUME IInv, FormInv, Unique(committed), RestJoined,
           NEW r \in committed, NEW f \in committed, f.wf = w, Key(f) \in r.refs
    PROVE  r.tab \in Referring(f.tab) /\ r.wf = w
  <1>1. Key(f) = <<f.tab, f.id>> /\ Formed(f) /\ Owned(f) /\ Formed(r) /\ Owned(r)
    BY DEF Key, FormInv
  <1>2. r.by = f.by => r.wf = f.wf
    BY <1>1 DEF Owned
  <1>3. /\ f.tab = "workflow" => f.id = f.wf
        /\ f.tab = "execution" => f.id = f.by
    BY <1>1, RowsOfTable
  <1>4. ASSUME NEW wf, Key(f) = <<"workflow", wf>>
        PROVE  f.tab = "workflow" /\ wf = w
    BY <1>1, <1>3, <1>4
  <1>5. ASSUME NEW op, Key(f) = <<"execution", op>>
        PROVE  f.tab = "execution" /\ f.by = op
    BY <1>1, <1>3, <1>5
  <1>6. ASSUME NEW s, Key(f) = StepKey(r.wf, s), r \in OtherRows => s \in ToSet(Rest.steps)
        PROVE  f.tab = "step" /\ r.wf = w
    <2>1. f.tab = "step" /\ Origin(r.wf) = page
      BY <1>6, WhoseStep, Origins
    <2>2. r.wf = w \/ r \in OtherRows
      BY <2>1, Origins DEF IInv, RowsInv, WhoseOK
    <2>3. ASSUME r \in OtherRows PROVE FALSE
      <3>1. r.wf = other /\ StepRow(other, s, other) \in OtherRows
        BY <1>6, <2>3, OtherHas
      <3>2. /\ Key(StepRow(other, s, other)) = StepKey(other, s)
            /\ StepRow(other, s, other).wf = other
        BY DEF StepRow, StepKey, Row, Key
      <3>3. StepRow(other, s, other) \in committed
        BY <3>1 DEF IInv, RowsInv
      <3>4. f = StepRow(other, s, other)
        BY <1>6, <3>1, <3>2, <3>3 DEF Unique
      <3> QED
        BY <3>2, <3>4, Origins
    <2> QED
      BY <2>1, <2>2, <2>3
  <1>7. CASE r.tab = "workflow"
    BY <1>1, <1>7, RowsOfTable
  <1>8. CASE r.tab \in {"step", "note", "execution"}
    <2>1. r.refs = {<<"workflow", r.wf>>}
      BY <1>1, <1>8, RowsOfTable
    <2> QED
      BY <1>4, <1>8, <2>1 DEF Referring
  <1>9. CASE r.tab = "edge"
    <2>1. r.refs = {<<"workflow", r.wf>>, StepKey(r.wf, r.has.from), StepKey(r.wf, r.has.to)}
      BY <1>1, <1>9, RowsOfTable
    <2>2. r \in OtherRows => {r.has.from, r.has.to} \subseteq ToSet(Rest.steps)
      BY <1>9, OtherHas DEF RestJoined
    <2>3. CASE Key(f) = <<"workflow", r.wf>>
      BY <1>4, <1>9, <2>3 DEF Referring
    <2>4. CASE Key(f) # <<"workflow", r.wf>>
      <3>1. PICK s \in {r.has.from, r.has.to} : Key(f) = StepKey(r.wf, s)
        BY <2>1, <2>4
      <3>2. f.tab = "step" /\ r.wf = w
        BY <1>6, <2>2, <3>1
      <3> QED
        BY <1>9, <3>2 DEF Referring
    <2> QED
      BY <2>3, <2>4
  <1>10. CASE r.tab = "record"
    <2>1. r.refs = {<<"execution", r.by>>, StepKey(r.wf, r.has)}
      BY <1>1, <1>10, RowsOfTable
    <2>2. r \in OtherRows => r.has \in ToSet(Rest.steps)
      BY <1>10, OtherHas
    <2>3. CASE Key(f) = <<"execution", r.by>>
      BY <1>2, <1>5, <1>10, <2>3 DEF Referring
    <2>4. CASE Key(f) = StepKey(r.wf, r.has)
      <3>1. f.tab = "step" /\ r.wf = w
        BY <1>6, <2>2, <2>4
      <3> QED
        BY <1>10, <3>1 DEF Referring
    <2> QED
      BY <2>1, <2>3, <2>4
  <1>11. CASE r.tab = "notification"
    <2>1. r.refs = {<<"execution", r.by>>, <<"workflow", r.wf>>}
      BY <1>1, <1>11, RowsOfTable
    <2> QED
      BY <1>2, <1>4, <1>5, <1>11, <2>1 DEF Referring
  <1> QED
    BY <1>1, <1>7, <1>8, <1>9, <1>10, <1>11, RowsOfTable

--------------------------------------------------------------------------------
(***************************************************************************)
(* Lists of statements none of which fails.                                *)
(***************************************************************************)
DeletedBefore(t, i, tab) == \E j \in 1 .. i - 1 : t[j].do = "delete" /\ t[j].tab = tab
InsertedBefore(t, i, key) == \E j \in 1 .. i - 1 : t[j].do = "insert" /\ Key(t[j].row) = key

\* A row goes before the statement.
GoneBefore(t, i, r, wf) == r.wf = wf /\ DeletedBefore(t, i, r.tab)

\* A DELETE finds no row referred to by one that stays, and that of the workflow finds it.
CanDelete(t, i, V, wf) ==
    /\ \A f, r \in V : f.tab = t[i].tab /\ f.wf = wf /\ Key(f) \in r.refs => GoneBefore(t, i, r, wf)
    /\ \A j \in 1 .. i - 1 : t[j].do = "insert" => t[j].row.tab # t[i].tab /\ t[j].row.refs = {}
    /\ t[i].tab = "workflow" =>
          wf = w /\ WorkflowRow(w, w) \in V /\ ~DeletedBefore(t, i, "workflow")

\* An INSERT has an id that is free, and refers to what is there.
CanInsert(t, i, V, wf) ==
    /\ ~InsertedBefore(t, i, Key(t[i].row))
    /\ \A f \in V : Key(f) = Key(t[i].row) => GoneBefore(t, i, f, wf)
    /\ \A key \in t[i].row.refs :
          \/ InsertedBefore(t, i, key)
          \/ \E f \in V : Key(f) = key /\ ~GoneBefore(t, i, f, wf)

\* A list of statements about a workflow none of which fails, for who sees V.
Feasible(t, V, wf) ==
    \A i \in 1 .. Len(t) :
       /\ t[i].do # "check"
       /\ t[i].do = "delete" => CanDelete(t, i, V, wf)
       /\ t[i].do = "insert" => CanInsert(t, i, V, wf)

\* What comes before a statement is the first one, or comes before it in the others.
LEMMA PlacesBefore ==
    ASSUME NEW x, NEW t, NEW u, IsSeq(t), Before(u, x, t), NEW i \in 1 .. Len(t)
    PROVE  /\ i + 1 \in 1 .. Len(u) /\ t[i] = u[i + 1] /\ x = u[1] /\ (i + 1) - 1 = i
           /\ \A tab : DeletedBefore(u, i + 1, tab) <=>
                 (x.do = "delete" /\ x.tab = tab) \/ DeletedBefore(t, i, tab)
           /\ \A key : InsertedBefore(u, i + 1, key) <=>
                 (x.do = "insert" /\ Key(x.row) = key) \/ InsertedBefore(t, i, key)
           /\ \A j \in 1 .. i - 1 : j + 1 \in 1 .. i /\ t[j] = u[j + 1]
           /\ \A j \in 1 .. i : j = 1 \/ (j - 1 \in 1 .. i - 1 /\ u[j] = t[j - 1])
           /\ 1 \in 1 .. i
  <1>1. /\ Len(t) \in Nat /\ Len(u) = Len(t) + 1 /\ u[1] = x
        /\ \A j \in 1 .. Len(t) : t[j] = u[j + 1]
    BY SeqParts DEF Before
  <1>2. \A j \in 1 .. i : j = 1 \/ (j - 1 \in 1 .. i - 1 /\ u[j] = t[j - 1])
    <2> TAKE j \in 1 .. i
    <2>1. j # 1 => j - 1 \in 1 .. i - 1 /\ j - 1 \in 1 .. Len(t) /\ (j - 1) + 1 = j
      BY <1>1
    <2> QED
      BY <1>1, <2>1
  <1>3. \A j \in 1 .. i - 1 : j + 1 \in 1 .. i /\ t[j] = u[j + 1]
    BY <1>1
  <1>4. 1 \in 1 .. i /\ i + 1 \in 1 .. Len(u)
    BY <1>1
  <1>5. (i + 1) - 1 = i
    BY <1>1
  <1>6. \A tab : DeletedBefore(u, i + 1, tab) <=>
           (x.do = "delete" /\ x.tab = tab) \/ DeletedBefore(t, i, tab)
    <2> TAKE tab
    <2>1. DeletedBefore(u, i + 1, tab) <=> \E j \in 1 .. i : u[j].do = "delete" /\ u[j].tab = tab
      BY <1>5 DEF DeletedBefore
    <2>2. ASSUME NEW j \in 1 .. i, u[j].do = "delete" /\ u[j].tab = tab
          PROVE  (x.do = "delete" /\ x.tab = tab) \/ DeletedBefore(t, i, tab)
      BY <1>1, <1>2, <2>2 DEF DeletedBefore
    <2>3. ASSUME NEW j \in 1 .. i - 1, t[j].do = "delete" /\ t[j].tab = tab
          PROVE  \E m \in 1 .. i : u[m].do = "delete" /\ u[m].tab = tab
      BY <1>3, <2>3
    <2>4. x.do = "delete" /\ x.tab = tab => \E m \in 1 .. i : u[m].do = "delete" /\ u[m].tab = tab
      BY <1>1, <1>4
    <2>5. DeletedBefore(t, i, tab) => \E m \in 1 .. i : u[m].do = "delete" /\ u[m].tab = tab
      BY <2>3 DEF DeletedBefore
    <2> QED
      BY <2>1, <2>2, <2>4, <2>5
  <1>7. \A key : InsertedBefore(u, i + 1, key) <=>
           (x.do = "insert" /\ Key(x.row) = key) \/ InsertedBefore(t, i, key)
    <2> TAKE key
    <2>1. InsertedBefore(u, i + 1, key) <=>
             \E j \in 1 .. i : u[j].do = "insert" /\ Key(u[j].row) = key
      BY <1>5 DEF InsertedBefore
    <2>2. ASSUME NEW j \in 1 .. i, u[j].do = "insert" /\ Key(u[j].row) = key
          PROVE  (x.do = "insert" /\ Key(x.row) = key) \/ InsertedBefore(t, i, key)
      BY <1>1, <1>2, <2>2 DEF InsertedBefore
    <2>3. ASSUME NEW j \in 1 .. i - 1, t[j].do = "insert" /\ Key(t[j].row) = key
          PROVE  \E m \in 1 .. i : u[m].do = "insert" /\ Key(u[m].row) = key
      BY <1>3, <2>3
    <2>4. x.do = "insert" /\ Key(x.row) = key =>
             \E m \in 1 .. i : u[m].do = "insert" /\ Key(u[m].row) = key
      BY <1>1, <1>4
    <2>5. InsertedBefore(t, i, key) =>
             \E m \in 1 .. i : u[m].do = "insert" /\ Key(u[m].row) = key
      BY <2>3 DEF InsertedBefore
    <2> QED
      BY <2>1, <2>2, <2>4, <2>5
  <1> QED
    BY <1>1, <1>2, <1>3, <1>4, <1>5, <1>6, <1>7

\* A DELETE leaves a list that does not fail.
LEMMA FeasibleDeleted ==
    ASSUME NEW t, IsSeq(t), t # <<>>, Head(t).do = "delete", NEW V, NEW wf,
           Feasible(t, V, wf),
           NEW U, U = {r \in V : ~ (r.tab = Head(t).tab /\ r.wf = wf)}
    PROVE  Feasible(Tail(t), U, wf)
  <1> DEFINE u == Tail(t)
             s == Head(t)
  <1> HIDE DEF u, s
  <1> SUFFICES ASSUME NEW i \in 1 .. Len(u)
               PROVE  /\ u[i].do # "check"
                      /\ u[i].do = "delete" => CanDelete(u, i, U, wf)
                      /\ u[i].do = "insert" => CanInsert(u, i, U, wf)
    BY DEF Feasible, u
  <1>1. /\ i + 1 \in 1 .. Len(t) /\ u[i] = t[i + 1] /\ (i + 1) - 1 = i
        /\ \A tab : DeletedBefore(t, i + 1, tab) <=> s.tab = tab \/ DeletedBefore(u, i, tab)
        /\ \A key : InsertedBefore(t, i + 1, key) <=> InsertedBefore(u, i, key)
        /\ \A j \in 1 .. i - 1 : j + 1 \in 1 .. i /\ u[j] = t[j + 1]
    <2>1. IsSeq(u) /\ Before(t, s, u) /\ s.do = "delete"
      BY FirstBefore DEF u, s
    <2> QED
      BY <2>1, PlacesBefore
  <1>2. /\ t[i + 1].do # "check"
        /\ t[i + 1].do = "delete" => CanDelete(t, i + 1, V, wf)
        /\ t[i + 1].do = "insert" => CanInsert(t, i + 1, V, wf)
    BY <1>1 DEF Feasible
  <1>3. U \subseteq V /\ \A r \in V : r \in U <=> ~ (r.tab = s.tab /\ r.wf = wf)
    BY DEF s
  <1>4. \A r : GoneBefore(t, i + 1, r, wf) <=> (r.wf = wf /\ r.tab = s.tab) \/ GoneBefore(u, i, r, wf)
    BY <1>1 DEF GoneBefore
  <1>5. ASSUME u[i].do = "delete" PROVE CanDelete(u, i, U, wf)
    <2>1. CanDelete(t, i + 1, V, wf)
      BY <1>1, <1>2, <1>5
    <2>2. \A f, r \in U : f.tab = u[i].tab /\ f.wf = wf /\ Key(f) \in r.refs => GoneBefore(u, i, r, wf)
      BY <1>1, <1>3, <1>4, <2>1 DEF CanDelete
    <2>3. \A j \in 1 .. i - 1 : u[j].do = "insert" => u[j].row.tab # u[i].tab /\ u[j].row.refs = {}
      BY <1>1, <2>1 DEF CanDelete
    <2>4. u[i].tab = "workflow" =>
             wf = w /\ WorkflowRow(w, w) \in U /\ ~DeletedBefore(u, i, "workflow")
      <3>1. WorkflowRow(w, w).tab = "workflow"
        BY DEF WorkflowRow, Row
      <3> QED
        BY <1>1, <1>3, <2>1, <3>1 DEF CanDelete
    <2> QED
      BY <2>2, <2>3, <2>4 DEF CanDelete
  <1>6. ASSUME u[i].do = "insert" PROVE CanInsert(u, i, U, wf)
    <2> DEFINE row == u[i].row
    <2>1. CanInsert(t, i + 1, V, wf) /\ t[i + 1].row = row
      BY <1>1, <1>2, <1>6
    <2> HIDE DEF row
    <2>2. ~InsertedBefore(u, i, Key(row))
      BY <1>1, <2>1 DEF CanInsert
    <2>3. \A f \in U : Key(f) = Key(row) => GoneBefore(u, i, f, wf)
      BY <1>3, <1>4, <2>1 DEF CanInsert
    <2>4. ASSUME NEW key \in row.refs, ~InsertedBefore(u, i, key)
          PROVE  \E f \in U : Key(f) = key /\ ~GoneBefore(u, i, f, wf)
      <3>1. PICK f \in V : Key(f) = key /\ ~GoneBefore(t, i + 1, f, wf)
        BY <1>1, <2>1, <2>4 DEF CanInsert
      <3> QED
        BY <1>3, <1>4, <3>1
    <2> QED
      BY <2>2, <2>3, <2>4 DEF CanInsert, row
  <1> QED
    BY <1>1, <1>2, <1>5, <1>6

\* An INSERT leaves a list that does not fail.
LEMMA FeasibleInserted ==
    ASSUME NEW t, IsSeq(t), t # <<>>, Head(t).do = "insert", NEW V, NEW wf, Feasible(t, V, wf),
           NEW U, U = V \cup {Head(t).row}
    PROVE  Feasible(Tail(t), U, wf)
  <1> DEFINE u == Tail(t)
             s == Head(t)
  <1> HIDE DEF u, s
  <1> SUFFICES ASSUME NEW i \in 1 .. Len(u)
               PROVE  /\ u[i].do # "check"
                      /\ u[i].do = "delete" => CanDelete(u, i, U, wf)
                      /\ u[i].do = "insert" => CanInsert(u, i, U, wf)
    BY DEF Feasible, u
  <1>1. /\ i + 1 \in 1 .. Len(t) /\ u[i] = t[i + 1] /\ s = t[1] /\ 1 \in 1 .. i /\ (i + 1) - 1 = i
        /\ \A tab : DeletedBefore(t, i + 1, tab) <=> DeletedBefore(u, i, tab)
        /\ \A key : InsertedBefore(t, i + 1, key) <=>
              Key(s.row) = key \/ InsertedBefore(u, i, key)
        /\ \A j \in 1 .. i - 1 : j + 1 \in 1 .. i /\ u[j] = t[j + 1]
    <2>1. IsSeq(u) /\ Before(t, s, u) /\ s.do = "insert"
      BY FirstBefore DEF u, s
    <2> QED
      BY <2>1, PlacesBefore
  <1>2. /\ t[i + 1].do # "check"
        /\ t[i + 1].do = "delete" => CanDelete(t, i + 1, V, wf)
        /\ t[i + 1].do = "insert" => CanInsert(t, i + 1, V, wf)
    BY <1>1 DEF Feasible
  <1>3. U = V \cup {s.row} /\ s.do = "insert"
    BY DEF s
  <1>4. \A r : GoneBefore(t, i + 1, r, wf) <=> GoneBefore(u, i, r, wf)
    BY <1>1 DEF GoneBefore
  <1>5. ASSUME u[i].do = "delete" PROVE CanDelete(u, i, U, wf)
    <2>1. CanDelete(t, i + 1, V, wf)
      BY <1>1, <1>2, <1>5
    <2>2. s.row.tab # u[i].tab /\ s.row.refs = {}
      BY <1>1, <1>3, <2>1 DEF CanDelete
    <2>3. \A f, r \in U : f.tab = u[i].tab /\ f.wf = wf /\ Key(f) \in r.refs => GoneBefore(u, i, r, wf)
      BY <1>1, <1>3, <1>4, <2>1, <2>2 DEF CanDelete
    <2>4. \A j \in 1 .. i - 1 : u[j].do = "insert" => u[j].row.tab # u[i].tab /\ u[j].row.refs = {}
      BY <1>1, <2>1 DEF CanDelete
    <2>5. u[i].tab = "workflow" =>
             wf = w /\ WorkflowRow(w, w) \in U /\ ~DeletedBefore(u, i, "workflow")
      BY <1>1, <1>3, <2>1 DEF CanDelete
    <2> QED
      BY <2>3, <2>4, <2>5 DEF CanDelete
  <1>6. ASSUME u[i].do = "insert" PROVE CanInsert(u, i, U, wf)
    <2> DEFINE row == u[i].row
    <2>1. CanInsert(t, i + 1, V, wf) /\ t[i + 1].row = row
      BY <1>1, <1>2, <1>6
    <2> HIDE DEF row
    <2>2. ~InsertedBefore(u, i, Key(row)) /\ Key(s.row) # Key(row)
      BY <1>1, <2>1 DEF CanInsert
    <2>3. \A f \in U : Key(f) = Key(row) => GoneBefore(u, i, f, wf)
      BY <1>3, <1>4, <2>1, <2>2 DEF CanInsert
    <2>4. ~GoneBefore(u, i, s.row, wf)
      <3>1. ASSUME NEW j \in 1 .. i - 1, u[j].do = "delete" PROVE u[j].tab # s.row.tab
        <4>1. 1 \in 1 .. (j + 1) - 1 /\ j + 1 \in 1 .. Len(t) /\ u[j] = t[j + 1]
          BY <1>1, SeqParts
        <4>2. CanDelete(t, j + 1, V, wf)
          BY <3>1, <4>1 DEF Feasible
        <4> QED
          BY <1>1, <1>3, <4>1, <4>2 DEF CanDelete
      <3> QED
        BY <3>1 DEF GoneBefore, DeletedBefore
    <2>5. ASSUME NEW key \in row.refs, ~InsertedBefore(u, i, key)
          PROVE  \E f \in U : Key(f) = key /\ ~GoneBefore(u, i, f, wf)
      <3>1. CASE Key(s.row) = key
        BY <1>3, <2>4, <3>1
      <3>2. CASE Key(s.row) # key
        BY <1>1, <1>3, <1>4, <2>1, <2>5, <3>2 DEF CanInsert
      <3> QED
        BY <3>1, <3>2
    <2> QED
      BY <2>2, <2>3, <2>5 DEF CanInsert, row
  <1> QED
    BY <1>1, <1>2, <1>5, <1>6

\* What the first statement of an operation alone finds.
LEMMA FirstFeasible ==
    ASSUME NEW t, IsSeq(t), t # <<>>, NEW V, NEW wf, Feasible(t, V, wf)
    PROVE  /\ Head(t).do # "check"
           /\ Head(t).do = "delete" =>
                 /\ \A f, r \in V : ~ (f.tab = Head(t).tab /\ f.wf = wf /\ Key(f) \in r.refs)
                 /\ Head(t).tab = "workflow" => wf = w /\ WorkflowRow(w, w) \in V
           /\ Head(t).do = "insert" =>
                 Key(Head(t).row) \notin Keys(V) /\ Head(t).row.refs \subseteq Keys(V)
  <1>1. Head(t) = t[1] /\ 1 \in 1 .. Len(t)
    BY FirstBefore
  <1>2. \A j \in 1 .. 1 - 1 : FALSE
    OBVIOUS
  <1>3. /\ \A r : ~GoneBefore(t, 1, r, wf)
        /\ \A key : ~InsertedBefore(t, 1, key)
    BY <1>2 DEF DeletedBefore, InsertedBefore, GoneBefore
  <1>4. Head(t).do = "insert" =>
           Key(Head(t).row) \notin Keys(V) /\ Head(t).row.refs \subseteq Keys(V)
    BY <1>1, <1>3 DEF Feasible, CanInsert, Keys
  <1> QED
    BY <1>1, <1>3, <1>4 DEF Feasible, CanDelete

\* Reading cannot fail for want of rows to delete or add.
LEMMA ReadsFeasible ==
    ASSUME NEW t, \A i \in 1 .. Len(t) : t[i].do = "read", NEW V, NEW wf
    PROVE  Feasible(t, V, wf)
  BY DEF Feasible

\* The statements of a save by their places: what it deletes, then the steps, the edges
\* and the notes in the order of the canvas.
SaveAt(t, wf, canvas, op, a, b, c) ==
    /\ IsSeq(t) /\ Len(t) = (((4 + a) + b) + c) + 1
    /\ a \in Nat /\ b \in Nat /\ c \in Nat
    /\ \A i \in 1 .. 4 : t[i] = DeleteFrom(Cleared[i], wf)
    /\ \A i \in 1 .. a : t[4 + i] = Insert(StepRow(wf, canvas.steps[i], op))
    /\ \A i \in 1 .. b : t[(4 + a) + i] = Insert(EdgeRow(wf, canvas.edges[i], op))
    /\ \A i \in 1 .. c : t[((4 + a) + b) + i] = Insert(NoteRow(wf, canvas.notes[i], op))
    /\ t[(((4 + a) + b) + c) + 1] = Commit

LEMMA SaveList ==
    ASSUME NEW wf, NEW canvas, NEW op, IsCanvas(canvas)
    PROVE  SaveAt(Save(wf, canvas, op), wf, canvas, op,
                  Len(canvas.steps), Len(canvas.edges), Len(canvas.notes))
  <1> DEFINE a == Len(canvas.steps)
             b == Len(canvas.edges)
             c == Len(canvas.notes)
             S == InsertAll([i \in DOMAIN canvas.steps |-> StepRow(wf, canvas.steps[i], op)])
             E == InsertAll([i \in DOMAIN canvas.edges |-> EdgeRow(wf, canvas.edges[i], op)])
             N == InsertAll([i \in DOMAIN canvas.notes |-> NoteRow(wf, canvas.notes[i], op)])
             D == DeleteAll(Cleared, wf)
             e == <<Commit>>
             t == Save(wf, canvas, op)
  <1>1. /\ a \in Nat /\ DOMAIN canvas.steps = 1 .. a
        /\ b \in Nat /\ DOMAIN canvas.edges = 1 .. b
        /\ c \in Nat /\ DOMAIN canvas.notes = 1 .. c
    BY SeqParts DEF IsCanvas
  <1> HIDE DEF a, b, c
  <1>2. IsSeq(S) /\ Len(S) = a /\ \A i \in 1 .. a : S[i] = Insert(StepRow(wf, canvas.steps[i], op))
    <2>1. S = [i \in 1 .. a |-> S[i]]
          /\ \A i \in 1 .. a : S[i] = Insert(StepRow(wf, canvas.steps[i], op))
      BY <1>1 DEF InsertAll
    <2> HIDE DEF S
    <2> QED
      BY <1>1, <2>1, SeqOfPlaces
  <1>3. IsSeq(E) /\ Len(E) = b /\ \A i \in 1 .. b : E[i] = Insert(EdgeRow(wf, canvas.edges[i], op))
    <2>1. E = [i \in 1 .. b |-> E[i]]
          /\ \A i \in 1 .. b : E[i] = Insert(EdgeRow(wf, canvas.edges[i], op))
      BY <1>1 DEF InsertAll
    <2> HIDE DEF E
    <2> QED
      BY <1>1, <2>1, SeqOfPlaces
  <1>4. IsSeq(N) /\ Len(N) = c /\ \A i \in 1 .. c : N[i] = Insert(NoteRow(wf, canvas.notes[i], op))
    <2>1. N = [i \in 1 .. c |-> N[i]]
          /\ \A i \in 1 .. c : N[i] = Insert(NoteRow(wf, canvas.notes[i], op))
      BY <1>1 DEF InsertAll
    <2> HIDE DEF N
    <2> QED
      BY <1>1, <2>1, SeqOfPlaces
  <1>5. IsSeq(D) /\ Len(D) = 4 /\ \A i \in 1 .. 4 : D[i] = DeleteFrom(Cleared[i], wf)
    <2>1. D = [i \in 1 .. 4 |-> D[i]] /\ \A i \in 1 .. 4 : D[i] = DeleteFrom(Cleared[i], wf)
      BY DEF DeleteAll, Cleared
    <2> HIDE DEF D
    <2> QED
      BY <2>1, SeqOfPlaces
  <1>6. IsSeq(e) /\ Len(e) = 1 /\ e[1] = Commit
    BY SeqOne
  <1>7. t = (((D \o S) \o E) \o N) \o e
    BY DEF Save
  <1> HIDE DEF S, E, N, D, e, t
  <1>8. ASSUME NEW x, NEW y, IsSeq(x), IsSeq(y)
        PROVE  /\ IsSeq(x \o y) /\ Len(x \o y) = Len(x) + Len(y)
               /\ \A i \in 1 .. Len(x) : (x \o y)[i] = x[i]
               /\ \A i \in 1 .. Len(y) : (x \o y)[Len(x) + i] = y[i]
    BY <1>8, SeqConcat
  <1> DEFINE DS == D \o S
             DSE == DS \o E
             DSEN == DSE \o N
  <1>9. /\ IsSeq(DS) /\ Len(DS) = 4 + a
        /\ \A i \in 1 .. 4 : DS[i] = D[i]
        /\ \A i \in 1 .. a : DS[4 + i] = S[i]
    <2>1. IsSeq(D) /\ IsSeq(S)
      BY <1>2, <1>5
    <2>2. /\ IsSeq(D \o S) /\ Len(D \o S) = Len(D) + Len(S)
          /\ \A i \in 1 .. Len(D) : (D \o S)[i] = D[i]
          /\ \A i \in 1 .. Len(S) : (D \o S)[Len(D) + i] = S[i]
      BY <2>1, <1>8
    <2> QED
      BY <1>2, <1>5, <2>2
  <1> HIDE DEF DS
  <1>10. /\ IsSeq(DSE) /\ Len(DSE) = (4 + a) + b
         /\ \A i \in 1 .. 4 + a : DSE[i] = DS[i]
         /\ \A i \in 1 .. b : DSE[(4 + a) + i] = E[i]
    BY <1>3, <1>8, <1>9
  <1> HIDE DEF DSE
  <1>11. /\ IsSeq(DSEN) /\ Len(DSEN) = ((4 + a) + b) + c
         /\ \A i \in 1 .. (4 + a) + b : DSEN[i] = DSE[i]
         /\ \A i \in 1 .. c : DSEN[((4 + a) + b) + i] = N[i]
    BY <1>4, <1>8, <1>10
  <1> HIDE DEF DSEN
  <1>12. t = DSEN \o e
    BY <1>7 DEF DS, DSE, DSEN
  <1>13. /\ IsSeq(t) /\ Len(t) = (((4 + a) + b) + c) + 1
         /\ \A i \in 1 .. ((4 + a) + b) + c : t[i] = DSEN[i]
         /\ \A i \in 1 .. 1 : t[(((4 + a) + b) + c) + i] = e[i]
    <2>1. IsSeq(DSEN) /\ IsSeq(e)
      BY <1>6, <1>11
    <2>2. /\ IsSeq(DSEN \o e) /\ Len(DSEN \o e) = Len(DSEN) + Len(e)
          /\ \A i \in 1 .. Len(DSEN) : (DSEN \o e)[i] = DSEN[i]
          /\ \A i \in 1 .. Len(e) : (DSEN \o e)[Len(DSEN) + i] = e[i]
      BY <2>1, <1>8
    <2> QED
      BY <1>6, <1>11, <1>12, <2>2
  <1>14. \A i \in 1 .. 4 : t[i] = DeleteFrom(Cleared[i], wf)
    <2> TAKE i \in 1 .. 4
    <2>1. i \in 1 .. 4 + a /\ i \in 1 .. (4 + a) + b /\ i \in 1 .. ((4 + a) + b) + c
      BY <1>1
    <2> QED
      BY <1>5, <1>9, <1>10, <1>11, <1>13, <2>1
  <1>15. \A i \in 1 .. a : t[4 + i] = Insert(StepRow(wf, canvas.steps[i], op))
    <2> TAKE i \in 1 .. a
    <2>1. 4 + i \in 1 .. 4 + a /\ 4 + i \in 1 .. (4 + a) + b /\ 4 + i \in 1 .. ((4 + a) + b) + c
      BY <1>1
    <2> QED
      BY <1>2, <1>9, <1>10, <1>11, <1>13, <2>1
  <1>16. \A i \in 1 .. b : t[(4 + a) + i] = Insert(EdgeRow(wf, canvas.edges[i], op))
    <2> TAKE i \in 1 .. b
    <2>1. (4 + a) + i \in 1 .. (4 + a) + b /\ (4 + a) + i \in 1 .. ((4 + a) + b) + c
      BY <1>1
    <2> QED
      BY <1>3, <1>10, <1>11, <1>13, <2>1
  <1>17. \A i \in 1 .. c : t[((4 + a) + b) + i] = Insert(NoteRow(wf, canvas.notes[i], op))
    <2> TAKE i \in 1 .. c
    <2>1. ((4 + a) + b) + i \in 1 .. ((4 + a) + b) + c
      BY <1>1
    <2> QED
      BY <1>4, <1>11, <1>13, <2>1
  <1>18. t[(((4 + a) + b) + c) + 1] = Commit
    BY <1>6, <1>13
  <1> QED
    BY <1>1, <1>13, <1>14, <1>15, <1>16, <1>17, <1>18 DEF a, b, c, t, SaveAt

\* A deletion deletes a table after those that refer to it.
LEMMA DeleteFeasible ==
    ASSUME NEW V, WorkflowRow(w, w) \in V,
           \A f, r \in V : f.wf = w /\ Key(f) \in r.refs => r.wf = w /\ r.tab \in Referring(f.tab)
    PROVE  Feasible(DeleteWorkflow, V, w)
  <1> DEFINE t == DeleteWorkflow
  <1>1. Len(t) = 8 /\ t[8] = Commit /\ \A i \in 1 .. 7 : t[i] = DeleteFrom(DeletedTabs[i], w)
    BY DeleteList
  <1> HIDE DEF t
  <1>2. \A i \in 1 .. 7 : t[i].do = "delete" /\ t[i].tab = DeletedTabs[i]
    BY <1>1 DEF DeleteFrom
  <1>3. /\ t[1].tab = "notification" /\ t[2].tab = "record" /\ t[3].tab = "execution"
        /\ t[4].tab = "edge" /\ t[5].tab = "step" /\ t[6].tab = "note" /\ t[7].tab = "workflow"
    BY <1>2 DEF DeletedTabs
  <1>4. t[8].do = "commit"
    BY <1>1 DEF Commit
  <1>5. \A i \in 1 .. 7 : \A j \in 1 .. i - 1 :
           j \in 1 .. 7 /\ t[j].do = "delete" /\ DeletedBefore(t, i, t[j].tab)
    <2> TAKE i \in 1 .. 7
    <2> TAKE j \in 1 .. i - 1
    <2>1. j \in 1 .. 7
      OBVIOUS
    <2> QED
      BY <1>2, <2>1 DEF DeletedBefore
  <1>6. \A tab \in Referring(t[3].tab) : DeletedBefore(t, 3, tab)
    <2>1. 1 \in 1 .. 3 - 1 /\ 2 \in 1 .. 3 - 1 /\ 3 \in 1 .. 7
      OBVIOUS
    <2>2. DeletedBefore(t, 3, "notification") /\ DeletedBefore(t, 3, "record")
      BY <1>3, <1>5, <2>1
    <2> QED
      BY <1>3, <2>2 DEF Referring
  <1>7. \A tab \in Referring(t[5].tab) : DeletedBefore(t, 5, tab)
    <2>1. 2 \in 1 .. 5 - 1 /\ 4 \in 1 .. 5 - 1 /\ 5 \in 1 .. 7
      OBVIOUS
    <2>2. DeletedBefore(t, 5, "edge") /\ DeletedBefore(t, 5, "record")
      BY <1>3, <1>5, <2>1
    <2> QED
      BY <1>3, <2>2 DEF Referring
  <1>8. \A tab \in Referring(t[7].tab) : DeletedBefore(t, 7, tab)
    <2>1. /\ 1 \in 1 .. 7 - 1 /\ 2 \in 1 .. 7 - 1 /\ 3 \in 1 .. 7 - 1 /\ 4 \in 1 .. 7 - 1
          /\ 5 \in 1 .. 7 - 1 /\ 6 \in 1 .. 7 - 1 /\ 7 \in 1 .. 7
      OBVIOUS
    <2>2. /\ DeletedBefore(t, 7, "notification") /\ DeletedBefore(t, 7, "record")
          /\ DeletedBefore(t, 7, "execution") /\ DeletedBefore(t, 7, "edge")
          /\ DeletedBefore(t, 7, "step") /\ DeletedBefore(t, 7, "note")
      BY <1>3, <1>5, <2>1
    <2> QED
      BY <1>3, <2>2 DEF Referring
  <1>9. ~DeletedBefore(t, 7, "workflow")
    <2>1. \A j \in 1 .. 7 - 1 : j = 1 \/ j = 2 \/ j = 3 \/ j = 4 \/ j = 5 \/ j = 6
      OBVIOUS
    <2> QED
      BY <1>3, <2>1 DEF DeletedBefore
  <1>10. \A i \in {1, 2, 4, 6} : Referring(t[i].tab) = {} /\ t[i].tab # "workflow"
    BY <1>3 DEF Referring
  <1>11. \A i \in {3, 5} : t[i].tab # "workflow"
    BY <1>3
  <1>12. \A i \in 1 .. 8 : \/ i \in {1, 2, 4, 6} \/ i = 3 \/ i = 5 \/ i = 7 \/ i = 8
    OBVIOUS
  <1>13. ASSUME NEW i \in 1 .. 8, i # 8 PROVE CanDelete(t, i, V, w)
    <2>1. i \in 1 .. 7
      BY <1>13
    <2>2. \A j \in 1 .. i - 1 : t[j].do # "insert"
      BY <1>5, <2>1
    <2>3. \A tab \in Referring(t[i].tab) : DeletedBefore(t, i, tab)
      BY <1>6, <1>7, <1>8, <1>10, <1>12, <1>13
    <2>4. t[i].tab = "workflow" => ~DeletedBefore(t, i, "workflow")
      BY <1>9, <1>10, <1>11, <1>12, <1>13
    <2>5. \A f, r \in V : f.tab = t[i].tab /\ f.wf = w /\ Key(f) \in r.refs => GoneBefore(t, i, r, w)
      BY <2>3 DEF GoneBefore
    <2> QED
      BY <2>2, <2>4, <2>5 DEF CanDelete
  <1>14. ASSUME NEW i \in 1 .. 8
         PROVE  /\ t[i].do # "check" /\ t[i].do # "insert"
                /\ t[i].do = "delete" => CanDelete(t, i, V, w)
    <2>1. CASE i = 8
      BY <1>4, <2>1
    <2>2. CASE i # 8
      <3>1. i \in 1 .. 7
        BY <2>2
      <3> QED
        BY <1>2, <1>13, <2>2, <3>1
    <2> QED
      BY <2>1, <2>2
  <1> QED
    BY <1>1, <1>14 DEF Feasible, t

\* A save deletes the edges and records before the steps, and adds the steps before the
\* edges that join them; its ids are free when the rows of the workflow are deleted.
LEMMA SaveFeasible ==
    ASSUME NEW wf, NEW canvas, NEW op, IsCanvas(canvas), NEW V,
           IsInjective(canvas.steps), IsInjective(EdgeIds(canvas)), IsInjective(canvas.notes),
           \E f \in V : f.tab = "workflow" /\ Key(f) = <<"workflow", wf>>,
           \A f, r \in V :
              f.wf = wf /\ f.tab \in {"edge", "record", "step", "note"} /\ Key(f) \in r.refs =>
                 f.tab = "step" /\ r.wf = wf /\ r.tab \in {"edge", "record"},
           \A f \in V :
              /\ \A s \in ToSet(canvas.steps) : Key(f) = Key(StepRow(wf, s, op)) => f.wf = wf
              /\ \A e \in ToSet(canvas.edges) : Key(f) = Key(EdgeRow(wf, e, op)) => f.wf = wf
              /\ \A n \in ToSet(canvas.notes) : Key(f) = Key(NoteRow(wf, n, op)) => f.wf = wf,
           \A e \in ToSet(canvas.edges) : \A s \in {e.from, e.to} :
              s \in ToSet(canvas.steps) \/ \E f \in V : Key(f) = StepKey(wf, s) /\ f.wf # wf
    PROVE  LET t == Save(wf, canvas, op)
           IN  /\ Feasible(t, V, wf) /\ IsSeq(t)
               /\ \A i \in 1 .. Len(t) : t[i].do \in {"delete", "insert"} =>
                     (IF t[i].do = "delete" THEN t[i] ELSE t[i].row).tab
                        \in {"edge", "record", "step", "note"}
  <1> DEFINE t == Save(wf, canvas, op)
             a == Len(canvas.steps)
             b == Len(canvas.edges)
             c == Len(canvas.notes)
  <1>0. SaveAt(t, wf, canvas, op, a, b, c)
    BY SaveList
  <1>2. /\ DOMAIN canvas.steps = 1 .. a /\ DOMAIN canvas.edges = 1 .. b
        /\ DOMAIN canvas.notes = 1 .. c
    BY SeqParts DEF IsCanvas
  <1> HIDE DEF t, a, b, c
  <1>1. /\ IsSeq(t) /\ Len(t) = (((4 + a) + b) + c) + 1
        /\ a \in Nat /\ b \in Nat /\ c \in Nat
        /\ \A i \in 1 .. 4 : t[i] = DeleteFrom(Cleared[i], wf)
        /\ \A i \in 1 .. a : t[4 + i] = Insert(StepRow(wf, canvas.steps[i], op))
        /\ \A i \in 1 .. b : t[(4 + a) + i] = Insert(EdgeRow(wf, canvas.edges[i], op))
        /\ \A i \in 1 .. c : t[((4 + a) + b) + i] = Insert(NoteRow(wf, canvas.notes[i], op))
        /\ t[(((4 + a) + b) + c) + 1] = Commit
    BY <1>0 DEF SaveAt
  <1>3. \A i \in 1 .. Len(t) :
           \/ i \in 1 .. 4
           \/ \E x \in 1 .. a : i = 4 + x
           \/ \E x \in 1 .. b : i = (4 + a) + x
           \/ \E x \in 1 .. c : i = ((4 + a) + b) + x
           \/ i = (((4 + a) + b) + c) + 1
    <2> TAKE i \in 1 .. Len(t)
    <2>1. CASE i <= 4
      BY <2>1
    <2>2. CASE 4 < i /\ i <= 4 + a
      <3>1. i - 4 \in 1 .. a /\ i = 4 + (i - 4)
        BY <1>1, <2>2
      <3> QED
        BY <3>1
    <2>3. CASE 4 + a < i /\ i <= (4 + a) + b
      <3>1. i - (4 + a) \in 1 .. b /\ i = (4 + a) + (i - (4 + a))
        BY <1>1, <2>3
      <3> QED
        BY <3>1
    <2>4. CASE (4 + a) + b < i /\ i <= ((4 + a) + b) + c
      <3>1. i - ((4 + a) + b) \in 1 .. c /\ i = ((4 + a) + b) + (i - ((4 + a) + b))
        BY <1>1, <2>4
      <3> QED
        BY <3>1
    <2>5. CASE ((4 + a) + b) + c < i
      BY <1>1, <2>5
    <2> QED
      BY <1>1, <2>1, <2>2, <2>3, <2>4, <2>5
  <1>4. /\ t[1].do = "delete" /\ t[1].tab = "edge" /\ t[2].do = "delete" /\ t[2].tab = "record"
        /\ t[3].do = "delete" /\ t[3].tab = "step" /\ t[4].do = "delete" /\ t[4].tab = "note"
    BY <1>1 DEF DeleteFrom, Cleared
  <1>5. \A x \in 1 .. a : /\ t[4 + x].do = "insert" /\ t[4 + x].row.tab = "step"
                          /\ t[4 + x].row = StepRow(wf, canvas.steps[x], op)
                          /\ Key(t[4 + x].row) = StepKey(wf, canvas.steps[x])
                          /\ t[4 + x].row.refs = {<<"workflow", wf>>}
    <2> TAKE x \in 1 .. a
    <2>1. t[4 + x] = Insert(StepRow(wf, canvas.steps[x], op))
      BY <1>1
    <2> QED
      BY <2>1 DEF Insert, StepRow, Row, Key, StepKey
  <1>6. \A x \in 1 .. b :
           LET e == canvas.edges[x]
               row == t[(4 + a) + x].row
           IN  /\ t[(4 + a) + x].do = "insert" /\ row.tab = "edge"
               /\ row = EdgeRow(wf, e, op)
               /\ Key(row) = <<"edge", <<Origin(wf), e.id>>>>
               /\ row.refs = {<<"workflow", wf>>, StepKey(wf, e.from), StepKey(wf, e.to)}
    <2> TAKE x \in 1 .. b
    <2>1. t[(4 + a) + x] = Insert(EdgeRow(wf, canvas.edges[x], op))
      BY <1>1
    <2> QED
      BY <2>1 DEF Insert, EdgeRow, Row, Key
  <1>7. \A x \in 1 .. c : /\ t[((4 + a) + b) + x].do = "insert"
                          /\ t[((4 + a) + b) + x].row.tab = "note"
                          /\ t[((4 + a) + b) + x].row = NoteRow(wf, canvas.notes[x], op)
                          /\ Key(t[((4 + a) + b) + x].row)
                               = <<"note", <<Origin(wf), canvas.notes[x]>>>>
                          /\ t[((4 + a) + b) + x].row.refs = {<<"workflow", wf>>}
    <2> TAKE x \in 1 .. c
    <2>1. t[((4 + a) + b) + x] = Insert(NoteRow(wf, canvas.notes[x], op))
      BY <1>1
    <2> QED
      BY <2>1 DEF Insert, NoteRow, Row, Key
  <1>8. t[(((4 + a) + b) + c) + 1].do = "commit"
    BY <1>1 DEF Commit
  <1>9. \A i \in 1 .. 4 : t[i].do = "delete" /\ t[i].tab \in {"edge", "record", "step", "note"}
    BY <1>4
  <1>10. \A i \in 1 .. Len(t) :
            /\ t[i].do = "delete" => i \in 1 .. 4
            /\ t[i].do # "check"
            /\ t[i].do = "insert" => t[i].row.tab \in {"edge", "step", "note"}
    BY <1>3, <1>5, <1>6, <1>7, <1>8, <1>9
  <1>11. \A i \in 1 .. Len(t) : i - 1 <= Len(t) /\ \A j \in 1 .. i - 1 : j \in 1 .. Len(t) /\ j < i
    BY <1>1
  <1>12. \A i \in 1 .. Len(t) : ~DeletedBefore(t, i, "workflow")
    BY <1>9, <1>10, <1>11 DEF DeletedBefore
  <1>13. ASSUME NEW i \in 1 .. 4 PROVE CanDelete(t, i, V, wf)
    <2>1. \A j \in 1 .. i - 1 : t[j].do # "insert"
      <3> TAKE j \in 1 .. i - 1
      <3>1. j \in 1 .. 4
        OBVIOUS
      <3> QED
        BY <1>9, <3>1
    <2>2. 1 \in 1 .. 3 - 1 /\ 2 \in 1 .. 3 - 1
      OBVIOUS
    <2>3. DeletedBefore(t, 3, "edge") /\ DeletedBefore(t, 3, "record")
      BY <1>4, <2>2 DEF DeletedBefore
    <2>4. i = 1 \/ i = 2 \/ i = 3 \/ i = 4
      OBVIOUS
    <2>5. ASSUME NEW f \in V, NEW r \in V, f.tab = t[i].tab, f.wf = wf, Key(f) \in r.refs
          PROVE  GoneBefore(t, i, r, wf)
      <3>1. f.tab \in {"edge", "record", "step", "note"} /\ f.tab # "workflow"
        BY <1>9, <2>5
      <3>2. r.wf = wf /\ r.tab \in {"edge", "record"} /\ f.tab = "step"
        BY <2>5, <3>1
      <3>3. i = 3
        BY <1>4, <2>4, <2>5, <3>2
      <3> QED
        BY <2>3, <3>2, <3>3 DEF GoneBefore
    <2> QED
      BY <1>9, <2>1, <2>5 DEF CanDelete
  <1>14. ASSUME NEW i \in 1 .. Len(t), i \notin 1 .. 4
         PROVE  \A tab \in {"edge", "record", "step", "note"} : DeletedBefore(t, i, tab)
    <2>1. 1 \in 1 .. i - 1 /\ 2 \in 1 .. i - 1 /\ 3 \in 1 .. i - 1 /\ 4 \in 1 .. i - 1
      BY <1>1, <1>14
    <2> QED
      BY <1>4, <2>1 DEF DeletedBefore
  <1>15. ASSUME NEW i \in 1 .. Len(t), t[i].do = "insert"
         PROVE  /\ i \notin 1 .. 4
                /\ \A f \in V : Key(f) = Key(t[i].row) /\ f.wf = wf => GoneBefore(t, i, f, wf)
                /\ \E f \in V : Key(f) = <<"workflow", wf>> /\ ~GoneBefore(t, i, f, wf)
    <2>1. i \notin 1 .. 4 /\ DeletedBefore(t, i, t[i].row.tab) /\ ~DeletedBefore(t, i, "workflow")
      BY <1>9, <1>10, <1>12, <1>14, <1>15
    <2>2. \A f : Key(f) = Key(t[i].row) => f.tab = t[i].row.tab
      BY DEF Key
    <2> QED
      BY <2>1, <2>2 DEF GoneBefore
  <1>16. /\ \A x \in 1 .. a, y \in 1 .. a : canvas.steps[x] = canvas.steps[y] => x = y
         /\ \A x \in 1 .. b, y \in 1 .. b : canvas.edges[x].id = canvas.edges[y].id => x = y
         /\ \A x \in 1 .. c, y \in 1 .. c : canvas.notes[x] = canvas.notes[y] => x = y
    <2>1. /\ DOMAIN EdgeIds(canvas) = 1 .. b
          /\ \A x \in 1 .. b : EdgeIds(canvas)[x] = canvas.edges[x].id
      BY <1>2 DEF EdgeIds
    <2> QED
      BY <1>2, <2>1 DEF IsInjective
  <1>17. \A x, y : StepKey(wf, x) = StepKey(wf, y) => x = y
    BY DEF StepKey
  <1>18. /\ \A x \in 1 .. a : canvas.steps[x] \in ToSet(canvas.steps)
         /\ \A x \in 1 .. b : canvas.edges[x] \in ToSet(canvas.edges)
         /\ \A x \in 1 .. c : canvas.notes[x] \in ToSet(canvas.notes)
    BY <1>2 DEF ToSet
  <1>19. ASSUME NEW x \in 1 .. a, 4 + x \in 1 .. Len(t)
         PROVE  CanInsert(t, 4 + x, V, wf)
    <2>1. ASSUME NEW j \in 1 .. (4 + x) - 1, t[j].do = "insert", Key(t[j].row) = Key(t[4 + x].row)
          PROVE  FALSE
      <3>1. j \in 1 .. Len(t) /\ j < 4 + x
        BY <1>11, <1>19
      <3>2. t[j].row.tab = "step"
        BY <1>5, <2>1 DEF Key
      <3>3. PICK y \in 1 .. a : j = 4 + y
        BY <1>1, <1>3, <1>6, <1>7, <1>8, <1>9, <2>1, <3>1, <3>2
      <3>4. canvas.steps[y] = canvas.steps[x]
        BY <1>5, <1>17, <2>1, <3>3
      <3>5. y = x
        BY <1>16, <3>4
      <3> QED
        BY <3>1, <3>3, <3>5
    <2>2. ~InsertedBefore(t, 4 + x, Key(t[4 + x].row))
      BY <2>1 DEF InsertedBefore
    <2>3. \A f \in V : Key(f) = Key(t[4 + x].row) => f.wf = wf
      BY <1>5, <1>18
    <2> QED
      BY <1>5, <1>15, <1>19, <2>2, <2>3 DEF CanInsert
  <1>20. ASSUME NEW x \in 1 .. b, (4 + a) + x \in 1 .. Len(t)
         PROVE  CanInsert(t, (4 + a) + x, V, wf)
    <2> DEFINE i == (4 + a) + x
               e == canvas.edges[x]
    <2>1. ASSUME NEW j \in 1 .. i - 1, t[j].do = "insert", Key(t[j].row) = Key(t[i].row)
          PROVE  FALSE
      <3>1. j \in 1 .. Len(t) /\ j < i
        BY <1>11, <1>20
      <3>2. t[j].row.tab = "edge"
        BY <1>6, <2>1 DEF Key
      <3>3. PICK y \in 1 .. b : j = (4 + a) + y
        BY <1>1, <1>3, <1>5, <1>7, <1>8, <1>9, <2>1, <3>1, <3>2
      <3>4. canvas.edges[y].id = canvas.edges[x].id
        BY <1>6, <2>1, <3>3
      <3>5. y = x
        BY <1>16, <3>4
      <3> QED
        BY <3>1, <3>3, <3>5
    <2>2. ~InsertedBefore(t, i, Key(t[i].row))
      BY <2>1 DEF InsertedBefore
    <2>3. ASSUME NEW s \in {e.from, e.to}
          PROVE  \/ InsertedBefore(t, i, StepKey(wf, s))
                 \/ \E f \in V : Key(f) = StepKey(wf, s) /\ ~GoneBefore(t, i, f, wf)
      <3>1. e \in ToSet(canvas.edges)
        BY <1>18
      <3>2. CASE s \in ToSet(canvas.steps)
        <4>1. PICK y \in 1 .. a : canvas.steps[y] = s
          BY <1>2, <3>2 DEF ToSet
        <4>2. 4 + y \in 1 .. i - 1
          BY <1>1
        <4>3. t[4 + y].do = "insert" /\ Key(t[4 + y].row) = StepKey(wf, s)
          BY <1>5, <4>1
        <4> QED
          BY <4>2, <4>3 DEF InsertedBefore
      <3>3. CASE s \notin ToSet(canvas.steps)
        BY <3>1, <3>3 DEF GoneBefore
      <3> QED
        BY <3>2, <3>3
    <2>4. /\ t[i].do = "insert"
          /\ t[i].row.refs = {<<"workflow", wf>>, StepKey(wf, e.from), StepKey(wf, e.to)}
      BY <1>6
    <2>5. \A f \in V : Key(f) = Key(t[i].row) => f.wf = wf
      BY <1>6, <1>18
    <2> HIDE DEF i, e
    <2> QED
      BY <1>15, <1>20, <2>2, <2>3, <2>4, <2>5 DEF CanInsert, i
  <1>21. ASSUME NEW x \in 1 .. c, ((4 + a) + b) + x \in 1 .. Len(t)
         PROVE  CanInsert(t, ((4 + a) + b) + x, V, wf)
    <2> DEFINE i == ((4 + a) + b) + x
    <2>1. ASSUME NEW j \in 1 .. i - 1, t[j].do = "insert", Key(t[j].row) = Key(t[i].row)
          PROVE  FALSE
      <3>1. j \in 1 .. Len(t) /\ j < i
        BY <1>11, <1>21
      <3>2. t[j].row.tab = "note"
        BY <1>7, <2>1 DEF Key
      <3>3. PICK y \in 1 .. c : j = ((4 + a) + b) + y
        BY <1>1, <1>3, <1>5, <1>6, <1>8, <1>9, <2>1, <3>1, <3>2
      <3>4. canvas.notes[y] = canvas.notes[x]
        BY <1>7, <2>1, <3>3
      <3>5. y = x
        BY <1>16, <3>4
      <3> QED
        BY <3>1, <3>3, <3>5
    <2>2. ~InsertedBefore(t, i, Key(t[i].row))
      BY <2>1 DEF InsertedBefore
    <2>3. \A f \in V : Key(f) = Key(t[i].row) => f.wf = wf
      BY <1>7, <1>18
    <2> QED
      BY <1>7, <1>15, <1>21, <2>2, <2>3 DEF CanInsert
  <1>22. ASSUME NEW i \in 1 .. Len(t), t[i].do = "insert" PROVE CanInsert(t, i, V, wf)
    BY <1>3, <1>8, <1>9, <1>19, <1>20, <1>21, <1>22
  <1>23. Feasible(t, V, wf)
    BY <1>10, <1>13, <1>22 DEF Feasible
  <1>24. ASSUME NEW i \in 1 .. Len(t), t[i].do \in {"delete", "insert"}
         PROVE  (IF t[i].do = "delete" THEN t[i] ELSE t[i].row).tab
                   \in {"edge", "record", "step", "note"}
    BY <1>9, <1>10, <1>24
  <1> QED
    BY <1>1, <1>23, <1>24 DEF t

\* Who has added nothing yet finds the keys of its own rows free.
LEMMA NewKey ==
    ASSUME NEW V, NEW op, \A r \in V : Formed(r) /\ r.by # op
    PROVE  /\ <<"workflow", op>> \notin Keys(V)
           /\ <<"execution", op>> \notin Keys(V) /\ <<"notification", op>> \notin Keys(V)
           /\ \A s : <<"record", <<op, s>>>> \notin Keys(V)
  <1>1. ASSUME NEW f \in V
        PROVE  /\ f.tab \in {"workflow", "execution", "notification"} => f.id = f.by
               /\ f.tab = "record" => f.id = <<f.by, f.has>>
    BY <1>1, RowsOfTable
  <1>2. ASSUME NEW f \in V, NEW s, Key(f) = <<"record", <<op, s>>>> PROVE FALSE
    <2>1. f.tab = "record" /\ f.id = <<op, s>>
      BY <1>2 DEF Key
    <2>2. f.by = op
      BY <1>1, <2>1
    <2> QED
      BY <2>2
  <1>3. ASSUME NEW f \in V, NEW tab \in {"workflow", "execution", "notification"},
               Key(f) = <<tab, op>>
        PROVE  FALSE
    <2>1. f.tab = tab /\ f.id = op
      BY <1>3 DEF Key
    <2>2. f.by = op
      BY <1>1, <2>1
    <2> QED
      BY <2>2
  <1> QED
    BY <1>2, <1>3 DEF Keys

\* An admission adds the execution, then its records, of steps that are there.
LEMMA AdmitFeasible ==
    ASSUME NEW rows, IsFiniteSet(rows), NEW op, NEW V, \A r \in V : Formed(r) /\ r.by # op,
           <<"workflow", w>> \in Keys(V),
           \A s \in Names(rows, "step", w) : StepKey(w, s) \in Keys(V)
    PROVE  Feasible(Admit(rows, op), V, w)
  <1> DEFINE t == Admit(rows, op)
             steps == SetToSeq(Names(rows, "step", w))
             n == Len(steps)
  <1>1. /\ IsSeq(t) /\ Len(t) = (1 + n) + 1 /\ n \in Nat
        /\ t[1] = Insert(ExecutionRow(w, op))
        /\ \A i \in 1 .. n : t[1 + i] = Insert(RecordRow(w, steps[i], op))
        /\ t[(1 + n) + 1] = Insert(NotificationRow(w, op))
        /\ ToSet(steps) = Names(rows, "step", w)
        /\ \A i \in 1 .. n, j \in 1 .. n : steps[i] = steps[j] => i = j
    BY AdmitList
  <1>2. IsSeq(steps) /\ DOMAIN steps = 1 .. n
    BY NamesFinite, SeqOfSet, SeqParts
  <1> HIDE DEF t, steps, n
  <1>3. \A i \in 1 .. Len(t) : i = 1 \/ (\E x \in 1 .. n : i = 1 + x) \/ i = (1 + n) + 1
    <2> TAKE i \in 1 .. Len(t)
    <2>1. i # 1 /\ i # (1 + n) + 1 => i - 1 \in 1 .. n /\ i = 1 + (i - 1)
      BY <1>1
    <2> QED
      BY <2>1
  <1>4. /\ t[1].do = "insert" /\ Key(t[1].row) = <<"execution", op>>
        /\ t[1].row.refs = {<<"workflow", w>>}
    BY <1>1 DEF Insert, ExecutionRow, Row, Key
  <1>5. \A x \in 1 .. n :
           /\ t[1 + x].do = "insert" /\ Key(t[1 + x].row) = <<"record", <<op, steps[x]>>>>
           /\ t[1 + x].row.refs = {<<"execution", op>>, StepKey(w, steps[x])}
    <2> TAKE x \in 1 .. n
    <2>1. t[1 + x] = Insert(RecordRow(w, steps[x], op))
      BY <1>1
    <2> QED
      BY <2>1 DEF Insert, RecordRow, Row, Key
  <1>6. /\ t[(1 + n) + 1].do = "insert" /\ Key(t[(1 + n) + 1].row) = <<"notification", op>>
        /\ t[(1 + n) + 1].row.refs = {<<"execution", op>>, <<"workflow", w>>}
    BY <1>1 DEF Insert, NotificationRow, Row, Key
  <1>7. \A i \in 1 .. Len(t) : t[i].do = "insert" /\ Key(t[i].row) \notin Keys(V)
    <2> TAKE i \in 1 .. Len(t)
    <2>1. /\ <<"execution", op>> \notin Keys(V) /\ <<"notification", op>> \notin Keys(V)
          /\ \A s : <<"record", <<op, s>>>> \notin Keys(V)
      BY NewKey
    <2>2. CASE i = 1
      BY <1>4, <2>1, <2>2
    <2>3. CASE i = (1 + n) + 1
      BY <1>6, <2>1, <2>3
    <2>4. ASSUME NEW x \in 1 .. n, i = 1 + x
          PROVE  t[i].do = "insert" /\ Key(t[i].row) \notin Keys(V)
      BY <1>5, <2>1, <2>4
    <2> QED
      BY <1>3, <2>2, <2>3, <2>4
  <1>8. \A i \in 1 .. Len(t) : \A j \in 1 .. i - 1 : j \in 1 .. Len(t) /\ j < i
    BY <1>1
  <1>9. \A i \in 1 .. Len(t) : \A tab : ~DeletedBefore(t, i, tab)
    BY <1>7, <1>8 DEF DeletedBefore
  <1>10. ASSUME NEW i \in 1 .. Len(t), NEW j \in 1 .. i - 1, Key(t[j].row) = Key(t[i].row)
         PROVE  FALSE
    <2>1. j \in 1 .. Len(t) /\ j < i
      BY <1>8
    <2>2. CASE i = 1
      BY <2>1, <2>2
    <2>3. CASE i = (1 + n) + 1
      BY <1>3, <1>4, <1>5, <1>6, <1>10, <2>1, <2>3
    <2>4. ASSUME NEW x \in 1 .. n, i = 1 + x PROVE FALSE
      <3>1. PICK y \in 1 .. n : j = 1 + y
        BY <1>3, <1>4, <1>5, <1>6, <1>10, <2>1, <2>4
      <3>2. steps[y] = steps[x]
        BY <1>5, <1>10, <2>4, <3>1
      <3>3. y = x
        BY <1>1, <3>2
      <3> QED
        BY <2>1, <2>4, <3>1, <3>3
    <2> QED
      BY <1>3, <2>2, <2>3, <2>4
  <1>11. ASSUME NEW i \in 1 .. Len(t), i # 1 PROVE InsertedBefore(t, i, <<"execution", op>>)
    <2>1. 1 \in 1 .. i - 1
      BY <1>1, <1>11
    <2> QED
      BY <1>4, <2>1 DEF InsertedBefore
  <1>12. ASSUME NEW i \in 1 .. Len(t), NEW key \in t[i].row.refs
         PROVE  InsertedBefore(t, i, key) \/ key \in Keys(V)
    <2>1. CASE i = 1
      BY <1>4, <1>12, <2>1
    <2>2. CASE i = (1 + n) + 1
      <3>1. i # 1
        BY <1>1, <2>2
      <3> QED
        BY <1>6, <1>11, <1>12, <2>2, <3>1
    <2>3. ASSUME NEW x \in 1 .. n, i = 1 + x PROVE InsertedBefore(t, i, key) \/ key \in Keys(V)
      <3>1. i # 1
        BY <2>3
      <3>2. steps[x] \in Names(rows, "step", w)
        BY <1>1, <1>2 DEF ToSet
      <3> QED
        BY <1>5, <1>11, <1>12, <2>3, <3>1, <3>2
    <2> QED
      BY <1>3, <2>1, <2>2, <2>3
  <1>13. ASSUME NEW i \in 1 .. Len(t) PROVE CanInsert(t, i, V, w)
    <2>1. \A r : ~GoneBefore(t, i, r, w)
      BY <1>9 DEF GoneBefore
    <2>2. \A key \in t[i].row.refs :
             InsertedBefore(t, i, key) \/ \E f \in V : Key(f) = key /\ ~GoneBefore(t, i, f, w)
      BY <1>12, <2>1 DEF Keys
    <2>3. ~InsertedBefore(t, i, Key(t[i].row))
      BY <1>10 DEF InsertedBefore
    <2>4. \A f \in V : Key(f) # Key(t[i].row)
      BY <1>7 DEF Keys
    <2> QED
      BY <2>2, <2>3, <2>4 DEF CanInsert
  <1> QED
    BY <1>7, <1>13 DEF Feasible, t

\* A list that does not fail when a workflow is there does not fail after it is added.
LEMMA FeasibleAfter ==
    ASSUME NEW row, NEW t, IsSeq(t), NEW u, Before(u, Insert(row), t), NEW V, NEW wf,
           Feasible(t, V \cup {row}, wf),
           Key(row) \notin Keys(V), row.refs = {}, row.tab = "workflow",
           \A i \in 1 .. Len(t) : t[i].do \in {"delete", "insert"} =>
              (IF t[i].do = "delete" THEN t[i] ELSE t[i].row).tab
                 \in {"edge", "record", "step", "note"}
    PROVE  Feasible(u, V, wf)
  <1> DEFINE x == Insert(row)
             U == V \cup {row}
  <1>1. x.do = "insert" /\ x.row = row
    BY DEF Insert
  <1>2. Before(u, x, t) /\ Feasible(t, U, wf) /\ V \subseteq U /\ \A f \in U : f = row \/ f \in V
    OBVIOUS
  <1> HIDE DEF x, U
  <1>4. ASSUME NEW i \in 1 .. Len(t)
        PROVE  /\ u[i + 1].do # "check"
               /\ u[i + 1].do = "delete" => CanDelete(u, i + 1, V, wf)
               /\ u[i + 1].do = "insert" => CanInsert(u, i + 1, V, wf)
    <2>1. /\ i + 1 \in 1 .. Len(u) /\ t[i] = u[i + 1] /\ x = u[1] /\ (i + 1) - 1 = i
          /\ \A tab : DeletedBefore(u, i + 1, tab) <=> DeletedBefore(t, i, tab)
          /\ \A key : InsertedBefore(u, i + 1, key) <=> Key(row) = key \/ InsertedBefore(t, i, key)
          /\ \A j \in 1 .. i : j = 1 \/ (j - 1 \in 1 .. i - 1 /\ u[j] = t[j - 1])
      <3>1. Before(u, x, t)
        BY <1>2
      <3>2. /\ i + 1 \in 1 .. Len(u) /\ t[i] = u[i + 1] /\ x = u[1] /\ (i + 1) - 1 = i
            /\ \A tab : DeletedBefore(u, i + 1, tab) <=>
                  (x.do = "delete" /\ x.tab = tab) \/ DeletedBefore(t, i, tab)
            /\ \A key : InsertedBefore(u, i + 1, key) <=>
                  (x.do = "insert" /\ Key(x.row) = key) \/ InsertedBefore(t, i, key)
            /\ \A j \in 1 .. i - 1 : j + 1 \in 1 .. i /\ t[j] = u[j + 1]
            /\ \A j \in 1 .. i : j = 1 \/ (j - 1 \in 1 .. i - 1 /\ u[j] = t[j - 1])
            /\ 1 \in 1 .. i
        BY <3>1, PlacesBefore, Zenon
      <3> QED
        BY <1>1, <3>2
    <2>2. /\ t[i].do # "check"
          /\ t[i].do = "delete" => CanDelete(t, i, U, wf)
          /\ t[i].do = "insert" => CanInsert(t, i, U, wf)
      BY <1>2 DEF Feasible
    <2>3. \A r : GoneBefore(u, i + 1, r, wf) <=> GoneBefore(t, i, r, wf)
      BY <2>1 DEF GoneBefore
    <2>4. ASSUME t[i].do = "delete" PROVE CanDelete(u, i + 1, V, wf)
      <3>1. CanDelete(t, i, U, wf) /\ t[i].tab \in {"edge", "record", "step", "note"}
        BY <2>2, <2>4
      <3>2. \A f, r \in V : f.tab = u[i + 1].tab /\ f.wf = wf /\ Key(f) \in r.refs =>
               GoneBefore(u, i + 1, r, wf)
        BY <1>2, <2>1, <2>3, <3>1 DEF CanDelete
      <3>3. \A j \in 1 .. i : u[j].do = "insert" =>
               u[j].row.tab # u[i + 1].tab /\ u[j].row.refs = {}
        <4> SUFFICES ASSUME NEW j \in 1 .. i, u[j].do = "insert"
                     PROVE  u[j].row.tab # u[i + 1].tab /\ u[j].row.refs = {}
          OBVIOUS
        <4>1. CASE j = 1
          BY <1>1, <2>1, <3>1, <4>1
        <4>2. CASE j # 1
          <5>1. j - 1 \in 1 .. i - 1 /\ u[j] = t[j - 1]
            BY <2>1, <4>2
          <5>2. t[j - 1].row.tab # t[i].tab /\ t[j - 1].row.refs = {}
            BY <3>1, <5>1 DEF CanDelete
          <5> QED
            BY <2>1, <5>1, <5>2
        <4> QED
          BY <4>1, <4>2
      <3> QED
        BY <2>1, <3>1, <3>2, <3>3 DEF CanDelete
    <2>5. ASSUME t[i].do = "insert" PROVE CanInsert(u, i + 1, V, wf)
      <3>1. CanInsert(t, i, U, wf) /\ t[i].row.tab \in {"edge", "record", "step", "note"}
        BY <2>2, <2>5
      <3>2. Key(t[i].row) # Key(row)
        BY <3>1 DEF Key
      <3>3. ~InsertedBefore(u, i + 1, Key(u[i + 1].row))
        BY <2>1, <3>1, <3>2 DEF CanInsert
      <3>4. \A f \in V : Key(f) = Key(u[i + 1].row) => GoneBefore(u, i + 1, f, wf)
        BY <1>2, <2>1, <2>3, <3>1 DEF CanInsert
      <3>5. ASSUME NEW key \in u[i + 1].row.refs, ~InsertedBefore(u, i + 1, key)
            PROVE  \E f \in V : Key(f) = key /\ ~GoneBefore(u, i + 1, f, wf)
        <4>1. ~InsertedBefore(t, i, key) /\ key # Key(row)
          BY <2>1, <3>5
        <4>2. PICK f \in U : Key(f) = key /\ ~GoneBefore(t, i, f, wf)
          BY <2>1, <3>1, <3>5, <4>1 DEF CanInsert
        <4> QED
          BY <1>2, <2>3, <4>1, <4>2
      <3> QED
        BY <3>3, <3>4, <3>5 DEF CanInsert
    <2> QED
      BY <2>1, <2>2, <2>4, <2>5
  <1>5. u[1] = x /\ Len(t) \in Nat /\ Len(u) = Len(t) + 1 /\ \A j \in 1 .. 1 - 1 : FALSE
    BY <1>2, SeqParts DEF Before
  <1>6. CanInsert(u, 1, V, wf)
    <2>1. ~InsertedBefore(u, 1, Key(row))
      BY <1>5 DEF InsertedBefore
    <2>2. \A f \in V : Key(f) # Key(row)
      BY DEF Keys
    <2> QED
      BY <1>1, <1>5, <2>1, <2>2 DEF CanInsert
  <1>7. ASSUME NEW i \in 1 .. Len(u), i # 1 PROVE i - 1 \in 1 .. Len(t) /\ (i - 1) + 1 = i
    BY <1>5, <1>7
  <1>8. ASSUME NEW i \in 1 .. Len(u)
        PROVE  /\ u[i].do # "check"
               /\ u[i].do = "delete" => CanDelete(u, i, V, wf)
               /\ u[i].do = "insert" => CanInsert(u, i, V, wf)
    <2>1. CASE i = 1
      BY <1>1, <1>5, <1>6, <2>1
    <2>2. CASE i # 1
      <3> DEFINE m == i - 1
      <3>1. m \in 1 .. Len(t) /\ m + 1 = i
        BY <1>7, <2>2
      <3> HIDE DEF m
      <3> QED
        BY <1>4, <3>1
    <2> QED
      BY <2>1, <2>2
  <1> QED
    BY <1>8 DEF Feasible

\* A copy of edges that join what was read adds its workflow, then the canvas; nobody has
\* its ids.
LEMMA CopyFeasible ==
    ASSUME IInv, FormInv, Unique(committed),
           NEW p \in Operations, kind[p] = "clone", \A r \in committed : r.by # p,
           NEW rows, IsFiniteSet(rows), Part(rows, "edge") = Part(committed, "edge"),
           Joined(rows)
    PROVE  Feasible(Copy(rows, p), committed, p)
  <1> DEFINE canvas == [steps |-> SetToSeq(Names(rows, "step", w)),
                        edges |-> SetToSeq(Names(rows, "edge", w)),
                        notes |-> SetToSeq(Names(rows, "note", w))]
             row == WorkflowRow(p, p)
             t == Save(p, canvas, p)
             u == <<Insert(row)>> \o t
             V == committed \cup {row}
  <1>1. Copy(rows, p) = u
    BY DEF Copy
  <1>2. ASSUME NEW tab
        PROVE  LET s == SetToSeq(Names(rows, tab, w))
               IN  IsSeq(s) /\ ToSet(s) = Names(rows, tab, w) /\ IsInjective(s)
    BY NamesFinite, SeqOfSet
  <1>3. /\ IsCanvas(canvas) /\ IsInjective(canvas.steps) /\ IsInjective(canvas.edges)
        /\ IsInjective(canvas.notes)
        /\ ToSet(canvas.steps) = Names(rows, "step", w)
        /\ ToSet(canvas.edges) = Names(rows, "edge", w)
    BY <1>2 DEF IsCanvas
  <1> HIDE DEF canvas
  <1>4. IsInjective(EdgeIds(canvas))
    <2>1. DOMAIN EdgeIds(canvas) = DOMAIN canvas.edges
          /\ \A i \in DOMAIN canvas.edges : EdgeIds(canvas)[i] = canvas.edges[i].id
      BY DEF EdgeIds
    <2>2. ASSUME NEW e \in ToSet(canvas.edges), NEW f \in ToSet(canvas.edges), e.id = f.id
          PROVE  e = f
      <3>1. /\ e \in Names(rows, "edge", w) /\ f \in Names(rows, "edge", w)
        BY <1>3
      <3>2. PICK r \in Part(rows, "edge") : r.has = e
        BY <3>1 DEF Names, Part
      <3>3. PICK x \in Part(rows, "edge") : x.has = f
        BY <3>1 DEF Names, Part
      <3>4. r \in Part(committed, "edge") /\ x \in Part(committed, "edge")
        BY <3>2, <3>3
      <3>5. /\ r \in committed /\ r.tab = "edge" /\ r.wf = w /\ Formed(r)
            /\ x \in committed /\ x.tab = "edge" /\ x.wf = w /\ Formed(x)
        BY <3>4 DEF Part, FormInv
      <3>6. r.id = <<Origin(w), e.id>> /\ x.id = <<Origin(w), f.id>>
        BY <3>2, <3>3, <3>5, RowsOfTable
      <3>7. Key(r) = Key(x)
        BY <2>2, <3>5, <3>6 DEF Key
      <3>8. r = x
        BY <3>5, <3>7 DEF Unique
      <3> QED
        BY <3>2, <3>3, <3>8
    <2>3. \A i \in DOMAIN canvas.edges : canvas.edges[i] \in ToSet(canvas.edges)
      BY DEF ToSet
    <2>4. ASSUME NEW i \in DOMAIN canvas.edges, NEW j \in DOMAIN canvas.edges,
                 EdgeIds(canvas)[i] = EdgeIds(canvas)[j]
          PROVE  i = j
      <3>1. canvas.edges[i] = canvas.edges[j]
        BY <2>1, <2>2, <2>3, <2>4
      <3> QED
        BY <1>3, <3>1 DEF IsInjective
    <2> QED
      BY <2>1, <2>4 DEF IsInjective
  <1>5. row.tab = "workflow" /\ row.refs = {} /\ Key(row) = <<"workflow", p>> /\ row.wf = p
    BY DEF WorkflowRow, Row, Key
  <1>6. \A r \in committed : Formed(r) /\ r.wf # p
    BY OwnCopy DEF FormInv
  <1>7. Key(row) \notin Keys(committed)
    BY <1>5, <1>6, NewKey
  <1> HIDE DEF row
  <1>8. \E f \in V : f.tab = "workflow" /\ Key(f) = <<"workflow", p>>
    BY <1>5
  <1>9. \A f \in V : f.wf = p => f.tab = "workflow"
    BY <1>5, <1>6
  <1>10. ASSUME NEW f \in V, NEW tab \in {"step", "edge", "note"}, NEW id,
                Key(f) = <<tab, <<Origin(p), id>>>>
         PROVE  f.wf = p
    <2>1. f.tab = tab /\ f.id = <<p, id>>
      BY <1>10, Origins DEF Key
    <2>2. f \in committed /\ f.wf # p /\ Formed(f)
      BY <1>5, <1>6, <2>1
    <2>3. Origin(f.wf) = p
      <3>1. f.tab \in {"step", "note"} => f.id = <<Origin(f.wf), f.has>>
        BY <2>2, RowsOfTable
      <3>2. f.tab = "edge" => f.id = <<Origin(f.wf), f.has.id>>
        BY <2>2, RowsOfTable
      <3> QED
        BY <2>1, <3>1, <3>2
    <2>4. f.wf \in Operations \/ f.wf = w \/ f.wf = other
      BY <2>2, OtherHas DEF IInv, RowsInv, WhoseOK
    <2> QED
      BY <2>2, <2>3, <2>4, Origins
  <1>11. \A f \in V :
            /\ \A s \in ToSet(canvas.steps) : Key(f) = Key(StepRow(p, s, p)) => f.wf = p
            /\ \A e \in ToSet(canvas.edges) : Key(f) = Key(EdgeRow(p, e, p)) => f.wf = p
            /\ \A n \in ToSet(canvas.notes) : Key(f) = Key(NoteRow(p, n, p)) => f.wf = p
    <2>1. /\ \A s : Key(StepRow(p, s, p)) = <<"step", <<Origin(p), s>>>>
          /\ \A e : Key(EdgeRow(p, e, p)) = <<"edge", <<Origin(p), e.id>>>>
          /\ \A n : Key(NoteRow(p, n, p)) = <<"note", <<Origin(p), n>>>>
      BY DEF Key, StepRow, EdgeRow, NoteRow, Row
    <2> TAKE f \in V
    <2>2. ASSUME NEW s, Key(f) = Key(StepRow(p, s, p)) PROVE f.wf = p
      <3>1. Key(f) = <<"step", <<Origin(p), s>>>>
        BY <2>1, <2>2
      <3> QED
        BY <1>10, <3>1
    <2>3. ASSUME NEW e, Key(f) = Key(EdgeRow(p, e, p)) PROVE f.wf = p
      <3>1. Key(f) = <<"edge", <<Origin(p), e.id>>>>
        BY <2>1, <2>3
      <3> QED
        BY <1>10, <3>1
    <2>4. ASSUME NEW n, Key(f) = Key(NoteRow(p, n, p)) PROVE f.wf = p
      <3>1. Key(f) = <<"note", <<Origin(p), n>>>>
        BY <2>1, <2>4
      <3> QED
        BY <1>10, <3>1
    <2> QED
      BY <2>2, <2>3, <2>4
  <1>12. \A e \in ToSet(canvas.edges) : \A s \in {e.from, e.to} : s \in ToSet(canvas.steps)
    BY <1>3 DEF Joined
  <1>13. \A f, r \in V :
            f.wf = p /\ f.tab \in {"edge", "record", "step", "note"} /\ Key(f) \in r.refs =>
               f.tab = "step" /\ r.wf = p /\ r.tab \in {"edge", "record"}
    BY <1>9
  <1> HIDE DEF V
  <1>14. /\ Feasible(t, V, p) /\ IsSeq(t)
         /\ \A i \in 1 .. Len(t) : t[i].do \in {"delete", "insert"} =>
               (IF t[i].do = "delete" THEN t[i] ELSE t[i].row).tab
                  \in {"edge", "record", "step", "note"}
    BY <1>3, <1>4, <1>8, <1>11, <1>12, <1>13, SaveFeasible
  <1> HIDE DEF t
  <1>15. Before(u, Insert(row), t)
    BY <1>14, PrependPlaces
  <1> HIDE DEF u
  <1>16. Feasible(u, committed, p)
    BY <1>5, <1>7, <1>14, <1>15, FeasibleAfter DEF V
  <1> QED
    BY <1>1, <1>16

--------------------------------------------------------------------------------
(***************************************************************************)
(* An operation that meets nobody: a third invariant.                      *)
(***************************************************************************)
\* An operation that the keys of the tables do not refuse: a save sends what they accept, no
\* edge of the other workflow joins steps that are deleted, a copy has read both ends of
\* every edge.
Sound(p) ==
    /\ kind[p] = "save" => Acceptable(asked[p])
    /\ kind[p] \in {"save", "delete"} => RestJoined
    /\ kind[p] = "clone" => Reading(p) \/ Joined(loaded[p])

\* While nobody else is under way, and its workflow is there, nothing that such an
\* operation has still to do fails.
Alone(p) ==
    todo[p] # <<>> /\ met[p] = {} /\ WorkflowRow(w, w) \in committed /\ Sound(p)

AloneInv(p) ==
    Alone(p) => found[p] = Unread /\ Feasible(todo[p], Visible(p), Target(kind[p], p))

--------------------------------------------------------------------------------
(***************************************************************************)
(* An operation that meets nobody.                                         *)
(***************************************************************************)
\* Nobody is in the way of an operation that is under way alone.
LEMMA NobodyElse ==
    ASSUME NEW p \in Operations, IInv, todo[p] # <<>>, met[p] = {}
    PROVE  Blockers(p) = {} /\ ~Wait(p) /\ ~EndDeadlock(p)
  <1>1. Active \ {p} = {}
    BY DEF IInv, MetInv, Active
  <1>2. Blockers(p) = {}
    BY <1>1, BlockersUnderWay
  <1>3. ~Deadlocked(p)
    <2>1. ASSUME NEW C, p \in C, \A q \in C : Blockers(q) \cap C # {} PROVE FALSE
      BY <1>2, <2>1
    <2> QED
      BY <2>1 DEF Deadlocked
  <1> QED
    BY <1>2, <1>3 DEF Wait, EndDeadlock

\* The workflow is not added again, and who is alone was so before.
LEMMA WasAlone ==
    ASSUME NEW p \in Operations, IInv, Moves(p)
    PROVE  /\ WorkflowRow(w, w) \in committed' => WorkflowRow(w, w) \in committed
           /\ ~Start(p) /\ ~ReadTable(p) /\ Alone(p)' => Alone(p)
  <1>1. WorkflowRow(w, w) \in committed' => WorkflowRow(w, w) \in committed
    <2>1. WorkflowRow(w, w).by = w /\ w # p
      BY NamesAssumption DEF WorkflowRow, Row
    <2> QED
      BY <2>1, Added DEF OwnRow
  <1>2. ASSUME ~Start(p), ~ReadTable(p), Alone(p)' PROVE Alone(p)
    <2>1. Proceeds(p)
      BY <1>2 DEF Moves, Step, Proceeds
    <2>2. /\ todo[p] # <<>> /\ UNCHANGED <<kind, loaded, asked, met>> /\ ~Reading(p)'
      BY <2>1, Proceeding DEF Reading
    <2>3. Sound(p)
      BY <1>2, <2>2 DEF Alone, Sound
    <2> QED
      BY <1>1, <1>2, <2>2, <2>3 DEF Alone
  <1> QED
    BY <1>1, <1>2

\* The key of a row of the canvas that a page sends is of no row of another workflow.
LEMMA IdsFree ==
    ASSUME IInv, FormInv, NEW canvas, IsCanvas(canvas), Acceptable(canvas), NEW p,
           NEW f \in committed
    PROVE  /\ \A s \in ToSet(canvas.steps) : Key(f) = Key(StepRow(w, s, p)) => f.wf = w
           /\ \A e \in ToSet(canvas.edges) : Key(f) = Key(EdgeRow(w, e, p)) => f.wf = w
           /\ \A n \in ToSet(canvas.notes) : Key(f) = Key(NoteRow(w, n, p)) => f.wf = w
  <1>1. /\ \A s : Key(StepRow(w, s, p)) = StepKey(w, s)
        /\ \A e : Key(EdgeRow(w, e, p)) = <<"edge", <<page, e.id>>>>
        /\ \A n : Key(NoteRow(w, n, p)) = <<"note", <<page, n>>>>
    BY Origins DEF Key, StepKey, StepRow, EdgeRow, NoteRow, Row
  <1>2. /\ ToSet(canvas.steps) \cap ToSet(Rest.steps) = {}
        /\ ToSet(EdgeIds(canvas)) \cap ToSet(EdgeIds(Rest)) = {}
        /\ ToSet(canvas.notes) \cap ToSet(Rest.notes) = {}
    BY DEF Acceptable, NewIds
  <1>3. Origin(f.wf) = page => f.wf = w \/ f \in OtherRows
    <2>1. f.wf \in Operations \/ f.wf = w \/ f \in OtherRows
      BY DEF IInv, RowsInv, WhoseOK
    <2> QED
      BY <2>1, Origins
  <1>4. Formed(f)
    BY DEF FormInv
  <1>5. ASSUME NEW s \in ToSet(canvas.steps), Key(f) = Key(StepRow(w, s, p)) PROVE f.wf = w
    <2>1. Key(f) = StepKey(w, s)
      BY <1>1, <1>5
    <2> QED
      BY <1>2, <2>1, WhoseStep
  <1>6. ASSUME NEW e \in ToSet(canvas.edges), Key(f) = Key(EdgeRow(w, e, p)) PROVE f.wf = w
    <2>1. Key(f) = <<"edge", <<page, e.id>>>>
      BY <1>1, <1>6
    <2>2. f.tab = "edge" /\ f.id = <<page, e.id>>
      BY <2>1 DEF Key
    <2>3. Origin(f.wf) = page /\ f.has.id = e.id
      BY <1>4, <2>2, RowsOfTable
    <2>4. ASSUME f \in OtherRows PROVE FALSE
      <3>1. f.has \in ToSet(Rest.edges)
        BY <2>2, <2>4, OtherHas
      <3>2. e.id \in ToSet(EdgeIds(canvas)) /\ f.has.id \in ToSet(EdgeIds(Rest))
        <4>1. \A c, x : x \in ToSet(c.edges) => x.id \in ToSet(EdgeIds(c))
          BY DEF ToSet, EdgeIds
        <4> QED
          BY <3>1, <4>1
      <3> QED
        BY <1>2, <2>3, <3>2
    <2> QED
      BY <1>3, <2>3, <2>4
  <1>7. ASSUME NEW n \in ToSet(canvas.notes), Key(f) = Key(NoteRow(w, n, p)) PROVE f.wf = w
    <2>1. Key(f) = <<"note", <<page, n>>>>
      BY <1>1, <1>7
    <2>2. f.tab = "note" /\ f.id = <<page, n>>
      BY <2>1 DEF Key
    <2>3. Origin(f.wf) = page /\ f.has = n
      BY <1>4, <2>2, RowsOfTable
    <2>4. f \in OtherRows => n \in ToSet(Rest.notes)
      BY <2>2, <2>3, OtherHas
    <2> QED
      BY <1>2, <1>3, <2>3, <2>4
  <1> QED
    BY <1>5, <1>6, <1>7

\* An operation begins with a list that does not fail when it goes on alone.
LEMMA StartAlone ==
    ASSUME NEW p \in Operations, IInv, FormInv, UniqueInv, Start(p)
    PROVE  AloneInv(p)'
  <1> SUFFICES ASSUME Alone(p)'
               PROVE  found'[p] = Unread /\ Feasible(todo'[p], Visible(p)', Target(kind'[p], p))
    BY DEF AloneInv
  <1>1. /\ todo[p] = <<>> /\ UNCHANGED <<committed, kind, inserted, deleted, found>>
        /\ Tx(p) /\ DOMAIN todo = Operations /\ DOMAIN asked = Operations
    BY DEF Start, txVars, IInv, TxInv, TypeInv
  <1>2. ~open[p]
    BY <1>1 DEF Tx, Shape
  <1>3. found'[p] = Unread /\ Visible(p)' = committed
    BY <1>1, <1>2 DEF Tx, Visible
  <1>4. /\ WorkflowRow(w, w) \in committed
        /\ kind[p] = "save" => Acceptable(asked'[p])
        /\ kind[p] \in {"save", "delete"} => RestJoined
    BY <1>1 DEF Alone, Sound
  <1>5. Unique(committed)
    BY DEF UniqueInv
  <1>6. CASE kind[p] = "save"
    <2>1. PICK canvas \in Canvases : todo'[p] = Save(w, canvas, p) /\ asked'[p] = canvas
      BY <1>1, <1>6 DEF Start
    <2>2. IsCanvas(canvas) /\ Acceptable(canvas) /\ RestJoined
      BY <1>4, <1>6, <2>1, CanvasOfPage
    <2>3. \E f \in committed : f.tab = "workflow" /\ Key(f) = <<"workflow", w>>
      <3>1. WorkflowRow(w, w).tab = "workflow" /\ Key(WorkflowRow(w, w)) = <<"workflow", w>>
        BY DEF Key, WorkflowRow, Row
      <3> QED
        BY <1>4, <3>1
    <2>4. ASSUME NEW f \in committed, NEW r \in committed, f.wf = w,
                 f.tab \in {"edge", "record", "step", "note"}, Key(f) \in r.refs
          PROVE  f.tab = "step" /\ r.wf = w /\ r.tab \in {"edge", "record"}
      <3>1. r.tab \in Referring(f.tab) /\ r.wf = w
        BY <1>5, <2>2, <2>4, Refers
      <3> QED
        BY <2>4, <3>1 DEF Referring
    <2>5. ASSUME NEW e \in ToSet(canvas.edges), NEW s \in {e.from, e.to},
                 s \notin ToSet(canvas.steps)
          PROVE  \E f \in committed : Key(f) = StepKey(w, s) /\ f.wf # w
      <3>1. s \in ToSet(Rest.steps)
        BY <2>2, <2>5 DEF Acceptable
      <3>2. StepRow(other, s, other) \in committed
        BY <3>1, OtherHas DEF IInv, RowsInv
      <3>3. /\ Key(StepRow(other, s, other)) = StepKey(w, s)
            /\ StepRow(other, s, other).wf = other
        BY Origins DEF StepRow, StepKey, Row, Key
      <3> QED
        BY <3>2, <3>3, Origins
    <2>6. /\ IsInjective(canvas.steps) /\ IsInjective(EdgeIds(canvas))
          /\ IsInjective(canvas.notes)
      BY <2>2 DEF Acceptable, NewIds
    <2>7. \A f \in committed :
             /\ \A s \in ToSet(canvas.steps) : Key(f) = Key(StepRow(w, s, p)) => f.wf = w
             /\ \A e \in ToSet(canvas.edges) : Key(f) = Key(EdgeRow(w, e, p)) => f.wf = w
             /\ \A n \in ToSet(canvas.notes) : Key(f) = Key(NoteRow(w, n, p)) => f.wf = w
      BY <2>2, IdsFree
    <2>8. Feasible(Save(w, canvas, p), committed, w)
      BY <2>2, <2>3, <2>4, <2>5, <2>6, <2>7, SaveFeasible
    <2> QED
      BY <1>1, <1>3, <1>6, <2>1, <2>8 DEF Target
  <1>7. CASE kind[p] = "delete"
    <2>1. todo'[p] = DeleteWorkflow
      BY <1>1, <1>7 DEF Start
    <2>2. \A f, r \in committed :
             f.wf = w /\ Key(f) \in r.refs => r.wf = w /\ r.tab \in Referring(f.tab)
      BY <1>4, <1>5, <1>7, Refers
    <2>3. Feasible(DeleteWorkflow, committed, w)
      BY <1>4, <2>2, DeleteFeasible
    <2> QED
      BY <1>1, <1>3, <1>7, <2>1, <2>3 DEF Target
  <1>8. CASE kind[p] \in {"execute", "clone"}
    <2>1. todo'[p] = Reads(kind[p])
      BY <1>1, <1>8 DEF Start
    <2>2. \A i \in 1 .. Len(todo'[p]) : todo'[p][i].do = "read"
      BY <1>8, <2>1, ReadsList
    <2> QED
      BY <1>3, <2>2, ReadsFeasible
  <1> QED
    BY <1>6, <1>7, <1>8 DEF Start

\* Who has read all of it alone has read what is committed: its steps are there.
LEMMA ReadWhole ==
    ASSUME NEW p \in Operations, IInv, FormInv, ReadersInv, ReadTable(p), Len(todo[p]) = 1,
           met[p] = {}
    PROVE  /\ \A tab \in ReadTabs(kind[p]) : Part(AllRead(p), tab) = Part(committed, tab)
           /\ \A s \in Names(AllRead(p), "step", w) : StepKey(w, s) \in Keys(committed)
  <1>1. /\ IsSeq(todo[p]) /\ todo[p] # <<>> /\ kind[p] \in {"execute", "clone"}
    BY ReadingStep
  <1>2. \A tab : ~ReadsOf(Tail(todo[p]), tab)
    <2>1. Len(Tail(todo[p])) = 0
      BY <1>1, SeqParts
    <2>2. 1 .. 0 = {}
      OBVIOUS
    <2> QED
      BY <2>1, <2>2 DEF ReadsOf
  <1>3. ~stale[p]
    BY DEF ReadersInv, Fresh
  <1>4. ASSUME NEW tab \in ReadTabs(kind[p]) PROVE Part(AllRead(p), tab) = Part(committed, tab)
    <2>1. Unknown(p) /\ Fresh(p) /\ ReadInv(p)
      BY DEF ReadersInv
    <2>2. IF ReadsOf(Tail(todo[p]), tab) THEN Part(AllRead(p), tab) = {}
          ELSE stale[p] \/ Part(AllRead(p), tab) = Part(committed, tab)
      BY <2>1, StepRead
    <2> QED
      BY <1>2, <1>3, <2>2, Zenon
  <1>5. "step" \in ReadTabs(kind[p])
    BY DEF ReadTabs
  <1>6. ASSUME NEW s \in Names(AllRead(p), "step", w) PROVE StepKey(w, s) \in Keys(committed)
    <2>1. PICK r \in Part(AllRead(p), "step") : r.has = s
      BY DEF Names, Part
    <2>2. r \in Part(committed, "step")
      BY <1>4, <1>5
    <2>3. r \in committed /\ r.tab = "step" /\ r.wf = w /\ Formed(r)
      BY <2>2 DEF Part, FormInv
    <2>4. r.id = <<Origin(w), s>>
      BY <2>1, <2>3, RowsOfTable
    <2> QED
      BY <2>3, <2>4 DEF Keys, Key, StepKey
  <1> QED
    BY <1>4, <1>6

\* What an operation is to do after it has read alone does not fail.
LEMMA ReadAlone ==
    ASSUME NEW p \in Operations, IInv, FormInv, ReadersInv, UniqueInv, ReadTable(p)
    PROVE  AloneInv(p)'
  <1> SUFFICES ASSUME Alone(p)'
               PROVE  found'[p] = Unread /\ Feasible(todo'[p], Visible(p)', Target(kind'[p], p))
    BY DEF AloneInv
  <1>1. /\ todo[p] # <<>> /\ kind[p] \in {"execute", "clone"} /\ kind' = kind
        /\ \A i \in 1 .. Len(todo[p]) : todo[p][i].do = "read"
        /\ UNCHANGED <<committed, txVars>> /\ found[p] = Unread /\ Visible(p) = committed
        /\ IsFiniteSet(AllRead(p)) /\ IsSeq(todo[p])
    BY ReadingStep
  <1>2. found'[p] = Unread /\ Visible(p)' = committed
    BY <1>1 DEF txVars, Visible
  <1>3. todo'[p] # <<>> /\ met[p] = {} /\ WorkflowRow(w, w) \in committed
    <2>1. met' = met
      BY ReadingStep
    <2> QED
      BY <1>1, <2>1 DEF Alone
  <1>4. <<"workflow", w>> \in Keys(committed)
    <2>1. Key(WorkflowRow(w, w)) = <<"workflow", w>>
      BY DEF Key, WorkflowRow, Row
    <2> QED
      BY <1>3, <2>1 DEF Keys
  <1>5. \A r \in committed : Formed(r) /\ r.by # p
    <2>1. 1 \in 1 .. Len(todo[p])
      BY <1>1, FirstBefore
    <2>2. Reading(p)
      BY <1>1, <2>1 DEF Reading, Has
    <2> QED
      BY <2>2 DEF FormInv, ReadersInv, Unknown
  <1>6. CASE todo'[p] = Tail(todo[p])
    <2>1. IsSeq(Tail(todo[p])) /\ Before(todo[p], Head(todo[p]), Tail(todo[p]))
      BY <1>1, FirstBefore
    <2>2. \A i \in 1 .. Len(Tail(todo[p])) : i + 1 \in 1 .. Len(todo[p])
                                              /\ todo[p][i + 1] = Tail(todo[p])[i]
      BY <2>1, SeqParts DEF Before
    <2>3. \A i \in 1 .. Len(todo'[p]) : todo'[p][i].do = "read"
      BY <1>1, <1>6, <2>2
    <2> QED
      BY <1>2, <2>3, ReadsFeasible
  <1>7. CASE Len(todo[p]) = 1 /\ kind[p] = "execute" /\ todo'[p] = Admit(AllRead(p), p)
    <2>1. \A s \in Names(AllRead(p), "step", w) : StepKey(w, s) \in Keys(committed)
      BY <1>3, <1>7, ReadWhole
    <2>2. Feasible(Admit(AllRead(p), p), committed, w)
      BY <1>1, <1>4, <1>5, <2>1, AdmitFeasible
    <2> QED
      BY <1>1, <1>2, <1>7, <2>2 DEF Target
  <1>8. CASE Len(todo[p]) = 1 /\ kind[p] = "clone" /\ todo'[p] = Copy(AllRead(p), p)
    <2>1. Part(AllRead(p), "edge") = Part(committed, "edge")
      <3>1. "edge" \in ReadTabs(kind[p])
        BY DEF ReadTabs
      <3> QED
        BY <1>3, <1>8, <3>1, ReadWhole
    <2>2. Joined(AllRead(p))
      <3>1. ~Reading(p)' /\ loaded'[p] = AllRead(p)
        BY <1>1, <1>8, CopyRows, ReadingStep DEF Reading
      <3> QED
        BY <1>1, <1>8, <3>1 DEF Alone, Sound
    <2>3. Unique(committed) /\ \A r \in committed : r.by # p
      BY <1>5 DEF UniqueInv
    <2>4. Feasible(Copy(AllRead(p), p), committed, p)
      BY <1>1, <1>8, <2>1, <2>2, <2>3, CopyFeasible
    <2> QED
      BY <1>1, <1>2, <1>8, <2>4 DEF Target
  <1> QED
    BY <1>3, <1>6, <1>7, <1>8, ReadingStep

\* What a DELETE alone finds nobody refers to any more.
LEMMA DeleteAlone ==
    ASSUME NEW p \in Operations, IInv, FormInv, AloneInv(p), DeleteRows(p), Alone(p)
    PROVE  /\ Statement(p).tab = "workflow" => Found(p) # {}
           /\ found'[p] = Unread /\ result' = result
           /\ Feasible(todo'[p], Visible(p)', Target(kind[p], p))
  <1> DEFINE t == todo[p]
             s == Statement(p)
             V == Visible(p)
             wf == Target(kind[p], p)
             F == Found(p)
             U == {r \in V : ~ (r.tab = s.tab /\ r.wf = wf)}
  <1>1. /\ t # <<>> /\ s.do = "delete" /\ s = Head(t) /\ IsSeq(t)
        /\ DOMAIN found = Operations /\ DOMAIN todo = Operations /\ DOMAIN deleted = Operations
        /\ DOMAIN inserted = Operations /\ IsSeq(Tail(t))
    BY UnderWay DEF Alone, DeleteRows, Statement, IInv, TypeInv
  <1>2. Feasible(t, V, wf) /\ found[p] = Unread
    BY DEF AloneInv
  <1>3. s.wf = wf /\ inserted[p] = {}
    BY <1>1, Deleting
  <1>4. F = {r \in V : r.tab = s.tab /\ r.wf = wf}
    BY <1>2, <1>3 DEF Found, Matching
  <1>5. /\ \A f, r \in V : ~ (f.tab = s.tab /\ f.wf = wf /\ Key(f) \in r.refs)
        /\ s.tab = "workflow" => wf = w /\ WorkflowRow(w, w) \in V
    BY <1>1, <1>2, FirstFeasible
  <1>7. s.tab = "workflow" => F # {}
    <2>1. WorkflowRow(w, w).tab = "workflow" /\ WorkflowRow(w, w).wf = w
      BY DEF WorkflowRow, Row
    <2> HIDE DEF s, V, wf, F
    <2> QED
      BY <1>4, <1>5, <2>1
  <1>8. ASSUME NEW r \in V, RefersTo(r, Keys(F)) PROVE FALSE
    <2>1. PICK f \in F : Key(f) \in r.refs
      BY <1>8 DEF RefersTo, Keys
    <2>2. f \in V /\ f.tab = s.tab /\ f.wf = wf
      BY <1>4
    <2> QED
      BY <1>5, <2>1, <2>2
  <1>9. V = committed \ deleted[p] /\ F \subseteq V
    BY <1>3, <1>4 DEF Visible
  <1>10. /\ deleted' = [deleted EXCEPT ![p] = @ \cup (F \cap committed)]
         /\ inserted' = [inserted EXCEPT ![p] = @ \ F]
         /\ found' = [found EXCEPT ![p] = Unread]
         /\ Advance(p, IF \E r \in V : RefersTo(r, Keys(F))
                       THEN <<[do |-> "check", keys |-> Keys(F)]>> ELSE <<>>)
         /\ committed' = committed /\ result' = result
    <2> HIDE DEF s, F, V
    <2>1. ~ (s.tab = "workflow" /\ F = {})
      BY <1>7
    <2> QED
      BY <2>1 DEF DeleteRows, s, F, V
  <1>11. Advance(p, <<>>)
    BY <1>8, <1>10
  <1>12. todo'[p] = Tail(t)
    BY <1>1, <1>11, SeqNone DEF Advance
  <1>13. Visible(p)' = U
    <2>1. deleted'[p] = deleted[p] \cup (F \cap committed) /\ inserted'[p] = {}
      BY <1>1, <1>3, <1>10
    <2>2. Visible(p)' = (committed \ deleted'[p]) \cup inserted'[p]
      BY <1>10 DEF Visible
    <2> HIDE DEF F, V, s, wf
    <2> QED
      BY <1>4, <1>9, <2>1, <2>2 DEF U
  <1>14. Feasible(Tail(t), U, wf)
    BY <1>1, <1>2, FeasibleDeleted
  <1> QED
    BY <1>1, <1>7, <1>10, <1>12, <1>13, <1>14

\* What an INSERT alone adds is new and refers to what is there.
LEMMA InsertAlone ==
    ASSUME NEW p \in Operations, IInv, FormInv, AloneInv(p), InsertRow(p), Alone(p)
    PROVE  /\ result'[p] # "error" /\ found'[p] = Unread
           /\ todo'[p] = <<>> \/ Feasible(todo'[p], Visible(p)', Target(kind[p], p))
  <1> DEFINE t == todo[p]
             row == Statement(p).row
             V == Visible(p)
             wf == Target(kind[p], p)
  <1>1. /\ t # <<>> /\ Statement(p).do = "insert" /\ Statement(p) = Head(t) /\ IsSeq(t)
        /\ DOMAIN todo = Operations /\ DOMAIN inserted = Operations /\ DOMAIN result = Operations
        /\ IsSeq(Tail(t)) /\ result[p] = "none" /\ Tx(p)
    BY UnderWay DEF Alone, InsertRow, Statement, IInv, TypeInv
  <1>2. Feasible(t, V, wf) /\ found[p] = Unread
    BY DEF AloneInv
  <1>3. Key(row) \notin Keys(V) /\ row.refs \subseteq Keys(V)
    BY <1>1, <1>2, FirstFeasible
  <1>4. /\ IF open[p] THEN /\ inserted' = [inserted EXCEPT ![p] = @ \cup {row}]
                           /\ UNCHANGED committed
                      ELSE committed' = committed \cup {row} /\ UNCHANGED inserted
        /\ IF Len(t) = 1 THEN Answer(p, "ok") ELSE Advance(p, <<>>) /\ UNCHANGED result
        /\ UNCHANGED <<deleted, found>>
    BY <1>3 DEF InsertRow
  <1>5. result'[p] # "error" /\ found'[p] = Unread
    BY <1>1, <1>2, <1>4 DEF Answer
  <1>6. todo'[p] = <<>> \/ todo'[p] = Tail(t)
    BY <1>1, <1>4, SeqNone DEF Answer, Advance
  <1>7. Visible(p)' = V \cup {row}
    <2>1. CASE open[p]
      <3>1. inserted'[p] = inserted[p] \cup {row} /\ committed' = committed
        BY <1>1, <1>4, <2>1
      <3> QED
        BY <1>4, <3>1 DEF Visible
    <2>2. CASE ~open[p]
      <3>1. deleted[p] = {}
        BY <1>1, <2>2 DEF Tx
      <3> QED
        BY <1>4, <2>2, <3>1 DEF Visible
    <2> QED
      BY <2>1, <2>2
  <1>8. Feasible(Tail(t), V \cup {row}, wf)
    BY <1>1, <1>2, FeasibleInserted
  <1> QED
    BY <1>5, <1>6, <1>7, <1>8

LEMMA AloneKeeps ==
    ASSUME NEW p \in Operations, IInv, FormInv, ReadersInv, UniqueInv, \A q \in Operations : AloneInv(q),
           Moves(p)
    PROVE  \A q \in Operations : AloneInv(q)'
  <1>1. ASSUME NEW q \in Operations, q # p PROVE ~Alone(q)'
    <2>1. todo'[q] = todo[q]
      BY <1>1, OwnSteps DEF IInv, Moves, Others, Same
    <2>2. CASE todo[q] # <<>>
      <3>1. CASE Start(p)
        BY <1>1, <2>2, <3>1, Meeting DEF Alone
      <3>2. CASE todo[p] # <<>>
        <4>1. p \in met[q]
          BY <1>1, <2>2, <3>2 DEF IInv, MetInv, Active
        <4>2. met'[q] = met[q] \/ met'[q] = met[q] \cup {p}
          BY <1>1, Meeting
        <4> QED
          BY <4>1, <4>2 DEF Alone
      <3> QED
        BY <3>1, <3>2, Acting
    <2> QED
      BY <2>1, <2>2 DEF Alone
  <1>2. CASE Start(p)
    BY <1>1, <1>2, StartAlone DEF AloneInv
  <1>3. CASE ReadTable(p)
    BY <1>1, <1>3, ReadAlone DEF AloneInv
  <1>4. ASSUME Alone(p)', ~Start(p), ~ReadTable(p)
        PROVE  found'[p] = Unread /\ Feasible(todo'[p], Visible(p)', Target(kind'[p], p))
    <2>1. Alone(p) /\ kind' = kind /\ todo'[p] # <<>>
      BY <1>4, WasAlone, Staying DEF Alone
    <2>2. todo[p] # <<>> /\ met[p] = {} /\ AloneInv(p)
      BY <2>1 DEF Alone
    <2>3. DOMAIN todo = Operations
      BY DEF IInv, TypeInv
    <2>4. \A answer : ~Answer(p, answer)
      BY <2>1, <2>3 DEF Answer
    <2>5. ~CommitTx(p) /\ ~StatementFails(p)
      BY <2>4 DEF CommitTx, StatementFails, Fail
    <2>6. ~Wait(p) /\ ~EndDeadlock(p)
      BY <2>2, NobodyElse
    <2>7. ~CheckReferences(p)
      <3>1. Feasible(todo[p], Visible(p), Target(kind[p], p))
        BY <2>1, <2>2 DEF AloneInv
      <3>2. IsSeq(todo[p])
        BY <2>2, UnderWay
      <3> QED
        BY <2>2, <3>1, <3>2, FirstFeasible DEF CheckReferences, Statement
    <2>8. CASE DeleteRows(p)
      BY <2>1, <2>2, <2>8, DeleteAlone
    <2>9. CASE InsertRow(p)
      BY <2>1, <2>2, <2>9, InsertAlone
    <2> QED
      BY <1>4, <2>5, <2>6, <2>7, <2>8, <2>9 DEF Moves, Step
  <1>5. CASE ~Start(p) /\ ~ReadTable(p)
    BY <1>1, <1>4, <1>5 DEF AloneInv
  <1> QED
    BY <1>2, <1>3, <1>5

\* Why an operation that meets nobody is refused.
Excused(p) ==
    \/ lost[p]
    \/ WorkflowRow(w, w) \notin committed
    \/ kind[p] = "execute" /\ Names(loaded[p], "step", w) = {}
    \/ kind[p] = "save" /\ ~Acceptable(asked[p])
    \/ kind[p] \in {"save", "delete"} /\ ~RestJoined
    \/ kind[p] = "clone" /\ ~Joined(loaded[p])

AloneRefused == \A p \in Operations : result[p] = "error" /\ met[p] = {} => Excused(p)

LEMMA RefusedKeeps ==
    ASSUME NEW p \in Operations, IInv, FormInv, \A q \in Operations : AloneInv(q), LostInv,
           AloneRefused, Moves(p)
    PROVE  AloneRefused'
  <1>1. lost' = lost \/ lost' = [lost EXCEPT ![p] = TRUE]
    BY DEF Moves, Step, Start, ReadTable, DeleteRows, CheckReferences, InsertRow, EndDeadlock,
           Wait, CommitTx, StatementFails, history
  <1>2. WorkflowRow(w, w) \in committed' => WorkflowRow(w, w) \in committed
    BY WasAlone
  <1> SUFFICES ASSUME NEW q \in Operations, result'[q] = "error", met'[q] = {}
               PROVE  Excused(q)'
    BY DEF AloneRefused
  <1>3. CASE q # p
    <2>1. /\ result[q] = "error" /\ loaded'[q] = loaded[q] /\ asked'[q] = asked[q]
          /\ kind' = kind /\ todo'[q] = todo[q]
      BY <1>3, OwnSteps DEF IInv, Moves, Others, Same
    <2>2. todo[q] = <<>>
      BY <2>1 DEF IInv, TxInv, Tx
    <2>3. met[q] = {}
      BY <1>3, <2>2, Meeting
    <2>4. Excused(q)
      BY <2>1, <2>3 DEF AloneRefused
    <2>5. lost'[q] = lost[q]
      BY <1>1, <1>3 DEF LostInv
    <2>6. CASE lost[q]
      BY <2>5, <2>6, Zenon DEF Excused
    <2>7. CASE ~lost[q]
      BY <1>2, <2>1, <2>4, <2>7 DEF Excused
    <2> QED
      BY <2>6, <2>7
  <1>4. CASE q = p
    <2>1. ~Start(p)
      <3>1. ASSUME Start(p) PROVE FALSE
        <4>1. result[p] = "none" /\ result' = result
          BY <3>1 DEF Start
        <4> QED
          BY <1>4, <4>1
      <3> QED
        BY <3>1
    <2>2. todo[p] # <<>> /\ UNCHANGED <<met, kind, asked>>
      BY <2>1, Acting, Staying
    <2>3. result[p] = "none" /\ met[p] = {} /\ IsSeq(todo[p])
      BY <1>4, <2>2, UnderWay
    <2>4. CASE ~Alone(p)
      <3>1. WorkflowRow(w, w) \notin committed \/ ~Sound(p)
        BY <2>2, <2>3, <2>4 DEF Alone
      <3>2. CASE WorkflowRow(w, w) \notin committed
        BY <1>2, <1>4, <3>2 DEF Excused
      <3>3. CASE kind[p] = "save" /\ ~Acceptable(asked[p])
        BY <1>4, <2>2, <3>3 DEF Excused
      <3>4. CASE kind[p] \in {"save", "delete"} /\ ~RestJoined
        BY <1>4, <2>2, <3>4 DEF Excused
      <3>5. CASE kind[p] = "clone" /\ ~Reading(p) /\ ~Joined(loaded[p])
        <4>1. ~ReadTable(p)
          <5>1. ASSUME ReadTable(p) PROVE FALSE
            <6>1. todo[p][1].do = "read" /\ 1 \in 1 .. Len(todo[p])
              BY <5>1, <2>2, <2>3, ReadingStep, FirstBefore
            <6> QED
              BY <3>5, <6>1 DEF Reading, Has
          <5> QED
            BY <5>1
        <4>2. loaded' = loaded
          BY <2>1, <4>1, Proceeding DEF Moves, Step, Proceeds
        <4> QED
          BY <1>4, <2>2, <3>5, <4>2 DEF Excused
      <3> QED
        BY <3>1, <3>2, <3>3, <3>4, <3>5 DEF Sound
    <2>5. CASE Alone(p)
      <3>1. AloneInv(p) /\ Feasible(todo[p], Visible(p), Target(kind[p], p))
        BY <2>5 DEF AloneInv
      <3>2. CASE ReadTable(p)
        <4>1. WorkflowRow(w, w) \in Part(committed, "workflow")
          <5>1. WorkflowRow(w, w).tab = "workflow" /\ WorkflowRow(w, w).wf = w
            BY DEF WorkflowRow, Row
          <5> QED
            BY <2>5, <5>1 DEF Alone, Part
        <4>2. Part(committed, "workflow") # {}
          BY <4>1
        <4>3. /\ loaded'[p] = AllRead(p)
              /\ result'[p] = result[p]
                 \/ (kind[p] = "execute" /\ Names(AllRead(p), "step", w) = {})
          BY <3>2, <4>2, ReadingStep
        <4> QED
          BY <1>4, <2>2, <2>3, <4>3 DEF Excused
      <3>3. CASE DeleteRows(p)
        <4>1. result' = result
          BY <2>5, <3>1, <3>3, DeleteAlone
        <4> QED
          BY <1>4, <2>3, <4>1
      <3>4. CASE CheckReferences(p)
        BY <2>2, <2>3, <3>1, <3>4, FirstFeasible DEF CheckReferences, Statement
      <3>5. CASE InsertRow(p)
        BY <1>4, <2>5, <3>1, <3>5, InsertAlone
      <3>6. CASE CommitTx(p)
        <4>1. DOMAIN result = Operations /\ DOMAIN lost = Operations
          BY DEF IInv, TypeInv, LostInv
        <4>2. CASE Answer(p, "ok")
          BY <1>4, <4>1, <4>2 DEF Answer
        <4>3. CASE lost' = [lost EXCEPT ![p] = TRUE]
          BY <1>4, <4>1, <4>3 DEF Excused
        <4> QED
          BY <3>6, <4>2, <4>3 DEF CommitTx
      <3>7. CASE StatementFails(p)
        <4>1. lost' = [lost EXCEPT ![p] = TRUE] /\ DOMAIN lost = Operations
          BY <3>7 DEF StatementFails, LostInv
        <4> QED
          BY <1>4, <4>1 DEF Excused
      <3>8. ~Wait(p) /\ ~EndDeadlock(p)
        BY <2>2, <2>3, NobodyElse
      <3> QED
        BY <2>1, <3>2, <3>3, <3>4, <3>5, <3>6, <3>7, <3>8 DEF Moves, Step
    <2> QED
      BY <2>4, <2>5
  <1> QED
    BY <1>3, <1>4

AInv ==
    UniqueInv /\ AloneRefused /\ \A p \in Operations : AloneInv(p)

LEMMA ThirdAtFirst == Init => AInv
  <1> SUFFICES ASSUME Init PROVE AInv
    OBVIOUS
  <1>1. \A p \in Operations : todo[p] = <<>> /\ result[p] = "none"
    BY DEF Init
  <1> QED
    BY <1>1, UniqueAtFirst DEF AInv, AloneRefused, AloneInv, Alone

LEMMA ThirdStutters ==
    ASSUME AInv, UNCHANGED vars
    PROVE  AInv'
  <1> USE DEF vars, txVars, history
  <1>1. UniqueInv'
    BY DEF AInv, UniqueInv
  <1>2. AloneRefused'
    BY DEF AInv, AloneRefused, Excused
  <1>3. ASSUME NEW p \in Operations PROVE AloneInv(p)'
    <2>1. AloneInv(p)
      BY DEF AInv
    <2>2. Alone(p)' => Alone(p)
      BY DEF Alone, Sound, Reading
    <2>3. Visible(p)' = Visible(p)
      BY DEF Visible
    <2> QED
      BY <2>1, <2>2, <2>3 DEF AloneInv
  <1> QED
    BY <1>1, <1>2, <1>3 DEF AInv

LEMMA ThirdKeeps ==
    ASSUME IInv, SInv, AInv, [Next]_vars
    PROVE  AInv'
  <1>1. CASE UNCHANGED vars
    BY <1>1, ThirdStutters
  <1>2. ASSUME NEW p \in Operations, Moves(p) PROVE AInv'
    <2>1. FormInv /\ ReadersInv /\ LostInv /\ UniqueInv /\ AloneRefused
      BY DEF SInv, AInv
    <2>2. \A q \in Operations : AloneInv(q)
      BY DEF AInv
    <2>3. UniqueInv' /\ AloneRefused'
      BY <1>2, <2>1, <2>2, UniqueKeeps, RefusedKeeps
    <2>4. \A q \in Operations : AloneInv(q)'
      BY <1>2, <2>1, <2>2, AloneKeeps
    <2> QED
      BY <2>3, <2>4 DEF AInv
  <1> QED
    BY <1>1, <1>2 DEF Next, Moves

\* An operation that nobody else's meets succeeds whatever rows earlier operations have
\* left, for they are deleted after those that refer to them ("Order matters: delete
\* children before parents", repository.go:123), and added before, unless a statement of
\* it is lost, its workflow is gone, it finds no step to execute (executor.go:107), it sends
\* a canvas that the keys of the tables refuse, it deletes steps that an edge of another
\* workflow joins, or it copies (service.go:119) an edge to a step of another workflow.
THEOREM AloneIsNotRefused == Spec => []AloneSucceeds
  <1>1. IInv /\ SInv /\ AInv /\ [Next]_vars => AInv'
    BY ThirdKeeps
  <1>2. IInv /\ SInv /\ AInv => AloneSucceeds
    <2> SUFFICES ASSUME IInv, SInv, AInv, NEW p \in Operations, result[p] = "error", met[p] = {}
                 PROVE  \/ lost[p]
                        \/ WorkflowRow(w, w) \notin committed
                        \/ kind[p] = "execute" /\ Names(loaded[p], "step", w) = {}
                        \/ kind[p] = "save" /\ ~Acceptable(asked[p])
                        \/ kind[p] \in {"save", "delete"} /\ Held
                        \/ kind[p] = "clone" /\ ~Joined(loaded[p])
      BY DEF AloneSucceeds
    <2>1. Excused(p)
      BY DEF AInv, AloneRefused
    <2>2. ~RestJoined => Held
      BY HeldOrJoined DEF SInv
    <2> QED
      BY <2>1, <2>2 DEF Excused
  <1> QED
    BY Invariant, SecondInvariant, ThirdAtFirst, <1>1, <1>2, PTL DEF Spec

================================================================================
