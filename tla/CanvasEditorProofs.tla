-------------------------- MODULE CanvasEditorProofs ---------------------------
(***************************************************************************)
(* What the editor draws, saves and gets back, for any steps, any saved    *)
(* workflow and any number of pages, changes and failures.                 *)
(***************************************************************************)
EXTENDS CanvasEditor, FiniteSetTheorems, WellFoundedInduction, TLAPS

--------------------------------------------------------------------------------
(***************************************************************************)
(* The inductive invariant of the pages.  One page is there at a time; as  *)
(* long as nothing is excused, timers and saves are its own, and a save    *)
(* that is under way has sent what the page shows, unless the timer of a   *)
(* later change will send again.                                           *)
(***************************************************************************)
Present(v) == view[v] \in {"loading", "open"}

SaveType == [id : Nat, visit : Visits, at : {"sent", "applied"}, body : SavedCanvas]

TypeInv ==
    /\ stored \in SavedCanvas
    /\ cached \in SavedCanvas \cup {NoWorkflow}
    /\ fetch \in {"none", "asked", "answered"}
    /\ answer \in SavedCanvas \cup {NoWorkflow}
    /\ fetch = "answered" => answer \in SavedCanvas
    /\ view \in [Visits -> {"unopened", "loading", "open", "left"}]
    /\ canvas \in [Visits -> Canvas]
    /\ dirty \in [Visits -> BOOLEAN] /\ saved \in [Visits -> BOOLEAN] /\ timer \in [Visits -> BOOLEAN]
    /\ saves \subseteq SaveType
    /\ edits \in Nat /\ sends \in Nat /\ excused \in BOOLEAN

\* One page after the other; a page that shows nothing yet has nothing saved.
PagesInv ==
    /\ \A u, v \in Visits : u < v /\ view[v] # "unopened" => view[u] = "left"
    /\ \A v \in Visits : view[v] \in {"unopened", "loading"} => ~saved[v] /\ ~timer[v]

OwnInv ==
    /\ \A s, t \in saves : s = t
    /\ \A v \in Visits : Present(v) =>
          /\ \A u \in Visits : timer[u] => u = v
          /\ \A s \in saves : s.visit = v
    /\ \A v \in Visits : view[v] = "loading" => saves = {}

SentInv ==
    \A v \in Visits : view[v] = "open" /\ ~timer[v] =>
       /\ \A s \in saves : s.body = ToSave(canvas[v]) /\ (s.at = "applied" => stored = s.body)
       /\ saves = {} /\ saved[v] /\ ~dirty[v] => stored = ToSave(canvas[v])

IInv == TypeInv /\ PagesInv /\ (~excused => OwnInv /\ SentInv)

--------------------------------------------------------------------------------
(***************************************************************************)
(* Paths.  Doubling them as often as there are steps is enough, since from *)
(* any step more steps are reached each time, or all of them have been.    *)
(***************************************************************************)
Joined(T) == {l \in Link : \E m \in Steps : <<l[1], m>> \in T /\ <<m, l[2]>> \in T}

Transitive(T) == \A x, y, z \in Steps : <<x, y>> \in T /\ <<y, z>> \in T => <<x, z>> \in T

Times == Cardinality(Steps)

\* The paths of a set of links as they are made, doubled from one time to the next.
IsPaths(path, links) ==
    path = [n \in 0 .. Times |->
              IF n = 0 THEN links ELSE path[n - 1] \cup Joined(path[n - 1])]

\* Every set of natural numbers with an element has a least one.
LEMMA LeastNumber ==
    ASSUME NEW T, T \subseteq Nat, T # {}
    PROVE  \E m \in T : \A k \in T : m <= k
  <1> DEFINE R == {ss \in Nat \X Nat : ss[1] < ss[2]}
  <1>1. IsWellFoundedOn(R, Nat)
    BY NatLessThanWellFounded DEF OpToRel
  <1>2. \A k, m \in Nat : k < m => <<k, m>> \in R
    OBVIOUS
  <1> HIDE DEF R
  <1>3. PICK m \in T : \A k \in T : <<k, m>> \notin R
    BY <1>1, WFMin
  <1>4. ASSUME NEW k \in T PROVE m <= k
    <2>1. ~(k < m) /\ k \in Nat /\ m \in Nat
      BY <1>2, <1>3
    <2> QED
      BY <2>1
  <1> QED
    BY <1>4

\* There are finitely many steps, so their number is one.
LEMMA TimesNat == Times \in Nat
  BY ConditionsAssumption, FS_CardinalityType DEF Times

\* The recursion has a solution: one that ends too early could be continued.
LEMMA PathsExist ==
    ASSUME NEW links \in Sets
    PROVE  \E path : IsPaths(path, links)
  <1> DEFINE Upto(k) == \E f : f = [n \in 0 .. k |->
                            IF n = 0 THEN links ELSE f[n - 1] \cup Joined(f[n - 1])]
             Without == {k \in 0 .. Times : ~Upto(k)}
  <1>1. Without = {}
    <2> SUFFICES ASSUME Without # {} PROVE FALSE
      OBVIOUS
    <2>1. PICK k \in Without : \A j \in Without : k <= j
      <3>1. Without \subseteq Nat
        BY TimesNat
      <3> HIDE DEF Without
      <3> QED
        BY <3>1, LeastNumber
    <2>2. k \in 0 .. Times /\ ~Upto(k)
      BY <2>1
    <2>3. CASE k = 0
      <3> DEFINE g == [n \in 0 .. 0 |-> links]
      <3>1. g = [n \in 0 .. 0 |-> IF n = 0 THEN links ELSE g[n - 1] \cup Joined(g[n - 1])]
        OBVIOUS
      <3> QED
        BY <2>2, <2>3, <3>1
    <2>4. CASE k # 0
      <3>1. k - 1 \in 0 .. Times /\ k - 1 < k
        BY <2>2, <2>4, TimesNat
      <3>2. Upto(k - 1)
        <4>1. k - 1 \notin Without
          <5>1. k \in Nat
            BY <2>2, TimesNat
          <5> HIDE DEF Without
          <5> QED
            BY <2>1, <3>1, <5>1
        <4> HIDE DEF Upto
        <4> QED
          BY <3>1, <4>1
      <3>3. PICK f : f = [n \in 0 .. k - 1 |->
                            IF n = 0 THEN links ELSE f[n - 1] \cup Joined(f[n - 1])]
        BY <3>2
      <3> DEFINE g == [n \in 0 .. k |-> IF n = 0 THEN links ELSE f[n - 1] \cup Joined(f[n - 1])]
      <3>4. \A n \in 0 .. k - 1 : g[n] = f[n]
        <4> TAKE n \in 0 .. k - 1
        <4>1. n \in 0 .. k
          BY <2>2
        <4>2. f[n] = IF n = 0 THEN links ELSE f[n - 1] \cup Joined(f[n - 1])
          BY <3>3
        <4> QED
          BY <4>1, <4>2
      <3>5. g = [n \in 0 .. k |-> IF n = 0 THEN links ELSE g[n - 1] \cup Joined(g[n - 1])]
        <4>1. ASSUME NEW n \in 0 .. k, n # 0 PROVE g[n - 1] = f[n - 1]
          <5>1. n - 1 \in 0 .. k - 1
            BY <2>2, <4>1
          <5> QED
            BY <3>4, <5>1
        <4> QED
          BY <4>1
      <3> HIDE DEF g
      <3> QED
        BY <2>2, <3>5
    <2> QED
      BY <2>3, <2>4
  <1>2. Upto(Times)
    <2>1. Times \in 0 .. Times
      BY TimesNat
    <2> HIDE DEF Upto
    <2> QED
      BY <1>1, <2>1
  <1> QED
    BY <1>2 DEF IsPaths

\* The paths of the model are that solution.
LEMMA PathsAre ==
    ASSUME NEW links \in Sets
    PROVE  \E path : /\ path[0] = links
                     /\ \A n \in 1 .. Times : path[n] = path[n - 1] \cup Joined(path[n - 1])
                     /\ Before(links) = path[Times]
  <1> DEFINE p == CHOOSE path : IsPaths(path, links)
  <1>1. IsPaths(p, links)
    BY PathsExist
  <1>2. Before(links) = p[Times]
    BY DEF Before, Paths, IsPaths, Joined, Times
  <1> HIDE DEF p
  <1>3. p[0] = links
    BY <1>1, TimesNat DEF IsPaths
  <1>4. ASSUME NEW n \in 1 .. Times PROVE p[n] = p[n - 1] \cup Joined(p[n - 1])
    <2>1. n \in 0 .. Times /\ n # 0
      BY TimesNat
    <2> QED
      BY <1>1, <2>1 DEF IsPaths
  <1> QED
    BY <1>2, <1>3, <1>4

\* The steps a set of steps leads to stay in any set that contains those and is left by no
\* link.
LeftByNone(links, C) == \A x, y \in Steps : x \in C /\ <<x, y>> \in links => y \in C

Reached(T, x) == {y \in Steps : <<x, y>> \in T}

\* What the paths of a set of links are: its transitive closure.
LEMMA BeforeIsClosure ==
    ASSUME NEW links \in Sets
    PROVE  /\ links \subseteq Before(links) /\ Before(links) \subseteq Link
           /\ Transitive(Before(links))
           /\ \A T : Transitive(T) /\ links \subseteq T => Before(links) \subseteq T
  <1>1. PICK p : /\ p[0] = links
                 /\ \A n \in 1 .. Times : p[n] = p[n - 1] \cup Joined(p[n - 1])
                 /\ Before(links) = p[Times]
    BY PathsAre
  <1>2. links \subseteq Link /\ \A l \in Link : l = <<l[1], l[2]>> /\ l[1] \in Steps /\ l[2] \in Steps
    BY DEF Sets, Link
  <1>3. \A x, y \in Steps : <<x, y>> \in Link
    BY DEF Link
  <1> HIDE DEF Link
  \* Every step of the doubling stays below every transitive set, and above the links.
  <1>4. ASSUME NEW T, Transitive(T), links \subseteq T
        PROVE  \A n \in 0 .. Times : /\ p[n] \subseteq T /\ p[n] \subseteq Link
                                     /\ links \subseteq p[n]
    <2> DEFINE Good(n) == p[n] \subseteq T /\ p[n] \subseteq Link /\ links \subseteq p[n]
               Bad == {n \in 0 .. Times : ~Good(n)}
    <2>1. SUFFICES ASSUME Bad # {} PROVE FALSE
      OBVIOUS
    <2>2. PICK n \in Bad : \A k \in Bad : n <= k
      <3>1. Bad \subseteq Nat
        BY TimesNat
      <3> HIDE DEF Bad
      <3> QED
        BY <2>1, <3>1, LeastNumber
    <2>3. n # 0
      BY <1>1, <1>2, <1>4
    <2>4. n \in 1 .. Times /\ n - 1 \in 0 .. Times /\ n - 1 < n
      BY <2>2, <2>3, TimesNat
    <2>5. Good(n - 1)
      <3>1. n - 1 \notin Bad
        BY <2>2, <2>4, TimesNat
      <3> HIDE DEF Good
      <3> QED
        BY <2>4, <3>1
    <2>6. Joined(p[n - 1]) \subseteq T
      <3>1. ASSUME NEW l \in Joined(p[n - 1]) PROVE l \in T
        <4>1. PICK m \in Steps : <<l[1], m>> \in p[n - 1] /\ <<m, l[2]>> \in p[n - 1]
          BY DEF Joined
        <4>2. l = <<l[1], l[2]>> /\ l[1] \in Steps /\ l[2] \in Steps
          BY <1>2 DEF Joined
        <4>3. <<l[1], m>> \in T /\ <<m, l[2]>> \in T
          BY <2>5, <4>1
        <4> QED
          BY <1>4, <4>2, <4>3 DEF Transitive
      <3> QED
        BY <3>1
    <2>7. Good(n)
      BY <1>1, <2>4, <2>5, <2>6 DEF Joined
    <2> QED
      BY <2>2, <2>7
  \* From no step may the steps reached stop short of being left by no link.
  <1>5. ASSUME NEW C, LeftByNone(links, C), NEW x \in C, NEW n \in 0 .. Times,
               NEW y \in Steps, x \in Steps, <<x, y>> \in p[n]
        PROVE  y \in C
    <2> DEFINE T == {l \in Link : l[1] \in C => l[2] \in C}
    <2>1. links \subseteq T
      BY <1>2, <1>5 DEF LeftByNone
    <2>2. Transitive(T)
      BY <1>3 DEF Transitive
    <2>3. <<x, y>> \in T
      <3> HIDE DEF T
      <3> QED
        BY <1>4, <1>5, <2>1, <2>2
    <2> QED
      BY <1>5, <2>3
  <1>6. Transitive(Link)
    BY <1>3 DEF Transitive
  <1>7. \A n \in 0 .. Times : p[n] \subseteq Link /\ links \subseteq p[n]
    BY <1>2, <1>4, <1>6
  <1>8. ASSUME NEW x \in Steps PROVE LeftByNone(links, Reached(p[Times], x))
    <2> DEFINE S(n) == Reached(p[n], x)
               Good(n) == LeftByNone(links, S(n)) \/ Cardinality(S(n)) > n
               Bad == {n \in 0 .. Times : ~Good(n)}
    <2>1. \A n : S(n) \subseteq Steps /\ IsFiniteSet(S(n)) /\ Cardinality(S(n)) \in Nat
                 /\ Cardinality(S(n)) <= Times
      BY ConditionsAssumption, FS_Subset, FS_CardinalityType DEF Times, Reached
    <2>2. Bad = {}
      <3> SUFFICES ASSUME Bad # {} PROVE FALSE
        OBVIOUS
      <3>1. PICK n \in Bad : \A k \in Bad : n <= k
        <4>1. Bad \subseteq Nat
          BY TimesNat
        <4> HIDE DEF Bad
        <4> QED
          BY <4>1, LeastNumber
      <3>2. n \in 0 .. Times /\ ~LeftByNone(links, S(n)) /\ ~(Cardinality(S(n)) > n)
        BY <3>1
      <3>3. n # 0
        <4> SUFFICES ASSUME n = 0 PROVE FALSE
          OBVIOUS
        <4>1. S(0) # {}
          BY <3>2 DEF LeftByNone
        <4> HIDE DEF S
        <4>2. Cardinality(S(0)) # 0
          BY <2>1, <4>1, FS_EmptySet
        <4> QED
          BY <2>1, <3>2, <4>2
      <3>4. n \in 1 .. Times /\ n - 1 \in 0 .. Times /\ n - 1 < n
        BY <3>2, <3>3, TimesNat
      <3>5. Good(n - 1)
        <4>1. n - 1 \notin Bad
          BY <3>1, <3>4, TimesNat
        <4> HIDE DEF Good
        <4> QED
          BY <3>4, <4>1
      <3>6. p[n] = p[n - 1] \cup Joined(p[n - 1])
        BY <1>1, <3>4
      <3>7. S(n - 1) \subseteq S(n)
        BY <3>6 DEF Reached
      <3>8. CASE LeftByNone(links, S(n - 1))
        <4>1. S(n) \subseteq S(n - 1)
          <5> SUFFICES ASSUME NEW y \in S(n) PROVE y \in S(n - 1)
            OBVIOUS
          <5>1. y \in Steps /\ <<x, y>> \in p[n]
            BY DEF Reached
          <5>2. CASE <<x, y>> \in p[n - 1]
            BY <5>1, <5>2 DEF Reached
          <5>3. CASE <<x, y>> \in Joined(p[n - 1])
            <6>1. PICK m \in Steps : <<x, m>> \in p[n - 1] /\ <<m, y>> \in p[n - 1]
              BY <5>3 DEF Joined
            <6>2. m \in S(n - 1)
              BY <6>1 DEF Reached
            <6> HIDE DEF S
            <6> QED
              BY <1>5, <3>4, <3>8, <5>1, <6>1, <6>2
          <5> QED
            BY <3>6, <5>1, <5>2, <5>3
        <4>2. S(n) = S(n - 1)
          BY <3>7, <4>1
        <4> HIDE DEF S
        <4> QED
          BY <3>2, <3>8, <4>2
      <3>9. CASE ~LeftByNone(links, S(n - 1)) /\ Cardinality(S(n - 1)) > n - 1
        <4>1. PICK m \in Steps, y \in Steps :
                  m \in S(n - 1) /\ <<m, y>> \in links /\ y \notin S(n - 1)
          BY <3>9 DEF LeftByNone
        <4>2. y \in S(n)
          <5>1. <<x, m>> \in p[n - 1] /\ <<m, y>> \in p[n - 1]
            BY <1>7, <3>4, <4>1 DEF Reached
          <5>2. <<x, y>> \in Joined(p[n - 1])
            BY <1>3, <5>1 DEF Joined
          <5> QED
            BY <3>6, <5>2 DEF Reached
        <4> HIDE DEF S
        <4>3. Cardinality(S(n - 1)) <= Cardinality(S(n)) /\ Cardinality(S(n - 1)) # Cardinality(S(n))
          BY <2>1, <3>7, <4>1, <4>2, FS_Subset
        <4> QED
          BY <2>1, <3>2, <3>4, <3>9, <4>3
      <3> QED
        BY <3>5, <3>8, <3>9
    <2>3. Good(Times)
      <3>1. Times \in 0 .. Times
        BY TimesNat
      <3> HIDE DEF Good
      <3> QED
        BY <2>2, <3>1
    <2> HIDE DEF S
    <2>4. LeftByNone(links, S(Times))
      BY <2>1, <2>3, TimesNat
    <2> QED
      BY <2>4 DEF S
  <1>9. Transitive(p[Times])
    <2> SUFFICES ASSUME NEW x \in Steps, NEW y \in Steps, NEW z \in Steps,
                        <<x, y>> \in p[Times], <<y, z>> \in p[Times]
                 PROVE  <<x, z>> \in p[Times]
      BY DEF Transitive
    <2>1. y \in Reached(p[Times], x) /\ Times \in 0 .. Times
      BY TimesNat DEF Reached
    <2>2. z \in Reached(p[Times], x)
      BY <1>5, <1>8, <2>1
    <2> QED
      BY <2>2 DEF Reached
  <1>10. Times \in 0 .. Times
    BY TimesNat
  <1> QED
    BY <1>1, <1>4, <1>7, <1>9, <1>10

\* A path is a link, or a link to a step that a path leads on from.
LEMMA FirstLink ==
    ASSUME NEW links \in Sets, NEW x \in Steps, NEW y \in Steps, <<x, y>> \in Before(links)
    PROVE  \/ <<x, y>> \in links
           \/ \E m \in Steps : <<x, m>> \in links /\ <<m, y>> \in Before(links)
  <1> DEFINE P == Before(links)
             T == {l \in P : \/ l \in links
                            \/ \E m \in Steps : <<l[1], m>> \in links /\ <<m, l[2]>> \in P}
  <1>1. links \subseteq P /\ P \subseteq Link /\ Transitive(P)
    BY BeforeIsClosure
  <1> HIDE DEF P
  <1>2. Transitive(T)
    <2> SUFFICES ASSUME NEW a \in Steps, NEW b \in Steps, NEW c \in Steps,
                        <<a, b>> \in T, <<b, c>> \in T
                 PROVE  <<a, c>> \in T
      BY DEF Transitive
    <2>1. <<b, c>> \in P /\ <<a, c>> \in P
      BY <1>1 DEF Transitive
    <2>2. CASE <<a, b>> \in links
      BY <2>1, <2>2
    <2>3. CASE \E m \in Steps : <<a, m>> \in links /\ <<m, b>> \in P
      <3>1. PICK m \in Steps : <<a, m>> \in links /\ <<m, b>> \in P
        BY <2>3
      <3>2. <<m, c>> \in P
        BY <1>1, <2>1, <3>1 DEF Transitive
      <3> QED
        BY <2>1, <3>1, <3>2
    <2> QED
      BY <2>2, <2>3
  <1>3. P \subseteq T
    <2>1. links \subseteq T
      BY <1>1
    <2> HIDE DEF T
    <2> QED
      BY <1>2, <2>1, BeforeIsClosure DEF P
  <1> QED
    BY <1>3 DEF P

\* More links, more paths; links that are paths already add none.
LEMMA BeforeGrows ==
    ASSUME NEW links \in Sets, NEW more \in Sets, links \subseteq more
    PROVE  /\ Before(links) \subseteq Before(more)
           /\ more \subseteq Before(links) => Before(more) = Before(links)
  <1>1. links \subseteq Before(more) /\ Transitive(Before(more)) /\ Transitive(Before(links))
    BY BeforeIsClosure
  <1>2. Before(links) \subseteq Before(more)
    BY <1>1, BeforeIsClosure
  <1>3. more \subseteq Before(links) => Before(more) \subseteq Before(links)
    BY <1>1, BeforeIsClosure
  <1> QED
    BY <1>2, <1>3

--------------------------------------------------------------------------------
(***************************************************************************)
(* Removing the transitive links.                                          *)
(***************************************************************************)
NoCircle(links) == \A s \in Steps : <<s, s>> \notin Before(links)

\* What is filtered is some of the links.
LEMMA FilteredSome ==
    ASSUME NEW links \in Sets
    PROVE  /\ Filtered[links] \in Sets /\ Filtered[links] \subseteq links
           /\ \A l \in links : l \in Filtered[links] <=> ~hasIndirectPath(links, l)
           /\ \A s, t \in Steps :
                 hasIndirectPath(links, <<s, t>>) <=>
                   \E m \in Steps : m # t /\ <<s, m>> \in links /\ <<m, t>> \in Before(links)
  <1>1. Filtered[links] = {l \in links : ~hasIndirectPath(links, l)}
    BY DEF Filtered
  <1>2. \A s, t \in Steps :
           hasIndirectPath(links, <<s, t>>) <=>
             \E m \in Steps : m # t /\ <<s, m>> \in links /\ <<m, t>> \in Before(links)
    BY DEF hasIndirectPath
  <1> QED
    BY <1>1, <1>2 DEF Sets

\* Without a circle, whatever was linked is still linked, directly or not: among the pairs
\* that are not, one has the fewest steps between it, and thus none.
LEMMA FilteredKeeps ==
    ASSUME NEW links \in Sets, NoCircle(links)
    PROVE  Before(Filtered[links]) = Before(links)
  <1> DEFINE P == Before(links)
             F == Filtered[links]
             Q == Before(F)
             Between(x, y) == {m \in Steps : <<x, m>> \in P /\ <<m, y>> \in P}
             Size(x, y) == Cardinality(Between(x, y))
             Bad == {n \in Nat : \E x, y \in Steps : <<x, y>> \in P \ Q /\ Size(x, y) = n}
  <1>1. /\ links \subseteq P /\ P \subseteq Link /\ Transitive(P)
        /\ F \in Sets /\ F \subseteq links /\ F \subseteq Q /\ Transitive(Q)
    BY BeforeIsClosure, FilteredSome
  <1>2. Q \subseteq P
    BY <1>1, BeforeGrows
  <1>3. \A x, y \in Steps : IsFiniteSet(Between(x, y)) /\ Size(x, y) \in Nat
    <2> TAKE x, y \in Steps
    <2>1. Between(x, y) \in SUBSET Steps
      OBVIOUS
    <2> HIDE DEF Between
    <2> QED
      BY <2>1, ConditionsAssumption, FS_Subset, FS_CardinalityType
  <1>4. Bad = {}
    <2> SUFFICES ASSUME Bad # {} PROVE FALSE
      OBVIOUS
    <2>1. PICK n \in Bad : \A k \in Bad : n <= k
      <3>1. Bad \subseteq Nat
        OBVIOUS
      <3> HIDE DEF Bad
      <3> QED
        BY <3>1, LeastNumber
    <2>2. PICK x \in Steps, y \in Steps : <<x, y>> \in P \ Q /\ Size(x, y) = n
      BY <2>1
    <2>3. ASSUME NEW a \in Steps, NEW b \in Steps, <<a, b>> \in P,
                 Between(a, b) \subseteq Between(x, y), NEW m \in Between(x, y), m \notin Between(a, b)
          PROVE  <<a, b>> \in Q
      <3>1. Size(a, b) \in Nat /\ Size(a, b) < n
        <4>1. IsFiniteSet(Between(x, y)) /\ Size(a, b) \in Nat /\ Size(x, y) \in Nat
          BY <1>3
        <4> HIDE DEF Between
        <4>2. Size(a, b) <= Size(x, y) /\ Size(a, b) # Size(x, y)
          BY <2>3, <4>1, FS_Subset
        <4> HIDE DEF Size
        <4> QED
          BY <2>2, <4>1, <4>2
      <3>2. Size(a, b) \notin Bad
        <4>1. n \in Nat
          BY <2>1
        <4> HIDE DEF Size, Bad
        <4> QED
          BY <2>1, <3>1, <4>1
      <3> HIDE DEF Size, P, Q
      <3> QED
        BY <2>3, <3>1, <3>2
    <2>4. CASE \E m \in Steps : <<x, m>> \in P /\ <<m, y>> \in P
      <3>1. PICK m \in Steps : <<x, m>> \in P /\ <<m, y>> \in P
        BY <2>4
      <3>2. m \in Between(x, y) /\ m \notin Between(x, m) /\ m \notin Between(m, y)
        BY <3>1 DEF NoCircle
      <3>3. Between(x, m) \subseteq Between(x, y) /\ Between(m, y) \subseteq Between(x, y)
        BY <1>1, <3>1 DEF Transitive
      <3> HIDE DEF Between, Size, P, Q
      <3>4. <<x, m>> \in Q /\ <<m, y>> \in Q
        BY <2>3, <3>1, <3>2, <3>3
      <3> QED
        BY <1>1, <2>2, <3>4 DEF Transitive
    <2>5. CASE ~ \E m \in Steps : <<x, m>> \in P /\ <<m, y>> \in P
      <3>1. <<x, y>> \in links
        BY <1>1, <2>2, <2>5, FirstLink
      <3>2. ~hasIndirectPath(links, <<x, y>>)
        BY <1>1, <2>5, FilteredSome
      <3> QED
        BY <1>1, <2>2, <3>1, <3>2, FilteredSome
    <2> QED
      BY <2>4, <2>5
  <1>5. P \subseteq Q
    <2> SUFFICES ASSUME NEW l \in P, l \notin Q PROVE FALSE
      OBVIOUS
    <2>1. PICK x \in Steps, y \in Steps : l = <<x, y>>
      BY <1>1 DEF Link
    <2>2. Size(x, y) \in Bad
      BY <1>3, <2>1
    <2> QED
      BY <1>4, <2>2
  <1> QED
    BY <1>2, <1>5

\* Each link that stays is needed.
LEMMA FilteredNeeds ==
    ASSUME NEW links \in Sets, NEW l \in Filtered[links]
    PROVE  Before(Filtered[links] \ {l}) # Before(links)
  <1> DEFINE G == Filtered[links] \ {l}
  <1>1. /\ Filtered[links] \in Sets /\ Filtered[links] \subseteq links
        /\ G \in Sets /\ G \subseteq links /\ l \in links
    BY FilteredSome DEF Sets
  <1>2. PICK s \in Steps, t \in Steps : l = <<s, t>>
    BY <1>1 DEF Sets, Link
  <1> SUFFICES ASSUME Before(G) = Before(links) PROVE FALSE
    OBVIOUS
  <1>3. <<s, t>> \in Before(G) /\ <<s, t>> \notin G
    BY <1>1, <1>2, BeforeIsClosure
  <1> HIDE DEF G
  <1>4. PICK m \in Steps : <<s, m>> \in G /\ <<m, t>> \in Before(G)
    BY <1>1, <1>3, FirstLink
  <1>5. m # t
    BY <1>3, <1>4
  <1>6. hasIndirectPath(links, <<s, t>>)
    BY <1>1, <1>4, <1>5, FilteredSome
  <1> QED
    BY <1>1, <1>2, <1>6, FilteredSome

\* Links between the filtered ones and all of them are filtered to the same.
LEMMA FilteredAgain ==
    ASSUME NEW links \in Sets, NoCircle(links), NEW some \in Sets,
           Filtered[links] \subseteq some, some \subseteq links
    PROVE  Filtered[some] = Filtered[links]
  <1> DEFINE F == Filtered[links]
             P == Before(links)
  <1>1. /\ F \in Sets /\ F \subseteq links /\ Filtered[some] \subseteq some
        /\ links \subseteq P /\ P \subseteq Link /\ Transitive(P)
    BY FilteredSome, BeforeIsClosure
  <1>2. Before(F) = P /\ Before(some) = P
    <2>1. Before(F) = P
      BY FilteredKeeps
    <2>2. some \subseteq Before(F)
      BY <1>1, <2>1
    <2> QED
      BY <1>1, <2>1, <2>2, BeforeGrows
  <1>3. \A l \in links : l = <<l[1], l[2]>> /\ l[1] \in Steps /\ l[2] \in Steps
    BY DEF Sets, Link
  <1>4. ASSUME NEW l \in F PROVE l \in Filtered[some]
    <2>1. PICK s \in Steps, t \in Steps : l = <<s, t>>
      BY <1>1, <1>3
    <2>2. ~ \E m \in Steps : m # t /\ <<s, m>> \in links /\ <<m, t>> \in P
      BY <1>1, <2>1, FilteredSome
    <2>3. ~hasIndirectPath(some, <<s, t>>)
      <3>1. hasIndirectPath(some, <<s, t>>) =>
              \E m \in Steps : m # t /\ <<s, m>> \in some /\ <<m, t>> \in Before(some)
        BY FilteredSome
      <3> QED
        BY <1>2, <2>2, <3>1
    <2> QED
      BY <2>1, <2>3, FilteredSome
  <1>5. ASSUME NEW l \in Filtered[some], l \notin F PROVE FALSE
    <2>1. PICK s \in Steps, t \in Steps : l = <<s, t>>
      BY <1>1, <1>3
    <2>2. l \in links /\ hasIndirectPath(links, <<s, t>>)
      BY <1>1, <1>5, <2>1, FilteredSome
    <2>3. PICK m \in Steps : m # t /\ <<s, m>> \in links /\ <<m, t>> \in P
      BY <2>2, FilteredSome
    <2>4. \/ <<s, m>> \in F
          \/ \E k \in Steps : <<s, k>> \in F /\ <<k, m>> \in P
      BY <1>1, <1>2, <2>3, FirstLink
    <2>5. PICK k \in Steps : <<s, k>> \in F /\ (k = m \/ <<k, m>> \in P)
      BY <2>3, <2>4
    <2>6. k # t
      BY <1>1, <2>3, <2>5 DEF NoCircle, Transitive
    <2>7. <<k, t>> \in P
      BY <1>1, <2>3, <2>5 DEF Transitive
    <2>8. hasIndirectPath(some, <<s, t>>)
      BY <1>2, <2>5, <2>6, <2>7, FilteredSome
    <2> QED
      BY <2>1, <2>8, <1>5, <1>1, FilteredSome
  <1> QED
    BY <1>4, <1>5

--------------------------------------------------------------------------------
(***************************************************************************)
(* What a page draws and saves, and what comes back.                       *)
(***************************************************************************)
\* The edges of a page are links between its steps.
LEMMA EdgesAreLinks ==
    ASSUME NEW c \in Canvas
    PROVE  /\ allEdges(c) \in Sets /\ computeEdges(c) \in Sets
           /\ computeEdges(c) \subseteq allEdges(c)
           /\ Acyclic(c) <=> NoCircle(allEdges(c))
  <1>1. allEdges(c) \in Sets
    BY DEF allEdges, Canvas, Sets
  <1> QED
    BY <1>1, FilteredSome DEF computeEdges, Acyclic, NoCircle

\* What is saved is a workflow, and what is loaded a page.
LEMMA SavedAndLoaded ==
    /\ \A c \in Canvas : ToSave(c) \in SavedCanvas
    /\ \A s \in SavedCanvas : Loaded(s) \in Canvas
    /\ Blank \in Canvas /\ NoWorkflow \notin SavedCanvas
  <1>1. ASSUME NEW c \in Canvas PROVE ToSave(c) \in SavedCanvas
    <2> DEFINE E == {[link |-> l, output |-> Output(c, l)] : l \in computeEdges(c)}
    <2>1. E \subseteq [link : Link, output : {"", "true", "false"}]
      <3>1. \A l \in computeEdges(c) : l \in Link /\ Output(c, l) \in {"", "true", "false"}
        BY EdgesAreLinks DEF Sets, Output
      <3> SUFFICES ASSUME NEW e \in E PROVE e \in [link : Link, output : {"", "true", "false"}]
        OBVIOUS
      <3>2. PICK l \in computeEdges(c) : e = [link |-> l, output |-> Output(c, l)]
        OBVIOUS
      <3> QED
        BY <3>1, <3>2
    <2> HIDE DEF E
    <2>2. [steps |-> c.steps, refs |-> c.refs, edits |-> c.edits, edges |-> E] \in SavedCanvas
      BY <2>1 DEF Canvas, SavedCanvas
    <2> QED
      BY <2>2 DEF ToSave, E
  <1>2. ASSUME NEW s \in SavedCanvas PROVE Loaded(s) \in Canvas
    <2> DEFINE W == {e.link : e \in s.edges} \ s.refs
               N == {e.link : e \in {d \in s.edges : d.output = "false"}}
    <2>1. W \subseteq Link /\ N \subseteq Link
      BY DEF SavedCanvas
    <2> HIDE DEF W, N
    <2>2. [steps |-> s.steps, refs |-> s.refs, edits |-> s.edits, waits |-> W, no |-> N] \in Canvas
      BY <2>1 DEF Canvas, SavedCanvas
    <2> QED
      BY <2>2 DEF Loaded, W, N
  <1>3. Blank \in Canvas
    BY DEF Blank, Canvas
  <1>4. NoWorkflow \notin SavedCanvas
    <2>1. ASSUME NEW s \in SavedCanvas PROVE "none" \notin DOMAIN s
      BY DEF SavedCanvas
    <2>2. "none" \in DOMAIN NoWorkflow
      BY DEF NoWorkflow
    <2> QED
      BY <2>1, <2>2
  <1> QED
    BY <1>1, <1>2, <1>3, <1>4

\* A page that is saved and loaded again draws the same edges with the same branches: it has
\* lost transitive links at most, which are filtered again.
LEMMA ReloadSame ==
    ASSUME NEW c \in Canvas, Acyclic(c)
    PROVE  ToSave(Loaded(ToSave(c))).edges = ToSave(c).edges
  <1> DEFINE F == computeEdges(c)
             s == ToSave(c)
             d == Loaded(s)
  <1>1. /\ allEdges(c) \in Sets /\ F \in Sets /\ F \subseteq allEdges(c) /\ NoCircle(allEdges(c))
        /\ F = Filtered[allEdges(c)]
    BY EdgesAreLinks DEF computeEdges
  <1>2. s \in SavedCanvas /\ d \in Canvas
    BY SavedAndLoaded
  <1>3. /\ s.steps = c.steps /\ s.refs = c.refs
        /\ s.edges = {[link |-> l, output |-> Output(c, l)] : l \in F}
    BY DEF ToSave
  <1>4. /\ d.steps = c.steps /\ d.refs = c.refs /\ d.waits = F \ c.refs
        /\ d.no = {l \in F : Output(c, l) = "false"}
    <2> DEFINE edge(l) == [link |-> l, output |-> Output(c, l)]
    <2>0. /\ s.edges = {edge(l) : l \in F}
          /\ \A l \in F : edge(l).link = l /\ edge(l).output = Output(c, l)
      BY <1>3
    <2> HIDE DEF s, F, edge
    <2>1. {e.link : e \in s.edges} = F
      <3>1. \A l \in F : edge(l) \in s.edges
        BY <2>0
      <3> QED
        BY <2>0, <3>1
    <2>2. {e.link : e \in {x \in s.edges : x.output = "false"}} = {l \in F : Output(c, l) = "false"}
      <3> DEFINE no == {x \in s.edges : x.output = "false"}
      <3>1. no = {edge(l) : l \in {k \in F : Output(c, k) = "false"}}
        BY <2>0
      <3> HIDE DEF no
      <3>2. {e.link : e \in no} = {l \in F : Output(c, l) = "false"}
        BY <2>0, <3>1
      <3> QED
        BY <3>2 DEF no
    <2> QED
      BY <1>3, <2>1, <2>2 DEF Loaded, F
  <1> HIDE DEF s, d
  <1>5. F \subseteq allEdges(d) /\ allEdges(d) \subseteq allEdges(c)
    <2>1. \A l \in allEdges(c) : l[1] # l[2] /\ {l[1], l[2]} \subseteq c.steps
      BY DEF allEdges
    <2> HIDE DEF F
    <2>2. F \subseteq allEdges(d)
      BY <1>1, <1>4, <2>1 DEF allEdges
    <2>3. ASSUME NEW l \in allEdges(d) PROVE l \in allEdges(c)
      <3>1. l \in F \/ l \in c.refs
        BY <1>4 DEF allEdges
      <3>2. l[1] # l[2] /\ {l[1], l[2]} \subseteq c.steps
        BY <1>4 DEF allEdges
      <3> QED
        BY <1>1, <3>1, <3>2 DEF allEdges
    <2> QED
      BY <2>2, <2>3
  <1>6. computeEdges(d) = F
    BY <1>1, <1>2, <1>5, EdgesAreLinks, FilteredAgain DEF computeEdges
  <1>7. \A l \in F : Output(d, l) = Output(c, l)
    <2> TAKE l \in F
    <2>1. CASE l[1] \notin Conditions
      BY <2>1 DEF Output
    <2>2. CASE l[1] \in Conditions
      <3>1. l \in d.no <=> Output(c, l) = "false"
        BY <1>4
      <3>2. Output(c, l) \in {"true", "false"}
        BY <2>2 DEF Output
      <3> QED
        BY <2>2, <3>1, <3>2 DEF Output
    <2> QED
      BY <2>1, <2>2
  <1>8. ToSave(d).edges = {[link |-> l, output |-> Output(d, l)] : l \in F}
    BY <1>6 DEF ToSave
  <1> HIDE DEF F
  <1> QED
    BY <1>3, <1>7, <1>8 DEF s, d

\* A change makes a page of a page.
LEMMA ChangedIsCanvas ==
    ASSUME NEW c \in Canvas, NEW d \in Changed(c), NEW n \in Nat
    PROVE  [d EXCEPT !.edits = @ \cup {n}] \in Canvas
  <1>1. d \in Canvas
    <2> DEFINE possible == {l \in Touched : {l[1], l[2]} \subseteq c.steps}
    <2>1. CASE \E l \in possible \ c.waits : d = [c EXCEPT !.waits = @ \cup {l}, !.no = @ \ {l}]
      <3>1. PICK l \in Link : d = [c EXCEPT !.waits = @ \cup {l}, !.no = @ \ {l}]
        BY <2>1, BoundsAssumption
      <3>2. c.waits \cup {l} \in SUBSET Link /\ c.no \ {l} \in SUBSET Link
        BY DEF Canvas
      <3> QED
        BY <3>1, <3>2 DEF Canvas
    <2>2. CASE \E l \in possible \cap c.waits : d = [c EXCEPT !.waits = @ \ {l}, !.no = @ \ {l}]
      BY <2>2 DEF Canvas
    <2>3. CASE \E l \in computeEdges(c) :
                  d = [c EXCEPT !.no = IF l \in @ THEN @ \ {l} ELSE @ \cup {l}]
      <3>1. computeEdges(c) \subseteq Link
        BY EdgesAreLinks DEF Sets
      <3> QED
        BY <2>3, <3>1 DEF Canvas
    <2>4. CASE \E l \in possible : d = [c EXCEPT !.refs = IF l \in @ THEN @ \ {l} ELSE @ \cup {l}]
      BY <2>4, BoundsAssumption DEF Canvas
    <2>5. CASE \E s \in c.steps :
                  d = [c EXCEPT !.steps = @ \ {s}, !.waits = {l \in @ : l[2] # s},
                                !.refs = {l \in @ : l[2] # s}, !.no = {l \in @ : l[2] # s}]
      BY <2>5 DEF Canvas
    <2>6. CASE \E s \in Movable : d = [c EXCEPT !.steps = @ \cup {s}]
      BY <2>6, BoundsAssumption DEF Canvas
    <2> QED
      BY <2>1, <2>2, <2>3, <2>4, <2>5, <2>6 DEF Changed
  <1> QED
    BY <1>1 DEF Canvas

--------------------------------------------------------------------------------
(***************************************************************************)
(* The invariant holds at first, and every step keeps it.                  *)
(***************************************************************************)
\* No page is open, nothing is copied or sent.
LEMMA InitInvariant == Init => IInv
  <1> SUFFICES ASSUME Init PROVE IInv
    OBVIOUS
  <1>1. TypeInv
    BY SavedAndLoaded, WorkflowsAssumption DEF Init, TypeInv
  <1>2. PagesInv /\ OwnInv /\ SentInv
    BY DEF Init, PagesInv, OwnInv, SentInv, Present
  <1> QED
    BY <1>1, <1>2 DEF IInv

\* At most one page is there.
LEMMA OnePage ==
    ASSUME PagesInv, NEW u \in Visits, NEW v \in Visits, Present(u), Present(v)
    PROVE  u = v
  <1>1. u \in Int /\ v \in Int
    BY BoundsAssumption DEF Visits
  <1>2. ~(u < v) /\ ~(v < u)
    BY DEF PagesInv, Present
  <1> QED
    BY <1>1, <1>2

\* A page is opened when the page before was left: with nothing of that under way, or excused.
LEMMA OpenPageKeeps ==
    ASSUME IInv, NEW v \in Visits, OpenPage(v)
    PROVE  IInv'
  <1>0. TypeInv /\ PagesInv /\ (~excused => OwnInv /\ SentInv)
    BY DEF IInv
  <1>1. /\ view[v] = "unopened" /\ \A u \in Visits : u < v => view[u] = "left"
        /\ UNCHANGED <<stored, cached, stale, dirty, saved, timer, saves, edits, sends>>
        /\ excused' = (excused \/ Pending \/ cached \notin {NoWorkflow, stored})
    <2>1. \A u \in Visits : u < v => u \in 1 .. v - 1
      BY BoundsAssumption DEF Visits
    <2> QED
      BY <2>1 DEF OpenPage, counts
  <1>2. PICK st \in {"loading", "open"} :
             /\ view' = [view EXCEPT ![v] = st]
             /\ \/ UNCHANGED canvas
                \/ cached # NoWorkflow /\ canvas' = [canvas EXCEPT ![v] = Loaded(cached)]
    BY DEF OpenPage, Initialize
  <1>3. /\ fetch' \in {"none", "asked", "answered"} /\ answer' \in SavedCanvas \cup {NoWorkflow}
        /\ fetch' = "answered" => answer' \in SavedCanvas
    BY <1>0 DEF OpenPage, TypeInv
  <1>4. TypeInv'
    <2>1. canvas' \in [Visits -> Canvas]
      BY <1>0, <1>2, SavedAndLoaded DEF TypeInv
    <2>2. view' \in [Visits -> {"unopened", "loading", "open", "left"}]
      BY <1>0, <1>2 DEF TypeInv
    <2>3. excused' \in BOOLEAN
      BY <1>1
    <2> QED
      BY <1>0, <1>1, <1>3, <2>1, <2>2, <2>3 DEF TypeInv
  <1>5. \A u \in Visits : view'[u] = IF u = v THEN st ELSE view[u]
    BY <1>0, <1>2 DEF TypeInv
  <1>6. PagesInv'
    <2>1. \A u, x \in Visits : u < x /\ view'[x] # "unopened" => view'[u] = "left"
      <3> SUFFICES ASSUME NEW u \in Visits, NEW x \in Visits, u < x, view'[x] # "unopened"
                   PROVE  view'[u] = "left"
        OBVIOUS
      <3>1. u # x /\ u \in Int /\ x \in Int
        BY BoundsAssumption DEF Visits
      <3> QED
        BY <1>0, <1>1, <1>5, <3>1 DEF PagesInv
    <2> QED
      BY <1>0, <1>1, <1>5, <2>1 DEF PagesInv
  <1>7. ASSUME ~excused' PROVE OwnInv' /\ SentInv'
    <2>1. saves = {} /\ \A u \in Visits : ~timer[u]
      BY <1>1, <1>7 DEF Pending
    <2>2. \A u \in Visits : view'[u] = "open" => u = v
      <3> SUFFICES ASSUME NEW u \in Visits, view'[u] = "open", u # v PROVE FALSE
        OBVIOUS
      <3>1. Present(u)' /\ Present(v)'
        BY <1>5 DEF Present
      <3> QED
        BY <1>0, <1>1, <1>5, <3>1, BoundsAssumption DEF PagesInv, Present, Visits
    <2>3. ~saved[v]
      BY <1>0, <1>1 DEF PagesInv
    <2> QED
      BY <1>1, <2>1, <2>2, <2>3 DEF OwnInv, SentInv, Present
  <1> QED
    BY <1>4, <1>6, <1>7 DEF IInv

\* A page that is left shows nothing any more; what it was to save goes on.
LEMMA LeavePageKeeps ==
    ASSUME IInv, NEW v \in Visits, LeavePage(v)
    PROVE  IInv'
  <1>0. TypeInv /\ PagesInv /\ (~excused => OwnInv /\ SentInv)
    BY DEF IInv
  <1>1. /\ Present(v) /\ view' = [view EXCEPT ![v] = "left"]
        /\ timer' = timer
        /\ canvas' = [canvas EXCEPT ![v] = IF timer[v] THEN @ ELSE Blank]
        /\ dirty' = [dirty EXCEPT ![v] = FALSE]
        /\ saved' = [saved EXCEPT ![v] = FALSE]
        /\ UNCHANGED <<stored, cached, stale, fetch, answer, saves, edits, sends, excused>>
    BY <1>0 DEF LeavePage, Left, Present, netVars, counts, TypeInv
  <1>2. TypeInv'
    <2>1. canvas' \in [Visits -> Canvas]
      BY <1>0, <1>1, SavedAndLoaded DEF TypeInv
    <2>2. view' \in [Visits -> {"unopened", "loading", "open", "left"}]
      BY <1>0, <1>1 DEF TypeInv
    <2>3. dirty' \in [Visits -> BOOLEAN] /\ saved' \in [Visits -> BOOLEAN]
      BY <1>0, <1>1 DEF TypeInv
    <2> QED
      BY <1>0, <1>1, <2>1, <2>2, <2>3 DEF TypeInv
  <1>3. \A u \in Visits : /\ view'[u] = IF u = v THEN "left" ELSE view[u]
                          /\ u # v => saved'[u] = saved[u] /\ dirty'[u] = dirty[u]
                                       /\ canvas'[u] = canvas[u]
    BY <1>0, <1>1 DEF TypeInv
  <1>4. PagesInv'
    BY <1>0, <1>1, <1>3 DEF PagesInv, Present
  <1>5. \A u \in Visits : ~Present(u)'
    <2>1. \A u \in Visits : Present(u) => u = v
      BY <1>0, <1>1, OnePage
    <2> QED
      BY <1>3, <2>1 DEF Present
  <1>6. ~excused' => OwnInv' /\ SentInv'
    BY <1>0, <1>1, <1>5 DEF OwnInv, SentInv, Present
  <1> QED
    BY <1>2, <1>4, <1>6 DEF IInv

\* Nothing is left of a tab that is closed but what was sent.
LEMMA CloseTabKeeps ==
    ASSUME IInv, CloseTab
    PROVE  IInv'
  <1>0. TypeInv /\ PagesInv /\ (~excused => OwnInv /\ SentInv)
    BY DEF IInv
  <1>1. /\ view' = [v \in Visits |-> IF view[v] = "unopened" THEN "unopened" ELSE "left"]
        /\ timer' = [v \in Visits |-> FALSE] /\ canvas' = [v \in Visits |-> Blank]
        /\ dirty' = [v \in Visits |-> FALSE] /\ saved' = [v \in Visits |-> FALSE]
        /\ cached' = NoWorkflow /\ fetch' = "none" /\ answer' = NoWorkflow
        /\ saves' \subseteq saves
        /\ UNCHANGED <<stored, edits, sends, excused>>
    BY DEF CloseTab
  <1>2. TypeInv'
    BY <1>0, <1>1, SavedAndLoaded DEF TypeInv
  <1>3. \A u \in Visits : ~Present(u)'
    BY <1>1 DEF Present
  <1>4. PagesInv'
    BY <1>0, <1>1 DEF PagesInv
  <1>5. ~excused' => OwnInv' /\ SentInv'
    BY <1>0, <1>1, <1>3 DEF OwnInv, SentInv, Present
  <1> QED
    BY <1>2, <1>4, <1>5 DEF IInv

\* Reading changes no page; a page that waits starts from the answer, with nothing saved.
LEMMA FetchKeeps ==
    ASSUME IInv, ReadWorkflow \/ ReceiveWorkflow
    PROVE  IInv'
  <1>0. TypeInv /\ PagesInv /\ (~excused => OwnInv /\ SentInv)
    BY DEF IInv
  <1>1. CASE ReadWorkflow
    <2>1. /\ fetch' = "answered" /\ answer' = stored
          /\ UNCHANGED <<stored, cached, view, canvas, dirty, saved, timer, saves, edits, sends, excused>>
      BY <1>1 DEF ReadWorkflow, pageVars, counts
    <2>2. TypeInv'
      BY <1>0, <2>1 DEF TypeInv
    <2>3. PagesInv' /\ (~excused' => OwnInv' /\ SentInv')
      BY <1>0, <2>1 DEF PagesInv, OwnInv, SentInv, Present
    <2> QED
      BY <2>2, <2>3 DEF IInv
  <1>2. CASE ReceiveWorkflow
    <2>1. /\ fetch = "answered" /\ fetch' = "none" /\ answer' = NoWorkflow /\ cached' = answer
          /\ UNCHANGED <<stored, dirty, saved, timer, saves, edits, sends>>
          /\ answer \in SavedCanvas
      BY <1>0, <1>2 DEF ReceiveWorkflow, counts, TypeInv
    <2>2. CASE UNCHANGED <<view, canvas, excused>>
      <3>1. TypeInv'
        BY <1>0, <2>1, <2>2 DEF TypeInv
      <3>2. PagesInv' /\ (~excused' => OwnInv' /\ SentInv')
        BY <1>0, <2>1, <2>2 DEF PagesInv, OwnInv, SentInv, Present
      <3> QED
        BY <3>1, <3>2 DEF IInv
    <2>3. ASSUME NEW v \in Visits, view[v] = "loading", Initialize(v, answer),
                 excused' = (excused \/ answer # stored)
          PROVE  IInv'
      <3>1. /\ view' = [view EXCEPT ![v] = "open"]
            /\ canvas' = [canvas EXCEPT ![v] = Loaded(answer)]
        BY <2>3 DEF Initialize
      <3>2. TypeInv'
        <4>1. canvas' \in [Visits -> Canvas]
          BY <1>0, <2>1, <3>1, SavedAndLoaded DEF TypeInv
        <4>2. view' \in [Visits -> {"unopened", "loading", "open", "left"}]
          BY <1>0, <3>1 DEF TypeInv
        <4> QED
          BY <1>0, <2>1, <2>3, <4>1, <4>2 DEF TypeInv
      <3>3. \A u \in Visits : view'[u] = IF u = v THEN "open" ELSE view[u]
        BY <1>0, <3>1 DEF TypeInv
      <3>4. PagesInv'
        BY <1>0, <2>1, <2>3, <3>3 DEF PagesInv
      <3>5. ~saved[v] /\ ~timer[v]
        BY <1>0, <2>3 DEF PagesInv
      <3>6. ASSUME NEW u \in Visits, view'[u] \in {"loading", "open"} PROVE u = v
        <4>1. Present(u) /\ Present(v)
          BY <2>3, <3>3, <3>6 DEF Present
        <4> QED
          BY <1>0, <4>1, OnePage
      <3>7. ASSUME ~excused' PROVE OwnInv' /\ SentInv'
        <4>1. OwnInv /\ saves = {} /\ Present(v)
          BY <1>0, <2>3, <3>7 DEF OwnInv, Present
        <4>2. OwnInv'
          BY <2>1, <3>6, <4>1 DEF OwnInv, Present
        <4>3. SentInv'
          BY <2>1, <3>5, <3>6, <4>1 DEF SentInv
        <4> QED
          BY <4>2, <4>3
      <3> QED
        BY <3>2, <3>4, <3>7 DEF IInv
    <2> QED
      BY <1>2, <2>2, <2>3 DEF ReceiveWorkflow
  <1> QED
    BY <1>1, <1>2

\* A change sets the timer of its page.
LEMMA EditKeeps ==
    ASSUME IInv, NEW v \in Visits, Edit(v)
    PROVE  IInv'
  <1>0. TypeInv /\ PagesInv /\ (~excused => OwnInv /\ SentInv)
    BY DEF IInv
  <1>1. /\ view[v] = "open" /\ edits' = edits + 1
        /\ dirty' = [dirty EXCEPT ![v] = TRUE]
        /\ timer' = [timer EXCEPT ![v] = TRUE]
        /\ UNCHANGED <<stored, cached, stale, fetch, answer, view, saved, saves, sends, excused>>
    BY DEF Edit, MarkDirty, netVars
  <1>2. PICK c \in Changed(canvas[v]) :
             canvas' = [canvas EXCEPT ![v] = [c EXCEPT !.edits = @ \cup {edits + 1}]]
    BY DEF Edit
  <1>3. TypeInv'
    <2>1. canvas[v] \in Canvas /\ edits + 1 \in Nat
      BY <1>0 DEF TypeInv
    <2>2. canvas' \in [Visits -> Canvas]
      BY <1>0, <1>2, <2>1, ChangedIsCanvas DEF TypeInv
    <2>3. dirty' \in [Visits -> BOOLEAN] /\ timer' \in [Visits -> BOOLEAN]
      BY <1>0, <1>1 DEF TypeInv
    <2> QED
      BY <1>0, <1>1, <2>1, <2>2, <2>3 DEF TypeInv
  <1>4. \A u \in Visits : timer'[u] = (u = v \/ timer[u])
    BY <1>0, <1>1 DEF TypeInv
  <1>5. PagesInv'
    BY <1>0, <1>1, <1>4 DEF PagesInv
  <1>6. \A u \in Visits : Present(u) => u = v
    BY <1>0, <1>1, OnePage DEF Present
  <1>7. ASSUME ~excused' PROVE OwnInv' /\ SentInv'
    <2>1. OwnInv /\ Present(v)
      BY <1>0, <1>1, <1>7 DEF Present
    <2>2. OwnInv'
      BY <1>1, <1>4, <1>6, <2>1 DEF OwnInv, Present
    <2>3. SentInv'
      BY <1>1, <1>4, <1>6 DEF SentInv, Present
    <2> QED
      BY <2>2, <2>3
  <1> QED
    BY <1>3, <1>5, <1>7 DEF IInv

\* What is sent is what the page shows.
LEMMA SendKeeps ==
    ASSUME IInv, NEW v \in Visits, AutoSave(v) \/ SaveNow(v)
    PROVE  IInv'
  <1> DEFINE s == [id |-> sends + 1, visit |-> v, at |-> "sent", body |-> ToSave(canvas[v])]
  <1>0. TypeInv /\ PagesInv /\ (~excused => OwnInv /\ SentInv)
    BY DEF IInv
  <1>1. /\ saves' = saves \cup {s} /\ sends' = sends + 1
        /\ excused' = (excused \/ saves # {})
        /\ UNCHANGED <<stored, cached, stale, fetch, answer, view, dirty, saved, edits>>
    BY DEF AutoSave, SaveNow, Send, Snapshot, netVars, pageVars
  <1>2. /\ timer[v] \/ view[v] = "open"
        /\ timer' = timer \/ timer' = [timer EXCEPT ![v] = FALSE]
        /\ canvas' = canvas \/ (view[v] = "left" /\ canvas' = [canvas EXCEPT ![v] = Blank])
    <2>1. canvas = [canvas EXCEPT ![v] = canvas[v]]
      BY <1>0 DEF TypeInv
    <2> QED
      BY <2>1 DEF AutoSave, SaveNow, pageVars
  <1>3. /\ s \in SaveType
        /\ s.visit = v /\ s.at = "sent" /\ s.body = ToSave(canvas[v])
    <2>1. ToSave(canvas[v]) \in SavedCanvas /\ sends + 1 \in Nat
      BY <1>0, SavedAndLoaded DEF TypeInv
    <2> QED
      BY <2>1 DEF SaveType
  <1> HIDE DEF s
  <1>4. TypeInv'
    <2>1. canvas' \in [Visits -> Canvas] /\ timer' \in [Visits -> BOOLEAN]
      BY <1>0, <1>2, SavedAndLoaded DEF TypeInv
    <2>2. excused' \in BOOLEAN /\ sends' \in Nat
      BY <1>0, <1>1 DEF TypeInv
    <2> QED
      BY <1>0, <1>1, <1>3, <2>1, <2>2 DEF TypeInv
  <1>5. \A u \in Visits : timer'[u] => timer[u]
    BY <1>0, <1>2 DEF TypeInv
  <1>6. PagesInv'
    BY <1>0, <1>1, <1>5 DEF PagesInv
  <1>7. ASSUME ~excused' PROVE OwnInv' /\ SentInv'
    <2>1. OwnInv /\ SentInv /\ saves = {} /\ saves' = {s}
      BY <1>0, <1>1, <1>7
    <2>2. \A u \in Visits : Present(u) => u = v
      BY <1>0, <1>2, <2>1, OnePage DEF OwnInv, Present
    <2>3. view[v] # "loading"
      BY <1>0, <1>2 DEF PagesInv
    <2>4. OwnInv'
      BY <1>1, <1>3, <1>5, <2>1, <2>2, <2>3 DEF OwnInv, Present
    <2>5. SentInv'
      <3> SUFFICES ASSUME NEW u \in Visits, view[u] = "open"
                   PROVE  s.body = ToSave(canvas'[u])
        BY <1>1, <1>3, <2>1 DEF SentInv
      <3>1. u = v /\ canvas' = canvas
        BY <1>2, <2>2 DEF Present
      <3> QED
        BY <1>3, <3>1
    <2> QED
      BY <2>4, <2>5
  <1> QED
    BY <1>4, <1>6, <1>7 DEF IInv

\* The server stores what was sent.
LEMMA ApplySaveKeeps ==
    ASSUME IInv, ApplySave
    PROVE  IInv'
  <1>0. TypeInv /\ PagesInv /\ (~excused => OwnInv /\ SentInv)
    BY DEF IInv
  <1>1. PICK s \in saves : /\ s.at = "sent" /\ stored' = s.body
                           /\ saves' = (saves \ {s}) \cup {[s EXCEPT !.at = "applied"]}
    BY DEF ApplySave
  <1>2. UNCHANGED <<cached, stale, fetch, answer, view, canvas, dirty, saved, timer, edits, sends, excused>>
    BY DEF ApplySave, netVars, pageVars, counts
  <1> DEFINE r == [s EXCEPT !.at = "applied"]
  <1>3. /\ s \in SaveType /\ s.body \in SavedCanvas
        /\ r \in SaveType /\ r.visit = s.visit /\ r.at = "applied" /\ r.body = s.body
    BY <1>0 DEF TypeInv, SaveType
  <1> HIDE DEF r
  <1>4. TypeInv'
    BY <1>0, <1>1, <1>2, <1>3 DEF TypeInv, r
  <1>5. PagesInv'
    BY <1>0, <1>2 DEF PagesInv
  <1>6. ASSUME ~excused' PROVE OwnInv' /\ SentInv'
    <2>1. OwnInv /\ SentInv /\ saves' = {r}
      BY <1>0, <1>1, <1>2, <1>6 DEF OwnInv, r
    <2>2. OwnInv'
      BY <1>1, <1>2, <1>3, <2>1 DEF OwnInv, Present
    <2>3. SentInv'
      BY <1>1, <1>2, <1>3, <2>1 DEF SentInv
    <2> QED
      BY <2>2, <2>3
  <1> QED
    BY <1>4, <1>5, <1>6 DEF IInv

\* The answer makes the page say that it is saved, as it is unless its timer will send again.
LEMMA SaveAnsweredKeeps ==
    ASSUME IInv, SaveAnswered
    PROVE  IInv'
  <1>0. TypeInv /\ PagesInv /\ (~excused => OwnInv /\ SentInv)
    BY DEF IInv
  <1>1. PICK s \in saves :
           /\ s.at = "applied" /\ saves' = saves \ {s}
           /\ IF view[s.visit] = "open"
              THEN /\ dirty' = [dirty EXCEPT ![s.visit] = FALSE]
                   /\ saved' = [saved EXCEPT ![s.visit] = TRUE]
              ELSE UNCHANGED <<dirty, saved>>
    BY DEF SaveAnswered
  <1>2. /\ UNCHANGED <<stored, cached, view, canvas, timer, edits, sends, excused>>
        /\ fetch' \in {fetch, "asked"} /\ answer' \in {answer, NoWorkflow}
        /\ fetch' = fetch => answer' = answer \/ fetch = "asked"
    BY DEF SaveAnswered, counts
  <1>3. s.visit \in Visits
    BY <1>0 DEF TypeInv, SaveType
  <1>4. TypeInv'
    <2>1. dirty' \in [Visits -> BOOLEAN] /\ saved' \in [Visits -> BOOLEAN]
      BY <1>0, <1>1, <1>3 DEF TypeInv
    <2>2. /\ fetch' \in {"none", "asked", "answered"} /\ answer' \in SavedCanvas \cup {NoWorkflow}
          /\ fetch' = "answered" => answer' \in SavedCanvas
      BY <1>0, <1>2 DEF TypeInv
    <2> QED
      BY <1>0, <1>1, <1>2, <2>1, <2>2 DEF TypeInv
  <1>5. PagesInv'
    BY <1>0, <1>1, <1>2, <1>3 DEF PagesInv, TypeInv
  <1>6. ASSUME ~excused' PROVE OwnInv' /\ SentInv'
    <2>1. OwnInv /\ SentInv /\ saves = {s} /\ saves' = {}
      BY <1>0, <1>1, <1>2, <1>6 DEF OwnInv
    <2>2. OwnInv'
      BY <1>2, <2>1 DEF OwnInv, Present
    <2>3. SentInv'
      BY <1>1, <1>2, <2>1 DEF SentInv
    <2> QED
      BY <2>2, <2>3
  <1> QED
    BY <1>4, <1>5, <1>6 DEF IInv

\* A save that fails excuses what follows.
LEMMA SaveFailsKeeps ==
    ASSUME IInv, SaveFails
    PROVE  IInv'
  <1>1. /\ saves' \subseteq saves /\ excused' = TRUE
        /\ UNCHANGED <<stored, cached, stale, fetch, answer, view, canvas, dirty, saved, timer>>
        /\ UNCHANGED <<edits, sends>>
    BY DEF SaveFails, netVars, pageVars
  <1> QED
    BY <1>1 DEF IInv, TypeInv, PagesInv

\* Every step keeps the invariant.
LEMMA NextInvariant == IInv /\ [Next]_vars => IInv'
  <1>1. ASSUME IInv, UNCHANGED vars PROVE IInv'
    <2>1. /\ UNCHANGED <<stored, cached, stale, fetch, answer, view, canvas, dirty, saved, timer>>
          /\ UNCHANGED <<saves, edits, sends, excused>>
      BY <1>1 DEF vars, netVars, pageVars, counts
    <2>2. TypeInv'
      BY <1>1, <2>1 DEF IInv, TypeInv
    <2>3. PagesInv' /\ (~excused' => OwnInv' /\ SentInv')
      BY <1>1, <2>1 DEF IInv, PagesInv, OwnInv, SentInv, Present
    <2> QED
      BY <2>2, <2>3 DEF IInv
  <1>2. ASSUME IInv, User PROVE IInv'
    BY <1>2, OpenPageKeeps, LeavePageKeeps, EditKeeps, SendKeeps DEF User
  <1>3. ASSUME IInv, Browser \/ Server PROVE IInv'
    BY <1>3, FetchKeeps, SaveAnsweredKeeps, SendKeeps, ApplySaveKeeps DEF Browser, Server
  <1> QED
    BY <1>1, <1>2, <1>3, SaveFailsKeeps, CloseTabKeeps DEF Next

\* The invariant holds in every reachable state, for any steps and workflows, and any number
\* of pages, changes, saves and failures.
THEOREM Invariant == Spec => []IInv
  BY InitInvariant, NextInvariant, PTL DEF Spec

--------------------------------------------------------------------------------
\* The edges of a page keep the order that waits and references ask for, and none of them
\* could be left out: they are the transitive reduction of what was asked.
THEOREM EdgesKeepOrder == Spec => []OrderKept
  <1>1. ASSUME IInv PROVE OrderKept
    <2> SUFFICES ASSUME NEW c \in Pages, Acyclic(c)
                 PROVE  /\ Before(computeEdges(c)) = Before(allEdges(c))
                        /\ \A l \in computeEdges(c) : Before(computeEdges(c) \ {l}) # Before(allEdges(c))
      BY DEF OrderKept
    <2>1. c \in Canvas
      BY <1>1 DEF Pages, IInv, TypeInv
    <2> QED
      BY <2>1, EdgesAreLinks, FilteredKeeps, FilteredNeeds DEF computeEdges
  <1> QED
    BY <1>1, Invariant, PTL

\* A page that is saved and loaded again draws the edges that were saved, with their branches.
THEOREM ReloadKeepsEdges == Spec => []ReloadDrawsSame
  <1>1. ASSUME IInv PROVE ReloadDrawsSame
    <2>1. Pages \subseteq Canvas
      BY <1>1 DEF Pages, IInv, TypeInv
    <2> QED
      BY <2>1, ReloadSame DEF ReloadDrawsSame
  <1> QED
    BY <1>1, Invariant, PTL

\* A page that says it is saved shows what the server has.
THEOREM SavedIsStored == Spec => []SavedMeansStored
  <1>1. IInv => SavedMeansStored
    BY DEF IInv, SentInv, SavedMeansStored, Pending
  <1> QED
    BY <1>1, Invariant, PTL

================================================================================
