------------------------------ MODULE CanvasEdges ------------------------------
(***************************************************************************)
(* The edges that the workflow editor draws and saves                      *)
(* (src/web/src/features/workflows/utils/computeEdges.ts), and how a page  *)
(* gets its steps back from a saved workflow (WorkflowBuilder.tsx).        *)
(*                                                                         *)
(* A link <<s, t>> says that step t waits for step s: the user chose it,   *)
(* or the config of t refers to the output of s.  Steps are ids; a name in *)
(* a reference stands for the id it resolves to.                           *)
(***************************************************************************)
EXTENDS Naturals, FiniteSets

CONSTANTS Steps, Conditions   \* Conditions: the steps with the outputs "true" and "false"

ASSUME ConditionsAssumption == IsFiniteSet(Steps) /\ Conditions \subseteq Steps

Link == Steps \X Steps

\* No step waits for itself.
Sets == SUBSET {l \in Link : l[1] # l[2]}

\* The steps of a page: waitForStepIds, the references in the configs, and the links for
\* which waitForBranches says "false"; "true" is what it says by default.  edits are the
\* changes of users in it, for the properties only.
Canvas == [steps : SUBSET Steps, waits : SUBSET Link, refs : SUBSET Link,
           no : SUBSET Link, edits : SUBSET Nat]

\* What the server keeps.
SavedCanvas ==
    [steps : SUBSET Steps, refs : SUBSET Link, edits : SUBSET Nat,
     edges : SUBSET [link : Link, output : {"", "true", "false"}]]

\* The edges before transitive ones are removed; an edge for each pair.
allEdges(c) ==
    {l \in c.waits \cup c.refs : l[1] # l[2] /\ {l[1], l[2]} \subseteq c.steps}

\* What is linked directly or through other steps; a table, which TLC makes once.
Paths ==
    [links \in Sets |->
       LET path[n \in 0 .. Cardinality(Steps)] ==
             IF n = 0 THEN links
             ELSE LET shorter == path[n - 1]
                  IN shorter \cup {l \in Link : \E m \in Steps :
                                      <<l[1], m>> \in shorter /\ <<m, l[2]>> \in shorter}
       IN path[Cardinality(Steps)]]

Before(links) == Paths[links]

\* Mutant: the direct edge counts as a path.
hasIndirectPath_Direct(links, l) ==
    \E child \in Steps :
       /\ <<l[1], child>> \in links
       /\ child = l[2] \/ <<child, l[2]>> \in Before(links)

\* A walk from another child of the source reaches the target.
hasIndirectPath(links, l) ==
    \E child \in Steps \ {l[2]} : <<l[1], child>> \in links /\ <<child, l[2]>> \in Before(links)

\* The links that stay of a set of links.
Filtered == [links \in Sets |-> {l \in links : ~hasIndirectPath(links, l)}]

computeEdges(c) == Filtered[allEdges(c)]

\* sourceHandle
Output(c, l) ==
    IF l[1] \notin Conditions THEN "" ELSE IF l \in c.no THEN "false" ELSE "true"

\* What is sent when the page is saved.
ToSave(c) ==
    [steps |-> c.steps, refs |-> c.refs, edits |-> c.edits,
     edges |-> {[link |-> l, output |-> Output(c, l)] : l \in computeEdges(c)}]

\* Mutant: the branches are not read back.
Loaded_AllYes(s) ==
    [steps |-> s.steps, refs |-> s.refs, edits |-> s.edits,
     waits |-> {e.link : e \in s.edges} \ s.refs, no |-> {}]

\* What a page makes of a saved workflow; edges that a reference covers are not waited for.
Loaded(s) ==
    [steps |-> s.steps, refs |-> s.refs, edits |-> s.edits,
     waits |-> {e.link : e \in s.edges} \ s.refs,
     no |-> {e.link : e \in {d \in s.edges : d.output = "false"}}]

Acyclic(c) == \A s \in Steps : <<s, s>> \notin Before(allEdges(c))

================================================================================
