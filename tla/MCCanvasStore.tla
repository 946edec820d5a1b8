----------------------------- MODULE MCCanvasStore -----------------------------
(***************************************************************************)
(* Three operations on a workflow, beside another workflow whose ids and   *)
(* steps the canvases that are sent may name.                              *)
(***************************************************************************)
EXTENDS CanvasStore, TLC

CONSTANTS p1, p2, p3

Canvas(steps, edges, notes) == [steps |-> steps, edges |-> edges, notes |-> notes]
Edge(e, s, t) == [id |-> e, from |-> s, to |-> t]

\* The canvas of the other workflow.
Neighbour == Canvas(<<"x", "y">>, <<Edge("f", "x", "y")>>, <<"o">>)

\* A canvas without edges, one with an edge, one of another step with an edge between steps
\* of the other workflow, one with an edge to such a step, and one that takes its id.
Sent ==
    {Canvas(<<"a">>, <<>>, <<"n">>),
     Canvas(<<"a", "b">>, <<Edge("e", "a", "b")>>, <<>>),
     Canvas(<<"c">>, <<Edge("d", "x", "y")>>, <<"m">>),
     Canvas(<<"a">>, <<Edge("e", "a", "x")>>, <<>>),
     Canvas(<<"a", "x">>, <<>>, <<>>)}

Asking(a, b, c) == [p \in {p1, p2, p3} |-> IF p = p1 THEN a ELSE IF p = p2 THEN b ELSE c]

Anyone == Permutations({p1, p2, p3})

\* Whoever asks for what.
Chosen ==
    {[p \in {p1, p2, p3} |-> requests[f[p]]] :
       requests \in {Asking("save", "save", "save"), Asking("save", "save", "execute"),
                     Asking("save", "delete", "execute"), Asking("save", "delete", "clone"),
                     Asking("delete", "delete", "execute")},
       f \in Anyone}

================================================================================
