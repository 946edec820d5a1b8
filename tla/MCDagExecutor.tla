----------------------------- MODULE MCDagExecutor -----------------------------
(***************************************************************************)
(* Families of small workflows for TLC.                                    *)
(***************************************************************************)
EXTENDS DagExecutorInv, SequencesExt

\* The workflow with n steps, the normal edges E, a set of triples <<source,
\* target, output>> stored in the order of their targets, the error edges E2
\* and the references R, sets of pairs <<source, target>>.
Workflow(n, E, E2, R, conditions, tries, t) ==
    [n |-> n,
     normal |-> [s \in 1 .. n |->
        SetToSortSeq({[tgt |-> e[2], out |-> e[3]] : e \in {f \in E : f[1] = s}},
                     LAMBDA a, b : \/ a.tgt < b.tgt
                                   \/ a.tgt = b.tgt /\ a.out = "true" /\ b.out # "true")],
     error |-> [s \in 1 .. n |-> {e[2] : e \in {f \in E2 : f[1] = s}}],
     refs |-> [s \in 1 .. n |-> {e[1] : e \in {f \in R : f[2] = s}}],
     uses |-> [s \in 1 .. n |-> {e[1] : e \in {f \in R : f[2] = s}}],
     condition |-> conditions,
     endless |-> {},
     retries |-> [s \in 1 .. n |-> tries],
     timed |-> t]

Pairs(n) == {e \in (1 .. n) \X (1 .. n) : e[1] # e[2]}

UpTo(S, k) == {T \in SUBSET S : Cardinality(T) <= k}

\* The edges out of a condition c carry "true" when they are in T.
Labelled(E, c, T) ==
    {<<e[1], e[2], IF e[1] # c THEN "" ELSE IF e \in T THEN "true" ELSE "false">> : e \in E}

From(E, c) == {e \in E : e[1] = c}

\* Every graph of three steps with at most three edges, cycles included, in
\* which one step decides and labels each of its edges with either outcome.
Branches ==
    UNION {UNION {{Workflow(3, Labelled(E, c, T), {}, {}, {c}, 0, FALSE) :
                     T \in SUBSET From(E, c)} : E \in UpTo(Pairs(3), 3)} : c \in 1 .. 3}

\* Every acyclic graph of four steps whose first step decides: branches of
\* any length that part and merge again.
Diamonds ==
    UNION {{Workflow(4, Labelled(E, 1, T), {}, {}, {1}, 0, FALSE) : T \in SUBSET From(E, 1)} :
             E \in SUBSET {e \in Pairs(4) : e[1] < e[2]}}

\* Edges of both labels from a condition to the same step, and a reference
\* instead of an edge, or beside one, or beside an error edge.
References ==
    UNION {{Workflow(3, Labelled(E, 1, T) \cup B, E2, {r}, {1}, 0, FALSE) :
              T \in SUBSET From(E, 1)} :
             E \in UpTo({<<1, 2>>, <<1, 3>>, <<2, 3>>}, 2),
             B \in {{}, {<<1, 3, "true">>, <<1, 3, "false">>}},
             E2 \in UpTo({<<1, 3>>, <<2, 3>>}, 1),
             r \in Pairs(3)}

\* One or two error edges, and at most two normal ones.
Handlers ==
    {Workflow(3, Labelled(x[1], 0, {}), x[2], {}, {}, 0, FALSE) :
       x \in {y \in UpTo(Pairs(3), 2) \X UpTo(Pairs(3), 2) : y[2] # {}}}

\* All of these.
Graphs == Branches \cup Diamonds \cup References \cup Handlers

\* Few graphs on which everything else may happen: retries, a retry count
\* below zero, a cancel, a timeout, failing writes.
Chain(tries, t) == Workflow(2, {<<1, 2, "">>}, {}, {}, {}, tries, t)
Fork(tries, t) == Workflow(2, {}, {}, {}, {}, tries, t)
Guarded(tries, t) == Workflow(3, {<<1, 2, "true">>}, {<<1, 3>>}, {<<1, 2>>}, {1}, tries, t)

\* A cycle that a failure starts, and one that never gets ready.
Circle(t) == Workflow(3, {<<1, 2, "">>, <<2, 3, "">>, <<3, 2, "">>}, {<<1, 2>>}, {}, {}, 0, t)

\* The first step waits for a server without a time limit.
Stalled(g) == [g EXCEPT !.endless = {1}]

Disturbed ==
    {Chain(1, TRUE), Chain(-1, FALSE), Fork(1, FALSE), Guarded(0, TRUE), Circle(FALSE),
     Stalled(Chain(0, TRUE)), Stalled(Fork(1, FALSE)), Stalled(Circle(FALSE))}

================================================================================
