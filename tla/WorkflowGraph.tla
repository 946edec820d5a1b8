----------------------------- MODULE WorkflowGraph -----------------------------
(***************************************************************************)
(* The dependency graph executeDAG builds before it runs anything          *)
(* (src/internal/engine/executor.go, 204-274).                             *)
(*                                                                         *)
(* A workflow is a record g.  Its steps are 1 .. g.n, numbered in the      *)
(* order of wf.Edges.Steps, and                                            *)
(*   g.normal[s]  the normal edges out of s in the order they are stored,  *)
(*                each with its target and its source_output;              *)
(*   g.error[s]   the targets of the error edges out of s;                 *)
(*   g.refs[s]    the steps that ExtractStepRefs finds in the config of s; *)
(*   g.uses[s]    the steps whose output the resolver needs to resolve the *)
(*                config and the input mapping of s;                       *)
(*   g.condition  the steps of type "condition";                           *)
(*   g.endless    the steps whose runner waits for a server without a time *)
(*                limit: http_request.go has none (48), and the one of the *)
(*                step is set only if timeout_seconds is positive (552);   *)
(*   g.retries[s] the retry_count column, which nothing validates;         *)
(*   g.timed      whether timeout_seconds is set and positive.             *)
(***************************************************************************)
EXTENDS Integers, Sequences, FiniteSets

StepsOf(g) == 1 .. g.n

Outputs == {"", "true", "false"}

Edge(g) == [tgt : StepsOf(g), out : Outputs]

IsWorkflow(g) ==
    /\ g.n \in Nat \ {0}
    /\ g.normal \in [StepsOf(g) -> Seq(Edge(g))]
    /\ g.error \in [StepsOf(g) -> SUBSET StepsOf(g)]
    /\ g.refs \in [StepsOf(g) -> SUBSET StepsOf(g)]
    /\ g.uses \in [StepsOf(g) -> SUBSET StepsOf(g)]
    /\ g.condition \in SUBSET StepsOf(g)
    /\ g.endless \in SUBSET StepsOf(g)
    /\ g.retries \in [StepsOf(g) -> Int]
    /\ g.timed \in BOOLEAN

(***************************************************************************)
(* A reference from t to s adds a dependency of its own only when no edge  *)
(* of either type already leads from s to t.                               *)
(***************************************************************************)
ImplicitDownstream(g, s) ==
    {t \in StepsOf(g) : /\ t # s
                        /\ s \in g.refs[t]
                        /\ t \notin g.error[s]
                        /\ \A p \in DOMAIN g.normal[s] : g.normal[s][p].tgt # t}

(***************************************************************************)
(* The links out of a step, named by the order in which its outcome is     *)
(* delivered along them: first its normal edges as stored, then its        *)
(* implicit dependents in the order of the steps.                          *)
(***************************************************************************)
Explicit(g, s) == DOMAIN g.normal[s]

OutLinks(g, s) ==
    Explicit(g, s) \cup {Len(g.normal[s]) + t : t \in ImplicitDownstream(g, s)}

Target(g, s, p) ==
    IF p \in Explicit(g, s) THEN g.normal[s][p].tgt ELSE p - Len(g.normal[s])

Links(g) == UNION {{s} \X OutLinks(g, s) : s \in StepsOf(g)}

InLinks(g, t) == {l \in Links(g) : Target(g, l[1], l[2]) = t}

\* Mutant: the dependencies found in the config are not counted.
InitialInDegree_Explicit(g, t) ==
    Cardinality({l \in InLinks(g, t) : l[2] \in Explicit(g, l[1])})

InitialInDegree(g, t) == Cardinality(InLinks(g, t))

DependsOn(g, t) == {l[1] : l \in InLinks(g, t)}

================================================================================
