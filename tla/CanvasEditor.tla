------------------------------ MODULE CanvasEditor -----------------------------
(***************************************************************************)
(* The editor of one workflow in one browser                               *)
(* (src/web/src/features/workflows/pages/WorkflowBuilder.tsx): pages that  *)
(* are opened and left one after the other, the timer that saves 1.5       *)
(* seconds after the last change, saves that are under way, and the        *)
(* browser's cached copy of the workflow, from which a page starts.        *)
(*                                                                         *)
(* A save is one step of the server here; CanvasStore has its statements.  *)
(***************************************************************************)
EXTENDS CanvasEdges

CONSTANTS Workflows,   \* the saved workflows to begin with
          Touched, Movable,  \* bounds: the links and the steps that changes are about
          MaxVisits, MaxEdits, MaxSaves,
          MaxTroubles  \* bound: saves that fail and tabs that are closed

Visits == 1 .. MaxVisits

NoWorkflow == [steps |-> {}, refs |-> {}, edits |-> {}, edges |-> {}, none |-> TRUE]
Blank == [steps |-> {}, waits |-> {}, refs |-> {}, no |-> {}, edits |-> {}]

ASSUME WorkflowsAssumption == Workflows \subseteq SavedCanvas
ASSUME BoundsAssumption ==
    Touched \subseteq Link /\ Movable \subseteq Steps /\ MaxVisits \in Nat

VARIABLES
    stored,            \* the workflow at the server
    cached, stale,     \* the browser's copy; whether it is to be fetched again
    fetch, answer,     \* "none", "asked" or "answered"; the answer on its way
    view,              \* of a visit: "unopened", "loading", "open", "left"
    canvas,            \* its steps as last rendered
    dirty, saved,      \* hasUnsavedChanges; whether lastSavedAt is set
    timer,             \* whether its autosave is due
    saves,             \* saves under way
    edits, sends, troubles,
    excused            \* History: whether saves met or failed, or a page began with an old copy

pageVars == <<view, canvas, dirty, saved, timer>>
netVars == <<cached, stale, fetch, answer>>
counts == <<edits, sends, troubles>>
vars == <<stored, netVars, pageVars, saves, counts, excused>>

Init ==
    /\ stored \in Workflows
    /\ cached = NoWorkflow /\ stale = FALSE /\ fetch = "none" /\ answer = NoWorkflow
    /\ view = [v \in Visits |-> "unopened"]
    /\ canvas = [v \in Visits |-> Blank]
    /\ dirty = [v \in Visits |-> FALSE]
    /\ saved = [v \in Visits |-> FALSE]
    /\ timer = [v \in Visits |-> FALSE]
    /\ saves = {}
    /\ edits = 0 /\ sends = 0 /\ troubles = 0
    /\ excused = FALSE

Pending == saves # {} \/ \E v \in Visits : timer[v]

--------------------------------------------------------------------------------
(***************************************************************************)
(* Pages and the cached workflow.                                          *)
(***************************************************************************)
\* A page starts once, from the copy there is (initializedRef).
Initialize(v, workflow) ==
    /\ view' = [view EXCEPT ![v] = "open"]
    /\ canvas' = [canvas EXCEPT ![v] = Loaded(workflow)]

\* One page after the other; what the page before has not saved yet is on its way.  A copy
\* that is to be fetched again, or is older than 30 seconds, is fetched beside the page.
OpenPage(v) ==
    /\ view[v] = "unopened" /\ \A u \in 1 .. v - 1 : view[u] = "left"
    /\ IF cached = NoWorkflow
       THEN view' = [view EXCEPT ![v] = "loading"] /\ UNCHANGED canvas
       ELSE Initialize(v, cached)
    /\ \/ fetch' = "asked" /\ answer' = NoWorkflow
       \/ cached # NoWorkflow /\ ~stale /\ UNCHANGED <<fetch, answer>>
    /\ excused' = (excused \/ Pending \/ cached \notin {NoWorkflow, stored})
    /\ UNCHANGED <<stored, cached, stale, dirty, saved, timer, saves, counts>>

\* Mutant: leaving the page clears its timer.
Left_Clears(v) == FALSE

\* The timer of a page that is left goes on, with what the page has rendered last.
Left(v) == timer[v]

LeavePage(v) ==
    /\ view[v] \in {"loading", "open"}
    /\ view' = [view EXCEPT ![v] = "left"]
    /\ timer' = [timer EXCEPT ![v] = Left(v)]
    /\ canvas' = [canvas EXCEPT ![v] = IF Left(v) THEN @ ELSE Blank]
    /\ dirty' = [dirty EXCEPT ![v] = FALSE]
    /\ saved' = [saved EXCEPT ![v] = FALSE]
    /\ UNCHANGED <<stored, netVars, saves, counts, excused>>

\* The tab is closed: timers and copies are gone, a request that was sent may arrive.
CloseTab ==
    /\ troubles < MaxTroubles /\ troubles' = troubles + 1
    /\ view' = [v \in Visits |-> IF view[v] = "unopened" THEN "unopened" ELSE "left"]
    /\ timer' = [v \in Visits |-> FALSE]
    /\ canvas' = [v \in Visits |-> Blank]
    /\ dirty' = [v \in Visits |-> FALSE] /\ saved' = [v \in Visits |-> FALSE]
    /\ cached' = NoWorkflow /\ stale' = FALSE /\ fetch' = "none" /\ answer' = NoWorkflow
    /\ saves' = {s \in saves : s.at = "sent"}
    /\ UNCHANGED <<stored, edits, sends, excused>>

ReadWorkflow ==
    /\ fetch = "asked" /\ fetch' = "answered" /\ answer' = stored
    /\ UNCHANGED <<stored, cached, stale, pageVars, saves, counts, excused>>

\* Only a page that waits for the workflow takes notice.
ReceiveWorkflow ==
    /\ fetch = "answered" /\ fetch' = "none" /\ answer' = NoWorkflow
    /\ cached' = answer /\ stale' = FALSE
    /\ IF \E v \in Visits : view[v] = "loading"
       THEN /\ \E v \in Visits : view[v] = "loading" /\ Initialize(v, answer)
            /\ excused' = (excused \/ answer # stored)
       ELSE UNCHANGED <<view, canvas, excused>>
    /\ UNCHANGED <<stored, dirty, saved, timer, saves, counts>>

--------------------------------------------------------------------------------
(***************************************************************************)
(* Changes.                                                                *)
(***************************************************************************)
\* What one change makes of a page: a step to wait for or not (WaitForStepsSelect), a
\* branch, a reference in a config, a new step, a step that is removed.
Changed(c) ==
    LET possible == {l \in Touched : {l[1], l[2]} \subseteq c.steps}
    IN  {[c EXCEPT !.waits = @ \cup {l}, !.no = @ \ {l}] : l \in possible \ c.waits}
        \cup {[c EXCEPT !.waits = @ \ {l}, !.no = @ \ {l}] : l \in possible \cap c.waits}
        \cup {[c EXCEPT !.no = IF l \in @ THEN @ \ {l} ELSE @ \cup {l}] :
                l \in {k \in computeEdges(c) : k[1] \in Conditions}}
        \cup {[c EXCEPT !.refs = IF l \in @ THEN @ \ {l} ELSE @ \cup {l}] : l \in possible}
        \cup {[c EXCEPT !.steps = @ \ {s}, !.waits = {l \in @ : l[2] # s},
                        !.refs = {l \in @ : l[2] # s}, !.no = {l \in @ : l[2] # s}] :
                s \in c.steps \cap Movable}
        \cup {[c EXCEPT !.steps = @ \cup {s}] :
                s \in {t \in Movable \ c.steps :
                         \A l \in c.waits \cup c.refs : t \notin {l[1], l[2]}}}

\* Mutant: no timer is set while a save is under way.
MarkDirty_NotWhileSaving(v) == IF saves = {} THEN TRUE ELSE timer[v]

\* markDirty: the timer starts again with every change.
MarkDirty(v) == TRUE

Edit(v) ==
    /\ view[v] = "open" /\ edits < MaxEdits
    /\ \E c \in Changed(canvas[v]) :
          canvas' = [canvas EXCEPT ![v] = [c EXCEPT !.edits = @ \cup {edits + 1}]]
    /\ edits' = edits + 1
    /\ dirty' = [dirty EXCEPT ![v] = TRUE]
    /\ timer' = [timer EXCEPT ![v] = MarkDirty(v)]
    /\ UNCHANGED <<stored, netVars, view, saved, saves, sends, troubles, excused>>

--------------------------------------------------------------------------------
(***************************************************************************)
(* Saves.                                                                  *)
(***************************************************************************)
\* What is saved is the page as last rendered (saveRef).
Snapshot(v) == ToSave(canvas[v])

Send(v) ==
    /\ sends < MaxSaves /\ sends' = sends + 1
    /\ saves' = saves \cup {[id |-> sends + 1, visit |-> v, at |-> "sent", body |-> Snapshot(v)]}
    /\ excused' = (excused \/ saves # {})

AutoSave(v) ==
    /\ timer[v] /\ timer' = [timer EXCEPT ![v] = FALSE]
    /\ Send(v)
    /\ canvas' = [canvas EXCEPT ![v] = IF view[v] = "left" THEN Blank ELSE @]
    /\ UNCHANGED <<stored, netVars, view, dirty, saved, edits, troubles>>

\* The button, which is disabled while a save of the page is under way.
SaveNow(v) ==
    /\ view[v] = "open" /\ \A s \in saves : s.visit # v
    /\ Send(v)
    /\ UNCHANGED <<stored, netVars, pageVars, edits, troubles>>

ApplySave ==
    /\ \E s \in saves :
          /\ s.at = "sent"
          /\ stored' = s.body
          /\ saves' = (saves \ {s}) \cup {[s EXCEPT !.at = "applied"]}
    /\ UNCHANGED <<netVars, pageVars, counts, excused>>

\* onSuccess, 300 ms later: the page is saved, and the copy fetched again.
SaveAnswered ==
    /\ \E s \in saves :
          /\ s.at = "applied" /\ saves' = saves \ {s}
          /\ IF view[s.visit] = "open"
             THEN /\ dirty' = [dirty EXCEPT ![s.visit] = FALSE]
                  /\ saved' = [saved EXCEPT ![s.visit] = TRUE]
             ELSE UNCHANGED <<dirty, saved>>
    /\ IF \E v \in Visits : view[v] \in {"loading", "open"}
       THEN fetch' = "asked" /\ answer' = NoWorkflow /\ UNCHANGED stale
       ELSE stale' = TRUE /\ UNCHANGED <<fetch, answer>>
    /\ UNCHANGED <<stored, cached, view, canvas, timer, counts, excused>>

\* onError: nothing tries again; the save may have been applied.
SaveFails ==
    /\ troubles < MaxTroubles /\ troubles' = troubles + 1
    /\ \E s \in saves : saves' = saves \ {s}
    /\ excused' = TRUE
    /\ UNCHANGED <<stored, netVars, pageVars, edits, sends>>

User == \E v \in Visits : OpenPage(v) \/ LeavePage(v) \/ Edit(v) \/ SaveNow(v)
Browser == ReceiveWorkflow \/ SaveAnswered \/ \E v \in Visits : AutoSave(v)
Server == ReadWorkflow \/ ApplySave

Next == User \/ Browser \/ Server \/ SaveFails \/ CloseTab

Spec == Init /\ [][Next]_vars

\* Timers fire and requests are answered; the user need not do anything.
FairSpec ==
    /\ Spec
    /\ WF_vars(ReadWorkflow) /\ WF_vars(ReceiveWorkflow)
    /\ WF_vars(ApplySave) /\ WF_vars(SaveAnswered)
    /\ \A v \in Visits : WF_vars(AutoSave(v))

--------------------------------------------------------------------------------
(***************************************************************************)
(* Properties.                                                             *)
(***************************************************************************)
Pages == {canvas[v] : v \in {u \in Visits : view[u] = "open"}}

\* The edges of a page put its steps in the order that waits and references ask for, and
\* none of them could be left out (computeEdges.ts:123), if no step waits for itself.
OrderKept ==
    \A c \in Pages : Acyclic(c) =>
       /\ Before(computeEdges(c)) = Before(allEdges(c))
       /\ \A l \in computeEdges(c) : Before(computeEdges(c) \ {l}) # Before(allEdges(c))

\* A page that is saved and loaded again draws the edges that were saved, with their
\* branches (WorkflowBuilder.tsx:284), although the transitive ones are lost.
ReloadDrawsSame ==
    \A c \in Pages : Acyclic(c) => ToSave(Loaded(ToSave(c))).edges = ToSave(c).edges

\* A page that says it is saved (BuilderToolbar.tsx:76) shows what the server has, once
\* nothing is under way, unless saves were under way at once (WorkflowBuilder.tsx:143) or
\* failed, or the page started from an old copy (WorkflowBuilder.tsx:263).
SavedMeansStored ==
    \A v \in Visits :
       view[v] = "open" /\ saved[v] /\ ~dirty[v] /\ ~Pending /\ ~excused =>
          stored = ToSave(canvas[v])

\* A change reaches the server although nobody saves it, also when the page is left before
\* its timer fires (WorkflowBuilder.tsx:143), unless two saves are under way at once, a
\* page starts from an old copy, the tab is closed or a save fails (or the bound allows no
\* more saves).
EditsArrive ==
    \A k \in 1 .. MaxEdits :
       (\E v \in Visits : k \in canvas[v].edits)
          ~> \/ k \in stored.edits \/ excused \/ troubles > 0
             \/ sends = MaxSaves /\ \E v \in Visits : timer[v] /\ k \in canvas[v].edits

\* "If source is already an ancestor of target through other edges, the direct edge is
\* redundant" (computeEdges.ts:123): without an edge that is removed, a step still waits
\* for the same branch of its condition, through the first step of some other path.
RemovedIsRedundant ==
    \A c \in Pages : \A l \in allEdges(c) \ computeEdges(c) :
       Acyclic(c) /\ l[1] \in Conditions =>
          \E s \in Steps : /\ <<l[1], s>> \in computeEdges(c)
                          /\ <<s, l[2]>> \in Before(computeEdges(c))
                          /\ Output(c, <<l[1], s>>) = Output(c, l)

================================================================================
