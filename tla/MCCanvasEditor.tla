---------------------------- MODULE MCCanvasEditor -----------------------------
(***************************************************************************)
(* A condition and a step for each of its branches; changes may let one of *)
(* the steps wait for the other, so that the branches come together again  *)
(* and an edge becomes transitive.                                         *)
(***************************************************************************)
EXTENDS CanvasEditor

CONSTANTS cond, a, b

Page(waits, refs, no) ==
    [steps |-> Steps, waits |-> waits, refs |-> refs, no |-> no, edits |-> {}]

Begin == {ToSave(Page({<<cond, a>>}, {<<cond, b>>}, {<<cond, b>>}))}

Between == {<<a, b>>}

================================================================================
