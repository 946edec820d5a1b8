------------------------------- MODULE MCEventBus -------------------------------
(***************************************************************************)
(* Two publishers and two subscribers, of one execution or of two.         *)
(***************************************************************************)
EXTENDS EventBus

CONSTANTS e1, e2, p1, p2, c1, c2

================================================================================
