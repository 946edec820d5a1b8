------------------------------ MODULE MCLiveUpdates ------------------------------
(***************************************************************************)
(* One step beside one page.                                               *)
(***************************************************************************)
EXTENDS LiveUpdates

CONSTANT s1

================================================================================
