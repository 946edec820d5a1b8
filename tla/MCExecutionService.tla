--------------------------- MODULE MCExecutionService ---------------------------
(***************************************************************************)
(* Two requests for one workflow.                                          *)
(***************************************************************************)
EXTENDS ExecutionService

CONSTANTS r1, r2

================================================================================
