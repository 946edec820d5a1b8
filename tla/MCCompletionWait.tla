---------------------------- MODULE MCCompletionWait ----------------------------
(***************************************************************************)
(* Two steps beside one waiter.                                            *)
(***************************************************************************)
EXTENDS CompletionWait

CONSTANTS s1, s2

================================================================================
