---------------------------- MODULE MCCronScheduler ----------------------------
(***************************************************************************)
(* Two workflows, two handlers, one or two expressions.                    *)
(***************************************************************************)
EXTENDS CronScheduler

CONSTANTS w1, w2, h1, h2

================================================================================
