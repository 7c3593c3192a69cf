----------------------------- MODULE MCFineTune -----------------------------
(* FineTune for TLC: two reconcilers, one request at a time and two steps. *)
EXTENDS FineTune

CONSTANTS f1, f2, o1

MCCanarySteps == <<5, 100>>
=============================================================================
