------------------------------ MODULE MCLimiter ------------------------------
(* Small instances of Limiter for TLC. *)
EXTENDS Limiter, TLC

CONSTANTS k1, k2, r1, r2, r3

\* One request at a time on each of two workers, over two windows.
TwoWorkers == [host |-> (r1 :> k1) @@ (r2 :> k2), tokenLimit |-> 1,
               maxConcurrents |-> {0}, maxWindow |-> 2, maxFailures |-> 0]

\* Three requests on one worker, with a store that may fail.
OneWorker == [host |-> [r \in {r1, r2, r3} |-> k1], tokenLimit |-> 2,
              maxConcurrents |-> {1, 2}, maxWindow |-> 1, maxFailures |-> 1]

\* Two requests on one worker, under snapshots with and without a MaxConcurrent.
Lifted == [host |-> [r \in {r1, r2} |-> k1], tokenLimit |-> 1,
           maxConcurrents |-> {0, 1}, maxWindow |-> 1, maxFailures |-> 0]

MCFleets == {TwoWorkers, OneWorker, Lifted}
=============================================================================
