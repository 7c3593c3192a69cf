------------------------- MODULE MCComponentBinding -------------------------
(* The Holder and the component registry for TLC. *)
EXTENDS ComponentBinding, TLC

CONSTANTS g1, g2, g3, p1, p2, t1

\* Three snapshots: b is newer than a in the global layer, c in the tenant's,
\* and b no longer has the tenant.  b moves the component to a new module and
\* c drops it.
MCSnapshots == {"a", "b", "c"}
MCGlobal == [s \in MCSnapshots |-> IF s = "b" THEN 2 ELSE 1]
MCTenant == [s \in MCSnapshots |-> CASE s = "a" -> (t1 :> 1)
                                     [] s = "b" -> <<>>
                                     [] s = "c" -> (t1 :> 2)]
MCComponents == {"scan"}
MCDigests == {"m1", "m2"}
MCBindings == [s \in MCSnapshots |-> CASE s = "a" -> {<<"scan", "m1">>}
                                       [] s = "b" -> {<<"scan", "m2">>}
                                       [] s = "c" -> {}]
=============================================================================
