---------------------------- MODULE MCPublishing ----------------------------
(* Publishing for TLC: a tenant whose first key is rotated or revoked. *)
EXTENDS Publishing

CONSTANTS t1, k1, k2, c1, c2

MCOwner == [k \in {k1, k2} |-> t1]

PublishingSpec ==
  /\ PublishingInit /\ [][PublishingNext]_publishingVars
  /\ PublishingFairness
=============================================================================
