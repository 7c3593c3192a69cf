------------------------------ MODULE MCRouter ------------------------------
(* Small instances of Router for TLC. *)
EXTENDS Router, TLC

CONSTANTS d1, d2, r1, r2

\* Two deployments: both may serve a tier-1 request, one a tier-2 request and
\* none a tier-3 request.
TwoDeployments == {d1, d2}
TwoTiers == (d1 :> 1) @@ (d2 :> 2)

=============================================================================
