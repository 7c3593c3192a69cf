---------------------------- MODULE MCRequestPath ----------------------------
(***************************************************************************)
(* What a request meets on a worker besides the pipeline itself: the       *)
(* configuration as decoded from the wire, policy, rate limits,            *)
(* credentials, the provider's stream and the restoring of personal data.  *)
(* The parts share no state, so one run explores the sum of their state    *)
(* spaces: part says which of them moves, the others stay as they started. *)
(***************************************************************************)
EXTENDS MCWire, MCLimiter, PolicyEngine, Secrets, ProviderStream, Pii

VARIABLE part

-----------------------------------------------------------------------------
(* PolicyEngine: two snapshots of a fleet with a default policy and a tenant *)
(* t1 with a policy of its own.  A global layer carries the time it was      *)
(* built, so that two builds never have the same digest.                     *)

CONSTANTS c1, c2, c3

Rule == [effect |-> "DENY", models |-> {}, endpoints |-> {}, regions |-> {},
         maxPayload |-> 0, roles |-> {}, nets |-> {}, class |-> "",
         tier |-> "UNSPECIFIED", deep |-> FALSE]
Allow == [Rule EXCEPT !.effect = "ALLOW", !.class = "pii", !.tier = "INTERNAL", !.deep = TRUE]
PolicyBundle(rules, default) == <<[id |-> "b", rules |-> rules, default |-> default]>>
Conditions ==
  {[Rule EXCEPT !.models = {"m1"}], [Rule EXCEPT !.endpoints = {"chat"}],
   [Rule EXCEPT !.regions = {"eu"}], [Rule EXCEPT !.maxPayload = 1],
   [Rule EXCEPT !.roles = {"admin"}], [Rule EXCEPT !.nets = {{"a1"}}]}
Bundles ==
  {<<>>, PolicyBundle(<<>>, "DENY"), PolicyBundle(<<Allow>>, "DENY"),
   PolicyBundle(<<[Rule EXCEPT !.effect = "?"]>>, "ALLOW"),
   PolicyBundle(<<[Rule EXCEPT !.nets = {Unparseable}]>>, "UNSPECIFIED")}
  \cup {PolicyBundle(<<r, Allow>>, "UNSPECIFIED") : r \in Conditions}
SnapshotWith(n, own) ==
  [global |-> [version |-> [number |-> 1, digest |-> <<n>>],
               policy |-> PolicyBundle(<<Allow>>, "DENY")],
   tenants |-> [t1 |-> [policy |-> own]]]
MCHistories ==
  {<<SnapshotWith(1, PolicyBundle(<<>>, "DENY")), SnapshotWith(2, own)>> : own \in Bundles}
CallOf(tenant, model, size, roles, source) ==
  [tenant |-> tenant, model |-> model, endpoint |-> "chat", region |-> "eu", payload |-> size,
   roles |-> roles, source |-> source, floor |-> TrustPrivateCloud, class |-> "public"]
MCCalls == {CallOf("t1", "m1", 1, {"admin"}, "a1"), CallOf("t1", "m2", 2, {"user"}, ""),
            CallOf("t2", "m1", 2, {}, "a2")}

-----------------------------------------------------------------------------
(* Pii and ProviderStream *)

\* Every text of up to four characters, and one with a placeholder in it.
MCPayloads == UNION {[1 .. n -> {"[", "]", "1", "v"}] : n \in 0 .. 4}
              \cup {<<"[", "[", "2", "]", "]", "v">>}

Report(prompt, hit, written, output) ==
  [prompt |-> prompt, cached |-> hit, write |-> written, output |-> output]
MCReports == {Report(3, 1, 0, 1), Report(2, 0, 1, 1), Report(0, 0, 0, 2)}

-----------------------------------------------------------------------------
Parts == {"wire", "limits", "policy", "secrets", "stream", "pii"}

MCInit ==
  /\ part \in Parts
  /\ IF part = "wire" THEN TRUE ELSE spec = [global |-> Global, tenants |-> <<T1>>]
  /\ IF part = "limits" THEN TRUE ELSE fleet = OneWorker /\ maxConcurrent = 1
  /\ IF part = "policy" THEN TRUE
     ELSE history = <<SnapshotWith(1, PolicyBundle(<<>>, "DENY")), SnapshotWith(2, <<>>)>>
  /\ IF part = "stream" THEN TRUE ELSE dialect = "openai"
  /\ IF part = "pii" THEN TRUE ELSE payload = <<>>
  /\ WireInit /\ LimiterInit /\ PolicyInit /\ SecretsInit /\ StreamInit /\ PiiInit

MCNext ==
  /\ part' = part
  /\ \/ part = "wire" /\ WireNext
     \/ part = "limits" /\ LimiterNext
     \/ part = "policy" /\ PolicyNext
     \/ part = "secrets" /\ SecretsNext
     \/ part = "stream" /\ StreamNext
     \/ part = "pii" /\ PiiNext
  /\ part # "wire" => UNCHANGED wireVars
  /\ part # "limits" => UNCHANGED limiterVars
  /\ part # "policy" => UNCHANGED policyVars
  /\ part # "secrets" => UNCHANGED secretVars
  /\ part # "stream" => UNCHANGED streamVars
  /\ part # "pii" => UNCHANGED piiVars

MCSpec ==
  MCInit /\ [][MCNext]_<<part, wireVars, limiterVars, policyVars, secretVars,
                         streamVars, piiVars>>
=============================================================================
