---------------------------- MODULE PolicyEngine ----------------------------
(***************************************************************************)
(* Policy on a worker (dataplane/internal/policy): bundles are decoded     *)
(* from the snapshot a request holds, cached across requests by the digest *)
(* of that snapshot, evaluated, and applied to the request                 *)
(* (gateway/pipeline.go applyPolicy) while newer snapshots arrive.         *)
(*                                                                         *)
(* A CIDR is the set of addresses it covers, or Unparseable; the address "" *)
(* is one that could not be read.                                          *)
(***************************************************************************)
EXTENDS Catalog, FiniteSetsExt

CONSTANTS Callers,     \* requests
          Calls,       \* what a request may ask, a set of [tenant, roles, floor, ...]
          Histories    \* sequences of snapshots as a worker may apply them

\* The parts of a snapshot the engine reads are well formed, and a digest names
\* one build: a global layer carries the time it was built.
IsSeq(s) == Len(s) \in Nat /\ DOMAIN s = 1 .. Len(s)
ASSUME PolicyAssumption ==
  /\ \A h \in Histories : IsSeq(h) /\ h # <<>>
  /\ \A h \in Histories : \A i, j \in DOMAIN h :
       h[i].global.version.digest = h[j].global.version.digest => h[i] = h[j]
  /\ \A h \in Histories : \A i \in DOMAIN h, call \in Calls :
       LET policy == PolicyOf(h[i], call.tenant)
       IN  policy # <<>> => IsSeq(policy[1].rules)
  /\ \A call \in Calls : call.floor \in Nat

VARIABLES history,     \* the snapshots, in order
          current,     \* how many of them have been applied
          cache,       \* Cache.digest and Cache.bundles
          caller       \* the locals of applyPolicy

policyVars == <<history, current, cache, caller>>

Unparseable == {"unparseable"}
NoClass == ""          \* a rule that stamps no class

PolicyInit ==
  /\ history \in Histories
  /\ current = 1
  /\ cache = [digest |-> <<>>, bundles |-> <<>>]
  /\ caller = [c \in Callers |-> [pc |-> "idle"]]

-----------------------------------------------------------------------------
(* Decoding and evaluating *)

decodeEffect(e) == CASE e = "ALLOW" -> "allow" [] e = "DENY" -> "deny" [] OTHER -> "unset"
decodeTier(t) ==
  CASE t = "EXTERNAL" -> TrustExternal [] t = "PRIVATE_CLOUD" -> TrustPrivateCloud
    [] t = "INTERNAL" -> TrustInternal [] OTHER -> TrustUnset

decodeRule(r) ==
  [effect |-> decodeEffect(r.effect), tier |-> decodeTier(r.tier), models |-> r.models,
   endpoints |-> r.endpoints, regions |-> r.regions, maxPayload |-> r.maxPayload,
   roles |-> r.roles, nets |-> r.nets, class |-> r.class, deep |-> r.deep]
RuleDecodes(r) == decodeEffect(r.effect) # "unset" /\ Unparseable \notin r.nets

\* Decode: one rule that does not decode fails the bundle.
Decodes(b) == \A i \in DOMAIN b.rules : RuleDecodes(b.rules[i])
Decode(b) == [id |-> b.id, default |-> decodeEffect(b.default),
              rules |-> [i \in DOMAIN b.rules |-> decodeRule(b.rules[i])]]

hasAnyRole(required, granted) == required \cap granted # {}
inAnyNet(nets, addr) == addr # "" /\ \E net \in nets : addr \in net

\* An empty condition holds for every request.
matches(rule, in) ==
  /\ rule.models = {} \/ in.model \in rule.models
  /\ rule.endpoints = {} \/ in.endpoint \in rule.endpoints
  /\ rule.regions = {} \/ in.region \in rule.regions
  /\ rule.maxPayload = 0 \/ in.payload <= rule.maxPayload
  /\ rule.roles = {} \/ hasAnyRole(rule.roles, in.roles)
  /\ rule.nets = {} \/ inAnyNet(rule.nets, in.source)

Decision(allowed, class, tier, deep) ==
  [allowed |-> allowed, class |-> class, tier |-> tier, deep |-> deep]

\* Evaluate: the first rule that matches decides.
Evaluate(bundle, in) ==
  LET hits == {i \in DOMAIN bundle.rules : matches(bundle.rules[i], in)}
      rule == bundle.rules[Min(hits)]
  IN  IF hits = {} THEN Decision(bundle.default # "deny", NoClass, TrustUnset, FALSE)
      ELSE IF rule.effect = "deny" THEN Decision(FALSE, NoClass, TrustUnset, FALSE)
      ELSE Decision(TRUE, rule.class, rule.tier, rule.deep)

-----------------------------------------------------------------------------
(* A request, holding the snapshot it started with *)

Held(c) == history[caller[c].at]
Raw(c) == PolicyOf(Held(c), caller[c].call.tenant)
DigestOf(c) == Held(c).global.version.digest
To(c, next) == caller' = [caller EXCEPT ![c].pc = next]

Outcome(c, o) == caller' = [caller EXCEPT ![c] =
  [pc |-> "done", at |-> @.at, call |-> @.call, bundle |-> <<>>, outcome |-> o]]

Call(c, call) ==
  /\ caller[c].pc = "idle"
  /\ caller' = [caller EXCEPT ![c] =
       [pc |-> "start", at |-> current, call |-> call, bundle |-> <<>>]]
  /\ UNCHANGED <<history, current, cache>>

\* applyPolicy of an allowed request: the class is the rule's if it has one, the
\* floor is only ever raised.
Applied(call, d) ==
  [allowed |-> TRUE, class |-> IF d.class # NoClass THEN d.class ELSE call.class,
   floor |-> IF d.tier > call.floor THEN d.tier ELSE call.floor, deep |-> d.deep]
Denied == [allowed |-> FALSE]

NoPolicy(c) ==
  /\ caller[c].pc = "start" /\ Raw(c) = <<>>
  /\ Outcome(c, Applied(caller[c].call, Decision(TRUE, NoClass, TrustUnset, FALSE)))
  /\ UNCHANGED <<history, current, cache>>

\* Cache.For under the read lock.
Hit(c) == cache.digest = DigestOf(c) /\ caller[c].call.tenant \in DOMAIN cache.bundles
LookUp(c) ==
  /\ caller[c].pc = "start" /\ Raw(c) # <<>>
  /\ IF Hit(c)
     THEN caller' = [caller EXCEPT ![c].pc = "evaluate",
                                   ![c].bundle = cache.bundles[caller[c].call.tenant]]
     ELSE To(c, "decode")
  /\ UNCHANGED <<history, current, cache>>

\* Decode under no lock.  A bundle that does not decode refuses the request.
DecodeRaw(c) ==
  /\ caller[c].pc = "decode"
  /\ IF Decodes(Raw(c)[1])
     THEN caller' = [caller EXCEPT ![c].pc = "store", ![c].bundle = Decode(Raw(c)[1])]
     ELSE Outcome(c, Denied)
  /\ UNCHANGED <<history, current, cache>>

WithBundle(bundles, tenant, bundle) ==
  [t \in DOMAIN bundles \cup {tenant} |-> IF t = tenant THEN bundle ELSE bundles[t]]

\* Mutant of StoreBundle: bundles decoded from another snapshot are kept.
StoreKept(c) ==
  /\ caller[c].pc = "store"
  /\ cache' = [digest |-> DigestOf(c),
               bundles |-> WithBundle(cache.bundles, caller[c].call.tenant, caller[c].bundle)]
  /\ To(c, "evaluate")
  /\ UNCHANGED <<history, current>>

\* Cache.For under the lock: a cache of another snapshot is emptied first.
StoreBundle(c) ==
  /\ caller[c].pc = "store"
  /\ LET kept == IF cache.digest = DigestOf(c) THEN cache.bundles ELSE <<>>
     IN  cache' = [digest |-> DigestOf(c),
                   bundles |-> WithBundle(kept, caller[c].call.tenant, caller[c].bundle)]
  /\ To(c, "evaluate")
  /\ UNCHANGED <<history, current>>

Decide(c) ==
  /\ caller[c].pc = "evaluate"
  /\ LET d == Evaluate(caller[c].bundle, caller[c].call)
     IN  Outcome(c, IF d.allowed THEN Applied(caller[c].call, d) ELSE Denied)
  /\ UNCHANGED <<history, current, cache>>

\* The subscriber swaps in the next snapshot.
NextSnapshot ==
  /\ current < Len(history)
  /\ current' = current + 1
  /\ UNCHANGED <<history, cache, caller>>

PolicyNext ==
  \/ \E c \in Callers :
       \/ \E call \in Calls : Call(c, call)
       \/ NoPolicy(c) \/ LookUp(c) \/ DecodeRaw(c) \/ StoreBundle(c) \/ Decide(c)
  \/ NextSnapshot

PolicySafety == PolicyInit /\ [][PolicyNext]_policyVars

-----------------------------------------------------------------------------
(* Properties *)

\* The rules of a bundle as published, and the one that decides.
Decides(b, in, i) ==
  /\ i \in DOMAIN b.rules /\ matches(b.rules[i], in)
  /\ \A j \in 1 .. i - 1 : ~matches(b.rules[j], in)
Denying(b, in) ==
  IF \E i \in DOMAIN b.rules : Decides(b, in, i)
  THEN \E i \in DOMAIN b.rules : Decides(b, in, i) /\ b.rules[i].effect = "DENY"
  ELSE b.default = "DENY"

\* A request is decided by the policy of the snapshot it holds, its tenant's own
\* or else the default, whatever other requests, of other tenants and on older or
\* newer snapshots, put into the shared cache meanwhile: it goes on exactly when
\* that policy decodes and its first matching rule, or without one its default,
\* does not deny, and its floor is never below the floor it came with nor the one
\* that rule stamps (Cache.For, Evaluate, applyPolicy).
PolicyIsOwn ==
  \A c \in Callers : caller[c].pc = "done" =>
    LET call == caller[c].call
        o == caller[c].outcome
    IN  IF Raw(c) = <<>> THEN o.allowed /\ o.floor = call.floor
        ELSE /\ o.allowed <=> Decodes(Raw(c)[1]) /\ ~Denying(Raw(c)[1], call)
             /\ o.allowed =>
                  /\ o.floor >= call.floor
                  /\ \A i \in DOMAIN Raw(c)[1].rules : Decides(Raw(c)[1], call, i) =>
                       /\ o.floor >= decodeTier(Raw(c)[1].rules[i].tier)
                       /\ o.deep = Raw(c)[1].rules[i].deep
=============================================================================
