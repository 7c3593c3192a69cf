-------------------------------- MODULE Wire --------------------------------
(***************************************************************************)
(* A snapshot on its way to a worker: encoded and sealed                   *)
(* (dataplane/internal/wire/convert.go, codec.go), delivered intact,       *)
(* damaged or by a control plane newer or older than the worker, and       *)
(* verified, decoded and composed (internal/snapshot/source.go).           *)
(*                                                                         *)
(* Enumerations are strings on the wire and numbers or other names in the  *)
(* core, "?" an enumerator this worker does not know.  A digest is <<>> or *)
(* <<c>>, c the content it was computed over: two contents have one digest *)
(* only when they are equal.                                               *)
(***************************************************************************)
EXTENDS Catalog, SequencesExt

CONSTANTS Specs,        \* what is published, a set of [global, tenants]
          Altered(_),   \* the messages a change away from a message
          MaxUint32     \* the largest timeout the wire carries

VARIABLES spec,         \* the spec published
          msg,          \* the message on its way
          snap,         \* the snapshot built from it, or Rejected
          phase         \* "published", "delivered" or "applied"

wireVars == <<spec, msg, snap, phase>>

-----------------------------------------------------------------------------
(* Leaf conversions *)

trustTiers == [EXTERNAL |-> TrustExternal, PRIVATE_CLOUD |-> TrustPrivateCloud,
               INTERNAL |-> TrustInternal]
ports == [PROVIDER |-> "provider", GUARDRAIL |-> "guardrail", STORE |-> "store",
          TELEMETRY |-> "telemetry"]
budgetScopes == [KEY |-> "key", APP |-> "app", USER |-> "user", TEAM |-> "team",
                 ORG |-> "org", MODEL |-> "model", TRAINING |-> "training"]

\* A table lookup, with the zero value for what is not in the table; and back.
Decoded(table, wire, zero) == IF wire \in DOMAIN table THEN table[wire] ELSE zero
Encoded(table, value) ==
  IF \E w \in DOMAIN table : table[w] = value
  THEN CHOOSE w \in DOMAIN table : table[w] = value ELSE "UNSPECIFIED"

decodeTrustTier(w) == Decoded(trustTiers, w, TrustUnset)
encodeTrustTier(t) == Encoded(trustTiers, t)

Each(entries, Op(_)) == [i \in DOMAIN entries |-> Op(entries[i])]

decodeDeployment(d) == [d EXCEPT !.tier = decodeTrustTier(@)]
encodeDeployment(d) == [d EXCEPT !.tier = encodeTrustTier(@)]
decodePlugin(p) == [p EXCEPT !.port = Decoded(ports, @, "")]
encodePlugin(p) == [p EXCEPT !.port = Encoded(ports, @)]
decodeBudget(b) == [b EXCEPT !.scope = Decoded(budgetScopes, @, "")]
encodeBudget(b) == [b EXCEPT !.scope = Encoded(budgetScopes, @)]

\* Timeouts are microseconds in the core and whole milliseconds on the wire, at
\* most MaxUint32 of them.
clampMillis(us) ==
  LET ms == us \div 1000 IN IF ms <= 0 THEN 0 ELSE IF ms > MaxUint32 THEN MaxUint32 ELSE ms

Mode(open) == IF open THEN "open" ELSE "closed"
decodeGuardrail(g) ==
  [g EXCEPT !.timeout = @ * 1000,
            !.mode = Mode(@ = "OPEN"),
            !.phases = Each(@, LAMBDA p : IF p = "response" THEN "response" ELSE "request")]
encodeGuardrail(g) ==
  [g EXCEPT !.timeout = clampMillis(@),
            !.mode = IF @ = "open" THEN "OPEN" ELSE "CLOSED"]

\* The superseded max_concurrent holds unless the nested one is set.
decodeLimits(p) ==
  [requests |-> p.limits.requests,
   concurrent |-> IF p.limits.concurrent > 0 THEN p.limits.concurrent ELSE p.maxConcurrent]

decodePrincipal(p) ==
  [key |-> p.key, tenant |-> p.tenant, models |-> p.models, budgets |-> p.budgets,
   floor |-> decodeTrustTier(p.floor), limits |-> decodeLimits(p), notAfter |-> p.notAfter,
   info |-> p.info]
encodePrincipal(p) ==
  [key |-> p.key, tenant |-> p.tenant, models |-> p.models, budgets |-> p.budgets,
   floor |-> encodeTrustTier(p.floor), limits |-> p.limits,
   maxConcurrent |-> p.limits.concurrent, notAfter |-> p.notAfter, info |-> p.info]

\* A bundle is <<>> (absent) or <<b>>; one with neither rules nor an id is absent.
marshalPolicy(bundle) ==
  IF bundle = <<>> THEN <<>>
  ELSE IF bundle[1].rules = <<>> /\ bundle[1].id = "" THEN <<>> ELSE bundle
unmarshalPolicy(raw) == raw

-----------------------------------------------------------------------------
(* Layers and snapshots *)

DecodeGlobal(m) ==
  [m EXCEPT !.deployments = Each(@, decodeDeployment), !.plugins = Each(@, decodePlugin),
            !.guardrails = Each(@, decodeGuardrail), !.policy = marshalPolicy(@)]
\* What the publisher puts on the wire.  In production that is the control plane's
\* builder, which fills and seals the same messages; the encoder here is the one
\* the worker's own tests, fixtures and load harness use.
EncodeGlobal(s) ==
  [s EXCEPT !.deployments = Each(@, encodeDeployment), !.plugins = Each(@, encodePlugin),
            !.guardrails = Each(@, encodeGuardrail), !.policy = unmarshalPolicy(@)]

\* Keys are a list of entries on the wire; a lookup of the wrong length is
\* dropped, and of two entries with one lookup the later one counts.
DecodeKeys(entries) ==
  LET good == SelectSeq(entries, LAMBDA e : e.length = 32)
      last == MapOf(good, "lookup")
  IN  [l \in DOMAIN last |-> last[l].key]

DecodeTenant(m) ==
  [m EXCEPT !.floor = decodeTrustTier(@), !.principals = Each(@, decodePrincipal),
            !.keys = DecodeKeys(@), !.budgets = Each(@, decodeBudget),
            !.plugins = Each(@, decodePlugin), !.guardrails = Each(@, decodeGuardrail),
            !.policy = marshalPolicy(@)]
EncodeTenant(s) ==
  [s EXCEPT !.floor = encodeTrustTier(@), !.principals = Each(@, encodePrincipal),
            !.keys = SetToSeq({[lookup |-> l, length |-> 32, key |-> s.keys[l]] : l \in DOMAIN @}),
            !.budgets = Each(@, encodeBudget), !.plugins = Each(@, encodePlugin),
            !.guardrails = Each(@, encodeGuardrail), !.policy = unmarshalPolicy(@)]

\* DigestGlobal and DigestTenant: over the layer with its digest cleared.
Digest(layer) == <<[layer EXCEPT !.version.digest = <<>>]>>
Seal(layer) == [layer EXCEPT !.version.digest = Digest(layer)]

\* VerifyGlobal and VerifyTenant: an unstamped layer passes.
Verify(layer) == layer.version.digest \in {<<>>, Digest(layer)}

DecodeSnapshot(m) ==
  Compose(NewGlobalLayer(DecodeGlobal(m.global)),
          Each(m.tenants, LAMBDA t : NewTenantLayer(DecodeTenant(t))))

\* Mutant of decodeAndVerify: only the layer whose digest it returns is verified.
DecodeGlobalVerified(m) == IF Verify(m.global) THEN DecodeSnapshot(m) ELSE Rejected

decodeAndVerify(m) ==
  IF Verify(m.global) /\ \A i \in DOMAIN m.tenants : Verify(m.tenants[i])
  THEN DecodeSnapshot(m) ELSE Rejected

-----------------------------------------------------------------------------
Sealed(s) == [global |-> Seal(EncodeGlobal(s.global)),
              tenants |-> Each(s.tenants, LAMBDA t : Seal(EncodeTenant(t)))]

WireInit ==
  /\ spec \in Specs
  /\ msg = Sealed(spec)
  /\ snap = Rejected
  /\ phase = "published"

Resealed(m) == [global |-> Seal(m.global), tenants |-> Each(m.tenants, Seal)]
Clear(layer) == [layer EXCEPT !.version.digest = <<>>]
Unstamped(m) == [global |-> Clear(m.global), tenants |-> Each(m.tenants, Clear)]

\* The message arrives as it was sealed or damaged; or it was written otherwise
\* to begin with, by a control plane of another version, and sealed or not.
Deliver ==
  /\ phase = "published"
  /\ phase' = "delivered"
  /\ \E m \in {msg} \cup Altered(msg) : msg' \in {m, Resealed(m), Unstamped(m)}
  /\ UNCHANGED <<spec, snap>>

\* FileSource.Fetch, or HTTPSource.Fetch of a new snapshot.
Apply ==
  /\ phase = "delivered"
  /\ snap' = decodeAndVerify(msg)
  /\ phase' = "applied"
  /\ UNCHANGED <<spec, msg>>

WireNext == Deliver \/ Apply

-----------------------------------------------------------------------------
(* Properties *)

\* The snapshot the spec describes: the wire keeps whole milliseconds, and no
\* bundle that has neither rules nor an id.
Carried(s) ==
  [s EXCEPT !.guardrails = Each(@, LAMBDA g :
              [g EXCEPT !.timeout = IF @ > MaxUint32 * 1000 THEN MaxUint32 * 1000
                                                            ELSE @ - (@ % 1000)]),
            !.policy = SelectSeq(@, LAMBDA b : b.rules # <<>> \/ b.id # "")]
Described ==
  Compose(NewGlobalLayer(Carried(spec.global)),
          Each(spec.tenants, LAMBDA t : NewTenantLayer(Carried(t))))

\* A snapshot without the digests it came with.
Content(s) ==
  IF s.ok THEN [s EXCEPT !.global = Clear(@), !.tenants = [t \in DOMAIN @ |-> Clear(@[t])]]
  ELSE s

Stamps(m) == <<m.global.version.digest, Each(m.tenants, LAMBDA t : t.version.digest)>>

\* What a worker serves is what was published: a message that arrives as it was
\* sealed gives exactly the snapshot its specs describe, every key, limit, alias,
\* budget, guardrail and policy of it, or is refused when core refuses them; and
\* one damaged in any layer behind unchanged digests is refused (EncodeGlobal,
\* EncodeTenant, Seal*, decodeAndVerify).
ServedAsPublished ==
  phase = "applied" /\ Stamps(msg) = Stamps(Sealed(spec)) =>
    IF msg = Sealed(spec) THEN Content(snap) = Content(Described) ELSE ~snap.ok

\* A caller with a key of tenant t, at a time: what authenticate gives it is t's
\* own, funded by budgets that are there, none of which denies when admit lets it
\* pass, and never routed below the tenant's floor.
CallerIsSound(t, p) ==
  /\ p.tenant = t
  /\ \A id \in ToSet(p.budgets) : Budget(snap, t, id) # Absent
  /\ \A model \in ToSet(p.models.names) \cup {"m1"} : Admits(snap, p, model) =>
       ~\E id \in ToSet(p.budgets) : Denies(Budget(snap, t, id))
  /\ AtLeast(RouteFloor(snap, p), snap.tenants[t].floor)

\* Whatever a control plane sends, the snapshot a worker takes is coherent: every
\* layer is in some key's reach; a key authenticates, at any time, as a sound
\* caller of the tenant its prefix names or not at all; an alias of the catalog
\* leads to deployments, each of a tier the router can compare and none shadowing
\* that is not an adapter of the model asked for; the registry is told to load
\* every guardrail a tenant's requests run; and a guardrail is advisory only where
\* the message says so (NewGlobalLayer, NewTenantLayer, Compose, decodeGuardrail,
\* authenticate).
AcceptedIsSound ==
  phase = "applied" /\ snap.ok =>
    /\ \A t \in DOMAIN snap.tenants :
         /\ \E prefix \in DOMAIN snap.global.prefixes : TenantForPrefix(snap, prefix) = t
         /\ \A l \in DOMAIN snap.tenants[t].keys : PrincipalOf(snap, t, l) # Absent
         /\ \A during \in {"request", "response"} :
              ToSet(Guardrails(snap, t, during)) \subseteq AllGuardrails(snap)
    /\ \A prefix \in DOMAIN snap.global.prefixes, t \in DOMAIN snap.tenants :
         \A l \in DOMAIN snap.tenants[t].keys, time \in {0, 8} :
           LET p == authenticate(snap, prefix, l, time)
           IN  p # Absent => CallerIsSound(TenantForPrefix(snap, prefix), p)
    /\ \A a \in DOMAIN snap.global.aliases : \A key \in ToSet(ResolveAlias(snap, "", a)) :
         /\ Deployments(snap, key) # <<>>
         /\ \A d \in ToSet(Deployments(snap, key)) :
              Valid(d.tier) /\ snap.global.deployments[d.id] = d
         /\ \A d \in ToSet(Shadows(snap, key.base)) : IsAdapter(d.key) /\ d.key.base = key.base
    /\ \A g \in AllGuardrails(snap) : g.mode = "open" =>
         \E w \in UNION {ToSet(m.guardrails) : m \in {msg.global} \cup ToSet(msg.tenants)} :
           w.mode = "OPEN" /\ w.component = g.component

\* "A tier added by a newer control plane must fail the layer rather than default
\* to something permissive" (decodeTrustTier).
UnknownTierFails ==
  phase = "applied" /\ snap.ok =>
    /\ \A d \in ToSet(msg.global.deployments) : d.tier # "?"
    /\ \A t \in ToSet(msg.tenants) : t.floor # "?" /\ \A p \in ToSet(t.principals) : p.floor # "?"
=============================================================================
