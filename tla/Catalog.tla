------------------------------- MODULE Catalog -------------------------------
(***************************************************************************)
(* The configuration a request reads (dataplane/internal/core/snapshot.go, *)
(* catalog.go, budget.go, identity.go, ports.go): what a layer is built    *)
(* from, which specs are refused, how layers compose, and the lookups.     *)
(*                                                                         *)
(* A spec is a record of sequences, as the wire carries it; a layer holds  *)
(* the maps built from them.  Fields that are only carried (provider,      *)
(* endpoint, region, roles, ...) are one opaque field, `info'.  The empty  *)
(* string is the zero value of every name.                                 *)
(***************************************************************************)
EXTENDS Integers, Sequences, FiniteSets, Functions

\* TrustTier, ordered.
TrustUnset == 0
TrustExternal == 1
TrustPrivateCloud == 2
TrustInternal == 3
Valid(tier) == tier \in TrustExternal .. TrustInternal
AtLeast(tier, floor) == tier >= floor

RoutingKey(base, adapter) == [base |-> base, adapter |-> adapter]
IsAdapter(key) == key.adapter # ""
Serving(d) == d.weight > 0
Shadowing(d) == d.shadow > 0 /\ IsAdapter(d.key)

basisPointsPerUnit == 10000

\* BudgetState.Available: what is left before the headroom band begins.
Available(b) ==
  LET reserved == (b.limit * b.headroom) \div basisPointsPerUnit
      remaining == b.limit - reserved - b.spent
  IN  IF remaining < 0 THEN 0 ELSE remaining
Denies(b) == b.hard /\ Available(b) = 0

\* GuardrailBinding.Inspects: without phases, the request leg.
Inspects(g, during) ==
  IF g.phases = <<>> THEN during = "request" ELSE during \in Range(g.phases)

\* A map filled in order, a later entry over an earlier one; and one of lists.
MapOf(entries, field) ==
  [k \in {e[field] : e \in Range(entries)} |->
     LET those == SelectSeq(entries, LAMBDA e : e[field] = k) IN those[Len(those)]]
GroupsOf(entries, field) ==
  [k \in {e[field] : e \in Range(entries)} |->
     SelectSeq(entries, LAMBDA e : e[field] = k)]
Distinct(entries, field) ==
  \A i, j \in DOMAIN entries : entries[i][field] = entries[j][field] => i = j

\* The shadowing adapters of each base model.
ShadowsOf(deployments) ==
  LET shadowing == SelectSeq(deployments, Shadowing)
  IN  [base \in {d.key.base : d \in Range(shadowing)} |->
         SelectSeq(shadowing, LAMBDA d : d.key.base = base)]

-----------------------------------------------------------------------------
(* Building.  Where the code returns an error, so does the model. *)

Rejected == [ok |-> FALSE]

ValidDeployment(d) ==
  /\ d.id # "" /\ d.key.base # ""
  /\ Valid(d.tier)
  /\ d.weight <= 100 /\ d.shadow <= 100
  /\ d.shadow > 0 => IsAdapter(d.key)

validateAlias(a, routes) ==
  a.name # "" /\ a.targets # <<>> /\ Range(a.targets) \subseteq routes

NewGlobalLayer(ls) ==
  LET byRoute == GroupsOf(ls.deployments, "key")
  IN  IF /\ ls.version.number # 0
         /\ \A d \in Range(ls.deployments) : ValidDeployment(d)
         /\ Distinct(ls.deployments, "id")
         /\ \A a \in Range(ls.aliases) : validateAlias(a, DOMAIN byRoute)
         /\ Distinct(ls.plugins, "port")
      THEN [ok |-> TRUE, version |-> ls.version,
            deployments |-> MapOf(ls.deployments, "id"),
            byRoute |-> byRoute,
            shadows |-> ShadowsOf(ls.deployments),
            aliases |-> MapOf(ls.aliases, "name"),
            prefixes |-> ls.prefixes,
            plugins |-> MapOf(ls.plugins, "port"),
            guardrails |-> ls.guardrails, policy |-> ls.policy]
      ELSE Rejected

\* Mutant of ValidPrincipal: a budget the layer does not carry is let through.
PrincipalUnfunded(p, ls) == p.key # "" /\ p.tenant = ls.tenant

ValidPrincipal(p, ls) ==
  /\ p.key # ""
  /\ p.tenant = ls.tenant
  /\ \A ref \in Range(p.budgets) : \E b \in Range(ls.budgets) : b.id = ref

ValidBudget(b) == b.id # "" /\ b.headroom <= basisPointsPerUnit

NewTenantLayer(ls) ==
  IF /\ ls.tenant # "" /\ ls.version.number # 0
     /\ \A b \in Range(ls.budgets) : ValidBudget(b)
     /\ \A p \in Range(ls.principals) : ValidPrincipal(p, ls)
     /\ \A l \in DOMAIN ls.keys : \E p \in Range(ls.principals) : p.key = ls.keys[l]
     /\ \A a \in Range(ls.aliases) : a.name # "" /\ a.targets # <<>>
     /\ Distinct(ls.plugins, "port")
  THEN [ok |-> TRUE, tenant |-> ls.tenant, version |-> ls.version, tier |-> ls.tier,
        floor |-> ls.floor,
        principals |-> MapOf(ls.principals, "key"), keys |-> ls.keys,
        aliases |-> MapOf(ls.aliases, "name"), budgets |-> MapOf(ls.budgets, "id"),
        plugins |-> MapOf(ls.plugins, "port"),
        guardrails |-> ls.guardrails, policy |-> ls.policy]
  ELSE Rejected

Compose(global, layers) ==
  IF /\ global.ok
     /\ \A i \in DOMAIN layers : layers[i].ok
     /\ Distinct(layers, "tenant")
     /\ \A i \in DOMAIN layers : \E p \in DOMAIN global.prefixes :
          global.prefixes[p] = layers[i].tenant
  THEN [ok |-> TRUE, global |-> global, tenants |-> MapOf(layers, "tenant")]
  ELSE Rejected

-----------------------------------------------------------------------------
(* Lookups.  `Absent' is the (zero, false) of a Go map lookup. *)

Absent == [absent |-> TRUE]
Get(map, k) == IF k \in DOMAIN map THEN map[k] ELSE Absent
HasLayer(s, tenant) == tenant \in DOMAIN s.tenants

TenantForPrefix(s, prefix) ==
  IF prefix \in DOMAIN s.global.prefixes THEN s.global.prefixes[prefix] ELSE ""

PrincipalOf(s, tenant, lookup) ==
  IF HasLayer(s, tenant) /\ lookup \in DOMAIN s.tenants[tenant].keys
  THEN Get(s.tenants[tenant].principals, s.tenants[tenant].keys[lookup])
  ELSE Absent

MinTrustTier(s, tenant) ==
  IF HasLayer(s, tenant) THEN s.tenants[tenant].floor ELSE TrustInternal

ResolveAlias(s, tenant, name) ==
  IF HasLayer(s, tenant) /\ name \in DOMAIN s.tenants[tenant].aliases
  THEN s.tenants[tenant].aliases[name].targets
  ELSE IF name \in DOMAIN s.global.aliases THEN s.global.aliases[name].targets
  ELSE <<RoutingKey(name, "")>>

Deployments(s, key) == IF key \in DOMAIN s.global.byRoute THEN s.global.byRoute[key] ELSE <<>>
Shadows(s, base) == IF base \in DOMAIN s.global.shadows THEN s.global.shadows[base] ELSE <<>>

\* A tenant's guardrails or policy are in place of the defaults, not besides.
Guardrails(s, tenant, during) ==
  SelectSeq(IF HasLayer(s, tenant) /\ s.tenants[tenant].guardrails # <<>>
            THEN s.tenants[tenant].guardrails ELSE s.global.guardrails,
            LAMBDA g : Inspects(g, during))

AllGuardrails(s) ==
  Range(s.global.guardrails) \cup UNION {Range(s.tenants[t].guardrails) : t \in DOMAIN s.tenants}

PolicyOf(s, tenant) ==
  IF HasLayer(s, tenant) /\ s.tenants[tenant].policy # <<>>
  THEN s.tenants[tenant].policy ELSE s.global.policy

Budget(s, tenant, id) == IF HasLayer(s, tenant) THEN Get(s.tenants[tenant].budgets, id) ELSE Absent

\* DeniedBudget: the first of the chain that denies.
DeniedBudget(s, p) ==
  LET denying == SelectSeq(p.budgets, LAMBDA id :
                   Budget(s, p.tenant, id) # Absent /\ Denies(Budget(s, p.tenant, id)))
  IN  IF denying = <<>> THEN Absent ELSE Budget(s, p.tenant, Head(denying))

Permits(models, name) == models.all \/ name \in Range(models.names)

\* Principal.Validate at a time; a zero NotAfter never expires.
ValidAt(p, time) == p.notAfter = 0 \/ time <= p.notAfter

\* Pipeline.authenticate, and the checks of Pipeline.admit and Pipeline.route that
\* the snapshot alone answers.
authenticate(s, prefix, lookup, time) ==
  LET p == PrincipalOf(s, TenantForPrefix(s, prefix), lookup)
  IN  IF p # Absent /\ ValidAt(p, time) THEN p ELSE Absent
Admits(s, p, model) == Permits(p.models, model) /\ DeniedBudget(s, p) = Absent
RouteFloor(s, p) ==
  LET floor == MinTrustTier(s, p.tenant)
  IN  IF AtLeast(p.floor, floor) THEN p.floor ELSE floor
=============================================================================
