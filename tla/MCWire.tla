-------------------------------- MODULE MCWire --------------------------------
(***************************************************************************)
(* A small instance of Wire: one good configuration, variants of it with   *)
(* one thing different, valid or not, and messages with one field altered. *)
(***************************************************************************)
EXTENDS Wire

V(n) == [number |-> n, digest |-> <<>>]
Model == RoutingKey("m1", "")
Adapter == RoutingKey("m1", "a")

D1 == [id |-> "d1", key |-> Model, tier |-> TrustExternal, weight |-> 100,
       shadow |-> 0, info |-> 0]
D2 == [id |-> "d2", key |-> Adapter, tier |-> TrustInternal, weight |-> 0,
       shadow |-> 10, info |-> 1]
G1 == [component |-> "g1", timeout |-> 1000, mode |-> "open", blocking |-> TRUE,
       phases |-> <<>>, info |-> 0]
G2 == [component |-> "g2", timeout |-> 2000, mode |-> "closed", blocking |-> TRUE,
       phases |-> <<"response">>, info |-> 0]
Alias(name, targets) == [name |-> name, targets |-> targets]
Plugin(port, component) == [port |-> port, component |-> component]
Bundle(id, rules) == [id |-> id, rules |-> rules]

Global ==
  [version |-> V(1), deployments |-> <<D1, D2>>, aliases |-> <<Alias("fast", <<Model>>)>>,
   prefixes |-> [p1 |-> "t1"], plugins |-> <<Plugin("provider", "x")>>,
   guardrails |-> <<G1>>, policy |-> <<Bundle("b", <<>>)>>]

P1 == [key |-> "k1", tenant |-> "t1", models |-> [all |-> TRUE, names |-> <<>>],
       budgets |-> <<"b1", "b2">>, floor |-> TrustUnset,
       limits |-> [requests |-> 5, concurrent |-> 2], notAfter |-> 0, info |-> 0]
B1 == [id |-> "b1", scope |-> "key", limit |-> 1000, spent |-> 0, hard |-> TRUE,
       headroom |-> 500]
B2 == [id |-> "b2", scope |-> "org", limit |-> 1000, spent |-> 950, hard |-> TRUE,
       headroom |-> 500]
T1 ==
  [tenant |-> "t1", version |-> V(1), tier |-> "gold", floor |-> TrustExternal,
   principals |-> <<P1>>, keys |-> [l1 |-> "k1"], aliases |-> <<>>,
   budgets |-> <<B1, B2>>, plugins |-> <<>>, guardrails |-> <<G2>>, policy |-> <<>>]
T2 == [T1 EXCEPT !.tenant = "t2", !.principals = <<[P1 EXCEPT !.tenant = "t2"]>>]

Globals ==
  {Global}
  \cup {[Global EXCEPT !.deployments[1] = d] : d \in
         {[D1 EXCEPT !.weight = 101], [D1 EXCEPT !.weight = 0], [D1 EXCEPT !.shadow = 1],
          [D1 EXCEPT !.tier = TrustUnset], [D1 EXCEPT !.key = Adapter],
          [D1 EXCEPT !.key = RoutingKey("", "")], [D1 EXCEPT !.id = "d2"],
          [D1 EXCEPT !.id = ""]}}
  \cup {[Global EXCEPT !.deployments[2] = d] : d \in
         {[D2 EXCEPT !.shadow = 101], [D2 EXCEPT !.shadow = 0], [D2 EXCEPT !.weight = 50]}}
  \cup {[Global EXCEPT !.aliases = a] : a \in
         {<<>>, <<Alias("", <<Model>>)>>, <<Alias("fast", <<>>)>>,
          <<Alias("fast", <<Model>>), Alias("fast", <<Adapter, Model>>)>>}}
  \cup {[Global EXCEPT !.prefixes = p] : p \in
         {[p1 |-> "t2"], [p1 |-> "t1", p2 |-> "t2"], [p1 |-> "t2", p2 |-> "t1"]}}
  \cup {[Global EXCEPT !.plugins = p] : p \in
         {<<>>, <<Plugin("provider", "x"), Plugin("store", "y")>>,
          <<Plugin("provider", "x"), Plugin("provider", "y")>>}}
  \cup {[Global EXCEPT !.version = V(0)], [Global EXCEPT !.policy = <<>>],
        [Global EXCEPT !.policy = <<Bundle("", <<>>)>>]}

Tenants ==
  {T1}
  \cup {[T1 EXCEPT !.principals = p] : p \in
         {<<>>, <<P1, [P1 EXCEPT !.floor = TrustInternal]>>,
          <<[P1 EXCEPT !.limits.concurrent = 0]>>, <<[P1 EXCEPT !.notAfter = 7]>>,
          <<[P1 EXCEPT !.budgets = <<"b2", "b1">>]>>, <<[P1 EXCEPT !.budgets = <<"b3">>]>>,
          <<[P1 EXCEPT !.key = ""]>>}}
  \cup {[T1 EXCEPT !.keys = k] : k \in {[l1 |-> "k1", l2 |-> "k1"], [l2 |-> "k2"]}}
  \cup {[T1 EXCEPT !.budgets = b] : b \in
         {<<B1>>, <<B1, B2, [B1 EXCEPT !.spent = 1000]>>, <<B1, [B2 EXCEPT !.hard = FALSE]>>,
          <<[B1 EXCEPT !.headroom = 10000], B2>>, <<[B1 EXCEPT !.headroom = 10001], B2>>,
          <<[B1 EXCEPT !.id = ""]>>}}
  \cup {[T1 EXCEPT !.guardrails = g] : g \in
         {<<>>, <<G1, G2>>, <<[G1 EXCEPT !.timeout = 999]>>, <<[G1 EXCEPT !.timeout = 7000]>>,
          <<[G1 EXCEPT !.timeout = 2500, !.phases = <<"request", "response">>]>>}}
  \cup {[T1 EXCEPT !.aliases = a] : a \in {<<Alias("fast", <<Adapter>>)>>, <<Alias("x", <<>>)>>}}
  \cup {[T1 EXCEPT !.tenant = ""], [T1 EXCEPT !.tenant = "t2"], [T1 EXCEPT !.version = V(0)],
        [T1 EXCEPT !.floor = TrustUnset], [T1 EXCEPT !.policy = <<Bundle("t", <<"r">>)>>]}

MCSpecs == {[global |-> g, tenants |-> ts] :
              g \in Globals, ts \in {<<t>> : t \in Tenants} \cup {<<>>, <<T1, T1>>, <<T1, T2>>}}

\* A tenant layer with one field altered; "?" is a value this build does not know.
AlteredTenant(t) ==
  {[t EXCEPT !.floor = "?"], [t EXCEPT !.tenant = "t2"], [t EXCEPT !.budgets = Tail(@)],
   [t EXCEPT !.version.number = 2]}
  \cup UNION {{[t EXCEPT !.guardrails[i].mode = "?"],
               [t EXCEPT !.guardrails[i].phases = <<"?">>]} : i \in DOMAIN t.guardrails}
  \cup UNION {{[t EXCEPT !.keys[i].length = 31],
               [t EXCEPT !.keys = Append(@, [t.keys[i] EXCEPT !.key = "k9"])]} : i \in DOMAIN t.keys}
  \cup UNION {{[t EXCEPT !.principals[i].limits.concurrent = 0],
               [t EXCEPT !.principals[i].tenant = "t2"]} : i \in DOMAIN t.principals}

MCAltered(m) ==
  {[m EXCEPT !.global.deployments[1].tier = "?"], [m EXCEPT !.global.prefixes = [p2 |-> "t2"]]}
  \cup {[m EXCEPT !.global.plugins[i].port = "?"] : i \in DOMAIN m.global.plugins}
  \cup UNION {{[m EXCEPT !.tenants[i] = t] : t \in AlteredTenant(m.tenants[i])} :
                i \in DOMAIN m.tenants \cap {1}}

WireSpec == WireInit /\ [][WireNext]_wireVars
=============================================================================
