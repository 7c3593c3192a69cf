-------------------------- MODULE RequestPathProofs -------------------------
(***************************************************************************)
(* What a request meets on a worker besides the pipeline itself and the    *)
(* rate limits: policy, credentials and the provider's stream.  The parts  *)
(* share no state, and each has an inductive invariant of its own.         *)
(***************************************************************************)
EXTENDS PolicyEngine, Secrets, ProviderStream, NaturalsInduction, WellFoundedInduction,
        TLAPS

(***************************************************************************)
(* Policy, for any requests and any history of snapshots in which a digest *)
(* names one build.                                                        *)
(*                                                                         *)
(* The invariant ties every bundle that is not where it was published, in  *)
(* the shared cache or in a request's hands, to a snapshot: the cache's to *)
(* one with the cache's digest, a request's to the one it holds.  A hit is *)
(* sound because those two are then the same snapshot.  What evaluating a  *)
(* decoded bundle says is a lemma about the operators alone.               *)
(***************************************************************************)

\* A set of naturals that is not empty has a least element.
LEMMA NatMin ==
  ASSUME NEW T \in SUBSET Nat, T # {}
  PROVE  \E x \in T : \A y \in T : x <= y
<1> DEFINE R == OpToRel(<, Nat)
<1>1. \A x, y \in Nat : <<y, x>> \in R <=> y < x
  BY Zenon DEF OpToRel
<1>2. IsWellFoundedOn(R, Nat)
  BY NatLessThanWellFounded, Zenon
<1> HIDE DEF R
<1>3. PICK x \in T : \A y \in T : ~(<<y, x>> \in R)
  BY <1>2, WFMin, Zenon
<1>4. ASSUME NEW y \in T PROVE x <= y
  <2>1. x \in Nat /\ y \in Nat
    BY Zenon
  <2>2. ~(y < x)
    BY <1>1, <1>3, <2>1, Zenon
  <2> QED
    BY <2>1, <2>2
<1> QED
  BY <1>4, Zenon

\* Min, as the model takes it, is that element.
LEMMA FirstHit ==
  ASSUME NEW T \in SUBSET Nat, T # {}
  PROVE  Min(T) \in T /\ \A y \in T : Min(T) <= y
BY NatMin, Zenon DEF Min

\* What decoding keeps of a rule.
LEMMA DecodedRule ==
  \A r : LET d == decodeRule(r)
         IN  /\ \A in : matches(d, in) <=> matches(r, in)
             /\ d.effect = "deny" <=> r.effect = "DENY"
             /\ d.tier = decodeTier(r.tier) /\ d.tier \in Nat /\ d.deep = r.deep
<1> SUFFICES ASSUME NEW r
             PROVE  LET d == decodeRule(r)
                    IN  /\ \A in : matches(d, in) <=> matches(r, in)
                        /\ d.effect = "deny" <=> r.effect = "DENY"
                        /\ d.tier = decodeTier(r.tier) /\ d.tier \in Nat /\ d.deep = r.deep
  BY Zenon
<1> DEFINE d == decodeRule(r)
<1>1. /\ d.models = r.models /\ d.endpoints = r.endpoints /\ d.regions = r.regions
      /\ d.maxPayload = r.maxPayload /\ d.roles = r.roles /\ d.nets = r.nets
      /\ d.effect = decodeEffect(r.effect) /\ d.tier = decodeTier(r.tier)
      /\ d.deep = r.deep
  BY Zenon DEF decodeRule
<1> HIDE DEF d
<1>2. \A in : matches(d, in) <=> matches(r, in)
  BY <1>1 DEF matches
<1>3. decodeEffect(r.effect) = "deny" <=> r.effect = "DENY"
  BY Zenon DEF decodeEffect
<1>4. decodeTier(r.tier) \in Nat
  BY Zenon DEF decodeTier, TrustExternal, TrustPrivateCloud, TrustInternal, TrustUnset
<1>5. /\ \A in : matches(d, in) <=> matches(r, in)
      /\ d.effect = "deny" <=> r.effect = "DENY"
      /\ d.tier = decodeTier(r.tier) /\ d.tier \in Nat /\ d.deep = r.deep
  BY <1>1, <1>2, <1>3, <1>4, Zenon
<1> QED
  BY <1>5, Zenon DEF d

\* Evaluate on the decoded bundle is first match on the published one.
LEMMA EvaluateDecides ==
  ASSUME NEW b, IsSeq(b.rules), NEW in
  PROVE  LET d == Evaluate(Decode(b), in)
         IN  /\ d.allowed \in BOOLEAN
             /\ d.allowed <=> ~Denying(b, in)
             /\ d.tier \in Nat
             /\ d.allowed => \A i \in DOMAIN b.rules : Decides(b, in, i) =>
                  d.tier = decodeTier(b.rules[i].tier) /\ d.deep = b.rules[i].deep
<1> DEFINE B == Decode(b)
           hits == {i \in DOMAIN B.rules : matches(B.rules[i], in)}
           d == Evaluate(B, in)
<1>1. /\ B.default = decodeEffect(b.default)
      /\ DOMAIN B.rules = DOMAIN b.rules
      /\ \A i \in DOMAIN b.rules : B.rules[i] = decodeRule(b.rules[i])
  BY Zenon DEF Decode
<1>2. d = IF hits = {} THEN Decision(B.default # "deny", NoClass, TrustUnset, FALSE)
          ELSE IF B.rules[Min(hits)].effect = "deny"
          THEN Decision(FALSE, NoClass, TrustUnset, FALSE)
          ELSE Decision(TRUE, B.rules[Min(hits)].class, B.rules[Min(hits)].tier,
                        B.rules[Min(hits)].deep)
  BY Zenon DEF Evaluate
<1> HIDE DEF B, d
<1>3. /\ hits \in SUBSET DOMAIN b.rules
      /\ \A i \in DOMAIN b.rules : i \in hits <=> matches(b.rules[i], in)
  BY <1>1, DecodedRule
<1>4. DOMAIN b.rules = 1 .. Len(b.rules) /\ Len(b.rules) \in Nat
  BY Zenon DEF IsSeq
<1> HIDE DEF hits
<1>6. CASE hits = {}
  <2>1. \A i \in DOMAIN b.rules : ~Decides(b, in, i)
    BY <1>3, <1>6, Zenon DEF Decides
  <2>2. d.allowed = (B.default # "deny") /\ d.tier = TrustUnset
    BY <1>2, <1>6, Zenon DEF Decision
  <2>3. B.default = "deny" <=> b.default = "DENY"
    BY <1>1, Zenon DEF decodeEffect
  <2>4. Denying(b, in) <=> b.default = "DENY"
    BY <2>1, Zenon DEF Denying
  <2>5. d.allowed \in BOOLEAN /\ (d.allowed <=> ~Denying(b, in)) /\ d.tier \in Nat
    <3>1. d.allowed \in BOOLEAN /\ (d.allowed <=> ~Denying(b, in))
      BY <2>2, <2>3, <2>4, Zenon
    <3>2. d.tier \in Nat
      BY <2>2 DEF TrustUnset
    <3> QED
      BY <3>1, <3>2, Zenon
  <2> QED
    BY <2>1, <2>5, Zenon DEF d, B
<1>7. CASE hits # {}
  <2> DEFINE m == Min(hits)
             r == b.rules[m]
  <2>1. m \in hits /\ \A y \in hits : m <= y
    BY <1>3, <1>4, <1>7, FirstHit
  <2> HIDE DEF m
  <2>2. m \in DOMAIN b.rules /\ m \in Nat
    BY <1>3, <1>4, <2>1
  <2>3. Decides(b, in, m)
    BY <1>3, <1>4, <2>1, <2>2, SMTT(30) DEF Decides
  <2>4. ASSUME NEW i \in DOMAIN b.rules, Decides(b, in, i) PROVE i = m
    <3>1. i \in hits /\ m <= i /\ i \in Nat
      BY <1>3, <1>4, <2>1, <2>4 DEF Decides
    <3>2. ~(m < i)
      BY <1>3, <1>4, <2>1, <2>2, <2>4, <3>1 DEF Decides
    <3> QED
      BY <2>2, <3>1, <3>2
  <2>5. B.rules[m] = decodeRule(r)
    BY <1>1, <2>2, Zenon
  <2>6. d = IF decodeRule(r).effect = "deny" THEN Decision(FALSE, NoClass, TrustUnset, FALSE)
            ELSE Decision(TRUE, decodeRule(r).class, decodeRule(r).tier, decodeRule(r).deep)
    BY <1>2, <1>7, <2>5, Zenon DEF m
  <2>7. Denying(b, in) <=> r.effect = "DENY"
    BY <2>2, <2>3, <2>4, Zenon DEF Denying
  <2> HIDE DEF r
  <2>8. CASE r.effect = "DENY"
    <3>1. d = Decision(FALSE, NoClass, TrustUnset, FALSE)
      BY <2>6, <2>8, DecodedRule, Zenon
    <3>2. d.allowed = FALSE /\ d.tier = TrustUnset
      BY <3>1, Zenon DEF Decision
    <3>3. TrustUnset \in Nat
      BY Zenon DEF TrustUnset
    <3> QED
      BY <2>7, <2>8, <3>2, <3>3, Zenon DEF d, B
  <2>9. CASE r.effect # "DENY"
    <3>1. d = Decision(TRUE, decodeRule(r).class, decodeRule(r).tier, decodeRule(r).deep)
      BY <2>6, <2>9, DecodedRule, Zenon
    <3>a. d.allowed = TRUE /\ d.tier = decodeRule(r).tier /\ d.deep = decodeRule(r).deep
      BY <3>1, Zenon DEF Decision
    <3>2. d.allowed = TRUE /\ d.tier = decodeTier(r.tier) /\ d.deep = r.deep /\ d.tier \in Nat
      BY <3>a, DecodedRule, Zenon
    <3>3. d.allowed => \A i \in DOMAIN b.rules : Decides(b, in, i) =>
                  d.tier = decodeTier(b.rules[i].tier) /\ d.deep = b.rules[i].deep
      BY <2>4, <3>2, Zenon DEF r
    <3> QED
      BY <2>7, <2>9, <3>2, <3>3, Zenon DEF d, B
  <2> QED
    BY <2>8, <2>9, Zenon
<1> QED
  BY <1>6, <1>7, Zenon

\* What the outcome o of a call owes the policy raw of its snapshot.
OutcomeOK(call, raw, o) ==
  IF raw = <<>> THEN o.allowed /\ o.floor = call.floor
  ELSE /\ o.allowed <=> Decodes(raw[1]) /\ ~Denying(raw[1], call)
       /\ o.allowed =>
            /\ o.floor >= call.floor
            /\ \A i \in DOMAIN raw[1].rules : Decides(raw[1], call, i) =>
                 /\ o.floor >= decodeTier(raw[1].rules[i].tier)
                 /\ o.deep = raw[1].rules[i].deep

RawOf(q) == PolicyOf(history[q.at], q.call.tenant)

CallerOK(q) ==
  /\ q.pc \in {"idle", "start", "decode", "store", "evaluate", "done"}
  /\ q.pc # "idle" => q.at \in DOMAIN history /\ q.call \in Calls
  /\ q.pc \notin {"idle", "done"} =>
       q = [pc |-> q.pc, at |-> q.at, call |-> q.call, bundle |-> q.bundle]
  /\ q.pc \in {"decode", "store", "evaluate"} => RawOf(q) # <<>>
  /\ q.pc \in {"store", "evaluate"} => Decodes(RawOf(q)[1]) /\ q.bundle = Decode(RawOf(q)[1])
  /\ q.pc = "done" => OutcomeOK(q.call, RawOf(q), q.outcome)

\* A cached bundle is the decoded policy of a snapshot with the cache's digest.
BundleOK(digest, t, bundle) ==
  \E i \in DOMAIN history :
    /\ history[i].global.version.digest = digest
    /\ PolicyOf(history[i], t) # <<>>
    /\ Decodes(PolicyOf(history[i], t)[1])
    /\ bundle = Decode(PolicyOf(history[i], t)[1])

PolicyInv ==
  /\ history \in Histories
  /\ current \in DOMAIN history
  /\ \A t \in DOMAIN cache.bundles : BundleOK(cache.digest, t, cache.bundles[t])
  /\ caller = [c \in Callers |-> caller[c]]
  /\ \A c \in Callers : CallerOK(caller[c])

\* A request steps, and the cache is as it was.
LEMMA CallerKept ==
  ASSUME PolicyInv, NEW c \in Callers, NEW q, CallerOK(q),
         caller' = [caller EXCEPT ![c] = q], UNCHANGED <<history, current, cache>>
  PROVE  PolicyInv'
<1>1. /\ caller' = [x \in Callers |-> caller'[x]]
      /\ \A x \in Callers : CallerOK(caller'[x])
  BY ZenonT(30) DEF PolicyInv
<1>2. \A x \in Callers : CallerOK(caller[x])'
  BY <1>1 DEF CallerOK, RawOf
<1> QED
  BY <1>1, <1>2, Zenon DEF PolicyInv, BundleOK

\* A request arrives with the snapshot it will be decided by.
LEMMA CallKept ==
  ASSUME PolicyInv, NEW c \in Callers, NEW call \in Calls, Call(c, call)
  PROVE  PolicyInv'
<1> DEFINE q == [pc |-> "start", at |-> current, call |-> call, bundle |-> <<>>]
<1>1. CallerOK(q)
  BY Zenon DEF CallerOK, PolicyInv
<1>2. caller' = [caller EXCEPT ![c] = q]
  BY Zenon DEF Call
<1> HIDE DEF q
<1> QED
  BY <1>1, <1>2, CallerKept, Zenon DEF Call

\* applyPolicy returns: the invariant asks only what the outcome owes the policy.
LEMMA OutcomeKept ==
  ASSUME PolicyInv, NEW c \in Callers, caller[c].pc # "idle", NEW o,
         OutcomeOK(caller[c].call, Raw(c), o), Outcome(c, o), UNCHANGED <<history, current, cache>>
  PROVE  PolicyInv'
<1> DEFINE q == [pc |-> "done", at |-> caller[c].at, call |-> caller[c].call,
                 bundle |-> <<>>, outcome |-> o]
<1>1. q.pc = "done" /\ q.at = caller[c].at /\ q.call = caller[c].call /\ q.outcome = o
  BY Zenon
<1>2. caller' = [caller EXCEPT ![c] = q]
  BY Zenon DEF Outcome
<1> HIDE DEF q
<1>3. RawOf(q) = Raw(c)
  BY <1>1, Zenon DEF RawOf, Raw, Held
<1>4. CallerOK(q)
  BY <1>1, <1>3, Zenon DEF CallerOK, PolicyInv
<1> QED
  BY <1>2, <1>4, CallerKept, Zenon

\* Applied lets the request go on, raising its floor.
LEMMA AppliedIs ==
  ASSUME NEW call, call.floor \in Nat, NEW d, d.tier \in Nat
  PROVE  /\ Applied(call, d).allowed = TRUE
         /\ Applied(call, d).floor \in Nat
         /\ Applied(call, d).floor >= call.floor /\ Applied(call, d).floor >= d.tier
         /\ d.tier = 0 => Applied(call, d).floor = call.floor
         /\ Applied(call, d).deep = d.deep
BY DEF Applied

\* A snapshot without a policy for the tenant decides nothing.
LEMMA NoPolicyKept ==
  ASSUME PolicyInv, NEW c \in Callers, NoPolicy(c)
  PROVE  PolicyInv'
<1> DEFINE d == Decision(TRUE, NoClass, TrustUnset, FALSE)
           o == Applied(caller[c].call, d)
<1>1. caller[c].call \in Calls /\ caller[c].pc # "idle" /\ Raw(c) = <<>>
  BY Zenon DEF PolicyInv, CallerOK, NoPolicy
<1>2. d.tier = 0
  BY Zenon DEF Decision, TrustUnset
<1> HIDE DEF d
<1>3. o.allowed = TRUE /\ o.floor = caller[c].call.floor
  <2>1. caller[c].call.floor \in Nat /\ d.tier \in Nat
    BY <1>1, <1>2, PolicyAssumption
  <2> QED
    BY <1>2, <2>1, AppliedIs, Zenon
<1>4. Outcome(c, o) /\ UNCHANGED <<history, current, cache>>
  BY Zenon DEF NoPolicy, d
<1> HIDE DEF o
<1>5. OutcomeOK(caller[c].call, Raw(c), o)
  BY <1>1, <1>3, Zenon DEF OutcomeOK
<1> QED
  BY <1>1, <1>4, <1>5, OutcomeKept, Zenon

\* A request moves on in applyPolicy, with a bundle.
MovesTo(q, v, place, bundle) ==
  v = [pc |-> place, at |-> q.at, call |-> q.call, bundle |-> bundle]

\* A request that moves on keeps the invariant if what it carries is the decoded
\* policy of its snapshot.
LEMMA MoveKept ==
  ASSUME PolicyInv, NEW c \in Callers, caller[c].pc # "idle",
         NEW place \in {"decode", "store", "evaluate"}, NEW bundle, NEW v,
         MovesTo(caller[c], v, place, bundle), caller' = [caller EXCEPT ![c] = v],
         RawOf(caller[c]) # <<>>,
         place # "decode" => /\ Decodes(RawOf(caller[c])[1])
                             /\ bundle = Decode(RawOf(caller[c])[1])
  PROVE  /\ CallerOK(v)
         /\ UNCHANGED <<history, current, cache>> => PolicyInv'
<1>1. /\ v.pc = place /\ v.at = caller[c].at /\ v.call = caller[c].call /\ v.bundle = bundle
      /\ v = [pc |-> v.pc, at |-> v.at, call |-> v.call, bundle |-> v.bundle]
  BY Zenon DEF MovesTo
<1>2. RawOf(v) = RawOf(caller[c])
  BY <1>1, Zenon DEF RawOf
<1>3. caller[c].at \in DOMAIN history /\ caller[c].call \in Calls
  BY Zenon DEF PolicyInv, CallerOK
<1>4. CallerOK(v)
  BY <1>1, <1>2, <1>3, Zenon DEF CallerOK
<1> QED
  BY <1>4, CallerKept, Zenon

\* The record of a request between its start and its outcome.
LEMMA Moves ==
  ASSUME NEW q, q = [pc |-> q.pc, at |-> q.at, call |-> q.call, bundle |-> q.bundle],
         NEW place, NEW bundle
  PROVE  /\ MovesTo(q, [q EXCEPT !.pc = place], place, q.bundle)
         /\ MovesTo(q, [q EXCEPT !.pc = place, !.bundle = bundle], place, bundle)
<1>1. DOMAIN q = {"pc", "at", "call", "bundle"}
  BY Zenon
<1>2. [q EXCEPT !.pc = place] = [pc |-> place, at |-> q.at, call |-> q.call, bundle |-> q.bundle]
  BY <1>1
<1>3. [q EXCEPT !.pc = place, !.bundle = bundle] =
        [pc |-> place, at |-> q.at, call |-> q.call, bundle |-> bundle]
  <2> DEFINE a == [q EXCEPT !.pc = place]
  <2>1. [q EXCEPT !.pc = place, !.bundle = bundle] = [a EXCEPT !.bundle = bundle]
    BY Zenon
  <2>2. /\ a = [pc |-> place, at |-> q.at, call |-> q.call, bundle |-> q.bundle]
        /\ DOMAIN a = {"pc", "at", "call", "bundle"}
    BY <1>2, Zenon
  <2> HIDE DEF a
  <2>3. [a EXCEPT !.bundle = bundle] =
          [pc |-> place, at |-> q.at, call |-> q.call, bundle |-> bundle]
    BY <2>2
  <2> QED
    BY <2>1, <2>3, Zenon
<1> QED
  BY <1>2, <1>3, Zenon DEF MovesTo

\* Cache.For: a hit serves the bundle cached under the request's own digest.
LEMMA LookUpKept ==
  ASSUME PolicyInv, NEW c \in Callers, LookUp(c)
  PROVE  PolicyInv'
<1> DEFINE q == caller[c]
           t == q.call.tenant
<1>0. /\ CallerOK(q) /\ q.pc = "start" /\ RawOf(q) # <<>>
      /\ q = [pc |-> q.pc, at |-> q.at, call |-> q.call, bundle |-> q.bundle]
      /\ UNCHANGED <<history, current, cache>>
  BY Zenon DEF PolicyInv, CallerOK, LookUp, Raw, RawOf, Held
<1>1. CASE Hit(c)
  <2> DEFINE bundle == cache.bundles[t]
             v == [q EXCEPT !.pc = "evaluate", !.bundle = bundle]
  <2>1. PICK i \in DOMAIN history :
          /\ history[i].global.version.digest = cache.digest
          /\ PolicyOf(history[i], t) # <<>>
          /\ Decodes(PolicyOf(history[i], t)[1])
          /\ bundle = Decode(PolicyOf(history[i], t)[1])
    BY <1>1, Zenon DEF PolicyInv, BundleOK, Hit
  <2>2. history[i] = history[q.at]
    <3>1. history \in Histories /\ q.at \in DOMAIN history
          /\ history[i].global.version.digest = history[q.at].global.version.digest
      BY <1>0, <1>1, <2>1, Zenon DEF PolicyInv, CallerOK, Hit, DigestOf, Held
    <3> QED
      BY <3>1, PolicyAssumption, Zenon
  <2>3. Decodes(RawOf(q)[1]) /\ bundle = Decode(RawOf(q)[1])
    BY <2>1, <2>2, Zenon DEF RawOf
  <2>4. caller' = [caller EXCEPT ![c] = v]
    BY <1>1, Zenon DEF LookUp, PolicyInv
  <2>5. MovesTo(q, v, "evaluate", bundle)
    BY <1>0, Moves, Zenon
  <2> HIDE DEF v, bundle
  <2> QED
    BY <1>0, <2>3, <2>4, <2>5, MoveKept, ZenonT(30)
<1>2. CASE ~Hit(c)
  <2> DEFINE v == [q EXCEPT !.pc = "decode"]
  <2>1. caller' = [caller EXCEPT ![c] = v]
    BY <1>2, Zenon DEF LookUp, To, PolicyInv
  <2>2. MovesTo(q, v, "decode", q.bundle)
    BY <1>0, Moves, Zenon
  <2> HIDE DEF v
  <2> QED
    BY <1>0, <2>1, <2>2, MoveKept, Zenon
<1> QED
  BY <1>1, <1>2, Zenon

\* Cache.For: a miss decodes the request's own policy, outside the lock.
LEMMA DecodeRawKept ==
  ASSUME PolicyInv, NEW c \in Callers, DecodeRaw(c)
  PROVE  PolicyInv'
<1> DEFINE q == caller[c]
<1>0. /\ CallerOK(q) /\ q.pc = "decode" /\ RawOf(q) # <<>> /\ Raw(c) = RawOf(q)
      /\ q = [pc |-> q.pc, at |-> q.at, call |-> q.call, bundle |-> q.bundle]
      /\ UNCHANGED <<history, current, cache>>
  BY Zenon DEF PolicyInv, CallerOK, DecodeRaw, Raw, RawOf, Held
<1>1. CASE Decodes(Raw(c)[1])
  <2> DEFINE bundle == Decode(Raw(c)[1])
             v == [q EXCEPT !.pc = "store", !.bundle = bundle]
  <2>1. caller' = [caller EXCEPT ![c] = v]
    BY <1>1, Zenon DEF DecodeRaw, PolicyInv
  <2>2. MovesTo(q, v, "store", bundle)
    BY <1>0, Moves, Zenon
  <2>3. bundle = Decode(RawOf(q)[1]) /\ Decodes(RawOf(q)[1])
    BY <1>0, <1>1, Zenon
  <2> HIDE DEF v, bundle
  <2> QED
    BY <1>0, <2>1, <2>2, <2>3, MoveKept, Zenon
<1>2. CASE ~Decodes(Raw(c)[1])
  <2>1. OutcomeOK(q.call, Raw(c), Denied)
    BY <1>0, <1>2, Zenon DEF OutcomeOK, Denied
  <2>2. Outcome(c, Denied)
    BY <1>2, Zenon DEF DecodeRaw
  <2> QED
    BY <1>0, <2>1, <2>2, OutcomeKept, Zenon
<1> QED
  BY <1>1, <1>2, Zenon

\* Cache.For: the write empties a cache of another digest before it stores.
LEMMA StoreBundleKept ==
  ASSUME PolicyInv, NEW c \in Callers, StoreBundle(c)
  PROVE  PolicyInv'
<1> DEFINE q == caller[c]
           t == q.call.tenant
           kept == IF cache.digest = DigestOf(c) THEN cache.bundles ELSE <<>>
           bundles == WithBundle(kept, t, q.bundle)
           v == [q EXCEPT !.pc = "evaluate"]
<1>0. /\ CallerOK(q) /\ q.pc = "store" /\ RawOf(q) # <<>>
      /\ Decodes(RawOf(q)[1]) /\ q.bundle = Decode(RawOf(q)[1])
      /\ q = [pc |-> q.pc, at |-> q.at, call |-> q.call, bundle |-> q.bundle]
      /\ q.at \in DOMAIN history /\ DigestOf(c) = history[q.at].global.version.digest
      /\ UNCHANGED <<history, current>>
  BY Zenon DEF PolicyInv, CallerOK, StoreBundle, RawOf, Held, DigestOf
<1>1. BundleOK(DigestOf(c), t, q.bundle)
  BY <1>0, Zenon DEF BundleOK, RawOf
<1>2. \A s \in DOMAIN kept : BundleOK(DigestOf(c), s, kept[s])
  BY DEF PolicyInv
<1> HIDE DEF kept
<1>3. \A s \in DOMAIN bundles : BundleOK(DigestOf(c), s, bundles[s])
  BY <1>1, <1>2, Zenon DEF WithBundle
<1>4. cache' = [digest |-> DigestOf(c), bundles |-> bundles]
  BY Zenon DEF StoreBundle, kept
<1> HIDE DEF bundles
<1>5. cache'.digest = DigestOf(c) /\ cache'.bundles = bundles
  BY <1>4, Zenon
<1>6. \A s \in DOMAIN cache'.bundles : BundleOK(cache'.digest, s, cache'.bundles[s])
  BY <1>3, <1>5, Zenon
<1>7. (\A s \in DOMAIN cache.bundles : BundleOK(cache.digest, s, cache.bundles[s]))'
  BY <1>0, <1>6, Zenon DEF BundleOK
<1>8. caller' = [caller EXCEPT ![c] = v]
  BY Zenon DEF StoreBundle, To, PolicyInv
<1>9. MovesTo(q, v, "evaluate", q.bundle)
  BY <1>0, Moves, Zenon
<1> HIDE DEF v
<1>10. CallerOK(v)
  BY <1>0, <1>8, <1>9, MoveKept, Zenon
<1>11. /\ caller' = [x \in Callers |-> caller'[x]]
       /\ \A x \in Callers : CallerOK(caller'[x])
  BY <1>8, <1>10, Zenon DEF PolicyInv
<1>12. \A x \in Callers : CallerOK(caller[x])'
  BY <1>0, <1>11, ZenonT(30) DEF CallerOK, RawOf
<1> QED
  BY <1>0, <1>7, <1>11, <1>12, Zenon DEF PolicyInv

\* Evaluate and applyPolicy: the outcome is what the snapshot's policy asks for.
LEMMA DecideKept ==
  ASSUME PolicyInv, NEW c \in Callers, Decide(c)
  PROVE  PolicyInv'
<1> DEFINE q == caller[c]
           b == Raw(c)[1]
           d == Evaluate(q.bundle, q.call)
           o == IF d.allowed THEN Applied(q.call, d) ELSE Denied
<1>0. /\ q.pc = "evaluate" /\ Raw(c) # <<>> /\ Decodes(b) /\ q.bundle = Decode(b)
      /\ q.call \in Calls /\ q.at \in DOMAIN history /\ history \in Histories
      /\ UNCHANGED <<history, current, cache>>
  BY Zenon DEF PolicyInv, CallerOK, Decide, Raw, RawOf, Held
<1>1. IsSeq(b.rules) /\ q.call.floor \in Nat
  BY <1>0, PolicyAssumption, Zenon DEF Raw, Held
<1>2. /\ d.allowed \in BOOLEAN
      /\ d.allowed <=> ~Denying(b, q.call)
      /\ d.tier \in Nat
      /\ d.allowed => \A i \in DOMAIN b.rules : Decides(b, q.call, i) =>
           d.tier = decodeTier(b.rules[i].tier) /\ d.deep = b.rules[i].deep
  BY <1>0, <1>1, EvaluateDecides
<1>3. Outcome(c, o)
  BY Zenon DEF Decide
<1> HIDE DEF d
<1>4. OutcomeOK(q.call, Raw(c), o)
  <2>1. CASE d.allowed
    <3> DEFINE p == Applied(q.call, d)
    <3>1. p.allowed = TRUE /\ p.floor >= q.call.floor /\ p.floor >= d.tier /\ p.deep = d.deep
      BY <1>1, <1>2, AppliedIs, Zenon
    <3>2. o = p
      BY <2>1, Zenon
    <3> HIDE DEF p, o, b
    <3> QED
      BY <1>0, <1>2, <2>1, <3>1, <3>2, Zenon DEF OutcomeOK, b
  <2>2. CASE ~d.allowed
    <3>1. o.allowed = FALSE
      BY <2>2, Zenon DEF Denied
    <3> HIDE DEF o
    <3> QED
      BY <1>0, <1>2, <2>2, <3>1, Zenon DEF OutcomeOK
  <2> QED
    BY <2>1, <2>2, Zenon
<1> HIDE DEF o
<1> QED
  BY <1>0, <1>3, <1>4, OutcomeKept, Zenon

\* The cache starts empty and no request is under way.
LEMMA PolicyInvInit == PolicyInit => PolicyInv
<1> SUFFICES ASSUME PolicyInit PROVE PolicyInv
  BY Zenon
<1>1. history \in Histories /\ current \in DOMAIN history
  <2>1. IsSeq(history) /\ history # <<>>
    BY PolicyAssumption, Zenon DEF PolicyInit
  <2> QED
    BY <2>1 DEF PolicyInit, IsSeq
<1>2. DOMAIN cache.bundles = {}
  BY DEF PolicyInit
<1> QED
  BY <1>1, <1>2, Zenon DEF PolicyInit, PolicyInv, CallerOK

\* Every step of a request keeps the invariant.
LEMMA PolicyInvNext == PolicyInv /\ [PolicyNext]_policyVars => PolicyInv'
<1> SUFFICES ASSUME PolicyInv, [PolicyNext]_policyVars PROVE PolicyInv'
  BY Zenon
<1>1. CASE NextSnapshot
  <2>1. IsSeq(history) /\ current \in DOMAIN history
    BY PolicyAssumption, Zenon DEF PolicyInv
  <2>2. current' \in DOMAIN history
    BY <1>1, <2>1, SMTT(30) DEF NextSnapshot, IsSeq
  <2> QED
    BY <1>1, <2>2 DEF NextSnapshot, PolicyInv, CallerOK, RawOf, BundleOK
<1>2. CASE UNCHANGED policyVars
  BY <1>2 DEF policyVars, PolicyInv, CallerOK, RawOf, BundleOK
<1> QED
  BY <1>1, <1>2, CallKept, NoPolicyKept, LookUpKept, DecodeRawKept, StoreBundleKept,
     DecideKept, Zenon DEF PolicyNext

\* Cache.For and applyPolicy: however requests of different tenants and snapshots
\* share the cache, each is decided by the policy of the snapshot it holds.
THEOREM PolicyIsOwnHolds == PolicySafety => []PolicyIsOwn
<1>1. PolicyInv => PolicyIsOwn
  BY Zenon DEF PolicyInv, CallerOK, OutcomeOK, PolicyIsOwn, Raw, RawOf, Held
<1> QED
  BY <1>1, PolicyInvInit, PolicyInvNext, PTL DEF PolicySafety

(***************************************************************************)
(* Credentials, for any requests and references, any TTL and any time a    *)
(* fetch may take.                                                         *)
(*                                                                         *)
(* The bound is not inductive: it is on the age of a credential in use, and*)
(* where that credential comes from decides it.  The invariant dates each  *)
(* copy: a secret being stored was the store's at the time its fetch began *)
(* or later, and if it has been rotated since, its fetch straddled the     *)
(* rotation; a cached one expires within a TTL of its rotation, or a TTL   *)
(* and a fetch if one straddled it.                                        *)
(***************************************************************************)

\* Secret v was what reference f named at time t, or later.
NamedSince(f, v, t) ==
  /\ v \in Nat /\ v <= stored[f]
  /\ v < stored[f] => t <= rotatedAt[f][v] /\ v \in straddled[f]

RotationsOK ==
  /\ now \in Nat
  /\ stored \in [Refs -> Nat]
  /\ rotatedAt = [f \in Refs |-> rotatedAt[f]]
  /\ straddled = [f \in Refs |-> straddled[f]]
  /\ \A f \in Refs : \A v \in Nat : v < stored[f] =>
       rotatedAt[f][v] \in Nat /\ rotatedAt[f][v] <= now

\* An entry outlives the rotation of its secret by a TTL, and by the fetch that
\* straddled it.
EntryOK(f, e) ==
  /\ e.found \in BOOLEAN
  /\ e.found =>
       /\ e.expiresAt \in Nat /\ e.expiresAt <= now + TTL
       /\ e.secret \in Nat /\ e.secret <= stored[f]
       /\ e.secret < stored[f] =>
            e.expiresAt <= GoneBy(f, e.secret)

ResolverOK(q) ==
  /\ q.pc \in {"idle", "fetching", "storing", "done"}
  /\ q.pc \in {"fetching", "storing"} =>
       /\ q.ref \in Refs
       /\ q.since \in Nat /\ q.since <= now /\ now <= q.since + MaxFetch
  /\ q.pc = "storing" => NamedSince(q.ref, q.secret, q.since)
  /\ q.pc = "done" =>
       /\ q.ref \in Refs /\ q.at = now
       /\ q.ref # NoRef =>
            /\ q.secret \in Nat /\ q.secret <= stored[q.ref]
            /\ q.secret < stored[q.ref] =>
                 now < GoneBy(q.ref, q.secret)

SecretsInv ==
  /\ RotationsOK
  /\ cached = [f \in Refs |-> cached[f]]
  /\ \A f \in Refs : EntryOK(f, cached[f])
  /\ resolver = [r \in Resolvers |-> resolver[r]]
  /\ \A r \in Resolvers : ResolverOK(resolver[r])

\* The time a secret is gone by, from when it was rotated.
LEMMA GoneByFacts ==
  ASSUME RotationsOK, NEW f \in Refs, NEW v \in Nat, v < stored[f]
  PROVE  /\ GoneBy(f, v) \in Nat /\ GoneBy(f, v) >= rotatedAt[f][v] + TTL
         /\ v \in straddled[f] => GoneBy(f, v) = rotatedAt[f][v] + TTL + MaxFetch
<1>1. rotatedAt[f][v] \in Nat
  BY Zenon DEF RotationsOK
<1> QED
  BY <1>1, SecretsAssumption DEF GoneBy

\* It is a matter of the rotations alone.
LEMMA GoneByStays ==
  ASSUME UNCHANGED <<rotatedAt, straddled>>
  PROVE  \A f, v : GoneBy(f, v)' = GoneBy(f, v)
BY Zenon DEF GoneBy

\* So is what is known of an entry and of a resolver.
LEMMA OKStays ==
  ASSUME UNCHANGED <<now, stored, rotatedAt, straddled>>
  PROVE  /\ RotationsOK => RotationsOK'
         /\ \A f, e : EntryOK(f, e) => EntryOK(f, e)'
         /\ \A q : ResolverOK(q) => ResolverOK(q)'
<1>1. RotationsOK => RotationsOK'
  BY Zenon DEF RotationsOK
<1>2. ASSUME NEW f, NEW e, EntryOK(f, e) PROVE EntryOK(f, e)'
  <2>1. GoneBy(f, e.secret)' = GoneBy(f, e.secret)
    BY GoneByStays, Zenon
  <2> QED
    BY <1>2, <2>1, Zenon DEF EntryOK
<1>3. ASSUME NEW q, ResolverOK(q) PROVE ResolverOK(q)'
  <2>1. GoneBy(q.ref, q.secret)' = GoneBy(q.ref, q.secret)
    BY GoneByStays, Zenon
  <2>2. NamedSince(q.ref, q.secret, q.since) => NamedSince(q.ref, q.secret, q.since)'
    BY Zenon DEF NamedSince
  <2> QED
    BY <1>3, <2>1, <2>2, ZenonT(30) DEF ResolverOK
<1> QED
  BY <1>1, <1>2, <1>3, Zenon

\* Nothing is cached and no credential has been rotated.
LEMMA SecretsInvInit == SecretsInit => SecretsInv
<1> SUFFICES ASSUME SecretsInit PROVE SecretsInv
  BY Zenon
<1>1. RotationsOK
  BY DEF SecretsInit, RotationsOK
<1>2. \A f \in Refs : cached[f].found = FALSE
  BY Zenon DEF SecretsInit, Missing
<1>3. \A r \in Resolvers : resolver[r].pc = "idle"
  BY Zenon DEF SecretsInit
<1> QED
  BY <1>1, <1>2, <1>3, ZenonT(30) DEF SecretsInit, SecretsInv, EntryOK, ResolverOK

\* The resolvers step: the store is as it was.
LEMMA SecretsResolverKept ==
  ASSUME SecretsInv, NEW r \in Resolvers, NEW q, ResolverOK(q),
         resolver' = [resolver EXCEPT ![r] = q],
         UNCHANGED <<now, stored, rotatedAt, straddled, cached>>
  PROVE  SecretsInv'
<1>1. \A s \in Resolvers : resolver'[s] = IF s = r THEN q ELSE resolver[s]
  BY Zenon DEF SecretsInv
<1>2. \A s \in Resolvers : ResolverOK(resolver'[s])
  BY <1>1, ZenonT(30) DEF SecretsInv
<1>3. \A s \in Resolvers : ResolverOK(resolver[s])'
  BY <1>2, OKStays, Zenon
<1>4. RotationsOK' /\ \A f \in Refs : EntryOK(f, cached[f])'
  BY OKStays, Zenon DEF SecretsInv
<1>5. resolver' = [s \in Resolvers |-> resolver'[s]]
  BY Zenon DEF SecretsInv
<1> QED
  BY <1>3, <1>4, <1>5, Zenon DEF SecretsInv

\* Resolve: a hit serves an entry that has not expired, a miss starts a fetch.
LEMMA ResolveKept ==
  ASSUME SecretsInv, NEW r \in Resolvers, NEW f \in Refs, Resolve(r, f)
  PROVE  SecretsInv'
<1>0. TTL \in Nat /\ TTL > 0 /\ MaxFetch \in Nat
  BY SecretsAssumption, SMTT(30)
<1> USE <1>0
<1>1. CASE f # NoRef /\ ~lookup(f)
  <2> DEFINE q == [pc |-> "fetching", ref |-> f, since |-> now]
  <2>0. now \in Nat
    BY Zenon DEF SecretsInv, RotationsOK
  <2>1. ResolverOK(q)
    BY <2>0 DEF ResolverOK
  <2>2. resolver' = [resolver EXCEPT ![r] = q]
    BY <1>1, Zenon DEF Resolve
  <2> HIDE DEF q
  <2> QED
    BY <2>1, <2>2, SecretsResolverKept, Zenon DEF Resolve
<1>2. CASE f = NoRef \/ lookup(f)
  <2> DEFINE secret == IF f = NoRef THEN 0 ELSE cached[f].secret
             q == [pc |-> "done", ref |-> f, secret |-> secret, at |-> now]
  <2>1. f # NoRef =>
          /\ secret \in Nat /\ secret <= stored[f]
          /\ secret < stored[f] => now < GoneBy(f, secret)
    <3>1. EntryOK(f, cached[f]) /\ now \in Nat /\ stored[f] \in Nat
          /\ \A v \in Nat : v < stored[f] => GoneBy(f, v) \in Nat
      BY GoneByFacts, Zenon DEF SecretsInv, RotationsOK
    <3> QED
      BY <1>2, <3>1 DEF EntryOK, lookup
  <2> HIDE DEF secret
  <2>2. ResolverOK(q)
    <3>1. q.pc = "done" /\ q.ref = f /\ q.secret = secret /\ q.at = now
      BY Zenon
    <3> HIDE DEF q
    <3> QED
      BY <2>1, <3>1, Zenon DEF ResolverOK
  <2>3. resolver' = [resolver EXCEPT ![r] = q]
    BY <1>2, Zenon DEF Resolve, Return, secret
  <2> HIDE DEF q
  <2> QED
    BY <2>2, <2>3, SecretsResolverKept, Zenon DEF Resolve
<1> QED
  BY <1>1, <1>2, Zenon

\* A resolver without a credential in hand satisfies its part of the invariant.
LEMMA IdleAgain ==
  ASSUME SecretsInv, NEW r \in Resolvers, resolver' = [resolver EXCEPT ![r] = [pc |-> "idle"]],
         UNCHANGED <<now, stored, rotatedAt, straddled, cached>>
  PROVE  SecretsInv'
<1> DEFINE q == [pc |-> "idle"]
<1>1. ResolverOK(q)
  BY Zenon DEF ResolverOK
<1>2. resolver' = [resolver EXCEPT ![r] = q]
  BY Zenon
<1> HIDE DEF q
<1> QED
  BY <1>1, <1>2, SecretsResolverKept, Zenon

\* lookup: the answer is what the reference names at that moment, or an error.
LEMMA FetchedKept ==
  ASSUME SecretsInv, NEW r \in Resolvers, Fetched(r)
  PROVE  SecretsInv'
<1>1. CASE resolver' = [resolver EXCEPT ![r] = [pc |-> "idle"]]
  BY <1>1, IdleAgain, Zenon DEF Fetched
<1> DEFINE f == resolver[r].ref
           q == [pc |-> "storing", ref |-> f, since |-> resolver[r].since,
                 secret |-> stored[f]]
<1>2. CASE resolver' = [resolver EXCEPT ![r] = q]
  <2>1. ResolverOK(resolver[r]) /\ RotationsOK
    BY Zenon DEF SecretsInv
  <2>2. ResolverOK(q)
    BY <2>1, SMTT(30) DEF Fetched, ResolverOK, RotationsOK, NamedSince
  <2> HIDE DEF q
  <2> QED
    BY <1>2, <2>2, SecretsResolverKept, Zenon DEF Fetched
<1> QED
  BY <1>1, <1>2, Zenon DEF Fetched, SecretsInv

\* A change of the cache alone.
LEMMA CacheKept ==
  ASSUME SecretsInv, cached' = [f \in Refs |-> cached'[f]],
         \A f \in Refs : EntryOK(f, cached'[f]),
         UNCHANGED <<now, stored, rotatedAt, straddled>>
  PROVE  (\A f \in Refs : EntryOK(f, cached[f]))' /\ RotationsOK'
BY OKStays, Zenon DEF SecretsInv

\* lookup: the entry expires a TTL after the answer is cached, and the answer is
\* at most a fetch old.
LEMMA StoreSecretKept ==
  ASSUME SecretsInv, NEW r \in Resolvers, StoreSecret(r)
  PROVE  SecretsInv'
<1>0. TTL \in Nat /\ TTL > 0 /\ MaxFetch \in Nat
  BY SecretsAssumption
<1> USE <1>0
<1> DEFINE f == resolver[r].ref
           v == resolver[r].secret
           e == [found |-> TRUE, secret |-> v, expiresAt |-> now + TTL]
           q == [pc |-> "done", ref |-> f, secret |-> v, at |-> now]
<1>1. ResolverOK(resolver[r]) /\ RotationsOK /\ resolver[r].pc = "storing"
  BY Zenon DEF SecretsInv, StoreSecret
<1>2. /\ f \in Refs /\ v \in Nat /\ v <= stored[f] /\ stored[f] \in Nat /\ now \in Nat
      /\ v < stored[f] => now + TTL <= GoneBy(f, v) /\ GoneBy(f, v) \in Nat
  <2>1. /\ f \in Refs /\ v \in Nat /\ v <= stored[f] /\ stored[f] \in Nat /\ now \in Nat
        /\ v < stored[f] => /\ rotatedAt[f][v] \in Nat /\ v \in straddled[f]
                            /\ now <= rotatedAt[f][v] + MaxFetch
    BY <1>1 DEF ResolverOK, NamedSince, RotationsOK
  <2>2. v < stored[f] => /\ GoneBy(f, v) \in Nat
                         /\ GoneBy(f, v) = rotatedAt[f][v] + TTL + MaxFetch
    BY <1>1, <2>1, GoneByFacts, Zenon
  <2> HIDE DEF f, v
  <2> QED
    BY <2>1, <2>2
<1>3. cached' = [cached EXCEPT ![f] = e] /\ resolver' = [resolver EXCEPT ![r] = q]
  BY Zenon DEF StoreSecret, Return
<1> HIDE DEF f, v
<1>4. EntryOK(f, e) /\ ResolverOK(q)
  BY <1>2 DEF EntryOK, ResolverOK
<1> HIDE DEF e, q
<1>5. /\ cached' = [g \in Refs |-> cached'[g]]
      /\ \A g \in Refs : EntryOK(g, cached'[g])
      /\ resolver' = [s \in Resolvers |-> resolver'[s]]
      /\ \A s \in Resolvers : ResolverOK(resolver'[s])
  BY <1>2, <1>3, <1>4, Zenon DEF SecretsInv
<1>6. UNCHANGED <<now, stored, rotatedAt, straddled>>
  BY Zenon DEF StoreSecret
<1>7. \A s \in Resolvers : ResolverOK(resolver[s])'
  BY <1>5, <1>6, OKStays, Zenon
<1> QED
  BY <1>5, <1>6, <1>7, CacheKept, Zenon DEF SecretsInv

\* Invalidate drops an entry, whatever fetches are under way.
LEMMA InvalidateKept ==
  ASSUME SecretsInv, NEW refs, Invalidate(refs)
  PROVE  SecretsInv'
<1>1. \A f \in Refs : EntryOK(f, Missing)
  BY Zenon DEF EntryOK, Missing
<1>2. /\ cached' = [g \in Refs |-> cached'[g]]
      /\ \A g \in Refs : EntryOK(g, cached'[g])
  BY <1>1, Zenon DEF SecretsInv, Invalidate
<1>3. \A s \in Resolvers : ResolverOK(resolver[s])'
  BY OKStays, Zenon DEF Invalidate, SecretsInv
<1> QED
  BY <1>2, <1>3, CacheKept, Zenon DEF Invalidate, SecretsInv

\* A rotation leaves every older secret with the time it was rotated away.
LEMMA RotateKept ==
  ASSUME SecretsInv, NEW f \in Refs, Rotate(f)
  PROVE  SecretsInv'
<1>0. TTL \in Nat /\ TTL > 0 /\ MaxFetch \in Nat
  BY SecretsAssumption
<1> USE <1>0
<1>1. RotationsOK
  BY Zenon DEF SecretsInv
<1>2. \A g \in Refs : stored'[g] = IF g = f THEN stored[g] + 1 ELSE stored[g]
  BY <1>1, Zenon DEF Rotate, RotationsOK
<1>3. \A g \in Refs, v \in Nat : v < stored'[g] =>
        rotatedAt'[g][v] = IF v = stored[g] THEN now ELSE rotatedAt[g][v]
  <2>1. rotatedAt'[f] = [v \in 0 .. stored[f] |->
                           IF v = stored[f] THEN now ELSE rotatedAt[f][v]]
    BY <1>1, Zenon DEF Rotate, RotationsOK
  <2>2. \A v \in Nat : v < stored'[f] => v \in 0 .. stored[f]
    BY <1>1, <1>2 DEF RotationsOK
  <2>3. \A v \in Nat : v < stored'[f] =>
          rotatedAt'[f][v] = IF v = stored[f] THEN now ELSE rotatedAt[f][v]
    BY <2>1, <2>2, Zenon
  <2>4. \A g \in Refs : g # f => rotatedAt'[g] = rotatedAt[g] /\ stored'[g] = stored[g]
    BY <1>1, <1>2, Zenon DEF Rotate, RotationsOK
  <2>5. \A g \in Refs : stored[g] \in Nat
    BY <1>1, Zenon DEF RotationsOK
  <2> QED
    BY <2>3, <2>4, <2>5
<1>9. /\ \A g \in Refs : straddled[g] \subseteq straddled'[g]
      /\ \A g \in Refs, v \in Nat : v < stored[g] => (v \in straddled'[g] <=> v \in straddled[g])
      /\ Straddles(f) => stored[f] \in straddled'[f]
      /\ straddled' = [g \in Refs |-> straddled'[g]]
  <2>1. straddled' = [straddled EXCEPT ![f] = IF Straddles(f) THEN @ \cup {stored[f]} ELSE @]
    BY Zenon DEF Rotate
  <2>2. /\ straddled'[f] = IF Straddles(f) THEN straddled[f] \cup {stored[f]} ELSE straddled[f]
        /\ \A g \in Refs : g # f => straddled'[g] = straddled[g]
        /\ straddled' = [g \in Refs |-> straddled'[g]]
    BY <1>1, <2>1, Zenon DEF RotationsOK
  <2>3. \A g \in Refs, v \in Nat : v < stored[g] => v # stored[g]
    BY <1>1 DEF RotationsOK
  <2> QED
    BY <2>2, <2>3, Zenon
<1>4. stored' \in [Refs -> Nat] /\ rotatedAt' = [g \in Refs |-> rotatedAt'[g]]
  <2> DEFINE gone == [v \in 0 .. stored[f] |-> IF v = stored[f] THEN now ELSE rotatedAt[f][v]]
  <2>1. rotatedAt' = [rotatedAt EXCEPT ![f] = gone]
    BY Zenon DEF Rotate
  <2> HIDE DEF gone
  <2>2. rotatedAt' = [g \in Refs |-> rotatedAt'[g]]
    BY <1>1, <2>1, Zenon DEF RotationsOK
  <2>3. stored' \in [Refs -> Nat]
    BY <1>1 DEF Rotate, RotationsOK
  <2> QED
    BY <2>2, <2>3, Zenon
<1>5. now' = now /\ cached' = cached /\ resolver' = resolver
  BY Zenon DEF Rotate
<1>6. RotationsOK'
  <2>1. \A g \in Refs : \A v \in Nat : v < stored'[g] =>
          rotatedAt'[g][v] \in Nat /\ rotatedAt'[g][v] <= now
    BY <1>1, <1>2, <1>3, SMTT(30) DEF RotationsOK
  <2> QED
    BY <1>1, <1>4, <1>5, <1>9, <2>1, Zenon DEF RotationsOK
<1>g. ASSUME NEW g \in Refs, NEW v \in Nat
      PROVE  /\ v < stored[g] => GoneBy(g, v)' = GoneBy(g, v) /\ GoneBy(g, v) \in Nat
             /\ v = stored[g] /\ v < stored'[g] => GoneBy(g, v)' >= now + TTL /\ GoneBy(g, v)' \in Nat
  <2>1. v < stored[g] => v < stored'[g] /\ v # stored[g]
    BY <1>1, <1>2 DEF RotationsOK
  <2>2. v < stored[g] => rotatedAt'[g][v] = rotatedAt[g][v]
    BY <1>3, <2>1, Zenon
  <2>3. v < stored[g] => GoneBy(g, v)' = GoneBy(g, v) /\ GoneBy(g, v) \in Nat
    BY <1>1, <1>9, <2>2, GoneByFacts, Zenon DEF GoneBy
  <2>4. ASSUME v = stored[g], v < stored'[g] PROVE GoneBy(g, v)' >= now + TTL /\ GoneBy(g, v)' \in Nat
    <3>1. rotatedAt'[g][v] = now /\ now \in Nat
      BY <1>1, <1>3, <2>4, Zenon DEF RotationsOK
    <3> QED
      BY <3>1 DEF GoneBy
  <2> QED
    BY <2>3, <2>4, Zenon
<1>7. ASSUME NEW g \in Refs PROVE EntryOK(g, cached[g])'
  <2> DEFINE e == cached[g]
  <2>1. EntryOK(g, e) /\ e' = e /\ now' = now
    BY <1>5, <1>7, Zenon DEF SecretsInv
  <2>2. stored[g] \in Nat /\ now \in Nat
    BY <1>1, <1>7, Zenon DEF RotationsOK
  <2>3. stored'[g] = stored[g] \/ stored'[g] = stored[g] + 1
    BY <1>2, <1>7, Zenon
  <2>4. \A v \in Nat :
          /\ v < stored[g] => GoneBy(g, v)' = GoneBy(g, v) /\ GoneBy(g, v) \in Nat
          /\ v = stored[g] /\ v < stored'[g] => GoneBy(g, v)' >= now + TTL /\ GoneBy(g, v)' \in Nat
    BY <1>7, <1>g, Zenon
  <2> HIDE DEF e
  <2>5. e.found => /\ e.secret <= stored'[g]
                   /\ e.secret < stored'[g] => e.expiresAt <= GoneBy(g, e.secret)'
    BY <2>1, <2>2, <2>3, <2>4, SMTT(30) DEF EntryOK
  <2>6. EntryOK(g, e)'
    BY <2>1, <2>5, Zenon DEF EntryOK
  <2> QED
    BY <2>6, Zenon DEF e
<1>8. ASSUME NEW s \in Resolvers PROVE ResolverOK(resolver[s])'
  <2> DEFINE q == resolver[s]
  <2>1. ResolverOK(q) /\ now' = now /\ q' = q
    BY <1>5, Zenon DEF SecretsInv
  <2> HIDE DEF q
  <2>2. now \in Nat /\ (q.ref \in Refs => stored[q.ref] \in Nat)
    BY <1>1, Zenon DEF RotationsOK
  <2>3. q.pc = "storing" => NamedSince(q.ref, q.secret, q.since)'
    <3> SUFFICES ASSUME q.pc = "storing" PROVE NamedSince(q.ref, q.secret, q.since)'
      BY Zenon
    <3>1. /\ q.ref \in Refs /\ q.since \in Nat /\ q.since <= now
          /\ NamedSince(q.ref, q.secret, q.since)
      BY <2>1, Zenon DEF ResolverOK
    <3>2. q.secret < stored'[q.ref] =>
            q.since <= rotatedAt'[q.ref][q.secret] /\ q.secret <= stored[q.ref]
      BY <1>2, <1>3, <2>2, <3>1, SMTT(30) DEF NamedSince
    <3>3. q.secret < stored'[q.ref] => q.secret \in straddled'[q.ref]
      <4>1. CASE q.secret = stored[q.ref]
        <5>1. q.ref # f => stored'[q.ref] = stored[q.ref]
          BY <1>2, <3>1, Zenon
        <5>2. q.ref = f => Straddles(f)
          BY <4>1, Zenon DEF Straddles, q
        <5>3. stored[q.ref] \in Nat
          BY <2>2, <3>1, Zenon
        <5>4. stored'[q.ref] = stored[q.ref] => ~(q.secret < stored'[q.ref])
          BY <4>1, <5>3
        <5> QED
          BY <1>9, <4>1, <5>1, <5>2, <5>4, Zenon
      <4>2. CASE q.secret # stored[q.ref]
        <5>1. q.secret < stored[q.ref]
          BY <2>2, <3>1, <4>2 DEF NamedSince
        <5> QED
          BY <1>9, <3>1, <5>1, Zenon DEF NamedSince
      <4> QED
        BY <4>1, <4>2, Zenon
    <3>4. q.secret \in Nat /\ q.secret <= stored'[q.ref]
      BY <1>2, <2>2, <3>1 DEF NamedSince
    <3>5. q.ref' = q.ref /\ q.secret' = q.secret /\ q.since' = q.since
      BY <2>1, Zenon
    <3> QED
      BY <3>2, <3>3, <3>4, <3>5, Zenon DEF NamedSince
  <2>4. q.pc = "done" /\ q.ref # NoRef =>
          /\ q.secret \in Nat /\ q.secret <= stored'[q.ref]
          /\ q.secret < stored'[q.ref] => now < GoneBy(q.ref, q.secret)'
    <3> SUFFICES ASSUME q.pc = "done", q.ref # NoRef
                 PROVE  /\ q.secret \in Nat /\ q.secret <= stored'[q.ref]
                        /\ q.secret < stored'[q.ref] => now < GoneBy(q.ref, q.secret)'
      BY Zenon
    <3>1. /\ q.ref \in Refs /\ q.secret \in Nat /\ q.secret <= stored[q.ref]
          /\ q.secret < stored[q.ref] => now < GoneBy(q.ref, q.secret)
      BY <2>1, Zenon DEF ResolverOK
    <3>2. /\ q.secret < stored[q.ref] => GoneBy(q.ref, q.secret)' = GoneBy(q.ref, q.secret)
          /\ q.secret = stored[q.ref] /\ q.secret < stored'[q.ref] =>
               GoneBy(q.ref, q.secret)' >= now + TTL /\ GoneBy(q.ref, q.secret)' \in Nat
      BY <1>g, <2>1, <3>1, Zenon
    <3>3. stored'[q.ref] = stored[q.ref] \/ stored'[q.ref] = stored[q.ref] + 1
      BY <1>2, <3>1, Zenon
    <3>4. q.secret <= stored'[q.ref]
      BY <2>2, <3>1, <3>3
    <3>5. CASE q.secret < stored[q.ref]
      BY <3>1, <3>2, <3>4, <3>5, Zenon
    <3>6. CASE q.secret = stored[q.ref]
      <4>1. q.secret < stored'[q.ref] => now < GoneBy(q.ref, q.secret)'
        BY <2>2, <3>2, <3>6
      <4> QED
        BY <3>1, <3>4, <4>1, Zenon
    <3>7. q.secret < stored[q.ref] \/ q.secret = stored[q.ref]
      BY <2>2, <3>1
    <3> QED
      BY <3>5, <3>6, <3>7, Zenon
  <2>5. ResolverOK(q)'
    BY <2>1, <2>3, <2>4, Zenon DEF ResolverOK
  <2> QED
    BY <2>5, Zenon DEF q
<1> QED
  BY <1>4, <1>5, <1>6, <1>7, <1>8, Zenon DEF SecretsInv

\* Time passes, but not beyond the deadline of a fetch under way.
LEMMA TickKept ==
  ASSUME SecretsInv, Tick
  PROVE  SecretsInv'
<1>0. TTL \in Nat /\ TTL > 0 /\ MaxFetch \in Nat
  BY SecretsAssumption
<1> USE <1>0
<1>1. RotationsOK
  BY Zenon DEF SecretsInv
<1>2. RotationsOK'
  BY <1>1, SMTT(30) DEF Tick, RotationsOK
<1>3. \A g \in Refs : EntryOK(g, cached[g])'
  <2>1. ASSUME NEW g \in Refs PROVE EntryOK(g, cached[g])'
    <3> DEFINE e == cached[g]
    <3>1. EntryOK(g, e) /\ e' = e /\ now \in Nat /\ now' = now + 1 /\ stored' = stored
      BY <1>1, <2>1, Zenon DEF Tick, SecretsInv, RotationsOK
    <3>2. GoneBy(g, e.secret)' = GoneBy(g, e.secret)
      BY <3>1, GoneByStays, Zenon DEF Tick
    <3> HIDE DEF e
    <3>3. e.found => e.expiresAt <= now' + TTL
      BY <3>1 DEF EntryOK
    <3>4. EntryOK(g, e)'
      BY <3>1, <3>2, <3>3, Zenon DEF EntryOK
    <3> QED
      BY <3>4, Zenon DEF e
  <2> QED
    BY <2>1, Zenon
<1>4. ASSUME NEW s \in Resolvers PROVE ResolverOK(resolver[s])'
  <2> DEFINE q == resolver[s]
  <2>1. /\ ResolverOK(q) /\ q' = q /\ now \in Nat /\ now' = now + 1
        /\ q.pc # "done"
        /\ q.pc \in {"fetching", "storing"} => now < q.since + MaxFetch
    BY <1>1, Zenon DEF Tick, SecretsInv, RotationsOK
  <2>2. stored' = stored /\ rotatedAt' = rotatedAt /\ straddled' = straddled
    BY Zenon DEF Tick
  <2> HIDE DEF q
  <2>3. q.pc \in {"fetching", "storing"} => q.since <= now' /\ now' <= q.since + MaxFetch
    BY <2>1, SMTT(30) DEF ResolverOK
  <2>4. ResolverOK(q)'
    BY <2>1, <2>2, <2>3, Zenon DEF ResolverOK, NamedSince
  <2> QED
    BY <2>4, Zenon DEF q
<1> QED
  BY <1>2, <1>3, <1>4, Zenon DEF SecretsInv, Tick

\* Every step of the resolver, of the secret store and of the clock keeps the
\* invariant.
LEMMA SecretsInvNext == SecretsInv /\ [SecretsNext]_secretVars => SecretsInv'
<1> SUFFICES ASSUME SecretsInv, [SecretsNext]_secretVars PROVE SecretsInv'
  BY Zenon
<1>1. ASSUME NEW r \in Resolvers, Used(r) PROVE SecretsInv'
  BY <1>1, IdleAgain, ZenonT(30) DEF Used
<1>2. CASE UNCHANGED secretVars
  BY <1>2, OKStays, Zenon DEF secretVars, SecretsInv
<1> QED
  BY <1>1, <1>2, ResolveKept, FetchedKept, StoreSecretKept, InvalidateKept, RotateKept,
     TickKept, Zenon
     DEF SecretsNext

\* Resolver.Resolve: for any number of rotations, a rotated secret takes effect within
\* one TTL, or one TTL and a fetch where one straddled the rotation.
THEOREM CredentialIsRecentHolds == SecretsSafety => []CredentialIsRecent
<1>1. SecretsInv => CredentialIsRecent
  BY Zenon DEF SecretsInv, CredentialIsRecent, ResolverOK
<1> QED
  BY <1>1, SecretsInvInit, SecretsInvNext, PTL DEF SecretsSafety

(***************************************************************************)
(* The provider's stream, for streams of any length and any reports.       *)
(*                                                                         *)
(* What was relayed is compared with what was read all along, not only at  *)
(* the end, and the usage of the adapter with the last report of each      *)
(* class.  That a class which was reported has a last report is part of the*)
(* invariant: it holds of every sequence, but by induction on its length.  *)
(***************************************************************************)

Report == [prompt: Nat, cached: Nat, write: Nat, output: Nat]
ReportLists == {<<>>} \cup {<<r>> : r \in Reports}
LineKinds == {"skip", "data", "start", "delta", "stop"}
LineType == [kind: LineKinds, report: ReportLists]

UsageOK(u) == u.input \in Nat /\ u.cached \in Nat /\ u.write \in Nat /\ u.output \in Nat

StreamTypeOK ==
  /\ dialect \in {"anthropic", "openai"}
  /\ pc \in {"start", "relay", "flush", "done"}
  /\ lines \in Seq(LineType)
  /\ finished \in BOOLEAN
  /\ UsageOK(usage) /\ UsageOK(seen)
  /\ relayed \in Seq(Nat)

\* The payloads relayed are those of the lines read, in order.
Relayed == \A i \in DOMAIN lines : Payload(i) <=> \E n \in DOMAIN relayed : relayed[n] = i

RelayOK ==
  /\ \A n \in DOMAIN relayed : relayed[n] \in DOMAIN lines
  /\ \A m, n \in DOMAIN relayed : m < n => relayed[m] < relayed[n]
  /\ pc = "start" => lines = <<>> /\ relayed = <<>> /\ ~finished /\ ~upstream
  /\ pc # "done" => recorded = <<>> /\ signal = "none" /\ Relayed
  /\ pc = "flush" => finished
  /\ finished => Terminated
  /\ pc = "done" => ~upstream /\ signal # "none" /\ Len(recorded) = 1
  /\ signal = "status" => relayed = <<>> /\ recorded[1].status >= 400
  /\ signal = "done" => finished /\ Relayed /\ recorded[1].usage = seen

\* What a provider can send is of a known kind and carries at most one report.
LEMMA LinesTyped ==
  /\ Line("skip") \in LineType
  /\ \A l \in Lines : /\ l \in LineType /\ l.kind # "skip"
                      /\ l.kind = "stop" => l.report = <<>>
<1>1. \A k \in LineKinds : Line(k) \in LineType
  BY Zenon DEF Line, LineType, ReportLists
<1>2. \A k \in LineKinds, r \in Reports : Reporting(k, r) \in LineType
  BY Zenon DEF Reporting, LineType, ReportLists
<1>3. \A k \in LineKinds, r \in Reports : Reporting(k, r).kind = k
  BY Zenon DEF Reporting
<1>4. \A k \in LineKinds : Line(k).kind = k /\ Line(k).report = <<>>
  BY Zenon DEF Line
<1>5. \A l \in Lines : \/ \E k \in {"data", "start", "delta", "stop"} : l = Line(k)
                       \/ \E k \in {"data", "start", "delta"}, r \in Reports : l = Reporting(k, r)
  <2>1. \A l \in AnthropicLines :
          \/ \E k \in {"data", "start", "delta", "stop"} : l = Line(k)
          \/ \E k \in {"start", "delta"}, r \in Reports : l = Reporting(k, r)
    BY DEF AnthropicLines
  <2>2. \A l \in OpenAILines : \/ \E k \in {"data", "stop"} : l = Line(k)
                              \/ \E r \in Reports : l = Reporting("data", r)
    BY Zenon DEF OpenAILines
  <2> QED
    BY <2>1, <2>2, Zenon DEF Lines
<1> QED
  BY <1>1, <1>2, <1>3, <1>4, <1>5, SMTT(30) DEF LineKinds

\* What a line makes of the four counts.
LEMMA CountedIs ==
  ASSUME NEW l \in LineType
  PROVE  /\ l.report = <<>> => Counted(l) = usage
         /\ l.report # <<>> =>
              LET r == l.report[1]
                  c == Counted(l)
                  u == usageFrom(r)
              IN  /\ r \in Report
                  /\ dialect = "anthropic" =>
                       /\ c.input = IF r.prompt > 0 \/ l.kind = "start"
                            THEN r.prompt ELSE usage.input
                       /\ c.cached = IF r.cached > 0 \/ l.kind = "start"
                            THEN r.cached ELSE usage.cached
                       /\ c.write = IF r.write > 0 \/ l.kind = "start"
                            THEN r.write ELSE usage.write
                       /\ c.output = IF r.output > 0 \/ l.kind = "start"
                            THEN r.output ELSE usage.output
                  /\ dialect # "anthropic" =>
                       c = IF u.input # 0 \/ u.output # 0 THEN u ELSE usage
<1>1. CASE l.report = <<>>
  BY <1>1, Zenon DEF Counted, AnthropicUsage, OpenAIUsage
<1>2. CASE l.report # <<>>
  <2>1. PICK r \in Reports : l.report = <<r>>
    BY <1>2, Zenon DEF LineType, ReportLists
  <2>2. r \in Report /\ l.report[1] = r
    BY <2>1, StreamAssumption, SMTT(30) DEF Report
  <2>3. CASE dialect = "anthropic"
    <3> DEFINE u == normalized(r)
    <3>1. /\ u.input = r.prompt /\ u.cached = r.cached /\ u.write = r.write
          /\ u.output = r.output
          /\ DOMAIN u = {"input", "cached", "write", "output"}
      BY Zenon DEF normalized
    <3>2. Counted(l) = IF l.kind = "start" THEN u
                       ELSE [class \in DOMAIN u |->
                               IF u[class] > 0 THEN u[class] ELSE usage[class]]
      BY <1>2, <2>2, <2>3, Zenon DEF Counted, AnthropicUsage
    <3> HIDE DEF u
    <3>3. CASE l.kind = "start"
      BY <1>2, <2>2, <2>3, <3>1, <3>2, <3>3, Zenon
    <3>4. CASE l.kind # "start"
      BY <1>2, <2>2, <2>3, <3>1, <3>2, <3>4, SMTT(30) DEF Report
    <3> QED
      BY <3>3, <3>4, Zenon
  <2>4. CASE dialect # "anthropic"
    BY <1>2, <2>2, <2>4, Zenon DEF Counted, OpenAIUsage
  <2> QED
    BY <2>3, <2>4, Zenon
<1> QED
  BY <1>1, <1>2, Zenon

\* The counts stay natural numbers.
LEMMA CountedTyped ==
  ASSUME NEW l \in LineType, UsageOK(usage)
  PROVE  UsageOK(Counted(l))
<1>1. CASE l.report = <<>>
  BY <1>1, CountedIs, Zenon
<1>2. CASE l.report # <<>> /\ dialect = "anthropic"
  BY <1>2, CountedIs, Zenon DEF UsageOK, Report
<1>3. CASE l.report # <<>> /\ dialect # "anthropic"
  <2> DEFINE r == l.report[1]
             u == usageFrom(r)
  <2>1. r \in Report /\ (Counted(l) = usage \/ Counted(l) = u)
    BY <1>3, CountedIs, Zenon
  <2> HIDE DEF r
  <2>2. UsageOK(u)
    BY <2>1 DEF UsageOK, Report, usageFrom
  <2> QED
    BY <2>1, <2>2, Zenon
<1> QED
  BY <1>1, <1>2, <1>3, Zenon

\* Every step keeps the types.
LEMMA StreamTyped == StreamTypeOK /\ [StreamNext]_streamVars => StreamTypeOK'
<1> SUFFICES ASSUME StreamTypeOK, [StreamNext]_streamVars PROVE StreamTypeOK'
  BY Zenon
<1>1. ASSUME NEW e, Refused(e) PROVE StreamTypeOK'
  BY <1>1, Zenon DEF StreamTypeOK, Refused
<1>2. ASSUME NEW l \in Lines, Relay(l) PROVE StreamTypeOK'
  <2>1. l \in LineType
    BY LinesTyped, Zenon
  <2>2. UsageOK(usage') /\ UsageOK(seen')
    BY <1>2, <2>1, CountedTyped, Zenon DEF StreamTypeOK, Relay
  <2>3. lines' \in Seq(LineType) /\ Len(lines) + 1 \in Nat
    BY <1>2, <2>1 DEF StreamTypeOK, Relay
  <2>4. relayed' \in Seq(Nat)
    <3>1. PICK n \in Nat : relayed' = relayed \/ relayed' = Append(relayed, n)
      BY <1>2, <2>3, Zenon DEF Relay
    <3>2. relayed \in Seq(Nat)
      BY Zenon DEF StreamTypeOK
    <3> QED
      BY <3>1, <3>2
  <2>5. dialect' = dialect /\ finished' \in BOOLEAN
    BY <1>2, Zenon DEF Relay
  <2>6. pc' = pc \/ pc' = "done"
    BY <1>2, Zenon DEF Relay, Finish
  <2> QED
    BY <2>2, <2>3, <2>4, <2>5, <2>6, Zenon DEF StreamTypeOK, UsageOK
<1>3. CASE Skip
  <2>1. lines' \in Seq(LineType)
    BY <1>3, LinesTyped, SMTT(30) DEF StreamTypeOK, Skip
  <2> QED
    BY <1>3, <2>1, Zenon DEF StreamTypeOK, Skip, UsageOK
<1>4. CASE Begin
  BY <1>4, Zenon DEF StreamTypeOK, Begin, UsageOK
<1>5. ASSUME NEW code, Breaks(code) PROVE StreamTypeOK'
  BY <1>5, Zenon DEF StreamTypeOK, Breaks, Finish, UsageOK
<1>6. CASE EndOfStream
  BY <1>6, Zenon DEF StreamTypeOK, EndOfStream, Finish, UsageOK
<1>7. CASE Done
  BY <1>7, Zenon DEF StreamTypeOK, Done, Finish, UsageOK
<1>8. CASE UNCHANGED streamVars
  BY <1>8, Zenon DEF StreamTypeOK, streamVars, UsageOK
<1> QED
  BY <1>1, <1>2, <1>3, <1>4, <1>5, <1>6, <1>7, <1>8, ZenonT(30) DEF StreamNext

\* A line is added to those read.
LEMMA PayloadsGrow ==
  ASSUME StreamTypeOK, NEW l \in LineType, lines' = Append(lines, l), dialect' = dialect
  PROVE  /\ DOMAIN lines' = DOMAIN lines \cup {Len(lines) + 1}
         /\ Len(lines) \in Nat /\ Len(lines') = Len(lines) + 1
         /\ DOMAIN lines = 1 .. Len(lines)
         /\ lines'[Len(lines) + 1] = l
         /\ \A i \in DOMAIN lines : lines'[i] = lines[i]
         /\ \A i \in DOMAIN lines : Payload(i)' <=> Payload(i)
         /\ \A i : i = Len(lines) + 1 =>
              (Payload(i)' <=> l.kind # "skip" /\ HasPayload(l))
<1>1. /\ DOMAIN lines' = DOMAIN lines \cup {Len(lines) + 1}
      /\ Len(lines) \in Nat /\ Len(lines') = Len(lines) + 1
      /\ DOMAIN lines = 1 .. Len(lines)
      /\ lines'[Len(lines) + 1] = l
      /\ \A i \in DOMAIN lines : lines'[i] = lines[i]
  BY DEF StreamTypeOK
<1> QED
  BY <1>1, Zenon DEF Payload, HasPayload

\* Nothing is read or relayed; the response may end.
LEMMA RelayOKSame ==
  ASSUME RelayOK, UNCHANGED <<dialect, lines, relayed>>
  PROVE  /\ \A n \in DOMAIN relayed' : relayed'[n] \in DOMAIN lines'
         /\ \A m, n \in DOMAIN relayed' : m < n => relayed'[m] < relayed'[n]
         /\ Relayed <=> Relayed'
         /\ Terminated <=> Terminated'
BY SMTT(30) DEF RelayOK, Relayed, Payload, HasPayload, Terminated

\* A request that is refused before the first byte has relayed nothing.
LEMMA RefusedRelays ==
  ASSUME StreamTypeOK, RelayOK, NEW e, Refused(e), writeError(e).status >= 400
  PROVE  RelayOK'
<1> DEFINE u == [usage |-> NoUsage, code |-> e.code, status |-> writeError(e).status]
<1>1. recorded' = <<u>> /\ u.status >= 400
  BY DEF RelayOK, Refused
<1> HIDE DEF u
<1>2. Len(recorded') = 1 /\ recorded'[1] = u
  BY <1>1, Zenon
<1>3. /\ pc' = "done" /\ signal' = "status" /\ pc = "start" /\ finished' = finished
      /\ upstream' = upstream /\ UNCHANGED <<dialect, lines, relayed>>
  BY ZenonT(30) DEF Refused
<1> QED
  BY <1>1, <1>2, <1>3, RelayOKSame, SMTT(30) DEF RelayOK

\* A stream that ends is recorded once and its body closed.
LEMMA EndedRelays ==
  ASSUME StreamTypeOK, RelayOK, pc \in {"relay", "flush"}, NEW code, Finish(seen, code),
         UNCHANGED <<dialect, lines, finished, relayed, seen>>,
         \/ signal' \in {"error", "gone"}
         \/ pc = "flush" /\ signal' = "done"
  PROVE  RelayOK'
<1> DEFINE u == [usage |-> seen, code |-> code, status |-> 200]
<1>0. recorded = <<>>
  BY Zenon DEF RelayOK
<1>1. recorded' = Append(recorded, u) /\ u.usage = seen /\ pc' = "done" /\ upstream' = FALSE
  BY Zenon DEF Finish
<1> HIDE DEF u
<1>2. Len(recorded') = 1 /\ recorded'[1] = u
  BY <1>0, <1>1, SMTT(30)
<1> QED
  BY <1>1, <1>2, RelayOKSame, SMTT(30) DEF RelayOK

\* A line without a payload adds nothing to what was relayed.
LEMMA SkipRelays ==
  ASSUME StreamTypeOK, RelayOK, Skip
  PROVE  RelayOK'
<1>1. Line("skip").kind = "skip" /\ Line("skip") \in LineType
  BY LinesTyped, Zenon DEF Line
<1>2. PICK l \in LineType : lines' = Append(lines, l) /\ l.kind = "skip"
  BY <1>1, Zenon DEF Skip
<1>3. dialect' = dialect
  BY Zenon DEF Skip
<1>4. Relayed'
  BY <1>2, <1>3, PayloadsGrow, SMTT(30) DEF Skip, RelayOK, Relayed
<1>5. \A n \in DOMAIN relayed' : relayed'[n] \in DOMAIN lines'
  BY <1>2, <1>3, PayloadsGrow, Zenon DEF Skip, RelayOK
<1> QED
  BY <1>4, <1>5, Zenon DEF RelayOK, Skip

\* A payload is relayed after those before it.
LEMMA RelayRelays ==
  ASSUME StreamTypeOK, RelayOK, NEW l \in Lines, Relay(l)
  PROVE  RelayOK'
<1>1. l \in LineType /\ l.kind # "skip"
  BY LinesTyped, Zenon
<1>2. lines' = Append(lines, l) /\ dialect' = dialect
  BY Zenon DEF Relay
<1>3. finished' => Terminated'
  <2>1. Len(lines') = Len(lines) + 1 /\ lines'[Len(lines) + 1] = l /\ Len(lines) \in Nat
    BY <1>1, <1>2, PayloadsGrow, Zenon
  <2>2. lines' # <<>>
    BY <2>1
  <2> QED
    BY <2>1, <2>2, Zenon DEF Relay, Terminated
<1>4. CASE ~HasPayload(l)
  <2>1. relayed' = relayed /\ pc' = pc /\ signal' = signal /\ recorded' = recorded
    BY <1>4, ZenonT(30) DEF Relay
  <2>2. Relayed'
    BY <1>1, <1>2, <1>4, <2>1, PayloadsGrow, SMTT(30) DEF Relay, RelayOK, Relayed
  <2>3. \A n \in DOMAIN relayed' : relayed'[n] \in DOMAIN lines'
    BY <1>1, <1>2, <2>1, PayloadsGrow, ZenonT(30) DEF RelayOK
  <2> QED
    BY <1>3, <2>1, <2>2, <2>3, Zenon DEF RelayOK, Relay
<1>5. CASE HasPayload(l) /\ relayed' = Append(relayed, Len(lines) + 1)
             /\ UNCHANGED <<pc, signal, recorded, upstream>>
  <2> DEFINE k == Len(lines) + 1
             m == Len(relayed) + 1
  <2>1. /\ k \in Nat /\ m \in Nat /\ m > 0
        /\ DOMAIN relayed = 1 .. Len(relayed) /\ Len(relayed) \in Nat
        /\ DOMAIN relayed' = DOMAIN relayed \cup {m}
        /\ relayed'[m] = k
        /\ \A n \in DOMAIN relayed : relayed'[n] = relayed[n]
    BY <1>5, SMTT(30) DEF StreamTypeOK
  <2>2. /\ DOMAIN lines' = DOMAIN lines \cup {k} /\ DOMAIN lines = 1 .. Len(lines)
        /\ \A i \in DOMAIN lines : Payload(i)' <=> Payload(i)
        /\ \A i : i = k => Payload(i)'
        /\ Len(lines) \in Nat
    BY <1>1, <1>2, <1>5, PayloadsGrow, Zenon
  <2>3. /\ \A n \in DOMAIN relayed : relayed[n] \in DOMAIN lines /\ relayed[n] < k
        /\ \A n \in DOMAIN relayed : n < m
    BY <2>1, <2>2, SMTT(30) DEF RelayOK
  <2> HIDE DEF k, m
  <2>4. \A n \in DOMAIN relayed' : relayed'[n] \in DOMAIN lines'
    BY <2>1, <2>2, <2>3, Zenon
  <2>5. \A i, j \in DOMAIN relayed' : i < j => relayed'[i] < relayed'[j]
    BY <2>1, <2>2, <2>3, SMTT(30) DEF RelayOK
  <2>6. Relayed
    BY Zenon DEF RelayOK, Relay
  <2>7. Relayed'
    BY <2>1, <2>2, <2>3, <2>6, Zenon DEF Relayed
  <2> QED
    BY <1>3, <1>5, <2>4, <2>5, <2>7, Zenon DEF RelayOK, Relay
<1>6. CASE HasPayload(l) /\ signal' = "gone" /\ Finish(seen', "upstream_error")
             /\ UNCHANGED relayed
  <2> DEFINE u == [usage |-> seen', code |-> "upstream_error", status |-> 200]
  <2>1. recorded' = Append(recorded, u) /\ recorded = <<>> /\ pc' = "done" /\ upstream' = FALSE
    BY <1>6, Zenon DEF RelayOK, Finish, Relay
  <2> HIDE DEF u
  <2>2. Len(recorded') = 1
    BY <2>1, SMTT(30)
  <2>3. \A n \in DOMAIN relayed' : relayed'[n] \in DOMAIN lines'
    BY <1>1, <1>2, <1>6, PayloadsGrow, Zenon DEF RelayOK
  <2> QED
    BY <1>3, <1>6, <2>1, <2>2, <2>3, Zenon DEF RelayOK
<1> QED
  BY <1>4, <1>5, <1>6, Zenon DEF Relay

\* A refusal is an error status.
LEMMA RefusedStatus ==
  /\ \A cause \in {"deadline", "canceled", "body", "network"} :
       writeError(sendError(cause)).status >= 400
  /\ \A status \in {400, 429, 500} : writeError(upstreamError(status)).status >= 400
<1>1. \A e : e.code \in {"upstream_error", "upstream_timeout", "internal", "invalid_request"} =>
               writeError(e).status >= 400
  BY DEF writeError, statusByCode
<1>2. \A cause \in {"deadline", "canceled", "body", "network"} :
        sendError(cause).code \in
          {"upstream_error", "upstream_timeout", "internal", "invalid_request"}
  BY Zenon DEF sendError, Error
<1>3. \A status : upstreamError(status).code = "upstream_error"
  BY Zenon DEF upstreamError, Error
<1> QED
  BY <1>1, <1>2, <1>3, SMTT(30)

\* Every step keeps what is known of the relayed payloads.
LEMMA RelayOKNext ==
  ASSUME StreamTypeOK, RelayOK, [StreamNext]_streamVars
  PROVE  RelayOK'
<1>1. CASE Begin
  <2>1. Relayed'
    BY <1>1, RelayOKSame, Zenon DEF Begin, RelayOK
  <2> QED
    BY <1>1, <2>1, RelayOKSame, Zenon DEF Begin, RelayOK
<1>2. ASSUME NEW code, Breaks(code) PROVE RelayOK'
  BY <1>2, EndedRelays, Zenon DEF Breaks
<1>3. CASE EndOfStream
  <2>1. CASE pc' = "flush" /\ UNCHANGED <<signal, recorded, upstream>>
    BY <1>3, <2>1, RelayOKSame, Zenon DEF EndOfStream, RelayOK
  <2>2. CASE signal' = "error" /\ Finish(seen, "internal")
    BY <1>3, <2>2, EndedRelays, Zenon DEF EndOfStream
  <2> QED
    BY <1>3, <2>1, <2>2, Zenon DEF EndOfStream
<1>4. CASE Done
  BY <1>4, EndedRelays, Zenon DEF Done
<1>5. CASE UNCHANGED streamVars
  <2>1. UNCHANGED <<dialect, lines, relayed>>
    BY <1>5, Zenon DEF streamVars
  <2> QED
    BY <1>5, <2>1, RelayOKSame, SMTT(30) DEF streamVars, RelayOK
<1>6. ASSUME NEW cause \in {"deadline", "canceled", "body", "network"},
             Refused(sendError(cause))
      PROVE  RelayOK'
  BY <1>6, RefusedStatus, RefusedRelays
<1>7. ASSUME NEW status \in {400, 429, 500}, Refused(upstreamError(status)) PROVE RelayOK'
  BY <1>7, RefusedStatus, RefusedRelays, SMTT(30)
<1>8. ASSUME NEW l \in Lines, Relay(l) PROVE RelayOK'
  BY <1>8, RelayRelays, Zenon
<1>9. CASE Skip
  BY <1>9, SkipRelays, Zenon
<1> QED
  BY <1>1, <1>2, <1>3, <1>4, <1>5, <1>6, <1>7, <1>8, <1>9, SMTT(30) DEF StreamNext

-----------------------------------------------------------------------------
Classes == {"prompt", "cached", "write", "output"}

\* The lines that report a class have a last one.
HasLast(class) == With(class) = {} \/ \E m \in With(class) : \A j \in With(class) : j <= m

AsReported(u) ==
  IF dialect = "anthropic"
  THEN /\ u.output = Reported("output") /\ u.cached = Reported("cached")
       /\ u.input = Reported("prompt") /\ u.write = Reported("write")
  ELSE Reported("output") > 0 =>
         /\ u.output = Reported("output") /\ u.cached = Reported("cached")
         /\ Reported("cached") <= Reported("prompt") =>
              u.input + u.cached = Reported("prompt")

BillOK ==
  /\ \A i \in DOMAIN lines : lines[i].kind = "skip" => lines[i].report = <<>>
  /\ \A class \in Classes : HasLast(class)
  /\ Conforms => AsReported(usage)
  /\ finished /\ Conforms /\ Reported("output") > 0 => seen = usage

\* Max is the last of the lines that report a class.
LEMMA LastIs ==
  ASSUME NEW S \in SUBSET Nat, NEW m \in S, \A j \in S : j <= m
  PROVE  (CHOOSE i \in S : \A j \in S : j <= i) = m
<1> DEFINE c == CHOOSE i \in S : \A j \in S : j <= i
<1>1. c \in S /\ \A j \in S : j <= c
  BY Zenon
<1> HIDE DEF c
<1>2. c <= m /\ m <= c /\ c \in Nat /\ m \in Nat
  BY <1>1, Zenon
<1>3. c = m
  BY <1>2
<1> QED
  BY <1>3, Zenon DEF c

\* Every count of a report is a natural number.
LEMMA CountsAreNat == \A r \in Report, class \in Classes : r[class] \in Nat
BY Zenon DEF Report, Classes

\* The line reports the class, as With has it.
ReportsClass(l, class) ==
  l.report # <<>> /\ (dialect = "anthropic" => l.report[1][class] > 0)

\* A line that reports a class becomes its last report; another leaves it alone.
LEMMA ReportedMoves ==
  ASSUME StreamTypeOK, NEW l \in LineType, lines' = Append(lines, l), dialect' = dialect,
         NEW class \in Classes, HasLast(class)
  PROVE  /\ HasLast(class)'
         /\ Reported(class)' = IF ReportsClass(l, class) THEN l.report[1][class]
                               ELSE Reported(class)
<1> DEFINE k == Len(lines) + 1
           W == With(class)
<1>1. /\ DOMAIN lines' = DOMAIN lines \cup {k} /\ Len(lines) \in Nat
      /\ DOMAIN lines = 1 .. Len(lines)
      /\ lines'[k] = l
      /\ \A i \in DOMAIN lines : lines'[i] = lines[i]
  BY PayloadsGrow, Zenon
<1>2. /\ W \in SUBSET DOMAIN lines
      /\ With(class)' = IF ReportsClass(l, class) THEN W \cup {k} ELSE W
  BY <1>1, Zenon DEF With, ReportsClass
<1>3. W \in SUBSET Nat /\ k \in Nat /\ \A j \in W : j <= k
  BY <1>1, <1>2, SMTT(30)
<1> HIDE DEF k, W
<1>4. CASE ReportsClass(l, class)
  <2> DEFINE S == W \cup {k}
  <2>1. S \in SUBSET Nat /\ k \in S /\ \A j \in S : j <= k
    BY <1>3
  <2> HIDE DEF S
  <2>2. (CHOOSE i \in S : \A j \in S : j <= i) = k
    BY <2>1, LastIs, Zenon
  <2>3. With(class)' = S /\ S # {}
    BY <1>2, <1>4, <2>1, Zenon DEF S
  <2>4. Reported(class)' = l.report[1][class]
    BY <1>1, <2>2, <2>3, ZenonT(30) DEF Reported
  <2> QED
    BY <1>4, <2>1, <2>3, <2>4, ZenonT(30) DEF HasLast
<1>5. CASE ~ReportsClass(l, class)
  <2>1. With(class)' = With(class)
    BY <1>2, <1>5, Zenon DEF W
  <2>2. CASE W = {}
    BY <1>5, <2>1, <2>2, Zenon DEF Reported, HasLast, W
  <2>3. CASE W # {}
    <3>1. PICK m \in W : \A j \in W : j <= m
      BY <2>3, Zenon DEF HasLast, W
    <3>2. (CHOOSE i \in W : \A j \in W : j <= i) = m
      BY <1>3, <3>1, LastIs, Zenon
    <3>3. lines'[m] = lines[m]
      BY <1>1, <1>2, Zenon
    <3>4. Reported(class)' = Reported(class)
      <4>1. With(class) = W /\ With(class)' = W
        BY <2>1, Zenon DEF W
      <4>2. Reported(class) = lines[m].report[1][class]
        BY <2>3, <3>2, <4>1, Zenon DEF Reported
      <4>3. Reported(class)' = lines'[m].report[1][class]
        BY <2>3, <3>2, <4>1, Zenon DEF Reported
      <4> QED
        BY <3>3, <4>2, <4>3, Zenon
    <3> QED
      BY <1>5, <2>1, <3>1, <3>4, Zenon DEF HasLast, W
  <2> QED
    BY <2>2, <2>3, Zenon
<1> QED
  BY <1>4, <1>5, Zenon

\* What is reported of a class is a natural number.
LEMMA ReportedIsNat ==
  ASSUME StreamTypeOK, NEW class \in Classes, HasLast(class)
  PROVE  Reported(class) \in Nat
<1> DEFINE W == With(class)
<1>1. CASE W = {}
  BY <1>1, Zenon DEF Reported
<1>2. CASE W # {}
  <2>1. PICK m \in W : \A j \in W : j <= m
    BY <1>2, Zenon DEF HasLast
  <2>2. W \in SUBSET DOMAIN lines /\ DOMAIN lines \in SUBSET Nat
        /\ \A i \in W : lines[i].report # <<>>
    BY SMTT(30) DEF With, StreamTypeOK
  <2>3. lines[m] \in LineType /\ lines[m].report # <<>>
    BY <2>1, <2>2, SMTT(30) DEF StreamTypeOK
  <2>4. lines[m].report[1] \in Report
    BY <2>3, CountedIs, Zenon
  <2> HIDE DEF W
  <2>5. (CHOOSE i \in W : \A j \in W : j <= i) = m
    BY <2>1, <2>2, LastIs, Zenon
  <2>6. Reported(class) = lines[m].report[1][class]
    BY <1>2, <2>5, Zenon DEF Reported, W
  <2> QED
    BY <2>4, <2>6, CountsAreNat, Zenon
<1> QED
  BY <1>1, <1>2, Zenon

\* Nothing is read.
LEMMA BillSame ==
  ASSUME BillOK, UNCHANGED <<dialect, lines, finished, usage, seen>>
  PROVE  BillOK'
<1>1. \A class : With(class)' = With(class)
  BY Zenon DEF With
<1>2. \A class : Reported(class)' = Reported(class) /\ (HasLast(class)' <=> HasLast(class))
  <2>1. ASSUME NEW class PROVE Reported(class)' = Reported(class)
    <3>1. PICK W : With(class) = W
      BY Zenon
    <3>2. PICK c : c = CHOOSE i \in W : \A j \in W : j <= i
      BY Zenon
    <3>3. Reported(class) = IF W = {} THEN 0 ELSE lines[c].report[1][class]
      BY <3>1, <3>2 DEF Reported
    <3>4. With(class)' = W
      BY <1>1, <3>1, Zenon
    <3>5. Reported(class)' = IF W = {} THEN 0 ELSE lines'[c].report[1][class]
      BY <3>2, <3>4 DEF Reported
    <3> QED
      BY <3>3, <3>5, Zenon
  <2>2. \A class : HasLast(class)' <=> HasLast(class)
    BY <1>1, ZenonT(30) DEF HasLast
  <2> QED
    BY <2>1, <2>2, Zenon
<1>3. (Conforms' <=> Conforms) /\ (AsReported(usage)' <=> AsReported(usage))
  BY <1>2, Zenon DEF Conforms, AsReported
<1> QED
  BY <1>2, <1>3, Zenon DEF BillOK

\* A provider that conforms has conformed.
LEMMA ConformsBefore ==
  ASSUME StreamTypeOK, NEW l \in LineType, lines' = Append(lines, l), dialect' = dialect,
         Conforms'
  PROVE  /\ Conforms
         /\ l.kind = "start" => \A i \in DOMAIN lines : lines[i].kind = "skip"
<1> DEFINE k == Len(lines) + 1
<1>1. /\ DOMAIN lines' = DOMAIN lines \cup {k} /\ Len(lines) \in Nat
      /\ DOMAIN lines = 1 .. Len(lines)
      /\ lines'[k] = l
      /\ \A i \in DOMAIN lines : lines'[i] = lines[i]
  BY PayloadsGrow, Zenon
<1>2. \A i \in DOMAIN lines : i < k
  BY <1>1
<1> HIDE DEF k
<1> QED
  BY <1>1, <1>2, Zenon DEF Conforms

\* A line of nothing but noise has reported nothing.
LEMMA NothingReported ==
  ASSUME BillOK, \A i \in DOMAIN lines : lines[i].kind = "skip", NEW class
  PROVE  Reported(class) = 0
<1>1. With(class) = {}
  BY Zenon DEF BillOK, With
<1> QED
  BY <1>1, Zenon DEF Reported

\* AnthropicUsage and usageFrom: what a line makes of the usage is what the last
\* reports, this line included, add up to.
LEMMA UsageMoves ==
  ASSUME StreamTypeOK, BillOK, NEW l \in LineType, lines' = Append(lines, l),
         dialect' = dialect, usage' = Counted(l), Conforms'
  PROVE  AsReported(usage)'
<1>1. Conforms /\ AsReported(usage)
  BY ConformsBefore, Zenon DEF BillOK
<1>2. \A class \in Classes :
        /\ Reported(class) \in Nat
        /\ Reported(class)' = IF ReportsClass(l, class) THEN l.report[1][class]
                              ELSE Reported(class)
  BY ReportedMoves, ReportedIsNat, Zenon DEF BillOK
<1>3. CASE l.report = <<>>
  <2>1. usage' = usage /\ \A class \in Classes : Reported(class)' = Reported(class)
    BY <1>2, <1>3, CountedIs, Zenon DEF ReportsClass
  <2> QED
    BY <1>1, <2>1, Zenon DEF AsReported, Classes
<1>4. CASE l.report # <<>>
  <2> DEFINE r == l.report[1]
  <2>1. /\ r \in Report
        /\ r.prompt \in Nat /\ r.cached \in Nat /\ r.write \in Nat /\ r.output \in Nat
    BY <1>4, CountedIs, Zenon DEF Report
  <2>2. CASE dialect = "anthropic"
    <3>1. /\ Reported("prompt")' = IF r.prompt > 0 THEN r.prompt ELSE Reported("prompt")
          /\ Reported("cached")' = IF r.cached > 0 THEN r.cached ELSE Reported("cached")
          /\ Reported("write")' = IF r.write > 0 THEN r.write ELSE Reported("write")
          /\ Reported("output")' = IF r.output > 0 THEN r.output ELSE Reported("output")
      BY <1>2, <1>4, <2>2, Zenon DEF ReportsClass, Classes
    <3>2. l.kind = "start" =>
            /\ Reported("prompt") = 0 /\ Reported("cached") = 0 /\ Reported("write") = 0
            /\ Reported("output") = 0
      BY ConformsBefore, NothingReported, Zenon
    <3>3. /\ usage'.input = IF r.prompt > 0 \/ l.kind = "start" THEN r.prompt ELSE usage.input
          /\ usage'.cached = IF r.cached > 0 \/ l.kind = "start" THEN r.cached ELSE usage.cached
          /\ usage'.write = IF r.write > 0 \/ l.kind = "start" THEN r.write ELSE usage.write
          /\ usage'.output = IF r.output > 0 \/ l.kind = "start" THEN r.output ELSE usage.output
      BY <1>4, <2>2, CountedIs, ZenonT(30)
    <3> HIDE DEF r
    <3> QED
      BY <1>1, <2>1, <2>2, <3>1, <3>2, <3>3, SMTT(30) DEF AsReported
  <2>3. CASE dialect # "anthropic"
    <3> DEFINE u == usageFrom(r)
    <3>1. /\ Reported("prompt")' = r.prompt /\ Reported("cached")' = r.cached
          /\ Reported("output")' = r.output
      BY <1>2, <1>4, <2>3, Zenon DEF ReportsClass, Classes
    <3>2. usage' = IF u.input # 0 \/ u.output # 0 THEN u ELSE usage
      BY <1>4, <2>3, CountedIs, Zenon
    <3> HIDE DEF r
    <3>3. /\ u.input = IF r.prompt > r.cached THEN r.prompt - r.cached ELSE 0
          /\ u.cached = r.cached /\ u.output = r.output
      BY Zenon DEF usageFrom
    <3> HIDE DEF u
    <3> QED
      BY <2>1, <2>3, <3>1, <3>2, <3>3, SMTT(30) DEF AsReported
  <2> QED
    BY <2>2, <2>3, Zenon
<1> QED
  BY <1>3, <1>4, Zenon

\* A line read keeps the usage at the last report of each class.
LEMMA BillMoves ==
  ASSUME StreamTypeOK, BillOK, NEW l \in LineType, lines' = Append(lines, l),
         dialect' = dialect, usage' = Counted(l),
         l.kind = "skip" => l.report = <<>>,
         finished' => /\ l.report = <<>>
                      /\ seen' = IF usage.input # 0 \/ usage.output # 0 THEN usage ELSE seen
  PROVE  BillOK'
<1>1. \A class \in Classes : HasLast(class)'
  BY ReportedMoves, Zenon DEF BillOK
<1>2. \A i \in DOMAIN lines' : lines'[i].kind = "skip" => lines'[i].report = <<>>
  BY PayloadsGrow, ZenonT(30) DEF BillOK
<1>3. Conforms' => AsReported(usage)'
  BY UsageMoves, Zenon
<1>4. ASSUME finished', Conforms', Reported("output")' > 0 PROVE seen' = usage'
  <2>1. Conforms /\ AsReported(usage) /\ "output" \in Classes
    BY <1>4, ConformsBefore, Zenon DEF BillOK, Classes
  <2>2. usage' = usage /\ Reported("output")' = Reported("output")
        /\ Reported("output") \in Nat
    BY <1>4, <2>1, CountedIs, ReportedMoves, ReportedIsNat, ZenonT(30) DEF BillOK, ReportsClass
  <2>3. usage.output # 0
    BY <1>4, <2>1, <2>2 DEF AsReported
  <2> QED
    BY <1>4, <2>2, <2>3, Zenon
<1> QED
  BY <1>1, <1>2, <1>3, <1>4, ZenonT(30) DEF BillOK

\* Every step keeps the usage at the last report of each class.
LEMMA BillNext ==
  ASSUME StreamTypeOK, BillOK, [StreamNext]_streamVars
  PROVE  BillOK'
<1>1. ASSUME NEW l \in Lines, Relay(l) PROVE BillOK'
  <2>1. l \in LineType /\ l.kind # "skip" /\ (l.kind = "stop" => l.report = <<>>)
    BY LinesTyped, Zenon
  <2> QED
    BY <1>1, <2>1, BillMoves, Zenon DEF Relay
<1>2. CASE Skip
  <2>1. Line("skip") \in LineType /\ Line("skip").report = <<>>
    BY LinesTyped, Zenon DEF Line
  <2>2. PICK l \in LineType : lines' = Append(lines, l) /\ l.report = <<>>
    BY <1>2, <2>1, Zenon DEF Skip
  <2>3. usage' = Counted(l)
    BY <1>2, <2>2, CountedIs, Zenon DEF Skip
  <2> QED
    BY <1>2, <2>2, <2>3, BillMoves, Zenon DEF Skip
<1>3. ASSUME NEW e, Refused(e) PROVE BillOK'
  BY <1>3, BillSame, Zenon DEF Refused
<1>4. ASSUME NEW code, Breaks(code) PROVE BillOK'
  BY <1>4, BillSame, Zenon DEF Breaks
<1>5. CASE Begin \/ EndOfStream \/ Done
  BY <1>5, BillSame, Zenon DEF Begin, EndOfStream, Done
<1>6. CASE UNCHANGED streamVars
  BY <1>6, BillSame, Zenon DEF streamVars
<1> QED
  BY <1>1, <1>2, <1>3, <1>4, <1>5, <1>6, ZenonT(30) DEF StreamNext

StreamInv == StreamTypeOK /\ RelayOK /\ BillOK

\* A response that has not been read has reported and relayed nothing.
LEMMA StreamInvInit == StreamInit => StreamInv
<1> SUFFICES ASSUME StreamInit PROVE StreamInv
  BY Zenon
<1>1. StreamTypeOK
  <2>1. UsageOK(NoUsage)
    BY Zenon DEF UsageOK, NoUsage
  <2>2. lines \in Seq(LineType) /\ relayed \in Seq(Nat)
    BY DEF StreamInit
  <2> QED
    BY <2>1, <2>2, Zenon DEF StreamInit, StreamTypeOK
<1>2. lines = <<>> /\ DOMAIN lines = {} /\ relayed = <<>> /\ DOMAIN relayed = {}
  BY DEF StreamInit
<1>3. RelayOK
  BY <1>2, Zenon DEF StreamInit, RelayOK, Relayed
<1>4. \A class : With(class) = {} /\ Reported(class) = 0
  BY <1>2, Zenon DEF With, Reported
<1>5. usage = NoUsage /\ finished = FALSE
  BY Zenon DEF StreamInit
<1>6. BillOK
  BY <1>2, <1>4, <1>5 DEF BillOK, HasLast, AsReported, NoUsage
<1> QED
  BY <1>1, <1>3, <1>6, Zenon DEF StreamInv

\* The invariant holds of every response, however it ends.
LEMMA StreamInvariant == StreamSafety => []StreamInv
<1>1. StreamInv /\ [StreamNext]_streamVars => StreamInv'
  BY StreamTyped, RelayOKNext, BillNext, Zenon DEF StreamInv
<1> QED
  BY <1>1, StreamInvInit, PTL DEF StreamSafety

\* stream.Next and streamCompletion: [DONE] is sent only after the provider's own
\* terminator and every payload before it, in order.
THEOREM CompleteMeansTerminatedHolds == StreamSafety => []CompleteMeansTerminated
<1>1. StreamInv => CompleteMeansTerminated
  <2> SUFFICES ASSUME StreamTypeOK, RelayOK PROVE CompleteMeansTerminated
    BY Zenon DEF StreamInv
  <2>1. ASSUME Relayed
        PROVE  {relayed[n] : n \in DOMAIN relayed} = {i \in DOMAIN lines : Payload(i)}
    BY <2>1, Zenon DEF RelayOK, Relayed
  <2>2. pc # "done" => Len(recorded) = 0
    BY SMTT(30) DEF RelayOK
  <2> QED
    BY <2>1, <2>2 DEF RelayOK, CompleteMeansTerminated
<1> QED
  BY <1>1, StreamInvariant, PTL

\* AnthropicUsage, usageFrom and streamCompletion: a stream that ends well is
\* billed for the last count its provider gave of every class.
THEOREM BilledAsReportedHolds == StreamSafety => []BilledAsReported
<1>1. StreamInv => BilledAsReported
  BY DEF StreamInv, RelayOK, BillOK, AsReported, BilledAsReported
<1> QED
  BY <1>1, StreamInvariant, PTL
=============================================================================
