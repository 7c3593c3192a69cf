------------------------ MODULE SnapshotHolderProofs ------------------------
(***************************************************************************)
(* Proofs about SnapshotHolder, for any set of generations, any finite set *)
(* of request goroutines and any snapshots, and about its composition with *)
(* the component registry in ComponentBinding, for any bindings.           *)
(***************************************************************************)
EXTENDS ComponentBinding, FiniteSetTheorems, TLAPS

(***************************************************************************)
(* The inductive invariant.  RefsExact ties the counts to the leases; the  *)
(* rest says which generations each actor can be at work on, and that a    *)
(* count that has reached zero belongs to exactly one pending or finished  *)
(* call of onRetire.                                                       *)
(***************************************************************************)
Reachable ==
  /\ current \in made
  /\ previous \in made \cup {NoGen}
  /\ current # previous
  /\ retired \subseteq made
  /\ \A p \in Workers : wpc[p] # "idle" => gen[p] \in made
  /\ \A p \in Workers : wpc[p] = "counted" => seen[p] > 0
  /\ swapper.pc \in {"unref", "retiring"} =>
       swapper.victim \in made \ {current, previous}

Drained ==
  /\ \A g \in retired : refs[g] = 0
  /\ \A p \in Workers : wpc[p] = "retiring" => refs[gen[p]] = 0
  /\ swapper.pc = "retiring" => refs[swapper.victim] = 0

IInv == HolderTypeOK /\ Reachable /\ RefsExact /\ Drained /\ RetireOnce

-----------------------------------------------------------------------------
\* The leases of a generation are a finite set, so its count is a number.
LEMMA LeasesFinite ==
  ASSUME HolderTypeOK, NEW g \in Gens
  PROVE  IsFiniteSet(Leases(g)) /\ Cardinality(Leases(g)) \in Nat
<1>1. Leases(g) \subseteq Workers
  BY Zenon DEF Leases
<1>2. IsFiniteSet(Leases(g))
  BY <1>1, HolderAssumption, FS_Subset, Zenon
<1> QED
  BY <1>2, FS_CardinalityType, Zenon

\* A generation somebody has leased has a positive count of leases.
LEMMA LeasedCounts ==
  ASSUME HolderTypeOK, NEW g \in Gens, NEW p \in Leases(g)
  PROVE  Cardinality(Leases(g)) > 0
<1>1. Leases(g) # {}
  BY Zenon
<1>2. Cardinality(Leases(g)) # 0
  BY <1>1, LeasesFinite, FS_EmptySet, Zenon
<1> QED
  BY <1>2, LeasesFinite

\* A step that moves nobody in or out of "leased" changes no lease set.
LEMMA LeasesSame ==
  ASSUME NEW g \in Gens,
         \A q \in Workers : (wpc'[q] = "leased" /\ gen'[q] = g)
                              <=> (wpc[q] = "leased" /\ gen[q] = g)
  PROVE  Leases(g)' = Leases(g)
BY Zenon DEF Leases

\* newGeneration makes a generation that did not exist.
LEMMA FreshIsNew ==
  ASSUME Gens \ made # {}
  PROVE  FreshGen \in Gens \ made
BY Zenon DEF FreshGen

\* New makes the first generation.
LEMMA FirstIsGen == HolderInit => current \in Gens
BY HolderAssumption, Zenon DEF HolderInit

\* HolderInit establishes the invariant: one generation, with the Holder's reference.
LEMMA InitIInv == HolderInit => IInv
<1> SUFFICES ASSUME HolderInit PROVE IInv
  BY Zenon
<1>0. current \in Gens
  BY FirstIsGen, Zenon
<1> USE HolderAssumption, <1>0 DEF HolderInit
<1>1. HolderTypeOK
  BY DEF HolderTypeOK, Unlocked
<1>2. Reachable
  BY Zenon DEF Reachable, Unlocked
<1>3. RefsExact
  <2> SUFFICES ASSUME NEW g \in Gens
               PROVE  refs[g] = Cardinality(Leases(g)) + HolderRefs(g)
    BY Zenon DEF RefsExact
  <2>1. Leases(g) = {}
    BY Zenon DEF Leases
  <2>2. Cardinality(Leases(g)) = 0
    BY <2>1, FS_EmptySet, Zenon
  <2>3. HolderRefs(g) = IF g = current THEN 1 ELSE 0
    BY DEF HolderRefs, One, Unlocked
  <2> QED
    BY <2>2, <2>3
<1>4. Drained
  BY Zenon DEF Drained, Unlocked
<1>5. RetireOnce
  BY Zenon DEF RetireOnce, Unlocked
<1> QED
  BY <1>1, <1>2, <1>3, <1>4, <1>5, Zenon DEF IInv

-----------------------------------------------------------------------------
\* Steps that touch neither the counts nor who holds what keep RefsExact.
LEMMA RefsExactSame ==
  ASSUME RefsExact, UNCHANGED refs,
         \A g \in Gens : Leases(g)' = Leases(g) /\ HolderRefs(g)' = HolderRefs(g)
  PROVE  RefsExact'
BY Zenon DEF RefsExact

\* A worker's step before it has a lease: loading the pointer, loading the
\* count, or losing the compare-and-swap.
LEMMA AcquireKeepsIInv ==
  ASSUME IInv, NEW p \in Workers, LoadCurrent(p) \/ LoadRefs(p)
  PROVE  IInv'
<1> USE HolderAssumption DEF IInv, LoadCurrent, LoadRefs
<1>1. HolderTypeOK'
  BY DEF HolderTypeOK, Reachable
<1>2. Reachable'
  BY DEF HolderTypeOK, Reachable
<1>3. \A g \in Gens : Leases(g)' = Leases(g) /\ HolderRefs(g)' = HolderRefs(g)
  BY DEF Leases, HolderRefs, HolderTypeOK
<1>4. RefsExact'
  BY <1>3, RefsExactSame, Zenon
<1>5. Drained'
  BY DEF Drained, HolderTypeOK
<1>6. RetireOnce'
  BY DEF RetireOnce, HolderTypeOK
<1> QED
  BY <1>1, <1>2, <1>4, <1>5, <1>6, Zenon

\* A compare-and-swap that succeeds found a positive count, so it never
\* revives a drained generation.
LEMMA CompareAndSwapKeepsIInv ==
  ASSUME IInv, NEW p \in Workers, CompareAndSwap(p)
  PROVE  IInv'
<1> USE HolderAssumption DEF IInv, CompareAndSwap
<1>1. CASE refs[gen[p]] # seen[p]
  <2>1. HolderTypeOK' /\ Reachable' /\ Drained' /\ RetireOnce'
    BY <1>1 DEF HolderTypeOK, Reachable, Drained, RetireOnce
  <2>2. \A g \in Gens : Leases(g)' = Leases(g) /\ HolderRefs(g)' = HolderRefs(g)
    BY <1>1 DEF Leases, HolderRefs, HolderTypeOK
  <2>3. RefsExact'
    BY <1>1, <2>2, RefsExactSame, Zenon
  <2> QED
    BY <2>1, <2>3, Zenon
<1>2. CASE refs[gen[p]] = seen[p]
  <2> DEFINE h == gen[p]
  <2>1. h \in Gens /\ refs[h] > 0 /\ refs[h] \in Int
    BY <1>2, Zenon DEF HolderTypeOK, Reachable
  <2>2. /\ refs' = [refs EXCEPT ![h] = @ + 1]
        /\ wpc' = [wpc EXCEPT ![p] = "leased"]
        /\ UNCHANGED <<current, previous, snap, made, retired, gen, seen, swapper>>
    BY <1>2, Zenon
  <2>3. HolderTypeOK' /\ Reachable'
    BY <2>1, <2>2 DEF HolderTypeOK, Reachable
  <2>4. Drained' /\ RetireOnce'
    BY <2>1, <2>2 DEF HolderTypeOK, Drained, RetireOnce
  <2>5. ASSUME NEW g \in Gens
        PROVE  refs'[g] = Cardinality(Leases(g)') + HolderRefs(g)'
    <3>1. HolderRefs(g)' = HolderRefs(g)
      BY <2>2, Zenon DEF HolderRefs
    <3>2. CASE g = h
      <4>1. Leases(g)' = Leases(g) \cup {p}
        BY <2>2, <3>2 DEF Leases, HolderTypeOK
      <4>2. p \notin Leases(g)
        BY Zenon DEF Leases
      <4>3. Cardinality(Leases(g)') = Cardinality(Leases(g)) + 1
        BY <4>1, <4>2, LeasesFinite, FS_AddElement, Zenon
      <4>4. HolderRefs(g) \in Int
        BY DEF HolderRefs, One
      <4> QED
        BY <2>1, <2>2, <3>1, <3>2, <4>3, <4>4, LeasesFinite DEF RefsExact, HolderTypeOK
    <3>3. CASE g # h
      <4>1. Leases(g)' = Leases(g)
        BY <2>2, <3>3, Zenon DEF Leases, HolderTypeOK
      <4> QED
        BY <2>2, <3>1, <3>3, <4>1, Zenon DEF RefsExact, HolderTypeOK
    <3> QED
      BY <3>2, <3>3, Zenon
  <2> QED
    BY <2>3, <2>4, <2>5, Zenon DEF RefsExact
<1> QED
  BY <1>1, <1>2, Zenon

\* A release takes its own lease out of the count; at zero the releasing
\* goroutine is the only one that owes a call of onRetire.
LEMMA ReleaseKeepsIInv ==
  ASSUME IInv, NEW p \in Workers, Release(p)
  PROVE  IInv'
<1> USE HolderAssumption DEF IInv, Release
<1> DEFINE h == gen[p]
<1>1. h \in made /\ h \in Gens /\ p \in Leases(h)
  BY Zenon DEF HolderTypeOK, Reachable, Leases
<1>2. Cardinality(Leases(h)) > 0 /\ Cardinality(Leases(h)) \in Nat
  BY <1>1, LeasedCounts, LeasesFinite, Zenon
<1>3. HolderRefs(h) \in Nat
  BY DEF HolderRefs, One
<1>4. refs[h] > 0 /\ refs[h] \in Int
  BY <1>1, <1>2, <1>3 DEF RefsExact
<1>5. HolderTypeOK' /\ Reachable'
  BY <1>1 DEF HolderTypeOK, Reachable
<1>6. Drained'
  BY <1>1, <1>4 DEF Drained, HolderTypeOK
<1>7. RetireOnce'
  BY <1>1, <1>4 DEF RetireOnce, Drained, HolderTypeOK
<1>8. ASSUME NEW g \in Gens
      PROVE  refs'[g] = Cardinality(Leases(g)') + HolderRefs(g)'
  <2>1. HolderRefs(g)' = HolderRefs(g)
    BY Zenon DEF HolderRefs
  <2>2. CASE g = h
    <3>1. Leases(g)' = Leases(g) \ {p}
      BY <2>2, Zenon DEF Leases, HolderTypeOK
    <3>2. Cardinality(Leases(g)') = Cardinality(Leases(g)) - 1
      <4>1. p \in Leases(g) /\ IsFiniteSet(Leases(g))
        BY <1>1, <2>2, LeasesFinite, Zenon
      <4>2. Cardinality(Leases(g) \ {p}) = Cardinality(Leases(g)) - 1
        BY <4>1, FS_RemoveElement, Zenon
      <4> QED BY <3>1, <4>2, Zenon
    <3> QED
      BY <1>2, <1>3, <1>4, <2>1, <2>2, <3>2 DEF RefsExact, HolderTypeOK
  <2>3. CASE g # h
    <3>1. Leases(g)' = Leases(g)
      BY <2>3, Zenon DEF Leases, HolderTypeOK
    <3> QED
      BY <2>1, <2>3, <3>1, Zenon DEF RefsExact, HolderTypeOK
  <2> QED
    BY <2>2, <2>3, Zenon
<1> QED
  BY <1>5, <1>6, <1>7, <1>8, Zenon DEF RefsExact

\* Calling onRetire changes no count.
LEMMA RetireKeepsIInv ==
  ASSUME IInv, (\E p \in Workers : RetireLast(p)) \/ SwapperRetire
  PROVE  IInv'
<1> USE HolderAssumption DEF IInv
<1>1. ASSUME NEW p \in Workers, RetireLast(p) PROVE IInv'
  <2> USE <1>1 DEF RetireLast
  <2>1. HolderTypeOK' /\ Reachable'
    BY DEF HolderTypeOK, Reachable
  <2>2. \A g \in Gens : Leases(g)' = Leases(g) /\ HolderRefs(g)' = HolderRefs(g)
    BY Zenon DEF Leases, HolderRefs, HolderTypeOK
  <2>3. RefsExact'
    BY <2>2, RefsExactSame, Zenon
  <2>4. Drained' /\ RetireOnce'
    BY DEF Drained, RetireOnce, HolderTypeOK
  <2> QED
    BY <2>1, <2>3, <2>4, Zenon
<1>2. ASSUME SwapperRetire PROVE IInv'
  <2> USE <1>2 DEF SwapperRetire, Unlocked, wvars
  <2>1. HolderTypeOK' /\ Reachable'
    BY DEF HolderTypeOK, Reachable
  <2>2. \A g \in Gens : Leases(g)' = Leases(g) /\ HolderRefs(g)' = HolderRefs(g)
    BY Zenon DEF Leases, HolderRefs, HolderTypeOK
  <2>3. RefsExact'
    BY <2>2, RefsExactSame, Zenon
  <2>4. Drained' /\ RetireOnce'
    BY Zenon DEF Drained, RetireOnce, HolderTypeOK
  <2> QED
    BY <2>1, <2>3, <2>4, Zenon
<1> QED
  BY <1>1, <1>2, Zenon

\* Taking the lock for a Swap changes nothing a request can see.
LEMMA BeginSwapKeepsIInv ==
  ASSUME IInv, NEW s \in Snapshots, BeginSwap(s)
  PROVE  IInv'
<1> USE HolderAssumption DEF IInv, BeginSwap, wvars
<1>1. HolderTypeOK' /\ Reachable'
  BY Zenon DEF HolderTypeOK, Reachable
<1>2. \A g \in Gens : Leases(g)' = Leases(g) /\ HolderRefs(g)' = HolderRefs(g)
  BY Zenon DEF Leases, HolderRefs, HolderTypeOK
<1>3. RefsExact'
  BY <1>2, RefsExactSame, Zenon
<1>4. Drained' /\ RetireOnce'
  BY Zenon DEF Drained, RetireOnce, HolderTypeOK
<1> QED
  BY <1>1, <1>3, <1>4, Zenon

\* Storing a new generation: it starts at one, the old one keeps the Holder's
\* reference as previous, and the displaced one keeps it until it is unref'd.
LEMMA InstallSwapKeepsIInv ==
  ASSUME IInv, InstallSwap
  PROVE  IInv'
<1> USE HolderAssumption DEF IInv, InstallSwap, wvars
<1>1. PICK n \in Gens \ made :
        /\ made' = made \cup {n}
        /\ snap' = [snap EXCEPT ![n] = swapper.next]
        /\ refs' = [refs EXCEPT ![n] = 1]
        /\ current' = n
  BY FreshIsNew, Zenon
<1>2. HolderTypeOK'
  <2>1. swapper' \in [pc: {"unlocked", "applying", "unref", "retiring"},
                      next: Snapshots, victim: Gens \cup {NoGen}]
    BY Zenon DEF HolderTypeOK, Unlocked
  <2> QED
    BY <1>1, <2>1 DEF HolderTypeOK
<1>3. Reachable'
  BY <1>1 DEF HolderTypeOK, Reachable, Unlocked
<1>4. Drained' /\ RetireOnce'
  BY <1>1 DEF Drained, RetireOnce, HolderTypeOK, Reachable, Unlocked
<1>5. ASSUME NEW g \in Gens
      PROVE  refs'[g] = Cardinality(Leases(g)') + HolderRefs(g)'
  <2>1. Leases(g)' = Leases(g)
    BY Zenon DEF Leases
  <2>2. CASE g = n
    <3>1. Leases(g) = {}
      BY <2>2 DEF Leases, Reachable, HolderTypeOK
    <3>2. Cardinality(Leases(g)) = 0
      BY <3>1, FS_EmptySet, Zenon
    <3>3. HolderRefs(g)' = 1
      BY <1>1, <2>2 DEF HolderRefs, One, Reachable, HolderTypeOK, Unlocked
    <3> QED
      BY <1>1, <2>1, <2>2, <3>2, <3>3 DEF HolderTypeOK
  <2>3. CASE g # n
    <3>1. HolderRefs(g)' = HolderRefs(g)
      BY <1>1, <2>3 DEF HolderRefs, One, Reachable, HolderTypeOK, Unlocked
    <3> QED
      BY <1>1, <2>1, <2>3, <3>1 DEF RefsExact, HolderTypeOK
  <2> QED
    BY <2>2, <2>3, Zenon
<1> QED
  BY <1>2, <1>3, <1>4, <1>5, Zenon DEF RefsExact

\* A rollback moves the Holder's references between its slots and drops none
\* of them yet.
LEMMA RollbackKeepsIInv ==
  ASSUME IInv, Rollback
  PROVE  IInv'
<1> USE HolderAssumption DEF IInv, Rollback, wvars
<1>1. HolderTypeOK' /\ Reachable'
  BY Zenon DEF HolderTypeOK, Reachable
<1>2. ASSUME NEW g \in Gens
      PROVE  Leases(g)' = Leases(g) /\ HolderRefs(g)' = HolderRefs(g)
  <2>1. Leases(g)' = Leases(g)
    BY Zenon DEF Leases
  <2>2. HolderRefs(g)' = HolderRefs(g)
    BY DEF HolderRefs, One, Reachable, HolderTypeOK
  <2> QED
    BY <2>1, <2>2, Zenon
<1>3. RefsExact'
  BY <1>2, RefsExactSame, Zenon
<1>4. Drained' /\ RetireOnce'
  BY Zenon DEF Drained, RetireOnce, HolderTypeOK
<1> QED
  BY <1>1, <1>3, <1>4, Zenon

\* The displaced generation loses the Holder's reference; if that was the last
\* one, no lease is left and nobody else owes its onRetire.
LEMMA SwapperUnrefKeepsIInv ==
  ASSUME IInv, SwapperUnref
  PROVE  IInv'
<1> USE HolderAssumption DEF IInv, SwapperUnref, wvars
<1>0. PICK v \in Gens : v = swapper.victim
  BY Zenon DEF HolderTypeOK, Reachable
<1>1. v \in made /\ v = swapper.victim /\ v # current /\ v # previous
  BY <1>0, Zenon DEF Reachable
<1>2. HolderRefs(v) = 1 /\ HolderRefs(v)' = 0
  <2>1. swapper'.pc # "unref"
    BY Zenon DEF HolderTypeOK, Unlocked
  <2>2. HolderRefs(v) = 1
    BY <1>1 DEF HolderRefs, One
  <2>3. HolderRefs(v)' = 0
    BY <1>1, <2>1 DEF HolderRefs, One
  <2> QED
    BY <2>2, <2>3, Zenon
<1>3. Cardinality(Leases(v)) \in Nat
  BY <1>1, LeasesFinite, Zenon
<1>4. refs[v] > 0 /\ refs[v] \in Int
  BY <1>1, <1>2, <1>3 DEF RefsExact
<1>5. HolderTypeOK' /\ Reachable'
  BY <1>1 DEF HolderTypeOK, Reachable, Unlocked
<1>6. Drained'
  BY <1>1, <1>4 DEF Drained, HolderTypeOK, Unlocked
<1>7. RetireOnce'
  BY <1>1, <1>4 DEF RetireOnce, Drained, HolderTypeOK, Unlocked
<1>8. ASSUME NEW g \in Gens
      PROVE  refs'[g] = Cardinality(Leases(g)') + HolderRefs(g)'
  <2>1. Leases(g)' = Leases(g)
    BY Zenon DEF Leases
  <2>2. CASE g = v
    <3>1. refs[v] = Cardinality(Leases(v)) + 1
      BY <1>1, <1>2, Zenon DEF RefsExact
    <3>2. refs'[v] = refs[v] - 1
      BY <1>1, Zenon DEF HolderTypeOK
    <3> HIDE DEF IInv, SwapperUnref
    <3> QED
      BY <1>2, <1>3, <2>1, <2>2, <3>1, <3>2
  <2>3. CASE g # v
    <3>1. swapper'.pc # "unref"
      BY Zenon DEF HolderTypeOK, Unlocked
    <3>2. HolderRefs(g)' = HolderRefs(g)
      BY <1>1, <2>3, <3>1, Zenon DEF HolderRefs, One
    <3>3. refs'[g] = refs[g]
      BY <1>1, <2>3, Zenon DEF HolderTypeOK
    <3> QED
      BY <2>1, <3>2, <3>3, Zenon DEF RefsExact
  <2> QED
    BY <2>2, <2>3, Zenon
<1> QED
  BY <1>5, <1>6, <1>7, <1>8, Zenon DEF RefsExact

\* Every step of the Holder and of its users keeps the invariant.
LEMMA NextIInv == IInv /\ [HolderNext]_holderVars => IInv'
<1> SUFFICES ASSUME IInv, [HolderNext]_holderVars PROVE IInv'
  BY Zenon
<1>1. ASSUME NEW p \in Workers, Acquire(p) PROVE IInv'
  BY <1>1, AcquireKeepsIInv, CompareAndSwapKeepsIInv, Zenon DEF Acquire
<1>2. ASSUME NEW p \in Workers, Release(p) PROVE IInv'
  BY <1>2, ReleaseKeepsIInv, Zenon
<1>3. ASSUME NEW p \in Workers, RetireLast(p) PROVE IInv'
  BY <1>3, RetireKeepsIInv, Zenon
<1>4. ASSUME NEW s \in Snapshots, BeginSwap(s) PROVE IInv'
  BY <1>4, BeginSwapKeepsIInv, Zenon
<1>5. CASE Rollback
  BY <1>5, RollbackKeepsIInv, Zenon
<1>6. CASE SwapperStep
  BY <1>6, InstallSwapKeepsIInv, SwapperUnrefKeepsIInv, RetireKeepsIInv, Zenon
     DEF SwapperStep
<1>7. CASE UNCHANGED holderVars
  <2>1. \A g \in Gens : Leases(g)' = Leases(g) /\ HolderRefs(g)' = HolderRefs(g)
    BY <1>7, Zenon DEF Leases, HolderRefs, holderVars
  <2>2. RefsExact'
    BY <1>7, <2>1, RefsExactSame, Zenon DEF IInv, holderVars
  <2> QED
    BY <1>7, <2>2, Zenon DEF IInv, HolderTypeOK, Reachable, Drained, RetireOnce, holderVars
<1> QED
  BY <1>1, <1>2, <1>3, <1>4, <1>5, <1>6, <1>7, Zenon DEF HolderNext

-----------------------------------------------------------------------------
\* The inductive invariant holds in every reachable state of the Holder.
THEOREM Invariance == HolderSpec => []IInv
<1>1. HolderInit => IInv
  BY InitIInv, Zenon
<1>2. IInv /\ [HolderNext]_holderVars => IInv'
  BY NextIInv, Zenon
<1> QED
  BY <1>1, <1>2, PTL DEF HolderSpec

\* Every value the Holder and its users reach has its type.
THEOREM TypeCorrect == HolderSpec => []HolderTypeOK
BY Invariance, PTL DEF IInv

\* The reference counts of tryRef, unref, Swap and Rollback are exact for any
\* number of concurrent requests and any interleaving.
THEOREM RefsAreExact == HolderSpec => []RefsExact
BY Invariance, PTL DEF IInv

\* A retired generation has a count of zero, so nothing refers to it.
LEMMA RetiredUnusedFromIInv == IInv => RetiredUnused
<1> SUFFICES ASSUME IInv, NEW g \in retired
             PROVE  Leases(g) = {} /\ g # current /\ g # previous
  BY Zenon DEF RetiredUnused
<1>1. g \in Gens /\ refs[g] = 0
  BY Zenon DEF IInv, HolderTypeOK, Drained
<1>2. Cardinality(Leases(g)) \in Nat
  BY <1>1, LeasesFinite, Zenon DEF IInv
<1>3. Cardinality(Leases(g)) + HolderRefs(g) = 0
  BY <1>1, Zenon DEF IInv, RefsExact
<1>4. HolderRefs(g) \in Nat
  BY DEF HolderRefs, One
<1>5. Cardinality(Leases(g)) = 0 /\ HolderRefs(g) = 0
  BY <1>2, <1>3, <1>4
<1>6. Leases(g) = {}
  BY <1>1, <1>5, LeasesFinite, FS_EmptySet, Zenon DEF IInv
<1>7. g # current /\ g # previous
  BY <1>5 DEF HolderRefs, One
<1> QED
  BY <1>6, <1>7, Zenon

\* onRetire is never called for a generation that is leased, served or kept
\* for rollback.
THEOREM RetiredIsUnused == HolderSpec => []RetiredUnused
BY Invariance, RetiredUnusedFromIInv, PTL

\* At most one call of onRetire is ever owed or made for a generation.
THEOREM RetiredOnce == HolderSpec => []RetireOnce
BY Invariance, PTL DEF IInv

\* While onApply runs, the snapshot being applied is still no older than the
\* one being served: the swap lock keeps the check of checkMonotonic current.
CheckStillHolds ==
  swapper.pc = "applying" => Monotonic(snap[current], swapper.next)

\* The lock keeps the check valid across every step of every goroutine.
LEMMA CheckKept == IInv /\ CheckStillHolds /\ [HolderNext]_holderVars => CheckStillHolds'
<1> SUFFICES ASSUME IInv, CheckStillHolds, [HolderNext]_holderVars PROVE CheckStillHolds'
  BY Zenon
<1>1. ASSUME UNCHANGED <<snap, current, swapper>> PROVE CheckStillHolds'
  BY <1>1, Zenon DEF CheckStillHolds, Monotonic
<1>2. ASSUME NEW p \in Workers, Acquire(p) \/ Release(p) \/ RetireLast(p)
      PROVE  CheckStillHolds'
  BY <1>1, <1>2, Zenon
     DEF Acquire, LoadCurrent, LoadRefs, CompareAndSwap, Release, RetireLast
<1>3. ASSUME NEW s \in Snapshots, BeginSwap(s) PROVE CheckStillHolds'
  BY <1>3, Zenon DEF BeginSwap, CheckStillHolds, Monotonic
<1>4. CASE Rollback \/ SwapperStep
  <2>1. Rollback => swapper'.pc # "applying"
    BY Zenon DEF Rollback, IInv, HolderTypeOK
  <2>2. InstallSwap => swapper'.pc # "applying"
    BY DEF InstallSwap, Unlocked, IInv, HolderTypeOK
  <2>3. SwapperUnref => swapper'.pc # "applying"
    BY DEF SwapperUnref, Unlocked, IInv, HolderTypeOK
  <2>4. SwapperRetire => swapper'.pc # "applying"
    BY DEF SwapperRetire, Unlocked
  <2> QED
    BY <1>4, <2>1, <2>2, <2>3, <2>4, Zenon DEF SwapperStep, CheckStillHolds
<1>5. CASE UNCHANGED holderVars
  BY <1>1, <1>5, Zenon DEF holderVars
<1> QED
  BY <1>2, <1>3, <1>4, <1>5, Zenon DEF HolderNext

\* No step other than a Rollback takes a worker back to an older layer.
THEOREM RegressionNeverSilent == HolderSpec => NoSilentRegression
<1>1. HolderInit => CheckStillHolds
  BY DEF HolderInit, Unlocked, CheckStillHolds
<1>2. IInv /\ CheckStillHolds /\ [HolderNext]_holderVars =>
        [current' # current /\ ~Rollback
           => Monotonic(snap[current], snap'[current'])]_holderVars
  <2> SUFFICES ASSUME IInv, CheckStillHolds, [HolderNext]_holderVars,
                      current' # current, ~Rollback
               PROVE  Monotonic(snap[current], snap'[current'])
    BY Zenon
  <2>1. InstallSwap
    BY Zenon DEF HolderNext, Acquire, LoadCurrent, LoadRefs, CompareAndSwap, Release,
           RetireLast, BeginSwap, SwapperStep, SwapperUnref, SwapperRetire, holderVars
  <2>2. snap'[current'] = swapper.next
    BY <2>1, FreshIsNew, Zenon DEF InstallSwap, IInv, HolderTypeOK
  <2> QED
    BY <2>1, <2>2, Zenon DEF InstallSwap, CheckStillHolds
<1> QED
  BY <1>1, <1>2, CheckKept, Invariance, PTL DEF HolderSpec, NoSilentRegression

-----------------------------------------------------------------------------
\* Workers that are not "leased" hold nothing in LeaseService's terms.
LeaseOf == [p \in Workers |-> IF wpc[p] = "leased" THEN gen[p] ELSE NoGen]

\* Each step of the Holder is a step of LeaseService or leaves its variables
\* alone.
LEMMA StepRefines ==
  IInv /\ IInv' /\ [HolderNext]_holderVars => [Promise!LNext]_(Promise!lvars)
<1> SUFFICES ASSUME IInv, IInv', [HolderNext]_holderVars
             PROVE  [Promise!LNext]_(Promise!lvars)
  BY Zenon
<1> USE HolderAssumption
<1>1. ASSUME NEW p \in Workers, LoadCurrent(p) \/ LoadRefs(p)
      PROVE  UNCHANGED Promise!lvars
  BY <1>1 DEF LoadCurrent, LoadRefs, Promise!lvars, IInv, HolderTypeOK
<1>2. ASSUME NEW p \in Workers, CompareAndSwap(p)
      PROVE  Promise!Borrow(p) \/ UNCHANGED Promise!lvars
  <2>1. CASE refs[gen[p]] # seen[p]
    BY <1>2, <2>1, Zenon DEF CompareAndSwap, Promise!lvars, IInv, HolderTypeOK
  <2>2. CASE refs[gen[p]] = seen[p]
    <3>1. gen[p] \in made \ retired
      BY <1>2, <2>2 DEF CompareAndSwap, IInv, HolderTypeOK, Reachable, Drained
    <3>2. LeaseOf[p] = NoGen /\ LeaseOf' = [LeaseOf EXCEPT ![p] = gen[p]]
      <4>1. wpc' = [wpc EXCEPT ![p] = "leased"] /\ gen' = gen /\ wpc[p] = "counted"
        BY <1>2, <2>2, Zenon DEF CompareAndSwap
      <4>2. \A q \in Workers :
              wpc'[q] = IF q = p THEN "leased" ELSE wpc[q]
        BY <4>1, Zenon DEF IInv, HolderTypeOK
      <4> QED
        BY <4>1, <4>2, ZenonT(30) DEF LeaseOf
    <3>3. UNCHANGED <<made, retired, current, previous>>
      BY <1>2, Zenon DEF CompareAndSwap
    <3> QED
      BY <3>1, <3>2, <3>3, Zenon DEF Promise!Borrow, LeaseOf
  <2> QED
    BY <2>1, <2>2, Zenon
<1>3. ASSUME NEW p \in Workers, Release(p)
      PROVE  Promise!Return(p)
  <2>1. LeaseOf[p] # NoGen /\ LeaseOf' = [LeaseOf EXCEPT ![p] = NoGen]
    <3>1. gen' = gen /\ wpc[p] = "leased" /\ gen[p] \in Gens
      BY <1>3, Zenon DEF Release, IInv, HolderTypeOK, Reachable
    <3>2. wpc'[p] # "leased" /\ \A q \in Workers \ {p} : wpc'[q] = wpc[q]
      BY <1>3, Zenon DEF Release, IInv, HolderTypeOK
    <3> QED
      BY <3>1, <3>2, Zenon DEF LeaseOf
  <2>2. UNCHANGED <<made, retired, current, previous>>
    BY <1>3, Zenon DEF Release
  <2> QED
    BY <2>1, <2>2, Zenon DEF Promise!Return, LeaseOf
<1>4. ASSUME NEW g \in made \ retired, retired' = retired \cup {g},
             UNCHANGED <<made, current, previous, gen>>, LeaseOf' = LeaseOf
      PROVE  Promise!RetireGen(g)
  <2>1. g \in Gens /\ g \in retired'
    BY <1>4, Zenon DEF IInv, HolderTypeOK, Reachable
  <2>2. RetiredUnused'
    BY RetiredUnusedFromIInv, PTL
  <2>3. Leases(g)' = {} /\ g # current /\ g # previous
    BY <1>4, <2>1, <2>2, Zenon DEF RetiredUnused
  <2>4. \A p \in Workers : LeaseOf[p] # g
    BY <1>4, <2>1, <2>3, Zenon DEF LeaseOf, Leases
  <2> QED
    BY <1>4, <2>1, <2>3, <2>4, Zenon DEF Promise!RetireGen, LeaseOf
<1>5. ASSUME NEW p \in Workers, RetireLast(p)
      PROVE  \E g \in Gens : Promise!RetireGen(g)
  <2>1. gen[p] \in made \ retired /\ gen[p] \in Gens
    BY <1>5, Zenon DEF RetireLast, IInv, HolderTypeOK, Reachable, RetireOnce
  <2>2. LeaseOf' = LeaseOf
    BY <1>5, Zenon DEF RetireLast, LeaseOf, IInv, HolderTypeOK
  <2>3. Promise!RetireGen(gen[p])
    BY <1>4, <1>5, <2>1, <2>2, Zenon DEF RetireLast
  <2> QED
    BY <2>1, <2>3, Zenon
<1>6. ASSUME NEW s \in Snapshots, BeginSwap(s)
      PROVE  UNCHANGED Promise!lvars
  BY <1>6, Zenon DEF BeginSwap, wvars, Promise!lvars
<1>7. ASSUME InstallSwap \/ Rollback
      PROVE  \E K \in SUBSET Gens : Promise!Keep(K)
  <2> DEFINE K == {current', previous'} \ {NoGen}
  <2> DEFINE Kept == /\ K \in SUBSET Gens /\ K # {} /\ K \cap retired = {}
                     /\ made' \ retired' = (made \ retired) \cup K
  <2>0. /\ current \in Gens \ retired /\ current \in made
        /\ previous \in (Gens \ retired) \cup {NoGen} /\ previous \in made \cup {NoGen}
        /\ retired \subseteq made
    BY RetiredUnusedFromIInv, Zenon DEF IInv, HolderTypeOK, Reachable, RetiredUnused
  <2>1. ASSUME InstallSwap PROVE Kept
    <3>1. PICK n \in Gens \ made : current' = n /\ made' = made \cup {n}
      BY <2>1, FreshIsNew, Zenon DEF InstallSwap
    <3>2. K = {n, current} /\ retired' = retired
      BY <2>0, <2>1, <3>1, Zenon DEF InstallSwap
    <3> QED
      BY <2>0, <3>1, <3>2, Zenon
  <2>2. ASSUME Rollback PROVE Kept
    <3>1. K = {previous} /\ retired' = retired /\ made' = made /\ previous # NoGen
      BY <2>0, <2>2, Zenon DEF Rollback
    <3> QED
      BY <2>0, <3>1, Zenon
  <2>3. UNCHANGED <<retired, wpc, gen>>
    BY <1>7, Zenon DEF InstallSwap, Rollback, wvars
  <2>4. Kept
    BY <1>7, <2>1, <2>2, Zenon
  <2>5. Promise!Keep(K)
    BY <2>3, <2>4, Zenon DEF Promise!Keep
  <2> QED
    BY <2>4, <2>5, Zenon
<1>8. CASE SwapperUnref
  BY <1>8, Zenon DEF SwapperUnref, wvars, Promise!lvars
<1>9. ASSUME SwapperRetire
      PROVE  \E g \in Gens : Promise!RetireGen(g)
  <2>1. swapper.victim \in made \ retired /\ swapper.victim \in Gens
    BY <1>9, Zenon DEF SwapperRetire, IInv, HolderTypeOK, Reachable, RetireOnce
  <2>2. Promise!RetireGen(swapper.victim)
    BY <1>4, <1>9, <2>1, Zenon DEF SwapperRetire, wvars, LeaseOf
  <2> QED
    BY <2>1, <2>2, Zenon
<1>10. CASE UNCHANGED holderVars
  BY <1>10, Zenon DEF holderVars, Promise!lvars
<1> QED
  BY <1>1, <1>2, <1>3, <1>5, <1>6, <1>7, <1>8, <1>9, <1>10, Zenon
     DEF HolderNext, Acquire, SwapperStep, Promise!LNext

\* The Holder's reference counting implements LeaseService.
THEOREM HolderRefines == HolderSpec => ImplementsLeaseService
<1>1. HolderInit => Promise!LInit
  <2> SUFFICES ASSUME HolderInit PROVE Promise!LInit
    BY Zenon
  <2>1. PICK c \in Gens : c = current
    BY FirstIsGen, Zenon
  <2>2. made \ retired = {c} /\ {current, previous} \ {NoGen} = {c}
    BY <2>1, HolderAssumption, Zenon DEF HolderInit
  <2>3. \A p \in Workers : wpc[p] # "leased"
    BY Zenon DEF HolderInit
  <2>4. [p \in Workers |-> IF wpc[p] = "leased" THEN gen[p] ELSE NoGen]
          = [p \in Workers |-> NoGen]
    BY <2>3, Zenon
  <2>5. retired = {}
    BY Zenon DEF HolderInit
  <2> QED
    BY <2>1, <2>2, <2>4, <2>5, Zenon DEF Promise!LInit
<1> QED
  BY <1>1, StepRefines, Invariance, PTL DEF HolderSpec, ImplementsLeaseService, Promise!LSpec

-----------------------------------------------------------------------------
(***************************************************************************)
(* The Holder with the component registry as its onApply callback.  It is  *)
(* still the Holder, so the theorems above hold of it.  BoundBeforeServed  *)
(* needs to know more than the snapshots in use: a rollback can bring back *)
(* any snapshot a generation was made from, and the one Sync is working on *)
(* becomes current as soon as nothing is left to do.                       *)
(***************************************************************************)

\* Every binding of snapshot s that is neither missed nor left to do is loaded.
Loaded(s, left) == \A b \in Bindings[s] \ (missed \cup left) : byName[b[1]] # NoModule

BoundInv ==
  /\ byName \in [Components -> Digests \cup {NoModule}]
  /\ \A g \in made : Loaded(snap[g], {})
  /\ swapper.pc = "applying" => Loaded(swapper.next, todo)

\* Each step of the composition is a step of the Holder or leaves it alone.
LEMMA StepIsHolders == [CNext]_cvars => [HolderNext]_holderVars
<1> SUFFICES ASSUME [CNext]_cvars PROVE [HolderNext]_holderVars
  BY Zenon
<1>1. CASE \E s \in Snapshots : CBeginSwap(s)
  BY <1>1, Zenon DEF CBeginSwap, HolderNext
<1>2. CASE \E b \in Components \X Digests : EnsureLoads(b) \/ EnsureFails(b)
  BY <1>2, Zenon DEF EnsureLoads, EnsureFails
<1>3. CASE CInstallSwap
  BY <1>3, Zenon DEF CInstallSwap, HolderNext, SwapperStep
<1>5. CASE OtherHolderStep
  BY <1>5, Zenon DEF OtherHolderStep, HolderNext, SwapperStep
<1>6. CASE UNCHANGED cvars
  BY <1>6, Zenon DEF cvars
<1> QED
  BY <1>1, <1>2, <1>3, <1>5, <1>6, Zenon DEF CNext

\* Wiring Sync into Swap takes nothing from the Holder: what main.go builds
\* behaves as the Holder does, so every theorem about HolderSpec holds of CSpec.
THEOREM RegistryKeepsHolder == CSpec => HolderSpec
<1>1. CInit => HolderInit
  BY Zenon DEF CInit
<1> QED
  BY <1>1, StepIsHolders, PTL DEF CSpec, HolderSpec

\* Sync(initial) has run when the Holder is made.
LEMMA CInitBound == CInit => BoundInv
<1> SUFFICES ASSUME CInit PROVE BoundInv
  BY Zenon
<1> USE BindingAssumption, HolderAssumption
<1>1. PICK loads \in SUBSET Bindings[Initial] :
        /\ byName \in [Components -> Digests \cup {NoModule}]
        /\ \A c \in Components :
             IF \E m \in Digests : <<c, m>> \in loads
             THEN <<c, byName[c]>> \in loads
             ELSE byName[c] = NoModule
        /\ missed = Bindings[Initial] \ loads
  BY Zenon DEF CInit
<1>4. byName \in [Components -> Digests \cup {NoModule}]
  BY <1>1, Zenon
<1>5. Loaded(Initial, {})
  <2> SUFFICES ASSUME NEW b \in Bindings[Initial] \ missed
               PROVE  byName[b[1]] # NoModule
    BY Zenon DEF Loaded
  <2>1. /\ b[1] \in Components /\ b[2] \in Digests /\ b = <<b[1], b[2]>>
        /\ \A c, m : <<c, m>> \in Bindings[Initial] => m \in Digests
    OBVIOUS
  <2>2. b \in loads
    BY <1>1, Zenon
  <2>5. <<b[1], b[2]>> \in loads
    BY <2>1, <2>2, Zenon
  <2>3. <<b[1], byName[b[1]]>> \in loads
    BY <1>1, <2>1, <2>5, Zenon
  <2>4. byName[b[1]] \in Digests
    BY <2>1, <2>3, Zenon
  <2> QED
    BY <2>4, Zenon
<1> QED
  BY <1>4, <1>5, Zenon DEF BoundInv, CInit, HolderInit, Unlocked

\* Each step keeps it; a snapshot is installed when Sync has nothing left.
LEMMA CNextBound == IInv /\ BoundInv /\ [CNext]_cvars => BoundInv'
<1> SUFFICES ASSUME IInv, BoundInv, [CNext]_cvars PROVE BoundInv'
  BY Zenon
<1> USE BindingAssumption
<1>0. /\ snap \in [Gens -> Snapshots] /\ made \subseteq Gens
      /\ swapper.next \in Snapshots
      /\ \A s \in Snapshots : Bindings[s] \subseteq Components \X Digests
  BY Zenon DEF IInv, HolderTypeOK
<1>1. ASSUME NEW s \in Snapshots, CBeginSwap(s) PROVE BoundInv'
  <2>1. swapper'.next = s /\ todo' = Bindings[s]
    BY <1>1, Zenon DEF CBeginSwap, BeginSwap
  <2>2. Loaded(s, Bindings[s])'
    BY Zenon DEF Loaded
  <2>3. UNCHANGED <<snap, made, byName, missed>>
    BY <1>1, Zenon DEF CBeginSwap, BeginSwap
  <2> QED
    BY <2>1, <2>2, <2>3, Zenon DEF BoundInv, Loaded
<1>2. ASSUME NEW b \in Components \X Digests, EnsureLoads(b) PROVE BoundInv'
  <2>1. /\ byName' = [byName EXCEPT ![b[1]] = b[2]] /\ todo' = todo \ {b}
        /\ missed' = missed \ {b} /\ UNCHANGED <<snap, made, swapper>>
    BY <1>2, Zenon DEF EnsureLoads, holderVars
  <2>2. byName' \in [Components -> Digests \cup {NoModule}]
    BY <2>1, Zenon DEF BoundInv
  <2>3. /\ byName'[b[1]] # NoModule
        /\ \A c \in Components : byName[c] # NoModule => byName'[c] # NoModule
    BY <2>1, Zenon DEF BoundInv
  <2>4. \A g \in made : Loaded(snap[g], {})'
    <3> SUFFICES ASSUME NEW g \in made, NEW d \in Bindings[snap[g]] \ (missed \ {b})
                 PROVE  byName'[d[1]] # NoModule
      BY <2>1, Zenon DEF Loaded
    <3>1. d \in Components \X Digests
      BY <1>0, Zenon
    <3> QED
      BY <2>3, <3>1, Zenon DEF BoundInv, Loaded
  <2>5. swapper.pc = "applying" => Loaded(swapper.next, todo)'
    <3> SUFFICES ASSUME swapper.pc = "applying",
                        NEW d \in Bindings[swapper.next] \ ((missed \ {b}) \cup (todo \ {b}))
                 PROVE  byName'[d[1]] # NoModule
      BY <2>1, Zenon DEF Loaded
    <3>1. d \in Components \X Digests
      BY <1>0, Zenon
    <3> QED
      BY <2>3, <3>1, Zenon DEF BoundInv, Loaded
  <2> QED
    BY <2>1, <2>2, <2>4, <2>5, Zenon DEF BoundInv
<1>3. ASSUME NEW b \in Components \X Digests, EnsureFails(b) PROVE BoundInv'
  <2>1. /\ todo' = todo \ {b} /\ missed' = missed \cup {b}
        /\ UNCHANGED <<snap, made, swapper, byName>>
    BY <1>3, Zenon DEF EnsureFails, holderVars
  <2> QED
    BY <2>1, Zenon DEF BoundInv, Loaded
<1>4. CASE CInstallSwap
  <2>1. /\ todo = {} /\ UNCHANGED <<byName, missed, todo>>
        /\ made' = made \cup {FreshGen}
        /\ snap' = [snap EXCEPT ![FreshGen] = swapper.next]
        /\ swapper.pc = "applying" /\ FreshGen \in Gens \ made
        /\ swapper'.pc # "applying"
    BY <1>4, FreshIsNew, Zenon DEF CInstallSwap, InstallSwap, rvars, Unlocked, IInv, HolderTypeOK
  <2>2. \A g \in made' : snap'[g] = IF g = FreshGen THEN swapper.next ELSE snap[g]
    BY <1>0, <2>1, Zenon
  <2>3. Loaded(swapper.next, {}) /\ \A g \in made : Loaded(snap[g], {})
    BY <2>1, Zenon DEF BoundInv
  <2> QED
    BY <2>1, <2>2, <2>3 DEF BoundInv, Loaded
<1>6. CASE OtherHolderStep
  <2>1. UNCHANGED <<snap, made, byName, missed, todo>>
    BY <1>6, Zenon
    DEF OtherHolderStep, rvars, Acquire, LoadCurrent, LoadRefs, CompareAndSwap, Release,
        RetireLast, Rollback, SwapperUnref, SwapperRetire
  <2>2. swapper' = swapper \/ swapper'.pc # "applying"
    <3>1. swapper.pc \in {"unlocked", "applying", "unref", "retiring"}
          /\ swapper = [pc |-> swapper.pc, next |-> swapper.next, victim |-> swapper.victim]
      BY Zenon DEF IInv, HolderTypeOK
    <3>2. CASE \E p \in Workers : Acquire(p) \/ Release(p) \/ RetireLast(p)
      BY <3>2, Zenon DEF Acquire, LoadCurrent, LoadRefs, CompareAndSwap, Release, RetireLast
    <3>3. CASE Rollback
      BY <3>1, <3>3, Zenon DEF Rollback
    <3>4. CASE SwapperUnref
      BY <3>1, <3>4, Zenon DEF SwapperUnref, Unlocked
    <3>5. CASE SwapperRetire
      BY <3>5, Zenon DEF SwapperRetire, Unlocked
    <3> QED
      BY <1>6, <3>2, <3>3, <3>4, <3>5, Zenon DEF OtherHolderStep
  <2> QED
    BY <2>1, <2>2, Zenon DEF BoundInv, Loaded
<1>7. CASE UNCHANGED cvars
  BY <1>7, Zenon DEF cvars, holderVars, rvars, BoundInv, Loaded
<1> QED
  BY <1>1, <1>2, <1>3, <1>4, <1>6, <1>7, Zenon DEF CNext

\* Registry.Sync inside Holder.Swap: whatever loads and whichever swaps, rollbacks
\* and releases interleave, a component bound by a snapshot in use is loaded under
\* its name, unless its artifact was missing or did not load when it was applied.
THEOREM BoundBeforeServedHolds == CSpec => []BoundBeforeServed
<1>1. IInv /\ BoundInv => BoundBeforeServed
  <2> SUFFICES ASSUME IInv, BoundInv, NEW s \in InUse PROVE Loaded(s, {})
    BY Zenon DEF BoundBeforeServed, Loaded
  <2>1. current \in made /\ \A p \in Workers : wpc[p] = "leased" => gen[p] \in made
    BY Zenon DEF IInv, Reachable
  <2>2. \E g \in made : s = snap[g]
    BY <2>1, Zenon DEF InUse
  <2> QED
    BY <2>2, Zenon DEF BoundInv
<1>2. CInit => IInv /\ BoundInv
  BY InitIInv, CInitBound, Zenon DEF CInit
<1>3. IInv /\ BoundInv /\ [CNext]_cvars => IInv' /\ BoundInv'
  BY NextIInv, StepIsHolders, CNextBound, Zenon
<1> QED
  BY <1>1, <1>2, <1>3, PTL DEF CSpec

=============================================================================
