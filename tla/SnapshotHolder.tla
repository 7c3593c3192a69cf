--------------------------- MODULE SnapshotHolder ---------------------------
(***************************************************************************)
(* The Holder of dataplane/internal/snapshot/holder.go: the snapshot a     *)
(* worker serves, the one it can roll back to, and the reference counts    *)
(* that let a displaced one be unloaded only when nothing uses it.         *)
(*                                                                         *)
(* A generation is a member of Gens.  Request goroutines (Workers) run     *)
(* Acquire and Release one atomic operation at a time: the load of the     *)
(* current pointer, the load and the compare-and-swap of tryRef, the       *)
(* decrement of unref and the call of onRetire.  Swap and Rollback hold    *)
(* h.mu, so one `swapper' stands for whoever holds it; its pc says where   *)
(* between two effects visible to the lock-free readers it is.             *)
(***************************************************************************)
EXTENDS Integers, FiniteSets

CONSTANTS Gens, Workers, NoGen,
          Snapshots,       \* the snapshots a Swap may be given
          Initial,         \* the snapshot passed to New
          GlobalVersion,   \* GlobalVersion[s]: the global layer's number
          TenantVersion    \* TenantVersion[s]: tenant -> layer number

ASSUME HolderAssumption ==
  /\ IsFiniteSet(Workers)
  /\ Gens # {} /\ NoGen \notin Gens
  /\ Initial \in Snapshots

VARIABLES current, previous,   \* the Holder's two generations
          snap,                \* snap[g]: the snapshot g was made from
          refs,                \* refs[g]: the reference count
          made,                \* generations that exist
          retired,             \* generations onRetire has been called for
          wpc, gen, seen,      \* a worker's control point, its generation, and
                               \* the count tryRef loaded
          swapper              \* the goroutine that holds h.mu

wvars == <<wpc, gen, seen>>
holderVars == <<current, previous, snap, refs, made, retired, wpc, gen, seen, swapper>>

Unlocked == [pc |-> "unlocked", next |-> Initial, victim |-> NoGen]

HolderInit ==
  /\ current = CHOOSE g \in Gens : TRUE
  /\ previous = NoGen
  /\ snap = [g \in Gens |-> Initial]
  /\ refs = [g \in Gens |-> IF g = current THEN 1 ELSE 0]
  /\ made = {current}
  /\ retired = {}
  /\ wpc = [p \in Workers |-> "idle"]
  /\ gen = [p \in Workers |-> NoGen]
  /\ seen = [p \in Workers |-> 0]
  /\ swapper = Unlocked

-----------------------------------------------------------------------------
(* Acquire: g := h.current.Load(), then tryRef on it *)

LoadCurrent(p) ==
  /\ wpc[p] = "idle"
  /\ gen' = [gen EXCEPT ![p] = current]
  /\ wpc' = [wpc EXCEPT ![p] = "loaded"]
  /\ UNCHANGED <<current, previous, snap, refs, made, retired, seen, swapper>>

\* Mutant of LoadRefs: the count is not looked at, so a retired generation can
\* be leased again.
LoadRefsUnchecked(p) ==
  /\ wpc[p] = "loaded"
  /\ seen' = [seen EXCEPT ![p] = refs[gen[p]]]
  /\ wpc' = [wpc EXCEPT ![p] = "counted"]
  /\ UNCHANGED <<current, previous, snap, refs, made, retired, gen, swapper>>

\* n := g.refs.Load(); a retired generation sends Acquire back to the load.
LoadRefs(p) ==
  /\ wpc[p] = "loaded"
  /\ seen' = [seen EXCEPT ![p] = refs[gen[p]]]
  /\ wpc' = [wpc EXCEPT ![p] = IF refs[gen[p]] <= 0 THEN "idle" ELSE "counted"]
  /\ UNCHANGED <<current, previous, snap, refs, made, retired, gen, swapper>>

\* Mutant of CompareAndSwap: a plain store of n+1.
StoreIncremented(p) ==
  /\ wpc[p] = "counted"
  /\ refs' = [refs EXCEPT ![gen[p]] = seen[p] + 1]
  /\ wpc' = [wpc EXCEPT ![p] = "leased"]
  /\ UNCHANGED <<current, previous, snap, made, retired, gen, seen, swapper>>

\* CompareAndSwap(n, n+1): a lease, or another turn of tryRef's loop.
CompareAndSwap(p) ==
  /\ wpc[p] = "counted"
  /\ IF refs[gen[p]] = seen[p]
     THEN /\ refs' = [refs EXCEPT ![gen[p]] = @ + 1]
          /\ wpc' = [wpc EXCEPT ![p] = "leased"]
     ELSE /\ wpc' = [wpc EXCEPT ![p] = "loaded"]
          /\ UNCHANGED refs
  /\ UNCHANGED <<current, previous, snap, made, retired, gen, seen, swapper>>

-----------------------------------------------------------------------------
(* Release: unref, and onRetire for the last reference.  Lease.once makes a *)
(* second Release of the same lease a no-op.                                *)

Release(p) ==
  /\ wpc[p] = "leased"
  /\ refs' = [refs EXCEPT ![gen[p]] = @ - 1]
  /\ wpc' = [wpc EXCEPT ![p] = IF refs[gen[p]] - 1 > 0 THEN "idle" ELSE "retiring"]
  /\ UNCHANGED <<current, previous, snap, made, retired, gen, seen, swapper>>

RetireLast(p) ==
  /\ wpc[p] = "retiring"
  /\ retired' = retired \cup {gen[p]}
  /\ wpc' = [wpc EXCEPT ![p] = "idle"]
  /\ UNCHANGED <<current, previous, snap, refs, made, gen, seen, swapper>>

-----------------------------------------------------------------------------
(* Swap and Rollback *)

\* checkMonotonic: no layer that both snapshots carry moves backwards.
Monotonic(cur, next) ==
  /\ GlobalVersion[next] >= GlobalVersion[cur]
  /\ \A t \in DOMAIN TenantVersion[next] \cap DOMAIN TenantVersion[cur] :
       TenantVersion[next][t] >= TenantVersion[cur][t]

\* Mutant of BeginSwap: checkMonotonic is not called.
BeginSwapUnchecked(s) ==
  /\ swapper.pc = "unlocked"
  /\ Gens \ made # {}
  /\ swapper' = [pc |-> "applying", next |-> s, victim |-> NoGen]
  /\ UNCHANGED <<current, previous, snap, refs, made, retired, wvars>>

\* Swap takes the mutex, the snapshot passes checkMonotonic, and onApply
\* starts.  A snapshot that does not pass leaves the Holder as it was.  The
\* supply of generations bounds the number of swaps.
BeginSwap(s) ==
  /\ swapper.pc = "unlocked"
  /\ Gens \ made # {}
  /\ Monotonic(snap[current], s)
  /\ swapper' = [pc |-> "applying", next |-> s, victim |-> NoGen]
  /\ UNCHANGED <<current, previous, snap, refs, made, retired, wvars>>

\* newGeneration: a generation is known by its address alone, so which of the
\* unused ones it is makes no difference.
FreshGen == CHOOSE g \in Gens \ made : TRUE

\* Mutant of InstallSwap: the displaced generation is not unref'd.
InstallSwapKeepsRef ==
  /\ swapper.pc = "applying"
  /\ Gens \ made # {}
  /\ made' = made \cup {FreshGen}
  /\ snap' = [snap EXCEPT ![FreshGen] = swapper.next]
  /\ refs' = [refs EXCEPT ![FreshGen] = 1]
  /\ current' = FreshGen
  /\ previous' = current
  /\ swapper' = Unlocked
  /\ UNCHANGED <<retired, wvars>>

\* onApply has returned: the new generation is stored, the old one becomes
\* the rollback slot, and the one it displaces from there is to be unref'd.
InstallSwap ==
  /\ swapper.pc = "applying"
  /\ Gens \ made # {}
  /\ made' = made \cup {FreshGen}
  /\ snap' = [snap EXCEPT ![FreshGen] = swapper.next]
  /\ refs' = [refs EXCEPT ![FreshGen] = 1]
  /\ current' = FreshGen
  /\ previous' = current
  /\ swapper' = IF previous = NoGen THEN Unlocked
                ELSE [swapper EXCEPT !.pc = "unref", !.victim = previous]
  /\ UNCHANGED <<retired, wvars>>

Rollback ==
  /\ swapper.pc = "unlocked"
  /\ previous # NoGen
  /\ current' = previous
  /\ previous' = NoGen
  /\ swapper' = [swapper EXCEPT !.pc = "unref", !.victim = current]
  /\ UNCHANGED <<snap, refs, made, retired, wvars>>

\* displaced.unref(), failed.unref(): the Holder's own reference goes.
SwapperUnref ==
  /\ swapper.pc = "unref"
  /\ refs' = [refs EXCEPT ![swapper.victim] = @ - 1]
  /\ swapper' = IF refs[swapper.victim] - 1 > 0 THEN Unlocked
                ELSE [swapper EXCEPT !.pc = "retiring"]
  /\ UNCHANGED <<current, previous, snap, made, retired, wvars>>

SwapperRetire ==
  /\ swapper.pc = "retiring"
  /\ retired' = retired \cup {swapper.victim}
  /\ swapper' = Unlocked
  /\ UNCHANGED <<current, previous, snap, refs, made, wvars>>

-----------------------------------------------------------------------------
Acquire(p) == LoadCurrent(p) \/ LoadRefs(p) \/ CompareAndSwap(p)

SwapperStep == InstallSwap \/ SwapperUnref \/ SwapperRetire

HolderNext ==
  \/ \E p \in Workers : Acquire(p) \/ Release(p) \/ RetireLast(p)
  \/ \E s \in Snapshots : BeginSwap(s)
  \/ Rollback
  \/ SwapperStep

HolderSpec == HolderInit /\ [][HolderNext]_holderVars

-----------------------------------------------------------------------------
(* Properties *)

HolderTypeOK ==
  /\ current \in Gens
  /\ previous \in Gens \cup {NoGen}
  /\ snap \in [Gens -> Snapshots]
  /\ refs \in [Gens -> Int]
  /\ made \subseteq Gens
  /\ retired \subseteq Gens
  /\ wpc \in [Workers -> {"idle", "loaded", "counted", "leased", "retiring"}]
  /\ gen \in [Workers -> Gens \cup {NoGen}]
  /\ seen \in [Workers -> Int]
  /\ swapper \in [pc: {"unlocked", "applying", "unref", "retiring"},
                  next: Snapshots, victim: Gens \cup {NoGen}]

Leases(g) == {p \in Workers : wpc[p] = "leased" /\ gen[p] = g}

One(b) == IF b THEN 1 ELSE 0

\* The references the Holder itself has on g: as current, as previous, and
\* while a swap has displaced g and not yet dropped the reference.
HolderRefs(g) == One(g = current) + One(g = previous)
                   + One(swapper.pc = "unref" /\ swapper.victim = g)

\* The count of every generation is its leases plus the Holder's own
\* references, whatever loads, compare-and-swaps, swaps and rollbacks
\* interleave (generation.refs in holder.go).
RefsExact == \A g \in Gens : refs[g] = Cardinality(Leases(g)) + HolderRefs(g)

\* onRetire is never called for a generation a request has leased, is about to
\* be served, or could be rolled back to (property 3 of the package comment:
\* freeing a snapshot's plugins under an in-flight request is a crash).
RetiredUnused ==
  \A g \in retired :
    /\ Leases(g) = {}
    /\ g # current
    /\ g # previous

\* At most one goroutine calls onRetire for a generation, and only once, even
\* without the sync.Once: the count reaches zero once and never leaves it.
RetireOnce ==
  /\ \A p \in Workers : wpc[p] = "retiring" =>
       /\ gen[p] \notin retired
       /\ \A q \in Workers : wpc[q] = "retiring" /\ gen[q] = gen[p] => p = q
       /\ ~(swapper.pc = "retiring" /\ swapper.victim = gen[p])
  /\ swapper.pc = "retiring" => swapper.victim \notin retired

\* A worker never goes back to a layer older than one it served, except by
\* rolling back: a step that changes the current generation and is not a
\* Rollback keeps every layer both snapshots carry (Swap's comment).
NoSilentRegression ==
  [][current' # current /\ ~Rollback
       => Monotonic(snap[current], snap'[current'])]_holderVars

\* The drain gauge falls to zero: a generation that is neither served nor kept
\* for rollback is eventually retired, once its requests are done.
DrainCompletes ==
  []<>(made \ {current, previous} \subseteq retired)

\* The reference counting implements the promise of LeaseService.
Promise == INSTANCE LeaseService WITH
  live  <- made \ retired,
  gone  <- retired,
  kept  <- {current, previous} \ {NoGen},
  lease <- [p \in Workers |-> IF wpc[p] = "leased" THEN gen[p] ELSE NoGen]
ImplementsLeaseService == Promise!LSpec

=============================================================================
