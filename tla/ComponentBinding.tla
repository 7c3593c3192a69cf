-------------------------- MODULE ComponentBinding --------------------------
(***************************************************************************)
(* The Holder composed with the registry of in-process (WASM) guardrails   *)
(* (dataplane/internal/adapters/wasmguardrail/registry.go), wired as       *)
(* cmd/gateway/main.go wires them: Sync runs for the initial snapshot      *)
(* before the Holder exists, and again as the onApply callback of every    *)
(* Swap, while the swap lock is held and before the snapshot is visible.   *)
(* OnRetire only logs.                                                     *)
(*                                                                         *)
(* The guardrail chain of a leased request looks a component up by name    *)
(* (Registry.Guardrail), so byName is what such a request runs.  Whether   *)
(* the module store has an artifact when Sync asks for it, and whether it  *)
(* compiles, is the environment's choice each time.                        *)
(***************************************************************************)
EXTENDS SnapshotHolder

CONSTANTS Components,   \* component names
          Digests,      \* module digests
          NoModule,
          Bindings      \* Bindings[s]: the in-process bindings of snapshot s,
                        \* pairs of a component and a module digest

ASSUME BindingAssumption ==
  /\ Bindings \in [Snapshots -> SUBSET (Components \X Digests)]
  /\ NoModule \notin Digests

VARIABLES byName,     \* byName[c]: the module of the guardrail named c
          byDigest,   \* the compiled modules
          todo,       \* bindings the running Sync has still to ensure
          missed      \* history: bindings that a Sync could not load, and none
                      \* has since

rvars == <<byName, byDigest, todo, missed>>
cvars == <<holderVars, rvars>>

\* Sync(initial), before the Holder is made: any of its bindings load.
CInit ==
  /\ HolderInit
  /\ \E loads \in SUBSET Bindings[Initial] :
       /\ byName \in [Components -> Digests \cup {NoModule}]
       /\ \A c \in Components :
            IF \E m \in Digests : <<c, m>> \in loads
            THEN <<c, byName[c]>> \in loads
            ELSE byName[c] = NoModule
       /\ byDigest = {b[2] : b \in loads}
       /\ missed = Bindings[Initial] \ loads
  /\ todo = {}

CBeginSwap(s) ==
  /\ BeginSwap(s)
  /\ todo' = Bindings[s]
  /\ UNCHANGED <<byName, byDigest, missed>>

\* ensure: the module is compiled already, or its bytes are in the store and compile.
EnsureLoads(b) ==
  /\ b \in todo
  /\ byDigest' = byDigest \cup {b[2]}
  /\ byName' = [byName EXCEPT ![b[1]] = b[2]]
  /\ todo' = todo \ {b}
  /\ missed' = missed \ {b}
  /\ UNCHANGED holderVars

\* ensure fails on a module that is not compiled: its bytes are not in the store,
\* do not match the digest, or do not compile.  Sync logs it and leaves the name
\* bound as it was.
EnsureFails(b) ==
  /\ b \in todo
  /\ b[2] \notin byDigest
  /\ todo' = todo \ {b}
  /\ missed' = missed \cup {b}
  /\ UNCHANGED <<holderVars, byName, byDigest>>

\* Mutant of CInstallSwap: the snapshot is stored while onApply still runs.
InstallWhileApplying == InstallSwap /\ UNCHANGED rvars

CInstallSwap ==
  /\ todo = {}
  /\ InstallSwap
  /\ UNCHANGED rvars

OtherHolderStep ==
  /\ \/ \E p \in Workers : Acquire(p) \/ Release(p) \/ RetireLast(p)
     \/ Rollback
     \/ SwapperUnref
     \/ SwapperRetire
  /\ UNCHANGED rvars

CNext ==
  \/ \E s \in Snapshots : CBeginSwap(s)
  \/ \E b \in Components \X Digests : EnsureLoads(b) \/ EnsureFails(b)
  \/ CInstallSwap
  \/ OtherHolderStep

CSpec == CInit /\ [][CNext]_cvars

\* A step of the goroutine inside Swap or Rollback, Sync included.
CSwapperStep ==
  \/ \E b \in Components \X Digests : EnsureLoads(b) \/ EnsureFails(b)
  \/ CInstallSwap
  \/ (SwapperUnref \/ SwapperRetire) /\ UNCHANGED rvars

-----------------------------------------------------------------------------
(* Properties *)

\* The snapshots some request can be running, or is about to lease.
InUse == {snap[current]} \cup {snap[gen[p]] : p \in {q \in Workers : wpc[q] = "leased"}}

\* No request finds a binding whose component is not there: a component bound
\* by a snapshot in use is loaded under its name, unless its artifact was missing or
\* did not load whenever a snapshot that binds it was applied (OnApply's comment).
BoundBeforeServed ==
  \A s \in InUse : \A b \in Bindings[s] \ missed : byName[b[1]] # NoModule

=============================================================================
