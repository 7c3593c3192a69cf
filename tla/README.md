# A verification project for model-gateway

This directory holds TLA+ specifications of the model gateway, the TLC
configurations that check them on small instances, and TLAPS proofs of the
results that matter most. Every definition is translated from the source;
`PROJECT.json` maps each one to the lines it stands for.

## 1. The system

The gateway has two halves.

The **data plane** (Go, `dataplane/`) is a fleet of stateless workers. A worker
holds an immutable *snapshot* of the configuration, leased by each request for
its whole life. A request is authenticated, admitted (policy, budgets, rate
limits), inspected by guardrails, routed to a list of candidate deployments and
tried on them in turn; its payload is transformed for each destination's trust
tier. Whatever happens, it leaves one usage event, which the emitter batches to
the sinks, Redis among them. Served requests may be mirrored to adapters under
evaluation.

The **control plane** (Python, `controlplane/`) keeps the configuration in a
database, compiles snapshots from it, and runs three consumers beside the API:
accounting (usage events into budgets), audit (decisions into a hash chain) and
the fine-tune reconciler.

| Part | Source | Module | Status |
|---|---|---|---|
| Snapshot holder | `snapshot/holder.go` | `SnapshotHolder`, `LeaseService` | modelled, proved |
| WASM component registry | `adapters/wasmguardrail/registry.go` | `ComponentBinding` | modelled, proved |
| Snapshot data, wire format, source | `core/*.go`, `wire/*.go`, `snapshot/source.go` | `Catalog`, `Wire` | in part |
| Router, breakers, prober | `router/*.go` | `Router`, `Breaker` | scores abstracted, proved |
| Rate limiter | `limits/*.go` | `Limiter` | modelled, proved |
| Counter store | `adapters/rediskv`, `memkv` | `Limiter` | in part: as the limiter uses it |
| Policy engine | `policy/*.go`, `gateway/pipeline.go` | `PolicyEngine` | modelled on the worker, proved |
| Secrets cache | `secrets/secrets.go` | `Secrets` | modelled, proved |
| Request pipeline, audit decision | `gateway/*.go`, `httpapi/server.go` | `Pipeline` | modelled, proved |
| Guardrail chain and components | `guardrails/*.go`, `adapters/guardrailsidecar`, `wasmguardrail`, `wasm` | `GuardrailChain`, `GuardrailPort` | modelled, proved; patterns are any verdict |
| PII transform, vault, stream restorer | `pii/*.go` | `Pii`, `Pipeline` | patterns are any matches |
| Provider streams | `adapters/anthropic`, `adapters/openaicompat`, `httpapi/server.go`, `httpapi/errors.go` | `ProviderStream` | streams only, proved |
| Usage emitter | `telemetry/emitter.go` | `Emitter` | modelled, proved |
| Shadow mirror, process shutdown | `shadow/shadow.go`, `cmd/gateway/main.go` | `Shutdown` | modelled, proved |
| Component admission | `cmd/admissionrunner`, `admission/`, `sandbox/`, `contracts/`, `service/registry.py` | `Admission` | isolation external, proved |
| Keys, provisioning, snapshot build, subscriber | `service/keys.py`, `service/provisioning.py`, `db/repository.py`, `snapshot/builder.py`, `snapshot/subscriber.go` | `Publishing` | in part, proved |
| Usage and audit stream | `adapters/redisstream` | `Accounting`, `AuditChain` | in part: appending and trimming |
| Accounting consumer | `accounting_main.py`, `service/accounting.py`, `service/usage_stream.py` | `Accounting` | modelled, proved |
| Audit consumer | `audit_main.py`, `service/audit.py`, `domain/audit.py` | `AuditChain` | modelled, proved |
| Fine-tune reconciler | `finetune_main.py`, `service/finetune.py`, `domain/finetune.py` | `FineTune` | one job; scores are any verdict |
| Admin API, dashboard, configuration, metrics | | - | see section 7 |

Go paths are under `dataplane/internal/` (`cmd/` under `dataplane/`), Python ones
under `controlplane/src/model_gateway_control/`.

## 2. Modules

A specification module declares its constants and assumptions, its state, one
action per step of the code that another goroutine, process or crash can come
between, and its properties. An `MC` module gives TLC its small sets, a `Proofs`
module holds theorems. A definition whose comment begins "Mutant of X" is a
deliberately broken variant of X: it is used by no specification, and the
`mutants` of `PROJECT.json` record that the named property fails when it
replaces X.

**Breaker, Router.** A breaker's methods hold its mutex, so they are functions
on a record (`Allow`, `Succeed`, `Fail`); the clock is the breaker's age,
saturating at the cooldown. `Router` runs Select and Execute for several
requests, cut at each breaker call, at the backoff and around the provider
call, next to the prober's passes. A worker's providers are fixed when it starts,
so the branch of Execute for one that has vanished since Select
(`router.go:502-509`) is left out. The order of the candidates depends on
floating-point scores and a random draw, so it is any order.

**SnapshotHolder, LeaseService.** `SnapshotHolder` has the atomic operations of
Acquire (load of the pointer, load and compare-and-swap of the count), Release,
Swap and Rollback. `LeaseService` states what callers rely on: a snapshot that
is kept or leased is live, and one that is gone stays gone. The refinement
mapping is `Promise`, and `ImplementsLeaseService` is both checked and proved.

**ComponentBinding** extends the Holder with the onApply hook: the registry
binds the components of the next snapshot by name while the old one serves. To
load a component can fail at every attempt: its artifact is missing, has another
digest, or does not compile or start, which are one outcome to Sync. The run of
the Holder is of this module. Generations are told apart by identity only, so a
swap takes any fresh one (`FreshGen`).

**Publishing.** The road of a change from an administrator's request to a
worker. A service of the control plane reads a key and its tenant in separate
statements and commits later; the version it writes is the one it read plus one
(`ReadTenant`, `CommitSession`), while accounting increments in place (`BumpVersion`). A
poll builds a snapshot from the fleet's rows, then the tenants', then each
tenant's keys, at READ COMMITTED, and the Holder compares versions. The catalog
is reduced to whether the builder accepts it.

**Catalog, Wire.** `Catalog` has the records a layer is made of, the checks
NewGlobalLayer, NewTenantLayer and Compose make, and the lookups of a request.
`Wire` extends it with the message: encoding, sealing, decoding and verifying.
`Deliver` gives the worker what was published, or a message one change away from
it (a digest damaged or absent, an enumerator of another build, a field lost);
the source refuses it or serves it. The encoder is the one of `convert.go`, which
tests, fixtures and the load harness use; the production publisher is
`snapshot/builder.py`, which fills the same messages and seals them the same way.

**Limiter.** One principal on a fleet of workers: the in-flight counter with its
add-compare-subtract, the leased permit bucket, the shared counter with its
overshoot arithmetic, the token window, the roll of the minute, store failures,
and snapshots that change the concurrency limit. The constant `Fleets` lists the
instances a run starts from.

**PolicyEngine.** Bundles are decoded from the snapshot a request holds and
cached, across requests, by the digest of the snapshot's global layer; rules are
evaluated and the outcome raises the request's class and floor. Requests that
hold an old snapshot run beside newer ones.

**Secrets.** The TTL cache: look up under the lock, fetch outside it, store
under it again, while credentials are rotated in the store and the clock runs.
`straddled` remembers which secrets were rotated away while a fetch that had read
them was on its way.

**Pipeline.** The stages of Handle and HandleStream and each way out of them,
with what each way out does about the slot, the vault, the usage event and the
audit event.

**GuardrailPort, GuardrailChain.** `GuardrailPort` is the table of what Inspect
returns for every answer, failure, trap and bad pointer of a component, by how
the component runs. `GuardrailChain` runs the bindings in order, blocking ones on
the request path and the others as tasks behind a bounded channel, while modules
come and go in the composite registry and Wait waits at shutdown.

**Pii.** Merging of overlapping matches, placeholders, and the Restorer with its
hold-back over a response cut into chunks anywhere. Texts here are sequences of
characters, because where a chunk is cut is the question.

**ProviderStream.** One streamed completion: what the two dialects make of every
kind of line (content, usage, stop, error, garbage, silence), what streamCompletion
writes, and what it records for billing when either side ends early. The restorer
passes every chunk on here; what it holds back is in `Pii`.

**Emitter.** Emit with its three selects, and the goroutine that collects,
flushes and drains. Events are counted, not told apart: the channel delivers
each once and the claims are about counts.

**Shutdown** extends `Emitter` with the handlers, the mirror's queue and workers,
and main: the signal, the grace period, and the deferred calls in their order.

**Accounting.** Replicas of the consumer with the consumer names they were given,
the Redis group's pending lists, the database transaction with the row locks its
statements take, the version of each tenant, deadlock aborts, crashes, and
malformed messages. `Publish` is the sink's XADD: it may trim the stream down to
`StreamMaxLen`, whether or not the entries were read, and leaves more when it
likes, as approximate trimming does. `lost` remembers the entries that no process
could read any more.

**AuditChain.** Replicas of the audit consumer under one consumer name, on a stream
that is trimmed in the same way (`Emit`, `AuditMaxLen`, `gaps`). A process
reads a batch, takes the advisory lock, reads the head, links the events it has
not seen, commits and acknowledges, and can die between any two of these. The
hash is an injection, so that verification is exact; the uniqueness of `seq` and
of `event_id` refuses a commit that collides.

**Admission.** One run of the admission runner, from the manifest to the verdict
on record: validation, the container or the WASM runtime, the socket, ping, every
case of the guardrail suite, cleanup and report, each of which can fail or be
interrupted, and the registry's read and write around an operator's retire.

**FineTune.** One job. Reconcilers load its row under SKIP LOCKED, commit
SUBMITTING, call the trainer and write what they computed; an operator submits,
cancels, starts, advances and aborts beside them; SQLAlchemy writes the changed
columns over whatever the row holds by then. An answer without an id or an artifact
makes the domain raise, and the pass rolls back and ends (`PassEnds`).

**MCControlPlane, MCWorker, MCRequestPath** put components that share no state
into one run: the variable `part` picks the component that moves in a behaviour,
and the others stay in their initial state, so the run explores the sum of the
state spaces and each property is checked on its component's behaviours. The
components that do interact are composed properly: `ComponentBinding` (Holder and
registry), `Shutdown` (handlers, mirror, emitter, main), `Router` over `Breaker`,
`GuardrailChain` and `Admission` over `GuardrailPort`, `Wire` and `PolicyEngine`
over `Catalog`.

## 3. Runs

| Run | Instance | What it shows |
|---|---|---|
| `router` | 2 deployments, 2 requests, tiers 1 and 3 asked | half-open bookkeeping belongs to the half-open state; every call is inside the selection, and "nothing tried" and "everything failed" are told apart; a leaked probe slot is freed |
| `worker`: pipeline | a buffered and a streamed request, 2 deployments, one inside the trust boundary | one usage event on every exit, no slot given back twice, payload form per attempt, restoration from the serving attempt |
| `worker`: process | 2 handlers, 1 mirror worker, buffer and queue of 1 | losses are counted exactly; a drain within the grace loses nothing uncounted; shutdown completes |
| `worker`: chain | 2 requests, chains of a built-in and 2 modules, 1 place off the path | nothing is served that a binding should have stopped; every off-path inspection is run or counted before Wait returns; the chains end |
| `worker`: holder | 3 generations, 2 requests, 3 snapshots, 1 component in 2 versions | exact reference counts; no retirement in use, none twice; no layer moves back but by Rollback; drains complete; the Holder implements `LeaseService`; a component bound by a snapshot in use is loaded, unless its artifact was missing or did not load when it was applied |
| `control_plane`: accounting | 2 replicas, 3 entries, a stream trimmed to 2, 2 crashes, batch of 2 | charged once, acknowledged only when recorded or trimmed unread, every event that was not trimmed recorded in the end |
| `control_plane`: audit | 2 replicas, 4 entries (one twice, one malformed), a stream trimmed to 2, 2 crashes, batch of 2 | the chain verifies, no replica is refused, an acknowledged decision is in it once unless it was trimmed unread |
| `control_plane`: publishing | 1 tenant, 2 keys, 2 administrators, versions to 3 | a layer is at least as new as its version; a revoked key never comes back; a revocation reaches the worker if its versions do not stay ahead of the database's |
| `control_plane`: admission | components of every kind the suite tells apart, run either way, and jobs with one thing wrong | a verdict on record is earned, and nothing is left behind, wherever the run stops |
| `control_plane`: finetune | 2 reconcilers, 1 operator, canary of 2 steps, 2 failures | a job comes to rest in a terminal phase |
| `request_path`: wire | specs with each kind of record, every message one change away | a message is refused, or served as published and sound |
| `request_path`: limits | fleets of 1 and 2 workers, 2 or 3 requests, limit 3, lease 2, a store failure | the fleet spends at most the limit of each window plus one lease per failure; the slot counter is exact |
| `request_path`: policy | 3 requests, 2 snapshots, bundles with one rule of every kind | a request is decided by the policy of the snapshot it holds |
| `request_path`: secrets | 2 requests, TTL 2, fetches of 1 tick, 2 rotations, 5 ticks | a request is given no credential that was rotated away a TTL ago, or, where a fetch straddled the rotation, a TTL and a fetch ago |
| `request_path`: stream | both dialects, streams of up to 4 lines | "complete" only if the provider said so; billed as reported |
| `request_path`: pii | every text of up to 4 characters, 2 matches, every cut | the caller gets back what was taken out |
| `stream_slot` | as `worker`: pipeline | **fails**: a stream refused after admission keeps its slot |
| `decisions_audited` | as `worker`: pipeline | **fails**: a request under a class raised by policy can be served without an audit event |
| `vaultless` | as `worker`: pipeline, without a vault | **fails**: a payload is sent tokenised where the comments say it is redacted |
| `accounting_stranded` | 1 replica, 3 entries | **fails**: a malformed message left pending crowds an event out of the batch a restart reads back |
| `revocation` | as publishing, 1 administrator | **fails**: a lost increment takes the version back, and the worker refuses what follows |
| `retirement` | one good job | **fails**: a retirement committed while a passing run is recorded is overwritten |
| `unknown_tier` | specs with tiers of another build | **fails**: a tenant's or a key's trust floor this build does not know is taken as no floor |
| `terminal_phase` | 2 reconcilers, 1 operator | **fails**: a reconciler that was submitting overwrites a committed cancellation |

The eight failing runs each check one sentence of the repository against what
the code does; `findings` quotes the sentence.

**Bounds.** They are the least that let the hazard happen: two actors for a
race, three when one has to hold what two others want; a limit that is not a
multiple of the lease, so that a lease straddles it; a buffer, a queue and an
off-path channel of one, so that they fill at once; three generations, so that one
is served, one kept and one displaced; two windows for the roll; a batch smaller
than the stream and a stream trimmed below its length; a placeholder of five characters against texts that contain its
brackets; a clock that outlasts two TTLs. The bounds that cut a behaviour short
are `MaxEvents`, `MaxRequests`, `MaxCrashes`, `MaxAuditCrashes`, `MaxFailures`,
`MaxVersion`, `MaxRotations`, `MaxTime`, `MaxLines`, `MaxMatches`, the windows and failures of an
element of `Fleets`, and the supply of generations `Gens`. `MaxUint32` stands for
the width of the wire's timeout and is small so that the boundary is met. All
others are parameters of the code.

**Fairness.** `Router`: time passes, the prober's loop runs, and a deployment
probed again and again answers some probe (strong fairness of `ProbeSucceeds`,
which is what "recovered" means); nothing is assumed of requests. `ComponentBinding`:
a request ends and its deferred Release runs, and a goroutine inside Swap or
unref keeps running. `Shutdown`: main, the emitter's goroutine and the mirror's workers
keep running, because sink writes and mirrored calls have timeouts and the grace
is a timer; nothing makes a handler finish. `GuardrailChain`: a request's goroutine
and the off-path tasks keep running, because every Inspect has the timeout
`evaluate` gives it, and Wait returns when it can. `FineTune`: a reconciler's loop
goes on, after a restart if need be, and a run at the trainer ends; passes fail a
bounded number of times, so a call that raises on every pass, or a trainer that
never answers with an id or an artifact, is outside the claim; the operator and the walk of the canary are obliged to nothing. `Accounting`: replicas that are up
take steps, one that died is restarted by its supervisor, and the database
breaks deadlocks; `EventuallyRecorded` is further claimed only for behaviours in
which deadlocks stop, consumer names are distinct, and no entry is trimmed
while it is pending. `Publishing`: the subscriber's loop polls for ever, and a
snapshot that could be applied again and again is applied (strong fairness of
`Apply`: the control plane is not unreachable for good); nothing is assumed of
administrators or accounting, and the liveness claims are for behaviours in which
the catalog compiles in the end.

## 4. Proofs

TLAPS checks the theorems below for every value of the constants: any number of
requests, replicas, deployments, snapshots, bindings or lines, any capacity,
threshold, limit or TTL, and any value of the bounds of section 3, so that no
bound is part of a result. Every safety property of a passing run is proved but
the three named at the end. The specification of a theorem is the component's own
initial predicate and next-state relation without fairness (`Spec`,
`PipelineSpec`, `AccountingSafety`, ...); the runs use the same relation.

**Assumptions.** Each module names its own, and TLC evaluates them on every
instance. They are types of the constants, positive sizes, finite sets of
goroutines, and these: handlers and mirror workers are the producers of `Shutdown`,
and its bound on events leaves room for two of every request; a
binding of `ComponentBinding` relates a component to a module; built-in names are
no module's (`GuardrailChain`); and, in `PolicyEngine`, two snapshots with one
global digest are one snapshot, which the code gets from `built_at` (section 5).

**SnapshotHolderProofs.** `TypeCorrect`, `RefsAreExact`, `RetiredIsUnused`,
`RetiredOnce`, `RegressionNeverSilent`, `HolderRefines`. Exactness of the counts
is not inductive alone. The invariant adds `Reachable` (current, previous and
whatever a worker or the swapper is at work on are generations that were made,
and a worker about to compare-and-swap has seen a positive count), `Drained` (a
generation that is retired, or whose retirement is pending, has count zero) and
`RetireOnce`. A compare-and-swap therefore never takes a count away from zero,
which gives the two retirement theorems; the refinement follows step by step.
`RegistryKeepsHolder` shows that the Holder with the component registry in its
onApply hook is still the Holder, so all of these hold of the composition.
`BoundBeforeServedHolds` needs more than the snapshots in use: `BoundInv` covers
every snapshot a generation was made from, because a rollback can bring it back,
and what Sync has left to do of the one it is applying. A binding whose component
failed to load is remembered until it loads.

**WorkerProofs: the emitter and the process.** `LossIsExact`: received = dropped +
written + buffered + batched + in producers' hands. Each step moves one event
between two of the terms; the lemmas `HandsMove` and `HandsStay` say what a change
of one producer's control point does to the number of events in hands.
`ProcessRunsEmitter` (the process implements the emitter's specification, so
`LossIsExact` carries over as `ProcessLossIsExact`), `ProcessTypeCorrect` and
`GracefulExit`. The invariant adds that accepted mirrors are mirrored, failed,
queued or in a worker's hands; that a goroutine is inside Emit only at the points
where its code calls it; and, for each stage of main, what has ended by then. The
last two are what makes the order of the deferred calls matter.

**WorkerProofs: the pipeline.** `OneUsageEventHolds`, `SlotsCoverHoldersHolds`,
`SentAsRequiredHolds`, `RestoredFromServingHolds`. `HandlerOK` says, by where a
handler is, whether it has a slot, that it has emitted nothing yet, that the
attempt that is running was sent to its own deployment, and that every payload
sent so far had a form the class, as it now is, allows at its deployment: with a
vault the one form required, without one any that is not unprotected, which is as
much as holds (`vaultless`). The last is why replacements of an earlier attempt
cannot be taken for the serving one's; it does not depend on the vault, because
the replacements are the attempt's own. `SlotsCoverHolders` is one-sided: it shows
that no slot is given back twice, and `stream_slot` that one can be kept.

**LimiterProofs.** `WindowBoundHolds` counts permits (`PermitsInv`): spent, left in
the workers' buckets, and leased but not yet installed are together at most what
the store has counted out, up to the limit, and a lease for each failure. A sum
over workers is the size of a set of pairs (`Units`), so that a step which changes
one bucket moves it by that bucket's difference. `SlotsExactHolds` needs that
whoever is past Arrive was counted (`SlotsInv`): then the clamp of releaseSlot is
never reached. It is for principals whose concurrency limit changes but is there in
every snapshot: while there is none the requests are not counted at all.

**RouterProofs.** `ProbingStateIsLocalHolds`: each method of a breaker keeps its
probing state local, whatever it is called after. `OutcomeTruthfulHolds`:
`ExecutionOK` says that the index of the loop bounds the deployments called so far
and that lastErr is set exactly when there is one.

**GuardrailChainProofs.** `ServedMeansInspectedHolds` and `OffPathAccountedHolds`.
`PassedOK` says of a chain that still runs what each binding it is past has
answered, and that the payload is the sequence of those that rewrote it; `Agrees`,
over every answer, failure and trap of a component, that what evaluate returns is
what the component said. `TasksInv` ties each off-path goroutine to one binding the
request is past, and `StoppedInv` says that no chain runs behind a server that
stopped with its handlers done.

**RequestPathProofs.** `PolicyIsOwnHolds`: a bundle in the shared cache comes from a
snapshot with the cache's digest, and one in a request's hands from the snapshot
it holds (`PolicyInv`); what evaluating a decoded bundle gives is a lemma about the
operators. `CredentialIsRecentHolds`: the bound is on a credential in use, and the
invariant dates each copy on its way there (`EntryOK`, `ResolverOK`): a secret
about to be stored was the store's when its fetch began or later, so one that has
been rotated away since is in `straddled`, and a cached one expires within a TTL of
its rotation, or a TTL and a fetch if it is there. `CompleteMeansTerminatedHolds` and
`BilledAsReportedHolds`, for streams of any length: what was relayed is compared
with what was read at every line (`RelayOK`), and the adapter's usage with the last
report of each class (`BillOK`).

**ControlPlaneProofs.** Accounting: `AckedIsRecordedHolds` and `ChargedOnceHolds`,
wherever the stream is trimmed. `ApplyOK` says what a process has recorded of its batch at each
point; `DistinctRequests` that no two entries of a request are recorded or
inserted by open transactions, which is what the unique key and the wait for an
uncommitted row give; `ChargesInv` that an open transaction has made exactly the
charges its inserted entries owe, up to the budget it is at. Publishing:
`ContentCoversVersionHolds` and `RevokedStaysOutHolds`, from `CoverInv`: no snapshot is
ahead of the versions there were, a build reads its versions before its keys, and
neither the build nor the worker has a key its own versions deny.

**GovernanceProofs.** `ChainStaysIntact`: what the chain looks like between commits
says nothing of the rows a replica is about to add, so the invariant describes
them: a replica past the lock with something to append holds the lock
(`LockHeld`); the committed rows followed by its own are numbered from one, verify
and repeat no event (`Sound`), and it goes on from their head; what it has already
gone past is among them (`AtHand`). `ExtendSound` is the step of the loop,
`NoConflict` makes the refusal of a commit impossible, and `OneReplicaMoves` is the
frame shared by all steps that do not write to the table. `VerdictEarnedHolds` and
`CleansUpHolds`: between a component and the verdict on it lies the report, so
`ReportInv` says what each case that passed shows of the component and that one
that failed is the component's fault or an interrupt's; `PathInv` by which way a
run came to its step, `HostInv` what it holds there, and `VerdictInv` and
`RecordInv` carry that to the registry. The context is looked at once more before a
verdict is sent, which is why an interrupt never becomes a recorded failure.

**Only model-checked.** Liveness (`ProbeSlotFreed`, `DrainCompletes`,
`ShutdownCompletes`, `ChainDrains`, `JobConcludes`, `EventuallyRecorded`,
`RevocationReachesWorkers`): TLAPS 1.4 does not reason about fairness or ENABLED.
`RestoredExactly`: what `Pii` computes is by recursion over texts.
`ServedAsPublished` and `AcceptedIsSound`: a layer's indexes are filtered
sequences, and what a filter returns for every sequence is an induction on its
length with the test as an operator parameter, which the installed provers cannot
instantiate. `FineTune` has no safety property that holds and is worth a proof:
its claim is `JobConcludes`, and `TerminalStays` fails.

## 5. Disagreements seen and not run

- `holder.go:10-13` says a request "must see one consistent configuration for its
  whole life". The registry binds a component's name for the whole worker
  (`registry.go:140`), so a request on a leased snapshot can run the module
  another snapshot names, and Rollback does not bind it back.
- `keys.py:206` and `accounting.py:151` say a worker rejects a layer whose version
  "has not moved forward". `checkMonotonic` accepts an equal version, and
  `RevocationReachesWorkers` depends on that: a layer that changed behind a version
  the worker already has is still applied.
- `repository.py:264` drops a dangling budget reference "so the builder's own
  check reports it"; the builder looks only at the references that are left.
- `breaker.go:105` says exactly one request is admitted at a time in the
  half-open state. An attempt admitted while the breaker was closed may finish
  after it has gone half-open, and its Succeed or Fail (or the prober's) frees
  the slot while its owner is still calling.
- `prober.go:249` says a successful probe lets a recovered deployment come back
  and tells the breaker directly, "because health alone would not reopen it".
  `Succeed` changes the state of a half-open breaker only (`breaker.go:142`), so
  a probe of an open one has no such effect and a request still has to discover
  the recovery.
- `limiter.go:147` releases a slot on refusal whether or not one was taken, which
  the comment at line 283 calls a bug in the caller; the clamp there keeps the
  counter from going negative.
- The vault keeps the originals of an attempt that failed until their TTL
  (`transform.go:67` speaks of the duration of a request).
- A request id is the caller's trace id (`server.go:291`); two requests of one
  trace are one record to accounting.
- If the grace expires, late handlers emit into a closed emitter and send on a
  closed queue (`main.go:391`).
- Accounting charges budgets in each event's order; two replicas can deadlock
  repeatedly (`accounting.py:131`). A replica removed for good leaves its
  pending entries to nobody.
- The policy cache is keyed by the digest of the global layer alone. A change of a
  tenant's bundle is seen because every build gives the global layer a new
  `built_at`, and with it a new digest.
- `convert.go:96-99` speaks of a key whose lookup is missing; such a key is left
  out and the layer is taken. A budget's scope that the build does not know is
  left unset.
- `server.go:419-421`: a stream that is cut off or abandoned before the provider
  reports usage is recorded with no tokens; a report of no input and no output
  is dropped like a missing one.
- The Restorer releases text at any character, so a chunk it returns can end
  inside an SSE frame. When overlapping matches are merged, what the dropped one
  covers beyond the kept one is sent as it is. A payload that itself contains
  text in the shape of a placeholder need not come back as it was.
- A second Close of a sandbox waits ten seconds; the wall clock of `sandbox.go:64`
  kills the client process only.
- `secrets.go:55-56` says "a rotated secret takes effect within one TTL". That is
  what `CredentialIsRecent` states but for one case: a fetch that read the secret
  before the rotation and returns after it caches it for a TTL counted from its
  return (`secrets.go:124`), so it stays in use for the length of that fetch
  longer. Invalidate is called by tests only.
- `redisstream.go:48-56` says that a dropped audit record is a gap and that "the
  chain exists to make gaps detectable". A record that was trimmed before the
  consumer read it never gets a place in the chain, which verifies without it.
  One that was trimmed while it was pending at a process that died stays in the
  pending list when nothing else of that batch parses.
- `marshalPolicy` drops a bundle without rules and without an id, whatever its
  default effect. A manifest without a name, run in process, is recorded as a failing
  verdict.
- `audit_main.py` starts as `accounting_main.py` does, so what
  `accounting_stranded` shows holds of decisions too. The uniqueness of `seq` means
  that the chain would not fork without the advisory lock: the appender would be
  refused instead.
- A stale write can take a fine-tune job from READY back to TRAINING while its
  rollout runs. Cancelling a job whose reconciler died after it called the trainer
  leaves a run nobody watches. Operators' rollout requests read without a lock, so
  an advance can overwrite an abort. A job whose canary steps do not end in 100
  makes `advance_rollouts` raise, and the rollouts listed after it are not looked at.

## 6. Hazards

`PROJECT.json` lists what in this code is hard to test, where it bites, and the
property that would catch it going wrong; one without a property says why.

## 7. Not modelled

- The admin API, the dashboard, configuration, tracing and metrics parse and
  render; the services under them are modelled where they change state another
  part reads.
- Floating point: scores, health averages and the weighted draw of the router are
  any order of the candidates; eval scores and the judge's are any verdict.
- Text patterns: detectors of personal data are any matches, built-in guardrails
  any verdict they can give. The redact and hash strategies are not undone and
  have no state.
- Buffered provider calls, request bodies, probes, the echo provider and the NER
  sidecar are any outcome of a call. Generated code is taken to carry what it is
  given.
- Isolation of components (containers, namespaces, WASM memory limits) is the
  runtime's. The provider and store contract suites are run by tests only.
- Of the control plane: creating tenants, policies and component registration are
  single requests that validate and write; signing is cryptography. Digests,
  hashes and signatures are taken to be injective where a model uses them.
- `WithTenantLayer` and `WithGlobalLayer`, which no worker calls, and the
  subscriber's backoff times and Stop.
