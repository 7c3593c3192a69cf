SPECIFICATION MCSpec
CONSTANTS
  r1 = r1 r2 = r2 d1 = d1 d2 = d2
  Requests = {r1, r2}
  Streams = {r2}
  Deployments = {d1, d2}
  Internal = {d2}
  KeyClass = "public"
  HasVault = TRUE
  MaxConcurrent = 1
  MaxAttempts = 2
  g1 = g1 g2 = g2 g3 = g3 p1 = p1 p2 = p2 t1 = t1
  NoGen = NoGen
  NoModule = NoModule
  Gens = {g1, g2, g3}
  Workers = {p1, p2}
  Snapshots <- MCSnapshots
  Initial = "a"
  GlobalVersion <- MCGlobal
  TenantVersion <- MCTenant
  Components <- MCComponents
  Digests <- MCDigests
  Bindings <- MCBindings
  h1 = h1 h2 = h2 m1 = m1 q1 = q1 q2 = q2
  Handlers <- MCHandlers
  MirrorWorkers <- MCMirrorWorkers
  Producers <- MCProducers
  BufferSize = 1
  BatchSize = 2
  Sinks = 1
  QueueSize = 1
  MaxRequests = 2
  MaxEvents = 4
  Guarded = {q1, q2}
  Chains <- MCChains
  Builtins = {"sec"}
  Modules = {"w1", "w2"}
  OffPathLimit = 1
CHECK_DEADLOCK FALSE
INVARIANTS
  OneUsageEvent SlotsCoverHolders SentAsRequired RestoredFromServing
  RefsExact RetiredUnused RetireOnce BoundBeforeServed
  ExactLoss GracefulExitLosesNothing
  ServedMeansInspected OffPathAccounted
PROPERTIES
  NoSilentRegression ImplementsLeaseService DrainCompletes
  ShutdownCompletes ChainDrains
