SPECIFICATION MCSpec
CONSTANTS
  p1 = p1 p2 = p2 n1 = n1 n2 = n2 b1 = b1 b2 = b2 b3 = b3 gone = gone
  r1 = r1 r2 = r2 r3 = r3 NoId = NoId NoBudget = NoBudget
  acme = acme globex = globex
  Processes = {p1, p2}
  Names = {n1, n2}
  Budgets = {b1, b2, b3}
  Entries <- MCEntries
  RequestOf <- MCRequestOf
  BudgetsOf <- MCBudgetsOf
  TenantOf <- MCTenantOf
  BudgetTenant <- MCBudgetTenant
  StreamMaxLen = 2
  BatchSize = 2
  MaxCrashes = 2
  t1 = t1 k1 = k1 k2 = k2 c1 = c1 c2 = c2
  Tenants = {t1}
  Keys = {k1, k2}
  Owner <- MCOwner
  Issued = {k1}
  Sessions = {c1, c2}
  MaxVersion = 3
  Jobs <- MCJobs
  Appenders = {p1, p2}
  Decisions <- MCDecisions
  e1 = e1 e2 = e2 Unparseable = Unparseable
  AuditMaxLen = 2
  AuditBatch = 2
  MaxAuditCrashes = 2
  f1 = f1 f2 = f2 o1 = o1
  Reconcilers = {f1, f2}
  Operators = {o1}
  CanarySteps <- MCCanarySteps
  MaxFailures = 2
CHECK_DEADLOCK FALSE
INVARIANTS
  ChainIntact
  ChargedOnce AckedIsRecorded
  ContentCoversVersion
  VerdictEarned CleansUp
PROPERTIES
  JobConcludes
  EventuallyRecorded
  RevokedStaysOut RevocationReachesWorkers
