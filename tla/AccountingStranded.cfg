SPECIFICATION AccountingSpec
CONSTANTS
  p1 = p1
  p2 = p2
  n1 = n1
  n2 = n2
  b1 = b1
  b2 = b2
  b3 = b3
  gone = gone
  acme = acme
  globex = globex
  r1 = r1
  r2 = r2
  r3 = r3
  NoId = NoId
  NoBudget = NoBudget
  Processes = {p1}
  Names = {n1}
  Budgets = {b1}
  Entries <- MCEntries
  RequestOf <- OneEach
  BudgetsOf <- OneBudget
  TenantOf <- MCTenantOf
  BudgetTenant <- MCBudgetTenant
  StreamMaxLen = 3
  BatchSize = 2
  MaxCrashes = 2
PROPERTY
  NothingStranded
