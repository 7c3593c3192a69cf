SPECIFICATION MCSpec
CONSTANTS
  k1 = k1 k2 = k2 r1 = r1 r2 = r2 r3 = r3 c1 = c1 c2 = c2 c3 = c3
  Specs <- MCSpecs
  Altered <- MCAltered
  MaxUint32 = 5
  Limit = 3
  Lease = 2
  Fleets <- MCFleets
  Callers = {c1, c2, c3}
  Calls <- MCCalls
  Histories <- MCHistories
  Resolvers = {c1, c2}
  Refs = {"", "f1"}
  TTL = 2
  MaxFetch = 1
  MaxRotations = 2
  MaxTime = 5
  Reports <- MCReports
  MaxLines = 4
  Payloads <- MCPayloads
  MaxMatches = 2
  MaxPlaceholderLen = 5
CHECK_DEADLOCK FALSE
INVARIANTS
  ServedAsPublished AcceptedIsSound
  WindowBound SlotsExact
  PolicyIsOwn
  CredentialIsRecent
  CompleteMeansTerminated BilledAsReported
  RestoredExactly
