SPECIFICATION PipelineSpec
CONSTANTS
  r1 = r1 r2 = r2 d1 = d1 d2 = d2
  Requests = {r1, r2}
  Streams = {r2}
  Deployments = {d1, d2}
  Internal = {d2}
  KeyClass = "public"
  HasVault = TRUE
  MaxConcurrent = 2
  MaxAttempts = 2
INVARIANT DecisionsAudited
