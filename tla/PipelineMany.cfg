SPECIFICATION Spec
CONSTANTS
  Caller = {c1, c2}
  Batch <- ManyBatch
  Scope <- ManyScope
  LegacyScope = {"w", "all"}
  Ident = {"alice", "acme"}
  Slug = {"alice", "Alice"}
  GraphReceipt = {}
  WorkerReceipt = {}
  Publication = {}
  Failure = {f1}
  Stamp = {}
  scope <- ManyScopeOf
  batchId <- ManyId
  idempotencyKey <- ManyKey
  runId <- ManyRun
  attempt <- ManyAttempt
  mentions <- ManyMentions
  slug <- ManySlug
  allowPublication <- ManyPolicy
  quality <- ManyQuality
  legacyScope <- ManyLegacy
  pool <- ManyPool
SYMMETRY CallerSymmetry
INVARIANTS
  OneIdentityPerScope
  StoredBatchesDistinct
  
