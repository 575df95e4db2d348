SPECIFICATION WorkerSpec
CONSTANTS
  source = source
  Handler = {h1, h2}
  Caller = {source, h1, h2}
  Batch <- TheBatch
  Scope <- TheScope
  LegacyScope = {"w"}
  Ident = {"alice"}
  Slug = {"alice"}
  GraphReceipt = {"good", "held"}
  WorkerReceipt = {"good", "held"}
  Publication = {"good", "held"}
  Failure = {f1}
  Stamp = {t1, t2}
  MaxLosses = 2
  scope <- ScopeOf
  batchId <- Named
  idempotencyKey <- Named
  runId <- Named
  attempt <- FirstAttempt
  mentions <- Mentions
  slug <- Slugs
  allowPublication <- Policy
  quality <- Quality
  legacyScope <- Legacy
  pool <- Pool
  graphOf <- Named
  bodyOf <- Named
  publicationOf <- Named
INVARIANT
  NoPassingRunRejected
PROPERTY
  EveryBatchCloses
CHECK_DEADLOCK FALSE
