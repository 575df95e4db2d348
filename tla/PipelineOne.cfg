SPECIFICATION Spec
CONSTANTS
  Caller = {c1, c2}
  Batch <- OneBatch
  Scope <- OneScope
  LegacyScope = {"w"}
  Ident = {"alice"}
  Slug = {"alice"}
  GraphReceipt = {g1, g2}
  WorkerReceipt = {"good", "held"}
  Publication = {p1, p2}
  Failure = {f1, f2}
  Stamp = {t1, t2}
  scope <- OneScopeOf
  batchId <- OneName
  idempotencyKey <- OneName
  runId <- OneName
  attempt <- OneAttempt
  mentions <- OneMentions
  slug <- OneSlug
  allowPublication <- OnePolicy
  quality <- OneQuality
  legacyScope <- OneLegacy
  pool <- OnePool
INVARIANTS
  TypeOK
  LedgerAgreesWithStatus
  LedgerOrder
  PublishedIsEarned
  OneRowPerDecision
  AnswersAreStored
PROPERTIES
  ImplementsStageLedger
  HistoryIsImmutable
