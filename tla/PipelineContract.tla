-------------------------- MODULE PipelineContract --------------------------
(***************************************************************************)
(* What the GenesisRAG17 wire contract accepts                             *)
(* (packages/gks-contracts/src/pipeline.mjs): scopes, stage identities,    *)
(* batches, receipts, and the credential and principal of an envelope.     *)
(* A refusal is FALSE; which of several defects is named in the answer is  *)
(* left out.  A text is a sequence of tokens, two of which are the halves  *)
(* of a surrogate pair; no two texts have one hash.                        *)
(* "" stands for a string that is missing or blank, and a field that is    *)
(* absent is absent from the DOMAIN of its record.                         *)
(***************************************************************************)
EXTENDS Integers, Sequences, SequencesExt, FiniteSetsExt

ScopeKeys == {"portfolioId", "tenantId", "businessId", "workspaceId", "agentId", "visibility"}
SchemaVersion == "genesisrag17.v1"
StageCatalog == <<9, 10, 11, 12, 13, 14, 15, 16, 17>>
WorkerStages == {13, 15, 16}
TemporalKeys == {"temporal", "temporal_claim", "temporal_metadata", "valid_from", "valid_to", "tx_from", "tx_to",
                 "recorded_at", "superseded_at"}
Metrics == {"records_in", "records_out", "records_quarantined", "error_count", "retry_count", "duration_ms"}
Model   == "pinned"
SupportedVersions == {"ontology_v1", "ontology_v2"}
Lanes   == {"vector", "lexical", "graph", "sqlite", "bitemporal", "provenance"}

(* The canonical text of a value is the same in whatever order the keys of  *)
(* its objects were written, and differs for any other value: a list keeps  *)
(* its order.  JSON has no numbers that are not finite.                     *)
canonicalJsonString(v) == <<"json", v>>
sha256Text(text) == <<"sha256", text>>
sha256Json(v)    == sha256Text(canonicalJsonString(v))
ValidHash(h)     == Len(h) = 2 /\ h[1] = "sha256"

ValidScope(s) ==
  /\ DOMAIN s = ScopeKeys
  /\ \A k \in {"portfolioId", "tenantId", "businessId"} : s[k] # ""
  /\ s["visibility"] = "private"

samePipelineScope(s, t) == ValidScope(s) /\ ValidScope(t) /\ s = t

-----------------------------------------------------------------------------
(* Variant: the role of the principal is not compared.                      *)
AuthorizedAnyRole(e, credential, role, scope) ==
  /\ credential # "" /\ e.credential = credential
  /\ e.principal.id # "" /\ samePipelineScope(e.principal.scope, scope)

(* authorizePipelineRequest with validatePipelinePrincipal, behind          *)
(* pipelineEnvelope: the scope of the envelope, when it has one (a set of at  *)
(* most one), is the scope of the payload.                                  *)
Authorized(e, credential, role, scope) ==
  /\ \A s \in e.scope : s = scope
  /\ credential # "" /\ e.credential = credential
  /\ e.principal.id # "" /\ e.principal.role = role
  /\ samePipelineScope(e.principal.scope, scope)

(* The two credentials of a service: without one of its own the worker uses *)
(* the relay credential; the two may not be equal.                          *)
Credentials(relay, worker) == [source |-> relay, worker |-> IF worker = "" THEN relay ELSE worker]

-----------------------------------------------------------------------------
(* validateStageIdentities; a receipt echoes them in any order.             *)
ValidStages(stages, run, catalogOrder) ==
  /\ Len(stages) = Len(StageCatalog)
  /\ IsInjective([i \in DOMAIN stages |-> stages[i].number])
  /\ \A i \in DOMAIN stages :
       LET s == stages[i]
       IN /\ s.number \in ToSet(StageCatalog) /\ s.pipelineStageId = s.number
          /\ catalogOrder => s.number = StageCatalog[i]
          /\ s.run = run /\ s.step # "" /\ s.attempt # ""

WellFormed(text) == \A i \in DOMAIN text :
  /\ text[i] = "hi" => i < Len(text) /\ text[i + 1] = "lo"
  /\ text[i] = "lo" => i > 1 /\ text[i - 1] = "hi"

Slice(text, from, to) == SubSeq(text, from + 1, to)

ValidSource(s) ==
  /\ \A k \in {"sourceId", "rawArtifactId", "parsedArtifactId", "documentId", "version"} : s[k] # ""
  /\ s.content # <<>> /\ WellFormed(s.content) /\ s.contentHash = sha256Text(s.content)

Spans(from, to, length) == 0 <= from /\ from < to /\ to <= length

(* Variant: the text of a chunk is not compared with its place in the source. *)
ValidChunksUnplaced(chunks, s) ==
  /\ chunks # <<>> /\ IsInjective([i \in DOMAIN chunks |-> chunks[i].chunkId])
  /\ \A i \in DOMAIN chunks :
       LET c == chunks[i]
       IN /\ c.chunkId # "" /\ c.parsedArtifactId = s.parsedArtifactId /\ c.ordinal >= 0
          /\ Spans(c.startOffset, c.endOffset, Len(s.content))
          /\ WellFormed(c.text) /\ c.contentHash = sha256Text(c.text)

ValidChunks(chunks, s) ==
  /\ chunks # <<>> /\ IsInjective([i \in DOMAIN chunks |-> chunks[i].chunkId])
  /\ \A i \in DOMAIN chunks :
       LET c == chunks[i]
       IN /\ c.chunkId # "" /\ c.parsedArtifactId = s.parsedArtifactId /\ c.ordinal >= 0
          /\ Spans(c.startOffset, c.endOffset, Len(s.content))
          /\ c.text = Slice(s.content, c.startOffset, c.endOffset)
          /\ WellFormed(c.text) /\ c.contentHash = sha256Text(c.text)

ValidMentions(mentions, chunks) ==
  /\ IsInjective([i \in DOMAIN mentions |-> mentions[i].sourceMentionId])
  /\ \A i \in DOMAIN mentions :
       LET m == mentions[i]
       IN /\ m.sourceMentionId # "" /\ m.resolutionKey # <<>> /\ m.semanticType # ""
          /\ \E j \in DOMAIN chunks :
               /\ chunks[j].chunkId = m.chunkId
               /\ Spans(m.startOffset, m.endOffset, Len(chunks[j].text))
               /\ Slice(chunks[j].text, m.startOffset, m.endOffset) = m.name

(* `extra` are the keys, at any depth, that no field reads: all are dropped, *)
(* but a temporal one is refused rather than dropped without a word.        *)
CarriesNoTime(b) == b.extra \cap TemporalKeys = {}

(* validatePipelineBatch.                                                   *)
ValidBatch(b) ==
  /\ CarriesNoTime(b)
  /\ b.schemaVersion = SchemaVersion
  /\ b.batchId # "" /\ b.idempotencyKey # "" /\ b.runId # ""
  /\ ValidScope(b.scope)
  /\ ValidStages(b.stages, b.runId, TRUE)
  /\ ValidSource(b.source) /\ ValidChunks(b.chunks, b.source) /\ ValidMentions(b.mentions, b.chunks)
  /\ {"allowEmbedding", "allowPublication"} \subseteq DOMAIN b.policy

-----------------------------------------------------------------------------
(* Receipts.  An instant is a number, 0 one that is no ISO UTC timestamp.   *)

ValidInterval(t) == t.started > 0 /\ t.finished >= t.started
ValidMetrics(m)  == DOMAIN m = Metrics /\ \A k \in Metrics : m[k] >= 0

ValidTransaction(t) == \A field \in {"id", "frontier", "checkpoint"} : t[field] # ""

(* What a message about a decision names: its run and the hash of it.       *)
ValidReference(r, scope) ==
  /\ r.schemaVersion = SchemaVersion /\ ValidScope(scope)
  /\ r.runId # "" /\ r.decisionId # "" /\ ValidHash(r.decisionHash)

ValidHead(r, scope) ==
  /\ ValidReference(r, scope)
  /\ ValidStages(r.stages, r.runId, FALSE) /\ ValidTransaction(r.transaction)

ValidGraphReceipt(r, scope) ==
  /\ ValidHead(r, scope) /\ ValidMetrics(r.metrics) /\ ValidInterval(r.time)
  /\ r.nodeCount >= 0 /\ r.edgeCount >= 0

(* validatePipelineReceipt: the pinned model, all six lanes, the metrics    *)
(* and the times of Stages 13, 15 and 16, each after the one before.        *)
ValidReceipt(r, scope) ==
  /\ ValidHead(r, scope) /\ ValidHash(r.graphHash) /\ ValidHash(r.derivedHash)
  /\ r.snapshotId # "" /\ r.generation # ""
  /\ DOMAIN r.times = WorkerStages /\ \A n \in WorkerStages : ValidInterval(r.times[n])
  /\ r.times[13].finished <= r.times[15].started /\ r.times[15].finished <= r.times[16].started
  /\ DOMAIN r.metrics = WorkerStages /\ \A n \in WorkerStages : ValidMetrics(r.metrics[n])
  /\ r.model = Model
  /\ \A k \in {"nodeCount", "edgeCount", "vectorCount", "citationCount", "queryCount", "leaks"} : r[k] >= 0
  /\ DOMAIN r.lanes = Lanes
  /\ \A l \in Lanes : r.lanes[l].status \in {"ready", "not_applicable", "unsupported"} /\ r.lanes[l].objects >= 0
  /\ \A k \in {"recallAt5", "mrr", "citation"} : 0 <= r[k] /\ r[k] <= 100

-----------------------------------------------------------------------------
(* The other calls of the worker.                                           *)

(* A worker takes one decision at a time; an absent limit means one.        *)
ValidClaim(r) == r.schemaVersion = SchemaVersion /\ ValidScope(r.scope) /\ r.limit \subseteq {1}

(* Variant: a failure may be of any stage of the catalog.                   *)
ValidStageFailureAnyStage(f, scope) ==
  /\ ValidReference(f, scope)
  /\ f.stage.number \in ToSet(StageCatalog) /\ f.stage.pipelineStageId = f.stage.number
  /\ f.stage.run = f.runId /\ f.stage.step # "" /\ f.stage.attempt # ""
  /\ ValidInterval(f.time) /\ ValidMetrics(f.metrics) /\ f.code # "" /\ f.message # ""

(* Only the stages Tier 4 executes may be reported as failed by it.         *)
ValidStageFailure(f, scope) ==
  /\ ValidReference(f, scope)
  /\ f.stage.number \in WorkerStages /\ f.stage.pipelineStageId = f.stage.number
  /\ f.stage.run = f.runId /\ f.stage.step # "" /\ f.stage.attempt # ""
  /\ ValidInterval(f.time) /\ ValidMetrics(f.metrics) /\ f.code # "" /\ f.message # ""

ValidGateRequest(r) ==
  /\ r.schemaVersion = SchemaVersion /\ ValidScope(r.scope)
  /\ r.decisionId # "" /\ ValidHash(r.decisionHash)

ValidPublication(p, scope) ==
  /\ ValidReference(p, scope)
  /\ \A k \in {"snapshotId", "generation", "modelRevision", "frontier"} : p[k] # ""
  /\ ValidHash(p.receiptHash) /\ ValidHash(p.pointerHash)
  /\ p.publishedAt > 0 /\ p.ok
=============================================================================
