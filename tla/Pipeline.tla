------------------------------ MODULE Pipeline ------------------------------
(***************************************************************************)
(* The GenesisRAG17 pipeline of the Genesis Knowledge System: the service  *)
(* handlers of packages/gks-core/src/index.mjs (pipelineSubmit ...         *)
(* pipelinePublicationReceipt) over the SQLite transactions of             *)
(* packages/gks-persistence/src/index.mjs (the transactPipeline functions).*)
(*                                                                         *)
(* Several callers (server processes, or handlers of one process between   *)
(* two awaits) work on one store.  A transaction is BEGIN IMMEDIATE, hence *)
(* one atomic action; the reads a handler makes before its transaction are *)
(* actions of their own, so that other callers act between them.           *)
(*                                                                         *)
(* A hash stands for what it covers: two payloads have the same hash when  *)
(* they are the same value.  Requests whose decision hash, run or stage    *)
(* identities are not those of the stored decision are refused before any  *)
(* write and are left out.                                                 *)
(***************************************************************************)
EXTENDS Naturals, Sequences, FiniteSets

CONSTANTS
  Caller,         \* processes, or handlers in flight, that share the store
  Batch,          \* materialised batches, as sent: distinct when their batchHash is
  Scope,          \* six-field pipeline scopes
  LegacyScope,    \* their legacy images (agentId dropped)
  Ident,          \* typed identities: norm_v1(resolutionKey) with the semantic type
  Slug,           \* spellings of resolution keys that norm_v1 makes equal
  GraphReceipt,   \* Stage 13 receipts whose readback matches the decision
  WorkerReceipt,  \* what the worker measured for Stages 15 and 16
  Publication,    \* publication receipts
  Failure,        \* stage failure reports
  Stamp           \* clock readings, which make derived rows and verdicts distinct

CONSTANTS
  scope, batchId, idempotencyKey, runId,  \* fields of a batch
  attempt,           \* attempt[b][s]: execution step and attempt id of b at stage s
  mentions,          \* the identities a batch mentions
  slug,              \* how the batch spells them
  allowPublication,  \* the batch's publication policy
  quality,           \* quality[b][w]: the verdict once receipt w of b is in
  legacyScope,       \* pipelineLegacyScopeKey of a scope
  pool               \* the legacy scopes whose entities a lookup from a scope returns

Verdict == {"PASS", "WARN", "FAIL"}

ASSUME ScopeAssumption == scope \in [Batch -> Scope]
ASSUME MentionsAssumption ==
  mentions \in [Batch -> SUBSET Ident] /\ slug \in [Batch -> Slug]
ASSUME PolicyAssumption == allowPublication \in [Batch -> BOOLEAN]
ASSUME QualityAssumption == quality \in [Batch -> [WorkerReceipt -> Verdict]]
ASSUME LegacyScopeAssumption == legacyScope \in [Scope -> LegacyScope]
ASSUME PoolAssumption == pool \in [Scope -> SUBSET LegacyScope]

VARIABLES
  status,        \* pipeline_batches.status, or ABSENT while there is no row
  entities,      \* entities rows of origin 'pipeline'
  graphs,        \* pipeline_graph_receipts
  receipts,      \* pipeline_receipts
  gates,         \* pipeline_gates
  publications,  \* pipeline_publication_receipts
  evidence,      \* pipeline_evidence
  cursor,        \* graph_state.pipeline_evidence_cursor
  version,       \* graph_state.version
  call,          \* per caller, the handler in flight and what it has read
  reply          \* the last answer given to a caller

tables == <<entities, graphs, receipts, gates, publications>>
ledger == <<evidence, cursor>>
store == <<status, tables, ledger, version>>
vars == <<store, call, reply>>

-----------------------------------------------------------------------------
(* Rows and statuses. *)

Status == {"PENDING", "GRAPH_RECEIPTED", "RECEIPT_WRITTEN", "GATED",
           "FAILED_STAGE", "REJECTED", "PUBLISHED"}
Stage == 9..17

\* entityId: a slug of the spelling, and a digest of scope and identity.
Ref == [scope: Scope, slug: Slug]
EntityRow == [ref: Ref, ident: Ident, version: Nat]
GraphRow == [batch: Batch, receipt: GraphReceipt, derived: Stamp]
ReceiptRow == [batch: Batch, body: WorkerReceipt, graph: GraphReceipt, derived: Stamp]
GateRow == [batch: Batch, verdict: Verdict, allow: BOOLEAN,
            graph: SUBSET GraphRow, receipt: SUBSET ReceiptRow, stamp: Stamp]
PublicationRow == [batch: Batch, receipt: Publication]
EvidenceRow == [cursor: Nat, batch: Batch, stage: Stage,
                outcome: {"SUCCEEDED", "FAILED"}, failure: SUBSET Failure]

Of(table, b) == {row \in table : row.batch = b}
Stored(b) == status[b] # "ABSENT"

\* Mutants: a status list that lacks one of the three.
ClosedButNotFailed == {"REJECTED", "PUBLISHED"}
ClosedButNotRejected == {"FAILED_STAGE", "PUBLISHED"}
\* A closed run accepts neither a receipt nor another stage failure.
Closed == {"FAILED_STAGE", "REJECTED", "PUBLISHED"}

-----------------------------------------------------------------------------
(* Calls in flight.  A handler that reads before it writes rests between    *)
(* its reads in one of these states.                                        *)

Idle == [op |-> "idle"]
Call(b) ==
  [op: {"submit"}, batch: {b}, refs: [mentions[b] -> Ref]]
    \cup [op: {"graph"}, batch: {b}, receipt: GraphReceipt]
    \cup [op: {"gateGraph"}, batch: {b}]
    \cup [op: {"gateReceipt"}, batch: {b}, graph: SUBSET GraphRow]
    \cup [op: {"gate"}, batch: {b}, graph: SUBSET GraphRow, receipt: SUBSET ReceiptRow]

Answer(op, b, result, rows) ==
  reply' = [op |-> op, batch |-> {b}, result |-> result, rows |-> rows]
Begin(c, handler) == call' = [call EXCEPT ![c] = handler]
Finish(c) == call' = [call EXCEPT ![c] = Idle]

-----------------------------------------------------------------------------
(* The evidence ledger: one row per stage attempt, numbered by a counter    *)
(* that the writing transaction advances.                                   *)

SameRun(a, b) == scope[a] = scope[b] /\ runId[a] = runId[b]
\* UNIQUE (scope_key, run_id, pipeline_stage_id, execution_step_id, attempt_id):
\* a batch names its attempts freely, so two batches may share a run, and in it
\* the attempt of some stages and not of others.
SameAttempt(a, b, s) == SameRun(a, b) /\ attempt[a][s] = attempt[b][s]

\* Mutant: the key is that of the batch, not of its run.
AttemptsOfBatch(b, stages) == {row \in evidence : row.stage \in stages /\ row.batch = b}
Attempts(b, stages) ==
  {row \in evidence : row.stage \in stages /\ SameAttempt(row.batch, b, row.stage)}
LedgerTaken(b, stages) == Attempts(b, stages) # {}

Record(b, stages, outcome, failure) ==
  /\ evidence' = evidence \cup
       {[cursor |-> cursor + k, batch |-> b, stage |-> stages[k],
         outcome |-> outcome, failure |-> failure] : k \in DOMAIN stages}
  /\ cursor' = cursor + Len(stages)

-----------------------------------------------------------------------------
(* Submit.  The handler awaits the Stage 9 lookup, builds the decision from *)
(* it, and commits.  refs[i] is the ref the decision gives identity i.      *)

Pooled(b, i) ==
  {e \in entities : e.ident = i /\ legacyScope[e.ref.scope] \in pool[scope[b]]}
\* The pool is ordered by creation and the last candidate of an identity wins.
Latest(rows) == CHOOSE e \in rows : \A f \in rows : f.version <= e.version
CanonicalRefs(b) ==
  [i \in mentions[b] |->
     IF Pooled(b, i) = {} THEN [scope |-> scope[b], slug |-> slug[b]]
     ELSE Latest(Pooled(b, i)).ref]

HasEntity(ref, i) == \E e \in entities : e.ref = ref /\ e.ident = i
RefOutside(b, refs) ==
  \E i \in mentions[b] :
    HasEntity(refs[i], i) /\ legacyScope[refs[i].scope] # legacyScope[scope[b]]
\* Mutant: the insert relies on the lookup made before the transaction.
IdentTakenUnchecked(b, refs) == FALSE
IdentTaken(b, refs) ==
  \E i \in mentions[b] :
    /\ ~HasEntity(refs[i], i)
    /\ \E e \in entities : e.ident = i /\ legacyScope[e.ref.scope] = legacyScope[scope[b]]
NewEntities(b, refs) ==
  {[ref |-> refs[i], ident |-> i, version |-> version + 1] :
     i \in {j \in mentions[b] : ~HasEntity(refs[j], j)}}

SameKey(a, b) ==
  scope[a] = scope[b] /\ (idempotencyKey[a] = idempotencyKey[b] \/ batchId[a] = batchId[b])

\* Mutant: the insert is left to find out that the batch, its key or its id is
\* stored already.
SubmitResultUnkeyed(b, refs) ==
  IF RefOutside(b, refs) THEN "denied"
  ELSE IF IdentTaken(b, refs) THEN "conflict"
  ELSE IF \/ \E a \in Batch : Stored(a) /\ batchId[a] = batchId[b]
          \/ LedgerTaken(b, 9..12)
       THEN "backend"
  ELSE "accepted"
SubmitResult(b, refs) ==
  IF Stored(b) THEN "idempotent"
  ELSE IF \E a \in Batch : Stored(a) /\ SameKey(a, b) THEN "conflict"
  ELSE IF RefOutside(b, refs) THEN "denied"
  ELSE IF IdentTaken(b, refs) THEN "conflict"
  ELSE IF \/ \E a \in Batch : Stored(a) /\ batchId[a] = batchId[b]
          \/ LedgerTaken(b, 9..12)
       THEN "backend"
  ELSE "accepted"

SubmitLookup(c, b) ==
  /\ call[c] = Idle
  /\ Begin(c, [op |-> "submit", batch |-> b, refs |-> CanonicalRefs(b)])
  /\ UNCHANGED <<store, reply>>

SubmitCommit(c) ==
  /\ call[c].op = "submit"
  /\ LET b == call[c].batch
         refs == call[c].refs
         result == SubmitResult(b, refs)
     IN  /\ Answer("submit", b, result, {})
         /\ IF result = "accepted"
              THEN /\ status' = [status EXCEPT ![b] = "PENDING"]
                   /\ entities' = entities \cup NewEntities(b, refs)
                   /\ version' = version + 1
                   /\ Record(b, <<9, 10, 11, 12>>, "SUCCEEDED", {})
              ELSE UNCHANGED <<status, entities, version, ledger>>
  /\ Finish(c)
  /\ UNCHANGED <<graphs, receipts, gates, publications>>

-----------------------------------------------------------------------------
(* A worker reports that Stage 13, 15 or 16 failed.                         *)

\* The failure hash covers the decision: a row of another batch never has it.
FailureResult(b, s, f) ==
  IF LedgerTaken(b, {s})
    THEN IF \A row \in Attempts(b, {s}) :
               row.batch = b /\ row.outcome = "FAILED" /\ row.failure = {f}
           THEN "idempotent" ELSE "conflict"
  ELSE IF status[b] \in Closed THEN "conflict"
  ELSE "accepted"

StageFailure(b, s, f) ==
  /\ Stored(b)
  /\ LET result == FailureResult(b, s, f)
     IN  /\ Answer("failure", b, result, {})
         /\ IF result = "accepted"
              THEN /\ Record(b, <<s>>, "FAILED", {f})
                   /\ status' = [status EXCEPT ![b] = "FAILED_STAGE"]
              ELSE UNCHANGED <<status, ledger>>
  /\ UNCHANGED <<tables, version, call>>

-----------------------------------------------------------------------------
(* Graph receipt.  The handler looks for a stored one, derives the Stage 14 *)
(* rows, stamped with its own clock, and commits both.                      *)

\* Mutant: a replay is recognised by the graph receipt's hash alone.
GraphResultByReceipt(b, g, derived) ==
  IF Of(graphs, b) # {}
    THEN IF \E row \in Of(graphs, b) : row.receipt = g THEN "idempotent" ELSE "conflict"
  ELSE IF status[b] \in Closed THEN "conflict" ELSE "accepted"
GraphResult(b, g, derived) ==
  IF Of(graphs, b) # {}
    THEN IF [batch |-> b, receipt |-> g, derived |-> derived] \in graphs
           THEN "idempotent" ELSE "conflict"
  ELSE IF status[b] \in Closed THEN "conflict"
  ELSE IF LedgerTaken(b, {13, 14}) THEN "backend"
  ELSE "accepted"

GraphLookup(c, b, g) ==
  /\ call[c] = Idle
  /\ Stored(b)
  /\ IF Of(graphs, b) = {}
       THEN /\ Begin(c, [op |-> "graph", batch |-> b, receipt |-> g])
            /\ UNCHANGED reply
       ELSE /\ IF \E row \in Of(graphs, b) : row.receipt = g
                 THEN Answer("graph", b, "idempotent", Of(graphs, b))
                 ELSE Answer("graph", b, "conflict", {})
            /\ UNCHANGED call
  /\ UNCHANGED store

GraphCommit(c, derived) ==
  /\ call[c].op = "graph"
  /\ LET b == call[c].batch
         row == [batch |-> b, receipt |-> call[c].receipt, derived |-> derived]
         result == GraphResult(b, row.receipt, derived)
     IN  /\ Answer("graph", b, result,
                   IF result \in {"accepted", "idempotent"} THEN {row} ELSE {})
         /\ IF result = "accepted"
              THEN /\ graphs' = graphs \cup {row}
                   /\ Record(b, <<13, 14>>, "SUCCEEDED", {})
                   /\ status' = [status EXCEPT ![b] = "GRAPH_RECEIPTED"]
              ELSE UNCHANGED <<graphs, ledger, status>>
  /\ Finish(c)
  /\ UNCHANGED <<entities, receipts, gates, publications, version>>

-----------------------------------------------------------------------------
(* The worker's final receipt, which quotes the graph receipt and the       *)
(* derived rows it worked from.                                             *)

\* Mutant: a final receipt is taken without its graph receipt.
MatchesGraphUnchecked(row) == TRUE
MatchesGraph(row) ==
  [batch |-> row.batch, receipt |-> row.graph, derived |-> row.derived] \in graphs

ReceiptResult(row) ==
  IF Of(receipts, row.batch) # {}
    THEN IF row \in receipts THEN "idempotent" ELSE "conflict"
  ELSE IF status[row.batch] \in Closed THEN "conflict"
  ELSE IF ~MatchesGraph(row) THEN "conflict"
  ELSE IF LedgerTaken(row.batch, {15, 16}) THEN "backend"
  ELSE "accepted"

WriteReceipt(row) ==
  /\ Stored(row.batch)
  /\ LET result == ReceiptResult(row)
     IN  /\ Answer("receipt", row.batch, result, {})
         /\ IF result = "accepted"
              THEN /\ receipts' = receipts \cup {row}
                   /\ Record(row.batch, <<15, 16>>, "SUCCEEDED", {})
                   /\ status' = [status EXCEPT ![row.batch] = "RECEIPT_WRITTEN"]
              ELSE UNCHANGED <<receipts, ledger, status>>
  /\ UNCHANGED <<entities, graphs, gates, publications, version, call>>

-----------------------------------------------------------------------------
(* Quality gate.  The handler looks for a stored verdict, reads the graph   *)
(* receipt, then the worker receipt, evaluates, and commits the verdict.    *)

\* Mutant: the derived rows are compared with the wrong hash.
GradedByReceipt(b, graph, receipt, verdict) ==
  \E w \in receipt, g \in graph :
    w.graph = g.receipt /\ w.derived = g.receipt /\ quality[b][w.body] = verdict
Graded(b, graph, receipt, verdict) ==
  \E w \in receipt, g \in graph :
    /\ w.graph = g.receipt /\ w.derived = g.derived
    /\ quality[b][w.body] = verdict
\* Mutants: held facts do not count; a missing receipt has a verdict of its own.
EvaluateLenient(b, graph, receipt) ==
  IF \E v \in {"PASS", "WARN"} : Graded(b, graph, receipt, v) THEN "PASS" ELSE "FAIL"
EvaluateMissing(b, graph, receipt) ==
  IF Graded(b, graph, receipt, "PASS") THEN "PASS"
  ELSE IF receipt = {} THEN "MISSING" ELSE "FAIL"
\* evaluatePipelineQuality: a missing receipt, or one of another graph, fails.
Evaluate(b, graph, receipt) ==
  IF Graded(b, graph, receipt, "PASS") THEN "PASS"
  ELSE IF Graded(b, graph, receipt, "WARN") THEN "WARN"
  ELSE "FAIL"

\* Mutant: the transaction trusts that the handler has seen no verdict.
GateResultUnchecked(row) ==
  IF row.verdict = "PASS" /\ status[row.batch] = "FAILED_STAGE" THEN "conflict"
  ELSE IF ~row.allow /\ LedgerTaken(row.batch, {17}) THEN "backend"
  ELSE "accepted"
GateResult(row) ==
  LET b == row.batch
      stored == Of(receipts, b)
  IN  IF status[b] = "FAILED_STAGE" /\ row.verdict = "PASS" THEN "conflict"
      ELSE IF row.receipt # {} /\ row.receipt # stored THEN "conflict"
      ELSE IF row.verdict = "PASS" /\ {} \in {Of(graphs, b), stored, row.receipt}
        THEN "conflict"
      ELSE IF Of(gates, b) # {}
        THEN IF row \in gates THEN "idempotent" ELSE "conflict"
      ELSE IF ~row.allow /\ LedgerTaken(b, {17}) THEN "backend"
      ELSE "accepted"

GateLookup(c, b) ==
  /\ call[c] = Idle
  /\ Stored(b)
  /\ IF Of(gates, b) = {}
       THEN Begin(c, [op |-> "gateGraph", batch |-> b]) /\ UNCHANGED reply
       ELSE Answer("gate", b, "idempotent", Of(gates, b)) /\ UNCHANGED call
  /\ UNCHANGED store

GateReadGraph(c) ==
  /\ call[c].op = "gateGraph"
  /\ LET b == call[c].batch
     IN  Begin(c, [op |-> "gateReceipt", batch |-> b, graph |-> Of(graphs, b)])
  /\ UNCHANGED <<store, reply>>

GateReadReceipt(c) ==
  /\ call[c].op = "gateReceipt"
  /\ LET b == call[c].batch
     IN  Begin(c, [op |-> "gate", batch |-> b, graph |-> call[c].graph,
                   receipt |-> Of(receipts, b)])
  /\ UNCHANGED <<store, reply>>

GateVerdict(read, stamp) ==
  LET verdict == Evaluate(read.batch, read.graph, read.receipt)
  IN  [batch |-> read.batch, verdict |-> verdict,
       allow |-> allowPublication[read.batch] /\ verdict = "PASS",
       graph |-> read.graph, receipt |-> read.receipt, stamp |-> stamp]

GateCommit(c, stamp) ==
  /\ call[c].op = "gate"
  /\ LET row == GateVerdict(call[c], stamp)
         b == row.batch
         result == GateResult(row)
     IN  /\ Answer("gate", b, result,
                   IF result \in {"accepted", "idempotent"} THEN {row} ELSE {})
         /\ IF result = "accepted"
              THEN /\ gates' = gates \cup {row}
                   /\ IF row.allow THEN UNCHANGED ledger
                                   ELSE Record(b, << 17 >>, "FAILED", {})
                   /\ status' = [status EXCEPT ![b] =
                                   IF row.allow THEN "GATED" ELSE "REJECTED"]
              ELSE UNCHANGED <<gates, ledger, status>>
  /\ Finish(c)
  /\ UNCHANGED <<entities, graphs, receipts, publications, version>>

-----------------------------------------------------------------------------
(* Publication receipt: it quotes the worker receipt whose snapshot was     *)
(* switched to.                                                             *)

Passed(b) == \E row \in Of(gates, b) : row.verdict = "PASS" /\ row.allow

PublicationResult(quoted, p) ==
  LET b == quoted.batch
  IN  IF status[b] \in {"FAILED_STAGE", "REJECTED"} THEN "conflict"
      ELSE IF quoted \notin receipts THEN "conflict"
      ELSE IF ~Passed(b) THEN "conflict"
      ELSE IF Of(publications, b) # {}
        THEN IF [batch |-> b, receipt |-> p] \in publications
               THEN "idempotent" ELSE "conflict"
      ELSE IF LedgerTaken(b, {17}) THEN "backend"
      ELSE "accepted"

PublicationReceipt(quoted, p) ==
  /\ Stored(quoted.batch)
  /\ LET b == quoted.batch
         result == PublicationResult(quoted, p)
     IN  /\ Answer("publication", b, result, {})
         /\ IF result = "accepted"
              THEN /\ publications' = publications \cup {[batch |-> b, receipt |-> p]}
                   /\ Record(b, << 17 >>, "SUCCEEDED", {})
                   /\ status' = [status EXCEPT ![b] = "PUBLISHED"]
              ELSE UNCHANGED <<publications, ledger, status>>
  /\ UNCHANGED <<entities, graphs, receipts, gates, version, call>>

-----------------------------------------------------------------------------
(* Evidence export: the source pulls the rows of a run page by page, each   *)
(* time from the cursor of the last row it has got.  One read of the store. *)

\* No more than 500 rows are given at a time.
EvidenceRequest == [batch: Batch, after: Nat, limit: 1..500]

\* The rows of all batches of a run.
RunRows(b) == {row \in evidence : SameRun(row.batch, b)}

\* The first rows of the run after the cursor, no more than asked for.
PipelineEvidencePage(e) ==
  {row \in RunRows(e.batch) :
     /\ row.cursor > e.after
     /\ Cardinality({f.cursor : f \in {g \in RunRows(e.batch) :
                                        g.cursor \in (e.after + 1)..row.cursor}}) <= e.limit}

NextCursor(e) ==
  CHOOSE next \in {e.after} \cup {row.cursor : row \in PipelineEvidencePage(e)} :
    \A row \in PipelineEvidencePage(e) : row.cursor <= next

\* A cursor that the store has not reached is refused.
ExportPipelineEvidence(e) ==
  IF e.after > cursor THEN [result |-> "invalid", rows |-> {}, next |-> e.after]
  ELSE [result |-> "ok", rows |-> PipelineEvidencePage(e), next |-> NextCursor(e)]

-----------------------------------------------------------------------------
(* A process dies, or its caller gives up, between a read and the commit.   *)
Crash(c) ==
  /\ call[c] # Idle
  /\ Finish(c)
  /\ Answer("none", call[c].batch, "lost", {})
  /\ UNCHANGED store

-----------------------------------------------------------------------------
Init ==
  /\ status = [b \in Batch |-> "ABSENT"]
  /\ entities = {} /\ graphs = {} /\ receipts = {} /\ gates = {} /\ publications = {}
  /\ evidence = {} /\ cursor = 0 /\ version = 0
  /\ call = [c \in Caller |-> Idle]
  /\ reply = [op |-> "none", batch |-> {}, result |-> "none", rows |-> {}]

Next ==
  \/ \E c \in Caller, b \in Batch : SubmitLookup(c, b)
  \/ \E c \in Caller : SubmitCommit(c)
  \/ \E b \in Batch, s \in {13, 15, 16}, f \in Failure : StageFailure(b, s, f)
  \/ \E c \in Caller, b \in Batch, g \in GraphReceipt : GraphLookup(c, b, g)
  \/ \E c \in Caller, derived \in Stamp : GraphCommit(c, derived)
  \/ \E row \in ReceiptRow : WriteReceipt(row)
  \/ \E c \in Caller, b \in Batch : GateLookup(c, b)
  \/ \E c \in Caller : GateReadGraph(c)
  \/ \E c \in Caller : GateReadReceipt(c)
  \/ \E c \in Caller, stamp \in Stamp : GateCommit(c, stamp)
  \/ \E row \in ReceiptRow, p \in Publication : PublicationReceipt(row, p)
  \/ \E c \in Caller : Crash(c)

Spec == Init /\ [][Next]_vars

-----------------------------------------------------------------------------
(* Properties. *)

\* Every table row, call in flight and counter is of the shape the code writes.
TypeOK ==
  /\ status \in [Batch -> Status \cup {"ABSENT"}]
  /\ entities \subseteq EntityRow
  /\ graphs \subseteq GraphRow
  /\ receipts \subseteq ReceiptRow
  /\ gates \subseteq GateRow
  /\ publications \subseteq PublicationRow
  /\ evidence \subseteq EvidenceRow
  /\ cursor \in Nat /\ version \in Nat
  /\ call \in [Caller -> {Idle} \cup UNION {Call(b) : b \in Batch}]

Stages(b, outcome) == {row.stage : row \in {r \in Of(evidence, b) : r.outcome = outcome}}
Succeeded(b) == Stages(b, "SUCCEEDED")
Failed(b) == Stages(b, "FAILED")

\* The ledger a source principal pulls and the status a worker claims by never
\* disagree: each status stands for exactly the terminal rows that led to it,
\* whatever calls were refused, repeated or cut short on the way.
LedgerAgreesWithStatus ==
  \A b \in Batch :
    /\ status[b] = "ABSENT" => Succeeded(b) = {} /\ Failed(b) = {}
    /\ status[b] = "PENDING" => Succeeded(b) = 9..12 /\ Failed(b) = {}
    /\ status[b] = "GRAPH_RECEIPTED" => Succeeded(b) = 9..14 /\ Failed(b) = {}
    /\ status[b] \in {"RECEIPT_WRITTEN", "GATED"} =>
         Succeeded(b) = 9..16 /\ Failed(b) = {}
    /\ status[b] = "PUBLISHED" => Succeeded(b) = 9..17 /\ Failed(b) = {}
    /\ status[b] = "FAILED_STAGE" =>
         /\ Succeeded(b) \in {9..12, 9..14}
         /\ \E s \in {13, 15, 16} : Failed(b) = {s}
    /\ status[b] = "REJECTED" =>
         /\ Succeeded(b) \in {9..12, 9..14, 9..16}
         /\ 17 \in Failed(b)

\* A failure ends the evidence of success, and successes are recorded in stage
\* order: a reader that stops at any cursor has seen a prefix of the protocol.
LedgerOrder ==
  \A r, s \in evidence :
    r.batch = s.batch /\ s.outcome = "SUCCEEDED" =>
      /\ r.outcome = "FAILED" => s.cursor < r.cursor
      /\ r.outcome = "SUCCEEDED" /\ r.stage < s.stage => r.cursor < s.cursor

\* A run is published only on the strength of the one worker receipt that its
\* gate read, which was graded PASS against the stored graph receipt, under a
\* policy that allows publication.
PublishedIsEarned ==
  \A b \in Batch :
    status[b] = "PUBLISHED" \/ Of(publications, b) # {} =>
      \E row \in gates :
        /\ row.batch = b
        /\ allowPublication[b]
        /\ row.receipt = Of(receipts, b)
        /\ Graded(b, Of(graphs, b), Of(receipts, b), "PASS")

\* The checks before each insert make every decision's receipts, verdict and
\* publication unique, so that the primary keys never have to.
OneRowPerDecision ==
  \A table \in {graphs, receipts, gates, publications} :
    \A r, s \in table : r.batch = s.batch => r = s

\* The constraints of the store refuse a call only on account of another batch,
\* which holds this one's id or names one of its stage attempts in the same run:
\* never for what replays, failures or late handlers recorded of the batch itself.
RefusedForOthersOnly ==
  reply.result = "backend" =>
    \A b \in reply.batch : \E a \in Batch \ {b} :
      /\ Stored(a)
      /\ batchId[a] = batchId[b] \/ \E s \in Stage : SameAttempt(a, b, s)

\* An answer that accepts a graph receipt or a gate call quotes the stored row:
\* no caller is ever told of derived rows or a verdict that did not stay.
AnswersAreStored ==
  /\ reply.op = "graph" => reply.rows \subseteq graphs
  /\ reply.op = "gate" => reply.rows \subseteq gates

\* UNIQUE (scope_key, norm_key) is upheld by the transaction's own check: one
\* identity has one entity in a legacy scope, whatever lookup was stale.
OneIdentityPerScope ==
  \A e, f \in entities :
    e.ident = f.ident /\ legacyScope[e.ref.scope] = legacyScope[f.ref.scope] => e = f

AttemptsEndOnce ==
  \A q, r \in evidence :
    q.stage = r.stage /\ SameAttempt(q.batch, r.batch, r.stage) => q = r

\* Two batches in the store never share an idempotency key of one scope or a
\* batch id.  They may belong to one run, but then each has its own attempts at
\* the stages that a submit closes; an attempt they share at a later stage ends
\* for one of them only, and only once.
StoredBatchesDistinct ==
  /\ \A a, b \in Batch :
       a # b /\ Stored(a) /\ Stored(b) =>
         /\ ~SameKey(a, b) /\ batchId[a] # batchId[b]
         /\ \A s \in 9..12 : ~SameAttempt(a, b, s)
  /\ AttemptsEndOnce

\* A published or rejected run never changes status again, a failed one may only
\* be rejected, and no receipt, verdict or evidence row is rewritten or removed.
HistoryIsImmutable ==
  [][/\ \A b \in Batch :
          /\ status[b] \in {"PUBLISHED", "REJECTED"} => status'[b] = status[b]
          /\ status[b] = "FAILED_STAGE" => status'[b] \in {"FAILED_STAGE", "REJECTED"}
          /\ status[b] = "GATED" => status'[b] \in {"GATED", "PUBLISHED"}
     /\ graphs \subseteq graphs' /\ receipts \subseteq receipts'
     /\ gates \subseteq gates' /\ publications \subseteq publications'
     /\ evidence \subseteq evidence'
     /\ \A row \in evidence' \ evidence : row.cursor > cursor]_vars

\* A source that goes on from the next cursor of its last page has seen every
\* row of its run up to there: what is recorded later, by whichever process, is
\* numbered behind the page, and no row of the page is taken back.
ReaderMissesNothing ==
  [][\A e \in EvidenceRequest :
       LET page == ExportPipelineEvidence(e)
       IN  /\ page.rows \subseteq RunRows(e.batch)'
           /\ \A row \in RunRows(e.batch)' :
                row.cursor \in (e.after + 1)..page.next => row \in page.rows]_vars

\* Through the evidence export the whole service looks like StageLedger: every
\* step of every handler is one of its steps or leaves the ledger alone.
LedgerView == INSTANCE StageLedger WITH
  done <- [b \in Batch |-> Succeeded(b)], failed <- [b \in Batch |-> Failed(b)]
ImplementsStageLedger == LedgerView!Spec

-----------------------------------------------------------------------------
(* What the documents say and concurrent callers break. *)

\* docs/ADR-GKS-GENESISRAG17.md: Stage 17 evaluates "from the immutable decision
\* and actual Tier-4 receipts": the verdict that closes a run has read the
\* receipts the store holds.
VerdictReadsActualReceipts ==
  \A row \in gates :
    row.graph = Of(graphs, row.batch) /\ row.receipt = Of(receipts, row.batch)
=============================================================================
