# Genesis Knowledge System in TLA+

This directory holds TLA+ modules about the Genesis Knowledge System (GKS), the
runs that model-check them, and machine-checked theorems about them. Paths such
as `packages/gks-core/src/index.mjs` are those of the repository; PROJECT.json
maps every definition to the lines it models.

## The system

GKS keeps a knowledge graph in one SQLite file. Agents reach it through tools
(MCP frames over stdio, or HTTP); every tool call ends in a handler of
`gks-core`, and a handler that writes ends in one transaction of
`gks-persistence`. Several server processes may have the same file open: the
stdio client (`packages/gks-client-js`) starts a process per call, the store
takes `BEGIN IMMEDIATE` and comments on what happens when "another process wrote
in between", and `tests/integration/c0-process-acceptance.test.mjs` runs the
acceptance over separate processes. Two ADRs also say that one process owns the
writes in production (`docs/ADR-GKS-SQLITE-PERSISTENCE.md:52`,
`docs/ADR-GKS-PRODUCTION-RUNTIME.md:51`). The models take the wider view, and
say below which results need a second process.

| Component | State | Operations | What is hard | What makes it correct |
|---|---|---|---|---|
| GenesisRAG17 pipeline (`gks-core` index and pipeline, `transactPipeline*`) | `pipeline_batches` with a status, entities of origin pipeline, one table each for graph receipts, worker receipts, verdicts, publications; the evidence ledger and its cursor | submit, claim, stage failure, graph receipt, worker receipt, gate, publication receipt, evidence page | reads before the transaction, replays, rival payloads, calls in any order, handlers that commit after their caller has gone | ledger and status never disagree, publication is earned, one row per decision, one entity per identity, history is never rewritten |
| Pipeline principals (outside the repository) | what the worker holds | submit; claim, then the receipts, the gate, the publication | a claim takes no lease and tells nothing of the step reached; timeouts and restarts | every batch closes, none is rejected by accident |
| Entity resolution (promotion, human bind and merge) | entities with norm keys and aliases, mentions, relations, pending relations, promotions | promote, bind, merge, read | the pool is read before the transaction; the norm-key race and its retry; merges against stale pools | one entity per norm key and scope, what a mention means follows every merge, nothing crosses a tenant, stored values are only added to |
| Stage evidence export | `stage_evidence`, `stage_evidence_cursor` | append (inside promote, bind and merge), page since a cursor | filters by scope while the cursor is global; the cursor and the page are two reads | a puller misses nothing and sees nothing of others |
| Migrations | `schema_migrations` and every table | open a store, apply, backfill | processes of several versions; a crash between two migrations | each is applied once and in order, identities and origins survive |
| Stdio and HTTP servers | frames, tasks in flight, output | cut, scan, dispatch, reply, end of input | frames in pieces, limits, an in-flight limit, writes between two awaits | one answer per request, a fault for what is no JSON |
| JavaScript client | one child process per call | call, time out, kill, call again | the write may be committed although the call timed out; a child that does not start or breaks off | a retry with the same key is safe, every call ends |
| Caller authentication | none (a grant document and an environment) | name the caller of a request, or refuse it | five places check one request | one caller promotes, decides and links in a portfolio |
| Norm keys, claims, temporal and quality rules | none | pure functions | coordination, negation and dates in a text; names of scaffolding; counts made in five places | agreement with a reference definition, an honest worker passes |
| Wiki desktop ingest queue | task list and cache of hashes with a copy of each on disk, `isProcessing`, pages and index | enqueue, process, retry, cancel, clear, delete | cancel and retry while a task runs, a deletion or another route beside an ingest, a save that fails, a page half written, restart | no task is forgotten or runs twice, every task ends, the cache vouches only for what is written |
| Wiki desktop server | none of its own: the pages and the index of the queue | research, page edits, saved answers and templates write pages and rebuild the index | they overwrite what an ingest beside them reads and writes | as for the queue |
| Agent runtime, graph engine, UI; scripts | | | | |

The handlers share nothing but the store. The pipeline and the resolution share
the `entities` table and `graph_state`: the version counter, and the rule that an
entity of an unpublished pipeline batch is not visible to the other side.

## Plan

What the order was, and what it left:

1. `Pipeline`, `StageLedger`, `PipelineWorker` and their proofs.
2. `Resolution`: promotion, bind and merge; `IdentityClasses`, the abstract
   specification that they implement.
3. `IngestQueue`, its copies on disk with restarts, and its proofs.
4. The pure rules of the pipeline: `NormKey`, `StageRules`, `PipelineDecision`,
   `PipelineContract`, joined in `QualityGate`.
5. The processes around the store: `Migrations`, `Frames`, `CallerAuth`, joined in
   `Service` with clients that time out and repeat.
6. Theorems about `Service`: how a store is opened, then what is served.
7. Theorems about `Resolution`, up to the refinement of `IdentityClasses`, and
   about `PipelineWorker`.

8. Theorems about `QualityGate`, up to what the text of a fact says, the key of a name
   and the worker without a fault.

Open: a theorem about `FramesAreAnswered` (below); the review items of the wiki
desktop; the reads of several graph versions, once the service uses the as-of filters
of `temporal.mjs`.

## Modules

| Module | What it is |
|---|---|
| `Pipeline` | the service: handlers and transactions of the GenesisRAG17 pipeline |
| `StageLedger` | the abstract specification: what a source principal may pull |
| `PipelineWorker` | `Pipeline` with a source, a Tier-4 worker, timeouts and deaths |
| `Lists` | map, flatMap and filter of lists |
| `NormKey` | norm_v1, and the rule table's own account of it |
| `StageRules` | which claims a text makes, the ontology, valid time (Stages 10 to 12) |
| `PipelineDecision` | `buildPipelineDecision`, the summaries of Stage 14, the expected counts |
| `PipelineContract` | what the wire contract accepts |
| `QualityGate` | one run from its batch to its publication, with a Tier 4 that may have a fault |
| `Resolution` | promotions and human decisions on the entities, mentions and relations |
| `IdentityClasses` | the abstract specification: which entities are one, what a mention means |
| `Migrations` | the eight migrations as functions of a store |
| `Frames` | how a byte stream is cut into frames, and which request a frame is |
| `CallerAuth` | grants, environments, and who the caller of a request is |
| `Service` | server processes and clients around one store: extends the last three |
| `IngestQueue` | the task queue of the wiki desktop, with the deletion of sources and the files on disk |
| `MCPipeline`, `MCPipelineWorker`, `MCQualityGate`, `MCResolution`, `MCService`, `MCIngestQueue` | instances for TLC |
| `PipelineProofs` | operator lemmas, types, one identity one entity, the inductive invariant of status, ledger and tables |
| `PipelineSafetyProofs` | what follows from it, up to the refinement of `StageLedger`; the principals are callers of the pipeline, no passing run is rejected |
| `QualityGateProofs` | lists and bounded sets, the counts of a decision, the invariant of a run, what its PASS means |
| `HonestWorkerProofs` | the exact counts of a decision, what the gate says of it, that a Tier 4 without a fault passes |
| `ResolutionProofs` | what the operators of `Resolution` do: tables, chains, the ladder, rows; its inductive invariant, its properties, the refinement of `IdentityClasses` |
| `ServiceProofs` | how processes of several versions open a store; lemmas on writes, pages, callers and sequences |
| `ServiceSafetyProofs` | streams and frames, the invariant of processes and clients, and what follows |
| `IngestQueueProofs` | types, the queue's safety, the honest cache |

### Pipeline

`status[b]` is the status column of the row of batch `b`, `ABSENT` when there is
none. `graphs`, `receipts`, `gates`, `publications` and `evidence` are the tables
of `migrations/0006_genesisrag17_pipeline.sql`, as sets of rows: the model does
not assume their primary keys, it shows that they are never violated
(`OneRowPerDecision`, `RefusedForOthersOnly`). `entities` holds the entities of
origin pipeline; entities of legacy origin that share the pool are left out.

A transaction is one action, since it runs under `BEGIN IMMEDIATE`. What a
handler reads before its transaction is an action of its own, and the caller
rests in `call[c]` in between:

| Handler | Reads first | Then commits |
|---|---|---|
| `pipelineSubmit` | `SubmitLookup`, the Stage 9 pool (awaited) | `SubmitCommit` |
| `pipelineStageFailure` | nothing the transaction does not check again | `StageFailure` |
| `pipelineGraphReceipt` | `GraphLookup`, a stored receipt | `GraphCommit`, with Stage 14 rows stamped by its own clock |
| `pipelineWriteReceipt` | nothing the transaction does not check again | `WriteReceipt` |
| `pipelineGate` | `GateLookup`, `GateReadGraph`, `GateReadReceipt` | `GateCommit` |
| `pipelinePublicationReceipt` | nothing the transaction does not check again | `PublicationReceipt` |

Only `pipelineSubmit` yields between its read and its transaction inside one
process. The other gaps are open to a second process only, as are the finding
`stale_gate` and the known limit about one graph receipt in two processes.

`ExportPipelineEvidence` is the page a source pulls: the first rows of its run
behind the cursor it gives, and as the next cursor that of the last row of the
page, or the one it gave. It writes nothing and so is an operator, about which
`ReaderMissesNothing` speaks over every step.

The `...Result` operators are the guards of a transaction in the order of the
code; `accepted` is its only outcome that writes, `idempotent`, `conflict` and
`denied` are its answers, `backend` is an SQLite constraint error. `Record` is
`appendPipelineEvidence`: rows numbered by a cursor that the same transaction
advances. A hash is the value it covers. A payload is a member of a small set,
and `Stamp` stands for everything a handler's clock puts into a derived row or a
verdict. `attempt[b]` holds the step and attempt ids a batch names for its stages,
free strings in the code: `SameAttempt` is the UNIQUE key of the ledger, so that two
batches of one run are both stored if they differ at the stages of a submit, and a
source that asks for a run is given the rows of both (`RunRows`). Requests whose decision hash, run or stage ids are not those of the
stored decision are refused before any write and are left out, and so are
requests for a decision that is not stored.

### StageLedger

For each batch the stages with a SUCCEEDED row and those with a FAILED row:
accepted as 9 to 12, advanced by 13 and 14, then 15 and 16, failed in at most one
worker stage that has not succeeded, rejected once at 17 (also after a failure),
or published. `LedgerView` in `Pipeline` reads those two sets off the evidence
table.

### PipelineWorker

A source submits until each batch is in. A worker claims the oldest open
decision and drives it with `work`, which says the call due, the derived rows it
was given and the handler it waits for. A `Timeout` forgets the call but not the
handler, which may commit later; `HandlerDies` loses a handler before its
transaction; `SendFailure` gives up on a stage. These three share the bound
`MaxLosses`. Each batch has attempts of its own, as
`docs/ADR-GKS-GENESISRAG17.md:34-37` asks of a processing retry. The service does not
see to it: see the known limits.

### Resolution

The tables of `migrations/0001` to `0004` and `0007` that identity lives in:
`entities` by canonical ref, `mentions`, `relations`, `pending`, the keys of
`promotions`, and `decisions` for `human_resolutions`. `call[c]` is a promotion
between the await of its lookup and its transaction.

| Code | Actions |
|---|---|
| `promoteCandidate`, up to the transaction | `Promote`, or `Retry` for a further attempt: read the `Pool`, `Decide` each candidate in order, with what is CREATED joining the pool |
| `transactPromotion` | `Replay`, `Commit`, or `LoseRace` when a visible entity holds the norm key of one to be inserted |
| `transactHumanResolution` | `Bind`, `Merge` |
| pipeline submit and publication | `PipelineSubmit`, `PipelinePublish`, as far as they touch the entities |

Scopes are model values: `broader[s]` is the set of scopes at or above `s`
within its portfolio and tenant, which is what every SQL filter and row check of
this code computes. A name is known by its surface key, its norm key and the keys
that are near it. `beforeHash[k]` is what `split("#")[0]` leaves of a key: the key
itself, unless the name has a '#', which norm_v1 does not fold. The pool keeps only what was decided on it, `made`, since a
decision is a function of the pool.

`ValidPromotion` has the validators of a promotion's fields; what they refuse writes
nothing. Left out: `source_ref`, which is filled as `summary` is; a title is its norm key;
relation types and confidences other than those the floor is compared with; the
graph version, the evidence row and its cursor, for which a row of `promotions`
or `decisions` stands; a request that reuses an idempotency key with another
hash, which answers a conflict and writes nothing; an envelope that lists a
relation twice. A key with a discriminator is taken to be near nothing. A
REJECTED mention is never bound, so what it holds stays held for ever, and
`HeldRelations` says as much.

The reads are operators: `getEntity`, `getRelations` and `search` have the two
layers of the code, the adapter that hides what is unpublished and the service
that denies what is out of the scope of the request, and `listUnresolvedMentions`
is the review queue. `TenantWall` is about what they return in every state.
`MatchesAgree` also compares what a replay of a promotion answers with what its
mentions say by then.

### IdentityClasses

Entities are learnt, each its own representative; two classes unite; an open
mention is settled once. `Resolution` implements it with `rep` the end of an
entity's chain of merges and `meaning` that of the entity a mention names. This
is also why a promotion that decided before a merge does no harm when it binds
a mention to the superseded entity afterwards (the comment at
`packages/gks-persistence/src/index.mjs:799-803` speaks of the pool alone).

### NormKey, StageRules, PipelineDecision

A text is a sequence of tokens: names, relation words, negations, marks that end
a sentence, dates, the halves of a surrogate pair, other words. `StageRules` has
the patterns of `parseExplicitClaims` and `parseStructuredClaims` over such
tokens: the mentions next to a relation word, the checks of negation, modality
and coordination, the hold reasons, and what `temporal.mjs` makes of the dates of
a chunk. `NormKey` keeps the loop of norm_v1 over tokens; folding a written word
(steps 1 to 4) is the constant `folded`. `Core` and `SameName` beside it are the
account of `docs/NORM-V1-RULE-TABLE.md`, against which `OneEntityPerName` compares
the loop.

`PipelineDecision` is `buildPipelineDecision`: entities by identity under the ref
that was found or a new one, candidates, what becomes a fact and what is held at
each of three filters, the metrics of Stages 9 to 13 and the counts a worker must
read back. An id is what it digests, so that two candidates of one id stay one
row; `factId` does not cover the confidence, and two verbs that bind the same two
mentions with one raw predicate have one id.

### PipelineContract

`ValidBatch`, `ValidGraphReceipt`, `ValidReceipt`, `ValidClaim`,
`ValidStageFailure`, `ValidGateRequest`, `ValidPublication` are the validators of
`packages/gks-contracts/src/pipeline.mjs`, and `Authorized` the credential, the
principal and the envelope. A refusal is FALSE: which defect an answer names is
left out. `sha256Text` and `sha256Json` are the values they hash; canonical JSON
forgets the order of keys and keeps that of lists.

### QualityGate

One run in the order of its stages, where `Pipeline` has all orders of many:
`Submit` or `Refuse`, `Claim`, `FailStage`, `LoadGraph`, `Index`, `Gate`,
`Publish`. What a handler stores is a set of at most one row, empty if the
contract, the credentials or the transaction refused it. Tier 4 is another
program and marked external: it loads each row it is given as a node or an edge
of its own and counts them, with at most one of some forty faults drawn with the
batch (a node lost, a lane down, a benchmark below its floor, the receipt of
another attempt, other metrics of Stage 13, the credential of the source). `Evaluate` is
`evaluatePipelineQuality` with its five dimensions; in `Pipeline` its outcome is
the constant `quality`. `credentials` has two values, or one for both roles:
`CompatibilityMode`, in which who holds it may name itself source or worker.

The instance has all one-clause texts and two-clause texts of a small grammar
(who, denied or not, does what, with which joint, dated, asked), structured
records, chains of three clauses, pairs of chunks that speak of the same
entities, two mentions of one word, a mention that ends with a mark, batches that differ from a good one in one field, envelopes likewise,
names and chunks that cut a surrogate pair, and pairs of names up to three words. The
faults are combined with a good
batch and its variations. The instance has two credentials; compatibility mode is left
to the theorem `ReceiptsOfTheWorker` (TLC agreed on a small instance, which is no run of
its own).

### Migrations

A store has the rows that a migration reads or rewrites: entities, mentions,
promotions, human decisions, artifact links, evidence, and the set of tables and
columns of its schema. `shipped` gives for each file what it creates and what it
builds on; SQL that creates what is there fails. `Rewrite` is the hook of a
migration or its UPDATE: the backfill of norm keys and mentions, that of evidence
rows in the order of their executions, the origin of entities, the attribution
to MSP. A digest is the tuple it is taken of. `KeysUnique` is what the indexes of each
version enforce: one entity of a candidate ref in a scope before migration 2, one of a
norm key from then on, beside which the pipeline stores a resolution key that a promoted
entity, or one of another type, has as its candidate ref. Before migration 7 an entity's
origin is told by the mentions only: a promotion writes one with the outcome CREATED,
a pipeline run one of its own (`OriginsKnown`).

### Frames

`consumeChunk` and `scanJsonValue` over JSON tokens of length one: the limits are
numbers of tokens, the depth is counted as in the code, and a string token stands
for its decoded value. The scanner's loops are recursive functions of the
position and the keys seen so far. `Derivable` and its two conditions state the
grammar independently of the scanner, and `FramesAreAnswered` in `Service` compares
the two over all short texts and all texts one token away from a document. It also
says which frame is owed a reply under its id: an object with a usable id, unless it
is the notification. At the end of the input the store is closed before anything is
awaited, so a last frame without its newline is only told what is wrong with it.

### CallerAuth

`parseGksClientGrants` refuses a document as a whole; `CallerOf` and
`HttpCallerOf` name the caller of a request, from the bearer credential, the two
envelopes, the scope and the proof prefix, or refuse it. A digest is its preimage. A scope that is present is used or refused; the
default scope has the portfolio of the environment and what else the request names.

### Service

`srv[p]` is a server process with its input, the frames cut but not handled, the
tasks that wait, and what it has sent; `cli[c]` a client with the calls it still
has to make; `db` the store.

| Code | Actions |
|---|---|
| `openSqlitePersistence`, `runMigrations` | `Start`, `ReadApplied` (without the lock), `Migrate` (one migration, which looks again), `Ready` |
| `runStdioServer` | `Chunk`, `Frame` (up to the first await), `Settle`, `EndOfInput` |
| `handleMcpRequest` | `HttpRequest`, `HttpSettle` |
| `runHttpServer`'s `close`, at a signal | `Stop`, `Stopped` (the last connection ends, or a second signal arrives) |
| `GksStdioClient.call` | `Call`, `Hear`, `Timeout`, `Exited`, `KillChild`; `SpawnFails` and `WriteFails`, errors that nobody hears and that end the caller |
| an HTTP client | `Call`, `HttpDrop` |
| a process that ends | `Terminate` (the signal arrives), `Crash` |

What a tool does is reduced to what others see of it: a promotion is a row, its
evidence row and its caller, a bind settles a mention with an entity of the mention's
pool, a link is stored once (its
transaction, `transactArtifactLink`, apart from the checks of `linkArtifact`), an
export is a page. `Resolution` has what they do to entities.

A behaviour follows a plan, drawn in `Init`: the store it starts from, the
environment of every process, the processes somebody starts and their input, the
calls of the clients, and how many processes may crash or are told to stop. Plans bound the run
without a counter in the guards, and `MCPlans` groups them: stores of migration
0, 1 and 6 opened by processes of several versions; streams of frames; stdio clients;
HTTP clients; grant documents with every combination of credential, claimed
caller, scope and proof. At most two processes and two clients are alive at once;
an ended process leaves its place to the next one.

### IngestQueue

`queue` is the array of tasks, keyed by id: ids are taken in the order of the
array, which no handler changes. `kicks` counts the calls of `processNext` that
are due: each handler's after its save, and the timer at the end of an ingest.
`run` is the ingest in progress, with the page it has read and not yet written;
`del` is the same for `cascadeDeleteSource`. Every await that separates a read
from its write is a step boundary; a handler's changes before its first await are
one action, since Node runs them without a break.

`disk` holds the copies of the queue and of the cache. A handler's save succeeds,
or fails and ends the handler before its call of `processNext` (`Unsaved`); a
save of `processNext` itself that fails rejects a promise that nobody handles, so
that the process ends (`Restart`). `Restart` reads the copies back, marks what was
processing as pending, and calls nothing, as `init` does; a copy may be unreadable
and is then empty. Saves that overlap reach the disk in the order they were made.

A page is written in place: `Open` leaves it empty and `Fill` lists the sources. A
failure or an end of the process between the two leaves it as it is, and a write of
the index likewise (`CutOff`). `edit` is the write of another route of
`apps/wiki-desktop/server.mjs`: `EditPage` is a page that research or an edit
overwrites without reading it, `EditOther` any other file that a saved answer, a
template or an edit writes; each then lists the directories and writes the index
from its own listing. `spoiled` is a history of what is excepted from `CacheIsHonest`:
the files that a deletion or a route wrote, and those that were left half written. All
other files, also those that a cached source shares with one that fails or is cut off,
have to be as the cache says.

`index.md` and `overview.md` are written from one listing of the directories, taken
before they are written. A file has a name, a slug and the names it is read back
as: the frontmatter writer puts names in a list separated by commas, so a name
with a comma comes back as its parts, and a deletion of that name finds none of
its pages. Entity pages and concept pages are one kind of page, and a page exists
when its frontmatter lists a source. What an analysis yields is the constant
`generates`, of the heuristics or a language model. One deletion and one other route run at a time.
Review items, listeners and the template files of a new wiki are left out.

## Runs

| Run | Instance | Shows |
|---|---|---|
| `one_decision` | one batch, two callers, two graph receipts, a receipt that passes and one that leaves facts held, two publications, two failures, two clock readings | all the properties of one decision, the refinement, and that history is immutable |
| `many_batches` | five batches in three scopes that share keys, ids, runs, stage attempts and identities, two callers, stage failures; two spellings of one identity | identities, keys and attempts stay unique; the ledger refuses only for rows of another batch of the run |
| `worker` | a batch that passes and one that is held; two handlers; two losses | every batch closes and no passing run is rejected |
| `decision` | texts, defective batches, envelopes, names and faults as above | what becomes a fact is warranted by the text, no candidate is lost, an honest worker passes, a pass and a publication are earned |
| `resolution` | two promotions of a plain envelope, a pair with a relation, a contradicting one of a broader scope and one of another tenant; one pipeline entity with the key of a promoted one; binds and merges wherever the code allows them | identities stay unique, the tenant wall of rows and reads, merges, held relations, what writes may change, the refinement |
| `service` | the plans as above | migrations run once and in order, answers are kept, a puller misses nothing, one caller promotes, decides and links in a portfolio, frames are answered, every call ends |
| `ingest` | two files that share a page, one with a comma in its name, two tasks, one automatic retry, two events in all (a request of the user beyond the enqueues, a failure, a deletion, an end of the process) | no task is forgotten or shown as running wrongly, every task ends |
| `ingest_routes` | the same files, tasks and events, one of which may be a write of another route | the cache is honest whatever is cut off, deleted or overwritten beside an ingest |
| `stale_gate`, `loser`, `chained`, `shared_pages` | | the findings below |

Each run takes at most about three minutes with two workers (`resolution` the
longest, `service` and `one_decision` next).

Bounds. Two callers are enough for every race between a read and a commit, for
a handler reads at most three times before one transaction and transactions do
not overlap. Two values of each payload tell a replay from a rival. The two
clock readings give two handlers of one receipt different derived rows; the
same reading is also explored. `one_decision` needs no second batch, since
batches meet only in the submit keys, the attempts of a run and the entities, and that
is what `many_batches` is about. Its batches have two batch ids, so that at most two of
them are stored together, in every combination that the ids allow, two batches of one
run among them; what happens to receipts of batches that share attempts is left to the
theorems, which hold for any number of batches.
`worker` needs two batches, for a claim looks at the oldest only. Deadlock is
checked in `one_decision`, `many_batches`, `resolution` and the findings
about them; the other runs do stop: `worker` once each batch is closed and the source
submits no more, `decision` once the run is judged or published, `service` once
its plan is done, `ingest` and `ingest_routes` when their bounds are used up.

`resolution` uses two callers, since two transactions do not overlap, and
symmetry between them, for it checks no liveness. Each envelope is stored once,
and then replayed, which bounds the run without a counter; a merge removes an
entity from the live ones and a bind an open mention. The envelopes are a
smallest set that reaches each rung of the ladder and each outcome, a lost race
and its retry, the discriminated key, and both ways a relation can be held; the
third attempt of a promotion is reached in `loser` only.

`decision` runs one batch at a time without interleaving: what is at stake are
the rules, and one clause more only repeats them, but for the chain of three
that `chained` is about. `service` has limits of 15 and 18 tokens and a depth of
1, so that a request fits, and one that is two levels deep or a few tokens longer
does not; pages of two rows and two tasks in flight are exceeded by three. A
second crash or a third process at once only repeats what the first one leaves,
a store between two migrations or two transactions; `ServiceProofs` has any
number. The stores of migration 6 hold entities of one resolution key and two types, and
one that a run made beside a promoted entity of its name. `ingest` has `AutoRetries` 1 where the code has 3, so that two failures
show both a repeat and a final failure; two tasks are enough for one to wait
while the other runs, and two events for each pair of hazards to meet. Other routes are
kept out of `ingest`, which they cannot disturb, as they touch neither tasks nor calls;
`ingest_routes` has them and checks no liveness. A second route at once only writes to what the first one spoils; `IngestQueueProofs` has any number of
tasks, events and writes of routes, one of which is under way at a time.

Fairness (`WorkerSpec`). Weak fairness of the worker's calls: it polls as long as
it lives. Weak fairness of each handler: a request that was read is served, as
Node runs every handler to its end. None for the source, nor for failures,
timeouts or deaths. The bound on losses is an assumption: a worker that times
out for ever, or for ever reports the failure of a stage that the store knows to
have succeeded, is refused for ever and closes nothing. The order of claims
assumes that `created_at` follows the order of the commits, and the worker is
assumed to keep what it measured, so that it replays the same receipts.

Fairness of `Service`: timers fire (the time-out of a request, and the second the
client waits for the exit of its child) and a signal that was sent arrives. None
for the servers, which may hang anywhere: `EveryCallEnds` is the client's own
doing.

Fairness of `IngestQueue`: weak fairness of the ingest and of the deletion, that
is, their awaits of files and of the language model end, in success or in
failure, and the event loop runs the timers and calls that are due. None for the
handlers and none for failures or restarts. `EveryTaskEnds` needs the bounds on
these to be finite, not their values; after a failed save or a restart it
promises an end only to a queue that somebody kicks again.

## Findings

- `stale_gate`: a gate that read the receipts before another process committed
  them stores a FAIL computed from missing receipts, although the ADR says that
  Stage 17 evaluates the actual receipts.
- `chained`: the ADR on the pipeline says that an unsupported coordination is held
  "rather than binding the previous object as a new subject". The parser forgets
  the previous claim after an ambiguous clause, so in "Alice works for Acme, works
  for Beta, bought Widget" the third clause binds Beta as its subject with
  confidence 0.9.
- `loser`: the comments on the retry and on the merge promise that the next
  attempt matches the winner of the race and that every spelling keeps
  resolving. After a merge of an entity into one of a narrower scope, the
  superseded row keeps its key although no lookup of its scope finds it or the
  survivor: another spelling there fails in all three attempts, for ever. One
  caller is enough.
- `shared_pages`: the deletion of a source is said to preserve shared pages. It
  writes or unlinks a page from what it read before an ingest added another
  source to it.

Known limits, which the models show or make room for without a run of their own:

- Stage 9 reuses an entity of a broader scope (`packages/gks-core/src/index.mjs:113-128`),
  and the submit transaction then denies the ref it was given
  (`packages/gks-persistence/src/index.mjs:1349`): a run of the whole business followed by
  one of a workspace about the same entity is refused, although the comment on the pool
  promises that repeated runs converge (`RefOutside` in `many_batches`).
- A merge hands on the loser's key up to its first '#'
  (`packages/gks-persistence/src/index.mjs:1079`), which is meant for the discriminator but
  also cuts a '#' of the name: what absorbed "C#" answers to "c" and not to "c#".
  `SurvivorAnswers` promises no more than that.
- The client has no listener for the errors of its child or of its child's input
  (`packages/gks-client-js/src/gks-stdio-client.mjs:75`, `115`, `121`): a child that cannot
  be spawned, or that ends before the second line is written to it, ends the calling
  process. `EveryCallEnds` counts that as an end.
- Two batches of one run that name the same attempts from Stage 13 on are both accepted,
  against the discipline of `docs/ADR-GKS-GENESISRAG17.md:34-37`. Once one of them has
  its graph receipt, the other's is refused by a constraint for ever; it stays the
  oldest open decision of its scope and hides the younger ones from the claim
  (`packages/gks-persistence/src/index.mjs:1197-1198`). `RefusedForOthersOnly` says that
  a constraint refuses for no other reason.
- Two processes that handle one identical graph receipt derive Stage 14 with
  clocks of their own; the later one answers a conflict although the receipt is
  the stored one (`packages/gks-persistence/src/index.mjs:1463`).
- Two promotions of one spelling with different titles that both looked up before
  either committed end on one entity, without the contradiction check
  (`packages/gks-persistence/src/index.mjs:624`): the second one decided CREATED,
  finds its ref stored and fills that row. A later candidate of its envelope that
  matched what it meant to create then stays MATCHED to an entity whose title it
  contradicts, although the ADR lets the check overlay every string rung
  (`docs/ADR-GKS-ENTITY-RESOLUTION.md:397-405`). `MatchesAgree` names this
  exception, and the theorem shows that there is no other.
- After the merge that `loser` is about, the survivor is out of the reach of
  readers of the broader scope as well; a promotion there of the spelling itself
  is answered CREATED with the superseded ref. A merge does not repoint the
  artifact links of the loser.
- A process of an older version that has read the list of migrations before a
  newer one applies its own passes the check of
  `packages/gks-persistence/src/index.mjs:275` and serves the newer schema.
  `Service` has older versions open the store but not serve it, since what an
  older release writes is not in the repository.
- Restoring the backup of before a migration, the way back that the error about a
  newer schema names, moves the cursors of the evidence back: a puller that kept
  a later one is refused, or misses what is numbered again.
- An ingest that ends after its source was deleted records its content as known
  (`apps/wiki-desktop/src/ingest-pipeline.mjs:446`): uploading it again is
  skipped. `CacheIsHonest` excepts the files that a deletion wrote.
- A page that is cut off in the middle of a write stays so if its ingest is not
  repeated: the cache still vouches for the other sources it belonged to
  (`apps/wiki-desktop/src/ingest-pipeline.mjs:394`, `417`), and enqueueing one of them
  again does nothing. So it is with a page that `research/start` or an edit overwrites.
- A mention may cut a surrogate pair at its ends: `validateMentions`
  (`packages/gks-contracts/src/pipeline.mjs:348-363`) asks only that the chunk reads so.
  `AcceptedTextIsTheSource` speaks of the texts of chunks.

## Proofs

### Pipeline

All theorems hold for every value of the constants that the named assumptions of
`Pipeline` admit: these only give each constant field of a batch its type.

*Types* (`TypeCorrect`). `TypeOK` alone is not inductive: the ref a submit takes
from its pool is `Latest(...)`, a choice that is only defined because entity
versions are bounded by the version counter. `TypeInv` adds that bound
(`VersionsCounted`), and `MaxExists`, proved from the well-foundedness of strict
inclusion on finite sets, yields the greatest one.

*One identity, one entity* (`IdentitiesUnique`). The transaction checks only the
batch's own legacy scope, so the invariant needs `RefsFoundOrOwn`: every ref a
submit in flight carries is that of an entity in the store or is of the batch's
own scope, and stays so because entities are never removed.

*The decision invariant* (`LedgerInv`). Of the twelve actions six change what is
decided; `StepDecides` reduces every step to one of them or to none, from the
types and from `CallsKnown` (a handler in flight is of a stored batch, and the
graph receipt it read is still there). `LedgerInv` joins these with
`LedgerAgreesWithStatus`, `TablesAgree` (which tables hold a row of a decision,
given its status and its succeeded stages) and `StoredBatchesDistinct`. None is
inductive without the others: a graph receipt is refused for a closed status, so
the ledger agrees only if the status tells whether there is a receipt; the
ledger's rows are of attempts, so that a stage of a batch is known to be closed by
that batch only where no other one has the same attempt; that holds up to Stage 12, for
the rows that every stored batch has there, and from Stage 13 on the constraint itself
keeps an attempt from ending twice (`AttemptsEndOnce`). `OwnRowsNeverRefuse` shows that it
refuses for the row of another batch only: what a batch has recorded itself, the guards
of each transaction find out before it (`TakenByItself`).

| Theorem | Property |
|---|---|
| `TypeCorrect` | `TypeOK` |
| `IdentitiesUnique` | `OneIdentityPerScope` |
| `LedgerAgrees` | `LedgerAgreesWithStatus` |
| `KeysUnique` | `StoredBatchesDistinct` |
| `OwnRowsNeverRefuse` | `RefusedForOthersOnly` |
| `DecisionsHaveOneRow` | `OneRowPerDecision` |
| `PublicationIsEarned` | `PublishedIsEarned`, with `AllowedIsEarned`: an allowing verdict quotes what the store still holds |
| `LedgerIsOrdered` | `LedgerOrder`, with the cursor as a bound of all rows |
| `HistoryKept` | `HistoryIsImmutable` |
| `AnswersKept` | `AnswersAreStored` |
| `NothingIsMissed` | `ReaderMissesNothing` |
| `Refinement` | `ImplementsStageLedger` |

`NothingIsMissed` rests on two facts. A page has no gap (`PageHasNoGap`): a row
up to its next cursor is among the first rows. And what a step adds is numbered
behind the cursor of the store, so behind every page, while no row is removed
(`HistoryKept`). That the next cursor is the last of the page is `MaxExists`
again. TLC agreed on a small instance, which is no run of its own: the theorem
says more.

### PipelineWorker

Every step of the source, the worker, a time-out or a death is a step of `Pipeline`
or leaves its variables alone (`WorkerUsesPipeline`), so all of the table above holds
of the system with its principals. That a run whose receipts pass is not rejected
needs `WorkerInv`: the worker asks for a verdict only once its receipt is stored;
that receipt is what it measured and quotes the stored graph receipt
(`ReceiptsHeld`); and a handler that has read one of the two still holds what is in
the store, in every combination with a handler that was given up (`HoldsReceipt`).

| Theorem | Property |
|---|---|
| `WorkerUsesPipeline` | every behaviour of `PipelineWorker` is one of `Pipeline` |
| `PassingRunsStand` | `NoPassingRunRejected` |

### QualityGate

For every request, vocabulary (`folded`, `Day`), both versions of the rules and every
fault a Tier 4 may have. `RequestAssumption`: a request is parsed JSON, with lists
where the contract has lists and whole numbers as offsets, and names made of written
words; it may be invalid in any other way. `FoldedAssumption`: a written word folds to
a list of tokens, maybe none. `FaultAssumption`: what a fault puts in the place of a scope or
an attempt is another one. The two credentials may be one: a fault that presents the
source's is then none, and `ReceiptsOfTheWorker` says what is left to tell who calls. `DayAssumption`: a day is a number, and no day is the
empty string. Two more are used for `HonestWorkersPass` only. `ServiceAssumption`: there
is a credential for the worker (the endpoints refuse everyone without one), and the
versions that decisions are produced under are among those that the gate supports
(`packages/gks-contracts/src/pipeline.mjs:15-22`). `PoolAssumption`: the refs Stage 9
finds are keys of rows, and a row is of one identity (`existingPipelineCanonicalRefs`,
`packages/gks-core/src/index.mjs:115-128`), that which its ref digests if a run made it.

The gate has no copy of what Tier 4 loaded. It compares two counts with its own, so
that it notices a lost or a doubled object is a fact about cardinalities, for any
decision:

- A decision is made of lists. `Decision` folds, filters and joins lists of the batch;
  `CollectedList` and `FilteredList` say what is in a joined list, by the least prefix
  for which it would be false (`FlattenJoins`), and `ClaimsType` follows the parser
  from left to right. So a decision is `Countable`, whatever the texts say.
- What Tier 4 stores is bounded by what the builder counts: each list of rows by its
  length, each set of edges by the length of the list it is drawn from
  (`NodesBound`, `EdgesBound`). Equality is not needed here: a fault takes an object
  away from a number that is at most the expected one.
- Hence a graph receipt with a fault is refused (`GraphRefused`), a final receipt with
  a fault is refused (`FinalRefused`) or fails a check of the gate (`PassRefused`), and
  the others are not taken from who is not the worker (`WorkersCall`).

`GateInv` is the inductive invariant: what is not there yet at each stage, that the
decision is that of the accepted batch, that a stored receipt is without the faults
the store can see and has the counts of that decision, and that a PASS is of such
receipts. `AcceptedTextIsTheSource` follows from the contract's checks of offsets, which
order the chunks and mark every cut of a chunk: `SliceType` and `ChunkType` show that no accepted
cut separates the two units of a pair. `FactsHaveValidTime` follows from what a fact
is made of (`FactsType`, `TimeOfText`).

`EveryCandidateLands` is an equation between numbers, so it needs more than what is in
a list: how often. `Times(q, X)` counts the places of `q` with an entry in `X`;
`RowsOf(q, s, Y, row)` says that `q` has one row of each entry of `s` in `Y`, and
`CollectedRows` that flatMap makes such lists (by induction over the prefixes).
`CandidateLands` gives the sets: Stage 10 stops what is ambiguous or below the write
floor, once though it has two rules for it (`ClaimKinds`: only an explicit claim may be
ambiguous, and its confidence is above the floor), Stage 11 what of the rest it cannot
map, Stage 12 what of the mapped has no readable time. The four sets are disjoint and
cover the candidates, so their counts add up (`CandidatesLand`).

`ClaimsFollowTheText` follows the parser from left to right. Every claim up to a
position, and the one that may lend its subject, is `Said`: its relation word stands
between its two mentions, no sentence ends there and nothing denies it (`Binds`).
`SaidStep` is the step: a subject of the sentence itself has only words of that
sentence before the verb (`SentenceBounds`), and a carried one has the words of the
claim it comes from, then those of a joint (`JointWords`). The words a name is made of
are excepted, since a mention may be any piece of the source, "No" or "Inc." too.
A claim of the structured form is `Formed`; an inferred one is below the write
floor and never mapped.

`OneEntityPerName` compares the loops of norm_v1 with the rule table, whose `Core` is
the longest run that neither begins with an article nor ends with a legal form. Both
loops have a closed form (`PopsToCore`, `ShiftsToCore`: what is up to the last place
outside a set, or from the first one, by induction over the length), so a pass leaves
one run (`PassIs`), the longest there is (`CoreIsPass`). A second pass changes nothing
(`PassTwice`); hence the outer loop ends after one pass (`RemovesToCore`), and the key
of a name with a core is never the surface of one without (`KeysOfNames`).

`HonestWorkerPasses` is the converse of `PassIsEarned`, so here the bounds have to be
equations, and every check on the way has to be passed:

- No two entities, mentions or summaries of a decision share an id (`DecisionDistinct`,
  `SummariesOfEntities`): Stage 9 gives two identities one id only if the pool did
  (`IdsApart`). Hence Tier 4 holds exactly as many nodes and edges as the builder
  expects, with and without the derived rows (`NodesExact`, `EdgesExact`), and each of
  its lanes is ready with the objects expected of it, or has no time to hold
  (`LanesReady`).
- Every reference of a fact, a held row or a summary leads to a chunk and to mentions of
  that chunk (`ReferencesKnown`, `RowsKnown`, `SummaryKnown`), and a summary's counts are
  those that the gate takes again from the decision: `DataOfDecision`. The endpoints of
  a mapped fact are of the types Stage 11 looked at, since ids tell identities apart:
  `KnowledgeOfDecision`.
- Each message of that worker is valid, names this decision and comes from who may send
  it (`HonestGraphTaken`, `HonestFinalTaken`, `HonestAsks`, `HonestPublishes`); the
  stage identities it returns are those of the batch in reverse (`StagesEchoed`).

`HonestInv` carries this through the run, with `GateInv`: nothing failed, a receipt is
stored as soon as it was sent, and the one verdict is that of the policy and the held
rows.

| Theorem | Property |
|---|---|
| `GateInvariant` | `GateInv` |
| `ReceiptsOfTheWorker` | `ReceiptsComeFromTheWorker` |
| `EveryPassIsEarned` | `PassIsEarned` |
| `SourceSaysIt` | `AcceptedTextIsTheSource` |
| `ValidTimeOfFacts` | `FactsHaveValidTime` |
| `CandidatesDecided` | `EveryCandidateLands` |
| `FactsFollowTheText` | `ClaimsFollowTheText` |
| `NamesAreEntities` | `OneEntityPerName` |
| `HonestWorkersPass` | `HonestWorkerPasses` |

### Resolution

The assumptions give scopes a tenant and a portfolio, keys their shape, envelopes a
scope and a sequence of candidates, and pipeline entities a row of their own that is
nobody's duplicate. Keys may have a '#': of `beforeHash` it is only assumed that it
leaves at most one key, which has none. `SurvivorAnswers` promises that key, which is
the loser's own but for names with a '#'. Envelopes and names are otherwise arbitrary,
valid or not.

A commit is the last of a recursive function of tables, one per candidate, the
ladder decides with a pool that grows by what it decided before, and a chain of
merges is a recursive function of its length. What holds of these for every
envelope is proved by looking at the least number without it (`Induction`, from
`NatLessThanWellFounded` and `WFMin`). So each candidate keeps `TableOK` if the
one before did, and `Ranked`, an assignment of numbers that decrease along a chain,
makes `Survivor` defined and total.

`IInv` is the inductive invariant. Its parts need one another:

- `TableOK`: the shape of rows, no two rows of a scope with one key (`KeysUnique`), a
  key is told apart by a mention only beside a pipeline entity with the plain one, and
  a row found under the ref derived from a scope is a promoted entity of that scope
  (`RefsTell`).
- `CallsOK`: what a promotion in flight decided on a pool that is out of date rests on
  something that lasts (`DecisionsSound`): a row that is still there, still visible to
  its scope and, on a string rung, still without a contradiction; or an earlier
  candidate of its own envelope. That the row is still live does not last, and is not
  claimed.
- `MergesStay`, `RelationOK`, `PendingOK`, `MentionOK`: nothing leaves its tenant, and
  what is bound can be read from where it is bound.
- `MatchesAgree`, `SurvivorAnswers` and `HeldRelations`, each with the parts above.

| Theorem | Property |
|---|---|
| `ResolutionInvariant` | `IInv` |
| `TypeCorrect` | `TypeOK` |
| `OneEntityPerKeyAlways` | `OneEntityPerKey` |
| `MatchesAgreeAlways` | `MatchesAgree` |
| `TenantWallAlways` | `TenantWall` |
| `SurvivorAnswersAlways` | `SurvivorAnswers` |
| `HeldRelationsAlways` | `HeldRelations` |
| `OnlyAddsAlways` | `OnlyAdds`, about steps |
| `ResolutionImplementsIdentity` | `ImplementsIdentityClasses` |

### IngestQueue

The assumptions type files and pages and make the bounds natural numbers. `TypeOK`
and `ProcessingIsRunning` are inductive as they stand: an ingest starts
only when none is in progress, and each way it can end takes its task out of
`processing`, the restart by `Reset`. That no task takes the place of another is
part of `TypeOK`: ids grow, and a copy on disk has the same upload under an id as
the queue has. `PendingIsKicked` is about steps and needs only that `kicks` is a
natural number: a step that leaves the ingest idle or makes a task pending also
adds a call, unless its save fails or the process starts again, and a call is
used up without effect only if there is nothing to do. `CacheIsHonest` needs
`Progress`: both the cache and its copy vouch for what is written (`Known`), the index
has nothing that is not there (`IndexProgress`), and of the ingest in progress what is
not among the pages to do is written, the page under way is as it was read, and the
listing has what was there when it was taken (`RunProgress`), each but for spoiled files.
Whoever else has a file open has spoiled it by then (`OpenedSpoiled`); of the others,
the pages, what they list and the index only grow (`Spoils`, `ListsGrow`, `IndexGrows`),
and `VouchedStays` is the step.

| Theorem | Property |
|---|---|
| `TypeCorrect` | `TypeOK` |
| `ProcessingRuns` | `ProcessingIsRunning` |
| `PendingKicked` | `PendingIsKicked` |
| `CacheHonest` | `CacheIsHonest` |

### Service

For any number of processes and clients, any calls, streams, documents and crashes.
The assumptions are what a behaviour starts from. `PlanAssumption`: a store as the
first `k` migrations leave it, for any `k`, with the rows the releases of that time
wrote (`WellMigrated`; `WellKept`, which says that evidence rows are those of the
promotions and decisions, with cursors of their own; `Settled`), and processes of
versions that were released. `CallsAssumption`: the puller exports one scope only,
and decisions and links name a scope that `validateScope` admits. `LimitsAssumption`
and `StringsAssumption`: limits are numbers, and a string token is no other token.

*Opening a store.* That the migrations are applied in order is not inductive: that the next one can
run at all depends on the schema, and the backfill of norm keys must not break the
unique index that it serves. `OpenInv` says that the store is `WellMigrated` (which has
the schema, the unique keys, and where an entity came from, as far as it can be
told at that version), that identities are those of the store the plan started
from, and of each process that what it has read of the applied migrations is still
true, that it did not fail, and that it has found all of them if it serves.

- A migration that a process has not seen was applied by another one, or is the
  next: it takes the least, and what it has read is a set of applied ones
  (`MigrateKeeps`). Another process's is found again inside the transaction.
- The next one can run: no two files create one thing, and what a file builds on
  is created by files before it (`NothingTwice`, `NeedsMet`, `NextCanRun`).
- Each migration leaves the store `WellMigrated` (`MigrationKeeps`): of the entities
  of a scope that fold to one norm key only the earliest keeps it plain, and a
  mention tells the others apart (`BackfillKeysDiffer`); migration 7 writes down the
  origin that mentions told before it; the others leave entities alone.
- What serving processes write leaves entities, schema and list of migrations
  alone (`HandlersSameRows`, `FrameSameRows`), and happens only after migration 7.

*Serving.* `ServeInv` is the inductive invariant of the store, the processes and the
clients:

- `StoreOK`: the store is `WellKept` and `Settled`, and every row newer than the
  store of the plan is of a caller who may write to its portfolio (`RowsOwned`).
  That this caller is the only one (`OwnersApart`) follows from how a grant document
  is refused as a whole, and from the five checks of a request. Pipeline submits have
  credentials of their own and are not among these rows; they are in `QualityGate`.
- `ServerOK`: what a process has in its tasks and its output is right about the store
  now, though it was computed on an earlier one: a page stays a page since stores only
  get more rows and later evidence (`Extends`, `StoreGrows`).
- `ChildOK`: the child of a client reads the three lines the client wrote and answers
  under the id of the call only what that call is answered with. The lines are followed
  through every way to cut them into chunks, with what is pending and with an overlong
  frame being dropped (`Whole`, `DataConsumed`), to the frames (`FramesIn`), through the
  scanner's functions token by token to the request (`CallFrames`). An overlong frame
  is answered without an id, so it may be lost but not taken for the answer.
- `HttpOK`: a task of an HTTP server is for the attempt its client waits for, or for an
  earlier one that no client listens to any more (`AttemptOK`).
- `ClientOK`: what a puller has is all the evidence of its scope up to its cursor
  (`Seen`), and what a client was granted is in the store.

| Theorem | Property |
|---|---|
| `StoreMigrated` | `StoreIsMigrated` |
| `OneWriter` | `OneWriterPerPortfolio` |
| `PullerComplete` | `PullerMissesNothing` |
| `GrantedIsKept` | `AnswersAreKept` |

### Only model-checked

- `FramesAreAnswered`, which compares the scanner with the grammar over all texts:
  what two recursive definitions yield for every input. `ChildOK` needs it for three
  lines only, whose tokens can be followed one by one.
- `EveryBatchCloses`, `EveryTaskEnds` and `EveryCallEnds`: liveness under fairness.
- The properties of the runs that end in a counterexample.

## Not modelled

- HTTP headers and bodies, the health path, the branch of the client for output that
  is no JSON, characters inside JSON strings and numbers.
- The contents of evidence rows beyond who, what and where; the wording of errors.
- The as-of filters of `temporal.mjs`, which the service does not call.
- The wiki desktop's rendering, heuristics, language model calls, graph engine, bridge
  and UI, and the routes of its server that only read. Those that write pages or rebuild
  the index are in `IngestQueue`; what its agent answers is left out.
- Scripts, the qualification runner and its reports: they drive the tools from
  outside and share no other state with the service.
