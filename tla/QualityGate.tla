---------------------------- MODULE QualityGate ----------------------------
(***************************************************************************)
(* One run of GenesisRAG17 from its decision to its publication: the       *)
(* decision is built, Tier 4 claims it, loads it and reports what it reads *)
(* back, Stage 14 is derived, Tier 4 reports the final projection with its *)
(* lanes and the retrieval benchmark, or that a stage failed, Stage 17     *)
(* evaluates the five dimensions (evaluatePipelineQuality,                 *)
(* packages/gks-core/src/pipeline.mjs), and Tier 4 publishes.  What is     *)
(* stored when, of many runs, attempts and callers, is the module          *)
(* Pipeline; there the outcome of this evaluation is a constant.           *)
(*                                                                         *)
(* Tier 4 is another program.  Here it loads every row it is given and     *)
(* counts what it loaded, but for one fault drawn with the batch.          *)
(***************************************************************************)
EXTENDS PipelineDecision, PipelineContract

CONSTANTS Request,     \* the requests that may arrive: a batch and its envelope
          pool,        \* the canonical refs Stage 9 finds, by identity
          credentials, \* what each role has to present
          Version,     \* the ontology versions a deployment has produced
          FaultOn      \* Request -> the faults Tier 4 may have on it

(* External: what may be wrong with a Tier 4.                               *)
Fault ==
  {"none", "nodeLost", "edgeLost", "graphNotOk", "graphOfOtherRun", "finalNotOk", "finalOfOtherRun",
   "derivedEdgeLost", "vectorTwice", "citationLost", "otherGraphHash", "otherDerivedHash", "laneDown",
   "laneShort", "laneMissing", "noTemporalApi", "temporalRefused", "noQueries", "lowRecall", "lowMrr",
   "badCitation", "leak", "stageMissing", "stillIndexing", "otherModel",
   "noGraphHash", "otherAttempt", "otherDecision", "claimsTwo", "fails", "failsOtherAttempt",
   "failureUnexplained", "publishesOtherReceipt", "publishesOtherSnapshot", "publishesOtherFrontier",
   "publishedNever", "publicationNotOk", "otherMetrics", "relayCredential", "sourceRole", "otherPrincipal", "otherEnvelope"}

(* A request is parsed JSON.                                                *)
ASSUME RequestAssumption ==
  \A r \in Request :
    LET b == r.batch
    IN /\ IsList(b.chunks) /\ IsList(b.mentions) /\ IsList(b.stages) /\ IsList(b.source.content)
       /\ \A c \in ToSet(b.chunks) : {c.ordinal, c.startOffset, c.endOffset} \subseteq Int
       /\ \A m \in ToSet(b.mentions) : /\ {m.startOffset, m.endOffset} \subseteq Int
                                       /\ m.resolutionKey \in Seq(DOMAIN folded)
       /\ \A s \in ToSet(b.stages) : "attempt" \in DOMAIN s

(* What a fault puts in the place of the scope of a batch or of an attempt  *)
(* is another one.                                                          *)
ASSUME FaultAssumption ==
  /\ FaultOn \in [Request -> SUBSET Fault]
  /\ \A r \in Request : /\ r.batch.scope["tenantId"] # "other"
                        /\ \A s \in ToSet(r.batch.stages) : s.attempt # "other"

(* The service has a credential for its worker, and produces an ontology     *)
(* version that it supports.                                                *)
ASSUME ServiceAssumption == credentials.worker # "" /\ Version \subseteq SupportedVersions

(* A canonical ref is the key of one row, of one identity; a ref that a run  *)
(* made new is of the identity it digests.                                  *)
ASSUME PoolAssumption ==
  /\ \A i, j \in DOMAIN pool : pool[i] = pool[j] => i = j
  /\ \A i \in DOMAIN pool : pool[i][1] = "entity" => pool[i][2] = i

(* One credential serves both roles: who holds it is told apart by the role *)
(* of the principal only.                                                   *)
CompatibilityMode == credentials.source = credentials.worker

VARIABLES stage,      \* "idle", "refused", "submitted", "loaded", "indexed", "judged", "published"
          request, fault,
          batch,      \* the validated batch, as Stages 9 to 12 read it
          decision,   \* the immutable decision
          claimed,    \* Tier 4 was given the decision
          failed,     \* the stages with the evidence of a failure
          graph,      \* {} or the graph receipt, with the rows derived on it
          final,      \* {} or the final receipt
          verdict,    \* {} or the evaluation
          published   \* {} or the publication receipt

vars == <<stage, request, fault, batch, decision, claimed, failed, graph, final, verdict, published>>

NoDecision == [version |-> ""]

(* No field of the decision of the model is its hash.                       *)
hashPipelineDecision(d) == sha256Json(d)
hashPipelineReceipt(receipt) == sha256Json(receipt)
hashPipelineGraphReceipt(receipt) == sha256Json(receipt)

(* The identity the batch gave to a stage.                                  *)
StageOf(n) == CHOOSE s \in ToSet(request.batch.stages) : s.number = n

sameStageIdentity(left, right) == Len(left) = Len(right) /\ ToSet(left) = ToSet(right)

(* Why a Tier 4 may not answer for time without failing the run.            *)
OptionalTemporalUnsupported ==
  {"native_temporal_query_api_unavailable", "native_temporal_traverse_unavailable"}

(* recallAt5, mrr and citationCorrectness in hundredths.                    *)
minRecallAt5 == 80
minMrr       == 65
minCitation  == 100
maxLeaks     == 0

-----------------------------------------------------------------------------
(* External: the graph Tier 4 holds for a decision and its derived rows, as *)
(* sets, each row a node of its own.                                        *)

Tier4Nodes(d, derived) ==
  {<<"source">>, <<"snapshot">>}
  \cup {<<"chunk", c>> : c \in DOMAIN d.chunks}
  \cup {<<"entity", e.id>> : e \in d.entities}
  \cup {<<"fact", i>> : i \in DOMAIN d.facts} \cup {<<"held", i>> : i \in DOMAIN d.held}
  \cup {<<"derived", r.entity>> : r \in derived}

Tier4Edges(d, derived) ==
  {<<"snapshot of">>} \cup {<<"part", c>> : c \in DOMAIN d.chunks}
  \cup {<<"mentions", mentionId(m)>> : m \in ToSet(d.mentions)}
  \cup ({"subject", "object"} \X DOMAIN d.facts)
  \cup {<<"from", i>> : i \in DOMAIN d.held}
  \cup {<<"summary", r.entity>> : r \in derived}
  \cup UNION {{<<"cites", r.entity, x.chunk>> : x \in r.refs} : r \in derived}

short(f) == IF fault = f THEN 1 ELSE 0

OtherScope == [request.batch.scope EXCEPT !["tenantId"] = "other"]

Tier4Envelope ==
  [credential |-> IF fault = "relayCredential" THEN credentials.source ELSE credentials.worker,
   scope |-> IF fault = "otherEnvelope" THEN {OtherScope} ELSE {},
   principal |-> [id |-> "tier4", role |-> IF fault = "sourceRole" THEN "source" ELSE "worker",
                  scope |-> IF fault = "otherPrincipal" THEN OtherScope ELSE request.batch.scope]]

Tier4Metrics == [k \in Metrics |-> 0]
Tier4FinalMetrics(n) ==
  [Tier4Metrics EXCEPT !["records_in"] = IF fault = "otherMetrics" /\ n = 13 THEN 1 ELSE 0]
Tier4Stages  ==
  CASE fault = "stageMissing" -> Tail(request.batch.stages)
    [] fault = "otherAttempt" -> [request.batch.stages EXCEPT ![7].attempt = "other"]
    [] OTHER -> Reverse(request.batch.stages)
Tier4Time(n) == [started |-> n, finished |-> IF fault = "stillIndexing" /\ n = 15 THEN 17 ELSE n]

Tier4Transaction == [id |-> "tx", frontier |-> "f1", checkpoint |-> "c1"]
Tier4Decision(d) == IF fault = "otherDecision" THEN sha256Json(NoDecision) ELSE hashPipelineDecision(d)

Tier4Claim == [schemaVersion |-> SchemaVersion, scope |-> request.batch.scope,
               limit |-> IF fault = "claimsTwo" THEN {2} ELSE {}]

(* The failure of a stage, as the decision identifies it.                   *)
Tier4Failure(d, n) ==
  [schemaVersion |-> SchemaVersion, runId |-> request.batch.runId, decisionId |-> "d", decisionHash |-> Tier4Decision(d),
   stage |-> [StageOf(n) EXCEPT !.attempt = IF fault = "failsOtherAttempt" THEN "other" ELSE @],
   time |-> Tier4Time(13), metrics |-> Tier4Metrics,
   code |-> IF fault = "failureUnexplained" THEN "" ELSE "E", message |-> "m"]

Tier4GateRequest(d) == [schemaVersion |-> SchemaVersion, scope |-> request.batch.scope, decisionId |-> "d",
                        decisionHash |-> Tier4Decision(d)]

Tier4Publication(d, f) ==
  [schemaVersion |-> SchemaVersion, runId |-> request.batch.runId, decisionId |-> "d", decisionHash |-> Tier4Decision(d),
   snapshotId |-> IF fault = "publishesOtherSnapshot" THEN "s0" ELSE "s1", generation |-> "g1",
   modelRevision |-> Model, frontier |-> IF fault = "publishesOtherFrontier" THEN "f0" ELSE "f1",
   receiptHash |-> sha256Json(IF fault = "publishesOtherReceipt" THEN [f EXCEPT !.snapshotId = "s0"] ELSE f),
   pointerHash |-> sha256Json("pointer"), publishedAt |-> 18 * (1 - short("publishedNever")),
   ok |-> fault # "publicationNotOk"]

Tier4GraphReadback(d) ==
  [ok |-> fault # "graphNotOk", run |-> fault # "graphOfOtherRun", time |-> Tier4Time(13),
   schemaVersion |-> SchemaVersion, stages |-> Tier4Stages, runId |-> request.batch.runId,
   decisionId |-> "d", decisionHash |-> Tier4Decision(d), transaction |-> Tier4Transaction,
   metrics |-> Tier4Metrics,
   nodeCount |-> Cardinality(Tier4Nodes(d, {})) - short("nodeLost"),
   edgeCount |-> Cardinality(Tier4Edges(d, {})) - short("edgeLost")]

Tier4Lanes(d, derived) ==
  [l \in Lanes \ (IF fault = "laneMissing" THEN {"sqlite"} ELSE {}) |->
     LET objects == CASE l = "vector" -> IF d.embed THEN Len(d.chunks) ELSE 0
                      [] l = "graph" -> Cardinality(Tier4Edges(d, derived))
                      [] l = "sqlite" -> Cardinality(Tier4Nodes(d, derived))
                      [] l = "bitemporal" -> Cardinality({i \in DOMAIN d.facts : Dated(d.facts[i])})
                      [] OTHER -> Len(d.chunks)
     IN CASE fault = "laneDown" /\ l = "lexical" -> [status |-> "unsupported", objects |-> 0, reason |-> "down"]
          [] fault = "noTemporalApi" /\ l = "bitemporal" ->
               [status |-> "unsupported", objects |-> 0, reason |-> "native_temporal_query_api_unavailable"]
          [] fault = "temporalRefused" /\ l = "bitemporal" -> [status |-> "unsupported", objects |-> 0, reason |-> "refused"]
          [] l = "bitemporal" /\ objects = 0 /\ fault \notin {"noTemporalApi", "temporalRefused"} ->
               [status |-> "not_applicable", objects |-> 0, reason |-> ""]
          [] OTHER -> [status |-> "ready", reason |-> "",
                       objects |-> objects - (IF fault = "laneShort" /\ l = "provenance" THEN 1 ELSE 0)]]

Tier4Final(d, g) ==
  [ok |-> fault # "finalNotOk", run |-> fault # "finalOfOtherRun",
   schemaVersion |-> SchemaVersion, stages |-> Tier4Stages, runId |-> request.batch.runId,
   decisionId |-> "d", decisionHash |-> Tier4Decision(d), transaction |-> Tier4Transaction,
   snapshotId |-> "s1", generation |-> "g1",
   metrics |-> [n \in WorkerStages |-> Tier4FinalMetrics(n)], times |-> [n \in WorkerStages |-> Tier4Time(n)],
   model |-> IF fault = "otherModel" THEN "other" ELSE Model,
   nodeCount |-> Cardinality(Tier4Nodes(d, g.derived)),
   edgeCount |-> Cardinality(Tier4Edges(d, g.derived)) - short("derivedEdgeLost"),
   vectorCount |-> (IF d.embed THEN Len(d.chunks) ELSE 0) + short("vectorTwice"),
   citationCount |-> Len(d.chunks) - short("citationLost"),
   graphHash |-> CASE fault = "otherGraphHash" -> sha256Json([g.receipt EXCEPT !.nodeCount = @ + 1])
                   [] fault = "noGraphHash" -> <<>>
                   [] OTHER -> hashPipelineGraphReceipt(g.receipt),
   derivedHash |-> sha256Json(g.derived \cup {NoDecision : n \in 1 .. short("otherDerivedHash")}),
   lanes |-> Tier4Lanes(d, g.derived),
   queryCount |-> 1 - short("noQueries"),
   recallAt5 |-> minRecallAt5 - short("lowRecall"), mrr |-> minMrr - short("lowMrr"),
   citation |-> minCitation - short("badCitation"), leaks |-> short("leak")]

-----------------------------------------------------------------------------
(* evaluatePipelineQuality.  Each dimension is the set of its reasons.      *)

knownSourceReference(x, d) ==
  /\ x.chunk \in DOMAIN d.chunks /\ x.mentions # {}
  /\ \A id \in x.mentions : \E m \in ToSet(d.mentions) : mentionId(m) = id /\ m.chunk = x.chunk

DataReasons(d, derived) ==
  LET rows == ToSet(d.facts) \cup ToSet(d.held)
      entity(r) == CHOOSE e \in d.entities : e.id = r.entity
      chunks(r) == Cardinality({m.chunk : m \in MentionsOf(d, entity(r))})
      facts(r)  == Cardinality({i \in DOMAIN d.facts : r.entity \in {d.facts[i].subject, d.facts[i].object}})
  IN {<<"row", r.id>> : r \in {q \in rows : ~ knownSourceReference(q.refs, d)}}
     \cup IF Cardinality(derived) # Cardinality(d.entities) THEN {<<"derived count">>}
          ELSE {<<"derived", r.id>> : r \in {q \in derived :
                  \/ \E p \in derived \ {q} : p.id = q.id
                  \/ \A e \in d.entities : e.id # q.entity
                  \/ q.refs = {} \/ \E x \in q.refs : ~ knownSourceReference(x, d)
                  \/ q.documentCount # 1 \/ q.chunkCount # chunks(q) \/ q.factCount # facts(q)}}

(* Variant: a lane that is not ready is passed over.                        *)
LaneReasonsAnyStatus(d, derived, lanes) ==
  LET expected == ExpectedLanes(d, derived)
  IN {l \in Lanes : lanes[l].status = "ready" /\ lanes[l].objects # expected[l]}

LaneReasons(d, derived, lanes) ==
  LET expected == ExpectedLanes(d, derived)
      excused(l) == l = "bitemporal" /\ lanes[l].objects = 0
                    /\ \/ lanes[l].status = "not_applicable" /\ expected[l] = 0
                       \/ lanes[l].status = "unsupported" /\ lanes[l].reason \in OptionalTemporalUnsupported
  IN {l \in Lanes : ~ excused(l) /\ (lanes[l].status # "ready" \/ lanes[l].objects # expected[l])}

GraphReasons(d) ==
  LET derived == UNION {g.derived : g \in graph}
      wants == ExpectedReadback(d, derived)
      ofGraph(g) == (IF ~ g.run THEN {"graph identity"} ELSE {})
        \cup (IF ~ g.ok THEN {"graph not ok"}
              ELSE {k \in {"nodeCount", "edgeCount"} : g.readback[k] # d.expected[k]})
      ofFinal(f) == (IF ~ f.run THEN {"final identity"} ELSE {})
        \cup (IF ~ f.ok THEN {"final not ok"}
              ELSE {k \in DOMAIN wants : f[k] # wants[k]})
        \cup {h \in {"graphHash"} : \A g \in graph : f.graphHash # hashPipelineGraphReceipt(g.receipt)}
        \cup {h \in {"derivedHash"} : \A g \in graph : f.derivedHash # sha256Json(g.derived)}
        \cup LaneReasons(d, derived, f.lanes)
  IN (IF graph = {} THEN {"graph receipt missing"} ELSE UNION {ofGraph(g) : g \in graph})
     \cup (IF final = {} THEN {"final receipt missing"} ELSE UNION {ofFinal(f) : f \in final})

KnowledgeFails(d) ==
  LET types(id) == {e.type : e \in {x \in d.entities : x.id = id}}
  IN \/ d.version \notin SupportedVersions
     \/ \E f \in ToSet(d.facts) : \A s \in types(f.subject), o \in types(f.object) :
          ~ ValidEndpoint(d.version, f.predicate, s, o)
     \/ ~ d.embed

SecurityFails == final = {} \/ \E f \in final : f.leaks # 0

RetrievalFails ==
  \/ final = {}
  \/ \E f \in final : \/ f.queryCount <= 0 \/ f.recallAt5 < minRecallAt5 \/ f.mrr < minMrr
                      \/ f.citation # minCitation \/ f.leaks # maxLeaks

Evaluate(d) ==
  LET fails == {k \in {"data", "graph", "knowledge", "security", "retrieval"} :
                  \/ k = "data" /\ DataReasons(d, UNION {g.derived : g \in graph}) # {}
                  \/ k = "graph" /\ GraphReasons(d) # {}
                  \/ k = "knowledge" /\ KnowledgeFails(d)
                  \/ k = "security" /\ SecurityFails
                  \/ k = "retrieval" /\ RetrievalFails}
      result == IF fails # {} THEN "FAIL" ELSE IF d.held # <<>> THEN "WARN" ELSE "PASS"
  IN [fails |-> fails, result |-> result, allowPublication |-> d.publish /\ result = "PASS"]

-----------------------------------------------------------------------------
NoBatch    == [chunks |-> <<>>]

(* A validated batch as the stages read it: the chunks sorted by ordinal,   *)
(* each mention with the place of its chunk.                                *)
Sorted(b) ==
  LET before(i, j) == \/ b.chunks[i].ordinal < b.chunks[j].ordinal
                      \/ b.chunks[i].ordinal = b.chunks[j].ordinal /\ i < j
      place == [i \in DOMAIN b.chunks |-> Cardinality({j \in DOMAIN b.chunks : before(j, i)}) + 1]
      at(k) == CHOOSE i \in DOMAIN b.chunks : place[i] = k
      of(m) == CHOOSE i \in DOMAIN b.chunks : b.chunks[i].chunkId = m.chunkId
  IN [chunks |-> [k \in DOMAIN b.chunks |-> b.chunks[at(k)].text],
      mentions |-> [i \in DOMAIN b.mentions |->
         [id |-> b.mentions[i].sourceMentionId,
          chunk |-> place[of(b.mentions[i])], at |-> b.mentions[i].startOffset + 1,
          key |-> b.mentions[i].resolutionKey, type |-> b.mentions[i].semanticType]],
      refs |-> pool, embed |-> b.policy.allowEmbedding, publish |-> b.policy.allowPublication]

Init == /\ stage = "idle" /\ request \in Request /\ fault \in FaultOn[request]
        /\ batch = NoBatch /\ decision = NoDecision /\ claimed = FALSE /\ failed = {}
        /\ graph = {} /\ final = {} /\ verdict = {} /\ published = {}

Accepted(r) == ValidBatch(r.batch) /\ Authorized(r.envelope, credentials.source, "source", r.batch.scope)

Submit ==
  /\ stage = "idle" /\ Accepted(request) /\ stage' = "submitted"
  /\ batch' = Sorted(request.batch)
  /\ \E v \in Version : decision' = Decision(batch', v)
  /\ UNCHANGED <<request, fault, claimed, failed, graph, final, verdict, published>>

Refuse ==
  /\ stage = "idle" /\ ~ Accepted(request) /\ stage' = "refused"
  /\ UNCHANGED <<request, fault, batch, decision, claimed, failed, graph, final, verdict, published>>

WorkerMay == Authorized(Tier4Envelope, credentials.worker, "worker", request.batch.scope)

(* pipelineClaim gives out the pending decision of the scope.               *)
Claim ==
  /\ stage = "submitted" /\ failed = {}
  /\ claimed' = (claimed \/ (ValidClaim(Tier4Claim) /\ WorkerMay))
  /\ UNCHANGED <<stage, request, fault, batch, decision, failed, graph, final, verdict, published>>

(* The stages of Tier 4 that have ended with a receipt.                     *)
Succeeded == (IF graph = {} THEN {} ELSE {13}) \cup (IF final = {} THEN {} ELSE {15, 16})

(* Of this decision and run, under the stage identities it gave out.        *)
OfDecision(r) == /\ r.decisionHash = hashPipelineDecision(decision) /\ r.runId = request.batch.runId
                 /\ sameStageIdentity(request.batch.stages, r.stages)

(* transactPipelineStageFailure: one failure ends the run, and an attempt   *)
(* that has ended does not end again.                                       *)
AcceptsFailure(f) ==
  /\ f.decisionHash = hashPipelineDecision(decision) /\ f.runId = request.batch.runId
  /\ f.stage = StageOf(f.stage.number)
  /\ f.stage.number \notin Succeeded /\ failed = {}

FailStage(n) ==
  LET f == Tier4Failure(decision, n)
  IN /\ fault \in {"fails", "failsOtherAttempt", "failureUnexplained", "relayCredential", "otherDecision"}
     /\ stage \in {"submitted", "loaded", "indexed"} /\ failed = {}
     /\ failed' = IF ValidStageFailure(f, request.batch.scope) /\ WorkerMay /\ AcceptsFailure(f)
                  THEN {n} ELSE {}
     /\ UNCHANGED <<stage, request, fault, batch, decision, claimed, graph, final, verdict, published>>

(* The worker sends a graph receipt.  What the contract or the store        *)
(* refuses is not stored: transactPipelineGraphReceipt takes no receipt of  *)
(* another decision, run or attempt, none after a failure, none that is not *)
(* ok and none that read back other counts.                                 *)
(* Stage 14 is derived in the handler that stores it.                       *)
LoadGraph ==
  LET r == Tier4GraphReadback(decision)
      counts == [k \in {"nodeCount", "edgeCount"} |-> r[k]]
  IN /\ stage = "submitted" /\ stage' = "loaded"
     /\ graph' = IF /\ WorkerMay /\ ValidGraphReceipt(r, request.batch.scope)
                    /\ failed = {} /\ OfDecision(r)
                    /\ r.ok /\ r.run /\ counts = decision.expected
                 THEN {[ok |-> TRUE, run |-> TRUE, readback |-> counts, time |-> r.time, metrics |-> r.metrics,
                        receipt |-> counts, derived |-> Summaries(decision)]}
                 ELSE {}
     /\ UNCHANGED <<request, fault, batch, decision, claimed, failed, final, verdict, published>>

(* transactPipelineWriteReceipt takes no receipt of another decision, run   *)
(* or attempt, none after a failure, none without a graph receipt and none  *)
(* that quotes other hashes, or another time or other metrics of Stage 13;  *)
(* what it reads back is left to the gate.                                  *)
Index ==
  /\ stage = "loaded" /\ stage' = "indexed"
  /\ final' = {f \in {Tier4Final(decision, g) : g \in graph} :
                 /\ WorkerMay /\ ValidReceipt(f, request.batch.scope) /\ f.run
                 /\ failed = {} /\ OfDecision(f)
                 /\ \A g \in graph : /\ f.graphHash = hashPipelineGraphReceipt(g.receipt)
                                     /\ f.derivedHash = sha256Json(g.derived)
                                     /\ f.times[13] = g.time /\ f.metrics[13] = g.metrics}
  /\ UNCHANGED <<request, fault, batch, decision, claimed, failed, graph, verdict, published>>

(* The gate may be asked for at any time: receipts may be missing.  No PASS *)
(* is stored of a run with a failed stage.                                  *)
Gate ==
  LET r == Tier4GateRequest(decision)
  IN /\ stage \in {"submitted", "loaded", "indexed"} /\ stage' = "judged"
     /\ verdict' = {v \in {Evaluate(decision)} :
                      /\ ValidGateRequest(r) /\ WorkerMay /\ r.decisionHash = hashPipelineDecision(decision)
                      /\ failed = {} \/ v.result # "PASS"}
     /\ UNCHANGED <<request, fault, batch, decision, claimed, failed, graph, final, published>>

(* Variant: only the verdict is looked at, not what is being published.     *)
PublishesAnything(p, f) ==
  /\ ValidPublication(p, request.batch.scope) /\ WorkerMay
  /\ \A v \in verdict : v.result = "PASS" /\ v.allowPublication

(* transactPipelinePublicationReceipt: what is published is the projection  *)
(* of the final receipt that passed, and nothing of a failed run.           *)
Publishes(p, f) ==
  /\ ValidPublication(p, request.batch.scope) /\ WorkerMay /\ failed = {}
  /\ p.decisionHash = hashPipelineDecision(decision) /\ p.runId = request.batch.runId
  /\ p.receiptHash = hashPipelineReceipt(f)
  /\ p.snapshotId = f.snapshotId /\ p.generation = f.generation
  /\ p.modelRevision = f.model /\ p.frontier = f.transaction.frontier
  /\ \E v \in verdict : v.result = "PASS" /\ v.allowPublication

Publish ==
  /\ stage = "judged" /\ stage' = "published"
  /\ published' = {Tier4Publication(decision, f) : f \in {g \in final : Publishes(Tier4Publication(decision, g), g)}}
  /\ UNCHANGED <<request, fault, batch, decision, claimed, failed, graph, final, verdict>>

Next == \/ Submit \/ Refuse \/ Claim \/ (\E n \in {13, 14, 15, 16} : FailStage(n))
        \/ LoadGraph \/ Index \/ Gate \/ Publish
Spec == Init /\ [][Next]_vars

-----------------------------------------------------------------------------
(* What warrants a fact from s to o: either the structured form names its    *)
(* two entities and nothing denies it, or a relation word stands between     *)
(* its subject and its object in one sentence that neither asks nor denies.  *)
(* What a name is made of, "Inc." or "No", says nothing of the sentence.     *)
WarrantedAt(text, names, s, o, f) ==
  LET between == {i \in DOMAIN text : s < i /\ i < o}
  IN \/ /\ f.confidence = structured
        /\ \E h \in DOMAIN text : /\ text[h] = "record" /\ h + 3 <= Len(text)
                                  /\ text[h + 1] = text[s] /\ text[h + 3] = text[o]
        /\ ToSet(text) \cap {"?", "never"} = {}
     \/ /\ f.confidence = explicit /\ s < o
        /\ \A i \in between \ names : text[i] \notin SentenceEnd \cup Negation
        /\ \E i \in between : text[i] = f.id[4]
        /\ \E e \in o .. Len(text) + 1 :
              /\ e = Len(text) + 1 \/ text[e] = "."
              /\ \A i \in o .. e - 1 : text[i] \notin SentenceEnd

(* The mentions a fact names warrant it where they stand.                    *)
Warranted(text, ms, f) ==
  \E m, n \in ms : /\ mentionId(m) = f.id[2] /\ mentionId(n) = f.id[3]
                   /\ WarrantedAt(text, {x.at : x \in ms}, m.at, n.at, f)

(* Every fact is warranted by the words of its chunk.                       *)
(* (parseStructuredClaim, parseExplicitClaims: the carried subject of a     *)
(* coordination may stand further back, never in another sentence.)         *)
ClaimsFollowTheText ==
  decision # NoDecision => \A f \in ToSet(decision.facts) :
    Warranted(batch.chunks[f.id[1]], {m \in ToSet(batch.mentions) : m.chunk = f.id[1]}, f)

(* No candidate is lost and none is decided twice: each becomes one fact or *)
(* one held row, and the metrics of Stages 11 and 12 account for it         *)
(* (records in = records out + quarantined).                                *)
EveryCandidateLands ==
  decision # NoDecision =>
    /\ LET rows == [i \in DOMAIN decision.facts |-> decision.facts[i].id]
                   \o [i \in DOMAIN decision.held |-> decision.held[i].id]
           ids  == [i \in DOMAIN decision.candidates |-> decision.candidates[i].id]
           times(q, id) == Cardinality({i \in DOMAIN q : q[i] = id})
       IN \A id \in ToSet(rows) \cup ToSet(ids) : times(rows, id) = times(ids, id)
    /\ \A k \in {"s11", "s12"} :
         LET m == decision.metrics[k] IN m[1] = m[2] + m[3]

(* No fact states an impossible or an unreadable time: a fact out of a      *)
(* chunk whose time is only worded, or whose bounds are reversed or no      *)
(* days, would be read as valid (Stage 12, ADR-GKS-GENESISRAG17 Stage 12).  *)
FactsHaveValidTime ==
  decision # NoDecision => \A f \in ToSet(decision.facts) :
    LET words == ToSet(batch.chunks[f.id[1]])
    IN /\ f.temporal.from = "" <=> words \cap DOMAIN Day = {}
       /\ f.temporal.from = "" => words \cap VagueTime = {}
       /\ f.temporal.from # "" => Day[f.temporal.from] > 0
       /\ f.temporal.to # "" => Day[f.temporal.to] >= Day[f.temporal.from]

(* A worker that loads what it is given is believed, passes and publishes:  *)
(* builder, summaries, expectations and gate count the same graph, so       *)
(* nothing but the policy and the held rows keeps such a run from PASS, and *)
(* nothing but the policy keeps a PASS from being published.                *)
HonestWorkerPasses ==
  fault = "none" =>
    /\ stage \in {"loaded", "indexed"} => graph # {}
    /\ stage = "indexed" => final # {}
    /\ \A v \in verdict : final # {} =>
         /\ v.fails = IF batch.embed THEN {} ELSE {"knowledge"}
         /\ v.result = "PASS" <=> batch.embed /\ decision.held = <<>>
         /\ stage = "published" => (published # {} <=> v.result = "PASS" /\ batch.publish)

(* PASS is earned: both receipts are stored, no stage failed, Tier 4 lost   *)
(* nothing and measured enough (only its missing native time interface is   *)
(* excused), no row is held and the policy allows embedding.  Nothing else  *)
(* is published than the projection that passed, where the policy allows    *)
(* it; a failure counts only of a stage that Tier 4 executes and that had   *)
(* not ended.                                                               *)
PassIsEarned ==
  LET later == {"claimsTwo", "fails", "failsOtherAttempt", "failureUnexplained", "publishesOtherReceipt",
                "publishesOtherSnapshot", "publishesOtherFrontier", "publishedNever", "publicationNotOk"}
      harmless == {"none", "noTemporalApi", "claimsTwo", "fails", "failsOtherAttempt", "failureUnexplained"}
                  \cup (IF CompatibilityMode THEN {"relayCredential"} ELSE {})
  IN /\ \A v \in verdict : v.result = "PASS" =>
          /\ graph # {} /\ final # {} /\ failed = {} /\ fault \in harmless \cup later
          /\ decision.held = <<>> /\ batch.embed
     /\ failed \subseteq {13, 15, 16} \ Succeeded
     /\ \A p \in published : /\ fault \in harmless /\ batch.publish
                             /\ \E v \in verdict : v.result = "PASS"

(* An accepted batch says what its source says: a mention reads its name at  *)
(* the place the offsets of chunk and mention add up to, in one chunk only,  *)
(* and the text of a chunk, which is hashed, begins and ends outside of a    *)
(* surrogate pair.  A name that is mentioned may cut one: validateMentions   *)
(* does not ask.                                                             *)
AcceptedTextIsTheSource ==
  decision # NoDecision =>
    LET b == request.batch
    IN /\ \A i \in DOMAIN b.mentions : \E j \in DOMAIN b.chunks :
            /\ b.chunks[j].chunkId = b.mentions[i].chunkId
            /\ \A k \in DOMAIN b.chunks \ {j} : b.chunks[k].chunkId # b.mentions[i].chunkId
            /\ Slice(b.source.content, b.chunks[j].startOffset + b.mentions[i].startOffset,
                                       b.chunks[j].startOffset + b.mentions[i].endOffset)
                 = b.mentions[i].name
       /\ \A c \in ToSet(batch.chunks) : c[Len(c)] # "hi" /\ c[1] # "lo"

(* Nothing is given to or stored for a caller whose principal is no worker, *)
(* or whose principal or envelope is of another scope; nor, where the       *)
(* deployment splits the two credentials, for one that holds only that of   *)
(* the source: with one credential for both, its holder has but to name     *)
(* itself a worker.  And nothing that quotes another decision is stored.    *)
ReceiptsComeFromTheWorker ==
  LET stored == graph # {} \/ final # {} \/ verdict # {} \/ failed # {} \/ published # {}
  IN /\ stored \/ claimed => /\ fault \notin {"sourceRole", "otherPrincipal", "otherEnvelope"}
                             /\ fault = "relayCredential" => CompatibilityMode
     /\ stored => fault \notin {"otherDecision"}

(* Stage 9 keeps names apart exactly as the rule table does: two mentions   *)
(* of a run are one entity when their types agree and their names do, in    *)
(* whatever words legal forms and articles dress them; every mention is of  *)
(* one entity (buildPipelineDecision with norm_v1).                         *)
OneEntityPerName ==
  decision # NoDecision =>
    \A m, n \in ToSet(batch.mentions) :
      LET of(x) == {e \in decision.entities : mentionId(x) \in e.mentions}
      IN /\ Cardinality(of(m)) = 1
         /\ of(m) = of(n) <=> m.type = n.type /\ SameName(m.key, n.key)

(* docs/ADR-GKS-GENESISRAG17.md:198-203: an unsupported coordination is     *)
(* held "rather than binding the previous object as a new subject": the     *)
(* subject of a fact is not the object of an earlier relation of the same   *)
(* sentence, when that one has a subject of its own.                        *)
PreviousObjectIsNoSubject ==
  decision # NoDecision => \A f \in ToSet(decision.facts) :
    LET text == batch.chunks[f.id[1]]
        ms == {m \in ToSet(batch.mentions) : m.chunk = f.id[1]}
        names == {m.at : m \in ms}
        s == (CHOOSE m \in ms : mentionId(m) = f.id[2]).at
    IN f.confidence = explicit =>
         ~ \E w \in DOMAIN text :
             /\ w < s /\ text[w] \in RelationWord
             /\ \A i \in w .. s : text[i] \notin SentenceEnd
             /\ \A n \in names : ~ (w < n /\ n < s)
             /\ \E n \in names : n < w /\ \A i \in n .. w : text[i] \notin SentenceEnd
=============================================================================
