-------------------------- MODULE PipelineDecision --------------------------
(***************************************************************************)
(* buildPipelineDecision: the decision of a validated batch (Stages 9 to   *)
(* 13), the summaries of Stage 14 and the counts a Tier-4 worker has to    *)
(* read back.  packages/gks-core/src/pipeline.mjs.                          *)
(*                                                                         *)
(* A batch is [chunks, mentions, refs, embed, publish]: the texts of its   *)
(* chunks in ordinal order, its mentions in the order of the wire, the     *)
(* canonical refs Stage 9 found for its identities, and its policy.        *)
(* Hashes are the values they hash; ids are the values they digest.  The   *)
(* key of a mention is a name in the sense of NormKey.                     *)
(***************************************************************************)
EXTENDS StageRules, NormKey

mentionId(m) == m.id

(* pipelineEntityNormKey: spelling and type together.                       *)
Identity(m) == <<normKey(m.key), m.type>>

-----------------------------------------------------------------------------
(* Stage 9: one entity for each identity, under the ref that was found or a *)
(* new one.                                                                 *)

RefOf(refs, identity) == IF identity \in DOMAIN refs THEN refs[identity]
                         ELSE <<"entity", identity>>

EntityId(b, m) == RefOf(b.refs, Identity(m))

Entities(b) ==
  {[id |-> EntityId(b, m), type |-> m.type,
    mentions |-> {mentionId(n) : n \in {k \in ToSet(b.mentions) : Identity(k) = Identity(m)}}]
     : m \in ToSet(b.mentions)}

(* The type of the first entity under an id.                                *)
TypeOf(b, id) == Keep(b.mentions, LAMBDA m : EntityId(b, m) = id)[1].type

(* Stage 10: the claims of every chunk, as candidates.                      *)
SourceReferences(chunk, ids) == [chunk |-> chunk, mentions |-> ids]

(* A digest of the chunk, the two mentions and the raw predicate: two verbs *)
(* that bind the same two mentions alike make one id.                       *)
factId(c, claim) == <<c, mentionId(claim.subject), mentionId(claim.object), claim.predicate>>

Candidate(b, c, claim) ==
  [id |-> factId(c, claim),
   chunk |-> c, raw |-> claim.predicate, confidence |-> claim.confidence, hold |-> claim.hold,
   subject |-> EntityId(b, claim.subject), object |-> EntityId(b, claim.object),
   subjectType |-> TypeOf(b, EntityId(b, claim.subject)),
   objectType |-> TypeOf(b, EntityId(b, claim.object)),
   refs |-> SourceReferences(c, {mentionId(claim.subject), mentionId(claim.object)})]

Candidates(b) ==
  FlattenSeq([c \in DOMAIN b.chunks |->
    Each(ChunkClaims(b.chunks[c], Keep(b.mentions, LAMBDA m : m.chunk = c)),
         LAMBDA claim : Candidate(b, c, claim))])

heldRecord(c, reason) == [id |-> c.id, reason |-> reason, confidence |-> c.confidence,
                          refs |-> c.refs]

Held10(c) == Only(c.hold # "", heldRecord(c, c.hold))
             \o Only(c.confidence < writeFloor, heldRecord(c, "confidence_below_write_floor"))

(* Variant: a candidate below the write floor is held a second time.        *)
Held11Twice(c, version) ==
  Only(c.raw \notin DOMAIN Alias, heldRecord(c, "unknown_predicate"))

(* Stage 11: what Stage 10 held is passed over; then an unknown predicate,  *)
(* then endpoints the ontology does not allow.                              *)
Mapped(c, version) ==
  /\ c.hold = "" /\ c.raw \in DOMAIN Alias /\ c.confidence >= writeFloor
  /\ ValidEndpoint(version, Alias[c.raw], c.subjectType, c.objectType)

Held11(c, version) ==
  IF c.hold # "" \/ c.confidence < writeFloor \/ Mapped(c, version) THEN <<>>
  ELSE <<heldRecord(c, IF c.raw \notin DOMAIN Alias THEN "unknown_predicate"
                       ELSE "invalid_endpoint")>>

(* Variant: time that is only worded does not hold the claim.               *)
Held12Never(b, c) == LET t == temporalClaim(b.chunks[c.chunk])
                     IN Only(t.errors # {}, heldRecord(c, "invalid_temporal_order"))

Held12(b, c) ==
  LET t == temporalClaim(b.chunks[c.chunk])
  IN CASE t.status = "unmapped" -> <<heldRecord(c, "temporal_unmapped")>>
       [] t.status # "unmapped" /\ t.errors # {} -> <<heldRecord(c, "invalid_temporal_order")>>
       [] OTHER -> <<>>

Fact(b, c) ==
  LET t == temporalClaim(b.chunks[c.chunk])
  IN [id |-> c.id, subject |-> c.subject, object |-> c.object, predicate |-> Alias[c.raw],
      confidence |-> c.confidence, refs |-> c.refs,
      temporal |-> [from |-> t.from, to |-> t.to]]

-----------------------------------------------------------------------------
(* The nodes and edges the worker is to load in Stage 13.                   *)
(* Variant: the edges from a fact to its two entities are counted once.     *)
ExpectedGraphOneEdge(b, entities, facts, held) ==
  [nodeCount |-> 2 + Len(b.chunks) + Cardinality(entities) + Len(facts) + Len(held),
   edgeCount |-> 1 + Len(b.chunks) + Len(b.mentions) + Len(facts) + Len(held)]

ExpectedGraph(b, entities, facts, held) ==
  [nodeCount |-> 2 + Len(b.chunks) + Cardinality(entities) + Len(facts) + Len(held),
   edgeCount |-> 1 + Len(b.chunks) + Len(b.mentions) + 2 * Len(facts) + Len(held)]

StageMetrics(b, entities, candidates, mapped, facts, held) ==
  LET reasons == {"temporal_unmapped", "invalid_temporal_order"}
      early   == {"ambiguous_subject_binding", "confidence_below_write_floor"}
      count(R) == Len(Keep(held, LAMBDA h : h.reason \in R))
  IN [s9  |-> <<Len(b.mentions), Cardinality(entities), 0>>,
      s10 |-> <<Len(b.chunks), Len(candidates), count(early)>>,
      s11 |-> <<Len(candidates), Len(mapped), Len(candidates) - Len(mapped)>>,
      s12 |-> <<Len(mapped), Len(facts), count(reasons)>>]

Facts(b, mapped) == Collect(mapped, LAMBDA c : Only(Held12(b, c) = <<>>, Fact(b, c)))

HeldRows(b, version, candidates, mapped) ==
  Collect(candidates, Held10)
  \o Collect(candidates, LAMBDA c : Held11(c, version))
  \o Collect(mapped, LAMBDA c : Held12(b, c))

DecisionRow(b, version, candidates, entities, mapped, facts, held) ==
  [version |-> version, chunks |-> b.chunks, mentions |-> b.mentions,
   entities |-> entities, candidates |-> candidates, facts |-> facts, held |-> held,
   embed |-> b.embed, publish |-> b.publish,
   expected |-> ExpectedGraph(b, entities, facts, held),
   metrics |-> StageMetrics(b, entities, candidates, mapped, facts, held)]

DecisionFrom(b, version, candidates, mapped) ==
  DecisionRow(b, version, candidates, Entities(b), mapped,
              Facts(b, mapped), HeldRows(b, version, candidates, mapped))

Mappable(version, candidates) == Keep(candidates, LAMBDA c : Mapped(c, version))

DecisionOn(b, version, candidates) == DecisionFrom(b, version, candidates, Mappable(version, candidates))

(* buildPipelineDecision, under the ontology version the process produces.  *)
Decision(b, version) == DecisionOn(b, version, Candidates(b))

-----------------------------------------------------------------------------
(* Stage 14: derivePipelineSummaries, one row for each entity.              *)

FactsOf(d, entity) == Keep(d.facts, LAMBDA f : f.subject = entity \/ f.object = entity)

MentionsOf(d, e) == {m \in ToSet(d.mentions) : mentionId(m) \in e.mentions}

(* Variant: a summary without facts refers to the first chunk of the batch. *)
SummaryFirstChunk(d, e) ==
  LET facts == FactsOf(d, e.id)
      first == CHOOSE m \in MentionsOf(d, e) : \A n \in MentionsOf(d, e) :
                 (m.chunk < n.chunk) \/ (m.chunk = n.chunk /\ m.at <= n.at)
  IN [id |-> <<"derived", e.id>>, entity |-> e.id, documentCount |-> 1,
      chunkCount |-> Cardinality({m.chunk : m \in MentionsOf(d, e)}), factCount |-> Len(facts),
      refs |-> IF facts = <<>> THEN {SourceReferences(1, {mentionId(first)})}
               ELSE {f.refs : f \in ToSet(facts)}]

Summary(d, e) ==
  LET facts == FactsOf(d, e.id)
      first == Keep(d.mentions, LAMBDA m : mentionId(m) \in e.mentions)[1]
  IN [id |-> <<"derived", e.id>>, entity |-> e.id, documentCount |-> 1,
      chunkCount |-> Cardinality({m.chunk : m \in MentionsOf(d, e)}), factCount |-> Len(facts),
      refs |-> IF facts = <<>> THEN {SourceReferences(first.chunk, {mentionId(first)})}
               ELSE {f.refs : f \in ToSet(facts)}]

Summaries(d) == {Summary(d, e) : e \in d.entities}

(* temporalRowClassification: a row is dated when it carries valid time.    *)
(* heldRecord keeps no temporal field, so a held row never is.              *)
Dated(f) == f.temporal.from # "" \/ f.temporal.to # ""

(* pipelineReadbackExpectations: what the final projection must hold, given *)
(* the Stage 14 rows that were committed.                                   *)
ExpectedReadback(d, derived) ==
  [nodeCount |-> d.expected.nodeCount + Cardinality(derived),
   edgeCount |-> d.expected.edgeCount + Cardinality(derived)
                 + Cardinality(UNION {{<<r, x.chunk>> : x \in r.refs} : r \in derived}),
   vectorCount |-> IF d.embed THEN Len(d.chunks) ELSE 0,
   citationCount |-> Len(d.chunks)]

ExpectedLanes(d, derived) ==
  LET r == ExpectedReadback(d, derived)
  IN [vector |-> r.vectorCount, lexical |-> Len(d.chunks), graph |-> r.edgeCount,
      sqlite |-> r.nodeCount, bitemporal |-> Len(Keep(d.facts, Dated)),
      provenance |-> Len(d.chunks)]
=============================================================================
