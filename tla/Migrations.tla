------------------------------ MODULE Migrations ------------------------------
(***************************************************************************)
(* The eight migrations of the store (src/migrations/*.sql and the hooks   *)
(* of packages/gks-persistence), as functions from a store to a store.     *)
(*                                                                         *)
(* A store keeps the rows that a migration reads or rewrites.  A column    *)
(* that a later migration adds is a field that holds Absent until then.    *)
(* Refs, creation times and graph versions are numbers; a scope is a       *)
(* record with a portfolio, a tenant and a business.  The digests that     *)
(* name mentions and evidence rows are the tuples they are taken of.       *)
(* The schema is the set of tables and added columns; indexes are left     *)
(* out.                                                                    *)
(***************************************************************************)
EXTENDS Integers, FiniteSets, Sequences

CONSTANT NormOf     \* the norm key of a candidate ref: [candidates -> keys]

Absent == "absent"
Newest == 8
MspRuntime == "msp-runtime"

\* A store no migration has been applied to.
EmptyStore ==
    [applied |-> {}, schema |-> {}, entities |-> {}, mentions |-> {}, pipelineMentions |-> {},
     promotions |-> {}, decisions |-> {}, links |-> {}, evidence |-> {},
     cursor |-> 0, version |-> 0]

mentionId(scope, key, cand) == <<scope, key, cand>>

(***************************************************************************)
(* Migration 2: every entity gets a norm key and a CREATED mention.        *)
(***************************************************************************)
\* The promotion that last wrote the entity shares its scope and version.
PromotionKeyOf(d, e) ==
    LET ps == {p \in d.promotions : p.scope = e.scope /\ p.version = e.version}
    IN  IF ps = {} THEN "gks:backfill/0002" ELSE (CHOOSE p \in ps : TRUE).key

\* The order of the backfill inside one scope: by time, then by ref.
EarlierEntity(f, e) == f.at < e.at \/ (f.at = e.at /\ f.ref < e.ref)

\* The first entity of a scope with a key keeps it, the others get the key
\* with their mention as a discriminator.
BackfillKey(d, e) ==
    LET base == NormOf[e.cand]
        taken == \E f \in d.entities : /\ f.scope = e.scope
                                       /\ NormOf[f.cand] = base
                                       /\ EarlierEntity(f, e)
    IN  IF taken
        THEN <<base, mentionId(e.scope, PromotionKeyOf(d, e), e.cand)>>
        ELSE <<base>>

BackfillMention(d, e) ==
    [id |-> mentionId(e.scope, PromotionKeyOf(d, e), e.cand),
     scope |-> e.scope, ref |-> e.ref, outcome |-> "CREATED", by |-> "BACKFILL"]

backfillEntityResolution(d) ==
    [d EXCEPT !.entities = {[e EXCEPT !.norm = BackfillKey(d, e)] : e \in d.entities},
              !.mentions = {BackfillMention(d, e) : e \in d.entities}]

(***************************************************************************)
(* Migration 5: one evidence row for every promotion and every human       *)
(* decision, with cursors in the order in which they happened.             *)
(***************************************************************************)
PromotionEvidence(p) == <<"promotion", p.scope, p.key>>
DecisionEvidence(h) == <<"human", h.scope, h.id>>

Executions(d) ==
    {[id |-> PromotionEvidence(p), scope |-> p.scope, at |-> p.at, proof |-> p.proof] :
        p \in d.promotions}
    \cup
    {[id |-> DecisionEvidence(h), scope |-> h.scope, at |-> h.at, proof |-> h.proof] :
        h \in d.decisions}

\* Executions of one time are ordered by their digests: an order of its own.
IsBackfillOrder(f, rows) ==
    \A r, s \in rows : /\ r # s => f[r] # f[s]
                       /\ r.at < s.at => f[r] < f[s]

backfillStageEvidence(d) ==
    LET rows == Executions(d)
        order == CHOOSE f \in [rows -> 1 .. Cardinality(rows)] : IsBackfillOrder(f, rows)
    IN  [d EXCEPT
          !.evidence = {[id |-> r.id, cursor |-> order[r], scope |-> r.scope,
                         proof |-> r.proof, caller |-> Absent] : r \in rows},
          !.cursor = Cardinality(rows)]

(***************************************************************************)
(* Migration 7: an entity a pipeline run mentions and no promotion created *)
(* is of pipeline origin.  Migration 8: whatever was written before is     *)
(* MSP's.                                                                  *)
(***************************************************************************)
OriginOf(d, e) ==
    IF /\ e.ref \in d.pipelineMentions
       /\ ~\E m \in d.mentions : m.ref = e.ref /\ m.outcome = "CREATED"
    THEN "pipeline" ELSE "legacy"

pipelineEntityOrigin(d) ==
    [d EXCEPT !.entities = {[e EXCEPT !.origin = OriginOf(d, e)] : e \in d.entities}]

Attributed(rows) == {[r EXCEPT !.caller = MspRuntime] : r \in rows}

callerAttribution(d) ==
    [d EXCEPT !.promotions = Attributed(d.promotions),
              !.decisions = Attributed(d.decisions),
              !.links = Attributed(d.links),
              !.evidence = Attributed(d.evidence)]

(***************************************************************************)
(* The SQL of a migration: the tables and columns it creates, and those of *)
(* earlier migrations it alters, reads or fills.                           *)
(***************************************************************************)
initialTables ==
    [creates |-> {"graph_state", "promotions", "entities", "relations", "artifact_links"},
     needs |-> {}]
entityResolution ==
    [creates |-> {"entity_mentions", "entities.norm_key"}, needs |-> {"entities", "promotions"}]
pendingRelations == [creates |-> {"pending_relations"}, needs |-> {}]
humanResolution ==
    [creates |-> {"entities.superseded_by", "pending_relations.materialized_ref",
                  "human_resolutions"},
     needs |-> {"entities", "pending_relations"}]
stageEvidence ==
    [creates |-> {"graph_state.evidence_cursor", "stage_evidence"},
     needs |-> {"graph_state", "promotions", "human_resolutions"}]
genesisrag17Pipeline ==
    [creates |-> {"graph_state.pipeline_evidence_cursor", "pipeline_batches",
                  "pipeline_mentions", "pipeline_receipts", "pipeline_graph_receipts",
                  "pipeline_gates", "pipeline_publication_receipts", "pipeline_evidence"},
     needs |-> {"graph_state"}]
pipelineOrigin ==
    [creates |-> {"entities.origin"}, needs |-> {"entities", "entity_mentions", "pipeline_mentions"}]
callerColumns ==
    [creates |-> {"promotions.caller_id", "stage_evidence.caller_id",
                  "human_resolutions.caller_id", "artifact_links.caller_id"},
     needs |-> {"promotions", "stage_evidence", "human_resolutions", "artifact_links"}]

\* The files in the order of their names.
shipped ==
    <<initialTables, entityResolution, pendingRelations, humanResolution, stageEvidence,
      genesisrag17Pipeline, pipelineOrigin, callerColumns>>

\* SQL that creates what is there, or lacks what it builds on, fails.
CanRun(n, d) ==
    /\ shipped[n].creates \cap d.schema = {}
    /\ shipped[n].needs \subseteq d.schema

\* What the SQL and the hook of a migration do to the rows.
Rewrite(n, d) ==
    CASE n = 2 -> backfillEntityResolution(d)
      [] n = 5 -> backfillStageEvidence(d)
      [] n = 7 -> pipelineEntityOrigin(d)
      [] n = 8 -> callerAttribution(d)
      [] OTHER -> d

Apply(n, d) ==
    [Rewrite(n, d) EXCEPT !.applied = @ \cup {n}, !.schema = @ \cup shipped[n].creates]

(***************************************************************************)
(* A store as the first migrations up to some one leave it; made are the   *)
(* refs of the entities that pipeline runs made.                           *)
(***************************************************************************)
SchemaOf(ns) == UNION {shipped[n].creates : n \in ns}

CreatedByPromotion(d, e) == \E m \in d.mentions : m.ref = e.ref /\ m.outcome = "CREATED"

\* A promotion writes a CREATED mention with each entity it makes, a pipeline
\* run a mention of its own; from migration 7 on the row itself tells.
OriginsKnown(d, made) ==
    \A e \in d.entities :
      /\ 7 \in d.applied => e.origin = IF e.ref \in made THEN "pipeline" ELSE "legacy"
      /\ 7 \notin d.applied /\ e.ref \in made =>
           e.ref \in d.pipelineMentions /\ ~CreatedByPromotion(d, e)
      /\ 7 \notin d.applied /\ e.ref \notin made /\ 2 \in d.applied => CreatedByPromotion(d, e)
      /\ 2 \notin d.applied => e.ref \notin made

\* An entity is one of its candidate ref in its scope until migration 2, and
\* one of its norm key from then on: the pipeline stores a resolution key
\* beside a promoted entity of that name, or one of another type.
KeysUnique(d) ==
    \A e, f \in d.entities :
      /\ e.ref = f.ref => e = f
      /\ 2 \notin d.applied /\ e.scope = f.scope /\ e.cand = f.cand => e = f
      /\ 2 \in d.applied /\ e.scope = f.scope /\ e.norm = f.norm => e = f

WellMigrated(d, made) ==
    /\ DOMAIN d = DOMAIN EmptyStore
    /\ \A e \in d.entities :
         /\ {"ref", "scope", "cand", "at", "norm", "origin"} \subseteq DOMAIN e
         /\ e.ref \in Int /\ e.at \in Int
    /\ \E k \in 0 .. Newest : d.applied = 1 .. k
    /\ d.schema = SchemaOf(d.applied)
    /\ KeysUnique(d) /\ OriginsKnown(d, made)

(***************************************************************************)
(* What the writes of a release leave of promotions, human decisions,      *)
(* artifact links and stage evidence.                                      *)
(***************************************************************************)
\* One evidence row per promotion and per human decision, with the cursors
\* from 1 on and the caller and proof of what it reports.
EvidenceExact(d) ==
    /\ {e.cursor : e \in d.evidence} = 1 .. d.cursor
    /\ \A e, f \in d.evidence : e.cursor = f.cursor \/ e.id = f.id => e = f
    /\ 5 \in d.applied =>
         {<<e.id, e.scope, e.proof, e.caller>> : e \in d.evidence}
           = {<<PromotionEvidence(p), p.scope, p.proof, p.caller>> : p \in d.promotions}
             \cup {<<DecisionEvidence(h), h.scope, h.proof, h.caller>> : h \in d.decisions}

Rows(d) == d.promotions \cup d.decisions \cup d.links

RowsShaped(d) ==
    /\ \A r \in Rows(d) : /\ {"scope", "version", "proof", "caller"} \subseteq DOMAIN r
                            /\ r.version \in 0 .. d.version
    /\ \A p \in d.promotions : {"key", "at"} \subseteq DOMAIN p /\ p.at \in Int
    /\ \A h \in d.decisions : {"id", "at"} \subseteq DOMAIN h /\ h.at \in Int
    /\ \A e \in d.evidence : {"id", "cursor", "scope", "proof", "caller"} \subseteq DOMAIN e
    /\ \A m \in d.mentions : {"id", "scope", "outcome"} \subseteq DOMAIN m

\* A promotion is one of its key in its scope, and a decision one of its id;
\* rows have no caller before migration 8.
WellKept(d) ==
    /\ d.version \in Nat /\ d.cursor \in Nat
    /\ IsFiniteSet(d.promotions) /\ IsFiniteSet(d.decisions)
    /\ RowsShaped(d)
    /\ \A p, q \in d.promotions : p.scope = q.scope /\ p.key = q.key => p = q
    /\ \A g, h \in d.decisions : g.scope = h.scope /\ g.id = h.id => g = h
    /\ 8 \notin d.applied => \A r \in Rows(d) : r.caller = Absent
    /\ 5 \notin d.applied => d.evidence = {}
    /\ EvidenceExact(d)
===============================================================================
