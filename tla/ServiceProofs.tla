---------------------------- MODULE ServiceProofs ----------------------------
(***************************************************************************)
(* How processes of several versions open one store: for any number of     *)
(* processes and clients, any plans and any crashes, each migration is     *)
(* applied once and in order, no open fails, and entities keep identity    *)
(* and origin.  Also the lemmas that ServiceSafetyProofs builds on: what   *)
(* the tools do to the store and its rows of evidence, what a page holds,   *)
(* whom a connection speaks for, and the parts of sequences.                *)
(***************************************************************************)
EXTENDS Service, FiniteSetTheorems, TLAPS

-----------------------------------------------------------------------------
(* The migrations. *)

Migration == 1 .. Newest

\* The files of the migrations, by number.
LEMMA ShippedFiles ==
  /\ shipped[1] = initialTables /\ shipped[2] = entityResolution
  /\ shipped[3] = pendingRelations /\ shipped[4] = humanResolution
  /\ shipped[5] = stageEvidence /\ shipped[6] = genesisrag17Pipeline
  /\ shipped[7] = pipelineOrigin /\ shipped[8] = callerColumns
  BY DEF shipped

\* What a migration creates: no two files create one thing.
Creates ==
  <<{"graph_state", "promotions", "entities", "relations", "artifact_links"},
    {"entity_mentions", "entities.norm_key"},
    {"pending_relations"},
    {"entities.superseded_by", "pending_relations.materialized_ref", "human_resolutions"},
    {"graph_state.evidence_cursor", "stage_evidence"},
    {"graph_state.pipeline_evidence_cursor", "pipeline_batches", "pipeline_mentions",
     "pipeline_receipts", "pipeline_graph_receipts", "pipeline_gates",
     "pipeline_publication_receipts", "pipeline_evidence"},
    {"entities.origin"},
    {"promotions.caller_id", "stage_evidence.caller_id", "human_resolutions.caller_id",
     "artifact_links.caller_id"}>>

\* What the migrations create, by number.
LEMMA CreatesOf == \A n \in Migration : shipped[n].creates = Creates[n]
<1>1. shipped[1].creates = Creates[1] /\ shipped[2].creates = Creates[2]
  BY ShippedFiles DEF Creates, initialTables, entityResolution
<1>2. shipped[3].creates = Creates[3] /\ shipped[4].creates = Creates[4]
  BY ShippedFiles DEF Creates, pendingRelations, humanResolution
<1>3. shipped[5].creates = Creates[5] /\ shipped[6].creates = Creates[6]
  BY ShippedFiles DEF Creates, stageEvidence, genesisrag17Pipeline
<1>4. shipped[7].creates = Creates[7] /\ shipped[8].creates = Creates[8]
  BY ShippedFiles DEF Creates, pipelineOrigin, callerColumns
<1>5. \A n \in Migration : n \in {1, 2, 3, 4, 5, 6, 7, 8}
  BY DEF Migration, Newest
<1> QED BY <1>1, <1>2, <1>3, <1>4, <1>5

\* No table or column is created by two migrations.
LEMMA NothingTwice ==
  \A m, n \in Migration : m < n => Creates[m] \cap Creates[n] = {}
<1> SUFFICES ASSUME NEW m \in Migration, NEW n \in Migration, m < n
             PROVE  Creates[m] \cap Creates[n] = {}
  OBVIOUS
<1>1. /\ m \in {1, 2, 3, 4, 5, 6, 7, 8} /\ n \in {1, 2, 3, 4, 5, 6, 7, 8}
  BY DEF Migration, Newest
<1> QED BY <1>1 DEF Creates

\* What it builds on is there by the migrations before it.
LEMMA NeedsMet ==
  \A n \in Migration : shipped[n].needs \subseteq UNION {Creates[m] : m \in 1 .. (n - 1)}
<1> USE ShippedFiles
<1> SUFFICES ASSUME NEW n \in Migration, NEW x \in shipped[n].needs
             PROVE  \E m \in 1 .. (n - 1) : x \in Creates[m]
  OBVIOUS
<1>1. n \in {1, 2, 3, 4, 5, 6, 7, 8}
  BY DEF Migration, Newest
<1>2. n = 1 \/ n = 3 => FALSE
  BY DEF initialTables, pendingRelations
<1>3. ASSUME n \in {2, 6} PROVE x \in Creates[1]
  BY <1>3 DEF entityResolution, genesisrag17Pipeline, Creates
<1>4. ASSUME n = 4 PROVE x \in Creates[1] \cup Creates[3]
  BY <1>4 DEF humanResolution, Creates
<1>5. ASSUME n = 5 PROVE x \in Creates[1] \cup Creates[4]
  BY <1>5 DEF stageEvidence, Creates
<1>6. ASSUME n = 7 PROVE x \in Creates[1] \cup Creates[2] \cup Creates[6]
  BY <1>6 DEF pipelineOrigin, Creates
<1>7. ASSUME n = 8 PROVE x \in Creates[1] \cup Creates[5] \cup Creates[4]
  BY <1>7 DEF callerColumns, Creates
<1> QED BY <1>1, <1>2, <1>3, <1>4, <1>5, <1>6, <1>7

\* So the next migration can run on a store the ones before it have left.
LEMMA NextCanRun ==
  ASSUME NEW d, NEW n \in Migration, d.applied = 1 .. (n - 1), d.schema = SchemaOf(d.applied)
  PROVE  CanRun(n, d)
<1>1. d.schema = UNION {Creates[m] : m \in 1 .. (n - 1)}
  BY CreatesOf DEF SchemaOf, Migration, Newest
<1>2. \A m \in 1 .. (n - 1) : m \in Migration /\ m < n
  BY DEF Migration, Newest
<1>3. shipped[n].creates \cap d.schema = {}
  BY <1>1, <1>2, CreatesOf, NothingTwice
<1> QED BY <1>1, <1>3, NeedsMet DEF CanRun

-----------------------------------------------------------------------------
(* What a migration does to the rows. *)

\* The fields of a store.
LEMMA StoreFields ==
  DOMAIN EmptyStore = {"applied", "schema", "entities", "mentions", "pipelineMentions",
                       "promotions", "decisions", "links", "evidence", "cursor", "version"}
  BY DEF EmptyStore

Identities(d) == {<<e.ref, e.scope, e.cand>> : e \in d.entities}

\* All but the second and the seventh leave the entities and what tells
\* their origin alone.
LEMMA MostLeaveEntities ==
  ASSUME NEW d, DOMAIN d = DOMAIN EmptyStore, NEW n \in Migration
  PROVE  LET r == Rewrite(n, d)
         IN  /\ DOMAIN r = DOMAIN EmptyStore /\ r.applied = d.applied /\ r.schema = d.schema
             /\ r.pipelineMentions = d.pipelineMentions
             /\ n \notin {2, 7} => r.entities = d.entities
             /\ n # 2 => r.mentions = d.mentions
<1>1. CASE n = 2
  <2> DEFINE es == {[e EXCEPT !.norm = BackfillKey(d, e)] : e \in d.entities}
             ms == {BackfillMention(d, e) : e \in d.entities}
  <2>1. Rewrite(n, d) = [d EXCEPT !.entities = es, !.mentions = ms]
    BY <1>1 DEF Rewrite, backfillEntityResolution
  <2> HIDE DEF es, ms
  <2> QED BY <1>1, <2>1, StoreFields
<1>2. CASE n = 5
  <2> DEFINE rows == Executions(d)
             order == CHOOSE f \in [rows -> 1 .. Cardinality(rows)] : IsBackfillOrder(f, rows)
             es == {[id |-> r.id, cursor |-> order[r], scope |-> r.scope,
                     proof |-> r.proof, caller |-> Absent] : r \in rows}
  <2>1. backfillStageEvidence(d) = [d EXCEPT !.evidence = es, !.cursor = Cardinality(rows)]
    BY DEF backfillStageEvidence
  <2>2. Rewrite(n, d) = backfillStageEvidence(d)
    BY <1>2 DEF Rewrite
  <2> HIDE DEF rows, order, es
  <2> QED BY <1>2, <2>1, <2>2, StoreFields
<1>3. CASE n = 7
  BY <1>3, StoreFields DEF Rewrite, pipelineEntityOrigin
<1>4. CASE n = 8
  <2> DEFINE ps == Attributed(d.promotions)
             hs == Attributed(d.decisions)
             ls == Attributed(d.links)
             es == Attributed(d.evidence)
  <2>1. Rewrite(n, d) = [d EXCEPT !.promotions = ps, !.decisions = hs, !.links = ls, !.evidence = es]
    BY <1>4 DEF Rewrite, callerAttribution
  <2> HIDE DEF ps, hs, ls, es
  <2> QED BY <1>4, <2>1, StoreFields
<1>5. CASE n \notin {2, 5, 7, 8}
  BY <1>5 DEF Rewrite
<1> QED BY <1>1, <1>2, <1>3, <1>4, <1>5

\* The rest of a migration is its own record.
LEMMA Recorded ==
  ASSUME NEW d, DOMAIN d = DOMAIN EmptyStore, NEW n \in Migration,
         d.applied = 1 .. (n - 1), d.schema = SchemaOf(d.applied)
  PROVE  LET r == Apply(n, d)
         IN  /\ DOMAIN r = DOMAIN EmptyStore
             /\ r.applied = 1 .. n /\ r.schema = SchemaOf(r.applied)
             /\ r.entities = Rewrite(n, d).entities
             /\ r.mentions = Rewrite(n, d).mentions
             /\ r.pipelineMentions = d.pipelineMentions
<1> DEFINE w == Rewrite(n, d)
<1>1. /\ DOMAIN w = DOMAIN EmptyStore /\ w.applied = d.applied /\ w.schema = d.schema
      /\ w.pipelineMentions = d.pipelineMentions
  BY MostLeaveEntities
<1>2. Apply(n, d) = [w EXCEPT !.applied = d.applied \cup {n},
                              !.schema = d.schema \cup shipped[n].creates]
  BY <1>1, StoreFields DEF Apply
<1>3. 1 .. (n - 1) \cup {n} = 1 .. n
  BY DEF Migration, Newest
<1>4. SchemaOf(1 .. n) = SchemaOf(1 .. (n - 1)) \cup shipped[n].creates
  BY <1>3 DEF SchemaOf
<1> HIDE DEF w
<1>5. /\ DOMAIN Apply(n, d) = DOMAIN EmptyStore
      /\ Apply(n, d).applied = 1 .. n /\ Apply(n, d).schema = SchemaOf(1 .. n)
      /\ Apply(n, d).entities = w.entities /\ Apply(n, d).mentions = w.mentions
      /\ Apply(n, d).pipelineMentions = d.pipelineMentions
  BY <1>1, <1>2, <1>3, <1>4, StoreFields
<1> QED BY <1>5 DEF w

EntitiesShaped(d) ==
  \A e \in d.entities :
    /\ {"ref", "scope", "cand", "at", "norm", "origin"} \subseteq DOMAIN e
    /\ e.ref \in Int /\ e.at \in Int

\* Of two entities of a scope with one norm_v1 key only the earlier one keeps
\* it plain, and a mention tells apart those that do not.
LEMMA BackfillKeysDiffer ==
  ASSUME NEW d, EntitiesShaped(d), NEW e \in d.entities, NEW f \in d.entities,
         e.scope = f.scope, BackfillKey(d, e) = BackfillKey(d, f),
         \A x, y \in d.entities : x.ref = y.ref \/ (x.scope = y.scope /\ x.cand = y.cand) => x = y
  PROVE  e = f
<1> DEFINE base(x) == NormOf[x.cand]
           id(x) == mentionId(x.scope, PromotionKeyOf(d, x), x.cand)
           taken(x) == \E y \in d.entities :
                         y.scope = x.scope /\ base(y) = base(x) /\ EarlierEntity(y, x)
<1>1. \A x \in {e, f} : BackfillKey(d, x) = IF taken(x) THEN <<base(x), id(x)>> ELSE <<base(x)>>
  BY DEF BackfillKey
<1>2. CASE taken(e) /\ taken(f)
  <2>1. id(e) = id(f)
    BY <1>1, <1>2
  <2>2. e.cand = f.cand
    BY <2>1 DEF mentionId
  <2> QED BY <2>2
<1>3. CASE ~taken(e) /\ ~taken(f)
  <2>1. base(e) = base(f)
    BY <1>1, <1>3
  <2>2. ~EarlierEntity(e, f) /\ ~EarlierEntity(f, e)
    BY <1>3, <2>1
  <2>3. e.ref = f.ref
    BY <2>2 DEF EarlierEntity, EntitiesShaped
  <2> QED BY <2>3
<1>4. CASE taken(e) # taken(f)
  BY <1>1, <1>4
<1> QED BY <1>2, <1>3, <1>4

\* The backfill of Stage 9 keeps who is who and tells all entities apart; what
\* it has told of their origin is that of the stores before pipelines.
LEMMA SecondKeeps ==
  ASSUME NEW d, NEW made, WellMigrated(d, made), d.applied = 1 .. 1
  PROVE  WellMigrated(Apply(2, d), made) /\ Identities(Apply(2, d)) = Identities(d)
<1> DEFINE r == Apply(2, d)
           New(e) == [e EXCEPT !.norm = BackfillKey(d, e)]
<1>0. DOMAIN d = DOMAIN EmptyStore /\ EntitiesShaped(d) /\ KeysUnique(d) /\ OriginsKnown(d, made)
      /\ d.schema = SchemaOf(d.applied)
  BY DEF WellMigrated, EntitiesShaped
<1>1. /\ DOMAIN r = DOMAIN EmptyStore /\ r.applied = 1 .. 2 /\ r.schema = SchemaOf(r.applied)
      /\ r.entities = Rewrite(2, d).entities /\ r.mentions = Rewrite(2, d).mentions
  BY <1>0, Recorded DEF Migration, Newest
<1>2. /\ r.entities = {New(e) : e \in d.entities}
      /\ r.mentions = {BackfillMention(d, e) : e \in d.entities}
  <2> DEFINE es == {[e EXCEPT !.norm = BackfillKey(d, e)] : e \in d.entities}
             ms == {BackfillMention(d, e) : e \in d.entities}
  <2>1. Rewrite(2, d) = [d EXCEPT !.entities = es, !.mentions = ms]
    BY DEF Rewrite, backfillEntityResolution
  <2> HIDE DEF es, ms
  <2>2. Rewrite(2, d).entities = es /\ Rewrite(2, d).mentions = ms
    BY <1>0, <2>1, StoreFields
  <2> QED BY <1>1, <2>2 DEF es, ms
<1>3. \A e \in d.entities :
        /\ DOMAIN New(e) = DOMAIN e /\ New(e).norm = BackfillKey(d, e)
        /\ New(e).ref = e.ref /\ New(e).scope = e.scope /\ New(e).cand = e.cand
        /\ New(e).at = e.at
  BY <1>0 DEF EntitiesShaped
<1> HIDE DEF r, New
<1>4. Identities(r) = Identities(d)
  BY <1>2, <1>3 DEF Identities
<1>5. EntitiesShaped(r)
  BY <1>0, <1>2, <1>3 DEF EntitiesShaped
<1>6. KeysUnique(r)
  <2> SUFFICES ASSUME NEW x \in d.entities, NEW y \in d.entities,
                      LET e == New(x)
                          f == New(y)
                      IN  e.ref = f.ref \/ (e.scope = f.scope /\ e.norm = f.norm)
               PROVE  x = y
    <3>1. 2 \in r.applied
      BY <1>1
    <3> QED BY <1>2, <3>1 DEF KeysUnique
  <2>0. 2 \notin d.applied
    OBVIOUS
  <2>1. \A u, v \in d.entities : u.ref = v.ref \/ (u.scope = v.scope /\ u.cand = v.cand) => u = v
    BY <1>0, <2>0 DEF KeysUnique
  <2> QED BY <1>0, <1>3, <2>1, BackfillKeysDiffer
<1>7. OriginsKnown(r, made)
  <2> SUFFICES ASSUME NEW e \in d.entities
               PROVE  CreatedByPromotion(r, New(e)) /\ New(e).ref \notin made
    <3>1. 7 \notin r.applied /\ 2 \in r.applied
      BY <1>1
    <3> QED BY <1>2, <3>1 DEF OriginsKnown
  <2>1. e.ref \notin made
    <3>1. 2 \notin d.applied
      OBVIOUS
    <3> QED BY <1>0, <3>1 DEF OriginsKnown
  <2>2. BackfillMention(d, e).ref = e.ref /\ BackfillMention(d, e).outcome = "CREATED"
    BY DEF BackfillMention
  <2> QED BY <1>2, <1>3, <2>1, <2>2 DEF CreatedByPromotion
<1>8. \E k \in 0 .. Newest : r.applied = 1 .. k
  BY <1>1 DEF Newest
<1> QED BY <1>1, <1>4, <1>5, <1>6, <1>7, <1>8 DEF WellMigrated, EntitiesShaped, r

\* The seventh writes down the origin that could be told until then.
LEMMA SeventhKeeps ==
  ASSUME NEW d, NEW made, WellMigrated(d, made), d.applied = 1 .. 6
  PROVE  WellMigrated(Apply(7, d), made) /\ Identities(Apply(7, d)) = Identities(d)
<1> DEFINE r == Apply(7, d)
           New(e) == [e EXCEPT !.origin = OriginOf(d, e)]
<1>0. DOMAIN d = DOMAIN EmptyStore /\ EntitiesShaped(d) /\ KeysUnique(d) /\ OriginsKnown(d, made)
      /\ d.schema = SchemaOf(d.applied)
  BY DEF WellMigrated, EntitiesShaped
<1>1. /\ DOMAIN r = DOMAIN EmptyStore /\ r.applied = 1 .. 7 /\ r.schema = SchemaOf(r.applied)
      /\ r.entities = Rewrite(7, d).entities
  BY <1>0, Recorded DEF Migration, Newest
<1>2. r.entities = {New(e) : e \in d.entities}
  <2> DEFINE es == {[e EXCEPT !.origin = OriginOf(d, e)] : e \in d.entities}
  <2>1. Rewrite(7, d) = [d EXCEPT !.entities = es]
    BY DEF Rewrite, pipelineEntityOrigin
  <2> HIDE DEF es
  <2>2. Rewrite(7, d).entities = es
    BY <1>0, <2>1, StoreFields
  <2> QED BY <1>1, <2>2 DEF es
<1>3. \A e \in d.entities :
        /\ DOMAIN New(e) = DOMAIN e /\ New(e).origin = OriginOf(d, e)
        /\ New(e).ref = e.ref /\ New(e).scope = e.scope /\ New(e).cand = e.cand
        /\ New(e).at = e.at /\ New(e).norm = e.norm
  BY <1>0 DEF EntitiesShaped
<1> HIDE DEF r, New
<1>4. Identities(r) = Identities(d)
  BY <1>2, <1>3 DEF Identities
<1>5. EntitiesShaped(r)
  BY <1>0, <1>2, <1>3 DEF EntitiesShaped
<1>6. KeysUnique(r)
  <2>1. 2 \in d.applied /\ 2 \in r.applied
    BY <1>1
  <2> QED BY <1>0, <1>2, <1>3, <2>1 DEF KeysUnique
<1>7. OriginsKnown(r, made)
  <2>1. 2 \in d.applied /\ 7 \notin d.applied /\ 2 \in r.applied /\ 7 \in r.applied
    BY <1>1
  <2>2. ASSUME NEW e \in d.entities
        PROVE  OriginOf(d, e) = IF e.ref \in made THEN "pipeline" ELSE "legacy"
    BY <1>0, <2>1 DEF OriginsKnown, OriginOf, CreatedByPromotion
  <2> QED BY <1>2, <1>3, <2>1, <2>2 DEF OriginsKnown
<1>8. \E k \in 0 .. Newest : r.applied = 1 .. k
  BY <1>1 DEF Newest
<1> QED BY <1>1, <1>4, <1>5, <1>6, <1>7, <1>8 DEF WellMigrated, EntitiesShaped, r

\* So does every migration, on a store as the ones before it have left it.
LEMMA MigrationKeeps ==
  ASSUME NEW d, NEW made, WellMigrated(d, made), NEW n \in Migration, d.applied = 1 .. (n - 1)
  PROVE  /\ WellMigrated(Apply(n, d), made) /\ Apply(n, d).applied = 1 .. n
         /\ Identities(Apply(n, d)) = Identities(d)
<1> DEFINE r == Apply(n, d)
<1>0. DOMAIN d = DOMAIN EmptyStore /\ EntitiesShaped(d) /\ KeysUnique(d) /\ OriginsKnown(d, made)
      /\ d.schema = SchemaOf(d.applied)
  BY DEF WellMigrated, EntitiesShaped
<1>1. /\ DOMAIN r = DOMAIN EmptyStore /\ r.applied = 1 .. n /\ r.schema = SchemaOf(r.applied)
      /\ r.entities = Rewrite(n, d).entities /\ r.mentions = Rewrite(n, d).mentions
      /\ r.pipelineMentions = d.pipelineMentions
  BY <1>0, Recorded
<1>2. CASE n = 2
  BY <1>1, <1>2, SecondKeeps
<1>3. CASE n = 7
  BY <1>1, <1>3, SeventhKeeps
<1>4. CASE n \notin {2, 7}
  <2>1. r.entities = d.entities /\ r.mentions = d.mentions
    BY <1>0, <1>1, <1>4, MostLeaveEntities
  <2>2. (2 \in r.applied <=> 2 \in d.applied) /\ (7 \in r.applied <=> 7 \in d.applied)
    BY <1>1, <1>4 DEF Migration, Newest
  <2> HIDE DEF r
  <2>3. KeysUnique(r)
    BY <1>0, <2>1, <2>2 DEF KeysUnique
  <2>4. OriginsKnown(r, made)
    BY <1>0, <1>1, <2>1, <2>2 DEF OriginsKnown, CreatedByPromotion
  <2>5. n \in 0 .. Newest
    BY DEF Migration, Newest
  <2> QED BY <1>0, <1>1, <2>1, <2>3, <2>4, <2>5 DEF WellMigrated, EntitiesShaped, Identities, r
<1> QED BY <1>2, <1>3, <1>4

-----------------------------------------------------------------------------
(* The processes.  What a process has read of the applied migrations stays  *)
(* true, and one that serves has found all of them.                         *)

ProcessOK(s, d) ==
  /\ {"mode", "ver", "listed"} \subseteq DOMAIN s
  /\ s.ver \in Migration
  /\ s.mode # "failed"
  /\ s.listed = Unread \/ s.listed \subseteq d.applied
  /\ s.mode \in {"serving", "stopping"} => d.applied = Migration

Spent == [opened : Nat, crashes : Nat]

OpenInv ==
  /\ \E i \in DOMAIN Plans : plan \in Plans[i]
  /\ DOMAIN srv = Server /\ spent \in Spent
  /\ WellMigrated(db, plan.made) /\ Identities(db) = Identities(plan.store)
  /\ \A p \in Server : ProcessOK(srv[p], db)

\* A behaviour starts well opened.
LEMMA InitOpen == Init => OpenInv
<1> SUFFICES ASSUME Init PROVE OpenInv
  OBVIOUS
<1>1. PICK i \in DOMAIN Plans : plan \in Plans[i]
  BY DEF Init
<1>2. WellMigrated(db, plan.made)
  BY <1>1, PlanAssumption DEF Init
<1>3. ProcessOK(NoProcess, db)
  BY DEF NoProcess, Process, ProcessOK, Migration, Newest
<1> QED BY <1>1, <1>2, <1>3 DEF Init, OpenInv, Spent

\* Steps that leave what a process is to the opening of the store alone, and
\* those that put a process in its place.
SameOpening(s, t) ==
  /\ {"mode", "ver", "listed"} \subseteq DOMAIN t
  /\ t.ver = s.ver /\ t.listed = s.listed
  /\ t.mode \in {s.mode, "closed", "off"} \/ (s.mode = "serving" /\ t.mode = "stopping")

SameRows(d, e) ==
  /\ DOMAIN e = DOMAIN d
  /\ e.applied = d.applied /\ e.schema = d.schema /\ e.entities = d.entities

\* What is right for every process stays so when one changes and no migration is lost.
LEMMA ProcessesKeep ==
  ASSUME OpenInv, plan' = plan, spent' \in Spent, NEW p, NEW s, srv' = [srv EXCEPT ![p] = s],
         p \in Server => ProcessOK(s, db'), db' = db \/ (7 \in db.applied /\ SameRows(db, db'))
  PROVE  OpenInv'
<1>1. DOMAIN srv' = Server /\ \A q \in Server : srv'[q] = IF q = p THEN s ELSE srv[q]
  BY DEF OpenInv
<1>2. db'.applied = db.applied
  BY DEF SameRows
<1>3. \A q \in Server : ProcessOK(srv'[q], db')
  BY <1>1, <1>2 DEF OpenInv, ProcessOK
<1>4. WellMigrated(db', plan.made) /\ Identities(db') = Identities(db)
  <2>1. CASE db' = db
    BY <2>1 DEF OpenInv
  <2>2. CASE 7 \in db.applied /\ SameRows(db, db')
    BY <2>2 DEF OpenInv, WellMigrated, KeysUnique, OriginsKnown, CreatedByPromotion, Identities, SameRows
  <2> QED BY <2>1, <2>2
<1> QED BY <1>1, <1>3, <1>4 DEF OpenInv

\* A step of one process that leaves the store alone.
LEMMA QuietKeeps ==
  ASSUME OpenInv, plan' = plan, spent' \in Spent, NEW p, NEW s, srv' = [srv EXCEPT ![p] = s],
         p \in Server => SameOpening(srv[p], s),
         db' = db \/ (7 \in db.applied /\ SameRows(db, db'))
  PROVE  OpenInv'
<1>1. db'.applied = db.applied
  BY DEF SameRows
<1>2. p \in Server => ProcessOK(s, db')
  BY <1>1 DEF OpenInv, ProcessOK, SameOpening
<1> QED BY <1>2, ProcessesKeep

\* No process is touched.
LEMMA StoreKeeps ==
  ASSUME OpenInv, plan' = plan, spent' \in Spent, srv' = srv, db' = db
  PROVE  OpenInv'
  BY DEF OpenInv

-----------------------------------------------------------------------------
(* Opening. *)

\* A new process is right for any store.
LEMMA NewProcess ==
  ASSUME NEW ver \in Migration, NEW http, NEW client, NEW since, NEW input, NEW eof, NEW d
  PROVE  ProcessOK(Started(Process(ver, http, client, since, input, eof)), d)
<1> DEFINE new == Process(ver, http, client, since, input, eof)
<1>1. /\ {"mode", "ver", "listed"} \subseteq DOMAIN new
      /\ new.ver = ver /\ new.listed = Unread /\ new.mode = "opening"
  BY DEF Process
<1> HIDE DEF new
<1>2. Started(new) \in {new, [new EXCEPT !.mode = "closed"]}
  BY DEF Started
<1>3. ProcessOK(Started(new), d)
  BY <1>1, <1>2 DEF ProcessOK
<1> QED BY <1>3 DEF new

\* The steps of opening that write nothing.
LEMMA OpeningKeeps ==
  ASSUME OpenInv, NEW p \in Server, Start(p) \/ ReadApplied(p) \/ Ready(p)
  PROVE  OpenInv'
<1>0. ProcessOK(srv[p], db) /\ plan' = plan /\ db' = db /\ spent' \in Spent
  <2>1. ProcessOK(srv[p], db) /\ plan' = plan /\ db' = db /\ spent \in Spent
    BY DEF OpenInv, Start, ReadApplied, Ready
  <2>2. spent' \in {spent, [spent EXCEPT !.opened = spent.opened + 1]}
    BY DEF Start, ReadApplied, Ready
  <2> QED BY <2>1, <2>2 DEF Spent
<1>1. CASE Start(p)
  <2> DEFINE o == plan.openers[spent.opened + 1]
             new == Started(Process(o.ver, o.http, Nobody, 0, o.stream, ~o.http))
  <2>1. spent.opened + 1 \in 1 .. Len(plan.openers)
    BY <1>1, PlanAssumption DEF Start, OpenInv, Spent
  <2>2. o.ver \in Migration
    BY <2>1, PlanAssumption DEF OpenInv, Migration
  <2>3. srv' = [srv EXCEPT ![p] = new]
    BY <1>1 DEF Start, Set
  <2>4. ProcessOK(new, db')
    BY <2>2, NewProcess
  <2> HIDE DEF new
  <2> QED BY <1>0, <2>3, <2>4, ProcessesKeep
<1>2. CASE ReadApplied(p)
  <2> DEFINE s == [srv[p] EXCEPT !.listed = db.applied,
                     !.mode = IF db.applied \subseteq 1 .. srv[p].ver THEN @ ELSE "closed"]
  <2>1. ProcessOK(s, db')
    BY <1>0, <1>2 DEF ProcessOK, ReadApplied
  <2>2. srv' = [srv EXCEPT ![p] = s]
    BY <1>2 DEF ReadApplied, Set
  <2> HIDE DEF s
  <2> QED BY <1>0, <2>1, <2>2, ProcessesKeep
<1>3. CASE Ready(p)
  <2> DEFINE mode == IF srv[p].ver = Newest THEN "serving" ELSE "closed"
             s == [srv[p] EXCEPT !.mode = mode]
  <2>1. srv[p].ver = Newest => db.applied = Migration
    <3>1. 1 .. srv[p].ver \subseteq db.applied
      BY <1>0, <1>3 DEF Ready, Remaining, ProcessOK
    <3>2. db.applied \subseteq Migration
      BY DEF OpenInv, WellMigrated, Migration, Newest
    <3> QED BY <3>1, <3>2 DEF Migration
  <2>2. ProcessOK(s, db')
    BY <1>0, <2>1 DEF ProcessOK
  <2>3. srv' = [srv EXCEPT ![p] = s]
    BY <1>3 DEF Ready, Set
  <2> HIDE DEF s
  <2> QED BY <1>0, <2>2, <2>3, ProcessesKeep
<1> QED BY <1>1, <1>2, <1>3

\* The least migration a process has not seen applied was applied by another
\* process, or is the next one.
LEMMA MigrateKeeps ==
  ASSUME OpenInv, NEW p \in Server, Migrate(p)
  PROVE  OpenInv'
<1>0. /\ ProcessOK(srv[p], db) /\ plan' = plan /\ spent' = spent
      /\ WellMigrated(db, plan.made)
  BY DEF OpenInv, Migrate
<1>1. PICK n \in Remaining(srv[p]) :
        /\ \A m \in Remaining(srv[p]) : n <= m
        /\ db' = IF Applicable(n, db) THEN Migrated(n, db) ELSE db
        /\ Set(p, IF Applicable(n, db) THEN [srv[p] EXCEPT !.listed = @ \cup {n}]
                  ELSE [srv[p] EXCEPT !.mode = "failed"])
  BY DEF Migrate
<1>2. srv[p].listed \subseteq db.applied
  BY <1>0 DEF Migrate, ProcessOK
<1>3. n \in Migration /\ n <= srv[p].ver
  BY <1>0 DEF Remaining, ProcessOK, Migration, Newest
<1>4. \A m \in 1 .. (n - 1) : m \in db.applied
  BY <1>0, <1>1, <1>2, <1>3 DEF Remaining, ProcessOK, Migration, Newest
<1>5. PICK k \in 0 .. Newest : db.applied = 1 .. k
  BY <1>0 DEF WellMigrated
<1>6. n \in db.applied \/ db.applied = 1 .. (n - 1)
  BY <1>3, <1>4, <1>5 DEF Migration, Newest
<1>7. Applicable(n, db)
  BY <1>0, <1>3, <1>6, NextCanRun DEF Applicable, WellMigrated
<1>8. /\ WellMigrated(db', plan.made) /\ Identities(db') = Identities(db)
      /\ db.applied \cup {n} \subseteq db'.applied /\ db'.applied \subseteq Migration
  <2>1. CASE n \in db.applied
    <3>1. db' = db
      BY <1>1, <1>7, <2>1 DEF Migrated
    <3>2. db.applied \subseteq Migration
      BY <1>5 DEF Migration, Newest
    <3> QED BY <1>0, <2>1, <3>1, <3>2
  <2>2. CASE n \notin db.applied
    <3>1. db' = Apply(n, db) /\ db.applied = 1 .. (n - 1)
      BY <1>1, <1>6, <1>7, <2>2 DEF Migrated
    <3>2. /\ WellMigrated(Apply(n, db), plan.made) /\ Apply(n, db).applied = 1 .. n
          /\ Identities(Apply(n, db)) = Identities(db)
      BY <1>0, <1>3, <3>1, MigrationKeeps
    <3>3. db.applied \cup {n} \subseteq 1 .. n /\ 1 .. n \subseteq Migration
      BY <1>3, <3>1 DEF Migration, Newest
    <3> QED BY <3>1, <3>2, <3>3
  <2> QED BY <2>1, <2>2
<1>9. srv' = [srv EXCEPT ![p] = [srv[p] EXCEPT !.listed = srv[p].listed \cup {n}]]
  BY <1>0, <1>1, <1>7 DEF Set, ProcessOK
<1>10. \A q \in Server : ProcessOK(srv'[q], db')
  <2>1. ASSUME NEW q \in Server, q # p PROVE ProcessOK(srv'[q], db')
    BY <1>8, <1>9, <2>1 DEF OpenInv, ProcessOK
  <2>2. ProcessOK(srv'[p], db')
    BY <1>0, <1>2, <1>8, <1>9 DEF OpenInv, ProcessOK
  <2> QED BY <2>1, <2>2
<1> QED BY <1>0, <1>8, <1>9, <1>10 DEF OpenInv

-----------------------------------------------------------------------------
(* Serving.  Whatever a tool writes, it leaves the entities, the applied    *)
(* migrations and the schema alone.                                        *)

\* Evidence is recorded apart from entities and migrations.
LEMMA EvidenceSameRows ==
  ASSUME NEW d, DOMAIN d = DOMAIN EmptyStore, NEW id, NEW scope, NEW caller
  PROVE  SameRows(d, recordStageEvidence(d, id, scope, caller))
<1> DEFINE rows == d.evidence \cup {[id |-> id, cursor |-> d.cursor + 1, scope |-> scope,
                                    proof |-> caller.namespace, caller |-> caller.callerId]}
           next == d.cursor + 1
<1>1. recordStageEvidence(d, id, scope, caller) = [d EXCEPT !.cursor = next, !.evidence = rows]
  BY StoreFields DEF recordStageEvidence
<1> HIDE DEF rows, next
<1> QED BY <1>1, StoreFields DEF SameRows

\* A promotion leaves entities and migrations.
LEMMA PromotionSameRows ==
  ASSUME NEW d, DOMAIN d = DOMAIN EmptyStore, NEW req, NEW caller
  PROVE  SameRows(d, transactPromotion(d, req, caller).db)
<1>1. ASSUME NEW row PROVE SameRows(d, insertPromotion(d, row, caller))
  <2> DEFINE w == recordStageEvidence(d, PromotionEvidence(row), row.scope, caller)
             version == w.version + 1
             rows == w.promotions \cup {row}
  <2>1. SameRows(d, w)
    BY EvidenceSameRows
  <2>2. insertPromotion(d, row, caller) = [w EXCEPT !.version = version, !.promotions = rows]
    BY <2>1, StoreFields DEF insertPromotion, SameRows
  <2> HIDE DEF w, version, rows
  <2> QED BY <2>1, <2>2, StoreFields DEF SameRows
<1>2. SameRows(d, d)
  BY DEF SameRows
<1>3. transactPromotion(d, req, caller).db = d
      \/ \E row : transactPromotion(d, req, caller).db = insertPromotion(d, row, caller)
  BY DEF transactPromotion
<1> QED BY <1>1, <1>2, <1>3

\* So does a human decision.
LEMMA DecisionSameRows ==
  ASSUME NEW d, DOMAIN d = DOMAIN EmptyStore, NEW req, NEW caller
  PROVE  SameRows(d, transactHumanResolution(d, req, caller).db)
<1> DEFINE ms == {m \in d.mentions : m.id = req.mention /\ VisibleIn(m.scope, req.scope)}
           es == {e \in d.entities : e.ref = req.ref /\ \A m \in ms : VisibleIn(e.scope, m.scope)}
           row == [id |-> <<req.mention, req.ref, caller.namespace>>, scope |-> req.scope,
                   at |-> d.version + 1, version |-> d.version + 1,
                   proof |-> caller.namespace, caller |-> caller.callerId]
           w == recordStageEvidence(d, DecisionEvidence(row), req.scope, caller)
           version == w.version + 1
           rows == w.decisions \cup {row}
           settled == (w.mentions \ ms) \cup
                        {[m EXCEPT !.outcome = "MATCHED", !.ref = req.ref] : m \in ms}
           new == [w EXCEPT !.version = version, !.decisions = rows, !.mentions = settled]
<1>1. SameRows(d, w)
  BY EvidenceSameRows
<1>2. transactHumanResolution(d, req, caller).db
        = IF es = {} \/ ~\E m \in ms : Unresolved(m) THEN d
          ELSE [w EXCEPT !.version = @ + 1, !.decisions = @ \cup {row},
                         !.mentions = (@ \ ms) \cup
                           {[m EXCEPT !.outcome = "MATCHED", !.ref = req.ref] : m \in ms}]
  BY DEF transactHumanResolution
<1>3. transactHumanResolution(d, req, caller).db \in {d, new}
  BY <1>1, <1>2, StoreFields DEF SameRows
<1> HIDE DEF w, version, rows, settled
<1>4. SameRows(d, new)
  BY <1>1, StoreFields DEF SameRows
<1>5. SameRows(d, d)
  BY DEF SameRows
<1> QED BY <1>3, <1>4, <1>5

\* So does a link.
LEMMA LinkSameRows ==
  ASSUME NEW d, DOMAIN d = DOMAIN EmptyStore, NEW req, NEW caller
  PROVE  SameRows(d, transactArtifactLink(d, req, caller).db)
<1>1. PICK version, rows : transactArtifactLink(d, req, caller).db
                             \in {d, [d EXCEPT !.version = version, !.links = rows]}
  <2> DEFINE row == [scope |-> req.scope, ref |-> req.ref, artifact |-> req.artifact,
                     version |-> d.version + 1, proof |-> caller.namespace,
                     caller |-> caller.callerId]
             version == d.version + 1
             rows == d.links \cup {row}
  <2>1. transactArtifactLink(d, req, caller).db \in {d, [d EXCEPT !.version = version, !.links = rows]}
    BY StoreFields DEF transactArtifactLink
  <2> QED BY <2>1
<1> QED BY <1>1, StoreFields DEF SameRows

\* So does whatever a handler does.
LEMMA HandlersSameRows ==
  ASSUME NEW d, DOMAIN d = DOMAIN EmptyStore, NEW req, NEW caller, NEW since
  PROVE  /\ SameRows(d, Dispatch(d, req, caller, since).db)
         /\ SameRows(d, HandleLater(d, req, caller, since).db)
<1>1. SameRows(d, d)
  BY DEF SameRows
<1>2. SameRows(d, Handle(d, req, caller, since).db)
  BY <1>1, DecisionSameRows, LinkSameRows DEF Handle, linkArtifact
<1>3. SameRows(d, Dispatch(d, req, caller, since).db)
  BY <1>1, <1>2 DEF Dispatch
<1>4. SameRows(d, HandleLater(d, req, caller, since).db)
  BY <1>1, PromotionSameRows DEF HandleLater
<1> QED BY <1>3, <1>4

\* So does a frame.
LEMMA FrameSameRows ==
  ASSUME DOMAIN db = DOMAIN EmptyStore, NEW s, NEW frame
  PROVE  SameRows(db, handleFrame(s, frame).db)
<1> DEFINE f == parseBoundedFrame(frame)
<1>1. handleFrame(s, frame).db = db
      \/ \E req, caller : handleFrame(s, frame).db = Dispatch(db, req, caller, s.since).db
  BY DEF handleFrame, handleRequest
<1>2. SameRows(db, db)
  BY DEF SameRows
<1> QED BY <1>1, <1>2, HandlersSameRows

\* A process that serves does so on a store of the newest version.
LEMMA ServesNewest ==
  ASSUME OpenInv, NEW p \in Server, NEW http, Serves(p, http)
  PROVE  /\ 7 \in db.applied /\ DOMAIN db = DOMAIN EmptyStore
         /\ {"mode", "ver", "listed"} \subseteq DOMAIN srv[p]
<1>1. ProcessOK(srv[p], db) /\ srv[p].mode \in {"serving", "stopping"}
  BY DEF OpenInv, Serves
<1>2. db.applied = Migration
  BY <1>1 DEF ProcessOK
<1>3. 7 \in Migration
  BY DEF Migration, Newest
<1>4. DOMAIN db = DOMAIN EmptyStore
  BY DEF OpenInv, WellMigrated
<1> QED BY <1>1, <1>2, <1>3, <1>4 DEF ProcessOK

\* The steps of stdio keep the store well opened.
LEMMA StdioKeeps ==
  ASSUME OpenInv, NEW p \in Server, Chunk(p) \/ Frame(p) \/ Settle(p) \/ EndOfInput(p)
  PROVE  OpenInv'
<1>1. /\ 7 \in db.applied /\ DOMAIN db = DOMAIN EmptyStore
      /\ {"mode", "ver", "listed"} \subseteq DOMAIN srv[p]
  BY ServesNewest DEF Chunk, Frame, Settle, EndOfInput
<1>2. plan' = plan /\ spent' \in Spent
  BY DEF OpenInv, Chunk, Frame, Settle, EndOfInput
<1>3. CASE Chunk(p)
  <2>1. PICK n : LET c == consumeChunk(srv[p].pending, srv[p].dropping, SubSeq(srv[p].input, 1, n))
                 IN  Set(p, [srv[p] EXCEPT
                       !.input = SubSeq(@, n + 1, Len(@)), !.frames = c.frames,
                       !.pending = c.pending, !.dropping = c.dropping])
    BY <1>3 DEF Chunk
  <2>2. PICK input, frames, pending, dropping :
          srv' = [srv EXCEPT ![p] = [srv[p] EXCEPT !.input = input, !.frames = frames,
                                       !.pending = pending, !.dropping = dropping]]
    <3> DEFINE c == consumeChunk(srv[p].pending, srv[p].dropping, SubSeq(srv[p].input, 1, n))
    <3>1. srv' = [srv EXCEPT ![p] = [srv[p] EXCEPT
                    !.input = SubSeq(srv[p].input, n + 1, Len(srv[p].input)), !.frames = c.frames,
                    !.pending = c.pending, !.dropping = c.dropping]]
      BY <2>1 DEF Set
    <3> QED BY <3>1
  <2> DEFINE s == [srv[p] EXCEPT !.input = input, !.frames = frames,
                                 !.pending = pending, !.dropping = dropping]
  <2>3. SameOpening(srv[p], s)
    BY <1>1 DEF SameOpening
  <2> HIDE DEF s
  <2>4. srv' = [srv EXCEPT ![p] = s] /\ db' = db
    BY <1>3, <2>2 DEF Chunk, s
  <2> QED BY <1>2, <2>3, <2>4, QuietKeeps
<1>4. CASE Frame(p)
  <2> DEFINE h == handleFrame(srv[p], Head(srv[p].frames))
  <2>1. SameRows(db, db')
    BY <1>1, <1>4, FrameSameRows DEF Frame, FrameHandled
  <2>2. PICK frames, tasks, out :
          srv' = [srv EXCEPT ![p] = [[srv[p] EXCEPT !.frames = frames] EXCEPT !.tasks = tasks, !.out = out]]
    BY <1>4 DEF Frame, FrameHandled, Set
  <2> DEFINE s == [[srv[p] EXCEPT !.frames = frames] EXCEPT !.tasks = tasks, !.out = out]
  <2>3. SameOpening(srv[p], s)
    BY <1>1 DEF SameOpening
  <2> HIDE DEF s
  <2>4. srv' = [srv EXCEPT ![p] = s]
    BY <2>2 DEF s
  <2> QED BY <1>1, <1>2, <2>1, <2>3, <2>4, QuietKeeps
<1>5. CASE Settle(p)
  <2>1. SameRows(db, db')
    <3>1. SameRows(db, db)
      BY DEF SameRows
    <3>2. \A t : SameRows(db, Finished(t, srv[p].since).db)
      BY <1>1, <3>1, HandlersSameRows DEF Finished
    <3> QED BY <1>5, <3>2 DEF Settle
  <2>2. PICK tasks, out : srv' = [srv EXCEPT ![p] = [srv[p] EXCEPT !.tasks = tasks, !.out = out]]
    BY <1>5 DEF Settle, Set
  <2> DEFINE s == [srv[p] EXCEPT !.tasks = tasks, !.out = out]
  <2>3. SameOpening(srv[p], s)
    BY <1>1 DEF SameOpening
  <2> HIDE DEF s
  <2>4. srv' = [srv EXCEPT ![p] = s]
    BY <2>2 DEF s
  <2> QED BY <1>1, <1>2, <2>1, <2>3, <2>4, QuietKeeps
<1>6. CASE EndOfInput(p)
  <2> DEFINE end == [srv[p] EXCEPT !.mode = "closed", !.pending = << >>]
  <2>1. SameOpening(srv[p], end)
    BY <1>1 DEF SameOpening
  <2>2. CASE Set(p, end) /\ UNCHANGED db
    <3> HIDE DEF end
    <3> QED BY <1>2, <2>1, <2>2, QuietKeeps DEF Set
  <2>3. CASE FrameHandled(p, end, [handleFrame(srv[p], srv[p].pending) EXCEPT !.tasks = << >>])
    <3> DEFINE h == handleFrame(srv[p], srv[p].pending)
    <3>1. SameRows(db, h.db)
      BY <1>1, FrameSameRows
    <3>2. "db" \in DOMAIN h
      BY DEF handleFrame, handleRequest
    <3>3. db' = h.db
      BY <2>3, <3>2 DEF FrameHandled
    <3>4. PICK tasks, out : srv' = [srv EXCEPT ![p] = [end EXCEPT !.tasks = tasks, !.out = out]]
      BY <2>3 DEF FrameHandled, Set
    <3> DEFINE s == [end EXCEPT !.tasks = tasks, !.out = out]
    <3> HIDE DEF end
    <3>5. SameOpening(srv[p], s)
      BY <2>1 DEF SameOpening
    <3> HIDE DEF s
    <3>6. srv' = [srv EXCEPT ![p] = s]
      BY <3>4 DEF s
    <3> QED BY <1>1, <1>2, <3>1, <3>3, <3>5, <3>6, QuietKeeps
  <2> QED BY <1>6, <2>2, <2>3 DEF EndOfInput
<1> QED BY <1>3, <1>4, <1>5, <1>6

\* So do those of HTTP.
LEMMA HttpKeeps ==
  ASSUME OpenInv, NEW p \in Server, NEW c, HttpRequest(p, c) \/ HttpSettle(p)
  PROVE  OpenInv'
<1>0. Serves(p, TRUE)
  BY DEF HttpRequest, HttpSettle
<1>1. /\ 7 \in db.applied /\ DOMAIN db = DOMAIN EmptyStore
      /\ {"mode", "ver", "listed"} \subseteq DOMAIN srv[p]
  BY <1>0, ServesNewest
<1>2. plan' = plan /\ spent' \in Spent
  BY DEF OpenInv, HttpRequest, HttpSettle
<1>3. SameRows(db, db')
  <2>1. \A t : SameRows(db, Finished(t, srv[p].since).db)
    <3>1. SameRows(db, db)
      BY DEF SameRows
    <3> QED BY <1>1, <3>1, HandlersSameRows DEF Finished
  <2>2. CASE HttpRequest(p, c)
    BY <1>1, <2>2, HandlersSameRows DEF HttpRequest, RequestHandled
  <2>3. CASE HttpSettle(p)
    BY <2>1, <2>3 DEF HttpSettle
  <2> QED BY <2>2, <2>3
<1>4. PICK tasks, since :
        srv' \in {[srv EXCEPT ![p] = [srv[p] EXCEPT !.tasks = tasks, !.since = since]],
                  [srv EXCEPT ![p] = [srv[p] EXCEPT !.tasks = tasks]]}
  BY DEF HttpRequest, RequestHandled, HttpSettle, Set
<1>5. \E s : srv' = [srv EXCEPT ![p] = s] /\ SameOpening(srv[p], s)
  BY <1>1, <1>4 DEF SameOpening
<1> QED BY <1>1, <1>2, <1>3, <1>5, QuietKeeps

\* A process that stops or ends keeps what it has read.
LEMMA EndKeeps ==
  ASSUME OpenInv, NEW p \in Server, Stop(p) \/ Stopped(p) \/ Terminate(p) \/ Crash(p)
  PROVE  OpenInv'
<1>1. PICK mode \in {"off", "stopping"} :
        /\ plan' = plan /\ db' = db /\ srv' = [srv EXCEPT ![p] = [srv[p] EXCEPT !.mode = mode]]
        /\ mode = "stopping" => srv[p].mode = "serving"
  <2>1. CASE Stop(p)
    BY <2>1 DEF Stop, Set
  <2>2. CASE Stopped(p) \/ Terminate(p) \/ Crash(p)
    BY <2>2 DEF Stopped, Terminate, Crash, Die, Set
  <2> QED BY <2>1, <2>2
<1> DEFINE s == [srv[p] EXCEPT !.mode = mode]
<1>2. spent' \in Spent
  <2>1. spent' \in {spent, [spent EXCEPT !.crashes = spent.crashes + 1]}
    BY DEF Stop, Stopped, Terminate, Crash
  <2> QED BY <2>1 DEF OpenInv, Spent
<1>3. SameOpening(srv[p], s)
  BY <1>1 DEF OpenInv, ProcessOK, SameOpening
<1>4. srv' = [srv EXCEPT ![p] = s]
  BY <1>1
<1> HIDE DEF s
<1> QED BY <1>1, <1>2, <1>3, <1>4, QuietKeeps

\* A client starts processes of the newest version, and writes to, closes and
\* kills its own.
LEMMA ClientKeeps ==
  ASSUME OpenInv, NEW c \in Client, ClientStep(c)
  PROVE  OpenInv'
<1> DEFINE p == cli[c].on
<1>1. plan' = plan /\ db' = db /\ spent' \in Spent
  BY DEF OpenInv, ClientStep, Call, SpawnFails, Hear, WriteFails, Timeout, Exited, KillChild, HttpDrop
<1>2. p \in Server => {"mode", "ver", "listed"} \subseteq DOMAIN srv[p]
  BY DEF OpenInv, ProcessOK
<1>3. CASE Call(c)
  <2>1. CASE UNCHANGED srv
    BY <1>1, <2>1, StoreKeeps
  <2>2. CASE \E q \in Server : Set(q, Started(Process(Newest, FALSE, c, cli[c].since,
                                                  encode("1", "initialize"), FALSE)))
    <3>1. PICK q, since, input :
            Set(q, Started(Process(Newest, FALSE, c, since, input, FALSE)))
      BY <2>2
    <3> DEFINE new == Started(Process(Newest, FALSE, c, since, input, FALSE))
    <3>2. Newest \in Migration
      BY DEF Migration, Newest
    <3>3. ProcessOK(new, db')
      BY <3>2, NewProcess
    <3> HIDE DEF new
    <3>4. srv' = [srv EXCEPT ![q] = new]
      BY <3>1 DEF Set, new
    <3> QED BY <1>1, <3>3, <3>4, ProcessesKeep
  <2> QED BY <1>3, <2>1, <2>2 DEF Call
<1>4. CASE Hear(c)
  <2>1. PICK out, input, eof :
          srv' \in {[srv EXCEPT ![p] = [srv[p] EXCEPT !.out = out, !.input = input]],
                    [srv EXCEPT ![p] = [srv[p] EXCEPT !.out = out, !.eof = eof]]}
    BY <1>4 DEF Hear, Set
  <2>2. \E s : srv' = [srv EXCEPT ![p] = s] /\ (p \in Server => SameOpening(srv[p], s))
    BY <1>2, <2>1 DEF SameOpening
  <2> QED BY <1>1, <2>2, QuietKeeps
<1>5. CASE Timeout(c) \/ KillChild(c)
  <2>1. srv' \in {[srv EXCEPT ![p] = [srv[p] EXCEPT !.eof = TRUE]],
                  [srv EXCEPT ![p] = [srv[p] EXCEPT !.killed = TRUE]]}
    BY <1>5 DEF Timeout, KillChild, Set
  <2>2. \E s : srv' = [srv EXCEPT ![p] = s] /\ (p \in Server => SameOpening(srv[p], s))
    BY <1>2, <2>1 DEF SameOpening
  <2> QED BY <1>1, <2>2, QuietKeeps
<1>6. CASE Exited(c) \/ HttpDrop(c) \/ SpawnFails(c) \/ WriteFails(c)
  BY <1>1, <1>6, StoreKeeps DEF Exited, HttpDrop, SpawnFails, WriteFails
<1> QED BY <1>3, <1>4, <1>5, <1>6 DEF ClientStep

\* So does every step.
LEMMA NextOpen == OpenInv /\ [Next]_vars => OpenInv'
<1> SUFFICES ASSUME OpenInv, [Next]_vars PROVE OpenInv'
  OBVIOUS
<1>1. ASSUME NEW p \in Server, ServerStep(p) PROVE OpenInv'
  <2>1. CASE Start(p) \/ ReadApplied(p) \/ Ready(p)
    BY <2>1, OpeningKeeps
  <2>2. CASE Migrate(p)
    BY <2>2, MigrateKeeps
  <2>3. CASE Chunk(p) \/ Frame(p) \/ Settle(p) \/ EndOfInput(p)
    BY <2>3, StdioKeeps
  <2>4. CASE (\E c \in Client : HttpRequest(p, c)) \/ HttpSettle(p)
    BY <2>4, HttpKeeps
  <2>5. CASE Stop(p) \/ Stopped(p) \/ Terminate(p) \/ Crash(p)
    BY <2>5, EndKeeps
  <2> QED BY <1>1, <2>1, <2>2, <2>3, <2>4, <2>5 DEF ServerStep
<1>2. ASSUME NEW c \in Client, ClientStep(c) PROVE OpenInv'
  BY <1>2, ClientKeeps
<1>3. ASSUME UNCHANGED vars PROVE OpenInv'
  BY <1>3, StoreKeeps DEF vars, OpenInv
<1> QED BY <1>1, <1>2, <1>3 DEF Next

\* Whatever processes of whatever versions open the store, wherever they crash
\* and whatever the ones that serve write meanwhile: migrations are applied once
\* and in order, no open fails because another one runs, who serves has found
\* everything, and entities keep identity and origin (runMigrations and its
\* hooks, packages/gks-persistence/src/index.mjs:57-138, 273-293).
THEOREM StoreMigrated == Spec => []StoreIsMigrated
<1>1. OpenInv => StoreIsMigrated
  <2> SUFFICES ASSUME OpenInv PROVE StoreIsMigrated
    OBVIOUS
  <2>1. AppliedInOrder
    BY DEF OpenInv, WellMigrated, AppliedInOrder
  <2>2. ServedIsComplete
    BY DEF OpenInv, WellMigrated, ProcessOK, ServedIsComplete, SchemaOf, Migration
  <2>3. OpensSucceed
    BY DEF OpenInv, ProcessOK, OpensSucceed
  <2>4. IdentitiesKept
    BY DEF OpenInv, WellMigrated, KeysUnique, Identities, IdentitiesKept
  <2>5. OriginsKept
    BY DEF OpenInv, WellMigrated, OriginsKnown, OriginsKept
  <2> QED BY <2>1, <2>2, <2>3, <2>4, <2>5 DEF StoreIsMigrated
<1> QED BY <1>1, InitOpen, NextOpen, PTL DEF Spec

-----------------------------------------------------------------------------
(* Ranks.  A strict order of a finite set numbers it from 1 on.             *)

StrictOrder(Before, S) ==
  /\ \A x \in S : <<x, x>> \notin Before
  /\ \A x, y, z \in S : <<x, y>> \in Before /\ <<y, z>> \in Before => <<x, z>> \in Before
  /\ \A x, y \in S : x # y => <<x, y>> \in Before \/ <<y, x>> \in Before

Upto(Before, S, x) == {y \in S : y = x \/ <<y, x>> \in Before}

Rank(Before, S) == [x \in S |-> Cardinality(Upto(Before, S, x))]

\* The rank of an element numbers a finite set in its order.
LEMMA RankNumbers ==
  ASSUME NEW S, IsFiniteSet(S), NEW Before, StrictOrder(Before, S)
  PROVE  /\ Cardinality(S) \in Nat
         /\ Rank(Before, S) \in [S -> 1 .. Cardinality(S)]
         /\ \A x, y \in S : <<x, y>> \in Before => Rank(Before, S)[x] < Rank(Before, S)[y]
         /\ \A x, y \in S : x # y => Rank(Before, S)[x] # Rank(Before, S)[y]
         /\ \A i \in 1 .. Cardinality(S) : \E x \in S : Rank(Before, S)[x] = i
<1> DEFINE f == Rank(Before, S)
           n == Cardinality(S)
<1>1. n \in Nat
  BY FS_CardinalityType
<1>2. ASSUME NEW x \in S
      PROVE  /\ IsFiniteSet(Upto(Before, S, x)) /\ f[x] = Cardinality(Upto(Before, S, x))
             /\ f[x] \in 1 .. n
  <2>1. Upto(Before, S, x) \in SUBSET S /\ x \in Upto(Before, S, x)
    BY DEF Upto
  <2>2. IsFiniteSet(Upto(Before, S, x)) /\ Cardinality(Upto(Before, S, x)) <= n
    BY <2>1, FS_Subset
  <2>3. Cardinality(Upto(Before, S, x)) \in Nat /\ Cardinality(Upto(Before, S, x)) # 0
    BY <2>1, <2>2, FS_CardinalityType, FS_EmptySet
  <2> QED BY <1>1, <2>2, <2>3 DEF Rank
<1>3. ASSUME NEW x \in S, NEW y \in S, <<x, y>> \in Before PROVE f[x] < f[y]
  <2>1. Upto(Before, S, x) \in SUBSET Upto(Before, S, y)
    BY <1>3 DEF Upto, StrictOrder
  <2>2. y \in Upto(Before, S, y) /\ y \notin Upto(Before, S, x)
    BY <1>3 DEF Upto, StrictOrder
  <2>3. f[x] <= f[y] /\ f[x] # f[y]
    BY <1>2, <2>1, <2>2, FS_Subset
  <2> QED BY <1>1, <1>2, <2>3
<1>4. ASSUME NEW x \in S, NEW y \in S, x # y PROVE f[x] # f[y]
  <2>1. <<x, y>> \in Before \/ <<y, x>> \in Before
    BY <1>4 DEF StrictOrder
  <2>2. f[x] < f[y] \/ f[y] < f[x]
    BY <1>3, <2>1
  <2>3. f[x] \in Int /\ f[y] \in Int
    BY <1>1, <1>2
  <2> HIDE DEF f
  <2> QED BY <2>2, <2>3
<1>5. f \in [S -> 1 .. n]
  BY <1>2 DEF Rank
<1>6. f \in Injection(S, 1 .. n)
  BY <1>4, <1>5 DEF Injection, IsInjective
<1>7. IsFiniteSet(1 .. n) /\ Cardinality(1 .. n) = n
  BY <1>1, FS_Interval
<1>8. f \in Surjection(S, 1 .. n)
  BY <1>6, <1>7, FS_Injection
<1>9. \A i \in 1 .. n : \E x \in S : f[x] = i
  BY <1>8 DEF Surjection
<1> QED BY <1>1, <1>3, <1>4, <1>5, <1>9

\* Executions of one time can be told apart, so that they can be numbered.
LEMMA BackfillOrderExists ==
  ASSUME NEW S, IsFiniteSet(S), \A r \in S : r.at \in Int
  PROVE  /\ Cardinality(S) \in Nat
         /\ \E f \in [S -> 1 .. Cardinality(S)] : IsBackfillOrder(f, S)
<1>1. PICK g : g \in Bijection(1 .. Cardinality(S), S)
  BY FS_CardinalityType DEF ExistsBijection
<1>2. Cardinality(S) \in Nat
  BY FS_CardinalityType
<1> DEFINE n == Cardinality(S)
           id == [r \in S |-> CHOOSE i \in 1 .. n : g[i] = r]
<1>3. \A r \in S : id[r] \in 1 .. n /\ g[id[r]] = r
  BY <1>1 DEF Bijection, Surjection
<1>4. \A r, s \in S : id[r] = id[s] => r = s
  BY <1>3
<1> DEFINE Before == {p \in S \X S : p[1].at < p[2].at
                                     \/ (p[1].at = p[2].at /\ id[p[1]] < id[p[2]])}
<1> HIDE DEF id, n
<1>5. \A r, s \in S : <<r, s>> \in Before <=> r.at < s.at \/ (r.at = s.at /\ id[r] < id[s])
  OBVIOUS
<1> HIDE DEF Before
<1>6. StrictOrder(Before, S)
  <2>1. \A r \in S : id[r] \in Int
    BY <1>2, <1>3 DEF n
  <2>2. \A r \in S : <<r, r>> \notin Before
    BY <1>5, <2>1
  <2>3. \A r, s \in S : r # s => <<r, s>> \in Before \/ <<s, r>> \in Before
    BY <1>4, <1>5, <2>1
  <2>4. \A r, s, t \in S : <<r, s>> \in Before /\ <<s, t>> \in Before => <<r, t>> \in Before
    BY <1>5, <2>1
  <2> QED BY <2>2, <2>3, <2>4 DEF StrictOrder
<1>7. Rank(Before, S) \in [S -> 1 .. Cardinality(S)] /\ IsBackfillOrder(Rank(Before, S), S)
  <2>1. /\ Rank(Before, S) \in [S -> 1 .. Cardinality(S)]
        /\ \A x, y \in S : <<x, y>> \in Before => Rank(Before, S)[x] < Rank(Before, S)[y]
        /\ \A x, y \in S : x # y => Rank(Before, S)[x] # Rank(Before, S)[y]
    BY <1>6, RankNumbers
  <2> QED BY <1>5, <2>1 DEF IsBackfillOrder
<1>8. \E f \in [S -> 1 .. Cardinality(S)] : IsBackfillOrder(f, S)
  BY <1>7, Zenon
<1> QED BY <1>2, <1>8

\* And then every number up to theirs is taken.
LEMMA BackfillOrderOnto ==
  ASSUME NEW S, IsFiniteSet(S), NEW f \in [S -> 1 .. Cardinality(S)], IsBackfillOrder(f, S)
  PROVE  {f[r] : r \in S} = 1 .. Cardinality(S)
<1>1. f \in Injection(S, 1 .. Cardinality(S))
  BY DEF Injection, IsInjective, IsBackfillOrder
<1>2. Cardinality(S) \in Nat
  BY FS_CardinalityType
<1>3. IsFiniteSet(1 .. Cardinality(S)) /\ Cardinality(1 .. Cardinality(S)) = Cardinality(S)
  BY <1>2, FS_Interval
<1>4. f \in Surjection(S, 1 .. Cardinality(S))
  BY <1>1, <1>3, FS_Injection
<1>5. \A i \in 1 .. Cardinality(S) : \E r \in S : f[r] = i
  BY <1>4 DEF Surjection
<1> QED BY <1>5

-----------------------------------------------------------------------------
(* What a tool writes: nothing, or a row of its own version with what       *)
(* reports it.                                                              *)

NewRow(d, e, row) ==
  /\ SameRows(d, e) /\ e.version = d.version + 1
  /\ {"scope", "version", "proof", "caller"} \subseteq DOMAIN row
  /\ row.version = d.version + 1

Reported(d, e, id, row) ==
  /\ e.cursor = d.cursor + 1
  /\ e.evidence = d.evidence \cup
       {[id |-> id, cursor |-> d.cursor + 1, scope |-> row.scope,
         proof |-> row.proof, caller |-> row.caller]}

Promoted(d, e, row) ==
  /\ NewRow(d, e, row) /\ Reported(d, e, PromotionEvidence(row), row)
  /\ {"key", "at"} \subseteq DOMAIN row /\ row.at = d.version + 1
  /\ \A p \in d.promotions : ~(p.scope = row.scope /\ p.key = row.key)
  /\ e.promotions = d.promotions \cup {row}
  /\ e.decisions = d.decisions /\ e.links = d.links /\ e.mentions = d.mentions

Chosen(m, row) == m.id = row.id[1] /\ VisibleIn(m.scope, row.scope)

Decided(d, e, row) ==
  /\ NewRow(d, e, row) /\ Reported(d, e, DecisionEvidence(row), row)
  /\ {"id", "at"} \subseteq DOMAIN row /\ row.at = d.version + 1
  /\ \E m \in d.mentions : Chosen(m, row) /\ Unresolved(m)
  /\ e.decisions = d.decisions \cup {row}
  /\ e.promotions = d.promotions /\ e.links = d.links
  /\ \A m \in e.mentions :
       \/ m \in d.mentions /\ ~Chosen(m, row)
       \/ {"id", "scope", "outcome"} \subseteq DOMAIN m /\ m.outcome = "MATCHED"

Linked(d, e, row) ==
  /\ NewRow(d, e, row)
  /\ e.links = d.links \cup {row}
  /\ e.promotions = d.promotions /\ e.decisions = d.decisions /\ e.mentions = d.mentions
  /\ e.evidence = d.evidence /\ e.cursor = d.cursor

Wrote(d, e, row) == Promoted(d, e, row) \/ Decided(d, e, row) \/ Linked(d, e, row)

\* The answer to a write names at most a row of the scope it was asked for.
WriteAnswer(answer, rows, scope) ==
  /\ answer # Later /\ answer.rows = {} /\ answer.next = 0
  /\ answer.row \subseteq {r \in rows : r.scope = scope}

Wrought(d, w, scope, caller) ==
  /\ WriteAnswer(w.answer, Rows(w.db), scope)
  /\ \/ w.db = d
     \/ \E row : /\ Wrote(d, w.db, row) /\ row.scope = scope
                 /\ row.caller = caller.callerId /\ row.proof = caller.namespace

\* No answer but one is the promise of a later one.
LEMMA Answers ==
  /\ \A code : /\ Answer(code).code = code /\ Answer(code).rows = {}
               /\ Answer(code).next = 0 /\ Answer(code).row = {}
  /\ \A row : /\ Done(row).code = "ok" /\ Done(row).rows = {}
              /\ Done(row).next = 0 /\ Done(row).row = {row}
  /\ Later.code = "later"
  BY DEF Answer, Done, Later

\* What a write is answered with.
LEMMA WriteAnswers ==
  ASSUME NEW rows, NEW scope
  PROVE  /\ \A code : code # "later" => WriteAnswer(Answer(code), rows, scope)
         /\ \A row \in rows : row.scope = scope => WriteAnswer(Done(row), rows, scope)
  BY Answers DEF WriteAnswer

\* A promotion writes one row and its evidence, finds its row, or is refused.
LEMMA PromotionEffect ==
  ASSUME NEW d, DOMAIN d = DOMAIN EmptyStore, NEW req, NEW caller
  PROVE  Wrought(d, transactPromotion(d, req, caller),
                 resolvePromotionScope(req, plan.env), caller)
<1> DEFINE scope == resolvePromotionScope(req, plan.env)
           existing == {p \in d.promotions : SamePromotion(p, scope, req)}
           row == [scope |-> scope, key |-> req.key, hash |-> req.hash, version |-> d.version + 1,
                   at |-> d.version + 1, proof |-> caller.namespace, caller |-> caller.callerId]
           w == transactPromotion(d, req, caller)
           old == CHOOSE p \in existing : TRUE
<1>1. w = IF existing # {}
          THEN [db |-> d, answer |-> IF old.hash = req.hash THEN Done(old) ELSE Answer("conflict")]
          ELSE [db |-> insertPromotion(d, row, caller), answer |-> Done(row)]
  BY DEF transactPromotion
<1>2. /\ row.scope = scope /\ row.key = req.key /\ row.version = d.version + 1
      /\ row.at = d.version + 1 /\ row.proof = caller.namespace /\ row.caller = caller.callerId
      /\ {"scope", "version", "proof", "caller", "key", "at"} \subseteq DOMAIN row
  OBVIOUS
<1> HIDE DEF w, row
<1>3. CASE existing # {}
  <2>1. old \in d.promotions /\ old.scope = scope
    BY <1>3 DEF SamePromotion
  <2>2. old \in Rows(d)
    BY <2>1 DEF Rows
  <2> HIDE DEF old
  <2>3. w.db = d /\ w.answer \in {Done(old), Answer("conflict")}
    BY <1>1, <1>3
  <2>4. WriteAnswer(w.answer, Rows(d), scope)
    BY <2>1, <2>2, <2>3, WriteAnswers
  <2> QED BY <2>3, <2>4 DEF Wrought, w
<1>4. CASE existing = {}
  <2>1. w.db = insertPromotion(d, row, caller) /\ w.answer = Done(row)
    BY <1>1, <1>4
  <2> DEFINE new == [id |-> PromotionEvidence(row), cursor |-> d.cursor + 1, scope |-> row.scope,
                     proof |-> row.proof, caller |-> row.caller]
             r == recordStageEvidence(d, PromotionEvidence(row), row.scope, caller)
             rows == d.evidence \cup {new}
             next == d.cursor + 1
             promotions == d.promotions \cup {row}
             version == d.version + 1
  <2>2. r = [d EXCEPT !.cursor = next, !.evidence = rows]
    BY <1>2, StoreFields DEF recordStageEvidence
  <2> HIDE DEF new, rows, next, r
  <2>3. /\ DOMAIN r = DOMAIN EmptyStore /\ r.cursor = next /\ r.evidence = rows
        /\ r.version = d.version /\ r.promotions = d.promotions /\ r.decisions = d.decisions
        /\ r.links = d.links /\ r.mentions = d.mentions /\ SameRows(d, r)
    BY <2>2, StoreFields DEF SameRows
  <2>4. insertPromotion(d, row, caller) = [r EXCEPT !.version = version, !.promotions = promotions]
    BY <2>3, StoreFields DEF insertPromotion, r
  <2> HIDE DEF version, promotions
  <2>5. /\ DOMAIN w.db = DOMAIN EmptyStore /\ w.db.cursor = next /\ w.db.evidence = rows
        /\ w.db.version = version /\ w.db.promotions = promotions /\ w.db.decisions = d.decisions
        /\ w.db.links = d.links /\ w.db.mentions = d.mentions
    BY <2>1, <2>3, <2>4, StoreFields
  <2>6. SameRows(d, w.db)
    BY PromotionSameRows DEF w
  <2>7. Reported(d, w.db, PromotionEvidence(row), row)
    BY <2>5 DEF Reported, next, rows, new
  <2>8. \A p \in d.promotions : ~(p.scope = row.scope /\ p.key = row.key)
    BY <1>2, <1>4 DEF SamePromotion
  <2>9. Promoted(d, w.db, row)
    BY <1>2, <2>5, <2>6, <2>7, <2>8 DEF Promoted, NewRow, version, promotions
  <2>10. row \in Rows(w.db)
    BY <2>5 DEF Rows, promotions
  <2>11. WriteAnswer(w.answer, Rows(w.db), scope)
    BY <1>2, <2>1, <2>10, WriteAnswers
  <2> QED BY <1>2, <2>9, <2>11 DEF Wrought, Wrote, w
<1> QED BY <1>3, <1>4

\* So does a human decision.
LEMMA DecisionEffect ==
  ASSUME NEW d, DOMAIN d = DOMAIN EmptyStore, RowsShaped(d), NEW req, NEW caller
  PROVE  Wrought(d, transactHumanResolution(d, req, caller), req.scope, caller)
<1> DEFINE ms == {m \in d.mentions : m.id = req.mention /\ VisibleIn(m.scope, req.scope)}
           es == {e \in d.entities : e.ref = req.ref /\ \A m \in ms : VisibleIn(e.scope, m.scope)}
           row == [id |-> <<req.mention, req.ref, caller.namespace>>, scope |-> req.scope,
                   at |-> d.version + 1, version |-> d.version + 1,
                   proof |-> caller.namespace, caller |-> caller.callerId]
           r == recordStageEvidence(d, DecisionEvidence(row), req.scope, caller)
           settled == (d.mentions \ ms) \cup
                        {[m EXCEPT !.outcome = "MATCHED", !.ref = req.ref] : m \in ms}
           w == transactHumanResolution(d, req, caller)
           refused == es = {} \/ ~\E m \in ms : Unresolved(m)
           version == d.version + 1
           decisions == d.decisions \cup {row}
<1>1. /\ row.scope = req.scope /\ row.id = <<req.mention, req.ref, caller.namespace>>
      /\ row.version = d.version + 1 /\ row.id[1] = req.mention
      /\ row.at = d.version + 1 /\ row.proof = caller.namespace /\ row.caller = caller.callerId
      /\ {"scope", "version", "proof", "caller", "id", "at"} \subseteq DOMAIN row
  OBVIOUS
<1>2. w = IF refused THEN [db |-> d, answer |-> Answer("conflict")]
          ELSE [db |-> [r EXCEPT
                        !.version = @ + 1,
                        !.decisions = @ \cup {row},
                        !.mentions = (@ \ ms) \cup
                          {[m EXCEPT !.outcome = "MATCHED", !.ref = req.ref] : m \in ms}],
              answer |-> Done(row)]
  BY DEF transactHumanResolution
<1> DEFINE new == [id |-> DecisionEvidence(row), cursor |-> d.cursor + 1, scope |-> row.scope,
                   proof |-> row.proof, caller |-> row.caller]
           rows == d.evidence \cup {new}
           next == d.cursor + 1
<1>3. r = [d EXCEPT !.cursor = next, !.evidence = rows]
  BY <1>1, StoreFields DEF recordStageEvidence
<1> HIDE DEF row, new, rows, next, r, w
<1>4. /\ DOMAIN r = DOMAIN EmptyStore /\ r.cursor = next /\ r.evidence = rows
      /\ r.version = d.version /\ r.promotions = d.promotions /\ r.decisions = d.decisions
      /\ r.links = d.links /\ r.mentions = d.mentions /\ SameRows(d, r)
  BY <1>3, StoreFields DEF SameRows
<1> DEFINE e == [r EXCEPT !.version = version, !.decisions = decisions, !.mentions = settled]
<1>5. w = IF refused THEN [db |-> d, answer |-> Answer("conflict")]
          ELSE [db |-> e, answer |-> Done(row)]
  BY <1>2, <1>4, StoreFields
<1> HIDE DEF version, decisions, settled
<1>6. /\ DOMAIN e = DOMAIN EmptyStore /\ e.cursor = next /\ e.evidence = rows
      /\ e.version = version /\ e.promotions = d.promotions /\ e.decisions = decisions
      /\ e.links = d.links /\ e.mentions = settled
  BY <1>4, StoreFields
<1> HIDE DEF e
<1>7. CASE refused
  <2>1. w.db = d /\ w.answer = Answer("conflict")
    BY <1>5, <1>7
  <2> QED BY <2>1, WriteAnswers DEF Wrought, w
<1>8. CASE ~refused
  <2>1. w.db = e /\ w.answer = Done(row)
    BY <1>5, <1>8
  <2>2. SameRows(d, w.db)
    BY DecisionSameRows DEF w
  <2>3. Reported(d, w.db, DecisionEvidence(row), row)
    BY <2>1, <1>6 DEF Reported, next, rows, new
  <2>4. \E m \in d.mentions : Chosen(m, row) /\ Unresolved(m)
    BY <1>1, <1>8 DEF Chosen
  <2>5. ASSUME NEW m \in settled
        PROVE  \/ m \in d.mentions /\ ~Chosen(m, row)
               \/ {"id", "scope", "outcome"} \subseteq DOMAIN m /\ m.outcome = "MATCHED"
    <3>1. CASE m \in d.mentions \ ms
      BY <1>1, <3>1 DEF Chosen
    <3>2. CASE \E n \in ms : m = [n EXCEPT !.outcome = "MATCHED", !.ref = req.ref]
      <4>1. PICK n \in ms : m = [n EXCEPT !.outcome = "MATCHED", !.ref = req.ref]
        BY <3>2
      <4>2. {"id", "scope", "outcome"} \subseteq DOMAIN n
        BY DEF RowsShaped
      <4> QED BY <4>1, <4>2
    <3> QED BY <3>1, <3>2 DEF settled
  <2>6. Decided(d, w.db, row)
    BY <1>1, <1>6, <2>1, <2>2, <2>3, <2>4, <2>5 DEF Decided, NewRow, version, decisions
  <2>7. row \in Rows(w.db)
    BY <1>6, <2>1 DEF Rows, decisions
  <2>8. WriteAnswer(w.answer, Rows(w.db), req.scope)
    BY <1>1, <2>1, <2>7, WriteAnswers
  <2> QED BY <1>1, <2>6, <2>8 DEF Wrought, Wrote, w
<1> QED BY <1>7, <1>8

\* A link writes one row without evidence, finds its row, or is refused.
LEMMA LinkEffect ==
  ASSUME NEW d, DOMAIN d = DOMAIN EmptyStore, NEW req, NEW caller
  PROVE  Wrought(d, linkArtifact(d, req, caller), req.scope, caller)
<1> DEFINE existing == {l \in d.links : /\ l.scope = req.scope /\ l.ref = req.ref
                                        /\ l.artifact = req.artifact}
           row == [scope |-> req.scope, ref |-> req.ref, artifact |-> req.artifact,
                   version |-> d.version + 1, proof |-> caller.namespace,
                   caller |-> caller.callerId]
           old == CHOOSE l \in existing : TRUE
           version == d.version + 1
           links == d.links \cup {row}
           e == [d EXCEPT !.version = version, !.links = links]
           w == transactArtifactLink(d, req, caller)
<1>1. w = IF existing # {} THEN [db |-> d, answer |-> Done(old)]
          ELSE [db |-> e, answer |-> Done(row)]
  BY StoreFields DEF transactArtifactLink
<1>2. /\ row.scope = req.scope /\ row.version = d.version + 1
      /\ row.proof = caller.namespace /\ row.caller = caller.callerId
      /\ {"scope", "version", "proof", "caller"} \subseteq DOMAIN row
  OBVIOUS
<1> HIDE DEF row, version, links, w
<1>3. /\ e.version = version /\ e.links = links /\ e.promotions = d.promotions
      /\ e.decisions = d.decisions /\ e.mentions = d.mentions
      /\ e.evidence = d.evidence /\ e.cursor = d.cursor
  BY StoreFields
<1> HIDE DEF e
<1>4. ASSUME existing # {} PROVE Wrought(d, w, req.scope, caller)
  <2>1. old \in d.links /\ old.scope = req.scope
    BY <1>4
  <2> HIDE DEF old
  <2>2. old \in Rows(d) /\ w.db = d /\ w.answer = Done(old)
    BY <1>1, <1>4, <2>1 DEF Rows
  <2>3. WriteAnswer(w.answer, Rows(d), req.scope)
    BY <2>1, <2>2, WriteAnswers
  <2> QED BY <2>2, <2>3 DEF Wrought
<1>5. ASSUME existing = {} PROVE Wrought(d, w, req.scope, caller)
  <2>1. w.db = e /\ w.answer = Done(row)
    BY <1>1, <1>5
  <2>2. SameRows(d, w.db)
    BY LinkSameRows DEF w
  <2>3. Linked(d, w.db, row)
    BY <1>2, <1>3, <2>1, <2>2 DEF Linked, NewRow, version, links
  <2>4. row \in Rows(w.db)
    BY <1>3, <2>1 DEF Rows, links
  <2>5. WriteAnswer(w.answer, Rows(w.db), req.scope)
    BY <1>2, <2>1, <2>4, WriteAnswers
  <2> QED BY <1>2, <2>3, <2>5 DEF Wrought, Wrote
<1>6. Wrought(d, w, req.scope, caller)
  BY <1>4, <1>5
<1>7. \/ linkArtifact(d, req, caller) = w
      \/ \E code \in {"invalid", "denied"} :
           linkArtifact(d, req, caller) = [db |-> d, answer |-> Answer(code)]
  BY DEF linkArtifact, w
<1>8. \A code \in {"invalid", "denied"} :
        Wrought(d, [db |-> d, answer |-> Answer(code)], req.scope, caller)
  BY WriteAnswers DEF Wrought
<1> QED BY <1>6, <1>7, <1>8

Silent(answer) == answer.rows = {} /\ answer.next = 0 /\ answer.row = {}

PromoteTool == "gks_knowledge_promote"

\* What a handler does up to its first await: nothing and an answer without a
\* row, nothing and a promise, or a write of the caller it was given.
Dispatched(d, w, req, caller, since) ==
  \/ w.db = d /\ w.answer # Later /\ Silent(w.answer)
  \/ w.db = d /\ w.answer = Later /\ req.tool = ExportTool /\ ~(since > d.cursor)
  \/ w.db = d /\ w.answer = Later /\ req.tool = PromoteTool /\ caller # Denied
  \/ /\ req.tool \in {"gks_review_apply", "gks_artifact_link"} /\ caller # Denied
     /\ Wrought(d, w, req.scope, caller)

\* What a request for a tool does up to its first await.
LEMMA DispatchEffect ==
  ASSUME NEW d, DOMAIN d = DOMAIN EmptyStore, RowsShaped(d), NEW req, NEW caller, NEW since
  PROVE  Dispatched(d, Dispatch(d, req, caller, since), req, caller, since)
<1> DEFINE w == Dispatch(d, req, caller, since)
<1>1. \A code : code # "later" => Answer(code) # Later /\ Silent(Answer(code))
  BY Answers DEF Silent
<1>2. CASE caller = Denied
  <2>1. w = [db |-> d, answer |-> Answer("denied")]
    BY <1>2 DEF Dispatch
  <2> QED BY <1>1, <2>1 DEF Dispatched
<1>3. CASE caller # Denied
  <2> DEFINE h == Handle(d, req, caller, since)
  <2>1. w = h
    BY <1>3 DEF Dispatch
  <2>2. CASE req.tool \in WriteTools /\ req.proof # caller.namespace
    <3>1. h = [db |-> d, answer |-> Answer("invalid")]
      BY <2>2 DEF Handle
    <3> QED BY <1>1, <2>1, <3>1 DEF Dispatched
  <2> DEFINE goes == ~(req.tool \in WriteTools /\ req.proof # caller.namespace)
             placed == ValidScope(resolvePromotionScope(req, plan.env))
  <2>3. CASE goes /\ req.tool = "gks_review_apply"
    <3>1. h = transactHumanResolution(d, req, caller)
      BY <2>3 DEF Handle
    <3>2. Wrought(d, transactHumanResolution(d, req, caller), req.scope, caller)
      BY DecisionEffect
    <3> QED BY <1>3, <2>1, <2>3, <3>1, <3>2 DEF Dispatched
  <2>4. CASE goes /\ req.tool = "gks_artifact_link"
    <3>1. h = linkArtifact(d, req, caller)
      BY <2>4 DEF Handle
    <3>2. Wrought(d, linkArtifact(d, req, caller), req.scope, caller)
      BY LinkEffect
    <3> QED BY <1>3, <2>1, <2>4, <3>1, <3>2 DEF Dispatched
  <2>5. CASE goes /\ req.tool = PromoteTool
    <3>1. h = [db |-> d, answer |-> IF placed THEN Later ELSE Answer("invalid")]
      BY <2>5 DEF Handle, PromoteTool
    <3> QED BY <1>1, <1>3, <2>1, <2>5, <3>1 DEF Dispatched
  <2>6. CASE goes /\ req.tool = ExportTool
    <3>1. h = [db |-> d, answer |-> BeginExport(d, since)]
      BY <2>6 DEF Handle, ExportTool
    <3>2. BeginExport(d, since) = IF since > d.cursor THEN Answer("invalid") ELSE Later
      BY DEF BeginExport
    <3> QED BY <1>1, <2>1, <2>6, <3>1, <3>2 DEF Dispatched
  <2>7. CASE goes /\ req.tool \notin {"gks_review_apply", "gks_artifact_link", PromoteTool, ExportTool}
    <3>1. h = [db |-> d, answer |-> Answer("ok")]
      BY <2>7 DEF Handle, PromoteTool
    <3> QED BY <1>1, <2>1, <3>1 DEF Dispatched
  <2> QED BY <2>2, <2>3, <2>4, <2>5, <2>6, <2>7
<1> QED BY <1>2, <1>3

\* What it does after it.
LEMMA LaterEffect ==
  ASSUME NEW d, DOMAIN d = DOMAIN EmptyStore, NEW req, NEW caller, NEW since
  PROVE  LET w == HandleLater(d, req, caller, since)
         IN  \/ req.tool = PromoteTool
                /\ Wrought(d, w, resolvePromotionScope(req, plan.env), caller)
             \/ /\ req.tool # PromoteTool
                /\ w.db = d /\ w.answer = exportStageEvidence(d, req, since)
<1>1. CASE req.tool = PromoteTool
  <2>1. HandleLater(d, req, caller, since) = transactPromotion(d, req, caller)
    BY <1>1 DEF HandleLater, PromoteTool
  <2> QED BY <1>1, <2>1, PromotionEffect
<1>2. CASE req.tool # PromoteTool
  <2>1. HandleLater(d, req, caller, since)
          = [db |-> d, answer |-> exportStageEvidence(d, req, since)]
    BY <1>2 DEF HandleLater, PromoteTool
  <2> QED BY <1>2, <2>1
<1> QED BY <1>1, <1>2

-----------------------------------------------------------------------------
(* Writes keep the tables well kept.                                        *)

Told(d) == {<<x.id, x.scope, x.proof, x.caller>> : x \in d.evidence}
Due5(d) == {<<PromotionEvidence(p), p.scope, p.proof, p.caller>> : p \in d.promotions}
           \cup {<<DecisionEvidence(h), h.scope, h.proof, h.caller>> : h \in d.decisions}

\* The parts of exact evidence.
LEMMA ExactParts ==
  ASSUME NEW d
  PROVE  EvidenceExact(d) <=>
           /\ {x.cursor : x \in d.evidence} = 1 .. d.cursor
           /\ \A x, y \in d.evidence : x.cursor = y.cursor \/ x.id = y.id => x = y
           /\ 5 \in d.applied => Told(d) = Due5(d)
  BY DEF EvidenceExact, Told, Due5

\* A report of something not reported before keeps the evidence exact.
LEMMA ReportKeeps ==
  ASSUME NEW d, NEW e, NEW id, NEW row, EvidenceExact(d), d.cursor \in Nat,
         Reported(d, e, id, row), e.applied = d.applied,
         \A x \in d.evidence : x.id # id,
         5 \in d.applied => Due5(e) = Due5(d) \cup {<<id, row.scope, row.proof, row.caller>>}
  PROVE  EvidenceExact(e)
<1> DEFINE new == [id |-> id, cursor |-> d.cursor + 1, scope |-> row.scope,
                   proof |-> row.proof, caller |-> row.caller]
<1>1. e.cursor = d.cursor + 1 /\ e.evidence = d.evidence \cup {new}
  BY DEF Reported
<1>2. /\ new.id = id /\ new.cursor = d.cursor + 1 /\ new.scope = row.scope
      /\ new.proof = row.proof /\ new.caller = row.caller
  OBVIOUS
<1> HIDE DEF new
<1>3. /\ {x.cursor : x \in d.evidence} = 1 .. d.cursor
      /\ \A x, y \in d.evidence : x.cursor = y.cursor \/ x.id = y.id => x = y
      /\ 5 \in d.applied => Told(d) = Due5(d)
  BY ExactParts
<1>4. \A x \in d.evidence : x.cursor \in 1 .. d.cursor
  BY <1>3
<1>5. {x.cursor : x \in e.evidence} = {x.cursor : x \in d.evidence} \cup {d.cursor + 1}
  BY <1>1, <1>2
<1>6. {x.cursor : x \in e.evidence} = 1 .. e.cursor
  BY <1>1, <1>3, <1>5
<1>7. \A x, y \in e.evidence : x.cursor = y.cursor \/ x.id = y.id => x = y
  BY <1>1, <1>2, <1>3, <1>4
<1>8. Told(e) = Told(d) \cup {<<id, row.scope, row.proof, row.caller>>}
  BY <1>1, <1>2 DEF Told
<1> QED BY <1>3, <1>6, <1>7, <1>8, ExactParts

\* A write keeps the tables well kept and mentions settled.
LEMMA WroteKeeps ==
  ASSUME NEW d, NEW e, NEW row, WellKept(d), Settled(d), {5, 8} \subseteq d.applied,
         Wrote(d, e, row)
  PROVE  WellKept(e) /\ Settled(e)
<1>1. NewRow(d, e, row)
  BY DEF Wrote, Promoted, Decided, Linked
<1>2. /\ e.applied = d.applied /\ e.version = d.version + 1 /\ row.version = d.version + 1
      /\ {"scope", "version", "proof", "caller"} \subseteq DOMAIN row
  BY <1>1 DEF NewRow, SameRows
<1>3. d.version \in Nat /\ d.cursor \in Nat /\ RowsShaped(d) /\ EvidenceExact(d)
  BY DEF WellKept
<1>4. e.version \in Nat /\ 0 .. d.version \subseteq 0 .. e.version /\ row.version \in 0 .. e.version
  BY <1>2, <1>3
<1>6. \A y \in d.evidence : <<y.id, y.scope, y.proof, y.caller>> \in Due5(d)
  <2>1. Told(d) = Due5(d)
    BY <1>3, ExactParts
  <2>2. \A y \in d.evidence : <<y.id, y.scope, y.proof, y.caller>> \in Told(d)
    BY DEF Told
  <2> QED BY <2>1, <2>2
<1>7. ASSUME NEW y \in d.evidence
      PROVE  \/ \E p \in d.promotions : y.id = PromotionEvidence(p)
             \/ \E h \in d.decisions : y.id = DecisionEvidence(h)
  <2>1. <<y.id, y.scope, y.proof, y.caller>> \in Due5(d)
    BY <1>6
  <2>2. CASE \E p \in d.promotions : <<y.id, y.scope, y.proof, y.caller>>
                                       = <<PromotionEvidence(p), p.scope, p.proof, p.caller>>
    BY <2>2
  <2>3. CASE \E h \in d.decisions : <<y.id, y.scope, y.proof, y.caller>>
                                      = <<DecisionEvidence(h), h.scope, h.proof, h.caller>>
    BY <2>3
  <2> QED BY <2>1, <2>2, <2>3 DEF Due5
<1>8. CASE Promoted(d, e, row)
  <2>1. /\ e.promotions = d.promotions \cup {row} /\ e.decisions = d.decisions
        /\ e.links = d.links /\ e.mentions = d.mentions
        /\ {"key", "at"} \subseteq DOMAIN row /\ row.at = d.version + 1
        /\ \A p \in d.promotions : ~(p.scope = row.scope /\ p.key = row.key)
        /\ Reported(d, e, PromotionEvidence(row), row)
    BY <1>8 DEF Promoted
  <2>2. \A y \in d.evidence : y.id # PromotionEvidence(row)
    BY <1>7, <2>1 DEF PromotionEvidence, DecisionEvidence
  <2>3. Due5(e) = Due5(d) \cup {<<PromotionEvidence(row), row.scope, row.proof, row.caller>>}
    BY <2>1 DEF Due5
  <2>4. EvidenceExact(e)
    BY <1>2, <1>3, <2>1, <2>2, <2>3, ReportKeeps
  <2>5. e.cursor \in Nat /\ \A x \in e.evidence : {"id", "cursor", "scope", "proof", "caller"} \subseteq DOMAIN x
    BY <1>3, <2>1 DEF Reported, RowsShaped
  <2>6. RowsShaped(e)
    <3>1. \A r \in Rows(e) : /\ {"scope", "version", "proof", "caller"} \subseteq DOMAIN r
                             /\ r.version \in 0 .. e.version
      BY <1>2, <1>3, <1>4, <2>1 DEF RowsShaped, Rows
    <3>2. \A p \in e.promotions : {"key", "at"} \subseteq DOMAIN p /\ p.at \in Int
      BY <1>3, <2>1 DEF RowsShaped
    <3> QED BY <1>3, <2>1, <2>5, <3>1, <3>2 DEF RowsShaped
  <2>7. IsFiniteSet(e.promotions) /\ IsFiniteSet(e.decisions)
    BY <2>1, FS_AddElement DEF WellKept
  <2>8. \A p, q \in e.promotions : p.scope = q.scope /\ p.key = q.key => p = q
    BY <2>1 DEF WellKept
  <2>9. \A g, h \in e.decisions : g.scope = h.scope /\ g.id = h.id => g = h
    BY <2>1 DEF WellKept
  <2>10. Settled(e)
    BY <2>1 DEF Settled
  <2> QED BY <1>2, <1>4, <2>4, <2>5, <2>6, <2>7, <2>8, <2>9, <2>10 DEF WellKept
<1>9. CASE Decided(d, e, row)
  <2>1. /\ e.decisions = d.decisions \cup {row} /\ e.promotions = d.promotions
        /\ e.links = d.links
        /\ {"id", "at"} \subseteq DOMAIN row /\ row.at = d.version + 1
        /\ \E m \in d.mentions : Chosen(m, row) /\ Unresolved(m)
        /\ Reported(d, e, DecisionEvidence(row), row)
        /\ \A m \in e.mentions :
             \/ m \in d.mentions /\ ~Chosen(m, row)
             \/ {"id", "scope", "outcome"} \subseteq DOMAIN m /\ m.outcome = "MATCHED"
    BY <1>9 DEF Decided
  <2>2. \A h \in d.decisions : ~(h.scope = row.scope /\ h.id = row.id)
    BY <2>1 DEF Settled, Chosen
  <2>3. \A y \in d.evidence : y.id # DecisionEvidence(row)
    BY <1>7, <2>2 DEF PromotionEvidence, DecisionEvidence
  <2>4. Due5(e) = Due5(d) \cup {<<DecisionEvidence(row), row.scope, row.proof, row.caller>>}
    BY <2>1 DEF Due5
  <2>5. EvidenceExact(e)
    BY <1>2, <1>3, <2>1, <2>3, <2>4, ReportKeeps
  <2>6. e.cursor \in Nat /\ \A x \in e.evidence : {"id", "cursor", "scope", "proof", "caller"} \subseteq DOMAIN x
    BY <1>3, <2>1 DEF Reported, RowsShaped
  <2>7. RowsShaped(e)
    <3>1. \A r \in Rows(e) : /\ {"scope", "version", "proof", "caller"} \subseteq DOMAIN r
                             /\ r.version \in 0 .. e.version
      BY <1>2, <1>3, <1>4, <2>1 DEF RowsShaped, Rows
    <3>2. \A h \in e.decisions : {"id", "at"} \subseteq DOMAIN h /\ h.at \in Int
      BY <1>3, <2>1 DEF RowsShaped
    <3>3. \A m \in e.mentions : {"id", "scope", "outcome"} \subseteq DOMAIN m
      BY <1>3, <2>1 DEF RowsShaped
    <3> QED BY <1>3, <2>1, <2>6, <3>1, <3>2, <3>3 DEF RowsShaped
  <2>8. IsFiniteSet(e.promotions) /\ IsFiniteSet(e.decisions)
    BY <2>1, FS_AddElement DEF WellKept
  <2>9. \A p, q \in e.promotions : p.scope = q.scope /\ p.key = q.key => p = q
    BY <2>1 DEF WellKept
  <2>10. \A g, h \in e.decisions : g.scope = h.scope /\ g.id = h.id => g = h
    BY <2>1, <2>2 DEF WellKept
  <2>11. Settled(e)
    <3> SUFFICES ASSUME NEW h \in e.decisions, NEW m \in e.mentions,
                        m.id = h.id[1], VisibleIn(m.scope, h.scope)
                 PROVE  ~Unresolved(m)
      BY DEF Settled
    <3>1. CASE m.outcome = "MATCHED"
      BY <3>1 DEF Unresolved
    <3>2. CASE m \in d.mentions /\ ~Chosen(m, row)
      BY <2>1, <3>2 DEF Settled, Chosen
    <3> QED BY <2>1, <3>1, <3>2
  <2> QED BY <1>2, <1>4, <2>5, <2>6, <2>7, <2>8, <2>9, <2>10, <2>11 DEF WellKept
<1>10. CASE Linked(d, e, row)
  <2>1. /\ e.links = d.links \cup {row} /\ e.promotions = d.promotions
        /\ e.decisions = d.decisions /\ e.mentions = d.mentions
        /\ e.evidence = d.evidence /\ e.cursor = d.cursor
    BY <1>10 DEF Linked
  <2>2. RowsShaped(e)
    <3>1. \A r \in Rows(e) : /\ {"scope", "version", "proof", "caller"} \subseteq DOMAIN r
                             /\ r.version \in 0 .. e.version
      BY <1>2, <1>3, <1>4, <2>1 DEF RowsShaped, Rows
    <3> QED BY <1>3, <2>1, <3>1 DEF RowsShaped
  <2>3. EvidenceExact(e) /\ Settled(e)
    BY <1>2, <1>3, <2>1 DEF EvidenceExact, Settled
  <2> QED BY <1>2, <1>4, <2>1, <2>2, <2>3 DEF WellKept
<1> QED BY <1>8, <1>9, <1>10 DEF Wrote

-----------------------------------------------------------------------------
(* So do migrations, on a store as the ones before them have left it.       *)

RowTables == {"mentions", "promotions", "decisions", "links", "evidence", "cursor", "version"}

AppliedAs(n, d, r) ==
  /\ DOMAIN r = DOMAIN EmptyStore /\ r.applied = 1 .. n
  /\ \A table \in RowTables : r[table] = Rewrite(n, d)[table]

\* A migration records itself and leaves what its hook does to the rows.
LEMMA AppliedRows ==
  ASSUME NEW d, DOMAIN d = DOMAIN EmptyStore, NEW n \in Migration,
         d.applied = 1 .. (n - 1), d.schema = SchemaOf(d.applied)
  PROVE  AppliedAs(n, d, Apply(n, d))
<1> DEFINE w == Rewrite(n, d)
           applied == w.applied \cup {n}
           schema == w.schema \cup shipped[n].creates
<1>1. DOMAIN w = DOMAIN EmptyStore
  BY MostLeaveEntities
<1>2. Apply(n, d) = [w EXCEPT !.applied = applied, !.schema = schema]
  BY <1>1, StoreFields DEF Apply
<1>3. DOMAIN Apply(n, d) = DOMAIN EmptyStore /\ Apply(n, d).applied = 1 .. n
  BY Recorded
<1> HIDE DEF w, applied, schema
<1>4. \A table \in RowTables : Apply(n, d)[table] = w[table]
  BY <1>1, <1>2, StoreFields DEF RowTables
<1> QED BY <1>3, <1>4 DEF w, AppliedAs

\* A store whose rows are those of another is as well kept.
LEMMA SameTables ==
  ASSUME NEW d, NEW e, WellKept(d), \A table \in RowTables \ {"mentions"} : e[table] = d[table],
         5 \in e.applied <=> 5 \in d.applied, 8 \in e.applied <=> 8 \in d.applied,
         \A m \in e.mentions : {"id", "scope", "outcome"} \subseteq DOMAIN m
  PROVE  WellKept(e)
<1>1. /\ e.promotions = d.promotions /\ e.decisions = d.decisions /\ e.links = d.links
      /\ e.evidence = d.evidence /\ e.cursor = d.cursor /\ e.version = d.version
  BY DEF RowTables
<1>2. EvidenceExact(e)
  BY <1>1 DEF WellKept, EvidenceExact
<1>3. RowsShaped(e)
  BY <1>1 DEF WellKept, RowsShaped, Rows
<1>4. Rows(e) = Rows(d)
  BY <1>1 DEF Rows
<1> QED BY <1>1, <1>2, <1>3, <1>4 DEF WellKept

\* The backfill of Stage 9 stores nothing but decided mentions.
LEMMA MentionsBackfilled ==
  ASSUME NEW d, DOMAIN d = DOMAIN EmptyStore, d.applied = 1 .. 1,
         d.schema = SchemaOf(d.applied), WellKept(d)
  PROVE  WellKept(Apply(2, d)) /\ Settled(Apply(2, d))
<1> DEFINE r == Apply(2, d)
           es == {[e EXCEPT !.norm = BackfillKey(d, e)] : e \in d.entities}
           ms == {BackfillMention(d, e) : e \in d.entities}
           w == Rewrite(2, d)
<1>0. 2 \in Migration /\ d.applied = 1 .. (2 - 1)
  BY DEF Migration, Newest
<1>1. r.applied = 1 .. 2 /\ \A table \in RowTables : r[table] = w[table]
  <2>1. AppliedAs(2, d, Apply(2, d))
    BY <1>0, AppliedRows
  <2> QED BY <2>1 DEF AppliedAs
<1>2. w = [d EXCEPT !.entities = es, !.mentions = ms]
  BY DEF Rewrite, backfillEntityResolution
<1>3. \A m \in ms : {"id", "scope", "outcome"} \subseteq DOMAIN m /\ m.outcome = "CREATED"
  BY DEF BackfillMention
<1> HIDE DEF es, ms, w, r
<1>4. w.mentions = ms /\ \A table \in RowTables \ {"mentions"} : w[table] = d[table]
  BY <1>2, StoreFields DEF RowTables
<1>5. r.mentions = ms /\ \A table \in RowTables \ {"mentions"} : r[table] = d[table]
  BY <1>1, <1>4 DEF RowTables
<1>6. /\ 5 \in r.applied <=> 5 \in d.applied
      /\ 8 \in r.applied <=> 8 \in d.applied
  BY <1>1
<1>7. WellKept(r)
  BY <1>3, <1>5, <1>6, SameTables
<1>8. Settled(r)
  BY <1>3, <1>5 DEF Settled, Unresolved
<1> QED BY <1>7, <1>8 DEF r

PromotionRun(p) == [id |-> PromotionEvidence(p), scope |-> p.scope, at |-> p.at, proof |-> p.proof]
DecisionRun(h) == [id |-> DecisionEvidence(h), scope |-> h.scope, at |-> h.at, proof |-> h.proof]

\* The executions a backfill reports.
LEMMA ExecutionsAre ==
  ASSUME NEW d
  PROVE  Executions(d) = {PromotionRun(p) : p \in d.promotions} \cup {DecisionRun(h) : h \in d.decisions}
  BY DEF Executions, PromotionRun, DecisionRun

\* The executions of a store are finitely many, and their ids differ.
LEMMA ExecutionsCount ==
  ASSUME NEW d, WellKept(d)
  PROVE  /\ IsFiniteSet(Executions(d))
         /\ \A r \in Executions(d) : r.at \in Int
         /\ \A r, s \in Executions(d) : r.id = s.id => r = s
<1> DEFINE ps == {PromotionRun(p) : p \in d.promotions}
           hs == {DecisionRun(h) : h \in d.decisions}
           f == [p \in d.promotions |-> PromotionRun(p)]
           g == [h \in d.decisions |-> DecisionRun(h)]
<1>1. IsFiniteSet(ps)
  <2>1. f \in Surjection(d.promotions, ps)
    BY DEF Surjection
  <2> QED BY <2>1, FS_Surjection DEF WellKept
<1>2. IsFiniteSet(hs)
  <2>1. g \in Surjection(d.decisions, hs)
    BY DEF Surjection
  <2> QED BY <2>1, FS_Surjection DEF WellKept
<1>3. IsFiniteSet(Executions(d))
  BY <1>1, <1>2, FS_Union, ExecutionsAre
<1>4. ASSUME NEW r \in Executions(d)
      PROVE  \/ \E p \in d.promotions : r = PromotionRun(p)
             \/ \E h \in d.decisions : r = DecisionRun(h)
  BY ExecutionsAre
<1>5. ASSUME NEW r \in Executions(d) PROVE r.at \in Int
  BY <1>4 DEF WellKept, RowsShaped, PromotionRun, DecisionRun
<1>6. ASSUME NEW r \in Executions(d), NEW s \in Executions(d), r.id = s.id PROVE r = s
  <2>1. CASE \E p \in d.promotions, q \in d.promotions : r = PromotionRun(p) /\ s = PromotionRun(q)
    <3>1. PICK p \in d.promotions, q \in d.promotions : r = PromotionRun(p) /\ s = PromotionRun(q)
      BY <2>1
    <3>2. PromotionEvidence(p) = PromotionEvidence(q)
      BY <1>6, <3>1 DEF PromotionRun
    <3>3. p.scope = q.scope /\ p.key = q.key
      BY <3>2 DEF PromotionEvidence
    <3> QED BY <3>1, <3>3 DEF WellKept
  <2>2. CASE \E p \in d.decisions, q \in d.decisions : r = DecisionRun(p) /\ s = DecisionRun(q)
    <3>1. PICK p \in d.decisions, q \in d.decisions : r = DecisionRun(p) /\ s = DecisionRun(q)
      BY <2>2
    <3>2. DecisionEvidence(p) = DecisionEvidence(q)
      BY <1>6, <3>1 DEF DecisionRun
    <3>3. p.scope = q.scope /\ p.id = q.id
      BY <3>2 DEF DecisionEvidence
    <3> QED BY <3>1, <3>3 DEF WellKept
  <2>3. \A p, h : PromotionRun(p).id # DecisionRun(h).id
    BY DEF PromotionRun, DecisionRun, PromotionEvidence, DecisionEvidence
  <2> QED BY <1>4, <1>6, <2>1, <2>2, <2>3
<1> QED BY <1>3, <1>5, <1>6

\* The backfill of stage evidence reports each of them once, in an order.
LEMMA EvidenceBackfilled ==
  ASSUME NEW d, DOMAIN d = DOMAIN EmptyStore, d.applied = 1 .. 4,
         d.schema = SchemaOf(d.applied), WellKept(d), Settled(d)
  PROVE  WellKept(Apply(5, d)) /\ Settled(Apply(5, d))
<1> DEFINE e == Apply(5, d)
           w == Rewrite(5, d)
           rows == Executions(d)
           n == Cardinality(rows)
           order == CHOOSE f \in [rows -> 1 .. n] : IsBackfillOrder(f, rows)
           Row(r) == [id |-> r.id, cursor |-> order[r], scope |-> r.scope,
                      proof |-> r.proof, caller |-> Absent]
           es == {Row(r) : r \in rows}
<1>0. 5 \in Migration /\ d.applied = 1 .. (5 - 1)
  <2>1. 5 \in Migration /\ 5 - 1 = 4
    BY DEF Migration, Newest
  <2> QED BY <2>1
<1>1. e.applied = 1 .. 5 /\ \A table \in RowTables : e[table] = w[table]
  <2>1. ASSUME NEW m \in Migration, m = 5
        PROVE  /\ Apply(m, d).applied = 1 .. m
               /\ \A table \in RowTables : Apply(m, d)[table] = Rewrite(m, d)[table]
    <3> HIDE DEF e, w, rows, n, order, Row, es
    <3>1. d.applied = 1 .. (m - 1)
      BY <1>0, <2>1
    <3>2. AppliedAs(m, d, Apply(m, d))
      BY <3>1, AppliedRows
    <3> QED BY <3>2 DEF AppliedAs
  <2> QED BY <1>0, <2>1
<1>2. w = [d EXCEPT !.evidence = es, !.cursor = n]
  BY DEF Rewrite, backfillStageEvidence
<1>3. n \in Nat /\ order \in [rows -> 1 .. n] /\ IsBackfillOrder(order, rows)
  BY ExecutionsCount, BackfillOrderExists
<1>4. {order[r] : r \in rows} = 1 .. n
  BY <1>3, ExecutionsCount, BackfillOrderOnto
<1>5. \A r \in rows : /\ Row(r).id = r.id /\ Row(r).cursor = order[r] /\ Row(r).scope = r.scope
                      /\ Row(r).proof = r.proof /\ Row(r).caller = Absent
                      /\ {"id", "cursor", "scope", "proof", "caller"} \subseteq DOMAIN Row(r)
  OBVIOUS
<1>6. \A r, s \in rows : order[r] = order[s] \/ r.id = s.id => r = s
  BY <1>3, ExecutionsCount DEF IsBackfillOrder
<1> HIDE DEF order, n, Row, w, e
<1>7. /\ e.evidence = es /\ e.cursor = n /\ e.promotions = d.promotions
      /\ e.decisions = d.decisions /\ e.links = d.links /\ e.mentions = d.mentions
      /\ e.version = d.version
  <2>1. w.evidence = es /\ w.cursor = n /\ w.promotions = d.promotions
        /\ w.decisions = d.decisions /\ w.links = d.links /\ w.mentions = d.mentions
        /\ w.version = d.version
    <3> HIDE DEF es
    <3> QED BY <1>2, StoreFields
  <2> QED BY <1>1, <2>1 DEF RowTables
<1>8. {x.cursor : x \in e.evidence} = 1 .. e.cursor
  <2>1. {x.cursor : x \in es} = {order[r] : r \in rows}
    BY <1>5
  <2> QED BY <1>4, <1>7, <2>1
<1>9. \A x, y \in e.evidence : x.cursor = y.cursor \/ x.id = y.id => x = y
  BY <1>5, <1>6, <1>7
<1>10. \A r \in Rows(d) : r.caller = Absent
  BY <1>0 DEF WellKept
<1>11. Told(e) = {<<r.id, r.scope, r.proof, Absent>> : r \in rows}
  BY <1>5, <1>7 DEF Told
<1>12. Due5(e) = {<<r.id, r.scope, r.proof, Absent>> : r \in rows}
  <2> DEFINE T(r) == <<r.id, r.scope, r.proof, Absent>>
  <2>1. \A p \in d.promotions : <<PromotionEvidence(p), p.scope, p.proof, p.caller>> = T(PromotionRun(p))
    BY <1>10 DEF Rows, PromotionRun
  <2>2. \A h \in d.decisions : <<DecisionEvidence(h), h.scope, h.proof, h.caller>> = T(DecisionRun(h))
    BY <1>10 DEF Rows, DecisionRun
  <2> HIDE DEF T
  <2>3. Due5(e) = {T(PromotionRun(p)) : p \in d.promotions} \cup {T(DecisionRun(h)) : h \in d.decisions}
    BY <1>7, <2>1, <2>2 DEF Due5
  <2>4. {T(r) : r \in rows} = {T(PromotionRun(p)) : p \in d.promotions} \cup {T(DecisionRun(h)) : h \in d.decisions}
    BY ExecutionsAre
  <2>5. Due5(e) = {T(r) : r \in rows}
    BY <2>3, <2>4
  <2> QED BY <2>5 DEF T
<1>13. EvidenceExact(e)
  BY <1>8, <1>9, <1>11, <1>12, ExactParts
<1>14. RowsShaped(e)
  <2>1. Rows(e) = Rows(d)
    BY <1>7 DEF Rows
  <2> QED BY <1>5, <1>7, <2>1 DEF WellKept, RowsShaped
<1>15. WellKept(e)
  <2>1. Rows(e) = Rows(d)
    BY <1>7 DEF Rows
  <2>2. 5 \in e.applied
    BY <1>1
  <2> QED BY <1>3, <1>7, <1>10, <1>13, <1>14, <2>1, <2>2 DEF WellKept
<1>16. Settled(e)
  BY <1>7 DEF Settled
<1> QED BY <1>15, <1>16 DEF e

\* The attribution of rows to MSP gives a row and its evidence one caller.
LEMMA CallersAttributed ==
  ASSUME NEW d, DOMAIN d = DOMAIN EmptyStore, NEW n \in Migration, n = 8, d.applied = 1 .. (n - 1),
         d.schema = SchemaOf(d.applied), WellKept(d), Settled(d)
  PROVE  WellKept(Apply(n, d)) /\ Settled(Apply(n, d))
<1>0. /\ Apply(n, d).applied = 1 .. n
      /\ \A table \in RowTables : Apply(n, d)[table] = Rewrite(n, d)[table]
  <2>1. AppliedAs(n, d, Apply(n, d))
    BY AppliedRows
  <2> QED BY <2>1 DEF AppliedAs
<1> DEFINE e == Apply(n, d)
           w == Rewrite(n, d)
           A(r) == [r EXCEPT !.caller = MspRuntime]
           ps == {A(p) : p \in d.promotions}
           hs == {A(h) : h \in d.decisions}
           ls == {A(l) : l \in d.links}
           es == {A(x) : x \in d.evidence}
<1>1. e.applied = 1 .. n /\ \A table \in RowTables : e[table] = w[table]
  BY <1>0
<1>2. w = [d EXCEPT !.promotions = ps, !.decisions = hs, !.links = ls, !.evidence = es]
  BY DEF Rewrite, callerAttribution, Attributed
<1>3. \A r : "caller" \in DOMAIN r => A(r).caller = MspRuntime
  OBVIOUS
<1>4. \A r : /\ DOMAIN A(r) = DOMAIN r
             /\ \A part \in {"scope", "version", "proof", "key", "at", "id", "cursor"} :
                  A(r)[part] = r[part] \/ part \notin DOMAIN r
  OBVIOUS
<1> HIDE DEF A, w, e
<1>5. /\ e.promotions = ps /\ e.decisions = hs /\ e.links = ls /\ e.evidence = es
      /\ e.mentions = d.mentions /\ e.cursor = d.cursor /\ e.version = d.version
  <2>1. w.promotions = ps /\ w.decisions = hs /\ w.links = ls /\ w.evidence = es
        /\ w.mentions = d.mentions /\ w.cursor = d.cursor /\ w.version = d.version
    <3> HIDE DEF ps, hs, ls, es
    <3> QED BY <1>2, StoreFields
  <2> QED BY <1>1, <2>1 DEF RowTables
<1>6. RowsShaped(d) /\ d.version \in Nat /\ d.cursor \in Nat
  BY DEF WellKept
<1>7. ASSUME NEW r \in Rows(d)
      PROVE  /\ DOMAIN A(r) = DOMAIN r /\ A(r).scope = r.scope /\ A(r).version = r.version
             /\ A(r).proof = r.proof /\ A(r).caller = MspRuntime
             /\ {"scope", "version", "proof", "caller"} \subseteq DOMAIN r
             /\ r.version \in 0 .. d.version
  BY <1>3, <1>4, <1>6 DEF RowsShaped
<1>8. ASSUME NEW p \in d.promotions
      PROVE  A(p).key = p.key /\ A(p).at = p.at /\ {"key", "at"} \subseteq DOMAIN p /\ p.at \in Int
  BY <1>4, <1>6 DEF RowsShaped
<1>9. ASSUME NEW h \in d.decisions
      PROVE  A(h).id = h.id /\ A(h).at = h.at /\ {"id", "at"} \subseteq DOMAIN h /\ h.at \in Int
  BY <1>4, <1>6 DEF RowsShaped
<1>10. ASSUME NEW x \in d.evidence
       PROVE  /\ DOMAIN A(x) = DOMAIN x /\ A(x).scope = x.scope /\ A(x).cursor = x.cursor
              /\ A(x).id = x.id /\ A(x).proof = x.proof /\ A(x).caller = MspRuntime
              /\ {"id", "cursor", "scope", "proof", "caller"} \subseteq DOMAIN x
  BY <1>3, <1>4, <1>6 DEF RowsShaped
<1>11. d.promotions \subseteq Rows(d) /\ d.decisions \subseteq Rows(d) /\ d.links \subseteq Rows(d)
  BY DEF Rows
<1>12. \A r \in Rows(d) : r.caller = Absent
  <2>1. 8 \notin d.applied
    BY DEF Migration, Newest
  <2> QED BY <2>1 DEF WellKept
<1>13. 5 \in d.applied
  BY DEF Migration, Newest
<1>14. 5 \in e.applied /\ 8 \in e.applied
  BY <1>1
<1>15. {x.cursor : x \in e.evidence} = 1 .. e.cursor
  <2>1. {x.cursor : x \in es} = {x.cursor : x \in d.evidence}
    BY <1>10
  <2> QED BY <1>5, <2>1 DEF WellKept, EvidenceExact
<1>16. \A x, y \in e.evidence : x.cursor = y.cursor \/ x.id = y.id => x = y
  <2>1. \A x, y \in d.evidence : x.cursor = y.cursor \/ x.id = y.id => x = y
    BY DEF WellKept, EvidenceExact
  <2> QED BY <1>5, <1>10, <2>1
<1>17. Told(e) = Due5(e)
  <2>1. Told(d) = Due5(d)
    BY <1>13, ExactParts DEF WellKept
  <2>2. ASSUME NEW x \in d.evidence
        PROVE  \/ \E p \in d.promotions :
                    x.id = PromotionEvidence(p) /\ x.scope = p.scope /\ x.proof = p.proof
               \/ \E h \in d.decisions :
                    x.id = DecisionEvidence(h) /\ x.scope = h.scope /\ x.proof = h.proof
    <3>1. <<x.id, x.scope, x.proof, x.caller>> \in Due5(d)
      BY <2>1 DEF Told
    <3> QED BY <3>1 DEF Due5
  <2>3. ASSUME NEW p \in d.promotions
        PROVE  \E x \in d.evidence :
                 x.id = PromotionEvidence(p) /\ x.scope = p.scope /\ x.proof = p.proof
    <3>1. <<PromotionEvidence(p), p.scope, p.proof, p.caller>> \in Told(d)
      BY <2>1 DEF Due5
    <3> QED BY <3>1 DEF Told
  <2>4. ASSUME NEW h \in d.decisions
        PROVE  \E x \in d.evidence :
                 x.id = DecisionEvidence(h) /\ x.scope = h.scope /\ x.proof = h.proof
    <3>1. <<DecisionEvidence(h), h.scope, h.proof, h.caller>> \in Told(d)
      BY <2>1 DEF Due5
    <3> QED BY <3>1 DEF Told
  <2>5. Told(e) = {<<x.id, x.scope, x.proof, MspRuntime>> : x \in d.evidence}
    BY <1>5, <1>10 DEF Told
  <2>6. \A p \in d.promotions :
          <<PromotionEvidence(A(p)), A(p).scope, A(p).proof, A(p).caller>>
            = <<PromotionEvidence(p), p.scope, p.proof, MspRuntime>>
    BY <1>7, <1>8, <1>11 DEF PromotionEvidence
  <2>7. \A h \in d.decisions :
          <<DecisionEvidence(A(h)), A(h).scope, A(h).proof, A(h).caller>>
            = <<DecisionEvidence(h), h.scope, h.proof, MspRuntime>>
    BY <1>7, <1>9, <1>11 DEF DecisionEvidence
  <2>8. Due5(e) = {<<PromotionEvidence(p), p.scope, p.proof, MspRuntime>> : p \in d.promotions}
                  \cup {<<DecisionEvidence(h), h.scope, h.proof, MspRuntime>> : h \in d.decisions}
    BY <1>5, <2>6, <2>7 DEF Due5
  <2> QED BY <2>2, <2>3, <2>4, <2>5, <2>8
<1>18. EvidenceExact(e)
  BY <1>15, <1>16, <1>17, ExactParts
<1>19. RowsShaped(e)
  <2>1. \A r \in Rows(e) : /\ {"scope", "version", "proof", "caller"} \subseteq DOMAIN r
                           /\ r.version \in 0 .. e.version
    BY <1>5, <1>7, <1>11 DEF Rows
  <2>2. \A p \in e.promotions : {"key", "at"} \subseteq DOMAIN p /\ p.at \in Int
    BY <1>5, <1>7, <1>8, <1>11
  <2>3. \A h \in e.decisions : {"id", "at"} \subseteq DOMAIN h /\ h.at \in Int
    BY <1>5, <1>7, <1>9, <1>11
  <2>4. \A x \in e.evidence : {"id", "cursor", "scope", "proof", "caller"} \subseteq DOMAIN x
    BY <1>5, <1>10
  <2> QED BY <1>5, <1>6, <2>1, <2>2, <2>3, <2>4 DEF RowsShaped
<1>20. IsFiniteSet(e.promotions) /\ IsFiniteSet(e.decisions)
  <2>1. [p \in d.promotions |-> A(p)] \in Surjection(d.promotions, ps)
    BY DEF Surjection
  <2>2. [h \in d.decisions |-> A(h)] \in Surjection(d.decisions, hs)
    BY DEF Surjection
  <2> QED BY <1>5, <2>1, <2>2, FS_Surjection DEF WellKept
<1>21. /\ \A p, q \in e.promotions : p.scope = q.scope /\ p.key = q.key => p = q
       /\ \A g, h \in e.decisions : g.scope = h.scope /\ g.id = h.id => g = h
  <2>1. /\ \A p, q \in d.promotions : p.scope = q.scope /\ p.key = q.key => p = q
        /\ \A g, h \in d.decisions : g.scope = h.scope /\ g.id = h.id => g = h
    BY DEF WellKept
  <2> QED BY <1>5, <1>7, <1>8, <1>9, <1>11, <2>1
<1>22. Settled(e)
  BY <1>5, <1>7, <1>9, <1>11 DEF Settled
<1> QED BY <1>5, <1>6, <1>14, <1>18, <1>19, <1>20, <1>21, <1>22 DEF WellKept, e

\* Every migration keeps the tables well kept.
LEMMA TablesMigrate ==
  ASSUME NEW d, DOMAIN d = DOMAIN EmptyStore, NEW n \in Migration, d.applied = 1 .. (n - 1),
         d.schema = SchemaOf(d.applied), WellKept(d), Settled(d)
  PROVE  /\ WellKept(Apply(n, d)) /\ Settled(Apply(n, d))
         /\ Apply(n, d).version = d.version
         /\ n \notin {5, 8} => Apply(n, d).evidence = d.evidence /\ Apply(n, d).cursor = d.cursor
<1> DEFINE e == Apply(n, d)
           w == Rewrite(n, d)
<1>1. e.applied = 1 .. n /\ \A table \in RowTables : e[table] = w[table]
  <2>1. AppliedAs(n, d, Apply(n, d))
    BY AppliedRows
  <2> QED BY <2>1 DEF AppliedAs
<1>2. n \in {1, 2, 3, 4, 5, 6, 7, 8}
  BY DEF Migration, Newest
<1>3. n \in {1, 3, 4, 6, 7} => \A table \in RowTables : w[table] = d[table]
  <2> DEFINE es == {[e1 EXCEPT !.origin = OriginOf(d, e1)] : e1 \in d.entities}
  <2>1. CASE n = 7
    <3>1. w = [d EXCEPT !.entities = es]
      BY <2>1 DEF Rewrite, pipelineEntityOrigin
    <3> HIDE DEF es, w
    <3> QED BY <3>1, StoreFields DEF RowTables
  <2>2. CASE n \in {1, 3, 4, 6}
    BY <2>2 DEF Rewrite
  <2> QED BY <2>1, <2>2
<1>4. n = 2 => /\ w.evidence = d.evidence /\ w.cursor = d.cursor /\ w.version = d.version
  <2> DEFINE es == {[e1 EXCEPT !.norm = BackfillKey(d, e1)] : e1 \in d.entities}
             ms == {BackfillMention(d, e1) : e1 \in d.entities}
  <2>1. n = 2 => w = [d EXCEPT !.entities = es, !.mentions = ms]
    BY DEF Rewrite, backfillEntityResolution
  <2> HIDE DEF es, ms, w
  <2> QED BY <2>1, StoreFields
<1>5. n \in {5, 8} => w.version = d.version
  <2>1. CASE n = 5
    <3> DEFINE rows == Executions(d)
               order == CHOOSE f \in [rows -> 1 .. Cardinality(rows)] : IsBackfillOrder(f, rows)
               es == {[id |-> r.id, cursor |-> order[r], scope |-> r.scope,
                       proof |-> r.proof, caller |-> Absent] : r \in rows}
    <3>1. w = [d EXCEPT !.evidence = es, !.cursor = Cardinality(rows)]
      BY <2>1 DEF Rewrite, backfillStageEvidence
    <3> HIDE DEF rows, order, es, w
    <3> QED BY <3>1, StoreFields
  <2>2. CASE n = 8
    <3> DEFINE ps == Attributed(d.promotions)
               hs == Attributed(d.decisions)
               ls == Attributed(d.links)
               es == Attributed(d.evidence)
    <3>1. w = [d EXCEPT !.promotions = ps, !.decisions = hs, !.links = ls, !.evidence = es]
      BY <2>2 DEF Rewrite, callerAttribution
    <3> HIDE DEF ps, hs, ls, es, w
    <3> QED BY <3>1, StoreFields
  <2> QED BY <2>1, <2>2
<1> HIDE DEF w
<1>6. e.version = d.version
  BY <1>1, <1>2, <1>3, <1>4, <1>5 DEF RowTables
<1>7. n \notin {5, 8} => e.evidence = d.evidence /\ e.cursor = d.cursor
  BY <1>1, <1>2, <1>3, <1>4 DEF RowTables
<1>8. WellKept(e) /\ Settled(e)
  <2>1. CASE n = 2
    <3>1. d.applied = 1 .. 1
      BY <2>1
    <3> QED BY <2>1, <3>1, MentionsBackfilled
  <2>2. CASE n = 5
    <3>1. d.applied = 1 .. 4
      BY <2>2
    <3> QED BY <2>2, <3>1, EvidenceBackfilled
  <2>3. CASE n = 8
    BY <2>3, CallersAttributed
  <2>4. CASE n \in {1, 3, 4, 6, 7}
    <3> HIDE DEF e
    <3>1. \A table \in RowTables : e[table] = d[table]
      BY <1>1, <1>3, <2>4
    <3>2. /\ 5 \in e.applied <=> 5 \in d.applied
          /\ 8 \in e.applied <=> 8 \in d.applied
      BY <1>1, <2>4
    <3>3. e.mentions = d.mentions /\ e.decisions = d.decisions
      BY <3>1 DEF RowTables
    <3>4. \A m \in e.mentions : {"id", "scope", "outcome"} \subseteq DOMAIN m
      BY <3>3 DEF WellKept, RowsShaped
    <3>5. WellKept(e)
      BY <3>1, <3>2, <3>4, SameTables
    <3> QED BY <3>3, <3>5 DEF Settled
  <2> QED BY <1>2, <2>1, <2>2, <2>3, <2>4
<1> QED BY <1>6, <1>7, <1>8

-----------------------------------------------------------------------------
(* Lists and what is on them.                                               *)

Items(q) == {q[i] : i \in DOMAIN q}
IsSequence(q) == q \in Seq(Items(q))

\* What is known of any sequence.
LEMMA SequenceShape ==
  ASSUME NEW q, IsSequence(q)
  PROVE  /\ Len(q) \in Nat /\ DOMAIN q = 1 .. Len(q) /\ q = << >> <=> Len(q) = 0
         /\ q # << >> => Head(q) \in Items(q) /\ Head(q) = q[1]
  BY DEF IsSequence, Items

\* Sequences over a set are sequences of its elements.
LEMMA SequenceIntro ==
  ASSUME NEW T, NEW q \in Seq(T)
  PROVE  IsSequence(q) /\ Items(q) \subseteq T
<1>1. Len(q) \in Nat /\ DOMAIN q = 1 .. Len(q) /\ \A i \in 1 .. Len(q) : q[i] \in T
  OBVIOUS
<1>2. q \in [1 .. Len(q) -> Items(q)]
  BY <1>1 DEF Items
<1>3. IsSequence(q)
  BY <1>1, <1>2 DEF IsSequence
<1> QED BY <1>1, <1>3 DEF Items

\* The empty sequence.
LEMMA EmptySequence == IsSequence(<< >>) /\ Items(<< >>) = {}
<1> DEFINE q == << >>
           T == {}
<1>1. q \in Seq(T)
  OBVIOUS
<1> HIDE DEF q
<1>2. IsSequence(q) /\ Items(q) \subseteq T
  BY <1>1, SequenceIntro
<1> QED BY <1>2 DEF q

\* A sequence of one.
LEMMA SingleSequence == \A x : IsSequence(<<x>>) /\ Items(<<x>>) = {x}
<1> SUFFICES ASSUME NEW x PROVE IsSequence(<<x>>) /\ Items(<<x>>) = {x}
  OBVIOUS
<1> DEFINE q == <<x>>
<1>1. q \in Seq({x}) /\ DOMAIN q = {1} /\ q[1] = x
  OBVIOUS
<1> HIDE DEF q
<1>2. x \in Items(q)
  BY <1>1 DEF Items
<1>3. IsSequence(q) /\ Items(q) = {x}
  BY <1>1, <1>2, SequenceIntro
<1> QED BY <1>3 DEF q

\* The rest of a sequence.
LEMMA TailSequence ==
  ASSUME NEW q, IsSequence(q), q # << >>
  PROVE  IsSequence(Tail(q)) /\ Items(Tail(q)) \subseteq Items(q) /\ Len(Tail(q)) = Len(q) - 1
<1>1. Tail(q) \in Seq(Items(q)) /\ Len(Tail(q)) = Len(q) - 1
  BY DEF IsSequence
<1> QED BY <1>1, SequenceIntro

\* Two sequences in a row.
LEMMA JoinedSequence ==
  ASSUME NEW q, NEW r, IsSequence(q), IsSequence(r)
  PROVE  /\ IsSequence(q \o r) /\ Items(q \o r) = Items(q) \cup Items(r)
         /\ Len(q \o r) = Len(q) + Len(r)
         /\ \A i \in 1 .. (Len(q) + Len(r)) :
              (q \o r)[i] = IF i <= Len(q) THEN q[i] ELSE r[i - Len(q)]
<1> DEFINE T == Items(q) \cup Items(r)
<1>1. Len(q) \in Nat /\ DOMAIN q = 1 .. Len(q) /\ Len(r) \in Nat /\ DOMAIN r = 1 .. Len(r)
  BY SequenceShape
<1>2. q \in [1 .. Len(q) -> T] /\ r \in [1 .. Len(r) -> T]
  BY <1>1 DEF IsSequence, Items
<1>3. q \in Seq(T) /\ r \in Seq(T)
  BY <1>1, <1>2
<1> HIDE DEF T
<1>4. /\ q \o r \in Seq(T) /\ Len(q \o r) = Len(q) + Len(r)
      /\ \A i \in 1 .. (Len(q) + Len(r)) :
           (q \o r)[i] = IF i <= Len(q) THEN q[i] ELSE r[i - Len(q)]
  BY <1>3
<1>5. IsSequence(q \o r) /\ Items(q \o r) \subseteq T
  BY <1>4, SequenceIntro
<1>6. ASSUME NEW x \in T PROVE x \in Items(q \o r)
  <2>1. DOMAIN (q \o r) = 1 .. (Len(q) + Len(r))
    BY <1>4
  <2>2. CASE x \in Items(q)
    <3>1. PICK i \in 1 .. Len(q) : x = q[i]
      BY <1>1, <2>2 DEF Items
    <3>2. i \in 1 .. (Len(q) + Len(r)) /\ (q \o r)[i] = x
      BY <1>1, <1>4, <3>1
    <3> QED BY <2>1, <3>2 DEF Items
  <2>3. CASE x \in Items(r)
    <3>1. PICK i \in 1 .. Len(r) : x = r[i]
      BY <1>1, <2>3 DEF Items
    <3>2. Len(q) + i \in 1 .. (Len(q) + Len(r)) /\ (q \o r)[Len(q) + i] = x
      BY <1>1, <1>4, <3>1
    <3> QED BY <2>1, <3>2 DEF Items
  <2> QED BY <2>2, <2>3 DEF T
<1> QED BY <1>4, <1>5, <1>6 DEF T

\* A sequence with one more element.
LEMMA AppendedSequence ==
  ASSUME NEW q, NEW x, IsSequence(q)
  PROVE  IsSequence(Append(q, x)) /\ Items(Append(q, x)) \subseteq Items(q) \cup {x}
<1> DEFINE T == Items(q) \cup {x}
<1>1. Len(q) \in Nat /\ DOMAIN q = 1 .. Len(q)
  BY SequenceShape
<1>2. q \in [1 .. Len(q) -> T]
  BY <1>1 DEF IsSequence, Items
<1>3. q \in Seq(T) /\ x \in T
  BY <1>1, <1>2
<1> HIDE DEF T
<1>4. Append(q, x) \in Seq(T)
  BY <1>3
<1> QED BY <1>4, SequenceIntro DEF T

\* A part of a sequence.
IsPart(w, q, m, n) ==
  /\ IsSequence(w) /\ Items(w) \subseteq Items(q)
  /\ Len(w) = IF m <= n THEN n - m + 1 ELSE 0
  /\ \A i \in 1 .. (n - m + 1) : w[i] = q[m + i - 1]

\* What lies between two positions of a sequence is such a part of it.
LEMMA PartOfSequence ==
  ASSUME NEW q, IsSequence(q), NEW m, m \in 1 .. (Len(q) + 1), NEW n, n \in 0 .. Len(q)
  PROVE  IsPart(SubSeq(q, m, n), q, m, n)
<1>1. q \in Seq(Items(q)) /\ Len(q) \in Nat
  BY DEF IsSequence
<1> DEFINE T == Items(q)
<1> HIDE DEF T
<1>2. /\ SubSeq(q, m, n) \in Seq(T)
      /\ Len(SubSeq(q, m, n)) = IF m <= n THEN n - m + 1 ELSE 0
      /\ \A i \in 1 .. (n - m + 1) : SubSeq(q, m, n)[i] = q[m + i - 1]
  BY <1>1 DEF T
<1> QED BY <1>2, SequenceIntro DEF T, IsPart

-----------------------------------------------------------------------------
(* Who may write where: MSP whatever no governed caller owns, and a         *)
(* governed caller what it owns.                                            *)

Entitled(pl, who, namespace, portfolio) ==
  \/ /\ who = MspPrincipal /\ namespace = MspNamespace
     /\ portfolio \notin governedPortfolios(Grants(pl.env.grants))
  \/ \E g \in Governed(Grants(pl.env.grants)) :
       who = g.entry.clientId /\ namespace = g.entry.namespace /\ portfolio \in PortfoliosOf(g)

\* The governed entries of a document a server starts with.
LEMMA GovernedEntries ==
  ASSUME NEW env, RuntimeStarts(env), NEW g \in Governed(Grants(env.grants))
  PROVE  \E i \in DOMAIN env.grants.clients :
           /\ g.entry = env.grants.clients[i] /\ ProfileOf(env.grants, g.entry) = "governed"
           /\ ValidEntry(env.grants, g.entry)
           /\ g.entry.clientId # MspPrincipal /\ g.entry.namespace # MspNamespace
<1> DEFINE doc == env.grants
<1>1. g.profile = "governed" /\ g \in Grants(doc)
  BY DEF Governed
<1>2. PICK i \in DOMAIN doc.clients :
        g = [profile |-> ProfileOf(doc, doc.clients[i]), entry |-> doc.clients[i]]
  BY <1>1 DEF Grants
<1>3. g.entry = doc.clients[i] /\ ProfileOf(doc, g.entry) = "governed"
  BY <1>1, <1>2
<1>4. doc # NoGrants
  <2> SUFFICES ASSUME doc = NoGrants PROVE FALSE
    OBVIOUS
  <2>1. doc.clients = << >>
    BY DEF NoGrants
  <2> QED BY <1>2, <2>1
<1>5. ValidEntry(doc, doc.clients[i])
  BY <1>4 DEF RuntimeStarts, ValidGrants
<1> QED BY <1>3, <1>5 DEF ValidEntry

\* No two of them share a client id, a namespace or a portfolio.
LEMMA GovernedApart ==
  ASSUME NEW env, RuntimeStarts(env), IsList(env.grants.clients),
         NEW g \in Governed(Grants(env.grants)), NEW h \in Governed(Grants(env.grants))
  PROVE  \/ g.entry = h.entry
         \/ /\ g.entry.clientId # h.entry.clientId /\ g.entry.namespace # h.entry.namespace
            /\ PortfoliosOf(g) \cap PortfoliosOf(h) = {}
<1> DEFINE doc == env.grants
<1>1. PICK i \in DOMAIN doc.clients :
        g.entry = doc.clients[i] /\ ProfileOf(doc, g.entry) = "governed"
  BY GovernedEntries
<1>2. PICK j \in DOMAIN doc.clients :
        h.entry = doc.clients[j] /\ ProfileOf(doc, h.entry) = "governed"
  BY GovernedEntries
<1>3. i \in Int /\ j \in Int
  BY DEF IsList
<1>4. doc # NoGrants
  <2> SUFFICES ASSUME doc = NoGrants PROVE FALSE
    OBVIOUS
  <2>1. doc.clients = << >>
    BY DEF NoGrants
  <2> QED BY <1>1, <2>1
<1>5. \A k, l \in DOMAIN doc.clients : k < l => KeptApart(doc, doc.clients[k], doc.clients[l])
  BY <1>4 DEF RuntimeStarts, ValidGrants
<1>6. i = j \/ KeptApart(doc, g.entry, h.entry) \/ KeptApart(doc, h.entry, g.entry)
  BY <1>1, <1>2, <1>3, <1>5
<1> QED BY <1>1, <1>2, <1>6 DEF KeptApart, PortfoliosOf

\* So a portfolio has one writer, and a writer one namespace.
LEMMA OwnersApart ==
  ASSUME NEW pl, RuntimeStarts(pl.env), IsList(pl.env.grants.clients),
         NEW w1, NEW n1, NEW p1, Entitled(pl, w1, n1, p1),
         NEW w2, NEW n2, NEW p2, Entitled(pl, w2, n2, p2)
  PROVE  (p1 = p2 => w1 = w2) /\ (w1 = w2 <=> n1 = n2)
<1> DEFINE gs == Grants(pl.env.grants)
           Msp(w, n, p) == w = MspPrincipal /\ n = MspNamespace /\ p \notin governedPortfolios(gs)
           Own(w, n, p, g) == w = g.entry.clientId /\ n = g.entry.namespace /\ p \in PortfoliosOf(g)
<1>1. \A w, n, p : Entitled(pl, w, n, p) =>
                     Msp(w, n, p) \/ \E g \in Governed(gs) : Own(w, n, p, g)
  BY DEF Entitled
<1>2. ASSUME NEW w, NEW n, NEW p, Msp(w, n, p), NEW v, NEW m, NEW q,
             NEW g \in Governed(gs), Own(v, m, q, g)
      PROVE  p # q /\ w # v /\ n # m
  <2>1. v # MspPrincipal /\ m # MspNamespace
    BY <1>2, GovernedEntries
  <2>2. q \in governedPortfolios(gs)
    BY <1>2 DEF governedPortfolios
  <2> QED BY <1>2, <2>1, <2>2
<1>3. ASSUME NEW g \in Governed(gs), Own(w1, n1, p1, g), NEW h \in Governed(gs), Own(w2, n2, p2, h)
      PROVE  (p1 = p2 => w1 = w2) /\ (w1 = w2 <=> n1 = n2)
  BY <1>3, GovernedApart
<1> QED BY <1>1, <1>2, <1>3

-----------------------------------------------------------------------------
(* What the authorization of a write makes sure of.                         *)

Legitimate(pl, req, caller) ==
  caller # Denied /\ req.tool \in WriteTools =>
    Entitled(pl, caller.callerId, caller.namespace, normalizedMspScope(req, pl.env).portfolio)

\* Over stdio, whoever is let through is MSP or a governed caller on its own.
LEMMA MspLegitimate ==
  ASSUME NEW pl, RuntimeStarts(pl.env), NEW req
  PROVE  /\ Legitimate(pl, req, CallerOf({}, req, pl.env))
         /\ pl.env.authRequired /\ CallerOf({}, req, pl.env) # Denied /\ req.tool \in WriteTools =>
              ValidScope(normalizedMspScope(req, pl.env))
<1> DEFINE caller == CallerOf({}, req, pl.env)
<1>1. CASE pl.env.authRequired /\ req.tool \in LegacyMspAuthTools
  <2>1. caller = IF MspMay(req, pl.env) THEN authorizeLegacyMspRequest(req, pl.env) ELSE Denied
    BY <1>1 DEF CallerOf
  <2>2. caller # Denied => /\ caller = GKS_MSP_CALLER /\ MspMay(req, pl.env)
                           /\ ValidScope(normalizedMspScope(req, pl.env))
    BY <2>1 DEF authorizeLegacyMspRequest
  <2> QED BY <2>2 DEF Legitimate, MspMay, Entitled, GKS_MSP_CALLER
<1>2. CASE ~pl.env.authRequired
  <2>1. caller = GKS_MSP_CALLER
    BY <1>2 DEF CallerOf
  <2>2. Grants(pl.env.grants) = {}
    BY <1>2 DEF RuntimeStarts
  <2>3. governedPortfolios(Grants(pl.env.grants)) = {}
    BY <2>2 DEF governedPortfolios, Governed
  <2> QED BY <1>2, <2>1, <2>3 DEF Legitimate, Entitled, GKS_MSP_CALLER
<1>3. CASE req.tool \notin LegacyMspAuthTools
  <2>1. req.tool \notin WriteTools
    BY <1>3 DEF WriteTools, LegacyMspAuthTools
  <2> QED BY <2>1 DEF Legitimate
<1> QED BY <1>1, <1>2, <1>3

\* So is a client with a grant.
LEMMA GrantLegitimate ==
  ASSUME NEW pl, RuntimeStarts(pl.env), NEW req, NEW g \in Grants(pl.env.grants)
  PROVE  /\ Legitimate(pl, req, CallerOf({g}, req, pl.env))
         /\ CallerOf({g}, req, pl.env) # Denied /\ req.tool \in WriteTools =>
              ValidScope(normalizedMspScope(req, pl.env))
<1> DEFINE caller == CallerOf({g}, req, pl.env)
<1>1. caller = IF g.profile = "governed" THEN authorizeGovernedCallerRequest(g, req, pl.env)
               ELSE authorizeGksClientRequest(g, req)
  BY DEF CallerOf
<1>2. CASE g.profile = "governed"
  <2>1. g \in Governed(Grants(pl.env.grants))
    BY <1>2 DEF Governed
  <2>2. caller = authorizeGovernedCallerRequest(g, req, pl.env)
    BY <1>1, <1>2
  <2>3. caller # Denied =>
          /\ caller.callerId = g.entry.clientId /\ caller.namespace = g.entry.namespace
          /\ ValidScope(normalizedMspScope(req, pl.env))
          /\ normalizedMspScope(req, pl.env).portfolio \in PortfoliosOf(g)
    BY <2>2 DEF authorizeGovernedCallerRequest
  <2> QED BY <2>1, <2>3 DEF Legitimate, Entitled
<1>3. CASE g.profile # "governed"
  <2>1. caller = authorizeGksClientRequest(g, req)
    BY <1>1, <1>3
  <2>2. caller # Denied => ToolOf(g, req)
    BY <2>1 DEF authorizeGksClientRequest
  <2> DEFINE doc == pl.env.grants
  <2>3. PICK i \in DOMAIN doc.clients :
          g = [profile |-> ProfileOf(doc, doc.clients[i]), entry |-> doc.clients[i]]
    BY DEF Grants
  <2>4. doc # NoGrants
    <3> SUFFICES ASSUME doc = NoGrants PROVE FALSE
      OBVIOUS
    <3>1. doc.clients = << >>
      BY DEF NoGrants
    <3> QED BY <2>3, <3>1
  <2>5. ValidEntry(doc, doc.clients[i])
    BY <2>3, <2>4 DEF RuntimeStarts, ValidGrants
  <2>6. ValidTools(g.entry.tools, DirectReadTools)
    BY <1>3, <2>3, <2>5 DEF ValidEntry, ProfileOf
  <2>7. ToolOf(g, req) => req.tool \in DirectReadTools
    BY <2>6 DEF ValidTools, ToolOf
  <2>8. DirectReadTools \cap WriteTools = {}
    BY DEF DirectReadTools, WriteTools
  <2> QED BY <2>2, <2>7, <2>8 DEF Legitimate
<1> QED BY <1>2, <1>3

\* So is whoever is let through over HTTP, with a scope for each write.
LEMMA HttpLegitimate ==
  ASSUME NEW pl, HttpStarts(pl.env), NEW req, {"tool", "scope", "msp"} \subseteq DOMAIN req
  PROVE  /\ Legitimate(pl, req, HttpCallerOf(req, pl.env))
         /\ HttpCallerOf(req, pl.env) # Denied /\ req.tool \in WriteTools =>
              ValidScope(normalizedMspScope(req, pl.env))
<1> DEFINE caller == HttpCallerOf(req, pl.env)
           relayed == WithRelay(req)
           grant == findGksClientGrant(req.bearer, pl.env)
<1>0. pl.env.authRequired /\ RuntimeStarts(pl.env)
  BY DEF HttpStarts
<1>1. CASE req.tool = "gks_health"
  <2>1. req.tool \notin WriteTools
    BY <1>1 DEF WriteTools
  <2> QED BY <2>1 DEF Legitimate
<1>2. CASE req.tool # "gks_health" /\ FromRelay(req, pl.env)
  <2>1. caller = CallerOf({}, relayed, pl.env)
    BY <1>2 DEF HttpCallerOf
  <2> DEFINE msp == [req.msp EXCEPT !.relay = req.bearer]
  <2>2. relayed.tool = req.tool /\ relayed.scope = req.scope
    <3>1. relayed = [req EXCEPT !.msp = msp]
      BY DEF WithRelay
    <3> HIDE DEF msp, relayed
    <3> QED BY <3>1
  <2>3. normalizedMspScope(relayed, pl.env) = normalizedMspScope(req, pl.env)
    BY <2>2 DEF normalizedMspScope, resolvePromotionScope
  <2> HIDE DEF relayed
  <2>4. /\ Legitimate(pl, relayed, CallerOf({}, relayed, pl.env))
        /\ CallerOf({}, relayed, pl.env) # Denied /\ relayed.tool \in WriteTools =>
             ValidScope(normalizedMspScope(relayed, pl.env))
    BY <1>0, MspLegitimate
  <2> HIDE DEF caller
  <2>5. /\ Legitimate(pl, req, caller)
        /\ caller # Denied /\ req.tool \in WriteTools => ValidScope(normalizedMspScope(req, pl.env))
    BY <2>1, <2>2, <2>3, <2>4 DEF Legitimate
  <2> QED BY <2>5 DEF caller
<1>3. CASE req.tool # "gks_health" /\ ~FromRelay(req, pl.env) /\ grant = {}
  <2>1. caller = Denied
    BY <1>3 DEF HttpCallerOf
  <2> QED BY <2>1 DEF Legitimate
<1>4. CASE req.tool # "gks_health" /\ ~FromRelay(req, pl.env) /\ grant # {}
  <2>1. caller = CallerOf(grant, req, pl.env)
    BY <1>4 DEF HttpCallerOf
  <2> DEFINE g == CHOOSE h \in grant : TRUE
  <2>2. g \in Grants(pl.env.grants)
    BY <1>4 DEF findGksClientGrant
  <2>3. CallerOf(grant, req, pl.env) = CallerOf({g}, req, pl.env)
    <3>1. (CHOOSE h \in {g} : TRUE) = g
      OBVIOUS
    <3> QED BY <1>4, <3>1 DEF CallerOf
  <2> HIDE DEF g, caller
  <2>4. /\ Legitimate(pl, req, CallerOf({g}, req, pl.env))
        /\ CallerOf({g}, req, pl.env) # Denied /\ req.tool \in WriteTools =>
             ValidScope(normalizedMspScope(req, pl.env))
    BY <1>0, <2>2, GrantLegitimate
  <2> QED BY <2>1, <2>3, <2>4 DEF caller
<1> QED BY <1>1, <1>2, <1>3, <1>4

-----------------------------------------------------------------------------
(* The store while it is served: tables well kept, and whatever is newer    *)
(* than the store of the plan is of a caller that may write there.          *)

Newer(d, pl) == {r \in Rows(d) : r.version > pl.store.version}

RowsOwned(d, pl) ==
  /\ pl.store.version \in Nat /\ pl.store.version <= d.version
  /\ d.applied # Migration => d.version = pl.store.version
  /\ \A r \in Newer(d, pl) :
       RuntimeStarts(pl.env) /\ Entitled(pl, r.caller, r.proof, r.scope.portfolio)

StoreOK(d, pl) == WellKept(d) /\ Settled(d) /\ RowsOwned(d, pl)

\* A write of a caller that may make it.
Effect(d, e, pl) ==
  \/ e = d
  \/ \E row : Wrote(d, e, row) /\ Entitled(pl, row.caller, row.proof, row.scope.portfolio)

\* What a store that is served is followed by: more rows, later evidence.
Extends(d, e) ==
  d.applied = Migration =>
    /\ e.applied = Migration /\ d.cursor \in Nat /\ e.cursor \in Nat /\ d.cursor <= e.cursor
    /\ Rows(d) \subseteq Rows(e) /\ d.evidence \subseteq e.evidence
    /\ \A x \in e.evidence \ d.evidence : x.cursor > d.cursor

\* A store extends itself.
LEMMA ExtendsItself == ASSUME NEW d, WellKept(d) PROVE Extends(d, d)
  BY DEF WellKept, Extends

\* The rows after a write.
LEMMA WroteRows ==
  ASSUME NEW d, NEW e, NEW row, Wrote(d, e, row), d.cursor \in Nat
  PROVE  /\ Rows(e) = Rows(d) \cup {row} /\ SameRows(d, e)
         /\ row.version = d.version + 1 /\ e.version = d.version + 1
         /\ d.evidence \subseteq e.evidence /\ e.cursor \in Nat /\ d.cursor <= e.cursor
         /\ \A x \in e.evidence \ d.evidence : x.cursor > d.cursor
<1>1. ASSUME NEW id, Reported(d, e, id, row)
      PROVE  /\ d.evidence \subseteq e.evidence /\ e.cursor \in Nat /\ d.cursor <= e.cursor
             /\ \A x \in e.evidence \ d.evidence : x.cursor > d.cursor
  BY <1>1 DEF Reported
<1>2. CASE Promoted(d, e, row)
  <2>1. Reported(d, e, PromotionEvidence(row), row)
    BY <1>2 DEF Promoted
  <2>2. Rows(e) = Rows(d) \cup {row}
    BY <1>2 DEF Promoted, Rows
  <2> QED BY <1>1, <1>2, <2>1, <2>2 DEF Promoted, NewRow
<1>3. CASE Decided(d, e, row)
  <2>1. Reported(d, e, DecisionEvidence(row), row)
    BY <1>3 DEF Decided
  <2>2. Rows(e) = Rows(d) \cup {row}
    BY <1>3 DEF Decided, Rows
  <2> QED BY <1>1, <1>3, <2>1, <2>2 DEF Decided, NewRow
<1>4. CASE Linked(d, e, row)
  <2>1. Rows(e) = Rows(d) \cup {row}
    BY <1>4 DEF Linked, Rows
  <2> QED BY <1>4, <2>1 DEF Linked, NewRow
<1> QED BY <1>2, <1>3, <1>4 DEF Wrote

\* What a handler does keeps the store right and only adds to it.
LEMMA EffectKeeps ==
  ASSUME NEW d, NEW e, NEW pl, StoreOK(d, pl), d.applied = Migration, RuntimeStarts(pl.env),
         Effect(d, e, pl)
  PROVE  StoreOK(e, pl) /\ Extends(d, e) /\ SameRows(d, e)
<1>0. d.cursor \in Nat /\ d.version \in Nat
  BY DEF StoreOK, WellKept
<1>1. CASE e = d
  BY <1>1, ExtendsItself DEF StoreOK, SameRows
<1>2. ASSUME NEW row, Wrote(d, e, row), Entitled(pl, row.caller, row.proof, row.scope.portfolio)
      PROVE  StoreOK(e, pl) /\ Extends(d, e) /\ SameRows(d, e)
  <2>1. /\ Rows(e) = Rows(d) \cup {row} /\ SameRows(d, e)
        /\ row.version = d.version + 1 /\ e.version = d.version + 1
        /\ d.evidence \subseteq e.evidence /\ e.cursor \in Nat /\ d.cursor <= e.cursor
        /\ \A x \in e.evidence \ d.evidence : x.cursor > d.cursor
    BY <1>0, <1>2, WroteRows
  <2>2. e.applied = Migration
    BY <2>1 DEF SameRows
  <2>3. Extends(d, e)
    BY <1>0, <2>1, <2>2 DEF Extends
  <2>4. {5, 8} \subseteq d.applied
    BY DEF Migration, Newest
  <2>5. WellKept(e) /\ Settled(e)
    BY <1>2, <2>4, WroteKeeps DEF StoreOK
  <2>6. RowsOwned(e, pl)
    <3>1. \A r \in Newer(e, pl) : r \in Newer(d, pl) \/ r = row
      BY <2>1 DEF Newer
    <3>2. pl.store.version \in Nat /\ pl.store.version <= e.version
      BY <1>0, <2>1 DEF StoreOK, RowsOwned
    <3> QED BY <1>2, <2>2, <3>1, <3>2 DEF StoreOK, RowsOwned
  <2> QED BY <2>1, <2>3, <2>5, <2>6 DEF StoreOK
<1> QED BY <1>1, <1>2 DEF Effect

\* A migration keeps the store right.
LEMMA MigrationStoreKeeps ==
  ASSUME NEW d, NEW pl, DOMAIN d = DOMAIN EmptyStore, NEW n \in Migration,
         d.applied = 1 .. (n - 1), d.schema = SchemaOf(d.applied), StoreOK(d, pl)
  PROVE  StoreOK(Apply(n, d), pl) /\ d.applied # Migration
<1> DEFINE e == Apply(n, d)
<1>1. WellKept(e) /\ Settled(e) /\ e.version = d.version
  BY TablesMigrate DEF StoreOK
<1>2. d.applied # Migration
  <2>1. n \notin 1 .. (n - 1)
    BY DEF Migration, Newest
  <2> QED BY <2>1
<1>3. e.version = pl.store.version /\ pl.store.version \in Nat
  BY <1>1, <1>2 DEF StoreOK, RowsOwned
<1> HIDE DEF e
<1>4. Newer(e, pl) = {}
  BY <1>1, <1>3 DEF Newer, WellKept, RowsShaped
<1>5. RowsOwned(e, pl)
  BY <1>3, <1>4 DEF RowsOwned
<1> QED BY <1>1, <1>2, <1>5 DEF StoreOK, e

-----------------------------------------------------------------------------
(* What a caller may have been told: rows of the store, and pages without a *)
(* gap.                                                                     *)

SinceOK(n, d) == n = 0 \/ (d.applied = Migration /\ n \in 1 .. d.cursor)

Seen(d, pl, m, n) ==
  {x.id : x \in {y \in d.evidence : VisibleIn(y.scope, pl.pulled) /\ m < y.cursor /\ y.cursor <= n}}

PageOK(a, since, d, pl) ==
  \/ a.rows = {} /\ a.next = 0
  \/ /\ d.applied = Migration /\ a.code = "ok" /\ a.next \in 0 .. d.cursor /\ since <= a.next
     /\ a.rows = Seen(d, pl, since, a.next)

RowOK(row, req, d, pl) ==
  \/ row = {}
  \/ /\ d.applied = Migration
     /\ row \subseteq {r \in Rows(d) : r.scope = resolvePromotionScope(req, pl.env)}

AnswerOK(a, req, since, d, pl) ==
  a # Later /\ PageOK(a, since, d, pl) /\ RowOK(a.row, req, d, pl)

TaskOK(t, since, d, pl) ==
  IF t.answer = Later
  THEN \/ /\ t.req.tool = PromoteTool
          /\ Entitled(pl, t.caller.callerId, t.caller.namespace,
                      resolvePromotionScope(t.req, pl.env).portfolio)
       \/ t.req.tool = ExportTool /\ t.req.scope = pl.pulled
  ELSE AnswerOK(t.answer, t.req, since, d, pl)

\* Later evidence is behind every cursor that was given.
LEMMA SeenGrows ==
  ASSUME NEW d, NEW e, NEW pl, Extends(d, e), d.applied = Migration, WellKept(d), WellKept(e),
         NEW m, NEW n \in 0 .. d.cursor
  PROVE  Seen(e, pl, m, n) = Seen(d, pl, m, n)
<1>1. \A x \in e.evidence : x.cursor \in 1 .. e.cursor
  BY DEF WellKept, EvidenceExact
<1>2. \A x \in e.evidence : x.cursor <= n => x \in d.evidence
  BY <1>1 DEF Extends
<1>3. d.evidence \subseteq e.evidence
  BY DEF Extends
<1> QED BY <1>2, <1>3 DEF Seen

\* What was right to tell stays right.
LEMMA ToldStaysTold ==
  ASSUME NEW d, NEW e, NEW pl, Extends(d, e), WellKept(d), WellKept(e)
  PROVE  /\ \A n : SinceOK(n, d) => SinceOK(n, e)
         /\ \A a, since : PageOK(a, since, d, pl) => PageOK(a, since, e, pl)
         /\ \A row, req : RowOK(row, req, d, pl) => RowOK(row, req, e, pl)
         /\ \A t, since : TaskOK(t, since, d, pl) => TaskOK(t, since, e, pl)
<1>1. \A n : SinceOK(n, d) => SinceOK(n, e)
  BY DEF Extends, SinceOK
<1>2. ASSUME NEW a, NEW since, PageOK(a, since, d, pl) PROVE PageOK(a, since, e, pl)
  <2>1. CASE d.applied = Migration /\ a.next \in 0 .. d.cursor
    <3>1. Seen(e, pl, since, a.next) = Seen(d, pl, since, a.next)
      BY <2>1, SeenGrows
    <3>2. e.applied = Migration /\ a.next \in 0 .. e.cursor
      BY <2>1 DEF Extends
    <3> QED BY <1>2, <3>1, <3>2 DEF PageOK
  <2> QED BY <1>2, <2>1 DEF PageOK
<1>3. \A row, req : RowOK(row, req, d, pl) => RowOK(row, req, e, pl)
  BY DEF Extends, RowOK
<1>4. \A t, since : TaskOK(t, since, d, pl) => TaskOK(t, since, e, pl)
  BY <1>2, <1>3 DEF TaskOK, AnswerOK
<1> QED BY <1>1, <1>2, <1>3, <1>4

-----------------------------------------------------------------------------
(* The page of an export.                                                   *)

\* A finite set of numbers has a greatest one.
LEMMA GreatestExists ==
  ASSUME NEW S, S \subseteq Int, IsFiniteSet(S), S # {}
  PROVE  \E m \in S : \A x \in S : x <= m
<1> DEFINE Before == {p \in S \X S : p[1] < p[2]}
           n == Cardinality(S)
<1>1. \A x, y \in S : <<x, y>> \in Before <=> x < y
  OBVIOUS
<1> HIDE DEF Before
<1>2. StrictOrder(Before, S)
  BY <1>1 DEF StrictOrder
<1>3. /\ n \in Nat /\ Rank(Before, S) \in [S -> 1 .. n]
      /\ \A x, y \in S : <<x, y>> \in Before => Rank(Before, S)[x] < Rank(Before, S)[y]
      /\ \A i \in 1 .. n : \E x \in S : Rank(Before, S)[x] = i
  BY <1>2, RankNumbers
<1>4. n # 0
  BY FS_EmptySet
<1>5. PICK m \in S : Rank(Before, S)[m] = n
  BY <1>3, <1>4
<1>6. ASSUME NEW x \in S PROVE x <= m
  <2>1. Rank(Before, S)[x] \in 1 .. n
    BY <1>3
  <2>2. m < x => n < Rank(Before, S)[x]
    <3>1. m < x => <<m, x>> \in Before
      BY <1>1
    <3>2. <<m, x>> \in Before => Rank(Before, S)[m] < Rank(Before, S)[x]
      BY <1>3
    <3> QED BY <1>5, <3>1, <3>2
  <2>3. ~(m < x)
    BY <1>3, <2>1, <2>2
  <2> QED BY <2>3
<1> QED BY <1>6

\* Evidence is finite and numbered from 1.
LEMMA EvidenceFinite ==
  ASSUME NEW d, WellKept(d)
  PROVE  IsFiniteSet(d.evidence) /\ \A x \in d.evidence : x.cursor \in 1 .. d.cursor
<1>1. d.cursor \in Nat /\ EvidenceExact(d)
  BY DEF WellKept
<1>2. /\ {x.cursor : x \in d.evidence} = 1 .. d.cursor
      /\ \A x, y \in d.evidence : x.cursor = y.cursor => x = y
  BY <1>1 DEF EvidenceExact
<1> DEFINE f == [x \in d.evidence |-> x.cursor]
<1>3. \A x \in d.evidence : x.cursor \in 1 .. d.cursor
  BY <1>2
<1>4. f \in Injection(d.evidence, 1 .. d.cursor)
  BY <1>2, <1>3 DEF Injection, IsInjective
<1>5. IsFiniteSet(1 .. d.cursor)
  BY <1>1, FS_Interval
<1>6. IsFiniteSet(d.evidence)
  BY <1>4, <1>5, FS_Injection
<1> QED BY <1>3, <1>6

\* Whatever may be seen before a row of a page is on it.
LEMMA PageIsFirst ==
  ASSUME NEW d, WellKept(d), NEW scope, NEW since \in Nat, NEW x \in Page(d, scope, since),
         NEW y \in d.evidence, VisibleIn(y.scope, scope), since < y.cursor, y.cursor <= x.cursor
  PROVE  y \in Page(d, scope, since)
<1> DEFINE upTo(r) == {f \in d.evidence : VisibleIn(f.scope, scope)
                                          /\ f.cursor \in (since + 1) .. r.cursor}
<1>1. IsFiniteSet(d.evidence) /\ \A r \in d.evidence : r.cursor \in 1 .. d.cursor
  BY EvidenceFinite
<1>2. x \in d.evidence
  BY DEF Page
<1>3. upTo(y) \subseteq upTo(x) /\ upTo(x) \subseteq d.evidence
  BY <1>1, <1>2
<1>4. Cardinality(upTo(x)) <= PageLimit
  BY DEF Page
<1>5. y.cursor > since
  BY <1>1
<1>6. Cardinality(upTo(y)) <= PageLimit => y \in Page(d, scope, since)
  BY <1>5 DEF Page
<1> HIDE DEF upTo
<1>7. /\ Cardinality(upTo(y)) <= Cardinality(upTo(x))
      /\ Cardinality(upTo(y)) \in Nat /\ Cardinality(upTo(x)) \in Nat
  <2>1. IsFiniteSet(upTo(x))
    BY <1>1, <1>3, FS_Subset
  <2>2. IsFiniteSet(upTo(y)) /\ Cardinality(upTo(y)) <= Cardinality(upTo(x))
    BY <1>3, <2>1, FS_Subset
  <2> QED BY <2>1, <2>2, FS_CardinalityType
<1> QED BY <1>4, <1>6, <1>7, LimitsAssumption

\* An export answers with what its scope may see from the cursor it is given
\* to the one it gives.
LEMMA ExportsPage ==
  ASSUME NEW d, NEW pl, WellKept(d), d.applied = Migration, NEW since, SinceOK(since, d),
         NEW req, req.scope = pl.pulled
  PROVE  LET a == exportStageEvidence(d, req, since)
         IN  a # Later /\ a.row = {} /\ PageOK(a, since, d, pl)
<1> DEFINE page == Page(d, req.scope, since)
           a == exportStageEvidence(d, req, since)
           next == LastCursor(page, since)
           rows == {x.id : x \in page}
<1>1. a = [Answer("ok") EXCEPT !.rows = rows, !.next = next]
  BY DEF exportStageEvidence
<1>2. a.code = "ok" /\ a.rows = rows /\ a.next = next /\ a.row = {}
  <2> HIDE DEF rows, next, a
  <2> QED BY <1>1 DEF Answer
<1>3. d.cursor \in Nat /\ since \in 0 .. d.cursor
  BY DEF WellKept, SinceOK
<1>4. \A x \in d.evidence : x.cursor \in 1 .. d.cursor
  BY EvidenceFinite
<1>5. \A x \in page : x \in d.evidence /\ VisibleIn(x.scope, pl.pulled) /\ since < x.cursor
  BY <1>3, <1>4 DEF Page
<1>6. CASE page = {}
  <2>1. next = since /\ rows = {}
    BY <1>6 DEF LastCursor
  <2>2. Seen(d, pl, since, since) = {}
    BY <1>3, <1>4 DEF Seen
  <2> HIDE DEF page, next, rows, a
  <2>3. PageOK(a, since, d, pl)
    BY <1>2, <1>3, <2>1, <2>2 DEF PageOK
  <2>4. a # Later
    BY <1>2, Answers
  <2> QED BY <1>2, <2>3, <2>4 DEF a
<1>7. CASE page # {}
  <2> DEFINE cursors == {x.cursor : x \in page}
  <2>1. PICK m \in page : \A x \in page : x.cursor <= m.cursor
    <3>1. cursors \subseteq 1 .. d.cursor /\ cursors # {}
      BY <1>4, <1>5, <1>7
    <3>2. IsFiniteSet(1 .. d.cursor)
      BY <1>3, FS_Interval
    <3> HIDE DEF cursors
    <3>3. IsFiniteSet(cursors)
      BY <3>1, <3>2, FS_Subset
    <3>4. cursors \subseteq Int
      BY <3>1
    <3>5. \E n \in cursors : \A x \in cursors : x <= n
      BY <3>1, <3>3, <3>4, GreatestExists
    <3> QED BY <3>5 DEF cursors
  <2> DEFINE last == CHOOSE x \in page : \A y \in page : y.cursor <= x.cursor
  <2>2. last \in page /\ \A y \in page : y.cursor <= last.cursor
    BY <2>1
  <2>3. next = last.cursor
    BY <1>7 DEF LastCursor
  <2> HIDE DEF last, next
  <2>4. next \in 1 .. d.cursor /\ since <= next
    BY <1>3, <1>4, <1>5, <2>2, <2>3
  <2>5. rows = Seen(d, pl, since, next)
    <3>1. ASSUME NEW y \in d.evidence, VisibleIn(y.scope, pl.pulled), since < y.cursor,
                 y.cursor <= next
          PROVE  y \in page
      <4>1. since \in Nat
        BY <1>3
      <4> QED BY <2>2, <2>3, <3>1, <4>1, PageIsFirst
    <3>2. \A y \in page : y \in d.evidence /\ VisibleIn(y.scope, pl.pulled)
                          /\ since < y.cursor /\ y.cursor <= next
      BY <1>5, <2>2, <2>3
    <3> HIDE DEF page
    <3> QED BY <3>1, <3>2 DEF Seen
  <2> HIDE DEF page, rows, a
  <2>6. PageOK(a, since, d, pl)
    BY <1>2, <2>4, <2>5 DEF PageOK
  <2>7. a # Later
    BY <1>2, Answers
  <2> QED BY <1>2, <2>6, <2>7 DEF a
<1> QED BY <1>6, <1>7

-----------------------------------------------------------------------------
(* What a handler does for a request that was authorized.                   *)

\* A decision and a link name the scope of their row.
NamesScope(req, caller) ==
  caller # Denied /\ req.tool \in {"gks_review_apply", "gks_artifact_link"} => ValidScope(req.scope)

\* An answer without rows is right.
LEMMA SilentAnswer ==
  ASSUME NEW a, a # Later, Silent(a), NEW req, NEW since, NEW d, NEW pl
  PROVE  AnswerOK(a, req, since, d, pl)
  BY DEF Silent, AnswerOK, PageOK, RowOK

\* The answer to a write is right.
LEMMA WroughtServes ==
  ASSUME NEW d, NEW pl, StoreOK(d, pl), d.applied = Migration, NEW req, NEW caller, NEW w,
         Wrought(d, w, resolvePromotionScope(req, pl.env), caller),
         Entitled(pl, caller.callerId, caller.namespace,
                  resolvePromotionScope(req, pl.env).portfolio), NEW since
  PROVE  Effect(d, w.db, pl) /\ AnswerOK(w.answer, req, since, w.db, pl)
<1> DEFINE scope == resolvePromotionScope(req, pl.env)
<1>0. d.cursor \in Nat
  BY DEF StoreOK, WellKept
<1>1. WriteAnswer(w.answer, Rows(w.db), scope)
  BY DEF Wrought
<1>2. CASE w.db = d
  <2>1. w.db.applied = Migration
    BY <1>2
  <2> QED BY <1>1, <1>2, <2>1 DEF WriteAnswer, AnswerOK, PageOK, RowOK, Effect
<1>3. CASE \E row : /\ Wrote(d, w.db, row) /\ row.scope = scope
                    /\ row.caller = caller.callerId /\ row.proof = caller.namespace
  <2>1. PICK row : /\ Wrote(d, w.db, row) /\ row.scope = scope
                   /\ row.caller = caller.callerId /\ row.proof = caller.namespace
    BY <1>3
  <2>2. SameRows(d, w.db)
    BY <1>0, <2>1, WroteRows
  <2>3. w.db.applied = Migration
    BY <2>2 DEF SameRows
  <2>4. Entitled(pl, row.caller, row.proof, row.scope.portfolio)
    BY <2>1
  <2>5. Effect(d, w.db, pl)
    BY <2>1, <2>4 DEF Effect
  <2> QED BY <1>1, <2>3, <2>5 DEF WriteAnswer, AnswerOK, PageOK, RowOK
<1> QED BY <1>2, <1>3 DEF Wrought

\* A request of a legitimate caller is handled rightly up to its first await.
LEMMA DispatchServes ==
  ASSUME NEW d, DOMAIN d = DOMAIN EmptyStore, NEW pl, StoreOK(d, pl), d.applied = Migration,
         NEW req, NEW caller, NEW since, NEW id,
         Legitimate(pl, req, caller), NamesScope(req, caller), Asks(req, pl.pulled)
  PROVE  LET w == Dispatch(d, req, caller, since)
         IN  Effect(d, w.db, pl) /\ TaskOK(Task(id, req, caller, w), since, w.db, pl)
<1> DEFINE w == Dispatch(d, req, caller, since)
           t == Task(id, req, caller, w)
<1> SUFFICES Effect(d, w.db, pl) /\ TaskOK(t, since, w.db, pl)
  OBVIOUS
<1>1. t.answer = w.answer /\ t.req = req /\ t.caller = caller
  BY DEF Task
<1>2. Dispatched(d, w, req, caller, since)
  BY DispatchEffect DEF StoreOK, WellKept
<1> HIDE DEF w, t
<1>3. CASE w.db = d /\ w.answer # Later /\ Silent(w.answer)
  BY <1>1, <1>3, SilentAnswer DEF Effect, TaskOK
<1>4. CASE w.db = d /\ w.answer = Later /\ req.tool = ExportTool
  BY <1>1, <1>4 DEF Effect, TaskOK, Asks
<1>5. CASE w.db = d /\ w.answer = Later /\ req.tool = PromoteTool /\ caller # Denied
  <2>1. normalizedMspScope(req, pl.env) = resolvePromotionScope(req, pl.env)
    BY <1>5 DEF normalizedMspScope, PromoteTool
  <2>2. req.tool \in WriteTools
    BY <1>5 DEF WriteTools, PromoteTool
  <2> QED BY <1>1, <1>5, <2>1, <2>2 DEF Effect, TaskOK, Legitimate
<1>6. CASE /\ req.tool \in {"gks_review_apply", "gks_artifact_link"} /\ caller # Denied
           /\ Wrought(d, w, req.scope, caller)
  <2>1. /\ normalizedMspScope(req, pl.env) = req.scope
        /\ resolvePromotionScope(req, pl.env) = req.scope
    BY <1>6 DEF normalizedMspScope, resolvePromotionScope, NamesScope, ValidScope
  <2>2. req.tool \in WriteTools
    BY <1>6 DEF WriteTools
  <2>3. Entitled(pl, caller.callerId, caller.namespace, req.scope.portfolio)
    BY <1>6, <2>1, <2>2 DEF Legitimate
  <2>4. Effect(d, w.db, pl) /\ AnswerOK(w.answer, req, since, w.db, pl)
    BY <1>6, <2>1, <2>3, WroughtServes
  <2> QED BY <1>1, <2>4 DEF TaskOK, AnswerOK
<1> QED BY <1>2, <1>3, <1>4, <1>5, <1>6 DEF Dispatched

\* And after it.
LEMMA FinishServes ==
  ASSUME DOMAIN db = DOMAIN EmptyStore, StoreOK(db, plan), db.applied = Migration,
         NEW t, NEW since, SinceOK(since, db), TaskOK(t, since, db, plan)
  PROVE  LET w == Finished(t, since)
         IN  Effect(db, w.db, plan) /\ AnswerOK(w.answer, t.req, since, w.db, plan)
<1> DEFINE w == Finished(t, since)
           h == HandleLater(db, t.req, t.caller, since)
<1> SUFFICES Effect(db, w.db, plan) /\ AnswerOK(w.answer, t.req, since, w.db, plan)
  OBVIOUS
<1>1. CASE t.answer # Later
  <2>1. w = [db |-> db, answer |-> t.answer]
    BY <1>1 DEF Finished
  <2> QED BY <1>1, <2>1 DEF Effect, TaskOK
<1>2. CASE t.answer = Later
  <2>1. w = h
    BY <1>2 DEF Finished
  <2>2. \/ t.req.tool = PromoteTool
             /\ Wrought(db, h, resolvePromotionScope(t.req, plan.env), t.caller)
        \/ /\ t.req.tool # PromoteTool
           /\ h.db = db /\ h.answer = exportStageEvidence(db, t.req, since)
    BY LaterEffect
  <2> HIDE DEF w, h
  <2>3. CASE t.req.tool = PromoteTool
    <3>1. Entitled(plan, t.caller.callerId, t.caller.namespace,
                   resolvePromotionScope(t.req, plan.env).portfolio)
      BY <1>2, <2>3 DEF TaskOK, PromoteTool, ExportTool
    <3>2. Effect(db, h.db, plan) /\ AnswerOK(h.answer, t.req, since, h.db, plan)
      BY <2>2, <2>3, <3>1, WroughtServes
    <3> QED BY <2>1, <3>2
  <2>4. CASE t.req.tool # PromoteTool
    <3>1. t.req.scope = plan.pulled
      BY <1>2, <2>4 DEF TaskOK
    <3>2. LET a == exportStageEvidence(db, t.req, since)
          IN  a # Later /\ a.row = {} /\ PageOK(a, since, db, plan)
      BY <3>1, ExportsPage DEF StoreOK
    <3> QED BY <2>1, <2>2, <2>4, <3>2 DEF Effect, AnswerOK, RowOK
  <2> QED BY <2>3, <2>4
<1> QED BY <1>1, <1>2
==============================================================================
