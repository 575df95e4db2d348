----------------------------- MODULE Resolution -----------------------------
(***************************************************************************)
(* Entity resolution in the Genesis Knowledge System: a promotion looks up *)
(* the pool of entities, decides each of its candidates by the ladder of   *)
(* packages/gks-core/src/resolve.mjs and commits the envelope in one       *)
(* transaction; a human binds what the ladder left open and merges         *)
(* entities that turned out to be one (transactHumanResolution).           *)
(*                                                                         *)
(* The lookup is awaited (promoteCandidate), so that other callers act     *)
(* between it and the transaction; a human decision checks and writes in   *)
(* one transaction.                                                        *)
(*                                                                         *)
(* A name is known by what the ladder reads of it: its surface key, its    *)
(* norm_v1 key, and which keys are near (similarity 0.8).  `summary'       *)
(* stands for the fields that are filled when empty.  A row of promotions  *)
(* or decisions also stands for the graph version and the stage_evidence   *)
(* row of the same transaction.  Relation types are left out.              *)
(***************************************************************************)
EXTENDS Integers, Sequences, FiniteSets

CONSTANTS
  Caller,     \* promotions that may be in flight together
  Scope,      \* scopes of requests and rows
  tenant,     \* portfolio and tenant of a scope
  broader,    \* broader[s]: the scopes whose rows a request from s may see
  Name,       \* candidateRef strings
  surface,    \* surfaceKey of a name
  normKey,    \* normKey of a name
  near,       \* near[k]: the keys whose similarity to k reaches 0.8
  beforeHash, \* what is before the first '#' of a key, a set of at most one key
  EntityType, \* types an entity may have
  Envelope,   \* promotion requests; what is repeated word for word is listed once
  Pipeline,   \* entities a GenesisRAG17 run may add: function from refs to rows
  Floor       \* the auto-merge floor, in hundredths

Key == {normKey[n] : n \in Name}

\* What may stand among the aliases of a row.
Alias == Key \cup UNION {beforeHash[k] : k \in Key}

\* Retries of a promotion that loses the race for a norm key.
Retries == 3

ASSUME TenantAssumption ==
  /\ broader \in [Scope -> SUBSET Scope]
  /\ \A s \in Scope : s \in broader[s] /\ \A b \in broader[s] : tenant[b] = tenant[s]
  /\ \A s \in Scope : \A b \in broader[s] : broader[b] \subseteq broader[s]
ASSUME KeyAssumption ==
  /\ \A m, n \in Name : surface[m] = surface[n] => normKey[m] = normKey[n]
  /\ near \in [Key -> SUBSET Key]
  /\ \A k \in Key : \A b \in beforeHash[k] :
       beforeHash[k] = {b} /\ (b \in Key => beforeHash[b] = {b})

\* What the table of entities has for columns.
IsRow(x) ==
  x = [scope |-> x.scope, name |-> x.name, type |-> x.type, title |-> x.title,
       summary |-> x.summary, norm |-> [base |-> x.norm.base, mention |-> x.norm.mention],
       aliases |-> x.aliases, externalRefs |-> x.externalRefs,
       superseded |-> x.superseded, origin |-> x.origin]

\* canonicalEntityRef: a digest of the scope and the spelling.
EntityRef(s, n) == <<"entity", s, n>>

ASSUME EnvelopeAssumption ==
  \A env \in Envelope :
    /\ env.scope \in Scope
    /\ env.entities \in Seq({env.entities[i] : i \in DOMAIN env.entities})
    /\ \A i \in DOMAIN env.entities : env.entities[i].name \in Name
\* A run adds rows of its own, which are no one's duplicates yet.
ASSUME PipelineAssumption ==
  \A r \in DOMAIN Pipeline :
    LET row == Pipeline[r]
    IN  /\ r # <<>> /\ \A s \in Scope, n \in Name : r # EntityRef(s, n)
        /\ IsRow(row) /\ row.scope \in Scope /\ row.name \in Name /\ row.type \in EntityType
        /\ row.norm.mention = <<>> /\ row.aliases \subseteq Alias
        /\ row.superseded = <<>> /\ row.origin = "pipeline"

VARIABLES
  entities,    \* entities rows, by canonical_ref
  published,   \* refs of origin pipeline whose run is PUBLISHED
  mentions,    \* entity_mentions rows, by mention_id
  relations,   \* relations rows; canonical_ref is a function of the row
  pending,     \* pending_relations rows
  promotions,  \* promotions rows: key, candidates, the answer a replay repeats
  decisions,   \* human_resolutions rows
  call         \* per caller, the promotion in flight

vars == <<entities, published, mentions, relations, pending, promotions,
          decisions, call>>

-----------------------------------------------------------------------------
(* Rows. *)

NoRef == <<>>
Nothing == <<>>

Ref == {EntityRef(s, n) : s \in Scope, n \in Name} \cup DOMAIN Pipeline

\* RESOLUTION_OUTCOMES and RESOLUTION_STRATEGIES
Outcome == {"MATCHED", "CREATED", "AMBIGUOUS", "REVIEW_REQUIRED", "REJECTED"}
Strategy == {"CANONICAL_REF", "EXTERNAL_REF", "EXACT", "ALIAS", "DETERMINISTIC",
             "FUZZY", "CREATED", "HUMAN"}

\* mentionId: a digest of the scope, the promotion and the spelling.
MentionId(env, n) == <<env.scope, env.key, n>>

\* norm_key: a key, with the discriminator `#mention' or without.
PlainKey(k) == [base |-> k, mention |-> Nothing]

Visible(r) == entities[r].origin = "legacy" \/ r \in published

-----------------------------------------------------------------------------
(* Requests that are refused before anything is read.  A confidence is the  *)
(* set of the one number given, in hundredths, or empty.                   *)

\* optionalConfidence
ValidConfidence(c) == c \subseteq 0..100

\* validateResolveTo: the shape of an entity reference, known or not.
ValidResolveTo(r) == r \in Ref \cup {NoRef}

\* rejectCanonicalAssignments: only resolveTo may name a canonical reference.
AssignsNothing(cand) == cand.assigns = {}

\* validateEntityCandidate
ValidCandidate(cand) ==
  /\ AssignsNothing(cand) /\ cand.type \in EntityType
  /\ ValidConfidence(cand.confidence) /\ ValidResolveTo(cand.resolveTo)

\* validateRelationCandidate; the ends are candidates of the envelope.
ValidRelation(r, env) ==
  /\ ValidConfidence(r.confidence)
  /\ {r.from, r.to} \subseteq {env.entities[i].name : i \in DOMAIN env.entities}

\* requireProofRef: the proof is in the namespace of the caller that writes.
ProofIsOwn(env) == env.proof = env.caller

\* validatePromotionRequest and the checks of promoteCandidate: no name is
\* given to two different candidates.
ValidPromotion(env) ==
  /\ ProofIsOwn(env)
  /\ \A i, j \in DOMAIN env.entities : env.entities[i].name = env.entities[j].name => i = j
  /\ \A i \in DOMAIN env.entities : ValidCandidate(env.entities[i])
  /\ \A r \in env.relations : ValidRelation(r, env)

-----------------------------------------------------------------------------
(* The ladder. *)

Confidence ==
  [EXTERNAL_REF |-> 98, EXACT |-> 95, ALIAS |-> 92, DETERMINISTIC |-> 88]

Rungs == <<"EXTERNAL_REF", "EXACT", "ALIAS", "DETERMINISTIC">>

Matches(rung, cand, row) ==
  \/ rung = "EXTERNAL_REF" /\ cand.externalRefs \cap row.externalRefs # {}
  \/ rung = "EXACT" /\ surface[row.name] = surface[cand.name]
  \/ rung = "ALIAS" /\ normKey[cand.name] \in row.aliases
  \/ rung = "DETERMINISTIC" /\ row.norm = PlainKey(normKey[cand.name])

Decision(ref, outcome, strategy) ==
  [ref |-> ref, outcome |-> outcome, strategy |-> strategy]

\* Titles conflict when they still differ after norm_v1; `title' is the key.
Contradicts(cand, row) == row.type # cand.type \/ row.title # cand.title

\* Variant: an entity under review is named all the same.
StringRungNamesReviewed(rung, hits, cand, pool) ==
  LET r == CHOOSE h \in hits : TRUE
  IN  IF Cardinality(hits) > 1 THEN Decision(NoRef, "AMBIGUOUS", rung)
      ELSE IF Contradicts(cand, pool[r]) \/ Confidence[rung] < Floor
           THEN Decision(r, "REVIEW_REQUIRED", rung)
           ELSE Decision(r, "MATCHED", rung)

\* Variant: the contradiction overlay is missing.
StringRungTrusting(rung, hits, cand, pool) ==
  IF Cardinality(hits) > 1 THEN Decision(NoRef, "AMBIGUOUS", rung)
  ELSE IF Confidence[rung] < Floor THEN Decision(NoRef, "REVIEW_REQUIRED", rung)
  ELSE Decision(CHOOSE h \in hits : TRUE, "MATCHED", rung)

StringRung(rung, hits, cand, pool) ==
  LET r == CHOOSE h \in hits : TRUE
  IN  IF Cardinality(hits) > 1 THEN Decision(NoRef, "AMBIGUOUS", rung)
      ELSE IF Contradicts(cand, pool[r]) \/ Confidence[rung] < Floor
           THEN Decision(NoRef, "REVIEW_REQUIRED", rung)
           ELSE Decision(r, "MATCHED", rung)

\* A discriminated key is longer by a mention id and is near nothing here.
Near(cand, pool) ==
  {r \in DOMAIN pool : /\ pool[r].type = cand.type
                       /\ pool[r].norm.mention = Nothing
                       /\ pool[r].norm.base \in near[normKey[cand.name]]}

ResolveEntity(cand, s, pool) ==
  LET hits(i) == {r \in DOMAIN pool : Matches(Rungs[i], cand, pool[r])}
      decisive == {i \in DOMAIN Rungs : hits(i) # {}}
      first == CHOOSE i \in decisive : \A j \in decisive : i <= j
      close == Cardinality(Near(cand, pool))
  IN  IF cand.resolveTo # NoRef
      THEN IF cand.resolveTo \in DOMAIN pool
           THEN Decision(cand.resolveTo, "MATCHED", "CANONICAL_REF")
           ELSE Decision(NoRef, "REJECTED", "CANONICAL_REF")
      ELSE IF decisive # {} THEN StringRung(Rungs[first], hits(first), cand, pool)
      ELSE IF close > 0
      THEN Decision(NoRef, IF close = 1 THEN "REVIEW_REQUIRED" ELSE "AMBIGUOUS", "FUZZY")
      ELSE Decision(EntityRef(s, cand.name), "CREATED", "CREATED")

-----------------------------------------------------------------------------
(* A promotion: decide on the pool that was read, then commit. *)

Put(f, x, v) == [y \in DOMAIN f \cup {x} |-> IF y = x THEN v ELSE f[y]]

NewRow(cand, s) ==
  [scope |-> s, name |-> cand.name, type |-> cand.type, title |-> cand.title,
   summary |-> cand.summary, norm |-> PlainKey(normKey[cand.name]), aliases |-> {},
   externalRefs |-> cand.externalRefs, superseded |-> NoRef, origin |-> "legacy"]

\* lookupResolutionCandidates
Pool(s) ==
  [r \in {e \in DOMAIN entities : /\ entities[e].scope \in broader[s]
                                  /\ entities[e].superseded = NoRef
                                  /\ Visible(e)} |-> entities[r]]

\* What is CREATED joins the working pool for the candidates after it.
Joined(pool, env, cand) ==
  LET d == ResolveEntity(cand, env.scope, pool)
  IN  IF d.outcome = "CREATED" THEN Put(pool, d.ref, NewRow(cand, env.scope)) ELSE pool

\* The working pool as each candidate of an envelope finds it.
WorkingPools(env, pool) ==
  LET at[i \in 1..Len(env.entities) + 1] ==
        IF i = 1 THEN pool ELSE Joined(at[i - 1], env, env.entities[i - 1])
  IN  at

\* The decisions on the candidates of an envelope, in order.
Decide(env, pool) ==
  [i \in DOMAIN env.entities |->
     ResolveEntity(env.entities[i], env.scope, WorkingPools(env, pool)[i])]

\* Variant: the upsert of before, the last writer wins.
FillOverwrites(row, cand) ==
  [row EXCEPT !.summary = IF cand.summary = "" THEN @ ELSE cand.summary,
              !.aliases = @ \cup {normKey[cand.name]},
              !.externalRefs = @ \cup cand.externalRefs]

\* fillExistingEntity: fill what is empty, add to the sets, overwrite nothing.
Fill(row, cand) ==
  [row EXCEPT !.summary = IF @ = "" THEN cand.summary ELSE @,
              !.aliases = @ \cup {normKey[cand.name]},
              !.externalRefs = @ \cup cand.externalRefs]

\* The fields that differ and are not overwritten, kept on the mention row.
Diffs(row, cand) ==
  {f \in {"summary"} : cand.summary # "" /\ row.summary \notin {"", cand.summary}}
  \cup {f \in {"title"} : row.title # cand.title}

\* UNIQUE (scope_key, norm_key)
Holders(ents, row) == {r \in DOMAIN ents : ents[r].scope = row.scope /\ ents[r].norm = row.norm}

\* A new entity whose key a hidden pipeline entity holds is told apart by the
\* discriminator; if a visible entity holds it the transaction is rolled back.
Hidden(ents, r) == ents[r].origin = "pipeline" /\ r \notin published
Inserts(ents, d) == d.ref # NoRef /\ d.ref \notin DOMAIN ents
\* Variant: the test of the winner's visibility is inverted.
LosesToHidden(ents, env, cand, d) ==
  /\ Inserts(ents, d)
  /\ \E r \in Holders(ents, NewRow(cand, env.scope)) : Hidden(ents, r)
Loses(ents, env, cand, d) ==
  /\ Inserts(ents, d)
  /\ \E r \in Holders(ents, NewRow(cand, env.scope)) : ~Hidden(ents, r)

InsertedRow(ents, env, cand) ==
  LET row == NewRow(cand, env.scope)
  IN  IF Holders(ents, row) = {} THEN row
      ELSE [row EXCEPT !.norm.mention = MentionId(env, cand.name)]

\* One candidate of the transaction.
Store(ents, env, cand, d) ==
  IF d.ref = NoRef THEN ents
  ELSE Put(ents, d.ref, IF Inserts(ents, d) THEN InsertedRow(ents, env, cand)
                        ELSE Fill(ents[d.ref], cand))

\* The entities table as the transaction finds it at each candidate; the last
\* one is what it leaves.
Tables(env, made) ==
  LET at[i \in 1..Len(env.entities) + 1] ==
        IF i = 1 THEN entities
        ELSE Store(at[i - 1], env, env.entities[i - 1], made[i - 1])
  IN  at

\* GksNormKeyConflictError
NormKeyConflict(env, made) ==
  \E i \in DOMAIN made : Loses(Tables(env, made)[i], env, env.entities[i], made[i])

MentionRow(ents, cand, d) ==
  [ref |-> d.ref, outcome |-> d.outcome, strategy |-> d.strategy,
   diffs |-> IF d.ref \in DOMAIN ents THEN Diffs(ents[d.ref], cand) ELSE {}]

\* The decision on the candidate of that name.
Made(env, made, n) ==
  made[CHOOSE i \in DOMAIN made : env.entities[i].name = n]

\* A relation between two candidates stands at once if both have a ref, and
\* is held with their mentions otherwise.
Bound(env, made) ==
  {r \in env.relations : /\ Made(env, made, r.from).ref # NoRef
                         /\ Made(env, made, r.to).ref # NoRef}
Relation(s, from, to) == [scope |-> s, from |-> from, to |-> to]
Held(env, r) ==
  [scope |-> env.scope, from |-> MentionId(env, r.from), to |-> MentionId(env, r.to),
   status |-> "PENDING"]

Idle == [at |-> "idle"]

Lookup(c, env, attempt) ==
  call' = [call EXCEPT ![c] = [at |-> "decided", env |-> env, attempt |-> attempt,
                               made |-> Decide(env, Pool(env.scope))]]

\* promoteCandidate up to the end of the await.
Promote(c) ==
  /\ call[c].at = "idle"
  /\ \E env \in Envelope : ValidPromotion(env) /\ Lookup(c, env, 1)
  /\ UNCHANGED <<entities, published, mentions, relations, pending, promotions, decisions>>

Stored(env) == \E p \in promotions : p.scope = env.scope /\ p.key = env.key

\* canonicalMappings: what the promotion answers, frozen in its row.
Mappings(env, made) ==
  [i \in DOMAIN made |->
     [name |-> env.entities[i].name, ref |-> made[i].ref, outcome |-> made[i].outcome]]

\* The promotions row.
PromotionRow(env, made) ==
  [scope |-> env.scope, key |-> env.key, candidate |-> env.entities,
   mappings |-> Mappings(env, made)]

\* transactPromotion: a replay answers from the stored row.
Replay(c) ==
  /\ call[c].at = "decided" /\ Stored(call[c].env)
  /\ call' = [call EXCEPT ![c] = Idle]
  /\ UNCHANGED <<entities, published, mentions, relations, pending, promotions, decisions>>

Commit(c) ==
  LET env == call[c].env
      made == call[c].made
      table == Tables(env, made)
      ids == {MentionId(env, env.entities[i].name) : i \in DOMAIN made}
      row(m) == LET i == CHOOSE j \in DOMAIN made : env.entities[j].name = m[3]
                IN  MentionRow(table[i], env.entities[i], made[i])
  IN  /\ call[c].at = "decided" /\ ~Stored(env) /\ ~NormKeyConflict(env, made)
      /\ entities' = table[Len(env.entities) + 1]
      /\ mentions' = [m \in DOMAIN mentions \cup ids |-> IF m \in ids THEN row(m) ELSE mentions[m]]
      /\ relations' = relations \cup
           {Relation(env.scope, Made(env, made, r.from).ref, Made(env, made, r.to).ref) :
              r \in Bound(env, made)}
      /\ pending' = pending \cup {Held(env, r) : r \in env.relations \ Bound(env, made)}
      /\ promotions' = promotions \cup {PromotionRow(env, made)}
      /\ call' = [call EXCEPT ![c] = Idle]
      /\ UNCHANGED <<published, decisions>>

\* The race for a norm key is lost: read again and decide again, or give up.
LoseRace(c) ==
  /\ call[c].at = "decided" /\ ~Stored(call[c].env)
  /\ NormKeyConflict(call[c].env, call[c].made)
  /\ IF call[c].attempt < Retries
     THEN call' = [call EXCEPT ![c].at = "again"]
     ELSE call' = [call EXCEPT ![c] = Idle]
  /\ UNCHANGED <<entities, published, mentions, relations, pending, promotions, decisions>>

\* The lookup of the next attempt.
Retry(c) ==
  /\ call[c].at = "again"
  /\ Lookup(c, call[c].env, call[c].attempt + 1)
  /\ UNCHANGED <<entities, published, mentions, relations, pending, promotions, decisions>>

-----------------------------------------------------------------------------
(* Human decisions. *)

Unresolved(m) ==
  mentions[m].ref = NoRef /\ mentions[m].outcome \in {"REVIEW_REQUIRED", "AMBIGUOUS"}

MentionScope(m) == m[1]
MentionKey(m) == normKey[m[3]]

\* Variant: levels are compared, the tenant is not.
WithinLevel(rowScope, s) == Cardinality(broader[rowScope]) <= Cardinality(broader[s])

\* withinRequestScope and inMentionPool
Within(rowScope, s) == rowScope \in broader[s]

\* followSupersession: the live head of a chain of merges.
Survivor(ents, r) ==
  LET head[e \in DOMAIN ents] ==
        IF ents[e].superseded = NoRef THEN e ELSE head[ents[e].superseded]
  IN  head[r]

\* Variant: only the source end is looked for.
MaterializedFrom(m, bound) ==
  {p \in pending : /\ p.status = "PENDING" /\ m = p.from
                   /\ bound[p.from].ref # NoRef /\ bound[p.to].ref # NoRef}

\* materializePendingFor, once mention m is bound.
Materialized(m, bound) ==
  {p \in pending : /\ p.status = "PENDING" /\ m \in {p.from, p.to}
                   /\ bound[p.from].ref # NoRef /\ bound[p.to].ref # NoRef}

\* unionIdentityEvidence: names are added to an entity, none is taken away.
WithEvidence(row, aliases, externalRefs) ==
  [row EXCEPT !.aliases = @ \cup aliases, !.externalRefs = @ \cup externalRefs]

\* The mention row once a human has decided.
HumanDecision(row, r) == [row EXCEPT !.ref = r, !.outcome = "MATCHED", !.strategy = "HUMAN"]

Bind(s, m, r) ==
  /\ Within(MentionScope(m), s) /\ Unresolved(m)
  /\ Visible(r) /\ Within(entities[r].scope, MentionScope(m))
  /\ entities[r].superseded = NoRef
  /\ mentions' = [mentions EXCEPT ![m] = HumanDecision(@, r)]
  /\ entities' = [entities EXCEPT ![r] = WithEvidence(@, {MentionKey(m)}, {})]
  /\ relations' = relations \cup
       {Relation(p.scope, Survivor(entities, mentions'[p.from].ref),
                          Survivor(entities, mentions'[p.to].ref)) : p \in Materialized(m, mentions')}
  /\ pending' = {IF p \in Materialized(m, mentions') THEN [p EXCEPT !.status = "MATERIALIZED"] ELSE p :
                   p \in pending}
  /\ decisions' = decisions \cup {[action |-> "BIND", what |-> m, ref |-> r]}
  /\ UNCHANGED <<published, promotions, call>>

\* Variant: the loser's own key is forgotten.
AbsorbAliases(row, loser) == WithEvidence(row, loser.aliases, loser.externalRefs)

\* The survivor takes over the names of the loser.  The discriminator is cut
\* off at the first '#', which norm_v1 leaves in a key like any other letter:
\* of a key that has one itself only what is before it is handed on, if anything.
Absorb(row, loser) ==
  WithEvidence(row, beforeHash[loser.norm.base] \cup loser.aliases, loser.externalRefs)

\* validateHumanResolutionRequest: a merge names two different entities.
ValidMerge(survivor, loser) == survivor # loser

\* Variant: an entity may be merged away twice.
MergeableAgain(s, survivor, loser) ==
  /\ ValidMerge(survivor, loser)
  /\ Visible(survivor) /\ Visible(loser)
  /\ Within(entities[survivor].scope, s) /\ Within(entities[loser].scope, s)
  /\ entities[survivor].superseded = NoRef
  /\ entities[loser].origin # "pipeline"

Mergeable(s, survivor, loser) ==
  /\ ValidMerge(survivor, loser)
  /\ Visible(survivor) /\ Visible(loser)
  /\ Within(entities[survivor].scope, s) /\ Within(entities[loser].scope, s)
  /\ entities[survivor].superseded = NoRef /\ entities[loser].superseded = NoRef
  /\ entities[loser].origin # "pipeline"

\* A relation of the loser becomes one of the survivor; a twin absorbs it.
Repointed(r, survivor, loser) ==
  LET end(e) == IF e = loser THEN survivor ELSE e
  IN  Relation(r.scope, end(r.from), end(r.to))

Merge(s, survivor, loser) ==
  /\ Mergeable(s, survivor, loser)
  /\ entities' = [entities EXCEPT ![loser].superseded = survivor,
                                  ![survivor] = Absorb(@, entities[loser])]
  /\ relations' = {Repointed(r, survivor, loser) : r \in relations}
  /\ decisions' = decisions \cup {[action |-> "MERGE", what |-> loser, ref |-> survivor]}
  /\ UNCHANGED <<published, mentions, pending, promotions, call>>

-----------------------------------------------------------------------------
(* Reads.  The adapter hides what is unpublished, the service what is out   *)
(* of the scope of the request: the first answers like a missing row, the   *)
(* second is denied.  A name stands for the text that a search looks for.   *)

\* visible: the row is at the scope of the request or broader.
VisibleFrom(rowScope, s) == rowScope \in broader[s]

\* getEntity of the adapter
VisibleByRef(r) == {e \in DOMAIN entities : e = r /\ Visible(e)}

\* search of the adapter: one portfolio, and text of the row.
Found(n, portfolio) ==
  {e \in DOMAIN entities : /\ tenant[entities[e].scope] = portfolio /\ Visible(e)
                           /\ n \in {entities[e].name, entities[e].title, entities[e].summary}}

\* getRelations of the adapter: a relation with a hidden end is left out.
Touching(r) ==
  {q \in relations : /\ r \in {q.from, q.to}
                     /\ ~ \E e \in DOMAIN entities : e \in {q.from, q.to} /\ ~Visible(e)}

Denied(r, s) == \E e \in VisibleByRef(r) : ~VisibleFrom(entities[e].scope, s)

search(n, s) == {e \in Found(n, tenant[s]) : VisibleFrom(entities[e].scope, s)}

getEntity(r, s) == IF Denied(r, s) THEN {} ELSE VisibleByRef(r)

getRelations(r, s) ==
  IF Denied(r, s) THEN {} ELSE {q \in Touching(r) : VisibleFrom(q.scope, s)}

\* listUnresolvedMentions: the review queue.
listUnresolvedMentions(s) == {m \in DOMAIN mentions : Within(MentionScope(m), s) /\ Unresolved(m)}

-----------------------------------------------------------------------------
(* What the GenesisRAG17 pipeline does to the shared table. *)

\* transactPipelineSubmit inserts an entity that nobody sees yet, unless its
\* key is held.
PipelineSubmit(r) ==
  /\ r \notin DOMAIN entities /\ Holders(entities, Pipeline[r]) = {}
  /\ entities' = Put(entities, r, Pipeline[r])
  /\ UNCHANGED <<published, mentions, relations, pending, promotions, decisions, call>>

\* transactPipelinePublicationReceipt
PipelinePublish(r) ==
  /\ r \in DOMAIN entities \ published
  /\ published' = published \cup {r}
  /\ UNCHANGED <<entities, mentions, relations, pending, promotions, decisions, call>>

-----------------------------------------------------------------------------

EmptyTable == [x \in {} |-> x]

Init ==
  /\ entities = EmptyTable /\ published = {}
  /\ mentions = EmptyTable /\ relations = {} /\ pending = {}
  /\ promotions = {} /\ decisions = {}
  /\ call = [c \in Caller |-> Idle]

Next ==
  \/ \E c \in Caller : Promote(c) \/ Replay(c) \/ Commit(c) \/ LoseRace(c) \/ Retry(c)
  \/ \E s \in Scope, m \in DOMAIN mentions, r \in DOMAIN entities : Bind(s, m, r)
  \/ \E s \in Scope, v, l \in DOMAIN entities : Merge(s, v, l)
  \/ \E r \in DOMAIN Pipeline : PipelineSubmit(r) \/ PipelinePublish(r)

Spec == Init /\ [][Next]_vars

-----------------------------------------------------------------------------
(* Properties. *)

\* Rows have the shape of their tables, and refs point at rows.
TypeOK ==
  /\ DOMAIN entities \subseteq Ref /\ published \subseteq DOMAIN entities
  /\ \A r \in DOMAIN entities :
       /\ entities[r].scope \in Scope /\ entities[r].name \in Name
       /\ entities[r].type \in EntityType
       /\ entities[r].aliases \subseteq Alias
       /\ entities[r].superseded \in DOMAIN entities \cup {NoRef}
  /\ \A m \in DOMAIN mentions :
       /\ mentions[m].ref \in DOMAIN entities \cup {NoRef}
       /\ mentions[m].outcome \in Outcome /\ mentions[m].strategy \in Strategy
       /\ mentions[m].ref = NoRef <=> mentions[m].outcome \notin {"MATCHED", "CREATED"}
  /\ \A r \in relations : r.scope \in Scope /\ {r.from, r.to} \subseteq DOMAIN entities
  /\ \A p \in pending : {p.from, p.to} \subseteq DOMAIN mentions
  /\ DOMAIN mentions =
       UNION {{<<p.scope, p.key, p.mappings[i].name>> : i \in DOMAIN p.mappings} : p \in promotions}
  /\ \A c \in Caller : call[c].at \in {"idle", "decided", "again"}

\* However promotions race, a scope never holds a norm key twice, and two
\* entities of one key beside each other are both known to the pipeline's
\* discriminator: there is no silent over-split (transactPromotion, decision 5
\* of the ADR).
OneEntityPerKey ==
  \A a, b \in DOMAIN entities :
    a # b /\ entities[a].scope = entities[b].scope =>
      /\ entities[a].norm # entities[b].norm
      /\ entities[a].norm.base = entities[b].norm.base =>
           \E p \in DOMAIN entities : /\ entities[p].scope = entities[a].scope
                                      /\ entities[p].norm = PlainKey(entities[a].norm.base)
                                      /\ entities[p].origin = "pipeline"

\* A string rung never matches across a different type or title, whatever was
\* committed between its lookup and its transaction (decision 1, the overlay),
\* unless it matched what an earlier candidate of its envelope was to create
\* and that candidate came upon a stored entity it contradicts; and what a
\* replay answers is what the mention still says, unless a human settled what
\* the answer left open (D4, D7).
MatchesAgree ==
  \A p \in promotions : \A i \in DOMAIN p.mappings :
    LET cand == p.candidate[i]
        row == mentions[<<p.scope, p.key, cand.name>>]
    IN  /\ \/ row.ref = p.mappings[i].ref /\ row.outcome = p.mappings[i].outcome
           \/ p.mappings[i].ref = NoRef /\ row.strategy = "HUMAN"
        /\ row.outcome = "MATCHED" /\ row.strategy \in DOMAIN Confidence =>
             \/ ~Contradicts(cand, entities[row.ref])
             \/ \E j \in 1..(i - 1) : /\ p.mappings[j].outcome = "CREATED"
                                      /\ p.mappings[j].ref = row.ref
                                     /\ Contradicts(p.candidate[j], entities[row.ref])

\* No decision, race or merge binds across scopes: the ref a mention is bound
\* to can be read from its scope from then on, relations and merges stay
\* within a tenant, also a relation that waited while its ends were merged,
\* and whatever the reads of a scope return, of one entity, of its relations,
\* of a search or of the review queue, leads to no row of another tenant and
\* to no entity of an unpublished run (D5, decision 8).
TenantWall ==
  /\ \A m \in DOMAIN mentions :
       mentions[m].ref # NoRef => mentions[m].ref \in getEntity(mentions[m].ref, MentionScope(m))
  /\ \A s \in Scope :
       LET read(r) == getEntity(r, s) \cup UNION {{q.from, q.to} : q \in getRelations(r, s)}
           seen == (UNION {read(r) : r \in DOMAIN entities}) \cup UNION {search(n, s) : n \in Name}
       IN  /\ \A e \in seen : tenant[entities[e].scope] = tenant[s] /\ Visible(e)
           /\ \A m \in listUnresolvedMentions(s) : tenant[MentionScope(m)] = tenant[s]
  /\ \A r \in relations, e \in DOMAIN entities :
       e \in {r.from, r.to} => tenant[entities[e].scope] = tenant[r.scope]
  /\ \A e \in DOMAIN entities :
       entities[e].superseded # NoRef =>
         tenant[entities[entities[e].superseded].scope] = tenant[entities[e].scope]

\* Through any chain of merges, the last survivor answers to the key of every
\* entity it absorbed, directly or not, up to the first '#' of that key, and is
\* live and visible (MERGE, the survivor absorbs the loser's identity evidence).
SurvivorAnswers ==
  \A e \in DOMAIN entities :
    entities[e].superseded # NoRef =>
      LET s == Survivor(entities, e)
      IN  /\ entities[s].superseded = NoRef /\ Visible(s)
          /\ beforeHash[entities[e].norm.base] \subseteq entities[s].aliases
          /\ [action |-> "MERGE", what |-> e, ref |-> entities[e].superseded] \in decisions

\* A relation is held exactly as long as an end is open; once materialised it
\* stands between what its ends mean now, whatever was merged since (D10).
HeldRelations ==
  \A p \in pending :
    LET from == mentions[p.from].ref
        to == mentions[p.to].ref
    IN  /\ p.status = "PENDING" <=> NoRef \in {from, to}
        /\ p.status = "MATERIALIZED" =>
             Relation(p.scope, Survivor(entities, from), Survivor(entities, to)) \in relations

RowsAdd ==
  \A r \in DOMAIN entities :
    LET old == entities[r]
        new == entities'[r]
    IN  /\ r \in DOMAIN entities'
        /\ new = [old EXCEPT !.summary = new.summary, !.aliases = new.aliases,
                             !.externalRefs = new.externalRefs, !.superseded = new.superseded]
        /\ old.summary \in {"", new.summary}
        /\ old.aliases \subseteq new.aliases /\ old.externalRefs \subseteq new.externalRefs
        /\ old.superseded \in {NoRef, new.superseded}
MentionsAdd ==
  \A m \in DOMAIN mentions :
    /\ m \in DOMAIN mentions'
    /\ \/ mentions'[m] = mentions[m]
       \/ /\ Unresolved(m)
          /\ [action |-> "BIND", what |-> m, ref |-> mentions'[m].ref] \in decisions'

\* Writes to what is stored only add: an entity keeps its name, type, title
\* and any summary it has, a decided mention stays as decided, a mention is
\* settled later only by a recorded human decision, and a merge is not undone
\* (decisions 4 and 7, D9).
OnlyAdds == [][RowsAdd /\ MentionsAdd]_vars

\* Resolution implements IdentityClasses: an entity is represented by the end
\* of its chain of merges, a mention means the representative of its entity.
Meaning(m) == IF mentions[m].ref = NoRef THEN NoRef ELSE Survivor(entities, mentions[m].ref)
Identity == INSTANCE IdentityClasses WITH
  Open <- NoRef,
  rep <- [r \in DOMAIN entities |-> Survivor(entities, r)],
  meaning <- [m \in DOMAIN mentions |-> Meaning(m)]
ImplementsIdentityClasses == Identity!Spec

-----------------------------------------------------------------------------
(* What comments of the code say, and is not so. *)

\* "After a lost uniqueness race the winner is in the pool and the ladder
\* matches it": the last attempt of a promotion does not lose again.
LoserMatchesWinner ==
  \A c \in Caller :
    call[c].at = "decided" /\ call[c].attempt = Retries /\ ~Stored(call[c].env) =>
      ~NormKeyConflict(call[c].env, call[c].made)

=============================================================================
