----------------------------- MODULE StageRules -----------------------------
(***************************************************************************)
(* The text rules of GenesisRAG17 Stages 10 to 12: which claims a chunk    *)
(* makes (rule_v1), what a raw predicate means and which types it joins    *)
(* (the ontology tables), and the valid time a chunk states.               *)
(* packages/gks-core/src/pipeline.mjs and temporal.mjs.                     *)
(*                                                                         *)
(* A text is a sequence of tokens.  A token is the name of an entity, a    *)
(* relation word, a negation, a mark that ends a sentence, a date, or      *)
(* anything else.  "record" stands for the head of the structured form:    *)
(* the three tokens after it are its subject, predicate and object.  A     *)
(* mention is an occurrence of a name: its id, the chunk it is in, where it *)
(* is (`at`), its resolution key and its type.                              *)
(***************************************************************************)
EXTENDS Lists, FiniteSetsExt

CONSTANT Day        \* the tokens that look like ISO dates, to their day; 0: no such day

ASSUME DayAssumption == "" \notin DOMAIN Day /\ \A d \in DOMAIN Day : Day[d] \in Nat

RelationWord == {"works for", "bought"}
SentenceEnd  == {".", "?"}
Negation     == {"never", "no"}
DenialOfRecord == {"never"}      \* the shorter list the structured form is held to
VagueTime    == {"yesterday"}

Alias == [w \in RelationWord \cup {"has component", "priced at"} |->
            CASE w = "works for" -> "WORKS_FOR"
              [] w = "bought" -> "PURCHASED"
              [] w = "has component" -> "HAS_COMPONENT"
              [] OTHER -> "PRICED_AT"]

Ontology ==
  LET v1 == {<<"WORKS_FOR", "PERSON", "ORGANIZATION">>}
              \cup ({"PURCHASED"} \X {"PERSON", "ORGANIZATION"} \X {"PRODUCT"})
  IN [ontology_v1 |-> v1,
      ontology_v2 |-> v1
        \cup {<<"HAS_COMPONENT", "PACKAGE", "PRODUCT">>}
        \cup ({"PRICED_AT"} \X {"PRODUCT", "PACKAGE"} \X {"PRICE_TIER"})
        \cup ({"IN_CATEGORY"} \X {"PRODUCT", "PACKAGE"} \X {"CATEGORY"})]

ValidEndpoint(version, predicate, subjectType, objectType) ==
  version \in DOMAIN Ontology /\ <<predicate, subjectType, objectType>> \in Ontology[version]

explicit    == 90
structured  == 85
inferredMax == 70
writeFloor  == 80

-----------------------------------------------------------------------------
(* The sentence around position p, and the mentions next to a boundary.  A  *)
(* mention that may be missing is a set of at most one mention.             *)

SentenceFrom(text, p) == Max({0} \cup {i \in 1 .. p - 1 : text[i] \in SentenceEnd}) + 1
SentenceTo(text, p)   == Min({Len(text)} \cup {i \in p + 1 .. Len(text) : text[i] \in SentenceEnd})

NearestBefore(ms, p) == LET E == {m \in ms : m.at < p}
                        IN {m \in E : \A n \in E : n.at <= m.at}
NearestAfter(ms, p)  == LET E == {m \in ms : m.at > p}
                        IN {m \in E : \A n \in E : n.at >= m.at}

(* The first of some mentions, in the order of the batch (sorts are stable). *)
First(ms, S) == Keep(ms, LAMBDA m : m \in S)[1]

TokensAt(text, a, b) == {text[i] : i \in {j \in DOMAIN text : a <= j /\ j <= b}}

(* occurrenceMatches: the mentions of a name, in the order of the batch.    *)
Occurrences(text, ms, name) == Keep(ms, LAMBDA m : text[m.at] = name)

(* The structured form, when its subject and its object are both mentioned. *)
StructuredClaims(text, ms) ==
  LET heads == {i \in DOMAIN text : text[i] = "record" /\ i + 3 <= Len(text)}
      h     == Min(heads)
      subjects == Occurrences(text, ms, text[h + 1])
      objects  == Occurrences(text, ms, text[h + 3])
  IN IF \/ heads = {}
        \/ \E i \in DOMAIN text : text[i] \in {"?"} \cup DenialOfRecord
        \/ subjects = <<>> \/ objects = <<>>
     THEN <<>>
     ELSE <<[subject |-> subjects[1], object |-> objects[1], predicate |-> text[h + 2],
             confidence |-> structured, basis |-> "structured", hold |-> ""]>>

(* Variant: the text between the previous object and the verb is not read.  *)
CoordinatedLoose(text, prev, p) == {c.subject : c \in prev}

(* The subject carried over a supported "and" from the previous claim.      *)
Coordinated(text, prev, p) ==
  {c.subject : c \in {d \in prev : SubSeq(text, d.object.at + 1, p - 1)
                                     \in {<<"and">>, <<",", "and">>}}}

(* Variant: a relation is taken whatever denies or questions it.            *)
DeniedNever(text, p, objects) == FALSE

(* A question, or a negation between the start of the sentence and the      *)
(* object (or the end of the sentence when there is none).                  *)
Denied(text, p, objects) ==
  LET a == SentenceFrom(text, p)
      b == SentenceTo(text, p)
      upTo == IF objects = {} THEN b ELSE (CHOOSE o \in objects : TRUE).at - 1
  IN "?" \in TokensAt(text, a, b) \/ TokensAt(text, a, upTo) \cap Negation # {}

(* parseExplicitClaims: one step per relation word, with the previous       *)
(* claim, if it was not ambiguous, in hand.                                 *)
ExplicitStep(text, ms, acc, p) ==
  LET a == SentenceFrom(text, p)
      b == SentenceTo(text, p)
      inside   == {m \in ToSet(ms) : a <= m.at /\ m.at <= b}
      carried  == Coordinated(text, acc.prev, p)
      subjects == IF carried # {} THEN carried ELSE NearestBefore(inside, p)
      objects  == NearestAfter(inside, p)
      subject  == First(ms, subjects)
      object   == First(ms, objects)
      ambiguous == \E c \in acc.prev :
                     /\ a <= c.object.at
                     /\ subject = c.object
                     /\ carried = {}
                     /\ ~ \E m \in inside : c.object.at < m.at /\ m.at < p
      claim == [subject |-> subject, object |-> object, predicate |-> text[p],
                confidence |-> explicit, basis |-> "explicit",
                hold |-> IF ambiguous THEN "ambiguous_subject_binding" ELSE ""]
  IN IF Denied(text, p, objects) \/ subjects = {} \/ objects = {}
     THEN acc
     ELSE [claims |-> Append(acc.claims, claim), prev |-> IF ambiguous THEN {} ELSE {claim}]

(* What is known up to each position, from left to right.                   *)
ExplicitUpTo(text, ms) ==
  LET upTo[p \in 0 .. Len(text)] ==
        IF p = 0 THEN [claims |-> <<>>, prev |-> {}]
        ELSE IF text[p] \in RelationWord THEN ExplicitStep(text, ms, upTo[p - 1], p)
        ELSE upTo[p - 1]
  IN upTo

ExplicitClaims(text, ms) == ExplicitUpTo(text, ms)[Len(text)].claims

(* Stage 10 for one chunk: the structured form, else the sentences, else    *)
(* the two first mentions of the chunk as an inferred claim.                *)
ChunkClaims(text, ms) ==
  LET s == StructuredClaims(text, ms)
      e == ExplicitClaims(text, ms)
  IN CASE s # <<>> -> s
       [] s = <<>> /\ e # <<>> -> e
       [] s = <<>> /\ e = <<>> /\ Len(ms) >= 2 ->
            <<[subject |-> ms[1], object |-> ms[2], predicate |-> "INFERRED",
               confidence |-> inferredMax, basis |-> "inferred", hold |-> ""]>>
       [] OTHER -> <<>>

-----------------------------------------------------------------------------
(* Stage 12.  The first two dates of the chunk bound the claim; time that   *)
(* is only worded cannot be mapped.  0 stands for no bound.                 *)

Dates(text) == Keep(text, LAMBDA w : w \in DOMAIN Day)

(* compareTemporalOrder, for the two bounds Stage 12 passes it.             *)
TemporalErrors(from, to) ==
     (IF from # "" /\ Day[from] = 0 THEN {"validFrom"} ELSE {})
  \cup (IF to # "" /\ Day[to] = 0 THEN {"validTo"} ELSE {})
  \cup (IF from # "" /\ to # "" /\ Day[from] > 0 /\ Day[to] > 0 /\ Day[from] > Day[to]
        THEN {"order"} ELSE {})

temporalClaim(text) ==
  LET ds   == Dates(text)
      from == IF ds = <<>> THEN "" ELSE ds[1]
      to   == IF Len(ds) > 1 THEN ds[2] ELSE ""
      status == CASE ds # <<>> -> "mapped"
                  [] ds = <<>> /\ ToSet(text) \cap VagueTime # {} -> "unmapped"
                  [] OTHER -> "not_applicable"
  IN [from |-> from, to |-> to, status |-> status, errors |-> TemporalErrors(from, to)]
=============================================================================
