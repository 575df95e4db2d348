---------------------------- MODULE MCResolution ----------------------------
(***************************************************************************)
(* Instances of Resolution.  Scope "biz" is broader than "team"; "rival"   *)
(* belongs to another tenant.  `acme' and `acmeinc' have one norm key, and *)
(* `acme#' is near it.  A configuration chooses the envelopes.             *)
(***************************************************************************)
EXTENDS Resolution, TLC

CONSTANTS Chosen, ChosenPipeline

CallerSymmetry == Permutations(Caller)

MCScope == {"biz", "team", "rival"}
MCTenant == [s \in MCScope |-> IF s = "rival" THEN "R" ELSE "T"]
MCBroader == [s \in MCScope |-> IF s = "team" THEN {"biz", "team"} ELSE {s}]

MCName == {"acme", "acmeinc", "acme#", "bolt"}
MCSurface == [n \in MCName |-> n]
MCNormKey == [n \in MCName |-> IF n = "acmeinc" THEN "acme" ELSE n]
MCNear ==
  [k \in {"acme", "acme#", "bolt"} |->
     CASE k = "acme" -> {"acme", "acme#"} [] k = "acme#" -> {"acme", "acme#"} [] OTHER -> {k}]

MCBeforeHash == [k \in {"acme", "acme#", "bolt"} |-> IF k = "acme#" THEN {"acme"} ELSE {k}]

Cand(n, title) ==
  [name |-> n, type |-> "ORG", title |-> title, summary |-> "", externalRefs |-> {},
   resolveTo |-> <<>>, confidence |-> {}, assigns |-> {}]
Link(a, b) == [from |-> a, to |-> b, confidence |-> {90}]
Env(s, k, es, rs) ==
  [scope |-> s, key |-> k, entities |-> es, relations |-> rs, caller |-> "msp", proof |-> "msp"]

AllEnvelopes ==
  [plain |-> Env("team", "plain", <<[Cand("acme", "t1") EXCEPT !.externalRefs = {"x"}]>>, {}),
   pair |-> Env("team", "pair", <<[Cand("acmeinc", "t1") EXCEPT !.summary = "s2"], Cand("acme#", "t3")>>,
                {Link("acmeinc", "acme#")}),
   broad |-> Env("biz", "broad", <<[Cand("acme", "t2") EXCEPT !.externalRefs = {"x"}]>>, {}),
   wide |-> Env("biz", "wide", <<Cand("acme", "t1")>>, {}),
   wideinc |-> Env("biz", "wideinc", <<Cand("acmeinc", "t1")>>, {}),
   rival |-> Env("rival", "rival",
                 <<Cand("acme", "t1"),
                   [Cand("bolt", "t4") EXCEPT !.resolveTo = EntityRef("team", "acme")]>>,
                 {Link("acme", "bolt")})]
\* Envelopes that are refused.
Refused ==
  [forged |-> [AllEnvelopes["plain"] EXCEPT !.key = "forged", !.proof = "other"],
   odd |-> Env("team", "odd", <<[Cand("bolt", "t4") EXCEPT !.type = "COMPANY"]>>, {}),
   assigned |-> Env("team", "assigned", <<[Cand("bolt", "t4") EXCEPT !.assigns = {"canonicalRef"}]>>, {}),
   loose |-> Env("team", "loose", <<Cand("bolt", "t4")>>, {Link("bolt", "acme")})]
MCEnvelope == {AllEnvelopes[e] : e \in Chosen} \cup {Refused[e] : e \in DOMAIN Refused}

MCPipeline ==
  [r \in {<<p, "acme">> : p \in ChosenPipeline} |->
     [scope |-> "team", name |-> "acme", type |-> "ORG", title |-> "t1", summary |-> "p",
      norm |-> PlainKey("acme"), aliases |-> {}, externalRefs |-> {}, superseded |-> NoRef,
      origin |-> "pipeline"]]
=============================================================================
