----------------------------- MODULE MCPipeline -----------------------------
(***************************************************************************)
(* Instances of Pipeline for TLC.                                          *)
(*   One*   one batch, several callers: the whole protocol of a decision.  *)
(*   Many*  batches that share keys, ids, runs, attempts and entities      *)
(*          across three scopes: submit, Stage 9 reuse and stage failures. *)
(***************************************************************************)
EXTENDS Pipeline, TLC

CallerSymmetry == Permutations(Caller)

OneScope == {"s"}
OneBatch == {"b"}
OneOf(value) == [b \in OneBatch |-> value]
OneScopeOf == OneOf("s")
OneMentions == OneOf({"alice"})
OneSlug == OneOf("alice")
OnePolicy == OneOf(TRUE)
\* One receipt that passes and one that leaves facts held.
OneQuality == OneOf([w \in WorkerReceipt |-> IF w = "good" THEN "PASS" ELSE "WARN"])
OneName == OneOf("x")
OneAttempt == OneOf([s \in Stage |-> "x"])
OneLegacy == [s \in OneScope |-> "w"]
OnePool == [s \in OneScope |-> {"w"}]

\* Scopes of two agents in workspace w, and one of the whole business.
ManyScope == {"agent1", "agent2", "business"}
ManyLegacy == [s \in ManyScope |-> IF s = "business" THEN "all" ELSE "w"]
ManyPool == [s \in ManyScope |-> IF s = "business" THEN {"all"} ELSE {"w", "all"}]

\* b1edit repeats the key of b1 with other content.  b1run is another batch of
\* the run of b1 with later attempts of Stages 9 to 12, and shares the attempts
\* of the rest.  Two batch ids are used again by others: two batches are stored.
ManyBatch == {"b1", "b1edit", "b1run", "b2", "b3"}
ManyScopeOf == [b \in ManyBatch |->
  CASE b = "b2" -> "agent2" [] b = "b3" -> "business" [] OTHER -> "agent1"]
ManyMentions == [b \in ManyBatch |-> IF b = "b2" THEN {"alice", "acme"} ELSE {"alice"}]
\* b1run spells what it mentions differently.
ManySlug == [b \in ManyBatch |-> IF b = "b1run" THEN "Alice" ELSE "alice"]
ManyKey == [b \in ManyBatch |-> IF b = "b1edit" THEN "b1" ELSE b]
ManyId == [b \in ManyBatch |-> IF b \in {"b1", "b2"} THEN "b1" ELSE "b1run"]
ManyRun == [b \in ManyBatch |-> IF b = "b1run" THEN "b1" ELSE b]
ManyAttempt == [b \in ManyBatch |-> [s \in Stage |->
  IF b = "b1run" /\ s \in 9..12 THEN "second" ELSE "first"]]
ManyPolicy == [b \in ManyBatch |-> TRUE]
ManyQuality == [b \in ManyBatch |-> [w \in WorkerReceipt |-> "PASS"]]
=============================================================================
