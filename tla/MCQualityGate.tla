--------------------------- MODULE MCQualityGate ---------------------------
(* QualityGate over small texts: one or two clauses that may be denied,     *)
(* asked, dated and coordinated, the structured form, and pairs of chunks   *)
(* that speak of the same entities.                                         *)
EXTENDS QualityGate

MCDay  == [d1 |-> 1, d2 |-> 2, dx |-> 0]
MCfolded == [Alice |-> <<"alice">>, ALICE |-> <<"alice">>, Acme |-> <<"acme">>, Beta |-> <<"beta">>,
             Widget |-> <<"widget">>, The |-> <<"the">>, a |-> <<"a">>, Borisat |-> <<"borisat">>,
             CoLtd |-> <<"co", "ltd">>, AS |-> <<"as">>]
MCType == [Alice |-> "PERSON", ALICE |-> "PERSON", Acme |-> "ORGANIZATION",
           Beta |-> "ORGANIZATION", Widget |-> "PRODUCT"]

Glue(parts) == {FlattenSeq(p) : p \in parts}
Ending == {<<>>, <<"?">>, <<".">>, <<"d1">>, <<"d2", "d1">>, <<"dx">>, <<"yesterday">>}
Joint  == {<<"and">>, <<",">>, <<",", "and">>, <<".">>, <<"and", "Beta">>, <<"never">>, <<"or">>}
Clause == Glue({<<"works for">>} \X {<<"Acme">>}) \cup Glue({<<"bought">>} \X {<<"Widget">>, <<"Acme">>})

OneClause  == Glue({<<>>, <<"Alice">>, <<"no", "Alice">>, <<"Alice", "never">>} \X Clause \X Ending)
TwoClauses == Glue({<<"Alice">>, <<"Alice", "never">>} \X Clause \X Joint \X Clause \X {<<>>, <<"?">>, <<"d1">>})
Records    == Glue({<<"record">>} \X {<<"Alice">>, <<"Nobody">>} \X {<<"works for">>, <<"priced at">>, <<"likes">>}
                   \X {<<"Acme">>} \X {<<>>, <<"never">>, <<"no">>, <<"d1", "d2">>})
Chained    == Glue({<<"Alice">>} \X {<<"works for", "Acme">>} \X Joint \X {<<"works for", "Beta">>}
                   \X Joint \X {<<"bought", "Widget">>})
Second     == {<<"Widget">>, <<"ALICE", "bought", "Widget">>, <<"ALICE", "Acme", "d1">>, <<"word">>}

MCScope == [portfolioId |-> "p", tenantId |-> "t", businessId |-> "b", workspaceId |-> "", agentId |-> "",
            visibility |-> "private"]
MCcredentials == Credentials("relay", "worker")
MCpool == (<< <<"beta">>, "ORGANIZATION">> :> <<"pool", "beta">>)

(* A batch over some texts: the source is the texts one after the other.    *)
StartOf(texts, c) == Len(FlattenSeq(SubSeq(texts, 1, c - 1)))
Names(text) == SetToSortSeq({i \in DOMAIN text : text[i] \in DOMAIN MCType}, <)
ChunkOf(texts, c) ==
  [chunkId |-> <<"c", c>>, parsedArtifactId |-> "parsed", ordinal |-> c, text |-> texts[c],
   contentHash |-> sha256Text(texts[c]), startOffset |-> StartOf(texts, c),
   endOffset |-> StartOf(texts, c) + Len(texts[c])]
MentionOf(texts, c, i) ==
  [sourceMentionId |-> <<c, i>>, resolutionKey |-> <<texts[c][i]>>, semanticType |-> MCType[texts[c][i]],
   name |-> <<texts[c][i]>>, chunkId |-> <<"c", c>>, startOffset |-> i - 1, endOffset |-> i]

Of(texts) ==
  [schemaVersion |-> SchemaVersion, batchId |-> "b1", idempotencyKey |-> "k1", runId |-> "r1",
   extra |-> {}, scope |-> MCScope,
   stages |-> [i \in DOMAIN StageCatalog |->
      [number |-> StageCatalog[i], pipelineStageId |-> StageCatalog[i], run |-> "r1", step |-> "s", attempt |-> "a"]],
   source |-> [sourceId |-> "s", rawArtifactId |-> "raw", parsedArtifactId |-> "parsed", documentId |-> "d",
               version |-> "1", content |-> FlattenSeq(texts), contentHash |-> sha256Text(FlattenSeq(texts))],
   chunks |-> [c \in DOMAIN texts |-> ChunkOf(texts, c)],
   mentions |-> FlattenSeq([c \in DOMAIN texts |->
      [k \in DOMAIN Names(texts[c]) |-> MentionOf(texts, c, Names(texts[c])[k])]]),
   policy |-> [allowEmbedding |-> TRUE, allowPublication |-> TRUE]]

SourceEnvelope == [credential |-> "relay", scope |-> {MCScope},
                   principal |-> [id |-> "msp", role |-> "source", scope |-> MCScope]]
From(b) == [batch |-> b, envelope |-> SourceEnvelope]

Good == Of(<< <<"Alice", "works for", "Acme", "d1">>, <<"ALICE", "bought", "Widget">>, <<"Beta", "hi", "lo">> >>)

(* One word that two mentions read, and a name that ends with a mark, as     *)
(* "Inc." does.                                                             *)
OneWordTwoMentions ==
  [Good EXCEPT !.mentions = Append(@, [@[1] EXCEPT !.sourceMentionId = <<1, 9>>, !.resolutionKey = <<"Beta">>,
                                                   !.semanticType = "ORGANIZATION"])]
MarkInName ==
  LET b == Of(<< <<"Alice", "works for", ".", "and", "bought", "Widget">> >>)
  IN [b EXCEPT !.mentions = Append(@, [@[1] EXCEPT !.sourceMentionId = <<1, 3>>, !.resolutionKey = <<"Acme">>,
                                                   !.semanticType = "ORGANIZATION", !.name = <<".">>,
                                                   !.startOffset = 2, !.endOffset = 3])]

(* A name that is one half of a surrogate pair.                             *)
HalfName ==
  [Good EXCEPT !.mentions = Append(@, [@[1] EXCEPT !.sourceMentionId = <<3, 9>>, !.resolutionKey = <<"Acme">>,
                                                   !.semanticType = "ORGANIZATION", !.chunkId = <<"c", 3>>,
                                                   !.name = <<"hi">>, !.startOffset = 1, !.endOffset = 2])]

Variations ==
  {[Good EXCEPT !.policy.allowEmbedding = FALSE], [Good EXCEPT !.policy.allowPublication = FALSE],
   [Good EXCEPT !.mentions = Reverse(@)], OneWordTwoMentions, MarkInName, HalfName,
   [Good EXCEPT !.chunks[1].ordinal = 5], [Good EXCEPT !.chunks[2].ordinal = 1]}

(* Two mentions under every pair of a few names and many.                   *)
Written == {"Acme", "The", "Borisat", "CoLtd", "AS"}
Names2  == UNION {[1 .. n -> Written] : n \in 1 .. 3}
Some    == {<<"Acme">>, <<"AS">>, <<"The", "CoLtd">>, <<"Borisat", "Acme", "CoLtd">>, <<"The", "Acme", "AS">>}
Named(k, l) ==
  LET b == Of(<< <<"Acme", "Beta">> >>)
  IN [b EXCEPT !.mentions[1].resolutionKey = k, !.mentions[2].resolutionKey = l]

Defects ==
  {[Good EXCEPT !.extra = {"valid_from"}], [Good EXCEPT !.schemaVersion = "v0"], [Good EXCEPT !.batchId = ""],
   [Good EXCEPT !.runId = "r2"], [Good EXCEPT !.scope.tenantId = ""], [Good EXCEPT !.scope.visibility = "public"],
   [Good EXCEPT !.scope = Restrict(@, ScopeKeys \ {"agentId"})],
   [Good EXCEPT !.stages = Reverse(@)], [Good EXCEPT !.stages = Tail(@)], [Good EXCEPT !.stages[2] = Good.stages[1]],
   [Good EXCEPT !.stages[3].attempt = ""], [Good EXCEPT !.stages[3].pipelineStageId = 10],
   [Good EXCEPT !.source.contentHash = <<>>], [Good EXCEPT !.source.documentId = ""],
   [Good EXCEPT !.source.content = Append(@, "hi"), !.source.contentHash = sha256Text(Append(Good.source.content, "hi"))],
   [Good EXCEPT !.chunks = <<>>], [Good EXCEPT !.chunks[2].chunkId = Good.chunks[1].chunkId],
   [Good EXCEPT !.chunks[1].parsedArtifactId = "other"], [Good EXCEPT !.chunks[1].ordinal = 0 - 1],
   [Good EXCEPT !.chunks[1].startOffset = 1], [Good EXCEPT !.chunks[1].endOffset = 40],
   [Good EXCEPT !.chunks[1].contentHash = <<>>],
   [Good EXCEPT !.chunks[3].endOffset = 9, !.chunks[3].text = <<"Beta", "hi">>, !.chunks[3].contentHash = sha256Text(<<"Beta", "hi">>)],
   [Good EXCEPT !.chunks[3].startOffset = 9, !.chunks[3].text = <<"lo">>, !.chunks[3].contentHash = sha256Text(<<"lo">>)],
   [Good EXCEPT !.chunks[1].startOffset = 4, !.chunks[1].endOffset = 8],
   [Good EXCEPT !.mentions[2].sourceMentionId = Good.mentions[1].sourceMentionId],
   [Good EXCEPT !.mentions[1].chunkId = <<"c", 9>>], [Good EXCEPT !.mentions[1].chunkId = <<"c", 2>>],
   [Good EXCEPT !.mentions[1].startOffset = 1], [Good EXCEPT !.mentions[1].endOffset = 40],
   [Good EXCEPT !.mentions[1].resolutionKey = <<>>],
   [Good EXCEPT !.policy = Restrict(@, {"allowEmbedding"})]}

OtherTenant == [MCScope EXCEPT !.tenantId = "other"]
Envelopes ==
  {[SourceEnvelope EXCEPT !.credential = "worker"], [SourceEnvelope EXCEPT !.scope = {OtherTenant}],
   [SourceEnvelope EXCEPT !.scope = {}], [SourceEnvelope EXCEPT !.principal.role = "worker"],
   [SourceEnvelope EXCEPT !.principal.id = ""], [SourceEnvelope EXCEPT !.principal.scope = OtherTenant]}

Faulted == {From(b) : b \in Variations \cup {Good}}
MCRequest ==
  {From(Of(<<t>>)) : t \in OneClause \cup TwoClauses \cup Records \cup Chained}
  \cup {From(Of(<<t, u>>)) : t \in OneClause, u \in Second}
  \cup {From(Named(k, l)) : k \in Some, l \in Names2}
  \cup Faulted \cup {From(b) : b \in Defects}
  \cup {[batch |-> Good, envelope |-> e] : e \in Envelopes}

MCFaultOn == [r \in MCRequest |-> IF r \in Faulted THEN Fault ELSE {"none"}]
=============================================================================
