------------------------------ MODULE MCService ------------------------------
(***************************************************************************)
(* The plans TLC checks Service with.                                      *)
(***************************************************************************)
EXTENDS Service

MCNormOf == [acme |-> "acme", acmeInc |-> "acme", zen |-> "zen", boltzmann |-> "boltzmann"]

MCStrings == {"a", "jsonrpc", "2.0", "id", "method", "initialize", "notifications/initialized",
              "gks_health", "gks_pipeline_evidence", "promote", "promoteElsewhere", "bind",
              "link", "export"}

\* Scopes: a portfolio, one of its businesses, another portfolio.
ScopeA == [portfolio |-> "A", tenant |-> "t", business |-> ""]
ScopeAx == [ScopeA EXCEPT !.business = "x"]
ScopeAy == [ScopeA EXCEPT !.business = "y"]
NoScopeOfT == [NoScope EXCEPT !.tenant = "t"]
ScopeB == [portfolio |-> "B", tenant |-> "t", business |-> ""]

Entity(ref, scope, cand, at, version) ==
    [ref |-> ref, scope |-> scope, cand |-> cand, at |-> at, version |-> version,
     norm |-> Absent, origin |-> Absent]

Promotion(scope, key, at, version) ==
    [scope |-> scope, key |-> key, hash |-> "h", version |-> version, at |-> at,
     proof |-> MspNamespace, caller |-> Absent]

Upto(n, d) ==
    LET f[k \in 0 .. n] == IF k = 0 THEN d
                           ELSE IF k \in d.applied THEN f[k - 1] ELSE Apply(k, f[k - 1])
    IN  f[n]

\* Before Stage 9: three spellings of one company, two of them in one
\* promotion, and a namesake in another portfolio.
OldRows ==
    [EmptyStore EXCEPT
       !.entities = {Entity(1, ScopeA, "acmeInc", 1, 1), Entity(2, ScopeA, "acme", 1, 1),
                     Entity(3, ScopeB, "acme", 1, 2), Entity(4, ScopeA, "zen", 2, 3)},
       !.promotions = {Promotion(ScopeA, "k1", 1, 1), Promotion(ScopeB, "k1", 1, 2),
                       Promotion(ScopeA, "k2", 2, 3)},
       !.version = 3]
Store1 == [OldRows EXCEPT !.applied = {1}, !.schema = initialTables.creates]

Waiting == mentionId(ScopeA, "k2", "zenn")

\* A store with a bind that was decided between two promotions, in another
\* scope than theirs, and with a mention that waits.
Store4 ==
    LET d == Upto(4, OldRows)
    IN  [d EXCEPT
          !.mentions = @ \cup {[id |-> Waiting, scope |-> ScopeA, ref |-> 0,
                                outcome |-> "AMBIGUOUS", by |-> "PROMOTION"]},
          !.decisions = {[id |-> <<mentionId(ScopeAx, "k0", "zen"), 2, "msp">>, scope |-> ScopeAx, at |-> 1, version |-> 4,
                          proof |-> MspNamespace, caller |-> Absent]},
          !.version = 4]

\* A store with entities that pipeline runs made: two types of one name, and
\* one of the name of a promoted entity; and with one they reused.
Store6 ==
    LET d == Upto(6, Store4)
        Typed(ref, cand, type) ==
          [Entity(ref, ScopeA, cand, 5, 5) EXCEPT !.norm = <<type, cand>>]
    IN  [d EXCEPT
          !.entities = @ \cup {Typed(5, "boltzmann", "person"), Typed(6, "boltzmann", "concept"),
                                Typed(7, "zen", "concept")},
          !.pipelineMentions = {2, 5, 6, 7},
          !.version = 5]

Store8 == Upto(8, Store6)
Made == {5, 6, 7}

(***************************************************************************)
(* Environments, grants and requests.                                      *)
(***************************************************************************)
OpenEnv == [authRequired |-> FALSE, relay |-> None, grants |-> NoGrants, defaultPortfolio |-> None]
Writers == <<"gks_knowledge_promote", "gks_review_apply", "gks_artifact_link", "gks_search">>

GovernedEntry(id, credential, namespace, portfolios) ==
    [profile |-> "governed", clientId |-> id, credential |-> credential, tools |-> Writers,
     namespace |-> namespace, portfolios |-> portfolios]
ReadEntry(id, credential, scopes) ==
    [profile |-> "read", clientId |-> id, credential |-> credential, tools |-> <<"gks_search">>,
     scopes |-> scopes]

\* One governed caller and a reader beside MSP, and documents that differ
\* from a valid one in one entry.
GrantsWith(entries) == [version |-> "v2", clients |-> entries]
OneGoverned == GrantsWith(<<GovernedEntry("one", "c1", "ns1", <<"A">>), ReadEntry("reader", "c3", <<ScopeB>>)>>)
TwoGoverned(entry) == GrantsWith(<<GovernedEntry("one", "c1", "ns1", <<"A">>), entry>>)
AuthEnv(grants, default) ==
    [authRequired |-> TRUE, relay |-> "c0", grants |-> grants, defaultPortfolio |-> default]

Request(tool, scope, proof) ==
    [tool |-> tool, scope |-> scope, proof |-> proof, key |-> "k3", hash |-> "h",
     mention |-> Waiting, ref |-> 2, artifact |-> "a", bearer |-> None, msp |-> NoMsp, governed |-> NoGoverned]

\* The requests of the plans without authentication, by method name.
PlainRequests ==
    [promote |-> Request("gks_knowledge_promote", ScopeAx, "msp"),
     promoteElsewhere |-> Request("gks_knowledge_promote", ScopeAy, "msp"),
     bind |-> Request("gks_review_apply", ScopeA, "msp"),
     link |-> Request("gks_artifact_link", ScopeA, "msp"),
     export |-> Request("gks_stage_evidence_export", ScopeAx, "msp"),
     gks_health |-> Request("gks_health", NoScope, "msp"),
     gks_pipeline_evidence |-> Request("gks_pipeline_evidence", NoScope, "msp")]

\* The parts a request of a call to an HTTP server may have: those of one
\* request, or those given in place of them.
Exactly(req) == [part \in DOMAIN req |-> {req[part]}]

\* A request of a relay that authenticates as MSP.
ByMsp(req) ==
    [Exactly(req) EXCEPT
       !.bearer = {"c0"}, !.msp = {[principal |-> MspPrincipal, relay |-> None, digest |-> req.scope]}]

Msp(relays, scopes) ==
    {NoMsp} \cup [principal : {MspPrincipal}, relay : relays, digest : scopes]
Claims(ids, scopes) == {NoGoverned} \cup [callerId : ids, digest : scopes]

\* Every combination of credential, claimed caller, claimed scope and proof.
AnyOf(tools, scopes, proofs) ==
    [Exactly(Request("gks_search", ScopeA, "msp")) EXCEPT
       !.tool = tools, !.scope = scopes, !.proof = proofs,
       !.bearer = {None, "c0", "c1", "c2", "c3"},
       !.msp = Msp({None, "c0"}, {ScopeA, ScopeB}), !.governed = Claims({"one", "two"}, {ScopeA})]

(***************************************************************************)
(* Streams: all short texts, all texts one token away from a document, and *)
(* streams of requests that are too long for this frame, too deep for that *)
(* one, or lack their last newline.                                        *)
(***************************************************************************)
Alphabet == {"{", "}", "[", "]", ":", ",", "a", "id", "1", " ", "unsafe"}
Texts(n) == UNION {[1 .. k -> Alphabet \ {"unsafe", " ", "id"}] : k \in 1 .. n}

Changed(text) == {[text EXCEPT ![i] = t] : i \in DOMAIN text, t \in Alphabet}
Shortened(text) == {SubSeq(text, 1, i - 1) \o SubSeq(text, i + 1, Len(text)) : i \in DOMAIN text}
Lengthened(text) ==
    {SubSeq(text, 1, i) \o <<t>> \o SubSeq(text, i + 1, Len(text)) :
       i \in 0 .. Len(text), t \in Alphabet}
Near(text) == Changed(text) \cup Shortened(text) \cup Lengthened(text)

Members2 == <<"{", "a", ":", "1", ",", "id", ":", "{", "}", "}">>
Elements2 == <<"[", "{", "}", ",", "[", "]", ",", "1", "]">>
LinesOf(texts) == {Append(t, NewLine) : t \in texts}

Spaces(n) == [i \in 1 .. n |-> " "]
Mixed ==
    Spaces(PipelineFrame + 2) \o <<NewLine>> \o encode("2", "bind") \o <<CarriageReturn, NewLine>>
Crowded ==
    encode("1", "gks_health") \o Spaces(2) \o encode("2", "gks_health") \o encode("3", "bind")
Pipelined ==
    Spaces(3) \o encode("1", "gks_pipeline_evidence") \o encode("2", "link")
      \o encode("3", "promote") \o encode("1", "gks_health")
Unended == <<"{", "}", NewLine>> \o SubSeq(encode("2", "link"), 1, 13)
Overlong == encode("1", "link") \o Spaces(PipelineFrame + 1)
TooLong == Spaces(3) \o encode("1", "link") \o Spaces(7) \o encode(Closed, "link")
Notices == encode("2", "notifications/initialized") \o Spaces(3) \o encode("2", "notifications/initialized")
OtherVersion ==
    LET object == <<"{", "id", ":", "1", ",", "jsonrpc", ":", "a", "}">>
    IN  object \o <<NewLine>> \o object
Unended2 == encode("1", "link") \o SubSeq(encode("2", "promote"), 1, 13)

(***************************************************************************)
(* The plans.                                                              *)
(***************************************************************************)
Streamed(stream) == [ver |-> Newest, http |-> FALSE, stream |-> stream]
Tool(ver) == [Streamed(<< >>) EXCEPT !.ver = ver]
HttpServer == [Streamed(<< >>) EXCEPT !.http = TRUE]
NoCalls == [c \in Client |-> << >>]

Opening(store, openers, crashes) ==
    [store |-> store, made |-> Made, env |-> OpenEnv, requests |-> PlainRequests,
     openers |-> openers, calls |-> NoCalls, http |-> FALSE, cut |-> FALSE,
     crashes |-> crashes, tries |-> 1, patient |-> FALSE, pulled |-> ScopeAx]

Streaming(streams, cut) ==
    {[Opening(Store8, <<Streamed(stream)>>, 0) EXCEPT !.cut = cut] : stream \in streams}

Calling(store, first, second, tries, crashes) ==
    [Opening(store, << >>, crashes) EXCEPT
       !.tries = tries, !.calls = [c \in Client |-> IF c = 1 THEN first ELSE second]]

Asked(calls) == [i \in DOMAIN calls |-> ByMsp(PlainRequests[calls[i]])]

Serving(first, second, tries, crashes) ==
    [Calling(Store8, Asked(first), Asked(second), tries, crashes) EXCEPT
       !.http = TRUE, !.openers = <<HttpServer, HttpServer>>, !.env = AuthEnv(NoGrants, None)]

\* One client sends any of the requests, the other one is to be kept apart
\* from what they ask for.
Authorizing(env, parts, other) ==
    [Opening(Store8, <<HttpServer>>, 0) EXCEPT
       !.env = env, !.http = TRUE, !.patient = TRUE,
       !.calls = [c \in Client |-> IF c = 1 THEN <<parts>> ELSE <<other>>]]

MspElsewhere == ByMsp(Request("gks_knowledge_promote", ScopeB, "msp"))
LinkByOne ==
    [Exactly(Request("gks_artifact_link", ScopeA, "ns1")) EXCEPT
       !.bearer = {"c1"}, !.governed = {[callerId |-> "one", digest |-> ScopeA]}]

\* Processes that open the store.
OpeningPlans ==
    {Opening(Store1, <<Tool(8), Tool(8), Tool(8)>>, 1),
     Opening(EmptyStore, <<Tool(5), Tool(8), Tool(7)>>, 1),
     Opening(Store6, <<Tool(6), Tool(8), Tool(8)>>, 1)}

\* Streams of frames.
StreamPlans ==
    Streaming(LinesOf(Texts(3) \cup Near(Members2) \cup Near(Elements2)), FALSE)
      \cup Streaming({Mixed, Crowded, Pipelined, Unended, Unended2, Overlong,
                          TooLong, Notices, OtherVersion}, TRUE)

\* Clients of stdio and of HTTP.
CallPlans ==
    {Calling(Store4, <<{"export"}>>, <<{"promote", "bind"}>>, 1, 0),
     Calling(Store8, <<{"promote"}>>, << >>, 2, 1),
     Calling(Store8, <<{"bind"}>>, <<{"bind", "link"}>>, 1, 0)}
HttpPlans ==
    {Serving(<<"export", "export", "export">>, <<"promote", "promoteElsewhere">>, 1, 0),
     Serving(<<"export", "export">>, <<"promote", "bind">>, 1, 0),
     Serving(<<"export">>, <<"promote">>, 2, 1)}

\* Grants.
GrantPlans ==
    {Authorizing(AuthEnv(OneGoverned, None),
                 AnyOf({"gks_knowledge_promote", "gks_artifact_link", "gks_search"},
                       {ScopeA}, {"msp", "ns1"}), LinkByOne),
     Authorizing(AuthEnv(OneGoverned, None),
                 AnyOf({"gks_knowledge_promote"}, {ScopeA, ScopeB}, {"msp", "ns1"}), MspElsewhere),
     Authorizing(AuthEnv(OneGoverned, "A"),
                 AnyOf({"gks_knowledge_promote"}, {NoScope, NoScopeOfT, BadScope, ScopeA},
                       {"msp", "ns1"}), LinkByOne)}
TwoGrantPlans ==
    {Authorizing(AuthEnv(TwoGoverned(GovernedEntry("two", "c2", "ns2", <<"B">>)), None),
                 AnyOf({"gks_knowledge_promote"}, {ScopeA, ScopeB}, {"ns1", "ns2"}), LinkByOne),
     Authorizing(AuthEnv(TwoGoverned(GovernedEntry("two", "c2", "ns2", <<"B", "A">>)), None),
                 AnyOf({"gks_knowledge_promote"}, {ScopeA}, {"ns1", "ns2"}), LinkByOne)}

MCPlans == <<OpeningPlans, StreamPlans, CallPlans, HttpPlans, GrantPlans, TwoGrantPlans>>
===============================================================================
