------------------------------ MODULE CallerAuth ------------------------------
(***************************************************************************)
(* Who may call which tool on which scope (packages/gks-contracts:         *)
(* client-auth.mjs, msp-auth.mjs, validation.mjs; the start of a runtime   *)
(* and the checks of a call in apps/gks-server).                           *)
(*                                                                         *)
(* A SHA-256 digest (of a credential or of a scope) is its preimage, and   *)
(* Credentials are the strings that have the form of a client credential.  *)
(* A request or an environment that lacks a part has a part that names     *)
(* nobody: NoScope, NoMsp, NoGoverned, NoGrants.  The scope of a request   *)
(* that has none names no portfolio, and as its tenant and business what   *)
(* the request has as tenant_id and business_id.                           *)
(***************************************************************************)
EXTENDS Naturals, Sequences, FiniteSets

CONSTANT Credentials

None == "none"
NoScope == [portfolio |-> "", tenant |-> "", business |-> ""]
BadScope == [NoScope EXCEPT !.portfolio = "invalid"]   \* present, and no scope
NoMsp == [principal |-> None, relay |-> None, digest |-> NoScope]
NoGoverned == [callerId |-> None, digest |-> NoScope]
NoGrants == [version |-> None, clients |-> << >>]
MspPrincipal == "msp-runtime"
MspNamespace == "msp"

\* A call is made by a caller with its provenance namespace, or refused.
GKS_MSP_CALLER == [callerId |-> MspPrincipal, namespace |-> MspNamespace]
Denied == [callerId |-> None, namespace |-> None]

DirectReadTools == {"gks_search", "gks_entity_get", "gks_relations_get"}
LegacyMspAuthTools ==
    DirectReadTools \cup {"gks_knowledge_promote", "gks_artifact_link", "gks_review_list",
                          "gks_review_apply", "gks_stage_evidence_export"}
PipelineTools == {"gks_pipeline_submit", "gks_pipeline_evidence"}

(***************************************************************************)
(* parseGksClientGrants: the document is refused as a whole when one of    *)
(* its entries is.                                                         *)
(***************************************************************************)
ProfileOf(doc, e) == IF doc.version = "v1" THEN "read" ELSE e.profile

EntryFields(doc, e) ==
    (IF doc.version = "v1" THEN {} ELSE {"profile"})
      \cup {"clientId", "credential", "tools"}
      \cup (IF ProfileOf(doc, e) = "read" THEN {"scopes"} ELSE {"namespace", "portfolios"})

Distinct(list) == \A i, j \in DOMAIN list : list[i] = list[j] => i = j

ValidTools(tools, allowed) ==
    /\ tools # << >> /\ Distinct(tools)
    /\ \A i \in DOMAIN tools : tools[i] \in allowed

ValidScope(scope) == scope.portfolio \notin {"", BadScope.portfolio}

ValidEntry(doc, e) ==
    /\ DOMAIN e = EntryFields(doc, e)
    /\ e.clientId # MspPrincipal
    /\ IF ProfileOf(doc, e) = "read"
       THEN /\ ValidTools(e.tools, DirectReadTools)
            /\ e.scopes # << >> /\ Distinct(e.scopes)
            /\ \A i \in DOMAIN e.scopes : ValidScope(e.scopes[i])
       ELSE /\ e.profile = "governed"
            /\ ValidTools(e.tools, LegacyMspAuthTools)
            /\ e.namespace # MspNamespace
            /\ e.portfolios # << >> /\ Distinct(e.portfolios)

\* What two entries of one document must not share: client ids and
\* credentials, and governed callers neither namespaces nor portfolios.
KeptApart(doc, e, f) ==
    /\ e.clientId # f.clientId
    /\ e.credential # f.credential
    /\ ProfileOf(doc, e) = "governed" /\ ProfileOf(doc, f) = "governed" =>
         /\ e.namespace # f.namespace
         /\ \A i \in DOMAIN e.portfolios, j \in DOMAIN f.portfolios :
               e.portfolios[i] # f.portfolios[j]

ValidGrants(doc) ==
    /\ doc.version \in {"v1", "v2"}
    /\ \A i \in DOMAIN doc.clients : ValidEntry(doc, doc.clients[i])
    /\ \A i, j \in DOMAIN doc.clients :
         i < j => KeptApart(doc, doc.clients[i], doc.clients[j])

\* Every grant of the document with its profile.
Grants(doc) ==
    {[profile |-> ProfileOf(doc, doc.clients[i]), entry |-> doc.clients[i]] :
        i \in DOMAIN doc.clients}

Governed(grants) == {g \in grants : g.profile = "governed"}

PortfoliosOf(grant) ==
    {grant.entry.portfolios[i] : i \in DOMAIN grant.entry.portfolios}

governedPortfolios(grants) == UNION {PortfoliosOf(g) : g \in Governed(grants)}

(***************************************************************************)
(* createRuntimeFromEnvironment, httpConfig: the environments a server     *)
(* starts from.  env has authRequired, relay, grants and defaultPortfolio. *)
(***************************************************************************)
RuntimeStarts(env) ==
    LET grants == Grants(env.grants)
    IN  /\ env.grants # NoGrants => ValidGrants(env.grants)
        /\ grants # {} => env.authRequired
        /\ env.authRequired => env.relay # None \/ grants # {}
        /\ \A g \in grants : g.entry.credential # env.relay

HttpStarts(env) ==
    env.authRequired /\ (env.relay # None \/ env.grants # NoGrants) /\ RuntimeStarts(env)

(***************************************************************************)
(* The scope of a request: a promotion may leave its portfolio to the      *)
(* deployment, but one with a scope that is none is refused (BadScope).    *)
(***************************************************************************)
resolvePromotionScope(req, env) ==
    IF req.scope.portfolio # "" THEN req.scope
    ELSE IF env.defaultPortfolio = None THEN BadScope
    ELSE [req.scope EXCEPT !.portfolio = env.defaultPortfolio]

normalizedMspScope(req, env) ==
    IF req.tool = "gks_knowledge_promote" THEN resolvePromotionScope(req, env) ELSE req.scope

(***************************************************************************)
(* dispatchJsonRpcRequest: the caller of a request, from the grant of its  *)
(* bearer credential or, without one, from the MSP authentication it       *)
(* carries.  req.msp and req.governed are the two parts of _meta.          *)
(***************************************************************************)
WriteTools == {"gks_knowledge_promote", "gks_review_apply", "gks_artifact_link"}

ToolOf(grant, req) == \E i \in DOMAIN grant.entry.tools : grant.entry.tools[i] = req.tool

authorizeGovernedCallerRequest(grant, req, env) ==
    LET scope == normalizedMspScope(req, env)
    IN  IF /\ ToolOf(grant, req)
           /\ req.governed.callerId = grant.entry.clientId
           /\ ValidScope(scope)
           /\ scope.portfolio \in PortfoliosOf(grant)
           /\ req.governed.digest = scope
           /\ req.tool \in WriteTools => req.proof = grant.entry.namespace
        THEN [callerId |-> grant.entry.clientId, namespace |-> grant.entry.namespace]
        ELSE Denied

authorizeGksClientRequest(grant, req) ==
    IF /\ ToolOf(grant, req)
       /\ \E i \in DOMAIN grant.entry.scopes : grant.entry.scopes[i] = req.scope
    THEN GKS_MSP_CALLER ELSE Denied

authorizeLegacyMspRequest(req, env) ==
    LET scope == normalizedMspScope(req, env)
    IN  IF /\ env.relay # None
           /\ req.msp.principal = MspPrincipal
           /\ req.msp.relay = env.relay
           /\ ValidScope(scope)
           /\ req.msp.digest = scope
        THEN GKS_MSP_CALLER ELSE Denied

\* Variant: MSP may also use the portfolios of governed callers.
MspMayAnywhere(req, env) == TRUE

\* What a governed caller owns is out of MSP's reach.
MspMay(req, env) ==
    normalizedMspScope(req, env).portfolio \notin governedPortfolios(Grants(env.grants))

\* grant is a set: the one grant of the caller, or none.
CallerOf(grant, req, env) ==
    IF grant # {}
    THEN LET g == CHOOSE h \in grant : TRUE
         IN  IF g.profile = "governed"
             THEN authorizeGovernedCallerRequest(g, req, env)
             ELSE authorizeGksClientRequest(g, req)
    ELSE IF env.authRequired /\ req.tool \in LegacyMspAuthTools
    THEN IF MspMay(req, env) THEN authorizeLegacyMspRequest(req, env) ELSE Denied
    ELSE GKS_MSP_CALLER

(***************************************************************************)
(* withHttpAuthentication: over HTTP the bearer credential decides.        *)
(***************************************************************************)
findGksClientGrant(bearer, env) ==
    {g \in Grants(env.grants) : bearer \in Credentials /\ g.entry.credential = bearer}

FromRelay(req, env) == env.relay # None /\ req.bearer = env.relay

\* The relay's own credential is what the request is checked against.
WithRelay(req) == [req EXCEPT !.msp.relay = req.bearer]

HttpCallerOf(req, env) ==
    IF req.tool = "gks_health" THEN CallerOf({}, req, env)
    ELSE IF FromRelay(req, env) THEN CallerOf({}, WithRelay(req), env)
    ELSE IF findGksClientGrant(req.bearer, env) = {} THEN Denied
    ELSE CallerOf(findGksClientGrant(req.bearer, env), req, env)
===============================================================================
