-------------------------------- MODULE Service --------------------------------
(***************************************************************************)
(* The processes around one store: server processes that open and migrate  *)
(* it and serve calls over stdio or HTTP (apps/gks-server), and the        *)
(* clients that start them, time out, kill them and call again             *)
(* (packages/gks-client-js).  What a promotion or a human decision does to *)
(* the entities is the module Resolution; here it is a row, its evidence   *)
(* row and the caller it is attributed to.                                 *)
(***************************************************************************)
EXTENDS Migrations, CallerAuth, Frames

CONSTANTS Client, Server,
          Plans,        \* a sequence of sets: what a behaviour starts from
          PageLimit,    \* the limit of an evidence export
          MaxInFlight   \* maxInFlight

VARIABLES plan,     \* the plan this behaviour follows
          db,       \* the SQLite file
          srv,      \* the server processes
          cli,      \* the clients
          spent     \* processes started by hand, and crashes and signals, so far

vars == <<plan, db, srv, cli, spent>>

(***************************************************************************)
(* A plan has the store, the environment every process is started with,    *)
(* the requests of stdio clients by name, the calls each client makes one  *)
(* after another, the processes started by hand, whether input arrives in  *)
(* pieces, how many processes may crash or be told to stop, how often a    *)
(* client makes a call that fails, and whether a client of an HTTP server  *)
(* waits for its answer.                                                   *)
(***************************************************************************)
\* The requests of an HTTP call, given by what each part may be.
Requests(parts) ==
    [tool : parts.tool, scope : parts.scope, proof : parts.proof, key : parts.key,
     hash : parts.hash, mention : parts.mention, ref : parts.ref, artifact : parts.artifact,
     bearer : parts.bearer, msp : parts.msp, governed : parts.governed]

\* Same portfolio and tenant, same or broader below.
VisibleIn(scope, request) ==
    /\ scope.portfolio = request.portfolio
    /\ scope.tenant = request.tenant
    /\ scope.business \in {"", request.business}

Unresolved(m) == m.outcome \notin {"CREATED", "MATCHED"}

\* A mention that was decided is resolved: the id of a decision starts with
\* that of its mention.
Settled(d) ==
    \A h \in d.decisions : \A m \in d.mentions :
      m.id = h.id[1] /\ VisibleIn(m.scope, h.scope) => ~Unresolved(m)

IsList(s) == Len(s) \in Nat /\ DOMAIN s = 1 .. Len(s)

\* Plans start from a store as a release left it, and start releases.
ASSUME PlanAssumption ==
    \A i \in DOMAIN Plans : \A p \in Plans[i] :
      /\ WellMigrated(p.store, p.made) /\ WellKept(p.store) /\ Settled(p.store)
      /\ Len(p.openers) \in Nat
      /\ \A j \in 1 .. Len(p.openers) : p.openers[j].ver \in 1 .. Newest
      /\ IsList(p.env.grants.clients)

\* The clients of a plan ask for well-formed things: a decision and a link name
\* a scope (validateScope), and whoever exports pulls the evidence of one scope.
ExportTool == "gks_stage_evidence_export"
Asks(req, pulled) == req.tool = ExportTool => req.scope = pulled

ASSUME CallsAssumption ==
    \A i \in DOMAIN Plans : \A p \in Plans[i] :
      /\ p.http \in BOOLEAN
      /\ DOMAIN p.requests \subseteq Strings
      /\ \A name \in DOMAIN p.requests :
           /\ Asks(p.requests[name], p.pulled)
           /\ p.requests[name].tool \in {"gks_review_apply", "gks_artifact_link"} =>
                ValidScope(p.requests[name].scope)
      /\ \A c \in Client :
           /\ IsList(p.calls[c])
           /\ \A j \in DOMAIN p.calls[c] :
                IF p.http
                THEN ExportTool \in p.calls[c][j].tool => p.calls[c][j].scope = {p.pulled}
                ELSE p.calls[c][j] \subseteq Strings

\* The limits are numbers.
ASSUME LimitsAssumption == PageLimit \in Nat /\ PipelineFrame \in Nat

Unread == 0 .. Newest          \* the applied migrations are not read yet
Nobody == 0                    \* clients and servers are numbered from 1

Gone(s) == s.mode \in {"off", "failed", "closed"}

\* A process of the given version, reading the given input.
Process(ver, http, client, since, input, eof) ==
    [mode |-> "opening", ver |-> ver, http |-> http, client |-> client, since |-> since,
     listed |-> Unread, input |-> input, stream |-> input, eof |-> eof,
     pending |-> << >>, dropping |-> FALSE, frames |-> << >>, tasks |-> << >>,
     out |-> << >>, killed |-> FALSE]

NoProcess == [Process(Newest, FALSE, Nobody, 0, << >>, TRUE) EXCEPT !.mode = "off"]

\* A process whose environment is refused ends before it opens the store.
Started(process) ==
    IF IF process.http THEN HttpStarts(plan.env) ELSE RuntimeStarts(plan.env)
    THEN process ELSE [process EXCEPT !.mode = "closed"]

Init ==
    /\ \E i \in DOMAIN Plans : plan \in Plans[i]
    /\ db = plan.store
    /\ srv = [p \in Server |-> NoProcess]
    /\ cli = [c \in Client |->
                [at |-> "idle", on |-> Nobody, step |-> 1, tries |-> 1, call |-> Nobody,
                 since |-> 0, got |-> {}, kept |-> {}]]
    /\ spent = [opened |-> 0, crashes |-> 0]

Set(p, s) == srv' = [srv EXCEPT ![p] = s]

(***************************************************************************)
(* Opening the store (openSqlitePersistence, runMigrations).               *)
(***************************************************************************)
\* A new process takes the first slot that neither a process nor a client
\* that still reads the output of one holds.
FreeSlot(p) == Gone(srv[p]) /\ \A c \in Client : cli[c].on # p
NewSlot(p) == FreeSlot(p) /\ \A q \in Server : q < p => ~FreeSlot(q)

\* A process somebody starts: a server, or a tool of an older version.
Start(p) ==
    /\ NewSlot(p)
    /\ spent.opened < Len(plan.openers)
    /\ LET o == plan.openers[spent.opened + 1]
       IN  Set(p, Started(Process(o.ver, o.http, Nobody, 0, o.stream, ~o.http)))
    /\ spent' = [spent EXCEPT !.opened = @ + 1]
    /\ UNCHANGED <<plan, db, cli>>

\* The applied migrations are read without the write lock; one that the
\* process does not ship stops it.
ReadApplied(p) ==
    /\ srv[p].mode = "opening" /\ srv[p].listed = Unread
    /\ Set(p, [srv[p] EXCEPT
                 !.listed = db.applied,
                 !.mode = IF db.applied \subseteq 1 .. srv[p].ver THEN @ ELSE "closed"])
    /\ UNCHANGED <<plan, db, cli, spent>>

Remaining(s) == (1 .. s.ver) \ s.listed

\* One migration, in a write transaction that looks again.
\* Variant: a migration is not looked for again inside its transaction.
ApplicableAsListed(n, d) == CanRun(n, d)

Applicable(n, d) == n \in d.applied \/ CanRun(n, d)
Migrated(n, d) == IF n \in d.applied THEN d ELSE Apply(n, d)

Migrate(p) ==
    /\ srv[p].mode = "opening" /\ srv[p].listed # Unread
    /\ \E n \in Remaining(srv[p]) :
         /\ \A m \in Remaining(srv[p]) : n <= m
         /\ db' = IF Applicable(n, db) THEN Migrated(n, db) ELSE db
         /\ Set(p, IF Applicable(n, db) THEN [srv[p] EXCEPT !.listed = @ \cup {n}]
                   ELSE [srv[p] EXCEPT !.mode = "failed"])
    /\ UNCHANGED <<plan, cli, spent>>

\* Only a process of the newest version goes on to serve calls here.
Ready(p) ==
    /\ srv[p].mode = "opening" /\ srv[p].listed # Unread
    /\ Remaining(srv[p]) = {}
    /\ Set(p, [srv[p] EXCEPT !.mode = IF srv[p].ver = Newest THEN "serving" ELSE "closed"])
    /\ UNCHANGED <<plan, db, cli, spent>>

(***************************************************************************)
(* What the tools do.  A request has a tool, a scope, the namespace of its *)
(* proof reference and its subject; an answer has a code, the evidence     *)
(* rows of an export with the next cursor, and the row it stands for.      *)
(***************************************************************************)
Answer(code) == [code |-> code, rows |-> {}, next |-> 0, row |-> {}]
Done(row) == [Answer("ok") EXCEPT !.row = {row}]
Later == Answer("later")

\* recordStageEvidence: the row and the next cursor.
recordStageEvidence(d, id, scope, caller) ==
    [d EXCEPT !.cursor = @ + 1,
              !.evidence = @ \cup {[id |-> id, cursor |-> d.cursor + 1, scope |-> scope,
                                    proof |-> caller.namespace, caller |-> caller.callerId]}]

\* Variant: the scope is forgotten in the replay check.
SameKeyAnywhere(p, scope, req) == p.key = req.key

SamePromotion(p, scope, req) == p.scope = scope /\ p.key = req.key

\* A first write: the promotion's row and the evidence of its execution.
insertPromotion(d, row, caller) ==
    [recordStageEvidence(d, PromotionEvidence(row), row.scope, caller) EXCEPT
       !.version = @ + 1, !.promotions = @ \cup {row}]

transactPromotion(d, req, caller) ==
    LET scope == resolvePromotionScope(req, plan.env)
        existing == {p \in d.promotions : SamePromotion(p, scope, req)}
        row == [scope |-> scope, key |-> req.key, hash |-> req.hash, version |-> d.version + 1,
                at |-> d.version + 1, proof |-> caller.namespace, caller |-> caller.callerId]
    IN  IF existing # {}
        THEN [db |-> d,
              answer |-> LET p == CHOOSE p \in existing : TRUE
                         IN  IF p.hash = req.hash THEN Done(p) ELSE Answer("conflict")]
        ELSE [db |-> insertPromotion(d, row, caller), answer |-> Done(row)]

\* A bind of an unresolved mention that is visible in the scope, to an entity
\* of the mention's pool.  A superseded or hidden target and a MERGE are in the
\* module Resolution.
transactHumanResolution(d, req, caller) ==
    LET ms == {m \in d.mentions : m.id = req.mention /\ VisibleIn(m.scope, req.scope)}
        es == {e \in d.entities : e.ref = req.ref /\ \A m \in ms : VisibleIn(e.scope, m.scope)}
        row == [id |-> <<req.mention, req.ref, caller.namespace>>, scope |-> req.scope,
                at |-> d.version + 1, version |-> d.version + 1,
                proof |-> caller.namespace, caller |-> caller.callerId]
        next == recordStageEvidence(d, DecisionEvidence(row), req.scope, caller)
    IN  IF es = {} \/ ~\E m \in ms : Unresolved(m)
        THEN [db |-> d, answer |-> Answer("conflict")]
        ELSE [db |-> [next EXCEPT
                        !.version = @ + 1,
                        !.decisions = @ \cup {row},
                        !.mentions = (@ \ ms) \cup
                          {[m EXCEPT !.outcome = "MATCHED", !.ref = req.ref] : m \in ms}],
              answer |-> Done(row)]

\* A second link of the same artifact is answered with the first.
transactArtifactLink(d, req, caller) ==
    LET existing == {l \in d.links : /\ l.scope = req.scope /\ l.ref = req.ref
                                     /\ l.artifact = req.artifact}
        row == [scope |-> req.scope, ref |-> req.ref, artifact |-> req.artifact,
                version |-> d.version + 1, proof |-> caller.namespace,
                caller |-> caller.callerId]
    IN  IF existing # {}
        THEN [db |-> d, answer |-> Done(CHOOSE l \in existing : TRUE)]
        ELSE [db |-> [d EXCEPT !.version = @ + 1, !.links = @ \cup {row}],
              answer |-> Done(row)]

\* A link is for an entity that exists and can be seen from its scope.
linkArtifact(d, req, caller) ==
    LET es == {e \in d.entities : e.ref = req.ref}
    IN  IF es = {} THEN [db |-> d, answer |-> Answer("invalid")]
        ELSE IF ~\E e \in es : VisibleIn(e.scope, req.scope)
        THEN [db |-> d, answer |-> Answer("denied")]
        ELSE transactArtifactLink(d, req, caller)

\* The page after a cursor: the first PageLimit rows of the scope, and the
\* cursor of the last of them.
Page(d, scope, since) ==
    {e \in d.evidence :
        /\ VisibleIn(e.scope, scope) /\ e.cursor > since
        /\ Cardinality({f \in d.evidence : /\ VisibleIn(f.scope, scope)
                                           /\ f.cursor \in (since + 1) .. e.cursor}) <= PageLimit}

LastCursor(page, since) ==
    IF page = {} THEN since
    ELSE (CHOOSE e \in page : \A f \in page : f.cursor <= e.cursor).cursor

\* Variant: the next cursor is that of the store, not of the page.
exportWithStoreCursor(d, req, since) ==
    [Answer("ok") EXCEPT !.rows = {e.id : e \in Page(d, req.scope, since)}, !.next = d.cursor]

exportStageEvidence(d, req, since) ==
    LET page == Page(d, req.scope, since)
    IN  [Answer("ok") EXCEPT !.rows = {e.id : e \in page}, !.next = LastCursor(page, since)]

\* A cursor that the store has not reached is refused.
BeginExport(d, since) == IF since > d.cursor THEN Answer("invalid") ELSE Later

\* What a handler does before its first await: everything, but for the
\* transaction of a promotion, which follows the awaited lookup, and for
\* the page of an export, which is a second read.
Handle(d, req, caller, since) ==
    IF req.tool \in WriteTools /\ req.proof # caller.namespace
    THEN [db |-> d, answer |-> Answer("invalid")]
    ELSE IF req.tool = "gks_knowledge_promote" /\ ~ValidScope(resolvePromotionScope(req, plan.env))
    THEN [db |-> d, answer |-> Answer("invalid")]
    ELSE IF req.tool = "gks_review_apply" THEN transactHumanResolution(d, req, caller)
    ELSE IF req.tool = "gks_artifact_link" THEN linkArtifact(d, req, caller)
    ELSE [db |-> d,
          answer |-> IF req.tool = "gks_knowledge_promote" THEN Later
                     ELSE IF req.tool = ExportTool THEN BeginExport(d, since)
                     ELSE Answer("ok")]

\* What it does after it.
HandleLater(d, req, caller, since) ==
    IF req.tool = "gks_knowledge_promote" THEN transactPromotion(d, req, caller)
    ELSE [db |-> d, answer |-> exportStageEvidence(d, req, since)]

\* dispatchJsonRpcRequest: a request for a tool, made by an authorized caller.
Dispatch(d, req, caller, since) ==
    IF caller = Denied THEN [db |-> d, answer |-> Answer("denied")]
    ELSE Handle(d, req, caller, since)

(***************************************************************************)
(* Serving stdio (runStdioServer).  The frames a chunk completes are       *)
(* handled one after another, each up to its first await; what they await  *)
(* goes on before the next chunk is read.                                  *)
(***************************************************************************)
Serves(p, http) == srv[p].mode \in {"serving", "stopping"} /\ srv[p].http = http

Idle(s) == s.frames = << >> /\ s.tasks = << >>

Reply(id, answer) == [id |-> id, code |-> answer.code, answer |-> answer]

Chunk(p) ==
    /\ Serves(p, FALSE) /\ Idle(srv[p]) /\ srv[p].input # << >>
    /\ \E n \in IF plan.cut THEN 1 .. Len(srv[p].input) ELSE {Len(srv[p].input)} :
         LET c == consumeChunk(srv[p].pending, srv[p].dropping, SubSeq(srv[p].input, 1, n))
         IN  Set(p, [srv[p] EXCEPT
                       !.input = SubSeq(@, n + 1, Len(@)), !.frames = c.frames,
                       !.pending = c.pending, !.dropping = c.dropping])
    /\ UNCHANGED <<plan, db, cli, spent>>

\* handleFrame, up to the first await: a reply that is sent at once, a task
\* whose reply comes later, or nothing.
Ignored(frame) == frame \in {<< >>, <<CarriageReturn>>}

Task(id, req, caller, done) ==
    [id |-> id, req |-> req, caller |-> caller, answer |-> done.answer]

handleRequest(s, frame, f) ==
    LET Sent(code) == [db |-> db, tasks |-> << >>,
                       out |-> <<Reply(IF f.id = Closed THEN "null" ELSE f.id, Answer(code))>>]
        Quiet == [db |-> db, out |-> << >>, tasks |-> << >>]
        With(req, caller, done) ==
          [db |-> done.db, out |-> << >>, tasks |-> <<Task(f.id, req, caller, done)>>]
        By(req, caller) == With(req, caller, Dispatch(db, req, caller, s.since))
    IN  IF Ignored(frame) THEN Quiet
        ELSE IF f.code # "request" THEN Sent(f.code)
        ELSE IF Len(frame) > requestLimit(f.method) THEN Sent("too large")
        ELSE IF f.method = "notifications/initialized" \/ f.id = Closed THEN Quiet
        ELSE IF Len(s.tasks) >= MaxInFlight THEN Sent("overloaded")
        ELSE IF f.method \notin DOMAIN plan.requests
        THEN With(Nobody, GKS_MSP_CALLER, [db |-> db, answer |-> Answer("ok")])
        ELSE By(plan.requests[f.method], CallerOf({}, plan.requests[f.method], plan.env))

handleFrame(s, frame) == handleRequest(s, frame, parseBoundedFrame(frame))

FrameHandled(p, s, h) ==
    /\ db' = h.db
    /\ Set(p, [s EXCEPT !.tasks = @ \o h.tasks, !.out = @ \o h.out])

Frame(p) ==
    /\ Serves(p, FALSE) /\ srv[p].frames # << >>
    /\ FrameHandled(p, [srv[p] EXCEPT !.frames = Tail(@)],
                    handleFrame(srv[p], Head(srv[p].frames)))
    /\ UNCHANGED <<plan, cli, spent>>

\* What a task does after its await.
Finished(task, since) ==
    IF task.answer = Later THEN HandleLater(db, task.req, task.caller, since)
    ELSE [db |-> db, answer |-> task.answer]

Settle(p) ==
    /\ Serves(p, FALSE) /\ srv[p].frames = << >> /\ srv[p].tasks # << >>
    /\ LET t == Head(srv[p].tasks)
           done == Finished(t, srv[p].since)
       IN  /\ db' = done.db
           /\ Set(p, [srv[p] EXCEPT !.tasks = Tail(@),
                                    !.out = Append(@, Reply(t.id, done.answer))])
    /\ UNCHANGED <<plan, cli, spent>>

\* The end of the input: the last frame may lack its newline.  The store is
\* closed before anything it awaits, and nothing is sent any more.
EndOfInput(p) ==
    /\ Serves(p, FALSE) /\ Idle(srv[p]) /\ srv[p].input = << >> /\ srv[p].eof
    /\ LET end == [srv[p] EXCEPT !.mode = "closed", !.pending = << >>]
       IN  IF srv[p].dropping THEN Set(p, end) /\ UNCHANGED db
           ELSE FrameHandled(p, end, [handleFrame(srv[p], srv[p].pending) EXCEPT !.tasks = << >>])
    /\ UNCHANGED <<plan, cli, spent>>

(***************************************************************************)
(* Serving HTTP (handleMcpRequest).  A request is authenticated by its     *)
(* bearer credential; its handler goes on before another request is read.  *)
(***************************************************************************)
Attempt(c) == <<c, cli[c].step, cli[c].tries>>

RequestHandled(p, c, caller) ==
    LET done == Dispatch(db, cli[c].call, caller, cli[c].since)
    IN  /\ db' = done.db
        /\ Set(p, [srv[p] EXCEPT !.tasks = <<Task(Attempt(c), cli[c].call, caller, done)>>,
                                 !.since = cli[c].since])

HttpRequest(p, c) ==
    /\ Serves(p, TRUE) /\ Idle(srv[p])
    /\ cli[c].at = "sent"
    /\ RequestHandled(p, c, HttpCallerOf(cli[c].call, plan.env))
    /\ cli' = [cli EXCEPT ![c].at = "read"]
    /\ UNCHANGED <<plan, spent>>

\* What a client keeps of an answer: the cursor and the rows of an export,
\* and which of its requests were granted with which row.
Heard(c, answer) ==
    [cli[c] EXCEPT
       !.since = IF answer.code = "ok" /\ answer.next # 0 THEN answer.next ELSE @,
       !.got = @ \cup answer.rows,
       !.kept = @ \cup {<<cli[c].call, row>> : row \in answer.row}]

NextCall(client) == [client EXCEPT !.at = "idle", !.on = Nobody, !.call = Nobody,
                                   !.step = @ + 1, !.tries = 1]

\* The answer reaches the client if it still waits for it.
HttpSettle(p) ==
    /\ Serves(p, TRUE) /\ srv[p].tasks # << >>
    /\ LET t == Head(srv[p].tasks)
           c == t.id[1]
           done == Finished(t, srv[p].since)
       IN  /\ db' = done.db
           /\ cli' = IF cli[c].at = "read" /\ Attempt(c) = t.id
                     THEN [cli EXCEPT ![c] = NextCall(Heard(c, done.answer))] ELSE cli
    /\ Set(p, [srv[p] EXCEPT !.tasks = << >>])
    /\ UNCHANGED <<plan, spent>>

\* At a signal the server takes no connection any more; those it has may
\* still bring a request.
Stop(p) ==
    /\ Serves(p, TRUE) /\ srv[p].mode = "serving"
    /\ spent.crashes < plan.crashes
    /\ Set(p, [srv[p] EXCEPT !.mode = "stopping"])
    /\ spent' = [spent EXCEPT !.crashes = @ + 1]
    /\ UNCHANGED <<plan, db, cli>>

(***************************************************************************)
(* The clients.  GksStdioClient.call starts a process of its own for every *)
(* call; an HTTP client sends to the one that runs.                        *)
(***************************************************************************)
CallsOf(c) == plan.calls[c]

Call(c) ==
    /\ cli[c].at = "idle" /\ cli[c].step <= Len(CallsOf(c))
    /\ LET call == CallsOf(c)[cli[c].step]
       IN  IF plan.http
           THEN /\ \E req \in Requests(call) :
                     cli' = [cli EXCEPT ![c].at = "sent", ![c].call = req]
                /\ UNCHANGED srv
           ELSE \E name \in call, p \in Server :
                  /\ NewSlot(p)
                  /\ Set(p, Started(Process(Newest, FALSE, c, cli[c].since,
                                            encode("1", "initialize"), FALSE)))
                  /\ cli' = [cli EXCEPT ![c].at = "init", ![c].call = name, ![c].on = p]
    /\ UNCHANGED <<plan, db, spent>>

\* Nothing listens for the errors of the child or of its input: spawn fails, or
\* the first request is written to a child that is no more, and the process
\* that calls ends with an uncaught exception.
SpawnFails(c) ==
    /\ cli[c].at = "idle" /\ cli[c].step <= Len(CallsOf(c)) /\ ~plan.http
    /\ cli' = [cli EXCEPT ![c].at = "ended"]
    /\ UNCHANGED <<plan, db, srv, spent>>

\* A line of the child's output.  The answer to initialize is followed by
\* the notification and the call; a child answers nothing else.  What is
\* written to a child whose exit was seen is lost.
Awaited(c) == IF cli[c].at = "init" THEN "1" ELSE "2"

Hear(c) ==
    /\ cli[c].at \in {"init", "call"}
    /\ LET p == cli[c].on
           line == Head(srv[p].out)
           more == encode(Closed, "notifications/initialized") \o encode("2", cli[c].call)
       IN  /\ srv[p].out # << >> /\ line.id = Awaited(c)
           /\ IF cli[c].at = "init"
              THEN /\ Set(p, [srv[p] EXCEPT !.out = Tail(@), !.input = @ \o more])
                   /\ cli' = [cli EXCEPT ![c].at = "call"]
              ELSE /\ Set(p, [srv[p] EXCEPT !.out = Tail(@), !.eof = TRUE])
                   /\ cli' = [cli EXCEPT ![c] = [Heard(c, line.answer) EXCEPT
                                                   !.at = "closing", !.tries = 0]]
    /\ UNCHANGED <<plan, db, spent>>

\* So it does when the answer to initialize is from a child that has ended
\* since and whose exit is not seen yet: the notification hits a broken pipe.
WriteFails(c) ==
    /\ cli[c].at = "init" /\ Gone(srv[cli[c].on])
    /\ srv[cli[c].on].out # << >> /\ Head(srv[cli[c].on].out).id = Awaited(c)
    /\ cli' = [cli EXCEPT ![c].at = "ended", ![c].on = Nobody]
    /\ UNCHANGED <<plan, db, srv, spent>>

\* No answer in time: the input is closed and the call fails.
Timeout(c) ==
    /\ cli[c].at \in {"init", "call"}
    /\ Set(cli[c].on, [srv[cli[c].on] EXCEPT !.eof = TRUE])
    /\ cli' = [cli EXCEPT ![c].at = "closing"]
    /\ UNCHANGED <<plan, db, spent>>

\* After an answer (tries is 0) comes the next call; after a failure the
\* same call again, or the next.
Return(c) ==
    \/ cli' = [cli EXCEPT ![c] = NextCall(@)]
    \/ /\ cli[c].tries \in 1 .. (plan.tries - 1)
       /\ cli' = [cli EXCEPT ![c] = [NextCall(@) EXCEPT !.step = cli[c].step,
                                                        !.tries = cli[c].tries + 1]]

Exited(c) ==
    /\ cli[c].at = "closing" /\ Gone(srv[cli[c].on])
    /\ Return(c)
    /\ UNCHANGED <<plan, db, srv, spent>>

\* Variant: the client gives a child up without a signal.
LeaveChild(c) ==
    /\ cli[c].at = "closing" /\ ~Gone(srv[cli[c].on])
    /\ Return(c)
    /\ UNCHANGED <<plan, db, srv, spent>>

\* A child that does not exit within a second is sent a signal, and the
\* call returns without waiting for it.
KillChild(c) ==
    /\ cli[c].at = "closing" /\ ~Gone(srv[cli[c].on])
    /\ Set(cli[c].on, [srv[cli[c].on] EXCEPT !.killed = TRUE])
    /\ Return(c)
    /\ UNCHANGED <<plan, db, spent>>

\* An HTTP client that waits no longer.
HttpDrop(c) ==
    /\ cli[c].at \in {"sent", "read"} /\ ~plan.patient
    /\ Return(c)
    /\ UNCHANGED <<plan, db, srv, spent>>

(***************************************************************************)
(* A process that ends where it is, by the signal or a crash.  The store   *)
(* loses the transaction that runs, which is no step yet, and nothing else.*)
(***************************************************************************)
Die(p) == ~Gone(srv[p]) /\ Set(p, [srv[p] EXCEPT !.mode = "off"])

Terminate(p) == srv[p].killed /\ Die(p) /\ UNCHANGED <<plan, db, cli, spent>>

\* A server that stops ends when its last connection does, or, whatever
\* waits, at a signal of the other kind.
Stopped(p) == srv[p].mode = "stopping" /\ Die(p) /\ UNCHANGED <<plan, db, cli, spent>>

Crash(p) ==
    /\ spent.crashes < plan.crashes
    /\ Die(p)
    /\ spent' = [spent EXCEPT !.crashes = @ + 1]
    /\ UNCHANGED <<plan, db, cli>>

ServerStep(p) ==
    \/ Start(p) \/ ReadApplied(p) \/ Migrate(p) \/ Ready(p)
    \/ Chunk(p) \/ Frame(p) \/ Settle(p) \/ EndOfInput(p)
    \/ \E c \in Client : HttpRequest(p, c)
    \/ HttpSettle(p) \/ Stop(p) \/ Stopped(p)
    \/ Terminate(p) \/ Crash(p)

ClientStep(c) ==
    \/ Call(c) \/ SpawnFails(c) \/ Hear(c) \/ WriteFails(c)
    \/ Timeout(c) \/ Exited(c) \/ KillChild(c) \/ HttpDrop(c)

Next == (\E p \in Server : ServerStep(p)) \/ (\E c \in Client : ClientStep(c))

(***************************************************************************)
(* Timers fire: the time-out of a request, and the second a client waits   *)
(* for the exit of its child; and a signal arrives.                        *)
(***************************************************************************)
Fairness ==
    /\ \A c \in Client : WF_vars(Timeout(c)) /\ WF_vars(Exited(c) \/ KillChild(c))
    /\ \A p \in Server : WF_vars(Terminate(p))

Spec == Init /\ [][Next]_vars /\ Fairness

(***************************************************************************)
(* Properties.                                                             *)
(***************************************************************************)
AppliedInOrder == \E k \in 0 .. Newest : db.applied = 1 .. k

\* Whoever serves has a store with everything it expects of it.
ServedIsComplete ==
    \A p \in Server :
      srv[p].mode \in {"serving", "stopping"} => db.schema = UNION {shipped[n].creates : n \in 1 .. Newest}

OpensSucceed == \A p \in Server : srv[p].mode # "failed"

\* No identity is lost or renamed, and no two of a scope share a key.
IdentitiesKept ==
    /\ {<<e.ref, e.scope, e.cand>> : e \in db.entities}
         = {<<e.ref, e.scope, e.cand>> : e \in plan.store.entities}
    /\ 2 \in db.applied =>
         \A e, f \in db.entities : e.scope = f.scope /\ e.norm = f.norm => e = f

\* The origin of an entity is the path that made it; plan.made are those of
\* the pipeline.
OriginsKept ==
    7 \in db.applied =>
      \A e \in db.entities : e.origin = IF e.ref \in plan.made THEN "pipeline" ELSE "legacy"

\* Whatever processes of whatever versions open the store, in whatever
\* order their migrations interleave and wherever they crash, the
\* migrations are applied once each and in order, no open fails because
\* another one runs, and entities keep identity and origin
\* (packages/gks-persistence/src/index.mjs:273-293, 57-138).
StoreIsMigrated ==
    AppliedInOrder /\ ServedIsComplete /\ OpensSucceed /\ IdentitiesKept /\ OriginsKept

RequestOf(call) == IF plan.http THEN call ELSE plan.requests[call]

\* A request that was granted has its row in the store, in its own scope,
\* and every execution is reported once, whatever was timed out, killed,
\* crashed or sent again (packages/gks-persistence/src/index.mjs:595-606,
\* 481-507).
AnswersAreKept ==
    /\ EvidenceExact(db)
    /\ \A c \in Client : \A k \in cli[c].kept :
         /\ k[2] \in db.promotions \cup db.decisions \cup db.links
         /\ k[2].scope = resolvePromotionScope(RequestOf(k[1]), plan.env)

\* A puller that follows the cursors it is given has, at every cursor, all
\* rows its scope may see up to there and no other, while rows are
\* backfilled and added (packages/gks-persistence/src/index.mjs:514-524,
\* 1739-1759).
PullerMissesNothing ==
    \A c \in Client :
      cli[c].got = {e.id : e \in {f \in db.evidence : /\ VisibleIn(f.scope, plan.pulled)
                                                      /\ f.cursor <= cli[c].since}}

Written == {r \in db.promotions \cup db.decisions \cup db.links : r.version > plan.store.version}

\* All promotions, human decisions and artifact links of a portfolio come from
\* one caller, and a caller and its provenance namespace tell each other,
\* whatever credentials, scopes and proofs the requests combine.  A pipeline
\* submit, which has credentials of its own, is in the module QualityGate
\* (packages/gks-contracts/src/client-auth.mjs:64-208).
OneWriterPerPortfolio ==
    \A r, s \in Written :
      /\ r.scope.portfolio = s.scope.portfolio => r.caller = s.caller
      /\ r.caller = s.caller <=> r.proof = s.proof

(***************************************************************************)
(* What the frames of a stream are to be answered with: a fault for a text *)
(* that is too long or not in the grammar, and one reply per request.      *)
(***************************************************************************)
Count(codes, id, out) ==
    Cardinality({i \in DOMAIN out : out[i].code \in codes /\ out[i].id = id})
Replies(id, out) == Cardinality({i \in DOMAIN out : out[i].id = id})

Legal(frame) == IsDocument(Compact(frame))
IsObject(frame) == Len(frame) <= PipelineFrame /\ Legal(frame) /\ Compact(frame)[1] = "{"

\* An object under one of the ids, that is of this version and too long for
\* its method, or refused for one of the two.
Under(frame, ids) == IsObject(frame) /\ Field(frame, "id") \in ids
Exceeds(frame) ==
    Field(frame, "jsonrpc") = "2.0" /\ Len(frame) > requestLimit(Field(frame, "method"))
AtOnce(frame) == Field(frame, "jsonrpc") # "2.0" \/ Exceeds(frame)
Notifies(frame) == ~AtOnce(frame) /\ Field(frame, "method") = "notifications/initialized"

\* What follows the last newline is a frame at the end of the input.
LastFrame(stream) == IF Rest(stream) = << >> THEN << >> ELSE <<Rest(stream)>>

Due(frames, Is(_)) == Cardinality({i \in DOMAIN frames : ~Ignored(frames[i]) /\ Is(frames[i])})

HasRead(s) == s.mode = "closed" /\ s.client = Nobody /\ s.stream # << >> /\ s.input = << >>

\* A process that has read its input to the end has refused exactly the
\* frames that are no JSON of the allowed depth with distinct keys, and has
\* answered every other request once under its id, but for one that lacks
\* its newline, which is only told what is wrong with it; however the input
\* was cut into chunks (apps/gks-server/src/server.mjs:50-148, 311-373).
FramesAreAnswered ==
    \A p \in Server :
      HasRead(srv[p]) =>
        LET whole == Lines(srv[p].stream)
            last == LastFrame(srv[p].stream)
            out == srv[p].out
        IN  /\ Count({"refused"}, "null", out)
                 = Due(whole \o last, LAMBDA f : Len(f) <= PipelineFrame /\ ~Legal(f))
            /\ Count({"too large"}, "null", out)
                 = Due(whole \o last, LAMBDA f : \/ Len(f) > PipelineFrame
                                                 \/ Under(f, {"null", Closed}) /\ Exceeds(f))
            /\ \A id \in (Strings \cup SafeNumbers) :
                 Replies(id, out) = Due(whole, LAMBDA f : Under(f, {id}) /\ ~Notifies(f))
                                    + Due(last, LAMBDA f : Under(f, {id}) /\ AtOnce(f))

\* A call of the client ends, and so does the process it started, whatever
\* becomes of the process; but a call may end with the process that makes it
\* (packages/gks-client-js/src/gks-stdio-client.mjs:107-141).
EveryCallEnds ==
    /\ \A c \in Client :
         (cli[c].at \in {"init", "call", "closing"}) ~> (cli[c].at \in {"idle", "ended"})
    /\ \A p \in Server : (srv[p].client # Nobody /\ ~Gone(srv[p])) ~> Gone(srv[p])
===============================================================================
