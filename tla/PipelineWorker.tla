---------------------------- MODULE PipelineWorker ----------------------------
(***************************************************************************)
(* Pipeline together with the two principals that use it: a source that    *)
(* submits batches of one scope and a Tier-4 worker that claims them.  The *)
(* claim (claimPipelineDecisions) returns the oldest open decision and     *)
(* takes no lease.  The worker itself is outside the repository: it is     *)
(* modelled from the calls it must make.  It keeps what it measured, so    *)
(* that it replays the same receipts when it starts again.                 *)
(*                                                                         *)
(* Several handlers serve the worker.  When it times out it forgets the    *)
(* call, but the handler goes on and may commit later.                     *)
(***************************************************************************)
EXTENDS Pipeline

CONSTANTS
  source,          \* the caller that submits
  Handler,         \* the callers that serve the worker
  graphOf,         \* graphOf[b]: the graph receipt the worker holds for b
  bodyOf,          \* bodyOf[b]: what the worker measured for b
  publicationOf,   \* publicationOf[b]: its publication receipt
  MaxLosses        \* bound on failure reports, timeouts and deaths of handlers

ASSUME CallerAssumption == Caller = {source} \cup Handler /\ source \notin Handler
ASSUME HeldAssumption ==
  /\ graphOf \in [Batch -> GraphReceipt]
  /\ bodyOf \in [Batch -> WorkerReceipt]
  /\ publicationOf \in [Batch -> Publication]
ASSUME MaxLossesAssumption == MaxLosses \in Nat

VARIABLES
  work,   \* the claimed decision, the call due, the derived rows held, the handler awaited
  losses  \* how often the worker failed or a call was lost so far

workerVars == <<vars, work, losses>>

NoWork == [step |-> "claim", on |-> {}]
At(step) == work.step = step /\ work.on = {}

\* Mutant: a run with a verdict is taken to be finished.
ResumableUngated == {"PENDING", "GRAPH_RECEIPTED", "RECEIPT_WRITTEN"}
\* The statuses a claim returns.
Resumable == {"PENDING", "GRAPH_RECEIPTED", "RECEIPT_WRITTEN", "GATED"}
Open(b) == status[b] \in Resumable
\* created_at orders the batches as their Stage 9 evidence does.
Before(a, b) ==
  \E r \in Of(evidence, a), s \in Of(evidence, b) :
    r.stage = 9 /\ s.stage = 9 /\ r.cursor < s.cursor
Claimed == {b \in Batch : Open(b) /\ ~\E a \in Batch : Open(a) /\ Before(a, b)}

Claim ==
  /\ At("claim")
  /\ \E b \in Claimed :
       work' = [step |-> "graph", on |-> {}, batch |-> b, derived |-> {}]
  /\ UNCHANGED <<vars, losses>>

-----------------------------------------------------------------------------
(* The calls the worker makes.  After a refused one it claims again.        *)

Reached(step, derived) ==
  work' = IF reply'.result \in {"accepted", "idempotent"}
            THEN [work EXCEPT !.step = step, !.on = {}, !.derived = derived]
            ELSE NoWork
\* A verdict that does not allow publication ends the worker's part.
AfterGate ==
  IF \E row \in reply'.rows : row.allow
    THEN Reached("publish", work.derived) ELSE work' = NoWork
AfterGraph == Reached("receipt", {row.derived : row \in reply'.rows})

\* A handler that goes on to its transaction has not answered yet.
Await(h, answered) ==
  IF call'[h] # Idle THEN work' = [work EXCEPT !.on = {h}] ELSE answered
\* Nobody hears the answer to a call that the worker gave up.
Heard(h, answered) == IF work.on = {h} THEN answered ELSE UNCHANGED work

SendGraph(h) ==
  /\ At("graph")
  /\ GraphLookup(h, work.batch, graphOf[work.batch])
  /\ Await(h, AfterGraph)
  /\ UNCHANGED losses

SendReceipt ==
  /\ At("receipt")
  /\ \E derived \in work.derived :
       WriteReceipt([batch |-> work.batch, body |-> bodyOf[work.batch],
                     graph |-> graphOf[work.batch], derived |-> derived])
  /\ Reached("gate", work.derived)
  /\ UNCHANGED losses

SendGate(h) ==
  /\ At("gate")
  /\ GateLookup(h, work.batch)
  /\ Await(h, AfterGate)
  /\ UNCHANGED losses

SendPublication ==
  /\ At("publish")
  /\ \E derived \in work.derived :
       PublicationReceipt([batch |-> work.batch, body |-> bodyOf[work.batch],
                           graph |-> graphOf[work.batch], derived |-> derived],
                          publicationOf[work.batch])
  /\ work' = NoWork
  /\ UNCHANGED losses

Lose == losses < MaxLosses /\ losses' = losses + 1

\* The worker gives up on the stage it is in.  One that did so for ever, for a
\* stage the store knows to have succeeded, would be refused for ever.
SendFailure ==
  /\ Lose
  /\ \/ At("graph") /\ \E f \in Failure : StageFailure(work.batch, 13, f)
     \/ At("receipt") /\ \E s \in {15, 16}, f \in Failure : StageFailure(work.batch, s, f)
  /\ work' = NoWork

Serve(h) ==
  /\ \/ (\E derived \in Stamp : GraphCommit(h, derived)) /\ Heard(h, AfterGraph)
     \/ (GateReadGraph(h) \/ GateReadReceipt(h)) /\ UNCHANGED work
     \/ (\E stamp \in Stamp : GateCommit(h, stamp)) /\ Heard(h, AfterGate)
  /\ UNCHANGED losses

-----------------------------------------------------------------------------
\* The worker starts again, or its request times out: a handler that is still
\* busy with the request goes on.
Timeout == Lose /\ work # NoWork /\ work' = NoWork /\ UNCHANGED vars

\* The process that serves a request dies before its transaction.
HandlerDies(h) == Lose /\ Crash(h) /\ Heard(h, work' = NoWork)

\* The source submits a batch until it is in.
Submit ==
  /\ \/ \E b \in Batch : ~Stored(b) /\ SubmitLookup(source, b)
     \/ SubmitCommit(source)
     \/ Crash(source)
  /\ UNCHANGED <<work, losses>>

WorkerStep ==
  \/ Claim
  \/ \E h \in Handler : SendGraph(h) \/ SendGate(h)
  \/ SendReceipt
  \/ SendPublication

WorkerInit == Init /\ work = NoWork /\ losses = 0
WorkerNext ==
  \/ WorkerStep
  \/ SendFailure
  \/ \E h \in Handler : Serve(h) \/ HandlerDies(h)
  \/ Timeout
  \/ Submit

\* The worker keeps polling and every handler comes to its end; nobody has to
\* submit, and neither a failure nor a loss has to happen.
WorkerSpec ==
  /\ WorkerInit /\ [][WorkerNext]_workerVars
  /\ WF_workerVars(WorkerStep)
  /\ \A h \in Handler : WF_workerVars(Serve(h))

-----------------------------------------------------------------------------
\* Every batch that is taken is closed in the end: published, rejected or
\* failed, whichever calls are lost, late or repeated.  A claim returns the
\* oldest open decision only, so one that stayed open would block all others.
\* Each batch has attempts of its own, as docs/ADR-GKS-GENESISRAG17.md:34-37
\* asks of the source: one that names an attempt another batch has closed is
\* taken, and stays open.
EveryBatchCloses == \A b \in Batch : Stored(b) ~> status[b] \in Closed

\* No timeout, replay or late handler turns a run whose receipts pass into a
\* rejected one: a verdict is asked for only once the store holds its receipt.
NoPassingRunRejected ==
  \A b \in Batch :
    quality[b][bodyOf[b]] = "PASS" /\ allowPublication[b] => status[b] # "REJECTED"
=============================================================================
