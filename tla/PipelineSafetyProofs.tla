------------------------ MODULE PipelineSafetyProofs ------------------------
(***************************************************************************)
(* What follows once status, ledger and receipts agree: no row of its own  *)
(* makes the store refuse a decision, publication is earned, history is    *)
(* never rewritten, and the service implements StageLedger.                *)
(***************************************************************************)
EXTENDS PipelineWorker, PipelineProofs

-----------------------------------------------------------------------------
(* The UNIQUE constraint of the ledger. *)

\* Another stored batch holds the id of b or names one of its attempts.
HeldByOther(b) ==
  \E a \in Batch \ {b} :
    /\ Stored(a)
    /\ batchId[a] = batchId[b] \/ \E s \in Stage : SameAttempt(a, b, s)

\* A stage that the ledger refuses has been closed by another batch, or by this.
LEMMA TakenByItself ==
  ASSUME LedgerInv, NEW b \in Batch, NEW stages, LedgerTaken(b, stages), ~HeldByOther(b)
  PROVE  \E s \in stages : s \in Succeeded(b) \cup Failed(b)
<1>1. PICK row \in evidence : row.stage \in stages /\ SameAttempt(row.batch, b, row.stage)
  BY DEF LedgerTaken, Attempts
<1>2. row.batch \in Batch /\ row.stage \in Stage /\ row.outcome \in {"SUCCEEDED", "FAILED"}
  BY DEF LedgerInv, TypeInv, TypeOK, EvidenceRow
<1>3. row.stage \in Succeeded(row.batch) \cup Failed(row.batch)
  BY <1>2 DEF Succeeded, Failed, Stages, Of
<1>4. Stored(row.batch)
  BY <1>2, <1>3, StatusFacts
<1>5. row.batch = b
  BY <1>1, <1>2, <1>4 DEF HeldByOther
<1>6. QED
  BY <1>1, <1>3, <1>5

\* A submit is refused for another batch: this one has recorded nothing yet.
LEMMA SubmitNotRefused ==
  ASSUME LedgerInv, NEW b \in Batch, NEW refs, SubmitResult(b, refs) = "backend"
  PROVE  HeldByOther(b)
<1>1. ~Stored(b)
  BY DEF SubmitResult
<1>2. CASE \E a \in Batch : Stored(a) /\ batchId[a] = batchId[b]
  BY <1>1, <1>2 DEF HeldByOther
<1>3. CASE LedgerTaken(b, 9..12)
  <2>1. Succeeded(b) = {} /\ Failed(b) = {}
    BY <1>1, StatusFacts DEF LedgerInv, LedgerAgreesWithStatus, Stored
  <2>2. QED
    BY <1>3, <2>1, TakenByItself
<1>4. QED
  BY <1>2, <1>3 DEF SubmitResult

LEMMA GraphNotRefused ==
  ASSUME LedgerInv, NEW c \in Caller, NEW derived, call[c].op = "graph",
         ~HeldByOther(call[c].batch)
  PROVE  GraphResult(call[c].batch, call[c].receipt, derived) # "backend"
<1> DEFINE b == call[c].batch
<1>1. b \in Batch /\ Stored(b)
  BY CallFields DEF LedgerInv, TypeInv, CallsKnown
<1>2. ASSUME Of(graphs, b) = {}, status[b] \notin Closed PROVE ~LedgerTaken(b, {13, 14})
  <2>1. status[b] = "PENDING" /\ Failed(b) = {}
    BY <1>1, <1>2, StatusFacts
  <2>2. Succeeded(b) = 9..12
    BY <1>1, <2>1 DEF LedgerInv, LedgerAgreesWithStatus
  <2>3. 13 \notin 9..12 /\ 14 \notin 9..12
    OBVIOUS
  <2>4. QED
    BY <1>1, <2>1, <2>2, <2>3, TakenByItself
<1>3. QED
  BY <1>2 DEF GraphResult

LEMMA ReceiptNotRefused ==
  ASSUME LedgerInv, NEW row \in ReceiptRow, Stored(row.batch), ~HeldByOther(row.batch)
  PROVE  ReceiptResult(row) # "backend"
<1> DEFINE b == row.batch
<1>1. b \in Batch
  BY DEF ReceiptRow
<1>2. ASSUME Of(receipts, b) = {}, status[b] \notin Closed, MatchesGraph(row)
      PROVE  ~LedgerTaken(b, {15, 16})
  <2>1. Of(graphs, b) # {}
    BY <1>2 DEF MatchesGraph, Of
  <2>2. status[b] = "GRAPH_RECEIPTED" /\ Failed(b) = {}
    BY <1>1, <1>2, <2>1, StatusFacts
  <2>3. Succeeded(b) = 9..14
    BY <1>1, <2>2 DEF LedgerInv, LedgerAgreesWithStatus
  <2>4. 15 \notin 9..14 /\ 16 \notin 9..14
    OBVIOUS
  <2>5. QED
    BY <1>1, <2>2, <2>3, <2>4, TakenByItself
<1>3. QED
  BY <1>2 DEF ReceiptResult

LEMMA GateNotRefused ==
  ASSUME LedgerInv, NEW row, row.batch \in Batch, Stored(row.batch), ~HeldByOther(row.batch)
  PROVE  GateResult(row) # "backend"
<1> DEFINE b == row.batch
<1>1. ASSUME Of(gates, b) = {} PROVE ~LedgerTaken(b, {17})
  <2>1. status[b] \in {"PENDING", "GRAPH_RECEIPTED", "RECEIPT_WRITTEN", "FAILED_STAGE"}
    BY <1>1, StatusFacts
  <2>2. 17 \notin 9..12 /\ 17 \notin 9..14 /\ 17 \notin 9..16
    OBVIOUS
  <2>3. 17 \notin Succeeded(b) \cup Failed(b)
    BY <2>1, <2>2 DEF LedgerInv, LedgerAgreesWithStatus
  <2>4. QED
    BY <2>3, TakenByItself
<1>2. QED
  BY <1>1 DEF GateResult

LEMMA PublicationNotRefused ==
  ASSUME LedgerInv, NEW quoted \in ReceiptRow, NEW p, ~HeldByOther(quoted.batch)
  PROVE  PublicationResult(quoted, p) # "backend"
<1> DEFINE b == quoted.batch
<1>1. b \in Batch
  BY DEF ReceiptRow
<1>2. ASSUME Passed(b), Of(publications, b) = {} PROVE ~LedgerTaken(b, {17})
  <2>1. status[b] = "GATED"
    BY <1>1, <1>2, StatusFacts
  <2>2. Succeeded(b) = 9..16 /\ Failed(b) = {} /\ 17 \notin 9..16 /\ Stored(b)
    BY <1>1, <2>1 DEF LedgerInv, LedgerAgreesWithStatus, Stored
  <2>3. QED
    BY <1>1, <2>2, TakenByItself
<1>3. QED
  BY <1>2 DEF PublicationResult

\* The constraints of the store refuse a batch only what another batch holds: by
\* what the batch itself has recorded the guards of the transactions always find
\* out before the constraints do.
THEOREM OwnRowsNeverRefuse == Spec => []RefusedForOthersOnly
<1> DEFINE Justified(b) == reply'.batch = {b} /\ (reply'.result = "backend" => HeldByOther(b))
<1>1. Init => RefusedForOthersOnly
  BY DEF Init, RefusedForOthersOnly
<1>2. LedgerInv /\ RefusedForOthersOnly /\ [Next]_vars => RefusedForOthersOnly'
  <2>1. SUFFICES ASSUME LedgerInv, RefusedForOthersOnly, [Next]_vars
                 PROVE  RefusedForOthersOnly'
    OBVIOUS
  <2>2. \A b \in Batch : HeldByOther(b) => HeldByOther(b)'
    <3>1. \A a \in Batch : Stored(a) => Stored(a)'
      BY <2>1, StepDecides, NothingForgotten DEF LedgerInv
    <3>2. QED
      BY <3>1 DEF HeldByOther, SameAttempt, SameRun
  <2>3. ASSUME NEW b \in Batch, Justified(b) PROVE RefusedForOthersOnly'
    <3>1. reply'.result = "backend" => HeldByOther(b)'
      BY <2>2, <2>3
    <3>2. QED
      BY <2>3, <3>1 DEF RefusedForOthersOnly, HeldByOther, SameAttempt, SameRun
  <2> HIDE DEF Justified
  <2>4. ASSUME NEW c \in Caller, SubmitCommit(c) PROVE RefusedForOthersOnly'
    <3>1. call[c].batch \in Batch
      BY <2>1, <2>4, CallFields DEF SubmitCommit, LedgerInv, TypeInv
    <3>2. Justified(call[c].batch)
      BY <2>1, <2>4, <3>1, SubmitNotRefused DEF SubmitCommit, Answer, Justified
    <3>3. QED
      BY <2>3, <3>1, <3>2
  <2>5. ASSUME NEW b \in Batch, NEW s \in {13, 15, 16}, NEW f \in Failure,
               StageFailure(b, s, f)
        PROVE  RefusedForOthersOnly'
    <3>1. FailureResult(b, s, f) # "backend"
      BY DEF FailureResult
    <3>2. Justified(b)
      BY <2>5, <3>1 DEF StageFailure, Answer, Justified
    <3>3. QED
      BY <2>3, <3>2
  <2>6. ASSUME NEW c \in Caller, NEW b \in Batch, NEW g \in GraphReceipt,
               GraphLookup(c, b, g)
        PROVE  RefusedForOthersOnly'
    <3>1. reply' = reply \/ Justified(b)
      BY <2>6 DEF GraphLookup, Answer, Justified
    <3>2. CASE reply' = reply
      BY <2>1, <2>6, <3>2 DEF RefusedForOthersOnly, GraphLookup, store, Stored, SameAttempt, SameRun
    <3>3. QED
      BY <2>3, <3>1, <3>2
  <2>7. ASSUME NEW c \in Caller, NEW derived \in Stamp, GraphCommit(c, derived)
        PROVE  RefusedForOthersOnly'
    <3>1. call[c].batch \in Batch
      BY <2>1, <2>7, CallFields DEF GraphCommit, LedgerInv, TypeInv
    <3>2. Justified(call[c].batch)
      BY <2>1, <2>7, GraphNotRefused DEF GraphCommit, Answer, Justified
    <3>3. QED
      BY <2>3, <3>1, <3>2
  <2>8. ASSUME NEW row \in ReceiptRow, WriteReceipt(row) PROVE RefusedForOthersOnly'
    <3>1. row.batch \in Batch
      BY DEF ReceiptRow
    <3>2. Justified(row.batch)
      BY <2>1, <2>8, ReceiptNotRefused DEF WriteReceipt, Answer, Justified
    <3>3. QED
      BY <2>3, <3>1, <3>2
  <2>9. ASSUME NEW c \in Caller, NEW b \in Batch, GateLookup(c, b) PROVE RefusedForOthersOnly'
    <3>1. reply' = reply \/ Justified(b)
      BY <2>9 DEF GateLookup, Answer, Justified
    <3>2. CASE reply' = reply
      BY <2>1, <2>9, <3>2 DEF RefusedForOthersOnly, GateLookup, store, Stored, SameAttempt, SameRun
    <3>3. QED
      BY <2>3, <3>1, <3>2
  <2>10. ASSUME NEW c \in Caller, NEW stamp \in Stamp, GateCommit(c, stamp)
        PROVE  RefusedForOthersOnly'
    <3> DEFINE row == GateVerdict(call[c], stamp)
    <3>1. row.batch = call[c].batch
      BY DEF GateVerdict
    <3>2. row.batch \in Batch /\ Stored(row.batch)
      BY <2>1, <2>10, <3>1, CallFields DEF GateCommit, LedgerInv, TypeInv, CallsKnown
    <3>3. GateResult(row) = "backend" => HeldByOther(row.batch)
      BY <2>1, <3>2, GateNotRefused
    <3>4. Justified(row.batch)
      BY <2>10, <3>3 DEF GateCommit, Answer, Justified
    <3>5. QED
      BY <2>3, <3>2, <3>4
  <2>11. ASSUME NEW quoted \in ReceiptRow, NEW p \in Publication,
               PublicationReceipt(quoted, p)
        PROVE  RefusedForOthersOnly'
    <3>1. quoted.batch \in Batch
      BY DEF ReceiptRow
    <3>2. Justified(quoted.batch)
      BY <2>1, <2>11, PublicationNotRefused DEF PublicationReceipt, Answer, Justified
    <3>3. QED
      BY <2>3, <3>1, <3>2
  <2>12. ASSUME NEW c \in Caller, Crash(c) PROVE RefusedForOthersOnly'
    BY <2>12 DEF Crash, Answer, RefusedForOthersOnly
  <2>13. CASE UNCHANGED <<store, reply>>
    BY <2>1, <2>13 DEF RefusedForOthersOnly, store, Stored, SameAttempt, SameRun
  <2>14. QED
    BY <2>1, <2>4, <2>5, <2>6, <2>7, <2>8, <2>9, <2>10, <2>11, <2>12, <2>13
       DEF Next, vars, SubmitLookup, GateReadGraph, GateReadReceipt
<1>3. QED
  BY <1>1, <1>2, LedgerInvInductive, PTL DEF Spec

-----------------------------------------------------------------------------
(* Receipts and verdicts. *)

LEMMA OneRowKept ==
  ASSUME LedgerInv, OneRowPerDecision, DecisionStep
  PROVE  OneRowPerDecision'
<1> DEFINE Single(table) == \A r, s \in table : r.batch = s.batch => r = s
<1>1. ASSUME NEW table, Single(table), NEW row, Of(table, row.batch) = {}
      PROVE  Single(table \cup {row})
  BY <1>1 DEF Of
<1>2. Single(graphs) /\ Single(receipts) /\ Single(gates) /\ Single(publications)
  BY DEF OneRowPerDecision
<1>3. /\ graphs' = graphs \/ \E row \in GraphRow : GraphStored(row)
      /\ receipts' = receipts \/ \E row \in ReceiptRow : ReceiptStored(row)
      /\ gates' = gates \/ \E row \in GateRow : GateStored(row)
      /\ publications' = publications \/
           \E b \in Batch, p \in Publication : PublicationStored(b, p)
  BY DEF DecisionStep, decisions, Submitted, StageFailed, GraphStored, ReceiptStored,
         GateStored, PublicationStored
<1>4. Single(graphs')
  BY <1>1, <1>2, <1>3 DEF GraphStored
<1>5. Single(receipts')
  BY <1>1, <1>2, <1>3 DEF ReceiptStored
<1>6. Single(gates')
  BY <1>1, <1>2, <1>3 DEF GateStored
<1>7. Single(publications')
  <2>1. ASSUME NEW b \in Batch, NEW p \in Publication, PublicationStored(b, p)
        PROVE  Single(publications')
    <3> DEFINE row == [batch |-> b, receipt |-> p]
    <3>1. Of(publications, row.batch) = {} /\ publications' = publications \cup {row}
      BY <2>1 DEF PublicationStored
    <3> HIDE DEF row
    <3>2. QED
      BY <1>1, <1>2, <3>1
  <2>2. QED
    BY <1>2, <1>3, <2>1
<1>8. QED
  BY <1>4, <1>5, <1>6, <1>7 DEF OneRowPerDecision

\* A decision never has two graph receipts, worker receipts, verdicts or
\* publications, whatever its callers sent and however they raced.
THEOREM DecisionsHaveOneRow == Spec => []OneRowPerDecision
<1>1. Init => OneRowPerDecision
  BY DEF Init, OneRowPerDecision
<1>2. LedgerInv /\ OneRowPerDecision /\ [Next]_vars => OneRowPerDecision'
  BY StepDecides, OneRowKept DEF LedgerInv
<1>3. QED
  BY <1>1, <1>2, LedgerInvInductive, PTL DEF Spec

\* A verdict that allows publication quotes the receipts the store still holds.
AllowedIsEarned == \A row \in gates : row.allow => Earned(row)

LEMMA AllowedIsEarnedKept ==
  ASSUME LedgerInv, AllowedIsEarned, DecisionStep
  PROVE  AllowedIsEarned'
<1>1. graphs \subseteq graphs' /\ receipts \subseteq receipts'
  BY NothingForgotten DEF LedgerInv
<1>2. ASSUME NEW row \in gates, row.allow, Earned(row) PROVE Earned(row)'
  <2>1. Of(receipts', row.batch) = Of(receipts, row.batch)
    <3>1. CASE receipts' = receipts
      BY <3>1
    <3>2. CASE \E new \in ReceiptRow : ReceiptStored(new)
      BY <1>2, <3>2 DEF ReceiptStored, Earned, Of
    <3>3. QED
      BY <3>1, <3>2
         DEF DecisionStep, decisions, Submitted, StageFailed, GraphStored, GateStored,
             PublicationStored
  <2>2. Of(graphs, row.batch) \subseteq Of(graphs', row.batch)
    BY <1>1 DEF Of
  <2>3. QED
    BY <1>2, <2>1, <2>2 DEF Earned, Of
<1>3. CASE gates' = gates
  BY <1>2, <1>3 DEF AllowedIsEarned
<1>4. ASSUME NEW new \in GateRow, GateStored(new) PROVE AllowedIsEarned'
  <2>1. new.allow => Earned(new)'
    BY <1>4 DEF GateStored, Earned, Of
  <2>2. gates' = gates \cup {new}
    BY <1>4 DEF GateStored
  <2>3. QED
    BY <1>2, <2>1, <2>2 DEF AllowedIsEarned
<1>5. QED
  BY <1>3, <1>4
     DEF DecisionStep, decisions, Submitted, StageFailed, GraphStored, ReceiptStored,
         PublicationStored

\* Whatever is published was graded PASS on the one worker receipt of the run
\* and its stored graph receipt, and its policy allows it.
THEOREM PublicationIsEarned == Spec => []PublishedIsEarned
<1>1. Init => AllowedIsEarned
  BY DEF Init, AllowedIsEarned
<1>2. LedgerInv /\ AllowedIsEarned /\ [Next]_vars => AllowedIsEarned'
  BY StepDecides, AllowedIsEarnedKept DEF LedgerInv
<1>3. LedgerInv /\ AllowedIsEarned => PublishedIsEarned
  <2>1. SUFFICES ASSUME LedgerInv, AllowedIsEarned, NEW b \in Batch,
                        status[b] = "PUBLISHED" \/ Of(publications, b) # {}
                 PROVE  \E row \in gates :
                          /\ row.batch = b
                          /\ allowPublication[b]
                          /\ row.receipt = Of(receipts, b)
                          /\ Graded(b, Of(graphs, b), Of(receipts, b), "PASS")
    BY DEF PublishedIsEarned
  <2>2. Passed(b)
    BY <2>1 DEF LedgerInv, TablesAgree
  <2>3. PICK row \in gates : row.batch = b /\ row.allow
    BY <2>2 DEF Passed, Of
  <2>4. Earned(row)
    BY <2>1, <2>3 DEF AllowedIsEarned
  <2>5. Graded(b, Of(graphs, b), Of(receipts, b), "PASS")
    BY <2>3, <2>4 DEF Earned, Graded
  <2>6. QED
    BY <2>3, <2>4, <2>5 DEF Earned
<1>4. QED
  BY <1>1, <1>2, <1>3, LedgerInvInductive, PTL DEF Spec

-----------------------------------------------------------------------------
(* Order and immutability. *)

CursorCounted == \A row \in evidence : row.cursor <= cursor

OrderInv == LedgerOrder /\ CursorCounted

\* New rows come after all that is there, in the order of their stages, and a
\* success is recorded only after lesser successes and no failure of its batch.
LEMMA RecordOrdered ==
  ASSUME TypeInv, OrderInv, NEW b \in Batch, NEW stages, NEW n \in Nat,
         DOMAIN stages = 1..n, Len(stages) = n,
         \A k \in 1..n : stages[k] \in Nat,
         \A k, l \in 1..n : stages[k] < stages[l] => k < l,
         NEW outcome, NEW failure,
         outcome = "SUCCEEDED" =>
           Failed(b) = {} /\ \A s \in Succeeded(b), k \in 1..n : s < stages[k],
         Record(b, stages, outcome, failure)
  PROVE  OrderInv'
<1> DEFINE row(k) == [cursor |-> cursor + k, batch |-> b, stage |-> stages[k],
                      outcome |-> outcome, failure |-> failure]
<1>1. evidence' = evidence \cup {row(k) : k \in 1..n} /\ cursor' = cursor + n
  BY DEF Record
<1>2. cursor \in Nat /\ \A r \in evidence : /\ r.cursor \in Nat /\ r.cursor <= cursor
                                            /\ r.stage \in Nat
  BY DEF TypeInv, TypeOK, EvidenceRow, Stage, OrderInv, CursorCounted
<1>3. \A k \in 1..n : /\ row(k).cursor = cursor + k /\ row(k).batch = b
                      /\ row(k).stage = stages[k] /\ row(k).outcome = outcome
  OBVIOUS
<1>4. \A r \in evidence : r.batch = b /\ outcome = "SUCCEEDED" =>
        /\ r.outcome # "FAILED"
        /\ r.outcome = "SUCCEEDED" => \A k \in 1..n : r.stage < stages[k]
  <2>1. ASSUME NEW r \in evidence, r.batch = b
        PROVE  /\ r.outcome = "SUCCEEDED" => r.stage \in Succeeded(b)
               /\ r.outcome = "FAILED" => r.stage \in Failed(b)
    BY <2>1 DEF Succeeded, Failed, Stages, Of
  <2>2. QED
    BY <2>1
<1> HIDE DEF row
<1>5. CursorCounted'
  BY <1>1, <1>2, <1>3 DEF CursorCounted
<1>6. ASSUME NEW r \in evidence', NEW s \in evidence', r.batch = s.batch,
             s.outcome = "SUCCEEDED"
      PROVE  /\ r.outcome = "FAILED" => s.cursor < r.cursor
             /\ r.outcome = "SUCCEEDED" /\ r.stage < s.stage => r.cursor < s.cursor
  <2>1. CASE r \in evidence /\ s \in evidence
    BY <1>6, <2>1 DEF OrderInv, LedgerOrder
  <2>2. ASSUME NEW k \in 1..n, r = row(k), s \in evidence
        PROVE  /\ r.outcome = "FAILED" => s.cursor < r.cursor
               /\ r.outcome = "SUCCEEDED" => s.stage < r.stage
    BY <1>2, <1>3, <1>4, <1>6, <2>2
  <2>3. ASSUME NEW k \in 1..n, s = row(k), r \in evidence
        PROVE  r.outcome # "FAILED" /\ r.cursor < s.cursor
    BY <1>2, <1>3, <1>4, <1>6, <2>3
  <2>4. ASSUME NEW k \in 1..n, NEW l \in 1..n, r = row(k), s = row(l)
        PROVE  r.outcome = "SUCCEEDED" /\ (r.stage < s.stage => r.cursor < s.cursor)
    BY <1>2, <1>3, <1>6, <2>4
  <2>5. r.stage \in Nat /\ s.stage \in Nat
    BY <1>1, <1>2, <1>3
  <2>6. CASE r \in evidence
    BY <1>1, <2>1, <2>3, <2>6
  <2>7. ASSUME NEW k \in 1..n, r = row(k)
        PROVE  /\ r.outcome = "FAILED" => s.cursor < r.cursor
               /\ r.outcome = "SUCCEEDED" /\ r.stage < s.stage => r.cursor < s.cursor
    <3>1. CASE s \in evidence
      BY <2>2, <2>5, <2>7, <3>1
    <3>2. CASE s \notin evidence
      BY <1>1, <2>4, <2>7, <3>2
    <3>3. QED
      BY <3>1, <3>2
  <2>8. QED
    BY <1>1, <2>6, <2>7
<1>7. QED
  BY <1>5, <1>6 DEF OrderInv, LedgerOrder

LEMMA OrderKept ==
  ASSUME LedgerInv, OrderInv, DecisionStep
  PROVE  OrderInv'
<1> USE DEF LedgerInv
<1>1. CASE UNCHANGED <<evidence, cursor>>
  BY <1>1 DEF OrderInv, LedgerOrder, CursorCounted
<1>2. ASSUME NEW b \in Batch, Submitted(b) PROVE OrderInv'
  <2> DEFINE stages == <<9, 10, 11, 12>>
  <2>1. Failed(b) = {} /\ Succeeded(b) = {} /\ Record(b, stages, "SUCCEEDED", {})
    BY <1>2, StatusFacts DEF Submitted
  <2>2. /\ DOMAIN stages = 1..4 /\ Len(stages) = 4
        /\ \A k \in 1..4 : stages[k] = k + 8
    OBVIOUS
  <2> HIDE DEF stages
  <2>3. /\ \A k \in 1..4 : stages[k] \in Nat
        /\ \A k, l \in 1..4 : stages[k] < stages[l] => k < l
    BY <2>2
  <2>4. QED
    BY <2>1, <2>2, <2>3, RecordOrdered
<1>3. ASSUME NEW b \in Batch, NEW s \in {13, 15, 16}, NEW f \in Failure, StageFailed(b, s, f)
      PROVE  OrderInv'
  <2> DEFINE stages == <<s>>
  <2>1. Record(b, stages, "FAILED", {f})
    BY <1>3 DEF StageFailed
  <2>2. /\ DOMAIN stages = 1..1 /\ Len(stages) = 1
        /\ \A k \in 1..1 : stages[k] \in Nat
        /\ \A k, l \in 1..1 : stages[k] < stages[l] => k < l
    OBVIOUS
  <2> DEFINE outcome == "FAILED"
             failure == {f}
  <2>3. outcome # "SUCCEEDED" /\ Record(b, stages, outcome, failure)
    BY <2>1
  <2> HIDE DEF stages, outcome, failure
  <2>4. QED
    BY <2>2, <2>3, RecordOrdered
<1>4. ASSUME NEW row \in GraphRow, GraphStored(row) PROVE OrderInv'
  <2> DEFINE b == row.batch
             stages == <<13, 14>>
  <2>1. b \in Batch
    BY DEF GraphRow
  <2>2. Failed(b) = {} /\ status[b] = "PENDING" /\ Record(b, stages, "SUCCEEDED", {})
    BY <1>4, <2>1, StatusFacts DEF GraphStored
  <2>3. Succeeded(b) = 9..12
    BY <2>1, <2>2 DEF LedgerAgreesWithStatus
  <2>4. /\ DOMAIN stages = 1..2 /\ Len(stages) = 2
        /\ \A k \in 1..2 : stages[k] = k + 12
    OBVIOUS
  <2> HIDE DEF stages
  <2>5. /\ \A k \in 1..2 : stages[k] \in Nat
        /\ \A k, l \in 1..2 : stages[k] < stages[l] => k < l
        /\ \A s \in Succeeded(b), k \in 1..2 : s < stages[k]
    BY <2>3, <2>4
  <2>6. QED
    BY <2>1, <2>2, <2>4, <2>5, RecordOrdered
<1>5. ASSUME NEW row \in ReceiptRow, ReceiptStored(row) PROVE OrderInv'
  <2> DEFINE b == row.batch
             stages == <<15, 16>>
  <2>1. b \in Batch /\ Of(graphs, b) # {}
    BY <1>5 DEF ReceiptRow, ReceiptStored, MatchesGraph, Of
  <2>2. Failed(b) = {} /\ status[b] = "GRAPH_RECEIPTED" /\ Record(b, stages, "SUCCEEDED", {})
    BY <1>5, <2>1, StatusFacts DEF ReceiptStored
  <2>3. Succeeded(b) = 9..14
    BY <2>1, <2>2 DEF LedgerAgreesWithStatus
  <2>4. /\ DOMAIN stages = 1..2 /\ Len(stages) = 2
        /\ \A k \in 1..2 : stages[k] = k + 14
    OBVIOUS
  <2> HIDE DEF stages
  <2>5. /\ \A k \in 1..2 : stages[k] \in Nat
        /\ \A k, l \in 1..2 : stages[k] < stages[l] => k < l
        /\ \A s \in Succeeded(b), k \in 1..2 : s < stages[k]
    BY <2>3, <2>4
  <2>6. QED
    BY <2>1, <2>2, <2>4, <2>5, RecordOrdered
<1>6. ASSUME NEW b \in Batch, NEW outcome, Record(b, << 17 >>, outcome, {}),
             outcome = "SUCCEEDED" => status[b] = "GATED"
      PROVE  OrderInv'
  <2> DEFINE stages == << 17 >>
  <2>1. Record(b, stages, outcome, {})
    BY <1>6
  <2>2. outcome = "SUCCEEDED" => Failed(b) = {} /\ Succeeded(b) = 9..16
    BY <1>6 DEF LedgerAgreesWithStatus
  <2>3. /\ DOMAIN stages = 1..1 /\ Len(stages) = 1 /\ stages[1] = 17
        /\ \A k \in 1..1 : stages[k] \in Nat
        /\ \A k, l \in 1..1 : stages[k] < stages[l] => k < l
    OBVIOUS
  <2> HIDE DEF stages
  <2>4. outcome = "SUCCEEDED" => \A s \in Succeeded(b), k \in 1..1 : s < stages[k]
    BY <2>2, <2>3
  <2>5. QED
    BY <2>1, <2>2, <2>3, <2>4, RecordOrdered
<1>7. ASSUME NEW row \in GateRow, GateStored(row) PROVE OrderInv'
  <2>1. row.batch \in Batch
    BY DEF GateRow
  <2>2. QED
    BY <1>1, <1>6, <1>7, <2>1 DEF GateStored
<1>8. ASSUME NEW b \in Batch, NEW p \in Publication, PublicationStored(b, p) PROVE OrderInv'
  BY <1>6, <1>8, StatusFacts DEF PublicationStored
<1>9. QED
  BY <1>1, <1>2, <1>3, <1>4, <1>5, <1>7, <1>8 DEF DecisionStep, decisions

\* A reader of the ledger that stops at any cursor has seen, of each batch, a
\* prefix of the stage order, and no success after a failure.
THEOREM LedgerIsOrdered == Spec => []LedgerOrder
<1>1. Init => OrderInv
  BY DEF Init, OrderInv, LedgerOrder, CursorCounted
<1>2. LedgerInv /\ OrderInv /\ [Next]_vars => OrderInv'
  BY StepDecides, OrderKept DEF LedgerInv
<1>3. OrderInv => LedgerOrder
  BY DEF OrderInv
<1>4. QED
  BY <1>1, <1>2, <1>3, LedgerInvInductive, PTL DEF Spec

LEMMA NewRowsAreNew ==
  ASSUME TypeInv, DecisionStep, NEW row \in evidence' \ evidence
  PROVE  row.cursor > cursor
<1>1. cursor \in Nat
  BY DEF TypeInv, TypeOK
<1>2. ASSUME NEW b, NEW stages, NEW n \in Nat, DOMAIN stages = 1..n, NEW outcome, NEW failure,
             Record(b, stages, outcome, failure)
      PROVE  row.cursor > cursor
  <2>1. PICK k \in 1..n :
          row = [cursor |-> cursor + k, batch |-> b, stage |-> stages[k],
                 outcome |-> outcome, failure |-> failure]
    BY <1>2 DEF Record
  <2>2. QED
    BY <1>1, <2>1
<1>3. /\ DOMAIN <<9, 10, 11, 12>> = 1..4 /\ DOMAIN <<13, 14>> = 1..2
      /\ DOMAIN <<15, 16>> = 1..2 /\ \A s : DOMAIN <<s>> = 1..1
  OBVIOUS
<1>4. CASE UNCHANGED decisions
  BY <1>4 DEF decisions
<1>5. CASE \E b \in Batch : Submitted(b)
  BY <1>2, <1>3, <1>5 DEF Submitted
<1>6. CASE \E b \in Batch, s \in {13, 15, 16}, f \in Failure : StageFailed(b, s, f)
  BY <1>2, <1>3, <1>6 DEF StageFailed
<1>7. CASE \E new \in GraphRow : GraphStored(new)
  BY <1>2, <1>3, <1>7 DEF GraphStored
<1>8. CASE \E new \in ReceiptRow : ReceiptStored(new)
  BY <1>2, <1>3, <1>8 DEF ReceiptStored
<1>9. CASE \E new \in GateRow : GateStored(new)
  BY <1>2, <1>3, <1>9 DEF GateStored
<1>10. CASE \E b \in Batch, p \in Publication : PublicationStored(b, p)
  BY <1>2, <1>3, <1>10 DEF PublicationStored
<1>11. QED
  BY <1>4, <1>5, <1>6, <1>7, <1>8, <1>9, <1>10 DEF DecisionStep

LEMMA StatusMoves ==
  ASSUME LedgerInv, DecisionStep, NEW b \in Batch
  PROVE  /\ status[b] \in {"PUBLISHED", "REJECTED"} => status'[b] = status[b]
         /\ status[b] = "FAILED_STAGE" => status'[b] \in {"FAILED_STAGE", "REJECTED"}
         /\ status[b] = "GATED" => status'[b] \in {"GATED", "PUBLISHED"}
<1> DEFINE Moves == /\ status[b] \in {"PUBLISHED", "REJECTED"} => status'[b] = status[b]
                    /\ status[b] = "FAILED_STAGE" => status'[b] \in {"FAILED_STAGE", "REJECTED"}
                    /\ status[b] = "GATED" => status'[b] \in {"GATED", "PUBLISHED"}
<1>1. status \in [Batch -> Status \cup {"ABSENT"}]
  BY DEF LedgerInv, TypeInv, TypeOK
<1>2. ASSUME NEW a \in Batch, NEW new, status' = [status EXCEPT ![a] = new],
             \/ status[a] \in {"ABSENT", "PENDING", "GRAPH_RECEIPTED", "RECEIPT_WRITTEN"}
             \/ status[a] = "FAILED_STAGE" /\ new = "REJECTED"
             \/ status[a] = "GATED" /\ new = "PUBLISHED"
      PROVE  Moves
  BY <1>1, <1>2
<1>3. CASE UNCHANGED decisions
  BY <1>3 DEF decisions
<1>4. ASSUME NEW a \in Batch, Submitted(a) PROVE Moves
  BY <1>2, <1>4 DEF Submitted, Stored
<1>5. ASSUME NEW a \in Batch, NEW s \in {13, 15, 16}, NEW f \in Failure, StageFailed(a, s, f)
      PROVE  Moves
  <2>1. status[a] \notin Closed /\ s \notin Succeeded(a)
    BY <1>5 DEF StageFailed, Attempts, SameAttempt, SameRun, Succeeded, Stages, Of
  <2>2. s \in 9..16
    OBVIOUS
  <2>3. status[a] \in {"ABSENT", "PENDING", "GRAPH_RECEIPTED", "RECEIPT_WRITTEN"}
    BY <1>1, <2>1, <2>2 DEF LedgerInv, LedgerAgreesWithStatus, Closed, Status
  <2>4. QED
    BY <1>2, <1>5, <2>3 DEF StageFailed
<1>6. ASSUME NEW row \in GraphRow, GraphStored(row) PROVE Moves
  <2>1. row.batch \in Batch
    BY DEF GraphRow
  <2>2. status[row.batch] = "PENDING"
    BY <1>6, <2>1, StatusFacts DEF GraphStored
  <2>3. QED
    BY <1>2, <1>6, <2>1, <2>2 DEF GraphStored
<1>7. ASSUME NEW row \in ReceiptRow, ReceiptStored(row) PROVE Moves
  <2>1. row.batch \in Batch /\ Of(graphs, row.batch) # {}
    BY <1>7 DEF ReceiptRow, ReceiptStored, MatchesGraph, Of
  <2>2. status[row.batch] = "GRAPH_RECEIPTED"
    BY <1>7, <2>1, StatusFacts DEF ReceiptStored
  <2>3. QED
    BY <1>2, <1>7, <2>1, <2>2 DEF ReceiptStored
<1>8. ASSUME NEW row \in GateRow, GateStored(row) PROVE Moves
  <2>1. row.batch \in Batch
    BY DEF GateRow
  <2>2. status[row.batch] \in {"PENDING", "GRAPH_RECEIPTED", "RECEIPT_WRITTEN", "FAILED_STAGE"}
    BY <1>8, <2>1, StatusFacts DEF GateStored
  <2>3. status[row.batch] = "FAILED_STAGE" => ~row.allow
    BY <1>8 DEF GateStored
  <2>4. QED
    BY <1>2, <1>8, <2>1, <2>2, <2>3 DEF GateStored
<1>9. ASSUME NEW a \in Batch, NEW p \in Publication, PublicationStored(a, p) PROVE Moves
  <2>1. status[a] = "GATED"
    BY <1>9, StatusFacts DEF PublicationStored
  <2>2. QED
    BY <1>2, <1>9, <2>1 DEF PublicationStored
<1> HIDE DEF Moves
<1>10. Moves
  <2>1. CASE UNCHANGED decisions
    BY <1>3, <2>1 DEF Moves
  <2>2. QED
    BY <1>4, <1>5, <1>6, <1>7, <1>8, <1>9, <2>1 DEF DecisionStep
<1>11. QED
  BY <1>10 DEF Moves

\* No step rewrites history: closed runs stay closed, and no receipt, verdict,
\* publication or evidence row is changed, removed or numbered below the cursor.
THEOREM HistoryKept == Spec => HistoryIsImmutable
<1>1. LedgerInv /\ [Next]_vars =>
        [/\ \A b \in Batch :
              /\ status[b] \in {"PUBLISHED", "REJECTED"} => status'[b] = status[b]
              /\ status[b] = "FAILED_STAGE" => status'[b] \in {"FAILED_STAGE", "REJECTED"}
              /\ status[b] = "GATED" => status'[b] \in {"GATED", "PUBLISHED"}
         /\ graphs \subseteq graphs' /\ receipts \subseteq receipts'
         /\ gates \subseteq gates' /\ publications \subseteq publications'
         /\ evidence \subseteq evidence'
         /\ \A row \in evidence' \ evidence : row.cursor > cursor]_vars
  <2>1. SUFFICES ASSUME LedgerInv, [Next]_vars
                 PROVE  /\ \A b \in Batch :
                             /\ status[b] \in {"PUBLISHED", "REJECTED"} => status'[b] = status[b]
                             /\ status[b] = "FAILED_STAGE" =>
                                  status'[b] \in {"FAILED_STAGE", "REJECTED"}
                             /\ status[b] = "GATED" => status'[b] \in {"GATED", "PUBLISHED"}
                        /\ graphs \subseteq graphs' /\ receipts \subseteq receipts'
                        /\ gates \subseteq gates' /\ publications \subseteq publications'
                        /\ evidence \subseteq evidence'
                        /\ \A row \in evidence' \ evidence : row.cursor > cursor
    OBVIOUS
  <2>2. DecisionStep /\ TypeInv
    BY <2>1, StepDecides DEF LedgerInv
  <2>3. QED
    BY <2>1, <2>2, StatusMoves, NothingForgotten, NewRowsAreNew
<1>2. QED
  BY <1>1, LedgerInvInductive, PTL DEF Spec, HistoryIsImmutable

-----------------------------------------------------------------------------
(* The evidence export. *)

\* The cursor to go on from is the one given or that of a row of the page.
LEMMA NextIsLast ==
  ASSUME TypeInv, CursorCounted, NEW e \in EvidenceRequest, PipelineEvidencePage(e) # {}
  PROVE  \E row \in PipelineEvidencePage(e) : row.cursor = NextCursor(e)
<1> DEFINE page == PipelineEvidencePage(e)
           taken == {row.cursor : row \in page}
<1>1. cursor \in Nat /\ e.after \in Nat
  BY DEF TypeInv, TypeOK, EvidenceRequest
<1>2. \A row \in page : row.cursor \in 0..cursor /\ row.cursor > e.after
  BY DEF PipelineEvidencePage, RunRows, TypeInv, TypeOK, EvidenceRow, CursorCounted
<1>3. taken \in SUBSET Nat /\ taken # {} /\ \A n \in taken : n <= cursor
  BY <1>2
<1>4. PICK last \in taken : \A n \in taken : n <= last
  <2> HIDE DEF taken
  <2>1. QED
    BY <1>1, <1>3, MaxExists
<1>5. last \in {e.after} \cup taken /\ \A row \in page : row.cursor <= last
  BY <1>4
<1>6. /\ NextCursor(e) \in {e.after} \cup taken
      /\ \A row \in page : row.cursor <= NextCursor(e)
  BY <1>5 DEF NextCursor
<1>7. NextCursor(e) # e.after
  BY <1>1, <1>2, <1>6
<1>8. QED
  BY <1>6, <1>7

\* A page has no gap: with a row it has every earlier row after the cursor.
LEMMA PageHasNoGap ==
  ASSUME TypeInv, NEW e \in EvidenceRequest, NEW row \in PipelineEvidencePage(e),
         NEW f \in RunRows(e.batch), f.cursor \in (e.after + 1)..row.cursor
  PROVE  f \in PipelineEvidencePage(e)
<1> DEFINE upTo(r) == {g.cursor : g \in {h \in RunRows(e.batch) :
                                          h.cursor \in (e.after + 1)..r.cursor}}
<1>1. e.after \in Nat /\ e.limit \in Nat /\ row.cursor \in Nat /\ f.cursor \in Nat
  BY DEF EvidenceRequest, PipelineEvidencePage, RunRows, TypeInv, TypeOK, EvidenceRow
<1>2. \A g \in RunRows(e.batch) : g.cursor \in Nat
  BY DEF RunRows, TypeInv, TypeOK, EvidenceRow
<1>3. upTo(row) \subseteq (e.after + 1)..row.cursor /\ upTo(f) \subseteq upTo(row)
  BY <1>1, <1>2
<1>4. IsFiniteSet(upTo(row)) /\ IsFiniteSet(upTo(f))
  <2>1. IsFiniteSet((e.after + 1)..row.cursor)
    <3>1. e.after + 1 \in Int /\ row.cursor \in Int
      BY <1>1
    <3>2. QED
      BY <3>1, FS_Interval
  <2> HIDE DEF upTo
  <2>2. QED
    BY <1>3, <2>1, FS_Subset
<1>5. /\ Cardinality(upTo(f)) <= Cardinality(upTo(row))
      /\ Cardinality(upTo(f)) \in Nat /\ Cardinality(upTo(row)) \in Nat
  <2> HIDE DEF upTo
  <2>1. QED
    BY <1>3, <1>4, FS_Subset, FS_CardinalityType
<1>6. Cardinality(upTo(row)) <= e.limit
  BY DEF PipelineEvidencePage
<1>7. Cardinality(upTo(f)) <= e.limit
  <2> HIDE DEF upTo
  <2>1. QED
    BY <1>1, <1>5, <1>6
<1>8. f.cursor > e.after
  BY <1>1
<1>9. QED
  BY <1>7, <1>8 DEF PipelineEvidencePage

\* However the source pages through a run, no row is ever recorded, by any
\* process, where the source has already been.
THEOREM NothingIsMissed == Spec => ReaderMissesNothing
<1> DEFINE Seen(e) ==
      /\ ExportPipelineEvidence(e).rows \subseteq RunRows(e.batch)'
      /\ \A row \in RunRows(e.batch)' :
           row.cursor \in (e.after + 1)..ExportPipelineEvidence(e).next =>
             row \in ExportPipelineEvidence(e).rows
<1>1. LedgerInv /\ OrderInv /\ [Next]_vars => [\A e \in EvidenceRequest : Seen(e)]_vars
  <2>1. SUFFICES ASSUME LedgerInv, OrderInv, [Next]_vars, NEW e \in EvidenceRequest
                 PROVE  Seen(e)
    OBVIOUS
  <2> DEFINE page == PipelineEvidencePage(e)
  <2>2. TypeInv /\ DecisionStep /\ CursorCounted
    BY <2>1, StepDecides DEF LedgerInv, OrderInv
  <2>3. evidence \subseteq evidence' /\ \A row \in evidence' \ evidence : row.cursor > cursor
    BY <2>2, NothingForgotten, NewRowsAreNew
  <2>4. e.after \in Nat /\ cursor \in Nat
    BY <2>2 DEF TypeInv, TypeOK, EvidenceRequest
  <2>5. page \subseteq RunRows(e.batch)'
    BY <2>3 DEF PipelineEvidencePage, RunRows
  <2>6. ASSUME NEW row \in RunRows(e.batch)',
               row.cursor \in (e.after + 1)..NextCursor(e), page # {}
        PROVE  row \in page
    <3>1. PICK last \in page : last.cursor = NextCursor(e)
      BY <2>2, <2>6, NextIsLast
    <3>2. last.cursor \in Nat /\ last.cursor <= cursor
      BY <2>2 DEF PipelineEvidencePage, RunRows, TypeInv, TypeOK, EvidenceRow, CursorCounted
    <3>3. row \in evidence
      BY <2>3, <2>4, <2>6, <3>1, <3>2 DEF RunRows
    <3>4. row \in RunRows(e.batch)
      BY <2>6, <3>3 DEF RunRows
    <3>5. QED
      BY <2>2, <2>6, <3>1, <3>4, PageHasNoGap
  <2>7. ASSUME page = {} PROVE NextCursor(e) = e.after
    BY <2>7 DEF NextCursor
  <2>8. CASE e.after > cursor
    BY <2>4, <2>8 DEF ExportPipelineEvidence
  <2>9. CASE ~(e.after > cursor)
    <3>1. ExportPipelineEvidence(e).rows = page /\ ExportPipelineEvidence(e).next = NextCursor(e)
      BY <2>9 DEF ExportPipelineEvidence
    <3>2. CASE page = {}
      BY <2>4, <2>5, <2>7, <3>1, <3>2
    <3>3. CASE page # {}
      BY <2>5, <2>6, <3>1, <3>3
    <3>4. QED
      BY <3>2, <3>3
  <2>10. QED
    BY <2>8, <2>9
<1>2. Init => OrderInv
  BY DEF Init, OrderInv, LedgerOrder, CursorCounted
<1>3. LedgerInv /\ OrderInv /\ [Next]_vars => OrderInv'
  BY StepDecides, OrderKept DEF LedgerInv
<1>4. QED
  BY <1>1, <1>2, <1>3, LedgerInvInductive, PTL DEF Spec, ReaderMissesNothing

-----------------------------------------------------------------------------
(* Answers. *)

\* A caller that is told its graph receipt or gate call succeeded is told of
\* rows that are in the store, and stay there.
THEOREM AnswersKept == Spec => []AnswersAreStored
<1>1. Init => AnswersAreStored
  BY DEF Init, AnswersAreStored
<1>2. LedgerInv /\ AnswersAreStored /\ [Next]_vars => AnswersAreStored'
  <2>1. SUFFICES ASSUME LedgerInv, AnswersAreStored, [Next]_vars
                 PROVE  AnswersAreStored'
    OBVIOUS
  <2>2. graphs \subseteq graphs' /\ gates \subseteq gates'
    BY <2>1, StepDecides, NothingForgotten DEF LedgerInv
  <2>3. ASSUME NEW c \in Caller, NEW b \in Batch, NEW g \in GraphReceipt,
               GraphLookup(c, b, g)
        PROVE  AnswersAreStored'
    <3>1. Of(graphs, b) \subseteq graphs
      BY DEF Of
    <3>2. QED
      BY <2>1, <2>2, <2>3, <3>1 DEF GraphLookup, Answer, AnswersAreStored
  <2>4. ASSUME NEW c \in Caller, NEW derived \in Stamp, GraphCommit(c, derived)
        PROVE  AnswersAreStored'
    <3> DEFINE row == [batch |-> call[c].batch, receipt |-> call[c].receipt,
                       derived |-> derived]
               result == GraphResult(call[c].batch, row.receipt, derived)
    <3>1. reply' = [op |-> "graph", batch |-> {call[c].batch}, result |-> result,
                    rows |-> IF result \in {"accepted", "idempotent"} THEN {row} ELSE {}]
      BY <2>4 DEF GraphCommit, Answer
    <3>2. result = "accepted" => row \in graphs'
      BY <2>4 DEF GraphCommit
    <3>3. result = "idempotent" => row \in graphs
      BY DEF GraphResult
    <3>4. QED
      BY <2>2, <3>1, <3>2, <3>3 DEF AnswersAreStored
  <2>5. ASSUME NEW c \in Caller, NEW b \in Batch, GateLookup(c, b) PROVE AnswersAreStored'
    <3>1. Of(gates, b) \subseteq gates
      BY DEF Of
    <3>2. QED
      BY <2>1, <2>2, <2>5, <3>1 DEF GateLookup, Answer, AnswersAreStored
  <2>6. ASSUME NEW c \in Caller, NEW stamp \in Stamp, GateCommit(c, stamp)
        PROVE  AnswersAreStored'
    <3> DEFINE row == GateVerdict(call[c], stamp)
               result == GateResult(row)
    <3>1. reply' = [op |-> "gate", batch |-> {row.batch}, result |-> result,
                    rows |-> IF result \in {"accepted", "idempotent"} THEN {row} ELSE {}]
      BY <2>6 DEF GateCommit, Answer
    <3>2. result = "accepted" => row \in gates'
      BY <2>6 DEF GateCommit
    <3>3. result = "idempotent" => row \in gates
      BY DEF GateResult
    <3>4. QED
      BY <2>2, <3>1, <3>2, <3>3 DEF AnswersAreStored
  <2>7. CASE UNCHANGED reply
    BY <2>1, <2>2, <2>7 DEF AnswersAreStored
  <2>8. ASSUME NEW op, NEW b, NEW result, Answer(op, b, result, {}) PROVE AnswersAreStored'
    BY <2>8 DEF Answer, AnswersAreStored
  <2>9. ASSUME \/ \E c \in Caller : SubmitCommit(c) \/ Crash(c)
               \/ \E b \in Batch, s \in {13, 15, 16}, f \in Failure : StageFailure(b, s, f)
               \/ \E row \in ReceiptRow : WriteReceipt(row)
               \/ \E row \in ReceiptRow, p \in Publication : PublicationReceipt(row, p)
        PROVE  AnswersAreStored'
    BY <2>8, <2>9 DEF SubmitCommit, Crash, StageFailure, WriteReceipt, PublicationReceipt
  <2>10. QED
    BY <2>1, <2>3, <2>4, <2>5, <2>6, <2>7, <2>9
       DEF Next, vars, SubmitLookup, GateReadGraph, GateReadReceipt
<1>3. QED
  BY <1>1, <1>2, LedgerInvInductive, PTL DEF Spec

-----------------------------------------------------------------------------
(* Refinement of StageLedger. *)

done == [b \in Batch |-> Succeeded(b)]
failed == [b \in Batch |-> Failed(b)]

LEMMA GainsMaps ==
  ASSUME NEW b \in Batch, NEW more, NEW worse, Gains(b, more, worse),
         NEW d, d = Succeeded(b) \cup more, NEW f, f = Failed(b) \cup worse
  PROVE  /\ done' = [done EXCEPT ![b] = d] /\ failed' = [failed EXCEPT ![b] = f]
         /\ d = Succeeded(b) => done' = done
         /\ f = Failed(b) => failed' = failed
BY DEF Gains, done, failed

\* A step that gives one batch these stages is one of StageLedger's, when the
\* batch had what that step starts from.
LEMMA MovesMap ==
  ASSUME NEW b \in Batch
  PROVE  /\ Gains(b, 9..12, {}) /\ Succeeded(b) = {} /\ Failed(b) = {} => LedgerView!Next
         /\ Gains(b, 13..14, {}) /\ Succeeded(b) = 9..12 /\ Failed(b) = {} => LedgerView!Next
         /\ Gains(b, 15..16, {}) /\ Succeeded(b) = 9..14 /\ Failed(b) = {} => LedgerView!Next
         /\ Gains(b, {17}, {}) /\ Succeeded(b) = 9..16 /\ Failed(b) = {} => LedgerView!Next
         /\ Gains(b, {}, {17}) /\ Succeeded(b) # {} /\ 17 \notin Succeeded(b) \cup Failed(b) =>
              LedgerView!Next
         /\ \A s \in {13, 15, 16} :
              /\ Gains(b, {}, {s})
              /\ Succeeded(b) # {} /\ Failed(b) = {} /\ s \notin Succeeded(b)
              => LedgerView!Next
<1> DEFINE had == Succeeded(b)
           lost == Failed(b)
<1>1. done[b] = had /\ failed[b] = lost
  BY DEF done, failed
<1>2. ASSUME NEW more, Gains(b, more, {}), NEW d, d = had \cup more
      PROVE  done' = [done EXCEPT ![b] = d] /\ failed' = failed
  <2>1. Failed(b) = Failed(b) \cup {}
    OBVIOUS
  <2>2. QED
    BY <1>2, <2>1, GainsMaps
<1>3. ASSUME NEW worse, Gains(b, {}, worse), NEW f, f = lost \cup worse
      PROVE  done' = done /\ failed' = [failed EXCEPT ![b] = f]
  <2>1. Succeeded(b) = Succeeded(b) \cup {}
    OBVIOUS
  <2>2. QED
    BY <1>3, <2>1, GainsMaps
<1>4. ASSUME Gains(b, 9..12, {}), had = {}, lost = {} PROVE LedgerView!Accept(b)
  <2>1. done' = [done EXCEPT ![b] = 9..12] /\ failed' = failed
    BY <1>2, <1>4
  <2>2. QED
    BY <1>1, <1>4, <2>1 DEF LedgerView!Accept, done, failed
<1>5. ASSUME NEW last \in {12, 14}, NEW more, more = (last + 1)..(last + 2),
             Gains(b, more, {}), had = 9..last, lost = {}
      PROVE  LedgerView!Advance(b)
  <2>1. 9..(last + 2) = had \cup more
    BY <1>5
  <2>2. done' = [done EXCEPT ![b] = 9..(last + 2)] /\ failed' = failed
    BY <1>2, <1>5, <2>1
  <2>3. QED
    BY <1>1, <1>5, <2>2 DEF LedgerView!Advance, done, failed
<1>6. ASSUME Gains(b, {17}, {}), had = 9..16, lost = {} PROVE LedgerView!Publish(b)
  <2>1. done' = [done EXCEPT ![b] = 9..17] /\ failed' = failed
    BY <1>2, <1>6, StageSets
  <2>2. QED
    BY <1>1, <1>6, <2>1 DEF LedgerView!Publish, done, failed
<1>7. ASSUME Gains(b, {}, {17}), had # {}, 17 \notin had \cup lost PROVE LedgerView!Reject(b)
  <2>1. failed' = [failed EXCEPT ![b] = lost \cup {17}] /\ done' = done
    BY <1>3, <1>7
  <2>2. QED
    BY <1>1, <1>7, <2>1 DEF LedgerView!Reject, done, failed
<1>8. ASSUME NEW s \in {13, 15, 16}, Gains(b, {}, {s}), had # {}, lost = {}, s \notin had
      PROVE  LedgerView!Fail(b)
  <2>1. failed' = [failed EXCEPT ![b] = {s}] /\ done' = done
    BY <1>3, <1>8
  <2>2. QED
    BY <1>1, <1>8, <2>1 DEF LedgerView!Fail, done, failed
<1>9. 13..14 = (12 + 1)..(12 + 2) /\ 15..16 = (14 + 1)..(14 + 2)
  OBVIOUS
<1>10. QED
  BY <1>4, <1>5, <1>6, <1>7, <1>8, <1>9 DEF LedgerView!Next

LEMMA StepRefines ==
  ASSUME LedgerInv, DecisionStep
  PROVE  LedgerView!Next \/ UNCHANGED <<done, failed>>
<1> USE DEF LedgerInv
<1>1. CASE UNCHANGED evidence
  BY <1>1 DEF done, failed, Succeeded, Failed, Stages, Of
<1>2. ASSUME NEW b \in Batch, Submitted(b) PROVE LedgerView!Next
  BY <1>2, RecordGains, StatusFacts, MovesMap DEF Submitted
<1>3. ASSUME NEW b \in Batch, NEW s \in {13, 15, 16}, NEW f \in Failure, StageFailed(b, s, f)
      PROVE  LedgerView!Next
  <2>1. Gains(b, {}, {s}) /\ Failed(b) = {} /\ 9..12 \subseteq Succeeded(b)
    BY <1>3, RecordGains, StatusFacts DEF StageFailed
  <2>2. s \notin Succeeded(b)
    BY <1>3 DEF StageFailed, Attempts, SameAttempt, SameRun, Succeeded, Stages, Of
  <2>3. 9..12 # {}
    OBVIOUS
  <2>4. QED
    BY <2>1, <2>2, <2>3, MovesMap
<1>4. ASSUME NEW row \in GraphRow, GraphStored(row) PROVE LedgerView!Next
  <2> DEFINE b == row.batch
  <2>1. b \in Batch
    BY DEF GraphRow
  <2>2. status[b] = "PENDING" /\ Gains(b, 13..14, {})
    BY <1>4, <2>1, RecordGains, StatusFacts DEF GraphStored
  <2>3. Succeeded(b) = 9..12 /\ Failed(b) = {}
    BY <2>1, <2>2 DEF LedgerAgreesWithStatus
  <2>4. QED
    BY <2>1, <2>2, <2>3, MovesMap
<1>5. ASSUME NEW row \in ReceiptRow, ReceiptStored(row) PROVE LedgerView!Next
  <2> DEFINE b == row.batch
  <2>1. b \in Batch /\ Of(graphs, b) # {}
    BY <1>5 DEF ReceiptRow, ReceiptStored, MatchesGraph, Of
  <2>2. status[b] = "GRAPH_RECEIPTED" /\ Gains(b, 15..16, {})
    BY <1>5, <2>1, RecordGains, StatusFacts DEF ReceiptStored
  <2>3. Succeeded(b) = 9..14 /\ Failed(b) = {}
    BY <2>1, <2>2 DEF LedgerAgreesWithStatus
  <2>4. QED
    BY <2>1, <2>2, <2>3, MovesMap
<1>6. ASSUME NEW row \in GateRow, GateStored(row), ~UNCHANGED evidence PROVE LedgerView!Next
  <2> DEFINE b == row.batch
  <2>1. b \in Batch
    BY DEF GateRow
  <2>2. /\ status[b] \in {"PENDING", "GRAPH_RECEIPTED", "RECEIPT_WRITTEN", "FAILED_STAGE"}
        /\ Gains(b, {}, {17}) /\ 9..12 \subseteq Succeeded(b)
    BY <1>6, <2>1, RecordGains, StatusFacts DEF GateStored
  <2>3. /\ 17 \notin 9..12 /\ 17 \notin 9..14 /\ 17 \notin 9..16 /\ 9..12 # {}
    OBVIOUS
  <2>4. 17 \notin Succeeded(b) \cup Failed(b)
    BY <2>1, <2>2, <2>3 DEF LedgerAgreesWithStatus
  <2>5. QED
    BY <2>1, <2>2, <2>3, <2>4, MovesMap
<1>7. ASSUME NEW b \in Batch, NEW p \in Publication, PublicationStored(b, p)
      PROVE  LedgerView!Next
  <2>1. status[b] = "GATED" /\ Gains(b, {17}, {})
    BY <1>7, RecordGains, StatusFacts DEF PublicationStored
  <2>2. Succeeded(b) = 9..16 /\ Failed(b) = {}
    BY <2>1 DEF LedgerAgreesWithStatus
  <2>3. QED
    BY <2>1, <2>2, MovesMap
<1>8. QED
  BY <1>1, <1>2, <1>3, <1>4, <1>5, <1>6, <1>7 DEF DecisionStep, decisions

\* Through the evidence export, the whole service is a StageLedger: what a
\* source principal can pull never shows the races, replays and crashes inside.
THEOREM Refinement == Spec => ImplementsStageLedger
<1>1. Init => LedgerView!Init
  BY DEF Init, LedgerView!Init, Succeeded, Failed, Stages, Of
<1>2. LedgerInv /\ [Next]_vars => [LedgerView!Next]_<<done, failed>>
  BY StepDecides, StepRefines DEF LedgerInv
<1>3. QED
  BY <1>1, <1>2, LedgerInvInductive, PTL
     DEF Spec, ImplementsStageLedger, LedgerView!Spec, done, failed

-----------------------------------------------------------------------------
(* The source and the Tier-4 worker. *)

\* A call the worker has under way.
Busy == [step : {"graph", "receipt", "gate", "publish"}, on : SUBSET Handler,
         batch : Batch, derived : SUBSET Stamp]

WorkOK == work \in {NoWork} \cup Busy

\* What the worker and its handlers rely on when a verdict is due: the receipt
\* in the store is what the worker measured, quotes the stored graph receipt,
\* and neither is replaced while the handler reads one after the other.
HoldsReceipt(c) ==
  /\ call[c].op \in {"gateGraph", "gateReceipt", "gate"} => Of(receipts, call[c].batch) # {}
  /\ call[c].op \in {"gateReceipt", "gate"} => call[c].graph = Of(graphs, call[c].batch)
  /\ call[c].op = "gate" => call[c].receipt = Of(receipts, call[c].batch)

ReceiptsHeld == \A row \in receipts : row.body = bodyOf[row.batch] /\ MatchesGraph(row)

WorkerInv ==
  /\ LedgerInv /\ WorkOK /\ ReceiptsHeld
  /\ work.step = "gate" => Of(receipts, work.batch) # {}
  /\ \A c \in Caller : HoldsReceipt(c)
  /\ NoPassingRunRejected

-----------------------------------------------------------------------------
(* The principals are callers of the pipeline. *)

\* A step of the worker is about the batch it has claimed.
LEMMA WorkFields ==
  ASSUME WorkOK
  PROVE  /\ work.step # "claim" => work \in Busy
         /\ work.step \in {"claim", "graph", "receipt", "gate", "publish"}
         /\ NoWork.step = "claim" /\ NoWork.on = {}
  BY DEF WorkOK, Busy, NoWork

\* The receipt that the worker writes and quotes is one the service may store.
LEMMA HeldRow ==
  ASSUME WorkOK, work.step \in {"receipt", "publish"}, NEW derived \in work.derived
  PROVE  [batch |-> work.batch, body |-> bodyOf[work.batch],
          graph |-> graphOf[work.batch], derived |-> derived] \in ReceiptRow
<1>1. work.batch \in Batch /\ derived \in Stamp
  BY WorkFields DEF Busy
<1> QED BY <1>1, HeldAssumption DEF ReceiptRow

\* Whatever the principals do is a step of the pipeline, or none.
LEMMA PrincipalsCall ==
  ASSUME WorkOK, [WorkerNext]_workerVars
  PROVE  [Next]_vars
<1> USE CallerAssumption
<1>1. CASE Claim \/ Timeout \/ UNCHANGED workerVars
  BY <1>1 DEF Claim, Timeout, workerVars
<1>2. ASSUME NEW h \in Handler, SendGraph(h) \/ SendGate(h) PROVE Next
  <2>1. work.batch \in Batch
    BY <1>2, WorkFields DEF SendGraph, SendGate, At, Busy
  <2>2. graphOf[work.batch] \in GraphReceipt
    BY <2>1, HeldAssumption
  <2>3. GraphLookup(h, work.batch, graphOf[work.batch]) \/ GateLookup(h, work.batch)
    BY <1>2 DEF SendGraph, SendGate
  <2> QED BY <2>1, <2>2, <2>3 DEF Next
<1>3. CASE SendReceipt
  <2>1. PICK derived \in work.derived :
          WriteReceipt([batch |-> work.batch, body |-> bodyOf[work.batch],
                        graph |-> graphOf[work.batch], derived |-> derived])
    BY <1>3 DEF SendReceipt
  <2>2. [batch |-> work.batch, body |-> bodyOf[work.batch],
         graph |-> graphOf[work.batch], derived |-> derived] \in ReceiptRow
    BY <1>3, HeldRow DEF SendReceipt, At
  <2> QED BY <2>1, <2>2 DEF Next
<1>4. CASE SendPublication
  <2>1. PICK derived \in work.derived :
          PublicationReceipt([batch |-> work.batch, body |-> bodyOf[work.batch],
                              graph |-> graphOf[work.batch], derived |-> derived],
                             publicationOf[work.batch])
    BY <1>4 DEF SendPublication
  <2>2. [batch |-> work.batch, body |-> bodyOf[work.batch],
         graph |-> graphOf[work.batch], derived |-> derived] \in ReceiptRow
    BY <1>4, HeldRow DEF SendPublication, At
  <2>3. work.batch \in Batch
    BY <1>4, WorkFields DEF SendPublication, At, Busy
  <2>4. publicationOf[work.batch] \in Publication
    BY <2>3, HeldAssumption
  <2> QED BY <2>1, <2>2, <2>4 DEF Next
<1>5. CASE SendFailure
  <2>1. work.batch \in Batch
    BY <1>5, WorkFields DEF SendFailure, At, Busy
  <2>2. \E s \in {13, 15, 16}, f \in Failure : StageFailure(work.batch, s, f)
    BY <1>5 DEF SendFailure
  <2> QED BY <2>1, <2>2 DEF Next
<1>6. ASSUME NEW h \in Handler, Serve(h) \/ HandlerDies(h) PROVE Next
  BY <1>6 DEF Serve, HandlerDies, Next
<1>7. CASE Submit
  BY <1>7 DEF Submit, Next
<1> QED BY <1>1, <1>2, <1>3, <1>4, <1>5, <1>6, <1>7 DEF WorkerNext, WorkerStep

\* What the handlers answer the worker with are rows of the shape they store.
LEMMA AnsweredRows ==
  ASSUME TypeOK, NEW h \in Caller
  PROVE  /\ \A b, g : GraphLookup(h, b, g) /\ call'[h] = Idle => reply'.rows \subseteq GraphRow
         /\ \A derived \in Stamp : GraphCommit(h, derived) => reply'.rows \subseteq GraphRow
<1>1. ASSUME NEW b, NEW g, GraphLookup(h, b, g), call'[h] = Idle
      PROVE  reply'.rows \subseteq GraphRow
  <2>1. ~Begin(h, [op |-> "graph", batch |-> b, receipt |-> g])
    BY <1>1 DEF Begin, Idle, TypeOK
  <2>2. reply'.rows \in {Of(graphs, b), {}}
    BY <1>1, <2>1 DEF GraphLookup, Answer
  <2> QED BY <2>2 DEF Of, TypeOK
<1>2. ASSUME NEW derived \in Stamp, GraphCommit(h, derived)
      PROVE  reply'.rows \subseteq GraphRow
  <2> DEFINE row == [batch |-> call[h].batch, receipt |-> call[h].receipt, derived |-> derived]
  <2>1. row \in GraphRow
    BY <1>2, CallFields DEF GraphCommit, GraphRow
  <2>2. reply'.rows \in {{row}, {}}
    BY <1>2 DEF GraphCommit, Answer
  <2> QED BY <2>1, <2>2
<1> QED BY <1>1, <1>2

\* The worker's part of a step.
LEMMA WorkKept ==
  ASSUME WorkOK, TypeOK, [WorkerNext]_workerVars
  PROVE  WorkOK'
<1> USE CallerAssumption
<1>0. /\ \A step, derived : Reached(step, derived) => work' = NoWork
           \/ work' = [work EXCEPT !.step = step, !.on = {}, !.derived = derived]
      /\ NoWork \in {NoWork} \cup Busy
  BY DEF Reached
<1>1. ASSUME NEW step \in {"receipt", "gate", "publish"}, work \in Busy,
             NEW derived \in SUBSET Stamp, Reached(step, derived)
      PROVE  WorkOK'
  <2>1. [work EXCEPT !.step = step, !.on = {}, !.derived = derived] \in Busy
    BY <1>1 DEF Busy
  <2> QED BY <1>0, <1>1, <2>1 DEF WorkOK
<1>2. ASSUME work \in Busy, AfterGraph, reply'.rows \subseteq GraphRow PROVE WorkOK'
  <2>1. {row.derived : row \in reply'.rows} \in SUBSET Stamp
    BY <1>2 DEF GraphRow
  <2> QED BY <1>1, <1>2, <2>1 DEF AfterGraph
<1>3. ASSUME work \in Busy, AfterGate PROVE WorkOK'
  <2>1. work.derived \in SUBSET Stamp
    BY <1>3 DEF Busy
  <2> QED BY <1>0, <1>1, <1>3, <2>1 DEF AfterGate, WorkOK
<1>4. ASSUME NEW h \in Handler, work \in Busy, work' = [work EXCEPT !.on = {h}] PROVE WorkOK'
  BY <1>4 DEF WorkOK, Busy
<1>5. ASSUME NEW h \in Handler, work.on = {h} PROVE work \in Busy
  BY <1>5 DEF WorkOK, NoWork
<1>6. CASE Claim
  BY <1>6 DEF Claim, Claimed, WorkOK, Busy
<1>7. ASSUME NEW h \in Handler, SendGraph(h) PROVE WorkOK'
  <2>1. work \in Busy
    BY <1>7, WorkFields DEF SendGraph, At
  <2> QED BY <1>2, <1>4, <1>7, <2>1, AnsweredRows DEF SendGraph, Await
<1>8. ASSUME NEW h \in Handler, SendGate(h) PROVE WorkOK'
  <2>1. work \in Busy
    BY <1>8, WorkFields DEF SendGate, At
  <2> QED BY <1>3, <1>4, <1>8, <2>1 DEF SendGate, Await
<1>9. CASE SendReceipt
  <2>1. work \in Busy /\ work.derived \in SUBSET Stamp
    BY <1>9, WorkFields DEF SendReceipt, At, Busy
  <2> QED BY <1>1, <1>9, <2>1 DEF SendReceipt
<1>10. CASE SendPublication \/ SendFailure \/ Timeout
  BY <1>10 DEF SendPublication, SendFailure, Timeout, WorkOK
<1>11. ASSUME NEW h \in Handler, Serve(h) PROVE WorkOK'
  <2>1. CASE \E derived \in Stamp : GraphCommit(h, derived) /\ Heard(h, AfterGraph)
    BY <1>2, <1>5, <2>1, AnsweredRows DEF Heard, WorkOK
  <2>2. CASE \E stamp \in Stamp : GateCommit(h, stamp) /\ Heard(h, AfterGate)
    BY <1>3, <1>5, <2>2 DEF Heard, WorkOK
  <2>3. CASE UNCHANGED work
    BY <2>3 DEF WorkOK
  <2> QED BY <1>11, <2>1, <2>2, <2>3 DEF Serve
<1>12. ASSUME NEW h \in Handler, HandlerDies(h) PROVE WorkOK'
  BY <1>12 DEF HandlerDies, Heard, WorkOK
<1>13. CASE Submit \/ UNCHANGED workerVars
  BY <1>13 DEF Submit, workerVars, WorkOK
<1> QED BY <1>6, <1>7, <1>8, <1>9, <1>10, <1>11, <1>12, <1>13 DEF WorkerNext, WorkerStep

\* The system of the source and the worker is one of the pipeline's, whatever
\* handlers serve the worker and whichever of its calls are lost: every theorem
\* about the pipeline is one about it.
THEOREM WorkerUsesPipeline == WorkerSpec => Spec
<1>1. WorkerInit => Init /\ WorkOK
  BY DEF WorkerInit, WorkOK
<1>2. WorkerInit => LedgerInv
  BY LedgerInvInductive DEF WorkerInit
<1>3. WorkOK /\ LedgerInv /\ [WorkerNext]_workerVars => WorkOK' /\ LedgerInv' /\ [Next]_vars
  BY PrincipalsCall, WorkKept, LedgerInvInductive DEF LedgerInv, TypeInv
<1> QED BY <1>1, <1>2, <1>3, PTL DEF WorkerSpec, Spec

-----------------------------------------------------------------------------
(* The verdict of a run whose receipts pass. *)

\* A stored receipt and the graph receipt it quotes are what they were after
\* any decision, and no second one joins them.
LEMMA ReceiptsStay ==
  ASSUME DecisionStep, ReceiptsHeld, NEW b, Of(receipts, b) # {}
  PROVE  Of(receipts', b) = Of(receipts, b) /\ Of(graphs', b) = Of(graphs, b)
<1>1. Of(graphs, b) # {}
  <2>1. PICK row \in receipts : row.batch = b
    BY DEF Of
  <2> DEFINE g == [batch |-> b, receipt |-> row.graph, derived |-> row.derived]
  <2>2. g \in graphs /\ g.batch = b
    BY <2>1 DEF ReceiptsHeld, MatchesGraph
  <2> QED BY <2>2 DEF Of
<1>2. receipts' = receipts \/ \E row : receipts' = receipts \cup {row} /\ Of(receipts, row.batch) = {}
  BY DEF DecisionStep, decisions, Submitted, StageFailed, GraphStored, ReceiptStored,
         GateStored, PublicationStored
<1>3. graphs' = graphs \/ \E row : graphs' = graphs \cup {row} /\ Of(graphs, row.batch) = {}
  BY DEF DecisionStep, decisions, Submitted, StageFailed, GraphStored, ReceiptStored,
         GateStored, PublicationStored
<1>4. ASSUME NEW table, NEW row, Of(table, row.batch) = {}, Of(table, b) # {}
      PROVE  Of(table \cup {row}, b) = Of(table, b)
  BY <1>4 DEF Of
<1> QED BY <1>1, <1>2, <1>3, <1>4

\* Every receipt the service takes is the worker's, of the graph it quotes.
LEMMA ReceiptsHeldKept ==
  ASSUME WorkerInv, [WorkerNext]_workerVars
  PROVE  ReceiptsHeld'
<1>1. DecisionStep
  BY PrincipalsCall, StepDecides DEF WorkerInv, LedgerInv
<1>2. graphs \subseteq graphs'
  BY <1>1 DEF DecisionStep, decisions, Submitted, StageFailed, GraphStored, ReceiptStored,
              GateStored, PublicationStored
<1>3. CASE receipts' = receipts
  BY <1>2, <1>3 DEF WorkerInv, ReceiptsHeld, MatchesGraph
<1>4. CASE SendReceipt
  <2>1. PICK derived \in work.derived :
          WriteReceipt([batch |-> work.batch, body |-> bodyOf[work.batch],
                        graph |-> graphOf[work.batch], derived |-> derived])
    BY <1>4 DEF SendReceipt
  <2> DEFINE row == [batch |-> work.batch, body |-> bodyOf[work.batch],
                     graph |-> graphOf[work.batch], derived |-> derived]
  <2>2. CASE ReceiptResult(row) = "accepted"
    <3>1. MatchesGraph(row) /\ row.body = bodyOf[row.batch]
      BY <2>2 DEF ReceiptResult
    <3>2. receipts' = receipts \cup {row}
      BY <2>1, <2>2 DEF WriteReceipt
    <3> HIDE DEF row
    <3> QED BY <1>2, <3>1, <3>2 DEF WorkerInv, ReceiptsHeld, MatchesGraph
  <2>3. CASE ReceiptResult(row) # "accepted"
    BY <1>3, <2>1, <2>3 DEF WriteReceipt
  <2> QED BY <2>2, <2>3
<1>5. SendReceipt \/ receipts' = receipts
  BY DEF WorkerNext, WorkerStep, workerVars, vars, store, tables, Claim, SendGraph, SendGate,
         SendPublication, SendFailure, Serve, HandlerDies, Timeout, Submit, GraphLookup,
         GateLookup, PublicationReceipt, StageFailure, GraphCommit, GateReadGraph,
         GateReadReceipt, GateCommit, Crash, SubmitLookup, SubmitCommit
<1> QED BY <1>3, <1>4, <1>5

\* The worker asks for a verdict when its receipt has been taken.
LEMMA GateWhenReceipted ==
  ASSUME WorkerInv, [WorkerNext]_workerVars, work'.step = "gate"
  PROVE  Of(receipts', work'.batch) # {}
<1> USE CallerAssumption
<1>0. WorkOK
  BY DEF WorkerInv
<1>1. CASE SendReceipt
  <2>1. work \in Busy
    BY <1>0, <1>1, WorkFields DEF SendReceipt, At
  <2>2. PICK derived \in work.derived :
          WriteReceipt([batch |-> work.batch, body |-> bodyOf[work.batch],
                        graph |-> graphOf[work.batch], derived |-> derived])
    BY <1>1 DEF SendReceipt
  <2> DEFINE row == [batch |-> work.batch, body |-> bodyOf[work.batch],
                     graph |-> graphOf[work.batch], derived |-> derived]
  <2>3. /\ reply'.result \in {"accepted", "idempotent"}
        /\ work' = [work EXCEPT !.step = "gate", !.on = {}, !.derived = work.derived]
    BY <1>1 DEF SendReceipt, Reached, NoWork
  <2>4. work'.batch = work.batch
    BY <2>1, <2>3 DEF Busy
  <2>5. reply'.result = ReceiptResult(row)
    BY <2>2 DEF WriteReceipt, Answer
  <2>6. row \in receipts' /\ row.batch = work.batch
    <3>1. CASE ReceiptResult(row) = "accepted"
      BY <2>2, <3>1 DEF WriteReceipt
    <3>2. CASE ReceiptResult(row) = "idempotent"
      <4>1. row \in receipts
        BY <3>2 DEF ReceiptResult
      <4>2. receipts' = receipts
        BY <2>2, <3>2 DEF WriteReceipt
      <4> QED BY <4>1, <4>2
    <3> QED BY <2>3, <2>5, <3>1, <3>2
  <2> QED BY <2>4, <2>6 DEF Of
<1>2. ASSUME work.step = "gate", work'.batch = work.batch PROVE Of(receipts', work'.batch) # {}
  <2>1. DecisionStep
    BY PrincipalsCall, StepDecides DEF WorkerInv, LedgerInv
  <2>2. Of(receipts, work.batch) # {} /\ ReceiptsHeld
    BY <1>2 DEF WorkerInv
  <2>3. Of(receipts, work.batch)' # {}
    <3> SUFFICES ASSUME NEW b, b = work.batch PROVE Of(receipts', b) # {}
      BY <1>2
    <3> QED BY <2>1, <2>2, ReceiptsStay
  <2> QED BY <1>2, <2>3
<1>3. ASSUME NEW step \in {"receipt", "publish"}, NEW derived, Reached(step, derived) PROVE FALSE
  BY <1>0, <1>3, WorkFields DEF Reached, NoWork, WorkOK, Busy
<1>4. ASSUME NEW on, work \in Busy, work' = [work EXCEPT !.on = on]
      PROVE  work.step = "gate" /\ work'.batch = work.batch
  BY <1>4 DEF Busy
<1>5. work' # NoWork /\ ~AfterGraph /\ ~AfterGate
  BY <1>3 DEF NoWork, AfterGraph, AfterGate
<1>6. ASSUME work' = work PROVE work.step = "gate" /\ work'.batch = work.batch
  BY <1>6
<1>7. ~Claim
  BY DEF Claim
<1>8. ASSUME NEW h \in Handler, SendGraph(h) \/ SendGate(h)
      PROVE  work.step = "gate" /\ work'.batch = work.batch
  <2>1. work \in Busy
    BY <1>0, <1>8, WorkFields DEF SendGraph, SendGate, At
  <2> QED BY <1>4, <1>5, <1>8, <2>1 DEF SendGraph, SendGate, Await
<1>9. ~SendPublication /\ ~SendFailure /\ ~Timeout
  BY <1>5 DEF SendPublication, SendFailure, Timeout
<1>10. ASSUME NEW h \in Handler, Serve(h) \/ HandlerDies(h) PROVE work' = work
  BY <1>5, <1>10 DEF Serve, HandlerDies, Heard
<1>11. Submit \/ UNCHANGED workerVars => work' = work
  BY DEF Submit, workerVars
<1> QED BY <1>1, <1>2, <1>6, <1>7, <1>8, <1>9, <1>10, <1>11 DEF WorkerNext, WorkerStep

\* A handler that is to give a verdict goes on to read what is stored.
LEMMA HoldsReceiptKept ==
  ASSUME WorkerInv, [WorkerNext]_workerVars, NEW c \in Caller
  PROVE  HoldsReceipt(c)'
<1>0. TypeOK /\ HoldsReceipt(c) /\ WorkOK
  BY DEF WorkerInv, LedgerInv, TypeInv
<1>1. DecisionStep /\ ReceiptsHeld
  BY PrincipalsCall, StepDecides DEF WorkerInv, LedgerInv
<1>2. \A b : Of(receipts, b) # {} => Of(receipts', b) = Of(receipts, b) /\ Of(graphs', b) = Of(graphs, b)
  <2> SUFFICES ASSUME NEW b, Of(receipts, b) # {}
               PROVE  Of(receipts', b) = Of(receipts, b) /\ Of(graphs', b) = Of(graphs, b)
    OBVIOUS
  <2> QED BY <1>1, ReceiptsStay
<1>3. CASE call'[c] = call[c]
  BY <1>0, <1>2, <1>3 DEF HoldsReceipt
<1>4. CASE call'[c] = Idle
  BY <1>4 DEF HoldsReceipt, Idle
<1>5. ASSUME call'[c].op \in {"submit", "graph"} PROVE HoldsReceipt(c)'
  BY <1>5 DEF HoldsReceipt
<1>6. ASSUME NEW b \in Batch, SubmitLookup(c, b) PROVE call'[c].op = "submit"
  BY <1>0, <1>6 DEF SubmitLookup, Begin, TypeOK
<1>7. ASSUME NEW b \in Batch, GateLookup(c, b), call'[c] = [op |-> "gateGraph", batch |-> b],
             call'[c] # call[c]
      PROVE  HoldsReceipt(c)'
  <2>1. b = work.batch /\ work.step = "gate"
    <3>1. ASSUME NEW d \in Caller, Finish(d) \/ UNCHANGED call PROVE FALSE
      BY <1>0, <1>7, <3>1 DEF Finish, TypeOK, Idle
    <3>2. ASSUME NEW d \in Caller, NEW handler, Begin(d, handler)
          PROVE  d = c /\ handler = [op |-> "gateGraph", batch |-> b]
      BY <1>0, <1>7, <3>2 DEF Begin, TypeOK
    <3>3. PICK h \in Handler : SendGate(h)
      <4>1. ASSUME NEW d \in Caller PROVE /\ \A a, g : ~GraphLookup(d, a, g)
                                          /\ \A a : ~SubmitLookup(d, a)
        BY <3>1, <3>2 DEF GraphLookup, SubmitLookup
      <4>2. ASSUME NEW d \in Caller PROVE ~GateReadGraph(d) /\ ~GateReadReceipt(d)
        BY <3>2 DEF GateReadGraph, GateReadReceipt
      <4>3. ASSUME NEW d \in Caller
            PROVE  /\ \A x : ~GateCommit(d, x) /\ ~GraphCommit(d, x)
                   /\ ~Crash(d) /\ ~SubmitCommit(d)
        BY <3>1 DEF GateCommit, GraphCommit, Crash, SubmitCommit
      <4>4. ~(UNCHANGED call)
        BY <1>7
      <4>5. ~Claim /\ ~SendReceipt /\ ~SendPublication /\ ~SendFailure /\ ~Timeout
        BY <4>4 DEF Claim, SendReceipt, SendPublication, SendFailure, Timeout, vars,
                    WriteReceipt, PublicationReceipt, StageFailure
      <4>6. ~Submit
        BY <4>1, <4>3, CallerAssumption DEF Submit
      <4>7. ASSUME NEW h \in Handler PROVE ~SendGraph(h) /\ ~Serve(h) /\ ~HandlerDies(h)
        BY <4>1, <4>2, <4>3, CallerAssumption DEF SendGraph, Serve, HandlerDies
      <4> QED BY <4>4, <4>5, <4>6, <4>7 DEF WorkerNext, WorkerStep, workerVars, vars
    <3>4. At("gate") /\ GateLookup(h, work.batch)
      BY <3>3 DEF SendGate
    <3>5. Begin(h, [op |-> "gateGraph", batch |-> work.batch])
      BY <3>1, <3>4, CallerAssumption DEF GateLookup
    <3> QED BY <3>2, <3>4, <3>5, CallerAssumption DEF At
  <2>2. Of(receipts', b) # {}
    BY <1>2, <2>1 DEF WorkerInv
  <2> QED BY <1>7, <2>2 DEF HoldsReceipt
<1>8. CASE GateReadGraph(c) /\ call'[c] = [op |-> "gateReceipt", batch |-> call[c].batch,
                                           graph |-> Of(graphs, call[c].batch)]
  BY <1>0, <1>2, <1>8 DEF HoldsReceipt, GateReadGraph
<1>9. CASE GateReadReceipt(c) /\ call'[c] = [op |-> "gate", batch |-> call[c].batch,
                                             graph |-> call[c].graph,
                                             receipt |-> Of(receipts, call[c].batch)]
  BY <1>0, <1>2, <1>9 DEF HoldsReceipt, GateReadReceipt
<1>10. [Next]_vars /\ TypeInv
  BY PrincipalsCall DEF WorkerInv, LedgerInv
<1>11. ASSUME NEW b, NEW g, call'[c] = [op |-> "graph", batch |-> b, receipt |-> g]
       PROVE  HoldsReceipt(c)'
  BY <1>5, <1>11
<1>12. ASSUME NEW b \in Batch, SubmitLookup(c, b) PROVE HoldsReceipt(c)'
  BY <1>5, <1>6, <1>12
<1>13. CASE call'[c] # call[c]
  BY <1>4, <1>7, <1>8, <1>9, <1>10, <1>11, <1>12, <1>13, CallChange
<1> QED BY <1>3, <1>13

\* A verdict on receipts that pass, under a policy that allows publication,
\* allows it; and only a verdict rejects a run.
LEMMA PassingKept ==
  ASSUME WorkerInv, [WorkerNext]_workerVars
  PROVE  NoPassingRunRejected'
<1> SUFFICES ASSUME NEW b \in Batch, quality[b][bodyOf[b]] = "PASS", allowPublication[b],
                    status[b] # "REJECTED", status'[b] = "REJECTED"
             PROVE  FALSE
  BY DEF WorkerInv, NoPassingRunRejected
<1>1. TypeOK /\ ReceiptsHeld /\ \A c \in Caller : HoldsReceipt(c)
  BY DEF WorkerInv, LedgerInv, TypeInv
<1>2. [Next]_vars
  BY PrincipalsCall DEF WorkerInv, LedgerInv
<1>3. PICK c \in Caller, stamp \in Stamp : GateCommit(c, stamp) /\ call[c].batch = b
  <2>1. status \in [Batch -> Status \cup {"ABSENT"}]
    BY <1>1 DEF TypeOK
  <2>2. /\ status' # status
        /\ \A a, value : status' = [status EXCEPT ![a] = value] => a = b /\ value = "REJECTED"
    BY <2>1
  <2>3. ASSUME NEW d \in Caller
        PROVE  /\ ~GateReadGraph(d) /\ ~GateReadReceipt(d) /\ ~Crash(d)
               /\ \A x : ~SubmitLookup(d, x) /\ ~GateLookup(d, x)
               /\ \A x, y : ~GraphLookup(d, x, y)
    BY <2>2 DEF SubmitLookup, GraphLookup, GateLookup, GateReadGraph, GateReadReceipt, Crash, store
  <2>4. ASSUME NEW d \in Caller PROVE ~SubmitCommit(d) /\ \A y : ~GraphCommit(d, y)
    <3>1. ~SubmitCommit(d)
      <4>1. SubmitCommit(d) => status' \in {status, [status EXCEPT ![call[d].batch] = "PENDING"]}
        BY DEF SubmitCommit
      <4> QED BY <2>2, <4>1
    <3>2. ASSUME NEW y PROVE ~GraphCommit(d, y)
      <4>1. GraphCommit(d, y) =>
              status' \in {status, [status EXCEPT ![call[d].batch] = "GRAPH_RECEIPTED"]}
        BY DEF GraphCommit
      <4> QED BY <2>2, <4>1
    <3> QED BY <3>1, <3>2
  <2>5. /\ \A x, y, f : ~StageFailure(x, y, f)
        /\ \A row : ~WriteReceipt(row) /\ \A p : ~PublicationReceipt(row, p)
    <3>1. ASSUME NEW x, NEW y, NEW f PROVE ~StageFailure(x, y, f)
      BY <2>2 DEF StageFailure
    <3>2. ASSUME NEW row PROVE ~WriteReceipt(row)
      <4>1. WriteReceipt(row) =>
              status' \in {status, [status EXCEPT ![row.batch] = "RECEIPT_WRITTEN"]}
        BY DEF WriteReceipt
      <4> QED BY <2>2, <4>1
    <3>3. ASSUME NEW row, NEW p PROVE ~PublicationReceipt(row, p)
      <4>1. PublicationReceipt(row, p) =>
              status' \in {status, [status EXCEPT ![row.batch] = "PUBLISHED"]}
        BY DEF PublicationReceipt
      <4> QED BY <2>2, <4>1
    <3> QED BY <3>1, <3>2, <3>3
  <2>6. \E d \in Caller, stamp \in Stamp : GateCommit(d, stamp)
    BY <1>2, <2>2, <2>3, <2>4, <2>5 DEF Next, vars, store
  <2>7. \A read, stamp : GateVerdict(read, stamp).batch = read.batch
    BY DEF GateVerdict
  <2>8. ASSUME NEW d \in Caller, NEW stamp \in Stamp, GateCommit(d, stamp)
        PROVE  call[d].batch = b
    <3>1. PICK value : status' \in {status, [status EXCEPT ![call[d].batch] = value]}
      BY <2>7, <2>8 DEF GateCommit
    <3> QED BY <2>2, <3>1
  <2> QED BY <2>6, <2>8
<1> DEFINE row == GateVerdict(call[c], stamp)
<1>4. /\ Of(receipts, b) # {} /\ call[c].graph = Of(graphs, b) /\ call[c].receipt = Of(receipts, b)
  BY <1>1, <1>3 DEF HoldsReceipt, GateCommit
<1>5. PICK w \in receipts : w.batch = b
  BY <1>4 DEF Of
<1>6. /\ w.body = bodyOf[b]
      /\ [batch |-> b, receipt |-> w.graph, derived |-> w.derived] \in graphs
  BY <1>1, <1>5 DEF ReceiptsHeld, MatchesGraph
<1>7. Graded(b, Of(graphs, b), Of(receipts, b), "PASS")
  BY <1>5, <1>6 DEF Graded, Of
<1>8. row.allow /\ row.batch = b
  BY <1>3, <1>4, <1>7 DEF GateVerdict, Evaluate
<1> HIDE DEF row
<1>9. status' \in {status, [status EXCEPT ![b] = "GATED"]}
  BY <1>3, <1>8 DEF GateCommit, row
<1> QED BY <1>1, <1>9 DEF TypeOK

LEMMA WorkerInvInductive ==
  /\ WorkerInit => WorkerInv
  /\ WorkerInv /\ [WorkerNext]_workerVars => WorkerInv'
<1>1. ASSUME WorkerInit PROVE WorkerInv
  BY <1>1, LedgerInvInductive
     DEF WorkerInit, WorkerInv, WorkOK, NoWork, ReceiptsHeld, HoldsReceipt, Init, Idle,
         NoPassingRunRejected
<1>2. ASSUME WorkerInv, [WorkerNext]_workerVars PROVE WorkerInv'
  <2>1. LedgerInv' /\ WorkOK'
    BY <1>2, PrincipalsCall, WorkKept, LedgerInvInductive DEF WorkerInv, LedgerInv, TypeInv
  <2>2. ReceiptsHeld' /\ NoPassingRunRejected'
    BY <1>2, ReceiptsHeldKept, PassingKept
  <2>3. \A c \in Caller : HoldsReceipt(c)'
    BY <1>2, HoldsReceiptKept
  <2>4. work'.step = "gate" => Of(receipts', work'.batch) # {}
    BY <1>2, GateWhenReceipted
  <2> QED BY <2>1, <2>2, <2>3, <2>4 DEF WorkerInv
<1> QED BY <1>1, <1>2

\* However many handlers serve the worker, and whichever of its calls time out,
\* die or are answered late: a run whose worker receipt passes, under a policy
\* that allows publication, never ends as rejected.
THEOREM PassingRunsStand == WorkerSpec => []NoPassingRunRejected
<1>1. WorkerInv => NoPassingRunRejected
  BY DEF WorkerInv
<1> QED BY <1>1, WorkerInvInductive, PTL DEF WorkerSpec
=============================================================================
