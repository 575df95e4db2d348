--------------------------- MODULE PipelineProofs ---------------------------
(***************************************************************************)
(* Pipeline is typed, one identity has one entity in a legacy scope, and   *)
(* status, ledger and receipts agree: for every set of callers, batches,   *)
(* scopes and identities.                                                  *)
(***************************************************************************)
EXTENDS Pipeline, FiniteSetTheorems, WellFoundedInduction, TLAPS

-----------------------------------------------------------------------------
(* Lemmas about the operators of the model. *)

\* A bounded set of naturals has a greatest element: where Latest finds one.
LEMMA MaxExists ==
  ASSUME NEW S \in SUBSET Nat, S # {}, NEW n \in Nat, \A x \in S : x <= n
  PROVE  \E m \in S : \A x \in S : x <= m
<1> DEFINE Above(x) == {k \in 0..n : k > x}
           F == {Above(x) : x \in S}
<1>1. IsWellFoundedOn(StrictSubsetOrdering(0..n), FiniteSubsetsOf(0..n))
  BY FS_StrictSubsetOrderingWellFounded
<1>2. F \subseteq FiniteSubsetsOf(0..n) /\ F # {}
  <2>1. IsFiniteSet(0..n)
    BY FS_Interval
  <2>2. FiniteSubsetsOf(0..n) = SUBSET (0..n)
    BY <2>1, FS_FiniteSubsetsOfFinite
  <2>3. F \subseteq SUBSET (0..n) /\ F # {}
    OBVIOUS
  <2>4. QED
    BY <2>2, <2>3
<1>3. PICK A \in F : \A B \in F : ~(<<B, A>> \in StrictSubsetOrdering(0..n))
  BY <1>1, <1>2, WFMin
<1>4. PICK m \in S : A = Above(m)
  BY <1>3
<1>5. ASSUME NEW x \in S, x > m PROVE FALSE
  <2>1. Above(x) \in F /\ Above(x) \subseteq A /\ x \in A /\ x \notin Above(x)
    BY <1>4, <1>5
  <2>2. <<Above(x), A>> \in StrictSubsetOrdering(0..n)
    BY <2>1, <1>4 DEF StrictSubsetOrdering
  <2>3. QED
    BY <1>3, <2>1, <2>2
<1>6. QED
  BY <1>5

\* Every entity was created by a transaction that has already been counted.
VersionsCounted == \A e \in entities : e.version <= version

\* The last candidate of a non-empty pool is one of its entities.
LEMMA LatestIsPooled ==
  ASSUME TypeOK, VersionsCounted, NEW b \in Batch, NEW i \in Ident, Pooled(b, i) # {}
  PROVE  Latest(Pooled(b, i)) \in Pooled(b, i)
<1> DEFINE V == {e.version : e \in Pooled(b, i)}
<1>1. V \in SUBSET Nat /\ V # {} /\ \A v \in V : v <= version
  BY DEF Pooled, TypeOK, EntityRow, VersionsCounted
<1>2. version \in Nat
  BY DEF TypeOK
<1>3. PICK m \in V : \A v \in V : v <= m
  BY <1>1, <1>2, MaxExists
<1>4. \E e \in Pooled(b, i) : \A f \in Pooled(b, i) : f.version <= e.version
  BY <1>3
<1>5. QED
  BY <1>4 DEF Latest

\* A decision's refs are refs, and one that is not an entity's is of its scope.
LEMMA CanonicalRefsFact ==
  ASSUME TypeOK, VersionsCounted, NEW b \in Batch
  PROVE  /\ CanonicalRefs(b) \in [mentions[b] -> Ref]
         /\ \A i \in mentions[b] :
              \/ HasEntity(CanonicalRefs(b)[i], i)
              \/ CanonicalRefs(b)[i].scope = scope[b]
<1>1. mentions[b] \subseteq Ident /\ scope[b] \in Scope /\ slug[b] \in Slug
  BY ScopeAssumption, MentionsAssumption
<1>2. ASSUME NEW i \in mentions[b], Pooled(b, i) # {}
      PROVE  /\ Latest(Pooled(b, i)).ref \in Ref
             /\ HasEntity(Latest(Pooled(b, i)).ref, i)
  BY <1>1, <1>2, LatestIsPooled DEF Pooled, TypeOK, EntityRow, HasEntity
<1>3. QED
  BY <1>1, <1>2 DEF CanonicalRefs, Ref

\* A handler in flight carries what its kind of call carries.
LEMMA CallFields ==
  ASSUME TypeOK, NEW c \in Caller
  PROVE  /\ call[c].op = "submit" =>
              /\ call[c].batch \in Batch
              /\ call[c].refs \in [mentions[call[c].batch] -> Ref]
         /\ call[c].op = "graph" => call[c].batch \in Batch /\ call[c].receipt \in GraphReceipt
         /\ call[c].op = "gateGraph" => call[c].batch \in Batch
         /\ call[c].op = "gateReceipt" =>
              call[c].batch \in Batch /\ call[c].graph \in SUBSET GraphRow
         /\ call[c].op = "gate" =>
              /\ call[c].batch \in Batch
              /\ call[c].graph \in SUBSET GraphRow
              /\ call[c].receipt \in SUBSET ReceiptRow
<1>1. CASE call[c] = Idle
  BY <1>1 DEF Idle
<1>2. ASSUME NEW b \in Batch, call[c] \in Call(b)
      PROVE  /\ call[c].op = "submit" =>
                  /\ call[c].batch \in Batch
                  /\ call[c].refs \in [mentions[call[c].batch] -> Ref]
             /\ call[c].op = "graph" =>
                  call[c].batch \in Batch /\ call[c].receipt \in GraphReceipt
             /\ call[c].op = "gateGraph" => call[c].batch \in Batch
             /\ call[c].op = "gateReceipt" =>
                  call[c].batch \in Batch /\ call[c].graph \in SUBSET GraphRow
             /\ call[c].op = "gate" =>
                  /\ call[c].batch \in Batch
                  /\ call[c].graph \in SUBSET GraphRow
                  /\ call[c].receipt \in SUBSET ReceiptRow
  BY <1>2 DEF Call
<1>3. QED
  BY <1>1, <1>2 DEF TypeOK

\* Recording stages writes evidence rows and moves the cursor past them.
LEMMA RecordTyped ==
  ASSUME TypeOK, NEW b \in Batch, NEW stages \in Seq(Stage),
         NEW outcome \in {"SUCCEEDED", "FAILED"}, NEW failure \in SUBSET Failure,
         Record(b, stages, outcome, failure)
  PROVE  evidence' \subseteq EvidenceRow /\ cursor' \in Nat
<1>1. Len(stages) \in Nat /\ DOMAIN stages = 1..Len(stages)
  OBVIOUS
<1>2. \A k \in DOMAIN stages : cursor + k \in Nat /\ stages[k] \in Stage
  BY <1>1 DEF TypeOK
<1>3. QED
  BY <1>1, <1>2 DEF Record, TypeOK, EvidenceRow

\* Whatever stages a handler closes, it closes them with rows of the ledger.
LEMMA HandlerRecordTyped ==
  ASSUME TypeOK, NEW b \in Batch,
         \/ Record(b, <<9, 10, 11, 12>>, "SUCCEEDED", {})
         \/ Record(b, <<13, 14>>, "SUCCEEDED", {})
         \/ Record(b, <<15, 16>>, "SUCCEEDED", {})
         \/ Record(b, << 17 >>, "SUCCEEDED", {})
         \/ Record(b, << 17 >>, "FAILED", {})
         \/ \E s \in {13, 15, 16}, f \in Failure : Record(b, <<s>>, "FAILED", {f})
  PROVE  evidence' \subseteq EvidenceRow /\ cursor' \in Nat
<1>1. /\ <<9, 10, 11, 12>> \in Seq(Stage) /\ <<13, 14>> \in Seq(Stage)
      /\ <<15, 16>> \in Seq(Stage) /\ << 17 >> \in Seq(Stage)
      /\ \A s \in {13, 15, 16} : <<s>> \in Seq(Stage)
  BY DEF Stage
<1>2. {} \in SUBSET Failure /\ \A f \in Failure : {f} \in SUBSET Failure
  OBVIOUS
<1>3. ASSUME NEW stages \in Seq(Stage), NEW outcome \in {"SUCCEEDED", "FAILED"},
             NEW failure \in SUBSET Failure, Record(b, stages, outcome, failure)
      PROVE  evidence' \subseteq EvidenceRow /\ cursor' \in Nat
  BY <1>3, RecordTyped
<1>4. CASE Record(b, <<9, 10, 11, 12>>, "SUCCEEDED", {})
  BY <1>1, <1>2, <1>3, <1>4
<1>5. CASE Record(b, <<13, 14>>, "SUCCEEDED", {})
  BY <1>1, <1>2, <1>3, <1>5
<1>6. CASE Record(b, <<15, 16>>, "SUCCEEDED", {})
  BY <1>1, <1>2, <1>3, <1>6
<1>7. CASE Record(b, << 17 >>, "SUCCEEDED", {})
  BY <1>1, <1>2, <1>3, <1>7
<1>8. CASE Record(b, << 17 >>, "FAILED", {})
  BY <1>1, <1>2, <1>3, <1>8
<1>9. ASSUME NEW s \in {13, 15, 16}, NEW f \in Failure, Record(b, <<s>>, "FAILED", {f})
      PROVE  evidence' \subseteq EvidenceRow /\ cursor' \in Nat
  BY <1>1, <1>2, <1>3, <1>9
<1>10. QED
  BY <1>4, <1>5, <1>6, <1>7, <1>8, <1>9

\* The verdict a gate call writes is a row of pipeline_gates.
LEMMA GateVerdictTyped ==
  ASSUME NEW b \in Batch, NEW graph \in SUBSET GraphRow, NEW receipt \in SUBSET ReceiptRow,
         NEW read, read.batch = b, read.graph = graph, read.receipt = receipt,
         NEW stamp \in Stamp
  PROVE  GateVerdict(read, stamp) \in GateRow
<1>1. Evaluate(b, graph, receipt) \in Verdict
  BY DEF Evaluate, Verdict
<1>2. allowPublication[b] \in BOOLEAN
  BY PolicyAssumption
<1>3. (allowPublication[b] /\ Evaluate(b, graph, receipt) = "PASS") \in BOOLEAN
  BY <1>2
<1>4. QED
  BY <1>1, <1>3 DEF GateVerdict, GateRow
-----------------------------------------------------------------------------
(* Type correctness. *)

TypeInv == TypeOK /\ VersionsCounted

\* A caller that begins a handler of a batch, or ends one, has a typed call.
LEMMA CallTyped ==
  ASSUME TypeOK, NEW c \in Caller
  PROVE  /\ Finish(c) => call' \in [Caller -> {Idle} \cup UNION {Call(b) : b \in Batch}]
         /\ \A b \in Batch : \A handler \in Call(b) : Begin(c, handler) =>
              call' \in [Caller -> {Idle} \cup UNION {Call(a) : a \in Batch}]
BY DEF TypeOK, Finish, Begin

LEMMA SubmitTyped ==
  ASSUME TypeInv, NEW c \in Caller, SubmitCommit(c)
  PROVE  TypeInv'
<1> USE DEF TypeInv
<1> DEFINE b == call[c].batch
           refs == call[c].refs
<1>1. b \in Batch /\ refs \in [mentions[b] -> Ref] /\ mentions[b] \subseteq Ident
  BY CallFields, MentionsAssumption DEF SubmitCommit
<1>2. call' \in [Caller -> {Idle} \cup UNION {Call(a) : a \in Batch}]
  BY CallTyped DEF SubmitCommit
<1>3. UNCHANGED <<graphs, receipts, gates, publications>>
  BY DEF SubmitCommit
<1>4. CASE SubmitResult(b, refs) = "accepted"
  <2>1. /\ status' = [status EXCEPT ![b] = "PENDING"]
        /\ entities' = entities \cup NewEntities(b, refs)
        /\ version' = version + 1
        /\ Record(b, <<9, 10, 11, 12>>, "SUCCEEDED", {})
    BY <1>4 DEF SubmitCommit
  <2>2. evidence' \subseteq EvidenceRow /\ cursor' \in Nat
    BY <1>1, <2>1, HandlerRecordTyped
  <2>3. version' \in Nat /\ NewEntities(b, refs) \subseteq EntityRow
        /\ \A e \in NewEntities(b, refs) : e.version = version'
    BY <1>1, <2>1 DEF NewEntities, EntityRow, TypeOK
  <2>4. VersionsCounted'
    <3>1. ASSUME NEW e \in entities PROVE e.version <= version'
      BY <2>1 DEF TypeOK, EntityRow, VersionsCounted
    <3>2. QED
      BY <2>1, <2>3, <3>1 DEF VersionsCounted
  <2>5. status' \in [Batch -> Status \cup {"ABSENT"}]
    BY <1>1, <2>1 DEF TypeOK, Status
  <2>6. QED
    BY <1>2, <1>3, <2>1, <2>2, <2>3, <2>4, <2>5 DEF TypeOK
<1>5. CASE SubmitResult(b, refs) # "accepted"
  <2>1. UNCHANGED <<status, entities, version, evidence, cursor>>
    BY <1>5 DEF SubmitCommit, ledger
  <2>2. QED
    BY <1>2, <1>3, <2>1 DEF TypeOK, VersionsCounted
<1>6. QED
  BY <1>4, <1>5

LEMMA GraphTyped ==
  ASSUME TypeInv, NEW c \in Caller, NEW derived \in Stamp, GraphCommit(c, derived)
  PROVE  TypeInv'
<1> USE DEF TypeInv
<1> DEFINE b == call[c].batch
           row == [batch |-> b, receipt |-> call[c].receipt, derived |-> derived]
<1>1. b \in Batch /\ row \in GraphRow
  BY CallFields DEF GraphCommit, GraphRow
<1>2. call' \in [Caller -> {Idle} \cup UNION {Call(a) : a \in Batch}]
  BY CallTyped DEF GraphCommit
<1>3. UNCHANGED <<entities, receipts, gates, publications, version>>
  BY DEF GraphCommit
<1>4. CASE GraphResult(b, row.receipt, derived) = "accepted"
  <2>1. /\ graphs' = graphs \cup {row}
        /\ Record(b, <<13, 14>>, "SUCCEEDED", {})
        /\ status' = [status EXCEPT ![b] = "GRAPH_RECEIPTED"]
    BY <1>4 DEF GraphCommit
  <2>2. evidence' \subseteq EvidenceRow /\ cursor' \in Nat
    BY <1>1, <2>1, HandlerRecordTyped
  <2>3. status' \in [Batch -> Status \cup {"ABSENT"}]
    BY <1>1, <2>1 DEF TypeOK, Status
  <2>4. QED
    BY <1>1, <1>2, <1>3, <2>1, <2>2, <2>3 DEF TypeOK, VersionsCounted
<1>5. CASE GraphResult(b, row.receipt, derived) # "accepted"
  <2>1. UNCHANGED <<graphs, evidence, cursor, status>>
    BY <1>5 DEF GraphCommit, ledger
  <2>2. QED
    BY <1>2, <1>3, <2>1 DEF TypeOK, VersionsCounted
<1>6. QED
  BY <1>4, <1>5

LEMMA GateTyped ==
  ASSUME TypeInv, NEW c \in Caller, NEW stamp \in Stamp, GateCommit(c, stamp)
  PROVE  TypeInv'
<1> USE DEF TypeInv
<1> DEFINE row == GateVerdict(call[c], stamp)
           b == row.batch
<1>1. b \in Batch /\ row \in GateRow
  <2>1. /\ call[c].batch \in Batch
        /\ call[c].graph \in SUBSET GraphRow
        /\ call[c].receipt \in SUBSET ReceiptRow
    BY CallFields DEF GateCommit
  <2>2. row \in GateRow
    BY <2>1, GateVerdictTyped
  <2>3. QED
    BY <2>2 DEF GateRow
<1>2. call' \in [Caller -> {Idle} \cup UNION {Call(a) : a \in Batch}]
  BY CallTyped DEF GateCommit
<1>3. UNCHANGED <<entities, graphs, receipts, publications, version>>
  BY DEF GateCommit
<1>4. CASE GateResult(row) = "accepted"
  <2>1. /\ gates' = gates \cup {row}
        /\ row.allow => UNCHANGED <<evidence, cursor>>
        /\ ~row.allow => Record(b, << 17 >>, "FAILED", {})
        /\ status' = [status EXCEPT ![b] = IF row.allow THEN "GATED" ELSE "REJECTED"]
    BY <1>4 DEF GateCommit, ledger
  <2>2. evidence' \subseteq EvidenceRow /\ cursor' \in Nat
    <3>1. CASE row.allow
      BY <2>1, <3>1 DEF TypeOK
    <3>2. CASE ~row.allow
      BY <1>1, <2>1, <3>2, HandlerRecordTyped
    <3>3. QED
      BY <3>1, <3>2
  <2>3. status' \in [Batch -> Status \cup {"ABSENT"}]
    BY <1>1, <2>1 DEF TypeOK, Status
  <2>4. QED
    BY <1>1, <1>2, <1>3, <2>1, <2>2, <2>3 DEF TypeOK, VersionsCounted
<1>5. CASE GateResult(row) # "accepted"
  <2>1. UNCHANGED <<gates, evidence, cursor, status>>
    BY <1>5 DEF GateCommit, ledger
  <2>2. QED
    BY <1>2, <1>3, <2>1 DEF TypeOK, VersionsCounted
<1>6. QED
  BY <1>4, <1>5

LEMMA ReceiptTyped ==
  ASSUME TypeInv, NEW row \in ReceiptRow, WriteReceipt(row)
  PROVE  TypeInv'
<1> USE DEF TypeInv
<1>1. row.batch \in Batch
  BY DEF ReceiptRow
<1>2. UNCHANGED <<entities, graphs, gates, publications, version, call>>
  BY DEF WriteReceipt
<1>3. CASE ReceiptResult(row) = "accepted"
  <2>1. /\ receipts' = receipts \cup {row}
        /\ Record(row.batch, <<15, 16>>, "SUCCEEDED", {})
        /\ status' = [status EXCEPT ![row.batch] = "RECEIPT_WRITTEN"]
    BY <1>3 DEF WriteReceipt
  <2>2. evidence' \subseteq EvidenceRow /\ cursor' \in Nat
    BY <1>1, <2>1, HandlerRecordTyped
  <2>3. status' \in [Batch -> Status \cup {"ABSENT"}]
    BY <1>1, <2>1 DEF TypeOK, Status
  <2>4. QED
    BY <1>2, <2>1, <2>2, <2>3 DEF TypeOK, VersionsCounted
<1>4. CASE ReceiptResult(row) # "accepted"
  <2>1. UNCHANGED <<receipts, evidence, cursor, status>>
    BY <1>4 DEF WriteReceipt, ledger
  <2>2. QED
    BY <1>2, <2>1 DEF TypeOK, VersionsCounted
<1>5. QED
  BY <1>3, <1>4

LEMMA PublicationTyped ==
  ASSUME TypeInv, NEW quoted \in ReceiptRow, NEW p \in Publication,
         PublicationReceipt(quoted, p)
  PROVE  TypeInv'
<1> USE DEF TypeInv
<1> DEFINE b == quoted.batch
<1>1. b \in Batch /\ [batch |-> b, receipt |-> p] \in PublicationRow
  BY DEF ReceiptRow, PublicationRow
<1>2. UNCHANGED <<entities, graphs, receipts, gates, version, call>>
  BY DEF PublicationReceipt
<1>3. CASE PublicationResult(quoted, p) = "accepted"
  <2>1. /\ publications' = publications \cup {[batch |-> b, receipt |-> p]}
        /\ Record(b, << 17 >>, "SUCCEEDED", {})
        /\ status' = [status EXCEPT ![b] = "PUBLISHED"]
    BY <1>3 DEF PublicationReceipt
  <2>2. evidence' \subseteq EvidenceRow /\ cursor' \in Nat
    BY <1>1, <2>1, HandlerRecordTyped
  <2>3. status' \in [Batch -> Status \cup {"ABSENT"}]
    BY <1>1, <2>1 DEF TypeOK, Status
  <2>4. QED
    BY <1>1, <1>2, <2>1, <2>2, <2>3 DEF TypeOK, VersionsCounted
<1>4. CASE PublicationResult(quoted, p) # "accepted"
  <2>1. UNCHANGED <<publications, evidence, cursor, status>>
    BY <1>4 DEF PublicationReceipt, ledger
  <2>2. QED
    BY <1>2, <2>1 DEF TypeOK, VersionsCounted
<1>5. QED
  BY <1>3, <1>4

LEMMA FailureTyped ==
  ASSUME TypeInv, NEW b \in Batch, NEW s \in {13, 15, 16}, NEW f \in Failure,
         StageFailure(b, s, f)
  PROVE  TypeInv'
<1> USE DEF TypeInv
<1>1. UNCHANGED <<entities, graphs, receipts, gates, publications, version, call>>
  BY DEF StageFailure, tables
<1>2. CASE FailureResult(b, s, f) = "accepted"
  <2>1. /\ Record(b, <<s>>, "FAILED", {f})
        /\ status' = [status EXCEPT ![b] = "FAILED_STAGE"]
    BY <1>2 DEF StageFailure
  <2>2. evidence' \subseteq EvidenceRow /\ cursor' \in Nat
    BY <2>1, HandlerRecordTyped
  <2>3. status' \in [Batch -> Status \cup {"ABSENT"}]
    BY <2>1 DEF TypeOK, Status
  <2>4. QED
    BY <1>1, <2>2, <2>3 DEF TypeOK, VersionsCounted
<1>3. CASE FailureResult(b, s, f) # "accepted"
  <2>1. UNCHANGED <<evidence, cursor, status>>
    BY <1>3 DEF StageFailure, ledger
  <2>2. QED
    BY <1>1, <2>1 DEF TypeOK, VersionsCounted
<1>4. QED
  BY <1>2, <1>3

\* A step that only reads leaves the store alone and has a typed call.
LEMMA ReadTyped ==
  ASSUME TypeInv, NEW c \in Caller, NEW b \in Batch, NEW handler \in Call(b),
         Begin(c, handler), UNCHANGED store
  PROVE  TypeInv'
BY CallTyped DEF TypeInv, TypeOK, VersionsCounted, store, tables, ledger

\* A step that leaves the store and the calls alone keeps the types.
LEMMA StutterTyped ==
  ASSUME TypeInv, UNCHANGED <<store, call>>
  PROVE  TypeInv'
BY DEF TypeInv, TypeOK, VersionsCounted, store, tables, ledger

LEMMA TypeInvInductive ==
  /\ Init => TypeInv
  /\ TypeInv /\ [Next]_vars => TypeInv'
<1>1. ASSUME Init PROVE TypeInv
  BY <1>1 DEF Init, TypeInv, TypeOK, VersionsCounted
<1>2. ASSUME TypeInv, [Next]_vars PROVE TypeInv'
  <2>1. ASSUME NEW c \in Caller, NEW b \in Batch, SubmitLookup(c, b) PROVE TypeInv'
    <3>1. [op |-> "submit", batch |-> b, refs |-> CanonicalRefs(b)] \in Call(b)
      BY <1>2, CanonicalRefsFact DEF Call, TypeInv
    <3>2. QED
      BY <1>2, <2>1, <3>1, ReadTyped DEF SubmitLookup
  <2>2. ASSUME NEW c \in Caller, SubmitCommit(c) PROVE TypeInv'
    BY <1>2, <2>2, SubmitTyped
  <2>3. ASSUME NEW b \in Batch, NEW s \in {13, 15, 16}, NEW f \in Failure,
               StageFailure(b, s, f)
        PROVE  TypeInv'
    BY <1>2, <2>3, FailureTyped
  <2>4. ASSUME NEW c \in Caller, NEW b \in Batch, NEW g \in GraphReceipt,
               GraphLookup(c, b, g)
        PROVE  TypeInv'
    <3>1. [op |-> "graph", batch |-> b, receipt |-> g] \in Call(b)
      BY DEF Call
    <3>2. CASE Of(graphs, b) = {}
      BY <1>2, <2>4, <3>1, <3>2, ReadTyped DEF GraphLookup
    <3>3. CASE Of(graphs, b) # {}
      BY <1>2, <2>4, <3>3, StutterTyped DEF GraphLookup
    <3>4. QED
      BY <3>2, <3>3
  <2>5. ASSUME NEW c \in Caller, NEW derived \in Stamp, GraphCommit(c, derived)
        PROVE  TypeInv'
    BY <1>2, <2>5, GraphTyped
  <2>6. ASSUME NEW row \in ReceiptRow, WriteReceipt(row) PROVE TypeInv'
    BY <1>2, <2>6, ReceiptTyped
  <2>7. ASSUME NEW c \in Caller, NEW b \in Batch, GateLookup(c, b) PROVE TypeInv'
    <3>1. [op |-> "gateGraph", batch |-> b] \in Call(b)
      BY DEF Call
    <3>2. CASE Of(gates, b) = {}
      BY <1>2, <2>7, <3>1, <3>2, ReadTyped DEF GateLookup
    <3>3. CASE Of(gates, b) # {}
      BY <1>2, <2>7, <3>3, StutterTyped DEF GateLookup
    <3>4. QED
      BY <3>2, <3>3
  <2>8. ASSUME NEW c \in Caller, GateReadGraph(c) PROVE TypeInv'
    <3> DEFINE b == call[c].batch
    <3>1. b \in Batch
      BY <1>2, <2>8, CallFields DEF GateReadGraph, TypeInv
    <3>2. [op |-> "gateReceipt", batch |-> b, graph |-> Of(graphs, b)] \in Call(b)
      BY <1>2 DEF Call, Of, TypeInv, TypeOK
    <3>3. QED
      BY <1>2, <2>8, <3>1, <3>2, ReadTyped DEF GateReadGraph
  <2>9. ASSUME NEW c \in Caller, GateReadReceipt(c) PROVE TypeInv'
    <3> DEFINE b == call[c].batch
    <3>1. b \in Batch /\ call[c].graph \in SUBSET GraphRow
      BY <1>2, <2>9, CallFields DEF GateReadReceipt, TypeInv
    <3>2. [op |-> "gate", batch |-> b, graph |-> call[c].graph,
           receipt |-> Of(receipts, b)] \in Call(b)
      BY <1>2, <3>1 DEF Call, Of, TypeInv, TypeOK
    <3>3. QED
      BY <1>2, <2>9, <3>1, <3>2, ReadTyped DEF GateReadReceipt
  <2>10. ASSUME NEW c \in Caller, NEW stamp \in Stamp, GateCommit(c, stamp)
         PROVE  TypeInv'
    BY <1>2, <2>10, GateTyped
  <2>11. ASSUME NEW quoted \in ReceiptRow, NEW p \in Publication,
                PublicationReceipt(quoted, p)
         PROVE  TypeInv'
    BY <1>2, <2>11, PublicationTyped
  <2>12. ASSUME NEW c \in Caller, Crash(c) PROVE TypeInv'
    BY <1>2, <2>12, CallTyped
       DEF Crash, TypeInv, TypeOK, VersionsCounted, store, tables, ledger
  <2>13. CASE UNCHANGED vars
    BY <1>2, <2>13, StutterTyped DEF vars
  <2>14. QED
    BY <1>2, <2>1, <2>2, <2>3, <2>4, <2>5, <2>6, <2>7, <2>8, <2>9, <2>10, <2>11,
       <2>12, <2>13 DEF Next
<1>3. QED
  BY <1>1, <1>2

\* Whatever the constants, every row, call in flight and counter has the shape
\* the code gives it: no handler writes a verdict, status or ref of another kind.
THEOREM TypeCorrect == Spec => []TypeOK
<1>1. TypeInv => TypeOK
  BY DEF TypeInv
<1>2. QED
  BY <1>1, TypeInvInductive, PTL DEF Spec

-----------------------------------------------------------------------------
(* One identity, one entity. *)

\* A decision names the entity its lookup found, or a new one of its own scope.
RefsFoundOrOwn ==
  \A c \in Caller :
    call[c].op = "submit" =>
      \A i \in mentions[call[c].batch] :
        \/ HasEntity(call[c].refs[i], i)
        \/ call[c].refs[i].scope = scope[call[c].batch]

IdentityInv == TypeInv /\ RefsFoundOrOwn /\ OneIdentityPerScope

\* A caller's call changes only by its own step: it ends, or reads and goes on.
LEMMA CallChange ==
  ASSUME TypeInv, [Next]_vars, NEW c \in Caller, call'[c] # call[c]
  PROVE  \/ call'[c] = Idle
         \/ \E b \in Batch : SubmitLookup(c, b)
         \/ \E b \in Batch, g \in GraphReceipt :
              /\ GraphLookup(c, b, g)
              /\ call'[c] = [op |-> "graph", batch |-> b, receipt |-> g]
         \/ \E b \in Batch :
              GateLookup(c, b) /\ call'[c] = [op |-> "gateGraph", batch |-> b]
         \/ /\ GateReadGraph(c)
            /\ call'[c] = [op |-> "gateReceipt", batch |-> call[c].batch,
                            graph |-> Of(graphs, call[c].batch)]
         \/ /\ GateReadReceipt(c)
            /\ call'[c] = [op |-> "gate", batch |-> call[c].batch,
                            graph |-> call[c].graph,
                            receipt |-> Of(receipts, call[c].batch)]
<1> DEFINE Goal == \/ call'[c] = Idle
                   \/ \E b \in Batch : SubmitLookup(c, b)
                   \/ \E b \in Batch, g \in GraphReceipt :
                        /\ GraphLookup(c, b, g)
                        /\ call'[c] = [op |-> "graph", batch |-> b, receipt |-> g]
                   \/ \E b \in Batch :
                        GateLookup(c, b) /\ call'[c] = [op |-> "gateGraph", batch |-> b]
                   \/ /\ GateReadGraph(c)
                      /\ call'[c] = [op |-> "gateReceipt", batch |-> call[c].batch,
                                      graph |-> Of(graphs, call[c].batch)]
                   \/ /\ GateReadReceipt(c)
                      /\ call'[c] = [op |-> "gate", batch |-> call[c].batch,
                                      graph |-> call[c].graph,
                                      receipt |-> Of(receipts, call[c].batch)]
<1>1. /\ \A d \in Caller : Finish(d) => (d = c /\ call'[c] = Idle)
      /\ \A d \in Caller : \A handler : Begin(d, handler) => (d = c /\ call'[c] = handler)
  BY DEF TypeInv, TypeOK, Finish, Begin
<1>2. ASSUME NEW d \in Caller, NEW b \in Batch, SubmitLookup(d, b) PROVE Goal
  BY <1>1, <1>2 DEF SubmitLookup
<1>3. ASSUME NEW d \in Caller, SubmitCommit(d) PROVE Goal
  BY <1>1, <1>3 DEF SubmitCommit
<1>4. ASSUME NEW d \in Caller, NEW b \in Batch, NEW g \in GraphReceipt, GraphLookup(d, b, g)
      PROVE  Goal
  BY <1>1, <1>4 DEF GraphLookup
<1>5. ASSUME NEW d \in Caller, NEW derived \in Stamp, GraphCommit(d, derived) PROVE Goal
  BY <1>1, <1>5 DEF GraphCommit
<1>6. ASSUME NEW d \in Caller, NEW b \in Batch, GateLookup(d, b) PROVE Goal
  BY <1>1, <1>6 DEF GateLookup
<1>7. ASSUME NEW d \in Caller, GateReadGraph(d) PROVE Goal
  BY <1>1, <1>7 DEF GateReadGraph
<1>8. ASSUME NEW d \in Caller, GateReadReceipt(d) PROVE Goal
  BY <1>1, <1>8 DEF GateReadReceipt
<1>9. ASSUME NEW d \in Caller, NEW stamp \in Stamp, GateCommit(d, stamp) PROVE Goal
  BY <1>1, <1>9 DEF GateCommit
<1>10. ASSUME NEW d \in Caller, Crash(d) PROVE Goal
  BY <1>1, <1>10 DEF Crash
<1>11. QED
  BY <1>2, <1>3, <1>4, <1>5, <1>6, <1>7, <1>8, <1>9, <1>10
     DEF Next, vars, StageFailure, WriteReceipt, PublicationReceipt

\* Only a submit's lookup makes a submit call, and entities are never removed.
LEMMA RefsFoundOrOwnInductive ==
  ASSUME TypeInv, RefsFoundOrOwn, [Next]_vars
  PROVE  RefsFoundOrOwn'
<1>1. entities \subseteq entities'
  BY DEF Next, vars, store, tables, ledger, SubmitLookup, SubmitCommit, StageFailure,
         GraphLookup, GraphCommit, WriteReceipt, GateLookup, GateReadGraph,
         GateReadReceipt, GateCommit, PublicationReceipt, Crash
<1>2. ASSUME NEW c \in Caller, call'[c].op = "submit",
             NEW i \in mentions[call'[c].batch]
      PROVE  \/ \E e \in entities' : e.ref = call'[c].refs[i] /\ e.ident = i
             \/ call'[c].refs[i].scope = scope[call'[c].batch]
  <2>1. CASE call'[c] = call[c]
    BY <1>1, <1>2, <2>1 DEF RefsFoundOrOwn, HasEntity
  <2>2. CASE call'[c] # call[c]
    <3>1. PICK b \in Batch : SubmitLookup(c, b)
      <4>1. call'[c] # Idle
        BY <1>2 DEF Idle
      <4>2. \A b \in Batch, g \in GraphReceipt :
              call'[c] # [op |-> "graph", batch |-> b, receipt |-> g]
        BY <1>2
      <4>3. \A b \in Batch : call'[c] # [op |-> "gateGraph", batch |-> b]
        BY <1>2
      <4>4. \A b, graph :
              call'[c] # [op |-> "gateReceipt", batch |-> b, graph |-> graph]
        BY <1>2
      <4>5. \A b, graph, receipt :
              call'[c] # [op |-> "gate", batch |-> b, graph |-> graph, receipt |-> receipt]
        BY <1>2
      <4>6. QED
        BY <2>2, <4>1, <4>2, <4>3, <4>4, <4>5, CallChange, Zenon
    <3>2. /\ call'[c] = [op |-> "submit", batch |-> b, refs |-> CanonicalRefs(b)]
          /\ entities' = entities
      BY <3>1 DEF SubmitLookup, Begin, store, tables, TypeInv, TypeOK
    <3>3. QED
      BY <1>2, <3>2, CanonicalRefsFact DEF HasEntity, TypeInv
  <2>3. QED
    BY <2>1, <2>2
<1>3. QED
  BY <1>2 DEF RefsFoundOrOwn, HasEntity

\* The submit transaction gives an identity an entity only where there is none.
LEMMA SubmitKeepsIdentities ==
  ASSUME IdentityInv, NEW c \in Caller, SubmitCommit(c)
  PROVE  OneIdentityPerScope'
<1> DEFINE b == call[c].batch
           refs == call[c].refs
<1>1. CASE SubmitResult(b, refs) # "accepted"
  BY <1>1 DEF SubmitCommit, IdentityInv, OneIdentityPerScope
<1>2. CASE SubmitResult(b, refs) = "accepted"
  <2>1. entities' = entities \cup NewEntities(b, refs)
    BY <1>2 DEF SubmitCommit
  <2>2. ~IdentTaken(b, refs)
    BY <1>2 DEF SubmitResult
  <2>3. ASSUME NEW f \in NewEntities(b, refs)
        PROVE  /\ f.ref = refs[f.ident]
               /\ legacyScope[f.ref.scope] = legacyScope[scope[b]]
               /\ \A e \in entities :
                    e.ident = f.ident => legacyScope[e.ref.scope] # legacyScope[scope[b]]
    <3>1. PICK i \in mentions[b] :
            ~HasEntity(refs[i], i) /\ f = [ref |-> refs[i], ident |-> i, version |-> version + 1]
      BY <2>3 DEF NewEntities
    <3>2. refs[i].scope = scope[b]
      BY <3>1 DEF IdentityInv, RefsFoundOrOwn, SubmitCommit
    <3>3. QED
      BY <2>2, <3>1, <3>2 DEF IdentTaken
  <2>4. ASSUME NEW e \in entities', NEW f \in entities', e.ident = f.ident,
               legacyScope[e.ref.scope] = legacyScope[f.ref.scope]
        PROVE  e = f
    <3>1. CASE e \in entities /\ f \in entities
      BY <2>4, <3>1 DEF IdentityInv, OneIdentityPerScope
    <3>2. CASE e \in NewEntities(b, refs) /\ f \in NewEntities(b, refs)
      BY <2>3, <2>4, <3>2 DEF NewEntities
    <3>3. CASE e \in entities /\ f \in NewEntities(b, refs)
      BY <2>3, <2>4, <3>3
    <3>4. CASE e \in NewEntities(b, refs) /\ f \in entities
      BY <2>3, <2>4, <3>4
    <3>5. QED
      BY <2>1, <3>1, <3>2, <3>3, <3>4
  <2>5. QED
    BY <2>4 DEF OneIdentityPerScope
<1>3. QED
  BY <1>1, <1>2

\* However stale the lookups, and however many callers race, one identity has
\* one entity in a legacy scope: the transaction's own check is enough.
THEOREM IdentitiesUnique == Spec => []OneIdentityPerScope
<1>1. Init => IdentityInv
  BY TypeInvInductive DEF Init, IdentityInv, RefsFoundOrOwn, OneIdentityPerScope, Idle
<1>2. IdentityInv /\ [Next]_vars => IdentityInv'
  <2>1. SUFFICES ASSUME IdentityInv, [Next]_vars PROVE IdentityInv'
    OBVIOUS
  <2>2. TypeInv' /\ RefsFoundOrOwn'
    BY <2>1, TypeInvInductive, RefsFoundOrOwnInductive DEF IdentityInv
  <2>3. CASE \E c \in Caller : SubmitCommit(c)
    BY <2>1, <2>2, <2>3, SubmitKeepsIdentities DEF IdentityInv
  <2>4. CASE ~\E c \in Caller : SubmitCommit(c)
    <3>1. UNCHANGED entities
      BY <2>1, <2>4
         DEF Next, vars, store, tables, SubmitLookup, StageFailure, GraphLookup,
             GraphCommit, WriteReceipt, GateLookup, GateReadGraph, GateReadReceipt,
             GateCommit, PublicationReceipt, Crash
    <3>2. QED
      BY <2>1, <2>2, <3>1 DEF IdentityInv, OneIdentityPerScope
  <2>5. QED
    BY <2>3, <2>4
<1>3. IdentityInv => OneIdentityPerScope
  BY DEF IdentityInv
<1>4. QED
  BY <1>1, <1>2, <1>3, PTL DEF Spec

-----------------------------------------------------------------------------
(***************************************************************************)
(* Of the twelve actions only six ever change what is decided, each in one *)
(* way: DecisionStep says so once, and every invariant below is then shown *)
(* to be kept by those six.                                                *)
(***************************************************************************)

decisions == <<status, graphs, receipts, gates, publications, evidence, cursor>>

-----------------------------------------------------------------------------
(* The six steps that decide something. *)

Submitted(b) ==
  /\ ~Stored(b) /\ ~LedgerTaken(b, 9..12)
  /\ \A a \in Batch : Stored(a) => ~SameKey(a, b) /\ batchId[a] # batchId[b]
  /\ Record(b, <<9, 10, 11, 12>>, "SUCCEEDED", {})
  /\ status' = [status EXCEPT ![b] = "PENDING"]
  /\ UNCHANGED <<graphs, receipts, gates, publications>>

StageFailed(b, s, f) ==
  /\ Stored(b) /\ status[b] \notin Closed /\ Attempts(b, {s}) = {}
  /\ Record(b, <<s>>, "FAILED", {f})
  /\ status' = [status EXCEPT ![b] = "FAILED_STAGE"]
  /\ UNCHANGED <<graphs, receipts, gates, publications>>

GraphStored(row) ==
  /\ Stored(row.batch) /\ status[row.batch] \notin Closed /\ Of(graphs, row.batch) = {}
  /\ ~LedgerTaken(row.batch, {13, 14})
  /\ Record(row.batch, <<13, 14>>, "SUCCEEDED", {})
  /\ graphs' = graphs \cup {row}
  /\ status' = [status EXCEPT ![row.batch] = "GRAPH_RECEIPTED"]
  /\ UNCHANGED <<receipts, gates, publications>>

ReceiptStored(row) ==
  /\ Stored(row.batch) /\ status[row.batch] \notin Closed /\ Of(receipts, row.batch) = {}
  /\ MatchesGraph(row) /\ ~LedgerTaken(row.batch, {15, 16})
  /\ Record(row.batch, <<15, 16>>, "SUCCEEDED", {})
  /\ receipts' = receipts \cup {row}
  /\ status' = [status EXCEPT ![row.batch] = "RECEIPT_WRITTEN"]
  /\ UNCHANGED <<graphs, gates, publications>>

Earned(row) ==
  /\ row.verdict = "PASS" /\ allowPublication[row.batch]
  /\ row.receipt = Of(receipts, row.batch) /\ row.receipt # {}
  /\ row.graph \subseteq Of(graphs, row.batch)
  /\ Graded(row.batch, row.graph, row.receipt, "PASS")

GateStored(row) ==
  /\ Stored(row.batch) /\ Of(gates, row.batch) = {}
  /\ row.allow => Earned(row) /\ status[row.batch] # "FAILED_STAGE"
  /\ row.allow => UNCHANGED <<evidence, cursor>>
  /\ ~row.allow =>
       ~LedgerTaken(row.batch, {17}) /\ Record(row.batch, << 17 >>, "FAILED", {})
  /\ gates' = gates \cup {row}
  /\ status' = [status EXCEPT ![row.batch] = IF row.allow THEN "GATED" ELSE "REJECTED"]
  /\ UNCHANGED <<graphs, receipts, publications>>

PublicationStored(b, p) ==
  /\ Stored(b) /\ status[b] \notin {"FAILED_STAGE", "REJECTED"}
  /\ Passed(b) /\ Of(publications, b) = {} /\ ~LedgerTaken(b, {17})
  /\ Record(b, << 17 >>, "SUCCEEDED", {})
  /\ publications' = publications \cup {[batch |-> b, receipt |-> p]}
  /\ status' = [status EXCEPT ![b] = "PUBLISHED"]
  /\ UNCHANGED <<graphs, receipts, gates>>

\* A handler in flight is of a batch in the store, and read its graph receipt.
CallsKnown ==
  \A c \in Caller :
    /\ call[c].op \in {"graph", "gateGraph", "gateReceipt", "gate"} => Stored(call[c].batch)
    /\ call[c].op \in {"gateReceipt", "gate"} => call[c].graph \subseteq Of(graphs, call[c].batch)

DecisionStep ==
  \/ UNCHANGED decisions
  \/ \E b \in Batch : Submitted(b)
  \/ \E b \in Batch, s \in {13, 15, 16}, f \in Failure : StageFailed(b, s, f)
  \/ \E row \in GraphRow : GraphStored(row)
  \/ \E row \in ReceiptRow : ReceiptStored(row)
  \/ \E row \in GateRow : GateStored(row)
  \/ \E b \in Batch, p \in Publication : PublicationStored(b, p)

LEMMA SubmitDecides ==
  ASSUME TypeInv, NEW c \in Caller, SubmitCommit(c)
  PROVE  UNCHANGED decisions \/ \E b \in Batch : Submitted(b)
<1> DEFINE b == call[c].batch
           refs == call[c].refs
<1>1. b \in Batch
  BY CallFields DEF SubmitCommit, TypeInv
<1>2. CASE SubmitResult(b, refs) = "accepted"
  <2>1. /\ ~Stored(b) /\ ~LedgerTaken(b, 9..12)
        /\ \A a \in Batch : Stored(a) => ~SameKey(a, b) /\ batchId[a] # batchId[b]
    BY <1>2 DEF SubmitResult
  <2>2. Submitted(b)
    BY <1>2, <2>1 DEF Submitted, SubmitCommit
  <2>3. QED
    BY <1>1, <2>2
<1>3. CASE SubmitResult(b, refs) # "accepted"
  BY <1>3 DEF SubmitCommit, decisions, ledger
<1>4. QED
  BY <1>2, <1>3

LEMMA FailureDecides ==
  ASSUME NEW b \in Batch, NEW s \in {13, 15, 16}, NEW f \in Failure, StageFailure(b, s, f)
  PROVE  UNCHANGED decisions \/ StageFailed(b, s, f)
<1>1. CASE FailureResult(b, s, f) = "accepted"
  <2>1. status[b] \notin Closed /\ Attempts(b, {s}) = {}
    BY <1>1 DEF FailureResult, LedgerTaken
  <2>2. QED
    BY <1>1, <2>1 DEF StageFailed, StageFailure, tables
<1>2. CASE FailureResult(b, s, f) # "accepted"
  BY <1>2 DEF StageFailure, decisions, tables, ledger
<1>3. QED
  BY <1>1, <1>2

LEMMA GraphDecides ==
  ASSUME TypeInv, CallsKnown, NEW c \in Caller, NEW derived \in Stamp, GraphCommit(c, derived)
  PROVE  UNCHANGED decisions \/ \E row \in GraphRow : GraphStored(row)
<1> DEFINE b == call[c].batch
           row == [batch |-> b, receipt |-> call[c].receipt, derived |-> derived]
<1>1. row \in GraphRow /\ row.batch = b /\ Stored(b)
  BY CallFields DEF GraphCommit, GraphRow, TypeInv, CallsKnown
<1>2. CASE GraphResult(b, row.receipt, derived) = "accepted"
  <2>1. status[b] \notin Closed /\ Of(graphs, b) = {} /\ ~LedgerTaken(b, {13, 14})
    BY <1>2 DEF GraphResult
  <2>2. GraphStored(row)
    BY <1>1, <1>2, <2>1 DEF GraphStored, GraphCommit
  <2>3. QED
    BY <1>1, <2>2
<1>3. CASE GraphResult(b, row.receipt, derived) # "accepted"
  BY <1>3 DEF GraphCommit, decisions, ledger
<1>4. QED
  BY <1>2, <1>3

LEMMA ReceiptDecides ==
  ASSUME NEW row \in ReceiptRow, WriteReceipt(row)
  PROVE  UNCHANGED decisions \/ ReceiptStored(row)
<1>1. CASE ReceiptResult(row) = "accepted"
  <2>1. /\ status[row.batch] \notin Closed /\ Of(receipts, row.batch) = {} /\ MatchesGraph(row)
        /\ ~LedgerTaken(row.batch, {15, 16})
    BY <1>1 DEF ReceiptResult
  <2>2. QED
    BY <1>1, <2>1 DEF ReceiptStored, WriteReceipt
<1>2. CASE ReceiptResult(row) # "accepted"
  BY <1>2 DEF WriteReceipt, decisions, ledger
<1>3. QED
  BY <1>1, <1>2

LEMMA GateDecides ==
  ASSUME TypeInv, CallsKnown, NEW c \in Caller, NEW stamp \in Stamp, GateCommit(c, stamp)
  PROVE  UNCHANGED decisions \/ \E row \in GateRow : GateStored(row)
<1> DEFINE row == GateVerdict(call[c], stamp)
           b == row.batch
<1>1. /\ call[c].batch \in Batch
      /\ call[c].graph \in SUBSET GraphRow
      /\ call[c].receipt \in SUBSET ReceiptRow
  BY CallFields DEF GateCommit, TypeInv
<1>2. row \in GateRow
  BY <1>1, GateVerdictTyped
<1>3. /\ b = call[c].batch /\ row.graph = call[c].graph /\ row.receipt = call[c].receipt
      /\ row.verdict = Evaluate(b, row.graph, row.receipt)
      /\ row.allow => allowPublication[b] /\ row.verdict = "PASS"
  BY DEF GateVerdict
<1>4. Stored(b) /\ row.graph \subseteq Of(graphs, b)
  BY <1>3 DEF CallsKnown, GateCommit
<1>5. CASE GateResult(row) = "accepted"
  <2>1. Of(gates, b) = {} /\ (~row.allow => ~LedgerTaken(b, {17}))
    BY <1>5 DEF GateResult
  <2>2. ASSUME row.allow
        PROVE  Earned(row) /\ status[b] # "FAILED_STAGE"
    <3>1. row.verdict = "PASS" /\ allowPublication[b]
      BY <1>3, <2>2
    <3>2. /\ status[b] # "FAILED_STAGE" /\ row.receipt # {}
          /\ row.receipt = Of(receipts, b)
      BY <1>5, <3>1 DEF GateResult
    <3>3. Graded(b, row.graph, row.receipt, "PASS")
      BY <1>3, <3>1 DEF Evaluate
    <3>4. QED
      BY <1>4, <3>1, <3>2, <3>3 DEF Earned
  <2>3. GateStored(row)
    BY <1>4, <1>5, <2>1, <2>2 DEF GateStored, GateCommit, ledger
  <2>4. QED
    BY <1>2, <2>3
<1>6. CASE GateResult(row) # "accepted"
  BY <1>6 DEF GateCommit, decisions, ledger
<1>7. QED
  BY <1>5, <1>6

LEMMA PublicationDecides ==
  ASSUME NEW quoted \in ReceiptRow, NEW p \in Publication, PublicationReceipt(quoted, p)
  PROVE  UNCHANGED decisions \/ PublicationStored(quoted.batch, p)
<1> DEFINE b == quoted.batch
<1>1. CASE PublicationResult(quoted, p) = "accepted"
  <2>1. /\ status[b] \notin {"FAILED_STAGE", "REJECTED"}
        /\ Passed(b) /\ Of(publications, b) = {} /\ ~LedgerTaken(b, {17})
    BY <1>1 DEF PublicationResult
  <2>2. QED
    BY <1>1, <2>1 DEF PublicationStored, PublicationReceipt
<1>2. CASE PublicationResult(quoted, p) # "accepted"
  BY <1>2 DEF PublicationReceipt, decisions, ledger
<1>3. QED
  BY <1>1, <1>2

LEMMA StepDecides ==
  ASSUME TypeInv, CallsKnown, [Next]_vars
  PROVE  DecisionStep
<1>1. ASSUME NEW c \in Caller, SubmitCommit(c) PROVE DecisionStep
  BY <1>1, SubmitDecides DEF DecisionStep
<1>2. ASSUME NEW b \in Batch, NEW s \in {13, 15, 16}, NEW f \in Failure, StageFailure(b, s, f)
      PROVE  DecisionStep
  BY <1>2, FailureDecides DEF DecisionStep
<1>3. ASSUME NEW c \in Caller, NEW derived \in Stamp, GraphCommit(c, derived)
      PROVE  DecisionStep
  BY <1>3, GraphDecides DEF DecisionStep
<1>4. ASSUME NEW row \in ReceiptRow, WriteReceipt(row) PROVE DecisionStep
  BY <1>4, ReceiptDecides DEF DecisionStep
<1>5. ASSUME NEW c \in Caller, NEW stamp \in Stamp, GateCommit(c, stamp) PROVE DecisionStep
  BY <1>5, GateDecides DEF DecisionStep
<1>6. ASSUME NEW quoted \in ReceiptRow, NEW p \in Publication, PublicationReceipt(quoted, p)
      PROVE  DecisionStep
  <2>1. quoted.batch \in Batch
    BY DEF ReceiptRow
  <2>2. QED
    BY <1>6, <2>1, PublicationDecides DEF DecisionStep
<1>7. ASSUME UNCHANGED store PROVE DecisionStep
  BY <1>7 DEF DecisionStep, decisions, store, tables, ledger
<1>8. QED
  BY <1>1, <1>2, <1>3, <1>4, <1>5, <1>6, <1>7
     DEF Next, vars, SubmitLookup, GraphLookup, GateLookup, GateReadGraph,
         GateReadReceipt, Crash

-----------------------------------------------------------------------------
(* What recording stages does to the ledger's view of each batch. *)

LEMMA StagesRecorded ==
  ASSUME NEW b \in Batch, NEW stages, NEW outcome, NEW failure,
         Record(b, stages, outcome, failure), NEW a \in Batch, NEW o
  PROVE  Stages(a, o)' = Stages(a, o) \cup
           IF a = b /\ o = outcome THEN {stages[k] : k \in DOMAIN stages} ELSE {}
<1> DEFINE new == {[cursor |-> cursor + k, batch |-> b, stage |-> stages[k],
                    outcome |-> outcome, failure |-> failure] : k \in DOMAIN stages}
           add == IF a = b /\ o = outcome THEN {stages[k] : k \in DOMAIN stages} ELSE {}
<1>1. evidence' = evidence \cup new
  BY DEF Record
<1>2. Stages(a, o)' = {row.stage : row \in {r \in evidence' : r.batch = a /\ r.outcome = o}}
  BY DEF Stages, Of
<1>3. Stages(a, o) = {row.stage : row \in {r \in evidence : r.batch = a /\ r.outcome = o}}
  BY DEF Stages, Of
<1>4. {row.stage : row \in {r \in new : r.batch = a /\ r.outcome = o}} = add
  <2>1. CASE a = b /\ o = outcome
    <3>1. {r \in new : r.batch = a /\ r.outcome = o} = new
      BY <2>1
    <3>2. {row.stage : row \in new} = {stages[k] : k \in DOMAIN stages}
      <4>1. ASSUME NEW k \in DOMAIN stages
            PROVE  \E row \in new : row.stage = stages[k]
        <5> DEFINE row == [cursor |-> cursor + k, batch |-> b, stage |-> stages[k],
                           outcome |-> outcome, failure |-> failure]
        <5>1. row \in new /\ row.stage = stages[k]
          OBVIOUS
        <5> HIDE DEF row, new
        <5>2. QED
          BY <5>1
      <4>2. ASSUME NEW row \in new
            PROVE  \E k \in DOMAIN stages : row.stage = stages[k]
        OBVIOUS
      <4> HIDE DEF new
      <4>3. QED
        BY <4>1, <4>2
    <3>3. QED
      BY <2>1, <3>1, <3>2
  <2>2. CASE ~(a = b /\ o = outcome)
    <3>1. {r \in new : r.batch = a /\ r.outcome = o} = {}
      BY <2>2
    <3>2. QED
      BY <2>2, <3>1
  <2>3. QED
    BY <2>1, <2>2
<1>5. {row.stage : row \in {r \in evidence \cup new : r.batch = a /\ r.outcome = o}}
        = {row.stage : row \in {r \in evidence : r.batch = a /\ r.outcome = o}}
            \cup {row.stage : row \in {r \in new : r.batch = a /\ r.outcome = o}}
  <2> HIDE DEF new
  <2>1. QED
    OBVIOUS
<1>6. QED
  BY <1>1, <1>2, <1>3, <1>4, <1>5

\* The ledger of b gains these successes and failures, and no other batch's does.
Gains(b, done, failed) ==
  \A a \in Batch :
    /\ Succeeded(a)' = Succeeded(a) \cup IF a = b THEN done ELSE {}
    /\ Failed(a)' = Failed(a) \cup IF a = b THEN failed ELSE {}

LEMMA RecordGains ==
  ASSUME NEW b \in Batch
  PROVE  /\ Record(b, <<9, 10, 11, 12>>, "SUCCEEDED", {}) => Gains(b, 9..12, {})
         /\ Record(b, <<13, 14>>, "SUCCEEDED", {}) => Gains(b, 13..14, {})
         /\ Record(b, <<15, 16>>, "SUCCEEDED", {}) => Gains(b, 15..16, {})
         /\ Record(b, << 17 >>, "SUCCEEDED", {}) => Gains(b, {17}, {})
         /\ Record(b, << 17 >>, "FAILED", {}) => Gains(b, {}, {17})
         /\ \A s, f : Record(b, <<s>>, "FAILED", {f}) => Gains(b, {}, {s})
         /\ UNCHANGED evidence => Gains(b, {}, {})
<1> DEFINE values(stages) == {stages[k] : k \in DOMAIN stages}
<1>1. ASSUME NEW stages, NEW failure, Record(b, stages, "SUCCEEDED", failure)
      PROVE  Gains(b, values(stages), {})
  <2>1. ASSUME NEW a \in Batch
        PROVE  /\ Succeeded(a)' = Succeeded(a) \cup IF a = b THEN values(stages) ELSE {}
               /\ Failed(a)' = Failed(a) \cup IF a = b THEN {} ELSE {}
    <3>1. \A o : Stages(a, o)' = Stages(a, o) \cup
            IF a = b /\ o = "SUCCEEDED" THEN values(stages) ELSE {}
      BY <1>1, StagesRecorded
    <3>2. "SUCCEEDED" # "FAILED"
      OBVIOUS
    <3> HIDE DEF values
    <3>3. QED
      BY <3>1, <3>2 DEF Succeeded, Failed
  <2>2. QED
    BY <2>1 DEF Gains
<1>2. ASSUME NEW stages, NEW failure, Record(b, stages, "FAILED", failure)
      PROVE  Gains(b, {}, values(stages))
  <2>1. ASSUME NEW a \in Batch
        PROVE  /\ Succeeded(a)' = Succeeded(a) \cup IF a = b THEN {} ELSE {}
               /\ Failed(a)' = Failed(a) \cup IF a = b THEN values(stages) ELSE {}
    <3>1. \A o : Stages(a, o)' = Stages(a, o) \cup
            IF a = b /\ o = "FAILED" THEN values(stages) ELSE {}
      BY <1>2, StagesRecorded
    <3>2. "SUCCEEDED" # "FAILED"
      OBVIOUS
    <3> HIDE DEF values
    <3>3. QED
      BY <3>1, <3>2 DEF Succeeded, Failed
  <2>2. QED
    BY <2>1 DEF Gains
<1>3. values(<<9, 10, 11, 12>>) = 9..12
  <2>1. DOMAIN <<9, 10, 11, 12>> = 1..4
    OBVIOUS
  <2>2. values(<<9, 10, 11, 12>>) = {9, 10, 11, 12}
    BY <2>1
  <2>3. QED
    BY <2>2
<1>4. values(<<13, 14>>) = 13..14 /\ values(<<15, 16>>) = 15..16
  OBVIOUS
<1>5. \A s : values(<<s>>) = {s}
  OBVIOUS
<1>6. UNCHANGED evidence => Gains(b, {}, {})
  BY DEF Gains, Succeeded, Failed, Stages, Of
<1> HIDE DEF values
<1>7. QED
  BY <1>1, <1>2, <1>3, <1>4, <1>5, <1>6

-----------------------------------------------------------------------------
(* The inductive invariant. *)

\* A decision has a graph receipt, a worker receipt, a verdict and a publication
\* exactly when its ledger and status say so.
TablesAgree ==
  \A b \in Batch :
    /\ Of(graphs, b) # {} <=> 14 \in Succeeded(b)
    /\ Of(receipts, b) # {} <=> 16 \in Succeeded(b)
    /\ Of(gates, b) # {} <=> status[b] \in {"GATED", "REJECTED", "PUBLISHED"}
    /\ Of(publications, b) # {} <=> status[b] = "PUBLISHED"
    /\ Passed(b) <=> status[b] \in {"GATED", "PUBLISHED"}

LedgerInv ==
  TypeInv /\ CallsKnown /\ LedgerAgreesWithStatus /\ TablesAgree /\ StoredBatchesDistinct

\* What the invariant says of the status a guard has found.
LEMMA StatusFacts ==
  ASSUME LedgerInv, NEW b \in Batch
  PROVE  /\ ~Stored(b) => Succeeded(b) = {} /\ Failed(b) = {}
         /\ Stored(b) => 9..12 \subseteq Succeeded(b)
         /\ Stored(b) /\ status[b] \notin Closed =>
              /\ Failed(b) = {}
              /\ Of(graphs, b) = {} => status[b] = "PENDING"
              /\ Of(graphs, b) # {} /\ Of(receipts, b) = {} => status[b] = "GRAPH_RECEIPTED"
         /\ Stored(b) /\ Of(gates, b) = {} =>
              status[b] \in {"PENDING", "GRAPH_RECEIPTED", "RECEIPT_WRITTEN", "FAILED_STAGE"}
         /\ Passed(b) /\ Of(publications, b) = {} => status[b] = "GATED"
<1>1. status[b] \in {"ABSENT", "PENDING", "GRAPH_RECEIPTED", "RECEIPT_WRITTEN", "GATED",
                     "FAILED_STAGE", "REJECTED", "PUBLISHED"}
  BY DEF LedgerInv, TypeInv, TypeOK, Status
<1>2. /\ 14 \notin 9..12 /\ 14 \in 9..14 /\ 14 \in 9..16 /\ 16 \notin 9..14 /\ 16 \in 9..16
      /\ 9..12 \subseteq 9..14 /\ 9..12 \subseteq 9..16 /\ 9..12 \subseteq 9..17
      /\ 14 \in 9..17 /\ 16 \in 9..17
  OBVIOUS
<1>3. CASE status[b] = "ABSENT"
  BY <1>3 DEF LedgerInv, LedgerAgreesWithStatus, TablesAgree, Stored, Closed
<1>4. CASE status[b] # "ABSENT"
  BY <1>1, <1>2, <1>4 DEF LedgerInv, LedgerAgreesWithStatus, TablesAgree, Stored, Closed
<1>5. QED
  BY <1>3, <1>4

-----------------------------------------------------------------------------
(* The six decisions keep the agreement. *)

LEMMA StageSets ==
  /\ 9..12 \cup 13..14 = 9..14 /\ 9..14 \cup 15..16 = 9..16 /\ 9..16 \cup {17} = 9..17
  /\ 14 \notin 9..12 /\ 14 \in 9..14 /\ 14 \in 13..14 /\ 14 \in 9..16 /\ 14 \in 9..17
  /\ 14 \notin 15..16 /\ 14 \notin {17}
  /\ 16 \notin 9..12 /\ 16 \notin 9..14 /\ 16 \in 9..16 /\ 16 \in 15..16 /\ 16 \in 9..17
  /\ 16 \notin 13..14 /\ 16 \notin {17}
OBVIOUS

LEMMA AgreementKept ==
  ASSUME LedgerInv, DecisionStep
  PROVE  LedgerAgreesWithStatus' /\ TablesAgree'
<1> USE DEF LedgerInv
<1>1. status \in [Batch -> Status \cup {"ABSENT"}]
  BY DEF TypeInv, TypeOK
<1>2. CASE UNCHANGED decisions
  <2>1. \A a \in Batch : /\ Succeeded(a)' = Succeeded(a) /\ Failed(a)' = Failed(a)
                         /\ Of(graphs, a)' = Of(graphs, a)
                         /\ Of(receipts, a)' = Of(receipts, a)
                         /\ Of(gates, a)' = Of(gates, a)
                         /\ Of(publications, a)' = Of(publications, a)
                         /\ Passed(a)' <=> Passed(a)
    BY <1>2 DEF decisions, Succeeded, Failed, Stages, Of, Passed
  <2>2. status' = status
    BY <1>2 DEF decisions
  <2>3. LedgerAgreesWithStatus'
    BY <2>1, <2>2 DEF LedgerAgreesWithStatus
  <2>4. TablesAgree'
    BY <2>1, <2>2 DEF TablesAgree
  <2>5. QED
    BY <2>3, <2>4
<1>3. ASSUME NEW b \in Batch, Submitted(b)
      PROVE  LedgerAgreesWithStatus' /\ TablesAgree'
  <2>1. Gains(b, 9..12, {}) /\ Succeeded(b) = {} /\ Failed(b) = {} /\ status[b] = "ABSENT"
    BY <1>3, RecordGains, StatusFacts DEF Submitted, Stored
  <2>2. status' = [status EXCEPT ![b] = "PENDING"]
    BY <1>3 DEF Submitted
  <2>3. LedgerAgreesWithStatus'
    BY <1>1, <2>1, <2>2 DEF Gains, LedgerAgreesWithStatus
  <2>4. \A a \in Batch : /\ Of(graphs, a)' = Of(graphs, a)
                         /\ Of(receipts, a)' = Of(receipts, a)
                         /\ Of(gates, a)' = Of(gates, a)
                         /\ Of(publications, a)' = Of(publications, a)
                         /\ Passed(a)' <=> Passed(a)
    BY <1>3 DEF Submitted, Of, Passed
  <2>5. TablesAgree'
    BY <1>1, <2>1, <2>2, <2>4, StageSets DEF Gains, TablesAgree
  <2>6. QED
    BY <2>3, <2>5
<1>4. ASSUME NEW b \in Batch, NEW s \in {13, 15, 16}, NEW f \in Failure, StageFailed(b, s, f)
      PROVE  LedgerAgreesWithStatus' /\ TablesAgree'
  <2>1. Gains(b, {}, {s}) /\ Failed(b) = {} /\ Stored(b) /\ status[b] \notin Closed
    BY <1>4, RecordGains, StatusFacts DEF StageFailed
  <2>2. status' = [status EXCEPT ![b] = "FAILED_STAGE"]
    BY <1>4 DEF StageFailed
  <2>3. s \notin Succeeded(b)
    BY <1>4 DEF StageFailed, Attempts, SameAttempt, SameRun, Succeeded, Stages, Of
  <2>4. status[b] \in {"PENDING", "GRAPH_RECEIPTED"} /\ Succeeded(b) \in {9..12, 9..14}
    <3>1. s \in 9..16
      OBVIOUS
    <3>2. QED
      BY <1>1, <2>1, <2>3, <3>1 DEF LedgerAgreesWithStatus, Closed, Stored, Status
  <2>5. LedgerAgreesWithStatus'
    BY <1>1, <2>1, <2>2, <2>4 DEF Gains, LedgerAgreesWithStatus
  <2>6. \A a \in Batch : /\ Of(graphs, a)' = Of(graphs, a)
                         /\ Of(receipts, a)' = Of(receipts, a)
                         /\ Of(gates, a)' = Of(gates, a)
                         /\ Of(publications, a)' = Of(publications, a)
                         /\ Passed(a)' <=> Passed(a)
    BY <1>4 DEF StageFailed, Of, Passed
  <2>7. TablesAgree'
    BY <1>1, <2>1, <2>2, <2>4, <2>6 DEF Gains, TablesAgree
  <2>8. QED
    BY <2>5, <2>7
<1>5. ASSUME NEW row \in GraphRow, GraphStored(row)
      PROVE  LedgerAgreesWithStatus' /\ TablesAgree'
  <2> DEFINE b == row.batch
  <2>1. b \in Batch /\ status[b] = "PENDING" /\ Gains(b, 13..14, {})
    <3>1. b \in Batch
      BY DEF GraphRow
    <3>2. QED
      BY <1>5, <3>1, RecordGains, StatusFacts DEF GraphStored
  <2>2. status' = [status EXCEPT ![b] = "GRAPH_RECEIPTED"]
    BY <1>5 DEF GraphStored
  <2>3. Succeeded(b) = 9..12 /\ Failed(b) = {}
    BY <2>1 DEF LedgerAgreesWithStatus
  <2>4. LedgerAgreesWithStatus'
    BY <1>1, <2>1, <2>2, <2>3, StageSets DEF Gains, LedgerAgreesWithStatus
  <2>5. \A a \in Batch : /\ Of(graphs, a)' = Of(graphs, a) \cup IF b = a THEN {row} ELSE {}
                         /\ Of(receipts, a)' = Of(receipts, a)
                         /\ Of(gates, a)' = Of(gates, a)
                         /\ Of(publications, a)' = Of(publications, a)
                         /\ Passed(a)' <=> Passed(a)
    BY <1>5 DEF GraphStored, Of, Passed
  <2>6. TablesAgree'
    BY <1>1, <2>1, <2>2, <2>3, <2>5, StageSets DEF Gains, TablesAgree
  <2>7. QED
    BY <2>4, <2>6
<1>6. ASSUME NEW row \in ReceiptRow, ReceiptStored(row)
      PROVE  LedgerAgreesWithStatus' /\ TablesAgree'
  <2> DEFINE b == row.batch
  <2>1. b \in Batch /\ status[b] = "GRAPH_RECEIPTED" /\ Gains(b, 15..16, {})
    <3>1. b \in Batch
      BY DEF ReceiptRow
    <3>2. Of(graphs, b) # {}
      BY <1>6 DEF ReceiptStored, MatchesGraph, Of
    <3>3. QED
      BY <1>6, <3>1, <3>2, RecordGains, StatusFacts DEF ReceiptStored
  <2>2. status' = [status EXCEPT ![b] = "RECEIPT_WRITTEN"]
    BY <1>6 DEF ReceiptStored
  <2>3. Succeeded(b) = 9..14 /\ Failed(b) = {}
    BY <2>1 DEF LedgerAgreesWithStatus
  <2>4. LedgerAgreesWithStatus'
    BY <1>1, <2>1, <2>2, <2>3, StageSets DEF Gains, LedgerAgreesWithStatus
  <2>5. \A a \in Batch : /\ Of(graphs, a)' = Of(graphs, a)
                         /\ Of(receipts, a)' = Of(receipts, a) \cup IF b = a THEN {row} ELSE {}
                         /\ Of(gates, a)' = Of(gates, a)
                         /\ Of(publications, a)' = Of(publications, a)
                         /\ Passed(a)' <=> Passed(a)
    BY <1>6 DEF ReceiptStored, Of, Passed
  <2>6. TablesAgree'
    BY <1>1, <2>1, <2>2, <2>3, <2>5, StageSets DEF Gains, TablesAgree
  <2>7. QED
    BY <2>4, <2>6
<1>7. ASSUME NEW row \in GateRow, GateStored(row)
      PROVE  LedgerAgreesWithStatus' /\ TablesAgree'
  <2> DEFINE b == row.batch
  <2>1. /\ b \in Batch
        /\ status[b] \in {"PENDING", "GRAPH_RECEIPTED", "RECEIPT_WRITTEN", "FAILED_STAGE"}
    <3>1. b \in Batch
      BY DEF GateRow
    <3>2. QED
      BY <1>7, <3>1, StatusFacts DEF GateStored
  <2>2. status' = [status EXCEPT ![b] = IF row.allow THEN "GATED" ELSE "REJECTED"]
    BY <1>7 DEF GateStored
  <2>3. Gains(b, {}, IF row.allow THEN {} ELSE {17})
    BY <1>7, <2>1, RecordGains DEF GateStored
  <2>4. row.allow => status[b] = "RECEIPT_WRITTEN"
    <3>1. row.allow => Of(receipts, b) # {} /\ status[b] # "FAILED_STAGE"
      BY <1>7 DEF GateStored, Earned
    <3>2. row.allow => 16 \in Succeeded(b)
      BY <2>1, <3>1 DEF TablesAgree
    <3>3. QED
      BY <2>1, <3>1, <3>2, StageSets DEF LedgerAgreesWithStatus
  <2>5. LedgerAgreesWithStatus'
    <3>1. CASE row.allow
      BY <1>1, <2>1, <2>2, <2>3, <2>4, <3>1 DEF Gains, LedgerAgreesWithStatus
    <3>2. CASE ~row.allow
      BY <1>1, <2>1, <2>2, <2>3, <3>2 DEF Gains, LedgerAgreesWithStatus
    <3>3. QED
      BY <3>1, <3>2
  <2>6. \A a \in Batch : /\ Of(graphs, a)' = Of(graphs, a)
                         /\ Of(receipts, a)' = Of(receipts, a)
                         /\ Of(gates, a)' = Of(gates, a) \cup IF b = a THEN {row} ELSE {}
                         /\ Of(publications, a)' = Of(publications, a)
    BY <1>7 DEF GateStored, Of
  <2>7. \A a \in Batch : Passed(a)' <=> (Passed(a) \/ (a = b /\ row.allow))
    <3>1. row.allow => row.verdict = "PASS"
      BY <1>7 DEF GateStored, Earned
    <3>2. QED
      BY <2>6, <3>1 DEF Passed
  <2>8. TablesAgree'
    <3>1. \A a \in Batch : /\ 14 \in Succeeded(a)' <=> 14 \in Succeeded(a)
                           /\ 16 \in Succeeded(a)' <=> 16 \in Succeeded(a)
      BY <2>3 DEF Gains
    <3>2. \A a \in Batch \ {b} : status'[a] = status[a]
      BY <1>1, <2>2
    <3>3. /\ status'[b] \in {"GATED", "REJECTED"} /\ Of(publications, b) = {}
          /\ status'[b] = "GATED" <=> row.allow
          /\ ~Passed(b)
      BY <1>1, <2>1, <2>2 DEF TablesAgree
    <3>4. ASSUME NEW a \in Batch
          PROVE  /\ Of(gates, a)' # {} <=> status'[a] \in {"GATED", "REJECTED", "PUBLISHED"}
                 /\ Of(publications, a)' # {} <=> status'[a] = "PUBLISHED"
                 /\ Passed(a)' <=> status'[a] \in {"GATED", "PUBLISHED"}
      <4>1. CASE a = b
        BY <2>6, <2>7, <3>3, <4>1
      <4>2. CASE a # b
        BY <2>6, <2>7, <3>2, <4>2 DEF TablesAgree
      <4>3. QED
        BY <4>1, <4>2
    <3>5. \A a \in Batch : /\ Of(graphs, a)' # {} <=> 14 \in Succeeded(a)'
                           /\ Of(receipts, a)' # {} <=> 16 \in Succeeded(a)'
      BY <2>6, <3>1 DEF TablesAgree
    <3>6. QED
      BY <3>4, <3>5 DEF TablesAgree
  <2>9. QED
    BY <2>5, <2>8
<1>8. ASSUME NEW b \in Batch, NEW p \in Publication, PublicationStored(b, p)
      PROVE  LedgerAgreesWithStatus' /\ TablesAgree'
  <2> DEFINE row == [batch |-> b, receipt |-> p]
  <2>1. status[b] = "GATED" /\ Gains(b, {17}, {})
    BY <1>8, RecordGains, StatusFacts DEF PublicationStored
  <2>2. status' = [status EXCEPT ![b] = "PUBLISHED"]
    BY <1>8 DEF PublicationStored
  <2>3. Succeeded(b) = 9..16 /\ Failed(b) = {}
    BY <2>1 DEF LedgerAgreesWithStatus
  <2>4. LedgerAgreesWithStatus'
    BY <1>1, <2>1, <2>2, <2>3, StageSets DEF Gains, LedgerAgreesWithStatus
  <2>5. \A a \in Batch : /\ Of(graphs, a)' = Of(graphs, a)
                         /\ Of(receipts, a)' = Of(receipts, a)
                         /\ Of(gates, a)' = Of(gates, a)
                         /\ Of(publications, a)' =
                              Of(publications, a) \cup IF b = a THEN {row} ELSE {}
                         /\ Passed(a)' <=> Passed(a)
    BY <1>8 DEF PublicationStored, Of, Passed
  <2>6. TablesAgree'
    <3>1. \A a \in Batch : /\ 14 \in Succeeded(a)' <=> 14 \in Succeeded(a)
                           /\ 16 \in Succeeded(a)' <=> 16 \in Succeeded(a)
      BY <2>1, StageSets DEF Gains
    <3>2. \A a \in Batch \ {b} : status'[a] = status[a]
      BY <1>1, <2>2
    <3>3. status'[b] = "PUBLISHED" /\ Passed(b) /\ Of(gates, b) # {}
      BY <1>1, <2>1, <2>2 DEF TablesAgree
    <3>4. ASSUME NEW a \in Batch
          PROVE  /\ Of(gates, a)' # {} <=> status'[a] \in {"GATED", "REJECTED", "PUBLISHED"}
                 /\ Of(publications, a)' # {} <=> status'[a] = "PUBLISHED"
                 /\ Passed(a)' <=> status'[a] \in {"GATED", "PUBLISHED"}
      <4>1. CASE a = b
        BY <2>5, <3>3, <4>1
      <4>2. CASE a # b
        BY <2>5, <3>2, <4>2 DEF TablesAgree
      <4>3. QED
        BY <4>1, <4>2
    <3>5. \A a \in Batch : /\ Of(graphs, a)' # {} <=> 14 \in Succeeded(a)'
                           /\ Of(receipts, a)' # {} <=> 16 \in Succeeded(a)'
      BY <2>5, <3>1 DEF TablesAgree
    <3>6. QED
      BY <3>4, <3>5 DEF TablesAgree
  <2>7. QED
    BY <2>4, <2>6
<1>9. QED
  BY <1>2, <1>3, <1>4, <1>5, <1>6, <1>7, <1>8 DEF DecisionStep

LEMMA NothingForgotten ==
  ASSUME TypeInv, DecisionStep
  PROVE  /\ \A b \in Batch : Stored(b) => Stored(b)'
         /\ graphs \subseteq graphs' /\ receipts \subseteq receipts'
         /\ gates \subseteq gates' /\ publications \subseteq publications'
         /\ evidence \subseteq evidence'
<1>1. status \in [Batch -> Status \cup {"ABSENT"}]
  BY DEF TypeInv, TypeOK
<1>2. CASE UNCHANGED decisions
  BY <1>2 DEF decisions, Stored
<1>3. ASSUME NEW b \in Batch, Submitted(b)
      PROVE  /\ status' = [status EXCEPT ![b] = "PENDING"]
             /\ evidence \subseteq evidence'
             /\ UNCHANGED <<graphs, receipts, gates, publications>>
  BY <1>3 DEF Submitted, Record
<1>4. ASSUME NEW b \in Batch, NEW s \in {13, 15, 16}, NEW f \in Failure, StageFailed(b, s, f)
      PROVE  /\ status' = [status EXCEPT ![b] = "FAILED_STAGE"]
             /\ evidence \subseteq evidence'
             /\ UNCHANGED <<graphs, receipts, gates, publications>>
  BY <1>4 DEF StageFailed, Record
<1>5. ASSUME NEW row \in GraphRow, GraphStored(row)
      PROVE  /\ status' = [status EXCEPT ![row.batch] = "GRAPH_RECEIPTED"]
             /\ evidence \subseteq evidence' /\ graphs \subseteq graphs'
             /\ UNCHANGED <<receipts, gates, publications>>
  BY <1>5 DEF GraphStored, Record
<1>6. ASSUME NEW row \in ReceiptRow, ReceiptStored(row)
      PROVE  /\ status' = [status EXCEPT ![row.batch] = "RECEIPT_WRITTEN"]
             /\ evidence \subseteq evidence' /\ receipts \subseteq receipts'
             /\ UNCHANGED <<graphs, gates, publications>>
  BY <1>6 DEF ReceiptStored, Record
<1>7. ASSUME NEW row \in GateRow, GateStored(row)
      PROVE  /\ status' = [status EXCEPT ![row.batch] = IF row.allow THEN "GATED" ELSE "REJECTED"]
             /\ evidence \subseteq evidence' /\ gates \subseteq gates'
             /\ UNCHANGED <<graphs, receipts, publications>>
  BY <1>7 DEF GateStored, Record
<1>8. ASSUME NEW b \in Batch, NEW p \in Publication, PublicationStored(b, p)
      PROVE  /\ status' = [status EXCEPT ![b] = "PUBLISHED"]
             /\ evidence \subseteq evidence' /\ publications \subseteq publications'
             /\ UNCHANGED <<graphs, receipts, gates>>
  BY <1>8 DEF PublicationStored, Record
<1>9. QED
  BY <1>1, <1>2, <1>3, <1>4, <1>5, <1>6, <1>7, <1>8 DEF DecisionStep, Stored

LEMMA CallsKnownKept ==
  ASSUME LedgerInv, [Next]_vars
  PROVE  CallsKnown'
<1>1. DecisionStep
  BY StepDecides DEF LedgerInv
<1>2. /\ \A b \in Batch : Stored(b) => Stored(b)'
      /\ \A b \in Batch : Of(graphs, b) \subseteq Of(graphs, b)'
  BY <1>1, NothingForgotten DEF LedgerInv, Of
<1>3. ASSUME NEW c \in Caller
      PROVE  /\ call'[c].op \in {"graph", "gateGraph", "gateReceipt", "gate"} =>
                  status'[call'[c].batch] # "ABSENT"
             /\ call'[c].op \in {"gateReceipt", "gate"} =>
                  call'[c].graph \subseteq Of(graphs', call'[c].batch)
  <2> DEFINE Known == /\ call'[c].op \in {"graph", "gateGraph", "gateReceipt", "gate"} =>
                           status'[call'[c].batch] # "ABSENT"
                      /\ call'[c].op \in {"gateReceipt", "gate"} =>
                           call'[c].graph \subseteq Of(graphs', call'[c].batch)
  <2>1. ASSUME call'[c] = call[c] PROVE Known
    <3>1. call[c].op \in {"graph", "gateGraph", "gateReceipt", "gate"} => call[c].batch \in Batch
      BY CallFields DEF LedgerInv, TypeInv
    <3>2. QED
      BY <1>2, <2>1, <3>1 DEF LedgerInv, CallsKnown, Stored, Of
  <2>2. ASSUME call'[c] = Idle PROVE Known
    BY <2>2 DEF Idle
  <2>3. ASSUME NEW b \in Batch, SubmitLookup(c, b) PROVE Known
    <3>1. call'[c].op = "submit"
      BY <2>3 DEF SubmitLookup, Begin, LedgerInv, TypeInv, TypeOK
    <3>2. QED
      BY <3>1
  <2>4. ASSUME NEW b \in Batch, NEW g \in GraphReceipt, GraphLookup(c, b, g),
               call'[c] = [op |-> "graph", batch |-> b, receipt |-> g]
        PROVE  Known
    BY <1>2, <2>4 DEF GraphLookup, Stored
  <2>5. ASSUME NEW b \in Batch, GateLookup(c, b), call'[c] = [op |-> "gateGraph", batch |-> b]
        PROVE  Known
    BY <1>2, <2>5 DEF GateLookup, Stored
  <2>6. ASSUME GateReadGraph(c),
               call'[c] = [op |-> "gateReceipt", batch |-> call[c].batch,
                           graph |-> Of(graphs, call[c].batch)]
        PROVE  Known
    <3>1. call[c].batch \in Batch /\ Stored(call[c].batch)
      BY <2>6, CallFields DEF GateReadGraph, LedgerInv, TypeInv, CallsKnown
    <3>2. QED
      BY <1>2, <2>6, <3>1 DEF Stored, Of
  <2>7. ASSUME GateReadReceipt(c),
               call'[c] = [op |-> "gate", batch |-> call[c].batch, graph |-> call[c].graph,
                           receipt |-> Of(receipts, call[c].batch)]
        PROVE  Known
    <3>1. /\ call[c].batch \in Batch /\ Stored(call[c].batch)
          /\ call[c].graph \subseteq Of(graphs, call[c].batch)
      BY <2>7, CallFields DEF GateReadReceipt, LedgerInv, TypeInv, CallsKnown
    <3>2. QED
      BY <1>2, <2>7, <3>1 DEF Stored, Of
  <2> HIDE DEF Known
  <2>8. Known
    <3>1. TypeInv /\ [Next]_vars
      BY DEF LedgerInv
    <3>2. CASE call'[c] # call[c]
      BY <2>2, <2>3, <2>4, <2>5, <2>6, <2>7, <3>1, <3>2, CallChange, Zenon
    <3>3. QED
      BY <2>1, <3>2
  <2>9. QED
    BY <2>8 DEF Known
<1>4. QED
  BY <1>3 DEF CallsKnown, Stored, Of

BatchesDistinct ==
  \A a, b \in Batch :
    a # b /\ Stored(a) /\ Stored(b) =>
      /\ ~SameKey(a, b) /\ batchId[a] # batchId[b]
      /\ \A s \in 9..12 : ~SameAttempt(a, b, s)

LEMMA BatchesDistinctKept ==
  ASSUME LedgerInv, DecisionStep
  PROVE  BatchesDistinct'
<1>1. status \in [Batch -> Status \cup {"ABSENT"}] /\ BatchesDistinct
  BY DEF LedgerInv, TypeInv, TypeOK, StoredBatchesDistinct, BatchesDistinct
<1>2. ASSUME \A b \in Batch : Stored(b)' <=> Stored(b)
      PROVE  BatchesDistinct'
  BY <1>1, <1>2 DEF BatchesDistinct, SameKey, SameAttempt, SameRun
<1>3. ASSUME NEW b \in Batch, Submitted(b) PROVE BatchesDistinct'
  <2>1. ASSUME NEW a \in Batch, Stored(a)
        PROVE  /\ ~SameKey(a, b) /\ batchId[a] # batchId[b]
               /\ \A s \in 9..12 : ~SameAttempt(a, b, s)
    <3>1. 9..12 \subseteq Succeeded(a)
      BY <2>1, StatusFacts
    <3>2. ASSUME NEW s \in 9..12 PROVE ~SameAttempt(a, b, s)
      <4>1. PICK row \in evidence : row.batch = a /\ row.stage = s
        BY <3>1 DEF Succeeded, Stages, Of
      <4>2. QED
        BY <1>3, <4>1 DEF Submitted, LedgerTaken, Attempts
    <3>3. QED
      BY <1>3, <2>1, <3>2 DEF Submitted
  <2>2. \A a \in Batch : Stored(a)' <=> (Stored(a) \/ a = b)
    BY <1>1, <1>3 DEF Submitted, Stored
  <2>3. QED
    BY <1>1, <2>1, <2>2 DEF BatchesDistinct, SameKey, SameAttempt, SameRun
<1>4. CASE ~\E b \in Batch : Submitted(b)
  <2>1. \A b \in Batch : Stored(b)' <=> Stored(b)
    BY <1>1, <1>4
       DEF DecisionStep, decisions, StageFailed, GraphStored, ReceiptStored, GateStored,
           PublicationStored, Stored
  <2>2. QED
    BY <1>2, <2>1
<1>5. QED
  BY <1>3, <1>4

\* Attempts that have not ended may be recorded, each once.
LEMMA RecordEndsOnce ==
  ASSUME AttemptsEndOnce, NEW b, NEW stages, NEW outcome, NEW failure,
         \A k, l \in DOMAIN stages : stages[k] = stages[l] => k = l,
         ~LedgerTaken(b, {stages[k] : k \in DOMAIN stages}),
         Record(b, stages, outcome, failure)
  PROVE  AttemptsEndOnce'
<1> DEFINE new(k) == [cursor |-> cursor + k, batch |-> b, stage |-> stages[k],
                      outcome |-> outcome, failure |-> failure]
<1>1. evidence' = evidence \cup {new(k) : k \in DOMAIN stages}
  BY DEF Record
<1>2. \A k \in DOMAIN stages : new(k).batch = b /\ new(k).stage = stages[k]
  OBVIOUS
<1>3. \A row \in evidence, k \in DOMAIN stages :
        row.stage = stages[k] => ~SameAttempt(row.batch, b, row.stage)
  BY DEF LedgerTaken, Attempts
<1>4. \A k, l \in DOMAIN stages : stages[k] = stages[l] => new(k) = new(l)
  OBVIOUS
<1> HIDE DEF new
<1>5. ASSUME NEW q \in evidence', NEW r \in evidence',
             q.stage = r.stage, SameAttempt(q.batch, r.batch, r.stage)
      PROVE  q = r
  <2>1. SameAttempt(r.batch, q.batch, r.stage)
    BY <1>5 DEF SameAttempt, SameRun
  <2>2. CASE q \in evidence /\ r \in evidence
    BY <1>5, <2>2 DEF AttemptsEndOnce
  <2>3. ASSUME NEW k \in DOMAIN stages, r = new(k), q \in evidence PROVE FALSE
    BY <1>2, <1>3, <1>5, <2>3
  <2>4. ASSUME NEW k \in DOMAIN stages, q = new(k), r \in evidence PROVE FALSE
    BY <1>2, <1>3, <1>5, <2>1, <2>4
  <2>5. QED
    BY <1>1, <1>2, <1>4, <1>5, <2>2, <2>3, <2>4
<1>6. QED
  BY <1>5 DEF AttemptsEndOnce, SameAttempt, SameRun

LEMMA AttemptsEndOnceKept ==
  ASSUME AttemptsEndOnce, DecisionStep
  PROVE  AttemptsEndOnce'
<1>1. CASE UNCHANGED evidence
  BY <1>1 DEF AttemptsEndOnce, SameAttempt, SameRun
<1>2. ASSUME NEW b \in Batch, Submitted(b) PROVE AttemptsEndOnce'
  <2>1. {<<9, 10, 11, 12>>[k] : k \in DOMAIN <<9, 10, 11, 12>>} = 9..12
    <3>1. DOMAIN <<9, 10, 11, 12>> = {1, 2, 3, 4} /\ 9..12 = {9, 10, 11, 12}
      OBVIOUS
    <3>2. QED
      BY <3>1
  <2>2. ~LedgerTaken(b, {<<9, 10, 11, 12>>[k] : k \in DOMAIN <<9, 10, 11, 12>>})
    BY <1>2, <2>1 DEF Submitted
  <2>3. \A k, l \in DOMAIN <<9, 10, 11, 12>> :
          <<9, 10, 11, 12>>[k] = <<9, 10, 11, 12>>[l] => k = l
    OBVIOUS
  <2>4. QED
    BY <1>2, <2>2, <2>3, RecordEndsOnce DEF Submitted
<1>3. ASSUME NEW b, NEW s, NEW outcome, NEW failure,
             ~LedgerTaken(b, {s}), Record(b, <<s>>, outcome, failure)
      PROVE  AttemptsEndOnce'
  <2>1. {<<s>>[k] : k \in DOMAIN <<s>>} = {s}
    OBVIOUS
  <2>2. ~LedgerTaken(b, {<<s>>[k] : k \in DOMAIN <<s>>})
    BY <1>3, <2>1
  <2>3. \A k, l \in DOMAIN <<s>> : <<s>>[k] = <<s>>[l] => k = l
    OBVIOUS
  <2>4. QED
    BY <1>3, <2>2, <2>3, RecordEndsOnce
<1>4. ASSUME NEW b, NEW s \in Nat, ~LedgerTaken(b, {s, s + 1}),
             Record(b, <<s, s + 1>>, "SUCCEEDED", {})
      PROVE  AttemptsEndOnce'
  <2>1. {<<s, s + 1>>[k] : k \in DOMAIN <<s, s + 1>>} = {s, s + 1}
    <3>1. DOMAIN <<s, s + 1>> = {1, 2}
      OBVIOUS
    <3>2. QED
      BY <3>1
  <2>2. ~LedgerTaken(b, {<<s, s + 1>>[k] : k \in DOMAIN <<s, s + 1>>})
    BY <1>4, <2>1
  <2>3. \A k, l \in DOMAIN <<s, s + 1>> : <<s, s + 1>>[k] = <<s, s + 1>>[l] => k = l
    OBVIOUS
  <2>4. QED
    BY <1>4, <2>2, <2>3, RecordEndsOnce
<1>5. ASSUME NEW b \in Batch, NEW s \in {13, 15, 16}, NEW f \in Failure, StageFailed(b, s, f)
      PROVE  AttemptsEndOnce'
  BY <1>3, <1>5 DEF StageFailed, LedgerTaken
<1>6. ASSUME NEW row \in GraphRow, GraphStored(row) PROVE AttemptsEndOnce'
  <2>1. 13 + 1 = 14
    OBVIOUS
  <2>2. QED
    BY <1>4, <1>6, <2>1 DEF GraphStored
<1>7. ASSUME NEW row \in ReceiptRow, ReceiptStored(row) PROVE AttemptsEndOnce'
  <2>1. 15 + 1 = 16
    OBVIOUS
  <2>2. QED
    BY <1>4, <1>7, <2>1 DEF ReceiptStored
<1>8. ASSUME NEW row \in GateRow, GateStored(row) PROVE AttemptsEndOnce'
  BY <1>1, <1>3, <1>8 DEF GateStored
<1>9. ASSUME NEW b \in Batch, NEW p \in Publication, PublicationStored(b, p)
      PROVE  AttemptsEndOnce'
  BY <1>3, <1>9 DEF PublicationStored
<1>10. QED
  BY <1>1, <1>2, <1>5, <1>6, <1>7, <1>8, <1>9 DEF DecisionStep, decisions

LEMMA StoredBatchesDistinctKept ==
  ASSUME LedgerInv, DecisionStep
  PROVE  StoredBatchesDistinct'
<1>1. AttemptsEndOnce
  BY DEF LedgerInv, StoredBatchesDistinct
<1>2. QED
  BY <1>1, BatchesDistinctKept, AttemptsEndOnceKept DEF StoredBatchesDistinct, BatchesDistinct

LEMMA LedgerInvInductive ==
  /\ Init => LedgerInv
  /\ LedgerInv /\ [Next]_vars => LedgerInv'
<1>1. ASSUME Init PROVE LedgerInv
  <2>1. TypeInv
    BY <1>1, TypeInvInductive
  <2>2. CallsKnown
    BY <1>1 DEF Init, CallsKnown, Idle
  <2>3. \A b \in Batch : /\ status[b] = "ABSENT" /\ Succeeded(b) = {} /\ Failed(b) = {}
                         /\ Of(graphs, b) = {} /\ Of(receipts, b) = {}
                         /\ Of(gates, b) = {} /\ Of(publications, b) = {}
                         /\ ~Passed(b)
    BY <1>1 DEF Init, Succeeded, Failed, Stages, Of, Passed
  <2>4. QED
    BY <1>1, <2>1, <2>2, <2>3
       DEF LedgerInv, LedgerAgreesWithStatus, TablesAgree, StoredBatchesDistinct,
           AttemptsEndOnce, Stored, Init
<1>2. ASSUME LedgerInv, [Next]_vars PROVE LedgerInv'
  <2>1. DecisionStep
    BY <1>2, StepDecides DEF LedgerInv
  <2>2. TypeInv'
    BY <1>2, TypeInvInductive DEF LedgerInv
  <2>3. CallsKnown'
    BY <1>2, CallsKnownKept
  <2>4. LedgerAgreesWithStatus' /\ TablesAgree'
    BY <1>2, <2>1, AgreementKept
  <2>5. StoredBatchesDistinct'
    BY <1>2, <2>1, StoredBatchesDistinctKept
  <2>6. QED
    BY <2>2, <2>3, <2>4, <2>5 DEF LedgerInv
<1>3. QED
  BY <1>1, <1>2

\* For any number of callers and batches, the status a worker claims by stands
\* for exactly the terminal rows that the source principal pulls.
THEOREM LedgerAgrees == Spec => []LedgerAgreesWithStatus
<1>1. LedgerInv => LedgerAgreesWithStatus
  BY DEF LedgerInv
<1>2. QED
  BY <1>1, LedgerInvInductive, PTL DEF Spec

\* No two batches ever in the store share an idempotency key of a scope, an id or
\* a stage attempt that has ended for one of them.
THEOREM KeysUnique == Spec => []StoredBatchesDistinct
<1>1. LedgerInv => StoredBatchesDistinct
  BY DEF LedgerInv
<1>2. QED
  BY <1>1, LedgerInvInductive, PTL DEF Spec
=============================================================================
