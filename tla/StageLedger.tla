----------------------------- MODULE StageLedger -----------------------------
(***************************************************************************)
(* What the pipeline promises to the source principal that pulls           *)
(* gks_pipeline_evidence: for each batch, the stages with a SUCCEEDED and  *)
(* with a FAILED terminal row.  Nothing else of the service is visible     *)
(* here: no caller, status, receipt or hash.                               *)
(***************************************************************************)
EXTENDS Naturals

CONSTANT Batch

VARIABLES done, failed

Init ==
  /\ done = [b \in Batch |-> {}]
  /\ failed = [b \in Batch |-> {}]

\* GKS closes Stages 9 to 12 together when it takes the batch.
Accept(b) ==
  /\ done[b] = {} /\ failed[b] = {}
  /\ done' = [done EXCEPT ![b] = 9..12]
  /\ UNCHANGED failed

\* The worker's receipts close 13 with 14, then 15 with 16.
Advance(b) ==
  /\ failed[b] = {}
  /\ \E last \in {12, 14} :
       /\ done[b] = 9..last
       /\ done' = [done EXCEPT ![b] = 9..(last + 2)]
  /\ UNCHANGED failed

\* One worker stage that has not succeeded may fail, and only one.
Fail(b) ==
  /\ done[b] # {} /\ failed[b] = {}
  /\ \E s \in {13, 15, 16} \ done[b] : failed' = [failed EXCEPT ![b] = {s}]
  /\ UNCHANGED done

\* The gate may close Stage 17 against the batch, even after a stage failure.
Reject(b) ==
  /\ done[b] # {} /\ 17 \notin done[b] \cup failed[b]
  /\ failed' = [failed EXCEPT ![b] = failed[b] \cup {17}]
  /\ UNCHANGED done

Publish(b) ==
  /\ done[b] = 9..16 /\ failed[b] = {}
  /\ done' = [done EXCEPT ![b] = 9..17]
  /\ UNCHANGED failed

Next == \E b \in Batch : Accept(b) \/ Advance(b) \/ Fail(b) \/ Reject(b) \/ Publish(b)

Spec == Init /\ [][Next]_<<done, failed>>
=============================================================================
