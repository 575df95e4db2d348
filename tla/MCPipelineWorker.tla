-------------------------- MODULE MCPipelineWorker --------------------------
(***************************************************************************)
(* PipelineWorker for TLC: a batch whose receipts pass and one that leaves *)
(* facts held, of one scope, both about one identity.                      *)
(***************************************************************************)
EXTENDS PipelineWorker

TheScope == {"s"}
TheBatch == {"good", "held"}
OfBatch(value) == [b \in TheBatch |-> value]
ScopeOf == OfBatch("s")
Mentions == OfBatch({"alice"})
Slugs == OfBatch("alice")
Policy == OfBatch(TRUE)
Named == [b \in TheBatch |-> b]
FirstAttempt == OfBatch([s \in Stage |-> "first"])
Quality == OfBatch([w \in WorkerReceipt |-> IF w = "good" THEN "PASS" ELSE "WARN"])
Legacy == [s \in TheScope |-> "w"]
Pool == [s \in TheScope |-> {"w"}]
=============================================================================
