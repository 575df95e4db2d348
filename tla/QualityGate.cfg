SPECIFICATION Spec
CONSTANTS
  Day <- MCDay
  folded <- MCfolded
  pool <- MCpool
  credentials <- MCcredentials
  Request <- MCRequest
  FaultOn <- MCFaultOn
  Version = {"ontology_v1", "ontology_v2"}
INVARIANTS ClaimsFollowTheText EveryCandidateLands FactsHaveValidTime HonestWorkerPasses PassIsEarned AcceptedTextIsTheSource ReceiptsComeFromTheWorker OneEntityPerName
CHECK_DEADLOCK FALSE
