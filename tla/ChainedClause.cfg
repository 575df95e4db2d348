SPECIFICATION Spec
CONSTANTS
  Day <- MCDay
  folded <- MCfolded
  pool <- MCpool
  credentials <- MCcredentials
  Request <- MCRequest
  FaultOn <- MCFaultOn
  Version = {"ontology_v1", "ontology_v2"}
INVARIANT PreviousObjectIsNoSubject
CHECK_DEADLOCK FALSE
