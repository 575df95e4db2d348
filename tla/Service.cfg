CONSTANTS
  Client = {1, 2}
  Server = {1, 2}
  NormOf <- MCNormOf
  Strings <- MCStrings
  SafeNumbers = {"1", "2", "3"}
  MaxDepth = 1
  NormalFrame = 15
  PipelineFrame = 18
  PipelineMethods = {"gks_pipeline_evidence"}
  Credentials = {"c1", "c2", "c3"}
  Plans <- MCPlans
  PageLimit = 2
  MaxInFlight = 2
SPECIFICATION Spec
INVARIANTS StoreIsMigrated AnswersAreKept PullerMissesNothing OneWriterPerPortfolio FramesAreAnswered
PROPERTIES EveryCallEnds
CHECK_DEADLOCK FALSE
