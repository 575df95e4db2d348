SPECIFICATION Spec
CONSTANTS
  Caller = {c1}
  Chosen = {"plain", "wide", "wideinc"}
  ChosenPipeline = {}
  Scope <- MCScope
  tenant <- MCTenant
  broader <- MCBroader
  Name <- MCName
  surface <- MCSurface
  normKey <- MCNormKey
  near <- MCNear
  beforeHash <- MCBeforeHash
  EntityType = {"ORG"}
  Envelope <- MCEnvelope
  Pipeline <- MCPipeline
  Floor = 85
INVARIANT LoserMatchesWinner

