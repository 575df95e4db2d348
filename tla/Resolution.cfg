SPECIFICATION Spec
CONSTANTS
  Caller = {c1, c2}
  Chosen = {"plain", "pair", "broad", "rival"}
  ChosenPipeline = {"run"}
  Scope <- MCScope
  tenant <- MCTenant
  broader <- MCBroader
  Name <- MCName
  surface <- MCSurface
  normKey <- MCNormKey
  near <- MCNear
  beforeHash <- MCBeforeHash
  EntityType = {"ORG"}
  Envelope <- MCEnvelope
  Pipeline <- MCPipeline
  Floor = 85
SYMMETRY CallerSymmetry
INVARIANTS TypeOK OneEntityPerKey MatchesAgree TenantWall SurvivorAnswers HeldRelations
PROPERTIES OnlyAdds ImplementsIdentityClasses

