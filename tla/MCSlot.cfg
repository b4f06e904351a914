SPECIFICATION Spec
CONSTANTS
  MaxAssignments = 2
  MaxEscalations = 2
  MaxApprovals = 1
  MaxAttestations = 0
  founder = founder
  plain = plain
  Person = {founder}
  Founder = founder
  Owners = {founder}
  Template = {plain}
  Authored = {plain}
  Pipeline <- MCPipeline
  NextOf <- MCNextOf
  OwnDeps <- MCOwnDeps
  ModeOf <- MCModeOf
  FounderGated = {}
  OwnerOf <- MCOwnerOf
  Attests <- MCAttests
  NoTemplate = NoTemplate
  NoAssignment = NoAssignment
  Project = Project
INVARIANTS
  TypeOK
  SingleActiveSlot
  PointerFollowsStatus
  WorkFollowsDependencies
  FrozenRemembersPrior
  EvaluatedIsVerifying
PROPERTIES
  ImplementsWorkSlot
CHECK_DEADLOCK FALSE
