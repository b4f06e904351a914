SPECIFICATION Spec
CONSTANTS
  MaxAssignments = 4
  MaxEscalations = 1
  MaxApprovals = 2
  MaxAttestations = 0
  founder = founder
  phase1 = phase1
  phase2 = phase2
  phase3 = phase3
  followup = followup
  Person = {founder}
  Founder = founder
  Owners = {founder}
  Template = {phase1, phase2, phase3, followup}
  Authored = {}
  Pipeline <- MCPipeline
  NextOf <- MCNextOf
  OwnDeps <- MCOwnDeps
  ModeOf <- MCModeOf
  FounderGated = {}
  OwnerOf <- MCOwnerOf
  Attests <- MCAttests
  NoTemplate = NoTemplate
  NoAssignment = NoAssignment
  Project = Project
INVARIANT
  NoDuplicatePhase
PROPERTY
  NoPhaseSkipped
CHECK_DEADLOCK FALSE
