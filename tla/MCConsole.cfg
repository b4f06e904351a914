SPECIFICATION FollowSpec
CONSTANTS
  MaxAssignments = 3
  MaxEscalations = 1
  MaxApprovals = 9
  MaxAttestations = 1
  MaxBlocks = 1
  MaxFaults = 1
  Terminal = {t1}
  founder = founder
  reviewer = reviewer
  phase1 = phase1
  phase2 = phase2
  Person = {founder, reviewer}
  Founder = founder
  Owners = {founder, reviewer}
  Template = {phase1, phase2}
  Authored = {}
  Pipeline <- MCPipeline
  NextOf <- MCNextOf
  OwnDeps <- MCOwnDeps
  ModeOf <- MCModeOf
  FounderGated = {}
  OwnerOf <- MCOwnerOf
  Attests <- MCAttests
  WorkOf <- MCWorkOf
  ExecutorOf <- MCExecutorOf
  Nothing = Nothing
  NoTemplate = NoTemplate
  NoAssignment = NoAssignment
  Project = Project
INVARIANTS OneVoiceOnIntegrity NothingForgotten PlannedActWorks
PROPERTIES PlanIsFinished
CHECK_DEADLOCK FALSE
