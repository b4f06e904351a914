SPECIFICATION Spec
CONSTANTS
  MaxAssignments = 2
  MaxEscalations = 0
  MaxApprovals = 4
  MaxAttestations = 1
  founder = founder
  lead = lead
  guest = guest
  governed = governed
  external = external
  Person = {founder, lead, guest}
  Founder = founder
  Owners = {founder, lead}
  Template = {governed, external}
  Authored = {governed, external}
  Pipeline <- MCPipeline
  NextOf <- MCNextOf
  OwnDeps <- MCOwnDeps
  ModeOf <- MCModeOf
  FounderGated = {external}
  OwnerOf <- MCOwnerOf
  Attests <- MCAttests
  NoTemplate = NoTemplate
  NoAssignment = NoAssignment
  Project = Project
INVARIANTS
  VerifiedAwaitsApproval
  ClosedWithAuthority
  ReasonsMatchVerdict
CHECK_DEADLOCK FALSE
