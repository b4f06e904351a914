SPECIFICATION FairSpec
CONSTANTS
  File = {1, 2}
  Wake = {w1}
  Minute = {1, 2}
  MaxMishaps = 2
  NoFile = NoFile
  NoWake = NoWake
  NoClaim = NoClaim
INVARIANTS SerialOneReport
PROPERTIES DoneHasReport StampedIsServed
CHECK_DEADLOCK FALSE
