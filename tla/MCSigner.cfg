SPECIFICATION FairSpec
CONSTANTS
  s1 = s1
  s2 = s2
  Surface = {s1}
  Name = {s1, s2}
  NameOf <- MCNameOf
  Ttl = 1
  MaxClock = 0
  MaxLeases = 0
  NoLease = NoLease
  Torn = Torn
  MaxFile = 2
  Body = {"work", "reserved"}
  Cap = 1
  RequireLease = FALSE
  MaxMishaps = 3
  NoFile = NoFile
INVARIANT StampIsOnWork
PROPERTY EveryAssignmentAnswered
CHECK_DEADLOCK FALSE
