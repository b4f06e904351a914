SPECIFICATION Spec
CONSTANTS
  s1 = s1
  s2 = s2
  Surface = {s1, s2}
  Name = {s1, s2}
  NameOf <- MCNameOf
  Ttl = 1
  MaxClock = 1
  MaxLeases = 2
  NoLease = NoLease
  Torn = Torn
  MaxFile = 2
  Body = {"work"}
  Cap = 2
  RequireLease = TRUE
  MaxMishaps = 0
  NoFile = NoFile
SYMMETRY Symmetry
PROPERTY AloneTakeoverIsFinal
CHECK_DEADLOCK FALSE
