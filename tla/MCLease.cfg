SPECIFICATION LeaseSpec
CONSTANTS
  s1 = s1
  s2 = s2
  Surface = {s1, s2}
  Name = {s1, s2}
  NameOf <- MCNameOf
  Ttl = 2
  MaxClock = 5
  MaxLeases = 4
  NoLease = NoLease
  Torn = Torn
SYMMETRY Symmetry
INVARIANTS AloneSingleIssuer LeaseIdNamesIssuer
CHECK_DEADLOCK FALSE
