SPECIFICATION FleetSpec
CONSTANTS
  Runner = {r1, r2}
  Item = {a}
  openai = openai
  xai = xai
  Pool <- MCPool
  Funded <- MCFunded
  Reserve = 1
  DayCap = 2
  MaxCost = 2
  MaxDay = 2
  MaxLosses = 1
  NoPool = NoPool
  Machine = {laptop, seat}
  Signer = laptop
  Key = {k1, k2}
  FirstKey = k1
  Document = {d1}
  MaxEntries = 2
  Unstamped = Unstamped
  NoDocument = NoDocument
  m1 = m1
  m2 = m2
  t1 = t1
  g1 = g1
  g2 = g2
  Task = {t1}
  Digest = {g1, g2}
  Manifest = {m1, m2}
  MaxSweeps = 2
  Requests <- MCRequests
  NoTask = NoTask
  Outside = Outside
  NoDigest = NoDigest
  NoManifest = NoManifest
  Version = {1, 2, 3}
  Seat = {s1, s2}
  NoVersion = NoVersion
  Class = {c1, c2}
  Test = {e1}
  NoTest = NoTest
  MaxEdits = 2
  Process = {p1, p2}
  Dir = {1, 2, 3}
  PackFile = {f1, f2}
  n1 = n1
  n2 = n2
  Name = {n1, n2}
  NameOf <- MCPlaceName
  Home <- MCHome
  Example = n1
  i1 = i1
  i2 = i2
  q1 = q1
  Id = {i1, i2}
  Body <- MCBody
  MaxCommands = 3
  Repo = {q1}
  NoRepo = NoRepo
  NoYaml = NoYaml
  NoFile = NoFile
  Torn = Torn
  NoDir = NoDir
INVARIANTS DayCapHolds RotationRefusesNothing AllowedIsReviewed AloneResolves KernelIsWhole
PROPERTIES  LawIsNewest SweepKeepsDeclarations RegistrationsKept
CHECK_DEADLOCK FALSE
