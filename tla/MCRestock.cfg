SPECIFICATION FairSpec
CONSTANTS
  i1 = i1
  codex = codex
  Item = {i1}
  SeatOf <- MCSeatOf
  Seats <- MCSeats
  Pool <- MCPool
  MaxReports = 2
  ClaimOf <- MCClaimOf
  Content = {c1, c2}
  Finished = {c1}
  Undecodable = {c2}
  Stamp = {1, 2}
  MaxMishaps = 2
  BacklogLine = BacklogLine
  OtherLine = OtherLine
  GarbledLine = GarbledLine
  None = None
INVARIANTS JournalCovers IssuedOnce
PROPERTIES EveryReportSettled EveryIdleSeatRestocked
CHECK_DEADLOCK FALSE
