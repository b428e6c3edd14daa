CONSTANTS
  s1 = s1
  s2 = s2
  s3 = s3
  c1 = c1
  c2 = c2
  c3 = c3
  Sessions = {s1, s2, s3}
  Callers = {c1, c2, c3}
  Plans <- Mixed
  Boards <- AllGone
  MinGap = 1
  MaxGap = 1
  Settle = 2
  AheadHold = 2
  MaxInFlight = 1
  AheadInFlight = 2
  MaxFaults = 1
  MaxPasses = 1
SPECIFICATION FairSpec
INVARIANTS TypeOK
PROPERTIES RoomKept AheadFirst WaitersAdmitted
