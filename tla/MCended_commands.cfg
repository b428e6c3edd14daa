CONSTANTS
  Managers = {m1}
  Settlers = {s1}
  Callers = {c1, c2}
  Letters = {l1}
  l1 = l1
  l2 = l2
  Boss = Boss
  Peer = Peer
  Operator = Operator
  SentBy <- OneLetter
  Silent = {Operator}
  Commands <- AllButRestart
  LaunchOutlastsGap = FALSE
  StatusMoves = TRUE
  MaxCalls = 2
  MaxExits = 0
  MaxFaults = 1
SPECIFICATION FairSpec
INVARIANTS TypeOK NoticesAccounted
PROPERTIES RestoredOnlyIfRun MailWakes RowCatchesUp NoneRunsFiled
