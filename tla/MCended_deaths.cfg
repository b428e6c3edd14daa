CONSTANTS
  Managers = {m1}
  Settlers = {}
  Callers = {c1, c2}
  Letters = {l1, l2}
  l1 = l1
  l2 = l2
  Boss = Boss
  Peer = Peer
  Operator = Operator
  SentBy <- TwoSenders
  Silent = {Operator}
  Commands = {"stop", "send", "relay", "restart"}
  LaunchOutlastsGap = FALSE
  StatusMoves = TRUE
  MaxCalls = 3
  MaxExits = 1
  MaxFaults = 0
SPECIFICATION FairSpec
PROPERTIES DeathResolves SendersHear
