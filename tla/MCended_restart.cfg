CONSTANTS
  Managers = {m1}
  Settlers = {}
  Callers = {c1}
  Letters = {l1, l2}
  l1 = l1
  l2 = l2
  Boss = Boss
  Peer = Peer
  Operator = Operator
  SentBy <- TwoSenders
  Silent = {Operator}
  Commands = {"restart", "send"}
  LaunchOutlastsGap = FALSE
  StatusMoves = FALSE
  MaxCalls = 2
  MaxExits = 0
  MaxFaults = 0
SPECIFICATION Spec
PROPERTIES RestartKeepsQueue
