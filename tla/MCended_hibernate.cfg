CONSTANTS
  Managers = {m1, m2}
  Settlers = {s1}
  Callers = {c1, c2}
  Letters = {l1}
  l1 = l1
  l2 = l2
  Boss = Boss
  Peer = Peer
  Operator = Operator
  SentBy <- OneLetter
  Silent = {Operator}
  Commands = {"hibernate", "relay", "send"}
  LaunchOutlastsGap = FALSE
  StatusMoves = TRUE
  MaxCalls = 3
  MaxExits = 0
  MaxFaults = 1
SYMMETRY Alike
SPECIFICATION Spec
PROPERTIES HibernatedKeepsMail
