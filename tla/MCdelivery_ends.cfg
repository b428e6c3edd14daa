CONSTANTS
  NSessions = 2
  InitialSessions = 2
  MaxMessages = 2
  Operator = Operator
  Plugin = Plugin
  Extensions = {Plugin}
  Subjects = {Topic}
  Topic = Topic
  NoSubject = NoSubject
  b1 = b1
  b2 = b2
  b3 = b3
  Bodies = {b1, b2, b3}
  Kin <- Family
  QueueCap = 20
  RateCap = 5
  PairCap = 8
  Managers = {m1}
  TypeAhead = {2}
  ClearKeys = {1}
  Mail <- Exchange
  SendSlots = 1
  PasteOutlastsGrace = FALSE
  MaxCrashes = 0
  MaxEnds = 1
SPECIFICATION Spec
INVARIANTS AtMostOnce DeliveredWasPasted
PROPERTIES PromiseSpec
