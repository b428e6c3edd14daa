CONSTANTS
  NSessions = 2
  InitialSessions = 1
  MaxMessages = 2
  Operator = Operator
  Plugin = Plugin
  Extensions = {Plugin}
  Subjects = {Topic}
  Topic = Topic
  NoSubject = NoSubject
  b1 = b1
  b2 = b2
  b3 = b3
  Bodies = {b1, b2, b3}
  Kin <- Strangers
  QueueCap = 20
  RateCap = 5
  PairCap = 8
  Managers = {m1}
  TypeAhead = {}
  ClearKeys = {}
  Mail <- Corrections
  SendSlots = 1
  PasteOutlastsGrace = FALSE
  MaxCrashes = 0
  MaxEnds = 0
SPECIFICATION Spec
PROPERTIES PromiseSpec
