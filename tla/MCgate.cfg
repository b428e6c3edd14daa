CONSTANTS
  Calls = {c1, c2}
  Consumers = {k1, k2}
  Deliveries = {d1, d2}
  None = None
  MaxTokens = 2
  MaxTurns = 3
  MaxProcs = 3
  MaxFaults = 1
SPECIFICATION FairSpec
INVARIANTS TypeOK ReceiptTruthful CreditedRight OneWaits UndeliveredIsDrawn
PROPERTIES HoldEnds
CHECK_DEADLOCK FALSE
