CONSTANTS
  MaxCalls = 2
  Rows = {r1, r2}
  NoRow = NoRow
  MaxBackoff = 2
  MaxMoves = 2
  MaxInstalls = 1
  MaxFaults = 3
SPECIFICATION FairSpec
INVARIANTS TypeOK CallsAccounted
PROPERTIES CallsAnswered ToolsSettle
