CONSTANTS
  Olds = {o}
  Fresh = {1, 2}
  Tasks = {t}
  None = None
  Root = Root
  MaxActs = 1
  MaxFaults = 2
SPECIFICATION FairSpec
INVARIANTS TypeOK ClaimsHaveHolders NoWorkLeftBehind HeldOnRecord OldRunsOn
PROPERTIES OrphansAborted
CHECK_DEADLOCK FALSE
