SPECIFICATION Spec
CONSTANTS
  Tabs = {a, b}
  Sessions = {s1, s2}
  MaxOps = 3
  MaxTasks = 2
  MaxOpens = 3
SYMMETRY Symmetry
INVARIANTS
  TypeOK
  Durable
  HistoryWithinRecord
  KeyIsShared
  ClearedSecretsAreGone
PROPERTIES
  IndexKeepsWhatIsHeld
CHECK_DEADLOCK FALSE
