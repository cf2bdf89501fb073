SPECIFICATION Spec
CONSTANTS
  Tabs = {a}
  Sessions = {s1}
  MaxOps = 3
  MaxTasks = 2
  MaxOpens = 1
INVARIANT DeletedIsGone
CHECK_DEADLOCK FALSE
