SPECIFICATION Spec
CONSTANTS
  MaxSkip = 1
  Handlers = 2
  MaxHostSends = 1
  MaxGuestSends = 1
  MaxLinks = 1
  MaxDrops = 0
  MaxReloads = 0
INVARIANTS FirstLinkDelivers
CHECK_DEADLOCK FALSE
