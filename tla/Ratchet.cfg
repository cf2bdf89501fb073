SPECIFICATION Spec
CONSTANTS
  MaxSkip = 1
  Handlers = 1
  MaxHostSends = 3
  MaxGuestSends = 2
  MaxLinks = 3
  MaxDrops = 2
  MaxReloads = 1
INVARIANTS TypeOK FirstLinkDelivers FreshMessageKeys HealedChainsDeliver OneLadder ReadKeysAreGone
CHECK_DEADLOCK FALSE
