SPECIFICATION Spec
CONSTANTS
  MaxSkip = 1
  Handlers = 2
  MaxHostSends = 2
  MaxGuestSends = 1
  MaxLinks = 2
  MaxDrops = 0
  MaxReloads = 1
PROPERTIES ShownInOrder KeepsConversation
CHECK_DEADLOCK FALSE
