SPECIFICATION FairSpec
CONSTANTS
  MaxHostTransports = 2
  MaxGuestTransports = 2
PROPERTIES ReconnectRegeneratesKey
