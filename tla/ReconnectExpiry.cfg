SPECIFICATION Spec
CONSTANTS
  MaxHostTransports = 2
  MaxGuestTransports = 2
PROPERTIES ReconnectIgnoresExpiry
