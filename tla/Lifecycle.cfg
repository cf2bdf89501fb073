SPECIFICATION FairSpec
CONSTANTS
  MaxHostTransports = 3
  MaxGuestTransports = 2
INVARIANTS TypeOK ConnectedOverLiveTransport KeyAgreement SingleWiring ReconnectFormIsCurrent WiringInv
PROPERTIES NoLateConnection ExpiredIsFinal WaitingConnects PeerCloseIsNoticed
