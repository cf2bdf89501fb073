------------------------ MODULE MCControlProtocol ------------------------
EXTENDS ControlProtocol
=============================================================================
