------------------------- MODULE MCSessionLifecycle -------------------------
\* Small instances of SessionLifecycle.  With two transports an end can connect
\* and reconnect once, or (the guest) join twice; the third of the host lets a
\* reconnection be abandoned for another.
EXTENDS SessionLifecycle
=============================================================================
