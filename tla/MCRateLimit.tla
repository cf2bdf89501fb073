---------------------------- MODULE MCRateLimit ----------------------------
\* Three counts' worth of messages over more than three windows.
EXTENDS RateLimit
=============================================================================
