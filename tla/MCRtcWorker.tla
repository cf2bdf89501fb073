---------------------------- MODULE MCRtcWorker ----------------------------
EXTENDS RtcWorker, TLC

Symmetry == Permutations(Pages)
=============================================================================
