---------------------------- MODULE MCSendQueue ----------------------------
EXTENDS SendQueue, TLC
=============================================================================
