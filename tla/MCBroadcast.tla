---------------------------- MODULE MCBroadcast ----------------------------
EXTENDS Broadcast

CONSTANTS u1, u2
=============================================================================
