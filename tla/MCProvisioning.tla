--------------------------- MODULE MCProvisioning ---------------------------
EXTENDS Provisioning

CONSTANTS u1, u2, p1, p2
=============================================================================
