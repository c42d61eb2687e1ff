------------------------------ MODULE MCTopUp ------------------------------
EXTENDS TopUp
=============================================================================
