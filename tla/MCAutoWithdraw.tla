-------------------------- MODULE MCAutoWithdraw --------------------------
EXTENDS AutoWithdraw

CONSTANTS u1, u2

\* Every hour, all there is; or a dollar whenever there is one.
TwoBodies ==
  {[mode |-> "time", every |-> 1, threshold |-> 0, fixed |-> 0],
   [mode |-> "threshold", every |-> 0, threshold |-> 1, fixed |-> 1]}
=============================================================================
