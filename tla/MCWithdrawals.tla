--------------------------- MODULE MCWithdrawals ---------------------------
EXTENDS Withdrawals, FiniteSetsExt, TLC

\* Counting units is summing: SumOver agrees with the library's sum.
ASSUME SumOverIsSum ==
  \A f \in [1..3 -> 0..3] : \A S \in SUBSET (1..3) :
    SumOver(f, S) = MapThenSumSet(LAMBDA r : f[r], S)

\* Users and sessions are only compared for equality: interchanging them changes
\* nothing the safety properties can see.
Symmetry == Permutations(Users) \cup Permutations(Sessions)
=============================================================================
