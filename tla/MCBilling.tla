----------------------------- MODULE MCBilling -----------------------------
EXTENDS Billing, TLC

CONSTANTS c1, c2, c3

\* Two clients on the first listing, one on the second.
TwoAndOne == c1 :> 1 @@ c3 :> 1 @@ c2 :> 2

\* The first config has a cap of two bytes, the others have none.
FirstCapped == c1 :> 2 @@ c2 :> 0 @@ c3 :> 0

\* The clients of the first listing move two bytes and one.  The second listing is
\* the neighbour whose being processed makes the cycle wipe the whole panel.
BusyFirst == c1 :> 2 @@ c2 :> 0 @@ c3 :> 1
=============================================================================
