------------------------- MODULE MCConfigLifecycle -------------------------
EXTENDS ConfigLifecycle

CONSTANTS c1, c2, b1, l1

\* Every config on one listing, of one buyer.
OneListing == [c \in Configs |-> l1]
OneBuyer   == [c \in Configs |-> b1]
=============================================================================
