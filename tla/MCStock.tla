------------------------------- MODULE MCStock -------------------------------
\* Two ingredients with two units each, an order which needs one and three
\* units, and a purchase order for two units of the first.
EXTENDS Stock

CONSTANTS o1, p1

TwoUnits    == [i \in Ingredients |-> 2]
OnePlan     == [o \in Orders |-> <<1, 3>>]
TwoOfFirst  == [p \in Purchases |-> <<2, 0>>]
Corrections == {-1}
=============================================================================
