------------------------- MODULE MCCustomerSessions -------------------------
EXTENDS CustomerSessions, TLC

CONSTANTS s1, m1, m2, r1, r2, r3, c1, p1, a1, d1, o1, ml, rl

\* Requests of one kind are interchangeable.
Symmetry == Permutations(Redeems) \cup Permutations(Refreshes)
=============================================================================
