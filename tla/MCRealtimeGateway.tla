-------------------------- MODULE MCRealtimeGateway --------------------------
EXTENDS RealtimeGateway, TLC

CONSTANTS k1, k2, ann, chat, tbl, m1, r1, r2, r3

\* Two connections of one user.
MCUserOf == [k \in Conns |-> ann]

Symmetry == Permutations(Requests) \cup Permutations(Conns)
=============================================================================
