-------------------------- MODULE MCAgentApprovals --------------------------
(* Instances of AgentApprovals for TLC. *)
EXTENDS AgentApprovals, TLC

CONSTANTS r1, r2, r3, r4, q1, d1, t0, deleteA, deleteB

\* Three requests for one operation, one to ask and two to race, and a fourth
\* for another.
ThreeOfFour == [r \in Requests |-> IF r = r4 THEN deleteB ELSE deleteA]

Symmetry == Permutations({r1, r2, r3})
=============================================================================
