---------------------------- MODULE OneTimeGrant ----------------------------
(***************************************************************************)
(* What an approval of packages/agents is for: a held operation runs only  *)
(* after a human granted it, and one grant admits at most one run.  Whether*)
(* a spent grant's operation runs is left open: the process may stop, or   *)
(* the operation fail, after the grant is spent.                           *)
(***************************************************************************)
CONSTANTS Grants, Operations

VARIABLES
    state,      \* of each grant
    by          \* per grant: the operations that ran on it

vars == <<state, by>>

Become(g, from, to) ==
    state[g] = from /\ state' = [state EXCEPT ![g] = to] /\ UNCHANGED by

Init == state = [g \in Grants |-> "none"] /\ by = [g \in Grants |-> {}]

Ask(g)    == Become(g, "none", "pending")
Grant(g)  == Become(g, "pending", "approved")
Refuse(g) == Become(g, "pending", "rejected") \/ Become(g, "pending", "expired")
Spend(g)  == Become(g, "approved", "consumed")
Run(g, o) ==
    /\ state[g] = "consumed"
    /\ by[g] = {}
    /\ by' = [by EXCEPT ![g] = {o}]
    /\ UNCHANGED state

Next ==
    \E g \in Grants :
        \/ Ask(g) \/ Grant(g) \/ Refuse(g) \/ Spend(g)
        \/ \E o \in Operations : Run(g, o)

Spec == Init /\ [][Next]_vars
=============================================================================
