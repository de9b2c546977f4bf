------------------------- MODULE AcceptedMessages --------------------------
(***************************************************************************)
(* What a queue of packages/automation promises its publishers, whatever   *)
(* its consumers and the members of the project do: an accepted message is *)
(* open until it is settled, one message at a time, and leaves the queue   *)
(* only settled or with the queue.  A settled message may be reopened: ack *)
(* and nack carry no lease.                                                *)
(***************************************************************************)
CONSTANT Messages

VARIABLES
    state,      \* of each message
    closing     \* the queue is being deleted

vars == <<state, closing>>

Phase == {"new", "open", "settled", "gone"}

\* All of a set of messages move from some phases to one.
Move(S, from, to) ==
    /\ \A m \in S : state[m] \in from
    /\ state' = [m \in Messages |-> IF m \in S THEN to ELSE state[m]]

Init == state = [m \in Messages |-> "new"] /\ closing = FALSE

Accept(m)  == Move({m}, {"new"}, "open") /\ UNCHANGED closing
Settle(m)  == Move({m}, {"open"}, "settled") /\ UNCHANGED closing
Reopen(m)  == Move({m}, {"settled"}, "open") /\ UNCHANGED closing
Discard(S) == Move(S, {"settled"}, "gone") /\ UNCHANGED closing
Drop       == Move({m \in Messages : state[m] # "new"}, Phase, "gone") /\ closing' = TRUE

Next ==
    \/ \E m \in Messages : Accept(m) \/ Settle(m) \/ Reopen(m)
    \/ \E S \in SUBSET Messages : Discard(S)
    \/ Drop

Spec == Init /\ [][Next]_vars
=============================================================================
