------------------------- MODULE MCAutomationQueue -------------------------
(* Instances of AutomationQueue for TLC. *)
EXTENDS AutomationQueue, TLC

CONSTANTS p1, p2, w1, w2, k1

\* Two publishes of one key.
OneKey == [p \in Publishes |-> k1]
=============================================================================
