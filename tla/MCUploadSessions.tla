-------------------------- MODULE MCUploadSessions --------------------------
(* Instances of UploadSessions for TLC. *)
EXTENDS UploadSessions, TLC

CONSTANTS q1, q2, q3, c1, c2, a1

\* Two parts, and a retry of the first.
TwoAndRetry == q1 :> 0 @@ q2 :> 1 @@ q3 :> 0

Symmetry == Permutations({c1, c2})
=============================================================================
