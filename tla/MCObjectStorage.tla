-------------------------- MODULE MCObjectStorage --------------------------
(* Instances of ObjectStorage for TLC. *)
EXTENDS ObjectStorage, TLC

CONSTANTS u1, u2, u3, k1, m1, d1, b1, a, b, c

\* Two uploads and the removal meet at a, a copy and an upload at b.
Target == u1 :> a @@ u2 :> a @@ u3 :> b @@ k1 :> b @@ m1 :> c
Source == k1 :> a @@ m1 :> a @@ d1 :> a

OneLargeLarge == u1 :> 1 @@ u2 :> 2 @@ u3 :> 2
=============================================================================
