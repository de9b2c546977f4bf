----------------------------- MODULE MCSchedules -----------------------------
(* Instances of Schedules for TLC. *)
EXTENDS Schedules, TLC

CONSTANTS s1, s2, p1, t1, every, once

\* Every minute, and a yearly one without a second minute within the horizon.
Rare == every :> 0 .. 12 @@ once :> {1}
=============================================================================
