-------------------------------- MODULE Clock -------------------------------
(***************************************************************************)
(* The time that deadlines are compared with.                              *)
(***************************************************************************)
EXTENDS Naturals

CONSTANTS
    Never,
    MaxTime      \* bound: the last moment

ASSUME ClockAssumption == MaxTime \in Nat /\ Never \notin Nat

VARIABLE clock

ClockTicks ==
    /\ clock < MaxTime
    /\ clock' = clock + 1

\* time.Now().After(deadline)
Expired(deadline) == clock > deadline

=============================================================================
