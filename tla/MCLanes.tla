------------------------------- MODULE MCLanes -------------------------------
(* Instances of Lanes, and of MilestoneMigration below it, for TLC. *)
EXTENDS Lanes

CONSTANTS m1, m2

\* The second milestone depends on the first.
SecondOnFirst == [m \in Milestones |-> IF m = m2 THEN {m1} ELSE {}]

\* Bound: one milestone of each kind, and no command changes the kinds.  Lanes and
\* migrations do not read them.
KeptKindsInit == Init /\ tracks = {m2}

KeptKindsNext ==
    \/ Next /\ UNCHANGED tracks
    \/ MigrateLifecycle

KeptKindsSpec == KeptKindsInit /\ [][KeptKindsNext]_vars
=============================================================================
