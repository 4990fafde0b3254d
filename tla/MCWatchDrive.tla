---------------------------- MODULE MCWatchDrive ----------------------------
(* Instances of WatchDrive, and of MilestoneReview below it, for TLC. *)
EXTENDS WatchDrive

\* One milestone that depends on nothing.
NoDependencies == [m \in Milestones |-> {}]
=============================================================================
