----------------------------- MODULE MCWatchRun -----------------------------
(* The instance of WatchRun for TLC, with what an earlier run may have left. *)
EXTENDS WatchRun

\* A run that was killed on its second milestone.
KilledRun ==
    [Fresh(Earlier) EXCEPT !.active = 2, !.staged = TRUE, !.done = <<"completed">>]

\* A run that ended with these outcomes of its milestones.
EndedRun(outcome, done) ==
    [Fresh(Earlier) EXCEPT !.outcome = outcome, !.done = done]

\* The first of them left the first version of the file, on its way out after a signal.
EarlierSnapshots ==
    {FreshV1(Earlier), KilledRun,
     EndedRun("completed", <<"completed", "completed">>),
     EndedRun("partial-failure", <<"skipped", "completed">>)}
=============================================================================
