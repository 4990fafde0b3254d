-------------------------------- MODULE MCRaul --------------------------------
(* Raul on two milestones, started on a plan with an approval request of   *)
(* the first, and with another annotation of it or room for one.           *)
EXTENDS Raul

CONSTANTS m1, m2

On(milestone, kind) == [target |-> milestone, kind |-> kind, status |-> "open"]

StartNotes ==
    {<<On(m1, "approval-request"), On(m1, "review-request")>>,
     <<On(m1, "approval-request")>>}

=============================================================================
