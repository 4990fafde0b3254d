------------------------------ MODULE Delivery ------------------------------
(***************************************************************************)
(* What the lifecycle promises to whoever reads a plan: where the work of  *)
(* each milestone stands, and that work is delivered only when somebody    *)
(* vouched for it (a passing review, or a completion for which the review  *)
(* was waived).  MilestoneReview implements this specification.            *)
(***************************************************************************)
CONSTANT Milestones

VARIABLES
    stage,      \* [Milestones -> Stages]
    origin,     \* where a milestone in rework came from, Nowhere otherwise
    dropped,    \* the cancelled milestones: they are final
    vouched     \* the milestones somebody vouched for

vars == <<stage, origin, dropped, vouched>>

Stages == {"planned", "active", "finished", "delivered", "rework"}
Nowhere == "nowhere"

Init ==
    /\ stage = [m \in Milestones |-> "planned"]
    /\ origin = [m \in Milestones |-> Nowhere]
    /\ dropped = {}
    /\ vouched = {}

\* Work starts, restarts or is finished; it never goes back to planning.
Work(m, to) ==
    /\ \/ stage[m] \in {"planned", "active"} /\ to \in {"active", "finished"}
       \/ stage[m] \in {"finished", "delivered"} /\ to = "active"
    /\ stage' = [stage EXCEPT ![m] = to]
    /\ UNCHANGED <<origin, dropped, vouched>>

\* Somebody vouches for finished work.
Vouch(m) ==
    /\ stage[m] \in {"finished", "delivered"}
    /\ vouched' = vouched \cup {m}
    /\ UNCHANGED <<stage, origin, dropped>>

\* Work is delivered on somebody's word, given now or earlier.
Deliver(m) ==
    /\ stage[m] \in {"planned", "active", "finished"}
    /\ vouched' \in {vouched, vouched \cup {m}}
    /\ m \in vouched'
    /\ stage' = [stage EXCEPT ![m] = "delivered"]
    /\ UNCHANGED <<origin, dropped>>

\* A finding sends finished or delivered work back.
SendBack(m) ==
    /\ stage[m] \in {"finished", "delivered"}
    /\ origin' = [origin EXCEPT ![m] = stage[m]]
    /\ stage' = [stage EXCEPT ![m] = "rework"]
    /\ UNCHANGED <<dropped, vouched>>

\* Rework ends exactly where it began.
Restore(m) ==
    /\ stage[m] = "rework"
    /\ stage' = [stage EXCEPT ![m] = origin[m]]
    /\ origin' = [origin EXCEPT ![m] = Nowhere]
    /\ UNCHANGED <<dropped, vouched>>

\* Anything that is not delivered can be dropped.
Abandon(m) ==
    /\ stage[m] # "delivered"
    /\ dropped' = dropped \cup {m}
    /\ UNCHANGED <<stage, origin, vouched>>

\* Nothing happens to dropped work any more.
Next ==
    \E m \in Milestones \ dropped :
        \/ \E to \in {"active", "finished"} : Work(m, to)
        \/ Vouch(m)
        \/ Deliver(m)
        \/ SendBack(m)
        \/ Restore(m)
        \/ Abandon(m)

Spec == Init /\ [][Next]_vars
=============================================================================
