----------------------------- MODULE AtomicPlan -----------------------------
(***************************************************************************)
(* What the plan lock and the transactions promise to a command: one       *)
(* command at a time, each started on the very plan the earlier ones left; *)
(* a recoverable command takes effect in one step or not at all, and for   *)
(* good once it has returned.  Only a command that died while closing may  *)
(* still be undone, as a whole.  PlanTxn implements this specification.    *)
(***************************************************************************)
CONSTANTS
    Writers,    \* the processes that run commands
    Files,
    Contents,
    Absent      \* no such file

VARIABLES
    tree,       \* the plan tree as it lies on disk
    plan,       \* the plan, as the commands that took effect made it
    before,     \* what plan was before a command that may yet be undone
    at,         \* [Writers -> Phases]
    broken      \* an I/O error has voided the promise

vars == <<tree, plan, before, at, broken>>

Images == [Files -> Contents \cup {Absent}]
Phases == {"out", "entering", "plain", "whole", "closing"}

TypeOK ==
    /\ tree \in Images
    /\ plan \in Images
    /\ before \in Images
    /\ at \in [Writers -> Phases]
    /\ broken \in BOOLEAN

Init ==
    /\ tree \in Images
    /\ plan = tree
    /\ before = tree
    /\ at = [w \in Writers |-> "out"]
    /\ broken = FALSE

Go(w, phase) == at' = [at EXCEPT ![w] = phase]

Enter(w) ==
    /\ \A v \in Writers : at[v] = "out"
    /\ Go(w, "entering")
    /\ UNCHANGED <<tree, plan, before>>

\* Whatever lies in the tree while somebody tidies up is not the plan.
Repair(w) ==
    /\ at[w] \in {"entering", "closing"}
    /\ tree' \in Images
    /\ UNCHANGED <<plan, before, at>>

\* The command that died while closing is undone, all of it.
Undo(w) ==
    /\ at[w] = "entering"
    /\ tree' = before
    /\ plan' = before
    /\ UNCHANGED <<before, at>>

\* From here on nothing is undone.
Settle(w) ==
    /\ at[w] = "entering"
    /\ before' = plan
    /\ UNCHANGED <<tree, plan, at>>

\* A command loads the tree: it is the plan, and for good.
Start(w) ==
    /\ at[w] = "entering"
    /\ tree = plan
    /\ before = plan
    /\ Go(w, "plain") \/ Go(w, "whole")
    /\ UNCHANGED <<tree, plan, before>>

\* A plain command changes the plan file by file.
Write(w, f, c) ==
    /\ at[w] = "plain"
    /\ plan' = [plan EXCEPT ![f] = c]
    /\ tree' = plan'
    /\ before' = plan'
    /\ UNCHANGED at

\* A recoverable command changes files, but not yet the plan.
Change(w, f, c) ==
    /\ at[w] = "whole"
    /\ tree' = [tree EXCEPT ![f] = c]
    /\ UNCHANGED <<plan, before, at>>

\* It takes effect.
Commit(w) ==
    /\ at[w] = "whole"
    /\ plan' = tree
    /\ before' = plan
    /\ Go(w, "closing")
    /\ UNCHANGED tree

\* It does not.
Abort(w) ==
    /\ at[w] = "whole"
    /\ Go(w, "closing")
    /\ UNCHANGED <<tree, plan, before>>

\* A command returns: the tree is the plan, and nothing is undone any more.
Return(w) ==
    /\ at[w] \in {"plain", "closing"}
    /\ tree = plan
    /\ before' = plan
    /\ Go(w, "out")
    /\ UNCHANGED <<tree, plan>>

\* A command gives up before it starts, or its process dies.
Stop(w) ==
    /\ at[w] # "out"
    /\ Go(w, "out")
    /\ UNCHANGED <<tree, plan, before>>

Step(w) ==
    \/ Enter(w) \/ Repair(w) \/ Undo(w) \/ Settle(w) \/ Start(w)
    \/ \E f \in Files, c \in Contents \cup {Absent} : Write(w, f, c) \/ Change(w, f, c)
    \/ Commit(w) \/ Abort(w) \/ Return(w) \/ Stop(w)

\* An I/O error at the end of a transaction: nothing is promised any more.
Break == broken' = TRUE /\ TypeOK'

Next == (~broken /\ UNCHANGED broken /\ \E w \in Writers : Step(w)) \/ Break

Spec == Init /\ [][Next]_vars
=============================================================================
