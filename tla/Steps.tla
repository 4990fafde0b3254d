------------------------------- MODULE Steps -------------------------------
(***************************************************************************)
(* The steps and work packages of one approved milestone: how they are     *)
(* added, split, removed, ordered and worked on (step.rs, wp.rs,           *)
(* step_claim.rs), and which of them mp next offers (path_engine.rs).      *)
(*                                                                         *)
(* Every command runs under the plan lock and is one step; one that is     *)
(* refused is a disabled action.  The id S2.1 is the sequence <<2, 1>>.    *)
(* Every way to add a step refuses an id that is there, so steps are a     *)
(* function of their ids.  The order numbers of steps, which no choice     *)
(* depends on, and whole arrays of steps given as JSON are left out.       *)
(***************************************************************************)
EXTENDS Naturals, Sequences

CONSTANTS
    Ids,        \* bound: the ids of steps that occur
    Packages,   \* ids of work packages
    Elsewhere,  \* what else a step may be said to belong to
    GivenDeps,  \* the dependencies that users write themselves
    Mentioning, \* the steps whose text names a tweak or bug fix
    MaxEdits    \* bound: commands that restructure the plan

ASSUME StepsAssumption ==
    /\ Ids \subseteq Seq(Nat \ {0}) \ {<<>>}
    /\ Elsewhere \notin Packages
    /\ GivenDeps \subseteq SUBSET Ids
    /\ Mentioning \subseteq Ids
    /\ MaxEdits \in Nat

STEP_STATUSES == {"pending", "in-progress", "done", "skipped", "failed"}

VARIABLES
    file,       \* the ids in the order of the array
    steps,      \* the step of an id
    packages,   \* the work packages of the milestone
    closed,     \* the steps whose tweaks and bug fixes were closed
    byHand,     \* history: a user wrote dependencies
    edits       \* how many commands restructured the plan; no part of the program

vars == <<file, steps, packages, closed, byHand, edits>>

Present == DOMAIN steps

\* A claim whose lease is over is as good as none.
StepRecords ==
    [package : Packages \union {Elsewhere}, status : STEP_STATUSES,
     deps : SUBSET Ids, claimed : BOOLEAN]

TypeOK ==
    /\ file \in Seq(Ids)
    /\ Present = {file[k] : k \in DOMAIN file}
    /\ steps \in [Present -> StepRecords]
    /\ packages \subseteq Packages
    /\ closed \subseteq Mentioning
    /\ byHand \in BOOLEAN
    /\ edits \in 0 .. MaxEdits

Init ==
    /\ file = <<>>
    /\ steps = [id \in {} |-> {}]
    /\ packages = {}
    /\ closed = {}
    /\ byHand = FALSE
    /\ edits = 0

Edit == edits < MaxEdits /\ edits' = edits + 1

-----------------------------------------------------------------------------
(* Ids *)

Below(id, child) ==
    Len(child) > Len(id) /\ SubSeq(child, 1, Len(id)) = id

\* next_split_child_suffix: the number of a new child is one more than the
\* last number below id.
IsNextChild(child, id, ids) ==
    LET taken == {c[Len(id) + 1] : c \in {c \in ids : Below(id, c)}}
        number == child[Len(child)]
    IN  /\ Len(child) = Len(id) + 1
        /\ Below(id, child)
        /\ \A n \in taken : n < number
        /\ number = 1 \/ number - 1 \in taken

\* step_sort_key, compared as vectors of numbers.
Before(a, b) ==
    \/ Below(a, b)
    \/ \E k \in DOMAIN a \intersect DOMAIN b :
          a[k] < b[k] /\ \A l \in 1 .. k - 1 : a[l] = b[l]

-----------------------------------------------------------------------------
(* Work packages *)

AddPackage ==
    /\ Edit
    /\ \E wp \in Packages \ packages : packages' = packages \union {wp}
    /\ UNCHANGED <<file, steps, closed, byHand>>

\* decompose_milestone: only a milestone without any gets work packages.
Decompose ==
    /\ Edit
    /\ packages = {}
    /\ packages' \in (SUBSET Packages) \ {{}}
    /\ UNCHANGED <<file, steps, closed, byHand>>

RemovePackage ==
    /\ Edit
    /\ \E wp \in packages :
          /\ \A id \in Present : steps[id].package # wp
          /\ packages' = packages \ {wp}
    /\ UNCHANGED <<file, steps, closed, byHand>>

-----------------------------------------------------------------------------
(* Restructuring *)

Fresh(wp, deps) ==
    [package |-> wp, status |-> "pending", deps |-> deps, claimed |-> FALSE]

\* The steps with others beside them.
With(others) ==
    [id \in Present \union DOMAIN others |->
       IF id \in Present THEN steps[id] ELSE others[id]]

\* Any free id can be given; the ones add_step makes up itself are free.
AddStep ==
    /\ Edit
    /\ \E wp \in packages, id \in Ids \ Present :
          /\ steps' = With([i \in {id} |-> Fresh(wp, {})])
          /\ file' = Append(file, id)
    /\ UNCHANGED <<packages, closed, byHand>>

\* The array of these ids, sorted by them.
Sorted(ids, n) ==
    {s \in [1 .. n -> ids] :
       /\ ids = {s[k] : k \in 1 .. n}
       /\ \A k, l \in 1 .. n : k < l => Before(s[k], s[l])}

\* The step stays and gets two children, which depend on what it depends on.
Split ==
    /\ Edit
    /\ \E id \in Present, first, second \in Ids :
          /\ steps[id].status # "done"
          /\ IsNextChild(first, id, Present)
          /\ IsNextChild(second, id, Present \union {first})
          /\ steps' = With([i \in {first, second} |->
                              Fresh(steps[id].package, steps[id].deps)])
          /\ file' \in Sorted(Present \union {first, second}, Len(file) + 2)
    /\ UNCHANGED <<packages, closed, byHand>>

Without(s, k) ==
    [j \in 1 .. Len(s) - 1 |-> IF j < k THEN s[j] ELSE s[j + 1]]

\* Mutant: whether others depend on a step is not looked at.
RemovableWithDependents(id) ==
    \A other \in Present : ~Below(id, other)

\* Nothing depends on it and it has no children.
Removable(id) ==
    /\ \A other \in Present \ {id} : id \notin steps[other].deps
    /\ \A other \in Present : ~Below(id, other)

RemoveStep ==
    /\ Edit
    /\ \E k \in DOMAIN file :
          /\ Removable(file[k])
          /\ steps' = [other \in Present \ {file[k]} |-> steps[other]]
          /\ file' = Without(file, k)
    /\ UNCHANGED <<packages, closed, byHand>>

\* update_step checks neither the package nor the dependencies.
MoveStep ==
    /\ Edit
    /\ \E id \in Present, wp \in Packages \union {Elsewhere} :
          steps' = [steps EXCEPT ![id].package = wp]
    /\ UNCHANGED <<file, packages, closed, byHand>>

WriteDependencies ==
    /\ Edit
    /\ byHand' = TRUE
    /\ \E id \in Present, deps \in GivenDeps :
          steps' = [steps EXCEPT ![id].deps = deps]
    /\ UNCHANGED <<file, packages, closed>>

\* The step before this one among those of its package, if there is one.
Previous(id) ==
    {file[j] : j \in
       {j \in DOMAIN file : \E k \in DOMAIN file :
          /\ file[k] = id
          /\ j < k
          /\ steps[file[j]].package = steps[id].package
          /\ \A l \in j + 1 .. k - 1 : steps[file[l]].package # steps[id].package}}

\* infer_depends_on_steps: each package becomes a chain in file order; steps of
\* no package of the milestone keep what they have.
InferDependencies ==
    /\ Edit
    /\ steps' = [id \in Present |->
                   IF steps[id].package \in packages
                   THEN [steps[id] EXCEPT !.deps = Previous(id)]
                   ELSE steps[id]]
    /\ UNCHANGED <<file, packages, closed, byHand>>

-----------------------------------------------------------------------------
(* Work *)

Closed(id) == steps[id].status \in {"done", "skipped"}

\* step_deps_met; a dependency that is no step is never met.
DepsMet(id) == \A dep \in steps[id].deps : dep \in Present /\ Closed(dep)

\* The last step that is done closes the tweaks and bug fixes that the steps
\* that are done mention.
SetStepStatus ==
    \E id \in Present, status \in STEP_STATUSES :
       LET step == [steps[id] EXCEPT
                      !.status = status,
                      !.claimed = @ /\ status \notin {"done", "skipped"}]
           after == [steps EXCEPT ![id] = step]
           done == {i \in Present : after[i].status = "done"}
           skipped == {i \in Present : after[i].status = "skipped"}
       IN  /\ status = "in-progress" => DepsMet(id)
           /\ steps' = after
           /\ closed' = IF status = "done" /\ Present = done \union skipped
                        THEN closed \union (done \intersect Mentioning) ELSE closed
           /\ UNCHANGED <<file, packages, byHand, edits>>

\* Whoever claims a step has it, whether or not it is claimed already.
Claim ==
    /\ \E id \in Present : steps' = [steps EXCEPT ![id].claimed = TRUE]
    /\ UNCHANGED <<file, packages, closed, byHand, edits>>

\* release_step, by anybody, or the end of the lease.
Release ==
    /\ \E id \in Present : steps' = [steps EXCEPT ![id].claimed = FALSE]
    /\ UNCHANGED <<file, packages, closed, byHand, edits>>

\* What build_path shows of the milestone once it may be worked on.
Actionable == {id \in Present : steps[id].status \in {"pending", "in-progress"}}

Offered == {id \in Actionable : ~steps[id].claimed /\ DepsMet(id)}

-----------------------------------------------------------------------------

Next ==
    \/ AddPackage \/ Decompose \/ RemovePackage
    \/ AddStep \/ Split \/ RemoveStep \/ MoveStep
    \/ WriteDependencies \/ InferDependencies
    \/ SetStepStatus \/ Claim \/ Release

Spec == Init /\ [][Next]_vars

-----------------------------------------------------------------------------
(* Properties *)

\* However a milestone was restructured, its dependencies inferred at any time
\* and again, mp next has something to offer while there is work: it offers
\* nothing only if all that is left is claimed, failed or waits for that, or
\* if users wrote dependencies themselves, which nothing checks.
InferredWorkIsOffered ==
    Actionable # {} /\ Offered = {} =>
       \/ byHand
       \/ \E id \in Present : steps[id].claimed \/ steps[id].status = "failed"

(* What the repository says and does not hold *)

\* step.rs: "When all steps are done/skipped, auto-close referenced TW/BF track
\* items." Skipping the last one closes nothing.
DoneWorkIsClosed ==
    Present # {} /\ (\A id \in Present : Closed(id)) =>
       \A id \in Present \intersect Mentioning : steps[id].status = "done" => id \in closed

\* validate/plan.rs, gate G9: a step in progress has its dependencies behind it.
\* They can be reopened, or inferred later.
StartedBehindDependencies ==
    \A id \in Present : steps[id].status = "in-progress" => DepsMet(id)
=============================================================================
