------------------------------- MODULE AcVerify -------------------------------
(***************************************************************************)
(* Acceptance criterion verification (ac_verify.rs) as "mp milestone       *)
(* complete" and "mp milestone verify" drive it (commands/milestone.rs).   *)
(*                                                                         *)
(* complete runs the verifier on a thread of its own and waits for the     *)
(* reports up to a global deadline.  Past it the main thread sets a flag,  *)
(* copies the registry of child process groups, kills every group in the   *)
(* copy and joins the thread.  The thread itself starts one command after  *)
(* the other, each in a process group of its own, enters the group in the  *)
(* registry and then polls: the flag, the child, the command's own         *)
(* timeout.  verify calls the same functions on its only thread, with a    *)
(* flag nobody sets and without the cache.                                 *)
(*                                                                         *)
(* A process group is known by the pid of its leader.  The kernel gives    *)
(* the pid to somebody else once the leader is reaped and the group empty. *)
(* The criteria and then the tests of the steps are one sequence of rows:  *)
(* both go through run_one, with one cache.  A row nothing is run for (a   *)
(* manual or an empty one) is Unchecked.                                   *)
(***************************************************************************)
EXTENDS Naturals, Sequences

CONSTANTS
    Commands,       \* the command lines of criteria and steps
    Unchecked,      \* a manual or an empty row
    Rows,           \* the sequences of rows a milestone may have
    Pids,           \* the process ids of the machine
    ThreadsFail     \* may the creation of a pipe's drain thread fail?

ASSUME VerifyAssumption ==
    /\ Unchecked \notin Commands
    /\ Rows \subseteq Seq(Commands \cup {Unchecked})
    /\ ThreadsFail \in BOOLEAN

VARIABLES
    rows,       \* the rows of the milestone, in the order they are verified
    run,        \* "complete", "force" (complete --force) or "verify"
    main,       \* where the command's main thread is
    cancelled,  \* the flag the verifier polls
    registry,   \* child_pids: the groups the verifier entered
    doomed,     \* main's copy of the registry, less what it has killed
    at,         \* where the verifier is
    child,      \* the pid of the child it started last
    status,     \* how that child ended
    results,    \* the outcomes of the rows so far
    cache,      \* CommandCache: [Commands -> outcome or "none"]
    owner,      \* [Pids -> whose process the leader is or was]
    leader,     \* [Pids -> the leader's state]
    inside,     \* the groups that have a live process besides the leader
    outside,    \* does a process that left child's group hold its pipes?
    ran,        \* history: how often each command was started
    own,        \* history: the commands that ended by themselves with exit 0
    strangers   \* history: who killed a group that is not of this command

mainVars == <<rows, run, main, cancelled, doomed>>
verifierVars == <<registry, at, child, status, results, cache, ran, own>>
kernelVars == <<owner, leader, inside, outside>>
vars == <<mainVars, verifierVars, kernelVars, strangers>>

Ended == {"completed", "reported", "refused", "aborted"}
MainSteps == Ended \cup {"waiting", "overdue", "copying", "killing", "joining"}
VerifierSteps ==
    {"next", "started", "registered", "polling", "trying", "killing", "reaping",
     "draining", "sent", "panicked"}
Outcomes == {"unchecked", "passed", "failed"}
Exits == {"passed", "failed", "signalled"}
LeaderStates == Exits \cup {"none", "running"}

-----------------------------------------------------------------------------
\* A pid the kernel may give to a new process.
Free(p) == leader[p] = "none" /\ p \notin inside

\* SIGKILL to every process of the group; nothing happens when there is none.
KillGroup(p, who) ==
    /\ leader' = IF leader[p] = "running" THEN [leader EXCEPT ![p] = "signalled"]
                                          ELSE leader
    /\ inside' = inside \ {p}
    /\ strangers' = IF owner[p] = "strange" /\ ~Free(p) THEN strangers \cup {who}
                                                        ELSE strangers

-----------------------------------------------------------------------------
(***************************************************************************)
(* The verifier: verify_milestone_in, verify_step_tests_in, run_one.       *)
(***************************************************************************)
Row == rows[Len(results) + 1]
MoreRows == at = "next" /\ Len(results) < Len(rows)
Caching == run # "verify"

SkipUnchecked ==
    /\ MoreRows /\ Row = Unchecked
    /\ results' = Append(results, "unchecked")
    /\ UNCHANGED <<mainVars, registry, at, child, status, cache, ran, own, kernelVars, strangers>>

ReuseResult ==
    /\ MoreRows /\ Row # Unchecked
    /\ Caching /\ cache[Row] # "none"
    /\ results' = Append(results, cache[Row])
    /\ UNCHANGED <<mainVars, registry, at, child, status, cache, ran, own, kernelVars, strangers>>

ToRun == MoreRows /\ Row # Unchecked /\ (Caching => cache[Row] = "none")

\* Mutant: only what passed is cached.
RecordPassed(outcome) ==
    /\ results' = Append(results, outcome)
    /\ cache' = IF Caching /\ outcome = "passed" THEN [cache EXCEPT ![Row] = outcome] ELSE cache

\* A row's outcome, also one that says the command was cancelled, is cached.
Record(outcome) ==
    /\ results' = Append(results, outcome)
    /\ cache' = IF Caching THEN [cache EXCEPT ![Row] = outcome] ELSE cache

\* The command is not on the allowlist, or the system cannot start it.
RefuseCommand ==
    /\ ToRun
    /\ Record("failed")
    /\ UNCHANGED <<mainVars, registry, at, child, status, ran, own, kernelVars, strangers>>

StartCommand(p) ==
    /\ ToRun /\ Free(p)
    /\ at' = "started"
    /\ child' = p
    /\ owner' = [owner EXCEPT ![p] = "verifier"]
    /\ leader' = [leader EXCEPT ![p] = "running"]
    /\ outside' = FALSE
    /\ ran' = [ran EXCEPT ![Row] = @ + 1]
    /\ UNCHANGED <<mainVars, registry, status, results, cache, own, inside, strangers>>

Register ==
    /\ at = "started"
    /\ at' = "registered"
    /\ registry' = registry \cup {child}
    /\ UNCHANGED <<mainVars, child, status, results, cache, ran, own, kernelVars, strangers>>

\* The two threads that drain the child's pipes.
StartDrains ==
    /\ at = "registered"
    /\ at' \in {"polling"} \cup (IF ThreadsFail THEN {"panicked"} ELSE {})
    /\ UNCHANGED <<mainVars, registry, child, status, results, cache, ran, own, kernelVars, strangers>>

PollFlag ==
    /\ at = "polling"
    /\ at' = IF cancelled THEN "killing" ELSE "trying"
    /\ UNCHANGED <<mainVars, registry, child, status, results, cache, ran, own, kernelVars, strangers>>

StillRunning ==
    /\ at = "trying" /\ leader[child] = "running"
    /\ at' = "polling"
    /\ UNCHANGED <<mainVars, registry, child, status, results, cache, ran, own, kernelVars, strangers>>

TimeOut ==
    /\ at = "trying" /\ leader[child] = "running"
    /\ at' = "killing"
    /\ UNCHANGED <<mainVars, registry, child, status, results, cache, ran, own, kernelVars, strangers>>

\* try_wait reports an error: the row has failed, the child is left alone.
GiveUpChild ==
    /\ at = "trying"
    /\ at' = "next"
    /\ Record("failed")
    /\ UNCHANGED <<mainVars, registry, child, status, ran, own, kernelVars, strangers>>

\* try_wait takes the exit status: from here on the pid may be somebody else's.
ReapExited ==
    /\ at = "trying" /\ leader[child] \in Exits
    /\ at' = "draining"
    /\ status' = leader[child]
    /\ leader' = [leader EXCEPT ![child] = "none"]
    /\ own' = IF leader[child] = "passed" THEN own \cup {Row} ELSE own
    /\ UNCHANGED <<mainVars, registry, child, results, cache, ran, owner, inside, outside, strangers>>

KillChild ==
    /\ at = "killing"
    /\ at' = "reaping"
    /\ KillGroup(child, "verifier")
    /\ UNCHANGED <<mainVars, registry, child, status, results, cache, ran, own, owner, outside>>

\* Mutant: the group is killed once more when the child has been waited for.
KillAfterReaping ==
    /\ at = "reaping"
    /\ IF leader[child] \in Exits /\ owner[child] = "verifier"
       THEN /\ leader' = [leader EXCEPT ![child] = "none"]
            /\ UNCHANGED <<at, inside, strangers>>
       ELSE /\ at' = "draining"
            /\ KillGroup(child, "verifier")
    /\ status' = "signalled"
    /\ UNCHANGED <<mainVars, registry, child, results, cache, ran, own, owner, outside>>

ReapKilled ==
    /\ at = "reaping" /\ leader[child] \in Exits
    /\ at' = "draining"
    /\ status' = "signalled"
    /\ leader' = [leader EXCEPT ![child] = "none"]
    /\ UNCHANGED <<mainVars, registry, child, results, cache, ran, own, owner, inside, outside, strangers>>

\* Mutant: a child without an exit code counts as one with exit code 0.
VerdictOfCode(s) == IF s = "failed" THEN "failed" ELSE "passed"

Verdict(s) == IF s = "passed" THEN "passed" ELSE "failed"

\* Mutant: the drain threads are joined without a bound.
JoinAtEndOfFile ==
    /\ at = "draining"
    /\ child \notin inside /\ ~outside
    /\ at' = "next"
    /\ Record(Verdict(status))
    /\ UNCHANGED <<mainVars, registry, child, status, ran, own, kernelVars, strangers>>

\* bounded_join: the drain threads have seen the end of the pipes, or two
\* seconds are over and they are left to themselves.
JoinDrains ==
    /\ at = "draining"
    /\ at' = "next"
    /\ Record(Verdict(status))
    /\ UNCHANGED <<mainVars, registry, child, status, ran, own, kernelVars, strangers>>

SendReports ==
    /\ at = "next" /\ Len(results) = Len(rows)
    /\ at' = "sent"
    /\ UNCHANGED <<mainVars, registry, child, status, results, cache, ran, own, kernelVars, strangers>>

Verifier ==
    \/ SkipUnchecked \/ ReuseResult \/ RefuseCommand
    \/ \E p \in Pids : StartCommand(p)
    \/ Register \/ StartDrains
    \/ PollFlag \/ StillRunning \/ TimeOut \/ GiveUpChild \/ ReapExited
    \/ KillChild \/ ReapKilled \/ JoinDrains
    \/ SendReports

-----------------------------------------------------------------------------
(***************************************************************************)
(* The main thread, from the start of the verifier to the end of the       *)
(* command.  What follows "completed" is complete_milestone.               *)
(***************************************************************************)
AllPassed == \A i \in 1 .. Len(results) : results[i] # "failed"

MainStep(from, to) == main = from /\ main' = to

Receive ==
    /\ at = "sent"
    /\ MainStep("waiting", IF run = "verify" THEN "reported"
                           ELSE IF AllPassed \/ run = "force" THEN "completed"
                           ELSE "refused")
    /\ UNCHANGED <<rows, run, cancelled, doomed, verifierVars, kernelVars, strangers>>

\* The verifier panicked: the channel is closed.
Disconnect ==
    /\ at = "panicked"
    /\ MainStep("waiting", "refused")
    /\ UNCHANGED <<rows, run, cancelled, doomed, verifierVars, kernelVars, strangers>>

PassDeadline ==
    /\ run # "verify" /\ at \notin {"sent", "panicked"}
    /\ MainStep("waiting", "overdue")
    /\ UNCHANGED <<rows, run, cancelled, doomed, verifierVars, kernelVars, strangers>>

\* Mutant: the kill alone is relied on.
RaiseNoFlag ==
    /\ MainStep("overdue", "copying")
    /\ UNCHANGED <<rows, run, cancelled, doomed, verifierVars, kernelVars, strangers>>

RaiseFlag ==
    /\ MainStep("overdue", "copying")
    /\ cancelled' = TRUE
    /\ UNCHANGED <<rows, run, doomed, verifierVars, kernelVars, strangers>>

CopyRegistry ==
    /\ MainStep("copying", "killing")
    /\ doomed' = registry
    /\ UNCHANGED <<rows, run, cancelled, verifierVars, kernelVars, strangers>>

KillDoomed(p) ==
    /\ main = "killing" /\ p \in doomed
    /\ doomed' = doomed \ {p}
    /\ KillGroup(p, "main")
    /\ UNCHANGED <<rows, run, main, cancelled, verifierVars, owner, outside>>

\* The thread is joined, then the command ends with the deadline's message.
Join ==
    /\ doomed = {} /\ at \in {"sent", "panicked"}
    /\ MainStep("killing", "aborted")
    /\ UNCHANGED <<rows, run, cancelled, doomed, verifierVars, kernelVars, strangers>>

Main ==
    \/ Receive \/ Disconnect \/ PassDeadline
    \/ RaiseFlag \/ CopyRegistry \/ (\E p \in Pids : KillDoomed(p)) \/ Join

-----------------------------------------------------------------------------
(***************************************************************************)
(* The processes: the children do as they like, and the kernel may give a  *)
(* pid of the registry that is free again to a process of somebody else.   *)
(***************************************************************************)
Exit(p) ==
    /\ owner[p] = "verifier" /\ leader[p] = "running"
    /\ \E e \in Exits : leader' = [leader EXCEPT ![p] = e]
    /\ UNCHANGED <<mainVars, verifierVars, owner, inside, outside, strangers>>

Fork(p) ==
    /\ owner[p] = "verifier" /\ leader[p] = "running"
    /\ inside' = inside \cup {p}
    /\ UNCHANGED <<mainVars, verifierVars, owner, leader, outside, strangers>>

\* The other processes of the group end, or go into a group of their own.
Empty(p) ==
    /\ p \in inside
    /\ inside' = inside \ {p}
    /\ \/ outside' = outside
       \/ p = child /\ outside' = TRUE
    /\ UNCHANGED <<mainVars, verifierVars, owner, leader, strangers>>

ClosePipes ==
    /\ outside
    /\ outside' = FALSE
    /\ UNCHANGED <<mainVars, verifierVars, owner, leader, inside, strangers>>

Take(p) ==
    /\ p \in registry /\ Free(p)
    /\ owner' = [owner EXCEPT ![p] = "strange"]
    /\ leader' = [leader EXCEPT ![p] = "running"]
    /\ UNCHANGED <<mainVars, verifierVars, inside, outside, strangers>>

GiveBack(p) ==
    /\ owner[p] = "strange" /\ leader[p] # "none"
    /\ leader' = [leader EXCEPT ![p] = "none"]
    /\ UNCHANGED <<mainVars, verifierVars, owner, inside, outside, strangers>>

Processes ==
    \/ \E p \in Pids : Exit(p) \/ Fork(p) \/ Empty(p) \/ Take(p) \/ GiveBack(p)
    \/ ClosePipes

-----------------------------------------------------------------------------
Init ==
    /\ rows \in Rows
    /\ run \in {"complete", "force", "verify"}
    /\ main = "waiting" /\ cancelled = FALSE /\ doomed = {}
    /\ at = "next" /\ child \in Pids /\ status = "failed"
    /\ registry = {} /\ results = <<>>
    /\ cache = [c \in Commands |-> "none"]
    /\ owner = [p \in Pids |-> "none"] /\ leader = [p \in Pids |-> "none"]
    /\ inside = {} /\ outside = FALSE
    /\ ran = [c \in Commands |-> 0] /\ own = {} /\ strangers = {}

Next == Verifier \/ Main \/ Processes

(***************************************************************************)
(* Both threads are scheduled; a command's timeout is found to be over     *)
(* when the verifier looks again and again.  Nothing is assumed of the     *)
(* children.                                                               *)
(***************************************************************************)
Fairness == WF_vars(Main) /\ WF_vars(Verifier) /\ SF_vars(TimeOut)

Spec == Init /\ [][Next]_vars /\ Fairness

-----------------------------------------------------------------------------
TypeOK ==
    /\ rows \in Rows
    /\ run \in {"complete", "force", "verify"}
    /\ main \in MainSteps /\ cancelled \in BOOLEAN /\ doomed \subseteq Pids
    /\ registry \subseteq Pids /\ at \in VerifierSteps /\ child \in Pids
    /\ status \in Exits
    /\ results \in Seq(Outcomes) /\ Len(results) <= Len(rows)
    /\ cache \in [Commands -> Outcomes \cup {"none"}]
    /\ owner \in [Pids -> {"none", "verifier", "strange"}]
    /\ leader \in [Pids -> LeaderStates]
    /\ inside \subseteq Pids /\ outside \in BOOLEAN
    /\ ran \in [Commands -> Nat] /\ own \subseteq Commands
    /\ strangers \subseteq {"verifier", "main"}

(***************************************************************************)
(* When the deadline has ended a completion, no process of any command's   *)
(* group lives on, also of those that had ended long before and of one     *)
(* that was started while main was killing, unless the verifier panicked.  *)
(***************************************************************************)
AbortLeavesNothingRunning ==
    main = "aborted" /\ at # "panicked" =>
        \A p \in Pids : owner[p] = "verifier" =>
            leader[p] # "running" /\ p \notin inside

(***************************************************************************)
(* A milestone is completed without --force only if every command of its   *)
(* criteria and steps ran to its own end and exited with 0: neither a      *)
(* refused, a timed out or a killed command nor what the cache says of one *)
(* can pass for it.                                                        *)
(***************************************************************************)
CompletedOnOwnExits ==
    main = "completed" /\ run = "complete" =>
        \A i \in 1 .. Len(rows) : rows[i] \in Commands => rows[i] \in own

(***************************************************************************)
(* A completion starts a command line at most once, however many rows      *)
(* name it, and tells the same of all of them.                             *)
(***************************************************************************)
OneRunOneVerdict ==
    run # "verify" =>
        /\ \A c \in Commands : ran[c] <= 1
        /\ \A i, j \in 1 .. Len(results) : rows[i] = rows[j] => results[i] = results[j]

(***************************************************************************)
(* The verifier never kills a process of somebody else, although every pid *)
(* it kills was free to be given away at some time; main, whose registry   *)
(* keeps the pids of reaped children, may, but only past the deadline.     *)
(***************************************************************************)
StrangersAreSafe ==
    /\ "verifier" \notin strangers
    /\ strangers # {} => cancelled

(***************************************************************************)
(* The command comes to its end whatever its children do: they may hang,   *)
(* fork, leave their group with the pipes open, or wait for the plan lock  *)
(* that the command itself holds.                                          *)
(***************************************************************************)
CommandEnds == <>(main \in Ended)
=============================================================================
