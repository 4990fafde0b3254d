---------------------------- MODULE AcVerifyProofs ----------------------------
(***************************************************************************)
(* Proofs about AcVerify, for every set of commands, rows and pids: the    *)
(* types, and the four safety invariants of its run.  Each invariant is    *)
(* one conjunct of IInv or follows from it.                                *)
(***************************************************************************)
EXTENDS AcVerify, TLAPS

\* The verifier is between the start of a row's command and its outcome.
Busy == at \notin {"next", "sent"}

\* The verifier has a child it has not waited for.
HasChild == at \in {"started", "registered", "polling", "trying", "killing", "reaping"}

RowIsCommand == Busy => Len(results) < Len(rows) /\ Row \in Commands

ChildIsOwn == HasChild => owner[child] = "verifier" /\ leader[child] # "none"

FlagIsMains == cancelled <=> main \in {"copying", "killing", "aborted"}

CacheIsResults ==
    /\ \A c \in Commands : cache[c] \in {"none", "passed", "failed"}
    /\ \A i \in 1 .. Len(results) :
         /\ rows[i] = Unchecked => results[i] = "unchecked"
         /\ rows[i] # Unchecked => results[i] \in {"passed", "failed"}
         /\ rows[i] # Unchecked /\ Caching => cache[rows[i]] = results[i]

RunsAreCached ==
    Caching =>
        /\ Busy => cache[Row] = "none"
        /\ \A c \in Commands :
             /\ ran[c] <= 1
             /\ ran[c] = 1 => cache[c] # "none" \/ (Busy /\ Row = c)

PassedIsOwn ==
    /\ \A c \in Commands : cache[c] = "passed" => c \in own
    /\ \A i \in 1 .. Len(results) : results[i] = "passed" => rows[i] \in own
    /\ at = "draining" /\ status = "passed" => Row \in own

CompletedIsJudged ==
    /\ at = "sent" => Len(results) = Len(rows)
    /\ main = "completed" => at = "sent" /\ (run = "complete" => AllPassed)

Alive(p) == owner[p] = "verifier" /\ (leader[p] = "running" \/ p \in inside)

AliveIsKnown ==
    \A p \in Pids : Alive(p) => p \in registry \/ (at = "started" /\ p = child)

AliveIsDoomed ==
    /\ main \in {"killing", "aborted"} =>
         \A p \in Pids : Alive(p) =>
            \/ p \in doomed
            \/ at \in {"started", "registered", "polling", "killing"} /\ p = child
            \/ at = "panicked"
    /\ main = "aborted" => doomed = {} /\ at \in {"sent", "panicked"}

Typed == TypeOK /\ RowIsCommand
Custody == ChildIsOwn /\ FlagIsMains /\ StrangersAreSafe
Bookkeeping == CacheIsResults /\ RunsAreCached /\ PassedIsOwn /\ CompletedIsJudged
Traced == AliveIsKnown /\ AliveIsDoomed

IInv == Typed /\ Custody /\ Bookkeeping /\ Traced
-----------------------------------------------------------------------------
\* A step keeps the types, and a row whose command is under way is a command.
LEMMA TypeStep ==
    ASSUME Typed, [Next]_vars
    PROVE  Typed'
<1> USE DEF Typed, TypeOK, RowIsCommand, Busy, Row, MainSteps, Ended, VerifierSteps,
          Outcomes, Exits, LeaderStates
<1>1. CASE SkipUnchecked
  BY <1>1, VerifyAssumption DEF SkipUnchecked, mainVars, kernelVars, MoreRows
<1>2. CASE ReuseResult
  <2>1. Row \in Commands /\ cache[Row] \in Outcomes
    BY <1>2, VerifyAssumption DEF ReuseResult, MoreRows
  <2>2. results' \in Seq(Outcomes) /\ Len(results') = Len(results) + 1
    BY <1>2, <2>1 DEF ReuseResult
  <2> QED
    BY <1>2, <2>2 DEF ReuseResult, mainVars, kernelVars, MoreRows
<1>3. CASE RefuseCommand
  BY <1>3, VerifyAssumption DEF RefuseCommand, mainVars, kernelVars, Record, Caching, MoreRows, ToRun
<1>4. ASSUME NEW p \in Pids, StartCommand(p) PROVE Typed'
  <2>1. Len(results) < Len(rows) /\ Row \in Commands
    BY <1>4, VerifyAssumption DEF StartCommand, MoreRows, ToRun
  <2>2. ran' \in [Commands -> Nat]
    BY <1>4, <2>1 DEF StartCommand
  <2>3. owner' \in [Pids -> {"none", "verifier", "strange"}] /\ leader' \in [Pids -> LeaderStates]
    BY <1>4 DEF StartCommand
  <2> QED
    BY <1>4, <2>1, <2>2, <2>3 DEF StartCommand, mainVars
<1>5. CASE Register
  BY <1>5, VerifyAssumption DEF Register, mainVars, kernelVars
<1>6. CASE StartDrains
  BY <1>6, VerifyAssumption DEF StartDrains, mainVars, kernelVars
<1>7. CASE PollFlag
  BY <1>7, VerifyAssumption DEF PollFlag, mainVars, kernelVars
<1>8. CASE StillRunning
  BY <1>8, VerifyAssumption DEF StillRunning, mainVars, kernelVars
<1>9. CASE TimeOut
  BY <1>9, VerifyAssumption DEF TimeOut, mainVars, kernelVars
<1>10. CASE GiveUpChild
  BY <1>10, VerifyAssumption DEF GiveUpChild, mainVars, kernelVars, Record, Caching
<1>11. CASE ReapExited
  BY <1>11, VerifyAssumption DEF ReapExited, mainVars
<1>12. CASE KillChild
  BY <1>12, VerifyAssumption DEF KillChild, mainVars, KillGroup, Free
<1>13. CASE ReapKilled
  BY <1>13, VerifyAssumption DEF ReapKilled, mainVars
<1>14. CASE JoinDrains
  BY <1>14, VerifyAssumption DEF JoinDrains, mainVars, kernelVars, Record, Caching, Verdict
<1>15. CASE SendReports
  BY <1>15, VerifyAssumption DEF SendReports, mainVars, kernelVars
<1>16. CASE Receive
  BY <1>16, VerifyAssumption DEF Receive, verifierVars, kernelVars, MainStep
<1>17. CASE Disconnect
  BY <1>17, VerifyAssumption DEF Disconnect, verifierVars, kernelVars, MainStep
<1>18. CASE PassDeadline
  BY <1>18, VerifyAssumption DEF PassDeadline, verifierVars, kernelVars, MainStep
<1>19. CASE RaiseFlag
  BY <1>19, VerifyAssumption DEF RaiseFlag, verifierVars, kernelVars, MainStep
<1>20. CASE CopyRegistry
  BY <1>20, VerifyAssumption DEF CopyRegistry, verifierVars, kernelVars, MainStep
<1>21. ASSUME NEW p \in Pids, KillDoomed(p) PROVE Typed'
  BY <1>21, VerifyAssumption DEF KillDoomed, verifierVars, KillGroup, Free
<1>22. CASE Join
  BY <1>22, VerifyAssumption DEF Join, verifierVars, kernelVars, MainStep
<1>23. ASSUME NEW p \in Pids, Exit(p) PROVE Typed'
  BY <1>23 DEF Exit, mainVars, verifierVars
<1>24. ASSUME NEW p \in Pids, Fork(p) PROVE Typed'
  BY <1>24 DEF Fork, mainVars, verifierVars
<1>25. ASSUME NEW p \in Pids, Empty(p) PROVE Typed'
  <2>1. outside' \in BOOLEAN
    BY <1>25 DEF Empty
  <2>2. inside' \subseteq Pids
    BY <1>25 DEF Empty
  <2> QED
    BY <1>25, <2>1, <2>2 DEF Empty, mainVars, verifierVars
<1>26. ASSUME NEW p \in Pids, Take(p) PROVE Typed'
  BY <1>26 DEF Take, mainVars, verifierVars, Free
<1>27. ASSUME NEW p \in Pids, GiveBack(p) PROVE Typed'
  BY <1>27 DEF GiveBack, mainVars, verifierVars
<1>28. CASE ClosePipes
  <2>1. outside' \in BOOLEAN
    BY <1>28 DEF ClosePipes
  <2> QED
    BY <1>28, <2>1 DEF ClosePipes, mainVars, verifierVars
<1>29. CASE UNCHANGED vars
  BY <1>29, VerifyAssumption DEF vars, mainVars, verifierVars, kernelVars
<1> QED
  BY <1>1, <1>2, <1>3, <1>4, <1>5, <1>6, <1>7, <1>8, <1>9, <1>10,
     <1>11, <1>12, <1>13, <1>14, <1>15, <1>16, <1>17, <1>18, <1>19, <1>20,
     <1>21, <1>22, <1>23, <1>24, <1>25, <1>26, <1>27, <1>28, <1>29
     DEF Next, Verifier, Main, Processes

\* The verifier's child is its own until it has waited for it; the flag is main's.
LEMMA ChildStep ==
    ASSUME Typed, Custody, [Next]_vars
    PROVE  Custody'
<1> USE DEF Typed, Custody, TypeOK, ChildIsOwn, HasChild, FlagIsMains, StrangersAreSafe, Exits,
          LeaderStates
<1>1. CASE Register \/ StartDrains \/ PollFlag \/ StillRunning \/ TimeOut \/ SendReports
  BY <1>1 DEF Register, StartDrains, PollFlag, StillRunning, TimeOut, SendReports,
     mainVars, kernelVars
<1>2. CASE SkipUnchecked
  BY <1>2 DEF SkipUnchecked, mainVars, kernelVars, MoreRows
<1>3. CASE ReuseResult
  BY <1>3 DEF ReuseResult, mainVars, kernelVars, MoreRows, Caching
<1>4. CASE RefuseCommand
  BY <1>4 DEF RefuseCommand, mainVars, kernelVars, ToRun, MoreRows, Record, Caching
<1>5. CASE GiveUpChild
  BY <1>5 DEF GiveUpChild, mainVars, kernelVars, Record, Caching
<1>6. CASE JoinDrains
  BY <1>6 DEF JoinDrains, mainVars, kernelVars, Record, Caching, Verdict
<1>7. ASSUME NEW p \in Pids, StartCommand(p) PROVE Custody'
  BY <1>7 DEF StartCommand, ToRun, MoreRows, Caching, Free, mainVars
<1>8. CASE ReapExited
  BY <1>8 DEF ReapExited, mainVars
<1>9. CASE ReapKilled
  BY <1>9 DEF ReapKilled, mainVars
<1>10. CASE KillChild
  BY <1>10 DEF KillChild, KillGroup, Free, mainVars
<1>11. CASE Receive \/ Disconnect \/ PassDeadline \/ RaiseFlag \/ CopyRegistry \/ Join
  BY <1>11 DEF Receive, Disconnect, PassDeadline, RaiseFlag, CopyRegistry, Join,
     MainStep, verifierVars, kernelVars
<1>12. ASSUME NEW p \in Pids, KillDoomed(p) PROVE Custody'
  BY <1>12 DEF KillDoomed, KillGroup, Free, verifierVars
<1>13. ASSUME NEW p \in Pids, Exit(p) \/ Fork(p) \/ Empty(p) \/ Take(p) \/ GiveBack(p)
      PROVE  Custody'
  BY <1>13 DEF Exit, Fork, Empty, Take, GiveBack, Free, mainVars, verifierVars
<1>14. CASE ClosePipes
  BY <1>14 DEF ClosePipes, mainVars, verifierVars
<1>15. CASE UNCHANGED vars
  BY <1>15 DEF vars, mainVars, verifierVars, kernelVars
<1> QED
  BY <1>1, <1>2, <1>3, <1>4, <1>5, <1>6, <1>7, <1>8, <1>9, <1>10, <1>11, <1>12, <1>13,
     <1>14, <1>15
     DEF Next, Verifier, Main, Processes

\* A row that is judged takes its verdict into the results and the cache.
LEMMA RecordKeeps ==
    ASSUME TypeOK, CacheIsResults, RunsAreCached, PassedIsOwn,
           Len(results) < Len(rows), Row \in Commands, Caching => cache[Row] = "none",
           NEW o \in {"passed", "failed"}, o = "passed" => Row \in own,
           Record(o), at' = "next", UNCHANGED <<rows, run, ran, own>>
    PROVE  (CacheIsResults /\ RunsAreCached /\ PassedIsOwn)'
<1> USE DEF TypeOK, Caching
<1>1. Len(results') = Len(results) + 1 /\ results' \in Seq(Outcomes)
  BY DEF Record, Outcomes
<1>2. \A i \in 1 .. Len(results') :
         IF i = Len(results) + 1 THEN rows[i] = Row /\ results'[i] = o
                                 ELSE i \in 1 .. Len(results) /\ results'[i] = results[i]
  BY <1>1 DEF Record, Row
<1>3. \A c \in Commands : cache'[c] = IF Caching /\ c = Row THEN o ELSE cache[c]
  BY DEF Record
<1>4. Row # Unchecked
  BY VerifyAssumption
<1>5. rows \in Seq(Commands \cup {Unchecked})
  BY VerifyAssumption
<1>6. \A i \in 1 .. Len(results) : rows[i] \in Commands \cup {Unchecked}
  BY <1>5
<1>7. CacheIsResults'
  <2>1. \A i \in 1 .. Len(results) : rows[i] = Row => ~Caching
    BY <1>4 DEF CacheIsResults
  <2> QED
    BY <1>1, <1>2, <1>3, <1>4, <1>6, <2>1 DEF CacheIsResults
<1>8. RunsAreCached'
  BY <1>3 DEF RunsAreCached, Busy
<1>9. PassedIsOwn'
  BY <1>1, <1>2, <1>3 DEF PassedIsOwn
<1> QED
  BY <1>7, <1>8, <1>9

\* What the cache and the results say of a command.
LEMMA ResultStep ==
    ASSUME Typed, Bookkeeping, [Next]_vars
    PROVE  Bookkeeping'
<1> USE DEF Typed, Bookkeeping, TypeOK, RowIsCommand, CacheIsResults, RunsAreCached,
          PassedIsOwn, CompletedIsJudged, Busy, Row, AllPassed, Caching, Outcomes, Exits
<1>1. CASE Register \/ StartDrains \/ PollFlag \/ StillRunning \/ TimeOut \/ SendReports
  BY <1>1 DEF Register, StartDrains, PollFlag, StillRunning, TimeOut, SendReports,
     mainVars, kernelVars
<1>2. CASE SkipUnchecked
  BY <1>2 DEF SkipUnchecked, mainVars, kernelVars, MoreRows
<1>3. CASE ReuseResult
  <2>1. Len(results) < Len(rows) /\ Row \in Commands /\ cache[Row] \in {"passed", "failed"}
    BY <1>3, VerifyAssumption DEF ReuseResult, MoreRows
  <2>2. Len(results') = Len(results) + 1
    BY <1>3 DEF ReuseResult
  <2>3. \A i \in 1 .. Len(results') :
           IF i = Len(results) + 1 THEN rows[i] = Row /\ results'[i] = cache[Row]
                                   ELSE i \in 1 .. Len(results) /\ results'[i] = results[i]
    BY <1>3, <2>2 DEF ReuseResult
  <2>4. Row # Unchecked /\ UNCHANGED <<rows, run, main, at, cache, ran, own, status>>
    BY <1>3 DEF ReuseResult, mainVars
  <2>5. CacheIsResults'
    BY <2>1, <2>2, <2>3, <2>4
  <2>6. RunsAreCached' /\ PassedIsOwn'
    BY <1>3, <2>1, <2>2, <2>3, <2>4 DEF ReuseResult, MoreRows
  <2> QED
    BY <1>3, <2>4, <2>5, <2>6 DEF ReuseResult, MoreRows
<1>4. CASE RefuseCommand
  <2>1. Len(results) < Len(rows) /\ Row \in Commands /\ (Caching => cache[Row] = "none")
    BY <1>4, VerifyAssumption DEF RefuseCommand, ToRun, MoreRows
  <2>2. Record("failed") /\ at' = "next" /\ UNCHANGED <<rows, run, ran, own>>
    BY <1>4 DEF RefuseCommand, mainVars, ToRun, MoreRows
  <2>3. (CacheIsResults /\ RunsAreCached /\ PassedIsOwn)'
    BY <2>1, <2>2, RecordKeeps
  <2> QED
    BY <1>4, <2>3 DEF RefuseCommand, mainVars, ToRun, MoreRows
<1>5. CASE GiveUpChild
  <2>1. Len(results) < Len(rows) /\ Row \in Commands /\ (Caching => cache[Row] = "none")
    BY <1>5, VerifyAssumption DEF GiveUpChild
  <2>2. Record("failed") /\ at' = "next" /\ UNCHANGED <<rows, run, ran, own>>
    BY <1>5 DEF GiveUpChild, mainVars
  <2>3. (CacheIsResults /\ RunsAreCached /\ PassedIsOwn)'
    BY <2>1, <2>2, RecordKeeps
  <2> QED
    BY <1>5, <2>3 DEF GiveUpChild, mainVars
<1>6. CASE JoinDrains
  <2>1. Len(results) < Len(rows) /\ Row \in Commands /\ (Caching => cache[Row] = "none")
    BY <1>6, VerifyAssumption DEF JoinDrains
  <2>2. Record(Verdict(status)) /\ at' = "next" /\ UNCHANGED <<rows, run, ran, own>>
    BY <1>6 DEF JoinDrains, mainVars
  <2>3. Verdict(status) \in {"passed", "failed"} /\ (Verdict(status) = "passed" => Row \in own)
    BY <1>6 DEF JoinDrains, Verdict
  <2>4. (CacheIsResults /\ RunsAreCached /\ PassedIsOwn)'
    BY <2>1, <2>2, <2>3, RecordKeeps
  <2> QED
    BY <1>6, <2>4 DEF JoinDrains, mainVars
<1>7. ASSUME NEW p \in Pids, StartCommand(p) PROVE Bookkeeping'
  BY <1>7 DEF StartCommand, ToRun, MoreRows, Caching, Free, mainVars
<1>8. CASE ReapExited
  BY <1>8 DEF ReapExited, mainVars
<1>9. CASE ReapKilled
  BY <1>9 DEF ReapKilled, mainVars
<1>10. CASE KillChild
  BY <1>10 DEF KillChild, KillGroup, Free, mainVars
<1>11. CASE Receive \/ Disconnect \/ PassDeadline \/ RaiseFlag \/ CopyRegistry \/ Join
  <2>1. UNCHANGED <<rows, run, at, status, results, cache, ran, own>>
    BY <1>11 DEF Receive, Disconnect, PassDeadline, RaiseFlag, CopyRegistry, Join, verifierVars
  <2>2. (CacheIsResults /\ RunsAreCached /\ PassedIsOwn)'
    BY <2>1
  <2>3. main' = "completed" => at = "sent" /\ (AllPassed \/ run = "force")
    BY <1>11 DEF Receive, Disconnect, PassDeadline, RaiseFlag, CopyRegistry, Join, MainStep
  <2> QED
    BY <2>1, <2>2, <2>3
<1>12. ASSUME NEW p \in Pids, KillDoomed(p) PROVE Bookkeeping'
  BY <1>12 DEF KillDoomed, KillGroup, Free, verifierVars
<1>13. ASSUME NEW p \in Pids, Exit(p) \/ Fork(p) \/ Empty(p) \/ Take(p) \/ GiveBack(p)
      PROVE  Bookkeeping'
  BY <1>13 DEF Exit, Fork, Empty, Take, GiveBack, Free, mainVars, verifierVars
<1>14. CASE ClosePipes
  BY <1>14 DEF ClosePipes, mainVars, verifierVars
<1>15. CASE UNCHANGED vars
  BY <1>15 DEF vars, mainVars, verifierVars, kernelVars
<1> QED
  BY <1>1, <1>2, <1>3, <1>4, <1>5, <1>6, <1>7, <1>8, <1>9, <1>10, <1>11, <1>12, <1>13,
     <1>14, <1>15
     DEF Next, Verifier, Main, Processes

\* A process of a command is in the registry, then in main's copy of it.
LEMMA AliveStep ==
    ASSUME Typed, Custody, Traced, [Next]_vars
    PROVE  Traced'
<1> USE DEF Typed, Custody, Traced, TypeOK, ChildIsOwn, HasChild, FlagIsMains,
          AliveIsKnown, AliveIsDoomed,
          Alive, Exits, LeaderStates
<1>1. CASE Register \/ StartDrains \/ PollFlag \/ StillRunning \/ TimeOut \/ SendReports
  BY <1>1 DEF Register, StartDrains, PollFlag, StillRunning, TimeOut, SendReports,
     mainVars, kernelVars
<1>2. CASE SkipUnchecked
  BY <1>2 DEF SkipUnchecked, mainVars, kernelVars, MoreRows
<1>3. CASE ReuseResult
  BY <1>3 DEF ReuseResult, mainVars, kernelVars, MoreRows, Caching
<1>4. CASE RefuseCommand
  BY <1>4 DEF RefuseCommand, mainVars, kernelVars, ToRun, MoreRows, Record, Caching
<1>5. CASE GiveUpChild
  BY <1>5 DEF GiveUpChild, mainVars, kernelVars, Record, Caching
<1>6. CASE JoinDrains
  BY <1>6 DEF JoinDrains, mainVars, kernelVars, Record, Caching, Verdict
<1>7. ASSUME NEW p \in Pids, StartCommand(p) PROVE Traced'
  BY <1>7 DEF StartCommand, ToRun, MoreRows, Caching, Free, mainVars
<1>8. CASE ReapExited
  BY <1>8 DEF ReapExited, mainVars
<1>9. CASE ReapKilled
  BY <1>9 DEF ReapKilled, mainVars
<1>10. CASE KillChild
  BY <1>10 DEF KillChild, KillGroup, Free, mainVars
<1>11. CASE Receive \/ Disconnect \/ PassDeadline \/ RaiseFlag \/ CopyRegistry \/ Join
  BY <1>11 DEF Receive, Disconnect, PassDeadline, RaiseFlag, CopyRegistry, Join,
     MainStep, verifierVars, kernelVars
<1>12. ASSUME NEW p \in Pids, KillDoomed(p) PROVE Traced'
  BY <1>12 DEF KillDoomed, KillGroup, Free, verifierVars
<1>13. ASSUME NEW p \in Pids, Exit(p) \/ Fork(p) \/ Empty(p) \/ Take(p) \/ GiveBack(p)
      PROVE  Traced'
  BY <1>13 DEF Exit, Fork, Empty, Take, GiveBack, Free, mainVars, verifierVars
<1>14. CASE ClosePipes
  BY <1>14 DEF ClosePipes, mainVars, verifierVars
<1>15. CASE UNCHANGED vars
  BY <1>15 DEF vars, mainVars, verifierVars, kernelVars
<1> QED
  BY <1>1, <1>2, <1>3, <1>4, <1>5, <1>6, <1>7, <1>8, <1>9, <1>10, <1>11, <1>12, <1>13,
     <1>14, <1>15
     DEF Next, Verifier, Main, Processes

-----------------------------------------------------------------------------
LEMMA InitIInv == Init => IInv
<1> SUFFICES ASSUME Init PROVE IInv
  OBVIOUS
<1> USE DEF Init
<1>1. Typed
  <2>1. rows \in Seq(Commands \cup {Unchecked}) /\ Len(rows) \in Nat
    BY VerifyAssumption
  <2>2. results \in Seq(Outcomes) /\ Len(results) <= Len(rows)
    BY <2>1
  <2>3. /\ cache \in [Commands -> Outcomes \cup {"none"}] /\ ran \in [Commands -> Nat]
        /\ owner \in [Pids -> {"none", "verifier", "strange"}] /\ leader \in [Pids -> LeaderStates]
    BY DEF LeaderStates
  <2> QED
    BY <2>2, <2>3 DEF Typed, TypeOK, RowIsCommand, Busy, MainSteps, VerifierSteps, Exits
<1>2. Bookkeeping
  BY DEF Bookkeeping, CacheIsResults, RunsAreCached, PassedIsOwn, CompletedIsJudged, Busy
<1>3. Custody /\ Traced
  BY DEF Custody, Traced, ChildIsOwn, HasChild, FlagIsMains, StrangersAreSafe, AliveIsKnown,
     AliveIsDoomed, Alive
<1> QED
  BY <1>1, <1>2, <1>3 DEF IInv

LEMMA NextIInv == IInv /\ [Next]_vars => IInv'
  BY TypeStep, ChildStep, ResultStep, AliveStep DEF IInv

\* The strengthening holds in every state of every behaviour.
THEOREM Inductive == Spec => []IInv
  BY InitIInv, NextIInv, PTL DEF Spec

\* Every variable keeps its type, for all rows and pids.
THEOREM TypeCorrect == Spec => []TypeOK
<1>1. IInv => TypeOK
  BY DEF IInv, Typed, Custody
<1> QED
  BY <1>1, Inductive, PTL

\* A completion ended by its deadline leaves no process of its commands' groups.
THEOREM NothingIsLeftRunning == Spec => []AbortLeavesNothingRunning
<1>1. IInv => AbortLeavesNothingRunning
  BY DEF IInv, Typed, Custody, Bookkeeping, Traced, AliveIsDoomed, Alive, AbortLeavesNothingRunning
<1> QED
  BY <1>1, Inductive, PTL

\* A completion without --force is one whose commands all exited with 0.
THEOREM CompletedIsVerified == Spec => []CompletedOnOwnExits
<1>1. IInv => CompletedOnOwnExits
  <2> SUFFICES ASSUME IInv, main = "completed", run = "complete",
                      NEW i \in 1 .. Len(rows), rows[i] \in Commands
               PROVE  rows[i] \in own
    BY DEF CompletedOnOwnExits
  <2>1. Len(results) = Len(rows) /\ results[i] # "failed"
    BY DEF IInv, Typed, Custody, Bookkeeping, Traced, CompletedIsJudged, AllPassed
  <2>2. results[i] = "passed"
    BY <2>1, VerifyAssumption DEF IInv, Typed, Custody, Bookkeeping, Traced, CacheIsResults
  <2> QED
    BY <2>1, <2>2 DEF IInv, Typed, Custody, Bookkeeping, Traced, PassedIsOwn
<1> QED
  BY <1>1, Inductive, PTL

\* A command line runs at most once and has one verdict in all of its rows.
THEOREM RunsOnce == Spec => []OneRunOneVerdict
<1>1. IInv => OneRunOneVerdict
  <2> SUFFICES ASSUME IInv, run # "verify" PROVE OneRunOneVerdict
    BY DEF OneRunOneVerdict
  <2>1. \A c \in Commands : ran[c] <= 1
    BY DEF IInv, Typed, Custody, Bookkeeping, Traced, RunsAreCached, Caching
  <2>2. \A i, j \in 1 .. Len(results) : rows[i] = rows[j] => results[i] = results[j]
    BY DEF IInv, Typed, Custody, Bookkeeping, Traced, CacheIsResults, Caching
  <2> QED
    BY <2>1, <2>2 DEF OneRunOneVerdict
<1> QED
  BY <1>1, Inductive, PTL

\* Only main, and only past the deadline, can kill a stranger.
THEOREM StrangersStaySafe == Spec => []StrangersAreSafe
<1>1. IInv => StrangersAreSafe
  BY DEF IInv, Typed, Custody
<1> QED
  BY <1>1, Inductive, PTL
=============================================================================
