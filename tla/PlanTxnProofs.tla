---------------------------- MODULE PlanTxnProofs ----------------------------
(***************************************************************************)
(* Proofs about PlanTxn for any set of processes, files and contents.      *)
(***************************************************************************)
EXTENDS PlanTxn, TLAPS

\* flock: one process at a time is inside the lock.
MutualExclusion ==
    \A v, w \in Writers : pc[v] # "idle" /\ pc[w] # "idle" => v = w

\* The journal, as long as it is there, is about the image before the last
\* transaction; removing the directory may already have taken copies away.
JournalOK ==
    /\ ~txn.dir => ~txn.manifest /\ ~txn.sealed
    /\ txn.dir => /\ txn.baseline = Existing(previous)
                  /\ \A f \in Files : txn.copies[f] \in {previous[f], Absent}

\* What the process at each step knows of the plan and of the journal.
KnowsOK(step) ==
    /\ step \in {"ready", "plain"} => ~txn.dir
    /\ step = "ready" => disk \in {settled, previous}
    /\ step = "plain" => disk = settled /\ disk = previous
    /\ step = "staging" =>
          /\ disk = settled /\ disk = previous
          /\ txn.dir /\ ~txn.manifest /\ ~txn.sealed
          /\ \A f \in Files \ todo : txn.copies[f] = previous[f]
    /\ step \in {"mutating", "rollingBack"} =>
          /\ settled = previous /\ txn.copies = previous
          /\ txn.dir /\ txn.manifest /\ ~txn.sealed
    /\ step = "recovering" => txn.dir /\ txn.manifest /\ ~txn.sealed
    /\ step \in {"recovering", "rollingBack"} =>
          \A f \in Files \ todo : disk[f] = previous[f]
    /\ step \in {"sweeping", "cleaning"} => txn.dir /\ disk \in {settled, previous}

Sound ==
    /\ JournalOK
    /\ \A w \in Writers : KnowsOK(pc[w])
    /\ MarkerKeepsAfterImage
    /\ WriteAhead

\* The inductive invariant.  An I/O error during a seal or a rollback voids
\* the rest for good.
IInv == TypeOK /\ MutualExclusion /\ (~faulted => Sound)

-----------------------------------------------------------------------------
LEMMA InitInv == Init => IInv
  <1> SUFFICES ASSUME Init PROVE IInv
    OBVIOUS
  <1>1. NoTxn \in Txns /\ ~NoTxn.dir /\ ~NoTxn.manifest /\ ~NoTxn.sealed
    BY DEF NoTxn, Nothing, Txns, Images
  <1>2. TypeOK
    BY <1>1 DEF Init, TypeOK, Steps
  <1>3. \A w \in Writers : pc[w] = "idle"
    BY DEF Init
  <1>4. MutualExclusion
    BY <1>3 DEF MutualExclusion
  <1>5. Sound
    BY <1>1, <1>3 DEF Init, Sound, JournalOK, KnowsOK, MarkerKeepsAfterImage, WriteAhead
  <1> QED
    BY <1>2, <1>4, <1>5 DEF IInv

\* Every step writes values of the right type.
LEMMA TypeInv == TypeOK /\ [Next]_vars => TypeOK'
  <1> SUFFICES ASSUME TypeOK, [Next]_vars PROVE TypeOK'
    OBVIOUS
  <1> USE DEF TypeOK, Goto, Images, Steps
  <1>1. CASE UNCHANGED vars
    BY <1>1 DEF vars
  <1>2. NoTxn \in Txns
    BY DEF NoTxn, Nothing, Txns
  <1>3. Inspect \in Steps
    BY DEF Inspect
  <1>4. ASSUME NEW w \in Writers, Acquire(w) \/ Crash(w) PROVE TypeOK'
    BY <1>3, <1>4 DEF Acquire, Crash
  <1>5. ASSUME NEW w \in Writers, Recover(w) PROVE TypeOK'
    <2>1. ASSUME NEW f \in Files, RestoreFile(w, f) PROVE TypeOK'
      BY <2>1 DEF RestoreFile, Txns
    <2>2. CASE RestoreDone(w) \/ RecoveryFails(w)
      BY <2>2 DEF RestoreDone, RecoveryFails
    <2>3. CASE RemoveEntry(w)
      <3>1. txn' \in Txns
        <4>1. ASSUME NEW f \in Files, txn' = [txn EXCEPT !.copies[f] = Absent]
              PROVE  txn' \in Txns
          BY <4>1 DEF Txns
        <4> QED
          BY <2>3, <4>1 DEF RemoveEntry, Txns, Existing
      <3> QED
        BY <2>3, <3>1 DEF RemoveEntry
    <2>4. CASE RemoveDir(w)
      BY <1>2, <2>4 DEF RemoveDir
    <2> QED
      BY <1>5, <2>1, <2>2, <2>3, <2>4 DEF Recover
  <1>6. ASSUME NEW w \in Writers, Run(w) PROVE TypeOK'
    BY <1>6 DEF Run, RunPlain, WritePlain, EndPlain
  <1>7. ASSUME NEW w \in Writers, RunRecoverable(w) PROVE TypeOK'
    <2>1. CASE Begin(w)
      BY <1>2, <2>1 DEF Begin, Txns, Existing
    <2>2. ASSUME NEW f \in Files, StageFile(w, f) PROVE TypeOK'
      BY <2>2 DEF StageFile, Txns
    <2>3. CASE WriteManifest(w)
      BY <2>3 DEF WriteManifest, Txns
    <2>4. ASSUME NEW f \in Files, NEW c \in Contents \cup {Absent}, MutateFile(w, f, c)
          PROVE  TypeOK'
      BY <2>4 DEF MutateFile
    <2>5. CASE Seal(w) \/ SealFails(w)
      BY <2>5 DEF Seal, SealFails, Txns
    <2>6. CASE Fail(w) \/ RollbackFails(w)
      BY <2>6 DEF Fail, RollbackFails
    <2> QED
      BY <1>7, <2>1, <2>2, <2>3, <2>4, <2>5, <2>6 DEF RunRecoverable
  <1> QED
    BY <1>1, <1>4, <1>5, <1>6, <1>7 DEF Next, Command

\* Whatever a step does, it is the step of one process; unless the process
\* takes the lock, it is the one that holds it.
LEMMA StepOfOne ==
    ASSUME TypeOK, MutualExclusion, NEW w \in Writers,
           Acquire(w) \/ Command(w) \/ Crash(w)
    PROVE  /\ \A v \in Writers \ {w} : pc[v] = "idle"
           /\ \E s \in Steps : pc' = [pc EXCEPT ![w] = s]
  <1> USE DEF TypeOK, MutualExclusion, Goto
  <1>1. CASE Acquire(w)
    BY <1>1 DEF Acquire, Inspect, Steps
  <1>2. CASE Crash(w)
    BY <1>2 DEF Crash, Steps
  <1>3. CASE Recover(w)
    BY <1>3 DEF Recover, RestoreFile, RestoreDone, RecoveryFails, RemoveEntry,
           RemoveDir, Steps
  <1>4. CASE Run(w)
    BY <1>4 DEF Run, RunPlain, WritePlain, EndPlain, Steps
  <1>5. CASE RunRecoverable(w)
    BY <1>5 DEF RunRecoverable, Begin, StageFile, WriteManifest, MutateFile, Seal,
           Fail, SealFails, RollbackFails, Steps
  <1> QED
    BY <1>1, <1>2, <1>3, <1>4, <1>5 DEF Command

LEMMA MutexInv == TypeOK /\ MutualExclusion /\ [Next]_vars => MutualExclusion'
  <1> SUFFICES ASSUME TypeOK, MutualExclusion, [Next]_vars PROVE MutualExclusion'
    OBVIOUS
  <1>1. CASE UNCHANGED vars
    BY <1>1 DEF vars, MutualExclusion
  <1>2. CASE Next
    <2>1. PICK w \in Writers : Acquire(w) \/ Command(w) \/ Crash(w)
      BY <1>2 DEF Next
    <2>2. \A v \in Writers \ {w} : pc'[v] = "idle"
      BY <2>1, StepOfOne DEF TypeOK
    <2> QED
      BY <2>2 DEF MutualExclusion
  <1> QED
    BY <1>1, <1>2

\* Soundness of the state a step of w leads to, from its parts.
LEMMA SoundFromParts ==
    ASSUME TypeOK, NEW w \in Writers, NEW s \in Steps,
           \A v \in Writers \ {w} : pc[v] = "idle", pc' = [pc EXCEPT ![w] = s],
           JournalOK', KnowsOK(s)', MarkerKeepsAfterImage', WriteAhead'
    PROVE  Sound'
  <1>1. \A v \in Writers \ {w} : pc'[v] = "idle"
    BY DEF TypeOK
  <1>2. pc'[w] = s
    BY DEF TypeOK
  <1>3. \A v \in Writers : KnowsOK(pc[v])'
    BY <1>1, <1>2 DEF KnowsOK
  <1> QED
    BY <1>3 DEF Sound

-----------------------------------------------------------------------------
(* Every step keeps a sound state sound, one lemma per action. *)

LEMMA AcquireSound ==
    ASSUME TypeOK, MutualExclusion, ~faulted, Sound, NEW w \in Writers, Acquire(w)
    PROVE  Sound'
  <1>1. \A v \in Writers : pc[v] = "idle"
    BY DEF Acquire
  <1>2. PICK s \in Steps : s = Inspect
    BY DEF Inspect, Steps
  <1>3. /\ pc' = [pc EXCEPT ![w] = s]
        /\ UNCHANGED <<disk, txn, settled, previous, faulted>>
        /\ s = "recovering" => todo' = Files
    BY <1>2 DEF Acquire, Goto
  <1>4. JournalOK' /\ MarkerKeepsAfterImage' /\ WriteAhead'
    BY <1>3 DEF Sound, JournalOK, MarkerKeepsAfterImage, WriteAhead, Existing
  <1>5. KnowsOK(s)'
    BY <1>2, <1>3 DEF Sound, JournalOK, KnowsOK, Inspect, MarkerKeepsAfterImage, WriteAhead
  <1> QED
    BY <1>1, <1>3, <1>4, <1>5, SoundFromParts

\* A crash leaves the files alone, and nobody is inside any more.
LEMMA CrashSound ==
    ASSUME TypeOK, MutualExclusion, ~faulted, Sound, NEW w \in Writers, Crash(w)
    PROVE  Sound'
  <1>1. \A v \in Writers \ {w} : pc[v] = "idle"
    BY StepOfOne
  <1>2. /\ pc' = [pc EXCEPT ![w] = "idle"] /\ "idle" \in Steps
        /\ UNCHANGED <<disk, txn, settled, previous, faulted>>
    BY DEF Crash, Goto, Steps
  <1>3. JournalOK' /\ MarkerKeepsAfterImage' /\ WriteAhead'
    BY <1>2 DEF Sound, JournalOK, MarkerKeepsAfterImage, WriteAhead, Existing
  <1>4. KnowsOK("idle")'
    BY DEF KnowsOK
  <1> QED
    BY <1>1, <1>2, <1>3, <1>4, SoundFromParts

\* Restoring a file brings it back to the image before the transaction.
LEMMA RestoreSound ==
    ASSUME TypeOK, MutualExclusion, ~faulted, Sound, NEW w \in Writers,
           (\E f \in Files : RestoreFile(w, f)) \/ RestoreDone(w) \/ RecoveryFails(w)
    PROVE  Sound'
  <1>1. \A v \in Writers \ {w} : pc[v] = "idle"
    BY StepOfOne DEF Command, Recover
  <1>2. KnowsOK(pc[w]) /\ JournalOK
    BY DEF Sound
  <1>3. ASSUME NEW f \in Files, RestoreFile(w, f) PROVE Sound'
    <2>1. pc[w] \in {"recovering", "rollingBack"} /\ pc[w] \in Steps
      BY <1>3 DEF RestoreFile, Steps
    <2>2. /\ txn.dir /\ txn.manifest /\ ~txn.sealed /\ txn.baseline = Existing(previous)
          /\ \A g \in Files \ todo : disk[g] = previous[g]
      BY <1>2, <2>1 DEF KnowsOK, JournalOK
    <2>3. /\ UNCHANGED <<txn, pc, settled, previous, faulted>>
          /\ todo' = todo \ {f}
          /\ \A g \in Files \ {f} : disk'[g] = disk[g]
          /\ disk'[f] = IF f \in txn.baseline THEN txn.copies[f] ELSE Absent
      BY <1>3 DEF RestoreFile, TypeOK, Images
    <2>4. disk'[f] = previous[f]
      BY <1>2, <1>3, <2>2, <2>3 DEF RestoreFile, JournalOK, Existing
    <2>5. \A g \in Files \ todo' : disk'[g] = previous'[g]
      BY <2>2, <2>3, <2>4
    <2>6. JournalOK' /\ MarkerKeepsAfterImage' /\ WriteAhead'
      BY <1>2, <2>2, <2>3 DEF JournalOK, MarkerKeepsAfterImage, WriteAhead, Existing
    <2>7. PICK s \in Steps : s = pc[w]
      BY <2>1
    <2>8. KnowsOK(s)'
      BY <1>2, <2>1, <2>2, <2>3, <2>5, <2>7 DEF KnowsOK
    <2>9. pc' = [pc EXCEPT ![w] = s]
      BY <2>3, <2>7 DEF TypeOK
    <2> QED
      BY <1>1, <2>6, <2>8, <2>9, SoundFromParts
  <1>4. CASE RestoreDone(w)
    <2>1. /\ pc[w] \in {"recovering", "rollingBack"} /\ todo = {}
          /\ UNCHANGED <<disk, txn, todo, settled, previous, faulted>>
      BY <1>4 DEF RestoreDone
    <2>2. txn.dir /\ disk = previous
      BY <1>2, <2>1 DEF KnowsOK, TypeOK, Images
    <2>3. JournalOK' /\ MarkerKeepsAfterImage' /\ WriteAhead'
      BY <1>2, <2>1, <2>2 DEF Sound, JournalOK, MarkerKeepsAfterImage, WriteAhead, Existing
    <2>4. PICK s \in {"sweeping", "cleaning"} : pc' = [pc EXCEPT ![w] = s]
      BY <1>4 DEF RestoreDone, Goto
    <2>5. KnowsOK(s)' /\ s \in Steps
      BY <2>1, <2>2, <2>4 DEF KnowsOK, Steps
    <2> QED
      BY <1>1, <2>3, <2>4, <2>5, SoundFromParts
  <1>5. CASE RecoveryFails(w)
    <2>1. /\ pc' = [pc EXCEPT ![w] = "idle"] /\ "idle" \in Steps
          /\ UNCHANGED <<disk, txn, settled, previous, faulted>>
      BY <1>5 DEF RecoveryFails, Goto, Steps
    <2>2. JournalOK' /\ MarkerKeepsAfterImage' /\ WriteAhead'
      BY <2>1 DEF Sound, JournalOK, MarkerKeepsAfterImage, WriteAhead, Existing
    <2>3. KnowsOK("idle")'
      BY DEF KnowsOK
    <2> QED
      BY <1>1, <2>1, <2>2, <2>3, SoundFromParts
  <1> QED
    BY <1>3, <1>4, <1>5

\* The directory is taken apart only under a whole image.
LEMMA RemoveSound ==
    ASSUME TypeOK, MutualExclusion, ~faulted, Sound, NEW w \in Writers,
           RemoveEntry(w) \/ RemoveDir(w)
    PROVE  Sound'
  <1>1. \A v \in Writers \ {w} : pc[v] = "idle"
    BY StepOfOne DEF Command, Recover
  <1>2. /\ pc[w] \in {"sweeping", "cleaning"}
        /\ UNCHANGED <<disk, settled, previous, faulted>>
    BY DEF RemoveEntry, RemoveDir
  <1>3. JournalOK /\ txn.dir /\ disk \in {settled, previous}
    BY <1>2 DEF Sound, KnowsOK
  <1>4. WriteAhead'
    BY <1>2, <1>3 DEF WriteAhead
  <1>5. CASE RemoveEntry(w)
    <2>1. /\ txn'.dir /\ txn'.baseline = txn.baseline
          /\ txn'.sealed => txn.sealed
          /\ \A f \in Files : txn'.copies[f] \in {txn.copies[f], Absent}
      BY <1>3, <1>5 DEF RemoveEntry, TypeOK, Txns, Images, Existing
    <2>2. JournalOK' /\ MarkerKeepsAfterImage'
      BY <1>2, <1>3, <2>1 DEF Sound, JournalOK, MarkerKeepsAfterImage, Existing
    <2>3. PICK s \in Steps : s = pc[w]
      BY <1>2 DEF Steps
    <2>4. KnowsOK(s)' /\ pc' = [pc EXCEPT ![w] = s]
      BY <1>2, <1>3, <1>5, <2>1, <2>3 DEF KnowsOK, RemoveEntry, TypeOK
    <2> QED
      BY <1>1, <1>4, <2>2, <2>4, SoundFromParts
  <1>6. CASE RemoveDir(w)
    <2>1. ~txn'.dir /\ ~txn'.manifest /\ ~txn'.sealed
      BY <1>6 DEF RemoveDir, NoTxn
    <2>2. JournalOK' /\ MarkerKeepsAfterImage'
      BY <2>1 DEF JournalOK, MarkerKeepsAfterImage
    <2>3. PICK s \in {"ready", "idle"} : pc' = [pc EXCEPT ![w] = s]
      BY <1>6 DEF RemoveDir, Goto
    <2>4. KnowsOK(s)' /\ s \in Steps
      BY <1>2, <1>3, <2>1, <2>3 DEF KnowsOK, Steps
    <2> QED
      BY <1>1, <1>4, <2>2, <2>3, <2>4, SoundFromParts
  <1> QED
    BY <1>5, <1>6

LEMMA RunSound ==
    ASSUME TypeOK, MutualExclusion, ~faulted, Sound, NEW w \in Writers, Run(w)
    PROVE  Sound'
  <1>1. \A v \in Writers \ {w} : pc[v] = "idle"
    BY StepOfOne DEF Command
  <1>2. /\ pc[w] \in {"ready", "plain"} /\ UNCHANGED <<txn, faulted>>
        /\ disk' = settled' /\ settled' = previous'
    BY DEF Run, RunPlain, WritePlain, EndPlain, Sound, KnowsOK
  <1>3. ~txn.dir /\ JournalOK
    BY <1>2 DEF Sound, KnowsOK
  <1>4. JournalOK' /\ MarkerKeepsAfterImage' /\ WriteAhead'
    BY <1>2, <1>3 DEF JournalOK, MarkerKeepsAfterImage, WriteAhead
  <1>5. PICK s \in {"plain", "idle"} : pc' = [pc EXCEPT ![w] = s]
    BY DEF Run, RunPlain, WritePlain, EndPlain, Goto, TypeOK
  <1>6. KnowsOK(s)' /\ s \in Steps
    BY <1>2, <1>3, <1>5 DEF KnowsOK, Steps
  <1> QED
    BY <1>1, <1>4, <1>5, <1>6, SoundFromParts

\* The before-image is complete when the manifest is written.
LEMMA StagingSound ==
    ASSUME TypeOK, MutualExclusion, ~faulted, Sound, NEW w \in Writers,
           Begin(w) \/ (\E f \in Files : StageFile(w, f)) \/ WriteManifest(w)
    PROVE  Sound'
  <1>1. \A v \in Writers \ {w} : pc[v] = "idle"
    BY StepOfOne DEF Command, RunRecoverable
  <1>2. CASE Begin(w)
    <2>1. /\ pc' = [pc EXCEPT ![w] = "staging"] /\ "staging" \in Steps
          /\ disk' = disk /\ settled' = disk /\ previous' = disk
          /\ todo' = Existing(disk)
      BY <1>2 DEF Begin, Goto, Steps
    <2>2. /\ txn'.dir /\ ~txn'.manifest /\ ~txn'.sealed
          /\ txn'.baseline = Existing(disk) /\ txn'.copies = Nothing
      BY <1>2 DEF Begin, NoTxn
    <2>3. JournalOK' /\ MarkerKeepsAfterImage' /\ WriteAhead'
      BY <2>1, <2>2 DEF JournalOK, MarkerKeepsAfterImage, WriteAhead, Nothing, Existing
    <2>4. KnowsOK("staging")'
      BY <2>1, <2>2 DEF KnowsOK, Nothing, Existing
    <2> QED
      BY <1>1, <2>1, <2>3, <2>4, SoundFromParts
  <1>3. ASSUME NEW f \in Files, StageFile(w, f) PROVE Sound'
    <2>1. /\ pc[w] = "staging" /\ "staging" \in Steps /\ pc' = [pc EXCEPT ![w] = "staging"]
          /\ UNCHANGED <<disk, settled, previous, faulted>> /\ todo' = todo \ {f}
      BY <1>3 DEF StageFile, Steps, TypeOK
    <2>2. KnowsOK("staging") /\ JournalOK
      BY <2>1 DEF Sound
    <2>3. /\ txn'.dir /\ ~txn'.manifest /\ ~txn'.sealed /\ txn'.baseline = txn.baseline
          /\ txn'.copies[f] = previous[f]
          /\ \A g \in Files \ {f} : txn'.copies[g] = txn.copies[g]
      BY <1>3, <2>2 DEF StageFile, KnowsOK, TypeOK, Txns, Images
    <2>4. JournalOK' /\ MarkerKeepsAfterImage' /\ WriteAhead'
      BY <2>1, <2>2, <2>3 DEF JournalOK, MarkerKeepsAfterImage, WriteAhead, KnowsOK, Existing
    <2>5. KnowsOK("staging")'
      BY <2>1, <2>2, <2>3 DEF KnowsOK
    <2> QED
      BY <1>1, <2>1, <2>4, <2>5, SoundFromParts
  <1>4. CASE WriteManifest(w)
    <2>1. /\ pc[w] = "staging" /\ pc' = [pc EXCEPT ![w] = "mutating"] /\ "mutating" \in Steps
          /\ UNCHANGED <<disk, settled, previous, faulted>> /\ todo = {}
      BY <1>4 DEF WriteManifest, Goto, Steps
    <2>2. KnowsOK("staging") /\ JournalOK
      BY <2>1 DEF Sound
    <2>3. txn.copies = previous
      BY <2>1, <2>2 DEF KnowsOK, TypeOK, Txns, Images
    <2>4. /\ txn'.dir /\ txn'.manifest /\ ~txn'.sealed
          /\ txn'.baseline = txn.baseline /\ txn'.copies = txn.copies
      BY <1>4, <2>2 DEF WriteManifest, KnowsOK, TypeOK, Txns
    <2>5. JournalOK' /\ MarkerKeepsAfterImage' /\ WriteAhead'
      BY <2>1, <2>2, <2>4 DEF JournalOK, MarkerKeepsAfterImage, WriteAhead, KnowsOK, Existing
    <2>6. KnowsOK("mutating")'
      BY <2>1, <2>2, <2>3, <2>4 DEF KnowsOK
    <2> QED
      BY <1>1, <2>1, <2>5, <2>6, SoundFromParts
  <1> QED
    BY <1>2, <1>3, <1>4

\* The operation changes files under the complete journal, and then either
\* seals the plan it has made or goes back over all of it.
LEMMA MutatingSound ==
    ASSUME TypeOK, MutualExclusion, ~faulted, Sound, NEW w \in Writers,
           \/ \E f \in Files, c \in Contents \cup {Absent} : MutateFile(w, f, c)
           \/ Seal(w) \/ Fail(w)
    PROVE  Sound'
  <1>1. \A v \in Writers \ {w} : pc[v] = "idle"
    BY StepOfOne DEF Command, RunRecoverable
  <1>2. pc[w] = "mutating"
    BY DEF MutateFile, Seal, Fail
  <1>3. KnowsOK("mutating") /\ JournalOK
    BY <1>2 DEF Sound
  <1>4. ASSUME NEW f \in Files, NEW c \in Contents \cup {Absent}, MutateFile(w, f, c)
        PROVE  Sound'
    <2>1. /\ pc' = [pc EXCEPT ![w] = "mutating"] /\ "mutating" \in Steps
          /\ UNCHANGED <<txn, settled, previous, faulted>>
      BY <1>4 DEF MutateFile, Steps, TypeOK
    <2>2. JournalOK' /\ MarkerKeepsAfterImage' /\ WriteAhead'
      BY <1>3, <2>1 DEF JournalOK, MarkerKeepsAfterImage, WriteAhead, KnowsOK, Existing
    <2>3. KnowsOK("mutating")'
      BY <1>3, <2>1 DEF KnowsOK
    <2> QED
      BY <1>1, <2>1, <2>2, <2>3, SoundFromParts
  <1>5. CASE Seal(w)
    <2>1. /\ pc' = [pc EXCEPT ![w] = "cleaning"] /\ "cleaning" \in Steps
          /\ disk' = disk /\ settled' = disk /\ previous' = settled
      BY <1>5 DEF Seal, Goto, Steps
    <2>2. /\ txn'.dir /\ txn'.baseline = txn.baseline /\ txn'.copies = txn.copies
      BY <1>3, <1>5 DEF Seal, KnowsOK, TypeOK, Txns
    <2>3. JournalOK' /\ MarkerKeepsAfterImage' /\ WriteAhead'
      BY <1>3, <2>1, <2>2 DEF JournalOK, MarkerKeepsAfterImage, WriteAhead, KnowsOK, Existing
    <2>4. KnowsOK("cleaning")'
      BY <2>1, <2>2 DEF KnowsOK
    <2> QED
      BY <1>1, <2>1, <2>3, <2>4, SoundFromParts
  <1>6. CASE Fail(w)
    <2>1. /\ pc' = [pc EXCEPT ![w] = "rollingBack"] /\ "rollingBack" \in Steps
          /\ UNCHANGED <<disk, txn, settled, previous, faulted>> /\ todo' = Files
      BY <1>6 DEF Fail, Goto, Steps
    <2>2. JournalOK' /\ MarkerKeepsAfterImage' /\ WriteAhead'
      BY <2>1 DEF Sound, JournalOK, MarkerKeepsAfterImage, WriteAhead, Existing
    <2>3. KnowsOK("rollingBack")'
      BY <1>3, <2>1 DEF KnowsOK
    <2> QED
      BY <1>1, <2>1, <2>2, <2>3, SoundFromParts
  <1> QED
    BY <1>4, <1>5, <1>6

THEOREM NextKeepsInv == IInv /\ [Next]_vars => IInv'
  <1> SUFFICES ASSUME IInv, [Next]_vars PROVE IInv'
    OBVIOUS
  <1>1. TypeOK' /\ MutualExclusion'
    BY TypeInv, MutexInv DEF IInv
  <1>2. faulted => faulted'
    BY DEF vars, Next, Acquire, Crash, Command, Recover, Run, RunRecoverable,
           RestoreFile, RestoreDone, RecoveryFails, RemoveEntry, RemoveDir, RunPlain,
           WritePlain, EndPlain, Begin, StageFile, WriteManifest, MutateFile, Seal,
           Fail, SealFails, RollbackFails
  <1>3. ASSUME ~faulted' PROVE Sound'
    <2>1. TypeOK /\ MutualExclusion /\ ~faulted /\ Sound
      BY <1>2, <1>3 DEF IInv
    <2>2. CASE UNCHANGED vars
      BY <2>1, <2>2 DEF vars, Sound, JournalOK, KnowsOK, MarkerKeepsAfterImage,
             WriteAhead, Existing
    <2>3. ASSUME NEW w \in Writers, Recover(w) PROVE Sound'
      BY <2>1, <2>3, RestoreSound, RemoveSound DEF Recover
    <2>4. ASSUME NEW w \in Writers, RunRecoverable(w) PROVE Sound'
      <3>1. ~SealFails(w) /\ ~RollbackFails(w)
        BY <1>3 DEF SealFails, RollbackFails
      <3> QED
        BY <2>1, <2>4, <3>1, StagingSound, MutatingSound DEF RunRecoverable
    <2> QED
      BY <2>1, <2>2, <2>3, <2>4, AcquireSound, CrashSound, RunSound DEF Next, Command
  <1> QED
    BY <1>1, <1>3 DEF IInv

THEOREM Invariance == Spec => []IInv
  BY InitInv, NextKeepsInv, PTL DEF Spec

\* The state is always of its type, and the lock excludes.
THEOREM TypeCorrect == Spec => [](TypeOK /\ MutualExclusion)
  BY Invariance, PTL DEF IInv

\* Whatever crashed before it, a command starts on a whole plan.
THEOREM StartsOnWholePlanHolds == Spec => []StartsOnWholePlan
  <1>1. IInv => StartsOnWholePlan
    BY DEF IInv, Sound, KnowsOK, StartsOnWholePlan
  <1> QED
    BY <1>1, Invariance, PTL

\* While the COMMITTED marker is on disk nothing is restored over the plan.
THEOREM MarkerKeepsAfterImageHolds == Spec => []MarkerKeepsAfterImage
  <1>1. IInv => MarkerKeepsAfterImage
    BY DEF IInv, Sound, MarkerKeepsAfterImage
  <1> QED
    BY <1>1, Invariance, PTL

\* The plan leaves a whole image only behind a complete journal.
THEOREM WriteAheadHolds == Spec => []WriteAhead
  <1>1. IInv => WriteAhead
    BY DEF IInv, Sound, WriteAhead
  <1> QED
    BY <1>1, Invariance, PTL

\* A restore that runs to its end gives back a whole image.
THEOREM RestoreIsCompleteHolds == Spec => RestoreIsComplete
  <1> DEFINE Complete ==
        \A w \in Writers :
          /\ pc[w] = "rollingBack" /\ pc'[w] = "cleaning" /\ ~faulted' => disk' = settled
          /\ pc[w] = "recovering" /\ pc'[w] = "sweeping" /\ ~faulted'
               => disk' \in {settled, previous}
  <1>1. ASSUME IInv, [Next]_vars, NEW w \in Writers, ~faulted',
               \/ pc[w] = "rollingBack" /\ pc'[w] = "cleaning"
               \/ pc[w] = "recovering" /\ pc'[w] = "sweeping"
        PROVE  /\ disk' = previous
               /\ pc[w] = "rollingBack" => disk' = settled
    <2>1. PICK v \in Writers : Acquire(v) \/ Command(v) \/ Crash(v)
      BY <1>1 DEF Next, vars
    <2>2. v = w
      BY <1>1, <2>1, StepOfOne DEF IInv, TypeOK
    <2>3. RestoreDone(w)
      BY <1>1, <2>1, <2>2
      DEF IInv, TypeOK, Acquire, Crash, Goto, Command, Recover, Run, RunRecoverable,
          RestoreFile, RestoreDone, RecoveryFails, RemoveEntry, RemoveDir, RunPlain,
          WritePlain, EndPlain, Begin, StageFile, WriteManifest, MutateFile, Seal,
          Fail, SealFails, RollbackFails
    <2>4. TypeOK /\ KnowsOK(pc[w])
      BY <1>1, <2>3 DEF RestoreDone, IInv, Sound
    <2> QED
      BY <1>1, <2>3, <2>4 DEF RestoreDone, KnowsOK, TypeOK, Images
  <1>2. IInv /\ [Next]_vars => [Complete]_vars
    BY <1>1
  <1> QED
    BY <1>2, Invariance, PTL DEF Spec, RestoreIsComplete

-----------------------------------------------------------------------------
(***************************************************************************)
(* The refinement of AtomicPlan: every step of a process is one of its     *)
(* steps or leaves all that a command can see of the plan as it is.        *)
(***************************************************************************)
AtMap == [w \in Writers |-> PhaseOf(pc[w])]

LEMMA PhaseFacts ==
    /\ PhaseOf("idle") = "out" /\ PhaseOf("plain") = "plain"
    /\ PhaseOf("recovering") = "entering" /\ PhaseOf("sweeping") = "entering"
    /\ PhaseOf("ready") = "entering"
    /\ PhaseOf("staging") = "whole" /\ PhaseOf("mutating") = "whole"
    /\ PhaseOf("rollingBack") = "closing" /\ PhaseOf("cleaning") = "closing"
  BY DEF PhaseOf

LEMMA MappedMove ==
    ASSUME TypeOK, NEW w \in Writers, NEW s \in Steps, pc' = [pc EXCEPT ![w] = s]
    PROVE  /\ AtMap[w] = PhaseOf(pc[w])
           /\ AtMap' = [AtMap EXCEPT ![w] = PhaseOf(s)]
           /\ PhaseOf(s) = PhaseOf(pc[w]) => AtMap' = AtMap
  <1>1. \A v \in Writers : pc'[v] = IF v = w THEN s ELSE pc[v]
    BY DEF TypeOK
  <1>2. AtMap[w] = PhaseOf(pc[w])
    BY DEF AtMap
  <1>3. AtMap' = [v \in Writers |-> PhaseOf(pc'[v])]
    BY DEF AtMap
  <1>4. AtMap' = [AtMap EXCEPT ![w] = PhaseOf(s)]
    <2>1. \A v \in Writers : PhaseOf(pc'[v]) = IF v = w THEN PhaseOf(s) ELSE PhaseOf(pc[v])
      BY <1>1
    <2> QED
      BY <1>3, <2>1 DEF AtMap
  <1>5. PhaseOf(s) = PhaseOf(pc[w]) => AtMap' = AtMap
    BY <1>1, <1>3 DEF AtMap
  <1> QED
    BY <1>2, <1>4, <1>5

LEMMA MappedType == TypeOK => Atomic!TypeOK
  <1> SUFFICES ASSUME TypeOK PROVE Atomic!TypeOK
    OBVIOUS
  <1>1. AtMap \in [Writers -> Atomic!Phases]
    BY DEF AtMap, PhaseOf, TypeOK, Steps, Atomic!Phases
  <1>2. Plan \in Images /\ Undoable \in Images
    BY DEF Plan, Undoable, TypeOK
  <1> QED
    BY <1>1, <1>2 DEF TypeOK, Images, AtMap, Atomic!TypeOK, Atomic!Images

LEMMA MappedTypeNext == TypeOK' => Atomic!TypeOK'
  BY MappedType, PTL

\* What a command sees stays as it is.
Hidden == UNCHANGED <<disk, Plan, Undoable, AtMap>>

\* A command enters; one that finds a broken journal never was inside.
LEMMA AcquireAtomic ==
    ASSUME TypeOK, NEW w \in Writers, Acquire(w)
    PROVE  Hidden \/ Atomic!Enter(w)
  <1>1. /\ Inspect \in {"ready", "sweeping", "recovering", "idle"} /\ Inspect \in Steps
        /\ \A v \in Writers : pc[v] = "idle"
        /\ pc' = [pc EXCEPT ![w] = Inspect]
        /\ UNCHANGED <<disk, txn, settled, previous>>
    BY DEF Acquire, Goto, Inspect, Steps
  <1>2. UNCHANGED <<Plan, Undoable>>
    BY <1>1 DEF Plan, Undoable
  <1>3. \A v \in Writers : AtMap[v] = "out"
    BY <1>1, PhaseFacts DEF AtMap
  <1>4. CASE Inspect = "idle"
    BY <1>1, <1>2, <1>4, MappedMove DEF Hidden
  <1>5. CASE Inspect # "idle"
    <2>1. PhaseOf(Inspect) = "entering"
      BY <1>1, <1>5, PhaseFacts
    <2>2. AtMap' = [AtMap EXCEPT ![w] = PhaseOf(Inspect)]
      BY <1>1, MappedMove
    <2> QED
      BY <1>1, <1>2, <1>3, <2>1, <2>2 DEF Atomic!Enter, Atomic!Go, AtMap
  <1> QED
    BY <1>4, <1>5

\* A process that dies, or gives up in recovery or after a plain command, leaves
\* the plan as it is.
LEMMA StopAtomic ==
    ASSUME TypeOK, NEW w \in Writers, Crash(w) \/ RecoveryFails(w) \/ EndPlain(w)
    PROVE  Atomic!Stop(w)
  <1>1. /\ pc[w] # "idle" /\ pc[w] \in Steps /\ pc' = [pc EXCEPT ![w] = "idle"]
        /\ "idle" \in Steps /\ UNCHANGED <<disk, txn, settled, previous>>
    BY DEF Crash, RecoveryFails, EndPlain, Goto, Steps, TypeOK
  <1>2. UNCHANGED <<Plan, Undoable>>
    BY <1>1 DEF Plan, Undoable
  <1>3. AtMap[w] = PhaseOf(pc[w]) /\ AtMap' = [AtMap EXCEPT ![w] = PhaseOf("idle")]
    BY <1>1, MappedMove
  <1>4. AtMap[w] # "out" /\ AtMap' = [AtMap EXCEPT ![w] = "out"]
    BY <1>1, <1>3, PhaseFacts DEF Steps
  <1> QED
    BY <1>1, <1>2, <1>4 DEF Atomic!Stop, Atomic!Go, AtMap

\* A file restored is either none of the plan's business, or the last one of a
\* command that is undone.
LEMMA RestoreAtomic ==
    ASSUME TypeOK, ~faulted, Sound, NEW w \in Writers, NEW f \in Files, RestoreFile(w, f)
    PROVE  Atomic!Repair(w) \/ Atomic!Undo(w)
  <1>1. /\ pc[w] \in {"recovering", "rollingBack"} /\ UNCHANGED <<txn, pc, settled, previous>>
        /\ KnowsOK(pc[w]) /\ JournalOK
    BY DEF RestoreFile, Sound
  <1>2. /\ AtMap[w] \in {"entering", "closing"} /\ AtMap' = AtMap
        /\ pc[w] = "recovering" => AtMap[w] = "entering"
    BY <1>1, PhaseFacts DEF AtMap
  <1>3. /\ disk' = [disk EXCEPT ![f] = previous[f]]
        /\ txn.dir
    BY <1>1 DEF RestoreFile, KnowsOK, JournalOK, Existing, TypeOK, Images
  <1>4. disk' \in Images /\ Undoable = previous /\ Undoable' = previous
    BY <1>1, <1>3 DEF Undoable, TypeOK, Images
  <1>5. disk = previous => disk' = previous
    BY <1>3 DEF TypeOK, Images
  <1>6. CASE Plan' = Plan
    BY <1>2, <1>4, <1>6 DEF Atomic!Repair, Atomic!Images, Images, AtMap
  <1>7. CASE Plan' # Plan
    <2>1. /\ settled # previous /\ disk' = previous /\ Plan' = previous
      BY <1>1, <1>5, <1>7 DEF Plan
    <2>2. pc[w] = "recovering"
      BY <1>1, <2>1 DEF KnowsOK
    <2> QED
      BY <1>2, <1>4, <2>1, <2>2 DEF Atomic!Undo, AtMap
  <1> QED
    BY <1>6, <1>7

\* The end of a restore and the removal of an entry show nothing.
LEMMA TidyHidden ==
    ASSUME TypeOK, ~faulted, Sound, NEW w \in Writers, RestoreDone(w) \/ RemoveEntry(w)
    PROVE  Hidden
  <1>1. UNCHANGED <<disk, settled, previous>>
    BY DEF RestoreDone, RemoveEntry
  <1>2. txn'.dir = txn.dir
    <2>1. CASE RestoreDone(w)
      BY <2>1 DEF RestoreDone
    <2>2. CASE RemoveEntry(w)
      BY <2>2 DEF RemoveEntry, TypeOK, Txns
    <2> QED
      BY <2>1, <2>2
  <1>3. AtMap' = AtMap
    <2>1. CASE RestoreDone(w)
      <3>1. PICK s \in {"sweeping", "cleaning"} :
                pc' = [pc EXCEPT ![w] = s] /\ PhaseOf(s) = PhaseOf(pc[w])
        BY <2>1, PhaseFacts DEF RestoreDone, Goto
      <3> QED
        BY <3>1, MappedMove DEF Steps
    <2>2. CASE RemoveEntry(w)
      BY <2>2 DEF RemoveEntry, AtMap
    <2> QED
      BY <2>1, <2>2
  <1> QED
    BY <1>1, <1>2, <1>3 DEF Hidden, Plan, Undoable

\* With the directory gone the last command is final: the next one may start, or
\* the one that closes returns.
LEMMA RemoveDirAtomic ==
    ASSUME TypeOK, ~faulted, Sound, NEW w \in Writers, RemoveDir(w)
    PROVE  Atomic!Settle(w) \/ Atomic!Return(w)
  <1>1. /\ pc[w] \in {"sweeping", "cleaning"} /\ ~txn'.dir
        /\ UNCHANGED <<disk, settled, previous>>
    BY DEF RemoveDir, NoTxn
  <1>2. disk \in {settled, previous}
    BY <1>1 DEF Sound, KnowsOK
  <1>3. Plan = disk /\ Plan' = Plan /\ Undoable' = Plan
    BY <1>1, <1>2 DEF Plan, Undoable
  <1>4. CASE pc[w] = "sweeping"
    <2>1. pc' = [pc EXCEPT ![w] = "ready"]
      BY <1>4 DEF RemoveDir, Goto
    <2>2. "ready" \in Steps /\ PhaseOf("ready") = PhaseOf(pc[w])
      BY <1>4, PhaseFacts DEF Steps
    <2>3. AtMap[w] = PhaseOf("sweeping") /\ AtMap' = AtMap
      BY <1>4, <2>1, <2>2, MappedMove
    <2>4. AtMap[w] = "entering"
      BY <2>3, PhaseFacts
    <2> QED
      BY <1>1, <1>3, <2>3, <2>4 DEF Atomic!Settle, AtMap
  <1>5. CASE pc[w] = "cleaning"
    <2>1. pc' = [pc EXCEPT ![w] = "idle"]
      BY <1>5 DEF RemoveDir, Goto
    <2>2. AtMap[w] = PhaseOf("cleaning") /\ AtMap' = [AtMap EXCEPT ![w] = PhaseOf("idle")]
      BY <1>5, <2>1, MappedMove DEF Steps
    <2>3. AtMap[w] = "closing" /\ AtMap' = [AtMap EXCEPT ![w] = "out"]
      BY <2>2, PhaseFacts
    <2> QED
      BY <1>1, <1>3, <2>3 DEF Atomic!Return, Atomic!Go, AtMap
  <1> QED
    BY <1>1, <1>4, <1>5

\* A command of either kind starts on the plan.
LEMMA StartAtomic ==
    ASSUME TypeOK, ~faulted, Sound, NEW w \in Writers, RunPlain(w) \/ Begin(w)
    PROVE  Atomic!Start(w)
  <1>1. /\ pc[w] = "ready" /\ UNCHANGED disk /\ settled' = disk /\ previous' = disk
        /\ KnowsOK("ready")
    BY DEF RunPlain, Begin, Sound
  <1>2. Plan = disk /\ Undoable = disk /\ Plan' = disk /\ Undoable' = disk
    BY <1>1 DEF KnowsOK, Plan, Undoable
  <1>3. PICK s \in {"plain", "staging"} : pc' = [pc EXCEPT ![w] = s]
    BY DEF RunPlain, Begin, Goto
  <1>4. AtMap[w] = PhaseOf("ready") /\ AtMap' = [AtMap EXCEPT ![w] = PhaseOf(s)]
    BY <1>1, <1>3, MappedMove DEF Steps
  <1>5. /\ AtMap[w] = "entering"
        /\ \/ AtMap' = [AtMap EXCEPT ![w] = "plain"]
           \/ AtMap' = [AtMap EXCEPT ![w] = "whole"]
    BY <1>3, <1>4, PhaseFacts
  <1> QED
    BY <1>1, <1>2, <1>5 DEF Atomic!Start, Atomic!Go, AtMap

LEMMA WriteAtomic ==
    ASSUME TypeOK, ~faulted, Sound, NEW w \in Writers, NEW f \in Files,
           NEW c \in Contents \cup {Absent}, WritePlain(w, f, c)
    PROVE  Atomic!Write(w, f, c)
  <1>1. /\ pc[w] = "plain" /\ UNCHANGED <<txn, pc>>
        /\ disk' = [disk EXCEPT ![f] = c] /\ settled' = disk' /\ previous' = disk'
        /\ KnowsOK("plain")
    BY DEF WritePlain, Sound
  <1>2. Plan = disk /\ Plan' = disk' /\ Undoable' = disk'
    BY <1>1 DEF KnowsOK, Plan, Undoable
  <1>3. AtMap[w] = "plain" /\ AtMap' = AtMap
    BY <1>1, PhaseFacts DEF AtMap
  <1> QED
    BY <1>1, <1>2, <1>3 DEF Atomic!Write, AtMap

\* Staging shows nothing, a file that the operation writes is not the plan yet,
\* and the seal makes the whole of it the plan.
LEMMA WholeAtomic ==
    ASSUME TypeOK, ~faulted, Sound, NEW w \in Writers
    PROVE  /\ \A f \in Files : StageFile(w, f) => Hidden
           /\ WriteManifest(w) => Hidden
           /\ \A f \in Files, c \in Contents \cup {Absent} :
                  MutateFile(w, f, c) => Atomic!Change(w, f, c)
           /\ Seal(w) => Atomic!Commit(w)
           /\ Fail(w) => Atomic!Abort(w)
  <1>1. ASSUME NEW f \in Files, StageFile(w, f)
        PROVE  Hidden
    <2>1. UNCHANGED <<disk, pc, settled, previous>> /\ txn'.dir = txn.dir
      BY <1>1 DEF StageFile, TypeOK, Txns
    <2> QED
      BY <2>1 DEF Hidden, Plan, Undoable, AtMap
  <1>2. ASSUME WriteManifest(w)
        PROVE  Hidden
    <2>1. UNCHANGED <<disk, settled, previous>> /\ txn'.dir = txn.dir
      BY <1>2 DEF WriteManifest, TypeOK, Txns
    <2>2. pc[w] = "staging" /\ pc' = [pc EXCEPT ![w] = "mutating"]
      BY <1>2 DEF WriteManifest, Goto
    <2>3. AtMap' = AtMap
      BY <2>2, MappedMove, PhaseFacts DEF Steps
    <2> QED
      BY <2>1, <2>3 DEF Hidden, Plan, Undoable
  <1>3. ASSUME pc[w] = "mutating"
        PROVE  /\ settled = previous /\ txn.dir /\ Plan = settled /\ Undoable = settled
               /\ AtMap[w] = "whole"
    BY <1>3, PhaseFacts DEF Sound, KnowsOK, Plan, Undoable, AtMap
  <1>4. ASSUME NEW f \in Files, NEW c \in Contents \cup {Absent}, MutateFile(w, f, c)
        PROVE  Atomic!Change(w, f, c)
    <2>1. /\ pc[w] = "mutating" /\ UNCHANGED <<txn, pc, settled, previous>>
          /\ disk' = [disk EXCEPT ![f] = c]
      BY <1>4 DEF MutateFile
    <2>2. Plan' = Plan /\ Undoable' = Undoable /\ AtMap' = AtMap
      BY <1>3, <2>1 DEF Plan, Undoable, AtMap
    <2> QED
      BY <1>3, <2>1, <2>2 DEF Atomic!Change, AtMap
  <1>5. ASSUME Seal(w)
        PROVE  Atomic!Commit(w)
    <2>1. /\ pc[w] = "mutating" /\ UNCHANGED disk /\ previous' = settled /\ settled' = disk
          /\ pc' = [pc EXCEPT ![w] = "cleaning"] /\ txn'.dir = txn.dir
      BY <1>5 DEF Seal, Goto, TypeOK, Txns
    <2>2. Plan' = disk /\ Undoable' = Plan
      BY <1>3, <2>1 DEF Plan, Undoable
    <2>3. AtMap' = [AtMap EXCEPT ![w] = "closing"]
      BY <2>1, MappedMove, PhaseFacts DEF Steps
    <2> QED
      BY <1>3, <2>1, <2>2, <2>3 DEF Atomic!Commit, Atomic!Go, AtMap
  <1>6. ASSUME Fail(w)
        PROVE  Atomic!Abort(w)
    <2>1. /\ pc[w] = "mutating" /\ UNCHANGED <<disk, txn, settled, previous>>
          /\ pc' = [pc EXCEPT ![w] = "rollingBack"]
      BY <1>6 DEF Fail, Goto
    <2>2. AtMap' = [AtMap EXCEPT ![w] = "closing"]
      BY <2>1, MappedMove, PhaseFacts DEF Steps
    <2> QED
      BY <1>3, <2>1, <2>2 DEF Atomic!Abort, Atomic!Go, AtMap, Plan, Undoable
  <1> QED
    BY <1>1, <1>2, <1>4, <1>5, <1>6

LEMMA StepIsAtomic ==
    ASSUME TypeOK, ~faulted, Sound, NEW w \in Writers, ~faulted',
           Acquire(w) \/ Command(w) \/ Crash(w)
    PROVE  Hidden \/ Atomic!Step(w)
  <1> USE DEF Atomic!Step
  <1>1. CASE Recover(w)
    BY <1>1, StopAtomic, RestoreAtomic, TidyHidden, RemoveDirAtomic DEF Recover
  <1>2. CASE Run(w)
    BY <1>2, StopAtomic, StartAtomic, WriteAtomic DEF Run
  <1>3. CASE RunRecoverable(w)
    <2>1. ~SealFails(w) /\ ~RollbackFails(w)
      BY DEF SealFails, RollbackFails
    <2> QED
      BY <1>3, <2>1, StartAtomic, WholeAtomic DEF RunRecoverable
  <1> QED
    BY <1>1, <1>2, <1>3, AcquireAtomic, StopAtomic DEF Command

LEMMA NextIsAtomic ==
    ASSUME IInv, IInv', [Next]_vars
    PROVE  [Atomic!Next]_(Atomic!vars)
  <1>1. CASE faulted'
    BY <1>1, MappedTypeNext DEF Atomic!Next, Atomic!Break, IInv
  <1>2. CASE ~faulted'
    <2>1. ~faulted /\ TypeOK /\ Sound /\ faulted' = faulted
      <3>1. faulted => faulted'
        BY DEF vars, Next, Acquire, Crash, Command, Recover, Run, RunRecoverable,
               RestoreFile, RestoreDone, RecoveryFails, RemoveEntry, RemoveDir, RunPlain,
               WritePlain, EndPlain, Begin, StageFile, WriteManifest, MutateFile, Seal,
               Fail, SealFails, RollbackFails
      <3> QED
        BY <1>2, <3>1 DEF IInv, TypeOK
    <2>2. CASE UNCHANGED vars
      BY <2>2 DEF vars, Atomic!vars, Plan, Undoable
    <2>3. ASSUME NEW w \in Writers, Acquire(w) \/ Command(w) \/ Crash(w)
          PROVE  [Atomic!Next]_(Atomic!vars)
      <3>1. CASE Hidden
        BY <1>2, <2>1, <3>1 DEF Hidden, AtMap, Atomic!vars
      <3>2. CASE Atomic!Step(w)
        BY <1>2, <2>1, <3>2 DEF Atomic!Next
      <3> QED
        BY <1>2, <2>1, <2>3, <3>1, <3>2, StepIsAtomic
    <2> QED
      BY <2>2, <2>3 DEF Next
  <1> QED
    BY <1>1, <1>2

\* For every number of processes and files, whatever dies and whenever: commands
\* are atomic towards each other, until an I/O error meets a seal or a rollback.
THEOREM CommandsAreAtomicHolds == Spec => CommandsAreAtomic
  <1>1. Init => Atomic!Init
    BY DEF Init, NoTxn, Images, Plan, Undoable, PhaseOf, Atomic!Init, Atomic!Images
  <1>2. IInv /\ IInv' /\ [Next]_vars => [Atomic!Next]_(Atomic!vars)
    BY NextIsAtomic
  <1> QED
    BY <1>1, <1>2, Invariance, PTL DEF Spec, CommandsAreAtomic, Atomic!Spec

=============================================================================
