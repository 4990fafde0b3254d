--------------------------- MODULE PlanIndexProofs ---------------------------
(***************************************************************************)
(* Proofs about PlanIndex, for any number of ids, names and contents: the  *)
(* archive and its record agree, nothing in the archive is replaced, and   *)
(* the validator sees an index that is behind.                             *)
(***************************************************************************)
EXTENDS PlanIndex, TLAPS

IInv == TypeOK /\ ArchiveIsRecorded

\* The names of a directory that has files.
LEMMA PresentNames ==
    ASSUME NEW dir \in [Names -> Contents \cup {Absent}]
    PROVE  /\ Entries(dir) \subseteq Ids \X Contents
           /\ \A n \in Present(dir) : n \in Names /\ n[1] \in Ids /\ dir[n] \in Contents
  BY DEF Present, Entries, Names

LEMMA InitIInv == Init => IInv
  BY IndexAssumption
  DEF Init, IInv, TypeOK, ArchiveIsRecorded, Present, Ids, Names

\* A step that leaves the archive alone keeps the invariant when it keeps the
\* types.
LEMMA ArchiveUntouched ==
    ASSUME IInv, UNCHANGED <<archive, meta>>, TypeOK'
    PROVE  IInv'
  BY DEF IInv, ArchiveIsRecorded, Present

\* Archiving: the file goes to a place nothing is in.
LEMMA ToArchiveOK ==
    ASSUME IInv, NEW id \in Ids, ToArchive(id)
    PROVE  /\ live' \in [Names -> Contents \cup {Absent}]
           /\ archive' \in [Names -> Contents \cup {Absent}]
           /\ meta' \subseteq Ids
           /\ ArchiveIsRecorded'
           /\ \A n \in Names : archive[n] # Absent => archive'[n] = archive[n]
  <1>1. CASE UNCHANGED <<live, archive, meta>>
    BY <1>1 DEF IInv, TypeOK, ArchiveIsRecorded, Present
  <1>2. CASE /\ ~AlreadyArchived(id)
             /\ \E n \in Found(live, id) :
                   /\ live' = [live EXCEPT ![n] = Absent]
                   /\ archive' = [archive EXCEPT ![n] = live[n]]
                   /\ meta' = meta \cup {id}
    <2>1. PICK n \in Found(live, id) :
                   /\ live' = [live EXCEPT ![n] = Absent]
                   /\ archive' = [archive EXCEPT ![n] = live[n]]
                   /\ meta' = meta \cup {id}
      BY <1>2
    <2>2. n \in Names /\ n[1] = id /\ live[n] \in Contents
      BY PresentNames DEF IInv, TypeOK, Found, Present
    <2>3. \A o \in Present(archive) : o[1] # id
      BY <1>2 DEF IInv, ArchiveIsRecorded, AlreadyArchived, Found
    <2>4. Present(archive)' = Present(archive) \cup {n}
      BY <2>1, <2>2, IndexAssumption DEF IInv, TypeOK, Present
    <2>5. ArchiveIsRecorded'
      BY <2>1, <2>2, <2>3, <2>4 DEF IInv, ArchiveIsRecorded
    <2>6. \A o \in Names : archive[o] # Absent => archive'[o] = archive[o]
      BY <2>1, <2>2, <2>3 DEF IInv, TypeOK, Present
    <2> QED BY <2>1, <2>2, <2>5, <2>6 DEF IInv, TypeOK
  <1> QED BY <1>1, <1>2 DEF ToArchive

\* Restoring: the only archived file of the id goes, and so does its entry.
LEMMA FromArchiveOK ==
    ASSUME IInv, NEW id \in Ids, FromArchive(id)
    PROVE  /\ live' \in [Names -> Contents \cup {Absent}]
           /\ archive' \in [Names -> Contents \cup {Absent}]
           /\ meta' \subseteq Ids
           /\ ArchiveIsRecorded'
           /\ \A n \in Names : archive'[n] \in {archive[n], Absent}
  <1>1. PICK n \in Found(archive, id) :
            /\ archive' = [archive EXCEPT ![n] = Absent]
            /\ live' = [live EXCEPT ![n] = archive[n]]
            /\ meta' = meta \ {id}
    BY DEF FromArchive
  <1>2. n \in Present(archive) /\ n \in Names /\ n[1] = id /\ archive[n] \in Contents
    BY PresentNames DEF IInv, TypeOK, Found, Present
  <1>3. Present(archive)' = Present(archive) \ {n}
    BY <1>1, <1>2 DEF IInv, TypeOK, Present
  <1>4. \A o \in Present(archive) : o[1] = id => o = n
    BY <1>2 DEF IInv, ArchiveIsRecorded
  <1>5. ArchiveIsRecorded'
    BY <1>1, <1>2, <1>3, <1>4 DEF IInv, ArchiveIsRecorded
  <1> QED BY <1>1, <1>2, <1>5 DEF IInv, TypeOK

\* Purging: the same without the move.
LEMMA PurgeOK ==
    ASSUME IInv, NEW id \in Ids, Purge(id)
    PROVE  /\ IInv'
           /\ \A n \in Names : archive'[n] \in {archive[n], Absent}
  <1>1. PICK n \in Found(archive, id) : archive' = [archive EXCEPT ![n] = Absent]
    BY DEF Purge
  <1>2. meta' = meta \ {id} /\ UNCHANGED <<live, index, midway>>
    BY DEF Purge
  <1>3. n \in Present(archive) /\ n \in Names /\ n[1] = id /\ archive[n] \in Contents
    BY PresentNames DEF IInv, TypeOK, Found, Present
  <1>4. Present(archive)' = Present(archive) \ {n}
    BY <1>1, <1>3 DEF IInv, TypeOK, Present
  <1>5. \A o \in Present(archive) : o[1] = id => o = n
    BY <1>3 DEF IInv, ArchiveIsRecorded
  <1>6. ArchiveIsRecorded'
    BY <1>2, <1>3, <1>4, <1>5 DEF IInv, ArchiveIsRecorded
  <1>7. TypeOK'
    BY <1>1, <1>2, <1>3 DEF IInv, TypeOK
  <1> QED BY <1>1, <1>3, <1>6, <1>7 DEF IInv, TypeOK

\* One step per action; those of the archive by the lemmas above.
LEMMA NextIInv == IInv /\ [Next]_vars => IInv'
  <1> SUFFICES ASSUME IInv, [Next]_vars PROVE IInv'
    OBVIOUS
  <1>a. /\ live \in [Names -> Contents \cup {Absent}]
        /\ index \subseteq Ids \X Contents /\ midway \in BOOLEAN
        /\ meta \subseteq Ids
        /\ archive \in [Names -> Contents \cup {Absent}]
    BY DEF IInv, TypeOK
  <1>s. ASSUME NEW files \in [Names -> Contents \cup {Absent}], Synced(files)
        PROVE  live' \in [Names -> Contents \cup {Absent}] /\ index' \subseteq Ids \X Contents
    BY <1>s, PresentNames DEF Synced
  <1>1. ASSUME NEW id \in GivenIds \cup {NextId}, NEW slug \in Slugs, NEW c \in Contents,
               Create(id, slug, c)
        PROVE  IInv'
    <2>1. [live EXCEPT ![<<id, slug>>] = c] \in [Names -> Contents \cup {Absent}]
      BY <1>a
    <2>2. TypeOK'
      BY <1>1, <1>a, <1>s, <2>1 DEF Create, TypeOK
    <2> QED BY <1>1, <2>2, ArchiveUntouched DEF Create
  <1>2. ASSUME NEW n \in Names, Delete(n) PROVE IInv'
    <2>1. [live EXCEPT ![n] = Absent] \in [Names -> Contents \cup {Absent}]
      BY <1>a
    <2>2. TypeOK'
      BY <1>2, <1>a, <1>s, <2>1 DEF Delete, TypeOK
    <2> QED BY <1>2, <2>2, ArchiveUntouched DEF Delete
  <1>3. CASE Sync
    <2>1. TypeOK'
      BY <1>3, <1>a, <1>s DEF Sync, TypeOK
    <2> QED BY <1>3, <2>1, ArchiveUntouched DEF Sync
  <1>4. ASSUME NEW id \in Ids, Archive(id) PROVE IInv'
    <2>1. live' \in [Names -> Contents \cup {Absent}]
      BY <1>4, ToArchiveOK DEF Archive
    <2>2. Entries(live') \subseteq Ids \X Contents
      BY <2>1, PresentNames
    <2> QED BY <1>4, <1>a, <2>1, <2>2, ToArchiveOK DEF Archive, IInv, TypeOK
  <1>5. ASSUME NEW id \in Ids, Restore(id) PROVE IInv'
    <2>1. live' \in [Names -> Contents \cup {Absent}]
      BY <1>5, FromArchiveOK DEF Restore
    <2>2. Entries(live') \subseteq Ids \X Contents
      BY <2>1, PresentNames
    <2> QED BY <1>5, <1>a, <2>1, <2>2, FromArchiveOK DEF Restore, IInv, TypeOK
  <1>6. ASSUME NEW id \in Ids, Purge(id) PROVE IInv'
    BY <1>6, PurgeOK
  <1>7. ASSUME NEW id \in Ids, TrackArchive(id) PROVE IInv'
    BY <1>7, <1>a, ToArchiveOK DEF TrackArchive, IInv, TypeOK
  <1>8. ASSUME NEW id \in Ids, TrackRestore(id) PROVE IInv'
    BY <1>8, <1>a, FromArchiveOK DEF TrackRestore, IInv, TypeOK
  <1>9. ASSUME NEW n \in Names, NEW c \in Contents, EditFile(n, c) \/ ReviewWrite(n, c)
        PROVE  IInv'
    <2>1. TypeOK'
      BY <1>9, <1>a DEF EditFile, ReviewWrite, TypeOK
    <2> QED BY <1>9, <2>1, ArchiveUntouched DEF EditFile, ReviewWrite
  <1>10. CASE EditIndex
    <2>1. TypeOK'
      BY <1>10, <1>a, <1>s DEF EditIndex, TypeOK
    <2> QED BY <1>10, <2>1, ArchiveUntouched DEF EditIndex
  <1>11. CASE EditDies
    <2>1. TypeOK'
      BY <1>11, <1>a DEF EditDies, TypeOK
    <2> QED BY <1>11, <2>1, ArchiveUntouched DEF EditDies
  <1>12. CASE UNCHANGED vars
    <2>1. TypeOK'
      BY <1>12, <1>a DEF vars, TypeOK
    <2> QED BY <1>12, <2>1, ArchiveUntouched DEF vars
  <1> QED
    BY <1>1, <1>2, <1>3, <1>4, <1>5, <1>6, <1>7, <1>8, <1>9, <1>10, <1>11, <1>12 DEF Next

\* The types are right, and the archive and its record agree, whatever the
\* commands, in every state that can be reached.
THEOREM Inductive == Spec => []IInv
  <1>1. Init => IInv
    BY InitIInv
  <1>2. IInv /\ [Next]_vars => IInv'
    BY NextIInv
  <1> QED BY <1>1, <1>2, PTL DEF Spec

\* The types, for any number of ids, names and contents.
THEOREM TypeCorrect == Spec => []TypeOK
  <1>1. IInv => TypeOK
    BY DEF IInv
  <1> QED BY <1>1, Inductive, PTL

\* restore and purge find what the record lists, and no second file of it.
THEOREM ArchiveIsRecordedHolds == Spec => []ArchiveIsRecorded
  <1>1. IInv => ArchiveIsRecorded
    BY DEF IInv
  <1> QED BY <1>1, Inductive, PTL

\* No command replaces a file of the archive: the record tells a command that
\* something is already archived under the id.
THEOREM ArchiveKeepsFilesHolds == Spec => ArchiveKeepsFiles
  <1> DEFINE Keeps ==
        \A n \in Names :
            archive[n] # Absent =>
                \/ archive'[n] = archive[n]
                \/ archive'[n] = Absent
  <1>1. ASSUME IInv, [Next]_vars PROVE Keeps
    <2>1. ASSUME NEW id \in Ids, Archive(id) \/ TrackArchive(id) PROVE Keeps
      BY <2>1, <1>1, ToArchiveOK DEF Archive, TrackArchive
    <2>2. ASSUME NEW id \in Ids, Restore(id) \/ TrackRestore(id) PROVE Keeps
      BY <2>2, <1>1, FromArchiveOK DEF Restore, TrackRestore
    <2>3. ASSUME NEW id \in Ids, Purge(id) PROVE Keeps
      BY <2>3, <1>1, PurgeOK
    <2>4. CASE UNCHANGED archive
      BY <2>4
    <2> QED BY <1>1, <2>1, <2>2, <2>3, <2>4
      DEF Next, vars, Create, Delete, Sync, EditFile, ReviewWrite, EditIndex, EditDies
  <1>2. IInv /\ [Next]_vars => [Keeps]_vars
    BY <1>1
  <1> QED BY <1>2, Inductive, PTL DEF Spec, ArchiveKeepsFiles

\* An index that is not the one of the files is reported, when it has entries
\* and every live milestone has an id of its own.
THEOREM DriftIsReportedHolds == Spec => []DriftIsReported
  <1>1. IInv => DriftIsReported
    <2> SUFFICES ASSUME IInv, index \notin {{}, Entries(live)},
                        \A n1, n2 \in Present(live) : n1[1] = n2[1] => n1 = n2,
                        NEW first \in Firsts, Unlisted = {}
                 PROVE  Outdated(first) # {}
      BY DEF DriftIsReported, Warns
    <2>1. index \subseteq Ids \X Contents /\ live \in [Names -> Contents \cup {Absent}]
      BY DEF IInv, TypeOK
    <2>2. \A n \in Present(live) : n[1] \in Ids /\ n \in Found(live, n[1])
      BY <2>1, PresentNames DEF Found
    <2>3. \A n \in Present(live) : first[n[1]] = n
      BY <2>2 DEF Firsts, Found
    <2>4. {n[1] : n \in Present(live)} = {e[1] : e \in index}
      BY DEF Unlisted
    <2>5. \A e \in index : \E n \in Present(live) : n[1] = e[1]
      BY <2>4
    <2>6. CASE \E e \in index : e \notin Entries(live)
      <3>1. PICK e \in index : e \notin Entries(live)
        BY <2>6
      <3>2. PICK n \in Present(live) : n[1] = e[1]
        BY <2>5
      <3>3. e = <<e[1], e[2]>>
        BY <2>1
      <3>4. live[n] # e[2]
        BY <3>1, <3>2, <3>3 DEF Entries
      <3> QED BY <2>2, <2>3, <3>2, <3>4 DEF Outdated
    <2>7. CASE \E x \in Entries(live) : x \notin index
      <3>1. PICK n \in Present(live) : <<n[1], live[n]>> \notin index
        BY <2>7 DEF Entries
      <3>2. PICK e \in index : e[1] = n[1]
        BY <2>4
      <3>3. e = <<e[1], e[2]>>
        BY <2>1
      <3>4. live[n] # e[2]
        BY <3>1, <3>2, <3>3
      <3> QED BY <2>2, <2>3, <3>2, <3>4 DEF Outdated
    <2> QED BY <2>6, <2>7
  <1> QED BY <1>1, Inductive, PTL
=============================================================================
