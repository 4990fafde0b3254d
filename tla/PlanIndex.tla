------------------------------ MODULE PlanIndex ------------------------------
(***************************************************************************)
(* The milestone files of a plan, the index of them in plan.json, and the  *)
(* archive with its record (sync.rs, store.rs, milestone/io.rs,            *)
(* commands/archive.rs).                                                   *)
(*                                                                         *)
(* Commands that run under run_recoverable happen whole or not at all,     *)
(* which PlanTxn is about: here they are one step, and one that fails is a *)
(* disabled action.  The plain commands write a milestone file and then    *)
(* the index, and can die in between.  The plan lock keeps every other     *)
(* command out until then, but no reader.                                  *)
(*                                                                         *)
(* Milestones of sessions and the dotted ids of split ones are left out.   *)
(***************************************************************************)
EXTENDS Integers, FiniteSetsExt

CONSTANTS
    MaxId,       \* bound: ids are 1 .. MaxId
    GivenIds,    \* the ids that users give a new milestone themselves
    Slugs,       \* what the names of files add to the id
    Contents,    \* what an index entry shows of a file: title and statuses
    Absent       \* no file

ASSUME IndexAssumption ==
    MaxId \in Nat /\ GivenIds \subseteq 1 .. MaxId /\ Absent \notin Contents

Ids == 1 .. MaxId
Names == Ids \X Slugs

VARIABLES
    live,        \* milestones/: what each name holds
    archive,     \* archive/milestones/
    meta,        \* archive/meta.json: the ids it lists
    index,       \* plan.json: its entries, ids with contents
    midway       \* a plain command has written its file and not the index

vars == <<live, archive, meta, index, midway>>

Present(dir) == {n \in Names : dir[n] # Absent}

\* find_milestone_file: any file of that id, in the order of the directory.
Found(dir, id) == {n \in Present(dir) : n[1] = id}

\* The entries sync_plan writes.
Entries(dir) == {<<n[1], dir[n]>> : n \in Present(dir)}

-----------------------------------------------------------------------------
Init ==
    /\ live = [n \in Names |-> Absent]
    /\ archive = [n \in Names |-> Absent]
    /\ meta = {}
    /\ index = {}
    /\ midway = FALSE

\* Another command may take the plan lock.
Unlocked == ~midway

\* The files as a command leaves them, with an index of them.
Synced(files) == live' = files /\ index' = Entries(files)

\* next_milestone_id: one more than the highest id of a live file.
NextId == IF Present(live) = {} THEN 1 ELSE Max({n[1] : n \in Present(live)}) + 1

\* milestone create, with a given id or the next one; what has the name is
\* replaced.
Create(id, slug, c) ==
    /\ Unlocked /\ id \in Ids
    /\ Synced([live EXCEPT ![<<id, slug>>] = c])
    /\ UNCHANGED <<archive, meta, midway>>

\* milestone delete --force.
Delete(n) ==
    /\ Unlocked /\ n \in Present(live)
    /\ Synced([live EXCEPT ![n] = Absent])
    /\ UNCHANGED <<archive, meta, midway>>

\* mp sync.
Sync ==
    /\ Unlocked /\ Synced(live)
    /\ UNCHANGED <<archive, meta, midway>>

-----------------------------------------------------------------------------
(* The archive. *)

\* Mutant: archiving twice is not noticed.
NeverArchived(id) == FALSE

AlreadyArchived(id) == Found(archive, id) # {} /\ id \in meta

\* store::archive_milestone, which has nothing to do for an archived id.
ToArchive(id) ==
    \/ AlreadyArchived(id) /\ UNCHANGED <<archive, meta>> /\ live' = live
    \/ /\ ~AlreadyArchived(id)
       /\ \E n \in Found(live, id) :
             /\ live' = [live EXCEPT ![n] = Absent]
             /\ archive' = [archive EXCEPT ![n] = live[n]]
             /\ meta' = meta \cup {id}

\* Mutant: the record of the archive keeps the entry.
FromArchiveUnrecorded(id) ==
    \E n \in Found(archive, id) :
        /\ archive' = [archive EXCEPT ![n] = Absent]
        /\ live' = [live EXCEPT ![n] = archive[n]]
        /\ UNCHANGED meta

\* store::restore_archived_milestone: the rename replaces what has the name.
FromArchive(id) ==
    \E n \in Found(archive, id) :
        /\ archive' = [archive EXCEPT ![n] = Absent]
        /\ live' = [live EXCEPT ![n] = archive[n]]
        /\ meta' = meta \ {id}

\* milestone archive, and milestone delete as it is configured by default.
Archive(id) ==
    /\ Unlocked /\ ToArchive(id)
    /\ index' = Entries(live')
    /\ UNCHANGED midway

\* milestone restore.
Restore(id) ==
    /\ Unlocked /\ FromArchive(id)
    /\ index' = Entries(live')
    /\ UNCHANGED midway

\* track archive milestone: the same, and the index is not refreshed.
TrackArchive(id) ==
    /\ Unlocked /\ ToArchive(id)
    /\ UNCHANGED <<index, midway>>

\* track restore archived milestone.
TrackRestore(id) ==
    /\ Unlocked /\ FromArchive(id)
    /\ UNCHANGED <<index, midway>>

\* milestone purge and track purge: the entry goes first, then one file.
Purge(id) ==
    /\ Unlocked
    /\ meta' = meta \ {id}
    /\ \E n \in Found(archive, id) : archive' = [archive EXCEPT ![n] = Absent]
    /\ UNCHANGED <<live, index, midway>>

-----------------------------------------------------------------------------
(* Writing a milestone. *)

\* A plain command changes a file: nothing is written when nothing changes.
EditFile(n, c) ==
    /\ Unlocked /\ n \in Present(live) /\ c # live[n]
    /\ live' = [live EXCEPT ![n] = c]
    /\ midway' = TRUE
    /\ UNCHANGED <<archive, meta, index>>

\* ... and then the index.
EditIndex ==
    /\ midway /\ midway' = FALSE
    /\ Synced(live)
    /\ UNCHANGED <<archive, meta>>

\* It dies, or fails, before the index is written; nothing is rolled back.
EditDies ==
    /\ midway /\ midway' = FALSE
    /\ UNCHANGED <<live, archive, meta, index>>

\* reviews pass, finding add and finding resolve write the file only.
ReviewWrite(n, c) ==
    /\ Unlocked /\ n \in Present(live)
    /\ live' = [live EXCEPT ![n] = c]
    /\ UNCHANGED <<archive, meta, index, midway>>

Next ==
    \/ \E id \in GivenIds \cup {NextId}, slug \in Slugs, c \in Contents : Create(id, slug, c)
    \/ \E n \in Names : Delete(n)
    \/ Sync
    \/ \E id \in Ids :
          \/ Archive(id) \/ Restore(id) \/ Purge(id)
          \/ TrackArchive(id) \/ TrackRestore(id)
    \/ \E n \in Names, c \in Contents : EditFile(n, c) \/ ReviewWrite(n, c)
    \/ EditIndex \/ EditDies

Spec == Init /\ [][Next]_vars

-----------------------------------------------------------------------------
(* What `mp validate` compares. *)

\* Mutant: only files are looked up in the index, not entries among the files.
UnlistedOneWay ==
    {n[1] : n \in Present(live)} \ {e[1] : e \in index}

\* W01: files without an entry, entries without a file.
Unlisted ==
    LET files == {n[1] : n \in Present(live)}
        listed == {e[1] : e \in index}
    IN  (files \ listed) \cup (listed \ files)

\* W03: entries that show something else than the file of their id that comes
\* first in the order of the directory.
Outdated(first) ==
    {e \in index : Found(live, e[1]) # {} /\ live[first[e[1]]] # e[2]}

\* An index without entries is taken for one that was never built.
Warns(first) == index # {} /\ (Unlisted # {} \/ Outdated(first) # {})

\* The choices the order of the directory leaves.
Firsts ==
    {f \in [Ids -> Names] :
        \A id \in Ids : Found(live, id) # {} => f[id] \in Found(live, id)}

-----------------------------------------------------------------------------
(* Properties *)

TypeOK ==
    /\ live \in [Names -> Contents \cup {Absent}]
    /\ archive \in [Names -> Contents \cup {Absent}]
    /\ meta \subseteq Ids
    /\ index \subseteq Ids \X Contents
    /\ midway \in BOOLEAN

(***************************************************************************)
(* The record of the archive and its files agree: an id is listed exactly  *)
(* when there is a file of it, and there is one such file only, also after *)
(* its id was given out again and came back.  restore and purge rely on    *)
(* it: they take whichever file of the id they meet.                       *)
(***************************************************************************)
ArchiveIsRecorded ==
    /\ meta = {n[1] : n \in Present(archive)}
    /\ \A n1, n2 \in Present(archive) : n1[1] = n2[1] => n1 = n2

(***************************************************************************)
(* What is in the archive leaves it as it came: archiving a milestone with *)
(* the name of an archived one never replaces that one.                    *)
(***************************************************************************)
ArchiveKeepsFiles ==
    [][\A n \in Names :
          archive[n] # Absent =>
              \/ archive'[n] = archive[n]
              \/ archive'[n] = Absent]_vars

(***************************************************************************)
(* Whatever left the index behind (a crash between two writes, a review, a *)
(* move by `mp track`), `mp validate` says so at any moment, also while a  *)
(* command is at work, unless the index is empty or two live milestones    *)
(* have one id.                                                            *)
(***************************************************************************)
DriftIsReported ==
    /\ index \notin {{}, Entries(live)}
    /\ \A n1, n2 \in Present(live) : n1[1] = n2[1] => n1 = n2
    => \A first \in Firsts : Warns(first)
=============================================================================
