---------------------------- MODULE StepsProofs ----------------------------
(***************************************************************************)
(* Proofs about Steps, for any ids, work packages and dependencies written *)
(* by users, and any number of commands.                                   *)
(***************************************************************************)
EXTENDS Steps, WellFoundedInduction, TLAPS

\* The array holds the id of each step once.
FileOK ==
    /\ file \in Seq(Ids)
    /\ Present = {file[k] : k \in DOMAIN file}
    /\ \A k, l \in DOMAIN file : k # l => file[k] # file[l]

\* The dependencies follow a ranking of the steps: they exist and have no cycle.
Ranks(rank) ==
    /\ rank \in [Present -> Nat]
    /\ \A id \in Present : \A dep \in steps[id].deps :
          dep \in Present /\ rank[dep] < rank[id]

Ranked == byHand \/ \E rank \in [Present -> Nat] : Ranks(rank)

\* The inductive invariant.  That mp next has something to offer follows from
\* the ranking: the actionable step of lowest rank waits for nothing.
IInv == TypeOK /\ FileOK /\ Ranked

-----------------------------------------------------------------------------
(* Lemmas *)

LEMMA BeforeIrreflexive ==
    ASSUME NEW a \in Seq(Nat)
    PROVE  ~Before(a, a)
  BY DEF Before, Below

\* The sorted array holds each of the ids once.
LEMMA SortedArray ==
    ASSUME NEW ids \in SUBSET Ids, NEW n \in Nat, NEW s \in Sorted(ids, n)
    PROVE  /\ s \in Seq(Ids)
           /\ ids = {s[k] : k \in DOMAIN s}
           /\ \A k, l \in DOMAIN s : k # l => s[k] # s[l]
  <1>1. s \in [1 .. n -> ids] /\ s \in Seq(Ids) /\ DOMAIN s = 1 .. n
    BY DEF Sorted
  <1>2. ASSUME NEW k \in 1 .. n, NEW l \in 1 .. n, k < l
        PROVE  s[k] # s[l]
    <2>1. Before(s[k], s[l])
      BY <1>2 DEF Sorted
    <2>2. s[k] \in Seq(Nat)
      BY <1>1, StepsAssumption
    <2> QED
      BY <2>1, <2>2, BeforeIrreflexive
  <1>3. \A k, l \in 1 .. n : k # l => s[k] # s[l]
    BY <1>2
  <1> QED
    BY <1>1, <1>3 DEF Sorted

\* Appending an id that is not there.
LEMMA AppendedArray ==
    ASSUME FileOK, NEW id \in Ids \ Present
    PROVE  /\ Append(file, id) \in Seq(Ids)
           /\ Present \union {id} = {Append(file, id)[k] : k \in DOMAIN Append(file, id)}
           /\ \A k, l \in DOMAIN Append(file, id) :
                k # l => Append(file, id)[k] # Append(file, id)[l]
  <1> DEFINE n == Len(file)
  <1>1. /\ DOMAIN file = 1 .. n
        /\ n \in Nat
        /\ DOMAIN Append(file, id) = 1 .. n + 1
        /\ \A k \in 1 .. n : Append(file, id)[k] = file[k]
        /\ Append(file, id)[n + 1] = id
        /\ Append(file, id) \in Seq(Ids)
    BY DEF FileOK
  <1>2. \A k \in 1 .. n + 1 : k \in 1 .. n \/ k = n + 1
    BY <1>1
  <1>3. \A k \in 1 .. n : file[k] \in Present
    BY <1>1 DEF FileOK
  <1> QED
    BY <1>1, <1>2, <1>3 DEF FileOK

\* Removing an id.
LEMMA RemovedFromArray ==
    ASSUME FileOK, NEW p \in DOMAIN file
    PROVE  /\ Without(file, p) \in Seq(Ids)
           /\ Present \ {file[p]} = {Without(file, p)[k] : k \in DOMAIN Without(file, p)}
           /\ \A k, l \in DOMAIN Without(file, p) :
                k # l => Without(file, p)[k] # Without(file, p)[l]
  <1> DEFINE n == Len(file)
             s == Without(file, p)
             from(j) == IF j < p THEN j ELSE j + 1
             to(k) == IF k < p THEN k ELSE k - 1
  <1>1. n \in Nat /\ DOMAIN file = 1 .. n /\ p \in 1 .. n
    BY DEF FileOK
  <1>2. \A j \in 1 .. n - 1 : from(j) \in 1 .. n /\ from(j) # p
    BY <1>1
  <1>3. \A k \in (1 .. n) \ {p} : to(k) \in 1 .. n - 1 /\ from(to(k)) = k
    BY <1>1
  <1>4. DOMAIN s = 1 .. n - 1 /\ \A j \in 1 .. n - 1 : s[j] = file[from(j)]
    BY DEF Without
  <1>5. s \in Seq(Ids)
    <2>1. \A j \in 1 .. n - 1 : file[from(j)] \in Ids
      BY <1>1, <1>2 DEF FileOK
    <2>2. s \in [1 .. n - 1 -> Ids]
      BY <1>4, <2>1 DEF Without
    <2> QED
      BY <1>1, <2>2
  <1>6. \A j, l \in 1 .. n - 1 : j # l => from(j) # from(l)
    BY <1>1
  <1> HIDE DEF s, from, to
  <1>7. \A j, l \in 1 .. n - 1 : j # l => s[j] # s[l]
    BY <1>1, <1>2, <1>4, <1>6 DEF FileOK
  <1>8. Present \ {file[p]} = {s[j] : j \in 1 .. n - 1}
    <2>1. \A id \in Present \ {file[p]} : \E j \in 1 .. n - 1 : s[j] = id
      <3> TAKE id \in Present \ {file[p]}
      <3>1. PICK k \in 1 .. n : file[k] = id
        BY <1>1 DEF FileOK
      <3>2. to(k) \in 1 .. n - 1 /\ s[to(k)] = id
        BY <1>3, <1>4, <3>1
      <3> QED
        BY <3>2
    <2>2. \A j \in 1 .. n - 1 : s[j] \in Present \ {file[p]}
      BY <1>1, <1>2, <1>4 DEF FileOK
    <2> QED
      BY <2>1, <2>2
  <1> QED
    BY <1>4, <1>5, <1>7, <1>8 DEF s

\* What the rank of one step is about.
LEMMA RankedStep ==
    ASSUME NEW rank \in [Present -> Nat], Ranks(rank),
           NEW id \in Present, NEW dep \in steps[id].deps
    PROVE  dep \in Present /\ rank[dep] < rank[id]
  BY DEF Ranks

LEMMA EditsType ==
    ASSUME TypeOK, Edit
    PROVE  edits' \in 0 .. MaxEdits
  BY StepsAssumption DEF TypeOK, Edit

-----------------------------------------------------------------------------
(* Commands that leave the dependencies alone *)

LEMMA KeptDependencies ==
    ASSUME IInv, file' = file, byHand' = byHand,
           steps' \in [Present -> StepRecords],
           \A id \in Present : steps'[id].deps = steps[id].deps
    PROVE  FileOK' /\ Ranked'
  <1>1. Present' = Present
    BY DEF Present
  <1>2. FileOK'
    BY <1>1 DEF IInv, FileOK
  <1>3. ASSUME NEW rank \in [Present -> Nat], Ranks(rank)
        PROVE  Ranks(rank)'
    BY <1>1, <1>3 DEF Ranks
  <1> QED
    BY <1>1, <1>2, <1>3 DEF IInv, Ranked

LEMMA PackagesKeepInv ==
    ASSUME IInv, AddPackage \/ Decompose \/ RemovePackage
    PROVE  IInv'
  <1>1. /\ UNCHANGED <<file, steps, closed, byHand>>
        /\ packages' \subseteq Packages
        /\ edits' \in 0 .. MaxEdits
    BY EditsType DEF IInv, TypeOK, AddPackage, Decompose, RemovePackage
  <1>2. FileOK' /\ Ranked'
    BY <1>1, KeptDependencies DEF IInv, TypeOK
  <1> QED
    BY <1>1, <1>2 DEF IInv, TypeOK, Present

LEMMA MoveStepKeepsInv ==
    ASSUME IInv, MoveStep
    PROVE  IInv'
  <1>1. PICK id \in Present, wp \in Packages \union {Elsewhere} :
           steps' = [steps EXCEPT ![id].package = wp]
    BY DEF MoveStep
  <1>2. /\ steps' \in [Present -> StepRecords]
        /\ \A i \in Present : steps'[i].deps = steps[i].deps
    BY <1>1 DEF IInv, TypeOK, StepRecords
  <1>3. FileOK' /\ Ranked'
    BY <1>2, KeptDependencies DEF MoveStep
  <1> QED
    BY <1>2, <1>3, EditsType DEF IInv, TypeOK, Present, MoveStep

LEMMA ClaimsKeepInv ==
    ASSUME IInv, Claim \/ Release
    PROVE  IInv'
  <1>1. PICK id \in Present, c \in BOOLEAN : steps' = [steps EXCEPT ![id].claimed = c]
    BY DEF Claim, Release
  <1>2. /\ steps' \in [Present -> StepRecords]
        /\ \A i \in Present : steps'[i].deps = steps[i].deps
    BY <1>1 DEF IInv, TypeOK, StepRecords
  <1>3. FileOK' /\ Ranked'
    BY <1>2, KeptDependencies DEF Claim, Release
  <1> QED
    BY <1>2, <1>3 DEF IInv, TypeOK, Present, Claim, Release

LEMMA SetStepStatusKeepsInv ==
    ASSUME IInv, SetStepStatus
    PROVE  IInv'
  <1>1. PICK id \in Present, status \in STEP_STATUSES :
           steps' = [steps EXCEPT ![id] =
                       [steps[id] EXCEPT !.status = status,
                          !.claimed = @ /\ status \notin {"done", "skipped"}]]
    BY DEF SetStepStatus
  <1>2. steps[id] \in StepRecords
    BY DEF IInv, TypeOK
  <1> DEFINE step == [steps[id] EXCEPT !.status = status,
                        !.claimed = @ /\ status \notin {"done", "skipped"}]
  <1>3. step \in StepRecords /\ step.deps = steps[id].deps
    <2>1. (steps[id].claimed /\ status \notin {"done", "skipped"}) \in BOOLEAN
      OBVIOUS
    <2> QED
      BY <1>2, <2>1 DEF StepRecords
  <1> HIDE DEF step
  <1>4. steps' = [steps EXCEPT ![id] = step]
    BY <1>1 DEF step
  <1>5. /\ steps' \in [Present -> StepRecords]
        /\ \A i \in Present : steps'[i].deps = steps[i].deps
    BY <1>3, <1>4 DEF IInv, TypeOK
  <1>6. FileOK' /\ Ranked'
    BY <1>5, KeptDependencies DEF SetStepStatus
  <1>7. closed' \subseteq Mentioning
    BY DEF SetStepStatus, IInv, TypeOK
  <1> QED
    BY <1>5, <1>6, <1>7 DEF IInv, TypeOK, Present, SetStepStatus

-----------------------------------------------------------------------------
(* Commands that restructure *)

\* A new step depends on nothing, and nothing depends on it yet.
LEMMA AddStepKeepsInv ==
    ASSUME IInv, AddStep
    PROVE  IInv'
  <1>1. PICK wp \in packages, id \in Ids \ Present :
           /\ steps' = With([i \in {id} |-> Fresh(wp, {})])
           /\ file' = Append(file, id)
    BY DEF AddStep
  <1>2. Present' = Present \union {id}
    BY <1>1 DEF Present, With
  <1>3. steps' = [i \in Present' |-> IF i \in Present THEN steps[i] ELSE Fresh(wp, {})]
    BY <1>1, <1>2 DEF With
  <1>4. Fresh(wp, {}) \in StepRecords
    BY DEF IInv, TypeOK, Fresh, StepRecords, STEP_STATUSES
  <1>5. steps' \in [Present' -> StepRecords]
    BY <1>3, <1>4 DEF IInv, TypeOK
  <1>6. FileOK'
    BY <1>1, <1>2, AppendedArray DEF IInv, FileOK
  <1>7. ASSUME NEW rank \in [Present -> Nat], Ranks(rank)
        PROVE  \E r \in [Present' -> Nat] : Ranks(r)'
    <2> DEFINE r == [i \in Present' |-> IF i \in Present THEN rank[i] ELSE 0]
    <2>1. r \in [Present' -> Nat]
      OBVIOUS
    <2>2. ASSUME NEW i \in Present', NEW dep \in steps'[i].deps
          PROVE  dep \in Present' /\ r[dep] < r[i]
      <3>1. i \in Present /\ dep \in steps[i].deps
        BY <1>3, <2>2 DEF Fresh
      <3> QED
        BY <1>2, <1>7, <3>1, RankedStep
    <2> QED
      BY <2>1, <2>2 DEF Ranks
  <1>8. Ranked'
    BY <1>7 DEF IInv, Ranked, AddStep
  <1> QED
    BY <1>5, <1>6, <1>8, EditsType DEF IInv, TypeOK, FileOK, AddStep

\* The children take over the dependencies of the step, and its rank.
LEMMA SplitKeepsInv ==
    ASSUME IInv, Split
    PROVE  IInv'
  <1>1. PICK id \in Present, first, second \in Ids :
           /\ steps' = With([i \in {first, second} |->
                               Fresh(steps[id].package, steps[id].deps)])
           /\ file' \in Sorted(Present \union {first, second}, Len(file) + 2)
    BY DEF Split
  <1> DEFINE child == Fresh(steps[id].package, steps[id].deps)
  <1>2. Present' = Present \union {first, second}
    BY <1>1 DEF Present, With
  <1>3. steps' = [i \in Present' |-> IF i \in Present THEN steps[i] ELSE child]
    BY <1>1, <1>2 DEF With
  <1>4. child \in StepRecords
    BY DEF IInv, TypeOK, Fresh, StepRecords, STEP_STATUSES
  <1>5. steps' \in [Present' -> StepRecords]
    BY <1>3, <1>4 DEF IInv, TypeOK
  <1>6. FileOK'
    <2>1. Present \union {first, second} \in SUBSET Ids /\ Len(file) + 2 \in Nat
      BY DEF IInv, FileOK
    <2>2. /\ file' \in Seq(Ids)
          /\ Present \union {first, second} = {file'[k] : k \in DOMAIN file'}
          /\ \A k, l \in DOMAIN file' : k # l => file'[k] # file'[l]
      BY <1>1, <2>1, SortedArray
    <2> QED
      BY <1>2, <2>2 DEF FileOK
  <1>7. ASSUME NEW rank \in [Present -> Nat], Ranks(rank)
        PROVE  \E r \in [Present' -> Nat] : Ranks(r)'
    <2> DEFINE of(i) == IF i \in Present THEN i ELSE id
               r == [i \in Present' |-> rank[of(i)]]
    <2>1. r \in [Present' -> Nat]
      OBVIOUS
    <2>2. ASSUME NEW i \in Present', NEW dep \in steps'[i].deps
          PROVE  dep \in Present' /\ r[dep] < r[i]
      <3>1. of(i) \in Present /\ dep \in steps[of(i)].deps
        BY <1>3, <2>2 DEF Fresh
      <3>2. dep \in Present /\ rank[dep] < rank[of(i)]
        BY <1>7, <3>1, RankedStep
      <3> QED
        BY <1>2, <3>2
    <2> QED
      BY <2>1, <2>2 DEF Ranks
  <1>8. Ranked'
    BY <1>7 DEF IInv, Ranked, Split
  <1> QED
    BY <1>5, <1>6, <1>8, EditsType DEF IInv, TypeOK, FileOK, Split

\* Nothing that is left depends on a removed step.
LEMMA RemoveStepKeepsInv ==
    ASSUME IInv, RemoveStep
    PROVE  IInv'
  <1>1. PICK k \in DOMAIN file :
           /\ Removable(file[k])
           /\ steps' = [i \in Present \ {file[k]} |-> steps[i]]
           /\ file' = Without(file, k)
    BY DEF RemoveStep
  <1>2. Present' = Present \ {file[k]}
    BY <1>1 DEF Present
  <1>3. steps' \in [Present' -> StepRecords]
    BY <1>1, <1>2 DEF IInv, TypeOK
  <1>4. FileOK'
    BY <1>1, <1>2, RemovedFromArray DEF IInv, FileOK
  <1>5. ASSUME NEW rank \in [Present -> Nat], Ranks(rank)
        PROVE  \E r \in [Present' -> Nat] : Ranks(r)'
    <2> DEFINE r == [i \in Present' |-> rank[i]]
    <2>1. r \in [Present' -> Nat]
      BY <1>2
    <2>2. ASSUME NEW i \in Present', NEW dep \in steps'[i].deps
          PROVE  dep \in Present' /\ r[dep] < r[i]
      <3>1. i \in Present /\ i # file[k] /\ dep \in steps[i].deps
        BY <1>1, <1>2, <2>2
      <3>2. dep \in Present /\ rank[dep] < rank[i]
        BY <1>5, <3>1, RankedStep
      <3>3. dep # file[k]
        BY <1>1, <3>1 DEF Removable
      <3> QED
        BY <1>2, <3>2, <3>3
    <2> QED
      BY <2>1, <2>2 DEF Ranks
  <1>6. Ranked'
    BY <1>5 DEF IInv, Ranked, RemoveStep
  <1> QED
    BY <1>3, <1>4, <1>6, EditsType DEF IInv, TypeOK, FileOK, RemoveStep

LEMMA WriteDependenciesKeepsInv ==
    ASSUME IInv, WriteDependencies
    PROVE  IInv'
  <1>1. PICK id \in Present, deps \in GivenDeps : steps' = [steps EXCEPT ![id].deps = deps]
    BY DEF WriteDependencies
  <1>2. Present' = Present
    BY <1>1 DEF Present, IInv, TypeOK
  <1>3. steps' \in [Present' -> StepRecords]
    <2>1. deps \in SUBSET Ids
      BY StepsAssumption
    <2>2. [steps[id] EXCEPT !.deps = deps] \in StepRecords
      BY <2>1 DEF IInv, TypeOK, StepRecords
    <2> QED
      BY <1>1, <1>2, <2>2 DEF IInv, TypeOK
  <1>4. FileOK'
    BY <1>2 DEF IInv, FileOK, WriteDependencies
  <1> QED
    BY <1>2, <1>3, <1>4, EditsType DEF IInv, TypeOK, Ranked, WriteDependencies

\* The steps of the packages are ranked by their places in the array, the
\* others, which kept what they had, as before and above all of those.
LEMMA InferDependenciesKeepsInv ==
    ASSUME IInv, InferDependencies
    PROVE  IInv'
  <1>1. steps' = [id \in Present |->
                    IF steps[id].package \in packages
                    THEN [steps[id] EXCEPT !.deps = Previous(id)]
                    ELSE steps[id]]
    BY DEF InferDependencies
  <1>2. Present' = Present
    BY <1>1 DEF Present
  <1>3. \A id : Previous(id) \subseteq Present
    BY DEF Previous, IInv, FileOK
  <1>4. steps' \in [Present' -> StepRecords]
    <2>1. Present \subseteq Ids
      BY DEF IInv, FileOK
    <2> QED
      BY <1>1, <1>2, <1>3, <2>1 DEF IInv, TypeOK, StepRecords
  <1>5. FileOK'
    BY <1>2 DEF IInv, FileOK, InferDependencies
  <1>6. ASSUME NEW rank \in [Present -> Nat], Ranks(rank)
        PROVE  \E r \in [Present' -> Nat] : Ranks(r)'
    <2>1. PICK place \in [Present -> DOMAIN file] : \A k \in DOMAIN file : place[file[k]] = k
      <3> DEFINE p == [id \in Present |-> CHOOSE k \in DOMAIN file : file[k] = id]
      <3>1. p \in [Present -> DOMAIN file]
        BY DEF IInv, FileOK
      <3>2. \A k \in DOMAIN file : p[file[k]] = k
        BY DEF IInv, FileOK
      <3> QED
        BY <3>1, <3>2
    <2>2. Len(file) \in Nat /\ DOMAIN file = 1 .. Len(file)
      BY DEF IInv, FileOK
    <2> DEFINE r == [id \in Present |-> IF steps[id].package \in packages
                                       THEN place[id]
                                       ELSE Len(file) + 1 + rank[id]]
    <2>3. r \in [Present' -> Nat]
      BY <1>2, <2>2
    <2>4. ASSUME NEW id \in Present, NEW dep \in steps'[id].deps
          PROVE  dep \in Present /\ r[dep] < r[id]
      <3>1. CASE steps[id].package \in packages
        <4>1. dep \in Previous(id)
          BY <1>1, <2>4, <3>1 DEF IInv, TypeOK, StepRecords
        <4>2. PICK j \in DOMAIN file, k \in DOMAIN file :
                 /\ dep = file[j]
                 /\ file[k] = id
                 /\ j < k
                 /\ steps[file[j]].package = steps[id].package
          BY <4>1 DEF Previous
        <4>3. dep \in Present /\ r[dep] = j /\ r[id] = k
          BY <2>1, <3>1, <4>2 DEF IInv, FileOK
        <4> QED
          BY <4>2, <4>3
      <3>2. CASE steps[id].package \notin packages
        <4>1. dep \in Present /\ rank[dep] < rank[id]
          BY <1>1, <1>6, <2>4, <3>2, RankedStep
        <4>2. r[id] = Len(file) + 1 + rank[id]
          BY <3>2
        <4>3. r[dep] \in 1 .. Len(file) \/ r[dep] = Len(file) + 1 + rank[dep]
          BY <2>2, <4>1
        <4> QED
          BY <2>2, <4>1, <4>2, <4>3
      <3> QED
        BY <3>1, <3>2
    <2> QED
      BY <1>2, <2>3, <2>4 DEF Ranks
  <1>7. Ranked'
    BY <1>6 DEF IInv, Ranked, InferDependencies
  <1> QED
    BY <1>4, <1>5, <1>7, EditsType DEF IInv, TypeOK, FileOK, InferDependencies

-----------------------------------------------------------------------------
(* Theorems *)

\* What every reachable state satisfies.
THEOREM Inductive == Spec => []IInv
  <1>1. Init => IInv
    <2>1. Init => FileOK /\ TypeOK
      <3> SUFFICES ASSUME Init PROVE FileOK /\ TypeOK
        OBVIOUS
      <3>1. Present = {} /\ DOMAIN file = {} /\ file \in Seq(Ids)
        BY DEF Init, Present
      <3>2. steps \in [Present -> StepRecords]
        BY <3>1 DEF Init
      <3>3. Present = {file[k] : k \in DOMAIN file}
        BY <3>1
      <3>4. edits \in 0 .. MaxEdits
        BY StepsAssumption DEF Init
      <3>5. packages \subseteq Packages /\ closed \subseteq Mentioning /\ byHand \in BOOLEAN
        BY DEF Init
      <3> QED
        BY <3>1, <3>2, <3>3, <3>4, <3>5 DEF FileOK, TypeOK
    <2>2. Init => Ranked
      <3> SUFFICES ASSUME Init PROVE Ranked
        OBVIOUS
      <3>1. Present = {}
        BY DEF Init, Present
      <3>2. [id \in {} |-> 0] \in [Present -> Nat] /\ Ranks([id \in {} |-> 0])
        BY <3>1 DEF Ranks
      <3> QED
        BY <3>2 DEF Ranked
    <2> QED
      BY <2>1, <2>2 DEF IInv
  <1>2. IInv /\ [Next]_vars => IInv'
    <2>1. IInv /\ UNCHANGED vars => IInv'
      <3> SUFFICES ASSUME IInv, UNCHANGED vars PROVE IInv'
        OBVIOUS
      <3>1. FileOK' /\ Ranked'
        BY KeptDependencies DEF vars, IInv, TypeOK
      <3> QED
        BY <3>1 DEF vars, IInv, TypeOK, Present
    <2> QED
      BY <2>1, PackagesKeepInv, AddStepKeepsInv, SplitKeepsInv, RemoveStepKeepsInv,
         MoveStepKeepsInv, WriteDependenciesKeepsInv, InferDependenciesKeepsInv,
         SetStepStatusKeepsInv, ClaimsKeepInv DEF Next
  <1> QED
    BY <1>1, <1>2, PTL DEF Spec

\* The commands keep the types of the variables, and each step once in the
\* array.
THEOREM TypeCorrect == Spec => []TypeOK
  BY Inductive, PTL DEF IInv

LEMMA RankedWorkIsOffered ==
    ASSUME IInv
    PROVE  InferredWorkIsOffered
  <1> SUFFICES ASSUME Actionable # {}, ~byHand,
                      \A id \in Present : ~steps[id].claimed /\ steps[id].status # "failed"
               PROVE  Offered # {}
    BY DEF InferredWorkIsOffered
  <1>1. PICK rank \in [Present -> Nat] : Ranks(rank)
    BY DEF IInv, Ranked
  <1> DEFINE T == {rank[id] : id \in Actionable}
  <1>2. T \subseteq Nat /\ T # {}
    BY DEF Actionable
  <1>3. PICK least \in T : \A n \in T : ~(n < least)
    <2>1. \E x \in T : \A y \in T : ~(<<y, x>> \in OpToRel(<, Nat))
      BY <1>2, NatLessThanWellFounded, WFMin
    <2> QED
      BY <1>2, <2>1 DEF OpToRel
  <1>4. PICK id \in Actionable : rank[id] = least
    OBVIOUS
  <1>5. id \in Present
    BY <1>4 DEF Actionable
  <1>6. DepsMet(id)
    <2> SUFFICES ASSUME NEW dep \in steps[id].deps
                 PROVE  dep \in Present /\ Closed(dep)
      BY DEF DepsMet
    <2>1. dep \in Present /\ rank[dep] < rank[id]
      BY <1>1, <1>5, RankedStep
    <2>2. dep \notin Actionable
      BY <1>3, <1>4, <2>1
    <2>3. steps[dep].status \in STEP_STATUSES
      BY <2>1 DEF IInv, TypeOK, StepRecords
    <2> QED
      BY <2>1, <2>2, <2>3 DEF Actionable, Closed, STEP_STATUSES
  <1> QED
    BY <1>4, <1>5, <1>6 DEF Offered

\* However a milestone is restructured and its dependencies are inferred, mp
\* next has something to offer while work is left that nobody claimed and
\* nothing failed: for any number of steps and packages.
THEOREM InferredWorkIsOfferedHolds == Spec => []InferredWorkIsOffered
  BY Inductive, RankedWorkIsOffered, PTL
=============================================================================
