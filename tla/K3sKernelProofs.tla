-------------------------- MODULE K3sKernelProofs --------------------------
(***************************************************************************)
(* Proofs about K3sKernel, for any number of resources, publications and   *)
(* kernels.                                                                *)
(***************************************************************************)
EXTENDS K3sKernel, TLAPS

SavedType == [id : Ids, kernel : Kernel, managed : BOOLEAN]

(* No saved state is the one that stands for none.                         *)
LEMMA Distinct ==
    Nothing.id = 0 /\ Nothing \notin SavedType /\ 0 \notin Ids
BY DEF Nothing, SavedType, Ids

(* A published entry and a kernel of other operators become kernels.       *)
LEMMA KernelTypes ==
    /\ \A e \in Entries :
          [name |-> e.name, version |-> e.version, arch |-> e.arch, k3s |-> TRUE] \in Kernel
    /\ Preexisting \subseteq Kernel
<1>1. \A e \in Entries \cup Preexisting :
         /\ e.name \in {x.name : x \in Entries \cup Preexisting}
         /\ e.version \in {x.version : x \in Entries \cup Preexisting}
         /\ e.arch \in {x.arch : x \in Entries \cup Preexisting}
  OBVIOUS
<1> QED BY <1>1, K3sKernelAssumption DEF Kernel, Names

(* What Discover selects is a published entry that fits.                   *)
LEMMA SelectedFits ==
    ASSUME published \in DOMAIN Publications, NEW r \in Resources, NEW e \in Selected(r)
    PROVE  e \in Entries /\ Fits(e, r)
BY DEF Selected, Entries

(* What List finds is a kernel of the distro and architecture that were    *)
(* asked for, with the name or the version of the entry.                   *)
LEMMA MatchingServes ==
    ASSUME NEW e, NEW i \in Matching(e)
    PROVE  /\ i \in DOMAIN kernels
           /\ kernels[i].k3s /\ kernels[i].arch = e.arch
           /\ \/ kernels[i].name = e.name
              \/ e.version \in {kernels[i].version} \ {Unversioned}
BY DEF Matching

(* A kernel that is added has the next ID, and leaves the others alone.    *)
LEMMA AddKernelKeeps ==
    ASSUME TypeOK, NEW k, AddKernel(k)
    PROVE  /\ nextId \in Ids /\ nextId' = nextId + 1
           /\ nextId' \in 1 .. MaxId + 1
           /\ DOMAIN kernels' = DOMAIN kernels \cup {nextId} /\ kernels'[nextId] = k
           /\ \A i \in DOMAIN kernels \ {nextId} : kernels'[i] = kernels[i]
           /\ k \in Kernel => kernels' \in [DOMAIN kernels' -> Kernel]
BY K3sKernelAssumption DEF AddKernel, TypeOK, Ids

(* A kernel that is dropped leaves the others alone.                       *)
LEMMA DropKeeps ==
    ASSUME TypeOK, NEW i, Drop(i)
    PROVE  /\ DOMAIN kernels' = DOMAIN kernels \ {i}
           /\ \A j \in DOMAIN kernels' : kernels'[j] = kernels[j]
           /\ kernels' \in [DOMAIN kernels' -> Kernel]
BY DEF Drop, TypeOK

(* A download adds the kernel of the selected entry, and its importer.     *)
LEMMA DownloadKeeps ==
    ASSUME TypeOK, NEW r \in Resources, pc[r] = "import", Download(r)
    PROVE  /\ nextId \in Ids /\ nextId' = nextId + 1
           /\ nextId' \in 1 .. MaxId + 1
           /\ DOMAIN kernels' = DOMAIN kernels \cup {nextId}
           /\ kernels'[nextId] = [name |-> entry[r].name, version |-> entry[r].version,
                                  arch |-> entry[r].arch, k3s |-> TRUE]
           /\ \A i \in DOMAIN kernels \ {nextId} : kernels'[i] = kernels[i]
           /\ kernels' \in [DOMAIN kernels' -> Kernel]
           /\ kernels'[nextId] \in Kernel
           /\ DOMAIN importer' = DOMAIN importer \cup {nextId} /\ importer'[nextId] = r
           /\ \A i \in DOMAIN importer \ {nextId} : importer'[i] = importer[i]
           /\ importer' \in [DOMAIN importer' -> Resources]
<1>1. entry[r] \in Entries
  BY DEF TypeOK
<1>2. [name |-> entry[r].name, version |-> entry[r].version,
       arch |-> entry[r].arch, k3s |-> TRUE] \in Kernel
  BY <1>1, KernelTypes
<1>3. /\ DOMAIN importer' = DOMAIN importer \cup {nextId} /\ importer'[nextId] = r
      /\ \A i \in DOMAIN importer \ {nextId} : importer'[i] = importer[i]
      /\ importer' \in [DOMAIN importer' -> Resources]
  BY DEF Download, TypeOK
<1> QED BY <1>2, <1>3, AddKernelKeeps DEF Download

-----------------------------------------------------------------------------
(* Types *)

(* Every step keeps the types.                                             *)
LEMMA TypeStep ==
    ASSUME TypeOK, [Next]_vars
    PROVE  TypeOK'
<1> USE K3sKernelAssumption
<1>t. /\ DOMAIN kernels \subseteq Ids /\ kernels \in [DOMAIN kernels -> Kernel]
      /\ nextId \in 1 .. MaxId + 1 /\ published \in DOMAIN Publications
      /\ saved \in [Resources -> SavedType \cup {Nothing}] /\ want \subseteq Resources
      /\ pc \in [Resources -> {"idle", "list", "import"}]
      /\ entry \in [Resources -> Entries \cup {NoEntry}]
      /\ \A r \in Resources : entry[r] \in IF pc[r] = "idle" THEN {NoEntry} ELSE Entries
      /\ DOMAIN importer \subseteq Ids /\ importer \in [DOMAIN importer -> Resources]
      /\ lost \subseteq Ids
      /\ faults \in 0 .. MaxFaults /\ drifts \in 0 .. MaxDrift /\ edits \in 0 .. MaxEdits
  BY DEF TypeOK, SavedType
<1>f. ASSUME Fault PROVE faults' \in 0 .. MaxFaults
  BY <1>f, <1>t DEF Fault
<1>x. TypeOK
  OBVIOUS
<1>g. ASSUME NEW r \in Resources, Finish(r)
      PROVE  /\ pc' \in [Resources -> {"idle", "list", "import"}]
             /\ entry' \in [Resources -> Entries \cup {NoEntry}]
             /\ \A q \in Resources : entry'[q] \in IF pc'[q] = "idle" THEN {NoEntry} ELSE Entries
  BY <1>g, <1>t DEF Finish
<1>1. ASSUME NEW r \in Resources, Discover(r) PROVE TypeOK'
  <2>1. PICK e \in Entries : entry' = [entry EXCEPT ![r] = e]
    BY <1>1, <1>t, SelectedFits DEF Discover
  <2> QED BY <1>1, <1>t, <2>1 DEF Discover, TypeOK, SavedType
<1>2. ASSUME NEW r \in Resources, List(r) PROVE TypeOK'
  <2>1. CASE pc' = [pc EXCEPT ![r] = "import"] /\ UNCHANGED <<saved, entry>>
    BY <1>2, <1>t, <2>1 DEF List, TypeOK, SavedType
  <2>2. CASE /\ \E i \in Matching(entry[r]) :
                   saved' = [saved EXCEPT ![r] = Remember(i, FALSE)]
             /\ Finish(r)
    <3>1. saved' \in [Resources -> SavedType \cup {Nothing}]
      BY <1>2, <1>t, <2>2, MatchingServes DEF List, Remember, SavedType
    <3> QED BY <1>2, <1>t, <1>g, <2>2, <3>1 DEF List, TypeOK, SavedType
  <2> QED BY <1>2, <2>1, <2>2 DEF List
<1>3. ASSUME NEW r \in Resources, Import(r) PROVE TypeOK'
  <2>1. /\ pc[r] = "import" /\ Download(r) /\ Finish(r)
        /\ saved' = [saved EXCEPT ![r] = Remember(nextId, TRUE)]
        /\ UNCHANGED <<published, want, lost, faults, drifts, edits>>
    BY <1>3 DEF Import
  <2>2. saved' \in [Resources -> SavedType \cup {Nothing}]
    BY <1>x, <1>t, <2>1, DownloadKeeps DEF Remember, SavedType
  <2>3. /\ DOMAIN kernels' \subseteq Ids /\ kernels' \in [DOMAIN kernels' -> Kernel]
        /\ nextId' \in 1 .. MaxId + 1
        /\ DOMAIN importer' \subseteq Ids /\ importer' \in [DOMAIN importer' -> Resources]
    BY <1>x, <1>t, <2>1, DownloadKeeps
  <2> QED BY <1>t, <1>g, <2>1, <2>2, <2>3 DEF TypeOK, SavedType
<1>4. ASSUME NEW r \in Resources, CreateFails(r) PROVE TypeOK'
  <2>1. /\ Finish(r) /\ faults' \in 0 .. MaxFaults
        /\ UNCHANGED <<published, saved, want, drifts, edits>>
    BY <1>4, <1>f DEF CreateFails
  <2>2. CASE UNCHANGED <<kernels, nextId, importer, lost>>
    BY <1>t, <1>g, <2>1, <2>2 DEF TypeOK, SavedType
  <2>3. CASE pc[r] = "import" /\ Download(r) /\ lost' = lost \cup {nextId}
    BY <1>x, <1>t, <1>g, <2>1, <2>3, DownloadKeeps DEF TypeOK, SavedType
  <2> QED BY <1>4, <2>2, <2>3 DEF CreateFails
<1>5. ASSUME NEW r \in Resources, Read(r) PROVE TypeOK'
  <2>1. saved' \in [Resources -> SavedType \cup {Nothing}]
    BY <1>5, <1>t DEF Read, Remember, SavedType
  <2> QED BY <1>5, <1>t, <2>1 DEF Read, TypeOK, SavedType
<1>d. ASSUME NEW r \in Resources, Drop(saved[r].id) \/ UNCHANGED kernels
      PROVE  DOMAIN kernels' \subseteq Ids /\ kernels' \in [DOMAIN kernels' -> Kernel]
  BY <1>d, <1>x, <1>t, DropKeeps
<1>6. ASSUME NEW r \in Resources, Delete(r) PROVE TypeOK'
  BY <1>6, <1>d, <1>t DEF Delete, TypeOK, SavedType
<1>7. ASSUME NEW r \in Resources, DeleteFails(r) PROVE TypeOK'
  BY <1>7, <1>d, <1>f, <1>t DEF DeleteFails, TypeOK, SavedType
<1>8. CASE Publish
  BY <1>8, <1>t DEF Publish, TypeOK, SavedType
<1>9. CASE Foreign
  <2>1. DOMAIN kernels' \subseteq Ids /\ kernels' \in [DOMAIN kernels' -> Kernel]
        /\ nextId' \in 1 .. MaxId + 1
    BY <1>9, <1>x, <1>t, KernelTypes, AddKernelKeeps, DropKeeps DEF Foreign
  <2>2. drifts' \in 0 .. MaxDrift
    BY <1>9, <1>t DEF Foreign
  <2> QED BY <1>9, <1>t, <2>1, <2>2 DEF Foreign, TypeOK, SavedType
<1>10. CASE Edit
  <2>1. want' \subseteq Resources /\ edits' \in 0 .. MaxEdits
    BY <1>10, <1>t DEF Edit
  <2> QED BY <1>10, <1>t, <2>1 DEF Edit, TypeOK, SavedType
<1>11. CASE UNCHANGED vars
  BY <1>11, <1>t DEF vars, TypeOK, SavedType
<1> QED
  BY <1>1, <1>2, <1>3, <1>4, <1>5, <1>6, <1>7, <1>8, <1>9, <1>10, <1>11 DEF Next, Create

(* Every variable has its type, for any resources and publications, as     *)
(* soon as one ID is left for the kernel that is there before.             *)
THEOREM TypeCorrect == Spec => []TypeOK
<1>1. Init => TypeOK
  <2> SUFFICES ASSUME Init PROVE TypeOK
    OBVIOUS
  <2>1. PICK k \in Preexisting :
          \/ kernels = [i \in {1} |-> k] /\ nextId = 2
          \/ kernels = [i \in {} |-> k] /\ nextId = 1
    BY DEF Init
  <2>2. /\ DOMAIN kernels \subseteq Ids /\ kernels \in [DOMAIN kernels -> Kernel]
        /\ nextId \in 1 .. MaxId + 1
    <3>1. k \in Kernel /\ 1 \in Ids
      BY KernelTypes, K3sKernelAssumption DEF Ids
    <3>2. CASE kernels = [i \in {1} |-> k] /\ nextId = 2
      BY <3>1, <3>2, K3sKernelAssumption
    <3>3. CASE kernels = [i \in {} |-> k] /\ nextId = 1
      BY <3>3, K3sKernelAssumption
    <3> QED BY <2>1, <3>2, <3>3
  <2> QED BY <2>2, K3sKernelAssumption DEF Init, TypeOK
<1> QED BY <1>1, TypeStep, PTL DEF Spec

-----------------------------------------------------------------------------
(* Who owns which kernel *)

(* IDs are handed out in order.                                            *)
Numbered ==
    /\ \A i \in DOMAIN kernels \cup DOMAIN importer : i < nextId
    /\ \A r \in Resources : saved[r].id < nextId

(* A Create runs while nothing is saved, for an entry that fits.           *)
Creating == \A r \in Resources : pc[r] # "idle" => saved[r] = Nothing /\ Fits(entry[r], r)

(* A kernel does not change while it is in the table.                      *)
Shown ==
    \A r \in Resources : saved[r].id \in DOMAIN kernels => saved[r].kernel = kernels[saved[r].id]

Ownership ==
    TypeOK /\ Numbered /\ Creating /\ Shown /\ SavedServes /\ OwnersDownloaded
    /\ DownloadsAccounted

Promises == Numbered /\ Creating /\ Shown /\ SavedServes /\ OwnersDownloaded /\ DownloadsAccounted

(* Steps after which no kernel is new, no Create has got further, and      *)
(* whatever is saved was saved.                                            *)
LEMMA Unchanging ==
    ASSUME Ownership, TypeOK',
           nextId' = nextId, importer' = importer, lost' = lost,
           DOMAIN kernels' \subseteq DOMAIN kernels,
           \A i \in DOMAIN kernels' : kernels'[i] = kernels[i],
           \A r \in Resources : saved'[r] \in {saved[r], Nothing},
           \A r \in Resources : saved'[r] # saved[r] /\ saved[r].managed =>
               saved[r].id \notin DOMAIN kernels' \/ saved[r].id \in IdsWith404,
           \A r \in Resources : pc'[r] # "idle" => pc[r] # "idle" /\ entry'[r] = entry[r]
    PROVE  Promises'
<1>t. \A r \in Resources : saved[r] \in SavedType \cup {Nothing}
  BY DEF Ownership, TypeOK, SavedType
<1>n. nextId \in Nat \ {0} /\ \A i \in DOMAIN importer : importer[i] \in Resources
  BY DEF Ownership, TypeOK
<1>1. Numbered'
  BY <1>t, <1>n, Distinct DEF Ownership, Numbered
<1>2. Creating'
  BY DEF Ownership, Creating, Fits
<1>3. Shown'
  <2> SUFFICES ASSUME NEW r \in Resources, saved'[r].id \in DOMAIN kernels'
               PROVE  saved'[r].kernel = kernels'[saved'[r].id]
    BY DEF Shown
  <2>1. saved'[r] # Nothing
    BY Distinct DEF TypeOK
  <2> QED BY <2>1 DEF Ownership, Shown
<1>4. SavedServes' /\ OwnersDownloaded'
  BY DEF Ownership, SavedServes, OwnersDownloaded, Fits
<1>5. DownloadsAccounted'
  <2> SUFFICES ASSUME NEW i \in DOMAIN importer \cap DOMAIN kernels', i \notin lost \cup IdsWith404
               PROVE  saved'[importer[i]].id = i /\ saved'[importer[i]].managed
    BY DEF DownloadsAccounted
  <2>1. importer[i] \in Resources /\ saved[importer[i]].id = i /\ saved[importer[i]].managed
    BY <1>n DEF Ownership, DownloadsAccounted
  <2> QED BY <2>1
<1> QED BY <1>1, <1>2, <1>3, <1>4, <1>5 DEF Promises

(* Every step keeps what is promised of the kernels.                       *)
LEMMA OwnershipStep ==
    ASSUME Ownership, [Next]_vars
    PROVE  Promises'
<1> USE DEF Ownership
<1>x. TypeOK /\ TypeOK'
  BY TypeStep
<1>t. /\ saved \in [Resources -> SavedType \cup {Nothing}]
      /\ pc \in [Resources -> {"idle", "list", "import"}]
      /\ entry \in [Resources -> Entries \cup {NoEntry}]
      /\ \A r \in Resources : pc[r] # "idle" => entry[r] \in Entries
      /\ DOMAIN kernels \subseteq Ids /\ nextId \in Nat \ {0}
      /\ importer \in [DOMAIN importer -> Resources]
      /\ drifts \in Nat
  BY <1>x DEF TypeOK, SavedType
<1>n. /\ \A q \in Resources : saved[q].id \in Nat /\ saved[q].id < nextId
      /\ \A i \in DOMAIN kernels \cup DOMAIN importer : i \in Nat /\ i < nextId
  <2>1. \A q \in Resources : saved[q].id \in Nat
    BY <1>t, Distinct DEF SavedType, Ids
  <2>2. DOMAIN kernels \cup DOMAIN importer \subseteq Nat
    BY <1>x DEF TypeOK, Ids
  <2> QED BY <2>1, <2>2 DEF Numbered
<1>1. ASSUME NEW r \in Resources, Discover(r) PROVE Promises'
  <2>1. PICK e \in Selected(r) : entry' = [entry EXCEPT ![r] = e]
    BY <1>1 DEF Discover
  <2>2. Fits(e, r)
    BY <1>x, <2>1, SelectedFits DEF TypeOK
  <2>3. UNCHANGED <<kernels, nextId, saved, importer, lost>> /\ saved[r] = Nothing
        /\ pc' = [pc EXCEPT ![r] = "list"]
    BY <1>1 DEF Discover
  <2>4. Creating'
    BY <1>t, <2>1, <2>2, <2>3 DEF Creating, Fits
  <2>5. Numbered' /\ Shown' /\ SavedServes' /\ OwnersDownloaded' /\ DownloadsAccounted'
    BY <2>3 DEF Numbered, Shown, SavedServes, OwnersDownloaded, DownloadsAccounted, Fits
  <2> QED BY <2>4, <2>5 DEF Promises
<1>2. ASSUME NEW r \in Resources, List(r) PROVE Promises'
  <2>1. UNCHANGED <<kernels, nextId, importer, lost>> /\ saved[r] = Nothing
        /\ entry[r] \in Entries /\ Fits(entry[r], r)
    BY <1>2, <1>t DEF List, Creating
  <2>2. CASE pc' = [pc EXCEPT ![r] = "import"] /\ UNCHANGED <<saved, entry>>
    BY <1>x, <1>t, <2>1, <2>2, Unchanging, <1>2 DEF List
  <2>3. CASE /\ \E i \in Matching(entry[r]) :
                   saved' = [saved EXCEPT ![r] = Remember(i, FALSE)]
             /\ Finish(r)
    <3>1. PICK i \in Matching(entry[r]) : saved' = [saved EXCEPT ![r] = Remember(i, FALSE)]
      BY <2>3
    <3>2. /\ i \in DOMAIN kernels /\ kernels[i].k3s /\ kernels[i].arch = entry[r].arch
          /\ \/ kernels[i].name = entry[r].name
             \/ entry[r].version \in {kernels[i].version} \ {Unversioned}
      BY MatchingServes
    <3>3. saved'[r].id = i /\ saved'[r].kernel = kernels[i] /\ saved'[r].managed = FALSE
      BY <1>t, <2>1, <3>1 DEF Remember
    <3>4. \A q \in Resources \ {r} : saved'[q] = saved[q]
      BY <1>t, <3>1
    <3>5. Numbered' /\ Shown'
      BY <2>1, <3>2, <3>3, <3>4 DEF Numbered, Shown
    <3>6. Creating'
      BY <1>t, <2>3, <3>4 DEF Creating, Finish, Fits
    <3>7. SavedServes'
      BY <2>1, <3>2, <3>3, <3>4 DEF SavedServes, Fits
    <3>8. OwnersDownloaded'
      BY <2>1, <3>3, <3>4 DEF OwnersDownloaded
    <3>9. DownloadsAccounted'
      BY <1>t, <2>1, <3>4, Distinct DEF DownloadsAccounted
    <3> QED BY <3>5, <3>6, <3>7, <3>8, <3>9 DEF Promises
  <2> QED BY <1>2, <2>2, <2>3 DEF List
(* A download adds one kernel, which nobody else can have. *)
<1>d. ASSUME NEW r \in Resources, pc[r] = "import", Download(r), Finish(r),
             \/ saved' = [saved EXCEPT ![r] = Remember(nextId, TRUE)] /\ lost' = lost
             \/ saved' = saved /\ lost' = lost \cup {nextId}
      PROVE  Promises'
  <2>k. TypeOK /\ pc[r] = "import" /\ Download(r)
    BY <1>d, <1>x
  <2>a. /\ nextId' = nextId + 1 /\ DOMAIN kernels' = DOMAIN kernels \cup {nextId}
        /\ \A i \in DOMAIN kernels \ {nextId} : kernels'[i] = kernels[i]
        /\ DOMAIN importer' = DOMAIN importer \cup {nextId} /\ importer'[nextId] = r
        /\ \A i \in DOMAIN importer \ {nextId} : importer'[i] = importer[i]
        /\ kernels'[nextId] = [name |-> entry[r].name, version |-> entry[r].version,
                               arch |-> entry[r].arch, k3s |-> TRUE]
    BY ONLY <2>k, DownloadKeeps
  <2>b. nextId \notin DOMAIN kernels \cup DOMAIN importer
    BY <1>t DEF Numbered
  <2>1. /\ nextId' = nextId + 1 /\ nextId \notin DOMAIN kernels \cup DOMAIN importer
        /\ DOMAIN kernels' = DOMAIN kernels \cup {nextId}
        /\ \A i \in DOMAIN kernels : kernels'[i] = kernels[i]
        /\ DOMAIN importer' = DOMAIN importer \cup {nextId} /\ importer'[nextId] = r
        /\ \A i \in DOMAIN importer : importer'[i] = importer[i]
    BY <2>a, <2>b
  <2>2. /\ kernels'[nextId].k3s /\ kernels'[nextId].arch = entry[r].arch
        /\ kernels'[nextId].name = entry[r].name
    BY <2>a
  <2>3. saved[r] = Nothing /\ entry[r] \in Entries /\ Fits(entry[r], r)
    BY <1>d, <1>t DEF Creating
  <2>4. \/ /\ saved'[r].id = nextId /\ saved'[r].managed /\ saved'[r].kernel = kernels'[nextId]
           /\ lost' = lost
        \/ saved'[r] = Nothing /\ lost' = lost \cup {nextId}
    BY <1>d, <1>t, <2>3 DEF Remember
  <2>5. \A q \in Resources \ {r} : saved'[q] = saved[q]
    BY <1>d, <1>t
  <2>6. Numbered'
    BY <1>t, <1>n, <2>1, <2>4, <2>5, Distinct DEF Numbered
  <2>7. Shown'
    <3> SUFFICES ASSUME NEW q \in Resources, saved'[q].id \in DOMAIN kernels'
                 PROVE  saved'[q].kernel = kernels'[saved'[q].id]
      BY DEF Shown
    <3>1. CASE q = r
      BY <1>t, <1>x, <2>1, <2>4, <3>1, Distinct DEF TypeOK
    <3>2. CASE q # r
      BY <1>t, <2>1, <2>5, <3>2 DEF Numbered, Shown
    <3> QED BY <3>1, <3>2
  <2>8. Creating'
    BY <1>t, <1>d, <2>5 DEF Creating, Finish, Fits
  <2>9. SavedServes'
    BY <2>2, <2>3, <2>4, <2>5 DEF SavedServes, Fits
  <2>10. OwnersDownloaded'
    BY <2>1, <2>4, <2>5 DEF OwnersDownloaded
  <2>11. DownloadsAccounted'
    BY <1>t, <2>1, <2>3, <2>4, <2>5, Distinct DEF DownloadsAccounted, Numbered
  <2> QED BY <2>6, <2>7, <2>8, <2>9, <2>10, <2>11 DEF Promises
<1>3. ASSUME NEW r \in Resources, Import(r) PROVE Promises'
  BY <1>3, <1>d DEF Import
<1>4. ASSUME NEW r \in Resources, CreateFails(r) PROVE Promises'
  <2>1. CASE UNCHANGED <<kernels, nextId, importer, lost>>
    BY <1>4, <1>x, <1>t, <2>1, Unchanging DEF CreateFails, Finish
  <2>2. CASE pc[r] = "import" /\ Download(r) /\ lost' = lost \cup {nextId}
    BY <1>4, <1>d, <2>2 DEF CreateFails
  <2> QED BY <1>4, <2>1, <2>2 DEF CreateFails
<1>5. ASSUME NEW r \in Resources, Read(r) PROVE Promises'
  <2>1. saved'[r] \in {saved[r], Nothing}
    <3>1. CASE saved[r].id \in DOMAIN kernels
      <4>1. saved[r].kernel = kernels[saved[r].id] /\ saved[r] \in SavedType
        BY <1>5, <1>t, <3>1 DEF Read, Shown
      <4>2. Remember(saved[r].id, saved[r].managed) = saved[r]
        BY <1>5, <4>1 DEF Read, Remember, SavedType
      <4> QED BY <1>5, <1>t, <3>1, <4>2 DEF Read
    <3>2. CASE saved[r].id \notin DOMAIN kernels
      BY <1>5, <1>t, <3>2 DEF Read
    <3> QED BY <3>1, <3>2
  <2>2. saved'[r] # saved[r] => saved[r].id \notin DOMAIN kernels'
    BY <1>5, <1>t, <2>1, Distinct DEF Read, Shown, Remember, SavedType
  <2>3. \A q \in Resources \ {r} : saved'[q] = saved[q]
    BY <1>5, <1>t DEF Read
  <2> QED BY <1>5, <1>x, <2>1, <2>2, <2>3, Unchanging DEF Read
<1>6. ASSUME NEW r \in Resources, Delete(r) PROVE Promises'
  <2>1. /\ DOMAIN kernels' \subseteq DOMAIN kernels
        /\ \A i \in DOMAIN kernels' : kernels'[i] = kernels[i]
        /\ saved[r].managed => saved[r].id \notin DOMAIN kernels'
    BY <1>6, <1>x, DropKeeps DEF Delete, ShouldDeleteOnDestroy
  <2> QED BY <1>6, <1>x, <1>t, <2>1, Unchanging DEF Delete
<1>7. ASSUME NEW r \in Resources, DeleteFails(r) PROVE Promises'
  <2>1. /\ DOMAIN kernels' \subseteq DOMAIN kernels
        /\ \A i \in DOMAIN kernels' : kernels'[i] = kernels[i]
    BY <1>7, <1>x, DropKeeps DEF DeleteFails
  <2>2. \A q \in Resources : /\ saved'[q] \in {saved[q], Nothing}
                             /\ saved'[q] # saved[q] => saved[q].id \in IdsWith404
    BY <1>7, <1>t DEF DeleteFails, TakenFor404
  <2> QED BY <1>7, <1>x, <2>1, <2>2, Unchanging DEF DeleteFails
<1>8. CASE Publish \/ Edit \/ UNCHANGED vars
  BY <1>8, <1>x, Unchanging DEF Publish, Edit, vars
<1>9. CASE Foreign
  <2>1. CASE \E i \in DOMAIN kernels : Drop(i) /\ UNCHANGED nextId
    BY <1>9, <1>x, <2>1, Unchanging, DropKeeps DEF Foreign
  <2>2. CASE \E k \in Preexisting : AddKernel(k)
    <3>1. /\ nextId' = nextId + 1 /\ DOMAIN kernels' = DOMAIN kernels \cup {nextId}
          /\ nextId \notin DOMAIN kernels \cup DOMAIN importer
          /\ \A i \in DOMAIN kernels : kernels'[i] = kernels[i]
      <4>1. PICK k \in Preexisting : AddKernel(k)
        BY <2>2
      <4>2. TypeOK
        BY <1>x
      <4>3. /\ nextId' = nextId + 1 /\ DOMAIN kernels' = DOMAIN kernels \cup {nextId}
            /\ \A i \in DOMAIN kernels \ {nextId} : kernels'[i] = kernels[i]
        BY ONLY <4>1, <4>2, AddKernelKeeps
      <4> QED BY <1>t, <1>n, <4>3
    <3>2. UNCHANGED <<saved, pc, entry, importer, lost>>
      BY <1>9 DEF Foreign
    <3>3. Numbered' /\ Shown'
      BY <1>t, <1>n, <3>1, <3>2 DEF Numbered, Shown
    <3>4. Creating' /\ SavedServes' /\ OwnersDownloaded'
      BY <3>2 DEF Creating, SavedServes, OwnersDownloaded, Fits
    <3>5. DownloadsAccounted'
      BY <1>t, <3>1, <3>2 DEF DownloadsAccounted
    <3> QED BY <3>3, <3>4, <3>5 DEF Promises
  <2> QED BY <1>9, <2>1, <2>2 DEF Foreign
<1> QED
  BY <1>1, <1>2, <1>3, <1>4, <1>5, <1>6, <1>7, <1>8, <1>9 DEF Next, Create

(* Together they hold in every reachable state.                            *)
LEMMA AlwaysOwned == Spec => []Ownership
<1>1. Init => Promises
  <2> SUFFICES ASSUME Init PROVE Promises
    OBVIOUS
  <2>1. /\ DOMAIN kernels \subseteq {1} /\ nextId \in {1, 2} /\ importer = [i \in {} |-> {}]
        /\ 1 \in DOMAIN kernels => nextId = 2
        /\ \A r \in Resources : saved[r] = Nothing /\ pc[r] = "idle"
    BY DEF Init
  <2>2. Numbered
    BY <2>1, Distinct DEF Numbered
  <2>3. Creating /\ Shown /\ SavedServes /\ OwnersDownloaded /\ DownloadsAccounted
    BY <2>1, Distinct DEF Creating, Shown, SavedServes, OwnersDownloaded, DownloadsAccounted
  <2> QED BY <2>2, <2>3 DEF Promises
<1>2. TypeOK /\ Promises /\ [Next]_vars => Promises'
  BY OwnershipStep DEF Ownership, Promises
<1>3. TypeOK /\ Promises => Ownership
  BY DEF Ownership, Promises
<1> QED BY <1>1, <1>2, <1>3, TypeCorrect, PTL DEF Spec

(* What a resource has saved serves what it asks for, for any publications.*)
THEOREM Serves == Spec => []SavedServes
<1>1. Ownership => SavedServes
  BY DEF Ownership
<1> QED BY <1>1, AlwaysOwned, PTL

(* A managed kernel was downloaded by the one resource that has it so, for *)
(* any number of resources and however their requests interleave.          *)
THEOREM Owners == Spec => []OwnersDownloaded
<1>1. Ownership => OwnersDownloaded
  BY DEF Ownership
<1> QED BY <1>1, AlwaysOwned, PTL

(* A downloaded kernel is in the table only as long as its resource owns   *)
(* it, or an unanswered import or a misread error explains it.             *)
THEOREM Downloads == Spec => []DownloadsAccounted
<1>1. Ownership => DownloadsAccounted
  BY DEF Ownership
<1> QED BY <1>1, AlwaysOwned, PTL

(* The provider removes no kernel that it did not download itself.         *)
THEOREM OthersSurvive == Spec => OthersKernelsSurvive
<1>1. Ownership /\ [Next]_vars
        => [drifts' = drifts => DOMAIN kernels \ DOMAIN kernels' \subseteq DOMAIN importer]_vars
  <2> SUFFICES ASSUME Ownership, Next, drifts' = drifts
               PROVE  DOMAIN kernels \ DOMAIN kernels' \subseteq DOMAIN importer
    OBVIOUS
  <2> USE DEF Ownership
  <2>1. ASSUME NEW r \in Resources, Delete(r) \/ DeleteFails(r)
        PROVE  DOMAIN kernels \ DOMAIN kernels' \subseteq DOMAIN importer
    <3>1. CASE kernels' = kernels
      BY <3>1
    <3>2. CASE saved[r].managed /\ saved[r] # Nothing /\ Drop(saved[r].id)
      <4>1. saved[r].id \in DOMAIN importer
        BY <3>2 DEF OwnersDownloaded
      <4> QED BY <3>2, <4>1, DropKeeps
    <3> QED BY <2>1, <3>1, <3>2 DEF Delete, DeleteFails, ShouldDeleteOnDestroy
  <2>2. ASSUME NEW r \in Resources, Create(r) \/ Read(r)
        PROVE  DOMAIN kernels \ DOMAIN kernels' \subseteq DOMAIN importer
    BY <2>2, AddKernelKeeps DEF Create, Discover, List, Import, CreateFails, Download, Read
  <2>3. CASE Publish \/ Edit
    BY <2>3 DEF Publish, Edit
  <2>4. ~Foreign
    BY DEF Foreign, TypeOK
  <2> QED BY <2>1, <2>2, <2>3, <2>4 DEF Next
<1> QED BY <1>1, AlwaysOwned, PTL DEF Spec, OthersKernelsSurvive
=============================================================================
