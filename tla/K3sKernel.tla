----------------------------- MODULE K3sKernel -----------------------------
(***************************************************************************)
(* The lattice_k3s_kernel resource (resource_k3s_kernel.go).  Several      *)
(* resources share the controller's table of imported kernels: Create      *)
(* reuses a kernel of the table when one matches and downloads one when    *)
(* none does, and only a resource that downloaded its kernel deletes it.   *)
(* Terraform runs the handlers of different resources concurrently, and    *)
(* Create looks (discover, then list) before it leaps (import), so each    *)
(* request is a step.                                                      *)
(*                                                                         *)
(* Every attribute forces replacement, so Update never runs.  A kernel's   *)
(* distro is reduced to whether it is "latticeve-k3s".                     *)
(***************************************************************************)
EXTENDS Integers, Sequences, FiniteSets

CONSTANTS
    Resources,    \* the lattice_k3s_kernel resources
    Arch,         \* their arch, a function
    Version,      \* their version, a function; AnyVersion when left out
    Publications, \* the lists DiscoverK3sKernels returns, one after the other
    Preexisting,  \* kernels imported by other means: [name, version, arch, k3s]
    IdsWith404,   \* the kernel IDs in whose text "404" occurs
    MaxId,        \* bound on the kernel IDs
    MaxFaults,    \* bound on refused and unanswered requests
    MaxDrift,     \* bound on kernels other operators add and remove
    MaxEdits      \* bound on changes of the configuration

AnyVersion == ""
Unversioned == ""    \* the version of an entry that has none
Ids == 1 .. MaxId
Entries == UNION {{p[n] : n \in DOMAIN p} :
                     p \in {Publications[m] : m \in DOMAIN Publications}}
Names == {e.name : e \in Entries \cup Preexisting}

ASSUME K3sKernelAssumption ==
    /\ MaxId \in Nat \ {0} /\ MaxFaults \in Nat /\ MaxDrift \in Nat /\ MaxEdits \in Nat
    /\ DOMAIN Arch = Resources /\ DOMAIN Version = Resources
    /\ Len(Publications) \in Nat \ {0} /\ DOMAIN Publications = 1 .. Len(Publications)
    /\ \A k \in Preexisting :
          k \in [name : {k.name}, version : {k.version}, arch : {k.arch}, k3s : BOOLEAN]
    /\ IdsWith404 \subseteq Ids

VARIABLES
    kernels,   \* the kernel table: a function from IDs
    nextId,    \* the next ID the controller hands out
    published, \* the index of the present publication
    saved,     \* for each resource, what Terraform has saved
    want,      \* the resources that are configured
    pc,        \* for each resource: "idle", "list", "import"
    entry,     \* for each running Create, the discovery entry it selected
    importer,  \* history: for each kernel a Create downloaded, the resource
    lost,      \* history: kernels whose import answer or removal got lost
    faults, drifts, edits

vars == <<kernels, nextId, published, saved, want, pc, entry, importer, lost,
          faults, drifts, edits>>

Nothing == [id |-> 0]       \* no saved state
NoEntry == [name |-> ""]    \* no entry selected

Fault == faults < MaxFaults /\ faults' = faults + 1

-----------------------------------------------------------------------------
(* selectK3sKernelDiscoveryEntry: the first entry that fits *)

Fits(e, r) == e.arch = Arch[r] /\ Version[r] \in {AnyVersion, e.version}

Selected(r) ==
    LET list == Publications[published] IN
    {list[n] : n \in {n \in DOMAIN list :
        Fits(list[n], r) /\ \A m \in 1 .. n - 1 : ~Fits(list[m], r)}}

(* Mutant: the architecture is not compared. *)
MatchingAnyArch(e) ==
    LET byName == {i \in DOMAIN kernels : kernels[i].k3s /\ kernels[i].name = e.name}
    IN IF byName # {} THEN byName
       ELSE {i \in DOMAIN kernels :
                /\ kernels[i].k3s
                /\ e.version # Unversioned /\ kernels[i].version = e.version}

(* findExistingK3sKernel: a kernel of the right distro and architecture    *)
(* with the entry's name, else one with its version, if it has one.        *)
Matching(e) ==
    LET candidates == {i \in DOMAIN kernels : kernels[i].k3s /\ kernels[i].arch = e.arch}
        byName == {i \in candidates : kernels[i].name = e.name}
    IN IF byName # {} THEN byName
       ELSE {i \in candidates :
                e.version # Unversioned /\ kernels[i].version = e.version}

AddKernel(k) ==
    /\ nextId <= MaxId
    /\ kernels' = [i \in DOMAIN kernels \cup {nextId} |->
                      IF i = nextId THEN k ELSE kernels[i]]
    /\ nextId' = nextId + 1

Drop(i) == kernels' = [j \in DOMAIN kernels \ {i} |-> kernels[j]]

Download(r) ==
    /\ AddKernel([name |-> entry[r].name, version |-> entry[r].version,
                  arch |-> entry[r].arch, k3s |-> TRUE])
    /\ importer' = [i \in DOMAIN importer \cup {nextId} |->
                       IF i = nextId THEN r ELSE importer[i]]

Remember(i, managed) == [id |-> i, kernel |-> kernels'[i], managed |-> managed]

(* Mutant: the selected entry outlives its Create. *)
FinishKeepingEntry(r) == pc' = [pc EXCEPT ![r] = "idle"] /\ UNCHANGED entry

Finish(r) == pc' = [pc EXCEPT ![r] = "idle"] /\ entry' = [entry EXCEPT ![r] = NoEntry]

-----------------------------------------------------------------------------
(* Create *)

Discover(r) ==
    /\ pc[r] = "idle" /\ r \in want /\ saved[r] = Nothing
    /\ \E e \in Selected(r) : entry' = [entry EXCEPT ![r] = e]
    /\ pc' = [pc EXCEPT ![r] = "list"]
    /\ UNCHANGED <<kernels, nextId, published, saved, want, importer, lost,
                   faults, drifts, edits>>

(* Mutant: a reused kernel is recorded as downloaded. *)
ListOwning(r) ==
    /\ pc[r] = "list"
    /\ UNCHANGED kernels
    /\ IF Matching(entry[r]) = {}
       THEN pc' = [pc EXCEPT ![r] = "import"] /\ UNCHANGED <<saved, entry>>
       ELSE /\ \E i \in Matching(entry[r]) :
                  saved' = [saved EXCEPT ![r] = Remember(i, TRUE)]
            /\ Finish(r)
    /\ UNCHANGED <<nextId, published, want, importer, lost, faults, drifts, edits>>

List(r) ==
    /\ pc[r] = "list"
    /\ UNCHANGED kernels
    /\ IF Matching(entry[r]) = {}
       THEN pc' = [pc EXCEPT ![r] = "import"] /\ UNCHANGED <<saved, entry>>
       ELSE /\ \E i \in Matching(entry[r]) :
                  saved' = [saved EXCEPT ![r] = Remember(i, FALSE)]
            /\ Finish(r)
    /\ UNCHANGED <<nextId, published, want, importer, lost, faults, drifts, edits>>

Import(r) ==
    /\ pc[r] = "import"
    /\ Download(r)
    /\ saved' = [saved EXCEPT ![r] = Remember(nextId, TRUE)]
    /\ Finish(r)
    /\ UNCHANGED <<published, want, lost, faults, drifts, edits>>

(* A request of Create fails.  The download can be longer than the client  *)
(* waits for its answer; the kernel is imported all the same.              *)
CreateFails(r) ==
    /\ pc[r] # "idle"
    /\ Fault
    /\ \/ UNCHANGED <<kernels, nextId, importer, lost>>
       \/ pc[r] = "import" /\ Download(r) /\ lost' = lost \cup {nextId}
    /\ Finish(r)
    /\ UNCHANGED <<published, saved, want, drifts, edits>>

-----------------------------------------------------------------------------
(* Read *)

(* Mutant: a kernel that is gone is kept in the state. *)
ReadKeepsLost(r) ==
    /\ pc[r] = "idle" /\ saved[r] # Nothing
    /\ UNCHANGED kernels
    /\ saved' = [saved EXCEPT ![r] =
                    IF @.id \in DOMAIN kernels THEN Remember(@.id, @.managed) ELSE @]
    /\ UNCHANGED <<nextId, published, want, pc, entry, importer, lost,
                   faults, drifts, edits>>

(* A refused listing changes nothing. *)
Read(r) ==
    /\ pc[r] = "idle" /\ saved[r] # Nothing
    /\ UNCHANGED kernels
    /\ saved' = [saved EXCEPT ![r] =
                    IF @.id \in DOMAIN kernels THEN Remember(@.id, @.managed) ELSE Nothing]
    /\ UNCHANGED <<nextId, published, want, pc, entry, importer, lost,
                   faults, drifts, edits>>

-----------------------------------------------------------------------------
(* Delete *)

(* Mutant: every kernel is deleted on destroy. *)
AlwaysDeleteOnDestroy(r) == TRUE

(* In a state that was written without the flag, which no handler does any *)
(* more, the code takes it to be set; here every state has it.             *)
ShouldDeleteOnDestroy(r) == saved[r].managed

(* A kernel that is not there any more is "HTTP 404", which is no error. *)
Delete(r) ==
    /\ pc[r] = "idle" /\ r \notin want /\ saved[r] # Nothing
    /\ IF ShouldDeleteOnDestroy(r) THEN Drop(saved[r].id) ELSE UNCHANGED kernels
    /\ saved' = [saved EXCEPT ![r] = Nothing]
    /\ UNCHANGED <<nextId, published, want, pc, entry, importer, lost,
                   faults, drifts, edits>>

(* Mutant: every error of a Delete is taken for "not found". *)
AnyErrorIs404(i) == TRUE

(* The error of a request that got no answer names the URL, and so the ID. *)
TakenFor404(i) == i \in IdsWith404

DeleteFails(r) ==
    /\ pc[r] = "idle" /\ r \notin want /\ saved[r] # Nothing
    /\ ShouldDeleteOnDestroy(r)
    /\ Fault
    /\ UNCHANGED kernels \/ Drop(saved[r].id)
    /\ saved' = [saved EXCEPT ![r] = IF TakenFor404(@.id) THEN Nothing ELSE @]
    /\ UNCHANGED <<nextId, published, want, pc, entry, importer, lost, drifts, edits>>

-----------------------------------------------------------------------------
(* Publishers, other operators, and the user *)

Publish ==
    /\ published < Len(Publications)
    /\ published' = published + 1
    /\ UNCHANGED <<kernels, nextId, saved, want, pc, entry, importer, lost,
                   faults, drifts, edits>>

Foreign ==
    /\ drifts < MaxDrift /\ drifts' = drifts + 1
    /\ \/ \E k \in Preexisting : AddKernel(k)
       \/ \E i \in DOMAIN kernels : Drop(i) /\ UNCHANGED nextId
    /\ UNCHANGED <<published, saved, want, pc, entry, importer, lost, faults, edits>>

Edit ==
    /\ edits < MaxEdits /\ edits' = edits + 1
    /\ \E r \in Resources :
          /\ pc[r] = "idle"
          /\ want' = IF r \in want THEN want \ {r} ELSE want \cup {r}
    /\ UNCHANGED <<kernels, nextId, published, saved, pc, entry, importer, lost,
                   faults, drifts>>

Init ==
    /\ \E k \in Preexisting :
          \/ kernels = [i \in {1} |-> k] /\ nextId = 2
          \/ kernels = [i \in {} |-> k] /\ nextId = 1
    /\ published = 1
    /\ saved = [r \in Resources |-> Nothing]
    /\ want \in SUBSET Resources
    /\ pc = [r \in Resources |-> "idle"]
    /\ entry = [r \in Resources |-> NoEntry]
    /\ importer = [i \in {} |-> {}] /\ lost = {}
    /\ faults = 0 /\ drifts = 0 /\ edits = 0

Create(r) == Discover(r) \/ List(r) \/ Import(r) \/ CreateFails(r)

Next ==
    \/ \E r \in Resources : Create(r) \/ Read(r) \/ Delete(r) \/ DeleteFails(r)
    \/ Publish \/ Foreign \/ Edit

Spec == Init /\ [][Next]_vars

(* Handlers run to their end, and the user applies, after a refresh, again *)
(* and again.                                                              *)
FairSpec ==
    /\ Spec
    /\ \A r \in Resources :
          WF_vars(Create(r)) /\ WF_vars(Delete(r)) /\ SF_vars(Read(r))

-----------------------------------------------------------------------------
(* Properties *)

Kernel == [name : Names, version : {e.version : e \in Entries \cup Preexisting},
           arch : {e.arch : e \in Entries \cup Preexisting}, k3s : BOOLEAN]

(* Every variable has its type. *)
TypeOK ==
    /\ DOMAIN kernels \subseteq Ids /\ kernels \in [DOMAIN kernels -> Kernel]
    /\ nextId \in 1 .. MaxId + 1
    /\ published \in DOMAIN Publications
    /\ saved \in [Resources -> [id : Ids, kernel : Kernel, managed : BOOLEAN]
                               \cup {Nothing}]
    /\ want \subseteq Resources
    /\ pc \in [Resources -> {"idle", "list", "import"}]
    /\ entry \in [Resources -> Entries \cup {NoEntry}]
    /\ \A r \in Resources : entry[r] \in IF pc[r] = "idle" THEN {NoEntry} ELSE Entries
    /\ DOMAIN importer \subseteq Ids /\ importer \in [DOMAIN importer -> Resources]
    /\ lost \subseteq Ids
    /\ faults \in 0 .. MaxFaults /\ drifts \in 0 .. MaxDrift /\ edits \in 0 .. MaxEdits

(* A kernel that a resource has saved is of the distro and architecture    *)
(* that the resource asks for, and has the name or the version of a        *)
(* published kernel that fits its request (having no version is none).     *)
SavedServes ==
    \A r \in Resources : saved[r] # Nothing =>
        /\ saved[r].kernel.k3s /\ saved[r].kernel.arch = Arch[r]
        /\ \E e \in Entries : /\ Fits(e, r)
                              /\ \/ e.name = saved[r].kernel.name
                                 \/ e.version \in {saved[r].kernel.version} \ {Unversioned}

(* A managed kernel was downloaded by the resource that has it so: no two  *)
(* resources own one kernel, and nobody owns one that was there before.    *)
OwnersDownloaded ==
    \A r \in Resources : saved[r] # Nothing =>
        (saved[r].managed => /\ saved[r].id \in DOMAIN importer
                             /\ importer[saved[r].id] = r)

(* A kernel that a Create downloaded is in the table only as long as the   *)
(* resource owns it, or its import was not answered, or the answer to its  *)
(* removal was taken for "404".                                            *)
DownloadsAccounted ==
    \A i \in DOMAIN importer \cap DOMAIN kernels :
        \/ saved[importer[i]].id = i /\ saved[importer[i]].managed
        \/ i \in lost \cup IdsWith404

(* The provider removes no kernel that it did not download itself: neither *)
(* one it reused nor one that another operator imported.                   *)
OthersKernelsSurvive ==
    [][drifts' = drifts => DOMAIN kernels \ DOMAIN kernels' \subseteq DOMAIN importer]_vars

(* Repeated applies end with a kernel in the table for every configured    *)
(* resource, also when the resource that owned a shared one is destroyed.  *)
KernelsConverge ==
    <>[](\A r \in Resources :
            IF r \in want THEN saved[r].id \in DOMAIN kernels ELSE saved[r] = Nothing)
=============================================================================
