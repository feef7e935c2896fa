------------------------ MODULE KernelCatalogImport ------------------------
(***************************************************************************)
(* The lattice_kernel_catalog_import resource                              *)
(* (resource_kernel_catalog_import.go).  Create asks the controller to     *)
(* import a catalog entry, which it does in the background, polls the      *)
(* status of the entry until it shows the entry as imported or an error,   *)
(* and then looks for the kernel, whose ID is the entry's, in the table.   *)
(* Two resources can name one entry; Terraform runs their handlers         *)
(* concurrently, and the import goes on when a Create has given up.        *)
(*                                                                         *)
(* Each request is a step; it can be refused, or be carried out while its  *)
(* answer is lost.  What a kernel is called and how large it is only       *)
(* follows its entry, and is left out.                                     *)
(***************************************************************************)
EXTENDS Naturals

CONSTANTS
    Resources,   \* the lattice_kernel_catalog_import resources
    Entries,     \* the entries of the catalog, which are the IDs of kernels
    Refusals,    \* the sets of entries ("running", "imported") whose import the
                 \* controller may refuse to start again
    Staleness,   \* may a status be stale between a request and its effect?
    IdsWith404,  \* the entries in whose ID "404" occurs
    MaxFaults,   \* bound on failed requests and failed imports
    MaxDrift,    \* bound on kernels that other operators add and remove
    MaxEdits     \* bound on changes of the configuration

None == "none"

ASSUME CatalogAssumption ==
    /\ None \notin Entries /\ IdsWith404 \subseteq Entries
    /\ Refusals \subseteq SUBSET {"running", "imported"} /\ Staleness \subseteq BOOLEAN
    /\ MaxFaults \in Nat /\ MaxDrift \in Nat /\ MaxEdits \in Nat

VARIABLES
    kernels,  \* the entries in the kernel table
    work,     \* the entries that are being imported
    failed,   \* the entries whose status shows an error
    ghosts,   \* the entries shown as imported that are not in the table
    refuses, stale, \* the controller's choice of Refusals and Staleness
    want,     \* for each resource, the configured entry
    saved,    \* for each resource, the entry Terraform has saved
    fresh,    \* for each resource, has this apply refreshed it?
    pc,       \* for each resource: "idle", "polling", "listing"
    result,   \* for each resource, how its last handler ended
    setback,  \* history: the resources of whose entry an import failed, or the
              \* kernel was removed, since their Create asked for it
    left,     \* history: the entries that a Create which ended in an error left
              \* imported, or being imported, until a resource saves them
    foreign,  \* history: the entries that other operators imported, likewise
    faults, drifts, edits

status == <<failed, ghosts>>
controller == <<kernels, work, status, refuses, stale>>
history == <<setback, left, foreign>>
bounds == <<faults, drifts, edits>>
vars == <<controller, want, saved, fresh, pc, result, history, bounds>>

Fault == faults < MaxFaults /\ faults' = faults + 1

Ends(r, how) ==
    /\ pc' = [pc EXCEPT ![r] = "idle"]
    /\ result' = [result EXCEPT ![r] = how]

(* An error ends the apply of the resource. *)
Fail(r, how) == Ends(r, how) /\ fresh' = [fresh EXCEPT ![r] = FALSE]

(* The resources whose Create waits for entry e. *)
Waiting(e) == {r \in Resources : pc[r] # "idle" /\ want[r] = e}

AddKernel(e) == kernels' = kernels \cup {e} /\ ghosts' = ghosts \ {e}

RemoveKernel(e) ==
    /\ kernels' = kernels \ {e}
    /\ ghosts' = IF stale /\ e \in kernels THEN ghosts \cup {e} ELSE ghosts
    /\ setback' = setback \cup Waiting(e)

-----------------------------------------------------------------------------
(* The controller's imports *)

Refused(e) ==
    \/ e \in work /\ "running" \in refuses
    \/ e \in kernels /\ "imported" \in refuses

(* An import that need not be started leaves everything as it is. *)
StartImport(e) ==
    /\ ~Refused(e)
    /\ IF e \in work \cup kernels
       THEN UNCHANGED <<work, status>>
       ELSE /\ work' = work \cup {e}
            /\ IF stale THEN UNCHANGED status
               ELSE failed' = failed \ {e} /\ ghosts' = ghosts \ {e}

(* The status of an import that has begun is its own. *)
ImportBegins(e) ==
    /\ e \in work /\ e \in failed \cup ghosts
    /\ failed' = failed \ {e} /\ ghosts' = ghosts \ {e}
    /\ UNCHANGED <<kernels, work, refuses, stale, want, saved, fresh, pc, result, history,
                   bounds>>

ImportEnds(e) ==
    /\ e \in work \ (failed \cup ghosts)
    /\ work' = work \ {e}
    /\ \/ AddKernel(e) /\ UNCHANGED <<failed, setback, faults>>
       \/ /\ Fault /\ failed' = failed \cup {e} /\ UNCHANGED <<kernels, ghosts>>
          /\ setback' = setback \cup Waiting(e)
    /\ UNCHANGED <<refuses, stale, want, saved, fresh, pc, result, left, foreign,
                   drifts, edits>>

Worker(e) == ImportBegins(e) \/ ImportEnds(e)

-----------------------------------------------------------------------------
(* Create *)

CreateDue(r) ==
    pc[r] = "idle" /\ fresh[r] /\ want[r] # None /\ saved[r] = None

Import(r) ==
    /\ CreateDue(r)
    /\ StartImport(want[r])
    /\ pc' = [pc EXCEPT ![r] = "polling"] /\ result' = [result EXCEPT ![r] = "ok"]
    /\ setback' = setback \ {r}
    /\ UNCHANGED <<kernels, refuses, stale, want, saved, fresh, left, foreign, bounds>>

ImportRefused(r) ==
    /\ CreateDue(r) /\ Refused(want[r])
    /\ Fail(r, "error")
    /\ UNCHANGED <<controller, want, saved, history, bounds>>

(* A Create that does not succeed leaves what it began. *)
Leave(r, importing) ==
    left' = left \cup ({want[r]} \cap (importing \cup kernels))

ImportFails(r) ==
    /\ CreateDue(r) /\ Fault
    /\ UNCHANGED <<work, status>> \/ StartImport(want[r])
    /\ Fail(r, "error") /\ Leave(r, work')
    /\ UNCHANGED <<kernels, refuses, stale, want, saved, setback, foreign, drifts, edits>>

Imported(r) == want[r] \in kernels \cup ghosts

(* Mutant: an entry that is not imported yet counts as failed. *)
PollOnce(r) ==
    /\ pc[r] = "polling"
    /\ \/ /\ Imported(r)
          /\ pc' = [pc EXCEPT ![r] = "listing"] /\ UNCHANGED <<result, fresh, left>>
       \/ /\ ~Imported(r)
          /\ Fail(r, "failed") /\ Leave(r, work)
    /\ UNCHANGED <<controller, want, saved, setback, foreign, bounds>>

(* The loop over KernelCatalogStatus: it goes on until the status shows    *)
(* one or the other.                                                       *)
Poll(r) ==
    /\ pc[r] = "polling"
    /\ \/ /\ Imported(r)
          /\ pc' = [pc EXCEPT ![r] = "listing"] /\ UNCHANGED <<result, fresh, left>>
       \/ /\ ~Imported(r) /\ want[r] \in failed
          /\ Fail(r, "failed") /\ Leave(r, work)
    /\ UNCHANGED <<controller, want, saved, setback, foreign, bounds>>

(* A poll gets no answer, or ten minutes have passed.  Nothing else ends   *)
(* the wait when there is nothing to wait for.                             *)
GiveUp(r) ==
    /\ pc[r] = "polling"
    /\ \/ Fault
       \/ ~Imported(r) /\ want[r] \notin failed \cup work /\ UNCHANGED faults
    /\ Fail(r, "error") /\ Leave(r, work)
    /\ UNCHANGED <<controller, want, saved, setback, foreign, drifts, edits>>

(* Mutant: the plan is saved, with an ID that is not known yet. *)
SaveUnknown(r) ==
    /\ saved' = [saved EXCEPT ![r] = "unknown"]
    /\ left' = left \ {want[r]} /\ foreign' = foreign \ {want[r]}

(* kernelCatalogImportToState *)
Save(r) ==
    /\ saved' = [saved EXCEPT ![r] = want[r]]
    /\ left' = left \ {want[r]} /\ foreign' = foreign \ {want[r]}

List(r) ==
    /\ pc[r] = "listing"
    /\ \/ /\ want[r] \in kernels
          /\ Save(r) /\ Ends(r, "ok") /\ UNCHANGED fresh
       \/ /\ want[r] \notin kernels
          /\ Fail(r, "error") /\ Leave(r, work) /\ UNCHANGED <<saved, foreign>>
    /\ UNCHANGED <<controller, want, setback, bounds>>

ListFails(r) ==
    /\ pc[r] = "listing" /\ Fault
    /\ Fail(r, "error") /\ Leave(r, work)
    /\ UNCHANGED <<controller, want, saved, setback, foreign, drifts, edits>>

-----------------------------------------------------------------------------
(* Read and Delete *)

(* Mutant: a kernel that is gone is kept in the state. *)
ReadKeepsLost(r) ==
    /\ pc[r] = "idle"
    /\ UNCHANGED saved
    /\ fresh' = [fresh EXCEPT ![r] = TRUE] /\ result' = [result EXCEPT ![r] = "ok"]
    /\ UNCHANGED <<controller, want, pc, history, bounds>>

Read(r) ==
    /\ pc[r] = "idle"
    /\ saved' = [saved EXCEPT ![r] = IF @ \in kernels THEN @ ELSE None]
    /\ fresh' = [fresh EXCEPT ![r] = TRUE] /\ result' = [result EXCEPT ![r] = "ok"]
    /\ UNCHANGED <<controller, want, pc, history, bounds>>

ReadFails(r) ==
    /\ pc[r] = "idle" /\ saved[r] # None
    /\ Fault /\ Fail(r, "error")
    /\ UNCHANGED <<controller, want, saved, history, drifts, edits>>

DeleteDue(r) ==
    pc[r] = "idle" /\ fresh[r] /\ saved[r] \notin {None, want[r]}

(* A kernel that is gone already is "HTTP 404", which is no error.  The    *)
(* Delete of a replacement comes before the Create.                        *)
Delete(r) ==
    /\ DeleteDue(r)
    /\ RemoveKernel(saved[r])
    /\ saved' = [saved EXCEPT ![r] = None] /\ Ends(r, "ok")
    /\ UNCHANGED <<work, failed, refuses, stale, want, fresh, left, foreign, bounds>>

(* Mutant: every error of a Delete is taken for "404". *)
AnyErrorIs404(e) == {TRUE}

(* An error of a request that got no answer has the URL, and so the ID, in *)
(* it.                                                                     *)
TakenFor404(e) == IF e \in IdsWith404 THEN BOOLEAN ELSE {FALSE}

DeleteFails(r) ==
    /\ DeleteDue(r) /\ Fault
    /\ RemoveKernel(saved[r]) \/ UNCHANGED <<kernels, ghosts, setback>>
    /\ \E taken \in TakenFor404(saved[r]) :
          IF taken
          THEN saved' = [saved EXCEPT ![r] = None] /\ Ends(r, "ok") /\ UNCHANGED fresh
          ELSE UNCHANGED saved /\ Fail(r, "error")
    /\ UNCHANGED <<work, failed, refuses, stale, want, left, foreign, drifts, edits>>

-----------------------------------------------------------------------------
(* Other operators, and the user *)

Foreign ==
    /\ drifts < MaxDrift /\ drifts' = drifts + 1
    /\ \E e \in Entries :
          \/ /\ e \notin work \cup kernels /\ StartImport(e)
             /\ foreign' = foreign \cup {e} /\ UNCHANGED <<kernels, setback>>
          \/ /\ e \in kernels /\ RemoveKernel(e)
             /\ UNCHANGED <<work, failed, foreign>>
    /\ UNCHANGED <<refuses, stale, want, saved, fresh, pc, result, left,
                   faults, edits>>

Edit ==
    /\ edits < MaxEdits /\ edits' = edits + 1
    /\ \E r \in Resources :
          /\ pc[r] = "idle"
          /\ \E e \in Entries \cup {None} : want' = [want EXCEPT ![r] = e]
          /\ fresh' = [fresh EXCEPT ![r] = FALSE] /\ result' = [result EXCEPT ![r] = "ok"]
    /\ UNCHANGED <<controller, saved, pc, history, faults, drifts>>

Init ==
    /\ kernels = {} /\ work = {} /\ failed = {} /\ ghosts = {}
    /\ refuses \in Refusals /\ stale \in Staleness
    /\ want \in [Resources -> Entries \cup {None}]
    /\ saved = [r \in Resources |-> None] /\ fresh = [r \in Resources |-> FALSE]
    /\ pc = [r \in Resources |-> "idle"] /\ result = [r \in Resources |-> "ok"]
    /\ setback = {} /\ left = {} /\ foreign = {}
    /\ faults = 0 /\ drifts = 0 /\ edits = 0

Create(r) == Poll(r) \/ GiveUp(r) \/ List(r) \/ ListFails(r)

Next ==
    \/ \E e \in Entries : Worker(e)
    \/ \E r \in Resources :
          \/ Import(r) \/ ImportRefused(r) \/ ImportFails(r) \/ Create(r)
          \/ Read(r) \/ ReadFails(r) \/ Delete(r) \/ DeleteFails(r)
    \/ Foreign \/ Edit

Spec == Init /\ [][Next]_vars

(* Imports come to an end and handlers do; the user applies again and      *)
(* again, and each apply refreshes first.                                  *)
FairSpec ==
    /\ Spec
    /\ WF_vars(\E e \in Entries : Worker(e))
    /\ \A r \in Resources :
          WF_vars(Create(r)) /\ SF_vars(Read(r)) /\ SF_vars(Import(r) \/ Delete(r))

-----------------------------------------------------------------------------
(* Properties *)

(* Every variable has its type. *)
TypeOK ==
    /\ kernels \subseteq Entries /\ work \subseteq Entries \ kernels
    /\ failed \subseteq Entries /\ ghosts \subseteq Entries \ kernels
    /\ refuses \in Refusals /\ stale \in Staleness
    /\ want \in [Resources -> Entries \cup {None}]
    /\ saved \in [Resources -> Entries \cup {None}]
    /\ fresh \in [Resources -> BOOLEAN]
    /\ pc \in [Resources -> {"idle", "polling", "listing"}]
    /\ result \in [Resources -> {"ok", "failed", "error"}]
    /\ setback \subseteq Resources /\ left \subseteq Entries /\ foreign \subseteq Entries
    /\ faults \in 0 .. MaxFaults /\ drifts \in 0 .. MaxDrift /\ edits \in 0 .. MaxEdits

(* A kernel in the table is one that a resource has saved or that a Create *)
(* still waits for, unless another operator imported it, a Create that     *)
(* reported an error left it, or a failed removal was taken for "404".     *)
KernelsAccounted ==
    \A e \in kernels :
        \/ \E r \in Resources : saved[r] = e \/ r \in Waiting(e)
        \/ e \in foreign \cup left \cup IdsWith404

(* A Create reports that the import failed only if an import of its entry  *)
(* failed, or its kernel was removed, after it had asked for it; but for a *)
(* status that still shows the error of an earlier attempt.                *)
FailureIsReal ==
    \A r \in Resources : result[r] = "failed" => stale \/ r \in setback

(* Repeated applies end with the kernel of every configured entry in the   *)
(* table and saved: after failed imports and requests, after a Create gave *)
(* up on an import that went on, and after another resource with the same  *)
(* entry, or another operator, removed the kernel.  Only a controller that *)
(* refuses to import an entry again keeps a resource from taking up a      *)
(* kernel that is there already.                                           *)
CatalogConverges ==
    <>[](\A r \in Resources :
            \/ saved[r] = want[r] /\ want[r] \in kernels \cup {None}
            \/ saved[r] = None /\ want[r] \in kernels /\ "imported" \in refuses)
=============================================================================
