--------------------------------- MODULE VM ---------------------------------
(***************************************************************************)
(* The lattice_vm resource (resource_vm.go) and the attachments of groups  *)
(* to it, lattice_vm_security_group and lattice_vm_affinity_group          *)
(* (resource_vm_security_group.go, resource_vm_affinity_group.go), which   *)
(* differ in their URLs only.                                              *)
(*                                                                         *)
(* The attachments are resources of their own that depend on the VM:       *)
(* Terraform makes them after it and removes them before it.  An apply     *)
(* refreshes all of them before it plans.                                  *)
(*                                                                         *)
(* Nothing but status can change in place.  The image stands for the       *)
(* attributes that force a replacement.  boot_disk_gb, disk_interface and  *)
(* the lists nics and extra_disks force one as well, and they are computed *)
(* without UseStateForUnknown: when anything differs, what the             *)
(* configuration leaves out of them is unknown, and unknown is not the     *)
(* saved value.  A configuration is pinned when it sets both attributes    *)
(* and both lists are empty.  (One that omits a list is not modelled: its  *)
(* list is saved as empty, which Terraform refuses as not what it planned.)*)
(***************************************************************************)
EXTENDS Integers, FiniteSets

CONSTANTS
    Groups,      \* the groups that can be attached
    Images,      \* values of the attributes that force a replacement
    Wants,       \* the configurations a user may write
    MisleadingErrors, \* may an error say "not found" for another reason?
    MissingVM,   \* what listing the groups of a VM that is gone may give:
                 \* "error", "empty"
    MaxVMId,     \* bound on the VM IDs the controller hands out
    MaxFaults,   \* bound on refused and unanswered requests
    MaxDrift,    \* bound on changes made by other operators
    MaxEdits     \* bound on changes of the configuration

NoId == 0
Unset == "unset"    \* status left out of the configuration
Statuses == {"running", "stopped", "paused"}
VMIds == 1 .. MaxVMId

ASSUME VMAssumption ==
    /\ MaxVMId \in Nat /\ MaxFaults \in Nat /\ MaxDrift \in Nat /\ MaxEdits \in Nat
    /\ Wants \subseteq [present : BOOLEAN, status : Statuses \cup {Unset}, image : Images,
                        pinned : BOOLEAN, groups : SUBSET Groups]
    /\ MisleadingErrors \in BOOLEAN /\ MissingVM \subseteq {"error", "empty"}
    /\ "vm" \notin Groups

VARIABLES
    vms,       \* the VMs that exist on the controller
    status,    \* the followed VM's status there
    attached,  \* the groups attached to it there
    missing,   \* what listing the groups of a VM that is gone gives
    nextVM,    \* the next ID the controller hands out
    tf,        \* what Terraform has saved about the VM
    att,       \* for each group, the VM its saved attachment names
    want,      \* the configuration
    fresh,     \* the resources this apply has refreshed
    pc, vm,    \* the running handler of the VM, and the VM's ID
    result,    \* how the last handler of the VM ended
    strays,    \* history: groups attached by others, or whose attachment
               \* Terraform lost sight of
    quiet,     \* history: no foreign change since the handler's first request
    abandoned, \* history: the VMs whose Create reported an error, or whose
               \* Read took an error for "not found"
    faults, drifts, edits

controller == <<vms, status, attached, missing, nextVM>>
saved == <<tf, att>>
history == <<strays, quiet, abandoned>>
bounds == <<faults, drifts, edits>>
vars == <<controller, saved, want, fresh, pc, vm, result, history, bounds>>

NoState == [id |-> NoId, status |-> "", image |-> ""]
Idle == pc = "idle"
Followed == IF Idle THEN tf.id ELSE vm

Fault == faults < MaxFaults /\ faults' = faults + 1

(* A VM that is deleted, or that nobody knows any more, is not followed. *)
Forget == status' = "" /\ attached' = {} /\ strays' = {}

PostVM ==
    /\ nextVM <= MaxVMId
    /\ vms' = vms \cup {nextVM}
    /\ nextVM' = nextVM + 1

-----------------------------------------------------------------------------
(* The plan.  An error ends the apply, and the next one refreshes again.   *)
Ready == Idle /\ fresh = Groups \cup {"vm"}

StatusDiffers == want.status \notin {Unset, tf.status}

Replaces == want.image # tf.image \/ (StatusDiffers /\ ~want.pinned)

WantedStatus == IF want.status = Unset THEN "running" ELSE want.status

Finish(r) == pc' = "idle" /\ vm' = NoId /\ result' = r
Fail == Finish("error") /\ fresh' = {}

-----------------------------------------------------------------------------
(* Create: the VM is made, then started *)

(* Mutant: the planned status is saved, which is unknown when left out.    *)
SavePlanned(id, s) == tf' = [id |-> id, status |-> want.status, image |-> want.image]

Save(id, s) == tf' = [id |-> id, status |-> s, image |-> want.image]

CreateVM ==
    /\ Ready /\ want.present /\ tf.id = NoId
    /\ \A g \in Groups : att[g] = NoId
    /\ PostVM
    /\ status' = "stopped" /\ quiet' = TRUE
    /\ IF WantedStatus = "running"
       THEN pc' = "starting" /\ vm' = nextVM /\ result' = "none" /\ UNCHANGED tf
       ELSE Save(nextVM, "stopped") /\ Finish("created")
    /\ UNCHANGED <<attached, missing, att, want, fresh, strays, abandoned, bounds>>

CreateVMFails ==
    /\ Ready /\ want.present /\ tf.id = NoId
    /\ Fault /\ Fail
    /\ \/ UNCHANGED <<vms, nextVM, abandoned>>
       \/ PostVM /\ abandoned' = abandoned \cup {nextVM}
    /\ UNCHANGED <<status, attached, missing, saved, want, strays, quiet, drifts, edits>>

Start ==
    /\ pc = "starting" /\ vm \in vms
    /\ status' = "running"
    /\ Save(vm, "running") /\ Finish("created")
    /\ UNCHANGED <<vms, attached, missing, nextVM, att, want, fresh, history, bounds>>

(* The VM stays, and nothing is saved about it. *)
StartFails ==
    /\ pc = "starting"
    /\ Fault \/ (vm \notin vms /\ UNCHANGED faults)
    /\ Fail /\ Forget
    /\ abandoned' = abandoned \cup {vm}
    /\ UNCHANGED <<vms, missing, nextVM, saved, want, quiet, drifts, edits>>

-----------------------------------------------------------------------------
(* Read *)

(* Mutant: a VM that is gone is kept in the state. *)
ReadKeepsLost ==
    /\ Idle
    /\ tf' = IF tf.id \in vms THEN [tf EXCEPT !.status = status] ELSE tf
    /\ result' = "read" /\ quiet' = TRUE /\ fresh' = fresh \cup {"vm"}
    /\ UNCHANGED <<controller, att, want, pc, vm, strays, abandoned, bounds>>

Read ==
    /\ Idle
    /\ tf' = IF tf.id \in vms THEN [tf EXCEPT !.status = status] ELSE NoState
    /\ result' = "read" /\ quiet' = TRUE /\ fresh' = fresh \cup {"vm"}
    /\ UNCHANGED <<controller, att, want, pc, vm, strays, abandoned, bounds>>

(* Every VM is listed, and an error that says "not found" for any reason   *)
(* is taken to be about this one.                                          *)
ReadFails ==
    /\ Idle /\ tf.id # NoId
    /\ Fault
    /\ \/ Fail /\ UNCHANGED <<tf, status, attached, strays, abandoned>>
       \/ /\ MisleadingErrors
          /\ tf' = NoState /\ Finish("read") /\ fresh' = fresh \cup {"vm"}
          /\ Forget /\ abandoned' = abandoned \cup {tf.id}
    /\ UNCHANGED <<vms, missing, nextVM, att, want, quiet, drifts, edits>>

(* Mutant: the listed IDs are compared with the ID of the attachment.      *)
ListedAsAttachment(g) == FALSE

Listed(g) == att[g] = Followed /\ Followed \in vms /\ g \in attached

(* Another VM than the followed one is gone, or was dropped from the state *)
(* and still lists the group.                                              *)
ReadAttachment(g) ==
    /\ Idle
    /\ \/ att[g] = NoId /\ UNCHANGED att
       \/ att[g] \in vms /\ att' = [att EXCEPT ![g] =
                                       IF @ # tf.id \/ Listed(g) THEN @ ELSE NoId]
       \/ att[g] \notin vms \cup {NoId} /\ missing = "empty"
          /\ att' = [att EXCEPT ![g] = NoId]
    /\ fresh' = fresh \cup {g}
    /\ UNCHANGED <<controller, tf, want, pc, vm, result, history, bounds>>

(* A listing that fails, also one that fails because the VM is gone, ends  *)
(* the refresh.                                                            *)
ReadAttachmentFails(g) ==
    /\ Idle /\ att[g] # NoId
    /\ Fault \/ (att[g] \notin vms /\ missing = "error" /\ UNCHANGED faults)
    /\ Fail
    /\ UNCHANGED <<controller, saved, want, history, drifts, edits>>

-----------------------------------------------------------------------------
(* Update: only the two statuses are sent; the saved state follows without *)
(* another look at the VM.                                                 *)

Sent == want.status \in {"running", "stopped"}

(* Mutant: a running VM is not stopped. *)
SetStatusStartOnly ==
    status' = IF want.status = "running" THEN want.status ELSE status

SetStatus == status' = IF Sent THEN want.status ELSE status

Planned == Ready /\ want.present /\ tf.id # NoId

Update ==
    /\ Planned /\ ~Replaces /\ StatusDiffers
    /\ (Sent => tf.id \in vms) /\ SetStatus
    /\ tf' = [tf EXCEPT !.status = IF Sent THEN want.status ELSE @]
    /\ Finish("updated") /\ quiet' = (Sent \/ quiet)
    /\ UNCHANGED <<vms, attached, missing, nextVM, att, want, fresh, strays, abandoned,
                   bounds>>

UpdateFails ==
    /\ Planned /\ ~Replaces /\ StatusDiffers /\ Sent
    /\ \/ tf.id \notin vms /\ UNCHANGED <<status, faults>>
       \/ Fault /\ (UNCHANGED status \/ (tf.id \in vms /\ SetStatus))
    /\ Fail
    /\ UNCHANGED <<vms, attached, missing, nextVM, saved, want, history, drifts, edits>>

-----------------------------------------------------------------------------
(* Delete, for a VM that is configured no more or has to be replaced *)

Doomed == Ready /\ tf.id # NoId /\ (~want.present \/ Replaces)

DropVM == tf.id \in vms /\ vms' = vms \ {tf.id} /\ Forget

Delete ==
    /\ Doomed /\ \A g \in Groups : att[g] = NoId
    /\ DropVM
    /\ tf' = NoState /\ Finish("deleted")
    /\ UNCHANGED <<missing, nextVM, att, want, fresh, quiet, abandoned, bounds>>

(* Mutant: an error of a Delete is taken for "not found". *)
DeleteFailsForgetting ==
    /\ Doomed /\ \A g \in Groups : att[g] = NoId
    /\ Fault /\ UNCHANGED vms /\ Forget
    /\ tf' = NoState /\ Fail
    /\ UNCHANGED <<missing, nextVM, att, want, quiet, abandoned, drifts, edits>>

(* "Not found" is an error here like any other. *)
DeleteFails ==
    /\ Doomed /\ \A g \in Groups : att[g] = NoId
    /\ \/ tf.id \notin vms /\ UNCHANGED <<vms, status, attached, strays, faults>>
       \/ Fault /\ (DropVM \/ UNCHANGED <<vms, status, attached, strays>>)
    /\ Fail
    /\ UNCHANGED <<missing, nextVM, saved, want, quiet, abandoned, drifts, edits>>

-----------------------------------------------------------------------------
(* The attachments *)

Attachable(g) ==
    /\ Planned /\ ~Replaces /\ (Sent => ~StatusDiffers)
    /\ g \in want.groups /\ att[g] = NoId

Attach(g) ==
    /\ Attachable(g) /\ tf.id \in vms
    /\ attached' = attached \cup {g}
    /\ strays' = strays \ {g}
    /\ att' = [att EXCEPT ![g] = tf.id]
    /\ UNCHANGED <<vms, status, missing, nextVM, tf, want, fresh, pc, vm, result, quiet,
                   abandoned, bounds>>

AttachFails(g) ==
    /\ Attachable(g)
    /\ \/ tf.id \notin vms /\ UNCHANGED <<attached, strays, faults>>
       \/ Fault /\ UNCHANGED <<attached, strays>>
       \/ Fault /\ tf.id \in vms /\ attached' = attached \cup {g} /\ strays' = strays \cup {g}
    /\ Fail
    /\ UNCHANGED <<vms, status, missing, nextVM, saved, want, quiet, abandoned, drifts, edits>>

(* An attachment goes when it is not configured any more, and when the VM  *)
(* it names is deleted, replaced or made anew (vm_id forces a replacement).*)
Detachable(g) ==
    /\ Ready /\ att[g] # NoId
    /\ ~want.present \/ g \notin want.groups \/ att[g] # tf.id \/ Replaces

Remove(g) == attached' = IF att[g] = tf.id THEN attached \ {g} ELSE attached

(* What is gone already is "HTTP 404", which is no error. *)
Detach(g) ==
    /\ Detachable(g)
    /\ Remove(g)
    /\ att' = [att EXCEPT ![g] = NoId]
    /\ UNCHANGED <<vms, status, missing, nextVM, tf, want, fresh, pc, vm, result, history,
                   bounds>>

DetachFails(g) ==
    /\ Detachable(g)
    /\ Fault
    /\ Remove(g) \/ UNCHANGED attached
    /\ \/ Fail /\ UNCHANGED <<att, strays>>
       \/ /\ MisleadingErrors    \* taken for "not found"
          /\ att' = [att EXCEPT ![g] = NoId]
          /\ strays' = strays \cup (IF att[g] = tf.id THEN {g} ELSE {})
          /\ UNCHANGED <<pc, vm, result, fresh>>
    /\ UNCHANGED <<vms, status, missing, nextVM, tf, want, quiet, abandoned, drifts, edits>>

-----------------------------------------------------------------------------
(* Other operators of the controller, and the user *)

Foreign ==
    /\ drifts < MaxDrift /\ drifts' = drifts + 1
    /\ Followed \in vms
    /\ quiet' = FALSE
    /\ \/ status' \in Statuses /\ UNCHANGED <<vms, attached, strays>>
       \/ /\ \E g \in Groups : attached' = attached \cup {g} /\ strays' = strays \cup {g}
          /\ UNCHANGED <<vms, status>>
       \/ \E g \in attached : attached' = attached \ {g} /\ UNCHANGED <<vms, status, strays>>
       \/ vms' = vms \ {Followed} /\ Forget
    /\ UNCHANGED <<missing, nextVM, saved, want, fresh, pc, vm, result, abandoned,
                   faults, edits>>

Edit ==
    /\ Idle /\ edits < MaxEdits /\ edits' = edits + 1
    /\ want' \in Wants
    /\ result' = "none" /\ fresh' = {}
    /\ UNCHANGED <<controller, saved, pc, vm, history, faults, drifts>>

Init ==
    /\ vms = {} /\ status = "" /\ attached = {} /\ missing \in MissingVM /\ nextVM = 1
    /\ tf = NoState /\ att = [g \in Groups |-> NoId] /\ want \in Wants
    /\ fresh = {} /\ pc = "idle" /\ vm = NoId /\ result = "none"
    /\ strays = {} /\ quiet = TRUE /\ abandoned = {}
    /\ faults = 0 /\ drifts = 0 /\ edits = 0

Apply ==
    \/ CreateVM \/ Update \/ Delete
    \/ \E g \in Groups : Attach(g) \/ Detach(g)

Next ==
    \/ Read \/ ReadFails \/ CreateVMFails \/ Start \/ StartFails
    \/ UpdateFails \/ DeleteFails \/ Apply
    \/ \E g \in Groups : ReadAttachment(g) \/ ReadAttachmentFails(g)
                         \/ AttachFails(g) \/ DetachFails(g)
    \/ Foreign \/ Edit

Spec == Init /\ [][Next]_vars

(* A handler runs to its end; the user applies again and again. *)
FairSpec ==
    /\ Spec
    /\ WF_vars(Start \/ StartFails) /\ SF_vars(Apply) /\ SF_vars(Read)
    /\ \A g \in Groups : SF_vars(ReadAttachment(g))

-----------------------------------------------------------------------------
(* Properties *)

(* Every variable has its type. *)
TypeOK ==
    /\ vms \subseteq VMIds /\ nextVM \in 1 .. MaxVMId + 1
    /\ status \in Statuses \cup {""} /\ attached \subseteq Groups
    /\ missing \in MissingVM
    /\ tf \in [id : VMIds, status : Statuses, image : Images] \cup {NoState}
    /\ att \in [Groups -> VMIds \cup {NoId}]
    /\ want \in Wants /\ fresh \subseteq Groups \cup {"vm"}
    /\ pc \in {"idle", "starting"} /\ vm \in IF Idle THEN {NoId} ELSE VMIds
    /\ result \in {"none", "created", "read", "updated", "deleted", "error"}
    /\ strays \subseteq Groups /\ quiet \in BOOLEAN /\ abandoned \subseteq VMIds
    /\ faults \in 0 .. MaxFaults /\ drifts \in 0 .. MaxDrift /\ edits \in 0 .. MaxEdits

(* After a Create or Update that reports success the VM has the configured *)
(* status, if it is one the provider can bring about, and Terraform has    *)
(* saved it - although neither looks at the VM again.                      *)
SuccessHasStatus ==
    result \in {"created", "updated"} /\ quiet =>
        /\ tf.status = status
        /\ want.status # "paused" => status = WantedStatus

Object ==
    INSTANCE ManagedObject WITH
        Ids <- VMIds, Misread <- {}, exists <- vms, saved <- tf.id, held <- Followed,
        disowned <- abandoned, failures <- faults, broken <- {}

(* The resource makes, follows and deletes one VM at a time, and loses one *)
(* only in a Create that reports an error (one whose start failed among    *)
(* them), or when a Read takes an error for "not found".                   *)
ImplementsManagedObject == Object!Spec

(* "the dependency order needed to detach it before either object is       *)
(* destroyed" (docs/resources/vm_security_group.md:3): when the provider   *)
(* deletes the VM, no group is attached to it but those that others        *)
(* attached or that Terraform lost sight of through an error.              *)
DetachedBeforeDestroyed ==
    [][drifts' = drifts /\ tf.id \in vms \ vms' => attached \subseteq strays]_vars

(* Repeated applies end with the configured VM, its status and its groups, *)
(* unless the refresh can never again succeed: a saved attachment names a  *)
(* VM that is gone, and the controller answers its listing with an error.  *)
Stuck == missing = "error" /\ \E g \in Groups : att[g] \notin vms \cup {NoId}

VMConverges ==
    <>[](\/ Stuck
         \/ IF want.present
            THEN /\ tf.id \in vms /\ tf.image = want.image
                 /\ Sent => status = want.status
                 /\ want.groups \subseteq attached
            ELSE tf.id = NoId /\ \A g \in Groups : att[g] = NoId)

(* docs/resources/vm.md marks the arguments that "Forces replacement";     *)
(* status is not among them, nor is boot_disk_gb (docs/resources/vm.md:92):*)
(* a VM that stays configured is deleted only when an argument that forces *)
(* a replacement has changed.                                              *)
DeletedOnlyWhenForced ==
    [][drifts' = drifts /\ tf.id \in vms \ vms' =>
          ~want.present \/ want.image # tf.image]_vars
=============================================================================
