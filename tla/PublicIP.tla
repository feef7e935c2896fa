------------------------------ MODULE PublicIP ------------------------------
(***************************************************************************)
(* The lattice_public_ip resource (resource_public_ip.go): an allocation   *)
(* from a pool, its description, and a static NAT rule that maps it to a   *)
(* private IP.  Create and a change of private_ip take two requests, and   *)
(* another operator can act, or the second one can be refused, in between. *)
(*                                                                         *)
(* Each request to the API is a step; it can be refused, or be carried out *)
(* while its answer is lost.                                               *)
(***************************************************************************)
EXTENDS Integers, FiniteSets

CONSTANTS
    Pools,       \* pools to allocate from
    Privates,    \* private IPs
    Descs,       \* descriptions
    IdsWith404,  \* the allocation IDs whose requests can only fail with "404" in
                 \* the error: the ID has it, or the endpoint, and then all of them
    MisleadingErrors, \* may a refused listing read like "not found"?
    MaxId,       \* bound on the allocation IDs
    MaxFaults,   \* bound on refused and unanswered requests
    MaxDrift,    \* bound on changes made by other operators
    MaxEdits     \* bound on changes of the configuration

NoId == 0
None == ""        \* no NAT rule, no description
Unset == "unset"  \* left out of the configuration
Ids == 1 .. MaxId

ASSUME PublicIPAssumption ==
    /\ MaxId \in Nat /\ MaxFaults \in Nat /\ MaxDrift \in Nat /\ MaxEdits \in Nat
    /\ IdsWith404 \subseteq Ids /\ MisleadingErrors \in BOOLEAN
    /\ None \notin Privates /\ Unset \notin Privates \cup Descs

VARIABLES
    ips,       \* the allocations that exist on the controller
    nat,       \* the private IP the followed allocation is mapped to there
    desc,      \* its description there
    nextId,    \* the next ID the controller hands out
    tf,        \* what Terraform has saved
    want,      \* the configuration
    pc,        \* "idle", or the request that is due: "enable", "disable", "get"
    pip,       \* the allocation the running handler works on
    result,    \* how the last handler ended
    current,   \* history: tf was the controller's state when the handler began
    abandoned, \* history: the allocations whose Create did not succeed, or whose
               \* Read took an error for "not found"
    quiet,     \* history: no foreign change since the handler's first request
    faults, drifts, edits

controller == <<ips, nat, desc, nextId>>
history == <<current, abandoned, quiet>>
bounds == <<faults, drifts, edits>>
vars == <<controller, tf, want, pc, pip, result, history, bounds>>

NoState == [id |-> NoId, pool |-> None, private |-> None, desc |-> None]
Idle == pc = "idle"
Followed == IF Idle THEN tf.id ELSE pip

Fault == faults < MaxFaults /\ faults' = faults + 1

(* An allocation that is released, or that nobody knows any more, is not   *)
(* followed.                                                               *)
Forget == nat' = None /\ desc' = None

-----------------------------------------------------------------------------
(* The plan.  A field that is left out keeps its saved value as long as    *)
(* nothing else changes, and is unknown, which reads as "", otherwise.     *)
Differs(planned, saved) == planned \notin {Unset, saved}

(* An allocation from another pool replaces this one. *)
Replaces == want.pool # tf.pool

HasDiff == Differs(want.private, tf.private) \/ Differs(want.desc, tf.desc)

(* Mutant: an unknown value is sent as it is. *)
PlannedRaw(value) == value

Planned(value) == IF value = Unset THEN None ELSE value

Finish(r) == pc' = "idle" /\ pip' = NoId /\ result' = r

(* pipToModel of an answer that shows the allocation as it now is: in the  *)
(* pool it was made from.                                                  *)
Save(id) == tf' = [id |-> id, pool |-> IF tf.id = NoId THEN want.pool ELSE tf.pool,
                   private |-> nat', desc |-> desc']

-----------------------------------------------------------------------------
(* Create *)

PostIP ==
    /\ nextId <= MaxId
    /\ ips' = ips \cup {nextId} /\ nextId' = nextId + 1

Allocate ==
    /\ Idle /\ want.present /\ tf.id = NoId
    /\ PostIP
    /\ nat' = None /\ desc' = Planned(want.desc)
    /\ IF Planned(want.private) = None
       THEN Save(nextId) /\ Finish("created")
       ELSE pc' = "enable" /\ pip' = nextId /\ result' = "none" /\ UNCHANGED tf
    /\ current' = TRUE /\ quiet' = TRUE
    /\ UNCHANGED <<want, abandoned, bounds>>

AllocateFails ==
    /\ Idle /\ want.present /\ tf.id = NoId
    /\ Fault /\ Finish("error")
    /\ \/ UNCHANGED <<ips, nextId, abandoned>>
       \/ PostIP /\ abandoned' = abandoned \cup {nextId}
    /\ UNCHANGED <<nat, desc, tf, want, current, quiet, drifts, edits>>

-----------------------------------------------------------------------------
(* Update: which request comes first depends on the plan and saved state.  *)

PlanPrivate == Planned(want.private)

(* Mutant: a saved mapping is always disabled first. *)
FirstRequestReplacing ==
    IF tf.private # None THEN "disable" ELSE IF PlanPrivate # None THEN "enable" ELSE "get"

FirstRequest ==
    IF tf.private = PlanPrivate THEN "get"
    ELSE IF tf.private = None THEN "enable" ELSE "disable"

UpdateBegins ==
    /\ Idle /\ want.present /\ tf.id # NoId /\ ~Replaces /\ HasDiff
    /\ pc' = FirstRequest
    /\ pip' = tf.id /\ result' = "none"
    /\ current' = (tf.id \in ips /\ tf.private = nat) /\ quiet' = TRUE
    /\ UNCHANGED <<controller, tf, want, abandoned, bounds>>

Creating == tf.id = NoId

Enable ==
    /\ pc = "enable" /\ pip \in ips
    /\ nat' = PlanPrivate
    /\ UNCHANGED <<ips, desc, nextId, want, history, bounds>>
    /\ Save(pip) /\ Finish(IF Creating THEN "created" ELSE "updated")

(* Mutant: a rule that is replaced is not enabled again. *)
DisableOnly ==
    /\ pc = "disable" /\ pip \in ips /\ nat # None
    /\ nat' = None
    /\ pc' = "get"
    /\ UNCHANGED <<ips, desc, nextId, tf, want, pip, result, history, bounds>>

Disable ==
    /\ pc = "disable" /\ pip \in ips /\ nat # None
    /\ nat' = None
    /\ pc' = IF PlanPrivate = None THEN "get" ELSE "enable"
    /\ UNCHANGED <<ips, desc, nextId, tf, want, pip, result, history, bounds>>

Get ==
    /\ pc = "get" /\ pip \in ips
    /\ UNCHANGED <<controller, want, history, bounds>>
    /\ Save(pip) /\ Finish("updated")

(* The request that is due is refused, or its answer is lost. *)
RequestFails ==
    \/ pip \notin ips /\ UNCHANGED <<nat, faults>>
    \/ pc = "disable" /\ nat = None /\ UNCHANGED <<nat, faults>>
    \/ Fault /\ pip \in ips /\ \/ UNCHANGED nat
                               \/ pc = "enable" /\ nat' = PlanPrivate
                               \/ pc = "disable" /\ nat' = None

UpdateFails ==
    /\ ~Idle /\ ~Creating
    /\ RequestFails /\ Finish("error")
    /\ UNCHANGED <<ips, desc, nextId, tf, want, history, drifts, edits>>

(* EnableStaticNAT returns no allocation with its error, and the cleanup   *)
(* that follows reads the ID of that allocation: the provider crashes, and *)
(* nothing is released.                                                    *)
CreateCrashes ==
    /\ ~Idle /\ Creating
    /\ \/ pip \notin ips /\ UNCHANGED faults
       \/ Fault
    /\ Forget
    /\ abandoned' = abandoned \cup {pip}
    /\ Finish("crashed")
    /\ UNCHANGED <<ips, nextId, tf, want, current, quiet, drifts, edits>>

-----------------------------------------------------------------------------
(* Read and Delete *)

(* Mutant: an allocation that is gone is kept in the state. *)
ReadKeepsLost ==
    /\ Idle /\ tf.id # NoId
    /\ UNCHANGED <<controller, want, pc, pip, current, abandoned, bounds>>
    /\ IF tf.id \in ips THEN Save(tf.id) ELSE UNCHANGED tf
    /\ result' = "read" /\ quiet' = TRUE

Read ==
    /\ Idle /\ tf.id # NoId
    /\ UNCHANGED <<controller, want, pc, pip, current, abandoned, bounds>>
    /\ IF tf.id \in ips THEN Save(tf.id) ELSE tf' = NoState
    /\ result' = "read" /\ quiet' = TRUE

ReadFails ==
    /\ Idle /\ tf.id # NoId
    /\ Fault /\ result' = "error"
    /\ UNCHANGED <<controller, tf, want, pc, pip, history, drifts, edits>>

(* All allocations are listed, and an error that reads like "not found"    *)
(* for any reason is taken to be about this one.                           *)
ReadMisled ==
    /\ Idle /\ tf.id # NoId
    /\ MisleadingErrors /\ Fault
    /\ tf' = NoState /\ result' = "read" /\ Forget
    /\ abandoned' = abandoned \cup {tf.id}
    /\ UNCHANGED <<ips, nextId, want, pc, pip, current, quiet, drifts, edits>>

Release == ips' = ips \ {tf.id} /\ Forget

Doomed == Idle /\ tf.id # NoId /\ (~want.present \/ Replaces)

Delete ==
    /\ Doomed
    /\ Release
    /\ tf' = NoState /\ Finish("deleted")
    /\ UNCHANGED <<nextId, want, history, bounds>>

(* Mutant: every error of a Delete is taken for "not found". *)
AnyErrorIsNotFound(id) == TRUE

(* The error of a refused release names the ID (client_extended.go:635),   *)
(* and one with "404" in it counts as "not found" (client_extended.go:19). *)
IsNotFound(id) == id \in IdsWith404

DeleteFails ==
    /\ Doomed
    /\ Fault
    /\ \/ /\ UNCHANGED ips
          /\ IF IsNotFound(tf.id) THEN Forget ELSE UNCHANGED <<nat, desc>>
       \/ Release
    /\ IF IsNotFound(tf.id) THEN tf' = NoState /\ Finish("deleted")
                            ELSE UNCHANGED tf /\ Finish("error")
    /\ UNCHANGED <<nextId, want, history, drifts, edits>>

-----------------------------------------------------------------------------
(* Other operators of the controller, and the user *)

Foreign ==
    /\ drifts < MaxDrift /\ drifts' = drifts + 1
    /\ Followed \in ips
    /\ quiet' = FALSE
    /\ \/ nat' \in Privates \cup {None} /\ UNCHANGED <<ips, desc>>
       \/ ips' = ips \ {Followed} /\ Forget
    /\ UNCHANGED <<nextId, tf, want, pc, pip, result, current, abandoned, faults, edits>>

Wants == [present : BOOLEAN, pool : Pools, private : Privates \cup {None, Unset},
          desc : Descs \cup {None, Unset}]

Edit ==
    /\ Idle /\ edits < MaxEdits /\ edits' = edits + 1
    /\ want' \in Wants /\ result' = "none"
    /\ UNCHANGED <<controller, tf, pc, pip, history, faults, drifts>>

Init ==
    /\ ips = {} /\ nat = None /\ desc = None /\ nextId = 1
    /\ tf = NoState /\ want \in Wants
    /\ pc = "idle" /\ pip = NoId /\ result = "none"
    /\ current = TRUE /\ abandoned = {} /\ quiet = TRUE
    /\ faults = 0 /\ drifts = 0 /\ edits = 0

Step == Enable \/ Disable \/ Get \/ UpdateFails \/ CreateCrashes

Next ==
    \/ Allocate \/ AllocateFails \/ UpdateBegins \/ Step
    \/ Read \/ ReadFails \/ ReadMisled \/ Delete \/ DeleteFails
    \/ Foreign \/ Edit

Spec == Init /\ [][Next]_vars

(* A handler runs to its end; the user applies again and again, and each   *)
(* apply refreshes first.                                                  *)
FairSpec ==
    /\ Spec
    /\ WF_vars(Allocate) /\ WF_vars(Step) /\ WF_vars(Delete)
    /\ SF_vars(Read) /\ SF_vars(UpdateBegins)

-----------------------------------------------------------------------------
(* Properties *)

(* Every variable has its type. *)
TypeOK ==
    /\ ips \subseteq Ids
    /\ nat \in Privates \cup {None} /\ desc \in Descs \cup {None}
    /\ nextId \in 1 .. MaxId + 1
    /\ tf \in [id : Ids \cup {NoId}, pool : Pools \cup {None},
               private : Privates \cup {None}, desc : Descs \cup {None}]
    /\ want \in Wants
    /\ pc \in {"idle", "enable", "disable", "get"}
    /\ pip \in IF Idle THEN {NoId} ELSE Ids
    /\ result \in {"none", "created", "read", "updated", "deleted", "error", "crashed"}
    /\ current \in BOOLEAN /\ quiet \in BOOLEAN /\ abandoned \subseteq Ids
    /\ faults \in 0 .. MaxFaults /\ drifts \in 0 .. MaxDrift /\ edits \in 0 .. MaxEdits

(* A Create or Update that reports success has mapped the allocation to    *)
(* the configured private IP, or to none, when the saved state it started  *)
(* from was up to date and nobody else was at work.                        *)
SuccessMapsNat ==
    result \in {"created", "updated"} /\ quiet /\ current => nat = PlanPrivate

Object ==
    INSTANCE ManagedObject WITH
        Misread <- IdsWith404, exists <- ips, saved <- tf.id, held <- Followed,
        disowned <- abandoned, failures <- faults, broken <- {}

(* The resource makes, follows and releases one allocation at a time, and  *)
(* loses one only in a Create that fails or crashes, or when a Read or a   *)
(* Delete takes an error for "not found".                                  *)
ImplementsManagedObject == Object!Spec

(* The provider takes a mapping down only in an Update that differs from   *)
(* the saved mapping, or with the allocation.  And an Update is planned    *)
(* only for an argument that is set to another value: to leave private_ip  *)
(* out of the configuration unmaps nothing by itself, since it is computed *)
(* as well (resource_public_ip.go:65), though "Clearing this value removes *)
(* the NAT rule" (docs/resources/public_ip.md:19).                         *)
NatKept ==
    [][nat # None /\ nat' # nat /\ drifts' = drifts /\ Followed \in ips'
         => \/ ~Idle /\ HasDiff /\ PlanPrivate # tf.private
            \/ tf'.id = NoId]_vars

(* Repeated applies end with an allocation from the configured pool that   *)
(* is mapped as configured, after a mapping was left down between the two  *)
(* requests of a change and after any other refused or unanswered request, *)
(* foreign change or edit.  Without a private_ip in the configuration the  *)
(* mapping stays as it was last saved, none or any: it is not cleared.     *)
NatConverges ==
    <>[](IF want.present
         THEN /\ tf.id \in ips /\ tf.pool = want.pool
              /\ nat = IF want.private = Unset THEN tf.private ELSE want.private
         ELSE tf.id = NoId)

(* "Attempt cleanup to avoid orphaned allocation."                         *)
(* (resource_public_ip.go:109): when the NAT request of a Create is the    *)
(* only one that ever failed, no allocation is left that Terraform does    *)
(* not know.                                                               *)
FailedNatCleansUp ==
    result = "crashed" /\ faults = 1 => ips \subseteq {tf.id}
=============================================================================
