--------------------------- MODULE PlainResource ---------------------------
(***************************************************************************)
(* The resources whose handlers send one request each: affinity groups,    *)
(* IPAM pools and leases, load balancers and their certificates, public IP *)
(* pools, storage backends and volumes.  The module follows one resource   *)
(* of one kind.                                                            *)
(*                                                                         *)
(* An apply refreshes (Read), plans, and carries the plan out: Create,     *)
(* Update or Delete, or Delete and then Create for a replacement.  Other   *)
(* operators act in between.  A request can be refused, or be carried out  *)
(* while its answer is lost.                                               *)
(*                                                                         *)
(* Of an object the model keeps ident, the attributes that nearly every    *)
(* kind replaces it for; value, what an Update can change (the settings of *)
(* a pool, the certificate with its key, the size of a volume); and opt,   *)
(* the attribute that a configuration may leave out.                       *)
(***************************************************************************)
EXTENDS Integers, FiniteSets

CONSTANTS
    Kinds,       \* the kinds of resource to look at
    Wants,       \* for each kind, the configurations a user may write
    HalfRange,   \* sizes in GiB from here on do not fit 64 bits in bytes
                 \* (2^33, scaled down)
    Shrinking,   \* may the controller accept a smaller size?  BOOLEAN values
    Omitting,    \* may it leave the PEM texts out of its answers?
    Decodings,   \* can a handler read a plan in which dns_names is unknown?
                 \* The schema computes them, and the model of a certificate
                 \* takes them into a Go slice.  BOOLEAN values
    IdsWith404,  \* the IDs in whose text, or in whose URL, "404" occurs
    MisleadingErrors, \* may a refused GET read like "not found"?
    MaxId,       \* bound on the IDs; an ID that no object and no error left
                 \* behind has can be handed out again, so MaxFaults + 1 do
    MaxFaults,   \* bound on refused and unanswered requests
    MaxDrift,    \* bound on changes made by other operators
    MaxEdits     \* bound on changes of the configuration

NoId == 0
None == ""           \* no optional attribute
Unset == "unset"     \* left out of the configuration
Unsafe == "unsafe"   \* a backend with overcommitted preallocated storage
Ids == 1 .. MaxId

-----------------------------------------------------------------------------
(* What the handlers of each resource make of the common scheme: the       *)
(* attributes that force a replacement, whether the optional one is        *)
(* computed, how Read tells that the object is gone ("listed": it is not   *)
(* in a listing, and an error is an error; "classified": by isNotFound;    *)
(* "named": the same, with the ID in every error), and whether every error *)
(* of a Delete names the ID.                                               *)
Trait(forces, computed, read, named) ==
    [forces |-> forces, computed |-> computed, read |-> read, named |-> named]

Everything == {"ident", "value", "opt"}

AffinityGroup == Trait(Everything, TRUE, "listed", FALSE)
IPAMLease == Trait(Everything, TRUE, "listed", FALSE)
IPAMPool == Trait({}, TRUE, "classified", TRUE)
LBCertificate == Trait({}, TRUE, "named", TRUE)
VPCLoadBalancer == Trait(Everything, TRUE, "classified", TRUE)
PublicIPPool == Trait(Everything, TRUE, "classified", TRUE)
StorageBackend == Trait(Everything, FALSE, "classified", TRUE)
StorageVolume == Trait({"ident"}, TRUE, "classified", TRUE)

Traits ==
    [affinity_group |-> AffinityGroup, ipam_lease |-> IPAMLease, ipam_pool |-> IPAMPool,
     lb_certificate |-> LBCertificate, vpc_load_balancer |-> VPCLoadBalancer,
     public_ip_pool |-> PublicIPPool, storage_backend |-> StorageBackend,
     storage_volume |-> StorageVolume]

(* A lease lives in a pool and a load balancer in a VPC, which are         *)
(* resources of their own.                                                 *)
Contained == {"ipam_lease", "vpc_load_balancer"}

ASSUME PlainAssumption ==
    /\ MaxId > MaxFaults /\ MaxId \in Nat /\ MaxFaults \in Nat /\ MaxDrift \in Nat /\ MaxEdits \in Nat
    /\ HalfRange \in Nat \ {0}
    /\ Kinds \subseteq DOMAIN Traits /\ DOMAIN Wants = Kinds
    /\ \A k \in Kinds : \A w \in Wants[k] :
          /\ w = [present |-> w.present, ident |-> w.ident, value |-> w.value, opt |-> w.opt]
          /\ w.present \in BOOLEAN /\ w.value \in Nat \ {0}
          /\ k = "storage_volume" => w.opt = Unset
    /\ Shrinking \subseteq BOOLEAN /\ Omitting \subseteq BOOLEAN
    /\ Decodings \subseteq BOOLEAN
    /\ IdsWith404 \subseteq Ids /\ MisleadingErrors \in BOOLEAN

VARIABLES
    kind,      \* the kind of the resource
    exists,    \* the objects of the resource that exist on the controller
    object,    \* the followed object there: [ident, value, opt]
    parent,    \* does the pool of the lease, the VPC of the balancer exist?
    shrinks, omits, \* the controller's choice of Shrinking, Omitting
    decodes,   \* the framework's answer to Decodings
    tf,        \* what Terraform has saved
    want,      \* the configuration
    fresh,     \* has this apply refreshed?
    result,    \* how the last handler ended
    abandoned, \* history: the objects whose Create was not answered, or whose
               \* Read took an error for "not found"
    resized,   \* history: the volume has a size that no answer has confirmed
    quiet,     \* history: no foreign change since the last handler
    faults, drifts, edits

choices == <<shrinks, omits, decodes>>
controller == <<exists, object, parent, choices>>
history == <<abandoned, resized, quiet>>
bounds == <<faults, drifts, edits>>
vars == <<kind, controller, tf, want, fresh, result, history, bounds>>

Nothing == [ident |-> None, value |-> 0, opt |-> None]
NoState == [id |-> NoId, ident |-> None, value |-> 0, kept |-> 0, opt |-> None,
            tainted |-> FALSE]

Fault == faults < MaxFaults /\ faults' = faults + 1

(* An object that is deleted, or that nobody knows any more, is not        *)
(* followed.                                                               *)
Forget == object' = Nothing /\ resized' = FALSE

-----------------------------------------------------------------------------
(* What a request asks for *)

Given(opt) == IF opt = Unset THEN None ELSE opt

(* size_gb * 2^30 in 64 bits, in GiB *)
Wrapped(n) == ((n + HalfRange) % (2 * HalfRange)) - HalfRange

SentValue(n) == IF kind = "storage_volume" THEN Wrapped(n) ELSE n

(* The Create of a backend refuses some settings before it sends anything; *)
(* the controller refuses a volume without a size.                         *)
Valid(w) == w.ident # Unsafe /\ SentValue(w.value) > 0

Asked(w) == [ident |-> w.ident, value |-> SentValue(w.value), opt |-> Given(w.opt)]

-----------------------------------------------------------------------------
(* The plan *)

Forces == Traits[kind].forces

IdentDiffers == want.ident # tf.ident

(* The size in GiB and the private key are compared with what was          *)
(* configured before; the answers of the controller do not show them.      *)
ValueDiffers ==
    \/ kind \in {"storage_volume", "lb_certificate"} /\ want.value # tf.kept
    \/ kind # "storage_volume" /\ want.value # tf.value

(* A computed attribute that is left out makes no difference.  The         *)
(* configuration of a backend is not computed: left out it is null, which  *)
(* differs from the empty map that is saved.                               *)
OptDiffers ==
    IF Traits[kind].computed THEN want.opt \notin {Unset, tf.opt} ELSE want.opt # tf.opt

HasDiff == IdentDiffers \/ ValueDiffers \/ OptDiffers

Replaces ==
    \/ tf.tainted
    \/ IdentDiffers /\ "ident" \in Forces
    \/ ValueDiffers /\ "value" \in Forces
    \/ OptDiffers /\ "opt" \in Forces

CreateDue == fresh /\ want.present /\ tf.id = NoId
UpdateDue == fresh /\ want.present /\ tf.id # NoId /\ ~Replaces /\ HasDiff
DeleteDue == fresh /\ tf.id # NoId /\ (~want.present \/ Replaces)

(* Terraform refuses an answer that leaves something unknown, or that is   *)
(* not what was planned.  What was answered is saved nevertheless.         *)
Finish(accepted, r) ==
    /\ result' = IF accepted THEN r ELSE "rejected"
    /\ fresh' = FALSE

Fail == result' = "error" /\ fresh' = FALSE

(* A plan that computes anything leaves the names of a certificate         *)
(* unknown, and an unknown list does not fit a slice: in the framework     *)
(* that go.mod requires, Create and Update end before they send anything.  *)
Readable == kind = "lb_certificate" => decodes

-----------------------------------------------------------------------------
(* Create *)

PostObject(id) ==
    /\ parent /\ Valid(want)
    /\ exists' = exists \cup {id}

NewIds == Ids \ (exists \cup abandoned)

(* A certificate without a chain is saved with an unknown one, a backend   *)
(* without a configuration with an empty one instead of null.              *)
CreateAccepted ==
    ~(want.opt = Unset /\ kind \in {"lb_certificate", "storage_backend"})

(* Mutant: the plan is saved. *)
SavePlanned(id, accepted) ==
    tf' = [id |-> id, ident |-> want.ident, value |-> want.value, kept |-> want.value,
           opt |-> want.opt, tainted |-> ~accepted]

(* What the answer shows of the object as it now is, and the planned value.*)
Save(id, accepted) ==
    tf' = [id |-> id, ident |-> object'.ident, value |-> object'.value,
           kept |-> want.value, opt |-> object'.opt, tainted |-> ~accepted]

Create ==
    /\ CreateDue /\ Readable
    /\ object' = Asked(want)
    /\ \E id \in NewIds : PostObject(id) /\ Save(id, CreateAccepted)
    /\ Finish(CreateAccepted, "created")
    /\ resized' = FALSE /\ quiet' = TRUE
    /\ UNCHANGED <<kind, parent, choices, want, abandoned, bounds>>

CreateRefused ==
    /\ CreateDue /\ ~(Readable /\ parent /\ Valid(want))
    /\ Fail
    /\ UNCHANGED <<kind, controller, tf, want, history, bounds>>

CreateFails ==
    /\ CreateDue /\ Readable /\ Fault /\ Fail
    /\ \/ UNCHANGED <<exists, abandoned>>
       \/ \E id \in NewIds : PostObject(id) /\ abandoned' = abandoned \cup {id}
    /\ UNCHANGED <<kind, object, parent, choices, tf, want, resized, quiet,
                   drifts, edits>>

-----------------------------------------------------------------------------
(* Read *)

(* Mutant: the certificate is kept from the state like its key. *)
LBCertificateReadKeeping == tf

(* The private key is never answered, and kept; so is a certificate or a   *)
(* chain that the answer leaves out.                                       *)
LBCertificateRead ==
    [tf EXCEPT !.ident = object.ident,
               !.value = IF omits THEN @ ELSE object.value,
               !.opt = IF omits \/ object.opt = None THEN @ ELSE object.opt]

(* size_gb is not among what a volume answers, and is kept. *)
PlainRead ==
    [tf EXCEPT !.ident = object.ident, !.value = object.value, !.opt = object.opt]

Refreshed == IF kind = "lb_certificate" THEN LBCertificateRead ELSE PlainRead

(* The leases are listed by their pool. *)
Listable == kind = "ipam_lease" => parent

Read ==
    /\ tf.id # NoId => Listable
    /\ tf' = IF tf.id \in exists THEN Refreshed ELSE NoState
    /\ result' = "read" /\ fresh' = TRUE
    /\ UNCHANGED <<kind, controller, want, history, bounds>>

(* Every error of a GET by ID names it, and one with "404" in it counts as *)
(* "not found".                                                            *)
AlwaysMisread == Traits[kind].read = "named" /\ tf.id \in IdsWith404

ReadFails ==
    /\ tf.id # NoId
    /\ \/ Fault /\ ~AlwaysMisread
       \/ ~Listable /\ UNCHANGED faults
    /\ Fail
    /\ UNCHANGED <<kind, controller, tf, want, history, drifts, edits>>

ReadMisled ==
    /\ tf.id # NoId /\ Traits[kind].read # "listed"
    /\ MisleadingErrors \/ AlwaysMisread
    /\ Fault
    /\ tf' = NoState /\ Forget
    /\ abandoned' = abandoned \cup {tf.id}
    /\ result' = "read" /\ fresh' = TRUE
    /\ UNCHANGED <<kind, exists, parent, choices, want, quiet, drifts, edits>>

-----------------------------------------------------------------------------
(* Update *)

(* The pool's arguments are read from the plan, and the Update ends at one *)
(* that is unknown: dns, when it is left out and anything else differs.    *)
IPAMPoolUpdatable == want.opt # Unset

(* Mutant: the size may be reduced. *)
AnySize == TRUE

(* A volume only grows, by what was configured before. *)
StorageVolumeUpdatable == want.value > tf.kept

Updatable ==
    /\ Readable
    /\ kind = "ipam_pool" => IPAMPoolUpdatable
    /\ kind = "storage_volume" => StorageVolumeUpdatable

(* What the controller takes. *)
Accepts ==
    /\ tf.id \in exists
    /\ kind = "storage_volume" =>
          SentValue(want.value) > 0 /\ (shrinks \/ SentValue(want.value) >= object.value)

(* Mutant: a pool's optional attribute is not sent. *)
PutWithoutOption ==
    object' = IF kind = "storage_volume" THEN [object EXCEPT !.value = SentValue(want.value)]
              ELSE [Asked(want) EXCEPT !.opt = object.opt]

(* A resize sends the size alone. *)
Put ==
    object' = IF kind = "storage_volume" THEN [object EXCEPT !.value = SentValue(want.value)]
              ELSE Asked(want)

(* The size in bytes of a volume, and what else the answer shows, was      *)
(* planned to stay; the chain of a certificate stays unknown when it is    *)
(* neither configured nor answered.                                        *)
UpdateAccepted ==
    CASE kind = "storage_volume" -> object'.value = tf.value /\ object'.ident = tf.ident
      [] kind = "lb_certificate" -> want.opt # Unset
      [] OTHER -> TRUE

Update ==
    /\ UpdateDue /\ Updatable /\ Accepts
    /\ Put
    /\ Save(tf.id, TRUE)
    /\ Finish(UpdateAccepted, "updated")
    /\ resized' = FALSE /\ quiet' = TRUE
    /\ UNCHANGED <<kind, exists, parent, choices, want, abandoned, bounds>>

UpdateRefused ==
    /\ UpdateDue /\ ~(Updatable /\ Accepts)
    /\ Fail
    /\ UNCHANGED <<kind, controller, tf, want, history, bounds>>

UpdateFails ==
    /\ UpdateDue /\ Updatable /\ Fault /\ Fail
    /\ \/ UNCHANGED <<object, resized>>
       \/ Accepts /\ Put /\ resized' = TRUE
    /\ UNCHANGED <<kind, exists, parent, choices, tf, want, abandoned,
                   quiet, drifts, edits>>

-----------------------------------------------------------------------------
(* Delete *)

(* An object that is gone already is "HTTP 404", which is no error. *)
Delete ==
    /\ DeleteDue
    /\ exists' = exists \ {tf.id} /\ Forget
    /\ tf' = NoState
    /\ result' = "deleted" /\ UNCHANGED fresh
    /\ UNCHANGED <<kind, parent, choices, want, abandoned, quiet, bounds>>

(* Mutant: every error of a Delete is taken for "not found". *)
AnyErrorIsNotFound == {TRUE}

(* An error with "404" in it counts as "not found".  It has the ID in it   *)
(* when the client wraps it, and otherwise when the request never reached  *)
(* the controller or its answer was lost.                                  *)
TakenForNotFound ==
    IF tf.id \notin IdsWith404 THEN {FALSE}
    ELSE IF Traits[kind].named THEN {TRUE} ELSE BOOLEAN

DeleteFails ==
    /\ DeleteDue /\ Fault
    /\ exists' \in {exists, exists \ {tf.id}}
    /\ \/ TRUE \in TakenForNotFound /\ tf' = NoState /\ Forget
          /\ result' = "deleted" /\ UNCHANGED fresh
       \/ FALSE \in TakenForNotFound /\ UNCHANGED tf /\ Fail
          /\ IF exists' = exists THEN UNCHANGED <<object, resized>> ELSE Forget
    /\ UNCHANGED <<kind, parent, choices, want, abandoned, quiet,
                   drifts, edits>>

-----------------------------------------------------------------------------
(* Other operators of the controller, other resources, and the user *)

Foreign ==
    /\ drifts < MaxDrift /\ drifts' = drifts + 1
    /\ quiet' = FALSE
    /\ \/ /\ tf.id \in exists
          /\ \E w \in Wants[kind] : Valid(w) /\ object' \in {Asked(w), [Asked(w) EXCEPT !.opt = None]}
          /\ resized' = (resized \/ object'.value # object.value)
          /\ UNCHANGED <<exists, parent>>
       \/ tf.id \in exists /\ exists' = exists \ {tf.id} /\ Forget /\ UNCHANGED parent
       \/ /\ kind \in Contained /\ parent
          /\ parent' = FALSE /\ exists' = exists \ {tf.id} /\ Forget
    /\ UNCHANGED <<kind, choices, tf, want, fresh, result, abandoned,
                   faults, edits>>

(* An apply that finds the pool or the VPC gone makes another one first. *)
RemakeParent ==
    /\ fresh /\ ~parent
    /\ parent' = TRUE
    /\ UNCHANGED <<kind, exists, object, choices, tf, want, fresh, result,
                   history, bounds>>

Edit ==
    /\ edits < MaxEdits /\ edits' = edits + 1
    /\ want' \in Wants[kind]
    /\ result' = "none" /\ fresh' = FALSE
    /\ UNCHANGED <<kind, controller, tf, history, faults, drifts>>

Init ==
    /\ kind \in Kinds /\ want \in Wants[kind]
    /\ exists = {} /\ object = Nothing /\ parent = TRUE
    /\ shrinks \in Shrinking /\ omits \in Omitting /\ decodes \in Decodings
    /\ tf = NoState /\ fresh = FALSE /\ result = "none"
    /\ abandoned = {} /\ resized = FALSE /\ quiet = TRUE
    /\ faults = 0 /\ drifts = 0 /\ edits = 0

Apply == RemakeParent \/ Create \/ Update \/ Delete

Next ==
    \/ Read \/ ReadFails \/ ReadMisled
    \/ Apply \/ CreateRefused \/ CreateFails \/ UpdateRefused \/ UpdateFails \/ DeleteFails
    \/ Foreign \/ Edit

Spec == Init /\ [][Next]_vars

(* The user applies again and again, and each apply refreshes first. *)
FairSpec == Spec /\ SF_vars(Read) /\ SF_vars(Apply)

-----------------------------------------------------------------------------
(* Properties *)

Idents == {w.ident : w \in Wants[kind]}
Opts == {None} \cup {Given(w.opt) : w \in Wants[kind]}

(* Every variable has its type. *)
TypeOK ==
    /\ kind \in Kinds /\ want \in Wants[kind]
    /\ exists \subseteq Ids
    /\ object = Nothing \/ object \in [ident : Idents, value : Nat \ {0}, opt : Opts]
    /\ \/ tf = NoState
       \/ tf \in [id : Ids, ident : Idents, value : Nat \ {0}, kept : Nat \ {0}, opt : Opts,
                   tainted : BOOLEAN]
    /\ parent \in BOOLEAN /\ fresh \in BOOLEAN
    /\ shrinks \in Shrinking /\ omits \in Omitting /\ decodes \in Decodings
    /\ result \in {"none", "created", "read", "updated", "deleted", "rejected", "error"}
    /\ abandoned \subseteq Ids /\ resized \in BOOLEAN /\ quiet \in BOOLEAN
    /\ faults \in 0 .. MaxFaults /\ drifts \in 0 .. MaxDrift /\ edits \in 0 .. MaxEdits

(* A Create or an Update that the controller has carried out and answered  *)
(* leaves the object as configured, as long as nobody else changes it: no  *)
(* attribute is lost on the way.  A size whose bytes do not fit 64 bits is *)
(* another size, and reports no error either.                              *)
SuccessRealised ==
    result \in {"created", "updated"} /\ quiet /\ want.value < HalfRange =>
        /\ object.value = want.value /\ object.ident = want.ident
        /\ want.opt \in {Unset, object.opt}

(* The provider never makes a volume smaller, though it compares with the  *)
(* size that was configured before and no Read refreshes that: the size it *)
(* asks for is the greater one unless somebody else, or a request that was *)
(* not answered, has resized the volume, or the size overflows.            *)
VolumeNeverShrunk ==
    [][kind = "storage_volume" /\ drifts' = drifts /\ object # Nothing /\ object' # Nothing
         /\ object'.value < object.value
         => resized \/ want.value >= HalfRange]_vars

Object ==
    INSTANCE ManagedObject WITH
        Misread <- IdsWith404, saved <- tf.id, held <- tf.id, disowned <- abandoned,
        failures <- faults, broken <- {}

(* The resource makes, follows and deletes one object at a time, and loses *)
(* one only in a Create that is not answered, or when a Read or a Delete   *)
(* takes an error for "not found".                                         *)
ImplementsManagedObject == Object!Spec

(* The object is there as configured. *)
Realised ==
    /\ tf.id \in exists
    /\ object.ident = want.ident /\ object.value = want.value
    /\ want.opt \in {Unset, object.opt}

(* Where repeated applies do not help: the next definitions.               *)

(* The saved size hides the real one, or cannot be asked for: a volume     *)
(* must grow, and by what was configured.                                  *)
VolumeStuck ==
    /\ kind = "storage_volume" /\ tf.id \in exists
    /\ resized \/ want.value < tf.kept \/ want.value >= HalfRange

(* The Update of a pool without dns ends before it sends anything. *)
PoolStuck == kind = "ipam_pool" /\ tf.id \in exists /\ want.opt = Unset

(* A lease cannot be refreshed without its pool. *)
LeaseStuck == ~Listable /\ tf.id # NoId

(* A certificate without a chain, or a backend without a configuration, is *)
(* made anew in every apply.                                               *)
Remade == ~CreateAccepted /\ (tf.tainted \/ tf.id = NoId)

(* The settings are looked at in a Create alone: a backend that is to be   *)
(* replaced by one that is refused has been deleted by then.               *)
ReplacedByNone == ~Valid(want) /\ tf.id = NoId

(* A certificate the controller does not show cannot be compared. *)
CertificateHidden ==
    kind = "lb_certificate" /\ tf.id \in exists /\ (omits \/ object.opt = None)

(* Repeated applies end with the object there as configured, after any     *)
(* refused or unanswered request, foreign change or edit, but for the      *)
(* cases above.                                                            *)
ResourceConverges ==
    <>[](IF want.present
         THEN \/ Realised
              \/ VolumeStuck \/ PoolStuck \/ LeaseStuck \/ Remade \/ CertificateHidden
              \/ ReplacedByNone \/ ~Readable
         ELSE tf.id = NoId \/ LeaseStuck)
=============================================================================
