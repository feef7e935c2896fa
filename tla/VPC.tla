-------------------------------- MODULE VPC --------------------------------
(***************************************************************************)
(* The lattice_vpc resource (resource_vpc.go): a VPC with its name, its    *)
(* default firewall action and two lists of items, the port forwards and   *)
(* the firewall rules.                                                     *)
(*                                                                         *)
(* Unlike lattice_security_group, Update compares the plan with the saved  *)
(* state and never with the controller: it removes the saved items that    *)
(* have no index in the plan, adds the planned items that have no index in *)
(* the saved state, and leaves the others as they are.                     *)
(*                                                                         *)
(* Each request to the API is a step; it can be refused, or be carried out *)
(* while its answer is lost.  The optional fields of an item (desc, port)  *)
(* are part of what the configuration says about it or left out with it.   *)
(***************************************************************************)
EXTENDS Integers, FiniteSets, SequencesExt

CONSTANTS
    Names,             \* names of the VPC
    CIDRs,             \* address blocks of the VPC, which force a replacement
    Matches,           \* what a port forward or a firewall rule says
    Wants,             \* the configurations a user may write, "absent" ones too
    MisleadingErrors,  \* may the text of a refused GET contain "not found"?
    MaxItemId,         \* bound on the item IDs the controller hands out
    MaxVPCId,          \* bound on the VPC IDs
    MaxFaults,         \* bound on refused and unanswered requests
    MaxDrift,          \* bound on changes made by other operators
    MaxEdits           \* bound on changes of the configuration

NoId == 0
NoName == ""
Unset == "unset"       \* default_action left out of the configuration

Kinds == {"port forward", "firewall rule"}
Actions == {"accept", "drop"}
VPCIds == 1 .. MaxVPCId
ItemIds == 1 .. MaxItemId
Item == [id : ItemIds, match : Matches]

ASSUME VPCAssumption ==
    /\ MaxItemId \in Nat /\ MaxVPCId \in Nat
    /\ MaxFaults \in Nat /\ MaxDrift \in Nat /\ MaxEdits \in Nat
    /\ Wants \subseteq [present : BOOLEAN, name : Names, cidr : CIDRs,
                        default : Actions \cup {Unset}, lists : [Kinds -> Seq(Matches)]]
    /\ MisleadingErrors \in BOOLEAN

VARIABLES
    vpcs,       \* the VPCs that exist on the controller
    name,       \* the followed VPC's name there
    default,    \* its default_action there
    items,      \* its items there: for each kind, a list in the order of adding
    nextItem,   \* the next item ID the controller hands out
    nextVPC,    \* the next VPC ID
    tf,         \* what Terraform has saved
    want,       \* the configuration
    pc,         \* the running handler: "idle", "creating", "updating"
    vpc,        \* Create's vpc.ID, Update's id
    renaming,   \* is the name still to be sent?
    doomed,     \* for each kind, the IDs still to be removed
    fresh,      \* for each kind, the plan indices still to be added
    defaulting, \* is default_action still to be sent?
    result,     \* how the last handler ended
    current,    \* history: tf was the controller's state when the handler began,
                \* and the plan changes no item in place
    abandoned,  \* history: the VPCs whose Create reported an error
    misread,    \* history: the VPCs whose Read took a refusal for "not found"
    quiet,      \* history: no foreign change since the handler's first request
    faults, drifts, edits

controller == <<vpcs, name, default, items, nextItem, nextVPC>>
locals == <<pc, vpc, renaming, doomed, fresh, defaulting>>
history == <<current, abandoned, misread, quiet>>
bounds == <<faults, drifts, edits>>
vars == <<controller, tf, want, locals, result, history, bounds>>

None == [k \in Kinds |-> {}]
NoItems == [k \in Kinds |-> << >>]
NoState ==
    [id |-> NoId, name |-> NoName, cidr |-> "", default |-> "accept", lists |-> NoItems]
Idle == pc = "idle"

-----------------------------------------------------------------------------
(* The controller *)

Followed == IF Idle THEN tf.id ELSE vpc

PostVPC ==
    /\ nextVPC <= MaxVPCId
    /\ vpcs' = vpcs \cup {nextVPC}
    /\ nextVPC' = nextVPC + 1

IdsOf(list) == {list[n].id : n \in DOMAIN list}

PostItem(k, m) ==
    /\ Followed \in vpcs
    /\ nextItem <= MaxItemId
    /\ items' = [items EXCEPT ![k] = Append(@, [id |-> nextItem, match |-> m])]
    /\ nextItem' = nextItem + 1

RemoveItem(k, i) ==
    \E n \in DOMAIN items[k] :
        items[k][n].id = i /\ items' = [items EXCEPT ![k] = RemoveAt(@, n)]

(* A VPC that is deleted, or that nobody knows any more, is not followed. *)
Forget == items' = NoItems /\ name' = NoName /\ default' = "accept"

Fault == faults < MaxFaults /\ faults' = faults + 1

-----------------------------------------------------------------------------
(* Terraform's plan.  An item keeps the ID that the saved state has at its *)
(* index (UseStateForUnknown); past the saved list it has none.            *)
PlanLen(k) == Len(want.lists[k])
SavedLen(k) == Len(tf.lists[k])

PlanId(k, n) == IF n <= SavedLen(k) THEN tf.lists[k][n].id ELSE NoId

PlanIds(k) == {PlanId(k, n) : n \in 1 .. PlanLen(k)}

(* Mutant: what the controller lists is compared, as security groups do. *)
DoomedListed(k) == IdsOf(items[k]) \ PlanIds(k)

(* Mutant: nothing is ever removed. *)
DoomedNever(k) == {}

Doomed(k) == IdsOf(tf.lists[k]) \ PlanIds(k)

(* Mutant: the loop runs one index too far. *)
FreshTooFar(k) == {n \in 1 .. PlanLen(k) + 1 : PlanId(k, n) = NoId}

Fresh(k) == {n \in 1 .. PlanLen(k) : PlanId(k, n) = NoId}

Agree(k) == \A n \in 1 .. PlanLen(k) :
               n <= SavedLen(k) => tf.lists[k][n].match = want.lists[k][n]

(* A default_action that is left out is not a difference by itself, and is *)
(* unknown, so never equal to the saved one, when something else differs.  *)
DefaultDiffers == want.default \notin {Unset, tf.default}

HasDiff ==
    \/ want.name # tf.name \/ DefaultDiffers
    \/ \E k \in Kinds : PlanLen(k) # SavedLen(k) \/ ~Agree(k)

(* The address block of a VPC cannot change: another one is another VPC. *)
Replaces == want.cidr # tf.cidr

WantedDefault == IF want.default = Unset THEN "accept" ELSE want.default

SavedIsCurrent ==
    tf.id \in vpcs /\ tf.name = name /\ tf.default = default /\ tf.lists = items

Finish(r) ==
    /\ pc' = "idle" /\ result' = r /\ vpc' = NoId
    /\ renaming' = FALSE /\ defaulting' = FALSE /\ doomed' = None /\ fresh' = None

Save(id) ==
    tf' = [id |-> id, name |-> name, cidr |-> IF tf.id = NoId THEN want.cidr ELSE tf.cidr,
           default |-> default, lists |-> items]

-----------------------------------------------------------------------------
(* Create and Update begin *)

CreateVPC ==
    /\ Idle /\ want.present /\ tf.id = NoId
    /\ PostVPC
    /\ name' = want.name /\ default' = "accept"
    /\ pc' = "creating" /\ vpc' = nextVPC /\ result' = "none"
    /\ renaming' = FALSE /\ doomed' = None
    /\ fresh' = [k \in Kinds |-> 1 .. PlanLen(k)]
    /\ defaulting' = (WantedDefault # "accept")
    /\ current' = TRUE /\ quiet' = TRUE
    /\ UNCHANGED <<items, nextItem, tf, want, abandoned, misread, bounds>>

CreateVPCFails ==
    /\ Idle /\ want.present /\ tf.id = NoId
    /\ Fault /\ Finish("error")
    /\ \/ UNCHANGED <<vpcs, nextVPC, abandoned>>
       \/ PostVPC /\ abandoned' = abandoned \cup {nextVPC}
    /\ UNCHANGED <<name, default, items, nextItem, tf, want, current, misread, quiet,
                   drifts, edits>>

(* Terraform refreshes, plans, and applies the plan: others can change the *)
(* VPC between the refresh and the apply, but no apply follows another     *)
(* without a refresh.                                                      *)
Planned == Idle /\ tf.id # NoId /\ result = "read"

(* Update compares its plan with the saved state before it sends anything. *)
UpdateBegins ==
    /\ Planned /\ want.present /\ ~Replaces /\ HasDiff
    /\ pc' = "updating" /\ vpc' = tf.id /\ result' = "none"
    /\ renaming' = (want.name # tf.name)
    /\ doomed' = [k \in Kinds |-> Doomed(k)]
    /\ fresh' = [k \in Kinds |-> Fresh(k)]
    /\ defaulting' = (want.default = Unset \/ DefaultDiffers)
    /\ current' = (SavedIsCurrent /\ \A k \in Kinds : Agree(k)) /\ quiet' = TRUE
    /\ UNCHANGED <<controller, tf, want, abandoned, misread, bounds>>

-----------------------------------------------------------------------------
(* The requests of a running Create or Update, one kind after the other *)

Pending(k) == doomed[k] # {} \/ fresh[k] # {}
Turn(k) == ~Idle /\ ~renaming /\ (k = "firewall rule" => ~Pending("port forward"))
ItemsDone == ~Idle /\ ~renaming /\ \A k \in Kinds : ~Pending(k)

Rename ==
    /\ renaming /\ vpc \in vpcs
    /\ name' = want.name
    /\ renaming' = FALSE
    /\ UNCHANGED <<vpcs, default, items, nextItem, nextVPC, tf, want, pc, vpc, doomed,
                   fresh, defaulting, result, history, bounds>>

RemoveSaved(k) ==
    /\ Turn(k)
    /\ \E i \in doomed[k] :
          RemoveItem(k, i) /\ doomed' = [doomed EXCEPT ![k] = @ \ {i}]
    /\ UNCHANGED <<vpcs, name, default, nextItem, nextVPC, tf, want, pc, vpc, renaming,
                   fresh, defaulting, result, history, bounds>>

NextFresh(k, n) == n \in fresh[k] /\ \A m \in fresh[k] : n <= m

AddFresh(k) ==
    /\ Turn(k) /\ doomed[k] = {}
    /\ \E n \in fresh[k] :
          /\ NextFresh(k, n)
          /\ PostItem(k, want.lists[k][n])
          /\ fresh' = [fresh EXCEPT ![k] = @ \ {n}]
    /\ UNCHANGED <<vpcs, name, default, nextVPC, tf, want, pc, vpc, renaming, doomed,
                   defaulting, result, history, bounds>>

SetFirewallDefault ==
    /\ ItemsDone /\ defaulting /\ vpc \in vpcs
    /\ default' = WantedDefault
    /\ defaulting' = FALSE
    /\ UNCHANGED <<vpcs, name, items, nextItem, nextVPC, tf, want, pc, vpc, renaming,
                   doomed, fresh, result, history, bounds>>

(* The request that is due is refused, because it is late or what it names *)
(* is gone, or its answer is lost.  Nothing is saved; a VPC that Create    *)
(* was filling is not followed any more.                                   *)
Due(effect) ==
    \/ Fault /\ (UNCHANGED <<name, default, items, nextItem>> \/ (vpc \in vpcs /\ effect))
    \/ vpc \notin vpcs /\ UNCHANGED <<name, default, items, nextItem, faults>>

DueFails ==
    \/ renaming /\ Due(name' = want.name /\ UNCHANGED <<default, items, nextItem>>)
    \/ \E k \in Kinds : Turn(k) /\ \E i \in doomed[k] :
          \/ Due(RemoveItem(k, i) /\ UNCHANGED <<name, default, nextItem>>)
          \/ i \notin IdsOf(items[k]) /\ UNCHANGED <<name, default, items, nextItem, faults>>
    \/ \E k \in Kinds : Turn(k) /\ doomed[k] = {} /\ \E n \in fresh[k] :
          /\ NextFresh(k, n)
          /\ Due(PostItem(k, want.lists[k][n]) /\ UNCHANGED <<name, default>>)
    \/ ItemsDone /\ Due(/\ default' = IF defaulting THEN WantedDefault ELSE default
                        /\ UNCHANGED <<name, items, nextItem>>)

UpdateFails ==
    /\ pc = "updating"
    /\ DueFails
    /\ Finish("error")
    /\ UNCHANGED <<vpcs, nextVPC, tf, want, history, drifts, edits>>

CreateFails ==
    /\ pc = "creating"
    /\ \/ Fault
       \/ vpc \notin vpcs /\ UNCHANGED faults
    /\ Finish("error") /\ Forget
    /\ abandoned' = abandoned \cup {vpc}
    /\ UNCHANGED <<vpcs, nextItem, nextVPC, tf, want, current, misread, quiet,
                   drifts, edits>>

(* The VPC is read back and saved. *)
Return ==
    /\ ItemsDone /\ ~defaulting /\ vpc \in vpcs
    /\ Save(vpc)
    /\ Finish(IF pc = "creating" THEN "created" ELSE "updated")
    /\ UNCHANGED <<controller, want, history, bounds>>

-----------------------------------------------------------------------------
(* Read and Delete *)

(* Mutant: a VPC that is gone is kept in the state. *)
ReadKeepsLost ==
    /\ Idle /\ tf.id # NoId
    /\ IF tf.id \in vpcs THEN Save(tf.id) ELSE UNCHANGED tf
    /\ result' = "read" /\ quiet' = TRUE
    /\ UNCHANGED <<controller, want, locals, current, abandoned, misread, bounds>>

Read ==
    /\ Idle /\ tf.id # NoId
    /\ IF tf.id \in vpcs THEN Save(tf.id) ELSE tf' = NoState
    /\ result' = "read" /\ quiet' = TRUE
    /\ UNCHANGED <<controller, want, locals, current, abandoned, misread, bounds>>

(* Mutant: whatever the error, the VPC is taken to be gone. *)
ReadFailsDropping ==
    /\ Idle /\ tf.id # NoId
    /\ Fault
    /\ tf' = NoState /\ result' = "read" /\ Forget
    /\ UNCHANGED <<vpcs, nextItem, nextVPC, want, locals, current, abandoned, misread,
                   quiet, drifts, edits>>

(* Every VPC is listed, and an error that says "not found" for any reason  *)
(* is taken to be about this one.                                          *)
ReadFails ==
    /\ Idle /\ tf.id # NoId
    /\ Fault
    /\ \/ result' = "error" /\ UNCHANGED <<tf, name, default, items, misread>>
       \/ /\ MisleadingErrors
          /\ tf' = NoState /\ result' = "read" /\ Forget
          /\ misread' = misread \cup {tf.id}
    /\ UNCHANGED <<vpcs, nextItem, nextVPC, want, locals, current, abandoned, quiet,
                   drifts, edits>>

DeleteVPC == tf.id \in vpcs /\ vpcs' = vpcs \ {tf.id} /\ Forget

Delete ==
    /\ Planned /\ (~want.present \/ Replaces)
    /\ DeleteVPC
    /\ tf' = NoState /\ Finish("deleted")
    /\ UNCHANGED <<nextItem, nextVPC, want, history, bounds>>

(* "Not found" is an error here like any other. *)
DeleteFails ==
    /\ Planned /\ (~want.present \/ Replaces)
    /\ \/ Fault /\ (UNCHANGED <<vpcs, name, default, items>> \/ DeleteVPC)
       \/ tf.id \notin vpcs /\ UNCHANGED <<vpcs, name, default, items, faults>>
    /\ Finish("error")
    /\ UNCHANGED <<nextItem, nextVPC, tf, want, history, drifts, edits>>

-----------------------------------------------------------------------------
(* Other operators of the controller, and the user *)

Foreign ==
    /\ drifts < MaxDrift /\ drifts' = drifts + 1
    /\ Followed \in vpcs
    /\ quiet' = FALSE
    /\ \/ /\ \E k \in Kinds, m \in Matches : PostItem(k, m)
          /\ UNCHANGED <<vpcs, name, default>>
       \/ /\ \E k \in Kinds : \E i \in IdsOf(items[k]) : RemoveItem(k, i)
          /\ UNCHANGED <<vpcs, name, default, nextItem>>
       \/ default' \in Actions /\ name' \in Names /\ UNCHANGED <<vpcs, items, nextItem>>
       \/ vpcs' = vpcs \ {Followed} /\ Forget /\ UNCHANGED nextItem
    /\ UNCHANGED <<nextVPC, tf, want, locals, result, current, abandoned, misread,
                   faults, edits>>

Edit ==
    /\ Idle /\ edits < MaxEdits /\ edits' = edits + 1
    /\ want' \in Wants
    /\ result' = "none"
    /\ UNCHANGED <<controller, tf, locals, history, faults, drifts>>

Init ==
    /\ vpcs = {} /\ name = NoName /\ default = "accept" /\ items = NoItems
    /\ nextItem = 1 /\ nextVPC = 1
    /\ tf = NoState /\ want \in Wants
    /\ pc = "idle" /\ vpc = NoId /\ renaming = FALSE /\ defaulting = FALSE
    /\ doomed = None /\ fresh = None
    /\ result = "none"
    /\ current = TRUE /\ abandoned = {} /\ misread = {} /\ quiet = TRUE
    /\ faults = 0 /\ drifts = 0 /\ edits = 0

Step ==
    \/ Rename \/ \E k \in Kinds : RemoveSaved(k) \/ AddFresh(k)
    \/ SetFirewallDefault \/ UpdateFails \/ CreateFails \/ Return

Next ==
    \/ CreateVPC \/ CreateVPCFails \/ UpdateBegins \/ Step
    \/ Read \/ ReadFails \/ Delete \/ DeleteFails
    \/ Foreign \/ Edit

Spec == Init /\ [][Next]_vars

(* A handler runs to its end; the user applies again and again, and each   *)
(* apply refreshes first.                                                  *)
FairSpec ==
    /\ Spec
    /\ WF_vars(CreateVPC) /\ SF_vars(UpdateBegins) /\ SF_vars(Delete)
    /\ WF_vars(Step) /\ SF_vars(Read)

-----------------------------------------------------------------------------
(* Properties *)

(* Every variable has its type. *)
TypeOK ==
    /\ vpcs \subseteq VPCIds
    /\ name \in Names \cup {NoName} /\ default \in Actions
    /\ items \in [Kinds -> Seq(Item)]
    /\ nextItem \in 1 .. MaxItemId + 1 /\ nextVPC \in 1 .. MaxVPCId + 1
    /\ tf \in [id : VPCIds \cup {NoId}, name : Names \cup {NoName},
               cidr : CIDRs \cup {""}, default : Actions, lists : [Kinds -> Seq(Item)]]
    /\ want \in Wants
    /\ pc \in {"idle", "creating", "updating"}
    /\ vpc \in IF Idle THEN {NoId} ELSE VPCIds
    /\ renaming \in BOOLEAN /\ defaulting \in BOOLEAN
    /\ doomed \in [Kinds -> SUBSET ItemIds]
    /\ fresh \in [Kinds -> SUBSET Nat]
    /\ \A k \in Kinds : fresh[k] \subseteq 1 .. PlanLen(k)
    /\ result \in {"none", "created", "read", "updated", "deleted", "error"}
    /\ current \in BOOLEAN /\ quiet \in BOOLEAN
    /\ abandoned \subseteq VPCIds /\ misread \subseteq VPCIds
    /\ faults \in 0 .. MaxFaults /\ drifts \in 0 .. MaxDrift /\ edits \in 0 .. MaxEdits

(* The controller's items of a kind are the configured ones, in order. *)
Realised(k) ==
    /\ Len(items[k]) = PlanLen(k)
    /\ \A n \in 1 .. PlanLen(k) : items[k][n].match = want.lists[k][n]

(* A Create that reports success, and an Update that does and had only to  *)
(* drop items from the end of a list or append some to it, has left the    *)
(* configured name, default action and items on the controller.  (An       *)
(* Update that changes an item in place or takes one out of the middle has *)
(* not: see UpdateRemovesWhatThePlanDropped.)                              *)
TailEditsRealised ==
    result \in {"created", "updated"} /\ quiet /\ current =>
        /\ name = want.name /\ default = WantedDefault
        /\ \A k \in Kinds : Realised(k)

Object ==
    INSTANCE ManagedObject WITH
        Ids <- VPCIds, Misread <- {}, exists <- vpcs, saved <- tf.id, held <- Followed,
        disowned <- abandoned \cup misread, failures <- faults, broken <- {}

(* The resource makes, follows and deletes one VPC at a time, and loses    *)
(* one only in a Create that reports an error, or when a Read takes an     *)
(* error for "not found".                                                  *)
ImplementsManagedObject == Object!Spec

(* While a VPC exists, the provider takes down only items that it has      *)
(* saved, and only from beyond the planned length of their list: items     *)
(* other operators added, and items at a planned index, stay up.           *)
OnlySavedTailRemoved ==
    [][\A k \in Kinds : \A i \in IdsOf(items[k]) \ IdsOf(items'[k]) :
          drifts' = drifts /\ Followed \in vpcs' /\ ~Idle /\ abandoned' = abandoned
              => \E n \in PlanLen(k) + 1 .. SavedLen(k) : tf.lists[k][n].id = i]_vars

(* Repeated applies end with the configured name, default action and       *)
(* number of items, or with nothing saved when the resource is no longer   *)
(* configured, after any refused and unanswered requests, foreign changes  *)
(* and edits.  What the items say may stay wrong.                          *)
SizesConverge ==
    <>[](IF want.present
         THEN /\ tf.id \in vpcs /\ tf.cidr = want.cidr /\ name = want.name
              /\ want.default # Unset => default = want.default
              /\ \A k \in Kinds : Len(items[k]) = PlanLen(k)
         ELSE tf.id = NoId)

(* "Remove port forwards that are in state but not in plan."               *)
(* (resource_vpc.go:446): after an Update that reports success, with a     *)
(* saved state that was up to date and nobody else at work, the controller *)
(* has only items the configuration lists.                                 *)
UpdateRemovesWhatThePlanDropped ==
    result = "updated" /\ quiet /\ drifts = 0 /\ faults = 0 =>
        \A k \in Kinds : \A i \in DOMAIN items[k] :
            \E n \in 1 .. PlanLen(k) : want.lists[k][n] = items[k][i].match
=============================================================================
