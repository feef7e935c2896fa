------------------------------ MODULE VMProofs ------------------------------
(***************************************************************************)
(* Proofs about VM, for any groups, images, configurations and bounds.     *)
(***************************************************************************)
EXTENDS VM, TLAPS

Results == {"none", "created", "read", "updated", "deleted", "error"}
StateType == [id : VMIds, status : Statuses, image : Images]

(* A configuration has the attributes that the model tells apart.          *)
LEMMA WantType ==
    ASSUME NEW w \in Wants
    PROVE  /\ w.present \in BOOLEAN /\ w.status \in Statuses \cup {Unset}
           /\ w.image \in Images /\ w.pinned \in BOOLEAN /\ w.groups \subseteq Groups
BY VMAssumption

(* No VM has the ID that stands for none.                                  *)
LEMMA Distinct ==
    NoId \notin VMIds /\ NoState.id = NoId /\ NoState \notin StateType
BY DEF NoId, VMIds, NoState, StateType

(* The bounds are numbers.                                                 *)
LEMMA Bounds ==
    MaxVMId \in Nat /\ MaxFaults \in Nat /\ MaxDrift \in Nat /\ MaxEdits \in Nat
BY VMAssumption

(* A new VM has the next ID.                                               *)
LEMMA PostVMKeeps ==
    ASSUME TypeOK, PostVM
    PROVE  /\ nextVM \in VMIds /\ nextVM' = nextVM + 1 /\ nextVM' \in 1 .. MaxVMId + 1
           /\ vms' = vms \cup {nextVM}
<1>1. nextVM \in 1 .. MaxVMId + 1
  BY DEF TypeOK
<1> QED BY <1>1, Bounds DEF PostVM, VMIds

-----------------------------------------------------------------------------
(* Types *)

(* What TypeOK needs to be inductive: a VM that exists has a status, and a *)
(* Create runs while nothing is saved.                                     *)
Shown ==
    /\ Followed \in vms => status \in Statuses
    /\ pc = "starting" => tf.id = NoId

(* Every step keeps the types.                                             *)
LEMMA TypeStep ==
    ASSUME TypeOK, Shown, [Next]_vars
    PROVE  TypeOK' /\ Shown'
<1> USE Bounds, Distinct
<1>x. TypeOK
  OBVIOUS
<1>t. /\ vms \subseteq VMIds /\ nextVM \in 1 .. MaxVMId + 1
      /\ status \in Statuses \cup {""} /\ attached \subseteq Groups /\ missing \in MissingVM
      /\ tf = NoState \/ tf \in StateType
      /\ att \in [Groups -> VMIds \cup {NoId}]
      /\ want \in Wants /\ fresh \subseteq Groups \cup {"vm"}
      /\ pc \in {"idle", "starting"} /\ result \in Results
      /\ pc = "idle" => vm = NoId
      /\ pc # "idle" => vm \in VMIds
      /\ strays \subseteq Groups /\ quiet \in BOOLEAN /\ abandoned \subseteq VMIds
      /\ faults \in 0 .. MaxFaults /\ drifts \in 0 .. MaxDrift /\ edits \in 0 .. MaxEdits
      /\ pc = "idle" => Followed = tf.id
      /\ pc # "idle" => Followed = vm
      /\ Followed \in vms => status \in Statuses
      /\ pc = "starting" => tf.id = NoId
  BY DEF TypeOK, StateType, Results, Idle, Followed, Shown
<1>n. faults \in 0 .. MaxFaults /\ drifts \in 0 .. MaxDrift /\ edits \in 0 .. MaxEdits
  BY <1>t
<1>i. tf.id # NoId => tf \in StateType /\ tf.id \in VMIds
  BY <1>t DEF StateType
<1>f. ASSUME Fault PROVE faults' \in 0 .. MaxFaults
  BY <1>f, <1>n DEF Fault
<1>w. /\ want.image \in Images /\ want.status \in Statuses \cup {Unset}
      /\ want.groups \subseteq Groups
  BY <1>t, WantType
<1>a. ASSUME vms' \subseteq VMIds, nextVM' \in 1 .. MaxVMId + 1,
             status' \in Statuses \cup {""}, missing' = missing,
             tf' = NoState \/ tf' \in StateType,
             pc' \in {"idle", "starting"}, result' \in Results,
             pc' = "idle" => vm' = NoId, pc' # "idle" => vm' \in VMIds,
             quiet' \in BOOLEAN, abandoned' \subseteq VMIds,
             want' \in Wants, att' \in [Groups -> VMIds \cup {NoId}],
             attached' \subseteq Groups, strays' \subseteq Groups,
             fresh' \subseteq Groups \cup {"vm"},
             faults' \in 0 .. MaxFaults, drifts' \in 0 .. MaxDrift, edits' \in 0 .. MaxEdits
      PROVE  TypeOK'
  BY <1>a, <1>t DEF TypeOK, StateType, Results, Idle
<1>b. ASSUME pc' = "idle" => Followed' = tf'.id /\ (tf'.id \in vms' => status' \in Statuses),
             pc' # "idle" => Followed' = vm' /\ (vm' \in vms' => status' \in Statuses),
             pc' = "starting" => tf'.id = NoId
      PROVE  Shown'
  BY <1>b DEF Shown
<1>c. /\ pc' = "idle" => Followed' = tf'.id
      /\ pc' # "idle" => Followed' = vm'
  BY DEF Followed, Idle
<1>1. CASE CreateVM
  <2>1. /\ PostVM /\ status' = "stopped" /\ quiet' = TRUE /\ tf.id = NoId
        /\ UNCHANGED <<attached, missing, att, want, fresh, strays, abandoned, bounds>>
    BY <1>1 DEF CreateVM
  <2>2. nextVM \in VMIds /\ nextVM' \in 1 .. MaxVMId + 1 /\ vms' = vms \cup {nextVM}
    BY <1>x, <2>1, PostVMKeeps
  <2>3. CASE pc' = "starting" /\ vm' = nextVM /\ result' = "none" /\ UNCHANGED tf
    <3>1. TypeOK'
      BY <1>a, <1>t, <2>1, <2>2, <2>3 DEF Results, Statuses, bounds
    <3>2. Shown'
      BY <1>b, <1>c, <2>1, <2>3 DEF Statuses
    <3> QED BY <3>1, <3>2
  <2>4. CASE Save(nextVM, "stopped") /\ Finish("created")
    <3>1. tf' \in StateType
      BY <1>w, <2>2, <2>4 DEF Save, StateType, Statuses
    <3>2. TypeOK'
      BY <1>a, <1>t, <2>1, <2>2, <2>4, <3>1 DEF Finish, Results, Statuses, bounds
    <3>3. Shown'
      BY <1>b, <1>c, <2>1, <2>4 DEF Finish, Statuses
    <3> QED BY <3>2, <3>3
  <2> QED BY <1>1, <2>3, <2>4 DEF CreateVM
<1>2. CASE CreateVMFails
  <2>1. /\ Fault /\ Fail /\ tf.id = NoId
        /\ UNCHANGED <<status, attached, missing, saved, want, strays, quiet, drifts, edits>>
        /\ vms' \subseteq VMIds /\ nextVM' \in 1 .. MaxVMId + 1 /\ abandoned' \subseteq VMIds
        /\ NoId \notin vms'
    BY <1>2, <1>x, <1>t, PostVMKeeps DEF CreateVMFails
  <2>2. TypeOK'
    BY <1>a, <1>f, <1>t, <2>1 DEF Fail, Finish, Results, saved
  <2>3. Shown'
    BY <1>b, <1>c, <2>1 DEF Fail, Finish, saved
  <2> QED BY <2>2, <2>3
<1>3. CASE Start
  <2>1. tf' \in StateType
    BY <1>3, <1>t, <1>w DEF Start, Save, StateType, Statuses
  <2>2. TypeOK'
    BY <1>3, <1>a, <1>t, <2>1 DEF Start, Finish, Results, Statuses, history, bounds
  <2>3. Shown'
    BY <1>3, <1>b, <1>c DEF Start, Finish, Statuses
  <2> QED BY <2>2, <2>3
<1>4. CASE StartFails
  <2>1. abandoned' \subseteq VMIds /\ faults' \in 0 .. MaxFaults
    BY <1>4, <1>f, <1>t DEF StartFails
  <2>2. TypeOK'
    BY <1>4, <1>a, <1>t, <2>1 DEF StartFails, Fail, Finish, Forget, Results, saved
  <2>3. Shown'
    BY <1>4, <1>b, <1>c, <1>t DEF StartFails, Fail, Finish, saved
  <2> QED BY <2>2, <2>3
<1>5. CASE Read
  <2>1. /\ tf' = IF tf.id \in vms THEN [tf EXCEPT !.status = status] ELSE NoState
        /\ pc' = "idle" /\ pc = "idle"
    BY <1>5 DEF Read, Idle
  <2>2. tf' = NoState \/ (tf' \in StateType /\ tf'.id = tf.id)
    <3>1. CASE tf.id \in vms
      <4>1. tf \in StateType /\ status \in Statuses
        BY <1>i, <1>t, <2>1, <3>1
      <4> QED BY <2>1, <3>1, <4>1 DEF StateType
    <3> QED BY <2>1, <3>1
  <2>3. TypeOK'
    BY <1>5, <1>a, <1>t, <2>2 DEF Read, Results, controller, bounds
  <2>4. Shown'
    BY <1>5, <1>b, <1>c, <1>t, <2>1, <2>2 DEF Read, controller
  <2> QED BY <2>3, <2>4
<1>6. CASE ReadFails
  <2>1. /\ Finish("error") \/ Finish("read")
        /\ fresh' \subseteq Groups \cup {"vm"} /\ abandoned' \subseteq VMIds
        /\ \/ UNCHANGED <<tf, status, attached, strays>>
           \/ tf' = NoState /\ Forget
    BY <1>6, <1>i, <1>t DEF ReadFails, Fail
  <2>2. TypeOK'
    BY <1>6, <1>a, <1>f, <1>t, <2>1 DEF ReadFails, Finish, Forget, Results
  <2>3. Shown'
    BY <1>6, <1>b, <1>c, <1>t, <2>1 DEF ReadFails, Finish, Idle
  <2> QED BY <2>2, <2>3
(* Steps of the attachments. *)
<1>s. ASSUME UNCHANGED <<vms, status, missing, nextVM, tf, want, pc, vm>>,
             att' \in [Groups -> VMIds \cup {NoId}], attached' \subseteq Groups,
             strays' \subseteq Groups, fresh' \subseteq Groups \cup {"vm"},
             result' \in Results, quiet' = quiet, abandoned' = abandoned,
             faults' \in 0 .. MaxFaults, drifts' = drifts, edits' = edits
      PROVE  TypeOK' /\ Shown'
  <2>1. TypeOK'
    BY <1>s, <1>a, <1>t
  <2>2. Shown'
    BY <1>s, <1>b, <1>c, <1>t
  <2> QED BY <2>1, <2>2
<1>7. ASSUME NEW g \in Groups, ReadAttachment(g) PROVE TypeOK' /\ Shown'
  <2>1. att' \in [Groups -> VMIds \cup {NoId}]
    BY <1>7, <1>t DEF ReadAttachment
  <2> QED BY <1>7, <1>s, <1>t, <2>1 DEF ReadAttachment, controller, history, bounds
<1>8. ASSUME NEW g \in Groups, ReadAttachmentFails(g) PROVE TypeOK' /\ Shown'
  BY <1>8, <1>f, <1>s, <1>t DEF ReadAttachmentFails, Fail, Finish, Results, Idle, controller,
     saved, history
<1>9. CASE Update
  <2>1. /\ pc = "idle" /\ pc' = "idle" /\ vm' = NoId /\ result' = "updated" /\ tf.id # NoId
        /\ quiet' \in BOOLEAN
    BY <1>9, <1>t DEF Update, Planned, Ready, Idle, Finish
  <2>2. /\ status' \in Statuses \cup {""} /\ tf' \in StateType /\ tf'.id = tf.id
        /\ tf.id \in vms => status' \in Statuses
    BY <1>9, <1>i, <1>t, <2>1 DEF Update, SetStatus, Sent, StateType, Statuses
  <2>3. TypeOK'
    BY <1>9, <1>a, <1>t, <2>1, <2>2 DEF Update, Results, bounds
  <2>4. Shown'
    <3>1. vms' = vms
      BY <1>9 DEF Update
    <3> QED BY <1>b, <1>c, <2>1, <2>2, <3>1
  <2> QED BY <2>3, <2>4
<1>10. CASE UpdateFails
  <2>1. /\ pc = "idle" /\ faults' \in 0 .. MaxFaults /\ status' \in Statuses \cup {""}
        /\ tf.id \in vms => status' \in Statuses
    BY <1>10, <1>f, <1>t DEF UpdateFails, Planned, Ready, Idle, SetStatus, Sent, Statuses
  <2>2. TypeOK'
    BY <1>10, <1>a, <1>t, <2>1 DEF UpdateFails, Fail, Finish, Results, saved, history
  <2>3. Shown'
    BY <1>10, <1>b, <1>c, <1>t, <2>1 DEF UpdateFails, Fail, Finish, saved
  <2> QED BY <2>2, <2>3
<1>11. CASE Delete
  <2>1. TypeOK'
    BY <1>11, <1>a, <1>t DEF Delete, DropVM, Forget, Finish, Results, bounds
  <2>2. Shown'
    BY <1>11, <1>b, <1>c, <1>t DEF Delete, DropVM, Finish
  <2> QED BY <2>1, <2>2
<1>12. CASE DeleteFails
  <2>1. /\ pc = "idle" /\ faults' \in 0 .. MaxFaults
        /\ \/ UNCHANGED <<vms, status, attached, strays>>
           \/ DropVM
    BY <1>12, <1>f, <1>t DEF DeleteFails, Doomed, Ready, Idle
  <2>2. TypeOK'
    BY <1>12, <1>a, <1>t, <2>1 DEF DeleteFails, DropVM, Forget, Fail, Finish, Results, saved
  <2>3. Shown'
    BY <1>12, <1>b, <1>c, <1>t, <2>1 DEF DeleteFails, DropVM, Fail, Finish, saved
  <2> QED BY <2>2, <2>3
<1>13. ASSUME NEW g \in Groups, Attach(g) PROVE TypeOK' /\ Shown'
  <2>1. tf.id \in VMIds
    BY <1>13, <1>t DEF Attach
  <2> QED BY <1>13, <1>s, <1>t, <2>1 DEF Attach, bounds
<1>14. ASSUME NEW g \in Groups, AttachFails(g) PROVE TypeOK' /\ Shown'
  <2>1. /\ pc = "idle" /\ vm = NoId /\ faults' \in 0 .. MaxFaults
        /\ attached' \subseteq Groups /\ strays' \subseteq Groups
    BY <1>14, <1>f, <1>t DEF AttachFails, Attachable, Planned, Ready, Idle
  <2> QED BY <1>14, <1>s, <1>t, <2>1 DEF AttachFails, Fail, Finish, Results, saved
<1>15. ASSUME NEW g \in Groups, Detach(g) PROVE TypeOK' /\ Shown'
  BY <1>15, <1>s, <1>t DEF Detach, Remove, history, bounds
<1>16. ASSUME NEW g \in Groups, DetachFails(g) PROVE TypeOK' /\ Shown'
  <2>1. /\ pc = "idle" /\ vm = NoId /\ faults' \in 0 .. MaxFaults /\ attached' \subseteq Groups
    BY <1>16, <1>f, <1>t DEF DetachFails, Detachable, Ready, Idle, Remove
  <2>2. CASE Fail /\ UNCHANGED <<att, strays>>
    BY <1>16, <1>s, <1>t, <2>1, <2>2 DEF DetachFails, Fail, Finish, Results
  <2>3. CASE /\ att' = [att EXCEPT ![g] = NoId]
             /\ strays' = strays \cup (IF att[g] = tf.id THEN {g} ELSE {})
             /\ UNCHANGED <<pc, vm, result, fresh>>
    BY <1>16, <1>s, <1>t, <2>1, <2>3 DEF DetachFails
  <2> QED BY <1>16, <2>2, <2>3 DEF DetachFails
<1>17. CASE Foreign
  <2>1. drifts' \in 0 .. MaxDrift /\ quiet' = FALSE
    BY <1>17, <1>n DEF Foreign
  <2>2. /\ vms' \subseteq VMIds /\ status' \in Statuses \cup {""} /\ attached' \subseteq Groups
        /\ strays' \subseteq Groups
    BY <1>17, <1>t DEF Foreign, Forget
  <2>3. TypeOK'
    BY <1>17, <1>a, <1>t, <2>1, <2>2 DEF Foreign, saved
  <2>4. Shown'
    BY <1>17, <1>t, <1>c, <1>b DEF Foreign, saved
  <2> QED BY <2>3, <2>4
<1>18. CASE Edit
  <2>1. edits' \in 0 .. MaxEdits
    BY <1>18, <1>n DEF Edit
  <2>2. TypeOK'
    BY <1>18, <1>a, <1>t, <2>1 DEF Edit, Results, controller, saved, history
  <2>3. Shown'
    BY <1>18, <1>b, <1>c, <1>t DEF Edit, controller, saved
  <2> QED BY <2>2, <2>3
<1>19. CASE UNCHANGED vars
  BY <1>19, <1>s, <1>t DEF vars, controller, saved, history, bounds
<1> QED
  BY <1>1, <1>2, <1>3, <1>4, <1>5, <1>6, <1>7, <1>8, <1>9, <1>10, <1>11, <1>12, <1>13,
     <1>14, <1>15, <1>16, <1>17, <1>18, <1>19 DEF Next, Apply

(* Types, and what exists is shown, in every reachable state.              *)
LEMMA AlwaysTyped == Spec => [](TypeOK /\ Shown)
<1>1. Init => TypeOK /\ Shown
  <2> SUFFICES ASSUME Init PROVE TypeOK /\ Shown
    OBVIOUS
  <2>1. 0 \in 0 .. MaxFaults /\ 0 \in 0 .. MaxDrift /\ 0 \in 0 .. MaxEdits /\ 1 \in 1 .. MaxVMId + 1
    BY Bounds
  <2> QED BY <2>1 DEF Init, TypeOK, Idle, Shown
<1> QED BY <1>1, TypeStep, PTL DEF Spec

(* Every variable has its type, for any groups, images and bounds.         *)
THEOREM TypeCorrect == Spec => []TypeOK
BY AlwaysTyped, PTL

-----------------------------------------------------------------------------
(* One VM at a time *)

(* IDs are handed out in order.                                            *)
Numbered ==
    /\ vms \cup abandoned \subseteq 1 .. nextVM - 1
    /\ tf.id < nextVM /\ vm < nextVM

(* Every step keeps that.                                                  *)
LEMMA NumberedStep ==
    ASSUME TypeOK, Numbered, [Next]_vars
    PROVE  Numbered'
<1> USE DEF Numbered
<1>x. TypeOK
  OBVIOUS
<1>t. /\ nextVM \in Nat \ {0} /\ vm \in Nat
      /\ NoState.id = 0 /\ NoId = 0
      /\ tf = NoState \/ tf \in StateType
  <2>1. tf = NoState \/ tf \in StateType
    BY DEF TypeOK, StateType
  <2>2. nextVM \in 1 .. MaxVMId + 1 /\ vm \in 1 .. MaxVMId \cup {0}
    BY DEF TypeOK, Idle, VMIds, NoId
  <2>3. NoState.id = 0 /\ NoId = 0
    BY DEF NoState, NoId
  <2> QED BY <2>1, <2>2, <2>3, Bounds
<1>i. tf.id \in Nat
  BY <1>t DEF StateType, VMIds
<1>p. ASSUME PostVM PROVE nextVM' = nextVM + 1 /\ vms' = vms \cup {nextVM}
  BY <1>p DEF PostVM
<1>s. ASSUME nextVM' = nextVM, vms' \subseteq vms, vm' \in {NoId, vm},
             tf'.id \in {NoId, tf.id, vm},
             abandoned' \subseteq abandoned \cup ({tf.id, vm} \ {NoId})
      PROVE  Numbered'
  BY <1>s, <1>t, <1>i
<1>1. CASE CreateVM
  <2>1. /\ nextVM' = nextVM + 1 /\ vms' = vms \cup {nextVM} /\ abandoned' = abandoned
        /\ tf'.id \in {NoId, nextVM} /\ vm' \in {NoId, nextVM}
    BY <1>1, <1>p DEF CreateVM, Save, Finish
  <2> QED BY <1>t, <1>i, <2>1
<1>2. CASE CreateVMFails
  <2>1. /\ tf' = tf /\ vm' = NoId
        /\ \/ UNCHANGED <<vms, nextVM, abandoned>>
           \/ /\ nextVM' = nextVM + 1 /\ vms' = vms \cup {nextVM}
              /\ abandoned' = abandoned \cup {nextVM}
    BY <1>2, <1>p DEF CreateVMFails, Fail, Finish, saved
  <2> QED BY <1>t, <1>i, <2>1
<1>3. CASE Start
  BY <1>3, <1>s DEF Start, Save, Finish, history
<1>4. CASE StartFails
  <2>1. vm # NoId
    BY <1>4, <1>x, Distinct DEF StartFails, TypeOK, Idle
  <2> QED BY <1>4, <1>s, <2>1 DEF StartFails, Fail, Finish, saved
<1>5. CASE Read
  <2>1. tf'.id \in {NoId, tf.id}
    <3>1. CASE tf \in StateType
      BY <1>5, <1>t, <3>1 DEF Read, StateType
    <3>2. CASE tf = NoState
      BY <1>5, <1>t, <3>2 DEF Read, NoState
    <3> QED BY <1>t, <3>1, <3>2
  <2> QED BY <1>5, <1>s, <2>1 DEF Read, controller
<1>6. CASE ReadFails
  BY <1>6, <1>s, <1>t DEF ReadFails, Fail, Finish
<1>7. ASSUME NEW g \in Groups,
             ReadAttachment(g) \/ ReadAttachmentFails(g) \/ Attach(g) \/ AttachFails(g)
      PROVE  Numbered'
  BY <1>7, <1>s DEF ReadAttachment, ReadAttachmentFails, Attach, AttachFails, Fail, Finish,
     controller, saved, history
<1>8. ASSUME NEW g \in Groups, Detach(g) \/ DetachFails(g) PROVE Numbered'
  BY <1>8, <1>s DEF Detach, DetachFails, Fail, Finish, history
<1>9. CASE Update
  <2>1. tf \in StateType
    BY <1>9, <1>t, Distinct DEF Update, Planned
  <2>2. tf'.id = tf.id
    BY <1>9, <2>1 DEF Update, StateType
  <2> QED BY <1>9, <1>s, <2>2 DEF Update, Finish
<1>10. CASE UpdateFails
  BY <1>10, <1>s DEF UpdateFails, Fail, Finish, saved, history
<1>11. CASE Delete \/ DeleteFails
  BY <1>11, <1>s, <1>t DEF Delete, DeleteFails, DropVM, Fail, Finish, saved
<1>12. CASE Foreign
  BY <1>12, <1>s DEF Foreign, saved
<1>13. CASE Edit
  BY <1>13, <1>s DEF Edit, controller, saved, history
<1>14. CASE UNCHANGED vars
  BY <1>14, <1>s DEF vars, controller, saved, history
<1> QED
  BY <1>1, <1>2, <1>3, <1>4, <1>5, <1>6, <1>7, <1>8, <1>9, <1>10, <1>11, <1>12, <1>13,
     <1>14 DEF Next, Apply

(* A step that changes neither the VMs nor which one is followed.          *)
LEMMA Stutter ==
    ASSUME vms' = vms, tf'.id = tf.id, Followed' = Followed, abandoned' = abandoned
    PROVE  [Object!Next]_Object!vars
BY DEF Object!vars

(* A request that fails is a failure of ManagedObject.                     *)
LEMMA FaultFails ==
    ASSUME TypeOK, Fault
    PROVE  Object!Failure
<1>1. faults \in 0 .. MaxFaults
  BY DEF TypeOK
<1>2. MaxFaults \in Nat
  BY VMAssumption
<1> QED BY <1>1, <1>2 DEF Fault, Object!Failure

(* Every step is one of ManagedObject, or leaves its variables alone.      *)
LEMMA ObjectStep ==
    ASSUME TypeOK, Shown, Numbered, [Next]_vars
    PROVE  [Object!Next]_Object!vars
<1> USE Distinct
<1>x. TypeOK
  OBVIOUS
<1>t. /\ pc = "idle" => vm = NoId
      /\ pc # "idle" => vm \in VMIds /\ tf.id = NoId
      /\ tf = NoState \/ tf \in StateType
      /\ vms \subseteq VMIds /\ nextVM \notin vms \cup abandoned
      /\ pc = "idle" => Followed = tf.id
      /\ pc # "idle" => Followed = vm
      /\ pc' = "idle" => Followed' = tf'.id
      /\ pc' # "idle" => Followed' = vm'
  <2>1. nextVM \in 1 .. MaxVMId + 1
    BY DEF TypeOK
  <2>2. nextVM \notin vms \cup abandoned
    BY <2>1, Bounds DEF Numbered
  <2> QED BY <2>2 DEF TypeOK, Shown, Idle, Followed, StateType
<1>p. ASSUME PostVM
      PROVE  nextVM \in VMIds \ (vms \cup abandoned) /\ vms' = vms \cup {nextVM}
  BY <1>p, <1>x, <1>t, PostVMKeeps
<1>1. CASE CreateVM
  <2>1. /\ Followed = NoId /\ abandoned' = abandoned
        /\ Followed' = nextVM /\ tf'.id \in {NoId, nextVM}
    BY <1>1, <1>t DEF CreateVM, Ready, Idle, Save, Finish
  <2>2. Object!Make
    BY <1>1, <1>p, <2>1 DEF CreateVM, Object!Make
  <2> QED BY <2>2 DEF Object!Next
<1>2. CASE CreateVMFails
  <2>1. Followed = NoId /\ tf' = tf /\ Followed' = Followed
    BY <1>2, <1>t DEF CreateVMFails, Ready, Idle, Fail, Finish, saved
  <2>2. CASE UNCHANGED <<vms, abandoned>>
    BY <2>1, <2>2, Stutter
  <2>3. CASE PostVM /\ abandoned' = abandoned \cup {nextVM}
    <3>1. Object!MakeLost
      BY <1>2, <1>p, <2>1, <2>3, FaultFails DEF CreateVMFails, Object!MakeLost
    <3> QED BY <3>1 DEF Object!Next
  <2> QED BY <1>2, <2>2, <2>3 DEF CreateVMFails
<1>3. CASE Start
  <2>1. /\ Followed = vm /\ vm # NoId /\ tf'.id = vm /\ Followed' = vm
        /\ vms' = vms /\ abandoned' = abandoned
    BY <1>3, <1>t DEF Start, Save, Finish, history
  <2>2. Object!Save
    BY <2>1 DEF Object!Save
  <2> QED BY <2>2 DEF Object!Next
<1>4. CASE StartFails
  <2>1. /\ Followed = vm /\ vm # NoId /\ tf.id = NoId /\ tf' = tf /\ Followed' = NoId
        /\ vms' = vms /\ abandoned' = abandoned \cup {vm}
        /\ vm \in vms => Object!Failure
    BY <1>4, <1>t, FaultFails DEF StartFails, Fail, Finish, saved
  <2>2. Object!Abandon
    BY <2>1 DEF Object!Abandon
  <2> QED BY <2>2 DEF Object!Next
<1>5. CASE Read
  <2>1. /\ UNCHANGED <<vms, abandoned>> /\ pc = "idle" /\ pc' = "idle"
        /\ tf' = IF tf.id \in vms THEN [tf EXCEPT !.status = status] ELSE NoState
    BY <1>5 DEF Read, controller, Idle
  <2>2. CASE tf.id \in vms
    <3>1. tf \in StateType
      BY <1>t, <2>2
    <3>2. tf'.id = tf.id
      BY <2>1, <2>2, <3>1 DEF StateType
    <3> QED BY <1>t, <2>1, <3>2, Stutter
  <2>3. CASE tf.id = NoId
    BY <1>t, <2>1, <2>3, Stutter
  <2>4. CASE tf.id \notin vms /\ tf.id # NoId
    <3>1. Object!Forget
      BY <1>t, <2>1, <2>4 DEF Object!Forget
    <3> QED BY <3>1 DEF Object!Next
  <2> QED BY <2>2, <2>3, <2>4
<1>6. CASE ReadFails
  <2>1. CASE Fail /\ UNCHANGED <<tf, abandoned>>
    BY <1>6, <1>t, <2>1, Stutter DEF ReadFails, Fail, Finish, Idle
  <2>2. CASE tf' = NoState /\ Finish("read") /\ abandoned' = abandoned \cup {tf.id}
    <3>1. Object!Forget
      BY <1>6, <1>t, <2>2, FaultFails DEF ReadFails, Finish, Idle, Object!Forget
    <3> QED BY <3>1 DEF Object!Next
  <2> QED BY <1>6, <2>1, <2>2 DEF ReadFails
<1>7. ASSUME NEW g \in Groups,
             ReadAttachment(g) \/ ReadAttachmentFails(g) \/ Attach(g) \/ AttachFails(g)
      PROVE  [Object!Next]_Object!vars
  BY <1>7, <1>t, Stutter DEF ReadAttachment, ReadAttachmentFails, Attach, AttachFails,
     Attachable, Planned, Ready, Idle, Fail, Finish, controller, saved, history
<1>8. ASSUME NEW g \in Groups, Detach(g) \/ DetachFails(g) PROVE [Object!Next]_Object!vars
  BY <1>8, <1>t, Stutter DEF Detach, DetachFails, Detachable, Ready, Idle, Fail, Finish, history
<1>9. CASE Update
  <2>1. tf \in StateType
    BY <1>9, <1>t, Distinct DEF Update, Planned
  <2>2. tf'.id = tf.id
    BY <1>9, <2>1 DEF Update, StateType
  <2> QED BY <1>9, <1>t, <2>2, Stutter DEF Update, Planned, Ready, Idle, Finish
<1>10. CASE UpdateFails
  BY <1>10, <1>t, Stutter DEF UpdateFails, Planned, Ready, Idle, Fail, Finish, saved, history
<1>11. CASE Delete \/ DeleteFails
  <2>1. pc = "idle" /\ pc' = "idle" /\ abandoned' = abandoned /\ tf' \in {tf, NoState}
    BY <1>11 DEF Delete, DeleteFails, Doomed, Ready, Idle, Fail, Finish, saved
  <2>2. CASE UNCHANGED <<vms, tf>>
    BY <1>t, <2>1, <2>2, Stutter
  <2>3. CASE DropVM
    <3>1. Object!Remove
      BY <1>t, <2>1, <2>3 DEF DropVM, Object!Remove
    <3> QED BY <3>1 DEF Object!Next
  <2> QED BY <1>11, <2>2, <2>3 DEF Delete, DeleteFails, saved
<1>12. CASE Foreign
  <2>1. UNCHANGED <<tf, pc, vm, abandoned>> /\ Followed' = Followed
    BY <1>12, <1>t DEF Foreign, saved
  <2>2. CASE vms' = vms
    BY <2>1, <2>2, Stutter
  <2>3. CASE Followed \in vms /\ vms' = vms \ {Followed}
    <3>1. Object!Vanish
      BY <2>1, <2>3 DEF Object!Vanish
    <3> QED BY <3>1 DEF Object!Next
  <2> QED BY <1>12, <2>2, <2>3 DEF Foreign
<1>13. CASE Edit
  BY <1>13, <1>t, Stutter DEF Edit, controller, saved, history, Idle
<1>14. CASE UNCHANGED vars
  BY <1>14, <1>t, Stutter DEF vars, controller, saved, history
<1> QED
  BY <1>1, <1>2, <1>3, <1>4, <1>5, <1>6, <1>7, <1>8, <1>9, <1>10, <1>11, <1>12, <1>13,
     <1>14 DEF Next, Apply

(* A VM resource makes, follows and deletes one VM at a time, and loses    *)
(* one only where an error explains it, whatever happens to the            *)
(* attachments.                                                            *)
THEOREM Implements == Spec => ImplementsManagedObject
<1>1. Init => Numbered /\ Object!Init
  <2> SUFFICES ASSUME Init PROVE Numbered /\ Object!Init
    OBVIOUS
  <2>1. vms = {} /\ abandoned = {} /\ nextVM = 1 /\ tf.id = 0 /\ vm = 0 /\ Followed = tf.id
    BY Distinct DEF Init, NoId, Followed, Idle
  <2> QED BY <2>1 DEF Numbered, Object!Init, NoId
<1>2. TypeOK /\ Shown /\ Numbered /\ [Next]_vars => Numbered'
  BY NumberedStep
<1>3. TypeOK /\ Shown /\ Numbered /\ [Next]_vars => [Object!Next]_Object!vars
  BY ObjectStep
<1> QED BY <1>1, <1>2, <1>3, AlwaysTyped, PTL DEF Spec, ImplementsManagedObject, Object!Spec

-----------------------------------------------------------------------------
(* The status *)

(* After a refresh the saved status is the controller's, as long as nobody *)
(* else is at work; and a Create starts only a VM that is to run.          *)
StatusKept ==
    /\ SuccessHasStatus
    /\ quiet /\ Idle /\ "vm" \in fresh /\ tf.id # NoId => tf.status = status
    /\ pc = "starting" => WantedStatus = "running" /\ result = "none"

(* Every step keeps that.                                                  *)
LEMMA StatusStep ==
    ASSUME TypeOK, Shown, StatusKept, [Next]_vars
    PROVE  StatusKept'
<1> USE Distinct DEF StatusKept, SuccessHasStatus, WantedStatus
<1>t. /\ tf = NoState \/ tf \in StateType
      /\ pc \in {"idle", "starting"}
      /\ want.status \in Statuses \cup {Unset}
      /\ "vm" \notin Groups
  BY WantType, VMAssumption DEF TypeOK, StateType
(* Steps that end the apply, and steps of the attachments. *)
<1>f. ASSUME Fail PROVE StatusKept'
  BY <1>f DEF Fail, Finish
<1>s. ASSUME UNCHANGED <<status, tf, want, pc, quiet, result>>,
             "vm" \in fresh' => "vm" \in fresh
      PROVE  StatusKept'
  BY <1>s DEF Idle
<1>1. CASE CreateVM
  BY <1>1, <1>t DEF CreateVM, Save, Finish, Idle, Statuses, Unset
<1>2. CASE CreateVMFails \/ StartFails \/ UpdateFails \/ DeleteFails
  BY <1>2, <1>f DEF CreateVMFails, StartFails, UpdateFails, DeleteFails
<1>3. CASE Start
  BY <1>3, <1>t DEF Start, Save, Finish, Idle, history
<1>4. CASE Read
  <2>1. /\ tf' = IF tf.id \in vms THEN [tf EXCEPT !.status = status] ELSE NoState
        /\ pc' = "idle" /\ result' = "read" /\ status' = status
    BY <1>4 DEF Read, controller, Idle
  <2>2. tf'.id # NoId => tf'.status = status
    <3>1. CASE tf.id \in vms
      <4>1. tf \in StateType
        BY <1>t, <3>1 DEF TypeOK
      <4> QED BY <2>1, <3>1, <4>1 DEF StateType
    <3> QED BY <2>1, <3>1
  <2> QED BY <2>1, <2>2
<1>5. CASE ReadFails
  <2>1. CASE tf' = NoState /\ Finish("read")
    BY <2>1 DEF Finish
  <2> QED BY <1>5, <1>f, <2>1 DEF ReadFails
<1>6. ASSUME NEW g \in Groups, ReadAttachment(g) \/ Attach(g) \/ Detach(g) PROVE StatusKept'
  BY <1>6, <1>s, <1>t DEF ReadAttachment, Attach, Detach, controller, history
<1>7. ASSUME NEW g \in Groups, ReadAttachmentFails(g) \/ AttachFails(g) PROVE StatusKept'
  BY <1>7, <1>f DEF ReadAttachmentFails, AttachFails
<1>8. ASSUME NEW g \in Groups, DetachFails(g) PROVE StatusKept'
  <2>1. CASE UNCHANGED <<pc, vm, result, fresh>>
    BY <1>8, <1>s, <2>1 DEF DetachFails
  <2> QED BY <1>8, <1>f, <2>1 DEF DetachFails
<1>9. CASE Update
  <2>1. /\ tf \in StateType /\ pc = "idle" /\ pc' = "idle" /\ want' = want
        /\ "vm" \in fresh /\ tf.id # NoId
    BY <1>9, <1>t DEF Update, Planned, Ready, Idle, Finish
  <2>2. CASE Sent
    BY <1>9, <1>t, <2>1, <2>2 DEF Update, SetStatus, Sent, StateType, Unset
  <2>3. CASE ~Sent
    <3>a. status' = status /\ tf' = [tf EXCEPT !.status = @]
      BY <1>9, <2>3 DEF Update, SetStatus
    <3>b. tf' = tf
      BY <2>1, <3>a DEF StateType
    <3>c. quiet \in BOOLEAN
      BY DEF TypeOK
    <3>d. quiet' = (Sent \/ quiet)
      BY <1>9 DEF Update
    <3>e. quiet' = quiet
      BY <2>3, <3>c, <3>d
    <3>1. status' = status /\ tf' = tf /\ quiet' = quiet
      BY <3>a, <3>b, <3>e
    <3>2. want.status = "paused"
      BY <1>9, <1>t, <2>3 DEF Update, StatusDiffers, Sent, Statuses
    <3> QED BY <2>1, <3>1, <3>2 DEF Idle
  <2> QED BY <2>2, <2>3
<1>10. CASE Delete
  BY <1>10 DEF Delete, Finish
<1>11. CASE Foreign
  BY <1>11 DEF Foreign
<1>12. CASE Edit
  BY <1>12 DEF Edit, controller, saved, Idle
<1>13. CASE UNCHANGED vars
  BY <1>13, <1>s DEF vars, controller, saved, history
<1> QED
  BY <1>1, <1>2, <1>3, <1>4, <1>5, <1>6, <1>7, <1>8, <1>9, <1>10, <1>11, <1>12, <1>13
     DEF Next, Apply

(* A Create or Update that reports success has brought about, and saved,   *)
(* the configured status, although it does not look at the VM again.       *)
THEOREM SuccessShows == Spec => []SuccessHasStatus
<1>1. Init => StatusKept
  BY Distinct DEF Init, StatusKept, SuccessHasStatus
<1>2. TypeOK /\ Shown /\ StatusKept /\ [Next]_vars => StatusKept'
  BY StatusStep
<1>3. StatusKept => SuccessHasStatus
  BY DEF StatusKept
<1> QED BY <1>1, <1>2, <1>3, AlwaysTyped, PTL DEF Spec

(* After a Create or Update has reported success, the next plan asks for   *)
(* nothing of the VM, neither a replacement nor a change of its status,    *)
(* unless it is to be paused, which no request can bring about, or others  *)
(* have changed it.                                                        *)
NextPlanIsEmpty ==
    result \in {"created", "updated"} /\ quiet /\ want.status # "paused" =>
        tf.id \in VMIds /\ ~Replaces /\ ~StatusDiffers

(* What a success has saved has the planned attributes.                    *)
Settled ==
    result \in {"created", "updated"} =>
        Idle /\ tf.id \in VMIds /\ tf.image = want.image

(* Every step keeps that.                                                  *)
LEMMA SettledStep ==
    ASSUME TypeOK, Settled, [Next]_vars
    PROVE  Settled'
<1>x. TypeOK /\ Settled
  OBVIOUS
<1> SUFFICES ASSUME result' \in {"created", "updated"}
             PROVE  pc' = "idle" /\ tf'.id \in VMIds /\ tf'.image = want'.image
  BY DEF Settled, Idle
<1>1. CASE CreateVM
  <2>1. pc' = "idle" /\ Save(nextVM, "stopped") /\ PostVM /\ want' = want
    BY <1>1 DEF CreateVM, Finish
  <2>2. nextVM \in VMIds
    BY <1>x, <2>1, PostVMKeeps
  <2> QED BY <2>1, <2>2 DEF Save
<1>2. CASE Start
  <2>1. vm \in VMIds
    BY <1>x, <1>2 DEF Start, TypeOK, Idle
  <2> QED BY <1>2, <2>1 DEF Start, Save, Finish
<1>3. CASE Update
  <2>1. /\ tf.id # NoId /\ tf.image = want.image /\ want' = want /\ pc' = "idle"
        /\ tf' = [tf EXCEPT !.status = IF Sent THEN want.status ELSE @]
    BY <1>3 DEF Update, Planned, Replaces, Finish
  <2>2. tf \in StateType
    BY <1>x, <2>1, Distinct DEF TypeOK, StateType
  <2> QED BY <2>1, <2>2 DEF StateType
<1>4. CASE Read \/ Edit
  BY <1>4 DEF Read, Edit
<1>5. CASE CreateVMFails \/ StartFails \/ UpdateFails \/ DeleteFails \/ Delete
  BY <1>5 DEF CreateVMFails, StartFails, UpdateFails, DeleteFails, Delete, Fail, Finish
<1>6. CASE ReadFails
  BY <1>6 DEF ReadFails, Fail, Finish
<1>s. ASSUME UNCHANGED <<tf, want>>, result' = result => pc' = pc,
             result' \in {result, "error"}
      PROVE  pc' = "idle" /\ tf'.id \in VMIds /\ tf'.image = want'.image
  BY <1>s, <1>x DEF Settled, Idle
<1>7. ASSUME NEW g \in Groups,
             ReadAttachment(g) \/ ReadAttachmentFails(g) \/ Attach(g) \/ AttachFails(g)
             \/ Detach(g) \/ DetachFails(g)
      PROVE  pc' = "idle" /\ tf'.id \in VMIds /\ tf'.image = want'.image
  <2>1. CASE ReadAttachment(g) \/ Attach(g) \/ Detach(g)
    BY <1>s, <2>1 DEF ReadAttachment, Attach, Detach
  <2>2. CASE ReadAttachmentFails(g) \/ AttachFails(g)
    BY <2>2 DEF ReadAttachmentFails, AttachFails, Fail, Finish
  <2>3. CASE DetachFails(g)
    BY <1>s, <2>3 DEF DetachFails, Fail, Finish
  <2> QED BY <1>7, <2>1, <2>2, <2>3
<1>8. CASE Foreign \/ UNCHANGED vars
  BY <1>8, <1>s DEF Foreign, vars, saved
<1> QED BY <1>1, <1>2, <1>3, <1>4, <1>5, <1>6, <1>7, <1>8 DEF Next, Apply

(* A success leaves the next plan of the VM empty (Create's and Update's   *)
(* saved state, which neither reads back, against the next plan).          *)
THEOREM SuccessLeavesNoDiff == Spec => []NextPlanIsEmpty
<1>1. Init => Settled
  BY DEF Init, Settled
<1>2. TypeOK /\ Settled /\ [Next]_vars => Settled'
  BY SettledStep
<1>3. Settled /\ SuccessHasStatus => NextPlanIsEmpty
  <2> SUFFICES ASSUME Settled, SuccessHasStatus, result \in {"created", "updated"}, quiet,
                      want.status # "paused"
               PROVE  tf.id \in VMIds /\ ~Replaces /\ ~StatusDiffers
    BY DEF NextPlanIsEmpty
  <2>1. tf.status = WantedStatus /\ tf.id \in VMIds /\ tf.image = want.image
    BY DEF Settled, SuccessHasStatus
  <2>2. ~StatusDiffers
    BY <2>1 DEF StatusDiffers, WantedStatus
  <2> QED BY <2>1, <2>2 DEF Replaces
<1> QED BY <1>1, <1>2, <1>3, TypeCorrect, SuccessShows, PTL DEF Spec

-----------------------------------------------------------------------------
(* The attachments *)

(* A group that is attached to the followed VM, and that nobody else       *)
(* attached and no error hid, has a saved attachment that names the VM.    *)
Attended ==
    /\ Followed \notin vms => attached = {}
    /\ \A g \in attached \ strays : att[g] = Followed
    /\ pc = "starting" => \A g \in Groups : att[g] = NoId

(* Every step keeps that.                                                  *)
LEMMA AttendedStep ==
    ASSUME TypeOK, Shown, Attended, [Next]_vars
    PROVE  Attended'
<1> USE Distinct DEF Attended
<1>x. TypeOK
  OBVIOUS
<1>t. /\ pc \in {"idle", "starting"} /\ vms \subseteq VMIds /\ attached \subseteq Groups
      /\ pc # "idle" => vm \in VMIds /\ tf.id = NoId
      /\ tf = NoState \/ tf \in StateType
      /\ att \in [Groups -> VMIds \cup {NoId}]
      /\ pc = "idle" => Followed = tf.id
      /\ pc # "idle" => Followed = vm
      /\ pc' = "idle" => Followed' = tf'.id
      /\ pc' # "idle" => Followed' = vm'
  BY DEF TypeOK, Shown, Idle, Followed, StateType
(* The followed VM is gone, or nothing is followed. *)
<1>g. ASSUME attached' = {}, pc' = "idle" PROVE Attended'
  BY <1>g
(* It stays what it is. *)
<1>s. ASSUME pc = "idle", pc' = "idle", tf'.id = tf.id, vms' = vms,
             attached' \subseteq attached \cup strays', strays \subseteq strays', attached' = attached,
             \A q \in attached' \ strays' : att'[q] = att[q]
      PROVE  Attended'
  BY <1>s, <1>t
<1>1. CASE CreateVM
  <2>1. /\ attached' = {} /\ att' = att
        /\ \A q \in Groups : att[q] = NoId
    BY <1>1, <1>t DEF CreateVM, Ready, Idle
  <2> QED BY <2>1
<1>2. CASE CreateVMFails
  <2>1. attached' = {}
    BY <1>2, <1>t DEF CreateVMFails, Ready, Idle
  <2> QED BY <1>2, <1>g, <2>1 DEF CreateVMFails, Fail, Finish
<1>3. CASE Start
  <2>1. Followed' = Followed
    BY <1>3, <1>t DEF Start, Save, Finish
  <2> QED BY <1>3, <2>1 DEF Start, Finish, history
<1>4. CASE StartFails
  BY <1>4, <1>g DEF StartFails, Fail, Finish, Forget
<1>5. CASE Read
  <2>1. /\ UNCHANGED <<vms, attached, strays, att>> /\ pc = "idle" /\ pc' = "idle"
        /\ tf' = IF tf.id \in vms THEN [tf EXCEPT !.status = status] ELSE NoState
    BY <1>5 DEF Read, controller, Idle
  <2>2. CASE tf.id \in vms
    <3>1. tf \in StateType
      BY <1>t, <2>2
    <3>2. tf'.id = tf.id
      BY <2>1, <2>2, <3>1 DEF StateType
    <3> QED BY <1>s, <2>1, <3>2
  <2>3. CASE tf.id \notin vms
    BY <1>g, <1>t, <2>1, <2>3
  <2> QED BY <2>2, <2>3
<1>6. CASE ReadFails
  <2>1. CASE Fail /\ UNCHANGED <<tf, attached, strays>>
    BY <1>6, <1>s, <2>1 DEF ReadFails, Fail, Finish, Idle
  <2>2. CASE Finish("read") /\ Forget
    BY <1>g, <2>2 DEF Finish, Forget
  <2> QED BY <1>6, <2>1, <2>2 DEF ReadFails
<1>7. ASSUME NEW g \in Groups, ReadAttachment(g) PROVE Attended'
  <2>1. /\ UNCHANGED <<vms, attached, strays, tf>> /\ pc = "idle" /\ pc' = "idle"
    BY <1>7 DEF ReadAttachment, controller, history, Idle
  <2>2. \A q \in attached \ strays : att'[q] = att[q]
    <3> SUFFICES ASSUME NEW q \in attached \ strays PROVE att'[q] = att[q]
      OBVIOUS
    <3>1. q \in Groups /\ att[q] = tf.id /\ tf.id \in vms
      BY <1>t, <2>1
    <3>2. Listed(q)
      BY <1>t, <2>1, <3>1 DEF Listed
    <3>3. CASE q # g
      BY <1>7, <1>t, <3>1, <3>3 DEF ReadAttachment
    <3>4. CASE q = g
      BY <1>7, <1>t, <3>1, <3>2, <3>4 DEF ReadAttachment
    <3> QED BY <3>3, <3>4
  <2> QED BY <1>s, <2>1, <2>2
<1>8. ASSUME NEW g \in Groups, ReadAttachmentFails(g) PROVE Attended'
  BY <1>8, <1>s DEF ReadAttachmentFails, Idle, Fail, Finish, controller, saved, history
<1>9. CASE Update
  <2>1. tf \in StateType /\ pc = "idle"
    BY <1>9, <1>t DEF Update, Planned, Ready, Idle
  <2>2. tf'.id = tf.id
    BY <1>9, <2>1 DEF Update, StateType
  <2> QED BY <1>9, <1>s, <2>1, <2>2 DEF Update, Finish
<1>10. CASE UpdateFails
  BY <1>10, <1>s DEF UpdateFails, Planned, Ready, Idle, Fail, Finish, saved, history
<1>11. CASE Delete \/ DeleteFails
  <2>1. CASE DropVM
    BY <1>11, <1>g, <2>1 DEF Delete, DeleteFails, DropVM, Forget, Fail, Finish
  <2>2. CASE UNCHANGED <<vms, attached, strays, tf>>
    BY <1>11, <1>s, <2>2 DEF Delete, DeleteFails, Doomed, Ready, Idle, Fail, Finish, saved
  <2> QED BY <1>11, <2>1, <2>2 DEF Delete, DeleteFails, saved
<1>12. ASSUME NEW g \in Groups, Attach(g) PROVE Attended'
  <2>1. /\ pc = "idle" /\ pc' = "idle" /\ tf' = tf /\ vms' = vms /\ tf.id \in vms
        /\ attached' = attached \cup {g} /\ strays' = strays \ {g}
        /\ att' = [att EXCEPT ![g] = tf.id]
    BY <1>12 DEF Attach, Attachable, Planned, Ready, Idle
  <2> QED BY <1>t, <2>1
<1>13. ASSUME NEW g \in Groups, AttachFails(g) PROVE Attended'
  <2>1. /\ pc = "idle" /\ pc' = "idle" /\ tf' = tf /\ vms' = vms /\ att' = att
    BY <1>13 DEF AttachFails, Attachable, Planned, Ready, Idle, Fail, Finish, saved
  <2>2. CASE UNCHANGED <<attached, strays>>
    BY <1>s, <2>1, <2>2
  <2>3. CASE tf.id \in vms /\ attached' = attached \cup {g} /\ strays' = strays \cup {g}
    BY <1>t, <2>1, <2>3
  <2> QED BY <1>13, <2>2, <2>3 DEF AttachFails
(* What is detached is a stray, or names the followed VM. *)
<1>d. ASSUME NEW g \in Groups, pc = "idle", pc' = "idle", tf' = tf, vms' = vms,
             Remove(g) \/ UNCHANGED attached, strays \subseteq strays',
             \/ att' = att
             \/ att' = [att EXCEPT ![g] = NoId] /\ (Remove(g) \/ att[g] # tf.id \/ g \in strays')
      PROVE  Attended'
  <2>1. attached' \subseteq attached
    BY <1>d DEF Remove
  <2>2. \A q \in attached' \ strays' : att'[q] = att[q]
    <3> SUFFICES ASSUME NEW q \in attached' \ strays' PROVE att'[q] = att[q]
      OBVIOUS
    <3>1. q \in Groups /\ att[q] = tf.id
      BY <1>d, <1>t, <2>1
    <3>2. CASE q # g
      BY <1>d, <1>t, <3>1, <3>2
    <3>3. CASE q = g
      BY <1>d, <1>t, <3>1, <3>3 DEF Remove
    <3> QED BY <3>2, <3>3
  <2> QED BY <1>d, <1>t, <2>1, <2>2
<1>14. ASSUME NEW g \in Groups, Detach(g) PROVE Attended'
  BY <1>14, <1>d DEF Detach, Detachable, Ready, Idle, history
<1>15. ASSUME NEW g \in Groups, DetachFails(g) PROVE Attended'
  <2>1. pc = "idle" /\ pc' = "idle" /\ tf' = tf /\ vms' = vms
        /\ (Remove(g) \/ UNCHANGED attached)
    BY <1>15 DEF DetachFails, Detachable, Ready, Idle, Fail, Finish
  <2>2. CASE UNCHANGED <<att, strays>>
    BY <1>d, <2>1, <2>2
  <2>3. CASE /\ att' = [att EXCEPT ![g] = NoId]
             /\ strays' = strays \cup (IF att[g] = tf.id THEN {g} ELSE {})
    BY <1>d, <2>1, <2>3
  <2> QED BY <1>15, <2>2, <2>3 DEF DetachFails
<1>16. CASE Foreign
  <2>1. /\ UNCHANGED <<tf, att, pc, vm>> /\ Followed \in vms /\ Followed' = Followed
    BY <1>16, <1>t DEF Foreign, saved
  <2>2. CASE vms' = vms
    BY <1>16, <2>1, <2>2 DEF Foreign, Forget
  <2>3. CASE vms' = vms \ {Followed} /\ Forget
    BY <2>1, <2>3 DEF Forget
  <2> QED BY <1>16, <2>2, <2>3 DEF Foreign
<1>17. CASE Edit
  BY <1>17, <1>s DEF Edit, controller, saved, history, Idle
<1>18. CASE UNCHANGED vars
  BY <1>18, <1>t DEF vars, controller, saved, history
<1> QED
  BY <1>1, <1>2, <1>3, <1>4, <1>5, <1>6, <1>7, <1>8, <1>9, <1>10, <1>11, <1>12, <1>13,
     <1>14, <1>15, <1>16, <1>17, <1>18 DEF Next, Apply

(* When the provider deletes a VM, no group is attached to it but those    *)
(* that others attached or that Terraform lost sight of - whatever groups  *)
(* there are and however the steps of an apply were cut short.             *)
THEOREM DetachedFirst == Spec => DetachedBeforeDestroyed
<1>1. Init => Attended
  BY Distinct DEF Init, Attended
<1>2. TypeOK /\ Shown /\ Attended /\ [Next]_vars => Attended'
  BY AttendedStep
<1>3. TypeOK /\ Shown /\ Attended /\ [Next]_vars
        => [drifts' = drifts /\ tf.id \in vms \ vms' => attached \subseteq strays]_vars
  <2> SUFFICES ASSUME TypeOK, Shown, Attended, Next, drifts' = drifts, tf.id \in vms \ vms'
               PROVE  attached \subseteq strays
    OBVIOUS
  <2>0. drifts \in 0 .. MaxDrift
    BY DEF TypeOK
  <2>1. ~Foreign
    BY <2>0, Bounds DEF Foreign
  <2>2. Delete \/ DeleteFails
    BY <2>1, PostVMKeeps DEF Next, Apply, CreateVM, CreateVMFails, Start, StartFails, Read,
       ReadFails, Update, UpdateFails, ReadAttachment, ReadAttachmentFails, Attach, AttachFails,
       Detach, DetachFails, Edit, controller
  <2>3. Followed = tf.id /\ (\A g \in Groups : att[g] = NoId)
    BY <2>2 DEF Delete, DeleteFails, Doomed, Ready, Followed
  <2> QED BY <2>3, Distinct DEF Attended, TypeOK
<1> QED BY <1>1, <1>2, <1>3, AlwaysTyped, PTL DEF Spec, DetachedBeforeDestroyed

-----------------------------------------------------------------------------
(* Errors *)

(* An apply that meets no failed request and no foreign change reports no  *)
(* error, the handlers of the attachments included.                        *)
ErrorHasCause == faults = 0 /\ drifts = 0 => result # "error"

(* Every VM that a saved attachment names exists, unless others deleted it.*)
AttachmentsLive == drifts = 0 => \A g \in Groups : att[g] \in vms \cup {NoId}

LEMMA AttachmentsLiveStep ==
    ASSUME TypeOK, AttachmentsLive, [Next]_vars
    PROVE  AttachmentsLive'
<1> SUFFICES ASSUME drifts' = 0
             PROVE  \A g \in Groups : att'[g] \in vms' \cup {NoId}
  BY DEF AttachmentsLive
<1>x. TypeOK
  OBVIOUS
<1>n. ~Foreign
  <2>1. drifts \in 0 .. MaxDrift
    BY <1>x DEF TypeOK
  <2>2. drifts' # drifts + 1
    BY <2>1, Bounds
  <2> QED BY <2>2 DEF Foreign
<1>t. att \in [Groups -> VMIds \cup {NoId}]
  BY <1>x DEF TypeOK
<1>f. drifts' = drifts
  BY <1>n DEF Next, Apply, Read, ReadFails, CreateVM, CreateVMFails, Start, StartFails, Update,
     UpdateFails, Delete, DeleteFails, ReadAttachment, ReadAttachmentFails, Attach, AttachFails,
     Detach, DetachFails, Edit, bounds, vars
<1>u. \A g \in Groups : att[g] \in vms \cup {NoId}
  BY <1>f DEF AttachmentsLive
(* Steps that may name the saved VM or forget an attachment. *)
<1>s. ASSUME vms' = vms, \A g \in Groups : att'[g] \in {att[g], NoId} \cup (vms \cap {tf.id})
      PROVE  \A g \in Groups : att'[g] \in vms' \cup {NoId}
  BY <1>s, <1>u
<1>1. CASE CreateVM \/ CreateVMFails
  BY <1>1, <1>u DEF CreateVM, CreateVMFails, PostVM, saved
<1>2. CASE Delete \/ DeleteFails
  BY <1>2, <1>u DEF Delete, DeleteFails, saved
<1>3. CASE Start \/ StartFails \/ Read \/ ReadFails \/ Update \/ UpdateFails \/ Edit
           \/ UNCHANGED vars
  BY <1>3, <1>u DEF Start, StartFails, Read, ReadFails, Update, UpdateFails, Edit, vars,
     controller, saved
<1>4. ASSUME NEW g \in Groups,
             \/ ReadAttachment(g) \/ ReadAttachmentFails(g) \/ Attach(g) \/ AttachFails(g)
             \/ Detach(g) \/ DetachFails(g)
      PROVE  \A h \in Groups : att'[h] \in vms' \cup {NoId}
  <2>1. vms' = vms
    BY <1>4 DEF ReadAttachment, ReadAttachmentFails, Attach, AttachFails, Detach, DetachFails,
       controller
  <2>2. CASE ReadAttachment(g) \/ Detach(g) \/ DetachFails(g)
    BY <1>s, <1>t, <2>1, <2>2 DEF ReadAttachment, Detach, DetachFails
  <2>3. CASE Attach(g)
    BY <1>s, <1>t, <2>1, <2>3 DEF Attach
  <2>4. CASE ReadAttachmentFails(g) \/ AttachFails(g)
    BY <1>s, <2>1, <2>4 DEF ReadAttachmentFails, AttachFails, saved
  <2> QED BY <1>4, <2>2, <2>3, <2>4
<1> QED BY <1>n, <1>1, <1>2, <1>3, <1>4 DEF Next, Apply

(* An apply gets stuck in its refresh only when others deleted a VM: the   *)
(* provider itself, whatever fails, deletes none that a saved attachment   *)
(* names (vm_id makes Terraform remove the attachments first).             *)
StuckHasCause == drifts = 0 => ~Stuck

LEMMA AlwaysLive == Spec => []AttachmentsLive
<1>1. Init => AttachmentsLive
  BY DEF Init, AttachmentsLive
<1>2. TypeOK /\ AttachmentsLive /\ [Next]_vars => AttachmentsLive'
  BY AttachmentsLiveStep
<1> QED BY <1>1, <1>2, TypeCorrect, PTL DEF Spec

(* No refresh gets stuck by the provider's own doing, whatever requests    *)
(* fail and in whatever order the VM and its attachments are handled.      *)
THEOREM NeverStuckByItself == Spec => []StuckHasCause
<1>1. AttachmentsLive => StuckHasCause
  BY DEF AttachmentsLive, StuckHasCause, Stuck
<1> QED BY <1>1, AlwaysLive, PTL

(* As long as nothing went wrong, the followed VM exists.                  *)
Undisturbed ==
    faults = 0 /\ drifts = 0 => result # "error" /\ Followed \in vms \cup {NoId}

LEMMA UndisturbedStep ==
    ASSUME TypeOK, Shown, AttachmentsLive, Undisturbed, [Next]_vars
    PROVE  Undisturbed'
<1> SUFFICES ASSUME faults' = 0, drifts' = 0
             PROVE  result' # "error" /\ Followed' \in vms' \cup {NoId}
  BY DEF Undisturbed
<1>x. TypeOK /\ Shown
  OBVIOUS
<1>n. ~Fault /\ ~Foreign
  <2>1. faults \in 0 .. MaxFaults /\ drifts \in 0 .. MaxDrift
    BY <1>x DEF TypeOK
  <2>2. faults' # faults + 1 /\ drifts' # drifts + 1
    BY <2>1, Bounds
  <2> QED BY <2>2 DEF Fault, Foreign
<1>t. /\ pc = "idle" => vm = NoId
      /\ pc # "idle" => vm \in VMIds
      /\ NoId \notin VMIds /\ NoState.id = NoId
      /\ tf = NoState \/ tf \in StateType
  BY <1>x, Distinct DEF TypeOK, Idle, StateType
<1>f. UNCHANGED <<faults, drifts>>
  BY <1>n DEF Next, Apply, Read, ReadFails, CreateVM, CreateVMFails, Start, StartFails, Update,
     UpdateFails, Delete, DeleteFails, ReadAttachment, ReadAttachmentFails, Attach, AttachFails,
     Detach, DetachFails, Edit, bounds, vars
<1>u. /\ result # "error" /\ Followed \in vms \cup {NoId}
      /\ \A g \in Groups : att[g] \in vms \cup {NoId}
  BY <1>f DEF Undisturbed, AttachmentsLive
<1>e. /\ ~Idle => vm \in vms
      /\ Idle /\ tf.id # NoId => tf.id \in vms
  BY <1>t, <1>u DEF Followed, Idle
<1>1. CASE CreateVM
  <2>1. vms' = vms \cup {nextVM} /\ result' \in {"none", "created"}
    BY <1>1 DEF CreateVM, PostVM, Finish
  <2>2. Followed' = nextVM
    BY <1>1 DEF CreateVM, Save, Finish, Followed, Idle
  <2> QED BY <1>u, <2>1, <2>2
<1>2. CASE Start
  <2>1. vms' = vms /\ vm \in vms /\ tf'.id = vm /\ pc' = "idle" /\ result' = "created"
    BY <1>2 DEF Start, Save, Finish
  <2> QED BY <1>u, <2>1 DEF Followed, Idle
<1>3. CASE Read
  <2>1. UNCHANGED <<vms, pc>> /\ Idle /\ result' = "read"
    BY <1>3 DEF Read, controller
  <2>2. tf'.id \in {NoId, tf.id}
    <3>1. CASE tf \in StateType
      BY <1>3, <1>t, <3>1 DEF Read, StateType
    <3>2. CASE tf = NoState
      BY <1>3, <1>t, <3>2 DEF Read, NoState
    <3> QED BY <1>t, <3>1, <3>2
  <2> QED BY <1>e, <1>u, <2>1, <2>2 DEF Followed, Idle
<1>4. ASSUME NEW g \in Groups, ReadAttachment(g) \/ Attach(g) \/ Detach(g)
      PROVE  result' # "error" /\ Followed' \in vms' \cup {NoId}
  <2>1. UNCHANGED <<vms, tf, pc, vm, result>>
    BY <1>4 DEF ReadAttachment, Attach, Detach, controller
  <2> QED BY <1>u, <2>1 DEF Followed, Idle
<1>5. CASE Update
  <2>1. /\ vms' = vms /\ Idle /\ tf.id # NoId /\ pc' = "idle" /\ result' = "updated"
        /\ tf' = [tf EXCEPT !.status = IF Sent THEN want.status ELSE @]
    BY <1>5 DEF Update, Planned, Ready, Finish
  <2>2. tf'.id = tf.id
    BY <1>t, <2>1 DEF StateType
  <2> QED BY <1>e, <1>u, <2>1, <2>2 DEF Followed, Idle
<1>6. CASE Delete
  <2>1. /\ tf' = NoState /\ pc' = "idle" /\ result' = "deleted"
    BY <1>6 DEF Delete, Finish
  <2> QED BY <1>t, <2>1 DEF Followed, Idle
<1>7. ~CreateVMFails /\ ~StartFails /\ ~ReadFails /\ ~UpdateFails /\ ~DeleteFails
  BY <1>e, <1>n DEF CreateVMFails, StartFails, ReadFails, UpdateFails, DeleteFails, Planned,
     Doomed, Ready, Idle
<1>8. \A g \in Groups : ~ReadAttachmentFails(g) /\ ~AttachFails(g) /\ ~DetachFails(g)
  BY <1>e, <1>n, <1>u DEF ReadAttachmentFails, AttachFails, DetachFails, Attachable, Planned,
     Ready
<1>9. CASE Edit
  <2>1. UNCHANGED <<vms, tf, pc, vm>> /\ result' = "none"
    BY <1>9 DEF Edit, controller, saved
  <2> QED BY <1>u, <2>1 DEF Followed, Idle
<1>10. CASE UNCHANGED vars
  <2>1. UNCHANGED <<vms, tf, pc, vm, result>>
    BY <1>10 DEF vars, controller, saved
  <2> QED BY <1>u, <2>1 DEF Followed, Idle
<1> QED
  BY <1>n, <1>1, <1>2, <1>3, <1>4, <1>5, <1>6, <1>7, <1>8, <1>9, <1>10 DEF Next, Apply

(* Without a failed request and without foreign changes, no handler of a   *)
(* VM or of its attachments reports an error: a VM is deleted only after   *)
(* every saved attachment that names it, so that no refresh gets stuck.    *)
THEOREM ErrorsHaveCauses == Spec => []ErrorHasCause
<1>1. Init => Undisturbed
  BY Distinct DEF Init, Undisturbed, Followed, Idle
<1>2. TypeOK /\ Shown /\ AttachmentsLive /\ Undisturbed /\ [Next]_vars => Undisturbed'
  BY UndisturbedStep
<1>3. Undisturbed => ErrorHasCause
  BY DEF Undisturbed, ErrorHasCause
<1> QED BY <1>1, <1>2, <1>3, AlwaysTyped, AlwaysLive, PTL DEF Spec
=============================================================================
