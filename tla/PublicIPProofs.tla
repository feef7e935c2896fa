--------------------------- MODULE PublicIPProofs ---------------------------
(***************************************************************************)
(* Proofs about PublicIP, for any pools, private IPs and bounds.           *)
(***************************************************************************)
EXTENDS PublicIP, TLAPS

Results == {"none", "created", "read", "updated", "deleted", "error", "crashed"}
StateType == [id : Ids \cup {NoId}, pool : Pools \cup {None},
              private : Privates \cup {None}, desc : Descs \cup {None}]

(* No allocation has the ID that stands for none.                          *)
LEMMA Distinct ==
    NoId \notin Ids /\ NoState \in StateType /\ NoState.id = NoId /\ NoState.private = None
BY DEF NoId, Ids, NoState, StateType

(* What a configuration asks for is a value of the controller.             *)
LEMMA PlannedType ==
    ASSUME want \in Wants
    PROVE  /\ want.pool \in Pools /\ want.present \in BOOLEAN
           /\ PlanPrivate \in Privates \cup {None}
           /\ Planned(want.desc) \in Descs \cup {None}
BY DEF Wants, PlanPrivate, Planned

(* A new allocation has an ID that no other has.                           *)
LEMMA PostIPKeeps ==
    ASSUME TypeOK, PostIP
    PROVE  /\ nextId \in Ids /\ nextId' = nextId + 1 /\ nextId' \in 1 .. MaxId + 1
           /\ ips' = ips \cup {nextId}
BY PublicIPAssumption DEF TypeOK, PostIP, Ids

(* What the answer to a request shows is saved as a state.                 *)
LEMMA SaveType ==
    ASSUME TypeOK, NEW id \in Ids, Save(id),
           nat' \in Privates \cup {None}, desc' \in Descs \cup {None}
    PROVE  tf' \in StateType /\ tf'.id = id /\ tf'.private = nat'
BY PlannedType DEF Save, StateType, TypeOK

-----------------------------------------------------------------------------
(* Types *)

(* Every step keeps the types.                                             *)
LEMMA TypeStep ==
    ASSUME TypeOK, [Next]_vars
    PROVE  TypeOK'
<1> USE PublicIPAssumption
<1>x. TypeOK
  OBVIOUS
<1>t. /\ ips \subseteq Ids /\ nat \in Privates \cup {None} /\ desc \in Descs \cup {None}
      /\ nextId \in 1 .. MaxId + 1 /\ tf \in StateType /\ want \in Wants
      /\ pc \in {"idle", "enable", "disable", "get"} /\ result \in Results
      /\ pc = "idle" => pip = NoId
      /\ pc # "idle" => pip \in Ids
      /\ tf.id # NoId => tf.id \in Ids
      /\ current \in BOOLEAN /\ quiet \in BOOLEAN /\ abandoned \subseteq Ids
      /\ faults \in 0 .. MaxFaults /\ drifts \in 0 .. MaxDrift /\ edits \in 0 .. MaxEdits
  BY DEF TypeOK, StateType, Results, Idle
<1>f. ASSUME Fault PROVE faults' \in 0 .. MaxFaults
  BY <1>f, <1>t DEF Fault
<1>g. ASSUME ips' \subseteq Ids, nat' \in Privates \cup {None}, desc' \in Descs \cup {None},
             nextId' \in 1 .. MaxId + 1, tf' \in StateType, want' \in Wants,
             pc' \in {"idle", "enable", "disable", "get"}, result' \in Results,
             pc' = "idle" => pip' = NoId, pc' # "idle" => pip' \in Ids,
             current' \in BOOLEAN, quiet' \in BOOLEAN, abandoned' \subseteq Ids,
             faults' \in 0 .. MaxFaults, drifts' \in 0 .. MaxDrift, edits' \in 0 .. MaxEdits
      PROVE  TypeOK'
  BY <1>g DEF TypeOK, StateType, Results, Idle
<1>1. CASE Allocate
  <2>1. /\ PostIP /\ nat' = None /\ desc' = Planned(want.desc)
        /\ current' = TRUE /\ quiet' = TRUE /\ UNCHANGED <<want, abandoned, bounds>>
    BY <1>1 DEF Allocate
  <2>2. /\ nextId \in Ids /\ nextId' \in 1 .. MaxId + 1 /\ ips' = ips \cup {nextId}
    BY <1>x, <2>1, PostIPKeeps
  <2>3. nat' \in Privates \cup {None} /\ desc' \in Descs \cup {None}
    BY <1>t, <2>1, PlannedType
  <2>4. CASE Save(nextId) /\ Finish("created")
    <3>1. tf' \in StateType
      BY <1>x, <2>2, <2>3, <2>4, SaveType
    <3> QED BY <1>g, <1>t, <2>1, <2>2, <2>3, <2>4, <3>1 DEF Finish, Results, bounds
  <2>5. CASE pc' = "enable" /\ pip' = nextId /\ result' = "none" /\ UNCHANGED tf
    BY <1>g, <1>t, <2>1, <2>2, <2>3, <2>5 DEF Results, bounds
  <2> QED BY <1>1, <2>4, <2>5 DEF Allocate
<1>2. CASE AllocateFails
  <2>1. /\ Fault /\ Finish("error") /\ UNCHANGED <<nat, desc, tf, want, current, quiet, drifts, edits>>
        /\ ips' \subseteq Ids /\ nextId' \in 1 .. MaxId + 1 /\ abandoned' \subseteq Ids
    BY <1>2, <1>x, <1>t, PostIPKeeps DEF AllocateFails
  <2> QED BY <1>f, <1>g, <1>t, <2>1 DEF Finish, Results
<1>3. CASE UpdateBegins
  <2>1. pc' \in {"enable", "disable", "get"}
    BY <1>3 DEF UpdateBegins, FirstRequest
  <2>2. current' \in BOOLEAN /\ quiet' \in BOOLEAN /\ pip' \in Ids /\ result' \in Results
    BY <1>3, <1>t DEF UpdateBegins, Results
  <2> QED BY <1>3, <1>g, <1>t, <2>1, <2>2 DEF UpdateBegins, controller, bounds
<1>4. CASE Enable
  <2>1. pip \in Ids /\ nat' \in Privates \cup {None} /\ desc' = desc
    BY <1>4, <1>t, PlannedType DEF Enable
  <2>2. tf' \in StateType
    BY <1>4, <1>x, <1>t, <2>1, SaveType DEF Enable
  <2> QED BY <1>4, <1>g, <1>t, <2>1, <2>2 DEF Enable, Finish, Results, history, bounds
<1>5. CASE Disable
  BY <1>5, <1>g, <1>t DEF Disable, history, bounds
<1>6. CASE Get
  <2>1. pip \in Ids /\ nat' = nat /\ desc' = desc
    BY <1>6, <1>t DEF Get, controller
  <2>2. tf' \in StateType
    BY <1>6, <1>x, <1>t, <2>1, SaveType DEF Get
  <2> QED BY <1>6, <1>g, <1>t, <2>1, <2>2 DEF Get, Finish, Results, controller, history, bounds
<1>7. CASE UpdateFails
  <2>1. nat' \in Privates \cup {None} /\ faults' \in 0 .. MaxFaults
    BY <1>7, <1>f, <1>t, PlannedType DEF UpdateFails, RequestFails
  <2> QED BY <1>7, <1>g, <1>t, <2>1 DEF UpdateFails, Finish, Results, history
<1>8. CASE CreateCrashes
  <2>1. abandoned' \subseteq Ids /\ faults' \in 0 .. MaxFaults
    BY <1>8, <1>f, <1>t DEF CreateCrashes, Idle
  <2> QED BY <1>8, <1>g, <1>t, <2>1 DEF CreateCrashes, Forget, Finish, Results
<1>9. CASE Read
  <2>1. nat' = nat /\ desc' = desc
    BY <1>9 DEF Read, controller
  <2>2. tf' \in StateType
    BY <1>9, <1>x, <1>t, <2>1, SaveType, Distinct DEF Read
  <2> QED BY <1>9, <1>g, <1>t, <2>2 DEF Read, Results, controller, bounds
<1>10. CASE ReadFails
  BY <1>10, <1>f, <1>g, <1>t DEF ReadFails, Results, controller, history
<1>11. CASE ReadMisled
  <2>1. abandoned' \subseteq Ids /\ tf' \in StateType
    BY <1>11, <1>t, Distinct DEF ReadMisled
  <2> QED BY <1>11, <1>f, <1>g, <1>t, <2>1 DEF ReadMisled, Forget, Results
<1>12. CASE Delete
  <2>1. tf' \in StateType /\ ips' \subseteq Ids
    BY <1>12, <1>t, Distinct DEF Delete, Release
  <2> QED BY <1>12, <1>g, <1>t, <2>1 DEF Delete, Release, Forget, Finish, Results, history, bounds
<1>13. CASE DeleteFails
  <2>1. /\ ips' \subseteq Ids /\ nat' \in Privates \cup {None} /\ desc' \in Descs \cup {None}
    BY <1>13, <1>t DEF DeleteFails, Release, Forget
  <2>2. /\ tf' \in StateType /\ pc' = "idle" /\ pip' = NoId /\ result' \in Results
    BY <1>13, <1>t, Distinct DEF DeleteFails, Finish, Results
  <2> QED BY <1>13, <1>f, <1>g, <1>t, <2>1, <2>2 DEF DeleteFails, history
<1>14. CASE Foreign
  <2>1. /\ ips' \subseteq Ids /\ nat' \in Privates \cup {None} /\ desc' \in Descs \cup {None}
        /\ drifts' \in 0 .. MaxDrift
    BY <1>14, <1>t DEF Foreign, Forget
  <2> QED BY <1>14, <1>g, <1>t, <2>1 DEF Foreign
<1>15. CASE Edit
  <2>1. edits' \in 0 .. MaxEdits
    BY <1>15, <1>t DEF Edit
  <2> QED BY <1>15, <1>g, <1>t, <2>1 DEF Edit, Results, controller, history
<1>16. CASE UNCHANGED vars
  BY <1>16, <1>g, <1>t DEF vars, controller, history, bounds
<1> QED
  BY <1>1, <1>2, <1>3, <1>4, <1>5, <1>6, <1>7, <1>8, <1>9, <1>10, <1>11, <1>12, <1>13,
     <1>14, <1>15, <1>16 DEF Next, Step

(* Every variable has its type, for any pools, private IPs and bounds.     *)
THEOREM TypeCorrect == Spec => []TypeOK
<1>1. Init => TypeOK
  <2> SUFFICES ASSUME Init PROVE TypeOK
    OBVIOUS
  <2>1. 0 \in 0 .. MaxFaults /\ 0 \in 0 .. MaxDrift /\ 0 \in 0 .. MaxEdits /\ 1 \in 1 .. MaxId + 1
    BY PublicIPAssumption
  <2> QED BY <2>1, Distinct DEF Init, TypeOK, StateType, Idle
<1> QED BY <1>1, TypeStep, PTL DEF Spec

-----------------------------------------------------------------------------
(* One allocation at a time *)

(* A running handler works on the saved allocation, if there is one, and   *)
(* IDs are handed out in order.                                            *)
OneAtATime ==
    /\ ~Idle => tf.id \in {NoId, pip}
    /\ ips \cup abandoned \subseteq 1 .. nextId - 1
    /\ tf.id < nextId /\ pip < nextId

(* Every step keeps that.                                                  *)
LEMMA OneAtATimeStep ==
    ASSUME TypeOK, OneAtATime, [Next]_vars
    PROVE  OneAtATime'
<1> USE DEF OneAtATime
<1>x. TypeOK
  OBVIOUS
<1>t. /\ nextId \in Nat \ {0} /\ tf.id \in Nat /\ pip \in Nat
      /\ pc = "idle" => pip = NoId
      /\ NoState.id = 0 /\ NoId = 0
  BY <1>x, Distinct DEF TypeOK, Idle, Ids, NoId
<1>p. ASSUME PostIP PROVE nextId' = nextId + 1 /\ ips' = ips \cup {nextId}
  BY <1>p, <1>x, PostIPKeeps
(* Steps that make no allocation. *)
<1>s. ASSUME nextId' = nextId, ips' \subseteq ips,
             abandoned' \subseteq abandoned \cup ({pip, tf.id} \ {NoId}),
             tf'.id \in {NoId, tf.id, pip}, pip' \in {NoId, tf.id, pip},
             pc' # "idle" => tf'.id \in {NoId, pip'}
      PROVE  OneAtATime'
  BY <1>s, <1>t DEF Idle
<1>1. CASE Allocate
  <2>1. /\ nextId' = nextId + 1 /\ ips' = ips \cup {nextId} /\ abandoned' = abandoned
        /\ \/ tf'.id = nextId /\ pc' = "idle" /\ pip' = NoId
           \/ tf'.id = NoId /\ pip' = nextId
    BY <1>1, <1>p DEF Allocate, Save, Finish
  <2> QED BY <1>t, <2>1 DEF Idle
<1>2. CASE AllocateFails
  <2>1. /\ pc' = "idle" /\ tf' = tf /\ pip' = NoId
        /\ \/ UNCHANGED <<ips, nextId, abandoned>>
           \/ nextId' = nextId + 1 /\ ips' = ips \cup {nextId}
              /\ abandoned' = abandoned \cup {nextId}
    BY <1>2, <1>p DEF AllocateFails, Finish
  <2> QED BY <1>t, <2>1 DEF Idle
<1>3. CASE UpdateBegins
  BY <1>3, <1>s DEF UpdateBegins, controller
<1>4. CASE Enable \/ Get
  <2>1. tf'.id = pip /\ pc' = "idle" /\ pip' = NoId
    BY <1>4 DEF Enable, Get, Save, Finish
  <2> QED BY <1>4, <1>s, <2>1 DEF Enable, Get, controller, history
<1>5. CASE Disable
  BY <1>5, <1>s DEF Disable, history, Idle
<1>6. CASE UpdateFails
  BY <1>6, <1>s DEF UpdateFails, Finish, history
<1>7. CASE CreateCrashes
  BY <1>7, <1>s, <1>x, Distinct DEF CreateCrashes, Finish, TypeOK, Idle
<1>8. CASE Read
  <2>1. tf'.id \in {tf.id, NoId}
    BY <1>8, <1>t DEF Read, Save
  <2> QED BY <1>8, <1>s, <2>1 DEF Read, controller, Idle
<1>9. CASE ReadFails
  BY <1>9, <1>s DEF ReadFails, controller, history, Idle
<1>10. CASE ReadMisled
  BY <1>10, <1>s, <1>t DEF ReadMisled, Idle
<1>11. CASE Delete
  BY <1>11, <1>s, <1>t DEF Delete, Release, Finish, history
<1>12. CASE DeleteFails
  <2>1. /\ ips' \subseteq ips /\ abandoned' = abandoned /\ tf'.id \in {tf.id, NoId}
        /\ pip' = NoId /\ pc' = "idle" /\ nextId' = nextId
    BY <1>12, <1>t DEF DeleteFails, Release, Finish, history
  <2> QED BY <1>s, <2>1
<1>13. CASE Foreign
  BY <1>13, <1>s DEF Foreign, Idle
<1>14. CASE Edit
  BY <1>14, <1>s DEF Edit, controller, history, Idle
<1>15. CASE UNCHANGED vars
  BY <1>15, <1>s DEF vars, controller, history, Idle
<1> QED
  BY <1>1, <1>2, <1>3, <1>4, <1>5, <1>6, <1>7, <1>8, <1>9, <1>10, <1>11, <1>12, <1>13,
     <1>14, <1>15 DEF Next, Step

(* A step that changes neither the allocations nor which one is followed   *)
(* is a step of no handler.                                                *)
LEMMA Stutter ==
    ASSUME ips' = ips, tf'.id = tf.id, Followed' = Followed, abandoned' = abandoned
    PROVE  [Object!Next]_Object!vars
BY DEF Object!vars

(* A request that fails is a failure of ManagedObject.                     *)
LEMMA FaultFails ==
    ASSUME TypeOK, Fault
    PROVE  Object!Failure
BY DEF Fault, TypeOK, Object!Failure

(* Every step is one of ManagedObject, or leaves its variables alone.      *)
LEMMA ObjectStep ==
    ASSUME TypeOK, OneAtATime, [Next]_vars
    PROVE  [Object!Next]_Object!vars
<1> USE Distinct
<1>x. TypeOK
  OBVIOUS
<1>t. /\ pc = "idle" => pip = NoId
      /\ pc # "idle" => pip \in Ids /\ tf.id \in {NoId, pip}
      /\ ips \subseteq Ids /\ nextId \notin ips \cup abandoned
      /\ pc = "idle" => Followed = tf.id
      /\ pc # "idle" => Followed = pip
      /\ pc' = "idle" => Followed' = tf'.id
      /\ pc' # "idle" => Followed' = pip'
  BY DEF TypeOK, OneAtATime, Idle, Followed
<1>p. ASSUME PostIP
      PROVE  nextId \in Ids \ (ips \cup abandoned) /\ ips' = ips \cup {nextId}
  BY <1>p, <1>x, <1>t, PostIPKeeps
<1>1. CASE Allocate
  <2>1. /\ Followed = NoId /\ abandoned' = abandoned
        /\ \/ Followed' = nextId /\ tf'.id = nextId
           \/ Followed' = nextId /\ tf'.id = NoId
    BY <1>1, <1>t DEF Allocate, Idle, Save, Finish
  <2>2. Object!Make
    BY <1>1, <1>p, <2>1 DEF Allocate, Object!Make
  <2> QED BY <2>2 DEF Object!Next
<1>2. CASE AllocateFails
  <2>1. Followed = NoId /\ tf' = tf /\ Followed' = Followed
    BY <1>2, <1>t DEF AllocateFails, Idle, Finish
  <2>2. CASE UNCHANGED <<ips, abandoned>>
    BY <2>1, <2>2, Stutter
  <2>3. CASE PostIP /\ abandoned' = abandoned \cup {nextId}
    <3>1. Object!MakeLost
      BY <1>2, <1>p, <2>1, <2>3, FaultFails DEF AllocateFails, Object!MakeLost
    <3> QED BY <3>1 DEF Object!Next
  <2> QED BY <1>2, <2>2, <2>3 DEF AllocateFails
<1>3. CASE UpdateBegins
  <2>1. Followed' = Followed
    BY <1>3, <1>t DEF UpdateBegins, FirstRequest, Idle
  <2> QED BY <1>3, <2>1, Stutter DEF UpdateBegins, controller
<1>4. CASE Enable \/ Get
  <2>1. /\ Followed = pip /\ pip # NoId /\ tf'.id = pip /\ Followed' = pip
        /\ ips' = ips /\ abandoned' = abandoned
    BY <1>4, <1>t DEF Enable, Get, Save, Finish, controller, history
  <2>2. Object!Save
    BY <2>1 DEF Object!Save
  <2> QED BY <2>2 DEF Object!Next
<1>5. CASE Disable
  <2>1. Followed' = Followed
    BY <1>5, <1>t DEF Disable
  <2> QED BY <1>5, <2>1, Stutter DEF Disable, history
<1>6. CASE UpdateFails
  <2>1. Followed' = Followed
    BY <1>6, <1>t DEF UpdateFails, Finish, Idle, Creating
  <2> QED BY <1>6, <2>1, Stutter DEF UpdateFails, history
<1>7. CASE CreateCrashes
  <2>1. /\ Followed = pip /\ pip # NoId /\ tf.id = NoId /\ tf' = tf /\ Followed' = NoId
        /\ ips' = ips /\ abandoned' = abandoned \cup {pip}
        /\ pip \in ips => Object!Failure
    BY <1>7, <1>t, FaultFails DEF CreateCrashes, Finish, Idle, Creating
  <2>2. Object!Abandon
    BY <2>1 DEF Object!Abandon
  <2> QED BY <2>2 DEF Object!Next
<1>8. CASE Read
  <2>1. UNCHANGED <<ips, abandoned>> /\ pc = "idle" /\ pc' = "idle" /\ tf.id # NoId
    BY <1>8 DEF Read, controller, Idle
  <2>2. CASE tf.id \in ips
    BY <1>8, <1>t, <2>1, <2>2, Stutter DEF Read, Save
  <2>3. CASE tf.id \notin ips
    <3>1. Object!Forget
      BY <1>8, <1>t, <2>1, <2>3 DEF Read, Object!Forget
    <3> QED BY <3>1 DEF Object!Next
  <2> QED BY <2>2, <2>3
<1>9. CASE ReadFails
  BY <1>9, <1>t, Stutter DEF ReadFails, controller, history, Idle
<1>10. CASE ReadMisled
  <2>1. Object!Forget
    BY <1>10, <1>t, FaultFails DEF ReadMisled, Idle, Object!Forget
  <2> QED BY <2>1 DEF Object!Next
(* A release that is carried out, with an answer or without. *)
<1>r. ASSUME pc = "idle", pc' = "idle", tf.id # NoId, abandoned' = abandoned,
             ips' = ips \ {tf.id}, tf' \in {tf, NoState}
      PROVE  [Object!Next]_Object!vars
  <2>1. CASE tf.id \in ips
    <3>1. Object!Remove
      BY <1>r, <1>t, <2>1 DEF Object!Remove
    <3> QED BY <3>1 DEF Object!Next
  <2>2. CASE tf.id \notin ips /\ tf' = tf
    BY <1>r, <1>t, <2>2, Stutter
  <2>3. CASE tf.id \notin ips /\ tf' = NoState
    <3>1. Object!Forget
      BY <1>r, <1>t, <2>3 DEF Object!Forget
    <3> QED BY <3>1 DEF Object!Next
  <2> QED BY <1>r, <2>1, <2>2, <2>3
<1>11. CASE Delete
  BY <1>11, <1>r DEF Delete, Doomed, Release, Finish, Idle, history
<1>12. CASE DeleteFails
  <2>1. /\ pc = "idle" /\ pc' = "idle" /\ tf.id # NoId /\ abandoned' = abandoned
        /\ tf' \in {tf, NoState}
        /\ tf' # tf => tf.id \in IdsWith404 /\ tf' = NoState
    BY <1>12 DEF DeleteFails, Doomed, Finish, Idle, IsNotFound, history
  <2>2. CASE Release
    BY <1>r, <2>1, <2>2 DEF Release
  <2>3. CASE ips' = ips /\ tf' = tf
    BY <1>t, <2>1, <2>3, Stutter
  <2>4. CASE ips' = ips /\ tf' # tf
    <3>1. Object!Forget
      BY <1>12, <1>t, <2>1, <2>4, FaultFails DEF DeleteFails, Object!Forget
    <3> QED BY <3>1 DEF Object!Next
  <2> QED BY <1>12, <2>2, <2>3, <2>4 DEF DeleteFails
<1>13. CASE Foreign
  <2>1. UNCHANGED <<tf, pc, pip, abandoned>> /\ Followed' = Followed
    BY <1>13, <1>t DEF Foreign
  <2>2. CASE ips' = ips
    BY <2>1, <2>2, Stutter
  <2>3. CASE Followed \in ips /\ ips' = ips \ {Followed}
    <3>1. Object!Vanish
      BY <2>1, <2>3 DEF Object!Vanish
    <3> QED BY <3>1 DEF Object!Next
  <2> QED BY <1>13, <2>2, <2>3 DEF Foreign
<1>14. CASE Edit
  BY <1>14, <1>t, Stutter DEF Edit, controller, history, Idle
<1>15. CASE UNCHANGED vars
  BY <1>15, <1>t, Stutter DEF vars, controller, history
<1> QED
  BY <1>1, <1>2, <1>3, <1>4, <1>5, <1>6, <1>7, <1>8, <1>9, <1>10, <1>11, <1>12, <1>13,
     <1>14, <1>15 DEF Next, Step

(* A public IP makes, follows and releases one allocation at a time, and   *)
(* loses one only where an error explains it, however many allocations,    *)
(* faults and foreign changes there are.                                   *)
THEOREM Implements == Spec => ImplementsManagedObject
<1>1. Init => OneAtATime /\ Object!Init
  <2> SUFFICES ASSUME Init PROVE OneAtATime /\ Object!Init
    OBVIOUS
  <2>1. ips = {} /\ abandoned = {} /\ nextId = 1 /\ tf.id = 0 /\ pip = 0 /\ Followed = tf.id
    BY Distinct DEF Init, NoId, Followed, Idle
  <2>2. OneAtATime
    BY <2>1 DEF OneAtATime, Init, Idle
  <2>3. Object!Init
    BY <2>1 DEF Object!Init, NoId
  <2> QED BY <2>2, <2>3
<1>2. TypeOK /\ OneAtATime /\ [Next]_vars => OneAtATime'
  BY OneAtATimeStep
<1>3. TypeOK /\ OneAtATime /\ [Next]_vars => [Object!Next]_Object!vars
  BY ObjectStep
<1> QED BY <1>1, <1>2, <1>3, TypeCorrect, PTL DEF Spec, ImplementsManagedObject, Object!Spec

-----------------------------------------------------------------------------
(* The mapping *)

(* When only the last GET of an Update is due, the mapping is made; before *)
(* that, something is planned and differs from the saved mapping, and      *)
(* nothing is reported.                                                    *)
Mapped ==
    /\ SuccessMapsNat
    /\ pc = "get" /\ quiet /\ current => nat = PlanPrivate
    /\ pc \in {"enable", "disable"} => HasDiff /\ PlanPrivate # tf.private
    /\ pc # "idle" => result = "none"
    /\ tf.id = NoId => tf.private = None

(* Every step keeps that.                                                  *)
LEMMA MappedStep ==
    ASSUME TypeOK, Mapped, [Next]_vars
    PROVE  Mapped'
<1> USE DEF Mapped, SuccessMapsNat, PlanPrivate, HasDiff, Differs
<1>x. TypeOK
  OBVIOUS
<1>t. NoState.id = NoId /\ NoState.private = None /\ pc \in {"idle", "enable", "disable", "get"}
  BY Distinct DEF TypeOK
<1>1. CASE Allocate
  BY <1>1, <1>x, <1>t, PostIPKeeps, Distinct DEF Allocate, Planned, Finish, Save, Idle
<1>2. CASE AllocateFails
  BY <1>2 DEF AllocateFails, Finish, Idle
<1>3. CASE UpdateBegins
  BY <1>3 DEF UpdateBegins, FirstRequest, controller, Idle
<1>4. CASE Enable
  <2>1. pip # NoId
    BY <1>4, <1>x, Distinct DEF Enable, TypeOK, Idle
  <2> QED BY <1>4, <2>1 DEF Enable, Finish, Save, history
<1>5. CASE Disable
  BY <1>5 DEF Disable, history
<1>6. CASE Get
  <2>1. pip # NoId
    BY <1>6, <1>x, Distinct DEF Get, TypeOK, Idle
  <2> QED BY <1>6, <2>1 DEF Get, Finish, Save, controller, history
<1>7. CASE UpdateFails \/ CreateCrashes
  BY <1>7 DEF UpdateFails, CreateCrashes, Finish
<1>8. CASE Read
  BY <1>8, <1>t DEF Read, Save, controller, Idle
<1>9. CASE ReadFails
  BY <1>9 DEF ReadFails, controller, history, Idle
<1>10. CASE ReadMisled
  BY <1>10, <1>t DEF ReadMisled, Idle
<1>11. CASE Delete
  BY <1>11, <1>t DEF Delete, Finish, history
<1>12. CASE DeleteFails
  <2>1. /\ pc' = "idle" /\ result' \in {"deleted", "error"} /\ tf' \in {tf, NoState}
    BY <1>12 DEF DeleteFails, Finish
  <2> QED BY <1>t, <2>1
<1>13. CASE Foreign
  BY <1>13 DEF Foreign
<1>14. CASE Edit
  BY <1>14 DEF Edit, controller, history, Idle
<1>15. CASE UNCHANGED vars
  BY <1>15 DEF vars, controller, history
<1> QED
  BY <1>1, <1>2, <1>3, <1>4, <1>5, <1>6, <1>7, <1>8, <1>9, <1>10, <1>11, <1>12, <1>13,
     <1>14, <1>15 DEF Next, Step

(* Mapped holds in every reachable state.                                  *)
LEMMA AlwaysMapped == Spec => []Mapped
<1>1. Init => Mapped
  BY Distinct DEF Init, Mapped, SuccessMapsNat
<1>2. TypeOK /\ Mapped /\ [Next]_vars => Mapped'
  BY MappedStep
<1> QED BY <1>1, <1>2, TypeCorrect, PTL DEF Spec

(* Success means the planned mapping, unless the saved state was stale or  *)
(* somebody else was at work.                                              *)
THEOREM SuccessMaps == Spec => []SuccessMapsNat
<1>1. Mapped => SuccessMapsNat
  BY DEF Mapped
<1> QED BY <1>1, AlwaysMapped, PTL

(* The provider takes a mapping down only in an Update that something is   *)
(* planned for and that differs from the saved mapping, or with the        *)
(* allocation: not when private_ip is only left out.                       *)
THEOREM Keeps == Spec => NatKept
<1>1. TypeOK /\ Mapped /\ [Next]_vars
        => [nat # None /\ nat' # nat /\ drifts' = drifts /\ Followed \in ips'
              => \/ ~Idle /\ HasDiff /\ PlanPrivate # tf.private
                 \/ tf'.id = NoId]_vars
  <2> SUFFICES ASSUME TypeOK, Mapped, Next, nat' # nat, drifts' = drifts, Followed \in ips'
               PROVE  (~Idle /\ HasDiff /\ PlanPrivate # tf.private) \/ tf'.id = NoId
    OBVIOUS
  <2> USE Distinct DEF Mapped, Idle, Followed
  <2>1. CASE Allocate
    BY <2>1, PostIPKeeps DEF Allocate, TypeOK
  <2>2. CASE Enable \/ Disable
    BY <2>2 DEF Enable, Disable
  <2>3. CASE UpdateFails \/ CreateCrashes
    BY <2>3 DEF UpdateFails, RequestFails, CreateCrashes, Creating
  <2>4. CASE AllocateFails \/ UpdateBegins \/ Get \/ Read \/ ReadFails \/ Edit
    BY <2>4 DEF AllocateFails, UpdateBegins, Get, Read, ReadFails, Edit, controller
  <2>5. CASE ReadMisled \/ Delete \/ DeleteFails
    BY <2>5 DEF ReadMisled, Delete, DeleteFails, Doomed, Release
  <2>6. ~Foreign
    BY DEF Foreign, TypeOK
  <2> QED BY <2>1, <2>2, <2>3, <2>4, <2>5, <2>6 DEF Next, Step
<1> QED BY <1>1, TypeCorrect, AlwaysMapped, PTL DEF Spec, NatKept

-----------------------------------------------------------------------------
(* Errors *)

(* An apply that meets no failed request and no foreign change reports no  *)
(* error, and does not crash.                                              *)
ErrorHasCause == faults = 0 /\ drifts = 0 => result \notin {"error", "crashed"}

(* As long as nothing went wrong, the followed allocation exists, its      *)
(* mapping is the saved one between two handlers, and one that is to be    *)
(* taken down is there.                                                    *)
Undisturbed ==
    faults = 0 /\ drifts = 0 =>
        /\ result \notin {"error", "crashed"} /\ Followed \in ips \cup {NoId}
        /\ Idle /\ tf.id # NoId => tf.private = nat
        /\ pc = "disable" => nat # None

LEMMA UndisturbedStep ==
    ASSUME TypeOK, OneAtATime, Undisturbed, [Next]_vars
    PROVE  Undisturbed'
<1> SUFFICES ASSUME faults' = 0, drifts' = 0
             PROVE  /\ result' \notin {"error", "crashed"} /\ Followed' \in ips' \cup {NoId}
                    /\ Idle' /\ tf'.id # NoId => tf'.private = nat'
                    /\ pc' = "disable" => nat' # None
  BY DEF Undisturbed
<1>x. TypeOK /\ OneAtATime
  OBVIOUS
<1>n. ~Fault /\ ~Foreign
  <2>1. faults \in 0 .. MaxFaults /\ drifts \in 0 .. MaxDrift
    BY <1>x DEF TypeOK
  <2>2. faults' # faults + 1 /\ drifts' # drifts + 1
    BY <2>1, PublicIPAssumption
  <2> QED BY <2>2 DEF Fault, Foreign
<1>t. /\ pc = "idle" => pip = NoId
      /\ pc # "idle" => pip \in Ids
      /\ NoId \notin Ids /\ NoState.id = NoId
  BY <1>x, Distinct DEF TypeOK, Idle
<1>f. UNCHANGED <<faults, drifts>>
  BY <1>n DEF Next, Step, Allocate, AllocateFails, UpdateBegins, Enable, Disable, Get,
     UpdateFails, RequestFails, CreateCrashes, Read, ReadFails, ReadMisled, Delete, DeleteFails,
     Edit, bounds, vars
<1>u. /\ result \notin {"error", "crashed"} /\ Followed \in ips \cup {NoId}
      /\ Idle /\ tf.id # NoId => tf.private = nat
      /\ pc = "disable" => nat # None
  BY <1>f DEF Undisturbed
<1>e. /\ ~Idle => pip \in ips
      /\ Idle /\ tf.id # NoId => tf.id \in ips
  BY <1>t, <1>u DEF Followed, Idle
<1>1. CASE Allocate
  <2>1. ips' = ips \cup {nextId} /\ result' \in {"created", "none"}
    BY <1>1 DEF Allocate, PostIP, Finish
  <2>2. CASE Save(nextId) /\ Finish("created")
    BY <2>1, <2>2 DEF Save, Finish, Followed, Idle
  <2>3. CASE pc' = "enable" /\ pip' = nextId
    BY <2>1, <2>3 DEF Followed, Idle
  <2> QED BY <1>1, <2>2, <2>3 DEF Allocate
<1>2. CASE UpdateBegins
  <2>1. /\ Idle /\ tf.id # NoId /\ pc' = FirstRequest /\ pip' = tf.id /\ result' = "none"
        /\ UNCHANGED <<ips, nat>>
    BY <1>2 DEF UpdateBegins, controller
  <2>2. pc' \in {"get", "enable", "disable"} /\ (pc' = "disable" => tf.private # None)
    BY <2>1 DEF FirstRequest
  <2> QED BY <1>e, <1>u, <2>1, <2>2 DEF Followed, Idle
<1>3. CASE Enable \/ Get
  <2>1. /\ pip \in ips /\ ips' = ips /\ tf'.id = pip /\ tf'.private = nat'
        /\ pc' = "idle" /\ result' \in {"created", "updated"}
    BY <1>3 DEF Enable, Get, Save, Finish, controller
  <2> QED BY <2>1 DEF Followed, Idle
<1>4. CASE Disable
  <2>1. pip \in ips /\ UNCHANGED <<ips, pip, result>> /\ pc' \in {"get", "enable"}
    BY <1>4 DEF Disable
  <2> QED BY <1>u, <2>1 DEF Followed, Idle
<1>5. ~UpdateFails /\ ~CreateCrashes
  BY <1>e, <1>n, <1>u DEF UpdateFails, RequestFails, CreateCrashes
<1>6. ~AllocateFails /\ ~ReadFails /\ ~ReadMisled /\ ~DeleteFails
  BY <1>n DEF AllocateFails, ReadFails, ReadMisled, DeleteFails
<1>7. CASE Read
  <2>1. Idle /\ tf.id \in ips /\ UNCHANGED <<ips, pc, nat>> /\ result' = "read"
    BY <1>7, <1>e DEF Read, controller
  <2>2. tf'.id = tf.id /\ tf'.private = nat'
    BY <1>7, <2>1 DEF Read, Save
  <2> QED BY <2>1, <2>2 DEF Followed, Idle
<1>8. CASE Delete
  BY <1>8, <1>t DEF Delete, Finish, Followed, Idle
<1>9. CASE Edit
  <2>1. UNCHANGED <<ips, nat, tf, pc, pip>> /\ result' = "none"
    BY <1>9 DEF Edit, controller
  <2> QED BY <1>u, <2>1 DEF Followed, Idle
<1>10. CASE UNCHANGED vars
  <2>1. UNCHANGED <<ips, nat, tf, pc, pip, result>>
    BY <1>10 DEF vars, controller
  <2> QED BY <1>u, <2>1 DEF Followed, Idle
<1> QED
  BY <1>n, <1>1, <1>2, <1>3, <1>4, <1>5, <1>6, <1>7, <1>8, <1>9, <1>10 DEF Next, Step

(* Without a failed request and without foreign changes, no handler of a   *)
(* public IP reports an error: Update disables only a mapping that is      *)
(* there, though it looks at the saved state alone.                        *)
THEOREM ErrorsHaveCauses == Spec => []ErrorHasCause
<1>1. Init => Undisturbed /\ OneAtATime
  <2> SUFFICES ASSUME Init PROVE Undisturbed /\ OneAtATime
    OBVIOUS
  <2>1. /\ ips = {} /\ abandoned = {} /\ nextId = 1 /\ tf.id = 0 /\ pip = 0 /\ pc = "idle"
        /\ result = "none"
    BY Distinct DEF Init, NoId
  <2> QED BY <2>1 DEF OneAtATime, Undisturbed, Followed, Idle, NoId
<1>2. TypeOK /\ OneAtATime /\ Undisturbed /\ [Next]_vars => OneAtATime' /\ Undisturbed'
  BY OneAtATimeStep, UndisturbedStep
<1>3. Undisturbed => ErrorHasCause
  BY DEF Undisturbed, ErrorHasCause
<1> QED BY <1>1, <1>2, <1>3, TypeCorrect, PTL DEF Spec
=============================================================================
