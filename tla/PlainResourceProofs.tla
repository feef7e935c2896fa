------------------------ MODULE PlainResourceProofs ------------------------
(***************************************************************************)
(* Proofs about PlainResource, for every kind of resource and every value  *)
(* of the constants.                                                       *)
(***************************************************************************)
EXTENDS PlainResource, TLAPS

(* An object as the controller keeps it, and a state as Terraform saves it.*)
ObjectType == [ident : Idents, value : Nat \ {0}, opt : Opts]
StateType ==
    [id : Ids, ident : Idents, value : Nat \ {0}, kept : Nat \ {0}, opt : Opts,
     tainted : BOOLEAN]

(* What TypeOK needs to be inductive: the model keeps the attributes of    *)
(* the saved object exactly as long as that exists.                        *)
Followed ==
    /\ TypeOK
    /\ object = Nothing <=> tf.id \notin exists

-----------------------------------------------------------------------------
(* What a request asks for *)

(* A size in bytes is a number, and a size that fits is sent as it is.     *)
LEMMA WrappedSize ==
    ASSUME NEW n \in Nat
    PROVE  Wrapped(n) \in Int /\ (n < HalfRange => Wrapped(n) = n)
<1>1. HalfRange \in Nat \ {0}
  BY PlainAssumption
<1>2. (n + HalfRange) % (2 * HalfRange) \in 0 .. 2 * HalfRange - 1
  BY <1>1
<1>3. ASSUME n < HalfRange PROVE (n + HalfRange) % (2 * HalfRange) = n + HalfRange
  BY <1>1, <1>3
<1> QED BY <1>1, <1>2, <1>3 DEF Wrapped

(* A configuration has the attributes that the model tells apart.          *)
LEMMA WantType ==
    ASSUME kind \in Kinds, NEW w \in Wants[kind]
    PROVE  /\ w.value \in Nat \ {0} /\ w.present \in BOOLEAN
           /\ w.ident \in Idents /\ Given(w.opt) \in Opts
           /\ kind = "storage_volume" => w.opt = Unset
BY PlainAssumption DEF Idents, Opts

(* What is asked for by a valid configuration is an object.                *)
LEMMA AskedType ==
    ASSUME kind \in Kinds, NEW w \in Wants[kind], SentValue(w.value) > 0
    PROVE  /\ SentValue(w.value) \in Nat \ {0}
           /\ Asked(w) \in ObjectType
           /\ [Asked(w) EXCEPT !.opt = None] \in ObjectType
<1>1. SentValue(w.value) \in Nat \ {0}
  BY WantType, WrappedSize DEF SentValue
<1> QED BY <1>1, WantType DEF Asked, ObjectType, Opts

-----------------------------------------------------------------------------
(* Types *)

(* No saved ID is the ID that stands for none, and no object is the one    *)
(* that stands for none.                                                   *)
LEMMA Distinct ==
    /\ NoId \notin Ids /\ NoState.id = NoId
    /\ Nothing \notin ObjectType /\ NoState \notin StateType
BY DEF NoId, Ids, NoState, Nothing, ObjectType, StateType

LEMMA FollowedInit == Init => Followed
<1> SUFFICES ASSUME Init PROVE Followed
  OBVIOUS
<1>1. 0 \in 0 .. MaxFaults /\ 0 \in 0 .. MaxDrift /\ 0 \in 0 .. MaxEdits
  BY PlainAssumption
<1>2. TypeOK
  BY <1>1 DEF Init, TypeOK
<1>3. tf.id = NoId /\ object = Nothing /\ exists = {}
  BY Distinct DEF Init
<1> QED BY <1>2, <1>3 DEF Followed

(* What the answer to a Create or an Update shows is saved as a state.     *)
LEMMA SaveType ==
    ASSUME kind \in Kinds, want \in Wants[kind], NEW id \in Ids, NEW a \in BOOLEAN,
           object' \in ObjectType, Save(id, a)
    PROVE  tf' \in StateType /\ tf'.id = id
BY WantType DEF Save, StateType, ObjectType

(* A refresh saves a state of the same object.                             *)
LEMMA RefreshedType ==
    ASSUME tf \in StateType, object \in ObjectType
    PROVE  Refreshed \in StateType /\ Refreshed.id = tf.id
<1>1. LBCertificateRead \in StateType /\ LBCertificateRead.id = tf.id
  BY DEF LBCertificateRead, StateType, ObjectType
<1>2. PlainRead \in StateType /\ PlainRead.id = tf.id
  BY DEF PlainRead, StateType, ObjectType
<1> QED BY <1>1, <1>2 DEF Refreshed

(* What an Update sends makes an object of an object.                      *)
LEMMA PutType ==
    ASSUME kind \in Kinds, want \in Wants[kind], object \in ObjectType, Accepts, Put,
           kind # "storage_volume" => SentValue(want.value) > 0
    PROVE  object' \in ObjectType
<1>1. SentValue(want.value) \in Nat \ {0} /\ Asked(want) \in ObjectType
  BY AskedType DEF Accepts
<1> QED BY <1>1 DEF Put, ObjectType

(* Every step keeps the types and the attributes of what exists.           *)
LEMMA FollowedStep ==
    ASSUME Followed, [Next]_vars
    PROVE  Followed'
<1> USE Distinct DEF Followed
<1>t. /\ kind \in Kinds /\ want \in Wants[kind] /\ exists \subseteq Ids
      /\ object = Nothing \/ object \in ObjectType
      /\ tf = NoState \/ tf \in StateType
      /\ parent \in BOOLEAN /\ fresh \in BOOLEAN
      /\ shrinks \in Shrinking /\ omits \in Omitting /\ decodes \in Decodings
      /\ result \in {"none", "created", "read", "updated", "deleted", "rejected", "error"}
      /\ abandoned \subseteq Ids /\ resized \in BOOLEAN /\ quiet \in BOOLEAN
      /\ faults \in 0 .. MaxFaults /\ drifts \in 0 .. MaxDrift /\ edits \in 0 .. MaxEdits
  BY DEF TypeOK, ObjectType, StateType
<1>i. tf.id # NoId => tf \in StateType /\ tf.id \in Ids
  BY <1>t DEF StateType
<1>f. ASSUME Fault PROVE faults' \in 0 .. MaxFaults
  BY <1>f, <1>t, PlainAssumption DEF Fault
<1>g. ASSUME kind' = kind, want' \in Wants[kind], exists' \subseteq Ids,
             object' = Nothing \/ object' \in ObjectType,
             tf' = NoState \/ tf' \in StateType,
             parent' \in BOOLEAN, fresh' \in BOOLEAN, choices' = choices,
             result' \in {"none", "created", "read", "updated", "deleted", "rejected", "error"},
             abandoned' \subseteq Ids, resized' \in BOOLEAN, quiet' \in BOOLEAN,
             faults' \in 0 .. MaxFaults, drifts' \in 0 .. MaxDrift, edits' \in 0 .. MaxEdits
      PROVE  TypeOK'
  BY <1>g, <1>t DEF TypeOK, ObjectType, StateType, Idents, Opts, choices
<1>1. CASE Create
  <2>1. PICK id \in NewIds : PostObject(id) /\ Save(id, CreateAccepted)
    BY <1>1 DEF Create
  <2>2. id \in Ids /\ exists' = exists \cup {id}
    BY <2>1 DEF NewIds, PostObject
  <2>3. object' \in ObjectType
    BY <1>1, <1>t, <2>1, AskedType DEF Create, PostObject, Valid
  <2>4. tf' \in StateType /\ tf'.id = id
    BY <1>t, <2>1, <2>2, <2>3, SaveType DEF CreateAccepted
  <2>5. TypeOK'
    BY <1>1, <1>g, <1>t, <2>2, <2>3, <2>4 DEF Create, Finish, choices, bounds
  <2> QED BY <2>2, <2>3, <2>4, <2>5
<1>2. CASE CreateRefused
  <2>1. TypeOK'
    BY <1>2, <1>g, <1>t DEF CreateRefused, Fail, controller, choices, history, bounds
  <2> QED BY <1>2, <2>1 DEF CreateRefused, controller
<1>3. CASE CreateFails
  <2>1. exists' \subseteq Ids /\ abandoned' \subseteq Ids
    BY <1>3, <1>t DEF CreateFails, NewIds, PostObject
  <2>2. TypeOK'
    BY <1>3, <1>f, <1>g, <1>t, <2>1 DEF CreateFails, Fail, choices
  <2>3. tf' = tf /\ object' = object /\ tf.id = NoId
    BY <1>3 DEF CreateFails, CreateDue
  <2> QED BY <1>t, <2>1, <2>2, <2>3
<1>4. CASE Read
  <2>1. \/ tf.id \in exists /\ tf' \in StateType /\ tf'.id = tf.id
        \/ tf.id \notin exists /\ tf' = NoState
    BY <1>4, <1>t, <1>i, RefreshedType DEF Read
  <2>2. TypeOK'
    BY <1>4, <1>g, <1>t, <2>1 DEF Read, controller, choices, history, bounds
  <2>3. exists' = exists /\ object' = object
    BY <1>4 DEF Read, controller
  <2> QED BY <1>4, <1>t, <2>1, <2>2, <2>3 DEF Read
<1>5. CASE ReadFails
  <2>1. faults' \in 0 .. MaxFaults
    BY <1>5, <1>f, <1>t DEF ReadFails
  <2>2. TypeOK'
    BY <1>5, <1>g, <1>t, <2>1 DEF ReadFails, Fail, controller, choices, history
  <2> QED BY <1>5, <2>2 DEF ReadFails, controller
<1>6. CASE ReadMisled
  <2>1. abandoned' \subseteq Ids
    BY <1>6, <1>t, <1>i DEF ReadMisled
  <2>2. TypeOK'
    BY <1>6, <1>f, <1>g, <1>t, <2>1 DEF ReadMisled, Forget, choices
  <2> QED BY <1>6, <1>t, <2>2 DEF ReadMisled, Forget
<1>7. ASSUME UpdateDue, Updatable, Accepts, Put PROVE object' \in ObjectType
  <2>1. object \in ObjectType
    BY <1>7, <1>t DEF Accepts
  <2>2. kind # "storage_volume" => SentValue(want.value) = want.value /\ want.value > 0
    BY <1>t, WantType DEF SentValue
  <2> QED BY <1>7, <1>t, <2>1, <2>2, PutType
<1>8. CASE Update
  <2>1. object' \in ObjectType /\ tf.id \in Ids
    BY <1>8, <1>7, <1>i DEF Update, UpdateDue
  <2>2. tf' \in StateType /\ tf'.id = tf.id
    BY <1>8, <1>t, <2>1, SaveType DEF Update
  <2>3. TypeOK'
    BY <1>8, <1>g, <1>t, <2>1, <2>2 DEF Update, Finish, choices, bounds
  <2>4. exists' = exists /\ tf.id \in exists
    BY <1>8 DEF Update, Accepts
  <2> QED BY <2>1, <2>2, <2>3, <2>4
<1>9. CASE UpdateRefused
  <2>1. TypeOK'
    BY <1>9, <1>g, <1>t DEF UpdateRefused, Fail, controller, choices, history, bounds
  <2> QED BY <1>9, <2>1 DEF UpdateRefused, controller
<1>10. CASE UpdateFails
  <2>1. \/ object' = object /\ resized' = resized
        \/ object' \in ObjectType /\ resized' = TRUE
    BY <1>10, <1>7 DEF UpdateFails
  <2>2. TypeOK'
    BY <1>10, <1>f, <1>g, <1>t, <2>1 DEF UpdateFails, Fail, choices
  <2>3. exists' = exists /\ tf' = tf /\ (object' = object \/ tf.id \in exists)
    BY <1>10 DEF UpdateFails, Accepts
  <2> QED BY <2>1, <2>2, <2>3
<1>11. CASE Delete
  <2>1. TypeOK'
    BY <1>11, <1>g, <1>t DEF Delete, Forget, choices, bounds
  <2> QED BY <1>11, <1>t, <2>1 DEF Delete, Forget
<1>12. CASE DeleteFails
  <2>1. exists' \subseteq Ids /\ exists' \in {exists, exists \ {tf.id}}
    BY <1>12, <1>t DEF DeleteFails
  <2>2. /\ \/ tf' = NoState /\ object' = Nothing /\ resized' = FALSE /\ result' = "deleted"
              /\ fresh' = fresh
           \/ /\ tf' = tf /\ result' = "error" /\ fresh' = FALSE
              /\ \/ exists' = exists /\ object' = object /\ resized' = resized
                 \/ exists' # exists /\ object' = Nothing /\ resized' = FALSE
        /\ tf.id # NoId
    BY <1>12 DEF DeleteFails, Fail, Forget, DeleteDue
  <2>3. TypeOK'
    BY <1>12, <1>f, <1>g, <1>t, <2>1, <2>2 DEF DeleteFails, choices
  <2> QED BY <1>t, <2>1, <2>2, <2>3
<1>13. CASE Foreign
  <2>1. /\ exists' \subseteq Ids /\ parent' \in BOOLEAN
        /\ \/ /\ tf.id \in exists /\ exists' = exists /\ object' \in ObjectType
              /\ resized' \in BOOLEAN
           \/ exists' = exists \ {tf.id} /\ object' = Nothing /\ resized' = FALSE
    <3>1. ASSUME NEW w \in Wants[kind], Valid(w)
          PROVE  Asked(w) \in ObjectType /\ [Asked(w) EXCEPT !.opt = None] \in ObjectType
      BY <1>t, <3>1, AskedType DEF Valid
    <3> QED BY <1>13, <1>t, <3>1 DEF Foreign, Forget
  <2>0. drifts' \in 0 .. MaxDrift
    BY <1>13, <1>t, PlainAssumption DEF Foreign
  <2>2. TypeOK'
    BY <1>13, <1>g, <1>t, <2>0, <2>1 DEF Foreign, choices
  <2>3. tf' = tf
    BY <1>13 DEF Foreign
  <2> QED BY <1>i, <2>1, <2>2, <2>3
<1>14. CASE RemakeParent
  <2>1. TypeOK'
    BY <1>14, <1>g, <1>t DEF RemakeParent, choices, history, bounds
  <2> QED BY <1>14, <2>1 DEF RemakeParent
<1>15. CASE Edit
  <2>0. edits' \in 0 .. MaxEdits
    BY <1>15, <1>t, PlainAssumption DEF Edit
  <2>1. TypeOK'
    BY <1>15, <1>g, <1>t, <2>0 DEF Edit, controller, choices, history
  <2> QED BY <1>15, <2>1 DEF Edit, controller
<1>16. CASE UNCHANGED vars
  <2>1. TypeOK'
    BY <1>16, <1>g, <1>t DEF vars, controller, choices, history, bounds
  <2> QED BY <1>16, <2>1 DEF vars, controller
<1> QED
  BY <1>1, <1>2, <1>3, <1>4, <1>5, <1>6, <1>8, <1>9, <1>10, <1>11, <1>12, <1>13, <1>14,
     <1>15, <1>16 DEF Next, Apply

LEMMA AlwaysFollowed == Spec => []Followed
BY FollowedInit, FollowedStep, PTL DEF Spec

(* Every variable keeps its type, whatever the kind, the configurations    *)
(* and the bounds are.                                                     *)
THEOREM TypeCorrect == Spec => []TypeOK
<1>1. Followed => TypeOK
  BY DEF Followed
<1> QED BY <1>1, AlwaysFollowed, PTL

-----------------------------------------------------------------------------
(* Refinement *)

(* The requests that make no object, find it, or change it are nothing     *)
(* that ManagedObject sees.                                                *)
LEMMA Stutter ==
    ASSUME exists' = exists, tf'.id = tf.id, abandoned' = abandoned
    PROVE  [Object!Next]_Object!vars
BY DEF Object!vars

(* A request that fails is a failure of ManagedObject.                     *)
LEMMA FaultFails ==
    ASSUME Followed, Fault
    PROVE  Object!Failure
BY DEF Followed, Fault, TypeOK, Object!Failure

(* Every step makes, follows, loses or deletes the object as ManagedObject *)
(* has it, or leaves it alone.                                             *)
LEMMA ObjectStep ==
    ASSUME Followed, Followed', [Next]_vars
    PROVE  [Object!Next]_Object!vars
<1> USE Distinct
<1>t. /\ kind \in Kinds /\ want \in Wants[kind] /\ exists \subseteq Ids
      /\ tf = NoState \/ tf \in StateType
      /\ tf.id \in exists => object \in ObjectType
  BY DEF Followed, TypeOK, ObjectType, StateType
<1>1. CASE Create
  <2>1. PICK id \in NewIds : PostObject(id) /\ Save(id, CreateAccepted)
    BY <1>1 DEF Create
  <2>2. /\ id \in Ids \ (exists \cup abandoned) /\ exists' = exists \cup {id}
        /\ tf'.id = id /\ tf.id = NoId /\ abandoned' = abandoned
    BY <1>1, <2>1 DEF Create, NewIds, PostObject, Save, CreateDue
  <2>3. Object!Make
    BY <2>2 DEF Object!Make
  <2> QED BY <2>3 DEF Object!Next
<1>2. CASE CreateRefused
  BY <1>2, Stutter DEF CreateRefused, controller, history
<1>3. CASE CreateFails
  <2>1. tf' = tf /\ tf.id = NoId
    BY <1>3 DEF CreateFails, CreateDue
  <2>2. CASE UNCHANGED <<exists, abandoned>>
    BY <2>1, <2>2, Stutter
  <2>3. CASE \E id \in NewIds : PostObject(id) /\ abandoned' = abandoned \cup {id}
    <3>1. Object!MakeLost
      BY <1>3, <2>1, <2>3, FaultFails DEF CreateFails, NewIds, PostObject, Object!MakeLost
    <3> QED BY <3>1 DEF Object!Next
  <2> QED BY <1>3, <2>2, <2>3 DEF CreateFails
<1>4. CASE Read
  <2>1. exists' = exists /\ abandoned' = abandoned
    BY <1>4 DEF Read, controller, history
  <2>2. CASE tf.id \in exists
    <3>1. tf \in StateType
      BY <1>t, <2>2
    <3>2. tf'.id = tf.id
      BY <1>4, <1>t, <2>2, <3>1, RefreshedType DEF Read
    <3> QED BY <2>1, <3>2, Stutter
  <2>3. CASE tf.id \notin exists
    <3>1. tf'.id = NoId
      BY <1>4, <2>3 DEF Read
    <3>2. CASE tf.id = NoId
      BY <2>1, <3>1, <3>2, Stutter
    <3>3. CASE tf.id # NoId
      <4>1. Object!Forget
        BY <2>1, <2>3, <3>1, <3>3 DEF Object!Forget
      <4> QED BY <4>1 DEF Object!Next
    <3> QED BY <3>2, <3>3
  <2> QED BY <2>2, <2>3
<1>5. CASE ReadFails
  BY <1>5, Stutter DEF ReadFails, controller, history
<1>6. CASE ReadMisled
  <2>1. Object!Forget
    BY <1>6, FaultFails DEF ReadMisled, Object!Forget
  <2> QED BY <2>1 DEF Object!Next
<1>7. CASE Update
  <2>1. tf'.id = tf.id
    BY <1>7 DEF Update, Save
  <2> QED BY <1>7, <2>1, Stutter DEF Update
<1>8. CASE UpdateRefused
  BY <1>8, Stutter DEF UpdateRefused, controller, history
<1>9. CASE UpdateFails
  BY <1>9, Stutter DEF UpdateFails
<1>10. CASE Delete
  <2>1. /\ tf.id # NoId /\ tf'.id = NoId /\ abandoned' = abandoned
        /\ exists' = exists \ {tf.id}
    BY <1>10 DEF Delete, DeleteDue
  <2>2. Object!Remove \/ Object!Forget
    BY <2>1 DEF Object!Remove, Object!Forget
  <2> QED BY <2>2 DEF Object!Next
<1>11. CASE DeleteFails
  <2>1. /\ tf.id # NoId /\ abandoned' = abandoned
        /\ exists' \in {exists, exists \ {tf.id}}
        /\ (tf' = tf) \/ (TRUE \in TakenForNotFound /\ tf' = NoState)
    BY <1>11 DEF DeleteFails, DeleteDue
  <2>2. CASE tf' = tf
    <3>1. exists' = exists \/ Object!Remove
      BY <2>1, <2>2 DEF Object!Remove
    <3> QED BY <2>1, <2>2, <3>1, Stutter DEF Object!Next
  <2>3. CASE TRUE \in TakenForNotFound /\ tf' = NoState
    <3>1. tf.id \in IdsWith404
      BY <2>3 DEF TakenForNotFound
    <3>2. Object!Remove \/ Object!Forget
      BY <1>11, <2>1, <2>3, <3>1, FaultFails DEF DeleteFails, Object!Remove, Object!Forget
    <3> QED BY <3>2 DEF Object!Next
  <2> QED BY <2>1, <2>2, <2>3
<1>12. CASE Foreign
  <2>1. /\ tf' = tf /\ abandoned' = abandoned
        /\ exists' = exists \/ exists' = exists \ {tf.id}
    BY <1>12 DEF Foreign
  <2>2. exists' = exists \/ Object!Vanish
    BY <2>1 DEF Object!Vanish
  <2> QED BY <2>1, <2>2, Stutter DEF Object!Next
<1>13. CASE RemakeParent
  BY <1>13, Stutter DEF RemakeParent, history
<1>14. CASE Edit
  BY <1>14, Stutter DEF Edit, controller, history
<1>15. CASE UNCHANGED vars
  BY <1>15, Stutter DEF vars, controller, history
<1> QED
  BY <1>1, <1>2, <1>3, <1>4, <1>5, <1>6, <1>7, <1>8, <1>9, <1>10, <1>11, <1>12, <1>13,
     <1>14, <1>15 DEF Next, Apply

(* The eight kinds of resource make, follow and delete one object at a     *)
(* time, and lose one only in a Create that is not answered, or where an   *)
(* error is taken for "not found".                                         *)
THEOREM Implements == Spec => ImplementsManagedObject
<1>1. Init => Object!Init
  BY Distinct DEF Init, Object!Init
<1>2. Followed /\ Followed' /\ [Next]_vars => [Object!Next]_Object!vars
  BY ObjectStep
<1> QED BY <1>1, <1>2, AlwaysFollowed, PTL DEF Spec, ImplementsManagedObject, Object!Spec

-----------------------------------------------------------------------------
(* The size of a volume *)

(* Unless it was resized behind the provider's back, a volume has the size *)
(* that was asked for the saved number of GiB.                             *)
SizeKept ==
    kind = "storage_volume" /\ tf.id \in exists /\ ~resized
        => object.value = SentValue(tf.kept)

(* Every step keeps that.                                                  *)
LEMMA SizeStep ==
    ASSUME Followed, Followed', SizeKept, [Next]_vars
    PROVE  SizeKept'
<1> USE Distinct
<1>t. /\ kind \in Kinds /\ want \in Wants[kind] /\ exists \subseteq Ids
      /\ exists' \subseteq Ids
      /\ tf = NoState \/ tf \in StateType
      /\ tf.id \in exists => object \in ObjectType /\ tf \in StateType
  BY DEF Followed, TypeOK, ObjectType, StateType
<1>a. ASSUME kind' = kind, exists' = exists, object' = object, tf' = tf, resized' = resized
      PROVE  SizeKept'
  BY <1>a DEF SizeKept, SentValue
<1>b. ASSUME tf'.id \notin exists' PROVE SizeKept'
  BY <1>b DEF SizeKept
<1>1. CASE Create
  <2>1. PICK id \in NewIds : Save(id, CreateAccepted)
    BY <1>1 DEF Create
  <2>2. kind' = kind /\ object'.value = SentValue(want.value) /\ tf'.kept = want.value
    BY <1>1, <2>1 DEF Create, Save, Asked
  <2> QED BY <2>2 DEF SizeKept, SentValue
<1>2. CASE CreateRefused
  BY <1>2, <1>a DEF CreateRefused, controller, history
<1>3. CASE CreateFails
  <2>1. tf'.id = NoId
    BY <1>3 DEF CreateFails, CreateDue
  <2> QED BY <1>t, <1>b, <2>1
<1>4. CASE Read
  <2>1. kind' = kind /\ exists' = exists /\ object' = object /\ resized' = resized
    BY <1>4 DEF Read, controller, history
  <2>2. CASE tf.id \in exists
    <3>1. kind = "storage_volume" => tf'.kept = tf.kept
      BY <1>4, <1>t, <2>2 DEF Read, Refreshed, PlainRead, StateType
    <3> QED BY <2>1, <2>2, <3>1 DEF SizeKept, SentValue
  <2>3. CASE tf.id \notin exists
    BY <1>4, <1>t, <1>b, <2>3 DEF Read
  <2> QED BY <2>2, <2>3
<1>5. CASE ReadFails
  BY <1>5, <1>a DEF ReadFails, controller, history
<1>6. CASE ReadMisled
  BY <1>6, <1>t, <1>b DEF ReadMisled
<1>7. CASE Update
  <2>1. kind' = kind /\ tf'.kept = want.value
    BY <1>7 DEF Update, Save
  <2>2. kind = "storage_volume" => object'.value = SentValue(want.value)
    BY <1>7, <1>t DEF Update, Accepts, Put, ObjectType
  <2> QED BY <2>1, <2>2 DEF SizeKept, SentValue
<1>8. CASE UpdateRefused
  BY <1>8, <1>a DEF UpdateRefused, controller, history
<1>9. CASE UpdateFails
  <2>1. CASE UNCHANGED <<object, resized>>
    BY <1>9, <1>a, <2>1 DEF UpdateFails
  <2>2. CASE resized' = TRUE
    BY <2>2 DEF SizeKept
  <2> QED BY <1>9, <2>1, <2>2 DEF UpdateFails
<1>10. CASE Delete
  BY <1>10, <1>t, <1>b DEF Delete
<1>11. CASE DeleteFails
  <2>1. CASE tf' = NoState
    BY <1>t, <1>b, <2>1
  <2>2. CASE tf' = tf /\ exists' = exists /\ UNCHANGED <<object, resized>>
    BY <1>11, <1>a, <2>2 DEF DeleteFails
  <2>3. CASE tf' = tf /\ exists' = exists \ {tf.id}
    BY <1>b, <2>3
  <2> QED BY <1>11, <2>1, <2>2, <2>3 DEF DeleteFails
<1>12. CASE Foreign
  <2>1. kind' = kind /\ tf' = tf
    BY <1>12 DEF Foreign
  <2>2. CASE exists' = exists \ {tf.id}
    BY <1>b, <2>1, <2>2
  <2>3. CASE exists' = exists /\ resized' = (resized \/ object'.value # object.value)
    BY <2>1, <2>3 DEF SizeKept, SentValue
  <2> QED BY <1>12, <2>2, <2>3 DEF Foreign
<1>13. CASE RemakeParent
  BY <1>13, <1>a DEF RemakeParent, history
<1>14. CASE Edit
  BY <1>14, <1>a DEF Edit, controller, history
<1>15. CASE UNCHANGED vars
  BY <1>15, <1>a DEF vars, controller, history
<1> QED
  BY <1>1, <1>2, <1>3, <1>4, <1>5, <1>6, <1>7, <1>8, <1>9, <1>10, <1>11, <1>12, <1>13,
     <1>14, <1>15 DEF Next, Apply

LEMMA AlwaysKept == Spec => []SizeKept
<1>1. Init => SizeKept
  BY DEF Init, SizeKept
<1> QED BY <1>1, AlwaysFollowed, SizeStep, PTL DEF Spec

(* The comparison of two sizes in GiB is enough to never make a volume     *)
(* smaller: it can only be asked for less than it has when it was resized  *)
(* by others or by a request without an answer, or when a size overflows.  *)
THEOREM NeverShrunk == Spec => VolumeNeverShrunk
<1>1. ASSUME Followed, SizeKept, [Next]_vars
      PROVE  [kind = "storage_volume" /\ drifts' = drifts /\ object # Nothing
                /\ object' # Nothing /\ object'.value < object.value
                => resized \/ want.value >= HalfRange]_vars
  <2> SUFFICES ASSUME Next, kind = "storage_volume", drifts' = drifts, object # Nothing,
                      object' # Nothing, object'.value < object.value, ~resized,
                      ~(want.value >= HalfRange)
               PROVE  FALSE
    BY <1>1
  <2>t. /\ kind \in Kinds /\ want \in Wants[kind] /\ tf.id \in exists
        /\ object \in ObjectType /\ tf \in StateType /\ exists \subseteq Ids
    BY <1>1, Distinct DEF Followed, TypeOK, ObjectType, StateType
  <2>h. /\ HalfRange \in Nat \ {0} /\ drifts \in Nat /\ tf.id # NoId
        /\ want.value \in Nat \ {0} /\ tf.kept \in Nat \ {0} /\ object.value \in Nat
    BY <1>1, <2>t, PlainAssumption, WantType, Distinct
       DEF Followed, TypeOK, StateType, ObjectType
  <2>1. object' # object
    BY <2>h
  <2>2. ~Foreign
    BY <2>h DEF Foreign
  <2>3. Update \/ UpdateFails
    BY <2>1, <2>2, <2>h DEF Next, Apply, Create, CreateDue, CreateRefused, CreateFails,
       Read, ReadFails, ReadMisled, Forget, UpdateRefused, Delete, DeleteFails,
       RemakeParent, Edit, controller
  <2>4. Updatable /\ Put
    BY <2>1, <2>3 DEF Update, UpdateFails
  <2>5. want.value > tf.kept /\ object'.value = SentValue(want.value)
    BY <2>t, <2>4 DEF Updatable, StorageVolumeUpdatable, Put, ObjectType
  <2>6. SentValue(want.value) = want.value /\ SentValue(tf.kept) = tf.kept
    <3>1. want.value < HalfRange /\ tf.kept < HalfRange
      BY <2>h, <2>5
    <3> QED BY <2>h, <3>1, WrappedSize DEF SentValue
  <2>7. object.value = tf.kept
    BY <1>1, <2>t, <2>6 DEF SizeKept
  <2> QED BY <2>h, <2>5, <2>6, <2>7
<1> QED BY <1>1, AlwaysFollowed, AlwaysKept, PTL DEF Spec, VolumeNeverShrunk

-----------------------------------------------------------------------------
(* Success *)

(* A volume is replaced when its name or its backend changes.              *)
LEMMA VolumeForces == kind = "storage_volume" => "ident" \in Forces
BY DEF Forces, Traits, StorageVolume, Trait

(* An Update whose result Terraform accepts leaves what is configured.     *)
LEMMA UpdateRealises ==
    ASSUME Followed, Update, UpdateAccepted, want.value < HalfRange
    PROVE  /\ object'.value = want.value /\ object'.ident = want.ident
           /\ want.opt \in {Unset, object'.opt}
<1>1. /\ kind \in Kinds /\ want \in Wants[kind] /\ object \in ObjectType
      /\ want.value \in Nat \ {0} /\ SentValue(want.value) = want.value
  <2>1. kind \in Kinds /\ want \in Wants[kind] /\ object \in ObjectType
    BY DEF Followed, TypeOK, ObjectType, Update, Accepts
  <2> QED BY <2>1, WantType, WrappedSize DEF SentValue
<1>2. CASE kind = "storage_volume"
  <2>1. object'.value = want.value
    BY <1>1, <1>2 DEF Update, Put, ObjectType
  <2>2. tf.ident = want.ident /\ object'.ident = tf.ident
    BY <1>2, VolumeForces DEF Update, UpdateDue, Replaces, IdentDiffers, UpdateAccepted
  <2> QED BY <1>1, <1>2, <2>1, <2>2, WantType
<1>3. CASE kind # "storage_volume"
  BY <1>1, <1>3 DEF Update, Put, Asked, Given
<1> QED BY <1>2, <1>3

(* A Create that the controller carries out makes what is configured.      *)
LEMMA CreateRealises ==
    ASSUME Followed, Create, want.value < HalfRange
    PROVE  /\ object'.value = want.value /\ object'.ident = want.ident
           /\ want.opt \in {Unset, object'.opt}
<1>1. want.value \in Nat \ {0}
  BY WantType DEF Followed, TypeOK
<1>2. SentValue(want.value) = want.value
  BY <1>1, WrappedSize DEF SentValue
<1> QED BY <1>2 DEF Create, Asked, Given

(* Success means the configured object, until somebody else changes it or  *)
(* the user edits the configuration: no attribute is lost on the way.      *)
THEOREM SuccessRealises == Spec => []SuccessRealised
<1>1. Init => SuccessRealised
  BY DEF Init, SuccessRealised
<1>2. ASSUME Followed, SuccessRealised, [Next]_vars PROVE SuccessRealised'
  <2>a. ASSUME result' \notin {"created", "updated"} PROVE SuccessRealised'
    BY <2>a DEF SuccessRealised
  <2>b. ASSUME UNCHANGED <<object, want, result, quiet>> PROVE SuccessRealised'
    BY <1>2, <2>b DEF SuccessRealised
  <2>1. CASE Create
    <3>1. want' = want
      BY <2>1 DEF Create
    <3> QED BY <1>2, <2>1, <3>1, CreateRealises DEF SuccessRealised
  <2>2. CASE Update
    <3>1. want' = want /\ (result' = "rejected" \/ UpdateAccepted)
      BY <2>2 DEF Update, Finish
    <3> QED BY <1>2, <2>2, <2>a, <3>1, UpdateRealises DEF SuccessRealised
  <2>3. CASE \/ CreateRefused \/ CreateFails \/ Read \/ ReadFails \/ ReadMisled
            \/ UpdateRefused \/ UpdateFails \/ Delete \/ DeleteFails \/ Edit
    BY <2>3, <2>a DEF CreateRefused, CreateFails, Read, ReadFails, ReadMisled,
       UpdateRefused, UpdateFails, Delete, DeleteFails, Edit, Fail
  <2>4. CASE Foreign
    BY <2>4 DEF Foreign, SuccessRealised
  <2>5. CASE RemakeParent
    BY <2>5, <2>b DEF RemakeParent, history
  <2>6. CASE UNCHANGED vars
    BY <2>6, <2>b DEF vars, controller, history
  <2> QED BY <1>2, <2>1, <2>2, <2>3, <2>4, <2>5, <2>6 DEF Next, Apply
<1> QED BY <1>1, <1>2, AlwaysFollowed, PTL DEF Spec
=============================================================================
