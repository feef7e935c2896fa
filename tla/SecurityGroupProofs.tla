------------------------ MODULE SecurityGroupProofs ------------------------
(***************************************************************************)
(* Proofs about SecurityGroup, for every value of its constants.           *)
(***************************************************************************)
EXTENDS SecurityGroup, FiniteSetTheorems, TLAPS

(* The rules on the controller are finitely many.                          *)
LEMMA RuleCount ==
    ASSUME DOMAIN rules \subseteq RuleIds
    PROVE  Cardinality(DOMAIN rules) \in Nat
<1>1. IsFiniteSet(1 .. MaxRuleId)
  BY SGAssumption, FS_Interval
<1> QED BY <1>1, FS_Subset, FS_CardinalityType DEF RuleIds

(* Every listing of typed rules is a sequence of saved rules.              *)
LEMMA ListingsType ==
    ASSUME DOMAIN rules \subseteq RuleIds, rules \in [DOMAIN rules -> Body]
    PROVE  Listings \subseteq Seq(StateRule)
<1>1. {[id |-> i, body |-> rules[i]] : i \in DOMAIN rules} \subseteq StateRule
  BY DEF StateRule
<1> QED BY <1>1, RuleCount DEF Listings

(* A planned rule has a typed body and the ID of a saved rule or none.     *)
LEMMA PlanType ==
    ASSUME TypeOK, NEW k \in 1 .. PlanLen
    PROVE  PlanBody(k) \in Body /\ PlanId(k) \in RuleIds \cup {NoId}
<1>1. want.rules \in Seq(ConfigRule) /\ tf.rules \in Seq(StateRule)
  BY SGAssumption DEF TypeOK, Wants
<1>2. want.rules[k] \in ConfigRule
  BY <1>1 DEF PlanLen
<1>3. Known(k) => tf.rules[k] \in StateRule
  BY <1>1 DEF Known, PlanLen
<1> QED BY <1>2, <1>3 DEF PlanBody, PlanId, ConfigRule, StateRule, Body, Priorities

USE DEF Idle, NoId

(* The initial values have their types.                                    *)
LEMMA TypeInit == Init => TypeOK
<1> SUFFICES ASSUME Init PROVE TypeOK
  OBVIOUS
<1>1. want \in Wants /\ want.rules \in Seq(ConfigRule)
  BY SGAssumption DEF Init, Wants
<1>2. at \in 1 .. PlanLen + 1
  BY <1>1 DEF Init, PlanLen
<1> QED BY <1>1, <1>2, SGAssumption DEF Init, TypeOK, NoRules, NoState, GroupIds

(* The variables keep their types.  In particular the loops of Create and  *)
(* Update stay inside the plan.                                            *)
THEOREM TypeCorrect == Spec => []TypeOK
<1> USE SGAssumption
<1>1. Init => TypeOK
  BY TypeInit
<1>2. TypeOK /\ [Next]_vars => TypeOK'
  <2> SUFFICES ASSUME TypeOK, [Next]_vars PROVE TypeOK'
    OBVIOUS
  <2>0. /\ PlanLen \in Nat
        /\ \A k \in 1 .. PlanLen : PlanBody(k) \in Body
        /\ Listings \subseteq Seq(StateRule)
    BY PlanType, ListingsType DEF TypeOK, Wants, PlanLen
  <2>a. ASSUME NEW b \in Body, PostRule(b)
        PROVE  /\ DOMAIN rules' \subseteq RuleIds /\ rules' \in [DOMAIN rules' -> Body]
               /\ nextRule' \in 1 .. MaxRuleId + 1
               /\ nextRule \in RuleIds
    BY <2>a DEF PostRule, TypeOK, RuleIds
  <2>b. ASSUME NEW i, DeleteRule(i)
        PROVE  DOMAIN rules' \subseteq RuleIds /\ rules' \in [DOMAIN rules' -> Body]
    BY <2>b DEF DeleteRule, TypeOK
  <2>c. ASSUME NEW i, NEW b \in Body, PutRule(i, b)
        PROVE  DOMAIN rules' \subseteq RuleIds /\ rules' \in [DOMAIN rules' -> Body]
    BY <2>c DEF PutRule, TypeOK
  <2>d. ASSUME Forget
        PROVE  /\ DOMAIN rules' \subseteq RuleIds /\ rules' \in [DOMAIN rules' -> Body]
               /\ attrs' \in Attrs \cup {NoAttrs}
    BY <2>d DEF Forget, NoRules
  <2>e. ASSUME PostGroup
        PROVE  groups' \subseteq GroupIds /\ nextGroup' \in 1 .. MaxGroupId + 1
               /\ nextGroup \in GroupIds
    BY <2>e DEF PostGroup, TypeOK, GroupIds
  <2>f. ASSUME Fault PROVE faults' \in 0 .. MaxFaults
    BY <2>f DEF Fault, TypeOK
  <2>g. ASSUME Fail, UNCHANGED want
        PROVE  /\ pc' = "idle" /\ cur' = 0 /\ made' = << >> /\ doomed' = {} /\ at' = 1
               /\ result' = "error" /\ tf' = tf /\ PlanLen' = PlanLen
    BY <2>g DEF Fail, Return, PlanLen
  <2>1. CASE CreateGroup
    <3>1. want.attrs \in Attrs
      BY DEF TypeOK, Wants
    <3> QED BY <2>1, <2>e, <3>1 DEF CreateGroup, TypeOK, PlanLen
  <2>2. CASE CreateGroupFails
    BY <2>2, <2>0, <2>e, <2>f, <2>g DEF CreateGroupFails, TypeOK
  <2>3. CASE CreateRule
    <3>1. PlanBody(at) \in Body
      BY <2>0, <2>3 DEF CreateRule, TypeOK
    <3>2. [id |-> nextRule, body |-> PlanBody(at)] \in StateRule
      BY <3>1, <2>3, <2>a DEF CreateRule, StateRule
    <3>3. made' \in Seq(StateRule)
      BY <3>2, <2>3 DEF CreateRule, TypeOK
    <3>4. at' \in 1 .. PlanLen' + 1
      <4>1. at' = at + 1 /\ PlanLen' = PlanLen /\ at <= PlanLen
        BY <2>3 DEF CreateRule, PlanLen
      <4>2. at \in 1 .. PlanLen + 1
        BY <2>3 DEF CreateRule, TypeOK
      <4> QED BY <2>0, <4>1, <4>2
    <3> QED BY <2>3, <2>a, <3>1, <3>3, <3>4 DEF CreateRule, TypeOK
  <2>4. CASE CreateRuleFails
    <3>1. faults' \in 0 .. MaxFaults
      BY <2>4, <2>f DEF CreateRuleFails, TypeOK
    <3>2. abandoned' \subseteq GroupIds
      BY <2>4 DEF CreateRuleFails, TypeOK, Fault
    <3> QED BY <2>4, <2>0, <2>d, <2>g, <3>1, <3>2 DEF CreateRuleFails, TypeOK
  <2>5. CASE CreateReturns
    <3>1. want.attrs \in Attrs /\ cur \in GroupIds
      BY <2>5 DEF CreateReturns, TypeOK, Wants
    <3>2. tf' \in [id : GroupIds \cup {NoId}, attrs : Attrs \cup {NoAttrs},
                  rules : Seq(StateRule)]
      BY <2>5, <3>1 DEF CreateReturns, TypeOK
    <3> QED BY <2>5, <2>0, <3>2 DEF CreateReturns, Return, controller, TypeOK, PlanLen
  <2>h. ASSUME SaveListing
        PROVE  tf' \in [id : GroupIds \cup {NoId}, attrs : Attrs \cup {NoAttrs},
                       rules : Seq(StateRule)]
    BY <2>h, <2>0 DEF SaveListing, TypeOK
  <2>i. NoState \in [id : GroupIds \cup {NoId}, attrs : Attrs \cup {NoAttrs},
                    rules : Seq(StateRule)]
    BY DEF NoState
  <2>6. CASE Read
    <3>1. tf' \in [id : GroupIds \cup {NoId}, attrs : Attrs \cup {NoAttrs},
                  rules : Seq(StateRule)]
      BY <2>6, <2>h, <2>i DEF Read
    <3> QED BY <2>6, <3>1 DEF Read, controller, locals, TypeOK, PlanLen
  <2>7. CASE ReadFails
    BY <2>7, <2>0, <2>f, <2>g DEF ReadFails, controller, TypeOK
  <2>8. CASE UpdateGet
    BY <2>8, <2>0 DEF UpdateGet, controller, TypeOK, PlanLen
  <2>9. CASE UpdateGetFails
    <3>1. faults' \in 0 .. MaxFaults
      BY <2>9, <2>f DEF UpdateGetFails, TypeOK
    <3> QED BY <2>9, <2>0, <2>g, <3>1 DEF UpdateGetFails, controller, TypeOK
  <2>10. CASE UpdateRemove
    BY <2>10, <2>b DEF UpdateRemove, TypeOK, PlanLen
  <2>11. CASE UpdateRemoveFails
    <3>1. faults' \in 0 .. MaxFaults
      BY <2>11, <2>f DEF UpdateRemoveFails, TypeOK
    <3>2. DOMAIN rules' \subseteq RuleIds /\ rules' \in [DOMAIN rules' -> Body]
      BY <2>11, <2>b DEF UpdateRemoveFails, TypeOK
    <3> QED BY <2>11, <2>0, <2>g, <3>1, <3>2 DEF UpdateRemoveFails, TypeOK
  <2>j. ASSUME SendRule, at <= PlanLen
        PROVE  /\ DOMAIN rules' \subseteq RuleIds /\ rules' \in [DOMAIN rules' -> Body]
               /\ nextRule' \in 1 .. MaxRuleId + 1
    <3>1. PlanBody(at) \in Body
      BY <2>0, <2>j DEF TypeOK
    <3> QED BY <3>1, <2>j, <2>a, <2>c DEF SendRule, TypeOK
  <2>12. CASE UpdateApply
    <3>1. at' \in 1 .. PlanLen' + 1
      BY <2>0, <2>12 DEF UpdateApply, TypeOK, PlanLen
    <3> QED BY <2>12, <2>j, <3>1 DEF UpdateApply, TypeOK
  <2>13. CASE UpdateApplyFails
    <3>1. faults' \in 0 .. MaxFaults
      BY <2>13, <2>f DEF UpdateApplyFails, TypeOK
    <3>2. /\ DOMAIN rules' \subseteq RuleIds /\ rules' \in [DOMAIN rules' -> Body]
          /\ nextRule' \in 1 .. MaxRuleId + 1
      BY <2>13, <2>j DEF UpdateApplyFails, TypeOK
    <3> QED BY <2>13, <2>0, <2>g, <3>1, <3>2 DEF UpdateApplyFails, TypeOK
  <2>14. CASE UpdateReread
    BY <2>14, <2>0, <2>h DEF UpdateReread, Return, controller, TypeOK, PlanLen
  <2>15. CASE UpdateRereadFails
    <3>1. faults' \in 0 .. MaxFaults
      BY <2>15, <2>f DEF UpdateRereadFails, TypeOK
    <3> QED BY <2>15, <2>0, <2>g, <3>1 DEF UpdateRereadFails, controller, TypeOK
  <2>16. CASE Delete
    <3>1. groups' \subseteq GroupIds
      BY <2>16 DEF Delete, DeleteGroup, TypeOK
    <3>2. Forget
      BY <2>16 DEF Delete, DeleteGroup
    <3> QED BY <2>16, <2>0, <2>d, <2>i, <3>1, <3>2 DEF Delete, Return, TypeOK, PlanLen
  <2>17. CASE DeleteFails
    <3>1. faults' \in 0 .. MaxFaults /\ groups' \subseteq GroupIds
      BY <2>17, <2>f DEF DeleteFails, DeleteGroup, TypeOK
    <3>2. /\ DOMAIN rules' \subseteq RuleIds /\ rules' \in [DOMAIN rules' -> Body]
          /\ attrs' \in Attrs \cup {NoAttrs}
      BY <2>17, <2>d DEF DeleteFails, DeleteGroup, TypeOK
    <3>3. tf' \in [id : GroupIds \cup {NoId}, attrs : Attrs \cup {NoAttrs},
                  rules : Seq(StateRule)]
      BY <2>17, <2>g, <2>i DEF DeleteFails, TypeOK
    <3>4. /\ pc' = "idle" /\ cur' = NoId /\ made' = << >> /\ doomed' = {} /\ at' = 1
          /\ result' \in {"error", "deleted"} /\ PlanLen' = PlanLen
      BY <2>17 DEF DeleteFails, Fail, Return, PlanLen
    <3> QED BY <2>17, <2>0, <3>1, <3>2, <3>3, <3>4 DEF DeleteFails, TypeOK
  <2>18. CASE Foreign
    <3>1. /\ DOMAIN rules' \subseteq RuleIds /\ rules' \in [DOMAIN rules' -> Body]
          /\ nextRule' \in 1 .. MaxRuleId + 1
          /\ groups' \subseteq GroupIds /\ attrs' \in Attrs \cup {NoAttrs}
      BY <2>18, <2>a, <2>b, <2>c, <2>d DEF Foreign, TypeOK
    <3>2. /\ drifts < MaxDrift /\ drifts' = drifts + 1 /\ quiet' = FALSE
          /\ UNCHANGED <<nextGroup, tf, want, pc, cur, made, doomed, at, result,
                         abandoned, faults, edits>>
      BY <2>18 DEF Foreign, locals
    <3>7. drifts' \in 0 .. MaxDrift
      BY <3>2 DEF TypeOK
    <3>3. at' \in IF Idle' THEN {1} ELSE 1 .. PlanLen' + 1
      BY <3>2 DEF TypeOK, PlanLen
    <3>4. /\ nextGroup' \in 1 .. MaxGroupId + 1 /\ cur' \in IF pc' = "adding" THEN GroupIds ELSE {NoId}
          /\ faults' \in 0 .. MaxFaults /\ edits' \in 0 .. MaxEdits
      BY <3>2 DEF TypeOK
    <3>5. /\ tf' \in [id : GroupIds \cup {NoId}, attrs : Attrs \cup {NoAttrs},
                     rules : Seq(StateRule)]
          /\ want' \in Wants /\ made' \in Seq(StateRule)
      BY <3>2 DEF TypeOK
    <3> QED BY <3>1, <3>2, <3>3, <3>4, <3>5, <3>7 DEF TypeOK
  <2>19. CASE Edit
    <3>1. want' \in Wants /\ want'.rules \in Seq(ConfigRule)
      BY <2>19 DEF Edit, Wants
    <3>2. at' = at /\ pc' = pc
      BY <2>19 DEF Edit, locals
    <3>3. at = 1
      BY <2>19 DEF Edit, TypeOK
    <3>4. at' \in 1 .. PlanLen' + 1
      BY <3>1, <3>2, <3>3 DEF PlanLen
    <3> QED BY <2>19, <3>1, <3>4 DEF Edit, controller, locals, TypeOK
  <2>21. CASE ReadMisled
    <3>1. faults' \in 0 .. MaxFaults /\ abandoned' \subseteq GroupIds
      BY <2>21, <2>f DEF ReadMisled, TypeOK
    <3>2. /\ pc' = "idle" /\ cur' = NoId /\ made' = << >> /\ doomed' = {} /\ at' = 1
          /\ result' = "read" /\ PlanLen' = PlanLen
      BY <2>21 DEF ReadMisled, Return, PlanLen
    <3> QED BY <2>21, <2>0, <2>d, <2>i, <3>1, <3>2 DEF ReadMisled, TypeOK
  <2>20. CASE UNCHANGED vars
    BY <2>20 DEF vars, controller, locals, TypeOK, PlanLen
  <2> QED
    BY <2>1, <2>2, <2>3, <2>4, <2>5, <2>6, <2>7, <2>8, <2>9, <2>10, <2>11, <2>12,
       <2>13, <2>14, <2>15, <2>16, <2>17, <2>18, <2>19, <2>20, <2>21
       DEF Next, CreateNext, UpdateNext
<1> QED BY <1>1, <1>2, PTL DEF Spec

-----------------------------------------------------------------------------
(* One group at a time.  IDs are handed out in order.                      *)
Numbered ==
    /\ groups \cup abandoned \subseteq 1 .. nextGroup - 1
    /\ tf.id < nextGroup /\ cur < nextGroup

(* The numbers, and which group is followed at which point.                *)
LEMMA Numbers ==
    ASSUME TypeOK
    PROVE  /\ nextGroup \in Nat \ {0} /\ tf.id \in Nat /\ cur \in Nat
           /\ NoId \notin GroupIds /\ groups \subseteq GroupIds
           /\ pc = "adding" => cur # NoId /\ Followed = cur
           /\ pc # "adding" => cur = NoId /\ Followed = tf.id
<1>1. nextGroup \in 1 .. MaxGroupId + 1 /\ tf.id \in GroupIds \cup {NoId}
  BY DEF TypeOK
<1>2. groups \subseteq GroupIds /\ cur \in IF pc = "adding" THEN GroupIds ELSE {NoId}
  BY DEF TypeOK
<1> QED BY <1>1, <1>2, SGAssumption DEF GroupIds, Followed

(* A new group has an ID that no other has or had.                         *)
LEMMA PostGroupNumber ==
    ASSUME TypeOK, Numbered, PostGroup
    PROVE  /\ nextGroup \in GroupIds \ (groups \cup abandoned)
           /\ groups' = groups \cup {nextGroup} /\ nextGroup' = nextGroup + 1
<1>1. nextGroup \in Nat \ {0} /\ nextGroup <= MaxGroupId
  BY Numbers DEF PostGroup
<1>2. nextGroup \in GroupIds /\ nextGroup \notin 1 .. nextGroup - 1
  BY <1>1, SGAssumption DEF GroupIds
<1> QED BY <1>2 DEF Numbered, PostGroup

LEMMA NumberedStep ==
    ASSUME TypeOK, Numbered, [Next]_vars
    PROVE  Numbered'
<1>t. /\ TypeOK /\ Numbered /\ nextGroup \in Nat \ {0} /\ tf.id \in Nat /\ cur \in Nat
      /\ pc # "adding" => cur = NoId
      /\ pc = "adding" => cur # NoId
  BY Numbers
<1>a. \A g \in groups \cup abandoned : g \in 1 .. nextGroup - 1
  BY DEF Numbered
(* Steps that make no group. *)
<1>s. ASSUME nextGroup' = nextGroup, groups' \subseteq groups,
             abandoned' \subseteq abandoned \cup ({tf.id, cur} \ {NoId}),
             tf'.id \in {NoId, tf.id, cur}, cur' \in {NoId, cur}
      PROVE  Numbered'
  <2>1. tf'.id < nextGroup' /\ cur' < nextGroup'
    BY <1>s, <1>t DEF Numbered
  <2>2. \A g \in {tf.id, cur} \ {NoId} : g \in 1 .. nextGroup - 1
    BY <1>t DEF Numbered
  <2>3. \A g \in groups' \cup abandoned' : g \in 1 .. nextGroup' - 1
    BY <1>a, <1>s, <2>2
  <2> QED BY <2>1, <2>3 DEF Numbered
(* Steps that make one. *)
<1>m. ASSUME PostGroup, abandoned' \subseteq abandoned \cup {nextGroup}, tf' = tf,
             cur' \in {NoId, nextGroup}
      PROVE  Numbered'
  <2>1. nextGroup' = nextGroup + 1 /\ groups' = groups \cup {nextGroup}
    BY <1>m, <1>t, PostGroupNumber
  <2>2. /\ \A g \in 1 .. nextGroup - 1 : g \in 1 .. nextGroup' - 1
        /\ nextGroup \in 1 .. nextGroup' - 1
    BY <1>t, <2>1
  <2>3. tf'.id < nextGroup' /\ cur' < nextGroup'
    BY <1>m, <1>t, <2>1 DEF Numbered
  <2>4. \A g \in groups' \cup abandoned' : g \in 1 .. nextGroup' - 1
    BY <1>a, <1>m, <2>1, <2>2
  <2> QED BY <2>3, <2>4 DEF Numbered
<1>1. CASE CreateGroup
  BY <1>1, <1>m DEF CreateGroup
<1>2. CASE CreateGroupFails
  BY <1>2, <1>m, <1>s DEF CreateGroupFails, Fail, Return
<1>3. CASE CreateRule \/ CreateRuleFails \/ CreateReturns
  BY <1>3, <1>s, <1>t DEF CreateRule, CreateRuleFails, CreateReturns, Fail, Return, controller
<1>4. CASE Read
  <2>1. tf'.id \in {NoId, tf.id}
    BY <1>4 DEF Read, SaveListing, NoState
  <2> QED BY <1>4, <1>s, <2>1 DEF Read, controller, locals
<1>5. CASE ReadFails \/ UpdateGet \/ UpdateGetFails
  BY <1>5, <1>s DEF ReadFails, UpdateGet, UpdateGetFails, Fail, Return, controller
<1>6. CASE ReadMisled
  BY <1>6, <1>s DEF ReadMisled, Return, NoState
<1>7. CASE UpdateReread
  <2>1. tf'.id = tf.id
    BY <1>7 DEF UpdateReread, SaveListing
  <2> QED BY <1>7, <1>s, <2>1 DEF UpdateReread, Return, controller
<1>8. CASE \/ UpdateRemove \/ UpdateRemoveFails \/ UpdateApply \/ UpdateApplyFails
           \/ UpdateRereadFails
  BY <1>8, <1>s DEF UpdateRemove, UpdateRemoveFails, UpdateApply, UpdateApplyFails,
     UpdateRereadFails, Fail, Return, controller
<1>9. CASE Delete \/ DeleteFails
  BY <1>9, <1>s DEF Delete, DeleteFails, DeleteGroup, Fail, Return, NoState
<1>10. CASE Foreign \/ Edit \/ UNCHANGED vars
  <2>1. UNCHANGED <<nextGroup, tf, cur, abandoned>> /\ groups' \subseteq groups
    BY <1>10 DEF Foreign, Edit, vars, controller, locals
  <2> QED BY <1>s, <2>1
<1> QED
  BY <1>1, <1>2, <1>3, <1>4, <1>5, <1>6, <1>7, <1>8, <1>9, <1>10 DEF Next, CreateNext, UpdateNext

LEMMA AlwaysNumbered == Spec => []Numbered
<1>1. Init => Numbered
  BY DEF Init, Numbered, NoState
<1>2. TypeOK /\ Numbered /\ [Next]_vars => Numbered'
  BY NumberedStep
<1> QED BY <1>1, <1>2, TypeCorrect, PTL DEF Spec

(* A step that changes neither the groups nor which one is followed.       *)
LEMMA Stutter ==
    ASSUME groups' = groups, tf'.id = tf.id, Followed' = Followed, abandoned' = abandoned
    PROVE  [Object!Next]_Object!vars
BY DEF Object!vars

(* Every step is one of ManagedObject, or leaves its variables alone.      *)
LEMMA ObjectStep ==
    ASSUME TypeOK, Numbered, pc # "adding" \/ tf.id = NoId, [Next]_vars
    PROVE  [Object!Next]_Object!vars
<1>t. /\ TypeOK /\ Numbered /\ NoId \notin GroupIds /\ groups \subseteq GroupIds
      /\ NoState.id = NoId
      /\ pc = "adding" => cur # NoId /\ Followed = cur /\ tf.id = NoId
      /\ pc # "adding" => Followed = tf.id
      /\ pc' = "adding" => Followed' = cur'
      /\ pc' # "adding" => Followed' = tf'.id
  BY Numbers DEF NoState, Followed
<1>1. CASE CreateGroup
  <2>1. PostGroup /\ Followed = NoId /\ Followed' = nextGroup /\ tf'.id = NoId
        /\ abandoned' = abandoned
    BY <1>1, <1>t DEF CreateGroup
  <2>2. Object!Make
    BY <1>t, <2>1, PostGroupNumber DEF Object!Make
  <2> QED BY <2>2 DEF Object!Next
<1>2. CASE CreateGroupFails
  <2>1. Followed = NoId /\ tf' = tf /\ Followed' = Followed /\ Object!Failure
    BY <1>2, <1>t DEF CreateGroupFails, Fail, Return, Fault, TypeOK, Object!Failure
  <2>2. CASE UNCHANGED <<groups, nextGroup, abandoned>>
    BY <2>1, <2>2, Stutter
  <2>3. CASE PostGroup /\ abandoned' = abandoned \cup {nextGroup}
    <3>1. Object!MakeLost
      BY <1>t, <2>1, <2>3, PostGroupNumber DEF Object!MakeLost
    <3> QED BY <3>1 DEF Object!Next
  <2> QED BY <1>2, <2>2, <2>3 DEF CreateGroupFails
<1>3. CASE CreateRule
  BY <1>3, <1>t, Stutter DEF CreateRule
<1>4. CASE CreateRuleFails
  <2>1. /\ Followed = cur /\ cur # NoId /\ tf.id = NoId /\ tf' = tf /\ Followed' = NoId
        /\ groups' = groups /\ abandoned' = abandoned \cup {cur}
        /\ cur \in groups => Object!Failure
    BY <1>4, <1>t DEF CreateRuleFails, Fail, Return, Fault, TypeOK, Object!Failure
  <2>2. Object!Abandon
    BY <2>1 DEF Object!Abandon
  <2> QED BY <2>2 DEF Object!Next
<1>5. CASE CreateReturns
  <2>1. /\ Followed = cur /\ cur # NoId /\ tf'.id = cur /\ Followed' = cur
        /\ UNCHANGED <<groups, abandoned>>
    BY <1>5, <1>t DEF CreateReturns, Return, controller
  <2>2. Object!Save
    BY <2>1 DEF Object!Save
  <2> QED BY <2>2 DEF Object!Next
<1>6. CASE Read
  <2>1. UNCHANGED <<groups, abandoned, pc>> /\ pc = "idle" /\ tf.id # NoId
    BY <1>6 DEF Read, controller, locals
  <2>2. CASE tf.id \in groups
    BY <1>6, <1>t, <2>1, <2>2, Stutter DEF Read, SaveListing
  <2>3. CASE tf.id \notin groups
    <3>1. Object!Forget
      BY <1>6, <1>t, <2>1, <2>3 DEF Read, Object!Forget
    <3> QED BY <3>1 DEF Object!Next
  <2> QED BY <2>2, <2>3
<1>7. CASE ReadMisled
  <2>1. /\ Followed = tf.id /\ tf.id # NoId /\ tf'.id = NoId /\ Followed' = NoId
        /\ groups' = groups /\ abandoned' = abandoned \cup {tf.id} /\ Object!Failure
    BY <1>7, <1>t DEF ReadMisled, Return, Fault, TypeOK, Object!Failure
  <2>2. Object!Forget
    BY <2>1 DEF Object!Forget
  <2> QED BY <2>2 DEF Object!Next
<1>8. CASE ReadFails \/ UpdateGet \/ UpdateGetFails
  BY <1>8, <1>t, Stutter DEF ReadFails, UpdateGet, UpdateGetFails, Fail, Return, controller
<1>9. CASE \/ UpdateRemove \/ UpdateRemoveFails \/ UpdateApply \/ UpdateApplyFails
           \/ UpdateReread \/ UpdateRereadFails
  <2>1. UNCHANGED <<groups, abandoned>> /\ pc = "reconciling" /\ pc' \in {"idle", pc}
    BY <1>9 DEF UpdateRemove, UpdateRemoveFails, UpdateApply, UpdateApplyFails, UpdateReread,
       UpdateRereadFails, Fail, Return, controller
  <2>2. tf'.id = tf.id
    BY <1>9 DEF UpdateRemove, UpdateRemoveFails, UpdateApply, UpdateApplyFails, UpdateReread,
       UpdateRereadFails, Fail, SaveListing
  <2> QED BY <1>t, <2>1, <2>2, Stutter
<1>10. CASE Delete \/ DeleteFails
  <2>1. /\ tf.id # NoId /\ pc = "idle" /\ pc' = "idle" /\ abandoned' = abandoned
        /\ tf' \in {tf, NoState}
    BY <1>10 DEF Delete, DeleteFails, Fail, Return
  <2>2. CASE tf.id \in groups /\ groups' = groups \ {tf.id}
    <3>1. Object!Remove
      BY <1>t, <2>1, <2>2 DEF Object!Remove
    <3> QED BY <3>1 DEF Object!Next
  <2>3. CASE tf.id \notin groups /\ groups' = groups \ {tf.id}
    <3>1. groups' = groups
      BY <2>3
    <3>2. CASE tf' = NoState
      <4>1. Object!Forget
        BY <1>t, <2>1, <2>3, <3>1, <3>2 DEF Object!Forget
      <4> QED BY <4>1 DEF Object!Next
    <3>3. CASE tf' = tf
      BY <1>t, <2>1, <3>1, <3>3, Stutter
    <3> QED BY <2>1, <3>2, <3>3
  <2>4. CASE groups' = groups /\ DeleteFails
    <3>1. CASE IsNotFound(tf.id)
      <4>1. Object!Forget
        BY <1>t, <2>1, <2>4, <3>1
        DEF DeleteFails, IsNotFound, Fault, TypeOK, Object!Failure, Object!Forget
      <4> QED BY <4>1 DEF Object!Next
    <3>2. CASE ~IsNotFound(tf.id)
      BY <1>t, <2>1, <2>4, <3>2, Stutter DEF DeleteFails, Fail
    <3> QED BY <3>1, <3>2
  <2> QED BY <1>10, <2>2, <2>3, <2>4 DEF Delete, DeleteFails, DeleteGroup
<1>11. CASE Foreign
  <2>1. UNCHANGED <<tf, locals, abandoned>> /\ Followed \in groups
    BY <1>11 DEF Foreign
  <2>2. Followed' = Followed
    BY <1>t, <2>1 DEF locals
  <2>3. CASE groups' = groups
    BY <2>1, <2>2, <2>3, Stutter
  <2>4. CASE groups' = groups \ {Followed}
    <3>1. Object!Vanish
      BY <2>1, <2>2, <2>4 DEF Object!Vanish
    <3> QED BY <3>1 DEF Object!Next
  <2> QED BY <1>11, <2>3, <2>4 DEF Foreign
<1>12. CASE Edit \/ UNCHANGED vars
  <2>1. UNCHANGED <<groups, tf, pc, cur, abandoned>>
    BY <1>12 DEF Edit, vars, controller, locals
  <2> QED BY <1>t, <2>1, Stutter
<1> QED
  BY <1>1, <1>2, <1>3, <1>4, <1>5, <1>6, <1>7, <1>8, <1>9, <1>10, <1>11, <1>12
  DEF Next, CreateNext, UpdateNext

(* While Create adds the rules, nothing is saved.                          *)
LEMMA CreatingUnsaved == Spec => [](pc # "adding" \/ tf.id = NoId)
<1>1. Init => pc # "adding" \/ tf.id = NoId
  BY DEF Init
<1>2. TypeOK /\ (pc # "adding" \/ tf.id = NoId) /\ [Next]_vars => (pc # "adding" \/ tf.id = NoId)'
  <2> SUFFICES ASSUME pc # "adding" \/ tf.id = NoId, [Next]_vars, pc' = "adding"
               PROVE  tf'.id = NoId
    OBVIOUS
  <2>1. CASE CreateGroup \/ CreateRule
    BY <2>1 DEF CreateGroup, CreateRule
  <2>2. CASE Foreign \/ Edit \/ UNCHANGED vars
    BY <2>2 DEF Foreign, Edit, vars, locals
  <2>3. CASE \/ CreateGroupFails \/ CreateRuleFails \/ CreateReturns \/ ReadFails \/ ReadMisled
             \/ UpdateGet \/ UpdateGetFails \/ Delete \/ DeleteFails
    BY <2>3 DEF CreateGroupFails, CreateRuleFails, CreateReturns, ReadFails, ReadMisled,
       UpdateGet, UpdateGetFails, Delete, DeleteFails, Fail, Return
  <2>4. CASE \/ Read \/ UpdateRemove \/ UpdateRemoveFails \/ UpdateApply \/ UpdateApplyFails
             \/ UpdateReread \/ UpdateRereadFails
    BY <2>4 DEF Read, UpdateRemove, UpdateRemoveFails, UpdateApply, UpdateApplyFails,
       UpdateReread, UpdateRereadFails, Fail, Return, locals
  <2> QED BY <2>1, <2>2, <2>3, <2>4 DEF Next, CreateNext, UpdateNext
<1> QED BY <1>1, <1>2, TypeCorrect, PTL DEF Spec

(* A security group resource makes, follows and deletes one group at a     *)
(* time, and loses one only where an error explains it, whatever rules it  *)
(* has to send and wherever they end.                                      *)
THEOREM Implements == Spec => ImplementsManagedObject
<1>1. Init => Object!Init
  BY DEF Init, Object!Init, Followed, NoState
<1>2. TypeOK /\ Numbered /\ (pc # "adding" \/ tf.id = NoId) /\ [Next]_vars
        => [Object!Next]_Object!vars
  BY ObjectStep
<1> QED BY <1>1, <1>2, TypeCorrect, AlwaysNumbered, CreatingUnsaved, PTL
        DEF Spec, ImplementsManagedObject, Object!Spec

(* A lost object is never followed again, and one that exists without      *)
(* being followed is one that an error explains: ManagedObject says so of  *)
(* whatever implements it, and this is the instance for a security group.  *)
LEMMA ManagedIsAccounted == Object!Spec => []Object!Accounted
<1>1. Object!Init => Object!TypeOK /\ Object!Accounted
  BY DEF Object!Init, Object!TypeOK, Object!Accounted
<1>2. Object!TypeOK /\ Object!Accounted /\ [Object!Next]_Object!vars
        => Object!TypeOK' /\ Object!Accounted'
  <2> SUFFICES ASSUME Object!TypeOK, Object!Accounted, [Object!Next]_Object!vars
               PROVE  Object!TypeOK' /\ Object!Accounted'
    OBVIOUS
  <2> USE DEF Object!TypeOK, Object!Accounted
  <2>d. NoId \notin GroupIds
    BY SGAssumption DEF GroupIds
  <2> HIDE DEF NoId
  <2>1. CASE Object!Make
    <3>1. PICK i \in GroupIds \ (groups \cup abandoned) :
             groups' = groups \cup {i} /\ Followed' = i /\ tf'.id \in {NoId, i}
      BY <2>1 DEF Object!Make
    <3>2. Followed = NoId /\ abandoned' = abandoned
      BY <2>1 DEF Object!Make
    <3>3. i \in GroupIds /\ i \notin groups /\ i \notin abandoned
      BY <3>1
    <3>4. groups \subseteq abandoned \cup IdsWith404
      BY <3>2, <2>d
    <3>5. groups' \ {i} \subseteq abandoned \cup IdsWith404
      BY <3>1, <3>4
    <3> QED BY <3>1, <3>2, <3>3, <3>5
  <2>2. CASE Object!MakeLost
    BY <2>2 DEF Object!MakeLost
  <2>3. CASE Object!Save \/ Object!Abandon
    BY <2>3 DEF Object!Save, Object!Abandon
  <2>4. CASE Object!Remove
    <3>1. tf.id \in GroupIds /\ Followed = tf.id
      BY <2>4, <2>d DEF Object!Remove
    <3> QED BY <2>4, <3>1 DEF Object!Remove
  <2>5. CASE Object!Forget
    <3>1. Followed = tf.id
      BY <2>5 DEF Object!Forget
    <3> QED BY <2>5, <3>1 DEF Object!Forget
  <2>6. CASE Object!Vanish \/ UNCHANGED Object!vars
    BY <2>6 DEF Object!Vanish, Object!vars
  <2> QED BY <2>1, <2>2, <2>3, <2>4, <2>5, <2>6 DEF Object!Next
<1> QED BY <1>1, <1>2, PTL DEF Object!Spec

(* A group that was lost is not taken up again, and every group that       *)
(* exists and is not followed was left by a Create that reported an error, *)
(* or dropped on an error that was taken for "not found", or has an ID     *)
(* whose errors all are.                                                   *)
THEOREM LostIsAccounted == Spec => []Object!Accounted
BY Implements, ManagedIsAccounted, PTL DEF ImplementsManagedObject

-----------------------------------------------------------------------------
(* Update removes only rules that the plan does not keep: the set it works *)
(* through has no planned ID in it.                                        *)
DoomedUnplanned == pc = "reconciling" => doomed \cap DesiredIds = {}

LEMMA DoomedInvariant == Spec => []DoomedUnplanned
<1>1. Init => DoomedUnplanned
  BY DEF Init, DoomedUnplanned
<1>2. DoomedUnplanned /\ [Next]_vars => DoomedUnplanned'
  <2> SUFFICES ASSUME DoomedUnplanned, [Next]_vars PROVE DoomedUnplanned'
    OBVIOUS
  <2> USE DEF DoomedUnplanned
  <2>0. tf' = tf /\ want' = want => DesiredIds' = DesiredIds
    BY DEF DesiredIds, PlanId, Known, PlanLen
  <2>1. CASE UpdateGet
    BY <2>0, <2>1 DEF UpdateGet
  <2>2. CASE UpdateRemove
    BY <2>0, <2>2 DEF UpdateRemove
  <2>3. CASE UpdateApply
    BY <2>0, <2>3 DEF UpdateApply
  <2>4. CASE CreateGroup \/ CreateRule \/ CreateReturns
    BY <2>4 DEF CreateGroup, CreateRule, CreateReturns, Return
  <2>5. CASE \/ CreateGroupFails \/ CreateRuleFails \/ ReadFails \/ ReadMisled \/ UpdateGetFails
             \/ UpdateRemoveFails \/ UpdateApplyFails \/ UpdateReread \/ UpdateRereadFails
             \/ Delete \/ DeleteFails
    BY <2>5 DEF CreateGroupFails, CreateRuleFails, ReadFails, ReadMisled, UpdateGetFails, UpdateReread,
                UpdateRemoveFails, UpdateApplyFails, UpdateRereadFails, Delete, DeleteFails,
                Fail, Return
  <2>6. CASE Read \/ Edit
    BY <2>6 DEF Read, Edit, Idle, locals
  <2>7. CASE Foreign \/ UNCHANGED vars
    BY <2>0, <2>7 DEF Foreign, locals, vars
  <2> QED
    BY <2>1, <2>2, <2>3, <2>4, <2>5, <2>6, <2>7 DEF Next, CreateNext, UpdateNext
<1> QED BY <1>1, <1>2, PTL DEF Spec

-----------------------------------------------------------------------------
(* Success means the configured rules.  What makes it inductive: rule IDs  *)
(* are fresh and are saved in ascending order; no rules are followed       *)
(* without a group; and while a handler runs undisturbed, the planned      *)
(* rules before index at are matched in order, the saved ones by their own *)
(* ID, and nothing else is there but what Update will remove or rewrite.   *)
Distinct(s) == \A j, k \in 1 .. Len(s) : s[j].id = s[k].id => j = k

Ordered(s) == \A j, k \in 1 .. Len(s) : j < k => s[j].id < s[k].id

IdsFresh ==
    /\ \A i \in DOMAIN rules : i < nextRule
    /\ \A k \in 1 .. Len(made) : made[k].id < nextRule
    /\ \A k \in 1 .. Len(tf.rules) : tf.rules[k].id < nextRule
    /\ Ordered(tf.rules) /\ Ordered(made)

NoGroupNoRules == Followed \notin groups => DOMAIN rules = {}

IdleMade == pc = "idle" => made = << >>

CreateProgress ==
    /\ Len(made) = at - 1
    /\ DOMAIN rules = {made[k].id : k \in 1 .. at - 1}
    /\ \A k \in 1 .. at - 1 : Honours(rules[made[k].id], want.rules[k])

Matched(f, n, server, rest, saved, configured) ==
    /\ f \in [1 .. n -> DOMAIN server]
    /\ \A j, k \in 1 .. n : j < k => f[j] < f[k]
    /\ \A k \in 1 .. n : Honours(server[f[k]], configured[k])
    /\ \A k \in 1 .. n : k <= Len(saved) => f[k] = saved[k].id
    /\ \A i \in DOMAIN server : i \in rest \/ \E k \in 1 .. n : f[k] = i

UpdateProgress ==
    /\ at > 1 => doomed = {}
    /\ \E f : Matched(f, at - 1, rules, doomed \cup DesiredIds, tf.rules, want.rules)

IInv ==
    /\ TypeOK
    /\ IdsFresh
    /\ NoGroupNoRules
    /\ IdleMade
    /\ pc = "adding" /\ quiet => CreateProgress
    /\ pc = "reconciling" /\ quiet => UpdateProgress
    /\ result \in {"created", "updated"} => Idle
    /\ SuccessMeansRealised

(* A saved rule has an ID.                                                 *)
LEMMA SavedIds ==
    ASSUME TypeOK, NEW k \in 1 .. Len(tf.rules)
    PROVE  tf.rules[k].id \in RuleIds /\ tf.rules[k].id # NoId
<1>1. tf.rules[k] \in StateRule
  BY DEF TypeOK
<1> QED BY <1>1 DEF StateRule, RuleIds

(* The loops' index lies within the plan, or just behind it.               *)
LEMMA AtBound ==
    ASSUME TypeOK
    PROVE  /\ PlanLen \in Nat
           /\ Idle => at = 1
           /\ ~Idle => at \in Nat /\ 1 <= at /\ at <= PlanLen + 1
<1>1. PlanLen \in Nat
  BY SGAssumption DEF TypeOK, Wants, PlanLen
<1> QED BY <1>1 DEF TypeOK

(* A planned body honours the configured rule, whatever was saved.         *)
LEMMA PlanHonours ==
    ASSUME TypeOK, NEW k \in 1 .. PlanLen
    PROVE  Honours(PlanBody(k), want.rules[k])
BY DEF Honours, PlanBody

(* A listing names the rules in the order of their IDs.                    *)
LEMMA ListingOrdered ==
    ASSUME DOMAIN rules \subseteq RuleIds, NEW l \in Listings
    PROVE  /\ Ordered(l)
           /\ Len(l) = Cardinality(DOMAIN rules) /\ DOMAIN l = 1 .. Len(l)
           /\ \A k \in 1 .. Len(l) : l[k].id \in DOMAIN rules /\ l[k].body = rules[l[k].id]
           /\ \A i \in DOMAIN rules : \E k \in 1 .. Len(l) : l[k].id = i
<1>1. Cardinality(DOMAIN rules) \in Nat
  BY RuleCount
<1>2. /\ l \in [1 .. Cardinality(DOMAIN rules) ->
                   {[id |-> i, body |-> rules[i]] : i \in DOMAIN rules}]
      /\ {l[k].id : k \in DOMAIN l} = DOMAIN rules
      /\ \A j, k \in DOMAIN l : j < k => l[j].id < l[k].id
  BY DEF Listings
<1>3. Len(l) = Cardinality(DOMAIN rules) /\ DOMAIN l = 1 .. Len(l)
  BY <1>1, <1>2
<1>4. \A k \in 1 .. Len(l) : l[k].id \in DOMAIN rules /\ l[k].body = rules[l[k].id]
  BY <1>2, <1>3
<1>5. \A i \in DOMAIN rules : \E k \in 1 .. Len(l) : l[k].id = i
  BY <1>2, <1>3
<1> QED BY <1>2, <1>3, <1>4, <1>5 DEF Ordered

(* What is ordered has no ID twice.                                        *)
LEMMA OrderedDistinct ==
    ASSUME NEW s \in Seq(StateRule), Ordered(s)
    PROVE  Distinct(s)
<1>1. Len(s) \in Nat /\ \A k \in 1 .. Len(s) : s[k].id \in Int
  <2>1. \A k \in 1 .. Len(s) : s[k] \in StateRule
    OBVIOUS
  <2> QED BY <2>1, SGAssumption DEF StateRule, RuleIds
<1> SUFFICES ASSUME NEW j \in 1 .. Len(s), NEW k \in 1 .. Len(s), s[j].id = s[k].id, j # k
             PROVE  FALSE
  BY DEF Distinct
<1>2. CASE j < k
  BY <1>1, <1>2 DEF Ordered
<1>3. CASE k < j
  BY <1>1, <1>3 DEF Ordered
<1> QED BY <1>1, <1>2, <1>3

(* A new rule has an ID that no other rule has.                            *)
LEMMA PostRuleFresh ==
    ASSUME TypeOK, IdsFresh, NEW b, PostRule(b)
    PROVE  /\ nextRule \notin DOMAIN rules
           /\ DOMAIN rules' = DOMAIN rules \cup {nextRule}
           /\ rules'[nextRule] = b
           /\ \A i \in DOMAIN rules : rules'[i] = rules[i]
           /\ nextRule' = nextRule + 1
           /\ \A i \in DOMAIN rules' : i < nextRule'
<1>1. nextRule \in Nat /\ \A i \in DOMAIN rules : i \in Nat /\ i < nextRule
  BY SGAssumption DEF TypeOK, IdsFresh, RuleIds
<1> QED BY <1>1 DEF PostRule

(* Distinctness and freshness of IDs, through every step.                  *)
LEMMA IdsStep == TypeOK /\ IdsFresh /\ [Next]_vars => IdsFresh'
<1> SUFFICES ASSUME TypeOK, IdsFresh, [Next]_vars PROVE IdsFresh'
  OBVIOUS
<1> USE DEF IdsFresh
<1>0. /\ nextRule \in Nat
      /\ \A l \in Listings : Ordered(l) /\ \A k \in 1 .. Len(l) : l[k].id < nextRule
  BY ListingOrdered, SGAssumption DEF TypeOK
<1>g. /\ \A k \in 1 .. Len(made) : made[k].id \in Nat
      /\ \A k \in 1 .. Len(tf.rules) : tf.rules[k].id \in Nat
  <2>1. /\ \A k \in 1 .. Len(made) : made[k] \in StateRule
        /\ \A k \in 1 .. Len(tf.rules) : tf.rules[k] \in StateRule
    BY DEF TypeOK
  <2> QED BY <2>1, SGAssumption DEF StateRule, RuleIds
<1>a. Ordered(<< >>) /\ \A k \in 1 .. Len(<< >>) : FALSE
  BY DEF Ordered
<1>b. ASSUME Fail PROVE tf' = tf /\ made' = << >>
  BY <1>b DEF Fail, Return
<1>c. ASSUME Forget PROVE \A i \in DOMAIN rules' : i < nextRule'
  BY <1>c DEF Forget, NoRules
<1>d. ASSUME NEW i, DeleteRule(i), UNCHANGED nextRule
      PROVE  \A j \in DOMAIN rules' : j < nextRule'
  BY <1>d DEF DeleteRule
<1>e. ASSUME SendRule
      PROVE  (\A i \in DOMAIN rules' : i < nextRule') /\ nextRule <= nextRule' /\ nextRule' \in Nat
  <2>1. CASE PostRule(PlanBody(at))
    BY <1>0, <2>1, PostRuleFresh
  <2>2. CASE PutRule(PlanId(at), PlanBody(at)) /\ UNCHANGED nextRule
    BY <1>0, <2>2 DEF PutRule
  <2> QED BY <1>e, <2>1, <2>2 DEF SendRule
<1>1. CASE CreateGroup
  BY <1>1 DEF CreateGroup
<1>2. CASE CreateGroupFails \/ ReadFails \/ UpdateGetFails \/ UpdateRereadFails
  BY <1>2, <1>a, <1>b DEF CreateGroupFails, ReadFails, UpdateGetFails, UpdateRereadFails,
                          controller
<1>3. CASE CreateRule
  <2>1. PostRule(PlanBody(at)) /\ tf' = tf
        /\ made' = Append(made, [id |-> nextRule, body |-> PlanBody(at)])
    BY <1>3 DEF CreateRule
  <2>2. /\ nextRule' = nextRule + 1
        /\ \A i \in DOMAIN rules' : i < nextRule'
    BY <2>1, PostRuleFresh
  <2>3. /\ Len(made) \in Nat /\ Len(made') = Len(made) + 1
        /\ \A k \in 1 .. Len(made) : made'[k] = made[k]
        /\ made'[Len(made) + 1].id = nextRule
    BY <2>1 DEF TypeOK
  <2>4. \A k \in 1 .. Len(made') : made'[k].id < nextRule'
    BY <1>0, <1>g, <2>2, <2>3
  <2>5. Ordered(made')
    BY <1>0, <1>g, <2>3 DEF Ordered
  <2>6. \A k \in 1 .. Len(tf.rules) : tf.rules[k].id < nextRule'
    BY <1>0, <1>g, <2>2
  <2> QED BY <2>1, <2>2, <2>4, <2>5, <2>6
<1>4. CASE CreateRuleFails
  BY <1>4, <1>a, <1>b, <1>c DEF CreateRuleFails
<1>5. CASE CreateReturns
  BY <1>5, <1>a DEF CreateReturns, Return, controller
<1>6. CASE Read
  BY <1>0, <1>6, <1>a DEF Read, SaveListing, NoState, controller, locals
<1>7. CASE UpdateGet
  BY <1>7 DEF UpdateGet, controller
<1>8. CASE UpdateRemove
  BY <1>8, <1>d DEF UpdateRemove
<1>9. CASE UpdateRemoveFails
  BY <1>9, <1>a, <1>b, <1>d DEF UpdateRemoveFails
<1>10. CASE UpdateApply
  BY <1>0, <1>10, <1>e, <1>g DEF UpdateApply
<1>11. CASE UpdateApplyFails
  <2>1. SendRule \/ UNCHANGED <<rules, nextRule>>
    BY <1>11 DEF UpdateApplyFails
  <2>2. /\ \A i \in DOMAIN rules' : i < nextRule'
        /\ nextRule <= nextRule' /\ nextRule' \in Nat
    BY <1>0, <1>e, <2>1
  <2>3. tf' = tf /\ made' = << >>
    BY <1>11, <1>b DEF UpdateApplyFails
  <2> QED BY <1>0, <1>a, <1>g, <2>2, <2>3
<1>12. CASE UpdateReread
  BY <1>0, <1>12, <1>a DEF UpdateReread, SaveListing, Return, controller
<1>13. CASE Delete
  <2>1. Forget /\ tf' = NoState /\ made' = << >>
    BY <1>13 DEF Delete, DeleteGroup, Return
  <2> QED BY <2>1, <1>a, <1>c DEF NoState
<1>14. CASE DeleteFails
  <2>1. /\ tf' = tf \/ tf' = NoState
        /\ made' = << >> /\ nextRule' = nextRule /\ (Forget \/ UNCHANGED rules)
    BY <1>14 DEF DeleteFails, DeleteGroup, Return, Fail
  <2> QED BY <2>1, <1>a, <1>c DEF NoState
<1>17. CASE ReadMisled
  <2>1. Forget /\ tf' = NoState /\ made' = << >>
    BY <1>17 DEF ReadMisled, Return
  <2> QED BY <2>1, <1>a, <1>c DEF NoState
<1>15. CASE Foreign
  <2>0. made' = made /\ tf' = tf
    BY <1>15 DEF Foreign, locals
  <2>1. (\A i \in DOMAIN rules' : i < nextRule') /\ (nextRule' = nextRule \/ nextRule' = nextRule + 1)
    <3>1. CASE \E b \in Body : PostRule(b)
      BY <3>1, PostRuleFresh
    <3>2. CASE \E i \in DOMAIN rules, b \in Body : PutRule(i, b) /\ UNCHANGED nextRule
      BY <3>2 DEF PutRule
    <3>3. CASE \E i \in DOMAIN rules : DeleteRule(i) /\ UNCHANGED nextRule
      BY <3>3, <1>d
    <3>4. CASE (Forget \/ UNCHANGED rules) /\ UNCHANGED nextRule
      BY <3>4, <1>c DEF Forget, NoRules
    <3> QED BY <1>15, <3>1, <3>2, <3>3, <3>4 DEF Foreign
  <2> QED BY <1>0, <1>g, <2>0, <2>1
<1>16. CASE Edit \/ UNCHANGED vars
  BY <1>16 DEF Edit, controller, locals, vars
<1> QED
  BY <1>1, <1>2, <1>3, <1>4, <1>5, <1>6, <1>7, <1>8, <1>9, <1>10, <1>11, <1>12, <1>13,
     <1>14, <1>15, <1>16, <1>17 DEF Next, CreateNext, UpdateNext

(* Rules need a group, through every step.                                 *)
LEMMA NoGroupStep == TypeOK /\ NoGroupNoRules /\ [Next]_vars => NoGroupNoRules'
<1> SUFFICES ASSUME TypeOK, NoGroupNoRules, [Next]_vars PROVE NoGroupNoRules'
  OBVIOUS
<1> USE DEF NoGroupNoRules, Followed
<1>a. Forget => DOMAIN rules' = {}
  BY DEF Forget, NoRules
<1>b. (\E b : PostRule(b)) => Followed \in groups
  BY DEF PostRule
<1>c. /\ \A i : DeleteRule(i) => DOMAIN rules' \subseteq DOMAIN rules
      /\ \A i, b : PutRule(i, b) => DOMAIN rules' = DOMAIN rules
  BY DEF DeleteRule, PutRule
<1>d. Fail => pc' = "idle" /\ tf' = tf
  BY DEF Fail, Return
<1>e. ASSUME SendRule, pc # "adding", tf' = tf, pc' # "adding", groups' = groups
      PROVE  NoGroupNoRules'
  BY <1>b, <1>c, <1>e DEF SendRule
<1>1. CASE CreateGroup
  BY <1>1 DEF CreateGroup, PostGroup
<1>2. CASE CreateGroupFails
  BY <1>2, <1>d DEF CreateGroupFails, PostGroup
<1>3. CASE CreateRule
  BY <1>3, <1>b DEF CreateRule
<1>4. CASE CreateRuleFails
  BY <1>4, <1>a DEF CreateRuleFails
<1>5. CASE CreateReturns
  BY <1>5 DEF CreateReturns, Return, controller
<1>6. CASE Read
  BY <1>6 DEF Read, SaveListing, controller, locals
<1>7. CASE ReadFails \/ UpdateGetFails \/ UpdateRereadFails
  BY <1>7, <1>d DEF ReadFails, UpdateGetFails, UpdateRereadFails, controller
<1>18. CASE ReadMisled
  BY <1>18, <1>a DEF ReadMisled
<1>8. CASE UpdateGet
  BY <1>8 DEF UpdateGet, controller
<1>9. CASE UpdateRemove
  BY <1>9, <1>c DEF UpdateRemove
<1>10. CASE UpdateRemoveFails
  BY <1>10, <1>c, <1>d DEF UpdateRemoveFails
<1>11. CASE UpdateApply
  BY <1>11, <1>e DEF UpdateApply
<1>12. CASE UpdateApplyFails
  BY <1>12, <1>d, <1>e DEF UpdateApplyFails
<1>13. CASE UpdateReread
  BY <1>13 DEF UpdateReread, SaveListing, Return, controller
<1>14. CASE Delete
  BY <1>14, <1>a DEF Delete, DeleteGroup
<1>15. CASE DeleteFails
  BY <1>15, <1>a, <1>d DEF DeleteFails, DeleteGroup
<1>16. CASE Foreign
  <2>1. UNCHANGED <<tf, pc, cur>> /\ Followed \in groups
    BY <1>16 DEF Foreign, locals
  <2>2. Forget \/ UNCHANGED groups
    BY <1>16 DEF Foreign
  <2> QED BY <2>1, <2>2, <1>a
<1>17. CASE Edit \/ UNCHANGED vars
  BY <1>17 DEF Edit, controller, locals, vars
<1> QED
  BY <1>1, <1>2, <1>3, <1>4, <1>5, <1>6, <1>7, <1>8, <1>9, <1>10, <1>11, <1>12, <1>13,
     <1>14, <1>15, <1>16, <1>17, <1>18 DEF Next, CreateNext, UpdateNext

(* A handler's success is not reported while another one runs.             *)
LEMMA ResultStep ==
    (result \in {"created", "updated"} => Idle) /\ [Next]_vars
        => (result' \in {"created", "updated"} => Idle')
<1> SUFFICES ASSUME result \in {"created", "updated"} => Idle, [Next]_vars,
                    result' \in {"created", "updated"}
             PROVE  Idle'
  OBVIOUS
<1>1. CASE CreateGroup \/ CreateRule \/ UpdateGet \/ UpdateRemove \/ UpdateApply
  BY <1>1 DEF CreateGroup, CreateRule, UpdateGet, UpdateRemove, UpdateApply
<1>2. CASE \/ CreateGroupFails \/ CreateRuleFails \/ CreateReturns \/ ReadFails \/ ReadMisled
           \/ UpdateGetFails \/ UpdateRemoveFails \/ UpdateApplyFails \/ UpdateReread
           \/ UpdateRereadFails \/ Delete \/ DeleteFails
  BY <1>2 DEF CreateGroupFails, CreateRuleFails, CreateReturns, ReadFails, ReadMisled, UpdateGetFails,
              UpdateRemoveFails, UpdateApplyFails, UpdateReread, UpdateRereadFails,
              Delete, DeleteFails, Fail, Return
<1>3. CASE Read \/ Foreign \/ Edit \/ UNCHANGED vars
  BY <1>3 DEF Read, Foreign, Edit, locals, vars
<1> QED BY <1>1, <1>2, <1>3 DEF Next, CreateNext, UpdateNext

(* While Create runs undisturbed, what it made is what is there.           *)
LEMMA CreateStep ==
    IInv /\ [Next]_vars => (pc' = "adding" /\ quiet' => CreateProgress')
<1> SUFFICES ASSUME IInv, [Next]_vars, pc' = "adding", quiet'
             PROVE  CreateProgress'
  OBVIOUS
<1> USE DEF CreateProgress
<1>1. CASE CreateGroup
  <2>1. at' = 1 /\ made' = << >>
    BY <1>1 DEF CreateGroup, IInv, TypeOK, IdleMade
  <2>2. DOMAIN rules' = {}
    BY <1>1 DEF CreateGroup, IInv, TypeOK, GroupIds, NoGroupNoRules, Followed
  <2> QED BY <2>1, <2>2
<1>2. CASE CreateRule
  <2> DEFINE b == PlanBody(at)
  <2>1. /\ pc = "adding" /\ quiet /\ at <= PlanLen /\ PostRule(b) /\ at' = at + 1
        /\ made' = Append(made, [id |-> nextRule, body |-> b]) /\ want' = want
    BY <1>2 DEF CreateRule
  <2>a. PlanLen \in Nat
    BY SGAssumption DEF IInv, TypeOK, Wants, PlanLen
  <2>b. at \in 1 .. PlanLen
    BY <2>1, <2>a DEF IInv, TypeOK
  <2>2. CreateProgress /\ at \in 1 .. PlanLen /\ at \in Nat /\ at' - 1 = at
    BY <2>1, <2>a, <2>b DEF IInv
  <2>3. Honours(b, want.rules[at])
    BY <2>2, PlanHonours DEF IInv
  <2>4. /\ nextRule \notin DOMAIN rules
        /\ DOMAIN rules' = DOMAIN rules \cup {nextRule}
        /\ rules'[nextRule] = b
        /\ \A i \in DOMAIN rules : rules'[i] = rules[i]
    BY <2>1, PostRuleFresh DEF IInv
  <2>5. /\ Len(made') = at' - 1
        /\ \A k \in 1 .. at - 1 : made'[k] = made[k]
        /\ made'[at].id = nextRule
    BY <2>1, <2>2 DEF IInv, TypeOK
  <2>6. DOMAIN rules' = {made'[k].id : k \in 1 .. at' - 1}
    BY <2>1, <2>2, <2>4, <2>5
  <2>7. \A k \in 1 .. at' - 1 : Honours(rules'[made'[k].id], want'.rules[k])
    BY <2>1, <2>2, <2>3, <2>4, <2>5
  <2> QED BY <2>5, <2>6, <2>7 DEF Honours
<1>3. CASE Foreign
  BY <1>3 DEF Foreign
<1>4. CASE UNCHANGED vars
  BY <1>4 DEF vars, controller, locals, IInv, Honours
<1>5. CASE \/ CreateGroupFails \/ CreateRuleFails \/ CreateReturns \/ ReadFails \/ ReadMisled
           \/ UpdateGet \/ UpdateGetFails \/ UpdateNext \/ Delete \/ DeleteFails
  BY <1>5 DEF CreateGroupFails, CreateRuleFails, CreateReturns, ReadFails, ReadMisled, UpdateGet,
              UpdateGetFails, UpdateNext, UpdateRemove, UpdateRemoveFails, UpdateApply,
              UpdateApplyFails, UpdateReread, UpdateRereadFails, Delete, DeleteFails,
              Fail, Return
<1>6. CASE Read \/ Edit
  BY <1>6 DEF Read, Edit, locals
<1> QED
  BY <1>1, <1>2, <1>3, <1>4, <1>5, <1>6 DEF Next, CreateNext

(* Create's local list is empty between handlers, through every step.      *)
LEMMA IdleMadeStep == IdleMade /\ [Next]_vars => IdleMade'
<1> SUFFICES ASSUME IdleMade, [Next]_vars PROVE IdleMade'
  OBVIOUS
<1> USE DEF IdleMade
<1>1. CASE CreateGroup \/ CreateRule \/ UpdateGet \/ UpdateRemove \/ UpdateApply
  BY <1>1 DEF CreateGroup, CreateRule, UpdateGet, UpdateRemove, UpdateApply
<1>2. CASE \/ CreateGroupFails \/ CreateRuleFails \/ CreateReturns \/ ReadFails \/ ReadMisled
           \/ UpdateGetFails \/ UpdateRemoveFails \/ UpdateApplyFails \/ UpdateReread
           \/ UpdateRereadFails \/ Delete \/ DeleteFails
  BY <1>2 DEF CreateGroupFails, CreateRuleFails, CreateReturns, ReadFails, ReadMisled, UpdateGetFails,
              UpdateRemoveFails, UpdateApplyFails, UpdateReread, UpdateRereadFails,
              Delete, DeleteFails, Fail, Return
<1>3. CASE Read \/ Foreign \/ Edit \/ UNCHANGED vars
  BY <1>3 DEF Read, Foreign, Edit, locals, vars
<1> QED BY <1>1, <1>2, <1>3 DEF Next, CreateNext, UpdateNext

(* While Update runs undisturbed, the planned rules before index at are    *)
(* matched one to one with rules on the controller.                        *)
LEMMA UpdateStep ==
    IInv /\ [Next]_vars => (pc' = "reconciling" /\ quiet' => UpdateProgress')
<1> SUFFICES ASSUME IInv, [Next]_vars, pc' = "reconciling", quiet'
             PROVE  UpdateProgress'
  OBVIOUS
<1>0. tf' = tf /\ want' = want => DesiredIds' = DesiredIds
  BY DEF DesiredIds, PlanId, Known, PlanLen
<1>1. CASE UpdateGet
  <2>1. /\ at = 1 /\ at' = 1 /\ UNCHANGED <<rules, tf, want>>
        /\ doomed' = DOMAIN rules \ DesiredIds /\ DesiredIds' = DesiredIds
    BY <1>0, <1>1 DEF UpdateGet, controller, IInv, TypeOK
  <2> DEFINE f == [k \in 1 .. 0 |-> 0]
  <2>2. Matched(f, 0, rules, doomed' \cup DesiredIds, tf.rules, want.rules)
    BY <2>1 DEF Matched
  <2> HIDE DEF f
  <2> QED BY <2>1, <2>2 DEF UpdateProgress
<1>2. CASE UpdateRemove
  <2>1. PICK i \in doomed : DeleteRule(i) /\ doomed' = doomed \ {i}
    BY <1>2 DEF UpdateRemove
  <2>a. UpdateProgress /\ pc = "reconciling" /\ UNCHANGED <<tf, want, at>>
    BY <1>2 DEF UpdateRemove, IInv
  <2>b. ~(at > 1)
    BY <2>1, <2>a DEF UpdateProgress
  <2>2. UpdateProgress /\ at = 1 /\ at' = 1 /\ UNCHANGED <<tf, want>>
    BY <2>a, <2>b, AtBound DEF IInv
  <2>3. PICK f : Matched(f, 0, rules, doomed \cup DesiredIds, tf.rules, want.rules)
    BY <2>2 DEF UpdateProgress
  <2>4. f \in [1 .. 0 -> DOMAIN rules'] /\ 1 .. 0 = {}
    BY <2>3 DEF Matched
  <2>5. \A j \in DOMAIN rules' : j \in doomed' \cup DesiredIds
    BY <2>1, <2>3, <2>4 DEF Matched, DeleteRule
  <2>6. Matched(f, 0, rules', doomed' \cup DesiredIds, tf.rules, want.rules)
    BY <2>4, <2>5 DEF Matched
  <2> QED BY <1>0, <2>2, <2>6 DEF UpdateProgress
<1>3. CASE Foreign
  BY <1>3 DEF Foreign
<1>4. CASE UNCHANGED vars
  <2>1. UpdateProgress /\ UNCHANGED <<rules, tf, want, doomed, at>>
    BY <1>4 DEF vars, controller, locals, IInv
  <2> QED BY <1>0, <2>1 DEF UpdateProgress
<1>5. CASE \/ CreateNext \/ ReadFails \/ ReadMisled \/ UpdateGetFails \/ UpdateRemoveFails
           \/ UpdateApplyFails \/ UpdateReread \/ UpdateRereadFails \/ Delete \/ DeleteFails
  BY <1>5 DEF CreateNext, CreateGroup, CreateGroupFails, CreateRule, CreateRuleFails,
              CreateReturns, ReadFails, ReadMisled, UpdateGetFails, UpdateRemoveFails,
              UpdateApplyFails, UpdateReread, UpdateRereadFails, Delete, DeleteFails,
              Fail, Return
<1>6. CASE Read \/ Edit
  BY <1>6 DEF Read, Edit, locals
<1>7. CASE UpdateApply
  <2> DEFINE b == PlanBody(at)
  <2>1. /\ at' = at + 1 /\ UNCHANGED <<tf, want, doomed>> /\ doomed = {}
        /\ UpdateProgress /\ at <= PlanLen /\ SendRule
    BY <1>7 DEF UpdateApply, IInv
  <2>2. at \in 1 .. PlanLen /\ at \in Nat /\ at' - 1 = at
    <3>1. PlanLen \in Nat
      BY SGAssumption DEF IInv, TypeOK, Wants, PlanLen
    <3> QED BY <3>1, <2>1 DEF IInv, TypeOK
  <2>3. Honours(b, want.rules[at])
    BY <2>2, PlanHonours DEF IInv
  <2>4. PICK f : Matched(f, at - 1, rules, DesiredIds, tf.rules, want.rules)
    BY <2>1 DEF UpdateProgress
  <2>5. /\ Len(tf.rules) \in Nat /\ Ordered(tf.rules) /\ Distinct(tf.rules)
        /\ nextRule \in Nat /\ \A j \in DOMAIN rules : j \in Nat /\ j < nextRule
    <3>1. tf.rules \in Seq(StateRule) /\ Ordered(tf.rules)
      BY DEF IInv, IdsFresh, TypeOK
    <3>2. nextRule \in Nat /\ \A j \in DOMAIN rules : j \in Nat /\ j < nextRule
      BY SGAssumption DEF IInv, IdsFresh, TypeOK, RuleIds
    <3> QED BY <3>1, <3>2, OrderedDistinct
  <2> SUFFICES \E g : Matched(g, at, rules', DesiredIds, tf.rules, want.rules)
    BY <1>0, <2>1, <2>2 DEF UpdateProgress
  <2>6. ASSUME NEW i, PlanId(at) = NoId, i \notin DOMAIN rules, \A j \in DOMAIN rules : j < i,
               DOMAIN rules' = DOMAIN rules \cup {i}, rules'[i] = b,
               \A j \in DOMAIN rules : rules'[j] = rules[j]
        PROVE  \E g : Matched(g, at, rules', DesiredIds, tf.rules, want.rules)
    <3> DEFINE g == [k \in 1 .. at |-> IF k = at THEN i ELSE f[k]]
    <3> HIDE DEF b
    <3>1. at > Len(tf.rules)
      BY <2>2, <2>5, <2>6, SavedIds DEF PlanId, Known, IInv
    <3>2. \A k \in 1 .. at - 1 : g[k] = f[k] /\ f[k] \in DOMAIN rules /\ f[k] # i
      <4>1. \A k \in 1 .. at - 1 : f[k] \in DOMAIN rules
        BY <2>4 DEF Matched
      <4> QED BY <2>2, <2>6, <4>1
    <3>3. g \in [1 .. at -> DOMAIN rules'] /\ g[at] = i
      <4>1. at \in 1 .. at /\ \A k \in 1 .. at : k = at \/ k \in 1 .. at - 1
        BY <2>2
      <4>2. i \in DOMAIN rules' /\ \A k \in 1 .. at - 1 : g[k] \in DOMAIN rules'
        BY <2>6, <3>2
      <4>3. g[at] = i
        BY <4>1
      <4> QED BY <4>1, <4>2, <4>3
    <3> HIDE DEF g
    <3>4. \A j, k \in 1 .. at : j < k => g[j] < g[k]
      BY <2>2, <2>4, <2>6, <3>2, <3>3 DEF Matched
    <3>5. \A k \in 1 .. at : Honours(rules'[g[k]], want.rules[k])
      BY <2>2, <2>3, <2>4, <2>6, <3>2, <3>3 DEF Matched
    <3>6. \A k \in 1 .. at : k <= Len(tf.rules) => g[k] = tf.rules[k].id
      BY <2>2, <2>4, <2>5, <3>1, <3>2 DEF Matched
    <3>7. \A j \in DOMAIN rules' : j \in DesiredIds \/ \E k \in 1 .. at : g[k] = j
      BY <2>2, <2>4, <2>6, <3>2, <3>3 DEF Matched
    <3> QED BY <3>3, <3>4, <3>5, <3>6, <3>7 DEF Matched
  <2>7. CASE PlanId(at) = NoId /\ PostRule(b)
    BY <2>5, <2>6, <2>7, PostRuleFresh DEF IInv
  <2>8. CASE PlanId(at) # NoId /\ PutRule(PlanId(at), b)
    <3> DEFINE i == PlanId(at)
               g == [k \in 1 .. at |-> IF k = at THEN i ELSE f[k]]
    <3>1. at <= Len(tf.rules) /\ i = tf.rules[at].id
      BY <2>8 DEF PlanId, Known
    <3>2. \A k \in 1 .. at - 1 : g[k] = tf.rules[k].id /\ g[k] = f[k]
                                 /\ f[k] \in DOMAIN rules /\ g[k] # i
      BY <2>2, <2>4, <2>5, <3>1 DEF Matched, Distinct
    <3>3. /\ i \in DOMAIN rules /\ DOMAIN rules' = DOMAIN rules /\ rules'[i] = b
          /\ \A j \in DOMAIN rules : j # i => rules'[j] = rules[j]
      BY <2>8 DEF PutRule
    <3> HIDE DEF b, i
    <3>4. g \in [1 .. at -> DOMAIN rules'] /\ g[at] = i
      <4>1. at \in 1 .. at /\ \A k \in 1 .. at : k = at \/ k \in 1 .. at - 1
        BY <2>2
      <4>2. i \in DOMAIN rules' /\ \A k \in 1 .. at - 1 : g[k] \in DOMAIN rules'
        BY <3>2, <3>3
      <4>3. g[at] = i
        BY <4>1
      <4> QED BY <4>1, <4>2, <4>3
    <3> HIDE DEF g
    <3>5. \A j, k \in 1 .. at : j < k => g[j] < g[k]
      <4>1. \A k \in 1 .. at - 1 : g[k] < g[at]
        BY <2>2, <2>5, <3>1, <3>2, <3>4 DEF Ordered
      <4> QED BY <2>2, <2>4, <3>2, <4>1 DEF Matched
    <3>6. \A k \in 1 .. at : Honours(rules'[g[k]], want.rules[k])
      BY <2>2, <2>3, <2>4, <3>2, <3>3, <3>4 DEF Matched
    <3>7. \A k \in 1 .. at : k <= Len(tf.rules) => g[k] = tf.rules[k].id
      BY <2>2, <3>1, <3>2, <3>4
    <3>8. \A j \in DOMAIN rules' : j \in DesiredIds \/ \E k \in 1 .. at : g[k] = j
      BY <2>2, <2>4, <3>2, <3>3 DEF Matched
    <3> QED BY <3>4, <3>5, <3>6, <3>7, <3>8 DEF Matched
  <2> QED BY <2>1, <2>7, <2>8 DEF SendRule
<1> QED
  BY <1>1, <1>2, <1>3, <1>4, <1>5, <1>6, <1>7 DEF Next, UpdateNext

(* A handler that has just succeeded has realised the configuration, and   *)
(* only a foreign change or a new handler ends that.                       *)
LEMMA SuccessStep == IInv /\ [Next]_vars => SuccessMeansRealised'
<1> SUFFICES ASSUME IInv, [Next]_vars, result' \in {"created", "updated"}, quiet'
             PROVE  Realised'
  BY DEF SuccessMeansRealised
<1>0. PlanLen \in Nat
  BY SGAssumption DEF IInv, TypeOK, Wants, PlanLen
<1>1. CASE CreateReturns
  <2>1. /\ CreateProgress /\ at > PlanLen /\ UNCHANGED <<rules, want>>
    BY <1>1 DEF CreateReturns, controller, IInv
  <2>2. at - 1 = PlanLen
    BY <1>0, <1>1, <2>1, AtBound DEF IInv, CreateReturns
  <2> DEFINE f == [k \in 1 .. PlanLen |-> made[k].id]
  <2>3. f \in [1 .. PlanLen -> DOMAIN rules]
    BY <2>1, <2>2 DEF CreateProgress
  <2>4. \A j, k \in 1 .. PlanLen : f[j] = f[k] => j = k
    <3>1. made \in Seq(StateRule) /\ Ordered(made)
      BY DEF IInv, TypeOK, IdsFresh
    <3> QED BY <2>1, <2>2, <3>1, OrderedDistinct DEF CreateProgress, Distinct
  <2>5. \A i \in DOMAIN rules : \E k \in 1 .. PlanLen : f[k] = i
    BY <2>1, <2>2 DEF CreateProgress
  <2>6. \A k \in 1 .. PlanLen : Honours(rules[f[k]], want.rules[k])
    BY <2>1, <2>2 DEF CreateProgress
  <2> HIDE DEF f
  <2>7. Realised
    BY <2>3, <2>4, <2>5, <2>6 DEF Realised
  <2> QED BY <2>1, <2>7 DEF Realised, Honours, PlanLen
<1>2. CASE UpdateReread
  <2>1. /\ UpdateProgress /\ at > PlanLen /\ doomed = {} /\ UNCHANGED <<rules, want>>
    BY <1>2 DEF UpdateReread, controller, IInv
  <2>2. at - 1 = PlanLen
    BY <1>0, <1>2, <2>1, AtBound DEF IInv, UpdateReread
  <2>3. PICK f : Matched(f, PlanLen, rules, DesiredIds, tf.rules, want.rules)
    BY <2>1, <2>2 DEF UpdateProgress
  <2>4. ASSUME NEW i \in DOMAIN rules PROVE \E k \in 1 .. PlanLen : f[k] = i
    <3>1. CASE i \in DesiredIds
      BY <2>3, <3>1 DEF DesiredIds, PlanId, Known, Matched
    <3> QED BY <2>3, <3>1 DEF Matched
  <2>6. \A j, k \in 1 .. PlanLen : f[j] = f[k] => j = k
    <3>1. \A k \in 1 .. PlanLen : f[k] \in Int
      BY <2>3, SGAssumption DEF Matched, IInv, TypeOK, RuleIds
    <3> QED BY <1>0, <2>3, <3>1 DEF Matched
  <2>5. Realised
    BY <2>3, <2>4, <2>6 DEF Realised, Matched
  <2> QED BY <2>1, <2>5 DEF Realised, Honours, PlanLen
<1>3. CASE Read \/ Edit
  <2>1. result' \notin {"created", "updated"}
    BY <1>3 DEF Read, Edit
  <2> QED BY <2>1
<1>4. CASE \/ CreateGroup \/ CreateGroupFails \/ CreateRuleFails \/ ReadFails \/ ReadMisled \/ UpdateGet
           \/ UpdateGetFails \/ UpdateRemoveFails \/ UpdateApplyFails
           \/ UpdateRereadFails \/ Delete \/ DeleteFails
  BY <1>4 DEF CreateGroup, CreateGroupFails, CreateRuleFails, ReadFails, ReadMisled, UpdateGet,
              UpdateGetFails, UpdateRemoveFails, UpdateApplyFails, UpdateRereadFails,
              Delete, DeleteFails, Fail, Return
<1>5. CASE CreateRule \/ UpdateRemove \/ UpdateApply
  BY <1>5 DEF CreateRule, UpdateRemove, UpdateApply, IInv
<1>6. CASE Foreign
  BY <1>6 DEF Foreign
<1>7. CASE UNCHANGED vars
  <2>1. Realised /\ UNCHANGED <<rules, want>>
    BY <1>7 DEF vars, controller, IInv, SuccessMeansRealised
  <2> QED BY <2>1 DEF Realised, Honours, PlanLen
<1> QED
  BY <1>1, <1>2, <1>3, <1>4, <1>5, <1>6, <1>7 DEF Next, CreateNext, UpdateNext

LEMMA Inductive == Spec => []IInv
<1>1. Init => IInv
  <2> SUFFICES ASSUME Init PROVE IInv
    OBVIOUS
  <2>1. TypeOK
    BY TypeInit
  <2>2. IdsFresh /\ NoGroupNoRules /\ IdleMade /\ SuccessMeansRealised
    BY DEF Init, IdsFresh, Ordered, NoRules, NoState, NoGroupNoRules, IdleMade,
           SuccessMeansRealised
  <2> QED BY <2>1, <2>2 DEF Init, IInv
<1>2. TypeOK' /\ IInv /\ [Next]_vars => IInv'
  <2> SUFFICES ASSUME TypeOK', IInv, [Next]_vars PROVE IInv'
    OBVIOUS
  <2>1. IdsFresh' /\ NoGroupNoRules' /\ IdleMade'
    BY IdsStep, NoGroupStep, IdleMadeStep DEF IInv
  <2>2. (pc' = "adding" /\ quiet' => CreateProgress')
        /\ (pc' = "reconciling" /\ quiet' => UpdateProgress')
    BY CreateStep, UpdateStep
  <2>3. result' \in {"created", "updated"} => Idle'
    BY ResultStep DEF IInv
  <2> QED BY <2>1, <2>2, <2>3, SuccessStep DEF IInv
<1> QED BY <1>1, <1>2, TypeCorrect, PTL DEF Spec

(* A Create or Update that succeeds undisturbed leaves exactly the         *)
(* configured rules on the controller, for every configuration and every   *)
(* set of rules it started from.                                           *)
THEOREM SuccessRealises == Spec => []SuccessMeansRealised
BY Inductive, PTL DEF IInv

-----------------------------------------------------------------------------
(* Two places of the plan that carry an ID carry different ones.           *)
LEMMA PlanIdsDiffer ==
    ASSUME TypeOK, IdsFresh, NEW j \in 1 .. PlanLen, NEW k \in 1 .. PlanLen,
           PlanId(j) = PlanId(k), PlanId(k) # NoId
    PROVE  j = k
<1>1. Distinct(tf.rules)
  BY OrderedDistinct DEF TypeOK, IdsFresh
<1>2. /\ j \in 1 .. Len(tf.rules) /\ k \in 1 .. Len(tf.rules)
      /\ tf.rules[j].id = tf.rules[k].id
  <2>1. Known(j) /\ Known(k)
    BY DEF PlanId
  <2> QED BY <2>1 DEF PlanId, Known, TypeOK
<1> QED BY <1>1, <1>2 DEF Distinct

(* What is right at its place stays up and stays right, while Update       *)
(* removes, rewrites and adds the others: it removes no planned ID, and    *)
(* a PUT gives an ID the body of the one place that carries it.            *)
THEOREM KeptRules == Spec => KeptRulesStayUp
<1>1. TypeOK /\ IdsFresh /\ DoomedUnplanned /\ [Next]_vars =>
        [pc = "reconciling" /\ drifts' = drifts =>
            \A k \in 1 .. PlanLen : UpAt(k) => /\ PlanId(k) \in DOMAIN rules'
                                              /\ Honours(rules'[PlanId(k)], want.rules[k])]_vars
  <2> SUFFICES ASSUME TypeOK, IdsFresh, DoomedUnplanned, [Next]_vars, pc = "reconciling",
                      drifts' = drifts, NEW k \in 1 .. PlanLen, UpAt(k)
               PROVE  /\ PlanId(k) \in DOMAIN rules'
                      /\ Honours(rules'[PlanId(k)], want.rules[k])
    OBVIOUS
  <2>1. /\ PlanId(k) \in DesiredIds /\ PlanId(k) # NoId
        /\ PlanId(k) \in DOMAIN rules /\ Honours(rules[PlanId(k)], want.rules[k])
    BY SGAssumption DEF DesiredIds, TypeOK, RuleIds, UpAt
  <2>a. rules' = rules => /\ PlanId(k) \in DOMAIN rules'
                          /\ Honours(rules'[PlanId(k)], want.rules[k])
    BY <2>1
  <2>b. ASSUME NEW i \in doomed, DeleteRule(i)
        PROVE  /\ PlanId(k) \in DOMAIN rules'
               /\ Honours(rules'[PlanId(k)], want.rules[k])
    <3>1. i # PlanId(k)
      BY <2>1 DEF DoomedUnplanned
    <3> QED BY <2>1, <2>b, <3>1 DEF DeleteRule
  <2>c. ASSUME SendRule, at <= PlanLen
        PROVE  /\ PlanId(k) \in DOMAIN rules'
               /\ Honours(rules'[PlanId(k)], want.rules[k])
    <3>1. CASE PlanId(at) = NoId
      <4>1. PostRule(PlanBody(at))
        BY <2>c, <3>1 DEF SendRule
      <4>2. rules'[PlanId(k)] = rules[PlanId(k)] /\ PlanId(k) \in DOMAIN rules'
        BY <2>1, <4>1, PostRuleFresh
      <4> QED BY <2>1, <4>2
    <3>2. CASE PlanId(at) # NoId
      <4>1. /\ PlanId(at) \in DOMAIN rules
            /\ rules' = [rules EXCEPT ![PlanId(at)] = PlanBody(at)]
        BY <2>c, <3>2 DEF SendRule, PutRule
      <4>2. at \in 1 .. PlanLen
        BY <2>c, AtBound
      <4>3. CASE PlanId(at) = PlanId(k)
        <5>1. at = k
          BY <2>1, <4>2, <4>3, PlanIdsDiffer
        <5>2. rules'[PlanId(k)] = PlanBody(k) /\ PlanId(k) \in DOMAIN rules'
          BY <2>1, <4>1, <5>1
        <5> QED BY <5>2, PlanHonours
      <4>4. CASE PlanId(at) # PlanId(k)
        <5>1. rules'[PlanId(k)] = rules[PlanId(k)] /\ PlanId(k) \in DOMAIN rules'
          BY <2>1, <4>1, <4>4
        <5> QED BY <2>1, <5>1
      <4> QED BY <4>3, <4>4
    <3> QED BY <3>1, <3>2
  <2>2. CASE UpdateRemove
    BY <2>2, <2>b DEF UpdateRemove
  <2>3. CASE UpdateRemoveFails
    BY <2>3, <2>a, <2>b DEF UpdateRemoveFails
  <2>4. CASE UpdateApply \/ UpdateApplyFails
    BY <2>4, <2>a, <2>c DEF UpdateApply, UpdateApplyFails
  <2>5. CASE UpdateReread \/ UpdateRereadFails \/ UNCHANGED vars
    BY <2>5, <2>a DEF UpdateReread, UpdateRereadFails, controller, vars
  <2>6. CASE Foreign
    BY <2>6 DEF Foreign, TypeOK
  <2>7. CASE \/ CreateNext \/ Read \/ ReadFails \/ ReadMisled \/ UpdateGet \/ UpdateGetFails
             \/ Delete \/ DeleteFails \/ Edit
    BY <2>7 DEF CreateNext, CreateGroup, CreateGroupFails, CreateRule, CreateRuleFails,
                CreateReturns, Read, ReadFails, ReadMisled, UpdateGet, UpdateGetFails, Delete,
                DeleteFails, Edit
  <2> QED BY <2>2, <2>3, <2>4, <2>5, <2>6, <2>7 DEF Next, UpdateNext
<1> QED BY <1>1, TypeCorrect, Inductive, DoomedInvariant, PTL DEF Spec, KeptRulesStayUp, IInv

-----------------------------------------------------------------------------
(* After a success the next plan is empty *)

(* f lists the members of S, n of them, in ascending order.                *)
Enumerates(f, n, S) ==
    /\ f \in [1 .. n -> S]
    /\ \A j, k \in 1 .. n : j < k => f[j] < f[k]
    /\ \A x \in S : \E k \in 1 .. n : f[k] = x

Below(S, y) == {x \in S : x < y}

(* Such a list has as many members below its m-th as there are indices     *)
(* below m.                                                                *)
LEMMA RankOf ==
    ASSUME NEW S \in SUBSET Nat, NEW n \in Nat, NEW f, Enumerates(f, n, S), NEW m \in 1 .. n
    PROVE  Cardinality(Below(S, f[m])) = m - 1
<1>0. /\ f \in [1 .. n -> S]
      /\ \A j, k \in 1 .. n : j < k => f[j] < f[k]
      /\ \A x \in S : \E k \in 1 .. n : f[k] = x
  BY DEF Enumerates
<1> DEFINE B == {x \in S : x < f[m]}
           b == [k \in 1 .. m - 1 |-> f[k]]
<1>1. \A k \in 1 .. m - 1 : k \in 1 .. n /\ k < m
  OBVIOUS
<1>2. b \in [1 .. m - 1 -> B]
  BY <1>0, <1>1
<1>3. \A j, k \in 1 .. m - 1 : b[j] = b[k] => j = k
  <2> SUFFICES ASSUME NEW j \in 1 .. m - 1, NEW k \in 1 .. m - 1, f[j] = f[k], j # k
               PROVE  FALSE
    OBVIOUS
  <2>0. j \in 1 .. n /\ k \in 1 .. n
    BY <1>1
  <2>1. /\ j \in 1 .. n /\ k \in 1 .. n /\ j \in Int /\ k \in Int
        /\ f[j] \in Nat /\ f[k] \in Nat
    <3>1. f[j] \in S /\ f[k] \in S
      BY <1>0, <2>0
    <3>2. f[j] \in Nat /\ f[k] \in Nat
      BY <3>1
    <3>3. j \in Int /\ k \in Int
      BY <2>0
    <3> QED BY <2>0, <3>2, <3>3
  <2>2. CASE j < k
    <3>1. f[j] < f[k]
      BY <1>0, <2>1, <2>2
    <3> QED BY <2>1, <3>1
  <2>3. CASE k < j
    <3>1. f[k] < f[j]
      BY <1>0, <2>1, <2>3
    <3> QED BY <2>1, <3>1
  <2> QED BY <2>1, <2>2, <2>3
<1>4. \A x \in B : \E k \in 1 .. m - 1 : b[k] = x
  <2> SUFFICES ASSUME NEW x \in S, x < f[m] PROVE \E k \in 1 .. m - 1 : f[k] = x
    OBVIOUS
  <2>1. PICK k \in 1 .. n : f[k] = x
    BY <1>0
  <2>2. ~(m < k) /\ k # m
    <3>1. f[m] \in Nat /\ f[k] \in Nat
      BY <1>0
    <3> QED BY <1>0, <2>1, <3>1
  <2> QED BY <2>1, <2>2
<1>5. b \in Bijection(1 .. m - 1, B)
  BY <1>2, <1>3, <1>4 DEF Bijection, Injection, Surjection, IsInjective
<1> HIDE DEF b
<1>6. ExistsBijection(1 .. m - 1, B)
  BY <1>5 DEF ExistsBijection
<1> QED BY <1>6, FS_CountingElements DEF Below

(* Hence a set of numbers has one ordered enumeration.                     *)
LEMMA OneEnumeration ==
    ASSUME NEW S \in SUBSET Nat, NEW n \in Nat, NEW f, NEW g,
           Enumerates(f, n, S), Enumerates(g, n, S)
    PROVE  \A k \in 1 .. n : f[k] = g[k]
<1> SUFFICES ASSUME NEW k \in 1 .. n PROVE f[k] = g[k]
  OBVIOUS
<1>1. PICK m \in 1 .. n : g[m] = f[k]
  BY DEF Enumerates
<1>2. Cardinality(Below(S, f[k])) = k - 1
  BY RankOf
<1>3. Cardinality(Below(S, g[m])) = m - 1
  BY RankOf
<1> QED BY <1>1, <1>2, <1>3

(* While Create runs, what it has recorded honours the configuration.      *)
MadeHonours ==
    pc = "adding" =>
        /\ Len(made) = at - 1
        /\ \A k \in 1 .. at - 1 : Honours(made[k].body, want.rules[k])

LEMMA MadeHonoursStep ==
    ASSUME IInv, MadeHonours, [Next]_vars
    PROVE  MadeHonours'
<1> SUFFICES ASSUME pc' = "adding"
             PROVE  /\ Len(made') = at' - 1
                    /\ \A k \in 1 .. at' - 1 : Honours(made'[k].body, want'.rules[k])
  BY DEF MadeHonours, Honours
<1>1. CASE CreateGroup
  <2>1. at' = 1 /\ made' = << >>
    BY <1>1 DEF CreateGroup, IInv, TypeOK, IdleMade
  <2> QED BY <2>1
<1>2. CASE CreateRule
  <2> DEFINE b == PlanBody(at)
  <2>1. /\ pc = "adding" /\ at <= PlanLen /\ at' = at + 1 /\ want' = want
        /\ made' = Append(made, [id |-> nextRule, body |-> b])
    BY <1>2 DEF CreateRule
  <2>2. at \in 1 .. PlanLen /\ at \in Nat /\ made \in Seq(StateRule) /\ Len(made) = at - 1
    BY <2>1, AtBound DEF IInv, TypeOK, MadeHonours
  <2>3. Honours(b, want.rules[at])
    BY <2>2, PlanHonours DEF IInv
  <2> HIDE DEF b
  <2>4. /\ Len(made') = at' - 1 /\ made'[at].body = b
        /\ \A k \in 1 .. at - 1 : made'[k] = made[k]
    BY <2>1, <2>2
  <2>5. \A k \in 1 .. at' - 1 : k = at \/ k \in 1 .. at - 1
    BY <2>1, <2>2
  <2> QED BY <2>1, <2>3, <2>4, <2>5 DEF MadeHonours
<1>3. CASE Foreign \/ UNCHANGED vars
  <2>1. UNCHANGED <<pc, made, at, want>>
    BY <1>3 DEF Foreign, vars, locals
  <2> QED BY <2>1 DEF MadeHonours
<1>4. CASE \/ CreateGroupFails \/ CreateRuleFails \/ CreateReturns \/ ReadFails \/ ReadMisled
           \/ UpdateGet \/ UpdateGetFails \/ UpdateNext \/ Delete \/ DeleteFails
  BY <1>4 DEF CreateGroupFails, CreateRuleFails, CreateReturns, ReadFails, ReadMisled, UpdateGet,
              UpdateGetFails, UpdateNext, UpdateRemove, UpdateRemoveFails, UpdateApply,
              UpdateApplyFails, UpdateReread, UpdateRereadFails, Delete, DeleteFails,
              Fail, Return
<1>5. CASE Read \/ Edit
  BY <1>5 DEF Read, Edit, locals
<1> QED BY <1>1, <1>2, <1>3, <1>4, <1>5 DEF Next, CreateNext

(* After a success, what is saved honours the configuration rule by rule,  *)
(* in the order of the list.                                               *)
Settled ==
    result \in {"created", "updated"} /\ quiet =>
        /\ Len(tf.rules) = PlanLen
        /\ \A k \in 1 .. PlanLen : Honours(tf.rules[k].body, want.rules[k])
        /\ result = "created" => tf.attrs = want.attrs

(* The reread at the end of Update finds the rules in the planned order:   *)
(* those that stay in the order in which they were saved, then the new ones.*)
LEMMA RereadInOrder ==
    ASSUME IInv, UpdateReread, quiet
    PROVE  /\ Len(tf'.rules) = PlanLen
           /\ \A k \in 1 .. PlanLen : Honours(tf'.rules[k].body, want.rules[k])
<1>1. TypeOK /\ UpdateProgress /\ doomed = {} /\ at > PlanLen /\ PlanLen \in Nat
      /\ at - 1 = PlanLen
  <2>1. TypeOK /\ UpdateProgress /\ doomed = {} /\ at > PlanLen /\ ~Idle
    BY DEF IInv, UpdateReread
  <2> QED BY <2>1, AtBound
<1>2. PICK f : Matched(f, PlanLen, rules, DesiredIds, tf.rules, want.rules)
  BY <1>1 DEF UpdateProgress
<1>3. PICK l \in Listings : tf'.rules = l
  BY DEF UpdateReread, SaveListing
<1>4. DOMAIN rules \subseteq Nat /\ DOMAIN rules \subseteq RuleIds
  BY <1>1, SGAssumption DEF TypeOK, RuleIds
<1>5. ASSUME NEW i \in DOMAIN rules PROVE \E k \in 1 .. PlanLen : f[k] = i
  <2>1. CASE i \in DesiredIds
    BY <1>2, <2>1 DEF DesiredIds, PlanId, Known, Matched
  <2> QED BY <1>2, <2>1 DEF Matched
<1>6. /\ f \in [1 .. PlanLen -> DOMAIN rules]
      /\ \A j, k \in 1 .. PlanLen : j < k => f[j] < f[k]
      /\ \A k \in 1 .. PlanLen : Honours(rules[f[k]], want.rules[k])
  BY <1>2 DEF Matched
<1>7. Cardinality(DOMAIN rules) = PlanLen
  <2>1. \A j, k \in 1 .. PlanLen : f[j] = f[k] => j = k
    <3>1. \A k \in 1 .. PlanLen : f[k] \in Nat
      BY <1>4, <1>6
    <3> QED BY <1>1, <1>6, <3>1
  <2>2. f \in Bijection(1 .. PlanLen, DOMAIN rules)
    BY <1>5, <1>6, <2>1 DEF Bijection, Injection, Surjection, IsInjective
  <2>3. ExistsBijection(1 .. PlanLen, DOMAIN rules)
    BY <2>2 DEF ExistsBijection
  <2> QED BY <1>1, <2>3, FS_CountingElements
<1> DEFINE g == [k \in 1 .. PlanLen |-> l[k].id]
<1>8. /\ Len(l) = PlanLen /\ Ordered(l)
      /\ \A k \in 1 .. Len(l) : l[k].id \in DOMAIN rules /\ l[k].body = rules[l[k].id]
      /\ \A i \in DOMAIN rules : \E k \in 1 .. Len(l) : l[k].id = i
  BY <1>4, <1>7, ListingOrdered
<1>9. /\ g \in [1 .. PlanLen -> DOMAIN rules]
      /\ \A j, k \in 1 .. PlanLen : j < k => g[j] < g[k]
      /\ \A i \in DOMAIN rules : \E k \in 1 .. PlanLen : g[k] = i
      /\ \A k \in 1 .. PlanLen : l[k].body = rules[g[k]]
  BY <1>8 DEF Ordered
<1> HIDE DEF g
<1>10. \A k \in 1 .. PlanLen : f[k] = g[k]
  <2>1. DOMAIN rules \in SUBSET Nat /\ PlanLen \in Nat
    BY <1>1, <1>4
  <2>2. Enumerates(f, PlanLen, DOMAIN rules)
    BY <1>5, <1>6 DEF Enumerates
  <2>3. Enumerates(g, PlanLen, DOMAIN rules)
    BY <1>9 DEF Enumerates
  <2> QED BY <2>1, <2>2, <2>3, OneEnumeration
<1> QED BY <1>3, <1>6, <1>8, <1>9, <1>10

LEMMA SettledStep ==
    ASSUME IInv, MadeHonours, Settled, [Next]_vars
    PROVE  Settled'
<1> SUFFICES ASSUME result' \in {"created", "updated"}, quiet'
             PROVE  /\ Len(tf'.rules) = PlanLen'
                    /\ \A k \in 1 .. PlanLen' : Honours(tf'.rules[k].body, want'.rules[k])
                    /\ result' = "created" => tf'.attrs = want'.attrs
  BY DEF Settled, Honours
<1>1. CASE CreateReturns
  <2>1. /\ tf'.rules = made /\ tf'.attrs = want.attrs /\ want' = want /\ pc = "adding"
        /\ at > PlanLen
    BY <1>1 DEF CreateReturns
  <2>2. at - 1 = PlanLen
    BY <2>1, AtBound DEF IInv
  <2> QED BY <2>1, <2>2 DEF MadeHonours, PlanLen
<1>2. CASE UpdateReread
  <2>1. want' = want /\ quiet' = quiet /\ result' = "updated"
    BY <1>2 DEF UpdateReread, Return
  <2> QED BY <1>2, <2>1, RereadInOrder DEF PlanLen
<1>3. CASE Read \/ Edit
  BY <1>3 DEF Read, Edit
<1>4. CASE \/ CreateGroup \/ CreateGroupFails \/ CreateRuleFails \/ ReadFails \/ ReadMisled
           \/ UpdateGet \/ UpdateGetFails \/ UpdateRemoveFails \/ UpdateApplyFails
           \/ UpdateRereadFails \/ Delete \/ DeleteFails
  BY <1>4 DEF CreateGroup, CreateGroupFails, CreateRuleFails, ReadFails, ReadMisled, UpdateGet,
              UpdateGetFails, UpdateRemoveFails, UpdateApplyFails, UpdateRereadFails, Delete,
              DeleteFails, Fail, Return
<1>5. CASE CreateRule \/ UpdateRemove \/ UpdateApply
  BY <1>5 DEF CreateRule, UpdateRemove, UpdateApply, IInv
<1>6. CASE Foreign
  BY <1>6 DEF Foreign
<1>7. CASE UNCHANGED vars
  <2>1. UNCHANGED <<tf, want, result, quiet>>
    BY <1>7 DEF vars
  <2> QED BY <2>1 DEF Settled, PlanLen
<1> QED BY <1>1, <1>2, <1>3, <1>4, <1>5, <1>6, <1>7 DEF Next, CreateNext, UpdateNext

(* After a Create or Update that reports success undisturbed, the saved    *)
(* rules and the configured ones do not differ at any index, although      *)
(* Update sends removals, additions and changes one by one and then saves  *)
(* what the controller lists.  After a Create nothing differs; after an    *)
(* Update the name and the description can, which it does not send.        *)
NextPlanIsEmpty ==
    result \in {"created", "updated"} /\ quiet =>
        /\ Len(tf.rules) = PlanLen
        /\ \A k \in 1 .. PlanLen : tf.rules[k].body = PlanBody(k)
        /\ result = "created" => ~HasDiff

(* A success leaves no rule for the next plan to change: the list that the *)
(* controller answers does not come back in another order.                 *)
THEOREM SuccessLeavesNoDiff == Spec => []NextPlanIsEmpty
<1>1. Init => MadeHonours /\ Settled
  BY DEF Init, MadeHonours, Settled
<1>2. IInv /\ MadeHonours /\ Settled /\ [Next]_vars => MadeHonours' /\ Settled'
  BY MadeHonoursStep, SettledStep
<1>3. TypeOK /\ Settled => NextPlanIsEmpty
  <2> SUFFICES ASSUME TypeOK, Settled, result \in {"created", "updated"}, quiet
               PROVE  /\ Len(tf.rules) = PlanLen
                      /\ \A k \in 1 .. PlanLen : tf.rules[k].body = PlanBody(k)
                      /\ result = "created" => ~HasDiff
    BY DEF NextPlanIsEmpty
  <2>1. /\ Len(tf.rules) = PlanLen /\ tf.rules \in Seq(StateRule) /\ PlanLen \in Nat
        /\ \A k \in 1 .. PlanLen : Honours(tf.rules[k].body, want.rules[k])
        /\ result = "created" => tf.attrs = want.attrs
    BY AtBound DEF Settled, TypeOK
  <2>2. ASSUME NEW k \in 1 .. PlanLen PROVE tf.rules[k].body = PlanBody(k)
    <3>1. tf.rules[k] \in StateRule /\ Known(k)
      BY <2>1 DEF Known
    <3>2. tf.rules[k].body = [match |-> tf.rules[k].body.match, prio |-> tf.rules[k].body.prio]
      BY <3>1 DEF StateRule, Body
    <3> QED BY <2>1, <3>1, <3>2 DEF PlanBody, Honours
  <2> QED BY <2>1, <2>2 DEF HasDiff
<1> QED BY <1>1, <1>2, <1>3, Inductive, TypeCorrect, PTL DEF Spec

-----------------------------------------------------------------------------
(* Errors *)

(* An apply that meets no failed request and no foreign change reports no  *)
(* error.                                                                  *)
ErrorHasCause == faults = 0 /\ drifts = 0 => result # "error"

(* As long as nothing went wrong, the followed group exists and has every  *)
(* rule that was saved, that Create has recorded, that Update is to remove *)
(* and that it is to rewrite.                                              *)
Undisturbed ==
    faults = 0 /\ drifts = 0 =>
        /\ result # "error" /\ Followed \in groups \cup {NoId}
        /\ Idle => \A k \in 1 .. Len(tf.rules) : tf.rules[k].id \in DOMAIN rules
        /\ pc = "adding" => \A k \in 1 .. Len(made) : made[k].id \in DOMAIN rules
        /\ pc = "reconciling" => /\ tf.id # NoId
                                 /\ doomed \cup DesiredIds \subseteq DOMAIN rules

LEMMA UndisturbedStep ==
    ASSUME IInv, DoomedUnplanned, Undisturbed, [Next]_vars
    PROVE  Undisturbed'
<1> SUFFICES ASSUME faults' = 0, drifts' = 0
             PROVE  /\ result' # "error" /\ Followed' \in groups' \cup {NoId}
                    /\ Idle' => \A k \in 1 .. Len(tf'.rules) : tf'.rules[k].id \in DOMAIN rules'
                    /\ pc' = "adding" => \A k \in 1 .. Len(made') : made'[k].id \in DOMAIN rules'
                    /\ pc' = "reconciling" => /\ tf'.id # NoId
                                              /\ doomed' \cup DesiredIds' \subseteq DOMAIN rules'
  BY DEF Undisturbed
<1>x. TypeOK /\ IdsFresh /\ IdleMade
  BY DEF IInv
<1>n. ~Fault /\ ~Foreign
  <2>1. faults \in 0 .. MaxFaults /\ drifts \in 0 .. MaxDrift
    BY <1>x DEF TypeOK
  <2>2. faults' # faults + 1 /\ drifts' # drifts + 1
    BY <2>1, SGAssumption
  <2> QED BY <2>2 DEF Fault, Foreign
<1>t. /\ pc = "adding" => cur # NoId /\ Followed = cur
      /\ pc # "adding" => Followed = tf.id
      /\ pc' = "adding" => Followed' = cur'
      /\ pc' # "adding" => Followed' = tf'.id
      /\ pc \in {"idle", "adding", "reconciling"}
  BY <1>x, Numbers DEF Followed, TypeOK
<1>d. tf' = tf /\ want' = want => DesiredIds' = DesiredIds
  BY DEF DesiredIds, PlanId, Known, PlanLen
<1>e. Len(NoState.rules) = 0 /\ NoState.id = NoId
  BY DEF NoState
<1>f. UNCHANGED <<faults, drifts>>
  BY <1>n DEF Next, CreateNext, UpdateNext, CreateGroup, CreateGroupFails, CreateRule,
     CreateRuleFails, CreateReturns, Read, ReadFails, ReadMisled, UpdateGet, UpdateGetFails,
     UpdateRemove, UpdateRemoveFails, UpdateApply, UpdateApplyFails, UpdateReread,
     UpdateRereadFails, Delete, DeleteFails, Edit, vars
<1>u. /\ result # "error" /\ Followed \in groups \cup {NoId}
      /\ Idle => \A k \in 1 .. Len(tf.rules) : tf.rules[k].id \in DOMAIN rules
      /\ pc = "adding" => \A k \in 1 .. Len(made) : made[k].id \in DOMAIN rules
      /\ pc = "reconciling" => tf.id # NoId /\ doomed \cup DesiredIds \subseteq DOMAIN rules
  BY <1>f DEF Undisturbed
<1>1. CASE CreateGroup
  <2>1. /\ result' = "none" /\ pc' = "adding" /\ cur' = nextGroup /\ made' = << >>
        /\ groups' = groups \cup {nextGroup}
    BY <1>1, <1>x DEF CreateGroup, PostGroup, IdleMade
  <2> QED BY <1>t, <2>1
<1>2. CASE CreateRule
  <2>1. /\ PostRule(PlanBody(at)) /\ UNCHANGED <<groups, tf, pc, cur, result>> /\ pc = "adding"
        /\ made' = Append(made, [id |-> nextRule, body |-> PlanBody(at)])
    BY <1>2 DEF CreateRule
  <2>2. DOMAIN rules' = DOMAIN rules \cup {nextRule}
    BY <1>x, <2>1, PostRuleFresh
  <2>3. /\ Len(made) \in Nat /\ Len(made') = Len(made) + 1
        /\ \A k \in 1 .. Len(made) : made'[k] = made[k]
        /\ made'[Len(made) + 1].id = nextRule
    BY <1>x, <2>1 DEF TypeOK
  <2>4. \A k \in 1 .. Len(made') : made'[k].id \in DOMAIN rules'
    BY <1>u, <2>1, <2>2, <2>3
  <2> QED BY <1>t, <1>u, <2>1, <2>4
<1>3. CASE CreateReturns
  <2>1. /\ pc = "adding" /\ pc' = "idle" /\ result' = "created" /\ tf'.id = cur
        /\ tf'.rules = made /\ UNCHANGED <<groups, rules>>
    BY <1>3 DEF CreateReturns, Return, controller
  <2> QED BY <1>t, <1>u, <2>1
<1>4. CASE Read
  <2>1. /\ Idle /\ tf.id \in groups /\ SaveListing /\ result' = "read"
        /\ UNCHANGED <<groups, rules, pc>>
    BY <1>4, <1>t, <1>u DEF Read, controller, locals
  <2>2. tf'.id = tf.id /\ tf'.rules \in Listings
    BY <2>1 DEF SaveListing
  <2>3. \A k \in 1 .. Len(tf'.rules) : tf'.rules[k].id \in DOMAIN rules
    BY <1>x, <2>2, ListingOrdered DEF TypeOK
  <2> QED BY <1>t, <2>1, <2>2, <2>3
<1>5. CASE UpdateGet
  <2>1. /\ Idle /\ tf.id # NoId /\ pc' = "reconciling" /\ result' = "none"
        /\ doomed' \subseteq DOMAIN rules /\ UNCHANGED <<groups, rules, tf, want>>
    BY <1>5 DEF UpdateGet, controller
  <2>2. Len(tf.rules) \in Nat /\ PlanLen \in Nat
    BY <1>x, AtBound DEF TypeOK
  <2>3. \A k \in 1 .. PlanLen : PlanId(k) \in DOMAIN rules \cup {NoId}
    BY <1>u, <2>1, <2>2 DEF PlanId, Known
  <2>4. DesiredIds \subseteq DOMAIN rules
    BY <2>3 DEF DesiredIds
  <2> QED BY <1>d, <1>t, <1>u, <2>1, <2>4
<1>6. CASE UpdateRemove
  <2>1. PICK i \in doomed : DeleteRule(i) /\ doomed' = doomed \ {i}
    BY <1>6 DEF UpdateRemove
  <2>2. pc = "reconciling" /\ UNCHANGED <<groups, tf, want, pc, result>>
    BY <1>6 DEF UpdateRemove
  <2>3. DOMAIN rules' = DOMAIN rules \ {i} /\ i \notin DesiredIds
    BY <2>1, <2>2 DEF DeleteRule, DoomedUnplanned
  <2> QED BY <1>d, <1>t, <1>u, <2>1, <2>2, <2>3
<1>7. CASE UpdateApply
  <2>1. /\ pc = "reconciling" /\ SendRule
        /\ UNCHANGED <<groups, tf, want, pc, doomed, result>>
    BY <1>7 DEF UpdateApply
  <2>2. DOMAIN rules \subseteq DOMAIN rules'
    BY <2>1 DEF SendRule, PostRule, PutRule
  <2> QED BY <1>d, <1>t, <1>u, <2>1, <2>2
<1>8. CASE UpdateReread
  <2>1. /\ pc' = "idle" /\ tf.id \in groups /\ SaveListing /\ result' = "updated"
        /\ UNCHANGED <<groups, rules>>
    BY <1>8 DEF UpdateReread, Return, controller
  <2>2. tf'.id = tf.id /\ tf'.rules \in Listings
    BY <2>1 DEF SaveListing
  <2>3. \A k \in 1 .. Len(tf'.rules) : tf'.rules[k].id \in DOMAIN rules
    BY <1>x, <2>2, ListingOrdered DEF TypeOK
  <2> QED BY <1>t, <2>1, <2>2, <2>3
(* What the handlers name is there.                                        *)
<1>9. ~CreateRuleFails /\ ~UpdateGetFails /\ ~UpdateRemoveFails /\ ~UpdateRereadFails
  BY <1>n, <1>t, <1>u DEF CreateRuleFails, UpdateGetFails, UpdateRemoveFails, UpdateRereadFails
<1>10. ~UpdateApplyFails
  <2> SUFFICES ASSUME UpdateApplyFails PROVE FALSE
    OBVIOUS
  <2>1. pc = "reconciling" /\ at \in 1 .. PlanLen
    <3>1. pc = "reconciling" /\ at <= PlanLen
      BY DEF UpdateApplyFails
    <3> QED BY <1>x, <3>1, AtBound
  <2>2. PlanId(at) # NoId => PlanId(at) \in DOMAIN rules
    BY <1>u, <2>1 DEF DesiredIds
  <2>3. tf.id \in groups
    BY <1>t, <1>u, <2>1
  <2> QED BY <1>n, <2>2, <2>3 DEF UpdateApplyFails
<1>11. ~CreateGroupFails /\ ~ReadFails /\ ~ReadMisled /\ ~DeleteFails
  BY <1>n DEF CreateGroupFails, ReadFails, ReadMisled, DeleteFails
<1>12. CASE Delete
  BY <1>12, <1>e, <1>t DEF Delete, Return
<1>13. CASE Edit
  <2>1. Idle /\ UNCHANGED <<groups, rules, tf, pc>> /\ result' = "none"
    BY <1>13 DEF Edit, controller, locals
  <2> QED BY <1>t, <1>u, <2>1
<1>14. CASE UNCHANGED vars
  <2>1. UNCHANGED <<groups, rules, tf, want, pc, cur, made, doomed, result>>
    BY <1>14 DEF vars, controller, locals
  <2> QED BY <1>d, <1>t, <1>u, <2>1
<1> QED
  BY <1>n, <1>1, <1>2, <1>3, <1>4, <1>5, <1>6, <1>7, <1>8, <1>9, <1>10, <1>11, <1>12, <1>13,
     <1>14 DEF Next, CreateNext, UpdateNext

(* Without a failed request and without foreign changes, no handler of a   *)
(* security group reports an error: Update rewrites only rules that are    *)
(* there, though it takes their IDs from the saved state, and removes none *)
(* twice.                                                                  *)
THEOREM ErrorsHaveCauses == Spec => []ErrorHasCause
<1>1. Init => Undisturbed
  BY DEF Init, Undisturbed, Followed, NoState
<1>2. IInv /\ DoomedUnplanned /\ Undisturbed /\ [Next]_vars => Undisturbed'
  BY UndisturbedStep
<1>3. Undisturbed => ErrorHasCause
  BY DEF Undisturbed, ErrorHasCause
<1> QED BY <1>1, <1>2, <1>3, Inductive, DoomedInvariant, PTL DEF Spec
=============================================================================
