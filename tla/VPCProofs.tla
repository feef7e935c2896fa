----------------------------- MODULE VPCProofs -----------------------------
(***************************************************************************)
(* Proofs about VPC, for any configurations and bounds.                    *)
(***************************************************************************)
EXTENDS VPC, SequenceTheorems, TLAPS

(* A list without one of its items: what follows the item moves up.        *)
LEMMA RemoveAtShifts ==
    ASSUME NEW S, NEW list \in Seq(S), NEW n \in 1 .. Len(list)
    PROVE  /\ RemoveAt(list, n) \in Seq(S)
           /\ Len(RemoveAt(list, n)) = Len(list) - 1
           /\ \A m \in 1 .. Len(list) - 1 :
                 RemoveAt(list, n)[m] = IF m < n THEN list[m] ELSE list[m + 1]
<1> DEFINE before == SubSeq(list, 1, n - 1)
           after == SubSeq(list, n + 1, Len(list))
<1>0. n \in Nat /\ n >= 1 /\ n <= Len(list) /\ Len(list) \in Nat
  OBVIOUS
<1>1. /\ before \in Seq(S) /\ Len(before) = n - 1
      /\ \A m \in 1 .. n - 1 : before[m] = list[m]
  <2>1. \A m \in 1 .. n - 1 : list[m] \in S
    BY <1>0
  <2>2. /\ before \in Seq(S) /\ Len(before) = IF 1 <= n - 1 THEN n - 1 - 1 + 1 ELSE 0
        /\ \A m \in 1 .. n - 1 - 1 + 1 : before[m] = list[m + 1 - 1]
    BY <1>0, <2>1, SubSeqProperties
  <2> QED BY <1>0, <2>2
<1>2. /\ after \in Seq(S) /\ Len(after) = Len(list) - n
      /\ \A m \in 1 .. Len(list) - n : after[m] = list[m + n]
  <2>1. \A m \in n + 1 .. Len(list) : list[m] \in S
    BY <1>0
  <2>2. /\ after \in Seq(S)
        /\ Len(after) = IF n + 1 <= Len(list) THEN Len(list) - (n + 1) + 1 ELSE 0
        /\ \A m \in 1 .. Len(list) - (n + 1) + 1 : after[m] = list[m + (n + 1) - 1]
    BY <1>0, <2>1, SubSeqProperties
  <2> QED BY <1>0, <2>2
<1>3. RemoveAt(list, n) = before \o after
  BY DEF RemoveAt
<1> HIDE DEF before, after
<1>4. /\ RemoveAt(list, n) \in Seq(S)
      /\ Len(RemoveAt(list, n)) = Len(list) - 1
      /\ \A m \in 1 .. Len(list) - 1 :
            RemoveAt(list, n)[m] = IF m <= n - 1 THEN before[m] ELSE after[m - (n - 1)]
  <2>1. /\ before \o after \in Seq(S)
        /\ Len(before \o after) = Len(before) + Len(after)
        /\ \A m \in 1 .. Len(before) + Len(after) :
              (before \o after)[m] = IF m <= Len(before) THEN before[m] ELSE after[m - Len(before)]
    BY <1>1, <1>2, ConcatProperties
  <2>2. Len(before) = n - 1 /\ Len(before) + Len(after) = Len(list) - 1
    BY <1>0, <1>1, <1>2
  <2> QED BY <1>3, <2>1, <2>2
<1>5. ASSUME NEW m \in 1 .. Len(list) - 1, m < n
      PROVE  RemoveAt(list, n)[m] = list[m]
  <2>1. m \in 1 .. n - 1 /\ m <= n - 1
    BY <1>0, <1>5
  <2> QED BY <1>1, <1>4, <2>1
<1>6. ASSUME NEW m \in 1 .. Len(list) - 1, ~(m < n)
      PROVE  RemoveAt(list, n)[m] = list[m + 1]
  <2>1. m - (n - 1) \in 1 .. Len(list) - n /\ ~(m <= n - 1) /\ m - (n - 1) + n = m + 1
    BY <1>0, <1>6
  <2>2. RemoveAt(list, n)[m] = after[m - (n - 1)]
    BY <1>4, <2>1
  <2>3. after[m - (n - 1)] = list[m + 1]
    BY <1>2, <2>1
  <2> QED BY <2>2, <2>3
<1> QED BY <1>4, <1>5, <1>6

(* It has the other items of the list.                                     *)
LEMMA RemoveAtKeeps ==
    ASSUME NEW S, NEW list \in Seq(S), NEW n \in 1 .. Len(list)
    PROVE  /\ RemoveAt(list, n) \in Seq(S)
           /\ \A m \in 1 .. Len(list) : m # n =>
                 \E j \in 1 .. Len(RemoveAt(list, n)) : RemoveAt(list, n)[j] = list[m]
<1>1. /\ RemoveAt(list, n) \in Seq(S) /\ Len(RemoveAt(list, n)) = Len(list) - 1
      /\ \A m \in 1 .. Len(list) - 1 :
            RemoveAt(list, n)[m] = IF m < n THEN list[m] ELSE list[m + 1]
  BY RemoveAtShifts
<1>0. n \in Nat /\ n >= 1 /\ n <= Len(list) /\ Len(list) \in Nat
  OBVIOUS
<1>2. ASSUME NEW m \in 1 .. Len(list), m < n
      PROVE  \E j \in 1 .. Len(list) - 1 : RemoveAt(list, n)[j] = list[m]
  <2>1. m \in 1 .. Len(list) - 1
    BY <1>0, <1>2
  <2> QED BY <1>1, <1>2, <2>1
<1>3. ASSUME NEW m \in 1 .. Len(list), m > n
      PROVE  \E j \in 1 .. Len(list) - 1 : RemoveAt(list, n)[j] = list[m]
  <2>1. m - 1 \in 1 .. Len(list) - 1 /\ ~(m - 1 < n) /\ m - 1 + 1 = m
    BY <1>0, <1>3
  <2> QED BY <1>1, <2>1
<1>4. \A m \in 1 .. Len(list) : m < n \/ m = n \/ m > n
  BY <1>0
<1> QED BY <1>1, <1>2, <1>3, <1>4

Results == {"none", "created", "read", "updated", "deleted", "error"}
Lists == [Kinds -> Seq(Item)]
StateType == [id : VPCIds \cup {NoId}, name : Names \cup {NoName}, cidr : CIDRs \cup {""},
              default : Actions, lists : Lists]

(* No VPC has the ID that stands for none.                                 *)
LEMMA Distinct ==
    /\ NoId = 0 /\ NoId \notin VPCIds /\ VPCIds \subseteq Nat
    /\ NoItems \in Lists /\ NoState \in StateType /\ NoState.id = NoId
    /\ "port forward" \in Kinds /\ "firewall rule" \in Kinds
BY DEF NoId, VPCIds, NoItems, NoState, StateType, Lists, Kinds, Actions, NoName

LEMMA Bounds ==
    /\ MaxItemId \in Nat /\ MaxVPCId \in Nat
    /\ MaxFaults \in Nat /\ MaxDrift \in Nat /\ MaxEdits \in Nat
BY VPCAssumption

(* A configuration says what a VPC can have.                               *)
LEMMA WantType ==
    ASSUME want \in Wants
    PROVE  /\ want.name \in Names /\ want.cidr \in CIDRs /\ WantedDefault \in Actions
           /\ want.lists \in [Kinds -> Seq(Matches)] /\ want.present \in BOOLEAN
           /\ \A k \in Kinds : /\ PlanLen(k) \in Nat /\ 1 .. PlanLen(k) \subseteq Nat
                               /\ \A n \in 1 .. PlanLen(k) : want.lists[k][n] \in Matches
BY VPCAssumption DEF WantedDefault, Actions, PlanLen

(* No counter passes its bound.                                            *)
LEMMA Counters ==
    ASSUME TypeOK
    PROVE  /\ Fault => faults' \in 0 .. MaxFaults
           /\ drifts < MaxDrift /\ drifts' = drifts + 1 => drifts' \in 0 .. MaxDrift
           /\ edits < MaxEdits /\ edits' = edits + 1 => edits' \in 0 .. MaxEdits
<1>1. faults \in 0 .. MaxFaults /\ drifts \in 0 .. MaxDrift /\ edits \in 0 .. MaxEdits
  BY DEF TypeOK
<1> QED BY <1>1, Bounds DEF Fault

(* An item that is added takes no other away.                              *)
LEMMA PostItemKeeps ==
    ASSUME TypeOK, NEW k \in Kinds, NEW m \in Matches, PostItem(k, m)
    PROVE  /\ items' \in Lists /\ nextItem' \in 1 .. MaxItemId + 1
           /\ \A j \in Kinds : IdsOf(items[j]) \subseteq IdsOf(items'[j])
<1>1. items \in Lists /\ nextItem \in 1 .. MaxItemId + 1
  BY DEF TypeOK, Lists
<1>2. nextItem <= MaxItemId /\ nextItem' = nextItem + 1
      /\ items' = [items EXCEPT ![k] = Append(items[k], [id |-> nextItem, match |-> m])]
  BY DEF PostItem
<1>3. nextItem \in ItemIds /\ nextItem' \in 1 .. MaxItemId + 1
  BY <1>1, <1>2, Bounds DEF ItemIds
<1> DEFINE new == [id |-> nextItem, match |-> m]
<1>4. new \in Item
  BY <1>3 DEF Item
<1> HIDE DEF new
<1>5. /\ items[k] \in Seq(Item) /\ items' = [items EXCEPT ![k] = Append(items[k], new)]
  BY <1>1, <1>2 DEF Lists, new
<1>6. /\ Append(items[k], new) \in Seq(Item)
      /\ Len(Append(items[k], new)) = Len(items[k]) + 1
      /\ \A i \in 1 .. Len(items[k]) : Append(items[k], new)[i] = items[k][i]
  BY <1>4, <1>5, AppendProperties
<1>7. items' \in Lists
  BY <1>1, <1>5, <1>6 DEF Lists
<1>8. IdsOf(items[k]) \subseteq IdsOf(Append(items[k], new))
  <2> SUFFICES ASSUME NEW n \in DOMAIN items[k]
               PROVE  items[k][n].id \in IdsOf(Append(items[k], new))
    BY DEF IdsOf
  <2>1. n \in 1 .. Len(items[k]) /\ n \in 1 .. Len(Append(items[k], new))
    BY <1>5, <1>6
  <2>2. n \in DOMAIN Append(items[k], new) /\ Append(items[k], new)[n].id = items[k][n].id
    BY <1>6, <2>1
  <2> QED BY <2>2 DEF IdsOf
<1>9. \A j \in Kinds : items'[j] = IF j = k THEN Append(items[k], new) ELSE items[j]
  BY <1>1, <1>5 DEF Lists
<1> QED BY <1>3, <1>7, <1>8, <1>9

(* An item that is removed takes no other with it.                         *)
LEMMA RemoveItemKeeps ==
    ASSUME TypeOK, NEW k \in Kinds, NEW i, RemoveItem(k, i)
    PROVE  /\ items' \in Lists
           /\ \A j \in Kinds : \A d \in IdsOf(items[j]) \ IdsOf(items'[j]) : j = k /\ d = i
<1>1. items \in Lists /\ items[k] \in Seq(Item)
  BY DEF TypeOK, Lists
<1>2. PICK n \in DOMAIN items[k] :
         items[k][n].id = i /\ items' = [items EXCEPT ![k] = RemoveAt(items[k], n)]
  BY DEF RemoveItem
<1>3. n \in 1 .. Len(items[k])
  BY <1>1, <1>2
<1>4. /\ RemoveAt(items[k], n) \in Seq(Item)
      /\ \A m \in 1 .. Len(items[k]) : m # n =>
            \E j \in 1 .. Len(RemoveAt(items[k], n)) : RemoveAt(items[k], n)[j] = items[k][m]
  BY <1>1, <1>3, RemoveAtKeeps
<1>5. items' \in Lists /\ \A j \in Kinds : items'[j] = IF j = k THEN RemoveAt(items[k], n) ELSE items[j]
  BY <1>1, <1>2, <1>4 DEF Lists
<1>6. ASSUME NEW d \in IdsOf(items[k]) \ IdsOf(items'[k]) PROVE d = i
  <2>1. PICK m \in DOMAIN items[k] : items[k][m].id = d
    BY DEF IdsOf
  <2>2. m \in 1 .. Len(items[k])
    BY <1>1
  <2>3. CASE m # n
    <3>1. PICK j \in 1 .. Len(RemoveAt(items[k], n)) : RemoveAt(items[k], n)[j] = items[k][m]
      BY <1>4, <2>2, <2>3
    <3>2. j \in DOMAIN RemoveAt(items[k], n)
      BY <1>4, <3>1
    <3>3. d \in IdsOf(items'[k])
      BY <1>5, <2>1, <3>1, <3>2 DEF IdsOf
    <3> QED BY <3>3
  <2> QED BY <1>2, <2>1, <2>3
<1> QED BY <1>5, <1>6

(* A new VPC has an ID that no other has.                                  *)
LEMMA PostVPCKeeps ==
    ASSUME TypeOK, PostVPC
    PROVE  /\ nextVPC \in VPCIds /\ nextVPC' \in 1 .. MaxVPCId + 1
           /\ nextVPC' = nextVPC + 1 /\ vpcs' = vpcs \cup {nextVPC}
<1>1. nextVPC \in 1 .. MaxVPCId + 1
  BY DEF TypeOK
<1> QED BY <1>1, Bounds DEF PostVPC, VPCIds

-----------------------------------------------------------------------------
(* Types, and what a running handler has still to do *)

(* A Create fills the VPC it made, and an Update the saved one.  What is   *)
(* still to be removed is saved past the planned length of its list.       *)
Running ==
    /\ pc = "idle" => doomed = None /\ fresh = None
    /\ pc = "creating" => tf.id = NoId
    /\ pc = "updating" => tf.id = vpc
    /\ \A k \in Kinds : \A i \in doomed[k] :
          \E n \in PlanLen(k) + 1 .. SavedLen(k) : tf.lists[k][n].id = i

(* What an Update removes is saved past the planned length.                *)
LEMMA DoomedTail ==
    ASSUME TypeOK, NEW k \in Kinds
    PROVE  /\ Doomed(k) \subseteq ItemIds
           /\ \A i \in Doomed(k) : \E n \in PlanLen(k) + 1 .. SavedLen(k) : tf.lists[k][n].id = i
<1>1. tf.lists[k] \in Seq(Item) /\ PlanLen(k) \in Nat /\ SavedLen(k) = Len(tf.lists[k])
  BY WantType DEF TypeOK, SavedLen
<1> SUFFICES ASSUME NEW i \in Doomed(k)
             PROVE  /\ i \in ItemIds
                    /\ \E n \in PlanLen(k) + 1 .. SavedLen(k) : tf.lists[k][n].id = i
  OBVIOUS
<1>2. PICK n \in DOMAIN tf.lists[k] : tf.lists[k][n].id = i
  BY DEF Doomed, IdsOf
<1>3. n \in 1 .. SavedLen(k) /\ tf.lists[k][n] \in Item
  BY <1>1, <1>2
<1>4. i \in ItemIds
  BY <1>2, <1>3 DEF Item
<1>5. ~(n <= PlanLen(k))
  <2> SUFFICES ASSUME n <= PlanLen(k) PROVE FALSE
    OBVIOUS
  <2>1. n \in 1 .. PlanLen(k) /\ n <= SavedLen(k)
    BY <1>1, <1>3
  <2>2. PlanId(k, n) = i
    BY <1>2, <2>1 DEF PlanId
  <2> QED BY <2>1, <2>2 DEF Doomed, PlanIds
<1>6. n \in PlanLen(k) + 1 .. SavedLen(k)
  BY <1>1, <1>3, <1>5
<1> QED BY <1>2, <1>4, <1>6

(* A request of an Update that fails changes what it was to change, or     *)
(* nothing; it takes down only what is to be removed.                      *)
LEMMA DueFailsKeeps ==
    ASSUME TypeOK, DueFails
    PROVE  /\ faults' \in 0 .. MaxFaults /\ items' \in Lists
           /\ nextItem' \in 1 .. MaxItemId + 1
           /\ name' \in Names \cup {NoName} /\ default' \in Actions
           /\ \A k \in Kinds : IdsOf(items[k]) \ IdsOf(items'[k]) \subseteq doomed[k]
<1>x. TypeOK
  OBVIOUS
<1>t. /\ items \in Lists /\ nextItem \in 1 .. MaxItemId + 1
      /\ name \in Names \cup {NoName} /\ default \in Actions
      /\ want.name \in Names /\ WantedDefault \in Actions
      /\ \A k \in Kinds : \A n \in fresh[k] : want.lists[k][n] \in Matches
  BY WantType DEF TypeOK, Lists
<1>b. faults \in 0 .. MaxFaults
  BY DEF TypeOK
<1>f. ASSUME Fault PROVE faults' \in 0 .. MaxFaults
  BY <1>f, <1>x, Counters
<1>u. ASSUME UNCHANGED <<name, default, items, nextItem>>, Fault \/ faults' = faults
      PROVE  /\ faults' \in 0 .. MaxFaults /\ items' \in Lists
             /\ nextItem' \in 1 .. MaxItemId + 1
             /\ name' \in Names \cup {NoName} /\ default' \in Actions
             /\ \A k \in Kinds : IdsOf(items[k]) \ IdsOf(items'[k]) \subseteq doomed[k]
  BY <1>b, <1>f, <1>t, <1>u
<1>1. CASE Due(name' = want.name /\ UNCHANGED <<default, items, nextItem>>)
  BY <1>1, <1>f, <1>t, <1>u DEF Due
<1>2. ASSUME NEW k \in Kinds, NEW i \in doomed[k],
             \/ Due(RemoveItem(k, i) /\ UNCHANGED <<name, default, nextItem>>)
             \/ UNCHANGED <<name, default, items, nextItem, faults>>
      PROVE  /\ faults' \in 0 .. MaxFaults /\ items' \in Lists
             /\ nextItem' \in 1 .. MaxItemId + 1
             /\ name' \in Names \cup {NoName} /\ default' \in Actions
             /\ \A j \in Kinds : IdsOf(items[j]) \ IdsOf(items'[j]) \subseteq doomed[j]
  <2>1. \/ UNCHANGED <<name, default, items, nextItem>> /\ (Fault \/ faults' = faults)
        \/ Fault /\ RemoveItem(k, i) /\ UNCHANGED <<name, default, nextItem>>
    BY <1>2 DEF Due
  <2>2. CASE Fault /\ RemoveItem(k, i) /\ UNCHANGED <<name, default, nextItem>>
    <3>1. /\ items' \in Lists
          /\ \A j \in Kinds : \A d \in IdsOf(items[j]) \ IdsOf(items'[j]) : j = k /\ d = i
      BY <1>x, <2>2, RemoveItemKeeps
    <3> QED BY <1>f, <1>t, <1>2, <2>2, <3>1
  <2> QED BY <1>u, <2>1, <2>2
<1>3. ASSUME NEW k \in Kinds, NEW n \in fresh[k],
             Due(PostItem(k, want.lists[k][n]) /\ UNCHANGED <<name, default>>)
      PROVE  /\ faults' \in 0 .. MaxFaults /\ items' \in Lists
             /\ nextItem' \in 1 .. MaxItemId + 1
             /\ name' \in Names \cup {NoName} /\ default' \in Actions
             /\ \A j \in Kinds : IdsOf(items[j]) \ IdsOf(items'[j]) \subseteq doomed[j]
  <2>1. \/ UNCHANGED <<name, default, items, nextItem>> /\ (Fault \/ faults' = faults)
        \/ Fault /\ PostItem(k, want.lists[k][n]) /\ UNCHANGED <<name, default>>
    BY <1>3 DEF Due
  <2>2. CASE Fault /\ PostItem(k, want.lists[k][n]) /\ UNCHANGED <<name, default>>
    <3>0. want.lists[k][n] \in Matches
      BY <1>t
    <3>1. /\ items' \in Lists /\ nextItem' \in 1 .. MaxItemId + 1
          /\ \A j \in Kinds : IdsOf(items[j]) \subseteq IdsOf(items'[j])
      BY <1>x, <2>2, <3>0, PostItemKeeps
    <3> QED BY <1>f, <1>t, <2>2, <3>1
  <2> QED BY <1>u, <2>1, <2>2
<1>4. CASE Due(/\ default' = IF defaulting THEN WantedDefault ELSE default
               /\ UNCHANGED <<name, items, nextItem>>)
  BY <1>4, <1>f, <1>t, <1>u DEF Due
<1> QED BY <1>1, <1>2, <1>3, <1>4 DEF DueFails

(* What a GET shows is saved as a state.                                   *)
LEMMA SaveType ==
    ASSUME TypeOK, NEW id \in VPCIds, Save(id)
    PROVE  tf' \in StateType /\ tf'.id = id
BY WantType DEF TypeOK, Save, StateType, Lists

(* Every step keeps the types.                                             *)
LEMMA TypeStep ==
    ASSUME TypeOK, Running, [Next]_vars
    PROVE  TypeOK'
<1> USE Distinct
<1>x. TypeOK
  OBVIOUS
<1>t. /\ vpcs \subseteq VPCIds /\ name \in Names \cup {NoName} /\ default \in Actions
      /\ items \in Lists /\ nextItem \in 1 .. MaxItemId + 1 /\ nextVPC \in 1 .. MaxVPCId + 1
      /\ tf \in StateType /\ want \in Wants /\ pc \in {"idle", "creating", "updating"}
      /\ pc = "idle" => vpc = NoId
      /\ pc # "idle" => vpc \in VPCIds
      /\ renaming \in BOOLEAN /\ defaulting \in BOOLEAN
      /\ doomed \in [Kinds -> SUBSET ItemIds]
      /\ fresh \in [Kinds -> SUBSET Nat]
      /\ \A k \in Kinds : fresh[k] \subseteq 1 .. PlanLen(k)
      /\ result \in Results /\ current \in BOOLEAN /\ quiet \in BOOLEAN
      /\ abandoned \subseteq VPCIds /\ misread \subseteq VPCIds
  BY DEF TypeOK, StateType, Lists, Results, Idle
<1>i. tf.id # NoId => tf.id \in VPCIds
  BY <1>t DEF StateType
<1>b. faults \in 0 .. MaxFaults /\ drifts \in 0 .. MaxDrift /\ edits \in 0 .. MaxEdits
  BY DEF TypeOK
<1>f. ASSUME Fault PROVE faults' \in 0 .. MaxFaults
  BY <1>f, <1>x, Counters
<1>n. /\ None \in [Kinds -> SUBSET ItemIds] /\ None \in [Kinds -> SUBSET Nat]
      /\ \A k \in Kinds : None[k] = {}
  BY DEF None
<1>h. ASSUME Forget
      PROVE  items' \in Lists /\ name' \in Names \cup {NoName} /\ default' \in Actions
  BY <1>h DEF Forget, Actions
<1>g. ASSUME vpcs' \subseteq VPCIds, name' \in Names \cup {NoName}, default' \in Actions,
             items' \in Lists, nextItem' \in 1 .. MaxItemId + 1, nextVPC' \in 1 .. MaxVPCId + 1,
             tf' \in StateType, want' \in Wants, pc' \in {"idle", "creating", "updating"},
             pc' = "idle" => vpc' = NoId, pc' # "idle" => vpc' \in VPCIds,
             renaming' \in BOOLEAN, defaulting' \in BOOLEAN,
             doomed' \in [Kinds -> SUBSET ItemIds], fresh' \in [Kinds -> SUBSET Nat],
             \A k \in Kinds : fresh'[k] \subseteq 1 .. PlanLen(k)',
             result' \in Results, current' \in BOOLEAN, quiet' \in BOOLEAN,
             abandoned' \subseteq VPCIds, misread' \subseteq VPCIds,
             faults' \in 0 .. MaxFaults, drifts' \in 0 .. MaxDrift, edits' \in 0 .. MaxEdits
      PROVE  TypeOK'
  BY <1>g DEF TypeOK, StateType, Lists, Results, Idle
<1>l. ASSUME want' = want PROVE \A k : PlanLen(k)' = PlanLen(k)
  BY <1>l DEF PlanLen
(* The handler ends. *)
<1>e. ASSUME NEW r \in Results, Finish(r)
      PROVE  /\ pc' = "idle" /\ vpc' = NoId /\ result' \in Results
             /\ renaming' \in BOOLEAN /\ defaulting' \in BOOLEAN
             /\ doomed' \in [Kinds -> SUBSET ItemIds] /\ fresh' \in [Kinds -> SUBSET Nat]
             /\ \A k \in Kinds : fresh'[k] \subseteq 1 .. PlanLen(k)'
  BY <1>e, <1>n DEF Finish
<1>1. CASE CreateVPC
  <2>1. fresh' = [k \in Kinds |-> 1 .. PlanLen(k)] /\ want' = want
    BY <1>1 DEF CreateVPC
  <2>2. \A k \in Kinds : 1 .. PlanLen(k) \subseteq Nat
    BY <1>t, WantType
  <2>3. fresh' \in [Kinds -> SUBSET Nat] /\ \A k \in Kinds : fresh'[k] \subseteq 1 .. PlanLen(k)'
    BY <1>l, <2>1, <2>2
  <2>4. /\ vpcs' \subseteq VPCIds /\ nextVPC' \in 1 .. MaxVPCId + 1 /\ vpc' \in VPCIds
    BY <1>1, <1>x, <1>t, PostVPCKeeps DEF CreateVPC
  <2>5. /\ name' \in Names \cup {NoName} /\ default' \in Actions /\ result' \in Results
        /\ current' \in BOOLEAN /\ quiet' \in BOOLEAN
        /\ renaming' \in BOOLEAN /\ defaulting' \in BOOLEAN
    BY <1>1, <1>t, WantType DEF CreateVPC, Actions, Results
  <2> QED BY <1>1, <1>b, <1>g, <1>n, <1>t, <2>3, <2>4, <2>5 DEF CreateVPC, bounds
<1>2. CASE CreateVPCFails
  <2>1. /\ vpcs' \subseteq VPCIds /\ nextVPC' \in 1 .. MaxVPCId + 1 /\ abandoned' \subseteq VPCIds
    BY <1>2, <1>x, <1>t, PostVPCKeeps DEF CreateVPCFails
  <2>2. "error" \in Results /\ Finish("error") /\ faults' \in 0 .. MaxFaults
    BY <1>2, <1>f DEF CreateVPCFails, Results
  <2> QED BY <1>2, <1>b, <1>e, <1>g, <1>t, <2>1, <2>2 DEF CreateVPCFails
<1>3. CASE UpdateBegins
  <2>1. /\ doomed' = [k \in Kinds |-> Doomed(k)] /\ fresh' = [k \in Kinds |-> Fresh(k)]
        /\ want' = want
    BY <1>3 DEF UpdateBegins
  <2>2. doomed' \in [Kinds -> SUBSET ItemIds]
    BY <1>x, <2>1, DoomedTail
  <2>3. \A k \in Kinds : Fresh(k) \subseteq 1 .. PlanLen(k) /\ 1 .. PlanLen(k) \subseteq Nat
    BY <1>t, WantType DEF Fresh
  <2>4. fresh' \in [Kinds -> SUBSET Nat] /\ \A k \in Kinds : fresh'[k] \subseteq 1 .. PlanLen(k)'
    BY <1>l, <2>1, <2>3
  <2>5. /\ renaming' \in BOOLEAN /\ defaulting' \in BOOLEAN /\ result' \in Results
        /\ current' \in BOOLEAN /\ quiet' \in BOOLEAN
    BY <1>3 DEF UpdateBegins, Results
  <2>6. pc' = "updating" /\ vpc' \in VPCIds
    BY <1>3, <1>i DEF UpdateBegins, Planned
  <2> QED BY <1>3, <1>b, <1>g, <1>t, <2>2, <2>4, <2>5, <2>6 DEF UpdateBegins, controller, bounds
<1>4. CASE Rename
  <2>1. name' \in Names \cup {NoName} /\ renaming' \in BOOLEAN
    BY <1>4, <1>t, WantType DEF Rename
  <2>2. want' = want /\ fresh' = fresh
    BY <1>4 DEF Rename
  <2> QED BY <1>4, <1>b, <1>g, <1>l, <1>t, <2>1, <2>2 DEF Rename, history, bounds
<1>5. ASSUME NEW k \in Kinds, RemoveSaved(k) PROVE TypeOK'
  <2>1. PICK i \in doomed[k] : RemoveItem(k, i) /\ doomed' = [doomed EXCEPT ![k] = doomed[k] \ {i}]
    BY <1>5 DEF RemoveSaved
  <2>2. items' \in Lists
    BY <1>x, <2>1, RemoveItemKeeps
  <2>3. doomed' \in [Kinds -> SUBSET ItemIds]
    BY <1>t, <2>1
  <2>4. /\ UNCHANGED <<vpcs, name, default, nextItem, nextVPC, tf, want, pc, vpc, renaming,
                       fresh, defaulting, result, history, bounds>>
    BY <1>5 DEF RemoveSaved
  <2> QED BY <1>b, <1>g, <1>l, <1>t, <2>2, <2>3, <2>4 DEF history, bounds
<1>6. ASSUME NEW k \in Kinds, AddFresh(k) PROVE TypeOK'
  <2>1. PICK n \in fresh[k] : /\ PostItem(k, want.lists[k][n])
                              /\ fresh' = [fresh EXCEPT ![k] = fresh[k] \ {n}]
    BY <1>6 DEF AddFresh
  <2>2. want.lists[k][n] \in Matches
    BY <1>t, WantType
  <2>3. items' \in Lists /\ nextItem' \in 1 .. MaxItemId + 1
    BY <1>x, <2>1, <2>2, PostItemKeeps
  <2>4. /\ UNCHANGED <<vpcs, name, default, nextVPC, tf, want, pc, vpc, renaming, doomed,
                       defaulting, result, history, bounds>>
    BY <1>6 DEF AddFresh
  <2>5. fresh' \in [Kinds -> SUBSET Nat] /\ \A j \in Kinds : fresh'[j] \subseteq fresh[j]
    BY <1>t, <2>1
  <2>6. \A j \in Kinds : fresh'[j] \subseteq 1 .. PlanLen(j)'
    BY <1>l, <1>t, <2>4, <2>5
  <2> QED BY <1>b, <1>g, <1>t, <2>3, <2>4, <2>5, <2>6 DEF history, bounds
<1>7. CASE SetFirewallDefault
  <2>1. default' \in Actions /\ defaulting' \in BOOLEAN
    BY <1>7, <1>t, WantType DEF SetFirewallDefault
  <2> QED BY <1>7, <1>b, <1>g, <1>l, <1>t, <2>1 DEF SetFirewallDefault, history, bounds
<1>8. CASE UpdateFails
  <2>1. /\ faults' \in 0 .. MaxFaults /\ items' \in Lists /\ nextItem' \in 1 .. MaxItemId + 1
        /\ name' \in Names \cup {NoName} /\ default' \in Actions
    BY <1>8, <1>x, DueFailsKeeps DEF UpdateFails
  <2>2. "error" \in Results /\ Finish("error")
    BY <1>8 DEF UpdateFails, Results
  <2>3. UNCHANGED <<vpcs, nextVPC, tf, want, history, drifts, edits>>
    BY <1>8 DEF UpdateFails
  <2> QED BY <1>b, <1>e, <1>g, <1>t, <2>1, <2>2, <2>3 DEF history
<1>9. CASE CreateFails
  <2>1. "error" \in Results /\ Finish("error") /\ Forget
    BY <1>9 DEF CreateFails, Results
  <2>2. faults' \in 0 .. MaxFaults /\ abandoned' \subseteq VPCIds
    BY <1>9, <1>b, <1>f, <1>t DEF CreateFails
  <2> QED BY <1>9, <1>b, <1>e, <1>g, <1>h, <1>t, <2>1, <2>2 DEF CreateFails
<1>10. CASE Return
  <2>1. vpc \in VPCIds /\ Save(vpc)
    BY <1>10, <1>t DEF Return
  <2>2. tf' \in StateType
    BY <1>x, <2>1, SaveType
  <2>3. \E r \in Results : Finish(r)
    BY <1>10 DEF Return, Results
  <2> QED BY <1>10, <1>b, <1>e, <1>g, <1>t, <2>2, <2>3 DEF Return, controller, history, bounds
<1>11. CASE Read
  <2>1. tf' \in StateType
    BY <1>11, <1>x, <1>i, <1>t, SaveType DEF Read
  <2> QED BY <1>11, <1>b, <1>g, <1>l, <1>t, <2>1 DEF Read, Results, controller, locals, bounds
<1>12. CASE ReadFails
  <2>1. /\ items' \in Lists /\ name' \in Names \cup {NoName} /\ default' \in Actions
        /\ tf' \in StateType /\ result' \in Results /\ misread' \subseteq VPCIds
    BY <1>12, <1>h, <1>i, <1>t DEF ReadFails, Results
  <2> QED BY <1>12, <1>b, <1>f, <1>g, <1>l, <1>t, <2>1 DEF ReadFails, locals
<1>13. CASE Delete
  <2>1. "deleted" \in Results /\ Finish("deleted") /\ Forget /\ vpcs' \subseteq vpcs
    BY <1>13 DEF Delete, DeleteVPC, Results
  <2> QED BY <1>13, <1>b, <1>e, <1>g, <1>h, <1>t, <2>1 DEF Delete, history, bounds
<1>14. CASE DeleteFails
  <2>1. "error" \in Results /\ Finish("error")
    BY <1>14 DEF DeleteFails, Results
  <2>2. /\ items' \in Lists /\ name' \in Names \cup {NoName} /\ default' \in Actions
        /\ vpcs' \subseteq VPCIds /\ faults' \in 0 .. MaxFaults
    BY <1>14, <1>b, <1>f, <1>h, <1>t DEF DeleteFails, DeleteVPC
  <2> QED BY <1>14, <1>b, <1>e, <1>g, <1>t, <2>1, <2>2 DEF DeleteFails, history
<1>15. CASE Foreign
  <2>1. drifts < MaxDrift /\ drifts' = drifts + 1 /\ quiet' = FALSE
    BY <1>15 DEF Foreign
  <2>2. drifts' \in 0 .. MaxDrift
    BY <1>x, <2>1, Counters
  <2>3. UNCHANGED <<nextVPC, tf, want, locals, result, current, abandoned, misread, faults, edits>>
    BY <1>15 DEF Foreign
  <2>4. /\ items' \in Lists /\ nextItem' \in 1 .. MaxItemId + 1 /\ vpcs' \subseteq VPCIds
        /\ name' \in Names \cup {NoName} /\ default' \in Actions
    <3>1. ASSUME NEW k \in Kinds, NEW m \in Matches, PostItem(k, m), UNCHANGED <<vpcs, name, default>>
          PROVE  <2>4
      BY <1>x, <1>t, <3>1, PostItemKeeps
    <3>2. ASSUME NEW k \in Kinds, NEW i \in IdsOf(items[k]), RemoveItem(k, i),
                 UNCHANGED <<vpcs, name, default, nextItem>>
          PROVE  <2>4
      BY <1>x, <1>t, <3>2, RemoveItemKeeps
    <3>3. CASE default' \in Actions /\ name' \in Names /\ UNCHANGED <<vpcs, items, nextItem>>
      BY <1>t, <3>3
    <3>4. CASE vpcs' = vpcs \ {Followed} /\ Forget /\ UNCHANGED nextItem
      BY <1>h, <1>t, <3>4
    <3> QED BY <1>15, <3>1, <3>2, <3>3, <3>4 DEF Foreign
  <2> QED BY <1>b, <1>g, <1>l, <1>t, <2>1, <2>2, <2>3, <2>4 DEF locals
<1>16. CASE Edit
  <2>1. edits' \in 0 .. MaxEdits
    BY <1>16, <1>x, Counters DEF Edit
  <2>2. fresh = None /\ UNCHANGED <<controller, tf, locals, history, faults, drifts>> /\ want' \in Wants
    BY <1>16 DEF Edit, Idle, Running
  <2>3. \A k \in Kinds : fresh'[k] \subseteq 1 .. PlanLen(k)'
    BY <1>n, <2>2 DEF locals
  <2> QED BY <1>16, <1>b, <1>g, <1>t, <2>1, <2>2, <2>3 DEF Edit, Results, controller, locals, history
<1>17. CASE UNCHANGED vars
  BY <1>17, <1>b, <1>g, <1>l, <1>t DEF vars, controller, locals, history, bounds
<1> QED
  BY <1>1, <1>2, <1>3, <1>4, <1>5, <1>6, <1>7, <1>8, <1>9, <1>10, <1>11, <1>12, <1>13,
     <1>14, <1>15, <1>16, <1>17 DEF Next, Step

(* Every step keeps what a running handler has still to do.                *)
LEMMA RunningStep ==
    ASSUME TypeOK, Running, [Next]_vars
    PROVE  Running'
<1> USE Distinct
<1>x. TypeOK
  OBVIOUS
<1>n. \A k \in Kinds : None[k] = {}
  BY DEF None
<1>e. ASSUME NEW r, Finish(r) PROVE Running'
  BY <1>e, <1>n DEF Finish, Running
<1>t. doomed \in [Kinds -> SUBSET ItemIds] /\ (pc = "idle" => vpc = NoId)
  BY DEF TypeOK, Idle
(* Steps of a handler. *)
<1>s. ASSUME UNCHANGED <<pc, vpc, tf, want>>, \A k \in Kinds : doomed'[k] \subseteq doomed[k],
             pc = "idle" => UNCHANGED <<doomed, fresh>>
      PROVE  Running'
  BY <1>s DEF Running, PlanLen, SavedLen
(* Steps between handlers. *)
<1>i. ASSUME pc = "idle", UNCHANGED <<pc, doomed, fresh>> PROVE Running'
  BY <1>i, <1>n DEF Running
<1>1. CASE CreateVPC
  BY <1>1, <1>n DEF CreateVPC, Running
<1>2. CASE UpdateBegins
  <2>1. \A k \in Kinds : doomed'[k] = Doomed(k)
    BY <1>2 DEF UpdateBegins
  <2>2. UNCHANGED <<tf, want>> /\ pc' = "updating" /\ vpc' = tf.id
    BY <1>2 DEF UpdateBegins
  <2>3. \A k \in Kinds : PlanLen(k)' = PlanLen(k) /\ SavedLen(k)' = SavedLen(k)
    BY <2>2 DEF PlanLen, SavedLen
  <2>4. \A k \in Kinds : \A i \in Doomed(k) :
           \E n \in PlanLen(k) + 1 .. SavedLen(k) : tf.lists[k][n].id = i
    BY <1>x, DoomedTail
  <2>5. ASSUME NEW k \in Kinds, NEW i \in doomed'[k]
        PROVE  \E n \in PlanLen(k)' + 1 .. SavedLen(k)' : tf'.lists[k][n].id = i
    BY <2>1, <2>2, <2>3, <2>4
  <2> QED BY <2>2, <2>5 DEF Running
<1>3. CASE Rename
  BY <1>3, <1>s DEF Rename
<1>4. ASSUME NEW k \in Kinds, RemoveSaved(k) PROVE Running'
  <2>1. \A j \in Kinds : doomed'[j] \subseteq doomed[j]
    BY <1>4, <1>t DEF RemoveSaved
  <2> QED BY <1>4, <1>s, <2>1 DEF RemoveSaved, Turn, Idle
<1>5. ASSUME NEW k \in Kinds, AddFresh(k) PROVE Running'
  BY <1>5, <1>s DEF AddFresh, Turn, Idle
<1>6. CASE SetFirewallDefault
  BY <1>6, <1>s DEF SetFirewallDefault
<1>7. CASE CreateVPCFails \/ UpdateFails \/ CreateFails \/ Return \/ Delete \/ DeleteFails
  BY <1>7, <1>e DEF CreateVPCFails, UpdateFails, CreateFails, Return, Delete, DeleteFails
<1>8. CASE Read \/ ReadFails \/ Edit
  BY <1>8, <1>i DEF Read, ReadFails, Edit, Idle, locals
<1>9. CASE Foreign
  <2>1. UNCHANGED <<tf, want, locals>>
    BY <1>9 DEF Foreign
  <2> QED BY <1>s, <2>1 DEF locals
<1>10. CASE UNCHANGED vars
  BY <1>10, <1>s DEF vars, locals
<1> QED
  BY <1>1, <1>2, <1>3, <1>4, <1>5, <1>6, <1>7, <1>8, <1>9, <1>10 DEF Next, Step

(* Both hold in every reachable state.                                     *)
LEMMA AlwaysRunning == Spec => [](TypeOK /\ Running)
<1>1. Init => TypeOK /\ Running
  <2> SUFFICES ASSUME Init PROVE TypeOK /\ Running
    OBVIOUS
  <2>1. /\ 0 \in 0 .. MaxFaults /\ 0 \in 0 .. MaxDrift /\ 0 \in 0 .. MaxEdits
        /\ 1 \in 1 .. MaxItemId + 1 /\ 1 \in 1 .. MaxVPCId + 1
    BY Bounds
  <2>2. /\ None \in [Kinds -> SUBSET ItemIds] /\ None \in [Kinds -> SUBSET Nat]
        /\ \A k \in Kinds : None[k] = {}
    BY DEF None
  <2>3. TypeOK
    BY <2>1, <2>2, Distinct DEF Init, TypeOK, Idle, StateType, Lists, Actions
  <2> QED BY <2>2, <2>3 DEF Init, Running
<1>2. TypeOK /\ Running /\ [Next]_vars => TypeOK' /\ Running'
  BY TypeStep, RunningStep
<1> QED BY <1>1, <1>2, PTL DEF Spec

(* Every variable has its type, for any configurations and bounds.         *)
THEOREM TypeCorrect == Spec => []TypeOK
BY AlwaysRunning, PTL

-----------------------------------------------------------------------------
(* One VPC at a time *)

(* IDs are handed out in order.                                            *)
Numbered ==
    /\ vpcs \cup abandoned \cup misread \subseteq 1 .. nextVPC - 1
    /\ tf.id < nextVPC /\ vpc < nextVPC
    /\ pc = "creating" => vpc \notin abandoned

(* The numbers, for the steps that count.                                  *)
LEMMA Numbers ==
    ASSUME TypeOK
    PROVE  /\ nextVPC \in Nat \ {0} /\ tf.id \in Nat /\ vpc \in Nat
           /\ tf.id = NoId \/ tf.id \in VPCIds
           /\ pc = "idle" => vpc = NoId
           /\ pc # "idle" => vpc \in VPCIds
           /\ pc \in {"idle", "creating", "updating"}
<1>1. nextVPC \in 1 .. MaxVPCId + 1
  BY DEF TypeOK
<1>2. nextVPC \in Nat \ {0}
  BY <1>1, Bounds
<1>3. /\ tf.id = NoId \/ tf.id \in VPCIds
      /\ pc = "idle" => vpc = NoId
      /\ pc # "idle" => vpc \in VPCIds
      /\ pc \in {"idle", "creating", "updating"}
  BY DEF TypeOK, Idle
<1>4. tf.id \in Nat /\ vpc \in Nat
  <2>1. NoId \in Nat
    BY DEF NoId
  <2>2. VPCIds \subseteq Nat
    BY Bounds DEF VPCIds
  <2> QED BY <1>3, <2>1, <2>2
<1> QED BY <1>2, <1>3, <1>4

(* Every step keeps that.                                                  *)
LEMMA NumberedStep ==
    ASSUME TypeOK, Running, Numbered, [Next]_vars
    PROVE  Numbered'
<1>x. TypeOK /\ Numbered
  OBVIOUS
<1>t. /\ nextVPC \in Nat \ {0} /\ tf.id \in Nat /\ vpc \in Nat
      /\ tf.id = NoId \/ tf.id \in VPCIds
      /\ pc = "idle" => vpc = NoId
      /\ pc # "idle" => vpc \in VPCIds
      /\ NoId = 0 /\ NoId \notin VPCIds /\ NoState.id = NoId
  BY <1>x, Numbers, Distinct
<1>a. \A c \in vpcs \cup abandoned \cup misread : c \in 1 .. nextVPC - 1
  BY DEF Numbered
(* Steps that make no VPC. *)
<1>s. ASSUME nextVPC' = nextVPC, vpcs' \subseteq vpcs,
             abandoned' \subseteq abandoned \cup ({vpc} \ {NoId}),
             misread' \subseteq misread \cup ({tf.id} \ {NoId}),
             tf'.id \in {NoId, tf.id, vpc}, vpc' \in {NoId, tf.id, vpc},
             pc' = "creating" => pc = "creating" /\ vpc' = vpc /\ abandoned' = abandoned
      PROVE  Numbered'
  <2>1. tf'.id < nextVPC' /\ vpc' < nextVPC'
    BY <1>s, <1>t DEF Numbered
  <2>2. \A c \in {tf.id, vpc} \ {NoId} : c \in 1 .. nextVPC - 1
    BY <1>t DEF Numbered
  <2>3. \A c \in vpcs' \cup abandoned' \cup misread' : c \in 1 .. nextVPC' - 1
    BY <1>a, <1>s, <2>2
  <2> QED BY <1>s, <2>1, <2>3 DEF Numbered
(* Steps that make one. *)
<1>m. ASSUME PostVPC, abandoned' \subseteq abandoned \cup {nextVPC}, misread' = misread,
             tf'.id = tf.id, vpc' \in {NoId, nextVPC},
             pc' = "creating" => vpc' = nextVPC /\ abandoned' = abandoned
      PROVE  Numbered'
  <2>1. nextVPC' = nextVPC + 1 /\ vpcs' = vpcs \cup {nextVPC}
    BY <1>m, <1>x, PostVPCKeeps
  <2>2. /\ \A c \in 1 .. nextVPC - 1 : c \in 1 .. nextVPC' - 1 /\ c # nextVPC
        /\ nextVPC \in 1 .. nextVPC' - 1
    BY <1>t, <2>1
  <2>3. tf'.id < nextVPC' /\ vpc' < nextVPC'
    BY <1>m, <1>t, <2>1 DEF Numbered
  <2>4. \A c \in vpcs' \cup abandoned' \cup misread' : c \in 1 .. nextVPC' - 1
    BY <1>a, <1>m, <2>1, <2>2
  <2> QED BY <1>a, <1>m, <2>2, <2>3, <2>4 DEF Numbered
<1>1. CASE CreateVPC
  BY <1>1, <1>m DEF CreateVPC
<1>2. CASE CreateVPCFails
  <2>1. tf' = tf /\ vpc' = NoId /\ pc' = "idle" /\ misread' = misread
    BY <1>2 DEF CreateVPCFails, Finish
  <2>2. CASE UNCHANGED <<vpcs, nextVPC, abandoned>>
    BY <1>s, <2>1, <2>2
  <2>3. CASE PostVPC /\ abandoned' = abandoned \cup {nextVPC}
    BY <1>m, <2>1, <2>3
  <2> QED BY <1>2, <2>2, <2>3 DEF CreateVPCFails
<1>3. CASE UpdateBegins
  BY <1>3, <1>s DEF UpdateBegins, controller
<1>4. CASE Rename \/ (\E k \in Kinds : RemoveSaved(k) \/ AddFresh(k)) \/ SetFirewallDefault
  <2>1. UNCHANGED <<vpcs, nextVPC, tf, pc, vpc, history>>
    BY <1>4 DEF Rename, RemoveSaved, AddFresh, SetFirewallDefault
  <2> QED BY <1>s, <2>1 DEF history
<1>5. CASE UpdateFails
  BY <1>5, <1>s DEF UpdateFails, Finish, history
<1>6. CASE CreateFails
  BY <1>6, <1>s, <1>t DEF CreateFails, Finish
<1>7. CASE Return
  BY <1>7, <1>s DEF Return, Save, Finish, controller, history
<1>8. CASE Read
  <2>1. tf'.id \in {tf.id, NoId}
    BY <1>8, <1>t DEF Read, Save
  <2> QED BY <1>8, <1>s, <2>1 DEF Read, controller, locals
<1>9. CASE ReadFails
  BY <1>9, <1>s, <1>t DEF ReadFails, locals
<1>10. CASE Delete
  BY <1>10, <1>s, <1>t DEF Delete, DeleteVPC, Finish, history
<1>11. CASE DeleteFails
  BY <1>11, <1>s DEF DeleteFails, DeleteVPC, Finish, history
<1>12. CASE Foreign
  <2>1. UNCHANGED <<nextVPC, tf, locals, abandoned, misread>>
    BY <1>12 DEF Foreign
  <2>2. vpcs' \subseteq vpcs
    BY <1>12 DEF Foreign
  <2> QED BY <1>s, <2>1, <2>2 DEF locals
<1>13. CASE Edit
  BY <1>13, <1>s DEF Edit, controller, locals, history
<1>14. CASE UNCHANGED vars
  BY <1>14, <1>s DEF vars, controller, locals, history
<1> QED
  BY <1>1, <1>2, <1>3, <1>4, <1>5, <1>6, <1>7, <1>8, <1>9, <1>10, <1>11, <1>12, <1>13,
     <1>14 DEF Next, Step

(* Numbered holds in every reachable state.                                *)
LEMMA AlwaysNumbered == Spec => []Numbered
<1>1. Init => Numbered
  <2> SUFFICES ASSUME Init PROVE Numbered
    OBVIOUS
  <2>1. /\ vpcs = {} /\ abandoned = {} /\ misread = {} /\ nextVPC = 1 /\ tf.id = 0 /\ vpc = 0
        /\ pc = "idle"
    BY Distinct DEF Init
  <2> QED BY <2>1 DEF Numbered
<1>2. TypeOK /\ Running /\ Numbered /\ [Next]_vars => Numbered'
  BY NumberedStep
<1> QED BY <1>1, <1>2, AlwaysRunning, PTL DEF Spec

(* A step that changes neither the VPCs nor which one is followed.         *)
LEMMA Stutter ==
    ASSUME vpcs' = vpcs, tf'.id = tf.id, Followed' = Followed,
           abandoned' = abandoned, misread' = misread
    PROVE  [Object!Next]_Object!vars
BY DEF Object!vars

(* A request that fails is a failure of ManagedObject.                     *)
LEMMA FaultFails ==
    ASSUME TypeOK, Fault
    PROVE  Object!Failure
<1>1. faults \in 0 .. MaxFaults
  BY DEF TypeOK
<1>2. MaxFaults \in Nat
  BY VPCAssumption
<1> QED BY <1>1, <1>2 DEF Fault, Object!Failure

(* Every step is one of ManagedObject, or leaves its variables alone.      *)
LEMMA ObjectStep ==
    ASSUME TypeOK, Running, Numbered, [Next]_vars
    PROVE  [Object!Next]_Object!vars
<1>x. TypeOK
  OBVIOUS
<1>t. /\ pc \in {"idle", "creating", "updating"}
      /\ pc = "idle" => vpc = NoId /\ Followed = tf.id
      /\ pc # "idle" => vpc \in VPCIds /\ Followed = vpc
      /\ pc' = "idle" => Followed' = tf'.id
      /\ pc' # "idle" => Followed' = vpc'
      /\ pc = "creating" => tf.id = NoId
      /\ pc = "updating" => tf.id = vpc
      /\ NoId \notin VPCIds /\ NoState.id = NoId /\ vpcs \subseteq VPCIds
  BY <1>x, Numbers, Distinct DEF Running, Idle, Followed, TypeOK
<1>p. ASSUME PostVPC
      PROVE  /\ nextVPC \in VPCIds \ (vpcs \cup (abandoned \cup misread))
             /\ vpcs' = vpcs \cup {nextVPC}
  <2>1. nextVPC \notin 1 .. nextVPC - 1
    BY <1>x, Numbers
  <2> QED BY <1>p, <1>x, <2>1, PostVPCKeeps DEF Numbered
<1>1. CASE CreateVPC
  <2>1. /\ PostVPC /\ Followed = NoId /\ Followed' = nextVPC /\ tf'.id = NoId
        /\ UNCHANGED <<abandoned, misread>>
    BY <1>1, <1>t DEF CreateVPC, Idle
  <2>2. Object!Make
    BY <1>p, <2>1 DEF Object!Make
  <2> QED BY <2>2 DEF Object!Next
<1>2. CASE CreateVPCFails
  <2>1. Followed = NoId /\ tf' = tf /\ Followed' = Followed /\ misread' = misread
    BY <1>2, <1>t DEF CreateVPCFails, Idle, Finish
  <2>2. CASE UNCHANGED <<vpcs, nextVPC, abandoned>>
    BY <2>1, <2>2, Stutter
  <2>3. CASE PostVPC /\ abandoned' = abandoned \cup {nextVPC}
    <3>1. Object!MakeLost
      BY <1>2, <1>p, <2>1, <2>3, FaultFails DEF CreateVPCFails, Object!MakeLost
    <3> QED BY <3>1 DEF Object!Next
  <2> QED BY <1>2, <2>2, <2>3 DEF CreateVPCFails
<1>3. CASE UpdateBegins
  BY <1>3, <1>t, Stutter DEF UpdateBegins, Planned, Idle, controller
<1>4. CASE Rename \/ (\E k \in Kinds : RemoveSaved(k) \/ AddFresh(k)) \/ SetFirewallDefault
  <2>1. UNCHANGED <<vpcs, tf, pc, vpc, history>>
    BY <1>4 DEF Rename, RemoveSaved, AddFresh, SetFirewallDefault
  <2>2. Followed' = Followed
    BY <1>t, <2>1
  <2> QED BY <2>1, <2>2, Stutter DEF history
<1>5. CASE UpdateFails
  <2>1. UNCHANGED <<vpcs, tf, history>> /\ pc = "updating" /\ pc' = "idle"
    BY <1>5 DEF UpdateFails, Finish
  <2>2. Followed' = Followed
    BY <1>t, <2>1
  <2> QED BY <2>1, <2>2, Stutter DEF history
<1>6. CASE CreateFails
  <2>1. /\ Followed = vpc /\ vpc # NoId /\ tf.id = NoId /\ tf' = tf /\ Followed' = NoId
        /\ vpcs' = vpcs /\ abandoned' = abandoned \cup {vpc} /\ misread' = misread
        /\ vpc \in vpcs => Object!Failure
    BY <1>6, <1>t, FaultFails DEF CreateFails, Finish
  <2>2. Object!Abandon
    BY <2>1 DEF Object!Abandon
  <2> QED BY <2>2 DEF Object!Next
<1>7. CASE Return
  <2>1. /\ Followed = vpc /\ vpc # NoId /\ tf'.id = vpc /\ Followed' = vpc
        /\ UNCHANGED <<vpcs, abandoned, misread>>
    BY <1>7, <1>t DEF Return, ItemsDone, Idle, Save, Finish, controller, history
  <2>2. Object!Save
    BY <2>1 DEF Object!Save
  <2> QED BY <2>2 DEF Object!Next
<1>8. CASE Read
  <2>1. UNCHANGED <<vpcs, abandoned, misread, pc>> /\ pc = "idle" /\ tf.id # NoId
    BY <1>8 DEF Read, controller, locals, Idle
  <2>2. CASE tf.id \in vpcs
    BY <1>8, <1>t, <2>1, <2>2, Stutter DEF Read, Save
  <2>3. CASE tf.id \notin vpcs
    <3>1. Object!Forget
      BY <1>8, <1>t, <2>1, <2>3 DEF Read, Object!Forget
    <3> QED BY <3>1 DEF Object!Next
  <2> QED BY <2>2, <2>3
<1>9. CASE ReadFails
  <2>1. UNCHANGED <<vpcs, abandoned, pc>> /\ pc = "idle" /\ tf.id # NoId
    BY <1>9 DEF ReadFails, locals, Idle
  <2>2. CASE UNCHANGED <<tf, misread>>
    BY <1>t, <2>1, <2>2, Stutter
  <2>3. CASE tf' = NoState /\ misread' = misread \cup {tf.id}
    <3>1. Object!Forget
      BY <1>9, <1>t, <2>1, <2>3, FaultFails DEF ReadFails, Object!Forget
    <3> QED BY <3>1 DEF Object!Next
  <2> QED BY <1>9, <2>2, <2>3 DEF ReadFails
<1>10. CASE Delete \/ DeleteFails
  <2>1. /\ pc = "idle" /\ pc' = "idle" /\ UNCHANGED <<abandoned, misread>>
        /\ tf' \in {tf, NoState}
    BY <1>10 DEF Delete, DeleteFails, Planned, Idle, Finish, history
  <2>2. CASE DeleteVPC
    <3>1. Object!Remove
      BY <1>t, <2>1, <2>2 DEF DeleteVPC, Object!Remove
    <3> QED BY <3>1 DEF Object!Next
  <2>3. CASE UNCHANGED <<vpcs, tf>>
    BY <1>t, <2>1, <2>3, Stutter
  <2> QED BY <1>10, <2>2, <2>3 DEF Delete, DeleteFails
<1>11. CASE Foreign
  <2>1. UNCHANGED <<tf, locals, abandoned, misread>>
    BY <1>11 DEF Foreign
  <2>2. Followed' = Followed
    BY <1>t, <2>1 DEF locals
  <2>3. CASE vpcs' = vpcs
    BY <2>1, <2>2, <2>3, Stutter
  <2>4. CASE Followed \in vpcs /\ vpcs' = vpcs \ {Followed}
    <3>1. Object!Vanish
      BY <2>1, <2>2, <2>4 DEF Object!Vanish
    <3> QED BY <3>1 DEF Object!Next
  <2> QED BY <1>11, <2>3, <2>4 DEF Foreign
<1>12. CASE Edit
  BY <1>12, <1>t, Stutter DEF Edit, Idle, controller, locals, history
<1>13. CASE UNCHANGED vars
  <2>1. UNCHANGED <<vpcs, tf, pc, vpc, abandoned, misread>>
    BY <1>13 DEF vars, controller, locals, history
  <2>2. Followed' = Followed
    BY <1>t, <2>1
  <2> QED BY <2>1, <2>2, Stutter
<1> QED
  BY <1>1, <1>2, <1>3, <1>4, <1>5, <1>6, <1>7, <1>8, <1>9, <1>10, <1>11, <1>12,
     <1>13 DEF Next, Step

(* A VPC resource makes, follows and deletes one VPC at a time, and loses  *)
(* one only where an error explains it, however many requests its items    *)
(* take and wherever they end.                                             *)
THEOREM Implements == Spec => ImplementsManagedObject
<1>1. Init => Object!Init
  BY Distinct DEF Init, Object!Init, Followed, Idle
<1>2. TypeOK /\ Running /\ Numbered /\ [Next]_vars => [Object!Next]_Object!vars
  BY ObjectStep
<1> QED BY <1>1, <1>2, AlwaysRunning, AlwaysNumbered, PTL
        DEF Spec, ImplementsManagedObject, Object!Spec

(* A lost object is never followed again, and one that exists without      *)
(* being followed is one that an error explains: ManagedObject says so of  *)
(* whatever implements it, and this is the instance for a VPC.             *)
LEMMA ManagedIsAccounted == Object!Spec => []Object!Accounted
<1>1. Object!Init => Object!TypeOK /\ Object!Accounted
  BY DEF Object!Init, Object!TypeOK, Object!Accounted
<1>2. Object!TypeOK /\ Object!Accounted /\ [Object!Next]_Object!vars
        => Object!TypeOK' /\ Object!Accounted'
  <2> SUFFICES ASSUME Object!TypeOK, Object!Accounted, [Object!Next]_Object!vars
               PROVE  Object!TypeOK' /\ Object!Accounted'
    OBVIOUS
  <2> DEFINE lost == abandoned \cup misread
  <2> USE DEF Object!TypeOK, Object!Accounted
  <2>d. NoId \notin VPCIds
    BY Distinct
  <2>1. CASE Object!Make
    <3>1. PICK i \in VPCIds \ (vpcs \cup lost) :
             vpcs' = vpcs \cup {i} /\ Followed' = i /\ tf'.id \in {NoId, i}
      BY <2>1 DEF Object!Make
    <3>2. abandoned' \cup misread' = lost
      BY <2>1 DEF Object!Make
    <3>3. i \in VPCIds /\ i \notin vpcs /\ i \notin lost
      BY <3>1
    <3>4. Followed = NoId
      BY <2>1 DEF Object!Make
    <3>5. vpcs \subseteq VPCIds /\ lost \subseteq VPCIds /\ vpcs \ {NoId} \subseteq lost
      BY <3>4
    <3>6. vpcs' \subseteq VPCIds /\ tf'.id \in {NoId, i} /\ Followed' = i
      BY <3>1, <3>3, <3>5
    <3>7. vpcs' \ {i} \subseteq lost
      BY <3>1, <3>5, <2>d
    <3>8. Object!TypeOK'
      BY <3>2, <3>3, <3>5, <3>6
    <3>9. Object!Accounted'
      BY <3>2, <3>3, <3>6, <3>7
    <3> QED BY <3>8, <3>9
  <2>2. CASE Object!MakeLost
    BY <2>2 DEF Object!MakeLost
  <2>3. CASE Object!Save \/ Object!Abandon
    BY <2>3 DEF Object!Save, Object!Abandon
  <2>4. CASE Object!Remove
    <3>1. tf.id \in VPCIds /\ Followed = tf.id
      BY <2>4, <2>d DEF Object!Remove
    <3> QED BY <2>4, <3>1 DEF Object!Remove
  <2>5. CASE Object!Forget
    <3>1. Followed = tf.id
      BY <2>5 DEF Object!Forget
    <3> QED BY <2>5, <3>1 DEF Object!Forget
  <2>6. CASE Object!Vanish \/ UNCHANGED Object!vars
    BY <2>6 DEF Object!Vanish, Object!vars
  <2> QED BY <2>1, <2>2, <2>3, <2>4, <2>5, <2>6 DEF Object!Next
<1> QED BY <1>1, <1>2, PTL DEF Object!Spec

(* A VPC that was lost is not taken up again, and every VPC that exists    *)
(* and is not followed is one that a Create that reported an error, or a   *)
(* Read that misread one, lost: for any configurations, faults and bounds. *)
THEOREM LostIsAccounted == Spec => []Object!Accounted
BY Implements, ManagedIsAccounted, PTL DEF ImplementsManagedObject

-----------------------------------------------------------------------------
(* What is taken down *)

(* While a VPC exists, the provider takes down only items that it has      *)
(* saved, and only from beyond the planned length of their list.           *)
THEOREM OnlyTails == Spec => OnlySavedTailRemoved
<1>1. TypeOK /\ Running /\ Numbered /\ [Next]_vars
        => [\A k \in Kinds : \A i \in IdsOf(items[k]) \ IdsOf(items'[k]) :
               drifts' = drifts /\ Followed \in vpcs' /\ ~Idle /\ abandoned' = abandoned
                   => \E n \in PlanLen(k) + 1 .. SavedLen(k) : tf.lists[k][n].id = i]_vars
  <2> SUFFICES ASSUME TypeOK, Running, Numbered, Next,
                      NEW k \in Kinds, NEW i \in IdsOf(items[k]) \ IdsOf(items'[k]),
                      drifts' = drifts, ~Idle, abandoned' = abandoned
               PROVE  \E n \in PlanLen(k) + 1 .. SavedLen(k) : tf.lists[k][n].id = i
    OBVIOUS
  <2>x. TypeOK
    OBVIOUS
  <2>d. i \in doomed[k] => \E n \in PlanLen(k) + 1 .. SavedLen(k) : tf.lists[k][n].id = i
    BY DEF Running
  <2>1. items' # items
    OBVIOUS
  <2>2. ASSUME NEW j \in Kinds, RemoveSaved(j) PROVE i \in doomed[k]
    <3>1. PICK d \in doomed[j] : RemoveItem(j, d)
      BY <2>2 DEF RemoveSaved
    <3>2. j = k /\ i = d
      BY <2>x, <3>1, RemoveItemKeeps
    <3> QED BY <3>1, <3>2
  <2>3. CASE UpdateFails
    <3>1. i \in doomed[k]
      BY <2>x, <2>3, DueFailsKeeps DEF UpdateFails
    <3> QED BY <2>d, <3>1
  <2>4. ASSUME NEW j \in Kinds, AddFresh(j) PROVE FALSE
    <3>1. PICK n \in fresh[j] : PostItem(j, want.lists[j][n])
      BY <2>4 DEF AddFresh
    <3>2. want.lists[j][n] \in Matches
      BY <3>1, WantType DEF TypeOK
    <3> QED BY <2>x, <3>1, <3>2, PostItemKeeps
  <2>5. ~CreateFails
    BY <2>x, Numbers DEF CreateFails, Numbered
  <2>6. ~Foreign
    <3>1. drifts \in 0 .. MaxDrift
      BY DEF TypeOK
    <3>2. drifts' # drifts + 1
      BY <3>1, Bounds
    <3> QED BY <3>2 DEF Foreign
  <2>7. ~(Rename \/ SetFirewallDefault \/ Return)
    BY <2>1 DEF Rename, SetFirewallDefault, Return, controller
  <2>8. ~(CreateVPC \/ CreateVPCFails \/ UpdateBegins \/ Read \/ ReadFails \/ Delete
          \/ DeleteFails \/ Edit)
    BY DEF CreateVPC, CreateVPCFails, UpdateBegins, Read, ReadFails, Delete, DeleteFails, Edit,
       Planned
  <2> QED BY <2>d, <2>2, <2>3, <2>4, <2>5, <2>6, <2>7, <2>8 DEF Next, Step
<1> QED BY <1>1, AlwaysRunning, AlwaysNumbered, PTL DEF Spec, OnlySavedTailRemoved

-----------------------------------------------------------------------------
(* What a successful Create or Update leaves *)

(* An item is added at the end of its list.                                *)
LEMMA PostItemAppends ==
    ASSUME TypeOK, NEW k \in Kinds, NEW m \in Matches, PostItem(k, m)
    PROVE  /\ nextItem' = nextItem + 1 /\ \A j \in Kinds \ {k} : items'[j] = items[j]
           /\ Len(items'[k]) = Len(items[k]) + 1
           /\ \A n \in 1 .. Len(items[k]) : items'[k][n] = items[k][n]
           /\ items'[k][Len(items[k]) + 1] = [id |-> nextItem, match |-> m]
<1>1. items \in Lists /\ nextItem \in 1 .. MaxItemId + 1
  BY DEF TypeOK, Lists
<1>2. nextItem <= MaxItemId /\ nextItem' = nextItem + 1
      /\ items' = [items EXCEPT ![k] = Append(items[k], [id |-> nextItem, match |-> m])]
  BY DEF PostItem
<1>3. nextItem \in ItemIds
  BY <1>1, <1>2, Bounds DEF ItemIds
<1> DEFINE new == [id |-> nextItem, match |-> m]
<1>4. new \in Item
  BY <1>3 DEF Item
<1> HIDE DEF new
<1>5. items[k] \in Seq(Item) /\ items' = [items EXCEPT ![k] = Append(items[k], new)]
  BY <1>1, <1>2 DEF Lists, new
<1>6. /\ Len(Append(items[k], new)) = Len(items[k]) + 1
      /\ \A i \in 1 .. Len(items[k]) : Append(items[k], new)[i] = items[k][i]
      /\ Append(items[k], new)[Len(items[k]) + 1] = new
  BY <1>4, <1>5, AppendProperties
<1>7. items'[k] = Append(items[k], new) /\ \A j \in Kinds \ {k} : items'[j] = items[j]
  BY <1>1, <1>5 DEF Lists
<1> QED BY <1>2, <1>6, <1>7 DEF new

(* When one is removed, those after it move up.                            *)
LEMMA RemoveItemShifts ==
    ASSUME TypeOK, NEW k \in Kinds, NEW i, RemoveItem(k, i)
    PROVE  \E p \in 1 .. Len(items[k]) :
              /\ items[k][p].id = i /\ \A j \in Kinds \ {k} : items'[j] = items[j]
              /\ Len(items'[k]) = Len(items[k]) - 1
              /\ \A n \in 1 .. Len(items[k]) - 1 :
                    items'[k][n] = IF n < p THEN items[k][n] ELSE items[k][n + 1]
<1>1. items \in Lists /\ items[k] \in Seq(Item)
  BY DEF TypeOK, Lists
<1>2. PICK p \in DOMAIN items[k] :
         items[k][p].id = i /\ items' = [items EXCEPT ![k] = RemoveAt(items[k], p)]
  BY DEF RemoveItem
<1>3. p \in 1 .. Len(items[k])
  BY <1>1, <1>2
<1>4. items'[k] = RemoveAt(items[k], p) /\ \A j \in Kinds \ {k} : items'[j] = items[j]
  BY <1>1, <1>2 DEF Lists
<1>5. /\ Len(RemoveAt(items[k], p)) = Len(items[k]) - 1
      /\ \A n \in 1 .. Len(items[k]) - 1 :
            RemoveAt(items[k], p)[n] = IF n < p THEN items[k][n] ELSE items[k][n + 1]
  BY <1>1, <1>3, RemoveAtShifts
<1> QED BY <1>2, <1>3, <1>4, <1>5

(* The ways the items change: one is added or removed, or all are          *)
(* forgotten.                                                              *)
LEMMA ItemsChange ==
    ASSUME TypeOK, [Next]_vars
    PROVE  \/ items' = items /\ nextItem' = nextItem
           \/ items' = NoItems /\ nextItem' = nextItem
           \/ \E k \in Kinds, m \in Matches : PostItem(k, m)
           \/ \E k \in Kinds : \E i : RemoveItem(k, i) /\ nextItem' = nextItem
<1> DEFINE Same == items' = items /\ nextItem' = nextItem
           Gone == items' = NoItems /\ nextItem' = nextItem
           Posted == \E k \in Kinds, m \in Matches : PostItem(k, m)
           Removed == \E k \in Kinds : \E i : RemoveItem(k, i) /\ nextItem' = nextItem
<1>t. \A k \in Kinds : \A n \in fresh[k] : want.lists[k][n] \in Matches
  BY WantType DEF TypeOK
<1>1. CASE CreateVPC \/ CreateVPCFails \/ UpdateBegins \/ Rename \/ SetFirewallDefault
           \/ Return \/ Read \/ Edit \/ UNCHANGED vars
  BY <1>1 DEF CreateVPC, CreateVPCFails, UpdateBegins, Rename, SetFirewallDefault, Return,
     Read, Edit, vars, controller
<1>2. CASE CreateFails \/ ReadFails \/ Delete \/ DeleteFails
  BY <1>2 DEF CreateFails, ReadFails, Delete, DeleteFails, DeleteVPC, Forget
<1>3. ASSUME NEW k \in Kinds, RemoveSaved(k) PROVE Removed
  BY <1>3 DEF RemoveSaved
<1>4. ASSUME NEW k \in Kinds, AddFresh(k) PROVE Posted
  BY <1>4, <1>t DEF AddFresh
<1>5. CASE UpdateFails
  <2>1. CASE UNCHANGED <<items, nextItem>>
    BY <2>1
  <2>2. ASSUME NEW k \in Kinds, NEW i \in doomed[k],
               Due(RemoveItem(k, i) /\ UNCHANGED <<name, default, nextItem>>)
        PROVE  Same \/ Removed
    BY <2>2 DEF Due
  <2>3. ASSUME NEW k \in Kinds, NEW n \in fresh[k],
               Due(PostItem(k, want.lists[k][n]) /\ UNCHANGED <<name, default>>)
        PROVE  Same \/ Posted
    BY <1>t, <2>3 DEF Due
  <2>4. CASE Due(name' = want.name /\ UNCHANGED <<default, items, nextItem>>)
    BY <2>4 DEF Due
  <2>5. CASE Due(/\ default' = IF defaulting THEN WantedDefault ELSE default
                 /\ UNCHANGED <<name, items, nextItem>>)
    BY <2>5 DEF Due
  <2>6. DueFails
    BY <1>5 DEF UpdateFails
  <2> HIDE DEF Same, Gone, Posted, Removed
  <2>7. Same \/ Removed \/ Posted
    <3>1. UNCHANGED <<items, nextItem>> => Same
      BY DEF Same
    <3> QED BY <2>2, <2>3, <2>4, <2>5, <2>6, <3>1 DEF DueFails, Due
  <2> QED BY <2>7 DEF Same, Removed, Posted
<1>6. CASE Foreign
  <2>1. CASE \E k \in Kinds, m \in Matches : PostItem(k, m)
    BY <2>1
  <2>2. CASE (\E k \in Kinds : \E i \in IdsOf(items[k]) : RemoveItem(k, i)) /\ UNCHANGED nextItem
    BY <2>2
  <2>3. CASE UNCHANGED <<items, nextItem>>
    BY <2>3
  <2>4. CASE Forget /\ UNCHANGED nextItem
    BY <2>4 DEF Forget
  <2> QED BY <1>6, <2>1, <2>2, <2>3, <2>4 DEF Foreign
<1> QED
  BY <1>1, <1>2, <1>3, <1>4, <1>5, <1>6 DEF Next, Step

(* The IDs of the items of a list are distinct, and none is still to be    *)
(* handed out.                                                             *)
ItemsNumbered ==
    \A k \in Kinds : \A n \in 1 .. Len(items[k]) :
        /\ items[k][n].id < nextItem
        /\ \A m \in 1 .. Len(items[k]) : items[k][m].id = items[k][n].id => m = n

LEMMA ItemsNumberedStep ==
    ASSUME TypeOK, ItemsNumbered, [Next]_vars
    PROVE  ItemsNumbered'
<1>x. TypeOK /\ ItemsNumbered
  OBVIOUS
<1>t. \A k \in Kinds : /\ items[k] \in Seq(Item) /\ Len(items[k]) \in Nat
                       /\ \A n \in 1 .. Len(items[k]) : items[k][n].id \in Nat
  <2>1. \A k \in Kinds : items[k] \in Seq(Item)
    BY DEF TypeOK
  <2>2. \A x \in Item : x.id \in Nat
    BY Bounds DEF Item, ItemIds
  <2> QED BY <2>1, <2>2
<1>n. nextItem \in Nat
  <2>1. nextItem \in 1 .. MaxItemId + 1
    BY DEF TypeOK
  <2> QED BY <2>1, Bounds
<1>1. CASE UNCHANGED <<items, nextItem>>
  BY <1>1, <1>x DEF ItemsNumbered
<1>2. CASE items' = NoItems
  <2>1. \A k \in Kinds : Len(items'[k]) = 0
    BY <1>2 DEF NoItems
  <2> QED BY <2>1 DEF ItemsNumbered
<1>3. ASSUME NEW k \in Kinds, NEW m \in Matches, PostItem(k, m) PROVE ItemsNumbered'
  <2> DEFINE old == items[k]
             now == items'[k]
  <2>1. /\ nextItem' = nextItem + 1 /\ \A j \in Kinds \ {k} : items'[j] = items[j]
        /\ Len(now) = Len(old) + 1 /\ \A n \in 1 .. Len(old) : now[n] = old[n]
        /\ now[Len(old) + 1] = [id |-> nextItem, match |-> m]
    BY <1>3, <1>x, PostItemAppends
  <2>2. \A n \in 1 .. Len(old) :
           /\ old[n].id \in Nat /\ old[n].id < nextItem
           /\ \A p \in 1 .. Len(old) : old[p].id = old[n].id => p = n
    BY <1>t, <1>x DEF ItemsNumbered
  <2>3. Len(old) \in Nat
    BY <1>t
  <2> HIDE DEF old, now
  <2>4. \A n \in 1 .. Len(now) : n \in 1 .. Len(old) \/ n = Len(old) + 1
    BY <2>1, <2>3
  <2>l. now[Len(old) + 1].id = nextItem
    BY <2>1
  <2>5. \A n \in 1 .. Len(now) :
           /\ now[n].id < nextItem'
           /\ \A p \in 1 .. Len(now) : now[p].id = now[n].id => p = n
    BY <1>n, <2>1, <2>2, <2>4, <2>l
  <2>6. \A j \in Kinds \ {k} : \A n \in 1 .. Len(items[j]) : items[j][n].id < nextItem'
    BY <1>n, <1>t, <1>x, <2>1 DEF ItemsNumbered
  <2> QED BY <1>x, <2>1, <2>5, <2>6 DEF ItemsNumbered, now
<1>4. ASSUME NEW k \in Kinds, NEW i, RemoveItem(k, i), nextItem' = nextItem
      PROVE  ItemsNumbered'
  <2> DEFINE old == items[k]
             now == items'[k]
  <2>1. PICK p \in 1 .. Len(old) :
           /\ old[p].id = i /\ \A j \in Kinds \ {k} : items'[j] = items[j]
           /\ Len(now) = Len(old) - 1
           /\ \A n \in 1 .. Len(old) - 1 : now[n] = IF n < p THEN old[n] ELSE old[n + 1]
    BY <1>4, <1>x, RemoveItemShifts
  <2>2. \A n \in 1 .. Len(old) :
           /\ old[n].id < nextItem
           /\ \A q \in 1 .. Len(old) : old[q].id = old[n].id => q = n
    BY <1>x DEF ItemsNumbered
  <2>3. Len(old) \in Nat
    BY <1>t
  <2> HIDE DEF old, now
  <2>4. \A n \in 1 .. Len(now) :
           /\ n \in 1 .. Len(old) /\ n + 1 \in 1 .. Len(old)
           /\ now[n] = IF n < p THEN old[n] ELSE old[n + 1]
    BY <2>1, <2>3
  <2>5. ASSUME NEW n \in 1 .. Len(now), NEW q \in 1 .. Len(now), now[q].id = now[n].id
        PROVE  q = n
    <3>1. (IF q < p THEN q ELSE q + 1) = (IF n < p THEN n ELSE n + 1)
      BY <2>2, <2>4, <2>5
    <3> QED BY <2>1, <2>3, <3>1
  <2>6. \A n \in 1 .. Len(now) : now[n].id < nextItem'
    BY <1>4, <2>2, <2>4
  <2> QED BY <1>4, <1>x, <2>1, <2>5, <2>6 DEF ItemsNumbered, now
<1> QED BY <1>1, <1>2, <1>3, <1>4, <1>x, ItemsChange

(* A VPC that is not there has no items.                                   *)
NothingFollowed == Followed \notin vpcs => items = NoItems

LEMMA NothingFollowedStep ==
    ASSUME TypeOK, Running, Numbered, NothingFollowed, [Next]_vars
    PROVE  NothingFollowed'
<1>x. TypeOK /\ NothingFollowed
  OBVIOUS
<1>t. /\ pc \in {"idle", "creating", "updating"}
      /\ pc = "idle" => Followed = tf.id
      /\ pc # "idle" => Followed = vpc
      /\ pc' = "idle" => Followed' = tf'.id
      /\ pc' # "idle" => Followed' = vpc'
      /\ pc = "creating" => tf.id = NoId
      /\ pc = "updating" => tf.id = vpc
      /\ NoId \notin VPCIds /\ NoState.id = NoId /\ vpcs \subseteq VPCIds
  BY <1>x, Numbers, Distinct DEF Running, Idle, Followed, TypeOK
<1>e. Followed \notin vpcs => items = NoItems
  BY DEF NothingFollowed
(* A VPC that is there stays, and is still followed. *)
<1>s. ASSUME vpcs' = vpcs, Followed' = Followed, Followed \in vpcs \/ items' = items
      PROVE  NothingFollowed'
  BY <1>e, <1>s DEF NothingFollowed
<1>g. ASSUME items' = NoItems PROVE NothingFollowed'
  BY <1>g DEF NothingFollowed
<1>d. ASSUME NEW k \in Kinds, NEW i, RemoveItem(k, i) PROVE Followed \in vpcs
  <2>1. PICK n \in DOMAIN items[k] : TRUE
    BY <1>d DEF RemoveItem
  <2>2. items[k] # << >>
    BY <2>1
  <2> QED BY <1>d, <1>e, <2>2 DEF NoItems
<1>p. ASSUME NEW k \in Kinds, NEW m, PostItem(k, m) PROVE Followed \in vpcs
  BY <1>p DEF PostItem
<1>1. CASE CreateVPC \/ CreateVPCFails
  <2>1. items' = items /\ Followed = NoId
    BY <1>1, <1>t DEF CreateVPC, CreateVPCFails, Idle
  <2> QED BY <1>e, <1>g, <1>t, <2>1
<1>2. CASE UpdateBegins
  BY <1>2, <1>s, <1>t DEF UpdateBegins, Planned, Idle, controller
<1>3. CASE Rename \/ SetFirewallDefault
  BY <1>3, <1>s, <1>t DEF Rename, SetFirewallDefault
<1>4. ASSUME NEW k \in Kinds, RemoveSaved(k) \/ AddFresh(k) PROVE NothingFollowed'
  <2>1. UNCHANGED <<vpcs, tf, pc, vpc>> /\ ((\E i : RemoveItem(k, i)) \/ (\E m : PostItem(k, m)))
    BY <1>4 DEF RemoveSaved, AddFresh
  <2>2. Followed \in vpcs
    BY <1>d, <1>p, <2>1
  <2> QED BY <1>s, <1>t, <2>1, <2>2
<1>5. CASE UpdateFails
  <2>1. UNCHANGED <<vpcs, tf>> /\ pc = "updating" /\ pc' = "idle"
    BY <1>5 DEF UpdateFails, Finish
  <2>2. Followed \in vpcs \/ items' = items
    BY <1>5, <1>d, <1>p, <1>t, <2>1 DEF UpdateFails, DueFails, Due
  <2> QED BY <1>s, <1>t, <2>1, <2>2
<1>6. CASE CreateFails \/ Delete
  BY <1>6, <1>g DEF CreateFails, Delete, DeleteVPC, Forget
<1>7. CASE Return
  <2>1. Followed' = Followed /\ UNCHANGED <<vpcs, items>>
    BY <1>7, <1>t DEF Return, ItemsDone, Idle, Save, Finish, controller
  <2> QED BY <1>s, <2>1
<1>8. CASE Read
  <2>1. UNCHANGED <<vpcs, items, pc>> /\ pc = "idle"
    BY <1>8 DEF Read, controller, locals, Idle
  <2>2. CASE tf.id \in vpcs
    BY <1>8, <1>s, <1>t, <2>1, <2>2 DEF Read, Save
  <2>3. CASE tf.id \notin vpcs
    BY <1>e, <1>g, <1>t, <2>1, <2>3
  <2> QED BY <2>2, <2>3
<1>9. CASE ReadFails
  <2>1. UNCHANGED <<vpcs, pc>> /\ pc = "idle"
    BY <1>9 DEF ReadFails, locals, Idle
  <2>2. CASE UNCHANGED <<tf, items>>
    BY <1>s, <1>t, <2>1, <2>2
  <2>3. CASE Forget
    BY <1>g, <2>3 DEF Forget
  <2> QED BY <1>9, <2>2, <2>3 DEF ReadFails
<1>10. CASE DeleteFails
  <2>1. pc = "idle" /\ pc' = "idle" /\ tf' = tf
    BY <1>10 DEF DeleteFails, Planned, Idle, Finish
  <2>2. CASE UNCHANGED <<vpcs, items>>
    BY <1>s, <1>t, <2>1, <2>2
  <2>3. CASE DeleteVPC
    BY <1>g, <2>3 DEF DeleteVPC, Forget
  <2> QED BY <1>10, <2>2, <2>3 DEF DeleteFails
<1>11. CASE Foreign
  <2>1. Followed \in vpcs /\ UNCHANGED <<tf, locals>>
    BY <1>11 DEF Foreign
  <2>2. Followed' = Followed
    BY <1>t, <2>1 DEF locals
  <2>3. vpcs' = vpcs \/ items' = NoItems
    BY <1>11 DEF Foreign, Forget
  <2> QED BY <1>g, <1>s, <2>1, <2>2, <2>3
<1>12. CASE Edit \/ UNCHANGED vars
  <2>1. UNCHANGED <<vpcs, items, tf, pc, vpc>>
    BY <1>12 DEF Edit, vars, controller, locals
  <2> QED BY <1>s, <1>t, <2>1
<1> QED
  BY <1>1, <1>2, <1>3, <1>4, <1>5, <1>6, <1>7, <1>8, <1>9, <1>10, <1>11, <1>12
  DEF Next, Step

(* How far a running handler is with a list: the items at planned indices  *)
(* are as planned and stay, the others are still to be removed, and what   *)
(* is still to be added comes right after them.                            *)
Reaches(k) ==
    /\ \A n \in 1 .. Len(items[k]) :
          IF n <= PlanLen(k)
          THEN items[k][n].match = want.lists[k][n] /\ items[k][n].id \notin doomed[k]
          ELSE items[k][n].id \in doomed[k]
    /\ fresh[k] = Len(items[k]) + 1 .. PlanLen(k)

UnderWay ==
    ~Idle =>
        /\ result = "none"
        /\ quiet /\ current =>
              /\ renaming \/ name = want.name
              /\ defaulting \/ default = WantedDefault
              /\ \A k \in Kinds : Reaches(k)

(* Create has every index still to add.                                    *)
LEMMA CreateReaches ==
    ASSUME TypeOK, Running, Numbered, NothingFollowed, CreateVPC
    PROVE  \A k \in Kinds : Reaches(k)'
<1>1. Followed = NoId /\ NoId \notin vpcs
  <2>1. Followed = tf.id /\ tf.id = NoId
    BY DEF CreateVPC, Followed
  <2>2. vpcs \subseteq VPCIds
    BY DEF TypeOK
  <2> QED BY <2>1, <2>2, Distinct
<1>2. items' = NoItems
  BY <1>1 DEF NothingFollowed, CreateVPC
<1>3. want' = want /\ fresh' = [k \in Kinds |-> 1 .. PlanLen(k)]
  BY DEF CreateVPC
<1> SUFFICES ASSUME NEW k \in Kinds PROVE Reaches(k)'
  OBVIOUS
<1>4. Len(items'[k]) = 0 /\ fresh'[k] = 1 .. PlanLen(k) /\ PlanLen(k)' = PlanLen(k)
  BY <1>2, <1>3 DEF NoItems, PlanLen
<1>5. fresh'[k] = Len(items'[k]) + 1 .. PlanLen(k)'
  BY <1>4
<1>6. \A n \in 1 .. Len(items'[k]) : FALSE
  BY <1>4
<1> QED BY <1>5, <1>6 DEF Reaches

(* An Update of a saved state that is current, and that changes no item in *)
(* place, has the tail of the list to remove or the tail of the plan to    *)
(* add.                                                                    *)
LEMMA UpdateReaches ==
    ASSUME TypeOK, ItemsNumbered, UpdateBegins, current'
    PROVE  \A k \in Kinds : Reaches(k)'
<1> SUFFICES ASSUME NEW k \in Kinds PROVE Reaches(k)'
  OBVIOUS
<1>1. /\ UNCHANGED <<items, want, tf>> /\ doomed'[k] = Doomed(k) /\ fresh'[k] = Fresh(k)
      /\ Agree(k) /\ tf.lists = items
  BY DEF UpdateBegins, controller, SavedIsCurrent
<1> DEFINE list == items[k]
           plan == want.lists[k]
<1>2. /\ list \in Seq(Item) /\ Len(list) \in Nat /\ PlanLen(k) = Len(plan)
      /\ PlanLen(k) \in Nat /\ SavedLen(k) = Len(list)
  <2>1. list \in Seq(Item) /\ want \in Wants
    BY DEF TypeOK
  <2> QED BY <1>1, <2>1, WantType DEF PlanLen, SavedLen
<1>3. \A n \in 1 .. Len(list) : list[n].id # NoId
  <2>1. \A i \in ItemIds : i # NoId
    BY Bounds DEF ItemIds, NoId
  <2>2. \A n \in 1 .. Len(list) : list[n] \in Item
    BY <1>2
  <2> QED BY <2>1, <2>2 DEF Item
<1>4. \A n \in 1 .. Len(list) :
         n \in DOMAIN list /\ \A m \in 1 .. Len(list) : list[m].id = list[n].id => m = n
  BY <1>2 DEF ItemsNumbered
<1>5. \A n \in 1 .. PlanLen(k) : PlanId(k, n) = IF n <= Len(list) THEN list[n].id ELSE NoId
  BY <1>1, <1>2 DEF PlanId
<1>6. ASSUME NEW n \in 1 .. Len(list), n <= PlanLen(k)
      PROVE  list[n].match = plan[n] /\ list[n].id \notin Doomed(k)
  <2>1. n \in 1 .. PlanLen(k) /\ n <= Len(list)
    BY <1>2, <1>6
  <2>2. list[n].match = plan[n]
    BY <1>1, <1>2, <2>1 DEF Agree
  <2>3. list[n].id \in PlanIds(k)
    BY <1>5, <2>1 DEF PlanIds
  <2> QED BY <2>2, <2>3 DEF Doomed
<1>7. ASSUME NEW n \in 1 .. Len(list), ~(n <= PlanLen(k)) PROVE list[n].id \in Doomed(k)
  <2>1. list[n].id \in IdsOf(tf.lists[k])
    BY <1>1, <1>4 DEF IdsOf
  <2>2. ASSUME NEW m \in 1 .. PlanLen(k) PROVE PlanId(k, m) # list[n].id
    <3>1. m # n
      BY <1>2, <1>7
    <3>2. CASE m <= Len(list)
      <4>1. m \in 1 .. Len(list)
        BY <1>2, <3>2
      <4> QED BY <1>4, <1>5, <3>1, <3>2, <4>1
    <3>3. CASE ~(m <= Len(list))
      BY <1>3, <1>5, <3>3
    <3> QED BY <3>2, <3>3
  <2> QED BY <2>1, <2>2 DEF Doomed, PlanIds
<1>8. Fresh(k) = Len(list) + 1 .. PlanLen(k)
  <2>1. \A n \in 1 .. PlanLen(k) : PlanId(k, n) = NoId <=> ~(n <= Len(list))
    <3>1. \A n \in 1 .. PlanLen(k) : n <= Len(list) => n \in 1 .. Len(list)
      BY <1>2
    <3> QED BY <1>3, <1>5, <3>1
  <2>2. \A n : n \in Len(list) + 1 .. PlanLen(k) <=> n \in 1 .. PlanLen(k) /\ ~(n <= Len(list))
    BY <1>2
  <2> QED BY <2>1, <2>2 DEF Fresh
<1>9. PlanLen(k)' = PlanLen(k) /\ items'[k] = list /\ want'.lists[k] = plan
  BY <1>1 DEF PlanLen
<1> QED BY <1>1, <1>6, <1>7, <1>8, <1>9 DEF Reaches

(* Removing an item of the tail.                                           *)
LEMMA RemoveReaches ==
    ASSUME TypeOK, ItemsNumbered, NEW k \in Kinds, RemoveSaved(k), NEW j \in Kinds, Reaches(j)
    PROVE  Reaches(j)'
<1>1. UNCHANGED <<want, fresh>>
  BY DEF RemoveSaved
<1>2. PICK i \in doomed[k] : RemoveItem(k, i) /\ doomed' = [doomed EXCEPT ![k] = doomed[k] \ {i}]
  BY DEF RemoveSaved
<1>3. doomed \in [Kinds -> SUBSET ItemIds] /\ items[k] \in Seq(Item)
  BY DEF TypeOK
<1>4. PICK p \in 1 .. Len(items[k]) :
         /\ items[k][p].id = i /\ \A h \in Kinds \ {k} : items'[h] = items[h]
         /\ Len(items'[k]) = Len(items[k]) - 1
         /\ \A n \in 1 .. Len(items[k]) - 1 :
               items'[k][n] = IF n < p THEN items[k][n] ELSE items[k][n + 1]
  BY <1>2, RemoveItemShifts
<1>5. PlanLen(j)' = PlanLen(j)
  BY <1>1 DEF PlanLen
<1>6. CASE j # k
  <2>1. items'[j] = items[j] /\ doomed'[j] = doomed[j]
    BY <1>2, <1>3, <1>4, <1>6
  <2> QED BY <1>1, <1>5, <2>1 DEF Reaches
<1>7. CASE j = k
  <2> DEFINE old == items[k]
             now == items'[k]
             plan == want.lists[k]
  <2>1. doomed'[k] = doomed[k] \ {i}
    BY <1>2, <1>3
  <2>2. /\ \A n \in 1 .. Len(old) :
              IF n <= PlanLen(k) THEN old[n].match = plan[n] /\ old[n].id \notin doomed[k]
                                 ELSE old[n].id \in doomed[k]
        /\ fresh[k] = Len(old) + 1 .. PlanLen(k)
    BY <1>7 DEF Reaches
  <2>3. \A n \in 1 .. Len(old) : old[n].id = i => n = p
    BY <1>4 DEF ItemsNumbered
  <2>4. Len(old) \in Nat /\ PlanLen(k) \in Nat
    <3>1. want \in Wants
      BY DEF TypeOK
    <3> QED BY <1>3, <3>1, WantType
  <2>5. p \in 1 .. Len(old) /\ ~(p <= PlanLen(k))
    BY <1>2, <1>4, <2>2
  <2>6. /\ Len(now) = Len(old) - 1
        /\ \A n \in 1 .. Len(old) - 1 : now[n] = IF n < p THEN old[n] ELSE old[n + 1]
    BY <1>4
  <2> HIDE DEF old, now, plan
  <2>7. ASSUME NEW n \in 1 .. Len(now), n <= PlanLen(k)
        PROVE  now[n].match = plan[n] /\ now[n].id \notin doomed[k]
    <3>1. n \in 1 .. Len(old) /\ n \in 1 .. Len(old) - 1 /\ n < p
      BY <2>4, <2>5, <2>6, <2>7
    <3> QED BY <2>2, <2>6, <2>7, <3>1
  <2>8. ASSUME NEW n \in 1 .. Len(now), ~(n <= PlanLen(k))
        PROVE  now[n].id \in doomed[k] /\ now[n].id # i
    <3>1. PICK m \in 1 .. Len(old) : now[n] = old[m] /\ m # p /\ ~(m <= PlanLen(k))
      <4>1. n \in 1 .. Len(old) /\ n + 1 \in 1 .. Len(old) /\ n \in 1 .. Len(old) - 1
        BY <2>4, <2>6
      <4>2. (n < p => n # p) /\ (~(n < p) => n + 1 # p) /\ ~(n + 1 <= PlanLen(k))
        BY <2>4, <2>8
      <4> QED BY <2>6, <2>8, <4>1, <4>2
    <3> QED BY <2>2, <2>3, <3>1
  <2>9. Len(now) + 1 .. PlanLen(k) = Len(old) + 1 .. PlanLen(k)
    <3>1. Len(old) + 1 .. PlanLen(k) = {} /\ Len(now) + 1 .. PlanLen(k) = {}
      BY <2>4, <2>5, <2>6
    <3> QED BY <3>1
  <2>10. /\ \A n \in 1 .. Len(now) :
               IF n <= PlanLen(k) THEN now[n].match = plan[n] /\ now[n].id \notin doomed'[k]
                                  ELSE now[n].id \in doomed'[k]
         /\ fresh'[k] = Len(now) + 1 .. PlanLen(k)
    BY <1>1, <2>1, <2>2, <2>7, <2>8, <2>9
  <2> QED BY <1>1, <1>5, <1>7, <2>10 DEF Reaches, now, plan
<1> QED BY <1>6, <1>7

(* Adding the next item of the plan.                                       *)
LEMMA AddReaches ==
    ASSUME TypeOK, NEW k \in Kinds, AddFresh(k), NEW j \in Kinds, Reaches(j)
    PROVE  Reaches(j)'
<1>1. UNCHANGED <<want, doomed>> /\ doomed[k] = {}
  BY DEF AddFresh
<1>2. PICK n \in fresh[k] : /\ NextFresh(k, n) /\ PostItem(k, want.lists[k][n])
                            /\ fresh' = [fresh EXCEPT ![k] = fresh[k] \ {n}]
  BY DEF AddFresh
<1>3. /\ fresh \in [Kinds -> SUBSET Nat] /\ items[k] \in Seq(Item) /\ want \in Wants
      /\ fresh[k] \subseteq 1 .. PlanLen(k)
  BY DEF TypeOK
<1>4. want.lists[k][n] \in Matches
  BY <1>2, <1>3, WantType
<1>5. /\ \A h \in Kinds \ {k} : items'[h] = items[h]
      /\ Len(items'[k]) = Len(items[k]) + 1
      /\ \A m \in 1 .. Len(items[k]) : items'[k][m] = items[k][m]
      /\ items'[k][Len(items[k]) + 1] = [id |-> nextItem, match |-> want.lists[k][n]]
  BY <1>2, <1>4, PostItemAppends
<1>6. PlanLen(j)' = PlanLen(j)
  BY <1>1 DEF PlanLen
<1>7. CASE j # k
  <2>1. items'[j] = items[j] /\ fresh'[j] = fresh[j]
    BY <1>2, <1>3, <1>5, <1>7
  <2> QED BY <1>1, <1>6, <2>1 DEF Reaches
<1>8. CASE j = k
  <2> DEFINE old == items[k]
             now == items'[k]
             plan == want.lists[k]
  <2>1. fresh'[k] = fresh[k] \ {n} /\ \A m \in fresh[k] : n <= m
    BY <1>2, <1>3 DEF NextFresh
  <2>2. /\ \A m \in 1 .. Len(old) :
              IF m <= PlanLen(k) THEN old[m].match = plan[m] ELSE old[m].id \in {}
        /\ fresh[k] = Len(old) + 1 .. PlanLen(k)
    BY <1>1, <1>8 DEF Reaches
  <2>3. Len(old) \in Nat /\ PlanLen(k) \in Nat
    BY <1>3, WantType
  <2>4. /\ Len(now) = Len(old) + 1 /\ \A m \in 1 .. Len(old) : now[m] = old[m]
        /\ now[Len(old) + 1].match = plan[n]
    BY <1>5
  <2> HIDE DEF old, now, plan
  <2>5. n = Len(old) + 1 /\ n <= PlanLen(k)
    <3>1. Len(old) + 1 \in fresh[k]
      BY <1>2, <2>2, <2>3
    <3>2. n <= Len(old) + 1 /\ Len(old) + 1 <= n /\ n \in Nat /\ n <= PlanLen(k)
      BY <1>2, <2>1, <2>2, <2>3, <3>1
    <3> QED BY <2>3, <3>2
  <2>6. \A m \in 1 .. Len(now) : m \in 1 .. Len(old) \/ m = n
    BY <2>3, <2>4, <2>5
  <2>7. \A m \in 1 .. Len(now) : m <= PlanLen(k) /\ now[m].match = plan[m]
    BY <2>2, <2>4, <2>5, <2>6
  <2>8. fresh'[k] = Len(now) + 1 .. PlanLen(k)
    BY <2>1, <2>2, <2>3, <2>4, <2>5
  <2>9. /\ \A m \in 1 .. Len(now) :
              IF m <= PlanLen(k) THEN now[m].match = plan[m] /\ now[m].id \notin doomed'[k]
                                 ELSE now[m].id \in doomed'[k]
        /\ fresh'[k] = Len(now) + 1 .. PlanLen(k)
    BY <1>1, <2>7, <2>8
  <2> QED BY <1>1, <1>6, <1>8, <2>9 DEF Reaches, now, plan
<1> QED BY <1>7, <1>8

LEMMA UnderWayStep ==
    ASSUME TypeOK, Running, Numbered, ItemsNumbered, NothingFollowed, UnderWay, [Next]_vars
    PROVE  UnderWay'
<1>x. TypeOK /\ Running /\ Numbered /\ ItemsNumbered /\ NothingFollowed
  OBVIOUS
(* Steps after which no handler runs. *)
<1>i. ASSUME pc' = "idle" PROVE UnderWay'
  BY <1>i DEF UnderWay, Idle
(* Steps that leave a running handler as far as it was. *)
<1>s. ASSUME UNCHANGED <<pc, result, current, items, doomed, fresh, want>>,
             quiet' = quiet,
             renaming' \/ name' = want.name \/ (name' = name /\ renaming' = renaming),
             \/ defaulting' \/ default' = WantedDefault
             \/ (default' = default /\ defaulting' = defaulting)
      PROVE  UnderWay'
  BY <1>s DEF UnderWay, Reaches, Idle, PlanLen, WantedDefault
<1>1. CASE CreateVPC
  <2>1. \A k \in Kinds : Reaches(k)'
    BY <1>1, <1>x, CreateReaches
  <2>2. /\ result' = "none" /\ name' = want'.name /\ want' = want /\ default' = "accept"
        /\ defaulting' = (WantedDefault # "accept")
    BY <1>1 DEF CreateVPC
  <2>3. defaulting' \/ default' = WantedDefault'
    BY <2>2 DEF WantedDefault
  <2> QED BY <2>1, <2>2, <2>3 DEF UnderWay
<1>2. CASE UpdateBegins
  <2>1. /\ result' = "none" /\ UNCHANGED <<want, tf, name, default>>
        /\ renaming' = (want.name # tf.name)
        /\ defaulting' = (want.default = Unset \/ DefaultDiffers)
    BY <1>2 DEF UpdateBegins, controller
  <2>2. CASE current'
    <3>1. \A k \in Kinds : Reaches(k)'
      BY <1>2, <1>x, <2>2, UpdateReaches
    <3>2. tf.name = name /\ tf.default = default
      BY <1>2, <2>2 DEF UpdateBegins, SavedIsCurrent
    <3>3. renaming' \/ name' = want'.name
      BY <2>1, <3>2
    <3>4. defaulting' \/ default' = WantedDefault'
      BY <2>1, <3>2 DEF DefaultDiffers, WantedDefault
    <3> QED BY <2>1, <3>1, <3>3, <3>4 DEF UnderWay
  <2> QED BY <2>1, <2>2 DEF UnderWay
<1>3. CASE Rename
  <2>1. /\ name' = want.name /\ UNCHANGED <<default, defaulting, pc, result, items, doomed>>
        /\ UNCHANGED <<fresh, want, quiet, current>>
    BY <1>3 DEF Rename, history
  <2> QED BY <1>s, <2>1
<1>4. ASSUME NEW k \in Kinds, RemoveSaved(k) \/ AddFresh(k) PROVE UnderWay'
  <2>1. UNCHANGED <<name, default, want, pc, renaming, defaulting, result, current, quiet>>
    BY <1>4 DEF RemoveSaved, AddFresh, history
  <2>2. \A j \in Kinds : Reaches(j) => Reaches(j)'
    BY <1>4, <1>x, RemoveReaches, AddReaches
  <2> QED BY <2>1, <2>2 DEF UnderWay, Idle, WantedDefault
<1>5. CASE SetFirewallDefault
  BY <1>5, <1>s DEF SetFirewallDefault, history
<1>6. CASE CreateVPCFails \/ UpdateFails \/ CreateFails \/ Return \/ Delete \/ DeleteFails
  BY <1>6, <1>i DEF CreateVPCFails, UpdateFails, CreateFails, Return, Delete, DeleteFails, Finish
<1>7. CASE Read \/ ReadFails \/ Edit
  BY <1>7, <1>i DEF Read, ReadFails, Edit, Idle, locals
<1>8. CASE Foreign
  <2>1. quiet' = FALSE /\ UNCHANGED <<locals, result>>
    BY <1>8 DEF Foreign
  <2> QED BY <2>1 DEF UnderWay, Idle, locals
<1>9. CASE UNCHANGED vars
  BY <1>9, <1>s DEF vars, controller, locals, history
<1> QED
  BY <1>1, <1>2, <1>3, <1>4, <1>5, <1>6, <1>7, <1>8, <1>9 DEF Next, Step

(* A handler that has nothing left to do has realised its plan.            *)
LEMMA NothingLeft ==
    ASSUME TypeOK, NEW k \in Kinds, Reaches(k), ~Pending(k)
    PROVE  Realised(k)
<1>1. Len(items[k]) \in Nat /\ PlanLen(k) \in Nat
  <2>1. items[k] \in Seq(Item) /\ want \in Wants
    BY DEF TypeOK
  <2> QED BY <2>1, WantType
<1>2. /\ \A n \in 1 .. Len(items[k]) : n <= PlanLen(k) /\ items[k][n].match = want.lists[k][n]
      /\ Len(items[k]) + 1 .. PlanLen(k) = {}
  BY DEF Reaches, Pending
<1>3. ~(Len(items[k]) > PlanLen(k))
  <2> SUFFICES ASSUME Len(items[k]) > PlanLen(k) PROVE FALSE
    OBVIOUS
  <2>1. Len(items[k]) \in 1 .. Len(items[k])
    BY <1>1
  <2> QED BY <1>1, <1>2, <2>1
<1>4. ~(Len(items[k]) < PlanLen(k))
  <2> SUFFICES ASSUME Len(items[k]) < PlanLen(k) PROVE FALSE
    OBVIOUS
  <2>1. PlanLen(k) \in Len(items[k]) + 1 .. PlanLen(k)
    BY <1>1
  <2> QED BY <1>2, <2>1
<1>5. Len(items[k]) = PlanLen(k)
  BY <1>1, <1>3, <1>4
<1> QED BY <1>2, <1>5 DEF Realised

(* Every step keeps what a success promises.                               *)
LEMMA TailEditsStep ==
    ASSUME TypeOK, UnderWay, TailEditsRealised, [Next]_vars
    PROVE  TailEditsRealised'
<1>x. TypeOK
  OBVIOUS
<1>n. ASSUME result' \notin {"created", "updated"} PROVE TailEditsRealised'
  BY <1>n DEF TailEditsRealised
<1>h. ~Idle => result = "none"
  BY DEF UnderWay
<1>1. CASE CreateVPC \/ UpdateBegins \/ CreateVPCFails \/ UpdateFails \/ CreateFails
           \/ Read \/ ReadFails \/ Delete \/ DeleteFails \/ Edit
  BY <1>1, <1>n DEF CreateVPC, UpdateBegins, CreateVPCFails, UpdateFails, CreateFails, Read,
     ReadFails, Delete, DeleteFails, Edit, Finish
<1>2. CASE Rename \/ SetFirewallDefault
  <2>1. vpc \in vpcs /\ result' = result
    BY <1>2 DEF Rename, SetFirewallDefault
  <2>2. vpcs \subseteq VPCIds
    BY <1>x DEF TypeOK
  <2>3. ~Idle
    BY <1>x, <2>1, <2>2, Numbers, Distinct DEF Idle
  <2> QED BY <1>h, <1>n, <2>1, <2>3
<1>3. ASSUME NEW k \in Kinds, RemoveSaved(k) \/ AddFresh(k) PROVE TailEditsRealised'
  BY <1>3, <1>h, <1>n DEF RemoveSaved, AddFresh, Turn
<1>4. CASE Return
  <2>1. /\ ~Idle /\ ~renaming /\ ~defaulting /\ \A k \in Kinds : ~Pending(k)
        /\ UNCHANGED <<name, default, items, want, quiet, current>>
    BY <1>4 DEF Return, ItemsDone, controller, history
  <2>2. ASSUME quiet, current
        PROVE  name = want.name /\ default = WantedDefault /\ \A k \in Kinds : Realised(k)
    BY <1>x, <2>1, <2>2, NothingLeft DEF UnderWay
  <2> QED BY <2>1, <2>2 DEF TailEditsRealised, WantedDefault, Realised, PlanLen
<1>5. CASE Foreign
  BY <1>5 DEF Foreign, TailEditsRealised
<1>6. CASE UNCHANGED vars
  BY <1>6 DEF vars, controller, history, TailEditsRealised, WantedDefault, Realised, PlanLen
<1> QED BY <1>1, <1>2, <1>3, <1>4, <1>5, <1>6 DEF Next, Step

(* A Create that reports success, and an Update that does and had only to  *)
(* drop items from the end of a list or append some to it, has left the    *)
(* configured name, default action and items on the controller, whatever   *)
(* the configurations: the removals and the additions, each a request,     *)
(* never meet in the middle of a list.                                     *)
THEOREM SuccessRealisesTailEdits == Spec => []TailEditsRealised
<1> DEFINE Inv == ItemsNumbered /\ NothingFollowed /\ UnderWay /\ TailEditsRealised
<1>1. Init => Inv
  BY DEF Init, ItemsNumbered, NothingFollowed, UnderWay, TailEditsRealised, Idle, NoItems
<1>2. TypeOK /\ Running /\ Numbered /\ Inv /\ [Next]_vars => Inv'
  BY ItemsNumberedStep, NothingFollowedStep, UnderWayStep, TailEditsStep
<1> QED BY <1>1, <1>2, AlwaysRunning, AlwaysNumbered, PTL DEF Spec

(* When a handler has reported success, Terraform has saved what the       *)
(* controller has, as long as nobody interferes, under the address block   *)
(* of the configuration.                                                   *)
Settled ==
    /\ pc = "updating" => tf.cidr = want.cidr
    /\ result \in {"created", "updated"} =>
          Idle /\ tf.cidr = want.cidr /\ (quiet => SavedIsCurrent)

LEMMA SettledStep ==
    ASSUME TypeOK, Running, UnderWay, Settled, [Next]_vars
    PROVE  Settled'
<1>x. TypeOK /\ Running /\ UnderWay /\ Settled
  OBVIOUS
<1>t. pc \in {"idle", "creating", "updating"}
  BY DEF TypeOK
<1>h. ~Idle => result \notin {"created", "updated"}
  BY DEF UnderWay
<1>1. CASE CreateVPC \/ CreateVPCFails \/ UpdateFails \/ CreateFails \/ Delete \/ DeleteFails
  BY <1>1 DEF CreateVPC, CreateVPCFails, UpdateFails, CreateFails, Delete, DeleteFails, Finish,
     Settled
<1>2. CASE UpdateBegins
  BY <1>2 DEF UpdateBegins, Replaces, Settled
<1>3. CASE Rename \/ (\E k \in Kinds : RemoveSaved(k) \/ AddFresh(k)) \/ SetFirewallDefault
  <2>1. UNCHANGED <<tf, want, pc, result>>
    BY <1>3 DEF Rename, RemoveSaved, AddFresh, SetFirewallDefault
  <2>2. ~Idle
    <3>1. CASE Rename
      <4>1. vpc \in vpcs
        BY <3>1 DEF Rename
      <4>2. vpcs \subseteq VPCIds
        BY <1>x DEF TypeOK
      <4> QED BY <1>x, <4>1, <4>2, Numbers, Distinct DEF Idle
    <3> QED BY <1>3, <3>1 DEF RemoveSaved, AddFresh, SetFirewallDefault, Turn, ItemsDone
  <2> QED BY <1>h, <2>1, <2>2 DEF Settled
<1>4. CASE Return
  <2>1. /\ ~Idle /\ vpc \in vpcs /\ UNCHANGED <<vpcs, name, default, items, want>>
        /\ tf' = [id |-> vpc, name |-> name,
                  cidr |-> IF tf.id = NoId THEN want.cidr ELSE tf.cidr,
                  default |-> default, lists |-> items]
        /\ pc' = "idle"
    BY <1>4 DEF Return, ItemsDone, Save, Finish, controller
  <2>2. tf.id = NoId \/ tf.cidr = want.cidr
    BY <1>t, <2>1 DEF Running, Settled, Idle
  <2>3. /\ tf'.cidr = want'.cidr /\ tf'.id \in vpcs' /\ tf'.name = name'
        /\ tf'.default = default' /\ tf'.lists = items'
    BY <2>1, <2>2
  <2> QED BY <2>1, <2>3 DEF Settled, Idle, SavedIsCurrent
<1>5. CASE Read \/ ReadFails \/ Edit
  BY <1>5 DEF Read, ReadFails, Edit, Settled, Idle, locals
<1>6. CASE Foreign
  BY <1>6 DEF Foreign, Settled, Idle, locals
<1>7. CASE UNCHANGED vars
  BY <1>7 DEF vars, controller, locals, history, Settled, Idle, SavedIsCurrent
<1> QED BY <1>1, <1>2, <1>3, <1>4, <1>5, <1>6, <1>7 DEF Next, Step

(* After a Create, or an Update that only had to edit the tails of the     *)
(* lists, has reported success, the next plan is empty: what was saved is  *)
(* what the controller has, and does not differ from the configuration,    *)
(* until somebody else changes the VPC.                                    *)
NextPlanIsEmpty ==
    result \in {"created", "updated"} /\ quiet /\ current =>
        SavedIsCurrent /\ ~Replaces /\ ~HasDiff

(* A success leaves the next plan empty (Save at the end of Create and     *)
(* Update, against HasDiff and Replaces of the following plan).            *)
THEOREM SuccessLeavesNoDiff == Spec => []NextPlanIsEmpty
<1> DEFINE Inv == /\ ItemsNumbered /\ NothingFollowed /\ UnderWay /\ TailEditsRealised
                  /\ Settled
<1>1. Init => Inv
  BY DEF Init, ItemsNumbered, NothingFollowed, UnderWay, TailEditsRealised, Idle, NoItems,
     Settled
<1>2. TypeOK /\ Running /\ Numbered /\ Inv /\ [Next]_vars => Inv'
  BY ItemsNumberedStep, NothingFollowedStep, UnderWayStep, TailEditsStep, SettledStep
<1>3. Inv => NextPlanIsEmpty
  <2> SUFFICES ASSUME Inv, result \in {"created", "updated"}, quiet, current
               PROVE  SavedIsCurrent /\ ~Replaces /\ ~HasDiff
    BY DEF NextPlanIsEmpty
  <2>1. SavedIsCurrent /\ tf.cidr = want.cidr
    BY DEF Settled
  <2>2. name = want.name /\ default = WantedDefault /\ \A k \in Kinds : Realised(k)
    BY DEF TailEditsRealised
  <2>3. tf.name = name /\ tf.default = default /\ tf.lists = items
    BY <2>1 DEF SavedIsCurrent
  <2>4. ~DefaultDiffers
    BY <2>2, <2>3 DEF DefaultDiffers, WantedDefault
  <2>5. \A k \in Kinds : PlanLen(k) = SavedLen(k) /\ Agree(k)
    BY <2>2, <2>3 DEF Realised, SavedLen, Agree
  <2> QED BY <2>1, <2>2, <2>3, <2>4, <2>5 DEF Replaces, HasDiff
<1> QED BY <1>1, <1>2, <1>3, AlwaysRunning, AlwaysNumbered, PTL DEF Spec

-----------------------------------------------------------------------------
(* Errors *)

(* An apply that meets no failed request and no foreign change reports no  *)
(* error: no handler asks the controller for what is not there.            *)
ErrorHasCause == faults = 0 /\ drifts = 0 => result # "error"

(* As long as nothing went wrong, the followed VPC exists, its items are   *)
(* the saved ones between two handlers, and what is to be removed is there.*)
Undisturbed ==
    faults = 0 /\ drifts = 0 =>
        /\ result # "error" /\ Followed \in vpcs \cup {NoId}
        /\ Idle /\ tf.id # NoId => tf.lists = items
        /\ ~Idle => \A k \in Kinds : doomed[k] \subseteq IdsOf(items[k])

LEMMA UndisturbedStep ==
    ASSUME TypeOK, Running, Undisturbed, [Next]_vars
    PROVE  Undisturbed'
<1> SUFFICES ASSUME faults' = 0, drifts' = 0
             PROVE  /\ result' # "error" /\ Followed' \in vpcs' \cup {NoId}
                    /\ Idle' /\ tf'.id # NoId => tf'.lists = items'
                    /\ (~Idle)' => \A k \in Kinds : doomed'[k] \subseteq IdsOf(items'[k])
  BY DEF Undisturbed
<1>x. TypeOK /\ Running
  OBVIOUS
<1>n. ~Fault /\ ~Foreign
  <2>1. faults \in 0 .. MaxFaults /\ drifts \in 0 .. MaxDrift
    BY <1>x DEF TypeOK
  <2>2. faults' # faults + 1 /\ drifts' # drifts + 1
    BY <2>1, Bounds
  <2> QED BY <2>2 DEF Fault, Foreign
<1>t. /\ pc = "idle" => vpc = NoId
      /\ pc # "idle" => vpc \in VPCIds
      /\ NoId \notin VPCIds /\ NoState.id = NoId
  BY <1>x, Numbers, Distinct
<1>f. UNCHANGED <<faults, drifts>>
  BY <1>n DEF Next, Step, CreateVPC, CreateVPCFails, UpdateBegins, Rename, RemoveSaved, AddFresh,
     SetFirewallDefault, UpdateFails, CreateFails, DueFails, Due, Return, Read, ReadFails,
     Delete, DeleteFails, Edit, bounds, vars
<1>u. /\ result # "error" /\ Followed \in vpcs \cup {NoId}
      /\ Idle /\ tf.id # NoId => tf.lists = items
      /\ ~Idle => \A k \in Kinds : doomed[k] \subseteq IdsOf(items[k])
  BY <1>f DEF Undisturbed
<1>e. /\ ~Idle => vpc \in vpcs
      /\ Idle /\ tf.id # NoId => tf.id \in vpcs
  BY <1>t, <1>u DEF Followed, Idle
<1>1. CASE CreateVPC
  <2>1. /\ vpc' = nextVPC /\ vpcs' = vpcs \cup {nextVPC} /\ pc' = "creating"
        /\ result' = "none" /\ doomed' = None
    BY <1>1 DEF CreateVPC, PostVPC
  <2> QED BY <2>1 DEF Followed, Idle, None
<1>2. CASE UpdateBegins
  <2>1. /\ Idle /\ tf.id # NoId /\ vpc' = tf.id /\ pc' = "updating" /\ result' = "none"
        /\ doomed' = [k \in Kinds |-> Doomed(k)] /\ UNCHANGED <<vpcs, items>>
    BY <1>2 DEF UpdateBegins, Planned, controller
  <2>2. \A k \in Kinds : doomed'[k] \subseteq IdsOf(items[k])
    BY <1>u, <2>1 DEF Doomed
  <2> QED BY <1>e, <2>1, <2>2 DEF Followed, Idle
<1>3. CASE Rename \/ SetFirewallDefault
  <2>1. /\ UNCHANGED <<vpcs, items, tf, pc, vpc, doomed, result>> /\ vpc \in vpcs
    BY <1>3 DEF Rename, SetFirewallDefault
  <2> QED BY <1>u, <2>1 DEF Followed, Idle
<1>4. ASSUME NEW k \in Kinds, RemoveSaved(k)
      PROVE  /\ result' # "error" /\ Followed' \in vpcs' \cup {NoId} /\ ~Idle'
             /\ \A j \in Kinds : doomed'[j] \subseteq IdsOf(items'[j])
  <2>1. UNCHANGED <<vpcs, tf, pc, vpc, result>> /\ ~Idle
    BY <1>4 DEF RemoveSaved, Turn
  <2>2. PICK i \in doomed[k] : RemoveItem(k, i) /\ doomed' = [doomed EXCEPT ![k] = doomed[k] \ {i}]
    BY <1>4 DEF RemoveSaved
  <2>3. \A j \in Kinds : \A d \in IdsOf(items[j]) \ IdsOf(items'[j]) : j = k /\ d = i
    BY <1>x, <2>2, RemoveItemKeeps
  <2>4. \A j \in Kinds : doomed'[j] = IF j = k THEN doomed[k] \ {i} ELSE doomed[j]
    BY <1>x, <2>2 DEF TypeOK
  <2>5. \A j \in Kinds : doomed'[j] \subseteq IdsOf(items'[j])
    BY <1>u, <2>1, <2>3, <2>4
  <2> QED BY <1>u, <2>1, <2>5 DEF Followed, Idle
<1>5. ASSUME NEW k \in Kinds, AddFresh(k)
      PROVE  /\ result' # "error" /\ Followed' \in vpcs' \cup {NoId} /\ ~Idle'
             /\ \A j \in Kinds : doomed'[j] \subseteq IdsOf(items'[j])
  <2>1. UNCHANGED <<vpcs, tf, pc, vpc, doomed, result>> /\ ~Idle
    BY <1>5 DEF AddFresh, Turn
  <2>2. PICK n \in fresh[k] : PostItem(k, want.lists[k][n])
    BY <1>5 DEF AddFresh
  <2>3. want.lists[k][n] \in Matches
    BY <1>x, <2>2, WantType DEF TypeOK
  <2>4. \A j \in Kinds : IdsOf(items[j]) \subseteq IdsOf(items'[j])
    BY <1>x, <2>2, <2>3, PostItemKeeps
  <2>5. \A j \in Kinds : doomed'[j] \subseteq IdsOf(items'[j])
    BY <1>u, <2>1, <2>4
  <2> QED BY <1>u, <2>1, <2>5 DEF Followed, Idle
<1>6. ~UpdateFails
  <2> SUFFICES ASSUME UpdateFails PROVE FALSE
    OBVIOUS
  <2>1. ~Idle /\ DueFails
    BY DEF UpdateFails, Idle
  <2>2. vpc \in vpcs /\ \A k \in Kinds : doomed[k] \subseteq IdsOf(items[k])
    BY <1>e, <1>u, <2>1
  <2> QED BY <1>n, <2>1, <2>2 DEF DueFails, Due
<1>7. ~CreateVPCFails /\ ~CreateFails /\ ~ReadFails
  BY <1>e, <1>n DEF CreateVPCFails, CreateFails, ReadFails, Idle
<1>8. ~DeleteFails
  BY <1>e, <1>n DEF DeleteFails, Planned
<1>9. CASE Return
  <2>1. /\ vpc \in vpcs /\ UNCHANGED <<vpcs, items>> /\ tf'.id = vpc /\ tf'.lists = items
        /\ pc' = "idle" /\ result' # "error"
    BY <1>9 DEF Return, Save, Finish, controller
  <2> QED BY <2>1 DEF Followed, Idle
<1>10. CASE Read
  <2>1. /\ Idle /\ tf.id \in vpcs /\ pc' = pc /\ result' = "read" /\ UNCHANGED <<vpcs, items>>
    BY <1>10, <1>e DEF Read, controller, locals
  <2>2. tf'.id = tf.id /\ tf'.lists = items
    BY <1>10, <2>1 DEF Read, Save
  <2> QED BY <2>1, <2>2 DEF Followed, Idle
<1>11. CASE Delete
  BY <1>11, <1>t DEF Delete, Finish, Followed, Idle
<1>12. CASE Edit
  <2>1. Idle /\ UNCHANGED <<vpcs, items, tf, pc>> /\ result' = "none"
    BY <1>12 DEF Edit, controller, locals
  <2> QED BY <1>u, <2>1 DEF Followed, Idle
<1>13. CASE UNCHANGED vars
  <2>1. UNCHANGED <<vpcs, items, tf, pc, vpc, doomed, result>>
    BY <1>13 DEF vars, controller, locals
  <2> QED BY <1>u, <2>1 DEF Followed, Idle
<1> QED
  BY <1>n, <1>1, <1>2, <1>3, <1>4, <1>5, <1>6, <1>7, <1>8, <1>9, <1>10, <1>11, <1>12, <1>13
  DEF Next, Step

(* Without a failed request and without foreign changes, no handler of a   *)
(* VPC reports an error: the requests of Update name only items that are   *)
(* still there, though it never looks.                                     *)
THEOREM ErrorsHaveCauses == Spec => []ErrorHasCause
<1>1. Init => Undisturbed
  BY Distinct DEF Init, Undisturbed, Followed, Idle
<1>2. TypeOK /\ Running /\ Undisturbed /\ [Next]_vars => Undisturbed'
  BY UndisturbedStep
<1>3. Undisturbed => ErrorHasCause
  BY DEF Undisturbed, ErrorHasCause
<1> QED BY <1>1, <1>2, <1>3, AlwaysRunning, PTL DEF Spec
=============================================================================
