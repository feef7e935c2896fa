------------------------- MODULE KubeClusterProofs -------------------------
(***************************************************************************)
(* Proofs about KubeCluster, for any node counts, image versions and       *)
(* bounds, and whatever a GET shows of a cluster that is worked on.        *)
(***************************************************************************)
EXTENDS KubeCluster, TLAPS

Statuses == {"", "provisioning", "ready", "upgrading", "failed", "upgrade_blocked"}
Results == {"none", "created", "read", "updated", "deleted", "refused", "error"}
StateType == [id : ClusterIds, spec : NodeSpec] \cup {NoState}

(* No cluster and no image has the ID that stands for none.                *)
LEMMA Distinct ==
    /\ NoId = 0 /\ NoId \notin ClusterIds /\ NoId \notin ImageIds
    /\ ClusterIds \subseteq Nat /\ ImageIds \subseteq Nat
    /\ NoState \in StateType /\ NoState.id = NoId
BY KubeAssumption DEF NoId, ClusterIds, ImageIds, NoState, StateType

LEMMA Bounds ==
    /\ MaxImageId \in Nat /\ MaxClusterId \in Nat
    /\ MaxFaults \in Nat /\ MaxBreaks \in Nat /\ MaxDrift \in Nat /\ MaxEdits \in Nat
BY KubeAssumption

(* A running handler works on the saved cluster, if there is one, and the  *)
(* controller knows what a cluster that exists runs and works towards.     *)
Known ==
    /\ Followed \in clusters => nodes \in NodeSpec /\ goal \in NodeSpec
    /\ pc = "creating" => tf.id = NoId
    /\ pc = "waiting" => tf.id = cluster

(* A configuration asks for counts and for a version.                      *)
LEMMA WantsType ==
    ASSUME NEW w \in Wants
    PROVE  /\ w.present \in BOOLEAN /\ w.cp \in ControlPlanes /\ w.workers \in Workers
           /\ w.version \in Versions
<1>1. PICK p \in BOOLEAN, c \in Configurations :
          w = [present |-> p, cp |-> c.cp, workers |-> c.workers, version |-> c.version]
  BY DEF Wants
<1>2. c \in [cp : ControlPlanes, workers : Workers, version : Versions]
  BY KubeAssumption
<1> QED BY <1>1, <1>2

(* A new image has an ID that no other has.                                *)
LEMMA PostImageKeeps ==
    ASSUME TypeOK, PostImage
    PROVE  /\ nextImage \in ImageIds /\ nextImage' \in 1 .. MaxImageId + 1
           /\ nextImage' = nextImage + 1
           /\ DOMAIN images' = DOMAIN images \cup {nextImage}
           /\ images' \in [DOMAIN images' -> Versions]
<1>0. nextImage \in 1 .. MaxImageId + 1
  BY DEF TypeOK
<1>1. /\ nextImage \in ImageIds /\ nextImage' = nextImage + 1
      /\ nextImage' \in 1 .. MaxImageId + 1
  BY <1>0, Bounds DEF PostImage, ImageIds
<1>2. want.version \in Versions /\ images \in [DOMAIN images -> Versions]
  BY WantsType DEF TypeOK
<1>3. images' = [i \in DOMAIN images \cup {nextImage} |->
                    IF i = nextImage THEN want.version ELSE images[i]]
  BY DEF PostImage
<1> QED BY <1>1, <1>2, <1>3

(* An image that is deleted takes no other with it.                        *)
LEMMA DropImageKeeps ==
    ASSUME TypeOK, NEW i, DropImage(i)
    PROVE  /\ DOMAIN images' = DOMAIN images \ {i}
           /\ images' \in [DOMAIN images' -> Versions]
           /\ \A j \in DOMAIN images' : images'[j] = images[j]
<1>1. images' = [j \in DOMAIN images \ {i} |-> images[j]]
  BY DEF DropImage
<1>2. images \in [DOMAIN images -> Versions]
  BY DEF TypeOK
<1> QED BY <1>1, <1>2

(* A new cluster has an ID that no other has.                              *)
LEMMA PostClusterKeeps ==
    ASSUME TypeOK, PostCluster
    PROVE  /\ nextCluster \in ClusterIds /\ nextCluster' \in 1 .. MaxClusterId + 1
           /\ nextCluster' = nextCluster + 1 /\ clusters' = clusters \cup {nextCluster}
<1>1. nextCluster \in 1 .. MaxClusterId + 1
  BY DEF TypeOK
<1> QED BY <1>1, Bounds DEF PostCluster, ClusterIds

(* What is planned, and what an Update asks for, are values of the         *)
(* controller.                                                             *)
LEMMA WantedType ==
    ASSUME TypeOK, ~ImageDue
    PROVE  Wanted \in NodeSpec /\ tfImage \in DOMAIN images /\ tfImage # NoId
<1>1. want.cp \in ControlPlanes /\ want.workers \in Workers
  BY WantsType DEF TypeOK
<1> QED BY <1>1, Distinct DEF TypeOK, ImageDue, OfWantedVersion, Wanted, NodeSpec

LEMMA PatchedType ==
    ASSUME TypeOK, ~ImageDue, goal \in NodeSpec
    PROVE  /\ Patched \in NodeSpec
           /\ Patched.image \in {tfImage, goal.image}
<1>1. want.cp \in ControlPlanes /\ want.workers \in Workers /\ tfImage \in ImageIds
  BY WantedType DEF Wanted, NodeSpec
<1> QED BY <1>1 DEF Patched, NodeSpec

(* Work that starts keeps the types.                                       *)
LEMMA StartWorkType ==
    ASSUME TypeOK, NEW new \in NodeSpec, StartWork(new)
    PROVE  /\ status' \in Statuses /\ pending' \in BOOLEAN
           /\ goal' = new /\ Accepted(new)
           /\ ~lags => status' = "upgrading" /\ pending' = pending
           /\ lags => status' = "upgrading" \/ pending'
<1>1. status \in Statuses /\ pending \in BOOLEAN
  BY DEF TypeOK, Statuses
<1> QED BY <1>1 DEF StartWork, Statuses

(* What a GET shows of a cluster that exists is saved as a state.          *)
LEMMA SaveType ==
    ASSUME TypeOK, Known, Followed \in clusters, NEW id \in ClusterIds, Save(id)
    PROVE  /\ tf' \in StateType /\ tf'.id = id /\ tf'.spec = Shown
           /\ Shown = goal \/ Shown = nodes
BY DEF Known, Save, Shown, StateType

-----------------------------------------------------------------------------
(* Types *)

(* Every step keeps the types.                                             *)
LEMMA TypeStep ==
    ASSUME TypeOK, Known, [Next]_vars
    PROVE  TypeOK'
<1> USE Distinct
<1>x. TypeOK /\ Known
  OBVIOUS
<1>t. /\ DOMAIN images \subseteq ImageIds /\ images \in [DOMAIN images -> Versions]
      /\ nextImage \in 1 .. MaxImageId + 1 /\ nextCluster \in 1 .. MaxClusterId + 1
      /\ clusters \subseteq ClusterIds /\ status \in Statuses
      /\ nodes \in NodeSpec \cup {Nothing} /\ goal \in NodeSpec \cup {Nothing}
      /\ pending \in BOOLEAN
      /\ records \in {"goal", "actual"} /\ lags \in BOOLEAN /\ decodes \in Decodings
      /\ tfImage \in ImageIds \cup {NoId} /\ deposed \subseteq ImageIds
      /\ tf \in StateType /\ want \in Wants /\ fresh \subseteq Both
      /\ pc \in {"idle", "creating", "waiting"} /\ result \in Results
      /\ pc = "idle" => cluster = NoId
      /\ pc # "idle" => cluster \in ClusterIds
      /\ current \in BOOLEAN /\ quiet \in BOOLEAN /\ abandoned \subseteq ClusterIds
      /\ faults \in 0 .. MaxFaults /\ breaks \in 0 .. MaxBreaks
      /\ drifts \in 0 .. MaxDrift /\ edits \in 0 .. MaxEdits
      /\ tf.id # NoId => tf.id \in ClusterIds
  BY DEF TypeOK, StateType, Statuses, Results, Idle
<1>b. /\ faults \in 0 .. MaxFaults /\ breaks \in 0 .. MaxBreaks
      /\ drifts \in 0 .. MaxDrift /\ edits \in 0 .. MaxEdits
  BY <1>t
<1>f. ASSUME Fault PROVE faults' \in 0 .. MaxFaults
  BY <1>f, <1>b, Bounds DEF Fault
<1>h. ASSUME Forget
      PROVE  status' \in Statuses /\ pending' \in BOOLEAN
             /\ nodes' \in NodeSpec \cup {Nothing} /\ goal' \in NodeSpec \cup {Nothing}
  BY <1>h DEF Forget, Statuses
<1>i. ASSUME NEW i, DropImage(i)
      PROVE  DOMAIN images' \subseteq ImageIds /\ images' \in [DOMAIN images' -> Versions]
  BY <1>i, <1>x, <1>t, DropImageKeeps
<1>j. ASSUME PostImage
      PROVE  /\ DOMAIN images' \subseteq ImageIds /\ images' \in [DOMAIN images' -> Versions]
             /\ nextImage' \in 1 .. MaxImageId + 1
  BY <1>j, <1>x, <1>t, PostImageKeeps
<1>k. ASSUME PostCluster
      PROVE  /\ clusters' \subseteq ClusterIds /\ nextCluster' \in 1 .. MaxClusterId + 1
             /\ nextCluster \in ClusterIds
  BY <1>k, <1>x, <1>t, PostClusterKeeps
<1>g. ASSUME DOMAIN images' \subseteq ImageIds, images' \in [DOMAIN images' -> Versions],
             nextImage' \in 1 .. MaxImageId + 1, nextCluster' \in 1 .. MaxClusterId + 1,
             clusters' \subseteq ClusterIds, status' \in Statuses, pending' \in BOOLEAN,
             nodes' \in NodeSpec \cup {Nothing}, goal' \in NodeSpec \cup {Nothing},
             UNCHANGED choices,
             tfImage' \in ImageIds \cup {NoId}, deposed' \subseteq ImageIds,
             tf' \in StateType, want' \in Wants, fresh' \subseteq Both,
             pc' \in {"idle", "creating", "waiting"}, result' \in Results,
             pc' = "idle" => cluster' = NoId, pc' # "idle" => cluster' \in ClusterIds,
             current' \in BOOLEAN, quiet' \in BOOLEAN, abandoned' \subseteq ClusterIds,
             faults' \in 0 .. MaxFaults, breaks' \in 0 .. MaxBreaks,
             drifts' \in 0 .. MaxDrift, edits' \in 0 .. MaxEdits
      PROVE  TypeOK'
  BY <1>g, <1>t DEF TypeOK, StateType, Statuses, Results, Idle, choices
<1>1. CASE WorkDone \/ WorkBegins
  BY <1>1, <1>g, <1>t DEF WorkDone, WorkBegins, Statuses, saved, history, bounds
<1>2. CASE WorkBreaks
  <2>1. breaks' \in 0 .. MaxBreaks
    BY <1>2, <1>b, Bounds DEF WorkBreaks
  <2>2. status' \in Statuses
    BY <1>2 DEF WorkBreaks, Statuses
  <2> QED BY <1>2, <1>g, <1>t, <2>1, <2>2 DEF WorkBreaks, saved, history
<1>3. CASE ReadImage
  <2>1. tfImage' \in ImageIds \cup {NoId} /\ fresh' \subseteq Both
    BY <1>3, <1>t DEF ReadImage, Both
  <2> QED BY <1>3, <1>g, <1>t, <2>1 DEF ReadImage, controller, work, history, bounds
<1>4. CASE Read
  <2>1. fresh' \subseteq Both /\ result' \in Results
    BY <1>4, <1>t DEF Read, Both, Results
  <2>2. tf' \in StateType
    BY <1>4, <1>x, <1>t, SaveType DEF Read, Followed
  <2> QED BY <1>4, <1>g, <1>t, <2>1, <2>2 DEF Read, controller, work, bounds
<1>5. CASE ReadFails
  <2>1. /\ status' \in Statuses /\ pending' \in BOOLEAN
        /\ nodes' \in NodeSpec \cup {Nothing}
        /\ goal' \in NodeSpec \cup {Nothing} /\ tf' \in StateType
        /\ abandoned' \subseteq ClusterIds
    BY <1>5, <1>h, <1>t DEF ReadFails, work
  <2>2. fresh' \subseteq Both /\ pc' = "idle" /\ cluster' = NoId /\ result' \in Results
    BY <1>5, <1>t DEF ReadFails, Fail, Finish, Both, Results
  <2> QED BY <1>5, <1>f, <1>g, <1>t, <2>1, <2>2 DEF ReadFails
<1>6. CASE ImportImage
  <2>1. tfImage' \in ImageIds \cup {NoId} /\ deposed' \subseteq ImageIds
    BY <1>6, <1>x, <1>t, PostImageKeeps DEF ImportImage
  <2> QED BY <1>6, <1>g, <1>j, <1>t, <2>1 DEF ImportImage, history, bounds, work
<1>7. CASE ImportImageFails
  <2>1. /\ DOMAIN images' \subseteq ImageIds /\ images' \in [DOMAIN images' -> Versions]
        /\ nextImage' \in 1 .. MaxImageId + 1
    BY <1>7, <1>j, <1>t DEF ImportImageFails
  <2> QED BY <1>7, <1>f, <1>g, <1>t, <2>1 DEF ImportImageFails, Fail, Finish, Results, saved, history, work
<1>8. CASE DeleteImage
  <2>1. /\ DOMAIN images' \subseteq ImageIds /\ images' \in [DOMAIN images' -> Versions]
        /\ tfImage' \in ImageIds \cup {NoId} /\ deposed' \subseteq ImageIds
    BY <1>8, <1>i, <1>t DEF DeleteImage
  <2> QED BY <1>8, <1>g, <1>t, <2>1 DEF DeleteImage, history, bounds, work
<1>9. CASE DeleteImageFails
  <2>1. /\ DOMAIN images' \subseteq ImageIds /\ images' \in [DOMAIN images' -> Versions]
    BY <1>9, <1>i, <1>t DEF DeleteImageFails
  <2> QED BY <1>9, <1>f, <1>g, <1>t, <2>1 DEF DeleteImageFails, Fail, Finish, Results, saved, history, work
<1>10. CASE PlanUnreadable \/ UpdateRefused
  BY <1>10, <1>g, <1>t
     DEF PlanUnreadable, UpdateRefused, Fail, Finish, Results, controller, work, saved, history, bounds
<1>11. CASE CreateCluster
  <2>1. Wanted \in NodeSpec
    BY <1>11, <1>x, WantedType DEF CreateCluster, ClusterDue
  <2>2. status' \in Statuses /\ result' \in Results
    BY <1>11 DEF CreateCluster, Statuses, Results
  <2> QED BY <1>11, <1>g, <1>k, <1>t, <2>1, <2>2 DEF CreateCluster, saved, bounds
<1>12. CASE CreateClusterFails
  <2>1. /\ clusters' \subseteq ClusterIds /\ nextCluster' \in 1 .. MaxClusterId + 1
        /\ abandoned' \subseteq ClusterIds
    BY <1>12, <1>k, <1>t DEF CreateClusterFails
  <2> QED BY <1>12, <1>f, <1>g, <1>t, <2>1 DEF CreateClusterFails, Fail, Finish, Results, saved, work
<1>13. CASE PollReady
  <2>1. cluster \in ClusterIds /\ Followed = cluster /\ cluster \in clusters
    BY <1>13, <1>t DEF PollReady, Polled, Idle, Followed
  <2>2. tf' \in StateType
    BY <1>13, <1>x, <2>1, SaveType DEF PollReady
  <2> QED BY <1>13, <1>g, <1>t, <2>2 DEF PollReady, Finish, Results, controller, work, history, bounds
<1>14. CASE CreateFails
  <2>1. faults' \in 0 .. MaxFaults /\ abandoned' \subseteq ClusterIds
    BY <1>14, <1>f, <1>b, <1>t DEF CreateFails, GiveUp
  <2> QED BY <1>14, <1>g, <1>h, <1>t, <2>1 DEF CreateFails, Fail, Finish, Results, saved
<1>15. CASE Update
  <2>1. Patched \in NodeSpec /\ tf.id \in ClusterIds
    BY <1>15, <1>x, <1>t, PatchedType DEF Update, Ready, ClusterDue, Known, Followed
  <2>2. status' \in Statuses /\ pending' \in BOOLEAN /\ goal' = Patched
    BY <1>15, <1>x, <2>1, StartWorkType DEF Update
  <2>3. current' \in BOOLEAN /\ quiet' \in BOOLEAN /\ result' \in Results
    BY <1>15 DEF Update, Results
  <2> QED BY <1>15, <1>g, <1>t, <2>1, <2>2, <2>3 DEF Update, saved, bounds
<1>16. CASE UpdateFails
  <2>1. /\ status' \in Statuses /\ pending' \in BOOLEAN
        /\ goal' \in NodeSpec \cup {Nothing} /\ faults' \in 0 .. MaxFaults
    <3>1. CASE UNCHANGED <<work, goal>>
      BY <1>16, <1>f, <1>t, <3>1 DEF UpdateFails, work
    <3>2. CASE tf.id \in clusters /\ StartWork(Patched) /\ Fault
      <4>1. Patched \in NodeSpec
        BY <1>16, <1>x, <3>2, PatchedType DEF UpdateFails, Ready, ClusterDue, Known, Followed
      <4> QED BY <1>f, <1>x, <3>2, <4>1, StartWorkType
    <3> QED BY <1>16, <3>1, <3>2 DEF UpdateFails
  <2> QED BY <1>16, <1>g, <1>t, <2>1 DEF UpdateFails, Fail, Finish, Results, saved, history
<1>17. CASE WaitFails
  <2>1. faults' \in 0 .. MaxFaults
    BY <1>17, <1>f, <1>t DEF WaitFails, GiveUp
  <2> QED BY <1>17, <1>g, <1>t, <2>1 DEF WaitFails, Fail, Finish, Results, controller, work, saved, history
<1>18. CASE Delete
  BY <1>18, <1>g, <1>h, <1>t DEF Delete, DropCluster, Finish, Results, history, bounds
<1>19. CASE DeleteFails
  <2>1. /\ clusters' \subseteq ClusterIds /\ status' \in Statuses /\ pending' \in BOOLEAN
        /\ nodes' \in NodeSpec \cup {Nothing} /\ goal' \in NodeSpec \cup {Nothing}
        /\ faults' \in 0 .. MaxFaults
    BY <1>19, <1>f, <1>h, <1>t DEF DeleteFails, DropCluster, work
  <2> QED BY <1>19, <1>g, <1>t, <2>1 DEF DeleteFails, Fail, Finish, Results, saved, history
<1>20. CASE Foreign
  <2>d. drifts < MaxDrift /\ drifts' = drifts + 1 /\ quiet' = FALSE
    BY <1>20 DEF Foreign
  <2>e. drifts' \in 0 .. MaxDrift
    BY <1>b, <2>d, Bounds
  <2>1. drifts' \in 0 .. MaxDrift /\ quiet' \in BOOLEAN
    BY <2>d, <2>e
  <2>c. UNCHANGED <<images, nextImage, nextCluster, choices, saved, want, fresh, pc, cluster,
                    result, current, abandoned, faults, breaks, edits>>
    BY <1>20 DEF Foreign
  <2>2. CASE clusters' = clusters \ {Followed} /\ Forget
    BY <1>g, <1>h, <1>t, <2>1, <2>2, <2>c DEF saved
  <2>3. ASSUME NEW n \in Workers, StartWork([goal EXCEPT !.workers = n]), UNCHANGED <<clusters, nodes>>
        PROVE  TypeOK'
    <3>1. goal \in NodeSpec
      BY <1>20, <1>x DEF Foreign, Known
    <3>2. [goal EXCEPT !.workers = n] \in NodeSpec
      BY <3>1 DEF NodeSpec
    <3>3. goal' \in NodeSpec /\ status' \in Statuses /\ pending' \in BOOLEAN
      BY <1>x, <2>3, <3>2, StartWorkType
    <3> QED BY <1>g, <1>t, <2>1, <2>3, <2>c, <3>3 DEF saved
  <2> QED BY <1>20, <2>2, <2>3 DEF Foreign
<1>21. CASE Edit
  <2>1. edits' \in 0 .. MaxEdits
    BY <1>21, <1>b, Bounds DEF Edit
  <2> QED BY <1>21, <1>g, <1>t, <2>1 DEF Edit, Results, controller, work, saved, history
<1>22. CASE UNCHANGED vars
  BY <1>22, <1>g, <1>t DEF vars, controller, work, saved, history, bounds
<1> QED
  BY <1>1, <1>2, <1>3, <1>4, <1>5, <1>6, <1>7, <1>8, <1>9, <1>10, <1>11, <1>12, <1>13,
     <1>14, <1>15, <1>16, <1>17, <1>18, <1>19, <1>20, <1>21, <1>22 DEF Next, Apply, Step

(* Every step keeps what is known.                                         *)
LEMMA KnownStep ==
    ASSUME TypeOK, Known, [Next]_vars
    PROVE  Known'
<1> USE Distinct
<1>x. TypeOK /\ Known
  OBVIOUS
<1>t. /\ pc \in {"idle", "creating", "waiting"}
      /\ pc = "idle" => cluster = NoId
      /\ pc = "idle" => Followed = tf.id
      /\ pc # "idle" => Followed = cluster
      /\ pc' = "idle" => Followed' = tf'.id
      /\ pc' # "idle" => Followed' = cluster'
      /\ clusters \subseteq ClusterIds
  BY DEF TypeOK, Idle, Followed
(* Steps that change neither what a cluster runs nor what it is to run. *)
<1>s. ASSUME nodes' = nodes, goal' = goal, clusters' \cap {Followed'} \subseteq clusters,
             Followed' \in {Followed, NoId}, clusters' \subseteq ClusterIds,
             pc' = "creating" => tf'.id = NoId, pc' = "waiting" => tf'.id = cluster'
      PROVE  Known'
  BY <1>s, <1>x DEF Known
(* Steps after which no cluster is followed. *)
<1>n. ASSUME Followed' \notin clusters',
             pc' = "creating" => tf'.id = NoId, pc' = "waiting" => tf'.id = cluster'
      PROVE  Known'
  BY <1>n DEF Known
<1>1. CASE WorkDone \/ WorkBegins
  BY <1>1, <1>x, <1>t DEF WorkDone, WorkBegins, Known, saved
<1>2. CASE WorkBreaks
  BY <1>2, <1>s, <1>x, <1>t DEF WorkBreaks, Known, saved
<1>3. CASE ReadImage
  BY <1>3, <1>s, <1>x, <1>t DEF ReadImage, Known, controller
<1>4. CASE Read
  <2>1. tf'.id \in {tf.id, NoId}
    BY <1>4 DEF Read, Save
  <2> QED BY <1>4, <1>s, <1>x, <1>t, <2>1 DEF Read, Known, controller, Idle
<1>5. CASE ReadFails
  <2>1. pc' = "idle" /\ clusters' = clusters /\ (tf' = NoState \/ UNCHANGED <<nodes, goal, tf>>)
        /\ pc = "idle"
    BY <1>5 DEF ReadFails, Fail, Finish, Idle
  <2> QED BY <1>n, <1>s, <1>t, <2>1
<1>6. CASE ImportImage \/ ImportImageFails \/ DeleteImage \/ DeleteImageFails
  <2>1. UNCHANGED <<nodes, goal, clusters, tf>> /\ pc = "idle" /\ pc' = "idle"
    BY <1>6 DEF ImportImage, ImportImageFails, DeleteImage, DeleteImageFails, Ready, Idle,
       Fail, Finish, saved
  <2> QED BY <1>s, <1>t, <2>1
<1>7. CASE PlanUnreadable \/ UpdateRefused
  BY <1>7, <1>s, <1>t
     DEF PlanUnreadable, UpdateRefused, Ready, Idle, Fail, Finish, controller, saved
<1>8. CASE CreateCluster
  <2>1. nodes' \in NodeSpec /\ goal' \in NodeSpec
    BY <1>8, <1>x, WantedType DEF CreateCluster, ClusterDue
  <2> QED BY <1>8, <2>1 DEF CreateCluster, Known, saved
<1>9. CASE CreateClusterFails
  BY <1>9, <1>t, <1>n, <1>x, PostClusterKeeps
     DEF CreateClusterFails, Ready, Idle, Fail, Finish, saved
<1>10. CASE PollReady
  <2>1. tf'.id = cluster /\ cluster \in clusters /\ pc' = "idle" /\ pc # "idle"
    BY <1>10 DEF PollReady, Polled, Save, Finish, Idle
  <2> QED BY <1>10, <1>s, <1>t, <2>1 DEF PollReady, controller
<1>11. CASE CreateFails
  <2>1. tf'.id = NoId /\ pc' = "idle" /\ clusters' = clusters
    BY <1>11, <1>x DEF CreateFails, Known, Fail, Finish, saved
  <2> QED BY <1>n, <1>t, <2>1
<1>12. CASE Update
  <2>1. Patched \in NodeSpec
    BY <1>12, <1>x, <1>t, PatchedType DEF Update, Ready, ClusterDue, Known, Idle
  <2>2. /\ goal' = Patched /\ nodes' = nodes /\ nodes \in NodeSpec
        /\ pc' = "waiting" /\ cluster' = tf.id /\ tf' = tf
    BY <1>12, <1>x, <1>t DEF Update, StartWork, Ready, Idle, Known, saved
  <2> QED BY <2>1, <2>2 DEF Known
<1>13. CASE UpdateFails
  <2>1. pc = "idle" /\ pc' = "idle" /\ UNCHANGED <<nodes, clusters, tf>>
    BY <1>13 DEF UpdateFails, Ready, Idle, Fail, Finish, saved
  <2>2. CASE goal' = goal
    BY <1>s, <1>t, <2>1, <2>2
  <2>3. CASE tf.id \in clusters /\ StartWork(Patched)
    <3>1. Patched \in NodeSpec
      BY <1>13, <1>x, <1>t, <2>3, PatchedType DEF UpdateFails, Ready, ClusterDue, Known, Idle
    <3> QED BY <1>x, <1>t, <2>1, <2>3, <3>1 DEF StartWork, Known
  <2> QED BY <1>13, <2>2, <2>3 DEF UpdateFails
<1>14. CASE WaitFails
  <2>1. pc = "waiting" /\ pc' = "idle" /\ UNCHANGED <<clusters, nodes, goal, tf>>
    BY <1>14 DEF WaitFails, Fail, Finish, controller, saved
  <2>2. Followed' = Followed
    BY <1>x, <1>t, <2>1 DEF Known
  <2> QED BY <1>s, <1>t, <2>1, <2>2
<1>15. CASE Delete
  BY <1>15, <1>n, <1>t DEF Delete, DropCluster, Finish
<1>16. CASE DeleteFails
  <2>1. pc = "idle" /\ pc' = "idle" /\ tf' = tf
    BY <1>16 DEF DeleteFails, Ready, Idle, Fail, Finish, saved
  <2>2. CASE DropCluster
    BY <1>n, <1>t, <2>1, <2>2 DEF DropCluster
  <2>3. CASE UNCHANGED <<clusters, work, nodes, goal>>
    BY <1>s, <1>t, <2>1, <2>3
  <2> QED BY <1>16, <2>2, <2>3 DEF DeleteFails
<1>17. CASE Foreign
  <2>1. UNCHANGED <<tf, pc, cluster>>
    BY <1>17 DEF Foreign, saved
  <2>2. Followed' = Followed
    BY <1>t, <2>1
  <2>3. CASE clusters' = clusters \ {Followed}
    BY <1>n, <1>x, <2>1, <2>2, <2>3 DEF Known
  <2>4. ASSUME NEW n \in Workers, StartWork([goal EXCEPT !.workers = n]), UNCHANGED <<clusters, nodes>>
        PROVE  Known'
    <3>1. goal \in NodeSpec /\ nodes \in NodeSpec
      BY <1>17, <1>x DEF Foreign, Known
    <3>2. goal' \in NodeSpec
      BY <2>4, <3>1 DEF StartWork, NodeSpec
    <3> QED BY <1>x, <2>1, <2>4, <3>1, <3>2 DEF Known
  <2> QED BY <1>17, <2>3, <2>4 DEF Foreign
<1>18. CASE Edit
  BY <1>18, <1>s, <1>t DEF Edit, Idle, controller, saved
<1>19. CASE UNCHANGED vars
  BY <1>19, <1>s, <1>x, <1>t DEF vars, controller, saved, Known
<1> QED
  BY <1>1, <1>2, <1>3, <1>4, <1>5, <1>6, <1>7, <1>8, <1>9, <1>10, <1>11, <1>12, <1>13,
     <1>14, <1>15, <1>16, <1>17, <1>18, <1>19 DEF Next, Apply, Step

(* Both hold in every reachable state.                                     *)
LEMMA AlwaysKnown == Spec => [](TypeOK /\ Known)
<1>1. Init => TypeOK /\ Known
  <2> SUFFICES ASSUME Init PROVE TypeOK /\ Known
    OBVIOUS
  <2>1. /\ 0 \in 0 .. MaxFaults /\ 0 \in 0 .. MaxBreaks /\ 0 \in 0 .. MaxDrift
        /\ 0 \in 0 .. MaxEdits /\ 1 \in 1 .. MaxImageId + 1 /\ 1 \in 1 .. MaxClusterId + 1
    BY Bounds
  <2>2. DOMAIN images = {} /\ images \in [DOMAIN images -> Versions]
    BY DEF Init
  <2>3. records \in {"goal", "actual"} /\ lags \in BOOLEAN
    <3>1. PICK c \in Controllers : records = c.records /\ lags = c.lags
      BY DEF Init
    <3>2. c \in [records : {"goal", "actual"}, lags : BOOLEAN]
      BY KubeAssumption
    <3> QED BY <3>1, <3>2
  <2>4. TypeOK
    BY <2>1, <2>2, <2>3 DEF Init, TypeOK, Idle, Both
  <2> QED BY <2>4 DEF Init, Known
<1>2. TypeOK /\ Known /\ [Next]_vars => TypeOK' /\ Known'
  BY TypeStep, KnownStep
<1> QED BY <1>1, <1>2, PTL DEF Spec

(* Every variable has its type, for any node counts, versions and bounds.  *)
THEOREM TypeCorrect == Spec => []TypeOK
BY AlwaysKnown, PTL

-----------------------------------------------------------------------------
(* One cluster at a time *)

(* IDs are handed out in order.                                            *)
Numbered ==
    /\ clusters \cup abandoned \subseteq 1 .. nextCluster - 1
    /\ tf.id < nextCluster /\ cluster < nextCluster

(* Every step keeps that.                                                  *)
LEMMA NumberedStep ==
    ASSUME TypeOK, Known, Numbered, [Next]_vars
    PROVE  Numbered'
<1> USE Distinct
<1>x. TypeOK /\ Numbered
  OBVIOUS
<1>n. nextCluster \in 1 .. MaxClusterId + 1
  BY DEF TypeOK
<1>o. nextCluster \in Nat \ {0}
  BY <1>n, Bounds
<1>t. /\ nextCluster \in Nat \ {0} /\ tf.id \in Nat /\ cluster \in Nat
      /\ tf.id = NoId \/ tf.id \in ClusterIds
      /\ pc = "creating" => cluster \in ClusterIds
  <2>1. /\ tf \in [id : ClusterIds, spec : NodeSpec] \cup {NoState}
        /\ cluster \in IF pc = "idle" THEN {NoId} ELSE ClusterIds
    BY DEF TypeOK, Idle
  <2>2. tf.id = NoId \/ tf.id \in ClusterIds
    BY <2>1
  <2>3. /\ cluster = NoId \/ cluster \in ClusterIds
        /\ pc = "creating" => cluster \in ClusterIds
    BY <2>1
  <2>4. tf.id \in Nat /\ cluster \in Nat
    <3>1. NoId \in Nat /\ ClusterIds \subseteq Nat
      BY Distinct
    <3> QED BY <2>2, <2>3, <3>1
  <2> QED BY <1>o, <2>2, <2>3, <2>4
(* Steps that make no cluster. *)
<1>s. ASSUME nextCluster' = nextCluster, clusters' \subseteq clusters,
             abandoned' \subseteq abandoned \cup ({tf.id, cluster} \ {NoId}),
             tf'.id \in {NoId, tf.id, cluster}, cluster' \in {NoId, tf.id, cluster}
      PROVE  Numbered'
  <2>1. nextCluster' \in Nat \ {0} /\ tf'.id < nextCluster' /\ cluster' < nextCluster'
    BY <1>s, <1>t DEF Numbered
  <2>2. \A c \in clusters \cup abandoned : c \in 1 .. nextCluster - 1
    BY DEF Numbered
  <2>3. \A c \in {tf.id, cluster} \ {NoId} : c \in 1 .. nextCluster - 1
    BY <1>t DEF Numbered
  <2> QED BY <1>s, <2>1, <2>2, <2>3 DEF Numbered
<1>1. CASE WorkBegins \/ WorkDone \/ WorkBreaks
  BY <1>1, <1>s DEF WorkBegins, WorkDone, WorkBreaks, saved, history
<1>2. CASE ReadImage
  BY <1>2, <1>s DEF ReadImage, controller, history
<1>3. CASE Read
  BY <1>3, <1>s DEF Read, Save, controller
<1>4. CASE ReadFails
  BY <1>4, <1>s DEF ReadFails, Fail, Finish
<1>5. CASE ImportImage \/ ImportImageFails \/ DeleteImage \/ DeleteImageFails
  BY <1>5, <1>s
     DEF ImportImage, ImportImageFails, DeleteImage, DeleteImageFails, Fail, Finish, saved, history
<1>6. CASE PlanUnreadable \/ UpdateRefused
  BY <1>6, <1>s DEF PlanUnreadable, UpdateRefused, Fail, Finish, controller, saved, history
(* Steps that make one. *)
<1>m. ASSUME nextCluster' = nextCluster + 1, clusters' = clusters \cup {nextCluster},
             abandoned' \subseteq abandoned \cup {nextCluster},
             tf'.id = tf.id, cluster' \in {NoId, nextCluster}
      PROVE  Numbered'
  <2>1. \A c \in clusters \cup abandoned : c \in 1 .. nextCluster - 1
    BY DEF Numbered
  <2>2. \A c \in 1 .. nextCluster - 1 : c \in 1 .. nextCluster' - 1
    BY <1>m, <1>t
  <2>3. nextCluster \in 1 .. nextCluster' - 1
    BY <1>m, <1>t
  <2>4. tf'.id < nextCluster' /\ cluster' < nextCluster'
    BY <1>m, <1>t DEF Numbered
  <2> QED BY <1>m, <2>1, <2>2, <2>3, <2>4 DEF Numbered
<1>7. CASE CreateCluster
  BY <1>7, <1>m, <1>x, PostClusterKeeps DEF CreateCluster, saved
<1>8. CASE CreateClusterFails
  <2>1. tf' = tf /\ cluster' = NoId
    BY <1>8 DEF CreateClusterFails, Fail, Finish, saved
  <2>2. CASE UNCHANGED <<clusters, nextCluster, abandoned>>
    BY <1>s, <2>1, <2>2
  <2>3. CASE PostCluster /\ abandoned' = abandoned \cup {nextCluster}
    BY <1>m, <1>x, <2>1, <2>3, PostClusterKeeps
  <2> QED BY <1>8, <2>2, <2>3 DEF CreateClusterFails
<1>9. CASE PollReady
  BY <1>9, <1>s DEF PollReady, Save, Finish, controller, history
<1>10. CASE CreateFails
  BY <1>10, <1>s, <1>t DEF CreateFails, Fail, Finish, saved
<1>11. CASE Update
  BY <1>11, <1>s DEF Update, saved
<1>12. CASE UpdateFails \/ WaitFails
  BY <1>12, <1>s DEF UpdateFails, WaitFails, Fail, Finish, controller, saved, history
<1>13. CASE Delete
  BY <1>13, <1>s DEF Delete, DropCluster, Finish, history
<1>14. CASE DeleteFails
  BY <1>14, <1>s DEF DeleteFails, DropCluster, Fail, Finish, saved, history
<1>15. CASE Foreign
  <2>1. UNCHANGED <<nextCluster, tf, cluster, abandoned>>
    BY <1>15 DEF Foreign, saved
  <2>2. clusters' \subseteq clusters
    BY <1>15 DEF Foreign
  <2> QED BY <1>s, <2>1, <2>2
<1>16. CASE Edit
  BY <1>16, <1>s DEF Edit, controller, saved, history
<1>17. CASE UNCHANGED vars
  BY <1>17, <1>s DEF vars, controller, saved, history
<1> QED
  BY <1>1, <1>2, <1>3, <1>4, <1>5, <1>6, <1>7, <1>8, <1>9, <1>10, <1>11, <1>12, <1>13,
     <1>14, <1>15, <1>16, <1>17 DEF Next, Apply, Step

(* A step that changes neither the clusters nor which one is followed.     *)
LEMMA Stutter ==
    ASSUME clusters' = clusters, tf'.id = tf.id, Followed' = Followed, abandoned' = abandoned
    PROVE  [Object!Next]_Object!vars
BY DEF Object!vars

(* A request that fails is a failure of ManagedObject.                     *)
LEMMA FaultFails ==
    ASSUME TypeOK, Fault
    PROVE  Object!Failure
<1>1. faults \in 0 .. MaxFaults
  BY DEF TypeOK
<1>2. MaxFaults \in Nat
  BY KubeAssumption
<1> QED BY <1>1, <1>2 DEF Fault, Object!Failure

(* Every step is one of ManagedObject, or leaves its variables alone.      *)
LEMMA ObjectStep ==
    ASSUME TypeOK, Known, Numbered, [Next]_vars
    PROVE  [Object!Next]_Object!vars
<1> USE Distinct
<1>x. TypeOK /\ Known /\ Numbered
  OBVIOUS
<1>t. /\ pc \in {"idle", "creating", "waiting"}
      /\ pc = "idle" => cluster = NoId /\ Followed = tf.id
      /\ pc # "idle" => cluster \in ClusterIds /\ Followed = cluster
      /\ pc' = "idle" => Followed' = tf'.id
      /\ pc' # "idle" => Followed' = cluster'
      /\ pc = "creating" => tf.id = NoId
      /\ pc = "waiting" => tf.id = cluster
      /\ clusters \subseteq ClusterIds
  BY DEF TypeOK, Known, Idle, Followed
<1>n. nextCluster \notin clusters \cup abandoned
  <2>0. nextCluster \in 1 .. MaxClusterId + 1
    BY DEF TypeOK
  <2>1. nextCluster \in Nat \ {0}
    BY <2>0, Bounds
  <2>2. nextCluster \notin 1 .. nextCluster - 1
    BY <2>1
  <2> QED BY <2>2 DEF Numbered
<1>p. ASSUME PostCluster
      PROVE  /\ nextCluster \in ClusterIds \ (clusters \cup abandoned)
             /\ clusters' = clusters \cup {nextCluster}
  BY <1>p, <1>x, <1>n, PostClusterKeeps
<1>1. CASE WorkBegins \/ WorkDone \/ WorkBreaks
  BY <1>1, <1>t, Stutter DEF WorkBegins, WorkDone, WorkBreaks, saved, history
<1>2. CASE ReadImage
  BY <1>2, <1>t, Stutter DEF ReadImage, controller, history
<1>3. CASE Read
  <2>1. UNCHANGED <<clusters, abandoned>> /\ pc = "idle" /\ pc' = "idle"
    BY <1>3 DEF Read, controller, Idle
  <2>2. CASE tf.id \in clusters
    BY <1>3, <1>t, <2>1, <2>2, Stutter DEF Read, Save
  <2>3. CASE tf.id = NoId
    <3>1. tf' = NoState
      BY <1>3, <1>t, <2>3 DEF Read
    <3> QED BY <1>t, <2>1, <2>3, <3>1, Stutter
  <2>4. CASE tf.id \notin clusters /\ tf.id # NoId
    <3>1. Object!Forget
      BY <1>3, <1>t, <2>1, <2>4 DEF Read, Object!Forget
    <3> QED BY <3>1 DEF Object!Next
  <2> QED BY <2>2, <2>3, <2>4
<1>4. CASE ReadFails
  <2>1. pc = "idle" /\ pc' = "idle" /\ clusters' = clusters
    BY <1>4 DEF ReadFails, Fail, Finish, Idle
  <2>2. CASE UNCHANGED <<tf, abandoned>>
    BY <1>t, <2>1, <2>2, Stutter
  <2>3. CASE tf.id # NoId /\ tf' = NoState /\ abandoned' = abandoned \cup {tf.id}
    <3>0. Object!Failure
      BY <1>4, <1>x, FaultFails DEF ReadFails
    <3>1. Object!Forget
      BY <1>t, <2>1, <2>3, <3>0 DEF Object!Forget
    <3> QED BY <3>1 DEF Object!Next
  <2> QED BY <1>4, <2>2, <2>3 DEF ReadFails
<1>5. CASE ImportImage \/ ImportImageFails \/ DeleteImage \/ DeleteImageFails
  BY <1>5, <1>t, Stutter
     DEF ImportImage, ImportImageFails, DeleteImage, DeleteImageFails, Ready, Idle, Fail,
         Finish, saved, history
<1>6. CASE PlanUnreadable \/ UpdateRefused
  BY <1>6, <1>t, Stutter
     DEF PlanUnreadable, UpdateRefused, Ready, Idle, Fail, Finish, controller, saved, history
<1>7. CASE CreateCluster
  <2>1. /\ PostCluster /\ Followed = NoId /\ Followed' = nextCluster /\ tf'.id = NoId
        /\ abandoned' = abandoned
    BY <1>7, <1>t DEF CreateCluster, Ready, Idle, saved
  <2>2. Object!Make
    BY <1>p, <2>1 DEF Object!Make
  <2> QED BY <2>2 DEF Object!Next
<1>8. CASE CreateClusterFails
  <2>1. Followed = NoId /\ tf' = tf /\ Followed' = Followed
    BY <1>8, <1>t DEF CreateClusterFails, Ready, Idle, Fail, Finish, saved
  <2>2. CASE UNCHANGED <<clusters, nextCluster, abandoned>>
    BY <2>1, <2>2, Stutter
  <2>3. CASE PostCluster /\ abandoned' = abandoned \cup {nextCluster}
    <3>0. Object!Failure
      BY <1>8, <1>x, FaultFails DEF CreateClusterFails
    <3>1. Object!MakeLost
      BY <1>p, <2>1, <2>3, <3>0 DEF Object!MakeLost
    <3> QED BY <3>1 DEF Object!Next
  <2> QED BY <1>8, <2>2, <2>3 DEF CreateClusterFails
<1>9. CASE PollReady
  <2>1. /\ Followed = cluster /\ cluster # NoId /\ tf'.id = cluster /\ Followed' = cluster
        /\ UNCHANGED <<clusters, abandoned>>
    BY <1>9, <1>t DEF PollReady, Polled, Idle, Save, Finish, controller, history
  <2>2. Object!Save
    BY <2>1 DEF Object!Save
  <2> QED BY <2>2 DEF Object!Next
<1>10. CASE CreateFails
  <2>1. /\ Followed = cluster /\ cluster # NoId /\ tf.id = NoId /\ tf' = tf /\ Followed' = NoId
        /\ clusters' = clusters /\ abandoned' = abandoned \cup {cluster}
    BY <1>10, <1>t DEF CreateFails, Fail, Finish, saved
  <2>2. \/ Object!Failure \/ cluster \notin clusters
        \/ status \in {"failed", "upgrade_blocked"}
    BY <1>10, <1>x, FaultFails DEF CreateFails, GiveUp
  <2>3. Object!Abandon
    BY <2>1, <2>2 DEF Object!Abandon
  <2> QED BY <2>3 DEF Object!Next
<1>11. CASE Update
  BY <1>11, <1>t, Stutter DEF Update, Ready, Idle, saved
<1>12. CASE UpdateFails
  BY <1>12, <1>t, Stutter DEF UpdateFails, Ready, Idle, Fail, Finish, saved, history
<1>13. CASE WaitFails
  BY <1>13, <1>t, Stutter DEF WaitFails, Fail, Finish, controller, saved, history
<1>14. CASE Delete \/ DeleteFails
  <2>1. /\ pc = "idle" /\ pc' = "idle" /\ abandoned' = abandoned /\ tf' \in {tf, NoState}
    BY <1>14 DEF Delete, DeleteFails, Ready, Idle, Fail, Finish, saved, history
  <2>2. CASE DropCluster
    <3>1. Object!Remove
      BY <1>t, <2>1, <2>2 DEF DropCluster, Object!Remove
    <3> QED BY <3>1 DEF Object!Next
  <2>3. CASE UNCHANGED <<clusters, tf>>
    BY <1>t, <2>1, <2>3, Stutter
  <2> QED BY <1>14, <2>2, <2>3 DEF Delete, DeleteFails, saved
<1>15. CASE Foreign
  <2>1. UNCHANGED <<tf, pc, cluster, abandoned>>
    BY <1>15 DEF Foreign, saved
  <2>2. Followed' = Followed
    BY <1>t, <2>1
  <2>3. CASE clusters' = clusters
    BY <2>1, <2>2, <2>3, Stutter
  <2>4. CASE Followed \in clusters /\ clusters' = clusters \ {Followed}
    <3>1. Object!Vanish
      BY <2>1, <2>2, <2>4 DEF Object!Vanish
    <3> QED BY <3>1 DEF Object!Next
  <2> QED BY <1>15, <2>3, <2>4 DEF Foreign
<1>16. CASE Edit
  BY <1>16, <1>t, Stutter DEF Edit, Idle, controller, saved, history
<1>17. CASE UNCHANGED vars
  BY <1>17, <1>t, Stutter DEF vars, controller, saved, history
<1> QED
  BY <1>1, <1>2, <1>3, <1>4, <1>5, <1>6, <1>7, <1>8, <1>9, <1>10, <1>11, <1>12, <1>13,
     <1>14, <1>15, <1>16, <1>17 DEF Next, Apply, Step

(* A cluster resource makes, follows and deletes one cluster at a time,    *)
(* and loses one only where an error explains it, however long the         *)
(* controller works and wherever the waiting ends.                         *)
THEOREM Implements == Spec => ImplementsManagedObject
<1>1. Init => Numbered /\ Object!Init
  <2> SUFFICES ASSUME Init PROVE Numbered /\ Object!Init
    OBVIOUS
  <2>1. /\ clusters = {} /\ abandoned = {} /\ nextCluster = 1 /\ tf.id = 0 /\ cluster = 0
        /\ Followed = tf.id
    BY Distinct DEF Init, Followed, Idle
  <2> QED BY <2>1 DEF Numbered, Object!Init, NoId
<1>2. TypeOK /\ Known /\ Numbered /\ [Next]_vars => Numbered'
  BY NumberedStep
<1>3. TypeOK /\ Known /\ Numbered /\ [Next]_vars => [Object!Next]_Object!vars
  BY ObjectStep
<1> QED BY <1>1, <1>2, <1>3, AlwaysKnown, PTL DEF Spec, ImplementsManagedObject, Object!Spec

-----------------------------------------------------------------------------
(* Images and goals *)

(* IDs of images grow: what is to be deleted is older than what is saved.  *)
ImagesOrdered ==
    /\ DOMAIN images \subseteq 1 .. nextImage - 1
    /\ deposed \subseteq 1 .. nextImage - 1
    /\ tfImage < nextImage
    /\ tfImage # NoId => \A i \in deposed : i < tfImage

(* Every step keeps that.                                                  *)
LEMMA ImagesStep ==
    ASSUME TypeOK, ImagesOrdered, [Next]_vars
    PROVE  ImagesOrdered'
<1> USE Distinct
<1>x. TypeOK /\ ImagesOrdered
  OBVIOUS
<1>n. nextImage \in 1 .. MaxImageId + 1
  BY DEF TypeOK
<1>t. /\ nextImage \in Nat \ {0} /\ tfImage \in Nat
      /\ \A i \in deposed : i \in Nat
  <2>1. nextImage \in Nat \ {0}
    BY <1>n, Bounds
  <2>2. tfImage \in ImageIds \cup {NoId} /\ deposed \subseteq ImageIds
    BY DEF TypeOK
  <2> QED BY <2>1, <2>2
<1>s. ASSUME nextImage' = nextImage, DOMAIN images' \subseteq DOMAIN images,
             deposed' \subseteq deposed, tfImage' \in {tfImage, NoId}
      PROVE  ImagesOrdered'
  BY <1>s, <1>t DEF ImagesOrdered
<1>p. ASSUME PostImage
      PROVE  /\ DOMAIN images' \subseteq 1 .. nextImage' - 1 /\ nextImage' = nextImage + 1
             /\ deposed \subseteq 1 .. nextImage' - 1
             /\ tfImage < nextImage' /\ nextImage \in 1 .. nextImage' - 1
  <2>1. nextImage' = nextImage + 1 /\ DOMAIN images' = DOMAIN images \cup {nextImage}
    BY <1>p, <1>x, PostImageKeeps
  <2>2. 1 .. nextImage - 1 \subseteq 1 .. nextImage' - 1
    BY <1>t, <2>1
  <2>3. nextImage \in 1 .. nextImage' - 1
    BY <1>t, <2>1
  <2>4. tfImage < nextImage'
    BY <1>t, <2>1 DEF ImagesOrdered
  <2> QED BY <2>1, <2>2, <2>3, <2>4 DEF ImagesOrdered
<1>1. CASE ImportImage
  <2>1. tfImage' = nextImage /\ deposed' \subseteq deposed \cup ({tfImage} \ {NoId}) /\ PostImage
    BY <1>1 DEF ImportImage
  <2>2. tfImage # NoId => tfImage \in 1 .. nextImage' - 1
    BY <1>t, <1>p, <2>1
  <2>3. tfImage' < nextImage'
    BY <1>t, <1>p, <2>1
  <2>4. \A i \in deposed' : i < tfImage'
    BY <1>t, <2>1 DEF ImagesOrdered
  <2> QED BY <1>p, <2>1, <2>2, <2>3, <2>4 DEF ImagesOrdered
<1>2. CASE ImportImageFails
  <2>1. UNCHANGED <<deposed, tfImage>>
    BY <1>2 DEF ImportImageFails, saved
  <2>2. CASE UNCHANGED <<images, nextImage>>
    BY <1>s, <2>1, <2>2
  <2>3. CASE PostImage
    BY <1>p, <2>1, <2>3 DEF ImagesOrdered
  <2> QED BY <1>2, <2>2, <2>3 DEF ImportImageFails
<1>3. CASE DeleteImage
  <2>1. PICK i \in DoomedImages : /\ DropImage(i)
                                  /\ deposed' = deposed \ {i}
                                  /\ tfImage' = IF tfImage = i THEN NoId ELSE tfImage
    BY <1>3 DEF DeleteImage
  <2>2. DOMAIN images' \subseteq DOMAIN images
    BY <1>x, <2>1, DropImageKeeps
  <2> QED BY <1>3, <1>s, <2>1, <2>2 DEF DeleteImage
<1>4. CASE DeleteImageFails
  <2>1. DOMAIN images' \subseteq DOMAIN images
    BY <1>4, <1>x, DropImageKeeps DEF DeleteImageFails
  <2> QED BY <1>4, <1>s, <2>1 DEF DeleteImageFails, saved
<1>5. CASE ReadImage
  BY <1>5, <1>s DEF ReadImage, controller
<1>6. UNCHANGED <<images, nextImage, deposed, tfImage>> => ImagesOrdered'
  BY <1>s
<1>7. CASE WorkBegins \/ WorkDone \/ WorkBreaks \/ Read \/ ReadFails \/ PlanUnreadable
           \/ UpdateRefused \/ Edit \/ UNCHANGED vars
  BY <1>6, <1>7
     DEF WorkBegins, WorkDone, WorkBreaks, Read, ReadFails, PlanUnreadable, UpdateRefused, Edit,
         vars, controller, saved
<1>8. CASE CreateCluster \/ CreateClusterFails \/ Update \/ UpdateFails \/ Delete \/ DeleteFails
  BY <1>6, <1>8 DEF CreateCluster, CreateClusterFails, Update, UpdateFails, Delete, DeleteFails,
     saved
<1>9. CASE PollReady \/ CreateFails \/ WaitFails
  BY <1>6, <1>9 DEF PollReady, CreateFails, WaitFails, controller, saved
<1>10. CASE Foreign
  <2>1. UNCHANGED <<images, nextImage, saved>>
    BY <1>10 DEF Foreign
  <2> QED BY <1>6, <2>1 DEF saved
<1> QED
  BY <1>1, <1>2, <1>3, <1>4, <1>5, <1>7, <1>8, <1>9, <1>10 DEF Next, Apply, Step

-----------------------------------------------------------------------------
(* Success *)

(* While a handler waits, the goal is what it wants, unless others were at *)
(* work; and what it wants does not change before the next apply.          *)
Progress ==
    /\ SuccessIsDone
    /\ ~lags => ~pending
    /\ status = "ready" /\ ~pending => nodes = goal
    /\ pc = "creating" /\ quiet => goal = Wanted
    /\ pc = "waiting" /\ quiet /\ current => goal = Wanted
    /\ ~Idle => result = "none"
    /\ ~Idle \/ result \in {"created", "updated"} => want.present /\ ~ImageDue

(* An Update that knows the cluster asks for what is wanted.               *)
LEMMA PatchedIsWanted ==
    ASSUME TypeOK, ~ImageDue, goal \in NodeSpec, nodes \in NodeSpec,
           tf.spec = Shown, goal \in {nodes, Wanted}
    PROVE  Patched = Wanted
<1>1. tf.spec = goal \/ goal = Wanted
  BY DEF Shown
<1> QED BY <1>1 DEF Patched, Wanted, NodeSpec

(* Every step keeps the progress.                                          *)
LEMMA ProgressStep ==
    ASSUME TypeOK, Known, ImagesOrdered, Progress, [Next]_vars
    PROVE  Progress'
<1> USE Distinct DEF Progress, SuccessIsDone, Wanted, Idle
<1>x. TypeOK /\ Known /\ ImagesOrdered
  OBVIOUS
<1>t. pc \in {"idle", "creating", "waiting"}
  BY DEF TypeOK
<1>d. UNCHANGED <<images, tfImage, want>> => ImageDue' = ImageDue
  BY DEF ImageDue, OfWantedVersion
(* The handler ends, but for a Create or an Update that succeeds. *)
<1>f. ASSUME pc' = "idle", result' \notin {"created", "updated"}, lags' = lags,
             \/ UNCHANGED <<work, nodes, goal>>
             \/ status' # "ready" /\ (pending' => pending)
      PROVE  Progress'
  BY <1>f DEF work
<1>1. CASE WorkDone
  <2>1. UNCHANGED <<images, tfImage, want, goal, quiet, current, pc, result, lags, pending>>
    BY <1>1 DEF WorkDone, saved, history, choices
  <2>2. nodes' = goal' /\ status # "ready"
    BY <1>1, <2>1 DEF WorkDone, Working
  <2> QED BY <1>d, <2>1, <2>2
<1>2. CASE WorkBreaks
  <2>1. /\ UNCHANGED <<images, tfImage, want, goal, nodes, quiet, current, pc, result, lags>>
        /\ pending' = pending
    BY <1>2 DEF WorkBreaks, saved, history, choices
  <2>2. status' # "ready" /\ status # "ready"
    BY <1>2 DEF WorkBreaks, Working
  <2> QED BY <1>d, <2>1, <2>2
<1>3. CASE ReadImage
  <2>1. UNCHANGED <<controller, want, quiet, current, pc, result>> /\ pc = "idle"
    BY <1>3 DEF ReadImage, history
  <2>2. ~ImageDue => tfImage' = tfImage
    BY <1>3 DEF ReadImage, ImageDue, OfWantedVersion
  <2> QED BY <1>d, <2>1, <2>2 DEF controller, work, choices
<1>4. CASE Read
  BY <1>4, <1>f DEF Read, controller, choices
<1>5. CASE ReadFails
  BY <1>5, <1>f DEF ReadFails, Fail, Finish, Forget, choices
<1>6. CASE ImportImage
  <2>1. UNCHANGED <<work, nodes, goal, pc, result, lags>> /\ pc = "idle" /\ ImageDue
    BY <1>6 DEF ImportImage, Ready, choices
  <2> QED BY <1>f, <2>1
<1>7. CASE ImportImageFails \/ DeleteImageFails
  BY <1>7, <1>f DEF ImportImageFails, DeleteImageFails, Fail, Finish, choices
<1>8. CASE DeleteImage
  <2>0. /\ UNCHANGED <<work, nodes, goal, pc, result, quiet, current, want, lags>>
        /\ pc = "idle"
    BY <1>8 DEF DeleteImage, Ready, history, choices
  <2>1. /\ UNCHANGED <<status, pending, nodes, goal, pc, result, quiet, current, want, lags>>
        /\ pc = "idle"
    BY <2>0 DEF work
  <2>2. CASE result \notin {"created", "updated"}
    BY <1>f, <2>0, <2>2
  <2>3. CASE result \in {"created", "updated"}
    <3>1. want.present /\ ~ImageDue /\ tfImage # NoId
      BY <1>x, <2>3, WantedType
    <3>2. PICK i \in DoomedImages : DropImage(i) /\ tfImage' = IF tfImage = i THEN NoId ELSE tfImage
      BY <1>8 DEF DeleteImage
    <3>3. i \in deposed
      BY <3>1, <3>2 DEF DoomedImages
    <3>4. i \in Nat /\ tfImage \in Nat /\ i < tfImage
      BY <3>1, <3>3 DEF TypeOK, ImagesOrdered
    <3>5. tfImage' = tfImage /\ i # tfImage
      BY <3>2, <3>4
    <3>6. tfImage \in DOMAIN images' /\ images'[tfImage] = images[tfImage]
      BY <1>x, <3>1, <3>2, <3>5, DropImageKeeps, WantedType
    <3>7. ~ImageDue'
      BY <2>1, <3>1, <3>5, <3>6 DEF ImageDue, OfWantedVersion
    <3> QED BY <2>1, <3>1, <3>5, <3>7
  <2> QED BY <2>2, <2>3
<1>9. CASE PlanUnreadable \/ UpdateRefused
  BY <1>9, <1>f DEF PlanUnreadable, UpdateRefused, Fail, Finish, controller, choices
<1>10. CASE CreateCluster
  <2>1. /\ UNCHANGED <<images, tfImage, want, lags, pending>> /\ want.present /\ ~ImageDue
        /\ goal' = Wanted /\ status' = "provisioning" /\ pc' = "creating" /\ result' = "none"
    BY <1>10 DEF CreateCluster, ClusterDue, saved, choices
  <2> QED BY <1>d, <2>1
<1>11. CASE CreateClusterFails
  BY <1>11, <1>f DEF CreateClusterFails, Fail, Finish, choices
<1>12. CASE PollReady
  <2>1. /\ UNCHANGED <<images, status, pending, nodes, goal, tfImage, want, quiet, current, lags>>
        /\ status = "ready" /\ pc # "idle" /\ pc' = "idle"
    BY <1>12 DEF PollReady, Polled, Finish, controller, work, history, choices
  <2> QED BY <1>d, <1>t, <2>1
<1>13. CASE CreateFails
  BY <1>13, <1>f DEF CreateFails, Fail, Finish, Forget, choices
<1>w. ASSUME StartWork(Patched), tf.id \in clusters, pc = "idle", ~ImageDue
      PROVE  /\ goal' = Patched /\ nodes \in NodeSpec /\ goal \in NodeSpec
             /\ ~lags => ~pending'
             /\ status' = "ready" => pending'
  <2>1. nodes \in NodeSpec /\ goal \in NodeSpec
    BY <1>w DEF Known, Followed
  <2>2. Patched \in NodeSpec
    BY <1>w, <1>x, <2>1, PatchedType
  <2>3. /\ goal' = Patched
        /\ ~lags => status' = "upgrading" /\ pending' = pending
        /\ lags => status' = "upgrading" \/ pending'
    BY <1>w, <1>x, <2>2, StartWorkType
  <2>4. lags \in BOOLEAN
    BY <1>x DEF TypeOK
  <2> QED BY <2>1, <2>3, <2>4
<1>14. CASE Update
  <2>1. /\ UNCHANGED <<images, tfImage, want, lags>> /\ want.present /\ ~ImageDue
        /\ pc' = "waiting" /\ result' = "none" /\ StartWork(Patched)
        /\ tf.id \in clusters /\ pc = "idle"
    BY <1>14 DEF Update, Ready, ClusterDue, saved, choices
  <2>2. /\ goal' = Patched /\ nodes \in NodeSpec /\ goal \in NodeSpec
        /\ ~lags => ~pending'
        /\ status' = "ready" => pending'
    BY <1>w, <2>1
  <2>3. current' => tf.spec = Shown /\ goal \in {nodes, Wanted}
    BY <1>14 DEF Update
  <2>4. current' => goal' = Wanted
    BY <1>x, <2>1, <2>2, <2>3, PatchedIsWanted
  <2> QED BY <1>d, <2>1, <2>2, <2>4
<1>15. CASE UpdateFails
  <2>1. /\ pc' = "idle" /\ result' = "error" /\ nodes' = nodes /\ lags' = lags
        /\ pc = "idle" /\ ~ImageDue
    BY <1>15 DEF UpdateFails, ClusterDue, Ready, Fail, Finish, choices
  <2>2. CASE UNCHANGED <<work, goal>>
    BY <1>f, <2>1, <2>2
  <2>3. CASE tf.id \in clusters /\ StartWork(Patched)
    <3>1. /\ ~lags => ~pending'
          /\ status' = "ready" => pending'
      BY <1>w, <2>1, <2>3
    <3> QED BY <2>1, <3>1
  <2> QED BY <1>15, <2>2, <2>3 DEF UpdateFails
<1>16. CASE WaitFails
  BY <1>16, <1>f DEF WaitFails, Fail, Finish, controller, choices
<1>17. CASE Delete
  BY <1>17, <1>f DEF Delete, DropCluster, Forget, Finish, choices
<1>18. CASE DeleteFails
  BY <1>18, <1>f DEF DeleteFails, DropCluster, Forget, Fail, Finish, choices
<1>19. CASE Foreign
  <2>1. UNCHANGED <<images, saved, want, pc, result, lags>> /\ quiet' = FALSE
    BY <1>19 DEF Foreign, choices
  <2>2. CASE Forget
    <3>1. ~pending' /\ status' # "ready"
      BY <2>2 DEF Forget
    <3> QED BY <1>d, <2>1, <3>1 DEF saved
  <2>3. ASSUME NEW n \in Workers, StartWork([goal EXCEPT !.workers = n])
        PROVE  Progress'
    <3>1. goal \in NodeSpec
      BY <1>19 DEF Foreign, Known
    <3>2. [goal EXCEPT !.workers = n] \in NodeSpec
      BY <3>1 DEF NodeSpec
    <3>3. /\ ~lags => status' = "upgrading" /\ pending' = pending
          /\ lags => status' = "upgrading" \/ pending'
      BY <1>x, <2>3, <3>2, StartWorkType
    <3>4. lags \in BOOLEAN
      BY <1>x DEF TypeOK
    <3>5. /\ ~lags' => ~pending'
          /\ status' = "ready" => pending'
      BY <2>1, <3>3, <3>4
    <3> QED BY <1>d, <2>1, <3>5 DEF saved
  <2> QED BY <1>19, <2>2, <2>3 DEF Foreign
<1>20. CASE Edit
  BY <1>20, <1>f DEF Edit, controller, choices
<1>21. CASE UNCHANGED vars
  BY <1>21, <1>d DEF vars, controller, work, saved, history, choices
<1>22. CASE WorkBegins
  <2>1. UNCHANGED <<images, tfImage, want, goal, nodes, quiet, current, pc, result, lags>>
    BY <1>22 DEF WorkBegins, saved, history, choices
  <2>2. pending /\ ~pending' /\ status' = "upgrading"
    BY <1>22 DEF WorkBegins
  <2> QED BY <1>d, <2>1, <2>2
<1> QED
  BY <1>1, <1>2, <1>3, <1>4, <1>5, <1>6, <1>7, <1>8, <1>9, <1>10, <1>11, <1>12, <1>13,
     <1>14, <1>15, <1>16, <1>17, <1>18, <1>19, <1>20, <1>21, <1>22 DEF Next, Apply, Step

(* ImagesOrdered holds in every reachable state.                           *)
LEMMA AlwaysOrdered == Spec => []ImagesOrdered
<1>1. Init => ImagesOrdered
  <2> SUFFICES ASSUME Init PROVE ImagesOrdered
    OBVIOUS
  <2>1. DOMAIN images = {} /\ deposed = {} /\ tfImage = 0 /\ nextImage = 1
    BY Distinct DEF Init
  <2> QED BY <2>1, Distinct DEF ImagesOrdered
<1>2. TypeOK /\ ImagesOrdered /\ [Next]_vars => ImagesOrdered'
  BY ImagesStep
<1> QED BY <1>1, <1>2, AlwaysKnown, PTL DEF Spec

(* Progress holds in every reachable state.                                *)
LEMMA AlwaysProgress == Spec => []Progress
<1>1. Init => Progress
  BY DEF Init, Progress, SuccessIsDone, Idle
<1>2. TypeOK /\ Known /\ ImagesOrdered /\ Progress /\ [Next]_vars => Progress'
  BY ProgressStep
<1> QED BY <1>1, <1>2, AlwaysKnown, AlwaysOrdered, PTL DEF Spec

(* A Create or Update that reports success has waited for the work to end, *)
(* whatever the controller shows meanwhile and wherever the work breaks.   *)
THEOREM SuccessIsTrue == Spec => []SuccessIsDone
<1>1. Progress => SuccessIsDone
  BY DEF Progress
<1> QED BY <1>1, AlwaysProgress, PTL

(* After a Create or Update has reported success, the next plan asks       *)
(* nothing of the cluster and of its image: what was saved is what is      *)
(* configured, whatever a GET shows, until somebody else is at work - if    *)
(* the status does not lag behind the PATCH.                               *)
NextPlanIsEmpty ==
    ~lags /\ result \in {"created", "updated"} /\ quiet /\ current => ~ImageDue /\ ~ClusterDue

(* What a success has saved is what the nodes run.                         *)
Settled ==
    ~lags /\ result \in {"created", "updated"} /\ quiet /\ current =>
        tf.id # NoId /\ tf.spec = nodes

LEMMA SettledStep ==
    ASSUME TypeOK, Progress, Settled, [Next]_vars
    PROVE  Settled'
<1> USE DEF Settled
<1>x. TypeOK /\ Progress
  OBVIOUS
<1>h. /\ ~Idle => result = "none"
      /\ SuccessIsDone
  BY DEF Progress
<1>1. CASE PollReady
  <2>1. /\ ~Idle /\ status = "ready" /\ UNCHANGED <<nodes, goal, records, lags>>
        /\ tf' = [id |-> cluster, spec |-> Shown]
    BY <1>1 DEF PollReady, Polled, Save, controller, choices
  <2>2. cluster # NoId /\ (~lags => nodes = goal)
    BY <1>x, <2>1, Distinct DEF TypeOK, Progress
  <2> QED BY <2>1, <2>2 DEF Shown
<1>2. CASE WorkBegins \/ WorkDone \/ WorkBreaks
  <2>1. UNCHANGED <<tf, result, quiet, current, lags>> /\ (Working \/ pending)
    BY <1>2 DEF WorkBegins, WorkDone, WorkBreaks, saved, history, choices
  <2> QED BY <1>h, <2>1 DEF Progress, SuccessIsDone, Working
<1>3. CASE ReadImage \/ ImportImage \/ DeleteImage \/ UNCHANGED vars
  BY <1>3 DEF ReadImage, ImportImage, DeleteImage, vars, controller, saved, history, choices
<1>4. CASE Read \/ ReadFails \/ CreateCluster \/ Update \/ Delete \/ Edit
  BY <1>4 DEF Read, ReadFails, CreateCluster, Update, Delete, Edit, Fail, Finish
<1>5. CASE ImportImageFails \/ CreateClusterFails \/ UpdateFails \/ DeleteFails
           \/ DeleteImageFails \/ PlanUnreadable \/ UpdateRefused \/ CreateFails \/ WaitFails
  BY <1>5 DEF ImportImageFails, CreateClusterFails, UpdateFails, DeleteFails,
     DeleteImageFails, PlanUnreadable, UpdateRefused, CreateFails, WaitFails, Fail, Finish
<1>6. CASE Foreign
  BY <1>6 DEF Foreign
<1> QED BY <1>1, <1>2, <1>3, <1>4, <1>5, <1>6 DEF Next, Apply, Step

(* A success leaves the next plan empty, but for old images that are still *)
(* to be deleted.                                                          *)
THEOREM SuccessLeavesNoDiff == Spec => []NextPlanIsEmpty
<1>1. Init => Settled
  BY DEF Init, Settled
<1>2. TypeOK /\ Progress /\ Settled /\ [Next]_vars => Settled'
  BY SettledStep
<1>3. Progress /\ Settled => NextPlanIsEmpty
  BY DEF Progress, SuccessIsDone, Settled, NextPlanIsEmpty, ClusterDue
<1> QED BY <1>1, <1>2, <1>3, AlwaysKnown, AlwaysProgress, PTL DEF Spec

-----------------------------------------------------------------------------
(* Images in use *)

(* A cluster moves to newer images only: what its nodes run is not newer   *)
(* than its goal, the goal not newer than the saved image, and what was    *)
(* saved of the nodes not newer than what they run.                        *)
MovesOn ==
    /\ Followed \in clusters =>
          /\ nodes.image <= goal.image /\ goal.image < nextImage
          /\ tfImage # NoId => goal.image <= tfImage
    /\ records = "actual" /\ tf.id \in clusters => tf.spec.image <= nodes.image

(* Every step keeps that.                                                  *)
LEMMA MovesOnStep ==
    ASSUME TypeOK, Known, ImagesOrdered, MovesOn, [Next]_vars
    PROVE  MovesOn'
<1> USE Distinct
<1>x. TypeOK /\ Known /\ ImagesOrdered /\ MovesOn
  OBVIOUS
<1>t. /\ pc \in {"idle", "creating", "waiting"}
      /\ pc = "idle" => cluster = NoId /\ Followed = tf.id
      /\ pc # "idle" => cluster \in ClusterIds /\ Followed = cluster
      /\ pc' = "idle" => Followed' = tf'.id
      /\ pc' # "idle" => Followed' = cluster'
      /\ pc = "creating" => tf.id = NoId
      /\ pc = "waiting" => tf.id = cluster
      /\ clusters \subseteq ClusterIds
      /\ tf.id \in clusters => tf.id = Followed
  BY DEF TypeOK, Known, Idle, Followed
<1>n. nextImage \in Nat /\ tfImage \in Nat
  <2>1. nextImage \in 1 .. MaxImageId + 1
    BY DEF TypeOK
  <2>2. tfImage \in ImageIds \cup {NoId}
    BY DEF TypeOK
  <2>3. nextImage \in Nat
    BY <2>1, Bounds
  <2> QED BY <2>2, <2>3
<1>k. ASSUME Followed \in clusters
      PROVE  nodes.image \in Nat /\ goal.image \in Nat /\ nodes \in NodeSpec /\ goal \in NodeSpec
  BY <1>k DEF Known, NodeSpec
(* Steps that change neither what a cluster runs nor what it is to run. *)
<1>s. ASSUME UNCHANGED <<nodes, goal, records>>, clusters' \cap {Followed', tf'.id} \subseteq clusters,
             Followed' \in {Followed, NoId}, NoId \notin clusters',
             nextImage' = nextImage, tfImage' = tfImage,
             tf' = tf \/ tf'.id \notin clusters' \/ (tf'.id = Followed /\ tf'.spec = Shown)
      PROVE  MovesOn'
  <2>1. Followed' \in clusters' => Followed \in clusters
    BY <1>s
  <2>2. tf'.id \in clusters' => (tf'.spec = tf.spec /\ tf.id \in clusters) \/ tf'.spec = Shown
    BY <1>s
  <2>3. records = "actual" => Shown = nodes
    BY DEF Shown
  <2>4. tf'.id \in clusters' /\ tf'.spec = Shown /\ tf'.id = Followed => nodes.image \in Nat
    BY <1>k, <1>s
  <2> QED BY <1>s, <2>1, <2>2, <2>3, <2>4 DEF MovesOn
(* Steps after which no cluster is followed. *)
<1>z. ASSUME Followed' \notin clusters', tf'.id \notin clusters' PROVE MovesOn'
  BY <1>z DEF MovesOn
<1>1. CASE WorkDone
  <2>1. /\ UNCHANGED <<clusters, goal, tf, pc, cluster, records, tfImage, nextImage>>
        /\ nodes' = goal
    BY <1>1 DEF WorkDone, saved, choices
  <2>2. Followed' = Followed
    BY <1>t, <2>1
  <2>3. tf.id \in clusters /\ records = "actual" => tf.spec.image <= nodes.image
    BY DEF MovesOn
  <2>4. tf.id \in clusters => Followed \in clusters
    BY <1>t
  <2>5. CASE Followed \in clusters
    <3>1. tf.id \in clusters /\ records = "actual" => tf.spec.image <= goal.image
      <4>1. CASE tf.id \in clusters /\ records = "actual"
        <5>1. tf.spec.image \in Nat
          BY <1>t, <4>1 DEF TypeOK, NodeSpec
        <5> QED BY <1>k, <2>3, <2>5, <4>1, <5>1 DEF MovesOn
      <4> QED BY <4>1
    <3> QED BY <1>k, <2>1, <2>2, <2>5, <3>1 DEF MovesOn
  <2> QED BY <1>z, <2>1, <2>2, <2>4, <2>5
<1>2. CASE WorkBegins \/ WorkBreaks
  BY <1>2, <1>s, <1>t DEF WorkBegins, WorkBreaks, saved, choices
<1>3. CASE ReadImage
  <2>1. UNCHANGED <<controller, tf, pc, cluster>>
    BY <1>3 DEF ReadImage
  <2>2. Followed' = Followed /\ tfImage' \in {tfImage, NoId}
    BY <1>3, <1>t, <2>1 DEF ReadImage
  <2> QED BY <2>1, <2>2 DEF MovesOn, controller, choices
<1>4. CASE Read
  <2>1. UNCHANGED <<nodes, goal, records, clusters, tfImage, nextImage, pc>> /\ pc = "idle"
    BY <1>4 DEF Read, controller, choices, Idle
  <2>2. CASE tf.id \in clusters
    <3>1. tf'.id = tf.id /\ tf'.spec = Shown
      BY <1>4, <2>2 DEF Read, Save
    <3> QED BY <1>s, <1>t, <2>1, <3>1
  <2>3. CASE tf.id \notin clusters
    BY <1>4, <1>t, <1>z, <2>1, <2>3 DEF Read
  <2> QED BY <2>2, <2>3
<1>5. CASE ReadFails
  <2>1. pc = "idle" /\ pc' = "idle" /\ UNCHANGED <<clusters, records, tfImage, nextImage>>
    BY <1>5 DEF ReadFails, Fail, Finish, Idle, choices
  <2>2. CASE UNCHANGED <<nodes, goal, tf>>
    BY <1>s, <1>t, <2>1, <2>2
  <2>3. CASE tf' = NoState
    BY <1>t, <1>z, <2>1, <2>3
  <2> QED BY <1>5, <2>2, <2>3 DEF ReadFails
<1>6. CASE ImportImage \/ ImportImageFails
  <2>1. /\ UNCHANGED <<nodes, goal, records, clusters, tf>> /\ pc = "idle" /\ pc' = "idle"
        /\ \/ UNCHANGED <<nextImage, tfImage>>
           \/ PostImage /\ tfImage' \in {tfImage, nextImage}
    BY <1>6 DEF ImportImage, ImportImageFails, Ready, Idle, Fail, Finish, saved, choices
  <2>2. Followed' = Followed
    BY <1>t, <2>1
  <2>3. CASE UNCHANGED <<nextImage, tfImage>>
    BY <1>s, <1>t, <2>1, <2>2, <2>3
  <2>4. CASE PostImage /\ tfImage' \in {tfImage, nextImage}
    <3>1. nextImage' = nextImage + 1
      BY <1>x, <2>4, PostImageKeeps
    <3>2. Followed \in clusters => goal.image < nextImage'
                                   /\ (tfImage' # NoId => goal.image <= tfImage')
      BY <1>k, <1>n, <2>4, <3>1 DEF MovesOn
    <3> QED BY <2>1, <2>2, <3>2 DEF MovesOn
  <2> QED BY <2>1, <2>3, <2>4
<1>7. CASE DeleteImage \/ DeleteImageFails
  <2>1. /\ UNCHANGED <<nodes, goal, records, clusters, tf, nextImage>>
        /\ pc = "idle" /\ pc' = "idle" /\ tfImage' \in {tfImage, NoId}
    BY <1>7 DEF DeleteImage, DeleteImageFails, Ready, Idle, Fail, Finish, saved, choices
  <2>2. Followed' = Followed
    BY <1>t, <2>1
  <2> QED BY <2>1, <2>2 DEF MovesOn
<1>8. CASE PlanUnreadable \/ UpdateRefused
  BY <1>8, <1>s, <1>t
     DEF PlanUnreadable, UpdateRefused, Ready, Idle, Fail, Finish, controller, saved, choices
<1>9. CASE CreateCluster
  <2>1. /\ tf.id = NoId /\ tf' = tf /\ goal' = Wanted /\ nodes' = Wanted
        /\ UNCHANGED <<tfImage, nextImage>> /\ NoId \notin clusters'
    BY <1>9, <1>x, PostClusterKeeps DEF CreateCluster, saved, TypeOK
  <2>2. Wanted.image = tfImage /\ tfImage < nextImage
    BY DEF Wanted, ImagesOrdered
  <2> QED BY <1>n, <2>1, <2>2 DEF MovesOn
<1>10. CASE CreateClusterFails
  <2>1. /\ tf.id = NoId /\ tf' = tf /\ pc' = "idle" /\ NoId \notin clusters'
    BY <1>10, <1>x, <1>t, PostClusterKeeps DEF CreateClusterFails, Fail, Finish, saved
  <2> QED BY <1>t, <1>z, <2>1
<1>11. CASE PollReady
  <2>1. /\ UNCHANGED <<nodes, goal, records, clusters, tfImage, nextImage>>
        /\ tf'.id = cluster /\ tf'.spec = Shown /\ pc' = "idle" /\ pc # "idle"
    BY <1>11 DEF PollReady, Polled, Save, Finish, Idle, controller, choices
  <2> QED BY <1>s, <1>t, <2>1
<1>12. CASE CreateFails
  <2>1. tf'.id = NoId /\ pc' = "idle" /\ clusters' = clusters
    BY <1>12, <1>t DEF CreateFails, Fail, Finish, saved
  <2> QED BY <1>t, <1>z, <2>1
(* An Update moves the goal to the saved image or leaves it. *)
<1>p. ASSUME tf.id \in clusters, ~ImageDue, StartWork(Patched), pc = "idle",
             UNCHANGED <<nodes, records, clusters, tfImage, nextImage, tf>>, Followed' = Followed
      PROVE  MovesOn'
  <2>1. goal' = Patched /\ Followed \in clusters
    BY <1>p, <1>t DEF StartWork
  <2>2. tfImage # NoId /\ Patched.image \in {tfImage, goal.image}
    BY <1>k, <1>p, <1>x, <2>1, PatchedType, WantedType
  <2>3. tfImage < nextImage
    BY DEF ImagesOrdered
  <2>4. goal'.image >= nodes.image /\ goal'.image < nextImage /\ goal'.image <= tfImage
    BY <1>k, <1>n, <2>1, <2>2, <2>3 DEF MovesOn
  <2> QED BY <1>p, <2>4 DEF MovesOn
<1>13. CASE Update
  BY <1>13, <1>p, <1>t DEF Update, ClusterDue, Ready, Idle, saved, choices
<1>14. CASE UpdateFails
  <2>1. /\ UNCHANGED <<nodes, records, clusters, tfImage, nextImage, tf>>
        /\ pc = "idle" /\ pc' = "idle" /\ ~ImageDue
    BY <1>14 DEF UpdateFails, ClusterDue, Ready, Idle, Fail, Finish, saved, choices
  <2>2. CASE goal' = goal
    BY <1>s, <1>t, <2>1, <2>2
  <2>3. CASE tf.id \in clusters /\ StartWork(Patched)
    BY <1>p, <1>t, <2>1, <2>3
  <2> QED BY <1>14, <2>2, <2>3 DEF UpdateFails
<1>15. CASE WaitFails
  <2>1. /\ pc = "waiting" /\ pc' = "idle"
        /\ UNCHANGED <<nodes, goal, records, clusters, tfImage, nextImage, tf>>
    BY <1>15 DEF WaitFails, Fail, Finish, controller, saved, choices
  <2> QED BY <1>s, <1>t, <2>1
<1>16. CASE Delete
  BY <1>16, <1>t, <1>z DEF Delete, DropCluster, Finish
<1>17. CASE DeleteFails
  <2>1. pc = "idle" /\ pc' = "idle" /\ UNCHANGED <<records, tfImage, nextImage, tf>>
    BY <1>17 DEF DeleteFails, Ready, Idle, Fail, Finish, saved, choices
  <2>2. CASE DropCluster
    BY <1>t, <1>z, <2>1, <2>2 DEF DropCluster
  <2>3. CASE UNCHANGED <<clusters, work, nodes, goal>>
    BY <1>s, <1>t, <2>1, <2>3
  <2> QED BY <1>17, <2>2, <2>3 DEF DeleteFails
<1>18. CASE Foreign
  <2>1. UNCHANGED <<records, tf, tfImage, nextImage, pc, cluster>>
    BY <1>18 DEF Foreign, saved, choices
  <2>2. Followed' = Followed
    BY <1>t, <2>1
  <2>3. CASE clusters' = clusters \ {Followed}
    BY <1>t, <1>z, <2>1, <2>2, <2>3
  <2>4. ASSUME NEW n \in Workers, StartWork([goal EXCEPT !.workers = n]), UNCHANGED <<clusters, nodes>>
        PROVE  MovesOn'
    <3>1. goal \in NodeSpec
      BY <1>18, <1>x DEF Foreign, Known
    <3>2. goal'.image = goal.image
      BY <2>4, <3>1 DEF StartWork, NodeSpec
    <3> QED BY <2>1, <2>2, <2>4, <3>2 DEF MovesOn
  <2> QED BY <1>18, <2>3, <2>4 DEF Foreign
<1>19. CASE Edit
  BY <1>19, <1>s, <1>t DEF Edit, Idle, controller, saved, choices
<1>20. CASE UNCHANGED vars
  <2>1. Followed' = Followed
    BY <1>20, <1>t DEF vars, controller, saved
  <2> QED BY <1>20, <2>1 DEF vars, controller, saved, choices, MovesOn
<1> QED
  BY <1>1, <1>2, <1>3, <1>4, <1>5, <1>6, <1>7, <1>8, <1>9, <1>10, <1>11, <1>12, <1>13,
     <1>14, <1>15, <1>16, <1>17, <1>18, <1>19, <1>20 DEF Next, Apply, Step

(* An image that nodes run, or move to, is not deleted, if the controller  *)
(* shows what the nodes run: an image is deleted when no change is due,    *)
(* and then what was saved of the nodes, what they run, the goal and the   *)
(* saved image are one.                                                    *)
THEOREM ImagesKept == Spec => NodeImagesKept
<1>1. Init => MovesOn
  BY Distinct DEF Init, MovesOn, Followed, Idle
<1>2. TypeOK /\ Known /\ ImagesOrdered /\ MovesOn /\ [Next]_vars => MovesOn'
  BY MovesOnStep
<1>3. TypeOK /\ Known /\ ImagesOrdered /\ MovesOn /\ [Next]_vars
        => [records = "actual" /\ tf.id \in clusters =>
              NodeImages \cap (DOMAIN images \ DOMAIN images') = {}]_vars
  <2> SUFFICES ASSUME TypeOK, Known, ImagesOrdered, MovesOn, Next,
                      records = "actual", tf.id \in clusters
               PROVE  NodeImages \cap (DOMAIN images \ DOMAIN images') = {}
    OBVIOUS
  <2>x. TypeOK
    OBVIOUS
  <2>1. CASE DOMAIN images \subseteq DOMAIN images'
    BY <2>1
  <2>2. ASSUME NEW i \in DoomedImages, DropImage(i), Ready
        PROVE  NodeImages \cap (DOMAIN images \ DOMAIN images') = {}
    <3>1. tf.id # NoId /\ Followed = tf.id
      BY <2>2, Distinct DEF TypeOK, Ready, Followed
    <3>2. i \in deposed /\ ~ImageDue /\ ~ClusterDue /\ want.present
      BY <2>2, <3>1 DEF DoomedImages
    <3>3. tf.spec.image = tfImage
      BY <3>1, <3>2 DEF ClusterDue, Wanted
    <3>4. tfImage # NoId /\ tfImage \in Nat
      BY <2>x, <3>2, WantedType, Distinct DEF TypeOK
    <3>5. nodes.image \in Nat /\ goal.image \in Nat
      BY <3>1, Distinct DEF Known, NodeSpec
    <3>6. tfImage <= nodes.image /\ nodes.image <= goal.image /\ goal.image <= tfImage
      BY <3>1, <3>3, <3>4 DEF MovesOn
    <3>7. nodes.image = tfImage /\ goal.image = tfImage
      BY <3>4, <3>5, <3>6
    <3>8. i \in Nat /\ i < tfImage
      BY <3>2, <3>4, Distinct DEF TypeOK, ImagesOrdered
    <3>9. i # tfImage
      BY <3>4, <3>8
    <3>10. DOMAIN images \ DOMAIN images' \subseteq {i}
      BY <2>x, <2>2, DropImageKeeps
    <3> QED BY <3>7, <3>9, <3>10 DEF NodeImages
  <2>3. CASE DeleteImage \/ DeleteImageFails
    BY <2>1, <2>2, <2>3 DEF DeleteImage, DeleteImageFails
  <2>4. CASE ImportImage \/ ImportImageFails
    BY <2>x, <2>1, <2>4, PostImageKeeps DEF ImportImage, ImportImageFails
  <2>5. images' = images
           \/ DeleteImage \/ DeleteImageFails \/ ImportImage \/ ImportImageFails
    <3>1. CASE WorkBegins \/ WorkDone \/ WorkBreaks \/ ReadImage \/ Read \/ ReadFails
                \/ PlanUnreadable \/ UpdateRefused \/ Edit
      BY <3>1
         DEF WorkBegins, WorkDone, WorkBreaks, ReadImage, Read, ReadFails, PlanUnreadable,
             UpdateRefused, Edit, controller
    <3>2. CASE CreateCluster \/ CreateClusterFails \/ Update \/ UpdateFails \/ Delete \/ DeleteFails
      BY <3>2 DEF CreateCluster, CreateClusterFails, Update, UpdateFails, Delete, DeleteFails
    <3>3. CASE PollReady \/ CreateFails \/ WaitFails
      BY <3>3 DEF PollReady, CreateFails, WaitFails, controller
    <3>4. CASE Foreign
      BY <3>4 DEF Foreign
    <3> QED BY <3>1, <3>2, <3>3, <3>4 DEF Next, Apply, Step
  <2> QED BY <2>1, <2>3, <2>4, <2>5
<1> QED BY <1>1, <1>2, <1>3, AlwaysKnown, AlwaysOrdered, PTL DEF Spec, NodeImagesKept

-----------------------------------------------------------------------------
(* Errors *)

(* As long as nothing went wrong, the followed cluster exists, the         *)
(* controller works on it only while a handler waits, and no work broke.   *)
Undisturbed ==
    decodes /\ ~lags /\ faults = 0 /\ breaks = 0 /\ drifts = 0 =>
        /\ result # "error" /\ Followed \in clusters \cup {NoId}
        /\ Idle => ~Working
        /\ ~pending
        /\ status \notin {"failed", "upgrade_blocked"}

LEMMA UndisturbedStep ==
    ASSUME TypeOK, Known, Undisturbed, [Next]_vars
    PROVE  Undisturbed'
<1> SUFFICES ASSUME decodes', ~lags', faults' = 0, breaks' = 0, drifts' = 0
             PROVE  /\ result' # "error" /\ Followed' \in clusters' \cup {NoId}
                    /\ Idle' => ~Working'
                    /\ ~pending'
                    /\ status' \notin {"failed", "upgrade_blocked"}
  BY DEF Undisturbed
<1>x. TypeOK /\ Known
  OBVIOUS
<1>n. ~Fault /\ ~WorkBreaks /\ ~Foreign
  <2>1. faults \in 0 .. MaxFaults /\ breaks \in 0 .. MaxBreaks /\ drifts \in 0 .. MaxDrift
    BY <1>x DEF TypeOK
  <2>2. faults' # faults + 1 /\ breaks' # breaks + 1 /\ drifts' # drifts + 1
    BY <2>1, Bounds
  <2> QED BY <2>2 DEF Fault, WorkBreaks, Foreign
<1>t. /\ pc = "idle" => cluster = NoId
      /\ pc # "idle" => cluster \in ClusterIds
      /\ NoId \notin ClusterIds /\ NoState.id = NoId
  BY <1>x, Distinct DEF TypeOK, Idle
<1>f. UNCHANGED <<faults, breaks, drifts, decodes, lags>>
  BY <1>n DEF Next, Apply, Step, WorkBegins, WorkDone, UpdateRefused, ReadImage, Read, ReadFails, ImportImage,
     ImportImageFails, DeleteImage, DeleteImageFails, PlanUnreadable, CreateCluster,
     CreateClusterFails, PollReady, CreateFails, GiveUp, Update, UpdateFails, WaitFails, Delete,
     DeleteFails, Edit, bounds, vars, controller, choices
<1>u. /\ result # "error" /\ Followed \in clusters \cup {NoId}
      /\ Idle => ~Working
      /\ ~pending
      /\ status \notin {"failed", "upgrade_blocked"}
  BY <1>f DEF Undisturbed
<1>e. /\ ~Idle => cluster \in clusters
      /\ Idle /\ tf.id # NoId => tf.id \in clusters
  BY <1>t, <1>u DEF Followed, Idle
<1>b. ~WorkBegins
  BY <1>u DEF WorkBegins
<1>1. CASE WorkDone
  <2>1. UNCHANGED <<clusters, tf, pc, cluster, result, pending>> /\ status' = "ready"
    BY <1>1 DEF WorkDone, saved
  <2> QED BY <1>u, <2>1 DEF Followed, Idle, Working
<1>2. CASE ReadImage \/ ImportImage \/ DeleteImage
  <2>1. UNCHANGED <<clusters, status, pending, tf, pc, cluster, result>>
    BY <1>2 DEF ReadImage, ImportImage, DeleteImage, controller, work
  <2> QED BY <1>u, <2>1 DEF Followed, Idle, Working
<1>3. CASE Read
  <2>1. Idle /\ UNCHANGED <<clusters, status, pending, pc>> /\ result' = "read"
    BY <1>3 DEF Read, controller, work
  <2>2. tf'.id \in {tf.id, NoId}
    BY <1>3, <1>t DEF Read, Save
  <2> QED BY <1>e, <1>u, <2>1, <2>2 DEF Followed, Idle, Working
<1>4. CASE CreateCluster
  <2>1. /\ clusters' = clusters \cup {nextCluster} /\ cluster' = nextCluster
        /\ pc' = "creating" /\ result' = "none" /\ status' = "provisioning"
        /\ UNCHANGED pending
    BY <1>4 DEF CreateCluster, PostCluster
  <2> QED BY <1>u, <2>1 DEF Followed, Idle
<1>5. CASE Update
  <2>1. /\ UNCHANGED clusters /\ tf.id \in clusters /\ cluster' = tf.id
        /\ pc' = "waiting" /\ result' = "none"
    BY <1>5 DEF Update
  <2>2. status' = "upgrading" /\ UNCHANGED pending
    BY <1>5, <1>f DEF Update, StartWork
  <2> QED BY <1>u, <2>1, <2>2 DEF Followed, Idle
<1>6. CASE PollReady
  <2>1. /\ UNCHANGED <<clusters, status, pending>> /\ cluster \in clusters /\ status = "ready"
        /\ tf'.id = cluster /\ pc' = "idle" /\ result' # "error"
    BY <1>6 DEF PollReady, Polled, Save, Finish, controller, work
  <2> QED BY <1>u, <2>1 DEF Followed, Idle, Working
<1>7. CASE Delete
  BY <1>7, <1>t DEF Delete, DropCluster, Forget, Finish, Followed, Idle, Working
<1>8. ~ReadFails /\ ~ImportImageFails /\ ~DeleteImageFails /\ ~CreateClusterFails
  BY <1>n DEF ReadFails, ImportImageFails, DeleteImageFails, CreateClusterFails
<1>9. ~PlanUnreadable /\ ~UpdateFails /\ ~DeleteFails
  BY <1>e, <1>f, <1>n, <1>u DEF PlanUnreadable, UpdateFails, DeleteFails, Ready, Busy
<1>13. CASE UpdateRefused
  <2>1. UNCHANGED <<clusters, status, pending, tf>> /\ result' = "refused" /\ pc' = "idle" /\ Idle
    BY <1>13 DEF UpdateRefused, Ready, Finish, controller, saved, work
  <2> QED BY <1>u, <2>1 DEF Followed, Idle, Working
<1>10. ~CreateFails /\ ~WaitFails
  BY <1>e, <1>n, <1>u DEF CreateFails, WaitFails, GiveUp, Idle
<1>11. CASE Edit
  <2>1. UNCHANGED <<clusters, status, pending, tf, pc, cluster>> /\ result' = "none"
    BY <1>11 DEF Edit, controller, saved, work
  <2> QED BY <1>u, <2>1 DEF Followed, Idle, Working
<1>12. CASE UNCHANGED vars
  <2>1. UNCHANGED <<clusters, status, pending, tf, pc, cluster, result>>
    BY <1>12 DEF vars, controller, saved, work
  <2> QED BY <1>u, <2>1 DEF Followed, Idle, Working
<1> QED
  BY <1>n, <1>b, <1>1, <1>2, <1>3, <1>4, <1>5, <1>6, <1>7, <1>8, <1>9, <1>10, <1>11, <1>12, <1>13
  DEF Next, Apply, Step

(* If plans can be read and the status does not lag behind a PATCH, no     *)
(* handler of a cluster reports an error without a failed request, work    *)
(* that broke or a foreign change, but for the refusal of what the         *)
(* controller does not do: the unreadable plan is the only error that the  *)
(* provider makes by itself, and no Update meets a cluster that the        *)
(* controller still works on.                                              *)
THEOREM ErrorsHaveCauses == Spec => [](decodes /\ ~lags => ErrorHasCause)
<1>1. Init => Undisturbed
  BY Distinct DEF Init, Undisturbed, Followed, Idle, Working
<1>2. TypeOK /\ Known /\ Undisturbed /\ [Next]_vars => Undisturbed'
  BY UndisturbedStep
<1>3. TypeOK /\ Undisturbed => (decodes /\ ~lags => ErrorHasCause)
  <2> SUFFICES ASSUME TypeOK, Undisturbed, decodes, ~lags, faults + breaks + drifts = 0
               PROVE  result # "error"
    BY DEF ErrorHasCause
  <2>1. faults \in 0 .. MaxFaults /\ breaks \in 0 .. MaxBreaks /\ drifts \in 0 .. MaxDrift
    BY DEF TypeOK
  <2>2. faults = 0 /\ breaks = 0 /\ drifts = 0
    BY <2>1, Bounds
  <2> QED BY <2>2 DEF Undisturbed
<1> QED BY <1>1, <1>2, <1>3, AlwaysKnown, PTL DEF Spec
=============================================================================
