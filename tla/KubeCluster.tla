---------------------------- MODULE KubeCluster ----------------------------
(***************************************************************************)
(* The lattice_kube_cluster resource (resource_kube_cluster.go) and the    *)
(* lattice_k3s_rootfs_image it runs (resource_k3s_rootfs_image.go).        *)
(*                                                                         *)
(* The controller works asynchronously: it accepts a new cluster or a      *)
(* PATCH, works on it, and shows by the cluster's status how it went.      *)
(* Create and Update poll that status until it is final, they run out of   *)
(* patience, or one poll fails.                                            *)
(*                                                                         *)
(* The image has create_before_destroy, as the documentation asks: a new   *)
(* version is imported, the cluster is moved to it, and the old image is   *)
(* deleted.  An apply refreshes both resources before it plans.            *)
(*                                                                         *)
(* The controller validates a PATCH: it refuses to take control-plane      *)
(* nodes away, and to move from one image version to another except along  *)
(* a supported upgrade.  k8s_version is left out and follows from the      *)
(* image.                                                                  *)
(***************************************************************************)
EXTENDS Integers, FiniteSets

CONSTANTS
    ControlPlanes, Workers, \* node counts
    Versions,    \* image versions
    Configurations, \* the counts and versions a user may ask for
    Upgrades,    \* the pairs of different versions that the controller upgrades
    Controllers, \* what controllers there are: a GET of a cluster that one works
                 \* on records the "goal" of the work, or what the nodes run, the
                 \* "actual"; its status lags behind a PATCH, or shows at once
                 \* that work is due
    Decodings,   \* can a handler read a plan in which nodes is unknown?
                 \* BOOLEAN values: the schema computes nodes, and the model
                 \* takes it into a Go slice
    MisleadingErrors, \* may the text of a refused GET contain "not found"?
    MaxImageId, MaxClusterId, \* bounds on the IDs
    MaxFaults,   \* bound on refused and unanswered requests, and on timeouts
    MaxBreaks,   \* bound on work of the controller that fails
    MaxDrift,    \* bound on changes made by other operators
    MaxEdits     \* bound on changes of the configuration

NoId == 0
ImageIds == 1 .. MaxImageId
ClusterIds == 1 .. MaxClusterId
NodeSpec == [cp : ControlPlanes, workers : Workers, image : ImageIds]

ASSUME KubeAssumption ==
    /\ MaxImageId \in Nat /\ MaxClusterId \in Nat
    /\ MaxFaults \in Nat /\ MaxBreaks \in Nat /\ MaxDrift \in Nat /\ MaxEdits \in Nat
    /\ Controllers \subseteq [records : {"goal", "actual"}, lags : BOOLEAN]
    /\ Decodings \subseteq BOOLEAN /\ MisleadingErrors \in BOOLEAN
    /\ ControlPlanes \subseteq Nat
    /\ Configurations \subseteq [cp : ControlPlanes, workers : Workers, version : Versions]
    /\ Upgrades \subseteq Versions \X Versions

VARIABLES
    images,     \* the rootfs images on the controller: versions by ID
    nextImage,
    clusters,   \* the clusters that exist on the controller
    nextCluster,
    status,     \* the followed cluster's status there
    pending,    \* is a PATCH accepted whose work the status does not show yet?
    nodes,      \* what its nodes run: [cp, workers, image]
    goal,       \* what the controller works towards
    records,    \* what a GET shows
    lags,       \* does the status lag behind a PATCH?
    decodes,    \* the framework's answer to Decodings
    tfImage,    \* the ID Terraform has saved for the image resource
    deposed,    \* the IDs of replaced images that are still to be deleted
    tf,         \* what Terraform has saved about the cluster
    want,       \* the configuration
    fresh,      \* the resources this apply has refreshed
    pc, cluster, \* the running handler of the cluster, and the cluster's ID
    result,     \* how the last handler of the cluster ended
    current,    \* history: when Update began, tf was what the controller shows, and
                \* it had no work towards anything else under way or broken off
    quiet,      \* history: no foreign change since the handler's first request
    abandoned,  \* history: the clusters whose Create reported an error, or whose
                \* Read took an error for "not found"
    faults, breaks, drifts, edits

choices == <<records, lags, decodes>>
work == <<status, pending>>
controller == <<images, nextImage, clusters, nextCluster, work, nodes, goal, choices>>
saved == <<tfImage, deposed, tf>>
history == <<current, quiet, abandoned>>
bounds == <<faults, breaks, drifts, edits>>
vars == <<controller, saved, want, fresh, pc, cluster, result, history, bounds>>

Nothing == [cp |-> 0, workers |-> 0, image |-> NoId]
NoState == [id |-> NoId, spec |-> Nothing]
Idle == pc = "idle"
Followed == IF Idle THEN tf.id ELSE cluster
Both == {"image", "cluster"}

Fault == faults < MaxFaults /\ faults' = faults + 1

(* A cluster nobody knows any more is not followed. *)
Forget == status' = "" /\ pending' = FALSE /\ nodes' = Nothing /\ goal' = Nothing

-----------------------------------------------------------------------------
(* The controller's work *)

Working == status \in {"provisioning", "upgrading"}
Busy == Working \/ pending

WorkBegins ==
    /\ pending /\ pending' = FALSE
    /\ status' = "upgrading"
    /\ UNCHANGED <<images, nextImage, clusters, nextCluster, nodes, goal, choices, saved, want,
                   fresh, pc, cluster, result, history, bounds>>

WorkDone ==
    /\ Working
    /\ status' = "ready" /\ nodes' = goal
    /\ UNCHANGED <<images, nextImage, clusters, nextCluster, pending, goal, choices, saved,
                   want, fresh, pc, cluster, result, history, bounds>>

WorkBreaks ==
    /\ Working /\ breaks < MaxBreaks /\ breaks' = breaks + 1
    /\ status' \in IF status = "provisioning" THEN {"failed"}
                   ELSE {"failed", "upgrade_blocked"}
    /\ UNCHANGED <<images, nextImage, clusters, nextCluster, pending, nodes, goal, choices,
                   saved, want, fresh, pc, cluster, result, history, faults, drifts, edits>>

(* The images that nodes may be running. *)
NodeImages == {nodes.image} \cup (IF status = "ready" /\ ~pending THEN {} ELSE {goal.image})

Shown == IF records = "goal" THEN goal ELSE nodes

(* Control-plane scale-down is rejected, and the upgrade path validated.   *)
Accepted(new) ==
    /\ new.cp >= goal.cp
    /\ images[new.image] = images[goal.image]
          \/ <<images[goal.image], images[new.image]>> \in Upgrades

(* The work on a PATCH begins, or its begin is pending.                    *)
StartWork(new) ==
    /\ Accepted(new)
    /\ goal' = new
    /\ IF lags /\ ~Working THEN pending' = TRUE /\ UNCHANGED status
       ELSE status' = "upgrading" /\ UNCHANGED pending

-----------------------------------------------------------------------------
(* An apply: refresh everything, then carry out the plan.  An error ends   *)
(* it.  saved and want do not change between the refresh and the requests  *)
(* of the plan, except by those requests.                                  *)
Ready == Idle /\ fresh = Both

Finish(r) == pc' = "idle" /\ cluster' = NoId /\ result' = r
Fail == Finish("error") /\ fresh' = {}

Save(id) == tf' = [id |-> id, spec |-> Shown]

ReadImage ==
    /\ Idle
    /\ tfImage' = IF tfImage \in DOMAIN images THEN tfImage ELSE NoId
    /\ fresh' = fresh \cup {"image"}
    /\ UNCHANGED <<controller, deposed, tf, want, pc, cluster, result, history, bounds>>

Read ==
    /\ Idle
    /\ IF tf.id \in clusters THEN Save(tf.id) ELSE tf' = NoState
    /\ result' = "read" /\ fresh' = fresh \cup {"cluster"} /\ quiet' = TRUE
    /\ UNCHANGED <<controller, tfImage, deposed, want, pc, cluster, current, abandoned,
                   bounds>>

(* A refresh fails, or an error with "not found" in it is taken to be      *)
(* about the cluster.                                                      *)
ReadFails ==
    /\ Idle /\ Fault
    /\ \/ Fail /\ UNCHANGED <<work, nodes, goal, tf, abandoned>>
       \/ /\ MisleadingErrors /\ tf.id # NoId
          /\ tf' = NoState /\ Finish("read") /\ fresh' = fresh \cup {"cluster"}
          /\ Forget /\ abandoned' = abandoned \cup {tf.id}
    /\ UNCHANGED <<images, nextImage, clusters, nextCluster, choices, tfImage, deposed,
                   want, current, quiet, breaks, drifts, edits>>

-----------------------------------------------------------------------------
(* The image resource *)

OfWantedVersion == {i \in DOMAIN images : images[i] = want.version}

ImageDue == tfImage \notin OfWantedVersion

PostImage ==
    /\ nextImage <= MaxImageId
    /\ images' = [i \in DOMAIN images \cup {nextImage} |->
                     IF i = nextImage THEN want.version ELSE images[i]]
    /\ nextImage' = nextImage + 1

ImportImage ==
    /\ Ready /\ want.present /\ ImageDue
    /\ PostImage
    /\ tfImage' = nextImage /\ deposed' = deposed \cup ({tfImage} \ {NoId})
    /\ UNCHANGED <<clusters, nextCluster, work, nodes, goal, choices, tf, want, fresh,
                   pc, cluster, result, history, bounds>>

ImportImageFails ==
    /\ Ready /\ want.present /\ ImageDue
    /\ Fault /\ Fail
    /\ PostImage \/ UNCHANGED <<images, nextImage>>
    /\ UNCHANGED <<clusters, nextCluster, work, nodes, goal, choices, saved, want,
                   history, breaks, drifts, edits>>

Wanted == [cp |-> want.cp, workers |-> want.workers, image |-> tfImage]

ClusterDue == want.present /\ ~ImageDue
              /\ (tf.id = NoId \/ tf.spec # Wanted)

(* Mutant: the old image is deleted as soon as there is a new one. *)
DoomedAtOnce ==
    IF want.present THEN deposed
    ELSE IF tf.id = NoId THEN ({tfImage} \cup deposed) \ {NoId} ELSE {}

(* Terraform deletes an image after what depends on it has moved on. *)
DoomedImages ==
    IF want.present THEN (IF ImageDue \/ ClusterDue THEN {} ELSE deposed)
    ELSE IF tf.id = NoId THEN ({tfImage} \cup deposed) \ {NoId} ELSE {}

DropImage(i) == images' = [j \in DOMAIN images \ {i} |-> images[j]]

DeleteImage ==
    /\ Ready
    /\ \E i \in DoomedImages :
          /\ DropImage(i)
          /\ deposed' = deposed \ {i}
          /\ tfImage' = IF tfImage = i THEN NoId ELSE tfImage
    /\ UNCHANGED <<nextImage, clusters, nextCluster, work, nodes, goal, choices, tf,
                   want, fresh, pc, cluster, result, history, bounds>>

DeleteImageFails ==
    /\ Ready
    /\ Fault /\ Fail
    /\ \E i \in DoomedImages : DropImage(i) \/ UNCHANGED images
    /\ UNCHANGED <<nextImage, clusters, nextCluster, work, nodes, goal, choices, saved,
                   want, history, breaks, drifts, edits>>

-----------------------------------------------------------------------------
(* Create *)

(* An unknown list does not fit a slice: in the framework that go.mod      *)
(* requires, Create and Update end before they send anything.              *)
PlanUnreadable ==
    /\ Ready /\ ClusterDue /\ ~decodes
    /\ Fail
    /\ UNCHANGED <<controller, saved, want, history, bounds>>

PostCluster ==
    /\ nextCluster <= MaxClusterId
    /\ clusters' = clusters \cup {nextCluster}
    /\ nextCluster' = nextCluster + 1

CreateCluster ==
    /\ Ready /\ ClusterDue /\ decodes /\ tf.id = NoId
    /\ PostCluster
    /\ status' = "provisioning" /\ UNCHANGED pending /\ nodes' = Wanted /\ goal' = Wanted
    /\ pc' = "creating" /\ cluster' = nextCluster /\ result' = "none"
    /\ current' = TRUE /\ quiet' = TRUE
    /\ UNCHANGED <<images, nextImage, choices, saved, want, fresh, abandoned, bounds>>

CreateClusterFails ==
    /\ Ready /\ ClusterDue /\ decodes /\ tf.id = NoId
    /\ Fault /\ Fail
    /\ \/ UNCHANGED <<clusters, nextCluster, abandoned>>
       \/ PostCluster /\ abandoned' = abandoned \cup {nextCluster}
    /\ UNCHANGED <<images, nextImage, work, nodes, goal, choices, saved, want, current,
                   quiet, breaks, drifts, edits>>

(* Mutant: any status but "failed" ends the wait. *)
PolledAtOnce == ~Idle /\ cluster \in clusters /\ status # "failed"

(* A poll shows a cluster that is ready. *)
Polled == ~Idle /\ cluster \in clusters /\ status = "ready"

PollReady ==
    /\ Polled
    /\ Save(cluster)
    /\ Finish(IF pc = "creating" THEN "created" ELSE "updated")
    /\ UNCHANGED <<controller, tfImage, deposed, want, fresh, history, bounds>>

(* One poll fails, the time is over, or the cluster is gone. *)
GiveUp ==
    \/ Fault
    \/ cluster \notin clusters /\ UNCHANGED faults

(* The cluster stays as it is, and nothing is saved about it.  Create does *)
(* not know "upgrade_blocked", and polls until its time is over.           *)
CreateFails ==
    /\ pc = "creating"
    /\ GiveUp \/ (status \in {"failed", "upgrade_blocked"} /\ UNCHANGED faults)
    /\ Fail /\ Forget
    /\ abandoned' = abandoned \cup {cluster}
    /\ UNCHANGED <<images, nextImage, clusters, nextCluster, choices, saved, want,
                   current, quiet, breaks, drifts, edits>>

-----------------------------------------------------------------------------
(* Update and Delete *)

(* Mutant: only new node counts are sent. *)
PatchCountsOnly == [goal EXCEPT !.cp = want.cp, !.workers = want.workers]

(* Mutant: what does not change is sent as zero. *)
PatchedZero ==
    [cp |-> IF want.cp # tf.spec.cp THEN want.cp ELSE goal.cp,
     workers |-> IF want.workers # tf.spec.workers THEN want.workers ELSE 0,
     image |-> IF tfImage # tf.spec.image THEN tfImage ELSE goal.image]

(* The PATCH names what the plan changes; the rest stays. *)
Patched ==
    [cp |-> IF want.cp # tf.spec.cp THEN want.cp ELSE goal.cp,
     workers |-> IF want.workers # tf.spec.workers THEN want.workers ELSE goal.workers,
     image |-> IF tfImage # tf.spec.image THEN tfImage ELSE goal.image]

Update ==
    /\ Ready /\ ClusterDue /\ decodes /\ tf.id \in clusters
    /\ StartWork(Patched)
    /\ pc' = "waiting" /\ cluster' = tf.id /\ result' = "none"
    /\ current' = (tf.spec = Shown /\ goal \in {nodes, Wanted}) /\ quiet' = TRUE
    /\ UNCHANGED <<images, nextImage, clusters, nextCluster, nodes, choices, saved, want,
                   fresh, abandoned, bounds>>

(* The PATCH asks for what the controller does not do.                     *)
Refused == ClusterDue /\ tf.id \in clusters /\ ~Accepted(Patched)

UpdateRefused ==
    /\ Ready /\ decodes /\ Refused
    /\ Finish("refused") /\ fresh' = {}
    /\ UNCHANGED <<controller, saved, want, history, bounds>>

(* The controller may refuse to change a cluster it is working on. *)
UpdateFails ==
    /\ Ready /\ ClusterDue /\ decodes /\ tf.id # NoId
    /\ \/ (tf.id \notin clusters \/ Busy) /\ UNCHANGED <<work, goal, faults>>
       \/ Fault /\ UNCHANGED <<work, goal>>
       \/ Fault /\ tf.id \in clusters /\ StartWork(Patched)
    /\ Fail
    /\ UNCHANGED <<images, nextImage, clusters, nextCluster, nodes, choices, saved, want,
                   history, breaks, drifts, edits>>

WaitFails ==
    /\ pc = "waiting"
    /\ GiveUp \/ (status \in {"failed", "upgrade_blocked"} /\ UNCHANGED faults)
    /\ Fail
    /\ UNCHANGED <<controller, saved, want, history, breaks, drifts, edits>>

DropCluster == tf.id \in clusters /\ clusters' = clusters \ {tf.id} /\ Forget

Delete ==
    /\ Ready /\ ~want.present /\ tf.id # NoId
    /\ DropCluster
    /\ tf' = NoState /\ Finish("deleted")
    /\ UNCHANGED <<images, nextImage, nextCluster, choices, tfImage, deposed, want, fresh,
                   history, bounds>>

(* Mutant: an error of a Delete is taken for "not found". *)
DeleteFailsForgetting ==
    /\ Ready /\ ~want.present /\ tf.id # NoId
    /\ Fault /\ UNCHANGED clusters /\ Forget
    /\ tf' = NoState /\ Fail
    /\ UNCHANGED <<images, nextImage, nextCluster, choices, tfImage, deposed, want,
                   history, breaks, drifts, edits>>

(* "Not found" is an error here like any other. *)
DeleteFails ==
    /\ Ready /\ ~want.present /\ tf.id # NoId
    /\ \/ tf.id \notin clusters /\ UNCHANGED <<clusters, work, nodes, goal, faults>>
       \/ Fault /\ (DropCluster \/ UNCHANGED <<clusters, work, nodes, goal>>)
    /\ Fail
    /\ UNCHANGED <<images, nextImage, nextCluster, choices, saved, want, history,
                   breaks, drifts, edits>>

-----------------------------------------------------------------------------
(* Other operators of the controller, and the user *)

Foreign ==
    /\ drifts < MaxDrift /\ drifts' = drifts + 1
    /\ Followed \in clusters
    /\ quiet' = FALSE
    /\ \/ /\ status = "ready" /\ ~pending
          /\ \E n \in Workers : StartWork([goal EXCEPT !.workers = n])
          /\ UNCHANGED <<clusters, nodes>>
       \/ clusters' = clusters \ {Followed} /\ Forget
    /\ UNCHANGED <<images, nextImage, nextCluster, choices, saved, want, fresh, pc, cluster,
                   result, current, abandoned, faults, breaks, edits>>

Wants ==
    {[present |-> p, cp |-> c.cp, workers |-> c.workers, version |-> c.version] :
        p \in BOOLEAN, c \in Configurations}

Edit ==
    /\ Idle /\ edits < MaxEdits /\ edits' = edits + 1
    /\ want' \in Wants
    /\ result' = "none" /\ fresh' = {}
    /\ UNCHANGED <<controller, saved, pc, cluster, history, faults, breaks, drifts>>

Init ==
    /\ images = [i \in {} |-> ""] /\ nextImage = 1
    /\ clusters = {} /\ nextCluster = 1
    /\ status = "" /\ pending = FALSE /\ nodes = Nothing /\ goal = Nothing
    /\ \E c \in Controllers : records = c.records /\ lags = c.lags
    /\ decodes \in Decodings
    /\ tfImage = NoId /\ deposed = {} /\ tf = NoState
    /\ want \in Wants
    /\ fresh = {} /\ pc = "idle" /\ cluster = NoId /\ result = "none"
    /\ current = TRUE /\ quiet = TRUE /\ abandoned = {}
    /\ faults = 0 /\ breaks = 0 /\ drifts = 0 /\ edits = 0

Apply == ImportImage \/ CreateCluster \/ Update \/ Delete \/ DeleteImage
Step == PollReady \/ CreateFails \/ WaitFails

Next ==
    \/ WorkBegins \/ WorkDone \/ WorkBreaks
    \/ ReadImage \/ Read \/ ReadFails
    \/ Apply \/ ImportImageFails \/ CreateClusterFails \/ UpdateRefused \/ UpdateFails
    \/ DeleteFails \/ DeleteImageFails \/ PlanUnreadable \/ Step
    \/ Foreign \/ Edit

Spec == Init /\ [][Next]_vars

(* The controller's work ends, a handler runs to its end, and the user     *)
(* applies again and again.                                                *)
FairSpec ==
    /\ Spec
    /\ WF_vars(WorkBegins \/ WorkDone \/ WorkBreaks) /\ WF_vars(Step)
    /\ SF_vars(Read) /\ SF_vars(ReadImage) /\ SF_vars(Apply)

-----------------------------------------------------------------------------
(* Properties *)

(* Every variable has its type. *)
TypeOK ==
    /\ DOMAIN images \subseteq ImageIds /\ images \in [DOMAIN images -> Versions]
    /\ nextImage \in 1 .. MaxImageId + 1 /\ nextCluster \in 1 .. MaxClusterId + 1
    /\ clusters \subseteq ClusterIds
    /\ status \in {"", "provisioning", "ready", "upgrading", "failed", "upgrade_blocked"}
    /\ pending \in BOOLEAN
    /\ nodes \in NodeSpec \cup {Nothing} /\ goal \in NodeSpec \cup {Nothing}
    /\ records \in {"goal", "actual"} /\ lags \in BOOLEAN /\ decodes \in Decodings
    /\ tfImage \in ImageIds \cup {NoId} /\ deposed \subseteq ImageIds
    /\ tf \in [id : ClusterIds, spec : NodeSpec] \cup {NoState}
    /\ want \in Wants /\ fresh \subseteq Both
    /\ pc \in {"idle", "creating", "waiting"}
    /\ cluster \in IF Idle THEN {NoId} ELSE ClusterIds
    /\ result \in {"none", "created", "read", "updated", "deleted", "refused", "error"}
    /\ current \in BOOLEAN /\ quiet \in BOOLEAN /\ abandoned \subseteq ClusterIds
    /\ faults \in 0 .. MaxFaults /\ breaks \in 0 .. MaxBreaks
    /\ drifts \in 0 .. MaxDrift /\ edits \in 0 .. MaxEdits

(* A Create or Update that reports success has waited for the work to end: *)
(* the nodes run the configured image in the configured number, unless     *)
(* another operator changed the cluster since the refresh, or work towards *)
(* another goal was under way (the PATCH names only what the plan changes) *)
(* - provided that the status does not lag behind the PATCH: the first     *)
(* poll follows at once, and takes the old "ready" for the new one.        *)
SuccessIsDone ==
    ~lags /\ result \in {"created", "updated"} /\ quiet /\ current =>
        status = "ready" /\ nodes = Wanted

Object ==
    INSTANCE ManagedObject WITH
        Ids <- ClusterIds, Misread <- {}, exists <- clusters, saved <- tf.id,
        held <- Followed, disowned <- abandoned, failures <- faults,
        broken <- IF status \in {"failed", "upgrade_blocked"} THEN {Followed} ELSE {}

(* The resource makes, follows and deletes one cluster at a time, and      *)
(* loses one only in a Create that reports an error (a timeout and one     *)
(* failed poll among them), or when a Read takes an error for "not found". *)
ImplementsManagedObject == Object!Spec

(* An image that nodes of the cluster run is not deleted, whatever becomes *)
(* of the upgrade that replaces it - as long as the controller shows what  *)
(* the nodes run.  If it shows the goal, a refresh after an Update that    *)
(* gave up finds nothing to do, and the old image goes while the work is   *)
(* still on.                                                               *)
NodeImagesKept ==
    [][records = "actual" /\ tf.id \in clusters =>
          NodeImages \cap (DOMAIN images \ DOMAIN images') = {}]_vars

(* Repeated applies end with the configured image and node counts, however *)
(* often the work broke, Update gave up or took an old "ready" for the new *)
(* one, or others interfered - only if the controller shows what the nodes *)
(* run, and plans can be read.  If the configuration asks for what the     *)
(* controller does not do, every apply ends with its refusal.              *)
KubeConverges ==
    records = "actual" /\ decodes =>
        \/ <>[](IF want.present
                THEN /\ tf.id \in clusters /\ nodes.image \in OfWantedVersion
                     /\ nodes.cp = want.cp /\ nodes.workers = want.workers
                ELSE tf.id = NoId)
        \/ <>[]Refused

(* "Provisions a LatticeKube cluster" (docs/resources/kube_cluster.md:3):  *)
(* an apply that meets no failed request, no work that breaks and no       *)
(* foreign change reports no error.                                        *)
ErrorHasCause == faults + breaks + drifts = 0 => result # "error"
=============================================================================
