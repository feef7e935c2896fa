# Formal models of the LatticeVE Terraform provider

This directory holds TLA+ modules that model the provider's resources, TLC
configurations that check them, and TLAPS proofs about them. The provider is a
set of request handlers: Terraform calls `Create`, `Read`, `Update` or `Delete`
of a resource, the handler sends a few HTTP requests to the LatticeVE controller
and saves what it learned. Its difficulty is not in any one handler but in what
happens between two requests and between two applies: a request that is refused,
an answer that never arrives, another operator who changes the same object, a
saved state that is no longer true, and two resources that share one object.

## 1. Inventory

### The parts, their state and how they interact

| Part | State it keeps | Operations | Modelled in |
|---|---|---|---|
| HTTP client (`client.go`, `client_extended.go`) | endpoint, key, a 30 s timeout | one function per route; `isNotFound` classifies errors by their text | in every module |
| `lattice_security_group` | saved ID, name, description, rules with IDs | Create adds the rules one by one; Update lists, removes, adds and rewrites, and lists again | `SecurityGroup` |
| `lattice_vpc` | saved ID, name, block, default action, port forwards and firewall rules with IDs | Create and Update send the lists item by item and read back | `VPC` |
| `lattice_public_ip` | saved ID, pool, description, private IP | Allocate, enable and disable static NAT, release | `PublicIP` |
| `lattice_k3s_kernel` | saved ID, name, version, `managed` | discover, list, reuse or import; delete only what was imported | `K3sKernel` |
| `lattice_kernel_catalog_import` | the entry ID | start the import, poll its status, list | `KernelCatalogImport` |
| `lattice_kube_cluster` | saved ID, counts, image | create or PATCH, then poll until ready | `KubeCluster` |
| `lattice_k3s_rootfs_image` | saved ID, version | discover and import, delete | `KubeCluster` |
| `lattice_vm` | saved ID, status, attributes that force a replacement | create and start; start or stop; delete | `VM` |
| `lattice_vm_security_group`, `lattice_vm_affinity_group` | the pair of IDs | attach, list, detach | `VM` |
| `lattice_storage_volume` | saved ID, size in GiB and in bytes | create, grow, delete | `PlainResource` |
| `lattice_lb_certificate` | saved ID, name, PEM texts, private key | create, update, delete | `PlainResource` |
| `lattice_ipam_pool`, `lattice_ipam_lease` | the saved object | create, read (the lease in a listing), delete; update of the pool | `PlainResource` |
| `lattice_vpc_load_balancer`, `lattice_public_ip_pool`, `lattice_storage_backend`, `lattice_affinity_group` | the saved object | create, read, delete | `PlainResource` |
| data sources, provider configuration, staging cleanup tool | none that changes | list, filter and copy; read the environment; delete leftovers | not modelled |

Handlers do not call each other. They interact through the *controller*, whose
objects they share, and through *Terraform*, which passes the saved state and the
plan to a handler and decides which handlers run, in which order, and in parallel
for resources that do not depend on each other.

### What the framework does, and where it shows

The models rest on these rules of Terraform and its plugin framework, which the
source depends on without containing them:

* A handler that reports an error before it has set the state leaves the saved
  state as it was: nothing after a Create, the prior state after an Update or a
  Delete. A `Delete` without an error removes the saved state, and `Read` may
  remove it with `RemoveResource`.
* A computed attribute with `UseStateForUnknown` that the configuration leaves
  out is planned with its saved value. Inside a list the saved value is the one
  at the *same index*.
* A computed attribute without `UseStateForUnknown` that is left out makes no
  difference by itself, but is unknown as soon as anything else differs. Unknown
  reads as `""` or `0` in a handler, and counts as a change where a change forces
  a replacement.
* An apply refreshes before it plans, destroys dependents before what they
  depend on, and with `create_before_destroy` deletes the old object after what
  used it has moved on.

* Terraform refuses an answer that leaves something unknown, or that is not what was
  planned ("provider produced inconsistent result after apply"). What was answered is
  saved nevertheless; after a Create it is *tainted*, and the next apply deletes it and
  makes another one. `PlainResource` models this (`"rejected"`, `tainted`).
* A plan is read into Go values before anything is sent. A list that is unknown does
  not fit a Go slice in the version of the framework that `go.mod` requires, and the
  handler ends with an error. Since this depends on a library outside the repository,
  `KubeCluster` and `PlainResource` take it from a constant (`Decodings`), and the passing
  runs take both values.

For the other resources the models leave Terraform's refusal of an answer out: what the
handler saves is saved, and its result is the handler's own. The refusal would turn a
success into an error, without another effect on the controller or on what is saved (but
for the tainting after a Create), where

* a VM's configuration omits `nics` or `extra_disks`: an empty list is saved where null
  was planned (the configurations of the model do not omit them);
* an item of a VPC is changed in place: it is not sent, and the old one is read back;
* the name or the description of a security group, or the description of a public IP, is
  changed: no request carries it, and the old one is read back;
* a VM is to be `"paused"`: no request does that, and another status may be saved;
* an Update of a cluster saves counts other than the planned ones, because the status
  lagged or another operator changed the cluster in the meantime.

### What is hard, and what makes each part correct

`PROJECT.json` lists the hazards at their lines. Per part:

* **Security group** - indices shift when a rule is inserted or removed; a lost
  answer duplicates a rule; removals and additions are separate requests. Correct:
  success leaves exactly the configured rules, a rule that stays at its place is
  never taken down, what is saved is what the controller has, no group is lost silently.
  A rule that is kept but moves to another place is down for a while: from `<<ssh>>` to
  `<<web, ssh>>` the PUT for the first place turns the rule into web, and ssh is added
  after that.
* **VPC** - the same lists, but reconciled against the saved state, and an item
  with an ID is never sent again. Correct as far as it goes: edits at the tail are
  carried out, and only the saved tail is removed. Edits elsewhere are not
  (finding `vpc_update_in_place`).
* **Public IP** - a changed mapping takes two requests; a cleanup works on a nil. Correct:
  a mapping is taken down only to set another one, and applies end with the configured
  one. Leaving `private_ip` out clears nothing (finding under `public_ip`).
* **k3s kernel** - list-then-import is not atomic, so two resources import one kernel
  twice; a download outlives its request. Correct: nobody deletes a kernel that he did
  not download, and a kernel that nobody manages is one that an error explains.
* **Kernel catalog import** - the import goes on when the Create that asked for it has
  given up; a first poll can still see the end of an earlier attempt; two resources that
  name one entry share its kernel, and each of them deletes it. Correct: kernels that
  nobody saved are explained, a reported failure is one of this attempt, and the next
  applies mend the rest.
* **Kubernetes cluster** - the controller works on its own and refuses some changes; polls
  fail, time runs out, the first poll may come before the work shows, the old image must
  outlive the upgrade. Correct: success means that the work is done, no image is deleted
  that nodes run, and applies end with what is configured or with the controller's refusal.
* **VM** - made and started in two requests; replaced for reasons the user did not
  state; its attachments must go first, and can block a refresh.
* **Plain resources** - one request per handler, and what remains is what the saved state
  does not know: a size that nobody refreshes, a key that is never answered, arguments
  that are unknown when another one differs, a container that is gone. Correct: success
  means the configured object, a volume never shrinks, no object is lost silently, and
  applies converge but for cases that can be named.

## 2. Modules

One module per resource, or per resources that interact. Each has the
controller's state, Terraform's saved state `tf`, the configuration `want`, the
program counter and locals of the running handler, and history variables that
only properties read. An action is one request with its answer and what the
handler does until its next request, so every point at which a handler waits for
the controller is a state in which others may act. `...Fails` actions are the error
paths: the request is refused, or carried out and its answer lost (`Fault`), or what
it names is gone.

| Module | Models | Properties about |
|---|---|---|
| `ManagedObject` | the abstract promise below | what is followed, what is lost |
| `SecurityGroup` | `resource_security_group.go` | realised rules, rules that stay up, convergence |
| `VPC` | `resource_vpc.go` | tail edits, what is removed |
| `PublicIP` | `resource_public_ip.go` | mappings that hold and converge |
| `K3sKernel` | `resource_k3s_kernel.go`, several resources at once | reuse, ownership, lost downloads |
| `KernelCatalogImport` | `resource_kernel_catalog_import.go`, several resources at once | kernels nobody saved, failures that are real |
| `KubeCluster` | `resource_kube_cluster.go` with `resource_k3s_rootfs_image.go` | waiting, images in use |
| `VM` | `resource_vm.go` with the two attachment resources | status, detachment, stuck refreshes |
| `PlainResource` | the eight resources whose handlers send one request each | success, sizes, convergence |
| `<Module>Proofs` | theorems about the eight modules above | |
| `MCSecurityGroup`, `MCVPC`, `MCK3sKernel`, `MCKernelCatalogImport`, `MCKubeCluster`, `MCVM`, `MCPlainResource` | small instances: the configurations to try | |

`ManagedObject` states what a resource that makes an object of its own promises about it:
it follows one object at a time (`held`), makes none while it follows one, removes none
but the saved one, never takes up again one that it lost (`disowned`), and loses one that
exists only in the very step in which a request fails (`failures`), be it in a Create that
reports an error or where an error is taken for "not found", or because the controller
itself shows the object as failed (`broken`; clusters only). `failures` and `broken`
belong to the environment. The losses themselves are what the code does, and are permitted
there, not caught: what the refinement excludes is a loss without a failure, a second
object, a wrong one deleted. `SecurityGroup`, `VPC`, `PublicIP`, `KubeCluster`, `VM` and
`PlainResource` implement it: each has an `Object == INSTANCE ManagedObject WITH ...`
whose `held` is the object of the running handler or, between handlers, the saved one, and
`ImplementsManagedObject` is checked as a property and proved. Its `Misread` is the set of
objects of which a Delete's error can be taken for "not found" because their ID contains
`404`. The two kernel resources share objects, so that their losses are stated for all of
them together (`DownloadsAccounted`, `KernelsAccounted`).

`PlainResource` follows one resource, of a kind that `Init` chooses. The handlers of the
eight kinds are the same scheme with different values: `Traits` records which
attributes force a replacement and how each handler tells that an object is gone, and
operators such as `StorageVolumeUpdatable`, `LBCertificateRead`, `IPAMPoolUpdatable` and
`CreateAccepted` are what one kind does differently. Of an object it keeps `ident` (what
nearly every kind replaces it for), `value` (what an Update can change) and `opt` (an
attribute that may be left out). The size in bytes is computed as in the source, in 64
bits: `HalfRange` stands for the 2^33 GiB from which it overflows.

Names follow the source: `UpdateGet`, `UpdateRemove`, `UpdateApply`,
`UpdateReread` are the four phases of `SecurityGroupResource.Update`; `Matching` is
`findExistingK3sKernel`, `Polled` is the test in `waitForReady`, `FirstRequest` is
the switch in `PublicIPResource.Update`. `PROJECT.json`'s `map` gives the lines of
every definition. Operators marked *Mutant* in the modules are not part of the
models: each is a plausible wrong version of the definition after it, and
substituting it breaks the property that `mutants` names, which shows that the
property depends on the code.

What is abstracted: the fields of a rule or an item are one `match`, together with
one optional field where the plan's inheritance matters; an ID is a small number,
and whether its text contains `404` is a constant set (`IdsWith404`); whether the text
of an error can contain `not found` for another reason is a constant
(`MisleadingErrors`).

An object that Terraform no longer knows is kept only as a member of the set of
existing objects; what it contains is not followed, since no handler names it again.

### The controller

The controller is external and modelled as the provider uses it: it hands out fresh IDs,
lists rules in the order they were added, refuses requests about what does not exist, and
in `KubeCluster` accepts work and carries it out later. Two constants leave open what the
source does not tell: `Controllers` (does a GET of a cluster show the goal of its work or
what the nodes run, and does the status lag behind a PATCH?) and `MissingVM` (is the list
of groups of a VM that is gone an error or empty?). `NodeImagesKept` and `KubeConverges`
are stated for `records = "actual"` only: against a controller that shows the goal, a
refresh after an Update that gave up finds nothing to do, and the old image is deleted
while the upgrade is still on.

`KernelCatalogImport` leaves two more open: whether the controller refuses to start an
import that runs or is done (`Refusals`), and whether a status can be stale between a
request and its effect (`Staleness`). `PlainResource` leaves open whether the controller
accepts a smaller size (`Shrinking`) and whether it answers PEM texts (`Omitting`).

The controller of `KubeCluster` refuses a PATCH as the documentation says it does:
"only scale-out is supported" and "scale-down is rejected" for the control plane
(`docs/resources/kube_cluster.md:5` and `:141`, `resource_kube_cluster.go:163`), and
"LatticeVE validates the upgrade path" (`:126`). `Accepted` compares the PATCH with the goal
that the controller has: not fewer control-plane nodes, and the same version or one of the
`Upgrades`. Which ones it supports is a constant, and the controller's to tell. Workers can be
scaled both ways. A refused PATCH ends the handler with an error (`UpdateRefused`) and
changes nothing, so that every later apply ends the same way.

`waitForReady` polls right after the PATCH (`resource_kube_cluster.go:511-515`). Where the
status lags (`lags`), a PATCH leaves the cluster "ready" with its work pending, and the
controller begins it later (`WorkBegins`). Update then reports success at once and saves what
the nodes still run; the next apply sees a difference, and meets a controller at work, which
may refuse its PATCH. `SuccessIsDone` is therefore stated for a status that does not lag.
`NodeImagesKept` and `KubeConverges` hold for both and are checked for both.

In `KubeCluster` a refused image removal whose error contains `404` is an error like
any other; `SecurityGroup`, `PublicIP` and `K3sKernel` model that misreading.

## 3. Runs

Bounds: the counters are bounded by guards, IDs on the requests that make them, and one
or two refused or unanswered requests (`MaxFaults`), one foreign change (`MaxDrift`), one
or two edits of the configuration (`MaxEdits`) are allowed, in `KubeCluster` one break of
the controller's work (`MaxBreaks`). One fault lets every request fail at every point,
and the retry meet what it left; one foreign change falls between any two requests; two
edits reach every configuration from every other one with a third in between, so list
indices grow, shrink and shift. ID bounds are large enough never to block a request in a
passing run with liveness (the convergence properties would fail otherwise).
`plain_resource` and `kernel_catalog_import` start from every configuration and edit once:
a kind of one request per handler has no state between two edits that it does not have
after one.

| Run | What it asks | States |
|---|---|---|
| `security_group` | success, kept rules, refinement, convergence | 619 800 |
| `vpc` | the same where the code supports it: the tail of the lists; refinement | 585 326 |
| `public_ip` | mapping after success, kept mappings, refinement, convergence (and that clearing `private_ip` clears nothing) | 574 166 |
| `k3s_kernel` | two resources: who deletes what, what nobody remembers | 165 513 |
| `kernel_catalog_import` | two resources and a controller that imports in the background | 326 239 |
| `kube_cluster` | waiting, images in use, refinement, convergence or a refusal for good | 1 124 712 |
| `vm` | status, detachment before deletion, refinement, convergence or stuck | 236 057 |
| `plain_resource` | eight kinds: success, sizes, refinement, convergence | 1 049 918 |
| `vpc_update_in_place` | violation: the second of three port forwards is dropped | |
| `public_ip_cleanup` | violation: the cleanup after a failed static NAT | |
| `vm_status_replaces` | violation: a change of status deletes the VM | |
| `cluster_plan` | violation: the plan of a cluster that cannot be read | |

The longest passing runs finish in about two minutes. `kube_cluster` and `cluster_plan` use
three configurations: a small control plane, a larger one, and the larger one with a newer
version and another worker, so that edits scale out, scale the control plane down (refused),
upgrade, and go back to the old version (refused). The foreign change scales the workers or
deletes the cluster. Of the four controllers, the lagging one that shows its goal is left
out: the properties about what the nodes run make no claim of it. `k3s_kernel` has an entry and a
kernel without a version, which must not be taken to fit each other. `vm` uses two groups, six
configurations (two of them not pinning the attributes that replace the VM) and IDs up
to 7. `plain_resource` gives each kind the configurations that its handlers tell apart,
among them sizes that shrink and two that overflow, and a backend that the provider
refuses.

`CHECK_DEADLOCK FALSE` is set because an idle provider whose user has made all
bounded edits stops rightly.

### What the passing runs show

* *Success means success.* `SuccessMeansRealised`, `TailEditsRealised`,
  `SuccessMapsNat`, `SuccessIsDone`, `SuccessHasStatus`, `SuccessRealised`: a Create or Update
  that reports success has brought about what was configured, unless another operator
  interfered (`quiet`), or for `VPC`, `PublicIP` and `KubeCluster` the saved state was stale
  when it began (`current`). Those two conditions are part of the result: what happens
  outside them is left to the convergence properties, and the security
  group needs no `current`, since its Update lists the rules first. Of a cluster it is
  claimed only if the status does not lag. A volume whose size
  overflows reports success with another size.
* *Errors are errors.* `FailureIsReal`: a catalog import reported as failed has failed
  after this Create asked for it - unless the controller's status lags behind, when the
  first poll may read the error of an earlier attempt.
* *Losses are accounted for.* `ImplementsManagedObject`, `DownloadsAccounted`,
  `KernelsAccounted`: an object that exists without Terraform knowing
  it comes from a Create that reported an error, or from an error that was taken for
  "not found" - from nothing else, and only in a step in which a request failed or, for a
  cluster, when it was shown as failed. These properties record such losses as what the
  code does; they do not forbid them.
* *Nothing is taken away on the way.* `KeptRulesStayUp`, `OnlySavedTailRemoved`,
  `NatKept`, `OthersKernelsSurvive`, `NodeImagesKept`, `DetachedBeforeDestroyed`,
  `VolumeNeverShrunk`.
* *Kernels are right.* `SavedServes`, `OwnersDownloaded`.
* *Repeated applies converge.* `ApplyConverges`, `SizesConverge`, `NatConverges`,
  `KernelsConverge`, `CatalogConverges`, `KubeConverges`, `VMConverges`, `ResourceConverges`.
  What does not converge is named in the property or next to it, each case with its
  reason; `plain_resource` fails when any of its seven excuses is left out:
  * of a VPC only the lengths of the lists converge;
  * a VM whose refresh meets an attachment to a VM that is gone, if the controller answers
    its listing with an error (`Stuck`), and likewise a lease whose pool is gone
    (`LeaseStuck`): no refresh ever succeeds again;
  * a volume that others resized, or that is to shrink, or that overflows
    (`VolumeStuck`): the size that is compared is the configured one;
  * a pool that leaves `dns` out (`PoolStuck`): `dns` is unknown in every Update, and
    unknown is refused before anything is sent;
  * a certificate without `chain_pem`, and a backend without `config` (`Remade`): what is
    saved is refused by Terraform, tainted, and made anew in every apply;
  * a certificate whose PEM texts the controller does not answer (`CertificateHidden`):
    drift cannot be seen;
  * a backend whose replacement is refused (`ReplacedByNone`): the old one is deleted
    before the settings of the new one are looked at;
  * a cluster whose configuration asks for fewer control-plane nodes or for an upgrade that
    is not supported (`Refused`): every apply ends with the controller's refusal;
  * a cluster whose controller shows the goal, and not what the nodes run;
  * a mapping whose `private_ip` is left out, which stays as it is;
  * a cluster, or a certificate, whose plan cannot be read (`decodes`, `Readable`);
  * a catalog import whose controller refuses an entry that is imported already.

### Fairness

`FairSpec` assumes that a handler that runs takes its next step (a goroutine is not
stopped; each request ends by an answer or by the client's timeout), and that the user
applies again and again: strong fairness of `Read`, which every apply begins with, and
of the requests of an apply, which errors can disable again and again. Faults, foreign
changes and edits are not fair and are bounded. The controllers of `KubeCluster` and
`KernelCatalogImport` are assumed to end their work, one way or the other. Nothing in the
provider retries by itself, so without the user's applies nothing converges.

## 4. Findings

* `vpc_update_in_place` - `VPC.Update` removes by saved ID, and the plan inherits IDs by
  index. From three port forwards to the first and the third, the plan keeps the first
  two IDs: the third one is removed from the controller, the second one stays and is never
  sent, and the handler reports success. The next plan shows the difference, but an item with an ID is
  never sent, so no apply repairs it.
* `public_ip_cleanup` - the cleanup after a failed static NAT dereferences the nil that
  the failed call returned.
* `public_ip` (a passing run) - `docs/resources/public_ip.md:19` says of `private_ip`
  "Clearing this value removes the NAT rule". The attribute is optional and computed
  (`resource_public_ip.go:65`), so that leaving it out is no difference from what is saved:
  no Update is planned unless another argument changes too, and the mapping stays.
  `NatConverges` says so: without a `private_ip`, applies end with the saved mapping.
* `vm_status_replaces` - computed attributes that force a replacement and are not kept
  from the state make every change of `status` a replacement of the VM, unless the
  configuration sets them all.
* `cluster_plan` - `nodes` is computed, hence unknown in the plan of every Create, and the
  model takes it into a Go slice. With a framework that does not read an unknown list
  into a slice, Create and Update end before their first request. The run has
  `Decodings = {FALSE}`; the passing runs also take the other value, so that what comes
  after the decoding is checked too.

Two more disagreements with the documentation lie in behaviour that the passing runs take as
the code's, and no property of theirs is about the document's words:

* `docs/resources/storage_volume.md:3` and `:18` say that a volume "can be increased to grow".
  The controller grows it, but `size_bytes` is planned with its saved value
  (`resource_storage_volume.go:67-73`), so that Terraform refuses the larger one it is
  answered: every apply that grows a volume ends with an error (`"rejected"`), and the next
  plan is empty.
* `docs/resources/k3s_kernel.md:14` says "On destroy, Terraform deletes kernels downloaded by
  this resource", and `:27` that `managed` is `true` "when Terraform downloaded the kernel". A
  download whose answer is lost is found by the retry and reused as if it had been there
  before (`managed` false), so that nobody deletes it. `DownloadsAccounted` tells these
  downloads apart.

Behaviour about which the repository's documents say nothing. Of a security group: its name
and description can be changed in the configuration without a replacement, but `Update` sends
requests about rules only (`resource_security_group.go:216-296`) and puts the controller's old
name into the result (`:316`), which then differs from the plan; and a kept rule that changes
its place is down for a while. Two k3s kernel resources that find no kernel both download
one; two catalog imports of one entry delete each other's kernel; a size of 2^33 GiB or more
is sent as another size; the error of a request whose URL contains `404` reads as "not
found".

## 5. Proofs

Each component's proofs are in its `...Proofs` module, and hold for all values of the
constants that satisfy the module's assumption (`SGAssumption`, `VPCAssumption`,
`CatalogAssumption`, ...: the bounds are naturals and the sets have the shapes that the
model gives them). `TypeOK` bounds the counters by the same constants as the guards, so
every theorem holds for every bound, any number of resources, entries, groups or items,
and any configurations. Each module has one lemma per invariant that says that every
step keeps it, with one step of the proof per action.

| Module | Theorems |
|---|---|
| `SecurityGroupProofs` | `TypeCorrect`, `Implements`, `LostIsAccounted`, `KeptRules`, `SuccessRealises`, `SuccessLeavesNoDiff`, `ErrorsHaveCauses` |
| `VPCProofs` | `TypeCorrect`, `Implements`, `LostIsAccounted`, `OnlyTails`, `SuccessRealisesTailEdits`, `SuccessLeavesNoDiff`, `ErrorsHaveCauses` |
| `PublicIPProofs` | `TypeCorrect`, `Implements`, `SuccessMaps`, `Keeps`, `ErrorsHaveCauses` |
| `K3sKernelProofs` | `TypeCorrect`, `Serves`, `Owners`, `Downloads`, `OthersSurvive` |
| `KernelCatalogImportProofs` | `TypeCorrect`, `KernelsAreAccounted`, `FailuresAreReal` |
| `KubeClusterProofs` | `TypeCorrect`, `Implements`, `SuccessIsTrue`, `SuccessLeavesNoDiff`, `ImagesKept`, `ErrorsHaveCauses` |
| `VMProofs` | `TypeCorrect`, `Implements`, `SuccessShows`, `SuccessLeavesNoDiff`, `DetachedFirst`, `NeverStuckByItself`, `ErrorsHaveCauses` |
| `PlainResourceProofs` | `TypeCorrect`, `Implements`, `NeverShrunk`, `SuccessRealises` |

Every safety property of the passing runs is proved: the invariants, the action properties
and the refinements. Some theorems state an invariant that no run lists:
`LostIsAccounted`, `SuccessLeavesNoDiff` (`NextPlanIsEmpty`), `NeverStuckByItself` (`StuckHasCause`)
and `ErrorsHaveCauses` (`ErrorHasCause`, which the run `cluster_plan` shows violated where the
plan of a cluster cannot be read). The arguments:

* *Security group, `SuccessRealises`.* A handler reports success at its last step, and
  what makes the rules right was built up over all the steps before. `IInv` describes a
  handler in the middle of its work, as long as nobody interferes: while Create adds
  rules, the group has exactly the rules recorded so far, each as planned
  (`CreateProgress`); while Update runs, the plan's first `at - 1` rules are matched one to
  one with rules of the controller that honour them, under the saved ID where there is
  one and in ascending order of IDs, and every other rule there is still to be removed or
  rewritten (`UpdateProgress`). `IdsFresh` (all rule IDs are below `nextRule`, saved IDs
  ascend) keeps the order when a rule is added. `KeptRules` needs that the rules still to be
  removed are not among the plan's IDs (`DoomedUnplanned`), and that the PUT for a place
  gives its rule the body that is wanted there.
* *The refinements.* A step of the detailed specification is a step of `ManagedObject` or a
  stutter, given that IDs are handed out in order, so that a new object was never lost
  before (`Numbered`, `OneAtATime`; of the security group also that nothing is saved while
  Create adds rules, `CreatingUnsaved`), and that a running handler works on the saved object
  or nothing is saved (`Running`, `Known`, `Shown`). `PlainResource` hands out any ID that no
  object and no error left behind has, and needs only that it keeps the attributes of
  the saved object as long as that exists (`Followed`). That a loss comes with a failure is a
  matter of each step: the actions that lose an object count a fault, or find it gone, or, of
  a cluster, find it shown as failed. `LostIsAccounted` takes the
  refinement one step further: `ManagedObject`'s own invariant holds of the security
  group and of the VPC.
* *VPC, `OnlyTails`.* What an Update still has to remove was saved beyond the planned
  length of its list (`Running`).
* *VPC, `SuccessRealisesTailEdits`.* A handler sends its removals first, then its additions,
  and both only for the tail. `ItemsNumbered` orders the items of a list by their IDs, all of
  them below the next ID, so that an item that is added comes last. `UnderWay` says what an
  undisturbed handler has left to do, by `Reaches`: the controller's list is the planned one
  but for the removals still due at its end, and once none is due, but for the items
  still to be added. `NothingFollowed` gives the empty lists that a Create starts from. When
  nothing is due the list is the planned one.
* *The next plan is empty, `SuccessLeavesNoDiff`.* What the last step of Create or Update saves
  is what the controller has (`Settled`), and that is what was configured, so that a refresh
  changes nothing and no attribute differs. It needs the theorem on success before it. The
  security group's Update saves a listing, so that the order of the list counts: the matching
  of `UpdateProgress` and the listing both enumerate the group's rules in ascending order,
  and a set has only one such enumeration (`OneEnumeration`, by counting the members below
  each one). Its name and description can differ after an Update, which does not
  send them.
* *No error without a cause, `ErrorsHaveCauses`.* While no request failed and nobody else
  changed anything, what a handler is going to name exists (`Undisturbed`): the rules of the
  saved state and those Update listed, the items to remove, the mapping to disable, the VM
  and the groups. Every error path then needs a fault. Terraform drops nothing and repeats
  nothing in such a history, so that the handlers never meet their own leavings.
* *Public IP.* When only the last GET is due, the mapping is made; while requests about
  the mapping are due, the plan differs from what is saved (`Mapped`).
* *k3s kernel.* Strengthened together: a saved kernel is the one in the table
  (`Shown` there), a Create runs for an entry that fits its resource while nothing is saved
  (`Creating`), and IDs are handed out in order, so no kernel takes the ID of another
  (`Numbered`); `Ownership` is their conjunction with the properties.
* *Catalog import.* An import under way is waited for, or left by a failed Create, or
  begun by another operator (`WorkAccounted`), and no resource has anything saved while it
  creates (`UnsavedYet`); that explains the kernel at the moment the import ends. An error
  is never shown with a kernel, nor - if the status is not stale - with a running import
  (`ErrorsAreRecent`), so an error that a Create sees is its own.
* *Cluster.* While a handler waits, the controller's goal is what the handler wants
  (`Progress`), and if the status does not lag, "ready" means that nothing is pending,
  which `SuccessIsTrue`, `SuccessLeavesNoDiff` and `ErrorsHaveCauses` need; `ImagesKept`
  does not. Images are only replaced by newer ones (`ImagesOrdered`), so what the nodes
  run is not newer than the goal and the goal not newer than the saved image, and what was
  saved of the nodes is not newer than what they run (`MovesOn`): an image older than all
  of these is run by no node.
* *VM.* After a refresh the saved status is the controller's (`StatusKept`). A group that is
  attached, and that nobody else attached and no error hid, has a saved attachment that
  names the VM (`Attended`), which Terraform removes first. Hence every saved
  attachment names a VM that exists, unless others deleted it (`AttachmentsLive`), and no
  refresh gets stuck by the provider's own doing (`NeverStuckByItself`), whatever fails.
* *Plain resources, `NeverShrunk`.* Unless it was resized behind the provider's back, a
  volume has the size that was asked for the saved number of GiB (`SizeKept`).

Only model-checked: the convergence properties of section 3, which are liveness under
fairness (`ENABLED` and fairness are out of the prover's reach).

## 6. Not modelled, and what is left

* The data sources send one GET each, filter and copy; they change no state, and there
  is nothing to interleave. The provider's configuration is read once. The staging
  cleanup script is a sequence of deletions outside the provider.
* Of a cluster, attributes that force its replacement and a `k8s_version` set apart from
  the image; of a VM, lists that the configuration omits, since what is saved for them is
  refused by Terraform.
* The types that the JSON of a storage backend's `config` is parsed into; the optional
  fields of items and rules one by one, where one datum tells them apart.
* Terraform's refusals and tainting, for others than the plain resources (section 1 lists where
  they would bite).

What could come next: two `PlainResource`s composed, so
that a lease and its pool, or a balancer and its certificate, are both Terraform's.
