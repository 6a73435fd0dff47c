# Verification of the IONOS Cloud provider

TLA+ models of the parts of `crossplane-provider-ionoscloud` that carry logic of
their own, the TLC runs that check them on small instances and TLAPS proofs for
every size. The reference is the code under `src/`; line numbers below are those
of this commit. `SS` stands for `internal/controller/serverset/serverset.go`.

1. The system · 2. Modules · 3. Properties · 4. Runs, bounds, fairness ·
5. Findings · 6. Proofs · 7. Not modelled

## 1. The system

The provider is a Kubernetes controller manager. For every kind of cloud resource
there is a *managed resource* (a Kubernetes object with a spec and a status) and
an *external client* with four operations that the crossplane runtime calls from
a work queue, one reconcile of an object at a time and many objects in parallel:
`Observe`, then `Create`, `Update` or `Delete`. Whatever a reconcile has to know
later must be in the objects: locals die with it, and the runtime restarts it
after an error, a timeout, a crash of the provider or simply a poll interval.

| Component | State it keeps | Operations | Talks to | What is hard |
|---|---|---|---|---|
| ServerSet (`serverset/`) | the server, boot volume and NIC objects it owns, their labels (index, version), status, a state map | Observe, Create, Update with two strategies; Ensure/Create/Delete/Get of each sub-controller | Kubernetes API (not the IONOS API) | replaces replicas in many steps, each of which may fail, with the object names as its only memory |
| Substitutions and ConfigMaps (`ccpatch/`, `configmap_controller.go`) | `globalStateMap`, a ConfigMap per set | assign an address to a replica, patch user data, persist, rebuild after a restart | boot volume creation | a package variable shared by all reconciles; uniqueness; address exhaustion |
| State map failover (SS:502-686, 1098-1198) | the state map ConfigMap, time stamps, the Updated condition | check all VMs, wait for an update, wait for the VM's software | servers, an agent in the VMs | clocks of different resolution, stale entries, a reboot that comes after its wait |
| StatefulServerSet | a ServerSet, data volumes, LANs, a VolumeSelector | Observe, Create in order, Update | Kubernetes API | several kinds that must agree; partial creation |
| VolumeSelector | which data volume is attached to which server | Update with one goroutine per replica | Kubernetes API, IONOS API | goroutines that share variables, servers replaced meanwhile |
| IPFailover | a list inside the LAN it belongs to | Observe, Create, Update, Delete | IONOS API, the LAN | read-modify-write of a list shared by several resources |
| Server, CubeServer, Volume, NIC, LAN, IPBlock, Datacenter, FirewallRule | the external name, the last state seen | the four operations | IONOS API | asynchronous requests, BUSY states, a POST whose result is lost |
| User, Group, S3Key, PrivateCrossConnect | the external name, memberships, remembered secrets | the four operations | IONOS API | values the API does not give back |
| ALB, NLB, DBaaS, Kubernetes, Backup | the external name, state | the four operations | IONOS API | as the compute resources |
| References (`zz_generated.resolvers.go`, `references.go`) | the resolved IDs in each spec | `ResolveReferences`, the extractors | the other resources | IDs that outlive what they name |
| API clients, configuration, generated types | none | request building, comparison | HTTP | - |

What makes each correct:

- **ServerSet.** An update never takes a working replica down, whichever step
  fails; it is rolling, one replica at a time, the ACTIVE one last; what Observe
  calls existing is exactly one server, boot volume and NIC per replica; once the
  user stops editing, the set converges to its template.
- **Substitutions.** Two replicas never hold the same unique value; a replica
  keeps its value for ever, across restarts and re-creations; exhaustion is an error.
- **Failover.** At most one VM is down at a time; a rollout stops at an error;
  every wait ends and the template is applied in the end.
- **StatefulServerSet.** Its parts exist in the order they need each other, and the
  set is served as its spec says in the end.
- **VolumeSelector.** A data volume is attached to one server, one of its replica.
- **IPFailover.** A LAN's list contains each resource's entry, and nobody removes
  another's, except where the code lets them: section 3 says exactly when.
- **Life cycle of the others.** At most one external object per resource, none left
  behind, what the user asks is finally applied, updates and deletions end.
- **References.** Nothing is posted before the IDs it needs are known; a set of
  resources can be made and deleted in any order.

## 2. Modules

| Module | What it is |
|---|---|
| `ServerSet` | the ServerSet controller with its environment, one action per step of the code that reads or writes the cluster, and its properties |
| `RollingReplacement` | the abstract specification: what a set promises about the images its replicas boot from |
| `ServerSetInv` | the inductive invariants, `FullInv` in one |
| `ServerSetProofs` | proofs: types and which step belongs to which reconcile; `IInv`, `ServedStable`, `MasterLast` |
| `ServerSetRollingProofs` | proofs: `ServerSet` implements `RollingReplacement`; `OneReplacement`; the counts of servers, volumes and NICs are exact |
| `Substitution` | `globalStateMap`, the two kinds of addresses, the ConfigMap and its reading back, and of the ServerSet what decides when a volume is created |
| `AddressBook` | the abstract specification: a replica is given a value once and keeps it |
| `SubstitutionProofs` | proofs, without a restart or with orderly ones: types, the address follows the index, uniqueness, agreement of the ConfigMap, no nil address, and that `Substitution` implements `AddressBook` |
| `Failover` | the reboots of a set with a state map: the set's worker, the Server controller, the VMs and their reports |
| `FailoverProofs` | proofs of all its safety properties |
| `StatefulServerSet` | the set's worker, the volume selector's worker and a ServerSet reduced to what it does to servers |
| `StatefulServerSetProofs` | proofs of types, of the order of creation, of who a volume is attached to and of what a ready set has attached |
| `IPFailover`, `IPFailoverProofs` | several failovers that share the list of one LAN; proofs of all its safety properties, for any number of reconciles at a time |
| `ManagedKind` | what a kind is made of: the columns of the tables below |
| `ComputeKinds`, `NetworkKinds`, `ServiceKinds` | the tables of the 26 kinds with one object in the cloud |
| `ManagedResource` | one managed resource of a kind: the four handlers as the runtime calls them, against the API |
| `ManagedResourceProofs` | proofs of its safety properties for every table of kinds |
| `References`, `ReferencesProofs` | resources of several kinds that refer to each other; proofs of their safety properties for every graph of references |
| `MC...` | what TLC needs: model values, symmetry, instances; `MCKinds` puts the tables together |

The components meet in these places. `ServerSet` has the steps of a replacement,
`Failover` takes a replacement as one step and adds the waits around it,
`Substitution` keeps of it what decides which volume is made when, and
`StatefulServerSet` reduces it to servers that come, are replaced and go.
`ManagedResource` is one resource by itself; `References` is many, each reduced to
what it asks of the others; both read the same tables.

### ServerSet: state and code

A Kubernetes object named `<set>-<index>-<version>` is a record in `servers`,
`volumes` or `nics`. `idx` and `ver` are the labels the code lists by
(`ListResFromSSetWithIndex`, `listResFromSSetWithIndexAndVersion`); `cores`,
`image` and `size` are the fields the code compares with the template; `boot` is
the server's `VolumeCfg.VolumeID`, named by the version of the volume it came from.
`status` says how far the object's own controller has come: PENDING (no ID yet),
BUSY, AVAILABLE, UPDATING (a changed spec that is not applied yet, during which the
API may still say AVAILABLE), DELETING (deletion time stamp set).

The set's own object is `template` (spec), `extName` and `pending` (the crossplane
annotations) and `identity` (what the identity ConfigMap says, a set of at most
one name: empty when the ConfigMap is missing or names nobody).

One worker runs the reconcile. `pc`, `phase` and `mode` are its program counter:
`mode` is `create`, `update` (the two loops of Update), `bootVolume` or `all` (a
strategy at work on replica `cur`); `After` lists the order of the steps of each
mode; `phase` is `do`, then `wait` while `WaitForResource` polls, and `discard`
while an object that was rejected is removed. `cr` is the copy of the spec the
reconcile began with, `vv` and `sv` the volume and server versions it works on.

| Code | Actions |
|---|---|
| `Observe` SS:121-190, `populateReplicasStatuses`, `fetchRole` | `ObserveMissing`, `ObserveOutdated`, `ObserveUpToDate` |
| `Create` SS:420-455 | `GetVersions`, then the steps in `mode = "create"`, `NextReplica` |
| `ensureServerAndNicByIndex`, `ensureBootVolumeByIndex`, `EnsureNICs` | `EnsureServer`, `EnsureVolume`, `EnsureNIC` |
| the `Create` of the sub-controllers and `WaitForResource` | `WaitAvailable`, `WaitRejected`, `Discarded` |
| `attachBootVolume` and the attachment in both strategies | `Attach` |
| `updateServersFromTemplate` SS:502-576 | `UpdateServer`, `WaitUpdated`, `ServersDone` |
| `updateOrRecreateVolumes` SS:605-650, `updateByIndex` | `UpdateVolume`, `UpdateMaster`, `VolumesDone` |
| `create_before_destroy.go`, `recreate_only_bootvolume.go` | the steps in modes `all` and `bootVolume`, `Destroy`, `WaitDestroyed`, `Finish` |
| every error return | `Fail` (an API call or a wait fails) and the error disjuncts of the steps |
| process restart; crossplane's `external-create-pending` | `Crash`, `RemovePending` |

Lists are unsorted in the code (`client.List`), so a loop takes its objects in any
order (`todo`), and what the readiness checks see, which stop at the first object
that is not available, is a choice (`MaySeeOutdated`, `MaySeeUpToDate`). A step
reads and writes the cluster in one transition where the code does it between two
API calls with nothing in between that another step could invalidate; a conflict
reported by `kube.Update` is an instance of `Fail`.

The environment: the user edits the spec (`Edit`; `replicas` "can only be
increased"), software elects a leader (`Elect`), and the controllers of the objects
bring them on (`ServerSettles`, `VolumeSettles`, `NICSettles`, `Removed`).

Abstractions: one NIC per replica and no firewall rules (rules are ensured and
deleted by the same code as NICs), `cores` for the four compared server fields,
`image` for the three volume fields that force a re-creation, no state map (that is
`Failover`). The branch at `recreate_only_bootvolume.go:31-35` is left out because it
cannot be reached: `updateByIndex` fails before it when two volumes exist.

### Substitution: state and code

`globalState` is `globalStateMap` (per set and `Identifier` the list of keys with
their values, in the order they were appended), `identities` the ConfigMap
controller's map, `configMap` what is stored. An address is its offset in the
prefix of its substitution; `NilIP` is what IPv6 yields when the prefix is used up.

| Code | Actions |
|---|---|
| `Observe` SS:121-135 before the external name is set; with it, `populateReplicasStatuses` SS:321-348 | `ObserveNew`, `ObserveSet` |
| Create's and Update's way to a new boot volume | `CreateReplica`, `Created`, `TooMany`, `Replace`, `Updated`, `Condemn` |
| `setPatcher`, `ReplaceState`, the `WriteState` of both handlers, `gen.go` | `Substitute` |
| `SetSubstitutions`, `CreateOrUpdate` of the ConfigMap; the volume | `SaveMap`, `CreateVolume` |
| any failing step; restart | `Fail`; `Restart` |
| user, garbage collection | `Submit`, `Grow`, `Lose`, `DeleteSet`, `RemovePending` |

### Failover: state and code

A field of the template is its version: `cores` stands for what can be changed on a
running VM (unless `HotPlug` is off), `nicMultiQueue` for what needs a reboot,
`image` for what replaces the boot volume. `map` is the state map, an entry a state
and a time; since the code only ever compares a time with the provider's start
(`providerStartTime`, SS:1140) or with the request it waits on, a time is "zero",
"before" the start, "since" it or "after" the request. `vm` and `pending` are the VM and the
reboot its Server controller has not carried out; `answer` is the `Updated` condition when
it is of a later second than the request (`tick`).

| Code | Actions |
|---|---|
| `Observe`, `AreServersReady` SS:766-828 | `Observe`, `ObserveUnread` |
| `updateServersFromTemplate` SS:502-576 | `UpdateRunning`, `Select`, `AskServer`, `NothingLeft` |
| `areAllVMsReadyForFailover` SS:1138-1150 | `CheckVM`, `CheckFails` |
| `isUpdateFinished` SS:1098-1118 | `UpdateFinished`, `WaitFails`, `Timeout` |
| `isVMSoftwareRunning`, `checkRuntimeState` SS:1120-1136, 1155-1198 | `SoftwareRunning`, `WaitFails`, `Timeout` |
| `updateOrRecreateVolumes`, `updateWithFailoverOrchestration` SS:605-686, both strategies | `Select`, `ReplaceVolume`, `ReplaceAll` |
| the Server controller's Update and its condition (`server.go:256-351`, `conditions.go`) | `CarryOut`, `UpdateFails` |
| the VMs and their software; the clock; provider and user | `Boot`, `Break`, `Repair`, `Report`; `NextSecond`; `Restart`, `Edit` |

`sick` and `overlooked` are history: the VMs whose error the map has shown since the
run began, and those whose reboot the map cannot tell the worker of, because the
run that asked gave up or was cut off before the reboot, because the VM reported
between the request and the reboot, or because its entry has a zero time. Assumed
of the VMs' software: it reports again and again (if it reported at boot only, no
failover would ever pass the check after a restart of the provider), a VM that boots
reports neither state, and its clock agrees with the provider's. A replacement is
one step, and the replica that leads is not told apart: that is `ServerSet`.

### StatefulServerSet and VolumeSelector: state and code

Three workers: `run` is the set's, `sel` the selector's, and the ServerSet's is
reduced to what it does to `servers`. `spec` is what the user asks, `set`,
`selector` and `sset` are the objects, `child` the data volumes and LANs, `attached`
what the API has attached. A `mark` follows `external-create-pending` from the cut
through the note the reconciler makes (`Synced` false) to its removal.

| Code (`statefulserverset/`, `volumeselector.go`) | Actions |
|---|---|
| `Observe` `statefulserverset.go:106-212`, and the runtime's choice | `Observe`, `ObserveDeleted`, `NoteSet` |
| `Create`: selector, data volumes and LANs, ServerSet, with their waits | `EnsureSelector`, `EnsureNext`, `EnsureVolume`, `AwaitVolume`, `EnsureLan`, `AwaitLan`, `EnsureSSet`, `AwaitSSet`, `WaitTimeout` |
| `Update` | `UpdateNext`, `UpdateVolume`, `UpdateLan`, `UpdateSSet` |
| the selector's `Observe` with `removePendingAnnotations`, `Create`, `Update` | `SelObserve`, `NoteSelector`, `BeginSelCreate`, `SelCreate`, `SelGather`, `SelDone` |
| one goroutine's attachment | `Attach(t)`, any order, tasks gathered before |
| the ServerSet's controller | `StartServer`, `ServerUp`, `UpdateServer`, `ReplaceServer`, `RemoveServer`, `SSetObserve`, `SSetFails`, `NoteSSet` |
| the controllers of volumes and LANs | `ChildUp`, `ChildFails`, `ChildRetries`, `NoteChild` |
| user, provider | `Edit`, `Restart` |

### IPFailover: state and code

An IP failover is an entry `[ip, nic]` in its LAN's list (`lan`). A resource has its
object (`life`, `spec`, the external-name annotation `named`, `status` with the
address and state last saved) and its reconcile (`pc`, `want`: its copy of the
spec's address, `input`: the list it is going to write).

| Code (`ipfailover.go`, `lan.go`) | Actions |
|---|---|
| `Observe` 135-170, then what the runtime does with the answer | `Observe` with `NotFound` and `Exists` |
| `Create`, `Update`, `Delete` up to the request, `GenerateCreate/Update/RemoveIPFailoverInput` | `Create`, `Update`, `Delete` with `Created`, `Updated`, `WithoutOwn` |
| `UpdateLan`, the wait for the request, the status set afterwards | `Patch`, `Refused`, `Save` |
| `GetLanIPFailovers` (`lan.go:76-87`) | `Got`, `Failing` |
| user, deletion of the LAN | `Submit`, `Edit`, `Remove`, `LanGoes` |

The read and the PATCH are two steps, so that the reconciles of other resources (`Rate`
at a time, 10 by default), the user and the LAN's deletion come in between. Three history
variables, which no action reads, record what goes wrong then: `late[r]`, the resources
whose write the list that `r` is about to write does not know of; `blind[r]`, that this list
was made from a read that failed; and `harmed`, the resources whose entries the write of
another one has changed. Abstractions: the list is a set; a resource has a NIC of its own and stands
for it; the user gives an address to one resource only (`Addresses`, the plan);
`getIPSet` yields the address of the spec; a PATCH takes effect when it is accepted.
After Create the runtime saves the annotations before the status and reads the
object again when it was edited, hence `Save`: the status is lost then, and
otherwise may be (`LoseStatus`). After Update and Delete an edited object makes
saving the status fail (`Unedited`, which compares the contents: an edit that is
undone in between is not noticed).

### ManagedResource and the kinds: state and code

The other kinds share the shape of their handlers and differ in what they send,
compare, remember, refuse and wait for. A kind is therefore a row of tables, one
definition per table and kind (`ServerParameters`, `ServerPost`, `ServerPatch`,
`ServerCompared`, `ServerDuplicate`, `ServerObserve`, `ServerCreate`, `ServerUpdate`,
`ServerDelete`, ...), each read off the function it is mapped to: the request
builders and comparisons of `internal/clients/`, the handlers of
`internal/controller/`, the parameter types of `apis/`. `ManagedKind` explains the
columns. Fields are named as in the JSON.

`ManagedResource` follows the spec in *one field*, chosen with the kind in Init
(`of`, `kind`): the field's value in the spec, the object and the remembered places
(status, spec or the process). `cr` is the object in Kubernetes, `api` the objects
ever posted, `pc` and `mem` the reconcile. `unique` says whether the API accepts a
second object of the same name. After each return the status is saved unless the object was
written meanwhile (`mem.fresh`). Pairs of kind and field whose tables agree behave
alike, so TLC takes one of each (`MCInstances`).

`References` takes the same tables for a group of kinds, adds which kinds a kind
refers to (the resolvers), which objects its API path leads through (`Path`), which
references it cannot do without (`Needed`), and follows resolution, creation,
deletion and loss of all of them side by side. The kinds `ServerSet`,
`StatefulServerSet` and `IPFailover` are in its tables only, since their handlers do
not post themselves or are modelled elsewhere.

## 3. Properties

`ServerSet`:

- `TypeOK`: one type invariant; the worker's index stays below the replicas.
- `ServedStable`: no step takes a working replica down. `Served(i)` says that
  replica `i` has a server that is not being deleted and the boot volume *its spec
  names*. The code does not wait until the Server controller has attached the
  volume, so the running VM may still use the old one for a while.
- `OneReplacement`: two replicas are never both in surplus, not even after a
  failed replacement (while `replicas` is not raised).
- `ExistsIsExact`: equal totals mean one of each per replica, while `replicas` is not
  raised: of servers and NICs whatever failed; of volumes while no object was rejected or
  at most one step failed or was cut off by a restart.
- `MasterLast`: the replica reported ACTIVE when the reconcile began is replaced last.
- `ImplementsRolling`: the refinement to `RollingReplacement`, with a replica's
  images read off the live volumes its live servers name.
- `Converges`: once the user stops editing, every replica ends on the template.
- `FullInv`: the inductive invariants of section 6: `IInv`, `StillListed`, `VolumesOK` and,
  while `replicas` is not raised, `PlacesOK` and `CountsOK`.

`Substitution`:

- `UniqueValues`: no two replicas of a set hold the same value of a unique key.
- `MapAgrees`: what the ConfigMap, and with it the status, says of a volume is what
  it was created with.
- `OnlyAddresses`: no volume is created with the text of a nil address.
- `ImplementsBook`: the refinement to `AddressBook`, the ConfigMap read as the book.

`Failover`:

- `OneDown`: of the VMs that are not `overlooked` at most one is down.
- `HaltOnError`: no reboot while the map shows an error it has shown since before
  the run began.
- `Converges`: whichever way its waits end, the set gets to the template, with all
  software running, unless a VM stays broken.

`StatefulServerSet`:

- `StorageFirst`: a ServerSet asks for a replica only when its data volumes, and the
  LANs, exist.
- `OwnServer`: a data volume is attached to one server at most, one of its replica.
- `ReadyMeansAttached`: a set reported ready has its volumes attached, for the
  replicas and servers it began with (the selector's AVAILABLE is never taken back).
- `Converges`: the set is served as its spec says, unless `Wedged`.
- `ReplicasCreated`: what the API documentation says of `replicas`; it fails (section 5).

`IPFailover`:

- `OnlyOwnEntry`: a written list leaves every other resource's entries as they are. This
  is what the code means, and it fails (section 5).
- `OthersKept`: when it fails. A write of `r` changes an entry of `s` only if `s` wrote
  since `r` read (`late`), was `harmed` before, or `r` is a Create that could not read
  (`blind`). A failed read in Update or Delete, a stale status, a failed write or an edit
  harms nobody.
- `AvailableIsListed`: what is reported AVAILABLE and not being deleted has an entry.
- `OneEntryEach`, `NoOrphans`: no second entry of a resource, none of one that is gone.
- `BecomesAvailable`, `DeletedTogetherGo`: a resource that is not edited becomes
  AVAILABLE; when all resources of a LAN are deleted, all go.
- `IPInv`: the inductive invariant behind the second and third.

All but the first two are about resources that no other one's write has `harmed`: what
is done to one resource does not spread to the others.

`ManagedResource`, for every kind and field:

- `OneObject`, `NoOrphans`: no second object of a resource, none left by one that is
  gone, unless the answer to the POST was lost or an operator removed the pending
  annotation.
- `Settles`: updates come to an end (but for `Restless`).
- `Applied`: a value the user asks for and the kind both compares and sends is
  finally there (but for `Lossy`).
- `Goes`: a deleted resource goes, unless an operator has to act or Observe reads
  something that went first.

`References`:

- `Based`: no object is posted before each of its references has an ID of the API's.
- `NothingLeft`: a resource goes only with its object, whatever else has gone.
- `Placing`, `Teardown`: all resources get their objects; deleted in any order, all go.
  The cases left out are definitions of their own: `Nameless`, `Stale`, `Forsaken`,
  `Unreadable` (section 5 says where each comes from).

## 4. Runs, bounds, fairness

| Run | Instance | Shows |
|---|---|---|
| faults | ServerSet: 2 replicas, both strategies, 2 images, sizes and core counts, 1 edit, 1 restart, 1 error, 1 rejection | `TypeOK`, `FullInv`, `OneReplacement`, `ExistsIsExact`, `ServedStable` |
| converges | ServerSet: 2 replicas, elected leader, 2 edits with scale-up, both strategies and changes between them, reboots, fair | `ImplementsRolling`, `MasterLast`, `Converges` |
| wedged | ServerSet: 1 replica, 1 error | violates `Converges` |
| subst | Substitution: 3 replicas, an IPv4 prefix that runs out and an IPv6 one, 2 versions, scale-up, 1 error, 1 lost volume or deleted set, 1 restart at any step once the set has its external name | `TypeOK`, `UniqueValues`, `MapAgrees`, `OnlyAddresses`, `ImplementsBook` |
| subst_restart | 2 replicas, 1 error, 1 restart anywhere | violates `UniqueValues` |
| failover | 2 replicas, both strategies, 2 edits, 2 of restart, failed update or read, broken VM | `TypeOK`, `OneDown`, `HaltOnError`, `Converges` |
| stateful | 2 replicas, 1 data volume each, 1 LAN, 1 edit of anything, 1 failure, timeout or restart | `TypeOK`, `StorageFirst`, `OwnServer`, `ReadyMeansAttached`, `Converges` |
| stateful_scale | the same, 1 scale-up, no trouble | violates `ReplicasCreated` |
| ip | 2 failovers, both reconciled at a time, 1 edit, 1 read that fails or write that fails, carried out or not, lost statuses, LAN may go | `IPInv`, `AvailableIsListed`, `OneEntryEach`, `NoOrphans`, `OthersKept`, `BecomesAvailable`, `DeletedTogetherGo` |
| ip_shared | 2 failovers, the default rate, no edit, nothing fails | violates `OnlyOwnEntry` |
| managed | every kind, a field for each way a kind treats one; 2 objects, 1 trouble, an operator who removes the pending annotation, 1 edit | `TypeOK`, `OneObject`, `NoOrphans`, `Settles`, `Applied`, `Goes` |
| references | node pool, firewall rule, NLB rule, database, Mongo cluster with all they need; 1 lost object | `TypeOK`, `Based`, `NothingLeft`, `Placing`, `Teardown` |

**Bounds.** Two replicas are what the properties speak about (one in replacement, one
other; one VM down, one other; a volume's own server, another's); versions grow with
the edits and are not bounded otherwise. The proofs of section 6 have no bounds.

- ServerSet. One error, restart or rejection can hit any step of any reconcile, and
  in `faults` all three come together. Two edits are needed for a second update to meet
  what the first left; they are in `converges`, and so is the election of a leader, which
  decides in what order replicas are replaced and not what happens to one. Images, sizes
  and core counts are only compared for equality, hence the symmetry in the run without
  liveness.
- Substitution. Three replicas against two addresses make the prefix run out with
  somebody still to be served; two versions give a replacement of a replacement. What
  happens is `Orderly` in `subst`: the provider does not restart before a set has its
  external name, but then at any step of a reconcile; nothing is lost while a reconcile is
  under way; a set is not deleted after a restart. `subst_restart` shows why the first is
  needed, section 5 why the others are.
- Failover. Two edits let an edit come while the previous one is rolled out; two
  troubles let a restart follow a failed update, which is what fills `overlooked`.
- StatefulServerSet. One edit and one trouble meet any state of the three workers.
- IPFailover. Two resources are what a shared list needs, and the rate of 10 lets
  both reconcile at any time; a resource has as many addresses as edits can use. `MaxErrors`
  bounds failed reads and writes together. The safety properties also hold with two edits
  and a failed read and a failed write together, and with three resources, where a stale write
  may bring back to a third what was done to it before (hence `harmed` in `OthersKept`).
- ManagedResource. One object is what should be there; the second of `MaxObjects` is
  the duplicate or the successor. Two values and "empty" tell all comparisons apart. The
  operator who removes a pending annotation is not counted as trouble. The safety
  properties also hold with two troubles, and are proved for any number.
- References. The five kinds are those with the longest chains (four levels), with a
  namesake, with a refused deletion, and with an IP block that is read.

Deadlock is checked for the runs of `ServerSet` and `Substitution`: a poll always
remains possible. Elsewhere the model really stops: when every resource is gone, or when all
is as the spec says and an Observe that changes nothing is not a step.

**Fairness.** Everywhere: the work queue requeues a resource after each reconcile and at the
poll interval, so a worker that can go on does (weak fairness of its steps), and a
request the API accepted, a boot or a controller of an owned object comes to its end.
Nothing is assumed of the user, the operator, failures, repairs or restarts, which
are bounded. In particular:

- `ServerSet`: weak fairness of `Reconcile` and of `Settle`.
- `Failover`: weak fairness of `Run`, and per VM of `CarryOut`, `Boot` and `Report`.
- `StatefulServerSet`: weak fairness of each of the three workers, and of every child's
  controller.
- `IPFailover`: strong fairness of every resource's `Reconcile`: with more resources
  than `Rate` one is enabled again and again but not always, and the work queue is first come,
  first served.
- `ManagedResource`: weak fairness of `Reconcile` and of each object's `Done`.
- `References`: weak fairness of each resource's `Progress`, of which at most one step
  is enabled at a time; a DELETE is taken of what nothing else uses.

## 5. Findings

Shown by a run:

1. **wedged** (`Converges`). A step that fails between the creation of a new boot
   volume and the deletion of the old one leaves both; the counts differ for ever,
   `Create` answers "found too many volumes for index" for ever (SS:954). One
   rejection (422) during `createAllBeforeDestroy` has the same effect. The comment
   at `recreate_only_bootvolume.go:28-29` intends the opposite.
2. **subst_restart** (`UniqueValues`). Addresses are read back by an Observe that gets
   past its early return for a missing external name (SS:127). A Create that fails in a
   wait and a restart of the provider, and the first address is given twice.
3. **stateful_scale** (`ReplicasCreated`). Raising `replicas` before the selector was
   AVAILABLE for the first time: Create gives the number to the selector and not to the
   ServerSet that exists (`serverset_controller.go:135`), and Update is never called.
4. **ip_shared** (`OnlyOwnEntry`). Create, Update and Delete of a failover read the LAN's
   list, change their entry and PATCH the whole list, without a version or a lock
   (`ipfailover.go:179-195`). At the default rate of 10 two of one LAN do so at the same time,
   and one's entry is lost or comes back. The comments at `ipfailover.go:194, 273` mean to
   change the own entry only.

Seen while modelling, without a run of their own.

*ServerSet.*
- Raising `replicas` after a failed `createAllBeforeDestroy` makes the totals equal
  again, and the new replica is never created (SS:135-177). With three replicas the next
  update then begins a second replacement beside the failed one: `OneReplacement`,
  `Scale = TRUE`, `MaxReplicas = 3`, `MaxErrors = 1`.
- A Create that is cut off while it discards a rejected boot volume is repeated without
  waiting for that volume to go (SS:1026): the set is then created with a replica that has none.
  A replacement cut off later leaves another replica with two, and the totals agree. It
  takes a rejection and two cuts, failures or restarts: `ExistsIsExact` without its first
  conjunct, `MaxErrors = 2`.
- A missing identity ConfigMap makes every replica PASSIVE; the API documentation says
  the first becomes ACTIVE (SS:393, `serverset_types.go:54-56`).
- The leader is not replaced last when it is BUSY while the reconcile observes (SS:376
  against :622).
- `Create` takes over a volume a failed `Create` left behind without waiting for its ID,
  and attaches nothing (SS:467, 1026).
- The old boot volume is deleted without waiting until the Server controller has
  attached the new one (`recreate_only_bootvolume.go:47`).

*Substitutions.*
- A failed wait before the external name is saved (finding 2), a server that is missing
  when the provider comes back, or a read of the ConfigMap that fails then, and a scale-up
  after it, give an address twice.
- A volume that is lost between Observe and Create after a restart gets a new value
  when its version is above 0.
- A set that is deleted and made again starts with the memory of the old one. After a
  restart that memory has one version of each replica (`serverset.go:319-348`),
  not the first: the new set's first volumes are given other addresses than the old set's
  identities say, and both are written to the new ConfigMap. `ImplementsBook` fails with
  two replicas, one restart and one deletion, `Orderly` or not.
- IPv6 exhaustion yields `<nil>` as the address (`substitution_ipv6_address.go:78`); IPv4
  returns an error.
- Values are unique within a set; `substitutions_types.go:23` says across sets.
- A read of the ConfigMap that fails once reorders what is remembered, so that keys may swap; a
  failed write is only logged. Both package maps are written without a lock by
  concurrent reconciles, which in Go may end the process.

*Failover.*
- The wait for the software compares with the time taken *before* `kube.Update` (SS:543),
  so a report between the request and the reboot ends it, although "After reboot, wait
  for server to be in running state again before proceeding to next replica" (SS:559).
  The next VM is then rebooted while the first is down.
- An update that fails or times out and is carried out afterwards is awaited by nobody: the
  Server's spec is equal already. With an entry newer than the provider's start, the
  check before the next reboot passes (SS:1138-1140).
- With `createAllBeforeDestroy` the wait is for the entry of the condemned server's name
  (SS:675): it ends at once, or after its 120 minutes.
- An `Updated` condition of the request's second is never seen: timeout after 50 minutes.
- A VM in error makes Observe fail, so that neither Update nor Create is called.
- `AreServersReady` stops at the first server that is not ready; an outdated one behind
  it waits.

*StatefulServerSet and VolumeSelector.*
- A set cut off before its selector exists, a selector cut off itself, or a note older
  than a second cut (`volumeselector.go:426`) waits for an operator although
  `removePendingOnReboot` is set (`statefulserverset_types.go:121`).
- The selector's AVAILABLE is never taken back, so Ready may precede the attachment of a
  later replica.
- An edit of the identity ConfigMap alone is never propagated; nothing compares it.
- A repeated Create does not wait for children that exist; an error of Get is taken for
  "up to date" (`statefulserverset.go:189-194`), an error of the state map is overwritten
  (:398-403).
- The goroutines of Update share `err` (`volumeselector.go:208`): an error may be lost or
  reported twice.
- While a replica has two servers, its data volume may be moved to the condemned one.

*IPFailover.*
- `err != nil && instanceIPFailovers != nil` (`ipfailover.go:180`, `lan.go:79`) is never
  true: after a failed read Create writes a list with its own entry only. `OnlyOwnEntry`
  fails so with `Rate = 1` and `MaxErrors = 1`, and it holds with `Rate = 1` and no error.
- A deleted failover stays as long as its LAN lists another (`ipfailover.go:166, 256`).
- An edit during the write of the previous one is never applied (`ipfailover.go:215, 230`).

*The other kinds.* `Restless` and `Lossy` in `MCManagedResource` are exactly the pairs for
which a property fails:
- Restless, an update after every Observe: CubeServer `availabilityZone` (compared, never
  sent); PostgresUser and MongoUser `username`; MongoCluster `mongoDBVersion`, and
  `biConnector` (`reflect.DeepEqual` of two types, `cluster.go:325`).
- Lossy: User `password`, emptied in the spec before Update has succeeded
  (`user.go:200, 249`, `clients/compute/user/user.go:193`), and its Secret; the passwords of
  PostgresUser and MongoUser Secrets, whose hash is saved by Observe before Update; BackupUnit
  `password`, compared with a package variable all units share (`backupunit.go:130`), and
  `email`, an edit of which `CheckDuplicateBackupUnit` refuses when Create is repeated
  (`clients/backup/backupunit/backupunit.go:46-48`); NodePool `serverType`, overwritten by late-initialisation
  (`nodepool.go:234`).
- Wedged: a keyed kind whose POST was answered but whose wait was cut off is refused for
  ever once the operator removed the annotation; an annotated kind whose object is gone,
  and one whose saved state is BUSY, is never posted again (`server.go:174`).
- `icmpCode` is written with `SetIcmpType` (`firewallrule.go:120, 158`).
- A User whose Secret is missing cannot be deleted (`user.go:253`). `secAuthActive` is sent by
  updates only. `CreateUser` returns an empty user when its wait fails.
- Server `bootCdromId` and NIC `lan` are sent but not compared; a value the API does not
  report (Server `placementGroupId`, NIC `vnet`, a rule's `sourceMac` and ports) is not
  noticed (`Unreported`).

*References.*
- `PostgresDatabase.owner` by reference never resolves when the user's name is that of its
  Kubernetes object (`apis/dbaas/postgres/v1alpha1/references.go:30`): `Nameless`.
- An ID once resolved is kept when its target is deleted and made again: `Stale`.
- An IP block that goes first stops the observation and deletion of what reads its addresses
  (`nic.go:155`): `Unreadable`.

## 6. Proofs

All assumptions on constants are the `ASSUME`s of the modules: at least one replica,
known strategies, Boolean flags, natural bounds; an address plan for `IPFailover`;
substitutions with different keys. TLC evaluates them in the runs.

**ServerSet.**
- `Typing` (`ServerSetProofs`): `Spec => [](TypeOK /\ ControlOK)`. `TypeOK` is not
  inductive alone: `NextReplica` raises `cur` only because a reconcile in that
  step is a Create of at most `MaxReplicas` replicas. `ControlOK` says which steps
  belong to which mode; it makes `After[mode][pc]` defined wherever it is used.
- `Invariant` (`ServerSetProofs`): `Spec => []IInv`.
- `ServedForever`: `Spec => ServedStable`, for every number of replicas, every
  number of edits, restarts, errors and rejections.
- `MasterComesLast`: `Spec => MasterLast`, as generally.
- `RollingUpdates` (`ServerSetRollingProofs`): `Spec => ImplementsRolling`, as generally,
  with both strategies and scale-up.
- `NoTwoReplacements`: `Spec => []OneReplacement`, and `CountsAreExact`: when Observe says
  that the set exists, each replica has exactly one server and one NIC.
  `ExistsMeansExact`: `Spec => []ExistsIsExact`, which adds the boot volumes. All under
  `~Scale`: section 5 says what raising `replicas` between a failure and a repair does.
- `EveryInvariant`: `Spec => []FullInv`, which `faults` checks.

*A working replica stays.* The only steps that mark an object DELETING are the strategies'
`Destroy`, a rejection, and Create's removal of a server without ID. The last two
hit objects that are PENDING, on which nothing rests: a pending server has no boot
volume (`PendingUnattached`) and no server boots from a pending volume
(`BootEstablished`). `Destroy` hits version `vv - 1` or `sv - 1`; `UpdateOK` says
that by then the new server, the new volume and the attachment of the one to the
other are in place. Two facts make that inductive although replacements fail half
way: every volume has an established server of its replica (`VolumeHasServer`), and
a server never names a volume newer than all established ones (the second part of
`BootEstablished`), so that the number of a new volume cannot be named already.
`CreateOK` gives the same for Create. The lemmas follow the actions: steps that
only rewrite objects (`ServersKept`, `VolumesKept`), steps that read only
(`ForwardStep`, `LeavingStep`, `CreateLoopStep`), and one lemma for each action
that adds, attaches or destroys.

*The master last.* `StillListed`: what the loop over the volumes has left to visit
includes every volume that has to be re-created and is not the master's. So nothing is
left of them when `UpdateMaster` is enabled, and `UpdateVolume` never takes the master's.

*Rolling.* Only `Attach` and `Destroy` change which images the replicas run (`Quiet`, from
one lemma per action that the live boot relation keeps: `RunningBoots`, `RunningSame`).
`VolumesOK` says what the abstract step needs of both: the loop over the servers, which
fails at a replica with several volumes, has visited all when the loop over the volumes
begins, so that during a replacement every other replica has one volume and runs one
image at most; and the new volume has the image of the worker's spec.

*One replacement.* `PlacesOK` says where the objects are, for any history of failures.
`Placed`: once a set has been created, every replica has a server with the NIC of its
version, both established, and has an established volume or else the first such pair. No
step takes that away, and it tells that a Create which is called for a missing object
cannot add a server or NIC elsewhere. When the totals match, as many servers as replicas,
at least one in each, leave one in each (`Pigeonhole`, `CountsMatch`); an update begins only
then (`SinglesOK`), and replaces one replica. A second surplus of volumes is excluded
by `VolumesOK`. The lemmas come in two groups again: what a step may create or take away
(`ServersFrom`, `ServersLast` and their likes), and one lemma per action.

*How many volumes.* `Placed` does not say that every replica has a volume, and it need not
have one: a Create that is cut off while it discards a rejected volume leaves it behind,
and the next Create passes it by. `CountsOK` follows both ways in which the number of
volumes goes wrong. `Attended`: no rejected volume was left behind, so that every replica
has a volume that stays. `Compact`: no replaced volume was left behind, unless the
replaced server was as well, which the totals show. When the totals agree, the first gives
one volume at least in each replica, the second one at most, and either is enough
(`Pigeonhole`, `PigeonholeOnto`, `VolumesMatch`). It takes a rejection and a cut to break
`Attended`; nothing was ever replaced by then, so that `Compact` holds, and it takes
another cut to break that. `HalfWay` says that a strategy which ends early without a cut,
because a version is missing, leaves nothing of either kind. `CutCounts` is what a cut
does, and there is one lemma per action for the rest.

**Substitution** (`SubstitutionProofs`). The theorems carry the hypothesis
`NoRestart \/ Calm`: either the provider is not restarted, and then anything else may fail
or be lost at any step; or it is restarted any number of times and the rest is as in
`subst` (`Calm`: `Orderly`, no lost server, no failing access to the ConfigMap). Finding 2
is a restart without `Orderly`; section 5 has a counterexample for each other part. For any
number of sets, replicas, versions, substitutions and failures:
- `TypesHold`: `[]TypeOK`; `ReplicasHaveOwnAddresses`: `[]UniqueValues`;
  `StatusTellsTheTruth`: `[]MapAgrees`; `BookIsKept`: `Spec => ImplementsBook`.
- `AddressesAreByIndex`: the address of a volume is a function of the index of its
  replica, the address number i of the prefix (`Address`).
- `AddressesSuffice`: `[]OnlyAddresses`, under `Roomy`: each unique IPv6 prefix has an
  address for every replica. Without it the code does yield `<nil>` (section 5).

*The address is the index.* Nothing in the code says so: it takes the lowest free address
of the prefix, whoever asks. But the loop of Create asks for the replicas in their order,
and a later version inherits. So the invariant says of all there is, the process's memory,
its identities, the ConfigMap and the volumes, that it is the replica's own address
(`ByIndex`), and the other theorems follow from that: two indexes have two addresses
(`AddressesDiffer`), the ConfigMap and the volume hold the same one, and what the abstract
book is read off is the function itself. `NextIsAddress` is the arithmetic: when all lower
replicas have their addresses, and nobody has any but his own, the lowest free one is that
of this replica. The rest of the invariant shows that its premise is there at each
allocation: `Written` says that a first version is made when the keys of every lower replica are
known, and a later one when all keys of its predecessor are.

*Restarts.* Until the provider restarts, the process remembers all there is (`AtHome`).
After that it remembers what the Observe at the head of each reconcile has read back, one
version of a replica (`Away`), and the ConfigMap must have it to be read: `Mapped` says
that it has all keys of every volume, and of the first version of every replica that is
remembered (`Rooted`); `Shape`, that keys are kept in the order of the substitutions, so
that the n-th entry of a version, which is how `getVolumeConfigMap` looks, is that of the
n-th key (`NthOfRun`, `ReadBackFacts`). The lemmas follow the actions: `RebuildStep` for
what Observe and Update read back, `SetStep` for one allocation, `SaveMapStep` for the
ConfigMap, `RestartStep`.

**Failover** (`FailoverProofs`):
- `FailoverTypeOK`: `[]TypeOK`.
- `RolloutHalts`: `HaltOnError`. Every VM of `sick` still shows its error, and the check
  of the run under way has passed none of them.
- `OneVMDown`: `[]OneDown`, for any number of replicas, edits and troubles. The invariant:
  a VM that is rebooting, or whose reboot is pending, and is not overlooked is either the
  one being waited for, with an entry that does not pass the request's test, or its entry
  fails the test of the check before a reboot; VMs the check has passed are not rebooting; and
  there is at most one that is.

**StatefulServerSet** (`StatefulServerSetProofs`):
- `StatefulTypeOK`: `[]TypeOK`. The loops run to the replicas of the copy of the spec
  they began with, so the invariant bounds that copy, the group under way and the number of edits.
- `StorageComesFirst`: `[]StorageFirst`. What a ServerSet was given exists (`Kept`); so does what
  the loop has passed (`FoundSoFar`), and all of it when the loop gets to the ServerSet
  (`FoundAll`); and the worker takes away only what it made itself in this reconcile and
  the ServerSet does not count on yet (`OnlyNew`).
- `VolumesStayHome`: `[]OwnServer`. The goroutines outlive the servers they were
  started for, so the invariant is about the tasks they hold, too: each pairs a volume with a
  server of its own replica, and what is attached is attached to a server there is.
- `ReadyIsAttached`: `[]ReadyMeansAttached`. A ready set's selector was AVAILABLE once
  (`SelectorOK`), and then each replica it had been told of had its volumes attached to a
  server. That lasts while all servers of the replica are of generation 0
  (`Attended`): a replaced server leaves a newer one behind. The selector has been told of
  replica 0, and of all replicas before the first edit (`Watched`, from `NumbersOK`, which
  follows `spec.replicas` into the worker's copy, the selector and the ServerSet). That the
  selector's list misses no volume is `Kept` again: a replica with a server has all its volumes.

**IPFailover** (`IPFailoverProofs`). For any number of resources, any rate, any number of
edits, failing reads and writes, lost statuses, with or without the deletion of the LAN:
- `Invariant`: `Spec => []IPInv`; `AvailableListed`: `[]AvailableIsListed`;
  `OthersAreKept`: `OthersKept`.
- `OneEntry`: `[]OneEntryEach`; `Orphanless`: `[]NoOrphans`.

`Fresh` says what is left of a list between its read and its PATCH: it has the entries of
every other resource that did not write meanwhile and was not harmed, unless a Create was
`blind`. A write keeps that of everybody else's list: the writer becomes `late` for
them, and whom it changes besides is `harmed` (`HistoryEffect`). What the operations make of a
list they have read leaves the others' entries alone (`CreatedFacts`, `UpdatedFacts`,
`WithoutOwnFacts`): Update and Delete find their entry by the address in the status,
which may be stale, but is still one of the resource's own addresses (`Planned`).

`EntryInv` adds, of unharmed resources, what holds until a write is carried out and
answered with an error: a resource has no entry before Create has written it and saved the
external name, nor once its status says DELETING or its finalizer is gone; and both the LAN's
list and the one it is about to write have one entry of it at most (`Entries`). It needs `Steps`,
which says that a DELETING resource is deleted and starts nothing else.

**ManagedResource** (`ManagedResourceProofs`): `Types`, `OneObjectOnly`: `[]OneObject`,
`NoOrphanIsLeft`: `[]NoOrphans`, for any set of kinds whatever their tables say, any number of
objects, edits and faults. The tables enter by the two conditions the properties name:
how a kind sets the external name, and whether it searches for its unique name. What is
assumed of them (`NotesAssumption`) is that Update notes a state of the API or none.
The invariant `Bookkept`: while no answer is lost and no annotation removed,
the live objects of a kind that sets the name from the answer are the one the resource
names, or the one the reconcile under way was told of; while `external-create-pending`
is not set they are the named one; a resource that is gone has none; and for every
traceable kind there is one at most.

**References** (`ReferencesProofs`): `Types`, `OnlyResolvedIsSent`: `[]Based`,
`NoObjectIsLeft`: `[]NothingLeft`, for any kinds and references between them. An ID names
the object ever made that it was the answer for; the invariant relates what a
resource knows of itself and of others to the objects there have been (`Known`), what a
Create about to POST has resolved (`Working`), and bounds how often an object is made: a
second time only after somebody else removed one (`Spent`).

**Model-checked only.** Liveness under fairness (`Converges`, `BecomesAvailable`,
`DeletedTogetherGo`, `Settles`, `Applied`, `Goes`, `Placing`, `Teardown`) is out of the
prover's reach. Every invariant, action property and refinement of the runs is stated by a
theorem.

## 7. Not modelled

- Of the ServerSet: several NICs and firewall rules per replica, servers, volumes or NICs
  deleted behind the controller's back (`Substitution` has lost volumes). Deletion of a
  set needs no code of its own: Observe answers that nothing exists, and Kubernetes
  collects what the set owned.
- Of the managed resources: two edited fields at once (each is compared and sent by
  itself, but `busy` and `early` hide one behind the other), connection details, references
  with a policy other than the default.
- The API clients' HTTP and SDK calls: an API call is one step of the environment, with
  failure, lost answer and missing object. What the clients put into a request, compare,
  wait for and search is in the tables.
- The provider binary, its flags and wiring, configuration, and the generated accessors
  and deep copies: no state of their own, nothing that several steps could get wrong.
  The documentation generator and the examples likewise.

What would come next is in the first item: several NICs per replica, and objects of a
ServerSet that are deleted behind its back.
