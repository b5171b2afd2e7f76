# A TLA+ model of the OpenStack baremetal operator

The operator turns a list of host names into provisioned machines. A user creates
an `OpenStackBaremetalSet`; its controller picks one Metal3 `BareMetalHost` (BMH)
for each host name, writes cloud-init secrets and the image to boot from, and
waits for Metal3. The image comes from an `OpenStackProvisionServer`, a web server
that a second controller of the operator runs.

This directory models both controllers with their environment, the search for
machines, the allocation of ports to provision servers, and what the operator promises
to the owners of machines. TLC checks the models on small instances; TLAPS
proves their main safety properties for all instances.

| file | what it is |
|---|---|
| `BaremetalSet.tla` | the set controller, BMH provisioning, admission, caches, faults, properties |
| `MCBaremetalSet.tla`, `MC*.cfg` | the instances TLC checks |
| `BaremetalSetProofs.tla` | type correctness |
| `BaremetalSetFitProofs.tla` | BMHs are taken only for hosts they fit, and their secrets are there |
| `HostPool.tla` | the abstract pool of machines that `BaremetalSet` implements |
| `BaremetalSetPoolProofs.tla` | with fresh reads no set touches another set's BMH, images stay, and `HostPool` is implemented |
| `BaremetalSetStepProofs.tla` | lemmas for the next module: the steps of users, Metal3 and reconciles that do not write a BMH |
| `BaremetalSetStatusProofs.tla` | with fresh reads and no failed requests status, labels and consumerRefs agree, Ready means provisioned, sets release their own BMHs only and leave nothing behind |
| `HostSelection.tla`, `MCHostSelection.tla` | filters, hardware matching and the backtracking search |
| `HostSelectionProofs.tla` | the search is sound and complete |
| `ProvisionServer.tla`, `MCProvisionServer.tla` | the provision server controller, its Deployment, pods, checksum job and agents |
| `ProvisionServerProofs.tla` | types, nothing for a server that is gone, checksums are reported first |
| `PortAllocation.tla`, `MCPortAllocation.tla` | ports of provision servers: webhooks, set controller, cache |
| `PortAllocationProofs.tla` | ports clash only by races, and are kept |
| `PROJECT.json` | components, runs, variants, map to source lines, findings, hazards, theorems |

## Inventory

| component | state | operations | modelled |
|---|---|---|---|
| set controller (`internal/controller/openstackbaremetalset_controller.go`) | finalizer, conditions, observedGeneration and `status.baremetalHosts` of the set; local instance | `Reconcile` with its deferred patch, `reconcileNormal`, `reconcileDelete`, `deleteBmh`, `ensureBaremetalHosts`, watches | yes, apart from the provision server it manages |
| BMH provisioning (`internal/openstackbaremetalset/baremetalhost.go`) | labels, consumerRef, image of BMHs; cloud-init secrets | `BaremetalHostProvision`, `BaremetalHostDeprovision` | yes |
| host selection (`api/v1beta1/openstackbaremetalset.go`) | none | `VerifyAndSyncBaremetalStatusBmhRefs`, `VerifyBaremetalSetScaleUp`, backtracking search, hardware match | yes |
| set admission (`api/v1beta1/openstackbaremetalset_webhook.go`) | none | `ValidateCreate`, `ValidateUpdate` | host count and capacity checks |
| provision server controller | image URL, checksum URL, conditions, hash of the server's status | `Reconcile` with its deferred patch, `reconcileNormal`, `reconcileDelete`, Deployment, checksum Job | yes, apart from service account and roles |
| provision server ports and admission | `spec.port` | `AssignProvisionServerPort`, `Default`, `validateCr`, `provisionServerCreateOrUpdate` | yes, as far as ports go |
| agents (`containers/agent`) | provisioning IP and checksum file name in the server's status | discovery loop, checksum job | yes |
| manager (`cmd/main.go`) | none | starts the controllers, one worker each | a restart of it |
| Metal3, API server, informers | provisioning state; stored objects; caches; work queue | external | from how the code uses them |

What interacts: the set controller writes BMHs, which Metal3 acts on and whose
status changes wake the controller; sets compete for the same BMHs; the webhooks
and the controller run the same selection at different times over the same caches. The
provision server's status has four writers: its controller, by patches of single
fields, the two agents, by updates that fail when the object changed since they read it,
and users, who change its spec meanwhile. Sets copy two of its fields into BMHs.

What is hard: every read comes from an informer cache; BMHs are patched without
an optimistic lock; the bmhRef of a host is kept only in the set's status, which
is written once, at the end of a reconcile; a release consists of an update of
the BMH, two deletions of secrets and that status patch, any of which may fail.
A port is chosen and checked in the webhooks and stored later. A provision server
waits for pods and jobs that nobody watches.

What makes it correct: a BMH belongs to at most one host of one set, and fits it;
status, labels and consumerRefs agree when no reconcile is under way; Ready is
true; a provisioned machine is not re-imaged; a deleted set leaves nothing
behind; a set whose inputs are in place becomes Ready; no two provision servers,
which run on host networks, listen on the same port unless requests race; and what a
provision server that has settled advertises is really served.

## The model of sets

`bmh`, `osbms` and `secrets` are the objects on the API server. `bmhCache` and
`osbmsCache` are the informer caches; `SyncBmh` and `SyncSet` deliver one object
each and enqueue what the watches and `statusChangePredicate` enqueue. A reconcile
is a sequence of steps of the single worker, one for each write and the reads
that lead to it. Its locals are `base` (the instance as read), `inst` (the copy it
changes) and `worker`:

| `worker.pc` | next step | code |
|---|---|---|
| `idle` | `ReconcileSkips`, `ReconcileInitialises`, `ReconcileDelete`, `ReconcileWaits`, `ReconcileNormal` | `Reconcile` and `reconcileNormal` up to the first write |
| `release` | `DeprovisionUpdate`, `DeprovisionNotFound`, `DeprovisionConflict`, then `RemoveFinalizer` or `EnsureBaremetalHosts` | loops of `deleteBmh` and `baremetalHostCleanup`; host selection |
| `secrets` | `DeprovisionSecrets` | end of `BaremetalHostDeprovision` |
| `provision` | `ProvisionSecrets`, or `ReconcileEnds` | loop of `ensureBaremetalHosts` |
| `bmh` | `ProvisionBmh` | `CreateOrPatch` of the BMH |
| `patch` | `PatchInstance` | deferred function of `Reconcile` |

Go maps are walked in any order, so a loop takes an arbitrary remaining element.
`CreateOrPatch` computes a patch between the cached BMH and its mutated copy and
applies it to the stored one, field by field (`Patch`). `PatchInstance` merges the
status entries one by one; the CRD requires fields of an entry that a partial
patch does not send, so a patch of an entry that the server lacks is rejected.

Faults are enabled by the constant `Faults`: `stale` lets caches lag behind the
server, `api` makes a request fail before or after its effect, `crash` is a panic
in `Reconcile` or a restart of the manager, `bmhdel` deletes a BMH object.
Without `stale` the caches catch up before any other step (`Fresh`).

Abstractions:

- `Fits[s][h]` stands for label selectors and hardware requests. It does not
  change; updates of the selectors of a host or set are left out.
- `source[s]` stands for the SSH and password secrets and the provision server or
  PassThrough URL: an image, or nothing while one of them is missing.
- `Custom` hosts bring both secrets of their own; a host with one of the two is left out.
- Conditions are absent, Ready, or not Ready. Other details of the list may or may
  not make a patch send it, so `PatchInstance` allows both.
- Names and namespaces of secrets are valid, and a deleted set or BMH object is not
  created again.
- The cached Get of a BMH and its patch are one step: that the BMH changes between the two
  is a stale read, and covered by the fault `stale` only. The two requests of
  `PatchInstance`, for metadata and for status, are one step too: a failure between them is
  left out.

`HostPool` is the same system as its users should see it: a holder, an image and a
provisioning state for each BMH, and the steps claim, change of image, release and
progress of Metal3. The refinement mapping (`Pool` in `BaremetalSet`) takes consumerRef,
image and state of the stored BMHs; a deleted BMH object keeps its last values.

## The model of the search

A behaviour of `HostSelection` is one call of `VerifyBaremetalSetScaleUp`. Its filters are
operators; the recursion of `backtrack` is unrolled, so that `depth` is the depth of the
recursion, `pos[k]` the position of the loop at depth `k`, and `SkipBmh`, `AssignBmh` and
`Backtrack` are what an iteration may do. `Orders` are all the orders in which
`sort.Slice`, which is not stable and starts from a random order, may leave the hosts.
`Satisfies` is what the CRD says of a request, and is written apart from `HardwareMatch`.
Sizes are in MiB; the code compares GiB as floating-point numbers, which represent them
exactly up to sizes no disk has. The five conditions that do not depend on the request
are one flag, `free`.

## The model of a provision server

`server` is the object in the API server, `config` the config map, `dep` the
Deployment, `pods[n]` its pod on node `n` with the address agent in it, `job` the
checksum Job with its agent. `clean` has the agents whose copy of the server is still
the current version, which is what the optimistic lock of `UpdateStatus` compares. `wake` is
the work queue: `Delivered` sets it when one of the objects that `SetupWithManager` lists has
changed, or a reconcile asked for a requeue or failed.

| `worker.pc` | next step | code |
|---|---|---|
| `idle` | `ReconcileSkips`, `ReconcileInitialises`, `ReconcileDelete`, `ReconcileNormal` | `Reconcile` |
| `config` | `GenerateServiceConfigMaps`, `ConfigMapsFail` | `generateServiceConfigMaps`, `createHashOfInputHashes` |
| `deploy` | `Deploy` | `CreateOrPatch` of the Deployment, the wait for it and for the address |
| `url` | `LocalImageURL`, `NoPodPanics` | `getLocalImageURL` |
| `job` | `JobRecorded`, `JobStarted`, `JobAwaited`, `JobFinished` | `DoJob` |
| `sum` | `ChecksumURL`, `NoPodPanics` | `getLocalImageURL`, the conditions |
| `patch` | `PatchInstance`, `PatchNotFound` | deferred function of `Reconcile` |

Faults: `api` makes a request fail, `crash` restarts the manager, `evict` ends a pod,
`address` takes the address of a node's interface away or gives it back, `pause` sets or
clears the annotation, `late` lets an agent write after its pod began to end.

Abstractions and assumptions:

- An image stands for `osContainerImageUrl` with the file `osImage` in it, and for the job
  that the two determine; `Checksums` says which checksum files it has.
- Reads are fresh. With caches as in `BaremetalSet` the instances are too large for TLC.
- The interface that Metal3's Provisioning object names does not change (`Managed`).
- lib-common's `DoJob` replaces a job whose hash differs, waits, and deletes a finished job
  unless it is to be preserved; deleting a job ends its agent.
- A Deployment counts a pod that ends out of `readyReplicas` before its successor is
  created. A pod runs with the config map as it is at its start, and its probes restart it when it
  does not listen on the port they ask.
- Objects of a server that is gone stay: garbage collection is left out.

## The model of ports

`port[p]` is the stored port of server `p`, `cache[p]` the one in the manager's cache,
which webhooks and set controller share, `held` has the servers with a finalizer, and
`req[p]` is the request about `p` that is on its way. Requests come from users, with a port
(`UserAsks`) or without one (`Default`, the defaulting webhook), from the set controller
(`SetSubmits`, `provisionServerCreateOrUpdate`) and from the server's own controller, which adds
and removes the finalizer (`FinalizerSubmits`): both are updates, which pass through the
webhooks. `Refuse` and `Admit` are the validating webhook. `Store` is the write to the API
server, some time later, and `StoreFails` its AlreadyExists and NotFound. Requests about
different servers overlap in every way, and the cache lags if the constant `Stale` says so.

Requests about one server are serialised, which stands for the conflicts of its
resourceVersion. In `SetSubmits` the Get of `CreateOrPatch` and the list of ports read the same
cache in one step. Fields other than the port are left out, and so is the conflict of a
request with the mark for deletion, after which it is made again.

## What TLC checks

Each passing run of `BaremetalSet` has two hosts `x` and `y`, of which `y` does not fit the BMH `n1`.
`MaxGen = 2` admits one change of each spec, enough to scale up or down or to replace
a host once. These runs end when users and faults have used up their bounds, so deadlock
is not checked in them; the liveness runs check instead that nothing waits for ever.

| run | instance | shows |
|---|---|---|
| `sets` | 2 sets, 2 BMHs, one set scales between one and two hosts, one BMH object is deleted | `StatusMatchesHosts`, `OneToOne`, `ReadyMeansProvisioned`, `ReleasesOwnHosts` |
| `interrupted` | 2 sets, 1 BMH, 2 images, inputs of one set come and go, two faults out of `crash`, `api`, `bmhdel` | `OwnershipInv`, `TakenHostsUntouched`, `ProvisionedImageKept`, `ImplementsPool` |
| `all_faults` | 1 set, 3 BMHs (one foreign), stale reads and one other fault, a host with a bad address | `TypeOK`, `OnlyMatchingHosts`, `SecretsInPlace` |
| `progress` | 1 set that replaces a host, is paused and whose inputs come and go, fair scheduling | `GoneSetsHoldNothing`, `EventuallyReady`, `DeletionCompletes` |
| `selection` | 3 hosts and 3 BMHs with any of four overlapping label maps each, 2 and 2 with different values of a label; 1 or 2 hosts, 2 BMHs with any of 19 hardware details or none and 11 requests | `SelectionSound`, `SelectionComplete`, `SearchInv`, `SelectionEnds` |
| `server` | 1 server, 2 nodes, 3 images (one without checksum), 2 ports, with or without interface, one change of spec or fault, deletion at any moment, fair scheduling | `TypeOK`, `RecordedAfterReported`, `NothingAfterGone`, `EventuallyServes`, `DeletionCompletes` |
| `ports` | 2 servers, one of them a set's, 2 ports to assign and a third that users may choose, overlapping requests, a cache that lags, fair scheduling | `TypeOK`, `ClashesAreRaces`, `PortKept`, `OnlyClashesHoldUp` |

Two sets are enough for every conflict over a BMH: the code compares one set with
one BMH at a time. Two hosts allow both orders of a loop and a loop that stops
half-way. Two servers are enough for every clash of ports, which is one of two servers, and
a server on the port beyond the range meets the error that no port is left. Three hosts that
want three BMHs make the search go back over more than one level, once their candidates
overlap without containing each other (sorted nested ones never need it), and two disks are
enough to meet a request for size and kind by different ones. A server meets only one
event in `server` (`MaxEvents`), but that at every step of its start and of the roll-out that
follows; two nodes let a pod and its successor run in different places. With two events,
an interface and all faults but `pause` and `late`, the safety properties and `QuietServes`
were checked once (2.2 million states). Sets and hosts
are not symmetric (`MCFits`, `MCScaling`), so no symmetry is used. For each property a
variant of one definition, a mistake one could make in the code, makes TLC report a
violation.

Fairness: informers deliver what changed (weak fairness). The other steps wait for
`Fresh` and lose their turn while a delivery is pending, so strong fairness says
that they happen: the work queue hands out every set in it, the worker finishes what
it began (a goroutine that is scheduled), and Metal3 goes on with each BMH. In
`PortAllocation` the cache follows and the API server finishes requests (weak fairness), and
the controller, which is requeued after an error, tries again to add or remove a finalizer,
however often users write to the same server (strong fairness). The search of `HostSelection`
is sequential code that runs on. In `ProvisionServer` weak fairness is enough: the worker takes
a key from the queue and finishes what it began, the Deployment controller, the nodes and
the agents go on. An agent may lose every race with the controller's patches only as long as
the controller goes on patching, and it does not when nothing changes. Nothing is
assumed of users, inputs or faults.

`EventuallyServes` has two conditions. From some time on the server must be live and not
paused, its image must have a checksum file, and its nodes must have their addresses. And a
server without an interface must not have two pods listed at once: `terminated_pod` shows
what happens then.

### Disagreements between code and comments

Five runs end in a violation; each checks what a comment says.

| run | needs | what happens |
|---|---|---|
| `cleanup_stops` | a deleted BMH | `reconcileDelete` ignores NotFound of the whole cleanup, not of one BMH: the other BMHs stay claimed |
| `release_retried` | a failed request | a retried release deprovisions a BMH that another set has taken meanwhile |
| `panic_loses_status` | a panic | a BMH patched before the panic is unknown to the status and counts as taken |
| `mixed_urls` | a new image | until its checksum job is done the status has the new image's URL with the old image's checksum URL, and a set may give both to a BMH |
| `terminated_pod` | an eviction | the URL is made from a pod that is ending on another node, and stays |

Other limits are known. They can be reproduced by the change that is named:

- Secrets are created under the host's name and deleted under the BMH's, so that those of
  a host that was scaled down stay (`baremetalhost.go:323`): add `NoLeakedSecrets` to
  `MCSets.cfg`.
- With a stale BMH cache a second set overwrites the consumerRef of the first, because
  the patch has no optimistic lock (`baremetalhost.go:198`): `Faults = {"stale"}` in
  `MCInterrupted.cfg`, property `TakenHostsUntouched`.
- Two requests that both pass the webhooks before either is stored give two servers
  the same port (`openstackprovisionserver_webhook.go:81`): invariant `UniquePorts` with
  `MCPorts.cfg`, also if `Stale = FALSE`.
- Two servers that share a port in this way block each other: the webhook refuses every
  update of either that keeps the port, so that neither gets a finalizer, nor loses it when it
  is deleted, until a user moves one of them: property `DeletionCompletes` of `PortAllocation` with
  `MCPorts.cfg`.
- A lost answer to the patch of a BMH has the effect of the panic in `panic_loses_status`:
  `Faults = {"api"}` in `MCPanic.cfg`.
- An agent of an evicted pod that writes late leaves its address in the status:
  `Faults = {"evict", "late"}`, `MaxEvents = 2` and a server with an interface, property `QuietServes`.
- A server whose interface is removed from the spec keeps the address it had reported,
  and a URL on it; nothing clears `provisionIp`.
- An image that is changed and changed back while the checksum job of the one in between
  runs: `DoJob` finds the recorded hash and does nothing, and that job may still report.

A stale provisioning state also lets a machine that has just been provisioned get
another image. So the properties of sets hold under these faults and not beyond:

| property | none | `bmhdel` | `api` | `crash` | `stale` |
|---|---|---|---|---|---|
| `OnlyMatchingHosts`, `SecretsInPlace` | holds | holds | holds | holds | holds |
| `TakenHostsUntouched`, `ProvisionedImageKept` | holds | holds | holds | holds | violated |
| `StatusMatchesHosts`, `OneToOne`, `ReadyMeansProvisioned`, `ReleasesOwnHosts` | holds | holds | violated | violated | violated |
| `GoneSetsHoldNothing` | holds | violated | violated | violated | violated |
| `EventuallyReady` | holds | not checked | violated | violated | not checked |

## What is proved

The theorems hold for any sets, hosts and BMHs, finite or not, any `Fits`, and any
bounds. They assume `ConstantsAssumption` and `PortsAssumption`, which TLC evaluates
in the runs; those about the search and the provision server assume
`SelectionAssumption` and `ServerAssumption`.

- `TypeCorrect`: `Spec => []TypeOK`. `TypeOK` is not inductive: the worker indexes
  `osbms` and `plan` by its current set and host. `WorkerOK` adds that these are
  known at the program counters that use them.
- `OnlyMatching`: `Spec => []OnlyMatchingHosts`, under all faults. A BMH that fits is
  chosen from a cache, held in the plan, written to the BMH and to the instance and
  merged into the stored status. `FitInv` states the fit for every one of these
  copies. The label written to a BMH is the host for which the plan chose it, and the
  merge of two statuses that fit is one that fits.
- `SecretsStayInPlace`: `Spec => []SecretsInPlace`, under all faults, assuming
  `BMHs \cap Hosts = {}`. `SecretsInv` adds that a reconcile which is about to patch a BMH has
  saved the secrets of the host. The assumption is needed: a release deletes secrets
  under the BMH's name (`baremetalhost.go:323`), and if another host of the set has that name
  its secrets are missing until the same reconcile renders them again. TLC shows
  this on an instance with hosts `x` and `n2` that is scaled down to `n2`.
- `Ownership`, `TakenUntouched`, `ImageKept`: assuming `"stale" \notin Faults`, whatever
  requests fail and whenever the manager panics or restarts. `OwnershipInv` says that
  owner labels and consumerRef name the same set, that a BMH without consumer has no
  image, and that the plan has only BMHs that are free or the set's own. The last
  part relates the plan to BMHs other actors change; it is stable because only the one
  worker sets a consumerRef. `BmhChanges` lists all that one step can do to a BMH; each
  theorem follows from that list.
- `PortTypeCorrect`: `Spec => []TypeOK`, whatever requests overlap and however old the cache
  is. That the search for a port ends in a port needs a least element of a set of numbers
  (`LeastNat`).
- `PortsClashByRaces`: `Spec => ClashesAreRaces`, without further assumptions. `UniquePorts` is false,
  so what is proved is that it holds up to the first `Race`. `ApartInv` adds that a validated
  request has a port that no other server has. `Admit` establishes it, for without a race the
  cache has the port's owner; a `Store` for another server keeps it, for without a race that
  one has another port.
- `PortsKept`: `Spec => PortKept`, without further assumptions. `KeepInv` says that a request
  about a server that exists carries its port unless the user asked for one, or left it out
  while the cache was stale; this rests on `AssignKeeps`, about `AssignProvisionServerPort`.
- `PoolImplemented`: assuming `"stale" \notin Faults`, `Spec => ImplementsPool`. A claim
  in `HostPool` needs a BMH that is clean when it is claimed, while the controller decided so
  steps before: `PlanInv` says that a planned BMH without consumer is still available and
  fits. With it, each entry of `BmhChanges` is a step of the pool or a stutter.
- `SelectionIsSound`, `SelectionIsComplete`: for all inputs. `SearchInv` is the invariant of the
  search: the marks are those of the partial assignment, and a solution that agrees with the
  calls above depth `k` lies at or after the position of the loop at depth `k`. When the loop
  at depth 1 is at its end there is none left. `SearchIsExact` states `SearchInv` itself.
- `ServerTypeCorrect`: `Spec => []TypeOK` under all faults; `Typed` adds that a reconcile
  has read a server and that a job has an image.
- `NothingForTheGone`: `Spec => NothingAfterGone`. `Held` says that while `Reconcile` is at a
  step that writes, the server has its finalizer and is not gone: only a reconcile removes it,
  and there is one worker.
- `RecordedIsReported`: `Spec => []RecordedAfterReported`. `Reported` relates the job, the
  worker's copy and the stored status: an agent that is done has reported, unless the server is gone.

The theorems of `BaremetalSetStatusProofs` assume `Faults \subseteq {"bmhdel"}`: fresh reads and no
failed requests, panics or restarts, while BMH objects may be deleted at any moment. Less
would not do: with one failed request, one crash, or stale reads in `MCSets.cfg` TLC finds
each of the properties violated (the table above), for the release of a BMH and the status that
records it are written apart. They rest on one inductive invariant, `StatusInv`
(`StatusInvariant`), which TLC found to hold with the constants of `sets` and `progress`
before it was proved. What makes it necessary is that a reconcile works on a copy of the
status that it stores at the end, while users edit the set and BMHs change:

- `Recorded(s, list, ref, st)` says that entries and BMHs agree. It holds for the stored
  status of every set that is not being reconciled. For the one that is, it holds for
  the copy (`Entries`), without the entry of a BMH that has just been released.
- `LinkInv` says what the stored object, the object as read and the copy have in
  common: nobody else writes status or finalizer, the generation of a spec never goes back, and
  equal generations have equal hosts. So the merge patch stores the copy as it is (`PatchedIsInst`).
- `KeptInv` covers the stored status in the meantime: its BMHs are the set's own or
  released, and entries of hosts that stay are as before. It is what keeps `OneToOne` and
  `ReadyMeansProvisioned` true in the middle of a reconcile.
- `ReleaseInv` and `ProvideInv` are the loop invariants of `deleteBmh` and
  `ensureBaremetalHosts`: which hosts are still to be released or provisioned, and that the BMHs
  planned for new hosts are distinct and nobody's.

There is one lemma for each action, in `BaremetalSetStepProofs` for those that do not
write a BMH. From the invariant follow:

- `StatusAgrees`: `Spec => []StatusMatchesHosts`.
- `HostsAndBmhsOneToOne`: `Spec => []OneToOne`.
- `ReadyIsProvisioned`: `Spec => []ReadyMeansProvisioned`. If a reconcile of the set is under way,
  `LinkInv` gives that it has read the same hosts, `KeptInv` that their BMHs are untouched.
- `OwnHostsReleased`: `Spec => ReleasesOwnHosts`. `ReleaseOwn` shows that the bmhRef which
  `BaremetalHostDeprovision` follows is a BMH of the set, by `ReleaseInv` and `Recorded`.
- `GoneHoldNothing`: `Spec => []GoneSetsHoldNothing`, assuming `Faults = {}`. `GoneInv` adds that no
  BMH is missing and that a set without finalizer has no entries. `NeverNotFound` is the
  point where deleted BMHs break it.

Every safety property of a passing run is thus stated by a theorem. Liveness
(`EventuallyReady`, `DeletionCompletes`, `SelectionEnds`, `EventuallyServes`, `OnlyClashesHoldUp`) stays with TLC,
fairness being out of the reach of TLAPS, and so do the properties of the runs that
end in a violation.

## Plan

1. The composition of `ProvisionServer` and `BaremetalSet` in place of `source`. `source`
   allows every sequence of images and gaps that a server can produce, and the pair of
   URLs is the subject of `mixed_urls`.
2. Informer caches in `ProvisionServer`.
3. What a retry repairs after a failed request or a restart, stated as an invariant that
   `StatusInv` refines.

## Not modelled

Service account, role and role binding of a provision server (lib-common), resources and
node selectors, rendering of templates beyond whether it succeeds, start-up of the agents, the wiring of the manager, generated code, and
`VerifyBaremetalSetScaleDown`, which is not called. Metal3 is reduced to the states the
operator tells apart; inspection, errors and externally provisioned hosts are left out.
