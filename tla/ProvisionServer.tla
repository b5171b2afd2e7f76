------------------------- MODULE ProvisionServer -------------------------
(***************************************************************************)
(* One OpenStackProvisionServer: its controller, the Apache Deployment and *)
(* the checksum Job the controller keeps, the two agents that report into  *)
(* the server's status, and the users and the cluster around them.         *)
(*                                                                         *)
(* A node stands for its own host address and for the address of its       *)
(* provisioning interface; a configuration (config map, input hash) is     *)
(* named by the port it was rendered from; a checksum file by its image    *)
(* and type; a URL is its host, port and file.                             *)
(***************************************************************************)
EXTENDS Integers, FiniteSets, FiniteSetsExt

CONSTANTS
  Images, Ports, Nodes,
  Nil,          \* an empty string, an absent object
  NoConfig,     \* the input hash when no config map could be rendered
  Checksums,    \* [Images -> the types of the checksum files in the image]
  SpecChanges,  \* [specs -> the specs a user may change it to]
  Managed,      \* the Metal3 Provisioning object names an interface
  Faults,       \* what may go wrong
  MaxEvents     \* bound on spec changes, pauses and faults in a behaviour

VARIABLES
  server,       \* the OpenStackProvisionServer in the API server
  config,       \* the port in the rendered httpd config map
  dep,          \* the Deployment
  pods,         \* the Deployment's pod on each node
  addr,         \* the nodes whose provisioning interface has its address
  job,          \* the checksum-discovery Job and its agent
  clean,        \* the agents whose copy of the server is the current version
  wake,         \* the server's key is in the work queue
  worker,       \* where Reconcile is
  base, inst,   \* the copy Reconcile read, and the one it works on
  events        \* spec changes, pauses and faults so far

vars == <<server, config, dep, pods, addr, job, clean, wake, worker, base, inst,
          events>>
world == <<config, dep, pods, addr, job, events>>

Specs == DOMAIN SpecChanges
ChecksumTypes == {"md5", "sha256", "sha512"}
OrNil(S) == S \cup {Nil}
Hashes == Ports \cup {NoConfig, Nil}
Files == OrNil(Images \cup (Images \X ChecksumTypes))
URLs == OrNil([host : OrNil(Nodes), port : Ports, file : Files])
Mains == [hash : Hashes, port : Ports, intf : BOOLEAN]

Servers ==
  [phase : {"live", "deleting", "gone"}, paused : BOOLEAN, spec : Specs,
   final : BOOLEAN, cond : {"none", "pending", "ready"}, hash : Hashes,
   jobHash : OrNil(Images), ip : OrNil(Nodes), iperr : BOOLEAN,
   sum : OrNil(Images \X ChecksumTypes), url : URLs, sumUrl : URLs]

Deployments ==
  [image : OrNil(Images), main : OrNil(Mains), seen : BOOLEAN, ready : BOOLEAN]

PodStates ==
  [st : {"none", "starting", "running", "ending"}, image : OrNil(Images),
   main : OrNil(Mains), conf : OrNil(Ports), rep : BOOLEAN,
   cur : {"none", "ip", "error"}]

Jobs == [image : OrNil(Images),
         st : {"none", "running", "updating", "reported", "done", "failed"}]

Pcs == {"idle", "config", "deploy", "url", "job", "sum", "patch"}

ASSUME ServerAssumption ==
  /\ Checksums \in [Images -> SUBSET ChecksumTypes]
  /\ SpecChanges \in [Specs -> SUBSET Specs]
  /\ Specs \subseteq [image : Images, port : Ports, intf : BOOLEAN]
  /\ Managed \in BOOLEAN
  /\ Faults \subseteq
       {"crash", "api", "evict", "late", "address", "pause"}
  /\ MaxEvents \in Nat
  /\ Nil \notin Images \cup Ports \cup Nodes \cup (Images \X ChecksumTypes)
  /\ NoConfig # Nil /\ NoConfig \notin Ports

NewServer(spec) ==
  [phase |-> "live", paused |-> FALSE, spec |-> spec, final |-> FALSE,
   cond |-> "none", hash |-> Nil, jobHash |-> Nil, ip |-> Nil, iperr |-> FALSE,
   sum |-> Nil, url |-> Nil, sumUrl |-> Nil]

NoDeployment == [image |-> Nil, main |-> Nil, seen |-> FALSE, ready |-> FALSE]

NoPod == [st |-> "none", image |-> Nil, main |-> Nil, conf |-> Nil,
          rep |-> FALSE, cur |-> "none"]

NoJob == [image |-> Nil, st |-> "none"]

Idle == [pc |-> "idle", again |-> FALSE]

(* A server has just been created; nothing of it exists yet.               *)
Init ==
  /\ \E spec \in Specs : server = NewServer(spec)
  /\ base = Nil /\ inst = Nil
  /\ config = Nil
  /\ dep = NoDeployment
  /\ pods = [n \in Nodes |-> NoPod]
  /\ addr = Nodes
  /\ job = NoJob
  /\ clean = {}
  /\ wake = TRUE
  /\ worker = Idle
  /\ events = 0

-----------------------------------------------------------------------------
(* The API server and the manager's watches.                               *)

(* A change of the server, of its Deployment or of its config map queues   *)
(* the server's key; a new version of the server outdates the copies the   *)
(* agents have read.                                                       *)
Delivered(requeue) ==
  /\ wake' = (wake \/ requeue \/ <<server, dep, config>>' # <<server, dep, config>>)
  /\ clean' = IF server' = server THEN clean ELSE {}

Event == events < MaxEvents /\ events' = events + 1
Fault(f) == f \in Faults /\ Event

-----------------------------------------------------------------------------
(* Reconcile.                                                              *)

Goto(pc) == worker' = [worker EXCEPT !.pc = pc]
Leave(again) == worker' = [pc |-> "patch", again |-> again]
Return == worker' = Idle /\ base' = Nil /\ inst' = Nil

(* What JSON-patching the difference between `before` and `after` makes of *)
(* a field whose current value is `now`.                                   *)
Patch(before, after, now) == IF after = before THEN now ELSE after

Take ==
  /\ worker.pc = "idle" /\ wake
  /\ wake' = FALSE
  /\ UNCHANGED <<server, clean, world>>

(* Variant: a paused server is skipped even when it is being deleted.      *)
PausedAlways(c) == c.paused

Paused(c) == c.phase = "live" /\ c.paused

(* The server is gone, or paused and not being deleted.                    *)
ReconcileSkips ==
  /\ Take
  /\ server.phase = "gone" \/ Paused(server)
  /\ UNCHANGED <<worker, base, inst>>

(* Variant: a new server is reconciled before its finalizer is saved.      *)
InitialisesInPassing ==
  /\ Take
  /\ server.phase = "live" /\ ~server.paused
  /\ server.cond = "none" \/ ~server.final
  /\ base' = server
  /\ inst' = [server EXCEPT !.cond = "pending", !.final = TRUE]
  /\ worker' = [pc |-> "config", again |-> FALSE]

(* A new server, or one without the finalizer: the conditions and the      *)
(* finalizer are saved first.                                              *)
ReconcileInitialises ==
  /\ Take
  /\ server.phase = "live" /\ ~server.paused
  /\ server.cond = "none" \/ ~server.final
  /\ base' = server
  /\ inst' = [server EXCEPT !.cond = "pending", !.final = TRUE]
  /\ Leave(FALSE)

ReconcileDelete ==
  /\ Take
  /\ server.phase = "deleting"
  /\ base' = server
  /\ inst' = [server EXCEPT !.cond = "pending", !.final = server.cond = "none" /\ @]
  /\ Leave(FALSE)

ReconcileNormal ==
  /\ Take
  /\ server.phase = "live" /\ ~server.paused
  /\ server.cond # "none" /\ server.final
  /\ base' = server
  /\ inst' = [server EXCEPT !.cond = "pending"]
  /\ worker' = [pc |-> "config", again |-> FALSE]

(* createHashOfInputHashes: a changed hash is saved and the rest is left   *)
(* to the reconcile that the saved status triggers.                        *)
InputHash(h) ==
  /\ inst' = [inst EXCEPT !.hash = h]
  /\ IF h = inst.hash THEN Goto("deploy") ELSE Leave(FALSE)

GenerateServiceConfigMaps ==
  /\ worker.pc = "config"
  /\ config' = inst.spec.port
  /\ InputHash(inst.spec.port)
  /\ UNCHANGED <<server, dep, pods, addr, job, base, events>>
  /\ Delivered(FALSE)

(* The error of EnsureConfigMaps is dropped: the hash is then the one of   *)
(* no configuration.                                                       *)
ConfigMapsFail ==
  /\ worker.pc = "config" /\ Fault("api")
  /\ InputHash(NoConfig)
  /\ UNCHANGED <<server, config, dep, pods, addr, job, clean, wake, base>>

ProvInterface(spec) == spec.intf \/ Managed

MainOf(c) ==
  [hash |-> c.hash, port |-> c.spec.port, intf |-> ProvInterface(c.spec)]

(* The Deployment after CreateOrPatch.                                     *)
Patched ==
  IF dep.image = inst.spec.image /\ dep.main = MainOf(inst) THEN dep
  ELSE [dep EXCEPT !.image = inst.spec.image, !.main = MainOf(inst), !.seen = FALSE]

IsReady(d) == d.seen /\ d.ready

(* A created Deployment; one that is rolling out; an interface whose       *)
(* address the agent has not reported or failed to find: try again.        *)
DeployDone ==
  /\ IsReady(Patched)
  /\ ProvInterface(inst.spec) => ~inst.iperr /\ inst.ip # Nil

Deploy ==
  /\ worker.pc = "deploy"
  /\ inst' = [inst EXCEPT !.url = Nil]
  /\ dep' = Patched
  /\ IF DeployDone THEN Goto("url") ELSE Leave(TRUE)
  /\ UNCHANGED <<server, config, pods, addr, job, base, events>>
  /\ Delivered(FALSE)

(* getLocalImageURL: the reported address, else the host of whichever pod  *)
(* is listed first, which a pod that is starting may not have yet.         *)
HostIPs(n) == IF pods[n].st = "starting" THEN {n, Nil} ELSE {n}

Listed == {n \in Nodes : pods[n].st # "none"}

LocalImageURLs(file) ==
  {[host |-> h, port |-> inst.spec.port, file |-> file] :
     h \in IF inst.ip # Nil THEN {inst.ip} ELSE UNION {HostIPs(n) : n \in Listed}}

LocalImageURL ==
  /\ worker.pc = "url"
  /\ \E u \in LocalImageURLs(inst.spec.image) : inst' = [inst EXCEPT !.url = u]
  /\ Goto("job")
  /\ UNCHANGED <<server, clean, wake, base, world>>

(* No pod is listed: indexing the list panics, Reconcile returns an error  *)
(* and nothing is saved.                                                   *)
NoPodPanics ==
  /\ worker.pc \in {"url", "sum"}
  /\ LocalImageURLs(Nil) = {}
  /\ wake' = TRUE /\ Return
  /\ UNCHANGED <<server, clean, world>>

(* DoJob: nothing when the recorded hash is the one of the job wanted;     *)
(* else that job is made to exist, waited for, recorded and, unless jobs   *)
(* are preserved, deleted.                                                 *)
JobRecorded ==
  /\ worker.pc = "job"
  /\ inst.jobHash = inst.spec.image
  /\ Goto("sum")
  /\ UNCHANGED <<server, clean, wake, base, inst, world>>

JobStarted ==
  /\ worker.pc = "job"
  /\ inst.jobHash # inst.spec.image /\ job.image # inst.spec.image
  /\ job' = [image |-> inst.spec.image, st |-> "running"]
  /\ Leave(TRUE)
  /\ UNCHANGED <<server, config, dep, pods, addr, clean, wake, base, inst, events>>

(* Variant: no requeue, as if the end of a job were watched.               *)
JobAwaitedUnqueued ==
  /\ worker.pc = "job"
  /\ inst.jobHash # inst.spec.image /\ job.image = inst.spec.image
  /\ job.st # "done"
  /\ Leave(FALSE)
  /\ UNCHANGED <<server, clean, wake, base, inst, world>>

JobAwaited ==
  /\ worker.pc = "job"
  /\ inst.jobHash # inst.spec.image /\ job.image = inst.spec.image
  /\ job.st # "done"
  /\ Leave(TRUE)
  /\ UNCHANGED <<server, clean, wake, base, inst, world>>

JobFinished ==
  /\ worker.pc = "job"
  /\ inst.jobHash # inst.spec.image /\ job.image = inst.spec.image
  /\ job.st = "done"
  /\ inst' = [inst EXCEPT !.jobHash = inst.spec.image]
  /\ job' \in {job, NoJob}
  /\ Goto("sum")
  /\ UNCHANGED <<server, config, dep, pods, addr, clean, wake, base, events>>

(* The checksum's URL is made from the file name in the copy read at the   *)
(* start of this reconcile; with it every condition is true.               *)
ChecksumURL ==
  /\ worker.pc = "sum"
  /\ \E u \in LocalImageURLs(inst.sum) :
       inst' = [inst EXCEPT !.sumUrl = u, !.cond = "ready"]
  /\ Leave(FALSE)
  /\ UNCHANGED <<server, clean, wake, base, world>>

(* PatchInstance at the end of Reconcile: the fields that changed.  A      *)
(* server being deleted goes with its finalizer.                           *)
Saved(c) ==
  LET final == Patch(base.final, inst.final, c.final)
  IN  [c EXCEPT !.final   = final,
                !.phase   = IF c.phase = "deleting" /\ ~final THEN "gone" ELSE @,
                !.cond    = Patch(base.cond, inst.cond, @),
                !.hash    = Patch(base.hash, inst.hash, @),
                !.jobHash = Patch(base.jobHash, inst.jobHash, @),
                !.url     = Patch(base.url, inst.url, @),
                !.sumUrl  = Patch(base.sumUrl, inst.sumUrl, @)]

PatchInstance ==
  /\ worker.pc = "patch" /\ server.phase # "gone"
  /\ server' = Saved(server)
  /\ Return
  /\ UNCHANGED world
  /\ Delivered(worker.again)

PatchNotFound ==
  /\ worker.pc = "patch" /\ server.phase = "gone"
  /\ wake' = TRUE /\ Return
  /\ UNCHANGED <<server, clean, world>>

(* An API call of Reconcile fails: the error is returned and what was set  *)
(* so far is saved.  The interface is looked up before the URL is cleared; *)
(* an address in the status needs no list of pods.                         *)
ApiError ==
  /\ worker.pc \in {"config", "deploy", "url", "job", "sum"} /\ Fault("api")
  /\ worker.pc \in {"url", "sum"} => inst.ip = Nil
  /\ \/ worker.pc = "deploy" /\ UNCHANGED inst
     \/ inst' = [inst EXCEPT
          !.url    = IF worker.pc \in {"deploy", "url"} THEN Nil ELSE @,
          !.sumUrl = IF worker.pc = "sum" THEN Nil ELSE @]
  /\ Leave(TRUE)
  /\ UNCHANGED <<server, config, dep, pods, addr, job, clean, wake, base>>

PatchFails ==
  /\ worker.pc = "patch" /\ Fault("api")
  /\ wake' = TRUE /\ Return
  /\ UNCHANGED <<server, config, dep, pods, addr, job, clean>>

(* The manager dies and its successor lists everything afresh.             *)
ManagerRestarts ==
  /\ Fault("crash")
  /\ wake' = TRUE /\ Return
  /\ UNCHANGED <<server, config, dep, pods, addr, job, clean>>

-----------------------------------------------------------------------------
(* The Deployment controller, the nodes and their pods.                    *)

Cluster == UNCHANGED <<server, addr, job, config, worker, base, inst>>

Current(n) == pods[n].image = dep.image /\ pods[n].main = dep.main
Active(n) == pods[n].st \in {"starting", "running"}
PodReady(n) == pods[n].st = "running" /\ pods[n].conf = pods[n].main.port

(* Recreate: a new template first ends the pods of the old one; the count  *)
(* of ready pods in the status is brought up to date only later.           *)
DeploymentObserved ==
  /\ dep.image # Nil /\ ~dep.seen
  /\ dep' = [dep EXCEPT !.seen = TRUE]
  /\ pods' = [n \in Nodes |-> IF Active(n) /\ ~Current(n)
                THEN [pods[n] EXCEPT !.st = "ending"] ELSE pods[n]]
  /\ UNCHANGED events
  /\ Cluster /\ Delivered(FALSE)

DeploymentCounted ==
  /\ dep.ready # (\E n \in Nodes : PodReady(n))
  /\ dep' = [dep EXCEPT !.ready = ~@]
  /\ UNCHANGED <<pods, events>>
  /\ Cluster /\ Delivered(FALSE)

(* One replica, on a node without another (anti-affinity), and none while  *)
(* a pod of an earlier template is left or its predecessor still counts.   *)
PodCreated(n) ==
  /\ dep.seen /\ ~dep.ready /\ pods[n].st = "none"
  /\ \A m \in Nodes : ~Active(m) /\ (pods[m].st # "none" => Current(m))
  /\ pods' = [pods EXCEPT ![n] =
       [NoPod EXCEPT !.st = "starting", !.image = dep.image, !.main = dep.main]]
  /\ UNCHANGED <<dep, events>>
  /\ Cluster /\ Delivered(FALSE)

(* The pod copies the image and runs httpd with the mounted configuration; *)
(* the probes restart one that does not listen on the port they ask.       *)
PodRuns(n) ==
  /\ config # Nil
  /\ \/ pods[n].st = "starting"
     \/ pods[n].st = "running" /\ ~PodReady(n) /\ pods[n].conf # config
  /\ pods' = [pods EXCEPT ![n].st = "running", ![n].conf = config]
  /\ UNCHANGED <<dep, events>>
  /\ Cluster /\ Delivered(FALSE)

PodGone(n) ==
  /\ pods[n].st = "ending"
  /\ pods' = [pods EXCEPT ![n] = NoPod]
  /\ UNCHANGED <<dep, events>>
  /\ Cluster /\ Delivered(FALSE)

(* The pod is evicted or its node drained.                                 *)
PodEvicted(n) ==
  /\ Active(n) /\ Fault("evict")
  /\ pods' = [pods EXCEPT ![n].st = "ending"]
  /\ UNCHANGED dep
  /\ Cluster /\ Delivered(FALSE)

(* The interface of a node loses its address, or gets it back.             *)
AddressChanges(n) ==
  /\ Fault("address")
  /\ addr' = IF n \in addr THEN addr \ {n} ELSE addr \cup {n}
  /\ UNCHANGED <<server, config, dep, pods, job, clean,
                 wake, worker, base, inst>>

-----------------------------------------------------------------------------
(* The agents, which report into the server's status.                      *)

Agents == UNCHANGED <<addr, config, dep, worker, base, inst, events>>

(* The provisioning address agent looks at its interface and, when there   *)
(* is no address or one it has not reported, reads the server.             *)
ProvisionIPRead(n) ==
  /\ pods[n].st = "running" /\ pods[n].main.intf /\ pods[n].cur = "none"
  /\ n \notin addr \/ ~pods[n].rep
  /\ IF server.phase = "gone"
       THEN /\ pods' = [pods EXCEPT ![n].rep = n \in addr]
            /\ UNCHANGED clean
       ELSE /\ pods' = [pods EXCEPT ![n].cur = IF n \in addr THEN "ip" ELSE "error"]
            /\ clean' = clean \cup {n}
  /\ UNCHANGED <<server, wake, job>>
  /\ Agents

(* Variant: the failure is reported in the place of the address.           *)
ReportsErrorAsIP(n) ==
  server' = [server EXCEPT !.ip    = IF pods[n].cur = "ip" THEN n ELSE "error",
                           !.iperr = pods[n].cur = "error"]

Reports(n) ==
  server' = [server EXCEPT !.ip    = IF pods[n].cur = "ip" THEN n ELSE Nil,
                           !.iperr = pods[n].cur = "error"]

(* Its UpdateStatus fails when the server changed in between; that of an   *)
(* agent being stopped may arrive late.                                    *)
ProvisionIPUpdate(n) ==
  /\ pods[n].cur # "none"
  /\ pods[n].st = "running" \/ "late" \in Faults
  /\ IF n \in clean /\ server.phase # "gone" THEN Reports(n) ELSE UNCHANGED server
  /\ pods' = [pods EXCEPT ![n].cur = "none",
       ![n].rep = n \in clean /\ server.phase # "gone" /\ pods[n].cur = "ip"]
  /\ UNCHANGED job
  /\ Agents /\ Delivered(FALSE)

(* The checksum agent looks for a checksum file and gives up without one;  *)
(* else it reads the server, and is done if that is gone.                  *)
ChecksumRead ==
  /\ job.st = "running"
  /\ job' = [job EXCEPT !.st = CASE Checksums[job.image] = {} -> "failed"
                                 [] server.phase = "gone"     -> "reported"
                                 [] OTHER                     -> "updating"]
  /\ clean' = IF job'.st = "updating" THEN clean \cup {"job"} ELSE clean
  /\ UNCHANGED <<server, wake, pods>>
  /\ Agents

(* Variant: an update that conflicts is given up.                          *)
ChecksumUpdateOnce ==
  /\ job.st = "updating"
  /\ job' = [job EXCEPT !.st = "reported"]
  /\ IF "job" \in clean /\ server.phase # "gone"
       THEN \E t \in Checksums[job.image] :
              server' = [server EXCEPT !.sum = <<job.image, t>>]
       ELSE UNCHANGED server
  /\ UNCHANGED pods
  /\ Agents /\ Delivered(FALSE)

(* It starts again when the server changed since.                          *)
ChecksumUpdate ==
  /\ job.st = "updating"
  /\ IF "job" \in clean /\ server.phase # "gone"
       THEN /\ \E t \in Checksums[job.image] :
                 server' = [server EXCEPT !.sum = <<job.image, t>>]
            /\ job' = [job EXCEPT !.st = "reported"]
       ELSE /\ job' = [job EXCEPT !.st = "running"]
            /\ UNCHANGED server
  /\ UNCHANGED pods
  /\ Agents /\ Delivered(FALSE)

ChecksumJobDone ==
  /\ job.st = "reported"
  /\ job' = [job EXCEPT !.st = "done"]
  /\ UNCHANGED <<server, clean, wake, pods>>
  /\ Agents

-----------------------------------------------------------------------------
(* Users.                                                                  *)

UserWrites(new) ==
  /\ server' = new
  /\ UNCHANGED <<config, dep, pods, addr, job, worker, base, inst>>
  /\ Delivered(FALSE)

UpdateServer ==
  /\ server.phase = "live" /\ Event
  /\ \E spec \in SpecChanges[server.spec] :
       UserWrites([server EXCEPT !.spec = spec])

PauseServer ==
  /\ server.phase # "gone" /\ Fault("pause")
  /\ UserWrites([server EXCEPT !.paused = ~@])

DeleteServer ==
  /\ server.phase = "live" /\ UNCHANGED events
  /\ UserWrites([server EXCEPT !.phase = IF server.final THEN "deleting" ELSE "gone"])

-----------------------------------------------------------------------------

Reconciler ==
  \/ ReconcileSkips \/ ReconcileInitialises \/ ReconcileDelete \/ ReconcileNormal
  \/ GenerateServiceConfigMaps \/ Deploy \/ LocalImageURL \/ NoPodPanics
  \/ JobRecorded \/ JobStarted \/ JobAwaited \/ JobFinished
  \/ ChecksumURL \/ PatchInstance \/ PatchNotFound
DeploymentController == DeploymentObserved \/ DeploymentCounted
Kubelet == \E n \in Nodes : PodCreated(n) \/ PodRuns(n) \/ PodGone(n)
IPAgent == \E n \in Nodes : ProvisionIPRead(n) \/ ProvisionIPUpdate(n)
ChecksumAgent == ChecksumRead \/ ChecksumUpdate \/ ChecksumJobDone

System ==
  Reconciler \/ DeploymentController \/ Kubelet \/ IPAgent \/ ChecksumAgent
Failures ==
  \/ ConfigMapsFail \/ ApiError \/ PatchFails \/ ManagerRestarts
  \/ \E n \in Nodes : PodEvicted(n) \/ AddressChanges(n)
Users == UpdateServer \/ PauseServer \/ DeleteServer

Next == System \/ Failures \/ Users

Spec == Init /\ [][Next]_vars

Fairness ==
  /\ WF_vars(Reconciler)
  /\ WF_vars(DeploymentController) /\ WF_vars(Kubelet)
  /\ WF_vars(IPAgent) /\ WF_vars(ChecksumAgent)

FairSpec == Spec /\ Fairness

-----------------------------------------------------------------------------
(* Properties.                                                             *)

(* Every variable keeps its type.                                          *)
TypeOK ==
  /\ server \in Servers /\ base \in OrNil(Servers) /\ inst \in OrNil(Servers)
  /\ config \in OrNil(Ports)
  /\ dep \in Deployments
  /\ pods \in [Nodes -> PodStates]
  /\ addr \in SUBSET Nodes
  /\ job \in Jobs
  /\ clean \in SUBSET (Nodes \cup {"job"})
  /\ wake \in BOOLEAN
  /\ worker \in [pc : Pcs, again : BOOLEAN]
  /\ events \in 0..MaxEvents

(* Both URLs of the status are served: by a ready pod, on the host and     *)
(* port of the URL, with the image of the spec and its checksum file.      *)
Serves(n) ==
  /\ PodReady(n) /\ pods[n].image = server.spec.image
  /\ server.url = [host |-> n, port |-> pods[n].conf, file |-> pods[n].image]
  /\ \E t \in Checksums[pods[n].image] :
       server.sumUrl = [host |-> n, port |-> pods[n].conf, file |-> <<pods[n].image, t>>]

Serving == server.cond = "ready" /\ \E n \in Nodes : Serves(n)

(* Once nothing of the system has a step left to take, a live server is    *)
(* Ready and what its status advertises is really being served.            *)
QuietServes ==
  ~ENABLED System /\ server.phase = "live" /\ ~server.paused => Serving

(* A server that stays live, with an image that has a checksum and an      *)
(* interface that has its address, ends up serving for good; one without   *)
(* an interface provided a pod is never listed beside its successor.       *)
EventuallyServes ==
  ( /\ [](~ProvInterface(server.spec) => Cardinality(Listed) <= 1)
    /\ <>[](/\ server.phase = "live" /\ ~server.paused
            /\ Checksums[server.spec.image] # {}
            /\ ProvInterface(server.spec) => addr = Nodes) )
  => <>[]Serving

(* A deleted server goes.                                                  *)
DeletionCompletes == server.phase = "deleting" ~> server.phase = "gone"

(* Nothing is created or changed for a server that is gone.                *)
NothingAfterGone ==
  [][server.phase = "gone" =>
       config' = config /\ dep'.image = dep.image /\ dep'.main = dep.main
         /\ job'.image = job.image]_vars

(* The checksum job is recorded as done only once its agent has put the    *)
(* name of a checksum file into the status.                                *)
RecordedAfterReported == server.jobHash # Nil => server.sum # Nil

(* The two URLs of the status are of one image.                            *)
UrlsAgree ==
  server.url # Nil /\ server.sumUrl # Nil /\ server.sumUrl.file # Nil
    => server.sumUrl.file[1] = server.url.file

=============================================================================
