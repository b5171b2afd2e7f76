----------------------- MODULE ProvisionServerProofs -----------------------
(***************************************************************************)
(* What holds of a provisioning server for all images, ports, nodes and    *)
(* changes of its spec, whatever fails and however often.                  *)
(***************************************************************************)
EXTENDS ProvisionServer, TLAPS

(* Where Reconcile writes the objects it keeps for the server.             *)
Busy == {"config", "deploy", "url", "job", "sum"}

(* The type invariant, and what it leaves open: Reconcile has its copies   *)
(* while it runs, and a job that exists is for an image.                   *)
Typed ==
  /\ TypeOK
  /\ worker.pc # "idle" => inst \in Servers /\ base \in Servers
  /\ job.st # "none" => job.image \in Images

(* While Reconcile writes, the finalizer keeps the server.                 *)
Held == worker.pc \in Busy => server.final /\ server.phase # "gone"

(* A finished agent has reported, and so has that of a recorded job.       *)
Reported ==
  /\ server.phase # "gone" /\ job.st \in {"reported", "done"} => server.sum # Nil
  /\ server.jobHash # Nil => server.sum # Nil
  /\ worker.pc # "idle" /\ inst.jobHash # Nil => server.sum # Nil

-----------------------------------------------------------------------------
(* Typing.                                                                 *)

(* The specs are records over the declared images and ports.               *)
LEMMA SpecFields ==
  ASSUME NEW s \in Specs
  PROVE  s.image \in Images /\ s.port \in Ports /\ s.intf \in BOOLEAN
BY ServerAssumption

(* A new server, as a user creates it, is a server.                        *)
LEMMA NewServerTyped ==
  ASSUME NEW s \in Specs PROVE NewServer(s) \in Servers
BY DEF NewServer, Servers, Hashes, URLs, OrNil

(* The initial state is typed.                                             *)
LEMMA InitTyped == Init => Typed
<1> SUFFICES ASSUME Init PROVE Typed
  OBVIOUS
<1>1. server \in Servers /\ base \in OrNil(Servers) /\ inst \in OrNil(Servers)
  BY NewServerTyped DEF Init, OrNil
<1>2. dep \in Deployments /\ job \in Jobs /\ config \in OrNil(Ports)
  BY DEF Init, NoDeployment, Deployments, NoJob, Jobs, OrNil
<1>3. pods \in [Nodes -> PodStates]
  BY DEF Init, NoPod, PodStates, OrNil
<1>4. worker \in [pc : Pcs, again : BOOLEAN] /\ worker.pc = "idle"
  BY DEF Init, Idle, Pcs
<1>5. clean = {} /\ addr = Nodes /\ wake \in BOOLEAN /\ events \in 0..MaxEvents
  BY ServerAssumption DEF Init
<1> QED
  BY <1>1, <1>2, <1>3, <1>4, <1>5 DEF Typed, TypeOK, Init, NoJob

(* What Reconcile saves of typed copies is a server.                       *)
LEMMA SavedTyped ==
  ASSUME server \in Servers, base \in Servers, inst \in Servers
  PROVE  Saved(server) \in Servers
<1>1. /\ Patch(base.final, inst.final, server.final) \in BOOLEAN
      /\ Patch(base.cond, inst.cond, server.cond) \in {"none", "pending", "ready"}
      /\ Patch(base.hash, inst.hash, server.hash) \in Hashes
      /\ Patch(base.jobHash, inst.jobHash, server.jobHash) \in OrNil(Images)
      /\ Patch(base.url, inst.url, server.url) \in URLs
      /\ Patch(base.sumUrl, inst.sumUrl, server.sumUrl) \in URLs
  BY DEF Patch, Servers
<1> QED
  BY <1>1 DEF Saved, Servers

(* The URLs made for a file are URLs.                                      *)
LEMMA URLsTyped ==
  ASSUME inst \in Servers, NEW file \in Files, NEW u \in LocalImageURLs(file)
  PROVE  u \in URLs
<1>1. \A n \in Nodes : HostIPs(n) \subseteq OrNil(Nodes)
  BY DEF HostIPs, OrNil
<1>2. inst.ip \in OrNil(Nodes) /\ inst.spec.port \in Ports
  BY SpecFields DEF Servers
<1>3. PICK h \in OrNil(Nodes) : u = [host |-> h, port |-> inst.spec.port, file |-> file]
  BY <1>1, <1>2 DEF LocalImageURLs, Listed, OrNil
<1> QED
  BY <1>2, <1>3 DEF URLs, OrNil

Workers == [pc : Pcs, again : BOOLEAN]

(* Reconcile moves on.                                                     *)
LEMMA GotoTyped ==
  ASSUME worker \in Workers, NEW pc \in Pcs, Goto(pc)
  PROVE  worker' \in Workers /\ worker'.pc = pc
BY DEF Workers, Goto

(* It leaves for the final patch.                                          *)
LEMMA LeaveTyped ==
  ASSUME NEW again \in BOOLEAN, Leave(again)
  PROVE  worker' \in Workers /\ worker'.pc = "patch"
BY DEF Workers, Leave, Pcs

(* It returns.                                                             *)
LEMMA ReturnTyped ==
  ASSUME Return
  PROVE  worker' \in Workers /\ worker'.pc = "idle" /\ base' = Nil /\ inst' = Nil
BY DEF Workers, Return, Idle, Pcs

(* The controller's own steps.                                             *)
LEMMA ReconcilerTyped == Typed /\ (Reconciler \/ ConfigMapsFail \/ ApiError) => Typed'
<1> SUFFICES ASSUME Typed, Reconciler \/ ConfigMapsFail \/ ApiError PROVE Typed'
  OBVIOUS
<1> DEFINE Rest == /\ pods \in [Nodes -> PodStates] /\ addr \in SUBSET Nodes
                   /\ clean \in SUBSET (Nodes \cup {"job"})
                   /\ events \in 0..MaxEvents
           Work == /\ worker \in Workers
                   /\ base \in OrNil(Servers) /\ inst \in OrNil(Servers)
                   /\ worker.pc # "idle" => inst \in Servers /\ base \in Servers
           Kept == /\ config \in OrNil(Ports) /\ dep \in Deployments /\ job \in Jobs
                   /\ job.st # "none" => job.image \in Images
<1>a. /\ server \in Servers /\ wake \in BOOLEAN
      /\ Rest /\ Work /\ Kept
  BY DEF Typed, TypeOK, Workers
<1> SUFFICES server' \in Servers /\ wake' \in BOOLEAN /\ Rest' /\ Work' /\ Kept'
  BY DEF Typed, TypeOK, Workers
<1>1. CASE ReconcileSkips
  BY <1>1, <1>a DEF ReconcileSkips, Take, world
<1>2. CASE ReconcileInitialises \/ ReconcileDelete \/ ReconcileNormal
  <2>1. /\ inst' \in Servers /\ base' \in Servers
    <3>1. /\ [server EXCEPT !.cond = "pending", !.final = TRUE] \in Servers
          /\ [server EXCEPT !.cond = "pending"] \in Servers
          /\ [server EXCEPT !.cond = "pending",
                            !.final = server.cond = "none" /\ @] \in Servers
      BY <1>a DEF Servers
    <3> QED
      BY <3>1, <1>2, <1>a DEF ReconcileInitialises, ReconcileDelete, ReconcileNormal
  <2>2. worker' \in Workers
    <3>1. CASE Leave(FALSE)
      BY <3>1, LeaveTyped
    <3>2. CASE worker' = [pc |-> "config", again |-> FALSE]
      BY <3>2 DEF Workers, Pcs
    <3> QED
      BY <3>1, <3>2, <1>2 DEF ReconcileInitialises, ReconcileDelete, ReconcileNormal
  <2> QED
    BY <1>2, <2>1, <2>2, <1>a DEF ReconcileInitialises, ReconcileDelete,
       ReconcileNormal, Take, world, OrNil
<1>3. CASE GenerateServiceConfigMaps \/ ConfigMapsFail
  <2>1. inst \in Servers /\ base' \in Servers /\ inst.spec.port \in Ports
    BY <1>3, <1>a, SpecFields DEF GenerateServiceConfigMaps, ConfigMapsFail, Servers
  <2>2. inst' \in Servers
    <3>1. \A h \in Hashes : [inst EXCEPT !.hash = h] \in Servers
      BY <2>1 DEF Servers
    <3> QED
      BY <3>1, <2>1, <1>3 DEF GenerateServiceConfigMaps, ConfigMapsFail, InputHash, Hashes
  <2>3. worker' \in Workers
    <3>1. Goto("deploy") \/ Leave(FALSE)
      BY <1>3 DEF GenerateServiceConfigMaps, ConfigMapsFail, InputHash
    <3> QED
      BY <3>1, <1>a, GotoTyped, LeaveTyped DEF Pcs
  <2>4. clean' \in SUBSET (Nodes \cup {"job"}) /\ wake' \in BOOLEAN
    BY <1>3, <1>a DEF GenerateServiceConfigMaps, ConfigMapsFail, Delivered
  <2>5. events' \in 0..MaxEvents
    <3>1. events' = events \/ (events < MaxEvents /\ events' = events + 1)
      BY <1>3 DEF GenerateServiceConfigMaps, ConfigMapsFail, Fault, Event
    <3> QED
      BY <3>1, <1>a, ServerAssumption
  <2> QED
    BY <1>3, <2>1, <2>2, <2>3, <2>4, <2>5, <1>a
       DEF GenerateServiceConfigMaps, ConfigMapsFail, OrNil
<1>4. CASE Deploy
  <2>1. inst \in Servers /\ base' \in Servers
    BY <1>4, <1>a DEF Deploy
  <2>2. inst' \in Servers
    BY <1>4, <2>1 DEF Deploy, Servers, URLs, OrNil
  <2>3. MainOf(inst) \in Mains /\ inst.spec.image \in Images
    BY <2>1, SpecFields, ServerAssumption DEF MainOf, Mains, Servers, ProvInterface
  <2>4. dep' \in Deployments
    BY <1>4, <1>a, <2>3 DEF Deploy, Patched, Deployments, OrNil
  <2>5. worker' \in Workers
    <3>1. Goto("url") \/ Leave(TRUE)
      BY <1>4 DEF Deploy
    <3> QED
      BY <3>1, <1>a, GotoTyped, LeaveTyped DEF Pcs
  <2>6. clean' \in SUBSET (Nodes \cup {"job"}) /\ wake' \in BOOLEAN
    BY <1>4, <1>a DEF Deploy, Delivered
  <2> QED
    BY <1>4, <2>1, <2>2, <2>4, <2>5, <2>6, <1>a DEF Deploy, OrNil
<1>5. CASE LocalImageURL \/ ChecksumURL
  <2>1. inst \in Servers /\ base' \in Servers
    BY <1>5, <1>a DEF LocalImageURL, ChecksumURL
  <2>2. inst.spec.image \in Files /\ inst.sum \in Files
    BY <2>1, SpecFields DEF Servers, Files, OrNil
  <2>3. \A u \in URLs : /\ [inst EXCEPT !.url = u] \in Servers
                        /\ [inst EXCEPT !.sumUrl = u, !.cond = "ready"] \in Servers
    BY <2>1 DEF Servers
  <2>4. inst' \in Servers
    BY <1>5, <2>1, <2>2, <2>3, URLsTyped DEF LocalImageURL, ChecksumURL
  <2>5. worker' \in Workers
    <3>1. Goto("job") \/ Leave(FALSE)
      BY <1>5 DEF LocalImageURL, ChecksumURL
    <3> QED
      BY <3>1, <1>a, GotoTyped, LeaveTyped DEF Pcs
  <2> QED
    BY <1>5, <2>1, <2>4, <2>5, <1>a DEF LocalImageURL, ChecksumURL, world, OrNil
<1>6. CASE NoPodPanics \/ PatchNotFound
  <2>1. Return /\ wake' = TRUE /\ UNCHANGED <<server, clean, world>>
    BY <1>6 DEF NoPodPanics, PatchNotFound
  <2> QED
    BY <2>1, <1>a, ReturnTyped DEF world, OrNil
<1>7. CASE JobRecorded \/ JobAwaited
  <2>1. worker' \in Workers
    <3>1. Goto("sum") \/ Leave(TRUE)
      BY <1>7 DEF JobRecorded, JobAwaited
    <3> QED
      BY <3>1, <1>a, GotoTyped, LeaveTyped DEF Pcs
  <2>2. worker.pc = "job" /\ UNCHANGED <<server, clean, wake, base, inst, world>>
    BY <1>7 DEF JobRecorded, JobAwaited
  <2> QED
    BY <2>1, <2>2, <1>a DEF world
<1>8. CASE JobStarted
  <2>1. inst.spec.image \in Images
    BY <1>8, <1>a, SpecFields DEF JobStarted, Servers
  <2> QED
    BY <1>8, <2>1, <1>a, LeaveTyped DEF JobStarted, Jobs, OrNil
<1>9. CASE JobFinished
  <2>1. inst \in Servers /\ inst.spec.image \in Images
    BY <1>9, <1>a, SpecFields DEF JobFinished, Servers
  <2>2. inst' \in Servers
    BY <1>9, <2>1 DEF JobFinished, Servers, OrNil
  <2> QED
    BY <1>9, <2>2, <1>a, GotoTyped DEF JobFinished, Pcs, NoJob, Jobs, OrNil
<1>10. CASE PatchInstance
  <2>1. server' \in Servers
    BY <1>10, <1>a, SavedTyped DEF PatchInstance
  <2>2. clean' \in SUBSET (Nodes \cup {"job"}) /\ wake' \in BOOLEAN
    BY <1>10, <1>a DEF PatchInstance, Delivered
  <2> QED
    BY <1>10, <2>1, <2>2, <1>a, ReturnTyped DEF PatchInstance, world, OrNil
<1>11. CASE ApiError
  <2>1. inst \in Servers
    BY <1>11, <1>a DEF ApiError
  <2>2. inst' \in Servers
    <3>1. \A u, v \in URLs : [inst EXCEPT !.url = u, !.sumUrl = v] \in Servers
      BY <2>1 DEF Servers
    <3>2. inst.url \in URLs /\ inst.sumUrl \in URLs /\ Nil \in URLs
      BY <2>1 DEF Servers, URLs, OrNil
    <3>3. CASE UNCHANGED inst
      BY <2>1, <3>3
    <3>4. CASE \E u, v \in URLs : inst' = [inst EXCEPT !.url = u, !.sumUrl = v]
      BY <3>1, <3>4
    <3>5. UNCHANGED inst \/ \E u, v \in URLs : inst' = [inst EXCEPT !.url = u, !.sumUrl = v]
      BY <1>11, <3>2 DEF ApiError
    <3> QED
      BY <3>3, <3>4, <3>5
  <2>3. events' \in 0..MaxEvents
    BY <1>11, <1>a, ServerAssumption DEF ApiError, Fault, Event
  <2> QED
    BY <1>11, <2>2, <2>3, <1>a, LeaveTyped DEF ApiError, OrNil
<1> QED
  BY <1>1, <1>2, <1>3, <1>4, <1>5, <1>6, <1>7, <1>8, <1>9, <1>10, <1>11 DEF Reconciler

(* What happens to a pod leaves a pod.                                     *)
LEMMA PodTyped ==
  ASSUME NEW p \in PodStates, NEW c \in OrNil(Ports),
         NEW r \in BOOLEAN, NEW u \in {"none", "ip", "error"}
  PROVE  /\ [p EXCEPT !.st = "running", !.conf = c] \in PodStates
         /\ [p EXCEPT !.rep = r, !.cur = u] \in PodStates
         /\ [p EXCEPT !.st = "ending"] \in PodStates
<1>1. [p EXCEPT !.rep = r, !.cur = u] \in PodStates
  BY DEF PodStates
<1>2. [p EXCEPT !.st = "ending"] \in PodStates
  BY DEF PodStates
<1>3. [p EXCEPT !.st = "running", !.conf = c] \in PodStates
  BY DEF PodStates
<1> QED
  BY <1>1, <1>2, <1>3

(* What an address agent does to a report leaves a server.                 *)
LEMMA ReportTyped ==
  ASSUME server \in Servers, NEW n \in Nodes, Reports(n)
  PROVE  server' \in Servers
<1>1. \A i \in OrNil(Nodes), e \in BOOLEAN : [server EXCEPT !.ip = i, !.iperr = e] \in Servers
  BY DEF Servers
<1>2. /\ (IF pods[n].cur = "ip" THEN n ELSE Nil) \in OrNil(Nodes)
      /\ (pods[n].cur = "error") \in BOOLEAN
  BY DEF OrNil
<1> QED
  BY <1>1, <1>2 DEF Reports

(* The steps of the cluster, the agents, the users and the failures.       *)
LEMMA WorldTyped ==
  Typed /\ (DeploymentController \/ Kubelet \/ IPAgent \/ ChecksumAgent \/ Users
              \/ PatchFails \/ ManagerRestarts
              \/ \E n \in Nodes : PodEvicted(n) \/ AddressChanges(n))
    => Typed'
<1> SUFFICES ASSUME Typed,
                    DeploymentController \/ Kubelet \/ IPAgent \/ ChecksumAgent \/ Users
                      \/ PatchFails \/ ManagerRestarts
                      \/ \E n \in Nodes : PodEvicted(n) \/ AddressChanges(n)
             PROVE  Typed'
  OBVIOUS
<1> DEFINE Work == /\ worker \in Workers
                   /\ base \in OrNil(Servers) /\ inst \in OrNil(Servers)
                   /\ worker.pc # "idle" => inst \in Servers /\ base \in Servers
           Agent == /\ job \in Jobs /\ (job.st # "none" => job.image \in Images)
                    /\ clean \in SUBSET (Nodes \cup {"job"})
           Kept == /\ config \in OrNil(Ports) /\ addr \in SUBSET Nodes
                   /\ events \in 0..MaxEvents
           Pods == pods \in [Nodes -> PodStates]
<1>a. /\ server \in Servers /\ wake \in BOOLEAN /\ dep \in Deployments
      /\ Pods /\ Agent /\ Kept /\ Work
  BY DEF Typed, TypeOK, Workers
<1> SUFFICES /\ server' \in Servers /\ wake' \in BOOLEAN /\ dep' \in Deployments
             /\ Pods' /\ Agent' /\ Kept' /\ Work'
  BY DEF Typed, TypeOK, Workers
<1>b. ASSUME NEW requeue \in BOOLEAN, Delivered(requeue)
      PROVE  wake' \in BOOLEAN /\ clean' \in SUBSET (Nodes \cup {"job"})
  BY <1>b, <1>a DEF Delivered
<1>c. ASSUME Event PROVE events' \in 0..MaxEvents
  BY <1>c, <1>a, ServerAssumption DEF Event
<1>1. CASE DeploymentController
  <2>1. dep' \in Deployments
    BY <1>1, <1>a DEF DeploymentController, DeploymentObserved, DeploymentCounted, Deployments
  <2>2. Pods'
    <3>1. \A n \in Nodes : [pods[n] EXCEPT !.st = "ending"] \in PodStates
      BY <1>a DEF PodStates
    <3> QED
      BY <3>1, <1>1, <1>a DEF DeploymentController, DeploymentObserved, DeploymentCounted
  <2> QED
    BY <1>1, <1>a, <1>b, <2>1, <2>2
       DEF DeploymentController, DeploymentObserved, DeploymentCounted, Cluster
<1>2. CASE Kubelet \/ \E n \in Nodes : PodEvicted(n)
  <2>1. PICK n \in Nodes : PodCreated(n) \/ PodRuns(n) \/ PodGone(n) \/ PodEvicted(n)
    BY <1>2 DEF Kubelet
  <2>2. PICK p \in PodStates : pods' = [pods EXCEPT ![n] = p]
    <3>1. CASE PodCreated(n)
      <4>1. [NoPod EXCEPT !.st = "starting", !.image = dep.image, !.main = dep.main] \in PodStates
        BY <1>a DEF NoPod, PodStates, Deployments, OrNil
      <4> QED
        BY <3>1, <4>1 DEF PodCreated
    <3>2. CASE PodRuns(n)
      <4>1. [pods[n] EXCEPT !.st = "running", !.conf = config] \in PodStates
        <5>1. pods[n] \in PodStates /\ config \in OrNil(Ports)
          BY <1>a
        <5> QED
          BY <5>1, PodTyped
      <4>2. pods' = [pods EXCEPT ![n] = [pods[n] EXCEPT !.st = "running", !.conf = config]]
        BY <3>2, <1>a DEF PodRuns, PodStates
      <4> QED
        BY <4>1, <4>2
    <3>3. CASE PodGone(n)
      BY <3>3 DEF PodGone, NoPod, PodStates, OrNil
    <3>4. CASE PodEvicted(n)
      <4>1. [pods[n] EXCEPT !.st = "ending"] \in PodStates
        BY <1>a DEF PodStates
      <4>2. pods' = [pods EXCEPT ![n] = [pods[n] EXCEPT !.st = "ending"]]
        BY <3>4, <1>a DEF PodEvicted, PodStates
      <4> QED
        BY <4>1, <4>2
    <3> QED
      BY <2>1, <3>1, <3>2, <3>3, <3>4
  <2>3. events' \in 0..MaxEvents
    BY <2>1, <1>a, <1>c DEF PodCreated, PodRuns, PodGone, PodEvicted, Fault
  <2>4. UNCHANGED dep /\ Cluster /\ Delivered(FALSE)
    BY <2>1 DEF PodCreated, PodRuns, PodGone, PodEvicted
  <2> QED
    BY <2>2, <2>3, <2>4, <1>a, <1>b DEF Cluster
<1>3. CASE \E n \in Nodes : AddressChanges(n)
  BY <1>3, <1>a, <1>c DEF AddressChanges, Fault
<1>4. CASE PatchFails \/ ManagerRestarts
  <2>1. /\ Return /\ wake' = TRUE /\ Event
        /\ UNCHANGED <<server, config, dep, pods, addr, job, clean>>
    BY <1>4 DEF PatchFails, ManagerRestarts, Fault
  <2> QED
    BY <2>1, <1>a, <1>c, ReturnTyped DEF OrNil
<1>5. CASE Users
  <2>1. PICK new \in Servers : UserWrites(new)
    <3>1. \A spec \in Specs : [server EXCEPT !.spec = spec] \in Servers
      BY <1>a DEF Servers
    <3>2. server.spec \in Specs /\ SpecChanges[server.spec] \subseteq Specs
      BY <1>a, ServerAssumption DEF Servers
    <3>3. [server EXCEPT !.paused = ~@] \in Servers
      BY <1>a DEF Servers
    <3>4. [server EXCEPT !.phase = IF server.final THEN "deleting" ELSE "gone"] \in Servers
      BY <1>a DEF Servers
    <3> QED
      BY <1>5, <3>1, <3>2, <3>3, <3>4 DEF Users, UpdateServer, PauseServer, DeleteServer
  <2>2. events' \in 0..MaxEvents
    BY <1>5, <1>a, <1>c DEF Users, UpdateServer, PauseServer, DeleteServer, Fault
  <2> QED
    BY <2>1, <2>2, <1>a, <1>b DEF UserWrites
<1>6. CASE IPAgent
  <2>1. PICK n \in Nodes : ProvisionIPRead(n) \/ ProvisionIPUpdate(n)
    BY <1>6 DEF IPAgent
  <2>2. Pods'
    <3>1. \A r \in BOOLEAN, c \in {"none", "ip", "error"} :
            [pods[n] EXCEPT !.rep = r, !.cur = c] \in PodStates
      <4>1. pods[n] \in PodStates /\ config \in OrNil(Ports)
        BY <1>a
      <4> QED
        BY <4>1, PodTyped
    <3>2. \E r \in BOOLEAN, c \in {"none", "ip", "error"} :
            pods' = [pods EXCEPT ![n] = [pods[n] EXCEPT !.rep = r, !.cur = c]]
      <4>1. CASE ProvisionIPRead(n) /\ server.phase = "gone"
        <5>1. pods[n].cur = "none" /\ pods' = [pods EXCEPT ![n].rep = n \in addr]
          BY <4>1 DEF ProvisionIPRead
        <5>2. pods' = [pods EXCEPT ![n] = [pods[n] EXCEPT !.rep = n \in addr, !.cur = "none"]]
          BY <5>1, <1>a DEF PodStates
        <5>3. (n \in addr) \in BOOLEAN
          OBVIOUS
        <5> QED
          BY <5>2, <5>3, Zenon
      <4>2. CASE ProvisionIPRead(n) /\ server.phase # "gone"
        <5>1. PICK c \in {"ip", "error"} : pods' = [pods EXCEPT ![n].cur = c]
          BY <4>2 DEF ProvisionIPRead
        <5>2. pods' = [pods EXCEPT ![n] = [pods[n] EXCEPT !.rep = pods[n].rep, !.cur = c]]
          BY <5>1, <1>a DEF PodStates
        <5>3. pods[n].rep \in BOOLEAN
          BY <1>a DEF PodStates
        <5> QED
          BY <5>2, <5>3
      <4>3. CASE ProvisionIPUpdate(n)
        <5>1. PICK r \in BOOLEAN : pods' = [pods EXCEPT ![n].cur = "none", ![n].rep = r]
          BY <4>3 DEF ProvisionIPUpdate
        <5>2. pods' = [pods EXCEPT ![n] = [pods[n] EXCEPT !.rep = r, !.cur = "none"]]
          BY <5>1, <1>a DEF PodStates
        <5> QED
          BY <5>2
      <4> QED
        BY <2>1, <4>1, <4>2, <4>3
    <3> QED
      BY <3>1, <3>2, <1>a
  <2>3. server' \in Servers
    <3>1. Reports(n) \/ UNCHANGED server
      BY <2>1 DEF ProvisionIPRead, ProvisionIPUpdate
    <3> QED
      BY <3>1, <1>a, ReportTyped
  <2>4. wake' \in BOOLEAN /\ clean' \in SUBSET (Nodes \cup {"job"})
    BY <2>1, <1>a, <1>b DEF ProvisionIPRead, ProvisionIPUpdate
  <2>5. UNCHANGED <<job, addr, config, dep, worker, base, inst, events>>
    BY <2>1 DEF ProvisionIPRead, ProvisionIPUpdate, Agents
  <2> QED
    BY <2>2, <2>3, <2>4, <2>5, <1>a
<1>7. CASE ChecksumAgent
  <2>1. job.st # "none" /\ job.image \in Images
    BY <1>7, <1>a DEF ChecksumAgent, ChecksumRead, ChecksumUpdate, ChecksumJobDone
  <2>2. \A st \in {"running", "updating", "reported", "done", "failed"} :
          [job EXCEPT !.st = st] \in Jobs /\ [job EXCEPT !.st = st].image = job.image
    BY <1>a DEF Jobs
  <2>3. job' \in Jobs /\ job'.image \in Images
    BY <1>7, <2>1, <2>2 DEF ChecksumAgent, ChecksumRead, ChecksumUpdate, ChecksumJobDone
  <2>4. server' \in Servers
    <3>1. \A t \in ChecksumTypes : [server EXCEPT !.sum = <<job.image, t>>] \in Servers
      BY <1>a, <2>1 DEF Servers, OrNil
    <3>2. Checksums[job.image] \subseteq ChecksumTypes
      BY <2>1, ServerAssumption
    <3> QED
      BY <1>7, <1>a, <3>1, <3>2 DEF ChecksumAgent, ChecksumRead, ChecksumUpdate, ChecksumJobDone
  <2>5. wake' \in BOOLEAN /\ clean' \in SUBSET (Nodes \cup {"job"})
    BY <1>7, <1>a, <1>b DEF ChecksumAgent, ChecksumRead, ChecksumUpdate, ChecksumJobDone
  <2>6. UNCHANGED <<pods, addr, config, dep, worker, base, inst, events>>
    BY <1>7 DEF ChecksumAgent, ChecksumRead, ChecksumUpdate, ChecksumJobDone, Agents
  <2> QED
    BY <2>3, <2>4, <2>5, <2>6, <1>a
<1> QED
  BY <1>1, <1>2, <1>3, <1>4, <1>5, <1>6, <1>7

(* Every step keeps the typing.                                            *)
LEMMA NextTyped == Typed /\ [Next]_vars => Typed'
<1> SUFFICES ASSUME Typed, [Next]_vars PROVE Typed'
  OBVIOUS
<1>1. CASE UNCHANGED vars
  BY <1>1 DEF Typed, TypeOK, vars
<1>2. CASE Next
  BY <1>2, ReconcilerTyped, WorldTyped DEF Next, System, Failures
<1> QED
  BY <1>1, <1>2

-----------------------------------------------------------------------------
(* What a step does to the server.                                         *)

(* Only the final patch touches the finalizer, the recorded job or, with   *)
(* the users, the phase; nothing takes a reported file name away.          *)
ServerStep ==
  \/ server' = server
  \/ PatchInstance
  \/ /\ worker' = worker /\ inst' = inst /\ base' = base
     /\ server'.final = server.final /\ server'.jobHash = server.jobHash
     /\ server.sum # Nil => server'.sum # Nil
     /\ server.phase = "gone" => server'.phase = "gone"
     /\ server'.phase = "gone" => server.phase = "gone" \/ ~server.final

(* Every step is one of these.                                             *)
LEMMA ServerSteps == Typed /\ [Next]_vars => ServerStep
<1> SUFFICES ASSUME Typed, [Next]_vars PROVE ServerStep
  OBVIOUS
<1>a. server \in Servers
  BY DEF Typed, TypeOK
<1>1. CASE Reconciler
  BY <1>1 DEF Reconciler, ReconcileSkips, ReconcileInitialises, ReconcileDelete,
     ReconcileNormal, Take, GenerateServiceConfigMaps, Deploy, LocalImageURL,
     NoPodPanics, JobRecorded, JobStarted, JobAwaited, JobFinished, ChecksumURL,
     PatchNotFound, ServerStep
<1>2. CASE DeploymentController \/ Kubelet \/ Failures
  BY <1>2 DEF DeploymentController, DeploymentObserved, DeploymentCounted, Kubelet,
     PodCreated, PodRuns, PodGone, Failures, ConfigMapsFail, ApiError, PatchFails,
     ManagerRestarts, PodEvicted, AddressChanges, Cluster, ServerStep
<1>3. CASE IPAgent
  <2>1. PICK n \in Nodes : ProvisionIPRead(n) \/ ProvisionIPUpdate(n)
    BY <1>3 DEF IPAgent
  <2>2. UNCHANGED server \/ Reports(n)
    BY <2>1 DEF ProvisionIPRead, ProvisionIPUpdate
  <2>3. UNCHANGED <<worker, base, inst>>
    BY <2>1 DEF ProvisionIPRead, ProvisionIPUpdate, Agents
  <2>4. ASSUME Reports(n)
        PROVE  /\ server'.final = server.final /\ server'.jobHash = server.jobHash
               /\ server'.sum = server.sum /\ server'.phase = server.phase
    BY <2>4, <1>a DEF Reports, Servers
  <2> QED
    BY <2>2, <2>3, <2>4 DEF ServerStep
<1>4. CASE ChecksumAgent
  <2>1. UNCHANGED server \/ ChecksumUpdate
    BY <1>4 DEF ChecksumAgent, ChecksumRead, ChecksumJobDone
  <2>2. ASSUME ChecksumUpdate, server' # server
        PROVE  /\ server'.final = server.final /\ server'.jobHash = server.jobHash
               /\ server'.sum # Nil /\ server'.phase = server.phase
    <3>1. job.image \in Images /\ Checksums[job.image] \subseteq ChecksumTypes
      BY <2>2, ServerAssumption DEF ChecksumUpdate, Typed
    <3>2. PICK t \in Checksums[job.image] : server' = [server EXCEPT !.sum = <<job.image, t>>]
      BY <2>2 DEF ChecksumUpdate
    <3>3. <<job.image, t>> # Nil
      BY <3>1, <3>2, ServerAssumption
    <3> QED
      BY <3>2, <3>3, <1>a DEF Servers
  <2>3. UNCHANGED <<worker, base, inst>>
    BY <1>4 DEF ChecksumAgent, ChecksumRead, ChecksumUpdate, ChecksumJobDone, Agents
  <2> QED
    BY <2>1, <2>2, <2>3 DEF ServerStep
<1>5. CASE Users
  <2>1. PICK new : /\ UserWrites(new)
                   /\ new.final = server.final /\ new.jobHash = server.jobHash
                   /\ new.sum = server.sum
                   /\ server.phase = "gone" => new.phase = "gone"
                   /\ new.phase = "gone" => server.phase = "gone" \/ ~server.final
    <3>1. CASE UpdateServer
      <4>1. PICK spec : UserWrites([server EXCEPT !.spec = spec])
        BY <3>1 DEF UpdateServer
      <4>2. /\ [server EXCEPT !.spec = spec].final = server.final
            /\ [server EXCEPT !.spec = spec].jobHash = server.jobHash
            /\ [server EXCEPT !.spec = spec].sum = server.sum
            /\ [server EXCEPT !.spec = spec].phase = server.phase
        BY <1>a DEF Servers
      <4> QED
        BY <4>1, <4>2
    <3>2. CASE PauseServer
      <4>1. UserWrites([server EXCEPT !.paused = ~@])
        BY <3>2 DEF PauseServer
      <4>2. /\ [server EXCEPT !.paused = ~@].final = server.final
            /\ [server EXCEPT !.paused = ~@].jobHash = server.jobHash
            /\ [server EXCEPT !.paused = ~@].sum = server.sum
            /\ [server EXCEPT !.paused = ~@].phase = server.phase
        BY <1>a DEF Servers
      <4> QED
        BY <4>1, <4>2
    <3>3. CASE DeleteServer
      <4> DEFINE q == IF server.final THEN "deleting" ELSE "gone"
      <4>1. UserWrites([server EXCEPT !.phase = q]) /\ server.phase = "live"
        BY <3>3 DEF DeleteServer
      <4>2. q = "gone" => ~server.final
        OBVIOUS
      <4> HIDE DEF q
      <4>3. /\ [server EXCEPT !.phase = q].final = server.final
            /\ [server EXCEPT !.phase = q].jobHash = server.jobHash
            /\ [server EXCEPT !.phase = q].sum = server.sum
            /\ [server EXCEPT !.phase = q].phase = q
        BY <1>a DEF Servers
      <4> QED
        BY <4>1, <4>2, <4>3
    <3> QED
      BY <1>5, <3>1, <3>2, <3>3 DEF Users
  <2> QED
    BY <2>1 DEF UserWrites, ServerStep
<1>6. CASE UNCHANGED vars
  BY <1>6 DEF vars, ServerStep
<1> QED
  BY <1>1, <1>2, <1>3, <1>4, <1>5, <1>6 DEF Next, System

-----------------------------------------------------------------------------
(* Nothing is done for a server that is gone.                              *)

(* Reconcile gets to writing only from a server that has its finalizer.    *)
LEMMA BusyStep == Typed /\ [Next]_vars /\ worker'.pc \in Busy =>
                    worker.pc \in Busy \/ (ReconcileNormal /\ server' = server)
<1> SUFFICES ASSUME Typed, [Next]_vars, worker'.pc \in Busy, worker.pc \notin Busy
             PROVE  ReconcileNormal /\ server' = server
  OBVIOUS
<1>a. worker \in Workers
  BY DEF Typed, TypeOK, Workers
<1>b. worker' # worker
  OBVIOUS
<1>1. CASE Reconciler
  <2>1. \/ ReconcileNormal \/ Return \/ \E again \in BOOLEAN : Leave(again)
        \/ worker' = worker
        \/ worker.pc \in Busy
    BY <1>1 DEF Reconciler, ReconcileSkips, ReconcileInitialises, ReconcileDelete,
       GenerateServiceConfigMaps, Deploy, LocalImageURL, NoPodPanics, JobRecorded,
       JobStarted, JobAwaited, JobFinished, ChecksumURL, PatchNotFound, PatchInstance, Busy
  <2>2. ASSUME NEW again \in BOOLEAN, Leave(again) PROVE FALSE
    BY <2>2, LeaveTyped DEF Busy
  <2>3. ASSUME Return PROVE FALSE
    BY <2>3, ReturnTyped DEF Busy
  <2> QED
    BY <2>1, <2>2, <2>3, <1>b DEF ReconcileNormal, Take
<1>2. CASE Failures
  <2>1. \/ Return \/ worker' = worker \/ worker.pc \in Busy
    BY <1>2 DEF Failures, ConfigMapsFail, ApiError, PatchFails, ManagerRestarts,
       PodEvicted, AddressChanges, Cluster, Busy
  <2>2. ASSUME Return PROVE FALSE
    BY <2>2, ReturnTyped DEF Busy
  <2> QED
    BY <2>1, <2>2, <1>b
<1>3. CASE DeploymentController \/ Kubelet \/ IPAgent \/ ChecksumAgent \/ Users
  BY <1>3, <1>b DEF DeploymentController, DeploymentObserved, DeploymentCounted,
     Kubelet, PodCreated, PodRuns, PodGone, Cluster, IPAgent, ProvisionIPRead,
     ProvisionIPUpdate, ChecksumAgent, ChecksumRead, ChecksumUpdate, ChecksumJobDone,
     Agents, Users, UpdateServer, PauseServer, DeleteServer, UserWrites
<1>4. CASE UNCHANGED vars
  BY <1>4, <1>b DEF vars
<1> QED
  BY <1>1, <1>2, <1>3, <1>4 DEF Next, System

(* The finalizer holds the server while Reconcile writes.                  *)
LEMMA NextHeld == Typed /\ Held /\ [Next]_vars => Held'
<1> SUFFICES ASSUME Typed, Held, [Next]_vars, worker'.pc \in Busy
             PROVE  server'.final /\ server'.phase # "gone"
  BY DEF Held
<1>1. CASE ReconcileNormal /\ server' = server
  BY <1>1 DEF ReconcileNormal
<1>2. CASE worker.pc \in Busy
  <2>1. server.final /\ server.phase # "gone"
    BY <1>2 DEF Held
  <2>2. ~PatchInstance
    BY <1>2 DEF PatchInstance, Busy
  <2> QED
    BY <2>1, <2>2, ServerSteps DEF ServerStep
<1> QED
  BY <1>1, <1>2, BusyStep

(* With the finalizer held, what is kept for the server changes only while *)
(* the server is there.                                                    *)
LEMMA HeldStep ==
  Typed /\ Held /\ Next /\ server.phase = "gone" =>
    config' = config /\ dep'.image = dep.image /\ dep'.main = dep.main
      /\ job'.image = job.image
<1> SUFFICES ASSUME Typed, Held, Next, server.phase = "gone"
             PROVE  /\ config' = config /\ job'.image = job.image
                    /\ dep'.image = dep.image /\ dep'.main = dep.main
  OBVIOUS
<1>a. worker.pc \notin Busy
  BY DEF Held
<1>b. /\ \A b : /\ [dep EXCEPT !.seen = b].image = dep.image
                /\ [dep EXCEPT !.seen = b].main = dep.main
                /\ [dep EXCEPT !.ready = b].image = dep.image
                /\ [dep EXCEPT !.ready = b].main = dep.main
      /\ \A st : [job EXCEPT !.st = st].image = job.image
  BY DEF Typed, TypeOK, Deployments, Jobs
<1>1. CASE Reconciler
  BY <1>1, <1>a DEF Busy, Reconciler, ReconcileSkips, ReconcileInitialises,
     ReconcileDelete, ReconcileNormal, Take, GenerateServiceConfigMaps, Deploy,
     LocalImageURL, NoPodPanics, JobRecorded, JobStarted, JobAwaited, JobFinished,
     ChecksumURL, PatchInstance, PatchNotFound, world
<1>2. CASE DeploymentController
  <2>1. \E b : dep' = [dep EXCEPT !.seen = b] \/ dep' = [dep EXCEPT !.ready = b]
    BY <1>2 DEF DeploymentController, DeploymentObserved, DeploymentCounted
  <2>2. UNCHANGED <<config, job>>
    BY <1>2 DEF DeploymentController, DeploymentObserved, DeploymentCounted, Cluster
  <2> QED
    BY <2>1, <2>2, <1>b
<1>3. CASE ChecksumAgent
  <2>1. \E st : job' = [job EXCEPT !.st = st]
    BY <1>3 DEF ChecksumAgent, ChecksumRead, ChecksumUpdate, ChecksumJobDone
  <2>2. UNCHANGED <<config, dep>>
    BY <1>3 DEF ChecksumAgent, ChecksumRead, ChecksumUpdate, ChecksumJobDone, Agents
  <2> QED
    BY <2>1, <2>2, <1>b
<1>4. CASE Kubelet \/ IPAgent
  BY <1>4 DEF Kubelet, PodCreated, PodRuns, PodGone, Cluster, IPAgent,
     ProvisionIPRead, ProvisionIPUpdate, Agents
<1>5. CASE Failures \/ Users
  BY <1>5 DEF Failures, ConfigMapsFail, ApiError, PatchFails, ManagerRestarts,
     PodEvicted, AddressChanges, Cluster, Users, UpdateServer, PauseServer,
     DeleteServer, UserWrites
<1> QED
  BY <1>1, <1>2, <1>3, <1>4, <1>5 DEF Next, System

(* Every variable of the provisioning server's controller, agents and      *)
(* objects keeps its type.                                                 *)
THEOREM ServerTypeCorrect == Spec => []TypeOK
<1>1. Typed => TypeOK
  BY DEF Typed
<1> QED
  BY <1>1, InitTyped, NextTyped, PTL DEF Spec

(* Reconcile saves the finalizer before it creates anything, and goes on   *)
(* only from a copy that has it: no config map, Deployment or job is       *)
(* created or changed for a server that is gone.                           *)
THEOREM NothingForTheGone == Spec => NothingAfterGone
<1>1. Init => Held
  BY DEF Init, Held, Idle, Busy
<1>2. Typed /\ Held /\ [Next]_vars =>
        [server.phase = "gone" =>
           config' = config /\ dep'.image = dep.image /\ dep'.main = dep.main
             /\ job'.image = job.image]_vars
  BY HeldStep DEF vars
<1> QED
  BY <1>1, <1>2, InitTyped, NextTyped, NextHeld, PTL DEF Spec, NothingAfterGone

-----------------------------------------------------------------------------
(* A job is recorded only after its agent has reported.                    *)

(* Where the copy Reconcile works on gets a recorded job from.             *)
LEMMA RecordStep ==
  Typed /\ [Next]_vars /\ worker'.pc # "idle" /\ inst'.jobHash # Nil =>
    \/ worker.pc # "idle" /\ inst.jobHash # Nil
    \/ server.jobHash # Nil
    \/ JobFinished
<1> SUFFICES ASSUME Typed, [Next]_vars, worker'.pc # "idle", inst'.jobHash # Nil,
                    ~JobFinished
             PROVE  (worker.pc # "idle" /\ inst.jobHash # Nil) \/ server.jobHash # Nil
  OBVIOUS
<1>a. server \in Servers /\ (worker.pc # "idle" => inst \in Servers)
  BY DEF Typed, TypeOK
<1>1. CASE inst' = inst /\ worker' = worker
  BY <1>1
<1>2. CASE Return
  BY <1>2, ReturnTyped
<1>3. CASE ReconcileInitialises \/ ReconcileDelete \/ ReconcileNormal
  <2>1. inst'.jobHash = server.jobHash
    BY <1>3, <1>a DEF ReconcileInitialises, ReconcileDelete, ReconcileNormal, Servers
  <2> QED
    BY <2>1
<1>4. CASE GenerateServiceConfigMaps \/ ConfigMapsFail \/ Deploy \/ LocalImageURL
             \/ ChecksumURL \/ ApiError
  <2>1. worker.pc # "idle"
    BY <1>4 DEF GenerateServiceConfigMaps, ConfigMapsFail, Deploy, LocalImageURL,
       ChecksumURL, ApiError
  <2>2. inst'.jobHash = inst.jobHash
    BY <1>4, <2>1, <1>a DEF GenerateServiceConfigMaps, ConfigMapsFail, InputHash, Deploy,
       LocalImageURL, ChecksumURL, ApiError, Servers
  <2> QED
    BY <2>1, <2>2
<1>5. CASE JobRecorded \/ JobStarted \/ JobAwaited
  BY <1>5 DEF JobRecorded, JobStarted, JobAwaited
<1>6. CASE Reconciler
  BY <1>1, <1>2, <1>3, <1>4, <1>5, <1>6 DEF Reconciler, ReconcileSkips, NoPodPanics,
     PatchInstance, PatchNotFound
<1>7. CASE Failures
  BY <1>1, <1>2, <1>4, <1>7 DEF Failures, PatchFails, ManagerRestarts, PodEvicted,
     AddressChanges, Cluster
<1>8. CASE DeploymentController \/ Kubelet \/ IPAgent \/ ChecksumAgent \/ Users
  BY <1>1, <1>8 DEF DeploymentController, DeploymentObserved, DeploymentCounted,
     Kubelet, PodCreated, PodRuns, PodGone, Cluster, IPAgent, ProvisionIPRead,
     ProvisionIPUpdate, ChecksumAgent, ChecksumRead, ChecksumUpdate, ChecksumJobDone,
     Agents, Users, UpdateServer, PauseServer, DeleteServer, UserWrites
<1> QED
  BY <1>1, <1>6, <1>7, <1>8 DEF Next, System, vars

(* What is saved is from the server or from the copy, and a reported file  *)
(* name stays.                                                             *)
LEMMA SavedFields ==
  ASSUME Typed, PatchInstance
  PROVE  /\ server'.jobHash \in {server.jobHash, inst.jobHash}
         /\ server'.sum = server.sum
         /\ server.phase # "gone"
BY DEF Typed, TypeOK, PatchInstance, Saved, Patch, Servers

(* An agent that is done has reported, or found the server gone.           *)
LEMMA DoneStep ==
  ASSUME Typed, [Next]_vars, server'.phase # "gone", job'.st \in {"reported", "done"}
  PROVE  \/ job.st \in {"reported", "done"} /\ server.phase # "gone"
         \/ server'.sum # Nil
<1>a. server.phase # "gone"
  BY ServerSteps, SavedFields DEF ServerStep
<1>b. job \in Jobs
  BY DEF Typed, TypeOK
<1>1. CASE job' = job
  BY <1>1, <1>a
<1>2. CASE Reconciler
  <2>1. job' = job \/ job' = NoJob \/ \E i : job' = [image |-> i, st |-> "running"]
    BY <1>2 DEF Reconciler, ReconcileSkips, ReconcileInitialises, ReconcileDelete,
       ReconcileNormal, Take, GenerateServiceConfigMaps, Deploy, LocalImageURL,
       NoPodPanics, JobRecorded, JobStarted, JobAwaited, JobFinished, ChecksumURL,
       PatchInstance, PatchNotFound, world
  <2> QED
    BY <2>1, <1>1 DEF NoJob
<1>3. CASE ChecksumAgent
  <2>1. CASE ChecksumRead
    <3>1. job'.st \in {"failed", "updating"}
      BY <2>1, <1>a, <1>b DEF ChecksumRead, Jobs
    <3> QED
      BY <3>1
  <2>2. CASE ChecksumUpdate
    <3>1. job'.st = "running" \/ \E t \in Checksums[job.image] :
            server' = [server EXCEPT !.sum = <<job.image, t>>]
      BY <2>2, <1>b DEF ChecksumUpdate, Jobs
    <3>2. job.image \in Images /\ Checksums[job.image] \subseteq ChecksumTypes
      BY <2>2, ServerAssumption DEF ChecksumUpdate, Typed
    <3>3. ASSUME NEW t \in Checksums[job.image],
                 server' = [server EXCEPT !.sum = <<job.image, t>>]
          PROVE  server'.sum # Nil
      <4>1. <<job.image, t>> # Nil
        BY <3>2, ServerAssumption
      <4>2. server'.sum = <<job.image, t>>
        BY <3>3 DEF Typed, TypeOK, Servers
      <4> QED
        BY <4>1, <4>2
    <3> QED
      BY <3>1, <3>3
  <2>3. CASE ChecksumJobDone
    BY <2>3, <1>a DEF ChecksumJobDone
  <2> QED
    BY <1>3, <2>1, <2>2, <2>3 DEF ChecksumAgent
<1>4. CASE DeploymentController \/ Kubelet \/ IPAgent \/ Users \/ Failures
  BY <1>1, <1>4 DEF DeploymentController, DeploymentObserved, DeploymentCounted,
     Kubelet, PodCreated, PodRuns, PodGone, Cluster, IPAgent, ProvisionIPRead,
     ProvisionIPUpdate, Users, UpdateServer, PauseServer, DeleteServer, UserWrites,
     Failures, ConfigMapsFail, ApiError, PatchFails, ManagerRestarts, PodEvicted,
     AddressChanges
<1> QED
  BY <1>1, <1>2, <1>3, <1>4 DEF Next, System, vars

(* Every step keeps what is recorded behind what is reported.              *)
LEMMA NextReported == Typed /\ Held /\ Reported /\ [Next]_vars => Reported'
<1> SUFFICES ASSUME Typed, Held, Reported, [Next]_vars PROVE Reported'
  OBVIOUS
<1>a. server.sum # Nil => server'.sum # Nil
  BY ServerSteps, SavedFields DEF ServerStep
<1>1. server'.phase # "gone" /\ job'.st \in {"reported", "done"} => server'.sum # Nil
  BY <1>a, DoneStep DEF Reported
<1>2. server'.jobHash # Nil => server'.sum # Nil
  <2>1. CASE PatchInstance
    BY <2>1, <1>a, SavedFields DEF PatchInstance, Reported
  <2>2. CASE ~PatchInstance
    BY <2>2, <1>a, ServerSteps DEF ServerStep, Reported
  <2> QED
    BY <2>1, <2>2
<1>3. worker'.pc # "idle" /\ inst'.jobHash # Nil => server'.sum # Nil
  <2>1. CASE JobFinished
    BY <2>1, <1>a DEF JobFinished, Held, Busy, Reported
  <2> QED
    BY <2>1, <1>a, RecordStep DEF Reported
<1> QED
  BY <1>1, <1>2, <1>3 DEF Reported

(* DoJob's hash enters the status only after the checksum agent's own      *)
(* update of it, through every conflict, crash, panic and failed patch.    *)
THEOREM RecordedIsReported == Spec => []RecordedAfterReported
<1>1. Init => Held /\ Reported
  BY DEF Init, Held, Reported, Idle, Busy, NewServer, NoJob
<1>2. Reported => RecordedAfterReported
  BY DEF Reported, RecordedAfterReported
<1> QED
  BY <1>1, <1>2, InitTyped, NextTyped, NextHeld, NextReported, PTL DEF Spec

=============================================================================
