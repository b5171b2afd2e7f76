---------------------------- MODULE BaremetalSet ----------------------------
(***************************************************************************)
(* The OpenStackBaremetalSet controller: one worker reconciles the sets    *)
(* against the pool of Metal3 BareMetalHosts (BMHs), reading from informer *)
(* caches and writing to the API server one request at a time, while       *)
(* users, Metal3 and faults interleave with its steps.                     *)
(*                                                                         *)
(* The API server's objects are bmh, osbms and secrets.  bmhCache and      *)
(* osbmsCache are what the manager's client returns for Get and List.      *)
(* worker, base and inst are the local state of the reconcile in progress: *)
(* base is the instance as it was read, inst the copy being changed.       *)
(*                                                                         *)
(* Definitions marked "Variant" are plausible mistakes in the definition   *)
(* after them.  No specification uses them: TLC is run with one of them in *)
(* its place to see that a property would notice.                          *)
(***************************************************************************)
EXTENDS Naturals, FiniteSets, Functions

CONSTANTS
    Sets,       \* OpenStackBaremetalSets
    Hosts,      \* keys of spec.baremetalHosts
    BMHs,       \* names of BareMetalHosts; may overlap with Hosts
    Images,     \* image URLs with their checksum
    Nil,        \* absent value
    Other,      \* a consumer that is not an OpenStackBaremetalSet
    Fits,       \* Fits[s][h]: the BMHs that pass the static filters for host h
    Foreign,    \* BMHs that Other consumes
    Custom,     \* hosts that bring their own userData and networkData secrets
    BadIP,      \* hosts whose ctlPlaneIP is not a CIDR
    HostMaps,   \* HostMaps[s]: the values users give to spec.baremetalHosts
    Skip,       \* sets with the skip-validation annotation
    Pausable,   \* sets that users may pause
    Volatile,   \* sets whose inputs may come and go
    Faults,     \* the faults that may happen
    MaxGen,     \* bound on metadata.generation
    MaxFaults   \* bound on the number of faults other than stale reads

FaultKinds == {"stale", "crash", "api", "bmhdel"}

ASSUME ConstantsAssumption ==
    /\ Nil \notin Sets \cup Hosts \cup BMHs \cup Images
    /\ Other \notin Sets \cup {Nil}
    /\ Fits \in [Sets -> [Hosts -> SUBSET BMHs]]
    /\ Foreign \subseteq BMHs
    /\ Custom \subseteq Hosts /\ BadIP \subseteq Hosts
    /\ HostMaps \in [Sets -> SUBSET SUBSET Hosts]
    /\ Skip \subseteq Sets /\ Pausable \subseteq Sets /\ Volatile \subseteq Sets
    /\ Faults \subseteq FaultKinds
    /\ MaxGen \in Nat /\ MaxFaults \in Nat

VARIABLES
    bmh, bmhCache, osbms, osbmsCache, secrets,
    source,     \* image each set's hosts boot from; Nil while an input is missing
    queue,      \* the controller's work queue
    worker, base, inst,
    faults      \* faults so far

api == <<bmh, osbms, secrets, source>>
caches == <<bmhCache, osbmsCache>>
local == <<worker, base, inst>>
vars == <<bmh, bmhCache, osbms, osbmsCache, secrets, source, queue,
          worker, base, inst, faults>>

-----------------------------------------------------------------------------
(* Objects. *)

\* Provisioning states the code tells apart: Available, Provisioned, any other.
BmhStates == {"available", "busy", "provisioned"}

\* owner stands for the three owner labels, label[s] for the label whose key
\* is "<s>-osbms-hostname".  online, userData and networkData are written
\* together with consumer.
BareMetalHost ==
    [exists : BOOLEAN, owner : Sets \cup {Nil},
     label : [Sets -> Hosts \cup {Nil}], consumer : Sets \cup {Nil, Other},
     image : Images \cup {Nil}, state : BmhStates]

\* cond abstracts status.conditions: nil, Ready not True, Ready True.
\* ref and st are the bmhRef and provisioningState of status.baremetalHosts.
OpenStackBaremetalSet ==
    [phase : {"absent", "live", "deleting", "gone"}, paused : BOOLEAN,
     hosts : SUBSET Hosts, gen : Nat, final : BOOLEAN,
     cond : {"none", "pending", "ready"}, obs : Nat,
     ref : [Hosts -> BMHs \cup {Nil}], st : [Hosts -> BmhStates \cup {Nil}]]

Worker ==
    [pc : {"idle", "release", "secrets", "provision", "bmh", "patch"},
     set : Sets \cup {Nil}, img : Images \cup {Nil},
     todo : SUBSET (BMHs \X (Hosts \cup {Nil})),
     plan : [Hosts -> BMHs \cup {Nil}], cur : Hosts \cup {Nil},
     again : BOOLEAN]

NoHosts == [h \in Hosts |-> Nil]

NoSet == [phase |-> "absent", paused |-> FALSE, hosts |-> {}, gen |-> 0,
          final |-> FALSE, cond |-> "none", obs |-> 0,
          ref |-> NoHosts, st |-> NoHosts]

Idle == [pc |-> "idle", set |-> Nil, img |-> Nil, todo |-> {},
         plan |-> NoHosts, cur |-> Nil, again |-> FALSE]

Keys(ref) == {h \in Hosts : ref[h] # Nil}

Init ==
    /\ bmh = [b \in BMHs |->
                [exists |-> TRUE, owner |-> Nil,
                 label |-> [s \in Sets |-> Nil],
                 consumer |-> IF b \in Foreign THEN Other ELSE Nil,
                 image |-> Nil, state |-> "available"]]
    /\ bmhCache = bmh
    /\ osbms = [s \in Sets |-> NoSet]
    /\ osbmsCache = osbms
    /\ secrets = {}
    /\ source \in [Sets -> Images \cup {Nil}]
    /\ \A s \in Sets \ Volatile : source[s] # Nil
    /\ queue = {}
    /\ worker = Idle
    /\ base = NoSet
    /\ inst = NoSet
    /\ faults = 0

\* Without the fault "stale" the informers catch up before anything else happens.
Fresh == "stale" \in Faults \/ (bmhCache = bmh /\ osbmsCache = osbms)

\* A merge patch computed between before and after, applied to current.
Patch(before, after, current) == IF after = before THEN current ELSE after

-----------------------------------------------------------------------------
(* Choosing hosts. *)

\* The BMHs of a list that carry the owner labels of s.
Owned(s, list) == {b \in BMHs : list[b].exists /\ list[b].owner = s}

\* Variant: image and consumerRef are not looked at.
AvailableByState(list) == {b \in BMHs : list[b].exists /\ list[b].state = "available"}

\* Variant: a BMH that Metal3 still cleans counts as available.
AvailableUncleaned(list) ==
    {b \in BMHs : list[b].exists /\ list[b].image = Nil /\ list[b].consumer = Nil}

Available(list) ==
    {b \in BMHs : /\ list[b].exists
                  /\ list[b].state = "available"
                  /\ list[b].image = Nil
                  /\ list[b].consumer = Nil}

\* Variant: bmhLabelSelector and hardwareReqs are not looked at.
AnyAssignments(s, new, list) == Injection(new, Available(list))

\* All ways to give every new host an available BMH of its own that fits.
Assignments(s, new, list) ==
    {m \in Injection(new, Available(list)) : \A h \in new : m[h] \in Fits[s][h]}

\* bmhRefs of BMHs that are gone are dropped from the status.
VerifyAndSyncBaremetalStatusBmhRefs(ref, list) ==
    [h \in Hosts |-> IF ref[h] # Nil /\ list[ref[h]].exists THEN ref[h] ELSE Nil]

\* Variant: every host of the spec counts as new.
AllComputes(hosts, ref) == hosts

NewComputes(hosts, ref) == hosts \ Keys(ref)

VerifyBaremetalSetScaleUp(s, hosts, ref, list) ==
    Assignments(s, NewComputes(hosts, ref), list)

\* Which BMH the map keeps for a host name that several BMHs carry depends on
\* the order of the list.
BuildExistingHostBMHMap(s, list) ==
    LET named == {b \in Owned(s, list) : list[b].label[s] # Nil}
    IN  {m \in [{list[b].label[s] : b \in named} -> named] :
            \A h \in DOMAIN m : list[m[h]].label[s] = h}

\* util.MergeMaps keeps the first map's value for a key of both.
MergeMaps(first, second) ==
    [h \in Hosts |-> IF h \in DOMAIN first THEN first[h]
                     ELSE IF h \in DOMAIN second THEN second[h] ELSE Nil]

-----------------------------------------------------------------------------
(* Users and admission. *)

ValidateCreate(s, hosts) ==
    s \in Skip \/ VerifyBaremetalSetScaleUp(s, hosts, NoHosts, bmhCache) # {}

ValidateUpdate(s, hosts) ==
    \/ s \in Skip
    \/ Cardinality(hosts) <= Cardinality(osbms[s].hosts)
    \/ VerifyBaremetalSetScaleUp(s, hosts,
         VerifyAndSyncBaremetalStatusBmhRefs(osbms[s].ref, bmhCache), bmhCache) # {}

CreateSet(s) ==
    \E hosts \in HostMaps[s] :
        /\ Fresh
        /\ osbms[s].phase = "absent"
        /\ ValidateCreate(s, hosts)
        /\ osbms' = [osbms EXCEPT ![s] =
                        [NoSet EXCEPT !.phase = "live", !.hosts = hosts, !.gen = 1]]
        /\ UNCHANGED <<bmh, secrets, source, caches, queue, local, faults>>

UpdateSet(s) ==
    \E hosts \in HostMaps[s] \ {osbms[s].hosts} :
        /\ Fresh
        /\ osbms[s].phase = "live"
        /\ osbms[s].gen < MaxGen
        /\ ValidateUpdate(s, hosts)
        /\ osbms' = [osbms EXCEPT ![s].hosts = hosts, ![s].gen = @ + 1]
        /\ UNCHANGED <<bmh, secrets, source, caches, queue, local, faults>>

\* The object stays, marked for deletion, as long as it has a finalizer.
DeleteSet(s) ==
    /\ Fresh
    /\ osbms[s].phase = "live"
    /\ osbms' = [osbms EXCEPT ![s].phase =
                    IF osbms[s].final THEN "deleting" ELSE "gone"]
    /\ UNCHANGED <<bmh, secrets, source, caches, queue, local, faults>>

PauseSet(s) ==
    /\ Fresh
    /\ s \in Pausable
    /\ osbms[s].phase = "live"
    /\ osbms' = [osbms EXCEPT ![s].paused = ~@]
    /\ UNCHANGED <<bmh, secrets, source, caches, queue, local, faults>>

\* SSH secret, password secret and provision server (or the PassThrough URL)
\* are all in place and yield this image, or one of them is missing (Nil).  Only
\* a provision server that the set owns is watched.
SourceChanges(s) ==
    \E i \in (Images \cup {Nil}) \ {source[s]} :
        /\ Fresh
        /\ s \in Volatile
        /\ source' = [source EXCEPT ![s] = i]
        /\ queue' \in {queue, queue \cup {s}}
        /\ UNCHANGED <<bmh, osbms, secrets, caches, local, faults>>

-----------------------------------------------------------------------------
(* Metal3 and the watches. *)

\* Metal3 provisions a host that has an image and cleans one that has none.
NextState(state, image) ==
    IF image = Nil
    THEN IF state = "provisioned" THEN "busy" ELSE "available"
    ELSE IF state = "available" THEN "busy" ELSE "provisioned"

Metal3Step(b) ==
    /\ Fresh
    /\ bmh[b].exists
    /\ NextState(bmh[b].state, bmh[b].image) # bmh[b].state
    /\ bmh' = [bmh EXCEPT ![b].state = NextState(@, bmh[b].image)]
    /\ UNCHANGED <<osbms, secrets, source, caches, queue, local, faults>>

\* The informer delivers a set, and For() enqueues it.
SyncSet(s) ==
    /\ osbmsCache[s] # osbms[s]
    /\ osbmsCache' = [osbmsCache EXCEPT ![s] = osbms[s]]
    /\ queue' = queue \cup {s}
    /\ UNCHANGED <<api, bmhCache, local, faults>>

\* Variant: updates are ignored, as creations are.
DeletePredicate(old, new) == ~new.exists

\* The watch on BMHs passes deletions, and updates that change the status.
StatusChangePredicate(old, new) == ~new.exists \/ old.state # new.state

\* Requests for the sets whose owner labels the old or the new object has.
BmhRequests(old, new) ==
    IF StatusChangePredicate(old, new)
    THEN {old.owner, new.owner} \cap Sets ELSE {}

SyncBmh(b) ==
    /\ bmhCache[b] # bmh[b]
    /\ bmhCache' = [bmhCache EXCEPT ![b] = bmh[b]]
    /\ queue' = queue \cup BmhRequests(bmhCache[b], bmh[b])
    /\ UNCHANGED <<api, osbmsCache, local, faults>>

-----------------------------------------------------------------------------
(* Reconcile: the steps up to the first write. *)

\* Variant: pausing also stops deletion.
PausedAlways(c) == c.paused

Paused(c) == c.paused /\ c.phase = "live"

\* isNewInstance, or a finalizer to add.
NeedsInit(c) == c.cond = "none" \/ (c.phase = "live" /\ ~c.final)

Take(s) ==
    /\ Fresh
    /\ worker.pc = "idle"
    /\ s \in queue
    /\ queue' = queue \ {s}
    /\ UNCHANGED <<api, caches, faults>>

\* Conditions are reset to Unknown and the generation is recorded as observed.
InitStatus(c) == [c EXCEPT !.cond = "pending", !.obs = c.gen]

ReconcileSkips(s) ==
    /\ Take(s)
    /\ osbmsCache[s].phase \in {"absent", "gone"} \/ Paused(osbmsCache[s])
    /\ UNCHANGED local

Reconciles(s) ==
    /\ Take(s)
    /\ osbmsCache[s].phase \in {"live", "deleting"}
    /\ ~Paused(osbmsCache[s])
    /\ base' = osbmsCache[s]

ReconcileInitialises(s) ==
    /\ Reconciles(s)
    /\ NeedsInit(osbmsCache[s])
    /\ inst' = [InitStatus(osbmsCache[s]) EXCEPT !.final = @ \/ osbmsCache[s].phase = "live"]
    /\ worker' = [Idle EXCEPT !.pc = "patch", !.set = s]

\* reconcileDelete walks the hosts of the status.
ReconcileDelete(s) ==
    /\ Reconciles(s)
    /\ ~NeedsInit(osbmsCache[s])
    /\ osbmsCache[s].phase = "deleting"
    /\ inst' = InitStatus(osbmsCache[s])
    /\ worker' = [Idle EXCEPT !.pc = "release", !.set = s,
                     !.todo = {<<osbmsCache[s].ref[h], h>> : h \in Keys(osbmsCache[s].ref)}]

\* reconcileNormal returns early, to be requeued, while an input is missing.
ReconcileWaits(s) ==
    /\ Reconciles(s)
    /\ ~NeedsInit(osbmsCache[s])
    /\ osbmsCache[s].phase = "live"
    /\ source[s] = Nil
    /\ inst' = InitStatus(osbmsCache[s])
    /\ worker' = [Idle EXCEPT !.pc = "patch", !.set = s, !.again = TRUE]

\* deleteBmh walks the owned BMHs whose host name is no longer in the spec.
ToDeprovision(s, hosts, list) ==
    {<<b, list[b].label[s]>> : b \in {b \in Owned(s, list) : list[b].label[s] \notin hosts}}

\* reconcileNormal up to the loop of deleteBmh.
ReconcileNormal(s) ==
    LET c == osbmsCache[s]
        ref == VerifyAndSyncBaremetalStatusBmhRefs(c.ref, bmhCache)
    IN  /\ Reconciles(s)
        /\ ~NeedsInit(c)
        /\ c.phase = "live"
        /\ source[s] # Nil
        /\ inst' = [InitStatus(c) EXCEPT !.ref = ref,
                      !.st = [h \in Hosts |-> IF ref[h] = Nil THEN Nil ELSE c.st[h]]]
        /\ worker' = [Idle EXCEPT !.pc = "release", !.set = s, !.img = source[s],
                         !.todo = ToDeprovision(s, c.hosts, bmhCache)]

-----------------------------------------------------------------------------
(* The writes of a reconcile. *)

At(pc) == Fresh /\ worker.pc = pc

\* Return an error: the deferred PatchInstance runs and the set is requeued.
ReturnError ==
    /\ worker' = [worker EXCEPT !.pc = "patch", !.again = TRUE]
    /\ UNCHANGED <<base, inst>>

\* reconcileDelete treats a NotFound error as success.
FinishDelete ==
    /\ inst' = [inst EXCEPT !.final = FALSE]
    /\ worker' = [worker EXCEPT !.pc = "patch"]
    /\ UNCHANGED base

\* The bmhRef of the status entry of the host being released: the zero value
\* if the status has no such entry.
BmhRef(t) == IF t[2] = Nil THEN Nil ELSE inst.ref[t[2]]

\* Neither the cached Get nor the write finds the BMH missing.
Found(b) == b # Nil /\ bmhCache[b].exists /\ bmh[b].exists

DeprovisionNotFound ==
    /\ At("release")
    /\ \E t \in worker.todo : ~Found(BmhRef(t))
    /\ IF inst.phase = "deleting" THEN FinishDelete ELSE ReturnError
    /\ UNCHANGED <<api, caches, queue, faults>>

\* Update carries the resourceVersion read from the cache.
DeprovisionConflict ==
    /\ At("release")
    /\ \E t \in worker.todo :
        Found(BmhRef(t)) /\ bmhCache[BmhRef(t)] # bmh[BmhRef(t)]
    /\ ReturnError
    /\ UNCHANGED <<api, caches, queue, faults>>

\* Variant: the owner labels stay.
ReleasedWithOwner(b, s) == [bmh[b] EXCEPT !.label[s] = Nil, !.consumer = Nil, !.image = Nil]

\* BaremetalHostDeprovision up to the Update of the BMH.
Released(b, s) == [bmh[b] EXCEPT !.owner = Nil, !.label[s] = Nil,
                                 !.consumer = Nil, !.image = Nil]

DeprovisionUpdate ==
    /\ At("release")
    /\ \E t \in worker.todo :
        /\ Found(BmhRef(t))
        /\ bmhCache[BmhRef(t)] = bmh[BmhRef(t)]
        /\ bmh' = [bmh EXCEPT ![BmhRef(t)] = Released(BmhRef(t), worker.set)]
        /\ worker' = [worker EXCEPT !.pc = "secrets", !.cur = t[2], !.todo = @ \ {t}]
    /\ UNCHANGED <<osbms, secrets, source, caches, queue, base, inst, faults>>

\* The rest of it: the secrets it deletes are named after the BMH.
SecretsToDelete(s, h) == {<<s, inst.ref[h]>>}

\* Variant: the status entry stays.
DeprovisionKeepsEntry ==
    /\ At("secrets")
    /\ secrets' = secrets \ SecretsToDelete(worker.set, worker.cur)
    /\ worker' = [worker EXCEPT !.pc = "release", !.cur = Nil]
    /\ UNCHANGED <<bmh, osbms, source, caches, queue, base, inst, faults>>

DeprovisionSecrets ==
    /\ At("secrets")
    /\ secrets' = secrets \ SecretsToDelete(worker.set, worker.cur)
    /\ inst' = [inst EXCEPT !.ref[worker.cur] = Nil, !.st[worker.cur] = Nil]
    /\ worker' = [worker EXCEPT !.pc = "release", !.cur = Nil]
    /\ UNCHANGED <<bmh, osbms, source, caches, queue, base, faults>>

\* Variant: the finalizer goes before all BMHs are released.
RemoveFinalizerEarly ==
    /\ At("release")
    /\ inst.phase = "deleting"
    /\ FinishDelete
    /\ UNCHANGED <<api, caches, queue, faults>>

RemoveFinalizer ==
    /\ At("release")
    /\ worker.todo = {}
    /\ inst.phase = "deleting"
    /\ FinishDelete
    /\ UNCHANGED <<api, caches, queue, faults>>

\* ensureBaremetalHosts chooses a BMH for every new host and goes over the
\* hosts that have one already.
EnsureBaremetalHosts ==
    LET s == worker.set
        selected == VerifyBaremetalSetScaleUp(s, inst.hosts, inst.ref, bmhCache)
    IN  /\ At("release")
        /\ worker.todo = {}
        /\ inst.phase = "live"
        /\ \/ /\ selected = {}
              /\ ReturnError
           \/ \E m \in selected, e \in BuildExistingHostBMHMap(s, bmhCache) :
                /\ worker' = [worker EXCEPT !.pc = "provision", !.plan = MergeMaps(m, e)]
                /\ UNCHANGED <<base, inst>>
        /\ UNCHANGED <<api, caches, queue, faults>>

\* The cloud-init templates render: a host that left the spec has neither
\* secrets of its own nor an address.
Renders(h) == h \in inst.hosts /\ (h \in Custom \/ h \notin BadIP)

\* Variant: the secrets are rendered but not saved.
ProvisionSecretsUnsaved ==
    /\ At("provision")
    /\ \E h \in Keys(worker.plan) :
        /\ Renders(h)
        /\ worker' = [worker EXCEPT !.pc = "bmh", !.cur = h]
    /\ UNCHANGED <<api, caches, queue, base, inst, faults>>

\* BaremetalHostProvision up to EnsureSecrets: secrets named after the host.
ProvisionSecrets ==
    /\ At("provision")
    /\ \E h \in Keys(worker.plan) :
        \/ /\ ~Renders(h)
           /\ ReturnError
           /\ UNCHANGED secrets
        \/ /\ Renders(h)
           /\ secrets' = secrets \cup (IF h \in Custom THEN {} ELSE {<<worker.set, h>>})
           /\ worker' = [worker EXCEPT !.pc = "bmh", !.cur = h]
           /\ UNCHANGED <<base, inst>>
    /\ UNCHANGED <<bmh, osbms, source, caches, queue, faults>>

\* Variant: the image follows the source for good.
MutatedImage(c, s, h) ==
    [c EXCEPT !.owner = IF @ = Nil THEN s ELSE @,
              !.label[s] = IF @ = Nil THEN h ELSE @,
              !.image = worker.img,
              !.consumer = IF @ = Nil THEN s ELSE @]

\* Variant: the host name label has the set's name as its value.
MutatedLabel(c, s, h) ==
    [c EXCEPT !.owner = IF @ = Nil THEN s ELSE @,
              !.label[s] = IF @ = Nil THEN s ELSE @,
              !.image = IF c.state # "provisioned" \/ c.consumer = Nil
                        THEN worker.img ELSE @,
              !.consumer = IF @ = Nil THEN s ELSE @]

\* The BMH as CreateOrPatch's callback leaves it: util.MergeStringMaps keeps
\* labels that exist, the image follows the source until it is provisioned,
\* and consumerRef is set once.
Mutated(c, s, h) ==
    [c EXCEPT !.owner = IF @ = Nil THEN s ELSE @,
              !.label[s] = IF @ = Nil THEN h ELSE @,
              !.image = IF c.state # "provisioned" \/ c.consumer = Nil
                        THEN worker.img ELSE @,
              !.consumer = IF @ = Nil THEN s ELSE @]

\* The patch sends the fields in which the mutated copy differs from the read one.
PatchedBmh(b, s, h) ==
    LET old == bmhCache[b]
        new == Mutated(old, s, h)
    IN  [bmh[b] EXCEPT !.owner = Patch(old.owner, new.owner, @),
                       !.label[s] = Patch(old.label[s], new.label[s], @),
                       !.image = Patch(old.image, new.image, @),
                       !.consumer = Patch(old.consumer, new.consumer, @)]

\* The state the client holds afterwards: the server's answer, or the cached
\* copy if there was nothing to patch.
StateAfterPatch(b, s, h) ==
    IF Mutated(bmhCache[b], s, h) = bmhCache[b] THEN bmhCache[b].state ELSE bmh[b].state

\* The cached Get finds the BMH, and so does the patch unless it is empty.
Patchable(b, s, h) ==
    /\ b # Nil /\ bmhCache[b].exists
    /\ bmh[b].exists \/ Mutated(bmhCache[b], s, h) = bmhCache[b]

\* BaremetalHostProvision from the Get of the BMH on.
ProvisionBmh ==
    LET h == worker.cur
        b == worker.plan[h]
        s == worker.set
    IN  /\ At("bmh")
        /\ IF Patchable(b, s, h)
           THEN /\ bmh' = [bmh EXCEPT ![b] = PatchedBmh(b, s, h)]
                /\ inst' = [inst EXCEPT !.ref[h] = IF @ = Nil THEN b ELSE @,
                                        !.st[h] = StateAfterPatch(b, s, h)]
                /\ worker' = [worker EXCEPT !.pc = "provision", !.cur = Nil, !.plan[h] = Nil]
                /\ UNCHANGED base
           ELSE ReturnError /\ UNCHANGED bmh
        /\ UNCHANGED <<osbms, secrets, source, caches, queue, faults>>

\* Variant: Ready whatever state the hosts are in.
ReconcileEndsReady ==
    /\ At("provision")
    /\ Keys(worker.plan) = {}
    /\ inst' = [inst EXCEPT !.cond = "ready"]
    /\ worker' = [worker EXCEPT !.pc = "patch"]
    /\ UNCHANGED <<api, caches, queue, base, faults>>

\* reconcileNormal's end: Ready if every host of the status is provisioned.
ReconcileEnds ==
    /\ At("provision")
    /\ Keys(worker.plan) = {}
    /\ inst' = [inst EXCEPT !.cond =
                   IF \A h \in Keys(inst.ref) : inst.st[h] = "provisioned"
                   THEN "ready" ELSE @]
    /\ worker' = [worker EXCEPT !.pc = "patch"]
    /\ UNCHANGED <<api, caches, queue, base, faults>>

-----------------------------------------------------------------------------
(* The deferred PatchInstance. *)

EndReconcile ==
    /\ worker' = Idle
    /\ base' = NoSet
    /\ inst' = NoSet

\* The CRD requires fields of a status entry that a patch of an existing entry
\* does not send: it is invalid if the server no longer has the entry.
PartialEntry(c) ==
    \E h \in Hosts :
        /\ base.ref[h] # Nil /\ inst.ref[h] # Nil /\ c.ref[h] = Nil
        /\ <<base.ref[h], base.st[h]>> # <<inst.ref[h], inst.st[h]>>

PatchAccepted(c) == c.phase \in {"live", "deleting"} /\ ~PartialEntry(c)

\* Status entries merge one by one.  conditions is a list, sent as a whole when
\* any detail of it changed.
Patched(c, cond) ==
    LET final == Patch(base.final, inst.final, c.final)
        ref == [h \in Hosts |-> Patch(base.ref[h], inst.ref[h], c.ref[h])]
    IN  [c EXCEPT !.phase = IF @ = "deleting" /\ ~final THEN "gone" ELSE @,
                  !.final = final,
                  !.cond = cond,
                  !.obs = Patch(base.obs, inst.obs, @),
                  !.ref = ref,
                  !.st = [h \in Hosts |-> IF ref[h] = Nil THEN Nil
                                          ELSE Patch(base.st[h], inst.st[h], @[h])]]

PatchInstance ==
    LET s == worker.set
        c == osbms[s]
    IN  /\ At("patch")
        /\ \/ /\ PatchAccepted(c)
              /\ \E cond \in {inst.cond, Patch(base.cond, inst.cond, c.cond)} :
                    osbms' = [osbms EXCEPT ![s] = Patched(c, cond)]
              /\ queue' = IF worker.again THEN queue \cup {s} ELSE queue
           \/ /\ ~PatchAccepted(c)
              /\ queue' = queue \cup {s}
              /\ UNCHANGED osbms
        /\ EndReconcile
        /\ UNCHANGED <<bmh, secrets, source, caches, faults>>

-----------------------------------------------------------------------------
(* Faults. *)

Fault(kind) ==
    /\ Fresh
    /\ kind \in Faults
    /\ faults < MaxFaults
    /\ faults' = faults + 1

\* A request fails before it has an effect.
ApiError ==
    /\ Fault("api")
    /\ worker.pc \in {"release", "secrets", "provision", "bmh"}
    /\ ReturnError
    /\ UNCHANGED <<api, caches, queue>>

\* The BMH is patched but the answer is lost.
ProvisionAnswerLost ==
    LET b == worker.plan[worker.cur]
    IN  /\ Fault("api")
        /\ At("bmh")
        /\ Found(b)
        /\ bmh' = [bmh EXCEPT ![b] = PatchedBmh(b, worker.set, worker.cur)]
        /\ ReturnError
        /\ UNCHANGED <<osbms, secrets, source, caches, queue>>

PatchInstanceFails ==
    /\ Fault("api")
    /\ At("patch")
    /\ queue' = queue \cup {worker.set}
    /\ EndReconcile
    /\ UNCHANGED <<api, caches>>

\* The deferred function recovers from the panic and skips PatchInstance.
ReconcilePanics ==
    /\ Fault("crash")
    /\ worker.pc # "idle"
    /\ queue' = queue \cup {worker.set}
    /\ EndReconcile
    /\ UNCHANGED <<api, caches>>

\* An administrator deletes the BareMetalHost object.
DeleteBmhObject(b) ==
    /\ Fault("bmhdel")
    /\ bmh[b].exists
    /\ bmh' = [bmh EXCEPT ![b].exists = FALSE]
    /\ UNCHANGED <<osbms, secrets, source, caches, queue, local>>

\* The manager restarts: new informers list everything and every set is enqueued.
ManagerRestarts ==
    /\ Fault("crash")
    /\ EndReconcile
    /\ bmhCache' = bmh
    /\ osbmsCache' = osbms
    /\ queue' = {s \in Sets : osbms[s].phase \in {"live", "deleting"}}
    /\ UNCHANGED api

-----------------------------------------------------------------------------

Reconcile(s) ==
    \/ ReconcileSkips(s) \/ ReconcileInitialises(s) \/ ReconcileDelete(s)
    \/ ReconcileWaits(s) \/ ReconcileNormal(s)

WorkerStep ==
    \/ DeprovisionNotFound \/ DeprovisionConflict \/ DeprovisionUpdate
    \/ DeprovisionSecrets \/ RemoveFinalizer \/ EnsureBaremetalHosts
    \/ ProvisionSecrets \/ ProvisionBmh \/ ReconcileEnds \/ PatchInstance

UserStep(s) ==
    CreateSet(s) \/ UpdateSet(s) \/ DeleteSet(s) \/ PauseSet(s) \/ SourceChanges(s)

FaultStep ==
    \/ ApiError \/ ProvisionAnswerLost \/ PatchInstanceFails
    \/ ReconcilePanics \/ ManagerRestarts
    \/ \E b \in BMHs : DeleteBmhObject(b)

Next ==
    \/ \E s \in Sets : UserStep(s) \/ SyncSet(s) \/ Reconcile(s)
    \/ \E b \in BMHs : Metal3Step(b) \/ SyncBmh(b)
    \/ WorkerStep
    \/ FaultStep

Spec == Init /\ [][Next]_vars

\* Informers deliver, Metal3 works, a reconcile that began goes on, and the
\* work queue is FIFO: a set in it has its turn.
Fairness ==
    /\ \A s \in Sets : WF_vars(SyncSet(s)) /\ SF_vars(Reconcile(s))
    /\ \A b \in BMHs : WF_vars(SyncBmh(b)) /\ SF_vars(Metal3Step(b))
    /\ SF_vars(WorkerStep)

FairSpec == Spec /\ Fairness

-----------------------------------------------------------------------------
(* Properties. *)

\* Every variable keeps its type.
TypeOK ==
    /\ bmh \in [BMHs -> BareMetalHost]
    /\ bmhCache \in [BMHs -> BareMetalHost]
    /\ osbms \in [Sets -> OpenStackBaremetalSet]
    /\ osbmsCache \in [Sets -> OpenStackBaremetalSet]
    /\ secrets \subseteq Sets \X (Hosts \cup BMHs)
    /\ source \in [Sets -> Images \cup {Nil}]
    /\ queue \subseteq Sets
    /\ worker \in Worker
    /\ base \in OpenStackBaremetalSet
    /\ inst \in OpenStackBaremetalSet
    /\ faults \in 0 .. MaxFaults

\* A BMH is labelled for a host, recorded for it or consumed on its behalf only
\* if it passes the selectors and hardware requests (VerifyBaremetalSetScaleUp),
\* and a BMH that something else consumes is never taken over.
OnlyMatchingHosts ==
    /\ \A s \in Sets, b \in BMHs :
        /\ bmh[b].label[s] # Nil => b \in Fits[s][bmh[b].label[s]]
        /\ bmh[b].consumer = s => \E h \in Hosts : b \in Fits[s][h]
    /\ \A s \in Sets : \A h \in Keys(osbms[s].ref) : osbms[s].ref[h] \in Fits[s][h]
    /\ \A b \in Foreign : bmh[b].consumer = Other

\* BaremetalHostProvision leaves a BMH alone that has a consumerRef to someone
\* else: only Metal3, a deletion and a release change it ("Update the BMH spec
\* once when ConsumerRef is nil to only perform one time provision").
TakenHostsUntouched ==
    [][\A b \in BMHs :
        bmh[b].consumer \notin {Nil, worker.set} /\ bmh'[b].consumer # Nil
            => bmh'[b] = [bmh[b] EXCEPT !.state = bmh'[b].state, !.exists = bmh'[b].exists]]_bmh

\* A set deprovisions only BMHs that it consumes itself
\* (BaremetalHostDeprovision does not look at consumerRef).
ReleasesOwnHosts ==
    [][\A b \in BMHs : bmh'[b].consumer = Nil => bmh[b].consumer \in {worker.set, Nil}]_bmh

Consumed(s, list) == {b \in BMHs : list[b].exists /\ list[b].consumer = s}

InUse(s) == Consumed(s, bmh)

\* Between reconciles of a set its status, the labels and the consumerRefs agree:
\* the status has exactly the BMHs that the set consumes, under the host name on
\* the label.
StatusMatchesHosts ==
    \A s \in Sets : worker.set # s =>
        /\ Owned(s, bmh) = InUse(s)
        /\ \A b \in InUse(s) : bmh[b].label[s] # Nil /\ osbms[s].ref[bmh[b].label[s]] = b
        /\ \A h \in Keys(osbms[s].ref) :
              bmh[osbms[s].ref[h]].exists => osbms[s].ref[h] \in InUse(s)

\* Two host names never share a BMH, and one host name never has two.
OneToOne ==
    /\ \A s, t \in Sets, g, h \in Hosts :
        osbms[s].ref[g] # Nil /\ osbms[s].ref[g] = osbms[t].ref[h] /\ bmh[osbms[s].ref[g]].exists
            => <<s, g>> = <<t, h>>
    /\ \A s \in Sets, b, c \in BMHs :
        b \in Owned(s, bmh) /\ c \in Owned(s, bmh) /\ bmh[b].label[s] = bmh[c].label[s] => b = c

\* The BMHs as HostPool sees them.
Pool == INSTANCE HostPool WITH
    holder <- [b \in BMHs |-> bmh[b].consumer],
    image <- [b \in BMHs |-> bmh[b].image],
    state <- [b \in BMHs |-> bmh[b].state]

\* BMHs are claimed, reimaged and released only as HostPool allows: never by two
\* sets, never before Metal3 has cleaned them, never from one set to the next
\* without a release, whatever happens between choosing a BMH and patching it.
ImplementsPool == Pool!Spec

\* Once a set is gone, no BMH is left with a consumerRef to it ("Deprovision all
\* associated BaremetalHosts", baremetalHostCleanup).
GoneSetsHoldNothing == \A s \in Sets : osbms[s].phase = "gone" => InUse(s) = {}

\* Ready for the current generation: the hosts of the spec are those of the
\* status, and their BMHs, unless deleted meanwhile, are provisioned.
ReadyMeansProvisioned ==
    \A s \in Sets :
        /\ osbms[s].phase = "live"
        /\ osbms[s].cond = "ready"
        /\ osbms[s].obs = osbms[s].gen
        => /\ Keys(osbms[s].ref) = osbms[s].hosts
           /\ \A h \in osbms[s].hosts :
                LET b == osbms[s].ref[h]
                IN  bmh[b].exists => bmh[b].state = "provisioned" /\ bmh[b].consumer = s

\* The image of a provisioned BMH is not exchanged for another ("Ensure the
\* image url is up to date unless already provisioned").
ProvisionedImageKept ==
    [][\A b \in BMHs : bmh[b].state = "provisioned" /\ bmh[b].image # Nil
            => bmh'[b].image \in {bmh[b].image, Nil}]_bmh

\* Secrets that render a host's cloud-init data are there as long as its BMH
\* refers to them.
SecretsInPlace ==
    \A s \in Sets : \A b \in InUse(s) :
        bmh[b].label[s] \in Hosts \ Custom => <<s, bmh[b].label[s]>> \in secrets

\* Between reconciles, a set has no secrets but those of hosts in use.
NoLeakedSecrets ==
    \A s \in Sets : osbms[s].cond = "ready" /\ osbms[s].obs = osbms[s].gen /\ worker.set # s =>
        \A h \in Hosts : <<s, h>> \in secrets => h \in osbms[s].hosts

\* A set whose spec and inputs settle becomes ready and stays so.
EventuallyReady ==
    \A s \in Sets :
        <>[](osbms[s].phase = "live" /\ ~osbms[s].paused /\ source[s] # Nil)
            => <>[](osbms[s].cond = "ready" /\ osbms[s].obs = osbms[s].gen)

\* A deleted set goes away.
DeletionCompletes ==
    \A s \in Sets : osbms[s].phase = "deleting" ~> osbms[s].phase = "gone"

-----------------------------------------------------------------------------
(* Strengthenings that make the properties inductive. *)

\* What the program counter implies about the other locals.
WorkerOK ==
    /\ worker.pc # "idle" => worker.set \in Sets
    /\ worker.pc \in {"secrets", "bmh"} => worker.cur \in Hosts
    /\ worker.pc = "bmh" => worker.plan[worker.cur] # Nil

RefFits(s, ref) == \A h \in Hosts : ref[h] # Nil => ref[h] \in Fits[s][h] \ Foreign

BmhFits(b, c) ==
    /\ \A s \in Sets : c.label[s] # Nil => b \in Fits[s][c.label[s]] \ Foreign
    /\ c.consumer \in Sets => \E h \in Hosts : b \in Fits[c.consumer][h]
    /\ b \in Foreign => c.consumer = Other

\* OnlyMatchingHosts for every copy of the state: caches, status as read,
\* status as changed, and the plan.
LocalFits ==
    worker.pc # "idle" =>
        /\ RefFits(worker.set, base.ref)
        /\ RefFits(worker.set, inst.ref)
        /\ RefFits(worker.set, worker.plan)

FitInv ==
    /\ \A b \in BMHs : BmhFits(b, bmh[b]) /\ BmhFits(b, bmhCache[b])
    /\ \A s \in Sets : RefFits(s, osbms[s].ref) /\ RefFits(s, osbmsCache[s].ref)
    /\ LocalFits

\* With fresh reads, owner labels and consumerRef name the same set, a BMH
\* without consumerRef has no image, and the plan has only BMHs that are free
\* or belong to the set being reconciled.
OwnershipInv ==
    /\ \A b \in BMHs :
        /\ bmh[b].owner = (IF b \in Foreign THEN Nil ELSE bmh[b].consumer)
        /\ bmh[b].consumer = Nil => bmh[b].image = Nil
    /\ \A h \in Keys(worker.plan) : bmh[worker.plan[h]].consumer \in {Nil, worker.set}

\* With fresh reads, a BMH of the plan is still clean if nobody has it: it was
\* when the plan was made, and all releases come before.  There is an image to
\* provision by then.
PlanInv ==
    /\ worker.pc \in {"release", "secrets"} => Keys(worker.plan) = {}
    /\ \/ worker.pc \in {"provision", "bmh"}
       \/ worker.pc \in {"release", "secrets"} /\ inst.phase = "live"
       => worker.img # Nil
    /\ \A h \in Keys(worker.plan) :
        bmh[worker.plan[h]].consumer = Nil => bmh[worker.plan[h]].state = "available"

\* The entries ref and st record exactly the BMHs of the list that s consumes,
\* under the host name on the label; an entry that says provisioned is right.
Recorded(s, list, ref, st) ==
    /\ \A b \in Consumed(s, list) : list[b].label[s] # Nil /\ ref[list[b].label[s]] = b
    /\ \A h \in Keys(ref) : list[ref[h]].exists =>
        /\ list[ref[h]].consumer = s
        /\ list[ref[h]].label[s] = h
        /\ st[h] = "provisioned" => list[ref[h]].state = "provisioned"

\* Only the consumer's label is on a BMH, and what is consumed has an image.
BmhInv(c) ==
    /\ c.exists => \A s \in Sets : c.label[s] # Nil => c.consumer = s
    /\ c.consumer \in Sets => c.image # Nil

ReadyNow(c) == c.phase = "live" /\ c.cond = "ready" /\ c.obs = c.gen

\* A set holds BMHs only behind its finalizer, and is ready only with the hosts
\* of its spec.
SetInv(c) ==
    /\ c.final => c.phase \in {"live", "deleting"}
    /\ c.phase = "deleting" => c.final
    /\ c.phase # "gone" /\ ~c.final => Keys(c.ref) = {}
    /\ c.obs <= c.gen
    /\ ReadyNow(c) => Keys(c.ref) = c.hosts /\ \A h \in c.hosts : c.st[h] = "provisioned"

\* No two entries have the same BMH.
Distinct(list, ref) ==
    \A g, h \in Keys(ref) : ref[g] = ref[h] /\ list[ref[g]].exists => g = h

\* During a reconcile only users change the stored set, and inst has the spec
\* that was read.
LinkInv ==
    LET c == osbms[worker.set]
    IN  /\ c.final = base.final /\ c.cond = base.cond /\ c.obs = base.obs
        /\ c.ref = base.ref /\ c.st = base.st
        /\ base.obs <= base.gen /\ base.gen <= c.gen
        /\ base.gen = c.gen => base.hosts = c.hosts
        /\ \/ base.phase = "live" /\ c.phase # "absent"
           \/ base.phase = "deleting" /\ c.phase = "deleting"
        /\ inst.phase = base.phase /\ inst.hosts = base.hosts /\ inst.obs = base.gen
        /\ inst.final \/ inst.phase = "deleting"
        /\ ~base.final => inst.ref = base.ref /\ inst.st = base.st
        /\ worker.pc # "patch" => base.final /\ inst.final

\* The host stays in the set.
Stays(h) == inst.phase = "live" /\ h \in inst.hosts

\* A BMH of the stored status may have been released, but is nobody else's; an
\* entry that stays still says what it said.
KeptInv ==
    \A h \in Keys(base.ref) : bmh[base.ref[h]].exists =>
        /\ bmh[base.ref[h]].consumer \in {Nil, worker.set}
        /\ Stays(h) => /\ inst.ref[h] = base.ref[h]
                       /\ base.st[h] = "provisioned" => bmh[base.ref[h]].state = "provisioned"

\* The entries of inst, without the one of a BMH that has just been released.
Entries == [h \in Hosts |-> IF worker.pc = "secrets" /\ h = worker.cur THEN Nil ELSE inst.ref[h]]

\* The hosts to release are those of the status that do not stay.
ReleaseInv ==
    /\ \A t \in worker.todo : /\ t[2] \in Hosts /\ t[2] # worker.cur /\ ~Stays(t[2])
                              /\ inst.ref[t[2]] = t[1]
    /\ \A h \in Keys(inst.ref) : Stays(h) \/ <<inst.ref[h], h>> \in worker.todo \/ h = worker.cur
    /\ IF worker.pc = "secrets" THEN ~Stays(worker.cur) ELSE worker.cur = Nil

\* The hosts of the spec have their BMH already or have one in the plan that is
\* nobody's, and no BMH is planned twice.
ProvideInv ==
    /\ inst.phase = "live"
    /\ Keys(inst.ref) \cup Keys(worker.plan) = inst.hosts
    /\ \A h \in Keys(worker.plan) :
        \/ inst.ref[h] = worker.plan[h]
        \/ inst.ref[h] = Nil /\ (bmh[worker.plan[h]].exists => bmh[worker.plan[h]].consumer = Nil)
    /\ \A g, h \in Keys(worker.plan) : worker.plan[g] = worker.plan[h] => g = h

\* StatusMatchesHosts, OneToOne and ReadyMeansProvisioned at every step of a
\* reconcile, without crashes, failed requests and stale reads.
StatusInv ==
    /\ \A b \in BMHs : BmhInv(bmh[b])
    /\ \A s \in Sets :
        /\ SetInv(osbms[s])
        /\ Distinct(bmh, osbms[s].ref)
        /\ worker.set # s => Recorded(s, bmh, osbms[s].ref, osbms[s].st)
    /\ IF worker.pc = "idle" THEN worker.set = Nil
       ELSE LinkInv /\ KeptInv /\ Recorded(worker.set, bmh, Entries, inst.st)
    /\ worker.pc \in {"release", "secrets"} => ReleaseInv
    /\ worker.pc \in {"provision", "bmh"} => ProvideInv
    /\ inst.cond = "ready" =>
        /\ worker.pc = "patch" /\ Keys(inst.ref) = inst.hosts
        /\ \A h \in inst.hosts : inst.st[h] = "provisioned"

\* If moreover no BMH object is deleted, a set loses its finalizer only with its
\* last BMH.
GoneInv ==
    /\ \A b \in BMHs : bmh[b].exists
    /\ \A s \in Sets : ~osbms[s].final => Keys(osbms[s].ref) = {}
    /\ ~inst.final => Keys(inst.ref) = {}

\* The secrets of a host are there before its BMH gets the label, and stay.
SecretsInv ==
    /\ \A s \in Sets, b \in BMHs :
        bmh[b].label[s] \in Hosts \ Custom => <<s, bmh[b].label[s]>> \in secrets
    /\ worker.pc = "bmh" => worker.cur \in Custom \/ <<worker.set, worker.cur>> \in secrets

=============================================================================
