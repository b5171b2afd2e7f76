------------------------- MODULE BaremetalSetProofs -------------------------
(* Proofs about BaremetalSet, for any sets, hosts, BMHs and bounds. *)
EXTENDS BaremetalSet, TLAPS

TypeInv == TypeOK /\ WorkerOK

\* The records a reconcile starts from and ends with have their types.
LEMMA RestRecords ==
    /\ NoSet \in OpenStackBaremetalSet
    /\ Idle \in Worker
    /\ NoHosts \in [Hosts -> BMHs \cup {Nil}]
BY DEF NoSet, Idle, NoHosts, OpenStackBaremetalSet, Worker

\* Initially every variable has its type.
LEMMA TypeInit == Init => TypeInv
BY ConstantsAssumption, RestRecords
   DEF Init, TypeInv, TypeOK, WorkerOK, BareMetalHost, BmhStates, Idle

\* Changing one field of a set to a value of its type keeps the type.
LEMMA SetFields ==
    ASSUME NEW c \in OpenStackBaremetalSet
    PROVE  /\ \A v \in {"absent", "live", "deleting", "gone"} :
                [c EXCEPT !.phase = v] \in OpenStackBaremetalSet
           /\ \A v \in BOOLEAN : [c EXCEPT !.paused = v] \in OpenStackBaremetalSet
           /\ \A v \in BOOLEAN : [c EXCEPT !.final = v] \in OpenStackBaremetalSet
           /\ \A v \in {"none", "pending", "ready"} :
                [c EXCEPT !.cond = v] \in OpenStackBaremetalSet
           /\ \A v \in [Hosts -> BMHs \cup {Nil}] : [c EXCEPT !.ref = v] \in OpenStackBaremetalSet
           /\ \A v \in [Hosts -> BmhStates \cup {Nil}] : [c EXCEPT !.st = v] \in OpenStackBaremetalSet
BY DEF OpenStackBaremetalSet

\* The same for a status entry, whose two fields are written together.
LEMMA EntryFields ==
    ASSUME NEW c \in OpenStackBaremetalSet, NEW h \in Hosts,
           NEW v \in BMHs \cup {Nil}, NEW w \in BmhStates \cup {Nil}
    PROVE  [c EXCEPT !.ref[h] = v, !.st[h] = w] \in OpenStackBaremetalSet
BY DEF OpenStackBaremetalSet

\* The same for a BMH, with the fields that are written together.
LEMMA BmhFields ==
    ASSUME NEW c \in BareMetalHost
    PROVE  /\ \A v \in BmhStates : [c EXCEPT !.state = v] \in BareMetalHost
           /\ [c EXCEPT !.exists = FALSE] \in BareMetalHost
           /\ \A o \in Sets \cup {Nil}, s \in Sets, l \in Hosts \cup {Nil},
                 u \in Sets \cup {Nil, Other}, i \in Images \cup {Nil} :
                [c EXCEPT !.owner = o, !.label[s] = l, !.image = i, !.consumer = u]
                    \in BareMetalHost
BY DEF BareMetalHost

\* Steps of users keep the types.
LEMMA UserType ==
    ASSUME TypeInv, NEW s \in Sets, UserStep(s)
    PROVE  TypeInv'
<1> USE DEF TypeInv, TypeOK, WorkerOK, caches, local
<1>1. CASE CreateSet(s)
  <2> PICK hosts \in HostMaps[s] :
         osbms' = [osbms EXCEPT ![s] = [NoSet EXCEPT !.phase = "live", !.hosts = hosts, !.gen = 1]]
    BY <1>1 DEF CreateSet
  <2>1. [NoSet EXCEPT !.phase = "live", !.hosts = hosts, !.gen = 1] \in OpenStackBaremetalSet
    BY RestRecords, ConstantsAssumption DEF OpenStackBaremetalSet
  <2> QED BY <1>1, <2>1 DEF CreateSet
<1>2. CASE UpdateSet(s)
  BY <1>2, ConstantsAssumption DEF UpdateSet, OpenStackBaremetalSet
<1>3. CASE DeleteSet(s)
  <2>1. [osbms[s] EXCEPT !.phase = IF osbms[s].final THEN "deleting" ELSE "gone"]
           \in OpenStackBaremetalSet
    BY SetFields
  <2> QED BY <1>3, <2>1 DEF DeleteSet
<1>4. CASE PauseSet(s)
  <2>1. [osbms[s] EXCEPT !.paused = ~@] \in OpenStackBaremetalSet
    <3>1. (~osbms[s].paused) \in BOOLEAN
      OBVIOUS
    <3> QED BY <3>1, SetFields
  <2> QED BY <1>4, <2>1 DEF PauseSet
<1>5. CASE SourceChanges(s)
  BY <1>5 DEF SourceChanges
<1> QED BY <1>1, <1>2, <1>3, <1>4, <1>5 DEF UserStep

\* Metal3 and the informers keep the types.
LEMMA WatchType ==
    ASSUME TypeInv,
           \/ \E s \in Sets : SyncSet(s)
           \/ \E b \in BMHs : Metal3Step(b) \/ SyncBmh(b)
    PROVE  TypeInv'
<1> USE DEF TypeInv, TypeOK, WorkerOK, caches, local, api
<1>1. ASSUME NEW s \in Sets, SyncSet(s) PROVE TypeInv'
  BY <1>1 DEF SyncSet
<1>2. ASSUME NEW b \in BMHs, Metal3Step(b) PROVE TypeInv'
  <2>1. [bmh[b] EXCEPT !.state = NextState(@, bmh[b].image)] \in BareMetalHost
    <3>1. NextState(bmh[b].state, bmh[b].image) \in BmhStates
      BY DEF BmhStates, NextState
    <3> QED BY <3>1, BmhFields
  <2> QED BY <1>2, <2>1 DEF Metal3Step
<1>3. ASSUME NEW b \in BMHs, SyncBmh(b) PROVE TypeInv'
  BY <1>3 DEF SyncBmh, BmhRequests
<1> QED BY <1>1, <1>2, <1>3

\* The first step of a reconcile keeps the types.
LEMMA ReconcileType ==
    ASSUME TypeInv, NEW s \in Sets, Reconcile(s)
    PROVE  TypeInv'
<1> USE DEF TypeInv, TypeOK, WorkerOK, caches, local, api, Take, Reconciles
<1> DEFINE c == osbmsCache[s]
<1>0. c \in OpenStackBaremetalSet /\ InitStatus(c) \in OpenStackBaremetalSet
  BY DEF InitStatus, OpenStackBaremetalSet
<1> HIDE DEF c
<1>1. CASE ReconcileSkips(s)
  BY <1>1 DEF ReconcileSkips
<1>2. CASE ReconcileInitialises(s)
  <2>1. [InitStatus(c) EXCEPT !.final = @ \/ c.phase = "live"] \in OpenStackBaremetalSet
    <3>1. (InitStatus(c).final \/ c.phase = "live") \in BOOLEAN
      OBVIOUS
    <3> QED BY <1>0, <3>1, SetFields
  <2>2. [Idle EXCEPT !.pc = "patch", !.set = s] \in Worker
    BY RestRecords DEF Worker
  <2> QED BY <1>0, <1>2, <2>1, <2>2 DEF ReconcileInitialises, c, Idle
<1>3. CASE ReconcileDelete(s)
  <2> DEFINE todo == {<<c.ref[h], h>> : h \in Keys(c.ref)}
  <2>1. todo \in SUBSET (BMHs \X (Hosts \cup {Nil}))
    BY <1>0 DEF Keys, OpenStackBaremetalSet
  <2> HIDE DEF todo
  <2>2. [Idle EXCEPT !.pc = "release", !.set = s, !.todo = todo] \in Worker
    BY <2>1, RestRecords DEF Worker
  <2> QED BY <1>0, <1>3, <2>2 DEF ReconcileDelete, c, todo, Idle
<1>4. CASE ReconcileWaits(s)
  <2>1. [Idle EXCEPT !.pc = "patch", !.set = s, !.again = TRUE] \in Worker
    BY RestRecords DEF Worker
  <2> QED BY <1>0, <1>4, <2>1 DEF ReconcileWaits, c, Idle
<1>5. CASE ReconcileNormal(s)
  <2> DEFINE ref == VerifyAndSyncBaremetalStatusBmhRefs(c.ref, bmhCache)
             st == [h \in Hosts |-> IF ref[h] = Nil THEN Nil ELSE c.st[h]]
             todo == ToDeprovision(s, c.hosts, bmhCache)
  <2>1. ref \in [Hosts -> BMHs \cup {Nil}] /\ st \in [Hosts -> BmhStates \cup {Nil}]
    BY <1>0 DEF VerifyAndSyncBaremetalStatusBmhRefs, OpenStackBaremetalSet
  <2>2. todo \in SUBSET (BMHs \X (Hosts \cup {Nil}))
    BY DEF ToDeprovision, Owned, BareMetalHost
  <2> HIDE DEF ref, st, todo
  <2>3. [InitStatus(c) EXCEPT !.ref = ref, !.st = st] \in OpenStackBaremetalSet
    BY <1>0, <2>1, SetFields
  <2>4. [Idle EXCEPT !.pc = "release", !.set = s, !.img = source[s], !.todo = todo] \in Worker
    BY <2>2, RestRecords DEF Worker
  <2> QED BY <1>0, <1>5, <2>3, <2>4 DEF ReconcileNormal, c, ref, st, todo, Idle
<1> QED BY <1>1, <1>2, <1>3, <1>4, <1>5 DEF Reconcile

\* What CreateOrPatch sends and what the API server makes of it.
LEMMA PatchedBmhType ==
    ASSUME TypeInv, NEW b \in BMHs, NEW s \in Sets, NEW h \in Hosts
    PROVE  /\ PatchedBmh(b, s, h) \in BareMetalHost
           /\ StateAfterPatch(b, s, h) \in BmhStates
<1> USE DEF TypeInv, TypeOK
<1>0. bmh[b] \in BareMetalHost /\ bmhCache[b] \in BareMetalHost /\ worker.img \in Images \cup {Nil}
  BY DEF Worker
<1> DEFINE old == bmhCache[b]
           new == Mutated(old, s, h)
<1>1. /\ new.owner \in Sets \cup {Nil} /\ new.label[s] \in Hosts \cup {Nil}
      /\ new.image \in Images \cup {Nil} /\ new.consumer \in Sets \cup {Nil, Other}
  BY <1>0 DEF Mutated, BareMetalHost
<1> HIDE DEF new
<1> DEFINE o == Patch(old.owner, new.owner, bmh[b].owner)
           l == Patch(old.label[s], new.label[s], bmh[b].label[s])
           i == Patch(old.image, new.image, bmh[b].image)
           u == Patch(old.consumer, new.consumer, bmh[b].consumer)
<1>2. /\ o \in Sets \cup {Nil} /\ l \in Hosts \cup {Nil}
      /\ i \in Images \cup {Nil} /\ u \in Sets \cup {Nil, Other}
  BY <1>0, <1>1 DEF Patch, BareMetalHost
<1>3. PatchedBmh(b, s, h) \in BareMetalHost
  <2>1. PatchedBmh(b, s, h) = [bmh[b] EXCEPT !.owner = o, !.label[s] = l, !.image = i, !.consumer = u]
    BY DEF PatchedBmh, new
  <2> HIDE DEF o, l, i, u
  <2>2. [bmh[b] EXCEPT !.owner = o, !.label[s] = l, !.image = i, !.consumer = u] \in BareMetalHost
    BY <1>0, <1>2, BmhFields
  <2> QED BY <2>1, <2>2
<1>4. StateAfterPatch(b, s, h) \in BmhStates
  BY <1>0 DEF StateAfterPatch, BareMetalHost
<1> QED BY <1>3, <1>4

\* BaremetalHostDeprovision leaves a BMH of the right type.
LEMMA ReleasedType ==
    ASSUME TypeInv, NEW b \in BMHs, NEW s \in Sets
    PROVE  Released(b, s) \in BareMetalHost
BY DEF TypeInv, TypeOK, Released, BareMetalHost

\* Ways in which a step of the worker changes its local state.
LEMMA WorkerFields ==
    ASSUME TypeInv
    PROVE  /\ \A pc \in {"idle", "release", "secrets", "provision", "bmh", "patch"} :
                [worker EXCEPT !.pc = pc] \in Worker
           /\ [worker EXCEPT !.pc = "patch", !.again = TRUE] \in Worker
           /\ [worker EXCEPT !.pc = "release", !.cur = Nil] \in Worker
           /\ \A h \in Hosts, t \in worker.todo :
                [worker EXCEPT !.pc = "secrets", !.cur = h, !.todo = @ \ {t}] \in Worker
           /\ \A h \in Hosts : [worker EXCEPT !.pc = "bmh", !.cur = h] \in Worker
           /\ \A h \in Hosts :
                [worker EXCEPT !.pc = "provision", !.cur = Nil, !.plan[h] = Nil] \in Worker
           /\ \A p \in [Hosts -> BMHs \cup {Nil}] :
                [worker EXCEPT !.pc = "provision", !.plan = p] \in Worker
BY DEF TypeInv, TypeOK, Worker

\* Choosing hosts yields a plan: host names to BMHs.
LEMMA PlanType ==
    ASSUME NEW s \in Sets, NEW new, NEW list,
           NEW m \in Assignments(s, new, list), NEW e \in BuildExistingHostBMHMap(s, list)
    PROVE  MergeMaps(m, e) \in [Hosts -> BMHs \cup {Nil}]
<1>1. \A h \in DOMAIN m : m[h] \in BMHs
  BY DEF Assignments, Injection, Available
<1>2. \A h \in DOMAIN e : e[h] \in BMHs
  BY DEF BuildExistingHostBMHMap, Owned
<1> QED BY <1>1, <1>2 DEF MergeMaps

\* The end of a reconcile, with or without PatchInstance, resets the locals.
LEMMA EndType ==
    ASSUME TypeInv, EndReconcile
    PROVE  worker' \in Worker /\ base' \in OpenStackBaremetalSet
           /\ inst' \in OpenStackBaremetalSet /\ WorkerOK'
BY RestRecords DEF EndReconcile, WorkerOK, Idle

\* Returning an error keeps the types of the locals.
LEMMA ErrorType ==
    ASSUME TypeInv, worker.pc # "idle", ReturnError
    PROVE  worker' \in Worker /\ base' \in OpenStackBaremetalSet
           /\ inst' \in OpenStackBaremetalSet /\ WorkerOK'
<1>1. worker' = [worker EXCEPT !.pc = "patch", !.again = TRUE] /\ worker.set \in Sets
  BY DEF ReturnError, TypeInv, WorkerOK
<1>2. worker' \in Worker
  BY <1>1, WorkerFields
<1>3. worker'.pc = "patch" /\ worker'.set = worker.set
  BY <1>1 DEF Worker, TypeInv, TypeOK
<1> QED BY <1>1, <1>2, <1>3 DEF ReturnError, TypeInv, TypeOK, WorkerOK

\* Removing the finalizer keeps the types of the locals.
LEMMA FinishDeleteType ==
    ASSUME TypeInv, worker.pc # "idle", FinishDelete
    PROVE  worker' \in Worker /\ base' \in OpenStackBaremetalSet
           /\ inst' \in OpenStackBaremetalSet /\ WorkerOK'
<1>1. worker' = [worker EXCEPT !.pc = "patch"] /\ worker.set \in Sets
  BY DEF FinishDelete, TypeInv, WorkerOK
<1>2. worker' \in Worker
  BY <1>1, WorkerFields
<1>3. worker'.pc = "patch" /\ worker'.set = worker.set
  BY <1>1 DEF Worker, TypeInv, TypeOK
<1>4. inst' \in OpenStackBaremetalSet
  BY SetFields DEF FinishDelete, TypeInv, TypeOK
<1> QED BY <1>1, <1>2, <1>3, <1>4 DEF FinishDelete, TypeInv, TypeOK, WorkerOK

\* The deferred PatchInstance keeps the type of the set it patches.
LEMMA PatchedType ==
    ASSUME TypeInv, NEW c \in OpenStackBaremetalSet,
           NEW cond \in {"none", "pending", "ready"}
    PROVE  Patched(c, cond) \in OpenStackBaremetalSet
<1> DEFINE final == Patch(base.final, inst.final, c.final)
           ref == [h \in Hosts |-> Patch(base.ref[h], inst.ref[h], c.ref[h])]
           st == [h \in Hosts |-> IF ref[h] = Nil THEN Nil
                                  ELSE Patch(base.st[h], inst.st[h], c.st[h])]
           obs == Patch(base.obs, inst.obs, c.obs)
           phase == IF c.phase = "deleting" /\ ~final THEN "gone" ELSE c.phase
<1>0. base \in OpenStackBaremetalSet /\ inst \in OpenStackBaremetalSet
  BY DEF TypeInv, TypeOK
<1>1. final \in BOOLEAN
  BY <1>0 DEF Patch, OpenStackBaremetalSet
<1>2. ref \in [Hosts -> BMHs \cup {Nil}]
  BY <1>0 DEF Patch, OpenStackBaremetalSet
<1>3. st \in [Hosts -> BmhStates \cup {Nil}]
  BY <1>0 DEF Patch, OpenStackBaremetalSet
<1>4. obs \in Nat
  BY <1>0 DEF Patch, OpenStackBaremetalSet
<1>5. phase \in {"absent", "live", "deleting", "gone"}
  BY <1>0 DEF OpenStackBaremetalSet
<1>6. Patched(c, cond) = [c EXCEPT !.phase = phase, !.final = final, !.cond = cond,
                                   !.obs = obs, !.ref = ref, !.st = st]
  BY DEF Patched
<1> HIDE DEF final, ref, st, obs, phase
<1> QED BY <1>1, <1>2, <1>3, <1>4, <1>5, <1>6 DEF OpenStackBaremetalSet

\* The writes of a reconcile keep the types.
LEMMA WorkerType ==
    ASSUME TypeInv, WorkerStep
    PROVE  TypeInv'
<1> USE DEF TypeInv, caches, local, api, At
<1>1. CASE DeprovisionNotFound
  <2>1. FinishDelete \/ ReturnError
    BY <1>1 DEF DeprovisionNotFound
  <2>2. worker.pc # "idle"
    BY <1>1 DEF DeprovisionNotFound
  <2> QED BY <1>1, <2>1, <2>2, ErrorType, FinishDeleteType DEF DeprovisionNotFound, TypeOK
<1>2. CASE DeprovisionConflict
  BY <1>2, ErrorType DEF DeprovisionConflict, TypeOK
<1>3. CASE DeprovisionUpdate
  <2>1. PICK t \in worker.todo :
          /\ Found(BmhRef(t))
          /\ bmh' = [bmh EXCEPT ![BmhRef(t)] = Released(BmhRef(t), worker.set)]
          /\ worker' = [worker EXCEPT !.pc = "secrets", !.cur = t[2], !.todo = @ \ {t}]
    BY <1>3 DEF DeprovisionUpdate
  <2>2. t[2] \in Hosts /\ BmhRef(t) \in BMHs
    <3>1. t[2] \in Hosts \cup {Nil}
      BY DEF TypeOK, Worker
    <3> QED BY <2>1, <3>1 DEF Found, BmhRef, TypeOK, OpenStackBaremetalSet
  <2>3. worker.set \in Sets
    BY <1>3 DEF DeprovisionUpdate, WorkerOK
  <2>4. bmh' \in [BMHs -> BareMetalHost]
    BY <2>1, <2>2, <2>3, ReleasedType DEF TypeOK
  <2>5. worker' \in Worker
    BY <2>1, <2>2, WorkerFields
  <2>6. worker'.set = worker.set /\ worker'.cur = t[2] /\ worker'.pc = "secrets"
    BY <2>1 DEF TypeOK, Worker
  <2> QED BY <1>3, <2>2, <2>3, <2>4, <2>5, <2>6 DEF DeprovisionUpdate, TypeOK, WorkerOK
<1>4. CASE DeprovisionSecrets
  <2>1. worker.set \in Sets /\ worker.cur \in Hosts
    BY <1>4 DEF DeprovisionSecrets, WorkerOK
  <2>2. inst' \in OpenStackBaremetalSet
    BY <1>4, <2>1, EntryFields DEF DeprovisionSecrets, TypeOK
  <2>3. worker' \in Worker
    BY <1>4, WorkerFields DEF DeprovisionSecrets
  <2>4. worker'.set = worker.set /\ worker'.pc = "release"
    BY <1>4 DEF DeprovisionSecrets, TypeOK, Worker
  <2> QED BY <1>4, <2>1, <2>2, <2>3, <2>4 DEF DeprovisionSecrets, TypeOK, WorkerOK
<1>5. CASE RemoveFinalizer
  BY <1>5, FinishDeleteType DEF RemoveFinalizer, TypeOK
<1>6. CASE EnsureBaremetalHosts
  <2>0. worker.set \in Sets /\ worker.pc = "release"
    BY <1>6 DEF EnsureBaremetalHosts, WorkerOK
  <2>1. CASE ReturnError
    BY <1>6, <2>0, <2>1, ErrorType DEF EnsureBaremetalHosts, TypeOK
  <2>2. CASE ~ReturnError
    <3>1. PICK m \in Assignments(worker.set, NewComputes(inst.hosts, inst.ref), bmhCache),
               e \in BuildExistingHostBMHMap(worker.set, bmhCache) :
            worker' = [worker EXCEPT !.pc = "provision", !.plan = MergeMaps(m, e)]
      BY <1>6, <2>2 DEF EnsureBaremetalHosts, VerifyBaremetalSetScaleUp
    <3>2. UNCHANGED <<base, inst>>
      BY <1>6, <2>2 DEF EnsureBaremetalHosts
    <3>3. MergeMaps(m, e) \in [Hosts -> BMHs \cup {Nil}]
      BY <2>0, PlanType
    <3>4. worker' \in Worker
      BY <3>1, <3>3, WorkerFields
    <3>5. worker'.set = worker.set /\ worker'.pc = "provision"
      BY <3>1 DEF TypeOK, Worker
    <3> QED BY <1>6, <2>0, <3>2, <3>4, <3>5 DEF EnsureBaremetalHosts, TypeOK, WorkerOK
  <2> QED BY <2>1, <2>2
<1>7. CASE ProvisionSecrets
  <2>0. worker.set \in Sets /\ worker.pc = "provision"
    BY <1>7 DEF ProvisionSecrets, WorkerOK
  <2>1. CASE ReturnError
    <3>1. secrets' \subseteq Sets \X (Hosts \cup BMHs)
      BY <1>7, <2>0 DEF ProvisionSecrets, TypeOK, Keys
    <3> QED BY <1>7, <2>0, <2>1, <3>1, ErrorType DEF ProvisionSecrets, TypeOK
  <2>2. CASE ~ReturnError
    <3>1. PICK h \in Keys(worker.plan) :
            /\ secrets' = secrets \cup (IF h \in Custom THEN {} ELSE {<<worker.set, h>>})
            /\ worker' = [worker EXCEPT !.pc = "bmh", !.cur = h]
            /\ UNCHANGED <<base, inst>>
      BY <1>7, <2>2 DEF ProvisionSecrets
    <3>2. h \in Hosts /\ worker.plan[h] # Nil
      BY DEF Keys
    <3>3. worker' \in Worker
      BY <3>1, <3>2, WorkerFields
    <3>4. /\ worker'.set = worker.set /\ worker'.pc = "bmh"
          /\ worker'.cur = h /\ worker'.plan = worker.plan
      BY <3>1 DEF TypeOK, Worker
    <3>5. secrets' \subseteq Sets \X (Hosts \cup BMHs)
      BY <2>0, <3>1, <3>2 DEF TypeOK
    <3> QED BY <1>7, <2>0, <3>1, <3>2, <3>3, <3>4, <3>5 DEF ProvisionSecrets, TypeOK, WorkerOK
  <2> QED BY <2>1, <2>2
<1>8. CASE ProvisionBmh
  <2> DEFINE h == worker.cur
             b == worker.plan[h]
  <2>0. worker.set \in Sets /\ worker.pc = "bmh" /\ h \in Hosts /\ b \in BMHs
    BY <1>8 DEF ProvisionBmh, WorkerOK, TypeOK, Worker
  <2>1. CASE Patchable(b, worker.set, h)
    <3>1. /\ bmh' = [bmh EXCEPT ![b] = PatchedBmh(b, worker.set, h)]
          /\ inst' = [inst EXCEPT !.ref[h] = IF @ = Nil THEN b ELSE @,
                                  !.st[h] = StateAfterPatch(b, worker.set, h)]
          /\ worker' = [worker EXCEPT !.pc = "provision", !.cur = Nil, !.plan[h] = Nil]
          /\ UNCHANGED base
      BY <1>8, <2>1 DEF ProvisionBmh
    <3>2. bmh' \in [BMHs -> BareMetalHost]
      BY <2>0, <3>1, PatchedBmhType DEF TypeOK
    <3>3. inst' \in OpenStackBaremetalSet
      <4>1. (IF inst.ref[h] = Nil THEN b ELSE inst.ref[h]) \in BMHs \cup {Nil}
        BY <2>0 DEF TypeOK, OpenStackBaremetalSet
      <4>2. StateAfterPatch(b, worker.set, h) \in BmhStates \cup {Nil}
        BY <2>0, PatchedBmhType
      <4> QED BY <2>0, <3>1, <4>1, <4>2, EntryFields DEF TypeOK
    <3>4. worker' \in Worker
      BY <2>0, <3>1, WorkerFields
    <3>5. worker'.set = worker.set /\ worker'.pc = "provision"
      BY <3>1 DEF TypeOK, Worker
    <3> QED BY <1>8, <2>0, <3>1, <3>2, <3>3, <3>4, <3>5 DEF ProvisionBmh, TypeOK, WorkerOK
  <2>2. CASE ~Patchable(b, worker.set, h)
    BY <1>8, <2>0, <2>2, ErrorType DEF ProvisionBmh, TypeOK
  <2> QED BY <2>1, <2>2
<1>9. CASE ReconcileEnds
  <2>1. inst' \in OpenStackBaremetalSet
    <3> DEFINE v == IF \A h \in Keys(inst.ref) : inst.st[h] = "provisioned"
                    THEN "ready" ELSE inst.cond
    <3>1. v \in {"none", "pending", "ready"}
      BY DEF TypeOK, OpenStackBaremetalSet
    <3>2. inst' = [inst EXCEPT !.cond = v]
      BY <1>9 DEF ReconcileEnds
    <3> HIDE DEF v
    <3> QED BY <3>1, <3>2, SetFields DEF TypeOK
  <2>2. worker' \in Worker
    BY <1>9, WorkerFields DEF ReconcileEnds
  <2>3. worker'.set = worker.set /\ worker'.pc = "patch"
    BY <1>9 DEF ReconcileEnds, TypeOK, Worker
  <2> QED BY <1>9, <2>1, <2>2, <2>3 DEF ReconcileEnds, TypeOK, WorkerOK
<1>10. CASE PatchInstance
  <2> DEFINE s == worker.set
  <2>0. s \in Sets
    BY <1>10 DEF PatchInstance, WorkerOK
  <2>1. osbms' \in [Sets -> OpenStackBaremetalSet]
    <3>1. CASE UNCHANGED osbms
      BY <3>1 DEF TypeOK
    <3>2. CASE ~UNCHANGED osbms
      <4>1. PICK cond \in {inst.cond, Patch(base.cond, inst.cond, osbms[s].cond)} :
              osbms' = [osbms EXCEPT ![s] = Patched(osbms[s], cond)]
        BY <1>10, <3>2 DEF PatchInstance
      <4>2. cond \in {"none", "pending", "ready"}
        BY <2>0 DEF TypeOK, OpenStackBaremetalSet, Patch
      <4> QED BY <2>0, <4>1, <4>2, PatchedType DEF TypeOK
    <3> QED BY <3>1, <3>2
  <2>2. queue' \subseteq Sets
    BY <1>10, <2>0 DEF PatchInstance, TypeOK
  <2> QED BY <1>10, <2>1, <2>2, EndType DEF PatchInstance, TypeOK
<1> QED BY <1>1, <1>2, <1>3, <1>4, <1>5, <1>6, <1>7, <1>8, <1>9, <1>10 DEF WorkerStep

\* Faults keep the types.
LEMMA FaultType ==
    ASSUME TypeInv, FaultStep
    PROVE  TypeInv'
<1> USE DEF TypeInv, caches, local, api, At
<1>0. ASSUME NEW kind, Fault(kind) PROVE faults' \in 0 .. MaxFaults
  BY <1>0, ConstantsAssumption DEF Fault, TypeOK
<1>1. CASE ApiError
  BY <1>0, <1>1, ErrorType DEF ApiError, TypeOK
<1>2. CASE ProvisionAnswerLost
  <2> DEFINE h == worker.cur
             b == worker.plan[h]
  <2>0. worker.set \in Sets /\ worker.pc = "bmh" /\ h \in Hosts /\ b \in BMHs
    BY <1>2 DEF ProvisionAnswerLost, WorkerOK, TypeOK, Worker
  <2>1. bmh' = [bmh EXCEPT ![b] = PatchedBmh(b, worker.set, h)]
    BY <1>2 DEF ProvisionAnswerLost
  <2>2. bmh' \in [BMHs -> BareMetalHost]
    BY <2>0, <2>1, PatchedBmhType DEF TypeOK
  <2> QED BY <1>0, <1>2, <2>0, <2>2, ErrorType DEF ProvisionAnswerLost, TypeOK
<1>3. CASE PatchInstanceFails
  BY <1>0, <1>3, EndType DEF PatchInstanceFails, TypeOK, WorkerOK
<1>4. CASE ReconcilePanics
  BY <1>0, <1>4, EndType DEF ReconcilePanics, TypeOK, WorkerOK
<1>5. CASE ManagerRestarts
  BY <1>0, <1>5, EndType DEF ManagerRestarts, TypeOK
<1>6. ASSUME NEW b \in BMHs, DeleteBmhObject(b) PROVE TypeInv'
  <2>1. bmh' \in [BMHs -> BareMetalHost]
    BY <1>6, BmhFields DEF DeleteBmhObject, TypeOK
  <2> QED BY <1>0, <1>6, <2>1 DEF DeleteBmhObject, TypeOK, WorkerOK
<1> QED BY <1>1, <1>2, <1>3, <1>4, <1>5, <1>6 DEF FaultStep

\* Every step keeps the types.
LEMMA TypeNext == TypeInv /\ [Next]_vars => TypeInv'
<1> SUFFICES ASSUME TypeInv, [Next]_vars PROVE TypeInv'
  OBVIOUS
<1>1. CASE Next
  BY <1>1, UserType, WatchType, ReconcileType, WorkerType, FaultType DEF Next
<1>2. CASE UNCHANGED vars
  BY <1>2 DEF vars, TypeInv, TypeOK, WorkerOK
<1> QED BY <1>1, <1>2

\* Types, and the worker's knowledge of its set and host, are invariant.
THEOREM TypeInvariant == Spec => []TypeInv
BY TypeInit, TypeNext, PTL DEF Spec

\* Every variable of the OpenStackBaremetalSet controller keeps its type: in
\* particular the worker always knows which set and host it is working on.
THEOREM TypeCorrect == Spec => []TypeOK
<1>1. TypeInv => TypeOK
  BY DEF TypeInv
<1> QED BY <1>1, TypeInvariant, PTL

=============================================================================
