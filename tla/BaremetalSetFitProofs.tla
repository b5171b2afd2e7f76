------------------------ MODULE BaremetalSetFitProofs ------------------------
(* BMHs are taken only for hosts they fit, whatever faults happen. *)
EXTENDS BaremetalSetProofs

\* The BMHs that ensureBaremetalHosts goes over fit: the newly selected ones by
\* selection, the existing ones because their labels say so.
LEMMA PlanFits ==
    ASSUME TypeInv, FitInv, NEW s \in Sets, NEW new,
           NEW m \in Assignments(s, new, bmhCache),
           NEW e \in BuildExistingHostBMHMap(s, bmhCache)
    PROVE  RefFits(s, MergeMaps(m, e))
<1>1. ASSUME NEW h \in DOMAIN m PROVE m[h] \in Fits[s][h] \ Foreign
  <2>1. m[h] \in Available(bmhCache) /\ m[h] \in Fits[s][h]
    BY DEF Assignments, Injection
  <2>2. bmhCache[m[h]].consumer = Nil /\ m[h] \in BMHs
    BY <2>1 DEF Available
  <2> QED BY <2>1, <2>2, ConstantsAssumption DEF FitInv, BmhFits
<1>2. ASSUME NEW h \in DOMAIN e PROVE e[h] \in Fits[s][h] \ Foreign
  <2>1. e[h] \in BMHs /\ bmhCache[e[h]].label[s] # Nil /\ bmhCache[e[h]].label[s] = h
    BY DEF BuildExistingHostBMHMap, Owned
  <2> QED BY <2>1 DEF FitInv, BmhFits
<1> QED BY <1>1, <1>2 DEF RefFits, MergeMaps

\* The informers copy BMHs and sets that fit into the caches (SyncBmh, SyncSet).
LEMMA SyncFits ==
    ASSUME NEW s \in Sets, NEW ref, RefFits(s, ref), NEW list
    PROVE  RefFits(s, VerifyAndSyncBaremetalStatusBmhRefs(ref, list))
BY DEF RefFits, VerifyAndSyncBaremetalStatusBmhRefs

\* A patch adds at most the label of the host for its own set.
LEMMA PatchedBmhLabels ==
    ASSUME NEW s \in Sets, NEW h, NEW b,
           bmh[b] \in BareMetalHost, bmhCache[b] \in BareMetalHost
    PROVE  LET p == PatchedBmh(b, s, h)
           IN  /\ p.label[s] \in {h, bmh[b].label[s]}
               /\ \A t \in Sets \ {s} : p.label[t] = bmh[b].label[t]
BY DEF PatchedBmh, Mutated, Patch, BareMetalHost

\* Patching a BMH for a host it fits keeps it fitting, whatever the cache says.
LEMMA PatchedBmhFits ==
    ASSUME TypeInv, FitInv, NEW s \in Sets, NEW h \in Hosts, NEW b \in Fits[s][h] \ Foreign
    PROVE  b \in BMHs /\ BmhFits(b, PatchedBmh(b, s, h))
<1>0. b \in BMHs /\ h # Nil /\ s # Nil
  BY ConstantsAssumption
<1>1. bmh[b] \in BareMetalHost /\ bmhCache[b] \in BareMetalHost /\ BmhFits(b, bmh[b])
  BY <1>0 DEF TypeInv, TypeOK, FitInv
<1> DEFINE p == PatchedBmh(b, s, h)
<1>2. /\ p.label[s] \in {h, bmh[b].label[s]}
      /\ \A t \in Sets \ {s} : p.label[t] = bmh[b].label[t]
      /\ p.consumer \in {s, bmh[b].consumer}
  BY <1>0, <1>1 DEF PatchedBmh, Mutated, Patch, BareMetalHost
<1> HIDE DEF p
<1> QED BY <1>0, <1>1, <1>2 DEF BmhFits, p

\* A BMH that BaremetalHostDeprovision has released fits as before.
LEMMA ReleasedFits ==
    ASSUME TypeInv, FitInv, NEW s \in Sets, NEW b \in BMHs \ Foreign
    PROVE  BmhFits(b, Released(b, s))
<1>1. bmh[b] \in BareMetalHost /\ BmhFits(b, bmh[b])
  BY DEF TypeInv, TypeOK, FitInv
<1> DEFINE p == Released(b, s)
<1>2. /\ p.label[s] = Nil
      /\ \A t \in Sets \ {s} : p.label[t] = bmh[b].label[t]
      /\ p.consumer = Nil
  BY <1>1 DEF Released, BareMetalHost
<1> HIDE DEF p
<1> QED BY <1>1, <1>2, ConstantsAssumption DEF BmhFits, p

\* PatchInstance merges two statuses that fit into one that does.
LEMMA PatchedFits ==
    ASSUME TypeInv, NEW s \in Sets, NEW c \in OpenStackBaremetalSet, NEW cond,
           RefFits(s, base.ref), RefFits(s, inst.ref), RefFits(s, c.ref)
    PROVE  RefFits(s, Patched(c, cond).ref)
<1>1. Patched(c, cond).ref = [h \in Hosts |-> Patch(base.ref[h], inst.ref[h], c.ref[h])]
  BY DEF Patched, OpenStackBaremetalSet
<1> QED BY <1>1 DEF Patch, RefFits

\* Initially nothing is taken but what Other consumes.
LEMMA FitInit == Init => FitInv
BY ConstantsAssumption DEF Init, FitInv, LocalFits, BmhFits, RefFits, NoSet, NoHosts, Idle

\* What users, admission and inputs change does not touch the fit.
LEMMA UserFits ==
    ASSUME TypeInv, FitInv, NEW s \in Sets, UserStep(s)
    PROVE  FitInv'
<1>1. UNCHANGED <<bmh, bmhCache, osbmsCache, worker, base, inst>>
  BY DEF UserStep, CreateSet, UpdateSet, DeleteSet, PauseSet, SourceChanges, caches, local
<1>2. \A t \in Sets : osbms'[t].ref \in {osbms[t].ref, NoHosts}
  <2> USE DEF TypeInv, TypeOK, OpenStackBaremetalSet
  <2>1. CASE CreateSet(s)
    BY <2>1 DEF CreateSet, NoSet
  <2>2. CASE UpdateSet(s)
    BY <2>2 DEF UpdateSet
  <2>3. CASE DeleteSet(s)
    BY <2>3 DEF DeleteSet
  <2>4. CASE PauseSet(s)
    BY <2>4 DEF PauseSet
  <2>5. CASE SourceChanges(s)
    BY <2>5 DEF SourceChanges
  <2> QED BY <2>1, <2>2, <2>3, <2>4, <2>5 DEF UserStep
<1>3. \A t \in Sets : RefFits(t, NoHosts)
  BY DEF RefFits, NoHosts
<1> QED BY <1>1, <1>2, <1>3 DEF FitInv, LocalFits

\* Metal3 and the informers keep the fit.
LEMMA WatchFits ==
    ASSUME TypeInv, FitInv,
           \/ \E s \in Sets : SyncSet(s)
           \/ \E b \in BMHs : Metal3Step(b) \/ SyncBmh(b)
    PROVE  FitInv'
<1>1. UNCHANGED <<osbms, worker, base, inst>>
  BY DEF SyncSet, Metal3Step, SyncBmh, local, api
<1>2. \A s \in Sets : osbmsCache'[s] \in {osbmsCache[s], osbms[s]}
  BY DEF SyncSet, Metal3Step, SyncBmh, caches, TypeInv, TypeOK
<1>3. \A b \in BMHs : bmhCache'[b] \in {bmhCache[b], bmh[b]}
  BY DEF SyncSet, Metal3Step, SyncBmh, caches, TypeInv, TypeOK
<1>4. \A b \in BMHs : bmh'[b].label = bmh[b].label /\ bmh'[b].consumer = bmh[b].consumer
  BY DEF SyncSet, Metal3Step, SyncBmh, api, TypeInv, TypeOK, BareMetalHost
<1>5. \A b \in BMHs : BmhFits(b, bmh'[b]) /\ BmhFits(b, bmhCache'[b])
  BY <1>3, <1>4 DEF FitInv, BmhFits
<1> QED BY <1>1, <1>2, <1>5 DEF FitInv, LocalFits

\* The first step of a reconcile reads only bmhRefs that fit.
LEMMA ReconcileFits ==
    ASSUME TypeInv, FitInv, NEW s \in Sets, Reconcile(s)
    PROVE  FitInv'
<1>1. UNCHANGED <<bmh, bmhCache, osbms, osbmsCache>>
  BY DEF Reconcile, ReconcileSkips, ReconcileInitialises, ReconcileDelete, ReconcileWaits,
     ReconcileNormal, Reconciles, Take, api, caches
<1>2. CASE ReconcileSkips(s)
  BY <1>1, <1>2 DEF ReconcileSkips, local, FitInv, LocalFits
<1>3. CASE ~ReconcileSkips(s)
  <2> DEFINE c == osbmsCache[s]
  <2>0. c \in OpenStackBaremetalSet /\ RefFits(s, c.ref)
    BY DEF TypeInv, TypeOK, FitInv
  <2>1. base' = c
    BY <1>3 DEF Reconcile, ReconcileInitialises, ReconcileDelete, ReconcileWaits,
       ReconcileNormal, Reconciles
  <2>2. worker'.set = s /\ worker'.plan = NoHosts
    BY <1>3 DEF Reconcile, ReconcileInitialises, ReconcileDelete, ReconcileWaits,
       ReconcileNormal, Idle
  <2>3. inst'.ref \in {c.ref, VerifyAndSyncBaremetalStatusBmhRefs(c.ref, bmhCache)}
    <3> HIDE DEF c
    <3>1. CASE ReconcileInitialises(s)
      BY <2>0, <3>1 DEF ReconcileInitialises, InitStatus, OpenStackBaremetalSet, c
    <3>2. CASE ReconcileDelete(s)
      BY <2>0, <3>2 DEF ReconcileDelete, InitStatus, OpenStackBaremetalSet, c
    <3>3. CASE ReconcileWaits(s)
      BY <2>0, <3>3 DEF ReconcileWaits, InitStatus, OpenStackBaremetalSet, c
    <3>4. CASE ReconcileNormal(s)
      BY <2>0, <3>4 DEF ReconcileNormal, InitStatus, OpenStackBaremetalSet, c
    <3> QED BY <1>3, <3>1, <3>2, <3>3, <3>4 DEF Reconcile
  <2>4. RefFits(s, NoHosts)
    BY DEF RefFits, NoHosts
  <2>5. RefFits(s, inst'.ref)
    BY <2>0, <2>3, SyncFits
  <2> QED BY <1>1, <2>0, <2>1, <2>2, <2>4, <2>5 DEF FitInv, LocalFits
<1> QED BY <1>2, <1>3

\* Leaving the loop with an error, at the end of a deletion or for good.
LEMMA LocalExits ==
    ASSUME TypeInv, LocalFits, worker.pc # "idle",
           ReturnError \/ FinishDelete \/ EndReconcile
    PROVE  LocalFits'
<1>1. CASE ReturnError \/ FinishDelete
  <2>1. /\ worker'.set = worker.set /\ worker'.plan = worker.plan
        /\ base'.ref = base.ref /\ inst'.ref = inst.ref
    BY <1>1 DEF ReturnError, FinishDelete, TypeInv, TypeOK, Worker, OpenStackBaremetalSet
  <2> QED BY <2>1 DEF LocalFits
<1>2. CASE EndReconcile
  BY <1>2 DEF EndReconcile, Idle, LocalFits
<1> QED BY <1>1, <1>2

\* Every write of a reconcile keeps the fit, in all copies of the state.
LEMMA WorkerFits ==
    ASSUME TypeInv, FitInv, WorkerStep
    PROVE  FitInv'
<1> USE DEF At
<1>0. UNCHANGED <<bmhCache, osbmsCache>> /\ worker.pc # "idle" /\ worker.set \in Sets
  BY DEF WorkerStep, DeprovisionNotFound, DeprovisionConflict, DeprovisionUpdate,
     DeprovisionSecrets, RemoveFinalizer, EnsureBaremetalHosts, ProvisionSecrets,
     ProvisionBmh, ReconcileEnds, PatchInstance, caches, TypeInv, WorkerOK
<1>1. CASE DeprovisionNotFound \/ DeprovisionConflict \/ RemoveFinalizer
  <2>1. UNCHANGED <<bmh, osbms>> /\ (ReturnError \/ FinishDelete)
    BY <1>1 DEF DeprovisionNotFound, DeprovisionConflict, RemoveFinalizer, api
  <2> QED BY <1>0, <2>1, LocalExits DEF FitInv
<1>2. CASE DeprovisionUpdate
  <2>1. PICK t \in worker.todo :
          /\ Found(BmhRef(t))
          /\ bmh' = [bmh EXCEPT ![BmhRef(t)] = Released(BmhRef(t), worker.set)]
          /\ worker' = [worker EXCEPT !.pc = "secrets", !.cur = t[2], !.todo = @ \ {t}]
    BY <1>2 DEF DeprovisionUpdate
  <2>2. BmhRef(t) \in BMHs \ Foreign
    <3>1. t[2] \in Hosts \cup {Nil}
      BY DEF TypeInv, TypeOK, Worker
    <3>2. BmhRef(t) \in Fits[worker.set][t[2]] \ Foreign /\ t[2] \in Hosts
      BY <1>0, <2>1, <3>1 DEF Found, BmhRef, FitInv, LocalFits, RefFits
    <3> QED BY <1>0, <3>2, ConstantsAssumption
  <2>3. \A b \in BMHs : BmhFits(b, bmh'[b])
    BY <1>0, <2>1, <2>2, ReleasedFits DEF FitInv, TypeInv, TypeOK
  <2>4. worker'.set = worker.set /\ worker'.plan = worker.plan
    BY <2>1 DEF TypeInv, TypeOK, Worker
  <2> QED BY <1>0, <1>2, <2>3, <2>4 DEF DeprovisionUpdate, caches, FitInv, LocalFits
<1>3. CASE DeprovisionSecrets
  <2>1. inst'.ref = [inst.ref EXCEPT ![worker.cur] = Nil]
    BY <1>3 DEF DeprovisionSecrets, TypeInv, TypeOK, OpenStackBaremetalSet
  <2>2. worker'.set = worker.set /\ worker'.plan = worker.plan
    BY <1>3 DEF DeprovisionSecrets, TypeInv, TypeOK, Worker
  <2>3. RefFits(worker.set, inst'.ref)
    BY <1>0, <2>1 DEF FitInv, LocalFits, RefFits, TypeInv, TypeOK, OpenStackBaremetalSet
  <2> QED BY <1>0, <1>3, <2>2, <2>3 DEF DeprovisionSecrets, FitInv, LocalFits
<1>4. CASE EnsureBaremetalHosts
  <2>0. UNCHANGED <<bmh, osbms>>
    BY <1>4 DEF EnsureBaremetalHosts, api
  <2>1. CASE ReturnError
    BY <1>0, <2>0, <2>1, LocalExits DEF FitInv
  <2>2. CASE ~ReturnError
    <3>1. PICK m \in Assignments(worker.set, NewComputes(inst.hosts, inst.ref), bmhCache),
               e \in BuildExistingHostBMHMap(worker.set, bmhCache) :
            worker' = [worker EXCEPT !.pc = "provision", !.plan = MergeMaps(m, e)]
      BY <1>4, <2>2 DEF EnsureBaremetalHosts, VerifyBaremetalSetScaleUp
    <3>2. UNCHANGED <<base, inst>>
      BY <1>4, <2>2 DEF EnsureBaremetalHosts
    <3>3. worker'.set = worker.set /\ worker'.plan = MergeMaps(m, e)
      BY <3>1 DEF TypeInv, TypeOK, Worker
    <3>4. RefFits(worker.set, MergeMaps(m, e))
      BY <1>0, PlanFits
    <3> QED BY <1>0, <2>0, <3>2, <3>3, <3>4 DEF FitInv, LocalFits
  <2> QED BY <2>1, <2>2
<1>5. CASE ProvisionSecrets
  <2>0. UNCHANGED <<bmh, osbms>>
    BY <1>5 DEF ProvisionSecrets
  <2>1. CASE ReturnError
    BY <1>0, <2>0, <2>1, LocalExits DEF FitInv
  <2>2. CASE ~ReturnError
    <3>1. worker'.set = worker.set /\ worker'.plan = worker.plan /\ UNCHANGED <<base, inst>>
      BY <1>5, <2>2 DEF ProvisionSecrets, TypeInv, TypeOK, Worker
    <3> QED BY <1>0, <2>0, <3>1 DEF FitInv, LocalFits
  <2> QED BY <2>1, <2>2
<1>6. CASE ProvisionBmh
  <2> DEFINE h == worker.cur
             b == worker.plan[h]
  <2>0. h \in Hosts /\ b \in Fits[worker.set][h] \ Foreign /\ UNCHANGED osbms
    BY <1>0, <1>6 DEF ProvisionBmh, TypeInv, WorkerOK, FitInv, LocalFits, RefFits
  <2>1. CASE Patchable(b, worker.set, h)
    <3>1. /\ bmh' = [bmh EXCEPT ![b] = PatchedBmh(b, worker.set, h)]
          /\ inst' = [inst EXCEPT !.ref[h] = IF @ = Nil THEN b ELSE @,
                                  !.st[h] = StateAfterPatch(b, worker.set, h)]
          /\ worker' = [worker EXCEPT !.pc = "provision", !.cur = Nil, !.plan[h] = Nil]
          /\ UNCHANGED base
      BY <1>6, <2>1 DEF ProvisionBmh
    <3>2. \A d \in BMHs : BmhFits(d, bmh'[d])
      BY <1>0, <2>0, <3>1, PatchedBmhFits DEF FitInv, TypeInv, TypeOK
    <3>3. inst'.ref = [inst.ref EXCEPT ![h] = IF @ = Nil THEN b ELSE @]
      BY <2>0, <3>1 DEF TypeInv, TypeOK, OpenStackBaremetalSet
    <3>4. worker'.set = worker.set /\ worker'.plan = [worker.plan EXCEPT ![h] = Nil]
      BY <3>1 DEF TypeInv, TypeOK, Worker
    <3>5. RefFits(worker.set, inst'.ref) /\ RefFits(worker.set, worker'.plan)
      BY <1>0, <2>0, <3>3, <3>4
         DEF FitInv, LocalFits, RefFits, TypeInv, TypeOK, Worker, OpenStackBaremetalSet
    <3> QED BY <1>0, <2>0, <3>1, <3>2, <3>4, <3>5 DEF FitInv, LocalFits
  <2>2. CASE ~Patchable(b, worker.set, h)
    BY <1>0, <1>6, <2>0, <2>2, LocalExits DEF ProvisionBmh, FitInv
  <2> QED BY <2>1, <2>2
<1>7. CASE ReconcileEnds
  <2>1. /\ worker'.set = worker.set /\ worker'.plan = worker.plan
        /\ inst'.ref = inst.ref /\ UNCHANGED <<bmh, osbms, base>>
    BY <1>7 DEF ReconcileEnds, api, TypeInv, TypeOK, Worker, OpenStackBaremetalSet
  <2> QED BY <1>0, <2>1 DEF FitInv, LocalFits
<1>8. CASE PatchInstance
  <2>1. UNCHANGED bmh /\ EndReconcile
    BY <1>8 DEF PatchInstance
  <2>2. \A s \in Sets : RefFits(s, osbms'[s].ref)
    <3>1. CASE UNCHANGED osbms
      BY <3>1 DEF FitInv
    <3>2. CASE ~UNCHANGED osbms
      <4>1. PICK cond : osbms' = [osbms EXCEPT ![worker.set] = Patched(osbms[worker.set], cond)]
        BY <1>8, <3>2 DEF PatchInstance
      <4>2. RefFits(worker.set, Patched(osbms[worker.set], cond).ref)
        BY <1>0, PatchedFits DEF FitInv, LocalFits, TypeInv, TypeOK
      <4> QED BY <1>0, <4>1, <4>2 DEF FitInv, TypeInv, TypeOK
    <3> QED BY <3>1, <3>2
  <2> QED BY <1>0, <2>1, <2>2, LocalExits DEF FitInv
<1> QED BY <1>1, <1>2, <1>3, <1>4, <1>5, <1>6, <1>7, <1>8 DEF WorkerStep

\* Failed requests, panics, restarts and deleted BMHs keep the fit.
LEMMA FaultFits ==
    ASSUME TypeInv, FitInv, FaultStep
    PROVE  FitInv'
<1> USE DEF At
<1>1. CASE ApiError
  BY <1>1, LocalExits DEF ApiError, api, caches, FitInv
<1>2. CASE ProvisionAnswerLost
  <2> DEFINE h == worker.cur
             b == worker.plan[h]
  <2>1. /\ worker.set \in Sets /\ worker.pc = "bmh"
        /\ h \in Hosts /\ b \in Fits[worker.set][h] \ Foreign
    BY <1>2 DEF ProvisionAnswerLost, TypeInv, WorkerOK, FitInv, LocalFits, RefFits
  <2>2. bmh' = [bmh EXCEPT ![b] = PatchedBmh(b, worker.set, h)]
    BY <1>2 DEF ProvisionAnswerLost
  <2>3. \A d \in BMHs : BmhFits(d, bmh'[d])
    BY <2>1, <2>2, PatchedBmhFits DEF FitInv, TypeInv, TypeOK
  <2> QED BY <1>2, <2>1, <2>3, LocalExits DEF ProvisionAnswerLost, caches, FitInv
<1>3. CASE PatchInstanceFails \/ ReconcilePanics
  BY <1>3, LocalExits DEF PatchInstanceFails, ReconcilePanics, api, caches, FitInv
<1>4. CASE ManagerRestarts
  <2>1. LocalFits'
    BY <1>4 DEF ManagerRestarts, EndReconcile, Idle, LocalFits
  <2> QED BY <1>4, <2>1 DEF ManagerRestarts, api, FitInv
<1>5. ASSUME NEW d \in BMHs, DeleteBmhObject(d) PROVE FitInv'
  <2>1. \A b \in BMHs : bmh'[b].label = bmh[b].label /\ bmh'[b].consumer = bmh[b].consumer
    BY <1>5 DEF DeleteBmhObject, TypeInv, TypeOK, BareMetalHost
  <2>2. \A b \in BMHs : BmhFits(b, bmh'[b])
    BY <2>1 DEF FitInv, BmhFits
  <2> QED BY <1>5, <2>2 DEF DeleteBmhObject, caches, local, FitInv, LocalFits
<1> QED BY <1>1, <1>2, <1>3, <1>4, <1>5 DEF FaultStep

\* Every step keeps the fit.
LEMMA FitNext == TypeInv /\ FitInv /\ [Next]_vars => FitInv'
<1> SUFFICES ASSUME TypeInv, FitInv, [Next]_vars PROVE FitInv'
  OBVIOUS
<1>1. CASE Next
  BY <1>1, UserFits, WatchFits, ReconcileFits, WorkerFits, FaultFits DEF Next
<1>2. CASE UNCHANGED vars
  BY <1>2 DEF vars, FitInv, LocalFits
<1> QED BY <1>1, <1>2

\* Every copy of the state, cached or local, is about BMHs that fit.
THEOREM FitInvariant == Spec => []FitInv
BY TypeInvariant, FitInit, FitNext, PTL DEF Spec

\* VerifyBaremetalSetScaleUp and the labels of BaremetalHostProvision give a host
\* only BMHs that pass its selectors and hardware requests, and never one that
\* something else consumes: with any number of sets, hosts and BMHs, and under
\* stale reads, crashes, failed requests and deleted BMHs.
THEOREM OnlyMatching == Spec => []OnlyMatchingHosts
<1>1. FitInv => OnlyMatchingHosts
  <2> SUFFICES ASSUME FitInv PROVE OnlyMatchingHosts
    OBVIOUS
  <2>1. ASSUME NEW s \in Sets, NEW b \in BMHs
        PROVE  /\ bmh[b].label[s] # Nil => b \in Fits[s][bmh[b].label[s]]
               /\ bmh[b].consumer = s => \E h \in Hosts : b \in Fits[s][h]
    BY DEF FitInv, BmhFits
  <2>2. ASSUME NEW s \in Sets, NEW h \in Keys(osbms[s].ref)
        PROVE  osbms[s].ref[h] \in Fits[s][h]
    BY DEF FitInv, RefFits, Keys
  <2>3. \A b \in Foreign : bmh[b].consumer = Other
    BY ConstantsAssumption DEF FitInv, BmhFits
  <2> QED BY <2>1, <2>2, <2>3 DEF OnlyMatchingHosts
<1> QED BY <1>1, FitInvariant, PTL

-----------------------------------------------------------------------------
(* Secrets. *)

\* BMHs get the label of a host only from BaremetalHostProvision, which has
\* rendered the secrets of that host (ProvisionSecrets) by then.
LEMMA LabelChanges ==
    ASSUME TypeInv, FitInv, Next, NEW s \in Sets, NEW b \in BMHs
    PROVE  \/ bmh'[b].label[s] \in {bmh[b].label[s], Nil}
           \/ worker.pc = "bmh" /\ worker.set = s /\ bmh'[b].label[s] = worker.cur
<1> USE DEF At
<1>0. bmh \in [BMHs -> BareMetalHost] /\ bmhCache \in [BMHs -> BareMetalHost]
  BY DEF TypeInv, TypeOK
<1>1. ASSUME NEW d \in BMHs, Metal3Step(d) \/ DeleteBmhObject(d)
      PROVE  bmh'[b].label = bmh[b].label
  <2>1. CASE Metal3Step(d)
    BY <1>0, <2>1 DEF Metal3Step, BareMetalHost
  <2>2. CASE DeleteBmhObject(d)
    BY <1>0, <2>2 DEF DeleteBmhObject, BareMetalHost
  <2> QED BY <1>1, <2>1, <2>2
<1>2. CASE DeprovisionUpdate
  <2>1. PICK d : bmh' = [bmh EXCEPT ![d] = Released(d, worker.set)]
    BY <1>2 DEF DeprovisionUpdate
  <2>2. worker.set \in Sets
    BY <1>2 DEF DeprovisionUpdate, TypeInv, WorkerOK
  <2>3. Released(b, worker.set).label[s] \in {bmh[b].label[s], Nil}
    BY <1>0, <2>2 DEF Released, BareMetalHost
  <2> QED BY <1>0, <2>1, <2>3
<1>3. CASE ProvisionBmh \/ ProvisionAnswerLost
  <2> DEFINE d == worker.plan[worker.cur]
             p == PatchedBmh(b, worker.set, worker.cur)
  <2>1. /\ worker.pc = "bmh" /\ worker.set \in Sets
        /\ UNCHANGED bmh \/ bmh' = [bmh EXCEPT ![d] = PatchedBmh(d, worker.set, worker.cur)]
    BY <1>3 DEF ProvisionBmh, ProvisionAnswerLost, TypeInv, WorkerOK
  <2>2. /\ p.label[worker.set] \in {worker.cur, bmh[b].label[worker.set]}
        /\ s # worker.set => p.label[s] = bmh[b].label[s]
    <3>1. bmh[b] \in BareMetalHost /\ bmhCache[b] \in BareMetalHost
      BY <1>0
    <3> QED BY <2>1, <3>1, PatchedBmhLabels
  <2> HIDE DEF d
  <2>3. bmh'[b] \in {bmh[b], p}
    BY <1>0, <2>1
  <2> HIDE DEF p
  <2> QED BY <2>1, <2>2, <2>3
<1>4. CASE \E t \in Sets : UserStep(t) \/ SyncSet(t) \/ Reconcile(t)
  BY <1>4 DEF UserStep, CreateSet, UpdateSet, DeleteSet, PauseSet, SourceChanges, SyncSet,
     Reconcile, ReconcileSkips, ReconcileInitialises, ReconcileDelete, ReconcileWaits,
     ReconcileNormal, Reconciles, Take, api
<1>5. CASE WorkerStep /\ ~DeprovisionUpdate /\ ~ProvisionBmh
  BY <1>5 DEF WorkerStep, DeprovisionNotFound, DeprovisionConflict, DeprovisionSecrets,
     RemoveFinalizer, EnsureBaremetalHosts, ProvisionSecrets, ReconcileEnds, PatchInstance, api
<1>6. CASE ApiError \/ PatchInstanceFails \/ ReconcilePanics \/ ManagerRestarts
           \/ \E d \in BMHs : SyncBmh(d)
  BY <1>6 DEF ApiError, PatchInstanceFails, ReconcilePanics, ManagerRestarts, SyncBmh, api
<1> QED BY <1>1, <1>2, <1>3, <1>4, <1>5, <1>6 DEF Next, FaultStep

\* Releasing a BMH deletes secrets under the BMH's name, so that those of hosts
\* stay if no BMH has the name of a host.
LEMMA SecretsStay ==
    ASSUME BMHs \cap Hosts = {}, TypeInv, Next, NEW s \in Sets, NEW h \in Hosts,
           <<s, h>> \in secrets
    PROVE  <<s, h>> \in secrets'
<1>1. CASE DeprovisionSecrets
  <2>1. inst.ref[worker.cur] \in BMHs \cup {Nil}
    BY <1>1 DEF DeprovisionSecrets, At, TypeInv, TypeOK, WorkerOK, OpenStackBaremetalSet
  <2>2. inst.ref[worker.cur] # h
    BY <2>1, ConstantsAssumption
  <2> QED BY <1>1, <2>2 DEF DeprovisionSecrets, SecretsToDelete
<1>2. CASE ProvisionSecrets
  BY <1>2 DEF ProvisionSecrets
<1>3. CASE \E t \in Sets : UserStep(t) \/ SyncSet(t) \/ Reconcile(t)
  BY <1>3 DEF UserStep, CreateSet, UpdateSet, DeleteSet, PauseSet, SourceChanges, SyncSet,
     Reconcile, ReconcileSkips, ReconcileInitialises, ReconcileDelete, ReconcileWaits,
     ReconcileNormal, Reconciles, Take, api
<1>4. CASE WorkerStep /\ ~DeprovisionSecrets /\ ~ProvisionSecrets
  BY <1>4 DEF WorkerStep, DeprovisionNotFound, DeprovisionConflict, DeprovisionUpdate,
     RemoveFinalizer, EnsureBaremetalHosts, ProvisionBmh, ReconcileEnds, PatchInstance, api
<1>5. CASE FaultStep \/ \E d \in BMHs : Metal3Step(d) \/ SyncBmh(d)
  BY <1>5 DEF FaultStep, ApiError, ProvisionAnswerLost, PatchInstanceFails, ReconcilePanics,
     ManagerRestarts, DeleteBmhObject, Metal3Step, SyncBmh, api
<1> QED BY <1>1, <1>2, <1>3, <1>4, <1>5 DEF Next

\* A reconcile gets to patching a BMH only through EnsureSecrets.
LEMMA PatchAfterSecrets ==
    ASSUME TypeInv, Next, worker'.pc = "bmh"
    PROVE  \/ worker' = worker
           \/ worker'.cur \in Custom \/ <<worker'.set, worker'.cur>> \in secrets'
<1> USE DEF At
<1>0. worker \in Worker
  BY DEF TypeInv, TypeOK
<1>1. ~ReturnError /\ ~EndReconcile /\ ~FinishDelete
  <2>1. ~ReturnError
    BY <1>0 DEF ReturnError, Worker
  <2>2. ~FinishDelete
    BY <1>0 DEF FinishDelete, Worker
  <2>3. ~EndReconcile
    BY DEF EndReconcile, Idle
  <2> QED BY <2>1, <2>2, <2>3
<1>2. CASE ProvisionSecrets
  <2>1. PICK h \in Keys(worker.plan) :
          /\ secrets' = secrets \cup (IF h \in Custom THEN {} ELSE {<<worker.set, h>>})
          /\ worker' = [worker EXCEPT !.pc = "bmh", !.cur = h]
    BY <1>1, <1>2 DEF ProvisionSecrets
  <2>2. worker'.set = worker.set /\ worker'.cur = h
    BY <1>0, <2>1 DEF Worker
  <2> QED BY <2>1, <2>2
<1>3. CASE \E t \in Sets : UserStep(t) \/ SyncSet(t) \/ Reconcile(t)
  BY <1>3 DEF UserStep, CreateSet, UpdateSet, DeleteSet, PauseSet, SourceChanges, SyncSet,
     Reconcile, ReconcileSkips, ReconcileInitialises, ReconcileDelete, ReconcileWaits,
     ReconcileNormal, local, Idle
<1>4. ~(DeprovisionNotFound \/ DeprovisionConflict \/ DeprovisionUpdate \/ DeprovisionSecrets
        \/ RemoveFinalizer \/ EnsureBaremetalHosts)
  BY <1>0, <1>1 DEF DeprovisionNotFound, DeprovisionConflict, DeprovisionUpdate,
     DeprovisionSecrets, RemoveFinalizer, EnsureBaremetalHosts, Worker
<1>5. ~(ProvisionBmh \/ ReconcileEnds \/ PatchInstance)
  BY <1>0, <1>1 DEF ProvisionBmh, ReconcileEnds, PatchInstance, Worker
<1>6. CASE FaultStep \/ \E d \in BMHs : Metal3Step(d) \/ SyncBmh(d)
  BY <1>1, <1>6 DEF FaultStep, ApiError, ProvisionAnswerLost, PatchInstanceFails,
     ReconcilePanics, ManagerRestarts, DeleteBmhObject, Metal3Step, SyncBmh, local
<1> QED BY <1>2, <1>3, <1>4, <1>5, <1>6 DEF Next, WorkerStep

\* The secrets that a BMH's cloud-init data refers to are in place before the BMH
\* is labelled and as long as it is, under stale reads, crashes, failed requests
\* and deleted BMHs, if no host has the name of a BMH.
THEOREM SecretsStayInPlace ==
    ASSUME BMHs \cap Hosts = {}
    PROVE  Spec => []SecretsInPlace
<1>1. Init => SecretsInv
  BY ConstantsAssumption DEF Init, SecretsInv, Idle
<1>2. TypeInv /\ FitInv /\ SecretsInv /\ [Next]_vars => SecretsInv'
  <2> SUFFICES ASSUME TypeInv, FitInv, SecretsInv, [Next]_vars PROVE SecretsInv'
    OBVIOUS
  <2>1. CASE Next
    <3>1. ASSUME NEW s \in Sets, NEW b \in BMHs, bmh'[b].label[s] \in Hosts \ Custom
          PROVE  <<s, bmh'[b].label[s]>> \in secrets'
      <4> DEFINE h == bmh'[b].label[s]
      <4>0. \/ h \in {bmh[b].label[s], Nil}
            \/ worker.pc = "bmh" /\ worker.set = s /\ h = worker.cur
        BY <2>1, LabelChanges
      <4> HIDE DEF h
      <4>1. <<s, h>> \in secrets
        BY <3>1, <4>0, ConstantsAssumption DEF SecretsInv, h
      <4> USE DEF h
      <4> QED BY <2>1, <3>1, <4>1, SecretsStay
    <3>2. ASSUME worker'.pc = "bmh"
          PROVE  worker'.cur \in Custom \/ <<worker'.set, worker'.cur>> \in secrets'
      <4>1. CASE worker' = worker
        <5>1. worker.cur \in Hosts /\ worker.set \in Sets
          BY <3>2, <4>1 DEF TypeInv, WorkerOK
        <5> QED BY <2>1, <3>2, <4>1, <5>1, SecretsStay DEF SecretsInv
      <4> QED BY <2>1, <3>2, <4>1, PatchAfterSecrets
    <3> QED BY <3>1, <3>2 DEF SecretsInv
  <2>2. CASE UNCHANGED vars
    BY <2>2 DEF vars, SecretsInv
  <2> QED BY <2>1, <2>2
<1>3. SecretsInv => SecretsInPlace
  BY DEF SecretsInv, SecretsInPlace, InUse, Consumed
<1> QED BY <1>1, <1>2, <1>3, TypeInvariant, FitInvariant, PTL DEF Spec

=============================================================================
