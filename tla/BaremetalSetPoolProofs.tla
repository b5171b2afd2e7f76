----------------------- MODULE BaremetalSetPoolProofs -----------------------
(* With fresh reads a BMH has one owner at a time and keeps its image once it *)
(* is provisioned, whatever requests fail and whenever the manager crashes,   *)
(* and BaremetalSet implements HostPool.                                      *)
EXTENDS BaremetalSetFitProofs

Inv == TypeInv /\ FitInv /\ OwnershipInv

\* At first no BMH has owner labels, and only the foreign ones have a consumer.
LEMMA OwnerInit == Init => OwnershipInv
BY ConstantsAssumption DEF Init, OwnershipInv, Idle, NoHosts, Keys

\* A fresh CreateOrPatch of a BMH that is free or already ours.
LEMMA PatchedOwner ==
    ASSUME Inv, bmhCache = bmh, NEW s \in Sets, NEW h \in Hosts, NEW b \in BMHs \ Foreign,
           bmh[b].consumer \in {Nil, s}
    PROVE  /\ PatchedBmh(b, s, h).owner = s
           /\ PatchedBmh(b, s, h).consumer = s
           /\ bmh[b].state = "provisioned" /\ bmh[b].image # Nil
                => PatchedBmh(b, s, h).image = bmh[b].image
<1>1. bmh[b] \in BareMetalHost /\ s # Nil
  BY ConstantsAssumption DEF Inv, TypeInv, TypeOK
<1>2. bmh[b].owner = bmh[b].consumer /\ (bmh[b].consumer = Nil => bmh[b].image = Nil)
  BY DEF Inv, OwnershipInv
<1> QED BY <1>1, <1>2 DEF PatchedBmh, Mutated, Patch, BareMetalHost

\* The plan of ensureBaremetalHosts has BMHs that are free or already ours.
LEMMA PlanOurs ==
    ASSUME Inv, bmhCache = bmh, NEW s \in Sets, NEW new,
           NEW m \in Assignments(s, new, bmhCache),
           NEW e \in BuildExistingHostBMHMap(s, bmhCache)
    PROVE  \A h \in Keys(MergeMaps(m, e)) : bmh[MergeMaps(m, e)[h]].consumer \in {Nil, s}
<1>1. ASSUME NEW h \in DOMAIN m PROVE bmh[m[h]].consumer = Nil
  BY DEF Assignments, Injection, Available
<1>2. ASSUME NEW h \in DOMAIN e PROVE bmh[e[h]].consumer = s
  <2>1. e[h] \in BMHs /\ bmh[e[h]].owner = s
    BY DEF BuildExistingHostBMHMap, Owned
  <2> QED BY <2>1, ConstantsAssumption DEF Inv, OwnershipInv
<1> QED BY <1>1, <1>2 DEF Keys, MergeMaps

\* All that can happen to a BMH in one step.
BmhChange(b) ==
    \/ bmh'[b] = bmh[b]
    \/ bmh'[b] = [bmh[b] EXCEPT !.state = NextState(@, bmh[b].image)]
    \/ "bmhdel" \in Faults /\ bmh'[b] = [bmh[b] EXCEPT !.exists = FALSE]
    \/ /\ worker.set \in Sets /\ worker.pc = "release" /\ DeprovisionUpdate
       /\ bmh'[b] = Released(b, worker.set)
    \/ /\ worker.set \in Sets /\ worker.cur \in Hosts /\ b \notin Foreign
       /\ worker.pc = "bmh" /\ b = worker.plan[worker.cur]
       /\ bmh[b].consumer \in {Nil, worker.set}
       /\ bmhCache = bmh
       /\ bmh'[b] = PatchedBmh(b, worker.set, worker.cur)

\* With fresh reads every step changes a BMH in one of the ways BmhChange lists.
LEMMA BmhChanges ==
    ASSUME Inv, "stale" \notin Faults, Next, NEW b \in BMHs
    PROVE  BmhChange(b)
<1> USE DEF Inv, BmhChange, At
<1>1. CASE \E s \in Sets : UserStep(s) \/ SyncSet(s) \/ Reconcile(s)
  BY <1>1, Zenon DEF UserStep, CreateSet, UpdateSet, DeleteSet, PauseSet, SourceChanges, SyncSet,
     Reconcile, ReconcileSkips, ReconcileInitialises, ReconcileDelete, ReconcileWaits,
     ReconcileNormal, Reconciles, Take, api
<1>2. ASSUME NEW d \in BMHs, Metal3Step(d) \/ SyncBmh(d) PROVE BmhChange(b)
  BY <1>2 DEF Metal3Step, SyncBmh, api, TypeInv, TypeOK
<1>3. CASE DeprovisionUpdate
  BY <1>3, Zenon DEF DeprovisionUpdate, TypeInv, TypeOK, WorkerOK
<1>4. CASE ProvisionBmh \/ ProvisionAnswerLost
  <2> DEFINE h == worker.cur
             d == worker.plan[h]
  <2>1. /\ worker.set \in Sets /\ h \in Hosts /\ d # Nil /\ worker.pc = "bmh" /\ bmhCache = bmh
        /\ bmh' \in {bmh, [bmh EXCEPT ![d] = PatchedBmh(d, worker.set, h)]}
    BY <1>4 DEF ProvisionBmh, ProvisionAnswerLost, TypeInv, WorkerOK, Fresh
  <2>2. d \in BMHs \ Foreign
    BY <2>1, ConstantsAssumption DEF FitInv, LocalFits, RefFits
  <2>3. bmh[d].consumer \in {Nil, worker.set}
    BY <2>1 DEF OwnershipInv, Keys
  <2> QED BY <2>1, <2>2, <2>3 DEF TypeInv, TypeOK
<1>5. CASE WorkerStep /\ ~DeprovisionUpdate /\ ~ProvisionBmh
  BY <1>5, Zenon DEF WorkerStep, DeprovisionNotFound, DeprovisionConflict, DeprovisionSecrets,
     RemoveFinalizer, EnsureBaremetalHosts, ProvisionSecrets, ReconcileEnds, PatchInstance, api
<1>6. CASE FaultStep /\ ~ProvisionAnswerLost
  <2>1. ASSUME NEW d \in BMHs, DeleteBmhObject(d) PROVE BmhChange(b)
    BY <2>1, Zenon DEF DeleteBmhObject, Fault, TypeInv, TypeOK
  <2> QED BY <1>6, <2>1, Zenon DEF FaultStep, ApiError, PatchInstanceFails, ReconcilePanics,
             ManagerRestarts, api
<1> QED BY <1>1, <1>2, <1>3, <1>4, <1>5, <1>6, Zenon DEF Next, FaultStep, WorkerStep

\* All that can happen to the plan in one step: hosts leave it, or it is made.
PlanChange ==
    \/ \A h \in Keys(worker'.plan) :
            h \in Keys(worker.plan) /\ worker'.plan[h] = worker.plan[h] /\ worker'.set = worker.set
    \/ /\ UNCHANGED bmh
       /\ \A h \in Keys(worker'.plan) : bmh[worker'.plan[h]].consumer \in {Nil, worker'.set}

\* With fresh reads every step leaves a plan of BMHs that are free or the set's own.
LEMMA PlanChanges ==
    ASSUME Inv, "stale" \notin Faults, Next
    PROVE  PlanChange
<1> USE DEF Inv, PlanChange, At
<1>0. worker \in Worker
  BY DEF TypeInv, TypeOK
<1>1. CASE UNCHANGED worker
  BY <1>1
<1>2. CASE worker'.plan = NoHosts
  BY <1>2 DEF Keys, NoHosts
<1>3. CASE worker'.plan = worker.plan /\ worker'.set = worker.set
  BY <1>3
<1>4. CASE EndReconcile
  BY <1>2, <1>4 DEF EndReconcile, Idle
<1>5. CASE ReturnError \/ FinishDelete
  BY <1>0, <1>3, <1>5, Zenon DEF ReturnError, FinishDelete, Worker
<1>6. CASE \E s \in Sets : Reconcile(s)
  BY <1>1, <1>2, <1>6, Zenon DEF Reconcile, ReconcileSkips, ReconcileInitialises, ReconcileDelete,
     ReconcileWaits, ReconcileNormal, Idle, local
<1>7. CASE EnsureBaremetalHosts
  <2>1. CASE ~ReturnError
    <3>1. PICK m \in Assignments(worker.set, NewComputes(inst.hosts, inst.ref), bmhCache),
               e \in BuildExistingHostBMHMap(worker.set, bmhCache) :
            worker' = [worker EXCEPT !.pc = "provision", !.plan = MergeMaps(m, e)]
      BY <1>7, <2>1, Zenon DEF EnsureBaremetalHosts, VerifyBaremetalSetScaleUp
    <3>2. worker'.set = worker.set /\ worker'.plan = MergeMaps(m, e)
      BY <1>0, <3>1 DEF Worker
    <3>3. UNCHANGED bmh /\ bmhCache = bmh /\ worker.set \in Sets
      BY <1>7, Zenon DEF EnsureBaremetalHosts, api, Fresh, TypeInv, WorkerOK
    <3> QED BY <3>2, <3>3, PlanOurs
  <2> QED BY <1>5, <2>1
<1>8. CASE ProvisionBmh
  <2>1. CASE ~ReturnError
    <3>1. worker.cur \in Hosts
      BY <1>8 DEF ProvisionBmh, TypeInv, WorkerOK
    <3>2. /\ worker'.set = worker.set
          /\ worker'.plan = [worker.plan EXCEPT ![worker.cur] = Nil]
          /\ worker.plan \in [Hosts -> BMHs \cup {Nil}]
      BY <1>0, <1>8, <2>1, Zenon DEF ProvisionBmh, Worker
    <3> QED BY <3>1, <3>2 DEF Keys
  <2> QED BY <1>5, <2>1
<1>9. CASE WorkerStep /\ ~EnsureBaremetalHosts /\ ~ProvisionBmh
  <2>1. CASE DeprovisionUpdate
    BY <1>0, <1>3, <2>1 DEF DeprovisionUpdate, Worker
  <2>2. CASE DeprovisionSecrets
    BY <1>0, <1>3, <2>2 DEF DeprovisionSecrets, Worker
  <2>3. CASE ReconcileEnds
    BY <1>0, <1>3, <2>3 DEF ReconcileEnds, Worker
  <2>4. CASE ProvisionSecrets
    BY <1>0, <1>3, <1>5, <2>4, Zenon DEF ProvisionSecrets, Worker
  <2>5. CASE DeprovisionNotFound \/ DeprovisionConflict \/ RemoveFinalizer \/ PatchInstance
    BY <1>4, <1>5, <2>5 DEF DeprovisionNotFound, DeprovisionConflict, RemoveFinalizer, PatchInstance
  <2> QED BY <1>9, <2>1, <2>2, <2>3, <2>4, <2>5 DEF WorkerStep
<1>10. CASE FaultStep
  BY <1>1, <1>4, <1>5, <1>10 DEF FaultStep, ApiError, ProvisionAnswerLost, PatchInstanceFails,
     ReconcilePanics, ManagerRestarts, DeleteBmhObject, local
<1>11. CASE (\E s \in Sets : UserStep(s) \/ SyncSet(s)) \/ (\E b \in BMHs : Metal3Step(b) \/ SyncBmh(b))
  BY <1>1, <1>11, Zenon DEF UserStep, CreateSet, UpdateSet, DeleteSet, PauseSet, SourceChanges,
     SyncSet, Metal3Step, SyncBmh, local
<1> QED BY <1>6, <1>7, <1>8, <1>9, <1>10, <1>11 DEF Next

\* Every step with fresh reads keeps the ownership invariant.
LEMMA OwnerNext ==
    ASSUME "stale" \notin Faults, Inv, [Next]_vars
    PROVE  OwnershipInv'
<1>1. CASE Next
  <2>1. ASSUME NEW b \in BMHs
        PROVE  /\ bmh'[b].owner = (IF b \in Foreign THEN Nil ELSE bmh'[b].consumer)
               /\ bmh'[b].consumer = Nil => bmh'[b].image = Nil
               /\ bmh'[b].consumer \in {bmh[b].consumer, Nil, worker.set}
    <3>0. bmh[b] \in BareMetalHost /\ BmhChange(b)
      BY <1>1, BmhChanges DEF Inv, TypeInv, TypeOK
    <3>1. CASE bmh'[b] = PatchedBmh(b, worker.set, worker.cur) /\ worker.set \in Sets
               /\ worker.cur \in Hosts /\ b \notin Foreign /\ bmhCache = bmh
               /\ bmh[b].consumer \in {Nil, worker.set}
      BY <3>1, PatchedOwner, ConstantsAssumption
    <3>2. CASE bmh'[b] = Released(b, worker.set)
      BY <3>0, <3>2 DEF Released, BareMetalHost
    <3>3. CASE /\ bmh'[b].owner = bmh[b].owner /\ bmh'[b].consumer = bmh[b].consumer
               /\ bmh'[b].image = bmh[b].image
      BY <3>3 DEF Inv, OwnershipInv
    <3>4. CASE \/ bmh'[b] = bmh[b]
               \/ bmh'[b] = [bmh[b] EXCEPT !.state = NextState(@, bmh[b].image)]
               \/ bmh'[b] = [bmh[b] EXCEPT !.exists = FALSE]
      BY <3>0, <3>3, <3>4 DEF BareMetalHost
    <3> QED BY <3>0, <3>1, <3>2, <3>4 DEF BmhChange
  <2>2. ASSUME NEW h \in Keys(worker'.plan)
        PROVE  bmh'[worker'.plan[h]].consumer \in {Nil, worker'.set}
    <3>1. PlanChange
      BY <1>1, PlanChanges
    <3>2. CASE h \in Keys(worker.plan) /\ worker'.plan[h] = worker.plan[h] /\ worker'.set = worker.set
      <4>1. worker.plan[h] \in BMHs /\ bmh[worker.plan[h]].consumer \in {Nil, worker.set}
        BY <3>2 DEF Keys, Inv, TypeInv, TypeOK, Worker, OwnershipInv
      <4> QED BY <2>1, <3>2, <4>1
    <3> QED BY <3>1, <3>2 DEF PlanChange
  <2> QED BY <2>1, <2>2 DEF OwnershipInv
<1>2. CASE UNCHANGED vars
  BY <1>2 DEF vars, Inv, OwnershipInv
<1> QED BY <1>1, <1>2

\* With fresh reads, owner labels and consumerRef always name the same set.
THEOREM Ownership ==
    ASSUME "stale" \notin Faults
    PROVE  Spec => []OwnershipInv
<1>1. Inv /\ [Next]_vars => OwnershipInv'
  BY OwnerNext
<1>2. Inv <=> TypeInv /\ FitInv /\ OwnershipInv
  BY DEF Inv
<1> QED BY <1>1, <1>2, TypeInvariant, FitInvariant, OwnerInit, PTL DEF Spec

\* With fresh reads, BaremetalHostProvision never changes a BMH that has a
\* consumerRef to another set or consumer, though its patch carries no
\* resourceVersion: also under crashes, failed requests and deleted BMHs.
THEOREM TakenUntouched ==
    ASSUME "stale" \notin Faults
    PROVE  Spec => TakenHostsUntouched
<1> DEFINE Step == \A b \in BMHs :
             bmh[b].consumer \notin {Nil, worker.set} /\ bmh'[b].consumer # Nil
               => bmh'[b] = [bmh[b] EXCEPT !.state = bmh'[b].state, !.exists = bmh'[b].exists]
<1>1. ASSUME Inv, Next PROVE Step
  <2> SUFFICES ASSUME NEW b \in BMHs, bmh[b].consumer \notin {Nil, worker.set},
                      bmh'[b].consumer # Nil
               PROVE  bmh'[b] = [bmh[b] EXCEPT !.state = bmh'[b].state, !.exists = bmh'[b].exists]
    BY Zenon
  <2>1. BmhChange(b) /\ bmh[b] \in BareMetalHost
    BY <1>1, BmhChanges DEF Inv, TypeInv, TypeOK
  <2>2. bmh'[b] # Released(b, worker.set)
    BY <2>1, Zenon DEF Released, BareMetalHost
  <2> QED BY <2>1, <2>2, Zenon DEF BmhChange, BareMetalHost
<1>2. Inv /\ [Next]_vars => [Step]_bmh
  BY <1>1, Zenon DEF vars
<1> HIDE DEF Step
<1>3. Inv <=> TypeInv /\ FitInv /\ OwnershipInv
  BY DEF Inv
<1>4. Spec => [][Step]_bmh
  BY <1>2, <1>3, TypeInvariant, FitInvariant, Ownership, PTL DEF Spec
<1> QED BY <1>4 DEF TakenHostsUntouched, Step

\* With fresh reads, the image of a provisioned BMH is never exchanged for another
\* one, also when the provision server changes its image, the set is reconciled
\* again after a crash, or a patch was applied but its answer lost.
THEOREM ImageKept ==
    ASSUME "stale" \notin Faults
    PROVE  Spec => ProvisionedImageKept
<1> DEFINE Step == \A b \in BMHs : bmh[b].state = "provisioned" /\ bmh[b].image # Nil
                     => bmh'[b].image \in {bmh[b].image, Nil}
<1>1. ASSUME Inv, Next PROVE Step
  <2> SUFFICES ASSUME NEW b \in BMHs, bmh[b].state = "provisioned", bmh[b].image # Nil
               PROVE  bmh'[b].image \in {bmh[b].image, Nil}
    OBVIOUS
  <2>1. BmhChange(b) /\ bmh[b] \in BareMetalHost
    BY <1>1, BmhChanges DEF Inv, TypeInv, TypeOK
  <2>2. CASE bmh'[b] = PatchedBmh(b, worker.set, worker.cur) /\ worker.set \in Sets
             /\ worker.cur \in Hosts /\ b \notin Foreign /\ bmhCache = bmh
             /\ bmh[b].consumer \in {Nil, worker.set}
    BY <1>1, <2>2, PatchedOwner
  <2>3. CASE bmh'[b] = Released(b, worker.set)
    BY <2>1, <2>3 DEF Released, BareMetalHost
  <2>4. CASE \/ bmh'[b] = bmh[b]
             \/ bmh'[b] = [bmh[b] EXCEPT !.state = NextState(@, bmh[b].image)]
             \/ bmh'[b] = [bmh[b] EXCEPT !.exists = FALSE]
    BY <2>1, <2>4 DEF BareMetalHost
  <2> QED BY <2>1, <2>2, <2>3, <2>4 DEF BmhChange
<1>2. Inv /\ [Next]_vars => [Step]_bmh
  BY <1>1 DEF vars
<1> HIDE DEF Step
<1>3. Inv <=> TypeInv /\ FitInv /\ OwnershipInv
  BY DEF Inv
<1>4. Spec => [][Step]_bmh
  BY <1>2, <1>3, TypeInvariant, FitInvariant, Ownership, PTL DEF Spec
<1> QED BY <1>4 DEF ProvisionedImageKept, Step

-----------------------------------------------------------------------------
(* BaremetalSet implements HostPool. *)

LEMMA PlanInit == Init => PlanInv
BY DEF Init, PlanInv, Idle, NoHosts, Keys

\* A BMH of the plan that nobody has stays clean, because nothing is released
\* while there is a plan.
LEMMA FreeStaysClean ==
    ASSUME "stale" \notin Faults, Inv, PlanInv, Next, NEW h \in Keys(worker.plan),
           bmh'[worker.plan[h]].consumer = Nil
    PROVE  bmh'[worker.plan[h]].state = "available"
<1> DEFINE b == worker.plan[h]
<1>1. b \in BMHs
  BY DEF Keys, Inv, TypeInv, TypeOK, Worker
<1>2. bmh[b] \in BareMetalHost /\ BmhChange(b)
  BY <1>1, BmhChanges DEF Inv, TypeInv, TypeOK
<1>3. CASE bmh'[b] = PatchedBmh(b, worker.set, worker.cur) /\ worker.set \in Sets
           /\ worker.cur \in Hosts /\ b \notin Foreign /\ bmhCache = bmh
           /\ bmh[b].consumer \in {Nil, worker.set}
  BY <1>1, <1>3, PatchedOwner, ConstantsAssumption
<1>4. CASE worker.pc = "release"
  BY <1>4 DEF PlanInv
<1>5. CASE bmh'[b] = [bmh[b] EXCEPT !.state = NextState(@, bmh[b].image)]
  <2>1. bmh[b].consumer = Nil /\ bmh'[b].state = NextState(bmh[b].state, bmh[b].image)
    BY <1>2, <1>5 DEF BareMetalHost
  <2>2. bmh[b].image = Nil /\ bmh[b].state = "available"
    BY <1>1, <2>1 DEF PlanInv, Inv, OwnershipInv
  <2> QED BY <2>1, <2>2 DEF NextState
<1>6. CASE bmh'[b] = bmh[b] \/ bmh'[b] = [bmh[b] EXCEPT !.exists = FALSE]
  BY <1>2, <1>6 DEF PlanInv, BareMetalHost
<1> QED BY <1>2, <1>3, <1>4, <1>5, <1>6 DEF BmhChange

\* Whatever the plan keeps from before is still clean.
LEMMA KeptPlanClean ==
    ASSUME "stale" \notin Faults, Inv, PlanInv, Next,
           \A h \in Keys(worker'.plan) : h \in Keys(worker.plan) /\ worker'.plan[h] = worker.plan[h]
    PROVE  \A h \in Keys(worker'.plan) :
             bmh'[worker'.plan[h]].consumer = Nil => bmh'[worker'.plan[h]].state = "available"
BY FreeStaysClean

\* The plan of ensureBaremetalHosts takes from the pool only what is available.
LEMMA PlanClean ==
    ASSUME Inv, bmhCache = bmh, NEW s \in Sets, NEW new,
           NEW m \in Assignments(s, new, bmhCache),
           NEW e \in BuildExistingHostBMHMap(s, bmhCache)
    PROVE  \A h \in Keys(MergeMaps(m, e)) :
             bmh[MergeMaps(m, e)[h]].consumer = Nil => bmh[MergeMaps(m, e)[h]].state = "available"
<1>1. ASSUME NEW h \in DOMAIN m PROVE bmh[m[h]].state = "available"
  BY DEF Assignments, Injection, Available
<1>2. ASSUME NEW h \in DOMAIN e PROVE bmh[e[h]].consumer # Nil
  <2>1. e[h] \in BMHs /\ bmh[e[h]].owner = s
    BY DEF BuildExistingHostBMHMap, Owned
  <2> QED BY <2>1, ConstantsAssumption DEF Inv, OwnershipInv
<1> QED BY <1>1, <1>2 DEF Keys, MergeMaps

\* Every step with fresh reads keeps the invariant on the plan.
LEMMA PlanNext ==
    ASSUME "stale" \notin Faults, Inv, PlanInv, [Next]_vars
    PROVE  PlanInv'
<1> USE DEF At
<1>0. worker \in Worker /\ inst \in OpenStackBaremetalSet
  BY DEF Inv, TypeInv, TypeOK
<1>1. CASE UNCHANGED vars
  BY <1>1 DEF vars, PlanInv
<1> SUFFICES ASSUME Next PROVE PlanInv'
  BY <1>1
<1>2. CASE UNCHANGED <<worker, inst>>
  <2>1. \A h \in Keys(worker'.plan) : h \in Keys(worker.plan) /\ worker'.plan[h] = worker.plan[h]
    BY <1>2
  <2> QED BY <1>2, <2>1, KeptPlanClean DEF PlanInv
<1>3. CASE worker'.pc \in {"idle", "patch"} /\ worker'.plan \in {worker.plan, NoHosts}
  <2>1. \A h \in Keys(worker'.plan) : h \in Keys(worker.plan) /\ worker'.plan[h] = worker.plan[h]
    BY <1>3 DEF Keys, NoHosts
  <2> QED BY <1>3, <2>1, KeptPlanClean DEF PlanInv
<1>4. CASE EndReconcile
  BY <1>3, <1>4 DEF EndReconcile, Idle
<1>5. CASE ReturnError \/ FinishDelete
  BY <1>0, <1>3, <1>5, Zenon DEF ReturnError, FinishDelete, Worker
<1>6. ASSUME NEW s \in Sets, Reconcile(s) PROVE PlanInv'
  <2>1. CASE ReconcileSkips(s)
    BY <1>2, <2>1 DEF ReconcileSkips, local
  <2>2. CASE ReconcileInitialises(s) \/ ReconcileWaits(s)
    BY <1>3, <2>2, Zenon DEF ReconcileInitialises, ReconcileWaits, Idle
  <2>3. CASE ReconcileDelete(s)
    <3>1. worker'.pc = "release" /\ worker'.plan = NoHosts
      BY <2>3 DEF ReconcileDelete, Idle
    <3>2. osbmsCache[s] \in OpenStackBaremetalSet /\ inst' = InitStatus(osbmsCache[s])
          /\ osbmsCache[s].phase = "deleting"
      BY <2>3 DEF ReconcileDelete, Inv, TypeInv, TypeOK
    <3>3. inst'.phase = "deleting"
      BY <3>2 DEF InitStatus, OpenStackBaremetalSet
    <3> QED BY <3>1, <3>3 DEF PlanInv, Keys, NoHosts
  <2>4. CASE ReconcileNormal(s)
    <3>1. worker'.plan = NoHosts /\ worker'.img = source[s] /\ source[s] # Nil
      BY <2>4 DEF ReconcileNormal, Idle
    <3> QED BY <3>1 DEF PlanInv, Keys, NoHosts
  <2> QED BY <1>6, <2>1, <2>2, <2>3, <2>4 DEF Reconcile
<1>7. CASE EnsureBaremetalHosts
  <2>1. CASE ~ReturnError
    <3>1. PICK m \in Assignments(worker.set, NewComputes(inst.hosts, inst.ref), bmhCache),
               e \in BuildExistingHostBMHMap(worker.set, bmhCache) :
            worker' = [worker EXCEPT !.pc = "provision", !.plan = MergeMaps(m, e)]
      BY <1>7, <2>1, Zenon DEF EnsureBaremetalHosts, VerifyBaremetalSetScaleUp
    <3>2. /\ worker'.plan = MergeMaps(m, e) /\ worker'.pc = "provision"
          /\ worker'.img = worker.img /\ worker.img # Nil
      BY <1>0, <1>7, <3>1, Zenon DEF Worker, EnsureBaremetalHosts, PlanInv
    <3>3. UNCHANGED bmh /\ bmhCache = bmh /\ worker.set \in Sets
      BY <1>7, Zenon DEF EnsureBaremetalHosts, api, Fresh, Inv, TypeInv, WorkerOK
    <3>4. \A h \in Keys(worker'.plan) :
             bmh'[worker'.plan[h]].consumer = Nil => bmh'[worker'.plan[h]].state = "available"
      BY <3>2, <3>3, PlanClean
    <3> QED BY <3>2, <3>4 DEF PlanInv
  <2> QED BY <1>5, <2>1
<1>8. CASE ProvisionBmh
  <2>1. CASE ~ReturnError
    <3>1. worker.cur \in Hosts /\ worker.pc = "bmh"
      BY <1>8 DEF ProvisionBmh, Inv, TypeInv, WorkerOK
    <3>2. /\ worker'.pc = "provision" /\ worker'.img = worker.img
          /\ worker'.plan = [worker.plan EXCEPT ![worker.cur] = Nil]
          /\ worker.plan \in [Hosts -> BMHs \cup {Nil}]
      BY <1>0, <1>8, <2>1, Zenon DEF ProvisionBmh, Worker
    <3>3. \A h \in Keys(worker'.plan) : h \in Keys(worker.plan) /\ worker'.plan[h] = worker.plan[h]
      BY <3>1, <3>2 DEF Keys
    <3> QED BY <3>1, <3>2, <3>3, KeptPlanClean DEF PlanInv
  <2> QED BY <1>5, <2>1
<1>9. ASSUME worker'.plan = worker.plan, worker'.img = worker.img, inst'.phase = inst.phase,
             \/ worker.pc \in {"release", "secrets"} /\ worker'.pc \in {"release", "secrets"}
             \/ worker.pc \in {"provision", "bmh"} /\ worker'.pc \in {"provision", "bmh"}
      PROVE  PlanInv'
  <2>1. \A h \in Keys(worker'.plan) : h \in Keys(worker.plan) /\ worker'.plan[h] = worker.plan[h]
    BY <1>9
  <2> QED BY <1>9, <2>1, KeptPlanClean DEF PlanInv
<1>10. CASE DeprovisionUpdate
  BY <1>0, <1>9, <1>10 DEF DeprovisionUpdate, Worker
<1>11. CASE DeprovisionSecrets
  <2>1. inst'.phase = inst.phase
    BY <1>0, <1>11 DEF DeprovisionSecrets, OpenStackBaremetalSet
  <2> QED BY <1>0, <1>9, <1>11, <2>1 DEF DeprovisionSecrets, Worker
<1>12. CASE ProvisionSecrets
  BY <1>0, <1>5, <1>9, <1>12, Zenon DEF ProvisionSecrets, Worker
<1>13. CASE ReconcileEnds
  BY <1>0, <1>3, <1>13 DEF ReconcileEnds, Worker
<1>14. CASE DeprovisionNotFound \/ DeprovisionConflict \/ RemoveFinalizer \/ PatchInstance
  BY <1>4, <1>5, <1>14 DEF DeprovisionNotFound, DeprovisionConflict, RemoveFinalizer, PatchInstance
<1>15. CASE FaultStep
  BY <1>2, <1>4, <1>5, <1>15 DEF FaultStep, ApiError, ProvisionAnswerLost, PatchInstanceFails,
     ReconcilePanics, ManagerRestarts, DeleteBmhObject, local
<1>16. CASE (\E s \in Sets : UserStep(s) \/ SyncSet(s)) \/ (\E b \in BMHs : Metal3Step(b) \/ SyncBmh(b))
  BY <1>2, <1>16, Zenon DEF UserStep, CreateSet, UpdateSet, DeleteSet, PauseSet, SourceChanges,
     SyncSet, Metal3Step, SyncBmh, local
<1> QED BY <1>6, <1>7, <1>8, <1>10, <1>11, <1>12, <1>13, <1>14, <1>15, <1>16 DEF Next, WorkerStep

-----------------------------------------------------------------------------
(* The refinement. *)

\* A step changes at most one BMH.
LEMMA OneBmh ==
    ASSUME Inv, Next
    PROVE  bmh' = bmh \/ \E b \in BMHs : bmh' = [bmh EXCEPT ![b] = bmh'[b]]
<1> USE DEF At
<1>0. bmh \in [BMHs -> BareMetalHost]
  BY DEF Inv, TypeInv, TypeOK
<1>1. ASSUME NEW b \in BMHs, NEW r, bmh' = [bmh EXCEPT ![b] = r]
      PROVE  \E c \in BMHs : bmh' = [bmh EXCEPT ![c] = bmh'[c]]
  BY <1>0, <1>1, Zenon
<1>2. CASE \E s \in Sets : UserStep(s) \/ SyncSet(s) \/ Reconcile(s)
  BY <1>2, Zenon DEF UserStep, CreateSet, UpdateSet, DeleteSet, PauseSet, SourceChanges, SyncSet,
     Reconcile, ReconcileSkips, ReconcileInitialises, ReconcileDelete, ReconcileWaits,
     ReconcileNormal, Reconciles, Take, api
<1>3. ASSUME NEW d \in BMHs, Metal3Step(d) \/ SyncBmh(d)
      PROVE  bmh' = bmh \/ \E b \in BMHs : bmh' = [bmh EXCEPT ![b] = bmh'[b]]
  BY <1>0, <1>3 DEF Metal3Step, SyncBmh, api
<1>4. CASE DeprovisionUpdate
  <2>1. PICK t \in worker.todo :
           Found(BmhRef(t)) /\ bmh' = [bmh EXCEPT ![BmhRef(t)] = Released(BmhRef(t), worker.set)]
    BY <1>4, Zenon DEF DeprovisionUpdate
  <2>2. BmhRef(t) \in BMHs
    BY <2>1 DEF Found, BmhRef, Inv, TypeInv, TypeOK, OpenStackBaremetalSet, Worker
  <2> QED BY <1>1, <2>1, <2>2, Zenon
<1>5. CASE ProvisionBmh \/ ProvisionAnswerLost
  <2> DEFINE d == worker.plan[worker.cur]
  <2>1. /\ worker.cur \in Hosts /\ d # Nil
        /\ bmh' \in {bmh, [bmh EXCEPT ![d] = PatchedBmh(d, worker.set, worker.cur)]}
    BY <1>5 DEF ProvisionBmh, ProvisionAnswerLost, Inv, TypeInv, WorkerOK
  <2>2. d \in BMHs
    BY <2>1 DEF Inv, TypeInv, TypeOK, Worker
  <2> QED BY <1>1, <2>1, <2>2
<1>6. CASE WorkerStep /\ ~DeprovisionUpdate /\ ~ProvisionBmh
  BY <1>6, Zenon DEF WorkerStep, DeprovisionNotFound, DeprovisionConflict, DeprovisionSecrets,
     RemoveFinalizer, EnsureBaremetalHosts, ProvisionSecrets, ReconcileEnds, PatchInstance, api
<1>7. CASE FaultStep /\ ~ProvisionAnswerLost
  <2>1. ASSUME NEW d \in BMHs, DeleteBmhObject(d)
        PROVE  \E b \in BMHs : bmh' = [bmh EXCEPT ![b] = bmh'[b]]
    BY <1>0, <2>1, Zenon DEF DeleteBmhObject
  <2> QED BY <1>7, <2>1 DEF FaultStep, ApiError, PatchInstanceFails, ReconcilePanics,
             ManagerRestarts, api
<1> QED BY <1>2, <1>3, <1>4, <1>5, <1>6, <1>7 DEF Next, FaultStep, WorkerStep

\* The image that a fresh CreateOrPatch leaves.
LEMMA PatchedImage ==
    ASSUME Inv, bmhCache = bmh, NEW s \in Sets, NEW h \in Hosts, NEW b \in BMHs \ Foreign
    PROVE  /\ PatchedBmh(b, s, h).image =
                (IF bmh[b].state # "provisioned" \/ bmh[b].consumer = Nil
                 THEN worker.img ELSE bmh[b].image)
           /\ PatchedBmh(b, s, h).state = bmh[b].state
<1>1. bmh[b] \in BareMetalHost
  BY DEF Inv, TypeInv, TypeOK
<1> QED BY <1>1 DEF PatchedBmh, Mutated, Patch, BareMetalHost

LEMMA PoolInit == Init => Pool!Init
BY DEF Init, Pool!Init

\* Every step with fresh reads is a step of the pool or leaves it alone.
LEMMA PoolNext ==
    ASSUME "stale" \notin Faults, Inv, PlanInv, FitInv', [Next]_vars
    PROVE  [Pool!Next]_(Pool!vars)
<1> DEFINE holder == [c \in BMHs |-> bmh[c].consumer]
           image == [c \in BMHs |-> bmh[c].image]
           state == [c \in BMHs |-> bmh[c].state]
<1>1. CASE bmh' = bmh
  BY <1>1 DEF Pool!vars
<1>2. ASSUME Next, NEW b \in BMHs, bmh' = [bmh EXCEPT ![b] = bmh'[b]]
      PROVE  [Pool!Next]_(Pool!vars)
  <2> DEFINE new == bmh'[b]
  <2>0. /\ bmh[b] \in BareMetalHost /\ BmhChange(b) /\ bmh \in [BMHs -> BareMetalHost]
        /\ BmhFits(b, new)
    BY <1>2, BmhChanges DEF Inv, TypeInv, TypeOK, FitInv
  <2>1. /\ [c \in BMHs |-> bmh'[c].consumer] = [holder EXCEPT ![b] = new.consumer]
        /\ [c \in BMHs |-> bmh'[c].image] = [image EXCEPT ![b] = new.image]
        /\ [c \in BMHs |-> bmh'[c].state] = [state EXCEPT ![b] = new.state]
    BY <1>2, <2>0, Zenon
  <2>2. holder[b] = bmh[b].consumer /\ image[b] = bmh[b].image /\ state[b] = bmh[b].state
    OBVIOUS
  <2>3. CASE new.consumer = bmh[b].consumer /\ new.image = bmh[b].image /\ new.state = bmh[b].state
    BY <2>1, <2>3, Zenon DEF Pool!vars
  <2>4. CASE new = [bmh[b] EXCEPT !.state = NextState(@, bmh[b].image)]
    <3>1. /\ new.consumer = bmh[b].consumer /\ new.image = bmh[b].image
          /\ new.state = NextState(bmh[b].state, bmh[b].image)
      BY <2>0, <2>4 DEF BareMetalHost
    <3>2. new.state \in {"busy", IF image[b] = Nil THEN "available" ELSE "provisioned"}
      BY <3>1 DEF NextState
    <3>3. Pool!Metal3(b)
      BY <2>1, <3>1, <3>2, Zenon DEF Pool!Metal3
    <3> QED BY <3>3 DEF Pool!Next
  <2>5. CASE new = Released(b, worker.set)
    <3>1. new.consumer = Nil /\ new.image = Nil /\ new.state = bmh[b].state
      BY <2>0, <2>5 DEF Released, BareMetalHost
    <3>2. b \notin Foreign
      BY <2>0, <3>1, ConstantsAssumption DEF BmhFits
    <3>3. bmh[b].consumer \in Sets \cup {Nil}
      BY <2>0, <3>2 DEF Inv, OwnershipInv, BareMetalHost
    <3>4. CASE bmh[b].consumer = Nil
      BY <2>3, <3>1, <3>4 DEF Inv, OwnershipInv
    <3>5. CASE bmh[b].consumer \in Sets
      <4>1. Pool!Release(b)
        BY <2>1, <3>1, <3>5, Zenon DEF Pool!Release
      <4> QED BY <4>1 DEF Pool!Next
    <3> QED BY <3>3, <3>4, <3>5
  <2>6. CASE /\ worker.set \in Sets /\ worker.cur \in Hosts /\ b \notin Foreign
             /\ worker.pc = "bmh" /\ b = worker.plan[worker.cur]
             /\ bmh[b].consumer \in {Nil, worker.set}
             /\ bmhCache = bmh
             /\ new = PatchedBmh(b, worker.set, worker.cur)
    <3>1. /\ new.consumer = worker.set /\ new.state = bmh[b].state
          /\ new.image = (IF bmh[b].state # "provisioned" \/ bmh[b].consumer = Nil
                          THEN worker.img ELSE bmh[b].image)
      BY <2>6, PatchedOwner, PatchedImage
    <3>2. worker.img \in Images
      BY <2>6 DEF PlanInv, Inv, TypeInv, TypeOK, Worker
    <3>3. CASE bmh[b].consumer = Nil
      <4>1. bmh[b].image = Nil /\ bmh[b].state = "available"
        BY <2>6, <3>3, ConstantsAssumption DEF Inv, OwnershipInv, PlanInv, Keys
      <4>2. \E h \in Hosts : b \in Fits[worker.set][h]
        BY <2>0, <2>6, <3>1, Zenon DEF BmhFits
      <4>3. ASSUME NEW s \in Sets, s = worker.set PROVE Pool!Claim(b, s)
        BY <2>1, <3>1, <3>2, <3>3, <4>1, <4>2, <4>3, Zenon DEF Pool!Claim
      <4>4. \E s \in Sets : Pool!Claim(b, s)
        BY <2>6, <4>3
      <4> QED BY <4>4 DEF Pool!Next
    <3>4. CASE bmh[b].consumer = worker.set /\ bmh[b].consumer # Nil
      <4>1. CASE bmh[b].state = "provisioned"
        BY <2>3, <3>1, <3>4, <4>1
      <4>2. CASE bmh[b].state # "provisioned"
        <5>1. /\ [c \in BMHs |-> bmh'[c].consumer] = holder
              /\ [c \in BMHs |-> bmh'[c].state] = state
              /\ [c \in BMHs |-> bmh'[c].image] = [image EXCEPT ![b] = worker.img]
          <6>1. bmh'[b].consumer = bmh[b].consumer /\ bmh'[b].state = bmh[b].state
                /\ bmh'[b].image = worker.img
            BY <3>1, <3>4, <4>2
          <6>2. [holder EXCEPT ![b] = bmh[b].consumer] = holder
                /\ [state EXCEPT ![b] = bmh[b].state] = state
            BY Zenon
          <6> QED BY <2>1, <6>1, <6>2
        <5>2. holder[b] \in Sets /\ state[b] # "provisioned"
          BY <2>6, <3>4, <4>2
        <5>3. Pool!Reimage(b)
          BY <3>2, <5>1, <5>2, Zenon DEF Pool!Reimage
        <5> QED BY <5>3 DEF Pool!Next
      <4> QED BY <4>1, <4>2
    <3> QED BY <2>6, <3>3, <3>4
  <2>7. CASE new = bmh[b] \/ new = [bmh[b] EXCEPT !.exists = FALSE]
    BY <2>0, <2>3, <2>7 DEF BareMetalHost
  <2> QED BY <2>0, <2>4, <2>5, <2>6, <2>7 DEF BmhChange
<1> QED BY <1>1, <1>2, OneBmh DEF vars

\* With fresh reads the controller implements HostPool: every BMH is claimed,
\* reimaged and released only as that specification allows, for any number of
\* sets, hosts and BMHs, and under crashes, failed requests, lost answers and
\* deleted BMHs.
THEOREM PoolImplemented ==
    ASSUME "stale" \notin Faults
    PROVE  Spec => ImplementsPool
<1>1. Inv /\ PlanInv /\ [Next]_vars => PlanInv'
  BY PlanNext
<1>2. Inv /\ PlanInv /\ FitInv' /\ [Next]_vars => [Pool!Next]_(Pool!vars)
  BY PoolNext
<1>3. Inv <=> TypeInv /\ FitInv /\ OwnershipInv
  BY DEF Inv
<1>4. Spec => Pool!Init /\ [][Pool!Next]_(Pool!vars)
  BY <1>1, <1>2, <1>3, PoolInit, PlanInit, TypeInvariant, FitInvariant, Ownership, PTL DEF Spec
<1> QED BY <1>4 DEF ImplementsPool, Pool!Spec

=============================================================================
