----------------------- MODULE BaremetalSetStepProofs -----------------------
(* Without stale reads, failed requests and crashes the steps of users, of    *)
(* Metal3 and of reconciles, but for those that write a BMH, preserve the     *)
(* agreement of status, labels and consumerRefs.                              *)
EXTENDS BaremetalSetPoolProofs

AllInv == Inv /\ PlanInv /\ StatusInv

\* Initially nothing is held, and no reconcile is under way.
LEMMA StatusInit == Init => StatusInv
<1> SUFFICES ASSUME Init PROVE StatusInv
  OBVIOUS
<1>1. Keys(NoHosts) = {}
  BY DEF Keys, NoHosts
<1>2. ASSUME NEW b \in BMHs
      PROVE  /\ bmh[b].consumer \notin Sets
             /\ \A s \in Sets : bmh[b].label[s] = Nil
  BY <1>2, ConstantsAssumption DEF Init
<1>3. ASSUME NEW s \in Sets
      PROVE  /\ SetInv(osbms[s])
             /\ Distinct(bmh, osbms[s].ref)
             /\ Recorded(s, bmh, osbms[s].ref, osbms[s].st)
  <2>1. osbms[s] = NoSet
    BY DEF Init
  <2>2. SetInv(NoSet) /\ NoSet.ref = NoHosts
    BY <1>1 DEF NoSet, SetInv, ReadyNow
  <2> QED BY <1>1, <1>2, <2>1, <2>2 DEF Distinct, Recorded, Consumed
<1>4. worker.pc = "idle" /\ worker.set = Nil /\ inst.cond = "none"
  BY Zenon DEF Init, Idle, NoSet
<1> QED BY <1>2, <1>3, <1>4, Zenon DEF StatusInv, BmhInv

\* What the invariant says of the locals concerns sets only where it says so.
LEMMA SameLocals ==
    ASSUME UNCHANGED <<bmh, worker, base, inst>>
    PROVE  /\ KeptInv' = KeptInv /\ ReleaseInv' = ReleaseInv /\ ProvideInv' = ProvideInv
           /\ Entries' = Entries
<1>1. KeptInv' = KeptInv
  BY DEF KeptInv, Stays
<1>2. ReleaseInv' = ReleaseInv
  BY DEF ReleaseInv, Stays
<1>3. ProvideInv' = ProvideInv
  BY DEF ProvideInv
<1>4. Entries' = Entries
  BY DEF Entries
<1> QED BY <1>1, <1>2, <1>3, <1>4

\* Steps that touch neither objects nor locals, such as those of the informers.
LEMMA QuietStatus ==
    ASSUME StatusInv, UNCHANGED <<bmh, osbms, worker, base, inst>>
    PROVE  StatusInv'
<1>1. LinkInv' = LinkInv
  BY DEF LinkInv
<1> QED BY <1>1, SameLocals DEF StatusInv

\* What Recorded says of a BMH that the set consumes.
LEMMA RecordedBmh ==
    ASSUME NEW s, NEW list, NEW ref, NEW st, Recorded(s, list, ref, st),
           NEW b \in Consumed(s, list)
    PROVE  list[b].label[s] # Nil /\ ref[list[b].label[s]] = b
BY Zenon DEF Recorded

\* What Recorded says of an entry whose BMH exists.
LEMMA RecordedEntry ==
    ASSUME NEW s, NEW list, NEW ref, NEW st, Recorded(s, list, ref, st),
           NEW h \in Keys(ref), list[ref[h]].exists
    PROVE  /\ list[ref[h]].consumer = s /\ list[ref[h]].label[s] = h
           /\ st[h] = "provisioned" => list[ref[h]].state = "provisioned"
BY Zenon DEF Recorded

\* Only the states of hosts with an entry matter.
LEMMA RecordedStates ==
    ASSUME NEW s, NEW list, NEW ref, NEW st, NEW new, Recorded(s, list, ref, st),
           \A h \in Keys(ref) : new[h] = st[h]
    PROVE  Recorded(s, list, ref, new)
BY DEF Recorded

\* The label tells the entries of a BMH apart.
LEMMA RecordedDistinct ==
    ASSUME NEW s, NEW list, NEW ref, NEW st, Recorded(s, list, ref, st)
    PROVE  Distinct(list, ref)
BY DEF Recorded, Distinct

\* Owner labels and consumerRef name the same set.
LEMMA OwnedIsConsumed ==
    ASSUME AllInv, NEW s \in Sets
    PROVE  Owned(s, bmh) = Consumed(s, bmh)
<1>1. ASSUME NEW b \in BMHs
      PROVE  bmh[b].owner = s <=> bmh[b].consumer = s
  <2>1. b \in Foreign => bmh[b].consumer = Other
    BY Zenon DEF AllInv, Inv, FitInv, BmhFits
  <2> QED BY <2>1, ConstantsAssumption DEF AllInv, Inv, OwnershipInv
<1> QED BY <1>1, Zenon DEF Owned, Consumed

\* A set that holds no entries consumes nothing.
LEMMA NothingRecorded ==
    ASSUME TypeInv, NEW s \in Sets, NEW ref, NEW st, Keys(ref) = {},
           Recorded(s, bmh, ref, st)
    PROVE  Consumed(s, bmh) = {}
<1> SUFFICES ASSUME NEW b \in Consumed(s, bmh) PROVE FALSE
  OBVIOUS
<1>1. bmh[b].label[s] \in Hosts /\ b # Nil
  BY ConstantsAssumption DEF Recorded, Consumed, TypeInv, TypeOK, BareMetalHost
<1> QED BY <1>1, Zenon DEF Recorded, Keys

\* What users do to a set that exists: spec, pause and deletion mark change, the
\* status and the finalizer do not.
Edited(c, d) ==
    /\ d.final = c.final /\ d.cond = c.cond /\ d.obs = c.obs /\ d.ref = c.ref /\ d.st = c.st
    /\ c.gen <= d.gen /\ (c.gen = d.gen => d.hosts = c.hosts)
    /\ c.phase = "live"
    /\ d.phase = "live" \/ d.phase = (IF c.final THEN "deleting" ELSE "gone")

\* UpdateSet, DeleteSet and PauseSet edit one set.
LEMMA UserEdits ==
    ASSUME TypeInv, NEW s \in Sets, UpdateSet(s) \/ DeleteSet(s) \/ PauseSet(s)
    PROVE  Edited(osbms[s], osbms'[s]) /\ osbms' = [osbms EXCEPT ![s] = osbms'[s]]
<1>0. osbms \in [Sets -> OpenStackBaremetalSet] /\ osbms[s] \in OpenStackBaremetalSet
  BY DEF TypeInv, TypeOK
<1>1. CASE UpdateSet(s)
  <2>1. PICK hosts \in HostMaps[s] :
           osbms' = [osbms EXCEPT ![s].hosts = hosts, ![s].gen = @ + 1] /\ osbms[s].phase = "live"
    BY <1>1, Zenon DEF UpdateSet
  <2>2. osbms'[s] = [osbms[s] EXCEPT !.hosts = hosts, !.gen = @ + 1]
    BY <1>0, <2>1
  <2> QED BY <1>0, <2>1, <2>2 DEF Edited, OpenStackBaremetalSet
<1>2. CASE DeleteSet(s)
  BY <1>0, <1>2 DEF DeleteSet, Edited, OpenStackBaremetalSet
<1>3. CASE PauseSet(s)
  BY <1>0, <1>3 DEF PauseSet, Edited, OpenStackBaremetalSet
<1> QED BY <1>1, <1>2, <1>3

\* An edited set keeps its own invariant: a new generation is not ready yet.
LEMMA EditedSet ==
    ASSUME NEW c \in OpenStackBaremetalSet, NEW d \in OpenStackBaremetalSet,
           SetInv(c), Edited(c, d)
    PROVE  SetInv(d)
<1>1. ReadyNow(d) => ReadyNow(c) /\ d.hosts = c.hosts
  BY DEF ReadyNow, Edited, SetInv, OpenStackBaremetalSet
<1> QED BY <1>1 DEF Edited, SetInv, OpenStackBaremetalSet

\* Steps of users keep the invariant, also on a set that is being reconciled.
LEMMA UserStatus ==
    ASSUME AllInv, TypeInv', NEW s \in Sets, UserStep(s)
    PROVE  StatusInv'
<1> USE DEF AllInv, Inv
<1>0. UNCHANGED <<bmh, worker, base, inst>>
  BY Zenon DEF UserStep, CreateSet, UpdateSet, DeleteSet, PauseSet, SourceChanges, caches, local
<1>1. CASE CreateSet(s)
  <2>1. PICK hosts \in HostMaps[s] :
          /\ osbms[s].phase = "absent"
          /\ osbms' = [osbms EXCEPT ![s] = [NoSet EXCEPT !.phase = "live", !.hosts = hosts, !.gen = 1]]
    BY <1>1, Zenon DEF CreateSet
  <2>2. worker.set # s
    BY <2>1, ConstantsAssumption, Zenon DEF StatusInv, LinkInv
  <2>3. /\ \A t \in Sets \ {s} : osbms'[t] = osbms[t]
        /\ osbms'[s].ref = NoHosts /\ SetInv(osbms'[s])
    <3>1. Keys(NoHosts) = {}
      BY DEF Keys, NoHosts
    <3>2. osbms'[s] = [NoSet EXCEPT !.phase = "live", !.hosts = hosts, !.gen = 1]
          /\ \A t \in Sets \ {s} : osbms'[t] = osbms[t]
      BY <2>1 DEF TypeInv, TypeOK
    <3> QED BY <3>1, <3>2 DEF NoSet, SetInv, ReadyNow
  <2>4. Recorded(s, bmh, osbms'[s].ref, osbms'[s].st) /\ Distinct(bmh, osbms'[s].ref)
    <3>1. Keys(osbms[s].ref) = {}
      BY <2>1, Zenon DEF StatusInv, SetInv
    <3>2. Consumed(s, bmh) = {}
      BY <2>2, <3>1, NothingRecorded DEF StatusInv
    <3> QED BY <2>3, <3>2 DEF Recorded, Distinct, Keys, NoHosts
  <2>5. osbms'[worker.set] = osbms[worker.set] \/ worker.pc = "idle"
    BY <2>2, <2>3 DEF TypeInv, WorkerOK
  <2>6. \A t \in Sets : /\ SetInv(osbms'[t])
                        /\ Distinct(bmh, osbms'[t].ref)
                        /\ worker.set # t => Recorded(t, bmh, osbms'[t].ref, osbms'[t].st)
    BY <2>3, <2>4 DEF StatusInv
  <2>7. worker.pc # "idle" => LinkInv' /\ KeptInv'
    BY <1>0, <2>5, SameLocals DEF StatusInv, LinkInv
  <2> QED BY <1>0, <2>6, <2>7, SameLocals DEF StatusInv
<1>2. CASE UpdateSet(s) \/ DeleteSet(s) \/ PauseSet(s)
  <2>1. Edited(osbms[s], osbms'[s]) /\ \A t \in Sets \ {s} : osbms'[t] = osbms[t]
    <3>1. osbms' = [osbms EXCEPT ![s] = osbms'[s]]
      BY <1>2, UserEdits
    <3>2. \A t \in Sets \ {s} : [osbms EXCEPT ![s] = osbms'[s]][t] = osbms[t]
      BY DEF TypeInv, TypeOK
    <3> QED BY <1>2, <3>1, <3>2, UserEdits, Zenon
  <2>2. \A t \in Sets : /\ SetInv(osbms'[t])
                        /\ osbms'[t].ref = osbms[t].ref /\ osbms'[t].st = osbms[t].st
    <3>1. osbms[s] \in OpenStackBaremetalSet /\ osbms'[s] \in OpenStackBaremetalSet /\ SetInv(osbms[s])
      BY Zenon DEF TypeInv, TypeOK, StatusInv
    <3>2. SetInv(osbms'[s])
      BY <2>1, <3>1, EditedSet
    <3> QED BY <2>1, <3>2, Zenon DEF Edited, StatusInv
  <2>3. ASSUME worker.pc # "idle" PROVE LinkInv'
    <3>1. worker.set \in Sets /\ LinkInv
      BY <2>3, Zenon DEF TypeInv, WorkerOK, StatusInv
    <3>2. CASE worker.set # s
      BY <1>0, <2>1, <3>1, <3>2, Zenon DEF LinkInv
    <3>3. CASE worker.set = s
      <4>1. osbms[s] \in OpenStackBaremetalSet /\ osbms'[s] \in OpenStackBaremetalSet
            /\ base \in OpenStackBaremetalSet
        BY DEF TypeInv, TypeOK
      <4>2. base.gen \in Nat /\ osbms[s].gen \in Nat /\ osbms'[s].gen \in Nat
        BY <4>1 DEF OpenStackBaremetalSet
      <4> QED BY <1>0, <2>1, <3>1, <3>3, <4>2 DEF LinkInv, Edited
    <3> QED BY <3>2, <3>3
  <2> QED BY <1>0, <2>2, <2>3, SameLocals DEF StatusInv
<1>3. CASE SourceChanges(s)
  BY <1>0, <1>3, QuietStatus DEF SourceChanges
<1> QED BY <1>1, <1>2, <1>3, Zenon DEF UserStep

-----------------------------------------------------------------------------
(* Metal3 and administrators. *)

\* Nothing happens to the BMH that s would have to record.
Keeps(s, old, new) ==
    new.exists =>
        /\ old.exists
        /\ new.label[s] = old.label[s]
        /\ new.consumer = s <=> old.consumer = s
        /\ old.consumer = s /\ old.state = "provisioned" => new.state = "provisioned"

\* What s has recorded stays right if all BMHs are kept.
LEMMA RecordedKept ==
    ASSUME NEW s, NEW old, NEW new, NEW ref \in [Hosts -> BMHs \cup {Nil}], NEW st,
           Recorded(s, old, ref, st), \A b \in BMHs : Keeps(s, old[b], new[b])
    PROVE  Recorded(s, new, ref, st)
<1>1. ASSUME NEW b \in Consumed(s, new)
      PROVE  new[b].label[s] # Nil /\ ref[new[b].label[s]] = b
  BY DEF Consumed, Keeps, Recorded
<1>2. ASSUME NEW h \in Keys(ref), new[ref[h]].exists
      PROVE  /\ new[ref[h]].consumer = s
             /\ new[ref[h]].label[s] = h
             /\ st[h] = "provisioned" => new[ref[h]].state = "provisioned"
  <2>1. ref[h] \in BMHs
    BY DEF Keys
  <2> QED BY <1>2, <2>1, Zenon DEF Keeps, Recorded
<1> QED BY <1>1, <1>2, Zenon DEF Recorded

\* Metal3 never takes the provisioned state from a BMH that has an image.
LEMMA ProvisionedStays ==
    ASSUME NEW image, image # Nil
    PROVE  NextState("provisioned", image) = "provisioned"
BY DEF NextState

\* Steps of Metal3 and deletions of BMH objects keep the invariant.
LEMMA WeatherStatus ==
    ASSUME AllInv, \E b \in BMHs : Metal3Step(b) \/ DeleteBmhObject(b)
    PROVE  StatusInv'
<1> USE DEF AllInv, Inv
<1>0. UNCHANGED <<osbms, worker, base, inst>>
  BY DEF Metal3Step, DeleteBmhObject, local
<1>1. ASSUME NEW b \in BMHs
      PROVE  /\ bmh'[b].exists => bmh[b].exists
             /\ bmh'[b].consumer = bmh[b].consumer /\ bmh'[b].label = bmh[b].label
             /\ bmh'[b].image = bmh[b].image
             /\ bmh[b].consumer \in Sets /\ bmh[b].state = "provisioned"
                  => bmh'[b].state = "provisioned"
  <2>0. bmh[b] \in BareMetalHost /\ bmh \in [BMHs -> BareMetalHost]
    BY DEF TypeInv, TypeOK
  <2>1. \/ bmh'[b] = bmh[b]
        \/ bmh'[b] = [bmh[b] EXCEPT !.state = NextState(@, bmh[b].image)]
        \/ bmh'[b] = [bmh[b] EXCEPT !.exists = FALSE]
    BY <2>0, Zenon DEF Metal3Step, DeleteBmhObject
  <2>2. bmh[b].consumer \in Sets => bmh[b].image # Nil
    BY DEF StatusInv, BmhInv
  <2> QED BY <2>0, <2>1, <2>2, ProvisionedStays DEF BareMetalHost
<1>2. \A b \in BMHs : BmhInv(bmh'[b])
  BY <1>1 DEF StatusInv, BmhInv
<1>3. ASSUME NEW s \in Sets, NEW ref \in [Hosts -> BMHs \cup {Nil}], NEW st,
             Recorded(s, bmh, ref, st)
      PROVE  Recorded(s, bmh', ref, st)
  <2>1. \A b \in BMHs : Keeps(s, bmh[b], bmh'[b])
    BY <1>1 DEF Keeps
  <2> QED BY <1>3, <2>1, RecordedKept
<1>4. ASSUME NEW s \in Sets
      PROVE  /\ Distinct(bmh', osbms[s].ref)
             /\ worker.set # s => Recorded(s, bmh', osbms[s].ref, osbms[s].st)
  <2>1. osbms[s].ref \in [Hosts -> BMHs \cup {Nil}]
    BY Zenon DEF TypeInv, TypeOK, OpenStackBaremetalSet
  <2>2. Distinct(bmh', osbms[s].ref)
    BY <1>1, <2>1 DEF StatusInv, Distinct, Keys
  <2> QED BY <1>3, <2>1, <2>2, Zenon DEF StatusInv
<1>5. ASSUME worker.pc # "idle"
      PROVE  LinkInv' /\ KeptInv' /\ Recorded(worker.set, bmh', Entries, inst.st)
  <2>1. /\ worker.set \in Sets /\ LinkInv /\ KeptInv /\ Recorded(worker.set, bmh, Entries, inst.st)
        /\ base.ref \in [Hosts -> BMHs \cup {Nil}]
        /\ inst.ref \in [Hosts -> BMHs \cup {Nil}]
    BY <1>5, Zenon DEF TypeInv, TypeOK, OpenStackBaremetalSet, WorkerOK, StatusInv
  <2>2. Entries \in [Hosts -> BMHs \cup {Nil}]
    BY <2>1, Zenon DEF Entries
  <2>3. LinkInv'
    BY <1>0, <2>1, Zenon DEF LinkInv
  <2>4. ASSUME NEW h \in Keys(base.ref), bmh'[base.ref[h]].exists
        PROVE  /\ bmh'[base.ref[h]].consumer \in {Nil, worker.set}
               /\ Stays(h) => /\ inst.ref[h] = base.ref[h]
                              /\ base.st[h] = "provisioned"
                                   => bmh'[base.ref[h]].state = "provisioned"
    <3>1. base.ref[h] \in BMHs /\ bmh[base.ref[h]].exists
      BY <1>1, <2>1, <2>4 DEF Keys
    <3>2. Stays(h) => bmh[base.ref[h]].consumer = worker.set
      <4>1. Stays(h) => Entries[h] = base.ref[h] /\ h \in Keys(Entries)
        BY <2>1, <3>1, Zenon DEF KeptInv, Entries, Keys, StatusInv, ReleaseInv
      <4> QED BY <2>1, <3>1, <4>1, Zenon DEF Recorded
    <3> QED BY <1>1, <2>1, <3>1, <3>2, Zenon DEF KeptInv
  <2>5. KeptInv'
    BY <1>0, <2>4, Zenon DEF KeptInv, Stays
  <2> QED BY <1>3, <2>1, <2>2, <2>3, <2>5, Zenon
<1>6. worker.pc \in {"release", "secrets"} => ReleaseInv'
  BY <1>0, Zenon DEF StatusInv, ReleaseInv, Stays
<1>7. worker.pc \in {"provision", "bmh"} => ProvideInv'
  <2>1. ASSUME NEW h \in Keys(worker.plan)
        PROVE  /\ bmh'[worker.plan[h]].exists => bmh[worker.plan[h]].exists
               /\ bmh'[worker.plan[h]].consumer = bmh[worker.plan[h]].consumer
    BY <1>1 DEF Keys, TypeInv, TypeOK, Worker
  <2> QED BY <1>0, <2>1 DEF StatusInv, ProvideInv
<1>8. Entries' = Entries
  BY <1>0 DEF Entries
<1> QED BY <1>0, <1>2, <1>4, <1>5, <1>6, <1>7, <1>8, Zenon DEF StatusInv

-----------------------------------------------------------------------------
(* The first step of a reconcile. *)

\* The status a reconcile of c starts with: entries may be missing whose BMH is
\* gone.
Begun(c, i) ==
    /\ i.phase = c.phase /\ i.hosts = c.hosts /\ i.obs = c.gen /\ i.cond = "pending"
    /\ i.final \/ c.phase = "deleting"
    /\ ~c.final => i.ref = c.ref /\ i.st = c.st
    /\ \A h \in Keys(i.ref) : i.ref[h] = c.ref[h] /\ i.st[h] = c.st[h]
    /\ \A h \in Keys(c.ref) : bmh[c.ref[h]].exists => i.ref[h] = c.ref[h]

\* A reconcile starts with the invariant if it knows what to release.
LEMMA BeginStatus ==
    ASSUME AllInv, TypeInv', worker.pc = "idle", NEW s \in Sets,
           UNCHANGED <<bmh, osbms>>,
           base' = osbms[s], osbms[s].phase \in {"live", "deleting"},
           Begun(osbms[s], inst'),
           worker'.set = s, worker'.pc \in {"release", "patch"},
           worker'.pc = "release" => osbms[s].final /\ inst'.final /\ ReleaseInv'
    PROVE  StatusInv'
<1> USE DEF AllInv, Inv
<1> DEFINE c == osbms[s]
<1>0. /\ c \in OpenStackBaremetalSet /\ inst' \in OpenStackBaremetalSet
      /\ c.ref \in [Hosts -> BMHs \cup {Nil}] /\ inst'.ref \in [Hosts -> BMHs \cup {Nil}]
  BY Zenon DEF TypeInv, TypeOK, OpenStackBaremetalSet
<1>1. SetInv(c) /\ \A t \in Sets : Recorded(t, bmh, osbms[t].ref, osbms[t].st)
  BY ConstantsAssumption, Zenon DEF StatusInv
<1>2. Entries' = inst'.ref
  BY <1>0 DEF Entries
<1>3. Recorded(s, bmh, inst'.ref, inst'.st)
  <2>1. ASSUME NEW b \in Consumed(s, bmh)
        PROVE  bmh[b].label[s] # Nil /\ inst'.ref[bmh[b].label[s]] = b
    <3>1. bmh[b].label[s] # Nil /\ c.ref[bmh[b].label[s]] = b /\ bmh[b].exists /\ b \in BMHs
      BY <1>1, RecordedBmh DEF Consumed
    <3>2. bmh[b].label[s] \in Hosts
      BY <3>1 DEF TypeInv, TypeOK, BareMetalHost
    <3>3. bmh[b].label[s] \in Keys(c.ref)
      BY <3>1, <3>2, ConstantsAssumption, Zenon DEF Keys
    <3> QED BY <3>1, <3>3, Zenon DEF Begun
  <2>2. ASSUME NEW h \in Keys(inst'.ref)
        PROVE  h \in Keys(c.ref) /\ inst'.ref[h] = c.ref[h] /\ inst'.st[h] = c.st[h]
    BY Zenon DEF Begun, Keys
  <2>3. ASSUME NEW h \in Keys(inst'.ref), bmh[inst'.ref[h]].exists
        PROVE  /\ bmh[inst'.ref[h]].consumer = s /\ bmh[inst'.ref[h]].label[s] = h
               /\ inst'.st[h] = "provisioned" => bmh[inst'.ref[h]].state = "provisioned"
    BY <1>1, <2>2, <2>3, RecordedEntry
  <2> QED BY <2>1, <2>3, Zenon DEF Recorded
<1>4. LinkInv'
  <2>1. c.gen \in Nat /\ c.obs \in Nat
    BY <1>0, Zenon DEF OpenStackBaremetalSet
  <2>2. c.obs <= c.gen /\ c.gen <= c.gen
    BY <1>1, <2>1 DEF SetInv
  <2> QED BY <1>1, <2>2, Zenon DEF LinkInv, SetInv, Begun
<1>5. KeptInv'
  <2>1. ASSUME NEW h \in Keys(c.ref), bmh[c.ref[h]].exists
        PROVE  /\ bmh[c.ref[h]].consumer = s /\ inst'.ref[h] = c.ref[h]
               /\ c.st[h] = "provisioned" => bmh[c.ref[h]].state = "provisioned"
    BY <1>1, <2>1, Zenon DEF Recorded, Begun
  <2> QED BY <2>1, Zenon DEF KeptInv
<1>6. inst'.cond # "ready"
  BY Zenon DEF Begun
<1>7. Recorded(worker'.set, bmh', Entries', inst'.st)
  BY <1>2, <1>3
<1>8. /\ \A b \in BMHs : BmhInv(bmh'[b])
      /\ \A t \in Sets : /\ SetInv(osbms'[t])
                         /\ Distinct(bmh', osbms'[t].ref)
                         /\ Recorded(t, bmh', osbms'[t].ref, osbms'[t].st)
  BY <1>1, Zenon DEF StatusInv
<1> QED BY <1>4, <1>5, <1>6, <1>7, <1>8, Zenon DEF StatusInv

\* The first step of a reconcile keeps the invariant.
LEMMA ReconcileStatus ==
    ASSUME AllInv, TypeInv', "stale" \notin Faults, NEW s \in Sets, Reconcile(s)
    PROVE  StatusInv'
<1> USE DEF AllInv, Inv
<1> DEFINE c == osbms[s]
<1>0. /\ c \in OpenStackBaremetalSet /\ worker.pc = "idle"
      /\ osbmsCache = osbms /\ bmhCache = bmh /\ UNCHANGED <<bmh, osbms>>
      /\ SetInv(c) /\ c.ref \in [Hosts -> BMHs \cup {Nil}]
  BY Zenon DEF Reconcile, ReconcileSkips, ReconcileInitialises, ReconcileDelete, ReconcileWaits,
     ReconcileNormal, Reconciles, Take, Fresh, api, TypeInv, TypeOK, StatusInv, OpenStackBaremetalSet
<1>1. Recorded(s, bmh, c.ref, c.st)
  BY <1>0, ConstantsAssumption, Zenon DEF StatusInv
<1>2. CASE ReconcileSkips(s)
  BY <1>0, <1>2, QuietStatus DEF ReconcileSkips, local
<1>3. ASSUME ~ReconcileSkips(s)
      PROVE  base' = c /\ c.phase \in {"live", "deleting"}
  BY <1>0, <1>3, Zenon DEF Reconcile, ReconcileInitialises, ReconcileDelete, ReconcileWaits,
     ReconcileNormal, Reconciles
<1>4. ASSUME NEW i \in {InitStatus(c), [InitStatus(c) EXCEPT !.final = @ \/ c.phase = "live"]},
             i.final \/ c.phase = "deleting"
      PROVE  Begun(c, i) /\ i.ref = c.ref
  BY <1>0, <1>4, Zenon DEF Begun, InitStatus, OpenStackBaremetalSet, Keys
<1>5. CASE ReconcileInitialises(s)
  <2>1. worker'.set = s /\ worker'.pc = "patch"
    BY <1>5 DEF ReconcileInitialises, Idle
  <2>2. inst' = [InitStatus(c) EXCEPT !.final = @ \/ c.phase = "live"]
    BY <1>0, <1>5 DEF ReconcileInitialises
  <2>3. inst'.final \/ c.phase = "deleting"
    BY <1>0, <1>3, <1>5, <2>2, Zenon DEF InitStatus, OpenStackBaremetalSet, ReconcileInitialises, Reconciles
  <2>4. base' = c /\ c.phase \in {"live", "deleting"}
    BY <1>0, <1>5 DEF ReconcileInitialises, Reconciles
  <2> QED BY <1>0, <1>4, <2>1, <2>2, <2>3, <2>4, BeginStatus, Zenon
<1>6. CASE ReconcileWaits(s)
  <2>1. /\ worker'.set = s /\ worker'.pc = "patch" /\ inst' = InitStatus(c)
        /\ base' = c /\ c.phase = "live" /\ c.final
    BY <1>0, <1>6 DEF ReconcileWaits, Reconciles, NeedsInit, Idle
  <2>2. inst'.final
    BY <1>0, <2>1 DEF InitStatus, OpenStackBaremetalSet
  <2> QED BY <1>0, <1>4, <2>1, <2>2, BeginStatus, Zenon
<1>7. CASE ReconcileDelete(s)
  <2>1. /\ worker'.set = s /\ worker'.pc = "release" /\ worker'.cur = Nil
        /\ worker'.todo = {<<c.ref[h], h>> : h \in Keys(c.ref)}
        /\ inst' = InitStatus(c) /\ base' = c /\ c.phase = "deleting" /\ c.final
    BY <1>0, <1>7, Zenon DEF ReconcileDelete, Reconciles, SetInv, Idle
  <2>2. inst'.final /\ inst'.phase = "deleting" /\ inst'.ref = c.ref
    BY <1>0, <2>1 DEF InitStatus, OpenStackBaremetalSet
  <2>3. ReleaseInv'
    BY <2>1, <2>2, ConstantsAssumption DEF ReleaseInv, Stays, Keys
  <2> QED BY <1>0, <1>4, <2>1, <2>2, <2>3, BeginStatus, Zenon
<1>8. CASE ReconcileNormal(s)
  <2> DEFINE ref == VerifyAndSyncBaremetalStatusBmhRefs(c.ref, bmh)
             st == [h \in Hosts |-> IF ref[h] = Nil THEN Nil ELSE c.st[h]]
  <2>1. /\ worker'.set = s /\ worker'.pc = "release" /\ worker'.cur = Nil
        /\ worker'.todo = ToDeprovision(s, c.hosts, bmh)
        /\ inst' = [InitStatus(c) EXCEPT !.ref = ref, !.st = st]
        /\ base' = c /\ c.phase = "live" /\ c.final
    BY <1>0, <1>8 DEF ReconcileNormal, Reconciles, NeedsInit, Idle
  <2>2. /\ inst'.final /\ inst'.phase = "live" /\ inst'.ref = ref /\ inst'.st = st
        /\ inst'.hosts = c.hosts /\ inst'.obs = c.gen /\ inst'.cond = "pending"
    BY <1>0, <2>1 DEF InitStatus, OpenStackBaremetalSet
  <2>3. \A h \in Hosts : ref[h] = IF c.ref[h] # Nil /\ bmh[c.ref[h]].exists THEN c.ref[h] ELSE Nil
    BY DEF VerifyAndSyncBaremetalStatusBmhRefs
  <2> HIDE DEF ref
  <2>4. Begun(c, inst')
    BY <2>1, <2>2, <2>3 DEF Begun, Keys
  <2>5. ASSUME NEW t \in worker'.todo
        PROVE  t[2] \in Hosts \ c.hosts /\ ref[t[2]] = t[1]
    <3>1. PICK b \in Owned(s, bmh) : t = <<b, bmh[b].label[s]>> /\ bmh[b].label[s] \notin c.hosts
      BY <2>1, <2>5, Zenon DEF ToDeprovision
    <3>2. b \in BMHs /\ bmh[b].exists /\ bmh[b].consumer = s
      BY OwnedIsConsumed, Zenon DEF Consumed
    <3>3. bmh[b].label[s] \in Hosts /\ c.ref[bmh[b].label[s]] = b
      <4>1. bmh[b].label[s] # Nil /\ c.ref[bmh[b].label[s]] = b
        BY <1>1, OwnedIsConsumed, RecordedBmh
      <4>2. bmh[b].label[s] \in Hosts \cup {Nil}
        BY <3>2 DEF TypeInv, TypeOK, BareMetalHost
      <4> QED BY <4>1, <4>2, Zenon
    <3> QED BY <2>3, <3>1, <3>2, <3>3, ConstantsAssumption
  <2>6. ASSUME NEW h \in Keys(ref), h \notin c.hosts
        PROVE  <<ref[h], h>> \in worker'.todo
    <3>1. h \in Keys(c.ref) /\ ref[h] = c.ref[h] /\ bmh[c.ref[h]].exists /\ ref[h] \in BMHs
      BY <1>0, <2>3, Zenon DEF Keys
    <3>2. bmh[ref[h]].label[s] = h /\ bmh[ref[h]].consumer = s
      BY <1>1, <3>1, RecordedEntry
    <3>3. ref[h] \in Owned(s, bmh)
      BY <3>1, <3>2, OwnedIsConsumed, Zenon DEF Consumed
    <3> QED BY <2>1, <2>6, <3>2, <3>3 DEF ToDeprovision
  <2>7. ReleaseInv'
    BY <2>1, <2>2, <2>5, <2>6, ConstantsAssumption DEF ReleaseInv, Stays
  <2> QED BY <1>0, <2>1, <2>2, <2>4, <2>7, BeginStatus, Zenon
<1> QED BY <1>2, <1>5, <1>6, <1>7, <1>8, Zenon DEF Reconcile

-----------------------------------------------------------------------------
(* Steps of the worker between its requests. *)

\* A step that changes locals only, and neither entries that count nor hosts
\* that stay.
LEMMA LocalStatus ==
    ASSUME AllInv, worker.pc \notin {"idle", "patch"}, UNCHANGED <<bmh, osbms, base>>,
           worker'.set = worker.set, worker'.pc # "idle",
           inst'.phase = inst.phase, inst'.hosts = inst.hosts, inst'.obs = inst.obs,
           inst'.final \/ (worker'.pc = "patch" /\ inst.phase = "deleting"),
           \A h \in Hosts : Stays(h) => inst'.ref[h] = inst.ref[h],
           Entries' = Entries, \A h \in Keys(Entries) : inst'.st[h] = inst.st[h],
           worker'.pc \in {"release", "secrets"} => ReleaseInv',
           worker'.pc \in {"provision", "bmh"} => ProvideInv',
           inst'.cond = "ready" =>
             /\ worker'.pc = "patch" /\ Keys(inst'.ref) = inst.hosts
             /\ \A h \in inst.hosts : inst'.st[h] = "provisioned"
    PROVE  StatusInv'
<1> USE DEF AllInv, Inv
<1>1. LinkInv /\ KeptInv /\ Recorded(worker.set, bmh, Entries, inst.st)
  BY Zenon DEF StatusInv
<1>2. LinkInv'
  BY <1>1 DEF LinkInv
<1>3. KeptInv'
  <2>1. \A h \in Hosts : Stays(h)' = Stays(h)
    BY Zenon DEF Stays
  <2>2. ASSUME NEW h \in Keys(base.ref), bmh[base.ref[h]].exists, Stays(h)
        PROVE  inst'.ref[h] = base.ref[h]
    BY <1>1, <2>2, Zenon DEF KeptInv, Keys
  <2> QED BY <1>1, <2>1, <2>2, Zenon DEF KeptInv, Keys
<1>4. Recorded(worker'.set, bmh', Entries', inst'.st)
  <2>1. Recorded(worker.set, bmh, Entries, inst.st)
    BY <1>1, Zenon
  <2>2. Recorded(worker.set, bmh, Entries, inst'.st)
    BY <2>1, RecordedStates
  <2> QED BY <2>2
<1> QED BY <1>2, <1>3, <1>4, Zenon DEF StatusInv

\* With an entry being dropped, the others are those of inst.
LEMMA EntriesAre ==
    ASSUME TypeInv
    PROVE  /\ worker.pc # "secrets" => Entries = inst.ref
           /\ \A h \in Hosts : worker.pc = "secrets" /\ h # worker.cur => Entries[h] = inst.ref[h]
           /\ \A h \in Keys(Entries) : h \in Keys(inst.ref) /\ Entries[h] = inst.ref[h]
BY Zenon DEF Entries, Keys, TypeInv, TypeOK, OpenStackBaremetalSet

\* Giving up with an error keeps the invariant, unless a BMH has been released
\* whose entry is still there.
LEMMA ErrorStatus ==
    ASSUME AllInv, worker.pc \in {"release", "provision", "bmh"}, ReturnError,
           UNCHANGED <<bmh, osbms>>
    PROVE  StatusInv'
<1> USE DEF AllInv, Inv
<1>1. UNCHANGED <<base, inst>> /\ worker'.set = worker.set /\ worker'.pc = "patch"
  BY DEF ReturnError, TypeInv, TypeOK, Worker
<1>2. inst.final /\ inst.cond # "ready"
  BY Zenon DEF StatusInv, LinkInv
<1>3. Entries' = Entries
  BY <1>1 DEF Entries
<1> QED BY <1>1, <1>2, <1>3, LocalStatus, Zenon

\* So does removing the finalizer.
LEMMA FinishStatus ==
    ASSUME AllInv, worker.pc = "release", inst.phase = "deleting", FinishDelete,
           UNCHANGED <<bmh, osbms>>
    PROVE  StatusInv'
<1> USE DEF AllInv, Inv
<1>1. UNCHANGED base /\ worker'.set = worker.set /\ worker'.pc = "patch"
  BY DEF FinishDelete, TypeInv, TypeOK, Worker
<1>2. /\ inst'.phase = inst.phase /\ inst'.hosts = inst.hosts /\ inst'.obs = inst.obs
      /\ inst'.ref = inst.ref /\ inst'.st = inst.st /\ inst'.cond = inst.cond
  BY DEF FinishDelete, TypeInv, TypeOK, OpenStackBaremetalSet
<1>3. inst.cond # "ready"
  BY Zenon DEF StatusInv
<1>4. Entries' = Entries
  BY <1>1, <1>2, Zenon DEF Entries
<1> QED BY <1>1, <1>2, <1>3, <1>4, LocalStatus, Zenon

\* Deleting the secrets of a released BMH and dropping its entry.
LEMMA SecretsStatus ==
    ASSUME AllInv, DeprovisionSecrets
    PROVE  StatusInv'
<1> USE DEF AllInv, Inv
<1> DEFINE h == worker.cur
<1>0. worker.pc = "secrets" /\ h \in Hosts /\ UNCHANGED <<bmh, osbms, base>> /\ inst \in OpenStackBaremetalSet
  BY DEF DeprovisionSecrets, At, TypeInv, WorkerOK, TypeOK
<1>1. /\ worker'.set = worker.set /\ worker'.pc = "release" /\ worker'.cur = Nil
      /\ worker'.todo = worker.todo
  BY DEF DeprovisionSecrets, TypeInv, TypeOK, Worker
<1>2. /\ inst'.phase = inst.phase /\ inst'.hosts = inst.hosts /\ inst'.obs = inst.obs
      /\ inst'.final = inst.final /\ inst'.cond = inst.cond
      /\ inst'.ref = [inst.ref EXCEPT ![h] = Nil] /\ inst'.st = [inst.st EXCEPT ![h] = Nil]
      /\ inst.ref \in [Hosts -> BMHs \cup {Nil}] /\ inst.st \in [Hosts -> BmhStates \cup {Nil}]
  BY <1>0 DEF DeprovisionSecrets, OpenStackBaremetalSet
<1>3. ReleaseInv /\ ~Stays(h) /\ inst.final /\ inst.cond # "ready"
  BY <1>0, Zenon DEF StatusInv, ReleaseInv, LinkInv
<1>4. Entries' = Entries /\ \A g \in Keys(Entries) : g # h
  BY <1>0, <1>1, <1>2 DEF Entries, Keys
<1>5. ReleaseInv'
  BY <1>0, <1>1, <1>2, <1>3, ConstantsAssumption DEF ReleaseInv, Stays, Keys
<1>6. \A g \in Keys(Entries) : inst'.st[g] = inst.st[g]
  BY <1>2, <1>4 DEF Keys
<1>7. \A g \in Hosts : Stays(g) => inst'.ref[g] = inst.ref[g]
  BY <1>2, <1>3, Zenon
<1> QED BY <1>0, <1>1, <1>2, <1>3, <1>4, <1>5, <1>6, <1>7, LocalStatus, Zenon

\* Rendering and saving a host's secrets.
LEMMA RenderStatus ==
    ASSUME AllInv, ProvisionSecrets
    PROVE  StatusInv'
<1> USE DEF AllInv, Inv
<1>0. worker.pc = "provision" /\ UNCHANGED <<bmh, osbms>>
  BY DEF ProvisionSecrets, At
<1>1. CASE ReturnError
  BY <1>0, <1>1, ErrorStatus
<1>2. CASE ~ReturnError
  <2>1. /\ UNCHANGED <<base, inst>> /\ worker'.set = worker.set
        /\ worker'.pc = "bmh" /\ worker'.plan = worker.plan
    BY <1>2, Zenon DEF ProvisionSecrets, TypeInv, TypeOK, Worker
  <2>2. inst.final /\ inst.cond # "ready" /\ ProvideInv
    BY <1>0, Zenon DEF StatusInv, LinkInv
  <2>3. Entries' = Entries
    BY <1>0, <2>1 DEF Entries
  <2>4. ProvideInv'
    BY <1>0, <2>1, <2>2 DEF ProvideInv
  <2> QED BY <1>0, <2>1, <2>2, <2>3, <2>4, LocalStatus
<1> QED BY <1>1, <1>2, Zenon

\* The end of a reconcile: everything in the plan has been provisioned.
LEMMA EndsStatus ==
    ASSUME AllInv, ReconcileEnds
    PROVE  StatusInv'
<1> USE DEF AllInv, Inv
<1>0. /\ worker.pc = "provision" /\ UNCHANGED <<bmh, osbms, base>> /\ Keys(worker.plan) = {}
      /\ inst \in OpenStackBaremetalSet
  BY DEF ReconcileEnds, At, api, TypeInv, TypeOK
<1>1. worker'.set = worker.set /\ worker'.pc = "patch"
  BY DEF ReconcileEnds, TypeInv, TypeOK, Worker
<1>2. /\ inst'.phase = inst.phase /\ inst'.hosts = inst.hosts /\ inst'.obs = inst.obs
      /\ inst'.final = inst.final /\ inst'.ref = inst.ref /\ inst'.st = inst.st
      /\ inst'.cond = "ready" =>
            inst.cond = "ready" \/ \A h \in Keys(inst.ref) : inst.st[h] = "provisioned"
  BY <1>0 DEF ReconcileEnds, OpenStackBaremetalSet
<1>3. Keys(inst.ref) = inst.hosts /\ inst.final /\ inst.cond # "ready"
  BY <1>0, Zenon DEF StatusInv, ProvideInv, LinkInv
<1>4. Entries' = Entries
  BY <1>0, <1>1, <1>2 DEF Entries
<1> QED BY <1>0, <1>1, <1>2, <1>3, <1>4, LocalStatus

-----------------------------------------------------------------------------
(* Choosing hosts. *)

\* The plan gives every host of the spec without an entry a free BMH of its own,
\* and goes over the BMHs that have an entry.
LEMMA PlanProvides ==
    ASSUME AllInv, NEW s \in Sets, bmhCache = bmh, Recorded(s, bmh, inst.ref, inst.st),
           Keys(inst.ref) \subseteq inst.hosts,
           NEW m \in Assignments(s, NewComputes(inst.hosts, inst.ref), bmhCache),
           NEW e \in BuildExistingHostBMHMap(s, bmhCache)
    PROVE  LET plan == MergeMaps(m, e)
           IN  /\ Keys(inst.ref) \cup Keys(plan) = inst.hosts
               /\ \A h \in Keys(plan) :
                    inst.ref[h] = plan[h] \/ (inst.ref[h] = Nil /\ bmh[plan[h]].consumer = Nil)
               /\ \A g, h \in Keys(plan) : plan[g] = plan[h] => g = h
<1> USE DEF AllInv, Inv
<1> DEFINE new == inst.hosts \ Keys(inst.ref)
           plan == MergeMaps(m, e)
<1>0. inst.hosts \subseteq Hosts
  BY Zenon DEF TypeInv, TypeOK, OpenStackBaremetalSet
<1>1. /\ DOMAIN m = new
      /\ \A h \in new : m[h] \in BMHs /\ bmh[m[h]].consumer = Nil /\ inst.ref[h] = Nil
      /\ \A g, h \in new : m[g] = m[h] => g = h
  BY <1>0, Zenon DEF Assignments, NewComputes, Injection, IsInjective, Available, Keys
<1>2. ASSUME NEW h \in DOMAIN e
      PROVE  /\ h \in Hosts /\ e[h] \in BMHs /\ bmh[e[h]].label[s] = h
             /\ bmh[e[h]].consumer = s /\ inst.ref[h] = e[h]
  <2>1. e[h] \in BMHs /\ bmh[e[h]].exists /\ bmh[e[h]].owner = s /\ bmh[e[h]].label[s] = h /\ h # Nil
    BY DEF BuildExistingHostBMHMap, Owned
  <2>2. bmh[e[h]].consumer = s
    BY <2>1, ConstantsAssumption, Zenon DEF OwnershipInv
  <2>3. h \in Hosts
    BY <2>1 DEF TypeInv, TypeOK, BareMetalHost
  <2> QED BY <2>1, <2>2, <2>3, Zenon DEF Recorded, Consumed
<1>3. \A h \in Hosts : plan[h] = IF h \in new THEN m[h] ELSE IF h \in DOMAIN e THEN e[h] ELSE Nil
  BY <1>1, Zenon DEF MergeMaps
<1> HIDE DEF plan
<1>4. ASSUME NEW h \in Keys(plan)
      PROVE  h \in new \/ h \in DOMAIN e
  BY <1>3, Zenon DEF Keys
<1>5. Keys(inst.ref) \cup Keys(plan) = inst.hosts
  <2>1. ASSUME NEW h \in inst.hosts PROVE h \in Keys(inst.ref) \cup Keys(plan)
    BY <1>0, <1>1, <1>3, ConstantsAssumption DEF Keys
  <2>2. ASSUME NEW h \in Keys(plan) PROVE h \in inst.hosts
    BY <1>2, <1>4, ConstantsAssumption DEF Keys
  <2> QED BY <2>1, <2>2, Zenon
<1>6. ASSUME NEW h \in Keys(plan)
      PROVE  inst.ref[h] = plan[h] \/ (inst.ref[h] = Nil /\ bmh[plan[h]].consumer = Nil)
  BY <1>1, <1>2, <1>3, <1>4, Zenon DEF Keys
<1>7. ASSUME NEW g \in Keys(plan), NEW h \in Keys(plan), plan[g] = plan[h]
      PROVE  g = h
  <2>1. CASE g \in new /\ h \in new
    BY <1>0, <1>1, <1>3, <1>7, <2>1, Zenon
  <2>2. CASE g \notin new /\ h \notin new
    <3>1. g \in DOMAIN e /\ h \in DOMAIN e /\ plan[g] = e[g] /\ plan[h] = e[h]
      BY <1>3, <1>4, <2>2, Zenon DEF Keys
    <3> QED BY <1>2, <1>7, <3>1, Zenon
  <2>3. ASSUME NEW i \in Keys(plan), NEW j \in Keys(plan), i \in new, j \notin new
        PROVE  plan[i] # plan[j]
    <3>1. bmh[plan[i]].consumer = Nil
      BY <1>1, <1>3, <2>3, Zenon DEF Keys
    <3>2. bmh[plan[j]].consumer = s
      BY <1>2, <1>3, <1>4, <2>3, Zenon DEF Keys
    <3> QED BY <3>1, <3>2, ConstantsAssumption, Zenon
  <2> QED BY <1>7, <2>1, <2>2, <2>3, Zenon
<1> QED BY <1>5, <1>6, <1>7, Zenon DEF plan

\* ensureBaremetalHosts begins to provision when everything is released that
\* does not stay.
LEMMA EnsureStatus ==
    ASSUME AllInv, "stale" \notin Faults, EnsureBaremetalHosts
    PROVE  StatusInv'
<1> USE DEF AllInv, Inv
<1>0. /\ worker.pc = "release" /\ worker.set \in Sets /\ worker.todo = {} /\ inst.phase = "live"
      /\ bmhCache = bmh /\ UNCHANGED <<bmh, osbms>>
  BY Zenon DEF EnsureBaremetalHosts, At, Fresh, api, TypeInv, WorkerOK
<1>1. CASE ReturnError
  BY <1>0, <1>1, ErrorStatus
<1>2. CASE ~ReturnError
  <2>1. PICK m \in Assignments(worker.set, NewComputes(inst.hosts, inst.ref), bmhCache),
             e \in BuildExistingHostBMHMap(worker.set, bmhCache) :
          worker' = [worker EXCEPT !.pc = "provision", !.plan = MergeMaps(m, e)]
    BY <1>2, Zenon DEF EnsureBaremetalHosts, VerifyBaremetalSetScaleUp
  <2>2. /\ UNCHANGED <<base, inst>> /\ worker'.set = worker.set
        /\ worker'.pc = "provision" /\ worker'.plan = MergeMaps(m, e)
    BY <1>2, <2>1, Zenon DEF EnsureBaremetalHosts, TypeInv, TypeOK, Worker
  <2>3. ReleaseInv /\ inst.final /\ inst.cond # "ready" /\ Entries = inst.ref
        /\ Recorded(worker.set, bmh, Entries, inst.st)
    BY <1>0, EntriesAre, Zenon DEF StatusInv, LinkInv
  <2>4. Keys(inst.ref) \subseteq inst.hosts
    BY <1>0, <2>3, ConstantsAssumption DEF ReleaseInv, Stays, Keys
  <2>5. ProvideInv'
    <3> DEFINE plan == MergeMaps(m, e)
    <3>1. /\ Keys(inst.ref) \cup Keys(plan) = inst.hosts
          /\ \A h \in Keys(plan) :
               inst.ref[h] = plan[h] \/ (inst.ref[h] = Nil /\ bmh[plan[h]].consumer = Nil)
          /\ \A g, h \in Keys(plan) : plan[g] = plan[h] => g = h
      BY <1>0, <2>3, <2>4, PlanProvides, Zenon
    <3> HIDE DEF plan
    <3> QED BY <1>0, <2>2, <3>1, Zenon DEF ProvideInv, plan
  <2>6. Entries' = Entries
    BY <1>0, <2>2, Zenon DEF Entries
  <2> QED BY <1>0, <2>2, <2>3, <2>5, <2>6, LocalStatus, Zenon
<1> QED BY <1>1, <1>2, Zenon

-----------------------------------------------------------------------------
(* The writes. *)

\* Nobody but PatchInstance writes the status, so it becomes what inst has.
LEMMA PatchedIsInst ==
    ASSUME TypeInv, LinkInv, worker.set \in Sets,
           NEW cond \in {inst.cond, Patch(base.cond, inst.cond, osbms[worker.set].cond)}
    PROVE  LET c == osbms[worker.set]
               d == Patched(c, cond)
           IN  /\ d.phase = (IF c.phase = "deleting" /\ ~inst.final THEN "gone" ELSE c.phase)
               /\ d.final = inst.final /\ d.cond = inst.cond /\ d.obs = inst.obs
               /\ d.hosts = c.hosts /\ d.gen = c.gen
               /\ d.ref = inst.ref
               /\ \A h \in Keys(inst.ref) : d.st[h] = inst.st[h]
<1> DEFINE c == osbms[worker.set]
           d == Patched(c, cond)
           ref == [h \in Hosts |-> Patch(base.ref[h], inst.ref[h], c.ref[h])]
<1>0. /\ c \in OpenStackBaremetalSet /\ base \in OpenStackBaremetalSet
      /\ inst \in OpenStackBaremetalSet
  BY DEF TypeInv, TypeOK
<1>1. ref = inst.ref
  <2>1. \A h \in Hosts : ref[h] = inst.ref[h]
    BY Zenon DEF LinkInv, Patch
  <2> QED BY <1>0, <2>1, Zenon DEF OpenStackBaremetalSet
<1>2. cond = inst.cond /\ Patch(base.final, inst.final, c.final) = inst.final
      /\ Patch(base.obs, inst.obs, c.obs) = inst.obs
      /\ \A h \in Hosts : Patch(base.st[h], inst.st[h], c.st[h]) = inst.st[h]
  BY Zenon DEF LinkInv, Patch
<1>3. /\ d.phase = (IF c.phase = "deleting" /\ ~Patch(base.final, inst.final, c.final)
                    THEN "gone" ELSE c.phase)
      /\ d.final = Patch(base.final, inst.final, c.final)
      /\ d.cond = cond /\ d.obs = Patch(base.obs, inst.obs, c.obs)
      /\ d.hosts = c.hosts /\ d.gen = c.gen /\ d.ref = ref
      /\ d.st = [h \in Hosts |-> IF ref[h] = Nil THEN Nil
                                 ELSE Patch(base.st[h], inst.st[h], c.st[h])]
  BY <1>0, Zenon DEF Patched, OpenStackBaremetalSet
<1> HIDE DEF c, d, ref
<1>4. \A h \in Keys(inst.ref) : d.st[h] = inst.st[h]
  BY <1>1, <1>2, <1>3 DEF Keys
<1> QED BY <1>1, <1>2, <1>3, <1>4, Zenon DEF c, d

\* The deferred PatchInstance stores a status that agrees with the BMHs.
LEMMA PatchStatus ==
    ASSUME AllInv, PatchInstance
    PROVE  StatusInv'
<1> USE DEF AllInv, Inv
<1> DEFINE s == worker.set
           c == osbms[s]
<1>0. /\ worker.pc = "patch" /\ s \in Sets /\ UNCHANGED bmh
      /\ worker'.pc = "idle" /\ worker'.set = Nil /\ inst'.cond = "none"
  BY Zenon DEF PatchInstance, At, EndReconcile, Idle, NoSet, TypeInv, WorkerOK
<1>1. /\ LinkInv /\ Recorded(s, bmh, inst.ref, inst.st) /\ SetInv(c)
      /\ base \in OpenStackBaremetalSet /\ inst \in OpenStackBaremetalSet
      /\ c \in OpenStackBaremetalSet /\ osbms \in [Sets -> OpenStackBaremetalSet]
  BY <1>0, EntriesAre, Zenon DEF StatusInv, TypeInv, TypeOK
<1>2. ~PartialEntry(c)
  BY <1>1, Zenon DEF PartialEntry, LinkInv
<1>3. CASE PatchAccepted(c)
  <2>1. PICK cond \in {inst.cond, Patch(base.cond, inst.cond, c.cond)} :
          osbms' = [osbms EXCEPT ![s] = Patched(c, cond)]
    BY <1>3, Zenon DEF PatchInstance
  <2> DEFINE d == Patched(c, cond)
  <2>2. /\ d.phase = (IF c.phase = "deleting" /\ ~inst.final THEN "gone" ELSE c.phase)
        /\ d.final = inst.final /\ d.cond = inst.cond /\ d.obs = inst.obs
        /\ d.hosts = c.hosts /\ d.gen = c.gen /\ d.ref = inst.ref
        /\ \A h \in Keys(inst.ref) : d.st[h] = inst.st[h]
    BY <1>0, <1>1, PatchedIsInst, Zenon
  <2> HIDE DEF d
  <2>3. SetInv(d)
    <3>1. ReadyNow(d) => Keys(d.ref) = d.hosts /\ \A h \in d.hosts : d.st[h] = "provisioned"
      <4>1. inst.cond = "ready" =>
              Keys(inst.ref) = inst.hosts /\ \A h \in inst.hosts : inst.st[h] = "provisioned"
        BY Zenon DEF StatusInv
      <4>2. inst.obs = c.gen => inst.hosts = c.hosts
        BY <1>1, Zenon DEF LinkInv
      <4> QED BY <2>2, <4>1, <4>2, Zenon DEF ReadyNow
    <3> QED BY <1>1, <1>3, <2>2, <3>1, Zenon DEF SetInv, LinkInv, PatchAccepted
  <2>4. Recorded(s, bmh, d.ref, d.st) /\ Distinct(bmh, d.ref)
    <3>1. /\ Recorded(s, bmh, inst.ref, inst.st) /\ d.ref = inst.ref
          /\ \A h \in Keys(inst.ref) : d.st[h] = inst.st[h]
      BY <1>1, <2>2, Zenon
    <3>2. Recorded(s, bmh, inst.ref, d.st)
      BY <3>1, RecordedStates
    <3>3. Distinct(bmh, inst.ref)
      BY <3>1, RecordedDistinct
    <3> QED BY <3>1, <3>2, <3>3
  <2>5. osbms'[s] = d /\ \A t \in Sets \ {s} : osbms'[t] = osbms[t]
    BY <1>0, <1>1, <2>1 DEF d
  <2> QED BY <1>0, <2>3, <2>4, <2>5, Zenon DEF StatusInv
<1>4. CASE ~PatchAccepted(c)
  <2>1. ~c.final
    BY <1>1, <1>2, <1>4, Zenon DEF PatchAccepted, SetInv
  <2>2. Recorded(s, bmh, c.ref, c.st) /\ UNCHANGED osbms
    BY <1>1, <1>4, <2>1, Zenon DEF LinkInv, PatchInstance
  <2> QED BY <1>0, <2>2, Zenon DEF StatusInv
<1> QED BY <1>3, <1>4, Zenon
=============================================================================
