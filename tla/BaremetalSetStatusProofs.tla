---------------------- MODULE BaremetalSetStatusProofs ----------------------
(* Without stale reads, failed requests and crashes the status of a set, the  *)
(* labels of the BMHs and their consumerRefs agree, also when BMHs are        *)
(* deleted.                                                                   *)
EXTENDS BaremetalSetStepProofs

\* A set releases only BMHs that it consumes.
LEMMA ReleaseOwn ==
    ASSUME AllInv, worker.pc = "release", NEW t \in worker.todo, Found(BmhRef(t))
    PROVE  LET b == BmhRef(t)
           IN  /\ t[2] \in Hosts /\ b = t[1] /\ b = inst.ref[t[2]] /\ b \in BMHs
               /\ bmh[b].consumer = worker.set /\ bmh[b].label[worker.set] = t[2]
<1> USE DEF AllInv, Inv
<1>1. ReleaseInv /\ Recorded(worker.set, bmh, inst.ref, inst.st)
  BY EntriesAre, Zenon DEF StatusInv
<1>2. t[2] \in Hosts /\ inst.ref[t[2]] = t[1] /\ BmhRef(t) = inst.ref[t[2]]
  BY <1>1, ConstantsAssumption, Zenon DEF ReleaseInv, BmhRef
<1>3. inst.ref[t[2]] \in BMHs /\ bmh[inst.ref[t[2]]].exists
  BY <1>2 DEF Found, TypeInv, TypeOK, OpenStackBaremetalSet
<1>4. t[2] \in Keys(inst.ref)
  BY <1>2, <1>3, ConstantsAssumption, Zenon DEF Keys
<1> QED BY <1>1, <1>2, <1>3, <1>4, RecordedEntry

\* BaremetalHostDeprovision up to the Update of the BMH.
LEMMA ReleaseStatus ==
    ASSUME AllInv, DeprovisionUpdate
    PROVE  StatusInv'
<1> USE DEF AllInv, Inv
<1> DEFINE s == worker.set
<1>1. PICK t \in worker.todo :
        /\ Found(BmhRef(t))
        /\ bmh' = [bmh EXCEPT ![BmhRef(t)] = Released(BmhRef(t), s)]
        /\ worker' = [worker EXCEPT !.pc = "secrets", !.cur = t[2], !.todo = @ \ {t}]
  BY Zenon DEF DeprovisionUpdate
<1> DEFINE b == BmhRef(t)
           g == t[2]
<1>2. worker.pc = "release" /\ s \in Sets /\ UNCHANGED <<osbms, base, inst>>
  BY DEF DeprovisionUpdate, At, TypeInv, WorkerOK
<1>3. /\ g \in Hosts /\ b = t[1] /\ b = inst.ref[g] /\ b \in BMHs
      /\ bmh[b].consumer = s /\ bmh[b].label[s] = g
  BY <1>1, <1>2, ReleaseOwn
<1>4. /\ worker'.pc = "secrets" /\ worker'.set = s /\ worker'.cur = g
      /\ worker'.todo = worker.todo \ {t}
  BY <1>1 DEF TypeInv, TypeOK, Worker
<1>5. /\ \A d \in BMHs \ {b} : bmh'[d] = bmh[d]
      /\ bmh'[b].exists = bmh[b].exists /\ bmh'[b].consumer = Nil
      /\ bmh'[b].label[s] = Nil /\ \A r \in Sets \ {s} : bmh'[b].label[r] = bmh[b].label[r]
  <2>1. bmh \in [BMHs -> BareMetalHost] /\ bmh[b] \in BareMetalHost
    BY <1>3, Zenon DEF TypeInv, TypeOK
  <2>2. bmh'[b] = Released(b, s) /\ \A d \in BMHs \ {b} : bmh'[d] = bmh[d]
    BY <1>1, <1>3, <2>1, Zenon
  <2> QED BY <1>2, <2>1, <2>2 DEF Released, BareMetalHost
<1> HIDE DEF b, g
<1>6. \A d \in BMHs : BmhInv(bmh'[d])
  <2>1. bmh[b].exists => \A r \in Sets \ {s} : bmh[b].label[r] = Nil
    BY <1>3, Zenon DEF StatusInv, BmhInv
  <2>2. BmhInv(bmh'[b])
    BY <1>5, <2>1, ConstantsAssumption, Zenon DEF BmhInv
  <2> QED BY <1>5, <2>2, Zenon DEF StatusInv
<1>7. ASSUME NEW r \in Sets
      PROVE  /\ SetInv(osbms[r]) /\ Distinct(bmh', osbms[r].ref)
             /\ s # r => Recorded(r, bmh', osbms[r].ref, osbms[r].st)
  <2>1. osbms[r].ref \in [Hosts -> BMHs \cup {Nil}]
    BY Zenon DEF TypeInv, TypeOK, OpenStackBaremetalSet
  <2>2. \A d \in BMHs : bmh'[d].exists = bmh[d].exists
    BY <1>5, Zenon
  <2>3. Distinct(bmh', osbms[r].ref)
    BY <2>1, <2>2, Zenon DEF StatusInv, Distinct, Keys
  <2>4. s # r => \A d \in BMHs : Keeps(r, bmh[d], bmh'[d])
    BY <1>3, <1>5, ConstantsAssumption DEF Keeps
  <2> QED BY <2>1, <2>3, <2>4, RecordedKept, Zenon DEF StatusInv
<1>8. LinkInv /\ KeptInv /\ ReleaseInv /\ Recorded(s, bmh, inst.ref, inst.st)
      /\ inst.cond # "ready" /\ base.ref \in [Hosts -> BMHs \cup {Nil}]
      /\ inst.ref \in [Hosts -> BMHs \cup {Nil}]
  BY <1>2, EntriesAre, Zenon DEF StatusInv, TypeInv, TypeOK, OpenStackBaremetalSet
<1>9. ~Stays(g) /\ \A h \in Hosts : h # g => inst.ref[h] # b
  <2>1. bmh[b].exists /\ b # Nil
    BY <1>1 DEF Found, b
  <2>2. \A h \in Keys(inst.ref) : inst.ref[h] = b => h = g
    BY <1>3, <1>8, <2>1, RecordedEntry
  <2> QED BY <1>8, <2>1, <2>2, Zenon DEF ReleaseInv, Keys, g
<1>10. LinkInv'
  BY <1>2, <1>4, <1>8, Zenon DEF LinkInv
<1>11. KeptInv'
  <2>1. ASSUME NEW h \in Keys(base.ref), bmh'[base.ref[h]].exists
        PROVE  /\ bmh'[base.ref[h]].consumer \in {Nil, s}
               /\ Stays(h) => /\ inst.ref[h] = base.ref[h]
                              /\ base.st[h] = "provisioned"
                                   => bmh'[base.ref[h]].state = "provisioned"
    <3>1. base.ref[h] \in BMHs /\ h \in Hosts
      BY <1>8 DEF Keys
    <3>2. CASE base.ref[h] # b
      BY <1>5, <1>8, <2>1, <3>1, <3>2 DEF KeptInv
    <3>3. CASE base.ref[h] = b
      BY <1>5, <1>8, <1>9, <2>1, <3>1, <3>3, Zenon DEF KeptInv
    <3> QED BY <3>2, <3>3, Zenon
  <2> QED BY <1>2, <1>4, <2>1, Zenon DEF KeptInv, Stays
<1>12. Recorded(s, bmh', Entries', inst.st)
  <2>1. Entries' = [h \in Hosts |-> IF h = g THEN Nil ELSE inst.ref[h]]
    BY <1>2, <1>4 DEF Entries
  <2>2. ASSUME NEW d \in Consumed(s, bmh')
        PROVE  bmh'[d].label[s] # Nil /\ Entries'[bmh'[d].label[s]] = d
    <3>1. d \in BMHs /\ d # b /\ bmh'[d] = bmh[d] /\ d \in Consumed(s, bmh)
      BY <1>2, <1>5, ConstantsAssumption DEF Consumed
    <3>2. bmh[d].label[s] # Nil /\ inst.ref[bmh[d].label[s]] = d
      BY <1>8, <3>1, RecordedBmh
    <3>3. bmh[d].label[s] \in Hosts \cup {Nil}
      BY <1>2, <3>1 DEF TypeInv, TypeOK, BareMetalHost
    <3> QED BY <1>3, <2>1, <3>1, <3>2, <3>3, Zenon
  <2>3. ASSUME NEW h \in Keys(Entries')
        PROVE  h \in Keys(inst.ref) /\ Entries'[h] = inst.ref[h] /\ bmh'[inst.ref[h]] = bmh[inst.ref[h]]
    BY <1>5, <1>8, <1>9, <2>1, Zenon DEF Keys
  <2>4. ASSUME NEW h \in Keys(Entries'), bmh'[Entries'[h]].exists
        PROVE  /\ bmh'[Entries'[h]].consumer = s /\ bmh'[Entries'[h]].label[s] = h
               /\ inst.st[h] = "provisioned" => bmh'[Entries'[h]].state = "provisioned"
    BY <1>8, <2>3, <2>4, RecordedEntry
  <2> QED BY <2>2, <2>4, Zenon DEF Recorded
<1>13. ReleaseInv'
  <2>1. ASSUME NEW u \in worker.todo, u # t
        PROVE  u[2] \in Hosts /\ u[2] # g /\ ~Stays(u[2]) /\ inst.ref[u[2]] = u[1]
    <3>1. u[2] \in Hosts /\ ~Stays(u[2]) /\ inst.ref[u[2]] = u[1]
      BY <1>8, Zenon DEF ReleaseInv
    <3>2. u \in BMHs \X (Hosts \cup {Nil}) /\ t \in BMHs \X (Hosts \cup {Nil})
      BY DEF TypeInv, TypeOK, Worker
    <3>3. u[2] = g => u[1] = t[1] /\ u[2] = t[2]
      BY <1>3, <3>1, Zenon DEF g
    <3> QED BY <2>1, <3>1, <3>2, <3>3
  <2>2. ASSUME NEW h \in Keys(inst.ref), ~Stays(h), h # g
        PROVE  <<inst.ref[h], h>> \in worker.todo \ {t}
    <3>1. <<inst.ref[h], h>> \in worker.todo
      BY <1>2, <1>8, <2>2, ConstantsAssumption DEF ReleaseInv, Keys
    <3> QED BY <2>2, <3>1 DEF g
  <2>3. \A h \in Hosts : Stays(h)' = Stays(h)
    BY <1>2 DEF Stays
  <2> QED BY <1>2, <1>4, <1>9, <2>1, <2>2, <2>3, Zenon DEF ReleaseInv, Stays
<1> QED BY <1>2, <1>4, <1>6, <1>7, <1>8, <1>10, <1>11, <1>12, <1>13, Zenon DEF StatusInv

\* A fresh CreateOrPatch of a BMH for host h, which has its entry or is free.
LEMMA PatchedFresh ==
    ASSUME AllInv, bmhCache = bmh, worker.img # Nil, NEW s \in Sets, NEW h \in Hosts,
           NEW b \in BMHs \ Foreign, bmh[b].exists,
           bmh[b].consumer = Nil \/ (bmh[b].consumer = s /\ bmh[b].label[s] = h)
    PROVE  LET p == PatchedBmh(b, s, h)
           IN  /\ p.state = bmh[b].state /\ p.consumer = s /\ p.label[s] = h
               /\ \A r \in Sets \ {s} : p.label[r] = Nil /\ bmh[b].label[r] = Nil
               /\ p.image # Nil
               /\ StateAfterPatch(b, s, h) = bmh[b].state
<1> USE DEF AllInv, Inv
<1> DEFINE p == PatchedBmh(b, s, h)
<1>0. bmh[b] \in BareMetalHost /\ s # Nil /\ h # Nil
  BY ConstantsAssumption DEF TypeInv, TypeOK
<1>1. \A r \in Sets : bmh[b].label[r] # Nil => bmh[b].consumer = r
  BY Zenon DEF StatusInv, BmhInv
<1>2. /\ p.label[s] = (IF bmh[b].label[s] = Nil THEN h ELSE bmh[b].label[s])
      /\ \A r \in Sets \ {s} : p.label[r] = bmh[b].label[r]
      /\ p.state = bmh[b].state
  BY <1>0, Zenon DEF PatchedBmh, Mutated, Patch, BareMetalHost
<1>3. p.consumer = s
  BY PatchedOwner
<1>4. p.image # Nil
  <2>1. bmh[b].consumer = s => bmh[b].image # Nil
    BY Zenon DEF StatusInv, BmhInv
  <2> QED BY <2>1, PatchedImage
<1>5. StateAfterPatch(b, s, h) = bmh[b].state
  BY DEF StateAfterPatch
<1> HIDE DEF p
<1>6. p.label[s] = h /\ \A r \in Sets \ {s} : p.label[r] = Nil /\ bmh[b].label[r] = Nil
  BY <1>0, <1>1, <1>2, ConstantsAssumption
<1> QED BY <1>2, <1>3, <1>4, <1>5, <1>6, Zenon DEF p

\* BaremetalHostProvision from the Get of the BMH on.
LEMMA ProvisionStatus ==
    ASSUME AllInv, "stale" \notin Faults, ProvisionBmh
    PROVE  StatusInv'
<1> USE DEF AllInv, Inv
<1> DEFINE s == worker.set
           h == worker.cur
           b == worker.plan[h]
<1>0. /\ worker.pc = "bmh" /\ s \in Sets /\ h \in Hosts /\ b \in BMHs /\ h \in Keys(worker.plan)
      /\ bmhCache = bmh /\ UNCHANGED osbms /\ worker.plan \in [Hosts -> BMHs \cup {Nil}]
  BY Zenon DEF ProvisionBmh, At, Fresh, TypeInv, TypeOK, Worker, WorkerOK, Keys
<1>1. CASE ~Patchable(b, s, h)
  BY <1>0, <1>1, ErrorStatus DEF ProvisionBmh
<1>2. CASE Patchable(b, s, h)
  <2>1. /\ bmh' = [bmh EXCEPT ![b] = PatchedBmh(b, s, h)]
        /\ inst' = [inst EXCEPT !.ref[h] = IF @ = Nil THEN b ELSE @,
                                !.st[h] = StateAfterPatch(b, s, h)]
        /\ worker' = [worker EXCEPT !.pc = "provision", !.cur = Nil, !.plan[h] = Nil]
        /\ UNCHANGED base
    BY <1>2, Zenon DEF ProvisionBmh
  <2>2. /\ LinkInv /\ KeptInv /\ ProvideInv /\ Recorded(s, bmh, inst.ref, inst.st)
        /\ inst.cond # "ready" /\ bmh[b].exists /\ b # Nil /\ b \notin Foreign /\ worker.img # Nil
        /\ base.ref \in [Hosts -> BMHs \cup {Nil}]
        /\ inst.ref \in [Hosts -> BMHs \cup {Nil}] /\ inst.st \in [Hosts -> BmhStates \cup {Nil}]
    <3>1. LinkInv /\ KeptInv /\ ProvideInv /\ Recorded(s, bmh, inst.ref, inst.st) /\ inst.cond # "ready"
      BY <1>0, EntriesAre, Zenon DEF StatusInv
    <3>2. bmh[b].exists /\ b # Nil /\ worker.img # Nil
      BY <1>0, <1>2, ConstantsAssumption DEF Patchable, PlanInv
    <3>3. b \notin Foreign
      BY <1>0, <3>2, Zenon DEF FitInv, LocalFits, RefFits
    <3>4. base \in OpenStackBaremetalSet /\ inst \in OpenStackBaremetalSet
      BY Zenon DEF TypeInv, TypeOK
    <3> QED BY <3>1, <3>2, <3>3, <3>4 DEF OpenStackBaremetalSet
  <2>3. \/ inst.ref[h] = b /\ bmh[b].consumer = s /\ bmh[b].label[s] = h
        \/ inst.ref[h] = Nil /\ bmh[b].consumer = Nil
    <3>1. inst.ref[h] = b \/ (inst.ref[h] = Nil /\ bmh[b].consumer = Nil)
      BY <1>0, <2>2, Zenon DEF ProvideInv
    <3>2. inst.ref[h] = b => h \in Keys(inst.ref)
      BY <1>0, <2>2, Zenon DEF Keys
    <3> QED BY <2>2, <3>1, <3>2, RecordedEntry
  <2>4. /\ \A d \in BMHs \ {b} : bmh'[d] = bmh[d]
        /\ bmh'[b].exists = bmh[b].exists /\ bmh'[b].state = bmh[b].state /\ bmh'[b].consumer = s
        /\ bmh'[b].label[s] = h /\ bmh'[b].image # Nil
        /\ \A r \in Sets \ {s} : bmh'[b].label[r] = Nil /\ bmh[b].label[r] = Nil
        /\ StateAfterPatch(b, s, h) = bmh[b].state
    <3>1. bmh'[b] = PatchedBmh(b, s, h) /\ \A d \in BMHs \ {b} : bmh'[d] = bmh[d]
      BY <1>0, <2>1, Zenon DEF TypeInv, TypeOK
    <3> DEFINE p == PatchedBmh(b, s, h)
    <3>2. /\ AllInv /\ bmhCache = bmh /\ worker.img # Nil /\ bmh[b].exists
          /\ s \in Sets /\ h \in Hosts /\ b \in BMHs \ Foreign
      BY <1>0, <2>2, Zenon DEF AllInv
    <3>3. bmh[b].consumer = Nil \/ (bmh[b].consumer = s /\ bmh[b].label[s] = h)
      BY <2>3, Zenon
    <3>4. /\ p.state = bmh[b].state /\ p.consumer = s /\ p.label[s] = h
          /\ \A r \in Sets \ {s} : p.label[r] = Nil /\ bmh[b].label[r] = Nil
          /\ p.image # Nil
          /\ StateAfterPatch(b, s, h) = bmh[b].state
      <4> HIDE DEF b, s, h, AllInv
      <4> QED BY <3>2, <3>3, PatchedFresh
    <3>5. p.exists = bmh[b].exists
      <4>1. bmhCache[b] = bmh[b] /\ bmh[b] \in BareMetalHost
        BY <3>2, Zenon DEF TypeInv, TypeOK
      <4> QED BY <4>1, Zenon DEF PatchedBmh, BareMetalHost
    <3> HIDE DEF p
    <3> QED BY <3>1, <3>4, <3>5, Zenon DEF p
  <2>5. /\ inst'.phase = inst.phase /\ inst'.hosts = inst.hosts /\ inst'.obs = inst.obs
        /\ inst'.final = inst.final /\ inst'.cond = inst.cond
        /\ inst'.ref = [inst.ref EXCEPT ![h] = b]
        /\ inst'.st = [inst.st EXCEPT ![h] = bmh[b].state]
    <3>1. inst \in OpenStackBaremetalSet
      BY DEF TypeInv, TypeOK
    <3>2. (IF inst.ref[h] = Nil THEN b ELSE inst.ref[h]) = b
      BY <2>3, Zenon
    <3> QED BY <2>1, <2>4, <3>1, <3>2, Zenon DEF OpenStackBaremetalSet
  <2>6. /\ worker'.pc = "provision" /\ worker'.set = s
        /\ worker'.plan = [worker.plan EXCEPT ![h] = Nil]
    BY <2>1, Zenon DEF TypeInv, TypeOK, Worker
  <2> HIDE DEF b, h, s
  <2>7. \A g \in Hosts \ {h} : inst.ref[g] # b /\ inst'.ref[g] = inst.ref[g] /\ inst'.st[g] = inst.st[g]
    <3>1. \A g \in Hosts : inst.ref[g] = b => bmh[b].consumer = s /\ bmh[b].label[s] = g
      BY <2>2 DEF Recorded, Keys
    <3>2. s # Nil
      BY <1>0, ConstantsAssumption
    <3> QED BY <2>2, <2>3, <2>5, <3>1, <3>2
  <2>8. \A d \in BMHs : BmhInv(bmh'[d])
    <3>1. BmhInv(bmh'[b])
      BY <2>4, Zenon DEF BmhInv
    <3> QED BY <2>4, <3>1, Zenon DEF StatusInv
  <2>9. ASSUME NEW r \in Sets
        PROVE  /\ SetInv(osbms[r]) /\ Distinct(bmh', osbms[r].ref)
               /\ s # r => Recorded(r, bmh', osbms[r].ref, osbms[r].st)
    <3>1. osbms[r].ref \in [Hosts -> BMHs \cup {Nil}]
      BY Zenon DEF TypeInv, TypeOK, OpenStackBaremetalSet
    <3>2. \A d \in BMHs : bmh'[d].exists = bmh[d].exists
      BY <2>4, Zenon
    <3>3. Distinct(bmh', osbms[r].ref)
      BY <3>1, <3>2, Zenon DEF StatusInv, Distinct, Keys
    <3>4. s # r => \A d \in BMHs : Keeps(r, bmh[d], bmh'[d])
      BY <2>2, <2>3, <2>4, ConstantsAssumption DEF Keeps
    <3> QED BY <3>1, <3>3, <3>4, RecordedKept, Zenon DEF StatusInv, s
  <2>10. LinkInv'
    BY <1>0, <2>1, <2>2, <2>5, <2>6 DEF LinkInv, s
  <2>11. KeptInv'
    <3>1. ASSUME NEW g \in Keys(base.ref), bmh'[base.ref[g]].exists
          PROVE  /\ bmh'[base.ref[g]].consumer \in {Nil, s}
                 /\ Stays(g) => /\ inst'.ref[g] = base.ref[g]
                                /\ base.st[g] = "provisioned"
                                     => bmh'[base.ref[g]].state = "provisioned"
      <4>1. /\ base.ref[g] \in BMHs /\ g \in Hosts /\ base.ref[g] # Nil /\ bmh[base.ref[g]].exists
            /\ bmh'[base.ref[g]].state = bmh[base.ref[g]].state
        BY <2>2, <2>4, <3>1, Zenon DEF Keys
      <4>2. /\ bmh[base.ref[g]].consumer \in {Nil, s}
            /\ Stays(g) => /\ inst.ref[g] = base.ref[g]
                           /\ base.st[g] = "provisioned" => bmh[base.ref[g]].state = "provisioned"
        BY <2>2, <4>1, Zenon DEF KeptInv, s
      <4>3. bmh'[base.ref[g]].consumer \in {Nil, s}
        BY <2>4, <4>1, <4>2, Zenon
      <4>4. Stays(g) => inst'.ref[g] = base.ref[g]
        <5>1. CASE g = h
          BY <1>0, <2>2, <2>3, <2>5, <4>1, <4>2, <5>1
        <5>2. CASE g # h
          BY <2>7, <4>1, <4>2, <5>2, Zenon
        <5> QED BY <5>1, <5>2
      <4> QED BY <4>1, <4>2, <4>3, <4>4, Zenon
    <3> QED BY <2>1, <2>5, <2>6, <3>1 DEF KeptInv, Stays
  <2>12. Recorded(s, bmh', Entries', inst'.st)
    <3>1. Entries' = inst'.ref
      BY <2>2, <2>5, <2>6, Zenon DEF Entries
    <3>2. ASSUME NEW d \in Consumed(s, bmh')
          PROVE  bmh'[d].label[s] # Nil /\ inst'.ref[bmh'[d].label[s]] = d
      <4>1. CASE d = b
        BY <1>0, <2>2, <2>4, <2>5, <4>1, ConstantsAssumption
      <4>2. CASE d # b
        <5>1. d \in BMHs /\ bmh'[d] = bmh[d] /\ d \in Consumed(s, bmh)
          BY <2>4, <4>2, Zenon DEF Consumed
        <5>2. bmh[d].label[s] \in Hosts /\ bmh[d].label[s] # Nil /\ inst.ref[bmh[d].label[s]] = d
          <6>1. bmh[d].label[s] # Nil /\ inst.ref[bmh[d].label[s]] = d
            BY <2>2, <5>1, RecordedBmh
          <6>2. bmh[d].label[s] \in Hosts \cup {Nil}
            BY <1>0, <5>1 DEF TypeInv, TypeOK, BareMetalHost
          <6> QED BY <6>1, <6>2, Zenon
        <5>3. bmh[d].label[s] # h
          BY <2>3, <4>2, <5>1, <5>2, ConstantsAssumption, Zenon
        <5> QED BY <2>7, <5>1, <5>2, <5>3, Zenon
      <4> QED BY <4>1, <4>2, Zenon
    <3>3. ASSUME NEW g \in Keys(inst'.ref), bmh'[inst'.ref[g]].exists
          PROVE  /\ bmh'[inst'.ref[g]].consumer = s
                 /\ bmh'[inst'.ref[g]].label[s] = g
                 /\ inst'.st[g] = "provisioned" => bmh'[inst'.ref[g]].state = "provisioned"
      <4>1. CASE g = h
        BY <1>0, <2>2, <2>4, <2>5, <4>1
      <4>2. CASE g # h
        <5>1. g \in Keys(inst.ref) /\ inst'.ref[g] = inst.ref[g] /\ inst'.st[g] = inst.st[g]
              /\ bmh'[inst.ref[g]] = bmh[inst.ref[g]]
          BY <2>2, <2>4, <2>7, <4>2 DEF Keys
        <5>2. Recorded(s, bmh, inst.ref, inst.st)
          BY <2>2, Zenon
        <5> QED BY <3>3, <5>1, <5>2, RecordedEntry
      <4> QED BY <4>1, <4>2, Zenon
    <3> QED BY <3>1, <3>2, <3>3, Zenon DEF Recorded
  <2>13. ProvideInv'
    <3>1. Keys(worker'.plan) = Keys(worker.plan) \ {h} /\ Keys(inst'.ref) = Keys(inst.ref) \cup {h}
      BY <1>0, <2>2, <2>5, <2>6 DEF Keys, h
    <3>2. \A g \in Keys(worker'.plan) : worker'.plan[g] = worker.plan[g] /\ inst'.ref[g] = inst.ref[g]
                                        /\ g \in Keys(worker.plan) /\ worker.plan[g] # b
                                        /\ bmh'[worker.plan[g]] = bmh[worker.plan[g]]
      <4>1. ASSUME NEW g \in Keys(worker'.plan)
            PROVE  /\ g \in Keys(worker.plan) /\ g \in Hosts /\ g # h
                   /\ worker.plan[g] \in BMHs
        BY <1>0, <3>1 DEF Keys
      <4>2. ASSUME NEW g \in Keys(worker'.plan) PROVE worker.plan[g] # b
        BY <1>0, <2>2, <4>1, Zenon DEF ProvideInv, b, h
      <4> QED BY <1>0, <2>4, <2>6, <2>7, <4>1, <4>2, Zenon DEF h
    <3>3. Keys(inst'.ref) \cup Keys(worker'.plan) = inst'.hosts
      BY <1>0, <2>2, <2>5, <3>1 DEF ProvideInv
    <3> QED BY <2>2, <2>5, <3>2, <3>3 DEF ProvideInv
  <2> QED BY <1>0, <2>2, <2>5, <2>6, <2>8, <2>9, <2>10, <2>11, <2>12, <2>13, Zenon DEF StatusInv
<1> QED BY <1>1, <1>2, Zenon

-----------------------------------------------------------------------------
(* The theorems. *)

\* Every step keeps the invariant, if BMHs are deleted but nothing else fails.
LEMMA StatusNext ==
    ASSUME Faults \subseteq {"bmhdel"}, AllInv, TypeInv', [Next]_vars
    PROVE  StatusInv'
<1> USE DEF AllInv
<1>0. "stale" \notin Faults /\ "api" \notin Faults /\ "crash" \notin Faults
  OBVIOUS
<1>1. ASSUME NEW s \in Sets, UserStep(s) \/ SyncSet(s) \/ Reconcile(s) PROVE StatusInv'
  <2>1. SyncSet(s) => UNCHANGED <<bmh, osbms, worker, base, inst>>
    BY DEF SyncSet, api, local
  <2> QED BY <1>0, <1>1, <2>1, UserStatus, QuietStatus, ReconcileStatus
<1>2. ASSUME NEW b \in BMHs, Metal3Step(b) \/ SyncBmh(b) \/ DeleteBmhObject(b) PROVE StatusInv'
  <2>1. SyncBmh(b) => UNCHANGED <<bmh, osbms, worker, base, inst>>
    BY DEF SyncBmh, api, local
  <2> QED BY <1>2, <2>1, WeatherStatus, QuietStatus
<1>3. CASE DeprovisionNotFound
  <2>1. worker.pc = "release" /\ UNCHANGED <<bmh, osbms>>
        /\ IF inst.phase = "deleting" THEN FinishDelete ELSE ReturnError
    BY <1>3 DEF DeprovisionNotFound, At, api
  <2> QED BY <2>1, ErrorStatus, FinishStatus
<1>4. CASE DeprovisionConflict
  <2>1. worker.pc = "release" /\ UNCHANGED <<bmh, osbms>> /\ ReturnError
    BY <1>4 DEF DeprovisionConflict, At, api
  <2> QED BY <2>1, ErrorStatus
<1>5. CASE RemoveFinalizer
  <2>1. worker.pc = "release" /\ UNCHANGED <<bmh, osbms>> /\ inst.phase = "deleting" /\ FinishDelete
    BY <1>5 DEF RemoveFinalizer, At, api
  <2> QED BY <2>1, FinishStatus
<1>6. CASE WorkerStep
  BY <1>0, <1>3, <1>4, <1>5, <1>6, ReleaseStatus, SecretsStatus, EnsureStatus, RenderStatus,
     ProvisionStatus, EndsStatus, PatchStatus DEF WorkerStep
<1>7. CASE FaultStep
  BY <1>0, <1>2, <1>7, Zenon DEF FaultStep, ApiError, ProvisionAnswerLost, PatchInstanceFails,
     ReconcilePanics, ManagerRestarts, Fault
<1>8. CASE UNCHANGED vars
  BY <1>8, QuietStatus DEF vars
<1> QED BY <1>1, <1>2, <1>6, <1>7, <1>8, Zenon DEF Next

\* What the status, the labels, the consumerRefs and the locals of a reconcile
\* have in common at every step, without stale reads, failed requests and crashes.
THEOREM StatusInvariant ==
    ASSUME Faults \subseteq {"bmhdel"}
    PROVE  Spec => []AllInv
<1>0. "stale" \notin Faults
  OBVIOUS
<1>1. AllInv /\ TypeInv' /\ [Next]_vars => StatusInv'
  BY StatusNext
<1>2. Inv /\ PlanInv /\ [Next]_vars => PlanInv'
  BY <1>0, PlanNext
<1>3. Spec => []OwnershipInv
  BY <1>0, Ownership
<1>4. (AllInv <=> Inv /\ PlanInv /\ StatusInv) /\ (Inv <=> TypeInv /\ FitInv /\ OwnershipInv)
  BY DEF AllInv, Inv
<1> QED BY <1>1, <1>2, <1>3, <1>4, TypeInvariant, FitInvariant, PlanInit, StatusInit, PTL DEF Spec

\* Between reconciles the status of a set has exactly the BMHs that the set
\* consumes, under the host name on their label: for any number of sets that
\* scale, replace hosts and come and go, and with BMHs deleted at any time.
THEOREM StatusAgrees ==
    ASSUME Faults \subseteq {"bmhdel"}
    PROVE  Spec => []StatusMatchesHosts
<1>1. ASSUME AllInv PROVE StatusMatchesHosts
  <2> SUFFICES ASSUME NEW s \in Sets, worker.set # s
               PROVE  /\ Owned(s, bmh) = InUse(s)
                      /\ \A b \in InUse(s) : bmh[b].label[s] # Nil /\ osbms[s].ref[bmh[b].label[s]] = b
                      /\ \A h \in Keys(osbms[s].ref) :
                            bmh[osbms[s].ref[h]].exists => osbms[s].ref[h] \in InUse(s)
    BY Zenon DEF StatusMatchesHosts
  <2>1. Recorded(s, bmh, osbms[s].ref, osbms[s].st)
    BY <1>1, Zenon DEF AllInv, StatusInv
  <2>2. \A h \in Keys(osbms[s].ref) : osbms[s].ref[h] \in BMHs
    BY <1>1 DEF Keys, AllInv, Inv, TypeInv, TypeOK, OpenStackBaremetalSet
  <2>3. Owned(s, bmh) = InUse(s)
    BY <1>1, OwnedIsConsumed DEF InUse
  <2> QED BY <2>1, <2>2, <2>3, Zenon DEF Recorded, InUse, Consumed
<1> QED BY <1>1, StatusInvariant, PTL

\* At every moment two host names never share a BMH that exists, and one host
\* name never has two, also while the set is being reconciled.
THEOREM HostsAndBmhsOneToOne ==
    ASSUME Faults \subseteq {"bmhdel"}
    PROVE  Spec => []OneToOne
<1>1. ASSUME AllInv PROVE OneToOne
  <2> USE <1>1 DEF AllInv, Inv
  <2>1. ASSUME NEW s \in Sets, NEW h \in Hosts, osbms[s].ref[h] # Nil, bmh[osbms[s].ref[h]].exists
        PROVE  \/ bmh[osbms[s].ref[h]].consumer = s
               \/ worker.set = s /\ bmh[osbms[s].ref[h]].consumer = Nil
    <3>1. h \in Keys(osbms[s].ref)
      BY <2>1, Zenon DEF Keys
    <3>2. CASE worker.set # s
      <4>1. Recorded(s, bmh, osbms[s].ref, osbms[s].st)
        BY <3>2, Zenon DEF StatusInv
      <4> QED BY <2>1, <3>1, <4>1, RecordedEntry
    <3>3. CASE worker.set = s
      <4>1. worker.pc # "idle"
        BY <3>3, ConstantsAssumption, Zenon DEF StatusInv
      <4>2. base.ref = osbms[s].ref /\ KeptInv
        BY <3>3, <4>1, Zenon DEF StatusInv, LinkInv
      <4> QED BY <2>1, <3>1, <3>3, <4>2 DEF KeptInv
    <3> QED BY <3>2, <3>3, Zenon
  <2>2. ASSUME NEW s \in Sets, NEW t \in Sets, NEW g \in Hosts, NEW h \in Hosts,
               osbms[s].ref[g] # Nil, osbms[s].ref[g] = osbms[t].ref[h],
               bmh[osbms[s].ref[g]].exists
        PROVE  <<s, g>> = <<t, h>>
    <3>1. s = t
      BY <2>1, <2>2, ConstantsAssumption
    <3>2. g \in Keys(osbms[s].ref) /\ h \in Keys(osbms[s].ref)
      BY <2>2, <3>1, Zenon DEF Keys
    <3>3. g = h
      BY <2>2, <3>1, <3>2, Zenon DEF StatusInv, Distinct
    <3> QED BY <3>1, <3>3
  <2>3. ASSUME NEW s \in Sets, NEW b \in Owned(s, bmh), NEW c \in Owned(s, bmh),
               bmh[b].label[s] = bmh[c].label[s]
        PROVE  b = c
    <3>1. b \in Consumed(s, bmh) /\ c \in Consumed(s, bmh)
      BY <2>3, OwnedIsConsumed
    <3>2. CASE worker.set # s
      <4>1. Recorded(s, bmh, osbms[s].ref, osbms[s].st)
        BY <3>2, Zenon DEF StatusInv
      <4> QED BY <2>3, <3>1, <4>1, RecordedBmh
    <3>3. CASE worker.set = s
      <4>1. Recorded(s, bmh, Entries, inst.st)
        BY <3>3, ConstantsAssumption, Zenon DEF StatusInv
      <4> QED BY <2>3, <3>1, <4>1, RecordedBmh
    <3> QED BY <3>2, <3>3
  <2> QED BY <2>2, <2>3 DEF OneToOne
<1> QED BY <1>1, StatusInvariant, PTL

\* A set that is Ready for its current generation has a BMH for each host of its
\* spec and no other, and those that exist are its own and provisioned.
THEOREM ReadyIsProvisioned ==
    ASSUME Faults \subseteq {"bmhdel"}
    PROVE  Spec => []ReadyMeansProvisioned
<1>1. ASSUME AllInv PROVE ReadyMeansProvisioned
  <2> USE <1>1 DEF AllInv, Inv
  <2> SUFFICES ASSUME NEW s \in Sets, ReadyNow(osbms[s])
               PROVE  /\ Keys(osbms[s].ref) = osbms[s].hosts
                      /\ \A h \in osbms[s].hosts : bmh[osbms[s].ref[h]].exists =>
                            /\ bmh[osbms[s].ref[h]].state = "provisioned"
                            /\ bmh[osbms[s].ref[h]].consumer = s
    BY Zenon DEF ReadyMeansProvisioned, ReadyNow
  <2> DEFINE c == osbms[s]
  <2>1. Keys(c.ref) = c.hosts /\ \A h \in c.hosts : c.st[h] = "provisioned"
    BY Zenon DEF StatusInv, SetInv
  <2>2. CASE worker.set # s
    <3>1. Recorded(s, bmh, osbms[s].ref, osbms[s].st)
      BY <2>2, Zenon DEF StatusInv
    <3> QED BY <2>1, <3>1, RecordedEntry
  <2>3. CASE worker.set = s
    <3>1. LinkInv /\ KeptInv /\ Recorded(s, bmh, Entries, inst.st) /\ c.gen \in Nat
          /\ base.gen \in Nat /\ base.obs \in Nat
      <4>1. LinkInv /\ KeptInv /\ Recorded(s, bmh, Entries, inst.st)
        BY <2>3, ConstantsAssumption, Zenon DEF StatusInv
      <4>2. c \in OpenStackBaremetalSet /\ base \in OpenStackBaremetalSet
        BY Zenon DEF TypeInv, TypeOK
      <4> QED BY <4>1, <4>2 DEF OpenStackBaremetalSet
    <3>2. base.hosts = c.hosts /\ base.phase = "live" /\ c.ref = base.ref /\ c.st = base.st
      BY <2>3, <3>1 DEF LinkInv, ReadyNow
    <3>3. ASSUME NEW h \in c.hosts, bmh[c.ref[h]].exists
          PROVE  bmh[c.ref[h]].state = "provisioned" /\ bmh[c.ref[h]].consumer = s
      <4>1. Stays(h) /\ h \in Keys(base.ref) /\ h \in Hosts
        BY <2>1, <3>1, <3>2, Zenon DEF Stays, LinkInv, Keys
      <4>2. inst.ref[h] = c.ref[h] /\ bmh[c.ref[h]].state = "provisioned"
        BY <2>1, <3>1, <3>2, <3>3, <4>1 DEF KeptInv
      <4>3. Entries[h] = c.ref[h] /\ h \in Keys(Entries)
        BY <3>2, <4>1, <4>2, Zenon DEF Entries, Keys, StatusInv, ReleaseInv
      <4> QED BY <3>1, <3>3, <4>2, <4>3, Zenon DEF Recorded
    <3> QED BY <2>1, <3>3, Zenon
  <2> QED BY <2>2, <2>3, Zenon
<1> QED BY <1>1, StatusInvariant, PTL

\* BaremetalHostDeprovision, which does not look at consumerRef, releases only
\* BMHs of the set that is being reconciled.
THEOREM OwnHostsReleased ==
    ASSUME Faults \subseteq {"bmhdel"}
    PROVE  Spec => ReleasesOwnHosts
<1> DEFINE Step == \A b \in BMHs :
             bmh'[b].consumer = Nil => bmh[b].consumer \in {worker.set, Nil}
<1>1. ASSUME AllInv, Next PROVE Step
  <2> USE DEF AllInv
  <2> SUFFICES ASSUME NEW b \in BMHs, bmh'[b].consumer = Nil, bmh[b].consumer # Nil
               PROVE  bmh[b].consumer = worker.set
    OBVIOUS
  <2>0. "stale" \notin Faults /\ bmh[b] \in BareMetalHost
    BY <1>1 DEF Inv, TypeInv, TypeOK
  <2>1. BmhChange(b)
    BY <1>1, <2>0, BmhChanges
  <2>2. CASE DeprovisionUpdate
    <3>1. PICK t \in worker.todo :
            Found(BmhRef(t)) /\ bmh' = [bmh EXCEPT ![BmhRef(t)] = Released(BmhRef(t), worker.set)]
      BY <2>2, Zenon DEF DeprovisionUpdate
    <3>2. worker.pc = "release"
      BY <2>2 DEF DeprovisionUpdate, At
    <3>3. bmh[BmhRef(t)].consumer = worker.set
      BY <1>1, <3>1, <3>2, ReleaseOwn, Zenon
    <3> QED BY <1>1, <3>1, <3>3, Zenon DEF Inv, TypeInv, TypeOK
  <2>3. CASE ~DeprovisionUpdate
    BY <1>1, <2>0, <2>1, <2>3, Zenon DEF BmhChange, BareMetalHost
  <2> QED BY <2>2, <2>3
<1>2. AllInv /\ [Next]_vars => [Step]_bmh
  BY <1>1 DEF vars
<1> HIDE DEF Step
<1>3. Spec => [][Step]_bmh
  BY <1>2, StatusInvariant, PTL DEF Spec
<1> QED BY <1>3, Zenon DEF ReleasesOwnHosts, Step

-----------------------------------------------------------------------------
(* Sets that are gone. *)

\* At first every BMH exists and no set holds one.
LEMMA GoneInit == Init => GoneInv
<1> SUFFICES ASSUME Init PROVE GoneInv
  OBVIOUS
<1>1. \A b \in BMHs : bmh[b].exists
  BY DEF Init
<1>2. osbms = [s \in Sets |-> NoSet] /\ inst = NoSet
  BY DEF Init
<1>3. Keys(NoSet.ref) = {}
  BY DEF NoSet, NoHosts, Keys
<1> QED BY <1>1, <1>2, <1>3 DEF GoneInv

\* Without faults BMH objects stay.
LEMMA BmhsExist ==
    ASSUME Faults = {}, Inv, GoneInv, Next, NEW b \in BMHs
    PROVE  bmh'[b].exists
<1>1. BmhChange(b) /\ bmh[b] \in BareMetalHost /\ bmh[b].exists
  BY BmhChanges, Zenon DEF Inv, TypeInv, TypeOK, GoneInv
<1>2. /\ Released(b, worker.set).exists = bmh[b].exists
      /\ PatchedBmh(b, worker.set, worker.cur).exists = bmh[b].exists
  BY <1>1, Zenon DEF BareMetalHost, Released, PatchedBmh
<1> QED BY <1>1, <1>2, Zenon DEF BmhChange, BareMetalHost

\* A stored set loses its finalizer only with its last entry: users do not touch
\* either, PatchInstance stores what the reconcile arrived at.
LEMMA StoredGone ==
    ASSUME Faults = {}, AllInv, GoneInv, Next, NEW s \in Sets, ~osbms'[s].final
    PROVE  Keys(osbms'[s].ref) = {}
<1> USE DEF AllInv, Inv
<1>0. osbms \in [Sets -> OpenStackBaremetalSet]
  BY DEF TypeInv, TypeOK
<1>1. CASE osbms'[s] = osbms[s]
  BY <1>1 DEF GoneInv
<1>2. ASSUME NEW t \in Sets, UserStep(t) PROVE Keys(osbms'[s].ref) = {}
  <2>1. CASE CreateSet(t)
    <3>1. PICK hosts \in HostMaps[t] :
            osbms' = [osbms EXCEPT ![t] = [NoSet EXCEPT !.phase = "live", !.hosts = hosts, !.gen = 1]]
      BY <2>1, Zenon DEF CreateSet
    <3>2. CASE s = t
      BY <1>0, <3>1, <3>2 DEF NoSet, NoHosts, Keys
    <3> QED BY <1>0, <1>1, <3>1, <3>2
  <2>2. CASE UpdateSet(t) \/ DeleteSet(t) \/ PauseSet(t)
    <3>1. Edited(osbms[t], osbms'[t]) /\ osbms' = [osbms EXCEPT ![t] = osbms'[t]]
      BY <2>2, UserEdits
    <3>2. CASE s = t
      BY <3>1, <3>2, Zenon DEF Edited, GoneInv
    <3> QED BY <1>0, <1>1, <3>1, <3>2
  <2>3. CASE SourceChanges(t)
    BY <1>1, <2>3 DEF SourceChanges
  <2> QED BY <1>2, <2>1, <2>2, <2>3 DEF UserStep
<1>3. CASE PatchInstance
  <2> DEFINE t == worker.set
             c == osbms[t]
  <2>1. /\ worker.pc = "patch" /\ t \in Sets /\ LinkInv
    BY <1>3, Zenon DEF PatchInstance, At, TypeInv, WorkerOK, StatusInv
  <2>2. CASE UNCHANGED osbms
    BY <1>1, <2>2
  <2>3. CASE ~UNCHANGED osbms
    <3>1. PICK cond \in {inst.cond, Patch(base.cond, inst.cond, c.cond)} :
            osbms' = [osbms EXCEPT ![t] = Patched(c, cond)]
      BY <1>3, <2>3, Zenon DEF PatchInstance
    <3>2. Patched(c, cond).final = inst.final /\ Patched(c, cond).ref = inst.ref
      BY <2>1, PatchedIsInst, Zenon
    <3>3. CASE s = t
      <4>1. osbms'[s].final = inst.final /\ osbms'[s].ref = inst.ref
        BY <1>0, <3>1, <3>2, <3>3, Zenon
      <4> QED BY <4>1 DEF GoneInv
    <3>4. CASE s # t
      BY <1>0, <1>1, <3>1, <3>4
    <3> QED BY <3>3, <3>4
  <2> QED BY <2>2, <2>3
<1>4. CASE ~PatchInstance /\ ~\E t \in Sets : UserStep(t)
  <2>1. UNCHANGED osbms
    BY <1>4, Zenon DEF Next, SyncSet, SyncBmh, Reconcile, ReconcileSkips, ReconcileInitialises,
       ReconcileDelete, ReconcileWaits, ReconcileNormal, Reconciles, Take, Metal3Step,
       WorkerStep, DeprovisionUpdate, DeprovisionNotFound, DeprovisionConflict,
       DeprovisionSecrets, RemoveFinalizer, EnsureBaremetalHosts, ProvisionSecrets,
       ProvisionBmh, ReconcileEnds, FaultStep, ApiError, ProvisionAnswerLost,
       PatchInstanceFails, ReconcilePanics, ManagerRestarts, DeleteBmhObject, Fault, api
  <2> QED BY <1>1, <2>1
<1> QED BY <1>2, <1>3, <1>4, Zenon

\* With every BMH in place, deleting a set does not meet a NotFound error, which
\* reconcileDelete would take for success.
LEMMA NeverNotFound ==
    ASSUME Faults = {}, AllInv, GoneInv
    PROVE  ~DeprovisionNotFound
<1> USE DEF AllInv, Inv
<1> SUFFICES ASSUME worker.pc = "release", bmhCache = bmh, NEW t \in worker.todo, ~Found(BmhRef(t))
             PROVE  FALSE
  BY DEF DeprovisionNotFound, At, Fresh
<1>1. t[2] \in Hosts /\ inst.ref[t[2]] = t[1]
  BY Zenon DEF StatusInv, ReleaseInv
<1>2. t[1] \in BMHs
  BY Zenon DEF TypeInv, TypeOK, Worker, WorkerOK
<1>3. BmhRef(t) = t[1] /\ t[1] # Nil
  BY <1>1, <1>2, ConstantsAssumption DEF BmhRef
<1> QED BY <1>2, <1>3, Zenon DEF Found, GoneInv

\* The reconciled copy too loses its finalizer only with its last entry.
LEMMA LocalGone ==
    ASSUME Faults = {}, AllInv, StatusInv', GoneInv, Next, ~inst'.final
    PROVE  Keys(inst'.ref) = {}
<1> USE DEF AllInv, Inv
<1>1. CASE UNCHANGED inst
  BY <1>1 DEF GoneInv
<1>2. CASE EndReconcile
  BY <1>2 DEF EndReconcile, NoSet, NoHosts, Keys
<1>3. CASE worker'.pc \notin {"idle", "patch"}
  BY <1>3, Zenon DEF StatusInv, LinkInv
<1>4. ASSUME NEW s \in Sets, Reconcile(s) PROVE Keys(inst'.ref) = {}
  <2>1. osbmsCache = osbms /\ osbms[s] \in OpenStackBaremetalSet /\ SetInv(osbms[s])
    BY <1>4, Zenon DEF Reconcile, ReconcileSkips, ReconcileInitialises, ReconcileDelete, ReconcileWaits,
       ReconcileNormal, Reconciles, Take, Fresh, TypeInv, TypeOK, StatusInv
  <2>2. CASE ReconcileSkips(s)
    BY <1>1, <2>2 DEF ReconcileSkips, local
  <2>3. CASE ReconcileInitialises(s)
    <3>1. inst'.final
      BY <2>1, <2>3, Zenon DEF ReconcileInitialises, Reconciles, InitStatus, SetInv, OpenStackBaremetalSet
    <3> QED BY <3>1
  <2>4. CASE ReconcileWaits(s)
    <3>1. inst'.final
      BY <2>1, <2>4 DEF ReconcileWaits, NeedsInit, InitStatus, OpenStackBaremetalSet
    <3> QED BY <3>1
  <2>5. CASE ReconcileDelete(s) \/ ReconcileNormal(s)
    BY <1>3, <2>5, Zenon DEF ReconcileDelete, ReconcileNormal, Idle
  <2> QED BY <1>4, <2>2, <2>3, <2>4, <2>5 DEF Reconcile
<1>5. CASE RemoveFinalizer
  <2>1. /\ worker.pc = "release" /\ worker.todo = {} /\ inst.phase = "deleting"
        /\ inst' = [inst EXCEPT !.final = FALSE] /\ ReleaseInv
    BY <1>5, Zenon DEF RemoveFinalizer, At, FinishDelete, StatusInv
  <2>2. inst'.ref = inst.ref
    BY <2>1, Zenon DEF TypeInv, TypeOK, OpenStackBaremetalSet
  <2>3. Keys(inst.ref) = {}
    BY <2>1, ConstantsAssumption DEF ReleaseInv, Stays, Keys
  <2> QED BY <2>2, <2>3
<1>6. CASE DeprovisionSecrets \/ ProvisionBmh
  <2>1. UNCHANGED inst \/ worker'.pc \in {"release", "provision"}
    BY <1>6, Zenon DEF DeprovisionSecrets, ProvisionBmh, ReturnError, TypeInv, TypeOK, Worker
  <2> QED BY <1>1, <1>3, <2>1
<1>7. CASE ReconcileEnds
  <2>1. inst' = [inst EXCEPT !.cond = inst'.cond] /\ worker.pc = "provision"
    BY <1>7, Zenon DEF ReconcileEnds, At, TypeInv, TypeOK, OpenStackBaremetalSet
  <2>2. inst'.final = inst.final /\ inst.final
    BY <2>1, Zenon DEF StatusInv, LinkInv, TypeInv, TypeOK, OpenStackBaremetalSet
  <2> QED BY <2>2
<1>8. CASE WorkerStep
  <2>1. DeprovisionConflict \/ DeprovisionUpdate \/ EnsureBaremetalHosts \/ ProvisionSecrets
          => UNCHANGED inst
    BY Zenon DEF DeprovisionConflict, DeprovisionUpdate, EnsureBaremetalHosts, ProvisionSecrets,
       ReturnError
  <2>2. PatchInstance => EndReconcile
    BY DEF PatchInstance
  <2> QED BY <1>1, <1>2, <1>5, <1>6, <1>7, <1>8, <2>1, <2>2, NeverNotFound DEF WorkerStep
<1>9. CASE ~WorkerStep /\ ~\E s \in Sets : Reconcile(s)
  <2>1. UNCHANGED inst
    BY <1>9, Zenon DEF Next, UserStep, CreateSet, UpdateSet, DeleteSet, PauseSet, SourceChanges,
       SyncSet, SyncBmh, Metal3Step, FaultStep, ApiError, ProvisionAnswerLost,
       PatchInstanceFails, ReconcilePanics, ManagerRestarts, DeleteBmhObject, Fault, local
  <2> QED BY <1>1, <2>1
<1> QED BY <1>4, <1>8, <1>9, Zenon

\* Once a set is gone no BMH names it as its consumer: the finalizer goes only
\* after the last BMH has been released.  With a BMH object deleted meanwhile
\* this is false, as the run cleanup_stops shows.
THEOREM GoneHoldNothing ==
    ASSUME Faults = {}
    PROVE  Spec => []GoneSetsHoldNothing
<1>1. AllInv /\ AllInv' /\ GoneInv /\ [Next]_vars => GoneInv'
  <2> SUFFICES ASSUME AllInv, AllInv', GoneInv, [Next]_vars PROVE GoneInv'
    OBVIOUS
  <2>1. CASE Next
    <3>1. \A b \in BMHs : bmh'[b].exists
      BY <2>1, BmhsExist DEF AllInv
    <3>2. \A s \in Sets : ~osbms'[s].final => Keys(osbms'[s].ref) = {}
      BY <2>1, StoredGone
    <3>3. ~inst'.final => Keys(inst'.ref) = {}
      BY <2>1, LocalGone DEF AllInv
    <3> QED BY <3>1, <3>2, <3>3 DEF GoneInv, Keys
  <2>2. CASE UNCHANGED vars
    BY <2>2 DEF vars, GoneInv, Keys
  <2> QED BY <2>1, <2>2
<1>2. ASSUME AllInv, GoneInv PROVE GoneSetsHoldNothing
  <2> USE <1>2 DEF AllInv, Inv
  <2> SUFFICES ASSUME NEW s \in Sets, osbms[s].phase = "gone" PROVE Consumed(s, bmh) = {}
    BY DEF GoneSetsHoldNothing, InUse
  <2>1. ~osbms[s].final
    BY Zenon DEF StatusInv, SetInv
  <2>2. Keys(osbms[s].ref) = {}
    BY <2>1 DEF GoneInv
  <2>3. CASE worker.set # s
    <3>1. Recorded(s, bmh, osbms[s].ref, osbms[s].st)
      BY <2>3, Zenon DEF StatusInv
    <3> QED BY <2>2, <3>1, NothingRecorded
  <2>4. CASE worker.set = s
    <3>1. LinkInv /\ Recorded(s, bmh, Entries, inst.st)
      BY <2>4, ConstantsAssumption, Zenon DEF StatusInv
    <3>2. worker.pc = "patch" /\ inst.ref = osbms[s].ref
      BY <2>1, <2>4, <3>1, Zenon DEF LinkInv
    <3>3. Keys(Entries) = {}
      BY <2>2, <3>2, EntriesAre
    <3> QED BY <3>1, <3>3, NothingRecorded
  <2> QED BY <2>3, <2>4
<1>3. Spec => []AllInv
  BY StatusInvariant
<1> QED BY <1>1, <1>2, <1>3, GoneInit, PTL DEF Spec

=============================================================================
