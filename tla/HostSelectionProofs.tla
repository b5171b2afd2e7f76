------------------------- MODULE HostSelectionProofs -------------------------
(* Proofs about HostSelection, for any hosts, labels, hardware and BMHs. *)
EXTENDS HostSelection, FiniteSetTheorems, TLAPS


\* What a search that found an assignment leaves behind.
Assigned ==
    /\ \A c \in input.computes : assignment[c] \in Candidates(c)
    /\ \A c, d \in input.computes : assignment[c] = assignment[d] => c = d

IInv ==
    /\ TypeOK
    /\ SearchInv
    /\ result = "found" => Assigned
    /\ SelectionComplete

-----------------------------------------------------------------------------

LEMMA InputFacts ==
    ASSUME input \in Inputs
    PROVE  /\ IsFiniteSet(input.computes) /\ N \in Nat
           /\ input.reqs \in Requests
           /\ Len(input.list) \in Nat
           /\ \A b \in BMHs : input.list[b] \in BareMetalHosts
           /\ IsFiniteSet(BMHs) /\ IsFiniteSet(Available)
           /\ Available \subseteq BMHs
           /\ \A c : Candidates(c) \subseteq Available
<1>1. IsFiniteSet(input.computes) /\ input.reqs \in Requests /\ input.list \in Seq(BareMetalHosts)
  BY SelectionAssumption
<1>2. N \in Nat BY <1>1, FS_CardinalityType DEF N
<1>3. Len(input.list) \in Nat /\ \A b \in BMHs : input.list[b] \in BareMetalHosts
  BY <1>1 DEF BMHs
<1>4. IsFiniteSet(BMHs) BY <1>3, FS_Interval DEF BMHs
<1>5. Available \subseteq BMHs BY DEF Available
<1>6. IsFiniteSet(Available) BY <1>4, <1>5, FS_Subset
<1>7. \A c : Candidates(c) \subseteq Available BY DEF Candidates
<1> QED BY <1>1, <1>2, <1>3, <1>4, <1>5, <1>6, <1>7

\* The arguments of the call do not change.
LEMMA SameInput ==
    ASSUME input' = input
    PROVE  /\ N' = N /\ BMHs' = BMHs /\ Available' = Available /\ Orders' = Orders
           /\ Solutions' = Solutions
           /\ \A c : Candidates(c)' = Candidates(c)
BY DEF N, BMHs, Available, Orders, Solutions, Candidates

\* An order lists every new host once.
LEMMA OrderFacts ==
    ASSUME NEW o \in Orders
    PROVE  /\ o \in [1 .. N -> input.computes]
           /\ \A i, j \in 1 .. N : o[i] = o[j] => i = j
           /\ \A c \in input.computes : \E i \in 1 .. N : o[i] = c
BY DEF Orders, Bijection, Injection, Surjection, IsInjective

\* A set of numbers that is not empty has a least element, FirstOf.
LEMMA FirstOfMember ==
    ASSUME NEW T \in SUBSET Nat, T # {}
    PROVE  FirstOf(T) \in T
<1> DEFINE R == OpToRel(<, Nat)
<1>1. IsWellFoundedOn(R, Nat) BY NatLessThanWellFounded
<1>2. \A x, y \in Nat : y < x => <<y, x>> \in R BY DEF OpToRel
<1> HIDE DEF R
<1>3. PICK x \in T : \A y \in T : ~ (<<y, x>> \in R) BY <1>1, WFMin
<1>4. \A y \in T : ~ (y < x) BY <1>2, <1>3, Zenon
<1>5. \A y \in T : x <= y BY <1>4
<1> QED BY <1>5 DEF FirstOf

LEMMA Elements ==
    ASSUME NEW S, NEW q \in Seq(S)
    PROVE  DOMAIN q \subseteq Nat /\ \A i \in DOMAIN q : q[i] \in S
OBVIOUS

\* A BMH that passes the hardware filter satisfies the request.
LEMMA MatchSatisfies ==
    ASSUME NEW r \in HardwareReqs, NEW d \in HardwareDetails \cup {Nil},
           r # NoReqs, HardwareMatch(r, d)
    PROVE  Satisfies(r, d)
<1> DEFINE Reached(size, actual) == actual >= size.n /\ (size.exact /\ size.n # 0 => actual = size.n)
           sized == {i \in DOMAIN d.disks : Matches(MiB(r.disk), d.disks[i].size)}
<1>1. /\ d # Nil /\ r.arch \in {Nil, d.arch}
      /\ Matches(r.count, d.count) /\ Matches(r.mhz, d.mhz) /\ Matches(MiB(r.gb), d.ram)
      /\ DisksMatch(r, d.disks)
  BY DEF HardwareMatch
<1>2. d \in HardwareDetails BY <1>1
<1>3. /\ r.count \in Size /\ r.mhz \in Size /\ r.gb \in Size /\ r.disk \in Size
      /\ r.ssd.ssd \in BOOLEAN
  BY DEF HardwareReqs
<1>4. /\ d.count \in Nat /\ d.mhz \in Nat /\ d.ram \in Nat
      /\ d.disks \in Seq([size : Nat, rotational : BOOLEAN])
  BY <1>2 DEF HardwareDetails
<1>5. ASSUME NEW size \in Size PROVE MiB(size) \in Size /\ (MiB(size).n = 0 <=> size.n = 0)
  <2>1. size.n \in Nat /\ size.exact \in BOOLEAN /\ size.n * 1024 \in Nat BY DEF Size
  <2>2. MiB(size) = [n |-> size.n * 1024, exact |-> size.exact] BY DEF MiB, Size
  <2>3. MiB(size) \in Size BY <2>1, <2>2 DEF Size
  <2>4. MiB(size).n = 0 <=> size.n = 0 BY <2>1, <2>2
  <2> QED BY <2>3, <2>4
<1>6. ASSUME NEW size \in Size, NEW actual \in Nat, Matches(size, actual)
      PROVE  Reached(size, actual)
  BY <1>6 DEF Matches, Size
<1>7. Reached(r.count, d.count) /\ Reached(r.mhz, d.mhz) /\ Reached(MiB(r.gb), d.ram)
  <2> HIDE DEF Reached
  <2> QED BY <1>1, <1>3, <1>4, <1>5, <1>6
<1>8. \A i \in DOMAIN d.disks : d.disks[i].size \in Nat /\ d.disks[i].rotational \in BOOLEAN
  <2>1. \A i \in DOMAIN d.disks : d.disks[i] \in [size : Nat, rotational : BOOLEAN]
    BY <1>4, Elements
  <2> QED BY <2>1
<1>9. ASSUME r.disk.n # 0 \/ SSDRequested(r)
      PROVE  \E i \in DOMAIN d.disks :
                /\ Reached(MiB(r.disk), d.disks[i].size)
                /\ SSDRequested(r) => d.disks[i].rotational = ~r.ssd.ssd
  <2>1. CASE r.disk.n # 0
    <3>1. sized # {} /\ (SSDRequested(r) => d.disks[FirstOf(sized)].rotational # r.ssd.ssd)
      BY <1>1, <2>1 DEF DisksMatch
    <3>2. sized \in SUBSET Nat BY <1>4
    <3>3. FirstOf(sized) \in sized BY <3>1, <3>2, FirstOfMember
    <3>4. /\ FirstOf(sized) \in DOMAIN d.disks
          /\ Matches(MiB(r.disk), d.disks[FirstOf(sized)].size)
      BY <3>3
    <3> HIDE DEF sized, Reached
    <3>5. Reached(MiB(r.disk), d.disks[FirstOf(sized)].size)
      BY <3>4, <1>3, <1>5, <1>6, <1>8
    <3>6. SSDRequested(r) => d.disks[FirstOf(sized)].rotational = ~r.ssd.ssd
      BY <3>1, <3>4, <1>3, <1>8
    <3> QED BY <3>4, <3>5, <3>6
  <2>2. CASE r.disk.n = 0
    <3>1. SSDRequested(r) BY <1>9, <2>2
    <3>2. PICK i \in DOMAIN d.disks : d.disks[i].rotational # r.ssd.ssd
      BY <1>1, <2>2, <3>1 DEF DisksMatch
    <3>3. d.disks[i].rotational = ~r.ssd.ssd BY <3>2, <1>3, <1>8
    <3>4. MiB(r.disk) \in Size /\ MiB(r.disk).n = 0 BY <1>3, <1>5, <2>2
    <3>5. Reached(MiB(r.disk), d.disks[i].size) BY <3>4, <1>8
    <3> QED BY <3>3, <3>5
  <2> QED BY <2>1, <2>2
<1>10. r.arch # Nil => r.arch = d.arch BY <1>1
<1> QED BY <1>7, <1>9, <1>10 DEF Satisfies

-----------------------------------------------------------------------------
(* The search. *)

\* The types of a search under way.
LEMMA SearchFacts ==
    ASSUME TypeOK, result = "search"
    PROVE  /\ N \in Nat /\ depth \in Nat /\ 1 <= depth /\ depth <= N + 1
           /\ Len(input.list) \in Nat
           /\ order \in [1 .. N -> input.computes]
           /\ \A i, j \in 1 .. N : order[i] = order[j] => i = j
           /\ \A c \in input.computes : \E i \in 1 .. N : order[i] = c
           /\ pos \in [1 .. N -> 1 .. Len(input.list) + 1]
           /\ assignment \in [input.computes -> BMHs \cup {0}]
           /\ assigned \subseteq BMHs
           /\ \A c : Candidates(c) \subseteq BMHs
<1>1. input \in Inputs BY DEF TypeOK
<1>2. N \in Nat /\ Len(input.list) \in Nat /\ \A c : Candidates(c) \subseteq BMHs
  BY <1>1, InputFacts
<1>3. order \in Orders BY DEF TypeOK
<1> QED BY <1>2, <1>3, OrderFacts DEF TypeOK

LEMMA SolutionFacts ==
    ASSUME NEW a \in Solutions
    PROVE  /\ a \in [input.computes -> BMHs]
           /\ \A c \in input.computes : a[c] \in Candidates(c)
           /\ \A c, d \in input.computes : a[c] = a[d] => c = d
BY DEF Solutions

LEMMA InitInv == Init => IInv
<1> SUFFICES ASSUME Init PROVE IInv OBVIOUS
<1>1. input \in Inputs /\ result = "start" /\ depth = 1 /\ assigned = {} BY DEF Init
<1>2. N \in Nat BY <1>1, InputFacts
<1>3. TypeOK BY <1>1, <1>2 DEF Init, TypeOK
<1> QED BY <1>1, <1>3 DEF IInv, SearchInv, SelectionComplete

\* The loop goes on: no solution has the BMH it passes at this depth.
LEMMA SkipInv == IInv /\ SkipBmh => IInv'
<1> SUFFICES ASSUME IInv, SkipBmh PROVE IInv' OBVIOUS
<1> DEFINE d == depth
<1>1. /\ result = "search" /\ result' = "search" /\ input' = input /\ order' = order
      /\ depth' = depth /\ assignment' = assignment /\ assigned' = assigned
      /\ depth <= N /\ pos[d] \in BMHs /\ ~Usable(pos[d]) /\ pos' = [pos EXCEPT ![d] = @ + 1]
  BY DEF SkipBmh, Looping
<1>2. TypeOK /\ SearchInv BY DEF IInv
<1>3. d \in 1 .. N BY <1>1, <1>2, SearchFacts
<1>4. pos' \in [1 .. N -> 1 .. Len(input.list) + 1]
  BY <1>1, <1>2, <1>3, SearchFacts DEF BMHs
<1>5. TypeOK' BY <1>1, <1>2, <1>4, SameInput DEF TypeOK
<1>6. \A k \in 1 .. d - 1 : pos'[k] = pos[k] BY <1>1, <1>2, <1>3, SearchFacts
<1>7. ASSUME NEW a \in Solutions, NEW k \in 1 .. N, k <= d,
             \A j \in 1 .. k - 1 : a[order[j]] = pos'[j]
      PROVE  pos'[k] <= a[order[k]]
  <2>1. \A j \in 1 .. k - 1 : a[order[j]] = pos[j] BY <1>3, <1>6, <1>7
  <2>2. pos[k] <= a[order[k]] BY <1>1, <1>2, <1>7, <2>1 DEF SearchInv
  <2>3. CASE k # d BY <1>1, <1>2, <2>2, <2>3, SearchFacts
  <2>4. CASE k = d
    <3>1. order[d] \in input.computes BY <1>2, <1>1, <1>3, SearchFacts
    <3>2. a[order[d]] \in Candidates(order[d]) /\ a[order[d]] \in BMHs
      BY <3>1, SolutionFacts
    <3>3. a[order[d]] # pos[d]
      <4>1. SUFFICES ASSUME a[order[d]] = pos[d] PROVE FALSE OBVIOUS
      <4>2. pos[d] \in assigned BY <1>1, <3>2, <4>1 DEF Usable
      <4>3. PICK j \in 1 .. d - 1 : pos[d] = pos[j] BY <1>1, <1>2, <4>2 DEF SearchInv
      <4>4. a[order[j]] = a[order[d]] BY <2>1, <2>4, <4>1, <4>3
      <4>5. j \in 1 .. N /\ order[j] \in input.computes
        <5>1. N \in Nat /\ order \in [1 .. N -> input.computes] BY <1>1, <1>2, SearchFacts
        <5>2. j \in 1 .. N BY <1>3, <5>1
        <5> QED BY <5>1, <5>2
      <4>6. order[j] = order[d] BY <3>1, <4>4, <4>5, SolutionFacts
      <4> QED BY <1>1, <1>2, <1>3, <4>5, <4>6, SearchFacts
    <3>4. pos[d] \in Nat /\ a[order[d]] \in Nat BY <1>1, <3>2 DEF BMHs
    <3>5. pos'[d] = pos[d] + 1 BY <1>1, <1>2, <1>3, SearchFacts
    <3> QED BY <2>2, <2>4, <3>3, <3>4, <3>5
  <2> QED BY <2>3, <2>4
<1>8. SearchInv' BY <1>1, <1>2, <1>6, <1>7, SameInput DEF SearchInv
<1> QED BY <1>1, <1>5, <1>8 DEF IInv, SelectionComplete

\* A BMH that is not marked is none of those assigned above.
LEMMA AssignInv == IInv /\ AssignBmh => IInv'
<1> SUFFICES ASSUME IInv, AssignBmh PROVE IInv' OBVIOUS
<1> DEFINE d == depth
           b == pos[depth]
<1>1. /\ result = "search" /\ result' = "search" /\ input' = input /\ order' = order
      /\ depth <= N /\ b \in BMHs /\ Usable(b)
      /\ assignment' = [assignment EXCEPT ![order[d]] = b]
      /\ assigned' = assigned \cup {b}
      /\ depth' = d + 1
      /\ pos' = [k \in 1 .. N |-> IF k = d + 1 THEN 1 ELSE pos[k]]
  BY DEF AssignBmh, Looping
<1>2. TypeOK /\ SearchInv BY DEF IInv
<1>3. /\ N \in Nat /\ Len(input.list) \in Nat /\ d \in 1 .. N
      /\ order \in [1 .. N -> input.computes]
      /\ \A i, j \in 1 .. N : order[i] = order[j] => i = j
      /\ pos \in [1 .. N -> 1 .. Len(input.list) + 1]
      /\ assignment \in [input.computes -> BMHs \cup {0}]
  BY <1>1, <1>2, SearchFacts
<1>4. pos' \in [1 .. N -> 1 .. Len(input.list) + 1]
  <2>1. 1 \in 1 .. Len(input.list) + 1 BY <1>3
  <2> QED BY <1>1, <1>3, <2>1
<1>5. order[d] \in input.computes BY <1>3
<1>6. TypeOK'
  <2>1. depth' \in 1 .. N + 1 BY <1>1, <1>3
  <2>2. assignment' \in [input.computes -> BMHs \cup {0}] BY <1>1, <1>3, <1>5
  <2>3. assigned' \subseteq BMHs BY <1>1, <1>2 DEF TypeOK
  <2> QED BY <1>1, <1>2, <1>4, <2>1, <2>2, <2>3, SameInput DEF TypeOK
<1>7. \A k \in 1 .. d : k \in 1 .. N /\ pos'[k] = pos[k] BY <1>1, <1>3
<1>8. b \in Candidates(order[d]) /\ b \notin assigned BY <1>1 DEF Usable
<1>9. /\ \A k \in 1 .. d - 1 :
            /\ pos[k] \in Candidates(order[k])
            /\ assignment[order[k]] = pos[k]
            /\ \A j \in 1 .. d - 1 : pos[j] = pos[k] => j = k
      /\ assigned = {pos[k] : k \in 1 .. d - 1}
      /\ \A a \in Solutions, k \in 1 .. N :
            k <= d /\ (\A j \in 1 .. k - 1 : a[order[j]] = pos[j]) => pos[k] <= a[order[k]]
  BY <1>1, <1>2 DEF SearchInv
<1>10. \A k \in 1 .. d : k \in 1 .. d - 1 \/ k = d BY <1>3
<1>11. ASSUME NEW k \in 1 .. d PROVE pos'[k] \in Candidates(order[k])
  BY <1>7, <1>8, <1>9, <1>10
<1>12. ASSUME NEW k \in 1 .. d PROVE assignment'[order[k]] = pos'[k]
  <2>1. CASE k = d BY <1>1, <1>3, <1>5, <1>7, <2>1
  <2>2. CASE k \in 1 .. d - 1
    <3>1. k # d /\ k \in 1 .. N BY <1>3, <2>2
    <3>2. order[k] # order[d] /\ order[k] \in input.computes BY <1>3, <3>1
    <3> QED BY <1>1, <1>3, <1>7, <1>9, <2>2, <3>2
  <2> QED BY <1>10, <2>1, <2>2
<1>13. ASSUME NEW j \in 1 .. d, NEW k \in 1 .. d, pos'[j] = pos'[k] PROVE j = k
  <2>1. pos[j] = pos[k] BY <1>7, <1>13
  <2>2. \A i \in 1 .. d - 1 : pos[i] # b BY <1>8, <1>9
  <2> QED BY <1>9, <1>10, <2>1, <2>2
<1>14. assigned' = {pos'[k] : k \in 1 .. d}
  <2>1. d \in 1 .. d /\ \A k \in 1 .. d - 1 : k \in 1 .. d BY <1>3
  <2>2. {pos'[k] : k \in 1 .. d} = {pos[k] : k \in 1 .. d - 1} \cup {b} BY <1>7, <1>10, <2>1
  <2> QED BY <1>1, <1>9, <2>2
<1>15. ASSUME NEW a \in Solutions, NEW k \in 1 .. N, k <= d + 1,
              \A j \in 1 .. k - 1 : a[order[j]] = pos'[j]
       PROVE  pos'[k] <= a[order[k]]
  <2>1. CASE k = d + 1
    <3>1. a[order[k]] \in BMHs BY <1>3, SolutionFacts
    <3>2. pos'[k] = 1 BY <1>1, <2>1
    <3> QED BY <3>1, <3>2, <1>3 DEF BMHs
  <2>2. CASE k <= d
    <3>1. k \in 1 .. d /\ \A j \in 1 .. k - 1 : j \in 1 .. d BY <1>3, <2>2
    <3>2. \A j \in 1 .. k - 1 : a[order[j]] = pos[j] BY <1>7, <1>15, <3>1
    <3> QED BY <1>7, <1>9, <2>2, <3>1, <3>2
  <2> QED BY <1>3, <1>15, <2>1, <2>2
<1>16. depth' - 1 = d BY <1>1, <1>3
<1>17. SearchInv'
  <2>1. \A k \in 1 .. depth' - 1 :
            /\ pos'[k] \in Candidates(order'[k])
            /\ assignment'[order'[k]] = pos'[k]
            /\ \A j \in 1 .. depth' - 1 : pos'[j] = pos'[k] => j = k
    BY <1>1, <1>11, <1>12, <1>13, <1>16
  <2>2. assigned' = {pos'[k] : k \in 1 .. depth' - 1} BY <1>14, <1>16
  <2>3. \A a \in Solutions, k \in 1 .. N :
            k <= depth' /\ (\A j \in 1 .. k - 1 : a[order'[j]] = pos'[j]) => pos'[k] <= a[order'[k]]
    BY <1>1, <1>15
  <2>4. N' = N /\ Solutions' = Solutions /\ \A c : Candidates(c)' = Candidates(c)
    BY <1>1, SameInput
  <2> QED BY <2>1, <2>2, <2>3, <2>4 DEF SearchInv
<1> QED BY <1>1, <1>6, <1>17 DEF IInv, SelectionComplete

\* The call at this depth has been through all BMHs, so that no solution agrees
\* with all the calls above, and their last one may pass its BMH.
LEMMA BacktrackInv == IInv /\ Backtrack => IInv'
<1> SUFFICES ASSUME IInv, Backtrack PROVE IInv' OBVIOUS
<1> DEFINE d == depth
           e == depth - 1
<1>1. /\ result = "search" /\ result' = "search" /\ input' = input /\ order' = order
      /\ d <= N /\ pos[d] \notin BMHs /\ d > 1
      /\ assignment' = [assignment EXCEPT ![order[e]] = 0]
      /\ assigned' = assigned \ {pos[e]}
      /\ depth' = e
      /\ pos' = [pos EXCEPT ![e] = @ + 1]
  BY DEF Backtrack, Exhausted
<1>2. TypeOK /\ SearchInv BY DEF IInv
<1>3. /\ N \in Nat /\ Len(input.list) \in Nat /\ d \in 1 .. N /\ e \in 1 .. N
      /\ order \in [1 .. N -> input.computes]
      /\ \A i, j \in 1 .. N : order[i] = order[j] => i = j
      /\ pos \in [1 .. N -> 1 .. Len(input.list) + 1]
      /\ assignment \in [input.computes -> BMHs \cup {0}]
      /\ \A c : Candidates(c) \subseteq BMHs
  BY <1>1, <1>2, SearchFacts
<1>4. /\ \A k \in 1 .. d - 1 :
            /\ pos[k] \in Candidates(order[k])
            /\ assignment[order[k]] = pos[k]
            /\ \A j \in 1 .. d - 1 : pos[j] = pos[k] => j = k
      /\ assigned = {pos[k] : k \in 1 .. d - 1}
      /\ \A a \in Solutions, k \in 1 .. N :
            k <= d /\ (\A j \in 1 .. k - 1 : a[order[j]] = pos[j]) => pos[k] <= a[order[k]]
  BY <1>1, <1>2 DEF SearchInv
<1>5. e \in 1 .. d - 1 /\ (\A k \in 1 .. e - 1 : k \in 1 .. d - 1 /\ k \in 1 .. N /\ k # e)
  BY <1>1, <1>3
<1>6. \A k \in 1 .. d - 1 : k \in 1 .. e - 1 \/ k = e BY <1>3
<1>7. pos[e] \in BMHs BY <1>3, <1>4, <1>5
<1>8. TypeOK'
  <2>1. depth' \in 1 .. N + 1 BY <1>1, <1>3
  <2>2. assignment' \in [input.computes -> BMHs \cup {0}] BY <1>1, <1>3
  <2>3. pos' \in [1 .. N -> 1 .. Len(input.list) + 1]
    <3>1. pos[e] + 1 \in 1 .. Len(input.list) + 1 BY <1>3, <1>7 DEF BMHs
    <3> QED BY <1>1, <1>3, <3>1
  <2>4. assigned' \subseteq BMHs BY <1>1, <1>2 DEF TypeOK
  <2> QED BY <1>1, <1>2, <2>1, <2>2, <2>3, <2>4, SameInput DEF TypeOK
<1>9. \A k \in 1 .. e - 1 : pos'[k] = pos[k] BY <1>1, <1>3, <1>5
<1>10. \A k \in 1 .. e - 1 : assignment'[order[k]] = assignment[order[k]]
  BY <1>1, <1>3, <1>5
<1>11. \A k \in 1 .. e - 1 :
            /\ pos'[k] \in Candidates(order[k])
            /\ assignment'[order[k]] = pos'[k]
            /\ \A j \in 1 .. e - 1 : pos'[j] = pos'[k] => j = k
  BY <1>4, <1>5, <1>9, <1>10
<1>12. assigned' = {pos'[k] : k \in 1 .. e - 1}
  <2>1. {pos'[k] : k \in 1 .. e - 1} = {pos[k] : k \in 1 .. e - 1} BY <1>9
  <2>2. {pos[k] : k \in 1 .. d - 1} \ {pos[e]} = {pos[k] : k \in 1 .. e - 1}
    BY <1>4, <1>5, <1>6
  <2> QED BY <1>1, <1>4, <2>1, <2>2
<1>13. ASSUME NEW a \in Solutions, NEW k \in 1 .. N, k <= e,
              \A j \in 1 .. k - 1 : a[order[j]] = pos'[j]
       PROVE  pos'[k] <= a[order[k]]
  <2>1. \A j \in 1 .. k - 1 : j \in 1 .. e - 1 BY <1>3, <1>13
  <2>2. \A j \in 1 .. k - 1 : a[order[j]] = pos[j] BY <1>9, <1>13, <2>1
  <2>3. k <= d BY <1>3, <1>13
  <2>4. pos[k] <= a[order[k]] BY <1>4, <2>2, <2>3
  <2>5. CASE k # e
    <3>1. pos'[k] = pos[k] BY <1>1, <1>3, <2>5
    <3> QED BY <2>4, <3>1
  <2>6. CASE k = e
    <3>1. \A c \in 1 .. N : a[order[c]] \in BMHs BY <1>3, SolutionFacts
    <3>2. a[order[e]] # pos[e]
      <4>1. SUFFICES ASSUME a[order[e]] = pos[e] PROVE FALSE OBVIOUS
      <4>2. \A j \in 1 .. d - 1 : a[order[j]] = pos[j] BY <1>6, <2>2, <2>6, <4>1
      <4>3. d \in Nat /\ d <= d BY <1>3
      <4>4. pos[d] <= a[order[d]] BY <1>3, <1>4, <4>2, <4>3
      <4>5. pos[d] \in Nat /\ pos[d] >= 1 BY <1>3
      <4> QED BY <1>1, <1>3, <3>1, <4>4, <4>5 DEF BMHs
    <3>3. pos'[e] = pos[e] + 1 BY <1>1, <1>3
    <3>4. pos[e] \in Nat /\ a[order[e]] \in Nat BY <1>3, <1>7, <3>1 DEF BMHs
    <3> QED BY <2>4, <2>6, <3>2, <3>3, <3>4
  <2> QED BY <2>5, <2>6
<1>14. SearchInv'
  <2>1. N' = N /\ Solutions' = Solutions /\ \A c : Candidates(c)' = Candidates(c)
    BY <1>1, SameInput
  <2>2. \A k \in 1 .. depth' - 1 :
            /\ pos'[k] \in Candidates(order'[k])
            /\ assignment'[order'[k]] = pos'[k]
            /\ \A j \in 1 .. depth' - 1 : pos'[j] = pos'[k] => j = k
    BY <1>1, <1>11
  <2>3. assigned' = {pos'[k] : k \in 1 .. depth' - 1} BY <1>1, <1>12
  <2>4. \A a \in Solutions, k \in 1 .. N :
            k <= depth' /\ (\A j \in 1 .. k - 1 : a[order'[j]] = pos'[j]) => pos'[k] <= a[order'[k]]
    BY <1>1, <1>13
  <2> QED BY <2>1, <2>2, <2>3, <2>4 DEF SearchInv
<1> QED BY <1>1, <1>8, <1>14 DEF IInv, SelectionComplete

\* A solution is an injection of the new hosts into the available BMHs.
LEMMA TooFewInv == IInv /\ TooFew => IInv'
<1> SUFFICES ASSUME IInv, TooFew PROVE IInv' OBVIOUS
<1>1. /\ result = "start" /\ result' = "none" /\ Cardinality(Available) < N
      /\ UNCHANGED <<input, order, depth, pos, assignment, assigned>>
  BY DEF TooFew
<1>2. TypeOK BY DEF IInv
<1>3. TypeOK' BY <1>1, <1>2, SameInput DEF TypeOK
<1>4. Solutions = {}
  <2> SUFFICES ASSUME NEW a \in Solutions PROVE FALSE OBVIOUS
  <2>1. input \in Inputs BY <1>2 DEF TypeOK
  <2>2. IsFiniteSet(input.computes) /\ IsFiniteSet(Available) BY <2>1, InputFacts
  <2>3. \A c \in input.computes : a[c] \in Available BY <2>1, InputFacts, SolutionFacts
  <2>4. a \in [input.computes -> Available] BY <2>3, SolutionFacts
  <2>5. \E c, d \in input.computes : c # d /\ a[c] = a[d]
    BY <1>1, <2>2, <2>4, FS_PigeonHole DEF N
  <2> QED BY <2>5, SolutionFacts
<1> QED BY <1>1, <1>3, <1>4, SameInput DEF IInv, SearchInv, SelectionComplete

LEMMA BeginInv == IInv /\ Begin => IInv'
<1> SUFFICES ASSUME IInv, Begin PROVE IInv' OBVIOUS
<1>1. /\ result = "start" /\ result' = "search" /\ order' \in Orders
      /\ pos' = [k \in 1 .. N |-> 1]
      /\ input' = input /\ depth' = depth /\ assignment' = assignment /\ assigned' = assigned
  BY DEF Begin
<1>2. TypeOK /\ depth = 1 /\ assigned = {} BY <1>1 DEF IInv, TypeOK
<1>3. N \in Nat /\ Len(input.list) \in Nat BY <1>2, InputFacts DEF TypeOK
<1>4. pos' \in [1 .. N -> 1 .. Len(input.list) + 1]
  <2>1. 1 \in 1 .. Len(input.list) + 1 BY <1>3
  <2> QED BY <1>1, <2>1
<1>5. TypeOK' BY <1>1, <1>2, <1>4, SameInput DEF TypeOK
<1>6. 1 .. depth' - 1 = {} BY <1>1, <1>2
<1>7. ASSUME NEW a \in Solutions, NEW k \in 1 .. N PROVE pos'[k] <= a[order'[k]]
  <2>1. order'[k] \in input.computes BY <1>1, OrderFacts
  <2>2. a[order'[k]] \in BMHs BY <2>1, SolutionFacts
  <2> QED BY <1>1, <1>3, <2>2 DEF BMHs
<1>8. SearchInv'
  <2>1. N' = N /\ Solutions' = Solutions BY <1>1, SameInput
  <2>2. assigned' = {pos'[k] : k \in 1 .. depth' - 1} BY <1>1, <1>2, <1>6
  <2> QED BY <1>6, <1>7, <2>1, <2>2 DEF SearchInv
<1> QED BY <1>1, <1>5, <1>8 DEF IInv, SelectionComplete

\* At depth 1 there is no call above to disagree with.
LEMMA GiveUpInv == IInv /\ GiveUp => IInv'
<1> SUFFICES ASSUME IInv, GiveUp PROVE IInv' OBVIOUS
<1>1. /\ result = "search" /\ result' = "none" /\ depth = 1 /\ depth <= N
      /\ pos[depth] \notin BMHs
      /\ UNCHANGED <<input, order, depth, pos, assignment, assigned>>
  BY DEF GiveUp, Exhausted
<1>2. TypeOK /\ SearchInv BY DEF IInv
<1>3. TypeOK' BY <1>1, <1>2, SameInput DEF TypeOK
<1>4. /\ N \in Nat /\ 1 \in 1 .. N /\ Len(input.list) \in Nat
      /\ order[1] \in input.computes /\ pos[1] \in 1 .. Len(input.list) + 1
  <2>1. N \in Nat /\ 1 \in 1 .. N BY <1>1, <1>2, SearchFacts
  <2> QED BY <1>1, <1>2, <2>1, SearchFacts
<1>5. Solutions = {}
  <2> SUFFICES ASSUME NEW a \in Solutions PROVE FALSE OBVIOUS
  <2>1. pos[1] <= a[order[1]]
    <3>1. 1 .. 1 - 1 = {} BY SMT
    <3> QED BY <1>1, <1>2, <1>4, <3>1 DEF SearchInv
  <2>2. a[order[1]] \in BMHs BY <1>4, SolutionFacts
  <2> QED BY <1>1, <1>4, <2>1, <2>2 DEF BMHs
<1> QED BY <1>1, <1>3, <1>5, SameInput DEF IInv, SearchInv, SelectionComplete

LEMMA AllAssignedInv == IInv /\ AllAssigned => IInv'
<1> SUFFICES ASSUME IInv, AllAssigned PROVE IInv' OBVIOUS
<1>1. /\ result = "search" /\ result' = "found" /\ depth = N + 1
      /\ UNCHANGED <<input, order, depth, pos, assignment, assigned>>
  BY DEF AllAssigned
<1>2. TypeOK /\ SearchInv BY DEF IInv
<1>3. TypeOK' BY <1>1, <1>2, SameInput DEF TypeOK
<1>4. N \in Nat /\ \A c \in input.computes : \E i \in 1 .. N : order[i] = c
  BY <1>1, <1>2, SearchFacts
<1>5. depth - 1 = N BY <1>1, <1>4
<1>6. \A k \in 1 .. N : /\ assignment[order[k]] = pos[k] /\ pos[k] \in Candidates(order[k])
                        /\ \A j \in 1 .. N : pos[j] = pos[k] => j = k
  BY <1>1, <1>2, <1>5 DEF SearchInv
<1>7. \A c \in input.computes : assignment[c] \in Candidates(c) BY <1>4, <1>6
<1>8. \A c, d \in input.computes : assignment[c] = assignment[d] => c = d BY <1>4, <1>6
<1>9. Assigned' BY <1>1, <1>7, <1>8, SameInput DEF Assigned
<1> QED BY <1>1, <1>3, <1>9 DEF IInv, SearchInv, SelectionComplete

LEMMA NextInv == IInv /\ [Next]_vars => IInv'
<1>1. ASSUME IInv, UNCHANGED vars PROVE IInv'
  <2>1. /\ input' = input /\ order' = order /\ depth' = depth /\ pos' = pos
        /\ assignment' = assignment /\ assigned' = assigned /\ result' = result
    BY <1>1 DEF vars
  <2>2. TypeOK' BY <1>1, <2>1, SameInput DEF IInv, TypeOK
  <2>3. SearchInv' BY <1>1, <2>1, SameInput DEF IInv, SearchInv
  <2>4. result' = "found" => Assigned' BY <1>1, <2>1, SameInput DEF IInv, Assigned
  <2>5. SelectionComplete' BY <1>1, <2>1, SameInput DEF IInv, SelectionComplete
  <2> QED BY <2>2, <2>3, <2>4, <2>5 DEF IInv
<1> QED BY <1>1, TooFewInv, BeginInv, SkipInv, AssignInv, BacktrackInv, GiveUpInv,
           AllAssignedInv DEF Next

LEMMA Inductive == Spec => []IInv
BY InitInv, NextInv, PTL DEF Spec

-----------------------------------------------------------------------------

\* Whatever the labels and hardware, backtracking over computesToBmhs gives every
\* new host a BMH of its own that is free, that its selector admits and that has
\* the requested hardware.
THEOREM SelectionIsSound == Spec => []SelectionSound
<1>1. IInv => SelectionSound
  <2> SUFFICES ASSUME IInv, result = "found" PROVE SelectionSound BY DEF SelectionSound
  <2>1. input \in Inputs /\ Assigned BY DEF IInv, TypeOK
  <2>2. ASSUME NEW c \in input.computes
        PROVE  /\ assignment[c] \in BMHs
               /\ input.list[assignment[c]].free
               /\ IsMapSubset(input.list[assignment[c]].labels, input.selector[c])
               /\ input.reqs # NoReqs => Satisfies(input.reqs, input.list[assignment[c]].details)
    <3> DEFINE b == assignment[c]
    <3>1. /\ b \in BMHs /\ input.list[b].free
          /\ HardwareMatch(input.reqs, input.list[b].details)
          /\ IsMapSubset(input.list[b].labels, input.selector[c])
      BY <2>1 DEF Assigned, Candidates, Available
    <3>2. input.reqs \in HardwareReqs BY <2>1, InputFacts, SelectionAssumption
    <3>3. input.list[b] \in BareMetalHosts BY <2>1, <3>1, InputFacts
    <3>4. input.list[b].details \in HardwareDetails \cup {Nil}
      BY <3>3, SelectionAssumption DEF BareMetalHosts
    <3> QED BY <3>1, <3>2, <3>4, MatchSatisfies
  <2> QED BY <2>1, <2>2 DEF SelectionSound, Assigned
<1> QED BY <1>1, Inductive, PTL

\* When the search gives up, or is not begun for want of BMHs, no assignment of
\* available BMHs to the new hosts exists: the sorting and the undoing of
\* assignments lose none.
THEOREM SelectionIsComplete == Spec => []SelectionComplete
<1>1. IInv => SelectionComplete BY DEF IInv
<1> QED BY <1>1, Inductive, PTL

\* At every moment of the backtracking assignedBmhs has the BMHs of the partial
\* assignment and no others, and no solution has been passed over.
THEOREM SearchIsExact == Spec => []SearchInv
<1>1. IInv => SearchInv BY DEF IInv
<1> QED BY <1>1, Inductive, PTL

=============================================================================
