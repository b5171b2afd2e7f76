---------------------------- MODULE HostSelection ----------------------------
(***************************************************************************)
(* How a scale-up chooses BareMetalHosts (BMHs) for the new hosts of a set *)
(* (VerifyBaremetalSetScaleUp, which the webhooks and the controller both  *)
(* call): filter the list of BMHs, sort the hosts by the number of BMHs    *)
(* their labels admit, and search by backtracking.  The recursive function *)
(* of the code is unrolled here: one step is one iteration of the loop at  *)
(* some depth of the recursion.                                            *)
(*                                                                         *)
(* A call's arguments are in input.  A BMH is its position in the list.    *)
(* Definitions marked "Variant" are mistakes to try in place of the        *)
(* definition after them.                                                  *)
(***************************************************************************)
EXTENDS Integers, Sequences, FiniteSets, Functions

CONSTANTS
    Nil,        \* absent value
    LabelMaps,  \* label maps: functions on finite sets of keys
    Requests,   \* values of spec.hardwareReqs
    Details,    \* values of status.hardwareDetails
    Inputs      \* the calls: new hosts with their selectors, requests, BMHs

\* A size that is asked for; n = 0 if none is.
Size == [n : Nat, exact : BOOLEAN]

HardwareReqs ==
    [arch : STRING \cup {Nil}, count : Size, mhz : Size, gb : Size, disk : Size,
     ssd : [ssd : BOOLEAN, exact : BOOLEAN]]

HardwareDetails ==
    [arch : STRING, count : Nat, mhz : Nat, ram : Nat,
     disks : Seq([size : Nat, rotational : BOOLEAN])]

\* free stands for the five conditions that do not depend on the request: state
\* Available, no image, not externally provisioned, no customDeploy, no consumer.
BareMetalHosts == [free : BOOLEAN, labels : LabelMaps, details : Details \cup {Nil}]

ASSUME SelectionAssumption ==
    /\ Requests \subseteq HardwareReqs
    /\ Details \subseteq HardwareDetails
    /\ Nil \notin Details
    /\ \A i \in Inputs :
        /\ IsFiniteSet(i.computes)
        /\ i.selector \in [i.computes -> LabelMaps]
        /\ i.reqs \in Requests
        /\ i.list \in Seq(BareMetalHosts)

VARIABLES
    input,
    order,      \* computeArray
    depth,      \* 1 + index of the innermost call of backtrack
    pos,        \* pos[k]: where the loop of the call at depth k is
    assignment, \* assignment[c]: BMH of new host c, or 0
    assigned,   \* assignedBMHs
    result      \* "start", "search", or the outcome "found" or "none"

vars == <<input, order, depth, pos, assignment, assigned, result>>

N == Cardinality(input.computes)
BMHs == 1 .. Len(input.list)

-----------------------------------------------------------------------------
(* Filters. *)

IsMapSubset(m, sub) == \A k \in DOMAIN sub : k \in DOMAIN m /\ m[k] = sub[k]

\* The comparison for CPU count, clock, memory and disk size.
Matches(size, actual) ==
    size.n = 0 \/ actual = size.n \/ (~size.exact /\ actual > size.n)

MiB(size) == [size EXCEPT !.n = @ * 1024]

NoReqs ==
    LET none == [n |-> 0, exact |-> FALSE]
    IN  [arch |-> Nil, count |-> none, mhz |-> none, gb |-> none, disk |-> none,
         ssd |-> [ssd |-> FALSE, exact |-> FALSE]]

\* foundDisk: the first disk of a size that matches.
FirstOf(set) == CHOOSE i \in set : \A j \in set : i <= j

SSDRequested(r) == r.ssd.exact \/ r.ssd.ssd

\* Variant: the kind of disk is looked up among all disks.
DisksMatchApart(r, disks) ==
    /\ r.disk.n # 0 => \E i \in DOMAIN disks : Matches(MiB(r.disk), disks[i].size)
    /\ SSDRequested(r) => \E i \in DOMAIN disks : disks[i].rotational # r.ssd.ssd

DisksMatch(r, disks) ==
    LET sized == {i \in DOMAIN disks : Matches(MiB(r.disk), disks[i].size)}
    IN  IF r.disk.n # 0
        THEN /\ sized # {}
             /\ SSDRequested(r) => disks[FirstOf(sized)].rotational # r.ssd.ssd
        ELSE SSDRequested(r) => \E i \in DOMAIN disks : disks[i].rotational # r.ssd.ssd

\* verifyBaremetalSetHardwareMatch; memory and disks in MiB.
HardwareMatch(r, d) ==
    \/ r = NoReqs
    \/ /\ d # Nil
       /\ r.arch \in {Nil, d.arch}
       /\ Matches(r.count, d.count)
       /\ Matches(r.mhz, d.mhz)
       /\ Matches(MiB(r.gb), d.ram)
       /\ DisksMatch(r, d.disks)

\* availableBaremetalHosts
Available ==
    {b \in BMHs : input.list[b].free /\ HardwareMatch(input.reqs, input.list[b].details)}

\* computesToBmhs
Candidates(c) ==
    {b \in Available : IsMapSubset(input.list[b].labels, input.selector[c])}

-----------------------------------------------------------------------------
(* The search. *)

Init ==
    /\ input \in Inputs
    /\ order = <<>>
    /\ depth = 1
    /\ pos = <<>>
    /\ assignment = [c \in input.computes |-> 0]
    /\ assigned = {}
    /\ result = "start"

\* Any order that sort.Slice may leave: the keys of a map come in random order.
Orders ==
    {o \in Bijection(1 .. N, input.computes) :
        \A i, j \in 1 .. N :
            i < j => Cardinality(Candidates(o[i])) <= Cardinality(Candidates(o[j]))}

\* Too few BMHs: no search.
TooFew ==
    /\ result = "start"
    /\ Cardinality(Available) < N
    /\ result' = "none"
    /\ UNCHANGED <<input, order, depth, pos, assignment, assigned>>

Begin ==
    /\ result = "start"
    /\ Cardinality(Available) >= N
    /\ order' \in Orders
    /\ pos' = [k \in 1 .. N |-> 1]
    /\ result' = "search"
    /\ UNCHANGED <<input, depth, assignment, assigned>>

\* The loop of the innermost call has a BMH left.
Looping == result = "search" /\ depth <= N /\ pos[depth] \in BMHs

Usable(b) == b \in Candidates(order[depth]) /\ b \notin assigned

SkipBmh ==
    /\ Looping
    /\ ~Usable(pos[depth])
    /\ pos' = [pos EXCEPT ![depth] = @ + 1]
    /\ UNCHANGED <<input, order, depth, assignment, assigned, result>>

\* Variant: the BMH is not marked as assigned.
AssignUnmarked ==
    /\ Looping
    /\ Usable(pos[depth])
    /\ assignment' = [assignment EXCEPT ![order[depth]] = pos[depth]]
    /\ depth' = depth + 1
    /\ pos' = [k \in 1 .. N |-> IF k = depth + 1 THEN 1 ELSE pos[k]]
    /\ UNCHANGED <<input, order, assigned, result>>

\* Assign the BMH and recur.
AssignBmh ==
    /\ Looping
    /\ Usable(pos[depth])
    /\ assignment' = [assignment EXCEPT ![order[depth]] = pos[depth]]
    /\ assigned' = assigned \cup {pos[depth]}
    /\ depth' = depth + 1
    /\ pos' = [k \in 1 .. N |-> IF k = depth + 1 THEN 1 ELSE pos[k]]
    /\ UNCHANGED <<input, order, result>>

Exhausted == result = "search" /\ depth <= N /\ pos[depth] \notin BMHs

\* Variant: the mark stays when an assignment did not work.
BacktrackMarked ==
    /\ Exhausted
    /\ depth > 1
    /\ assignment' = [assignment EXCEPT ![order[depth - 1]] = 0]
    /\ depth' = depth - 1
    /\ pos' = [pos EXCEPT ![depth - 1] = @ + 1]
    /\ UNCHANGED <<input, order, assigned, result>>

\* Variant: the caller tries the same BMH again.
BacktrackRetries ==
    /\ Exhausted
    /\ depth > 1
    /\ assignment' = [assignment EXCEPT ![order[depth - 1]] = 0]
    /\ assigned' = assigned \ {pos[depth - 1]}
    /\ depth' = depth - 1
    /\ UNCHANGED <<input, order, pos, result>>

\* The innermost call returns false, and its caller undoes its assignment and
\* goes on.
Backtrack ==
    /\ Exhausted
    /\ depth > 1
    /\ assignment' = [assignment EXCEPT ![order[depth - 1]] = 0]
    /\ assigned' = assigned \ {pos[depth - 1]}
    /\ depth' = depth - 1
    /\ pos' = [pos EXCEPT ![depth - 1] = @ + 1]
    /\ UNCHANGED <<input, order, result>>

GiveUp ==
    /\ Exhausted
    /\ depth = 1
    /\ result' = "none"
    /\ UNCHANGED <<input, order, depth, pos, assignment, assigned>>

AllAssigned ==
    /\ result = "search"
    /\ depth = N + 1
    /\ result' = "found"
    /\ UNCHANGED <<input, order, depth, pos, assignment, assigned>>

Next == TooFew \/ Begin \/ SkipBmh \/ AssignBmh \/ Backtrack \/ GiveUp \/ AllAssigned

\* The search is sequential code: it goes on until it returns.
Spec == Init /\ [][Next]_vars /\ WF_vars(Next)

-----------------------------------------------------------------------------
(* Properties. *)

\* Every variable keeps its type, and a search has an order and positions.
TypeOK ==
    /\ input \in Inputs
    /\ depth \in 1 .. N + 1
    /\ assignment \in [input.computes -> BMHs \cup {0}]
    /\ assigned \subseteq BMHs
    /\ result \in {"start", "search", "found", "none"}
    /\ result = "start" => depth = 1 /\ assigned = {}
    /\ result = "search" =>
        order \in Orders /\ pos \in [1 .. N -> 1 .. Len(input.list) + 1]

\* What the CRD says of a request: each size is reached, or met where ExactMatch
\* is set, and one disk has both the size and the kind asked for.
Satisfies(r, d) ==
    LET Reached(size, actual) == actual >= size.n /\ (size.exact /\ size.n # 0 => actual = size.n)
    IN  /\ r.arch # Nil => r.arch = d.arch
        /\ Reached(r.count, d.count) /\ Reached(r.mhz, d.mhz) /\ Reached(MiB(r.gb), d.ram)
        /\ r.disk.n # 0 \/ SSDRequested(r) =>
            \E i \in DOMAIN d.disks :
                /\ Reached(MiB(r.disk), d.disks[i].size)
                /\ SSDRequested(r) => d.disks[i].rotational = ~r.ssd.ssd

\* The outcome "found" gives every new host a BMH of its own that is free, has
\* the labels of the host's selector and the hardware of the request.
SelectionSound ==
    result = "found" =>
        /\ \A c \in input.computes :
            /\ assignment[c] \in BMHs
            /\ input.list[assignment[c]].free
            /\ IsMapSubset(input.list[assignment[c]].labels, input.selector[c])
            /\ input.reqs # NoReqs => Satisfies(input.reqs, input.list[assignment[c]].details)
        /\ \A c, d \in input.computes : assignment[c] = assignment[d] => c = d

Solutions ==
    {a \in [input.computes -> BMHs] :
        /\ \A c \in input.computes : a[c] \in Candidates(c)
        /\ \A c, d \in input.computes : a[c] = a[d] => c = d}

\* The outcome "none" is right: no choice of BMHs would have served all new
\* hosts ("We want to make compute-to-BMH selections that allow all computes to
\* find a BMH").
SelectionComplete == result = "none" => Solutions = {}

\* The search comes to an end.
SelectionEnds == <>(result \in {"found", "none"})

\* The marks are those of the current partial assignment, and no solution lies
\* in the part of the search tree that was left: one that agrees with the calls
\* above depth k is at or after the position of the loop at depth k.
SearchInv ==
    result = "search" =>
        /\ \A k \in 1 .. depth - 1 :
            /\ pos[k] \in Candidates(order[k])
            /\ assignment[order[k]] = pos[k]
            /\ \A j \in 1 .. depth - 1 : pos[j] = pos[k] => j = k
        /\ assigned = {pos[k] : k \in 1 .. depth - 1}
        /\ \A a \in Solutions, k \in 1 .. N :
            k <= depth /\ (\A j \in 1 .. k - 1 : a[order[j]] = pos[j]) => pos[k] <= a[order[k]]

=============================================================================
