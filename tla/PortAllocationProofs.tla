------------------------ MODULE PortAllocationProofs ------------------------
(* Proofs about PortAllocation, for any servers and any range of ports. *)
EXTENDS PortAllocation, TLAPS

LOCAL INSTANCE WellFoundedInduction

PortTypes == TypeOK /\ ValidatedOK

\* A set of numbers that is not empty has a least element.
LEMMA LeastNat ==
    ASSUME NEW T \in SUBSET Nat, T # {}
    PROVE  \E c \in T : \A d \in T : c <= d
<1> DEFINE R == OpToRel(<, Nat)
<1>1. IsWellFoundedOn(R, Nat) BY NatLessThanWellFounded
<1>2. \A x, y \in Nat : y < x => <<y, x>> \in R BY DEF OpToRel
<1> HIDE DEF R
<1>3. PICK x \in T : \A y \in T : ~ (<<y, x>> \in R) BY <1>1, WFMin
<1>4. \A y \in T : ~ (y < x) BY <1>2, <1>3, Zenon
<1>5. \A y \in T : x <= y BY <1>4
<1> QED BY <1>5

\* AssignProvisionServerPort returns an error or a port of the range that is the
\* server's own or that no server has.
LEMMA AssignType ==
    ASSUME NEW p \in Servers, NEW ports \in [Servers -> Ports \cup {0}]
    PROVE  LET c == AssignProvisionServerPort(p, ports)
           IN  \/ c = 0
               \/ /\ c \in PortStart .. PortEnd
                  /\ ports[p] = c \/ \A q \in Servers : ports[q] # c
<1> DEFINE first == IF ports[p] = 0 THEN PortStart ELSE ports[p]
           usable == {c \in first .. PortEnd :
                        ports[p] = c \/ \A q \in Servers : ports[q] # c}
           least == CHOOSE c \in usable : \A d \in usable : c <= d
<1>1. AssignProvisionServerPort(p, ports) = IF usable = {} THEN 0 ELSE least
  BY DEF AssignProvisionServerPort
<1>2. first \in Nat /\ PortStart <= first BY PortsAssumption DEF Ports
<1>3. usable \in SUBSET Nat BY <1>2, PortsAssumption
<1>4. ASSUME usable # {} PROVE least \in usable
  <2> HIDE DEF usable
  <2> QED BY <1>3, <1>4, LeastNat
<1>5. \A c \in usable : /\ c \in PortStart .. PortEnd
                        /\ ports[p] = c \/ \A q \in Servers : ports[q] # c
  BY <1>2, PortsAssumption
<1> HIDE DEF usable, least
<1> QED BY <1>1, <1>4, <1>5

\* A server with a port keeps it, or gets an error if it lies beyond the range.
LEMMA AssignKeeps ==
    ASSUME NEW p \in Servers, NEW ports \in [Servers -> Ports \cup {0}], ports[p] # 0
    PROVE  AssignProvisionServerPort(p, ports) \in {0, ports[p]}
<1> DEFINE usable == {c \in ports[p] .. PortEnd :
                        ports[p] = c \/ \A q \in Servers : ports[q] # c}
<1>0. ports[p] \in Nat BY PortsAssumption DEF Ports
<1>1. AssignProvisionServerPort(p, ports) =
        IF usable = {} THEN 0 ELSE CHOOSE c \in usable : \A d \in usable : c <= d
  BY DEF AssignProvisionServerPort
<1>2. CASE ports[p] > PortEnd
  <2>1. usable = {} BY <1>0, <1>2, PortsAssumption
  <2> QED BY <1>1, <2>1
<1>3. CASE ports[p] <= PortEnd
  <2>1. ports[p] \in usable BY <1>0, <1>3, PortsAssumption
  <2>2. \A d \in usable : ports[p] <= d BY <1>0, PortsAssumption
  <2>3. \A c \in usable : (\A d \in usable : c <= d) => c = ports[p]
    BY <1>0, <2>1, <2>2, PortsAssumption
  <2> HIDE DEF usable
  <2>4. (CHOOSE c \in usable : \A d \in usable : c <= d) = ports[p]
    BY <2>1, <2>2, <2>3
  <2> QED BY <1>1, <2>1, <2>4
<1> QED BY <1>0, <1>2, <1>3, PortsAssumption

\* Making a request keeps the types.
LEMMA SubmitType ==
    ASSUME PortTypes, NEW p \in Servers, NEW by, NEW new \in BOOLEAN, NEW c,
           Submit(p, by, new, c),
           \/ by \in {"ask", "set", "hold", "final"} /\ c \in Ports
           \/ by = "default" /\ c \in (PortStart .. PortEnd) \cup {0}
    PROVE  PortTypes'
BY DEF PortTypes, TypeOK, ValidatedOK, Submit, Request

\* At first there are neither servers nor requests.
LEMMA PortInit == Init => PortTypes /\ ApartInv /\ KeepInv
BY DEF Init, PortTypes, TypeOK, ValidatedOK, ApartInv, KeepInv, UniquePorts, NoRequest, Request

\* A write to the API server keeps the cache one.
LEMMA CachedType ==
    ASSUME PortTypes, Cached, port' \in [Servers -> Ports \cup {0}]
    PROVE  cache' \in [Servers -> Ports \cup {0}]
BY DEF Cached, PortTypes, TypeOK

\* Every step keeps the types.
LEMMA PortTypesNext == PortTypes /\ [Next]_vars => PortTypes'
<1> SUFFICES ASSUME PortTypes, [Next]_vars PROVE PortTypes' OBVIOUS
<1>1. CASE UNCHANGED vars
  BY <1>1 DEF vars, PortTypes, TypeOK, ValidatedOK
<1>2. ASSUME NEW p \in Servers, UserAsks(p) PROVE PortTypes'
  <2>1. PICK c \in Ports : Submit(p, "ask", port[p] = 0, c) BY <1>2 DEF UserAsks
  <2>2. (port[p] = 0) \in BOOLEAN OBVIOUS
  <2> QED BY <2>1, <2>2, SubmitType
<1>3. ASSUME NEW p \in Servers, Default(p) PROVE PortTypes'
  <2>1. AssignProvisionServerPort(p, cache) \in (PortStart .. PortEnd) \cup {0}
    BY AssignType DEF PortTypes, TypeOK
  <2>2. (port[p] = 0) \in BOOLEAN OBVIOUS
  <2> QED BY <1>3, <2>1, <2>2, SubmitType DEF Default
<1>4. ASSUME NEW p \in Servers, SetSubmits(p) PROVE PortTypes'
  <2> DEFINE c == AssignProvisionServerPort(p, cache)
             value == IF c = cache[p] THEN port[p] ELSE c
  <2>1. c \in Ports BY <1>4, AssignType, PortsAssumption DEF SetSubmits, PortTypes, TypeOK, Ports
  <2>2. CASE Submit(p, "set", TRUE, c) BY <2>1, <2>2, SubmitType
  <2>3. CASE port[p] # 0 /\ Submit(p, "set", FALSE, value)
    <3>1. value \in Ports BY <2>1, <2>3 DEF PortTypes, TypeOK
    <3> HIDE DEF value
    <3> QED BY <2>3, <3>1, SubmitType
  <2> QED BY <1>4, <2>2, <2>3 DEF SetSubmits
<1>5. ASSUME NEW p \in Servers, FinalizerSubmits(p) PROVE PortTypes'
  <2>1. port[p] \in Ports BY <1>5 DEF FinalizerSubmits, PortTypes, TypeOK
  <2> QED BY <1>5, <2>1, SubmitType DEF FinalizerSubmits
<1>6. ASSUME NEW p \in Servers, Refuse(p) PROVE PortTypes'
  BY <1>6 DEF Refuse, PortTypes, TypeOK, ValidatedOK, NoRequest, Request
<1>7. ASSUME NEW p \in Servers, Admit(p) PROVE PortTypes'
  BY <1>7 DEF Admit, Refuses, PortTypes, TypeOK, ValidatedOK, Request
<1>8. ASSUME NEW p \in Servers, Store(p) PROVE PortTypes'
  <2>1. req[p].port \in Ports BY <1>8, PortsAssumption
    DEF Store, PortTypes, TypeOK, ValidatedOK, Request, Ports
  <2>2. port' \in [Servers -> Ports \cup {0}] BY <1>8, <2>1 DEF Store, PortTypes, TypeOK
  <2>3. cache' \in [Servers -> Ports \cup {0}] BY <1>8, <2>2, CachedType DEF Store
  <2>4. \A q \in Servers : q # p => port'[q] = port[q] BY <1>8 DEF Store, PortTypes, TypeOK
  <2>5. req[p].by # "final" => port'[p] # 0
    BY <1>8, <2>1, PortsAssumption DEF Store, Ports, PortTypes, TypeOK
  <2>6. held' \subseteq {q \in Servers : port'[q] # 0}
    BY <1>8, <2>4, <2>5 DEF Store, PortTypes, TypeOK
  <2>7. deleting' \subseteq held' BY <1>8 DEF Store, PortTypes, TypeOK
  <2>8. req' \in [Servers -> Request] /\ ValidatedOK'
    BY <1>8 DEF Store, PortTypes, TypeOK, ValidatedOK, NoRequest, Request
  <2> QED BY <2>2, <2>3, <2>6, <2>7, <2>8 DEF PortTypes, TypeOK
<1>9. ASSUME NEW p \in Servers, StoreFails(p) PROVE PortTypes'
  BY <1>9 DEF StoreFails, PortTypes, TypeOK, ValidatedOK, NoRequest, Request
<1>10. ASSUME NEW p \in Servers, DeleteServer(p) PROVE PortTypes'
  <2>1. port' \in [Servers -> Ports \cup {0}] BY <1>10 DEF DeleteServer, PortTypes, TypeOK
  <2>2. cache' \in [Servers -> Ports \cup {0}] BY <1>10, <2>1, CachedType DEF DeleteServer
  <2> QED BY <1>10, <2>1, <2>2 DEF DeleteServer, PortTypes, TypeOK, ValidatedOK
<1>11. ASSUME NEW p \in Servers, SyncServer(p) PROVE PortTypes'
  BY <1>11 DEF SyncServer, PortTypes, TypeOK, ValidatedOK
<1> QED BY <1>1, <1>2, <1>3, <1>4, <1>5, <1>6, <1>7, <1>8, <1>9, <1>10, <1>11
    DEF Next, Handle

\* Types hold always, also when reads are stale: the ports that webhooks and set
\* controller assign stay in the operator's range.
THEOREM PortTypeCorrect == Spec => []TypeOK
<1>1. PortTypes => TypeOK BY DEF PortTypes
<1> QED BY PortInit, PortTypesNext, <1>1, PTL DEF Spec

-----------------------------------------------------------------------------

\* As long as there is no race every step keeps ports apart: what the validating
\* webhook has checked still holds when the API server stores the request.
LEMMA ApartInvNext == PortTypes /\ ApartInv /\ ~Race /\ [Next]_vars => ApartInv'
<1> SUFFICES ASSUME PortTypes, ApartInv, ~Race, [Next]_vars PROVE ApartInv' OBVIOUS
<1> USE DEF PortTypes, TypeOK
<1>1. CASE UNCHANGED vars
  BY <1>1 DEF vars, ApartInv, UniquePorts
<1>2. ASSUME NEW p \in Servers, NEW by, NEW new, NEW c, Submit(p, by, new, c)
      PROVE  ApartInv'
  BY <1>2 DEF Submit, ApartInv, UniquePorts
<1>3. ASSUME NEW p \in Servers,
             UserAsks(p) \/ Default(p) \/ SetSubmits(p) \/ FinalizerSubmits(p)
      PROVE  ApartInv'
  BY <1>2, <1>3 DEF UserAsks, Default, SetSubmits, FinalizerSubmits
<1>4. ASSUME NEW p \in Servers, Refuse(p) \/ StoreFails(p) PROVE ApartInv'
  BY <1>4 DEF Refuse, StoreFails, NoRequest, ApartInv, UniquePorts
<1>5. ASSUME NEW p \in Servers, Admit(p) PROVE ApartInv'
  <2>1. \A q \in Servers : q # p => port[q] # req[p].port
    BY <1>5 DEF Admit, Refuses, Race
  <2>2. /\ port' = port /\ req'[p].port = req[p].port
        /\ \A q \in Servers : q # p => req'[q] = req[q]
    BY <1>5 DEF Admit, Request
  <2> QED BY <2>1, <2>2 DEF ApartInv, UniquePorts
<1>6. ASSUME NEW p \in Servers, Store(p) PROVE ApartInv'
  <2>1. \A q \in Servers : q # p => port'[q] = port[q] /\ req'[q] = req[q]
    BY <1>6 DEF Store
  <2>2. req'[p].pc = "none" BY <1>6 DEF Store, NoRequest
  <2>3. port'[p] \in {0, req[p].port} BY <1>6 DEF Store
  <2>4. \A q \in Servers : q # p => port[q] # req[p].port BY <1>6 DEF Store, ApartInv
  <2>5. UniquePorts' BY <2>1, <2>3, <2>4 DEF ApartInv, UniquePorts
  <2>6. ASSUME NEW q \in Servers, q # p, req[q].pc = "validated"
        PROVE  port'[p] # req[q].port
    <3>1. req[q].port # req[p].port BY <1>6, <2>6 DEF Store, Race
    <3>2. req[q].port # 0 BY <2>6 DEF ValidatedOK
    <3> QED BY <2>3, <3>1, <3>2
  <2> QED BY <2>1, <2>2, <2>5, <2>6 DEF ApartInv
<1>7. ASSUME NEW p \in Servers, DeleteServer(p) PROVE ApartInv'
  BY <1>7 DEF DeleteServer, ValidatedOK, ApartInv, UniquePorts
<1>8. ASSUME NEW p \in Servers, SyncServer(p) PROVE ApartInv'
  BY <1>8 DEF SyncServer, ApartInv, UniquePorts
<1> QED BY <1>1, <1>3, <1>4, <1>5, <1>6, <1>7, <1>8 DEF Next, Handle

\* Two provision servers get the same port only by a race: two requests for one
\* port are past the validating webhook at the same time, or one is looked at
\* while the cache lacks the server that has the port.
THEOREM PortsClashByRaces == Spec => ClashesAreRaces
<1>1. ApartInv => UniquePorts BY DEF ApartInv
<1> QED BY PortInit, PortTypesNext, ApartInvNext, <1>1, PTL DEF Spec, ClashesAreRaces

-----------------------------------------------------------------------------

\* What KeepInv says of one server.
Keeps(p) ==
    req[p].pc # "none" /\ ~req[p].new /\ port[p] # 0 =>
        \/ req[p].by = "ask"
        \/ req[p].by = "default" /\ (Stale \/ req[p].port \in {0, port[p]})
        \/ req[p].by \notin {"ask", "default"} /\ req[p].port = port[p]

\* Every step keeps what requests say about ports that exist.
LEMMA KeepInvNext == PortTypes /\ KeepInv /\ [Next]_vars => KeepInv'
<1> SUFFICES ASSUME PortTypes, KeepInv, [Next]_vars PROVE KeepInv' OBVIOUS
<1> USE DEF PortTypes, TypeOK
<1>0. KeepInv <=> (Stale \/ cache = port) /\ \A q \in Servers : Keeps(q)
  BY DEF KeepInv, Keeps
<1>00. KeepInv' <=> (Stale \/ cache' = port') /\ \A q \in Servers : Keeps(q)'
  BY DEF KeepInv, Keeps
<1>1. CASE UNCHANGED vars
  BY <1>1 DEF vars, KeepInv
<1>2. ASSUME NEW p \in Servers, NEW by, NEW new, NEW c, Submit(p, by, new, c),
             ~new /\ port[p] # 0 =>
                 \/ by = "ask"
                 \/ by = "default" /\ (Stale \/ c \in {0, port[p]})
                 \/ by \notin {"ask", "default"} /\ c = port[p]
      PROVE  KeepInv'
  <2>1. \A q \in Servers : q # p => req'[q] = req[q] BY <1>2 DEF Submit
  <2>2. req'[p] = [pc |-> "mutated", by |-> by, new |-> new, port |-> c]
    BY <1>2 DEF Submit
  <2>3. port' = port /\ cache' = cache BY <1>2 DEF Submit
  <2>4. Keeps(p)' BY <1>2, <2>2, <2>3 DEF Keeps
  <2>5. \A q \in Servers : q # p => Keeps(q)' BY <1>0, <2>1, <2>3 DEF Keeps
  <2> QED BY <1>0, <1>00, <2>3, <2>4, <2>5
<1>3. ASSUME NEW p \in Servers, UserAsks(p) PROVE KeepInv'
  BY <1>2, <1>3 DEF UserAsks
<1>4. ASSUME NEW p \in Servers, Default(p) PROVE KeepInv'
  <2>1. ASSUME ~Stale, port[p] # 0
        PROVE  AssignProvisionServerPort(p, cache) \in {0, port[p]}
    BY <1>0, <2>1, AssignKeeps
  <2> QED BY <1>2, <1>4, <2>1 DEF Default
<1>5. ASSUME NEW p \in Servers, SetSubmits(p) PROVE KeepInv'
  <2> DEFINE c == AssignProvisionServerPort(p, cache)
             value == IF c = cache[p] THEN port[p] ELSE c
  <2>1. CASE Submit(p, "set", TRUE, c) BY <1>2, <2>1
  <2>2. CASE cache[p] # 0 /\ c # 0 /\ Submit(p, "set", FALSE, value)
    <3>1. c = cache[p] BY <2>2, AssignKeeps
    <3>2. value = port[p] BY <3>1
    <3> HIDE DEF value
    <3> QED BY <1>2, <2>2, <3>2
  <2> QED BY <1>5, <2>1, <2>2 DEF SetSubmits
<1>6. ASSUME NEW p \in Servers, FinalizerSubmits(p) PROVE KeepInv'
  BY <1>2, <1>6 DEF FinalizerSubmits
<1>7. ASSUME NEW p \in Servers, Refuse(p) \/ Admit(p) \/ StoreFails(p) PROVE KeepInv'
  <2>1. \A q \in Servers : q # p => req'[q] = req[q]
    BY <1>7 DEF Refuse, Admit, StoreFails
  <2>2. \/ req'[p] = NoRequest
        \/ req[p].pc = "mutated" /\ req'[p] = [req[p] EXCEPT !.pc = "validated"]
    BY <1>7 DEF Refuse, Admit, StoreFails
  <2>3. port' = port /\ cache' = cache BY <1>7 DEF Refuse, Admit, StoreFails
  <2>4. Keeps(p)' BY <1>0, <2>2, <2>3 DEF Keeps, NoRequest, Request
  <2>5. \A q \in Servers : q # p => Keeps(q)' BY <1>0, <2>1, <2>3 DEF Keeps
  <2> QED BY <1>0, <1>00, <2>3, <2>4, <2>5
<1>8. ASSUME NEW p \in Servers, Store(p) PROVE KeepInv'
  <2>1. \A q \in Servers : q # p => req'[q] = req[q] /\ port'[q] = port[q]
    BY <1>8 DEF Store
  <2>2. req'[p].pc = "none" BY <1>8 DEF Store, NoRequest
  <2>3. Stale \/ cache' = port' BY <1>8 DEF Store, Cached
  <2>4. \A q \in Servers : q # p => Keeps(q)' BY <1>0, <2>1 DEF Keeps
  <2> QED BY <1>00, <2>2, <2>3, <2>4 DEF Keeps
<1>9. ASSUME NEW p \in Servers, DeleteServer(p) PROVE KeepInv'
  <2>1. req' = req /\ \A q \in Servers : port'[q] \in {0, port[q]}
    BY <1>9 DEF DeleteServer
  <2>2. Stale \/ cache' = port' BY <1>9 DEF DeleteServer, Cached
  <2>3. \A q \in Servers : Keeps(q)' BY <1>0, <2>1 DEF Keeps
  <2> QED BY <1>00, <2>2, <2>3
<1>10. ASSUME NEW p \in Servers, SyncServer(p) PROVE KeepInv'
  BY <1>10 DEF SyncServer, KeepInv
<1> QED BY <1>1, <1>3, <1>4, <1>5, <1>6, <1>7, <1>8, <1>9, <1>10 DEF Next, Handle

\* A server's port changes only when a user asks for another one, whatever
\* requests overlap.  However old the cache is, the set controller never moves a
\* server; only the defaulting of a user's update depends on it.
THEOREM PortsKept == Spec => PortKept
<1> DEFINE Moves == \A p \in Servers :
                      port[p] # 0 /\ port'[p] \notin {0, port[p]}
                          => req[p].by = "ask" \/ (Stale /\ req[p].by = "default")
<1>1. PortTypes /\ KeepInv /\ [Next]_vars => [Moves]_vars
  <2> SUFFICES ASSUME PortTypes, KeepInv, Next, NEW p \in Servers,
                      port[p] # 0, port'[p] \notin {0, port[p]}
               PROVE  req[p].by = "ask" \/ (Stale /\ req[p].by = "default")
    OBVIOUS
  <2>1. PICK q \in Servers : Store(q) \/ DeleteServer(q)
    BY DEF Next, UserAsks, Default, SetSubmits, FinalizerSubmits, Submit, Handle,
       Refuse, Admit, StoreFails, SyncServer
  <2>2. Store(p)
    BY <2>1 DEF Store, DeleteServer, PortTypes, TypeOK
  <2>3. /\ req[p].pc = "validated" /\ ~req[p].new
        /\ req[p].port \notin {0, port[p]}
    BY <2>2 DEF Store, PortTypes, TypeOK
  <2> QED BY <2>3 DEF KeepInv
<1> QED BY PortInit, PortTypesNext, KeepInvNext, <1>1, PTL DEF Spec, PortKept

=============================================================================
