--------------------------- MODULE PortAllocation ---------------------------
(***************************************************************************)
(* Ports of OpenStackProvisionServers.  All servers run on host networks,  *)
(* so each should have a port of its own: the defaulting webhook and the   *)
(* set controller choose one, the validating webhook refuses one that      *)
(* another server has.  They look at the manager's cache, and the API      *)
(* server stores a request some time after the webhooks have passed it,    *)
(* while requests about other servers go on.                               *)
(*                                                                         *)
(* port[p] is spec.port of the stored server p, and 0 if there is none.    *)
(* req[p] is the request about p on its way through the API server.        *)
(* Definitions marked "Variant" are mistakes to try in place of the        *)
(* definition after them.                                                  *)
(***************************************************************************)
EXTENDS Naturals

CONSTANTS
    Servers,    \* namespaced names of OpenStackProvisionServers
    Managed,    \* servers that a set controller creates and updates
    PortStart,  \* ProvisionServerPortStart
    PortEnd,    \* ProvisionServerPortEnd
    PortMax,    \* largest port the CRD admits
    Stale       \* the cache may lag behind

ASSUME PortsAssumption ==
    /\ Managed \subseteq Servers
    /\ PortStart \in Nat \ {0} /\ PortEnd \in Nat /\ PortMax \in Nat
    /\ PortStart <= PortEnd /\ PortEnd <= PortMax
    /\ Stale \in BOOLEAN

VARIABLES
    port, cache,    \* ports in the API server and in the manager's cache
    held,           \* servers with the finalizer
    deleting,       \* servers marked for deletion
    req

vars == <<port, cache, held, deleting, req>>

Ports == PortStart .. PortMax

\* A request before ("mutated") and after ("validated") the validating webhook:
\* who makes it, whether it creates the server, and the port it would store.
\* "ask" and "default" are users with and without a port, "set" is the set
\* controller, "hold" and "final" add and remove the finalizer.
Request ==
    [pc : {"mutated", "validated"}, by : {"ask", "set", "hold", "final"},
     new : BOOLEAN, port : Ports]
      \cup
    [pc : {"none", "mutated", "validated"}, by : {"default"},
     new : BOOLEAN, port : (PortStart .. PortEnd) \cup {0}]

NoRequest == [pc |-> "none", by |-> "default", new |-> FALSE, port |-> 0]

Init ==
    /\ port = [p \in Servers |-> 0]
    /\ cache = port
    /\ held = {} /\ deleting = {}
    /\ req = [p \in Servers |-> NoRequest]

\* A cache that does not lag follows every write.
Cached == cache' = IF Stale THEN cache ELSE port'

-----------------------------------------------------------------------------

\* Variant: the port that the server has already is not looked up.
AssignAnew(p, ports) ==
    LET free == {c \in PortStart .. PortEnd : \A q \in Servers : ports[q] # c}
    IN  IF free = {} THEN 0 ELSE CHOOSE c \in free : \A d \in free : c <= d

\* Variant: the end of the range is that of the CRD.
AssignPastEnd(p, ports) ==
    LET first == IF ports[p] = 0 THEN PortStart ELSE ports[p]
        usable == {c \in first .. PortMax :
                      ports[p] = c \/ \A q \in Servers : ports[q] # c}
    IN  IF usable = {} THEN 0 ELSE CHOOSE c \in usable : \A d \in usable : c <= d

\* The first port from the server's own one on that no other server has; 0 is
\* the error that there is none.
AssignProvisionServerPort(p, ports) ==
    LET first == IF ports[p] = 0 THEN PortStart ELSE ports[p]
        usable == {c \in first .. PortEnd :
                      ports[p] = c \/ \A q \in Servers : ports[q] # c}
    IN  IF usable = {} THEN 0 ELSE CHOOSE c \in usable : \A d \in usable : c <= d

\* Variant: the server's own port counts as another server's.
RefusesOwn(p) ==
    \/ req[p].port = 0
    \/ \E q \in Servers : cache[q] = req[p].port

\* Variant: ports of other servers are not compared.
RefusesNone(p) == req[p].port = 0

\* The validating webhook: no port, or one of another server.
Refuses(p) ==
    \/ req[p].port = 0
    \/ \E q \in Servers \ {p} : cache[q] = req[p].port

-----------------------------------------------------------------------------

\* Requests about one server come one after the other.
Submit(p, by, new, c) ==
    /\ req[p].pc = "none"
    /\ req' = [req EXCEPT ![p] = [pc |-> "mutated", by |-> by, new |-> new, port |-> c]]
    /\ UNCHANGED <<port, cache, held, deleting>>

\* A user creates or updates a server with a port.
UserAsks(p) == \E c \in Ports : Submit(p, "ask", port[p] = 0, c)

\* The same without a port: the defaulting webhook assigns one if possible.
Default(p) == Submit(p, "default", port[p] = 0, AssignProvisionServerPort(p, cache))

\* provisionServerCreateOrUpdate: a server the cache does not have is created
\* with a new port.  Otherwise the patch, which needs a server to apply to, has
\* a port only if the one assigned differs from the cached one.
SetSubmits(p) ==
    LET c == AssignProvisionServerPort(p, cache)
    IN  /\ p \in Managed
        /\ c # 0
        /\ \/ cache[p] = 0 /\ Submit(p, "set", TRUE, c)
           \/ /\ cache[p] # 0 /\ port[p] # 0
              /\ Submit(p, "set", FALSE, IF c = cache[p] THEN port[p] ELSE c)

\* The server's controller adds the finalizer to a new server and removes it
\* from a deleted one.  Both are updates for the webhooks.
FinalizerSubmits(p) ==
    \/ /\ port[p] # 0 /\ p \notin held
       /\ Submit(p, "hold", FALSE, port[p])
    \/ /\ p \in deleting
       /\ Submit(p, "final", FALSE, port[p])

Refuse(p) ==
    /\ req[p].pc = "mutated"
    /\ Refuses(p)
    /\ req' = [req EXCEPT ![p] = NoRequest]
    /\ UNCHANGED <<port, cache, held, deleting>>

Admit(p) ==
    /\ req[p].pc = "mutated"
    /\ ~Refuses(p)
    /\ req' = [req EXCEPT ![p].pc = "validated"]
    /\ UNCHANGED <<port, cache, held, deleting>>

\* The API server creates a server that does not exist or changes one that does.
Store(p) ==
    /\ req[p].pc = "validated"
    /\ req[p].new = (port[p] = 0)
    /\ port' = [port EXCEPT ![p] = IF req[p].by = "final" THEN 0 ELSE req[p].port]
    /\ held' = CASE req[p].by = "hold"  -> held \cup {p}
                 [] req[p].by = "final" -> held \ {p}
                 [] OTHER               -> held
    /\ deleting' = IF req[p].by = "final" THEN deleting \ {p} ELSE deleting
    /\ req' = [req EXCEPT ![p] = NoRequest]
    /\ Cached

\* AlreadyExists or NotFound.
StoreFails(p) ==
    /\ req[p].pc = "validated"
    /\ req[p].new # (port[p] = 0)
    /\ req' = [req EXCEPT ![p] = NoRequest]
    /\ UNCHANGED <<port, cache, held, deleting>>

\* A server is deleted: at once if it has no finalizer, else it is marked.
DeleteServer(p) ==
    /\ port[p] # 0
    /\ p \notin deleting
    /\ \/ /\ p \notin held
          /\ port' = [port EXCEPT ![p] = 0]
          /\ UNCHANGED deleting
       \/ /\ p \in held
          /\ deleting' = deleting \cup {p}
          /\ UNCHANGED port
    /\ UNCHANGED <<held, req>>
    /\ Cached

SyncServer(p) ==
    /\ cache[p] # port[p]
    /\ cache' = [cache EXCEPT ![p] = port[p]]
    /\ UNCHANGED <<port, held, deleting, req>>

\* What the API server does with a request.
Handle(p) == Refuse(p) \/ Admit(p) \/ Store(p) \/ StoreFails(p)

Next ==
    \E p \in Servers :
        \/ UserAsks(p) \/ Default(p) \/ SetSubmits(p) \/ FinalizerSubmits(p)
        \/ Handle(p)
        \/ DeleteServer(p) \/ SyncServer(p)

Spec == Init /\ [][Next]_vars

\* The informer delivers, the API server finishes requests, and the server's
\* controller, which is requeued after an error, comes again however often
\* users write to the same server.
Fairness ==
    \A p \in Servers :
        /\ WF_vars(SyncServer(p))
        /\ WF_vars(Handle(p))
        /\ SF_vars(FinalizerSubmits(p))

FairSpec == Spec /\ Fairness

-----------------------------------------------------------------------------
(* Properties. *)

\* Every variable keeps its type: ports that the defaulting webhook assigns are
\* of the operator's own range, servers with a finalizer exist, and those marked
\* for deletion have one.
TypeOK ==
    /\ port \in [Servers -> Ports \cup {0}]
    /\ cache \in [Servers -> Ports \cup {0}]
    /\ held \subseteq {p \in Servers : port[p] # 0}
    /\ deleting \subseteq held
    /\ req \in [Servers -> Request]

\* No two servers have the same port (validateCr: "already in use by another
\* OpenStackProvisionServer").  Requests that overlap violate it.
UniquePorts == \A p, q \in Servers : p # q /\ port[p] # 0 => port[p] # port[q]

\* Two requests for one port are past the validating webhook, or one waits for
\* it while the cache lacks the server that has the port.
Race ==
    \/ \E p, q \in Servers :
        p # q /\ req[p].pc = "validated" /\ req[q].pc = "validated"
          /\ req[p].port = req[q].port
    \/ \E p, q \in Servers :
        p # q /\ req[p].pc = "mutated"
          /\ port[q] = req[p].port /\ cache[q] # port[q]

\* Servers get the same port by such a race and in no other way: neither
\* AssignProvisionServerPort nor validateCr overlooks a server that the cache
\* has, whatever is created, moved and deleted meanwhile.
ClashesAreRaces == <>~UniquePorts => <>Race

\* A server's port changes only when a user asks for another one: updates that
\* the set controller makes ("Leave the prov server's existing port as-is") keep
\* it however old its cache is, and updates without a port do if it is fresh.
PortKept ==
    [][\A p \in Servers :
        port[p] # 0 /\ port'[p] \notin {0, port[p]}
            => req[p].by = "ask" \/ (Stale /\ req[p].by = "default")]_vars

\* p waits for its finalizer to be added, or removed, while no other server has
\* its port.
WaitsAlone(p, c) ==
    /\ port[p] = c
    /\ p \notin held \/ p \in deleting
    /\ \A q \in Servers \ {p} : port[q] # c

\* The validating webhook, for which finalizers come and go by updates, holds
\* them up for ever only if another server has the same port: otherwise a server
\* that users leave where it is gets its finalizer, and goes away when deleted.
OnlyClashesHoldUp == \A p \in Servers, c \in Ports : ~<>[]WaitsAlone(p, c)

\* A deleted server goes away.  Two servers that have the same port and their
\* finalizers violate it: neither finalizer can be removed.
DeletionCompletes == \A p \in Servers : p \in deleting ~> p \notin deleting

-----------------------------------------------------------------------------

\* The validating webhook has seen a port.
ValidatedOK == \A p \in Servers : req[p].pc = "validated" => req[p].port # 0

\* Inductive form of UniquePorts as long as there is no race: a request that is
\* validated has a port that nobody else has.
ApartInv ==
    /\ UniquePorts
    /\ \A p, q \in Servers :
        req[p].pc = "validated" /\ p # q => port[q] # req[p].port

\* A request of a controller about a server that exists has its port, and so has
\* a user's without a port, unless the cache lags; a cache that does not lag is
\* the API server.
KeepInv ==
    /\ Stale \/ cache = port
    /\ \A p \in Servers :
        req[p].pc # "none" /\ ~req[p].new /\ port[p] # 0 =>
            \/ req[p].by = "ask"
            \/ req[p].by = "default" /\ (Stale \/ req[p].port \in {0, port[p]})
            \/ req[p].by \notin {"ask", "default"} /\ req[p].port = port[p]

=============================================================================
