------------------------------ MODULE HostPool ------------------------------
(***************************************************************************)
(* What the operator promises to the owners of machines: a BareMetalHost   *)
(* (BMH) serves one OpenStackBaremetalSet at a time.  A set takes a BMH    *)
(* only when nobody holds it and Metal3 has cleaned it, exchanges its      *)
(* image only before it is provisioned, and passes it on only by giving it *)
(* back and having it cleaned.  BaremetalSet implements this               *)
(* specification when its reads are fresh.                                 *)
(***************************************************************************)

CONSTANTS
    Sets,     \* OpenStackBaremetalSets
    Hosts,    \* keys of spec.baremetalHosts
    BMHs,     \* names of BareMetalHosts
    Images,   \* image URLs with their checksum
    Nil,      \* absent value
    Other,    \* a consumer that is not an OpenStackBaremetalSet
    Fits,     \* Fits[s][h]: the BMHs that pass the static filters for host h
    Foreign   \* BMHs that Other consumes

VARIABLES holder, image, state

vars == <<holder, image, state>>

Init ==
    /\ holder = [b \in BMHs |-> IF b \in Foreign THEN Other ELSE Nil]
    /\ image = [b \in BMHs |-> Nil]
    /\ state = [b \in BMHs |-> "available"]

\* Set s takes a clean BMH that fits one of its hosts.
Claim(b, s) ==
    \E i \in Images :
        /\ holder[b] = Nil
        /\ image[b] = Nil
        /\ state[b] = "available"
        /\ \E h \in Hosts : b \in Fits[s][h]
        /\ holder' = [holder EXCEPT ![b] = s]
        /\ image' = [image EXCEPT ![b] = i]
        /\ UNCHANGED state

\* The image follows the provision server until it is provisioned.
Reimage(b) ==
    \E i \in Images :
        /\ holder[b] \in Sets
        /\ state[b] # "provisioned"
        /\ image' = [image EXCEPT ![b] = i]
        /\ UNCHANGED <<holder, state>>

Release(b) ==
    /\ holder[b] \in Sets
    /\ holder' = [holder EXCEPT ![b] = Nil]
    /\ image' = [image EXCEPT ![b] = Nil]
    /\ UNCHANGED state

\* Metal3 provisions a BMH that has an image and cleans one that has none.
Metal3(b) ==
    \E st \in {"busy", IF image[b] = Nil THEN "available" ELSE "provisioned"} :
        /\ state' = [state EXCEPT ![b] = st]
        /\ UNCHANGED <<holder, image>>

Next ==
    \E b \in BMHs : (\E s \in Sets : Claim(b, s)) \/ Reimage(b) \/ Release(b) \/ Metal3(b)

Spec == Init /\ [][Next]_vars

=============================================================================
