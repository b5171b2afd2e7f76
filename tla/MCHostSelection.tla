-------------------------- MODULE MCHostSelection --------------------------
(* Instances of HostSelection for TLC. *)
EXTENDS HostSelection

\* Labels that make candidates overlap without containing each other: the search
\* has to go back although the hosts are sorted.
Crossing == {<<>>, [a |-> 1], [b |-> 1], [a |-> 1, b |-> 1]}

\* Labels with one key and different values.
Apart == {[a |-> 1], [a |-> 2]}

MCLabelMaps == Crossing \cup Apart

\* No request; memory, exact and not; disk size, kind of disk, both.
MCRequests ==
    {NoReqs} \cup
    {[NoReqs EXCEPT !.gb = [n |-> 2, exact |-> e], !.arch = "x86_64"] : e \in BOOLEAN} \cup
    {[NoReqs EXCEPT !.disk = [n |-> n, exact |-> e], !.ssd = [ssd |-> s, exact |-> TRUE]] :
        n \in {0, 2}, e \in BOOLEAN, s \in BOOLEAN}

Disks == {[size |-> s, rotational |-> r] : s \in {2048, 2560}, r \in BOOLEAN}

Machine == [arch |-> "x86_64", count |-> 4, mhz |-> 2000, ram |-> 2048, disks |-> <<>>]

MCDetails ==
    {Machine, [Machine EXCEPT !.arch = "aarch64"], [Machine EXCEPT !.ram = 2560]} \cup
    {[Machine EXCEPT !.disks = <<d, e>>] : d, e \in Disks}

Bare == [free |-> TRUE, labels |-> <<>>, details |-> Nil]

\* Three new hosts and three BMHs with crossing labels; two and two with different
\* values; two hosts and two BMHs with any hardware, one of them perhaps in use.
MCInputs ==
    LET Three == 1 .. 3
        Two == 1 .. 2
        Labelled(M, hosts) ==
            {[computes |-> hosts, selector |-> s, reqs |-> NoReqs,
              list |-> [b \in hosts |-> [Bare EXCEPT !.labels = l[b]]]] :
                s \in [hosts -> M], l \in [hosts -> M]}
    IN  Labelled(Crossing, Three) \cup Labelled(Apart, Two)
        \cup
        {[computes |-> c, selector |-> [x \in c |-> <<>>], reqs |-> r,
          list |-> [b \in Two |-> [Bare EXCEPT !.details = d[b], !.free = b = 1 \/ f]]] :
            c \in {{1}, Two}, r \in MCRequests, f \in BOOLEAN,
            d \in [Two -> MCDetails \cup {Nil}]}

=============================================================================
