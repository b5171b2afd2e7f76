--------------------------- MODULE MCBaremetalSet ---------------------------
(* Small instances of BaremetalSet for TLC. *)
EXTENDS BaremetalSet, TLC

CONSTANTS s1, s2, n1, n2, n3, x, y, i1, i2

\* Host y has a label selector that the first BMH does not match.
MCFits == [s \in Sets |-> [h \in Hosts |-> IF h = y THEN BMHs \ {n1} ELSE BMHs]]

\* A set that scales and one that competes with it.
MCScaling == [s \in Sets |-> IF s = s1 THEN {{x}, {x, y}} ELSE {{x}}]

\* A set that replaces a host by another.
MCReplacing == [s \in Sets |-> {{x}, {y}}]

\* Sets with both hosts.
MCBoth == [s \in Sets |-> {{x, y}}]

\* A set with a single host.
MCSingle == [s \in Sets |-> {{x}}]

=============================================================================
