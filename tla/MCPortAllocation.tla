-------------------------- MODULE MCPortAllocation --------------------------
(* Small instances of PortAllocation for TLC. *)
EXTENDS PortAllocation

CONSTANTS p1, p2

=============================================================================
