----------------------------- MODULE MCSleepNetwork -----------------------------
(***************************************************************************)
(* The network for TLC: its hosts by name.  All participants have the same *)
(* host name, as those of the program have once it has been through a      *)
(* packet.                                                                 *)
(***************************************************************************)
EXTENDS SleepNetwork, TLC

CONSTANTS p1, p2, m1, m2, h1, h2, empty

MCNameOf == [p \in Participants |-> empty]

Symmetry == Permutations(Participants) \cup Permutations(Handlers) \cup Permutations(Managers)

=============================================================================
