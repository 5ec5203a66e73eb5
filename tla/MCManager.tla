------------------------------- MODULE MCManager -------------------------------
(***************************************************************************)
(* The manager for TLC.  a and b are two hosts whose names have arrived    *)
(* empty, as those of nearly all hosts do; the name of c held an escaped   *)
(* character and can be typed.                                             *)
(***************************************************************************)
EXTENDS Manager, TLC

CONSTANTS r1, r2, r3, a, b, c, k1, k2, k3

AddressesOf(h, n) == [hostname |-> h, mac |-> n, ip |-> n]

MCThreads == {Frame, Monitor, Input} \cup Responders

MCKeyOf ==
  [s \in Stations |->
     CASE s = a -> AddressesOf(EmptyName, k2)
       [] s = b -> AddressesOf(EmptyName, k3)
       [] s = c -> AddressesOf(k1, k1)]

(* The two nameless hosts are alike, address for address.                  *)
Alike == {(a :> b) @@ (b :> a) @@ (k2 :> k3) @@ (k3 :> k2)}

Symmetry == Permutations(Responders) \cup Alike

=============================================================================
