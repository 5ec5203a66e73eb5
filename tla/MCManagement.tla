----------------------------- MODULE MCManagement -----------------------------
(***************************************************************************)
(* The table for TLC.  Stations a and a2 are two requests of one host, b   *)
(* shares only its hostname with them (as any two hosts do once the names  *)
(* have been through a packet), c shares nothing.                          *)
(***************************************************************************)
EXTENDS ManagementService

CONSTANTS t1, t2, t3, a, a2, b, c, k1, k2

AddressesOf(h, n) == [hostname |-> h, mac |-> n, ip |-> n]

MCKeyOf ==
  [s \in Stations |->
     CASE s \in {a, a2} -> AddressesOf(k1, k1)
       [] s = b         -> AddressesOf(k1, k2)
       [] s = c         -> AddressesOf(k2, k2)]

=============================================================================
