------------------------------ MODULE MCAddresses ------------------------------
(***************************************************************************)
(* The addresses for TLC: a host with a loopback interface, a network card *)
(* and a tunnel without IPv4 address, whose name resolves to an address of *)
(* the card, to one of no interface, or to none.                           *)
(***************************************************************************)
EXTENDS Addresses

CONSTANTS lo, eth, tun, local, lan, foreign, mac1, mac0

MCInterfaces == <<lo, tun, eth, lo, eth>>

MCIpOf == [i \in {lo, tun, eth} |-> CASE i = lo -> local [] i = tun -> NoIp [] i = eth -> lan]

MCMacOf == [i \in {lo, tun, eth} |-> IF i = eth THEN mac1 ELSE mac0]

MCResolutions == {<<NoIp, lan>>, <<local, lan>>, <<foreign, lan>>, <<NoIp>>, <<>>}

=============================================================================
