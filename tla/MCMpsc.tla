-------------------------------- MODULE MCMpsc --------------------------------
(***************************************************************************)
(* The channel for TLC: the threads by name.                               *)
(***************************************************************************)
EXTENDS Mpsc

CONSTANTS p1, p2, frame

=============================================================================
