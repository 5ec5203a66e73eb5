----------------------------- MODULE FifoChannel -----------------------------
(***************************************************************************)
(* What include/channel.h promises of a channel with one receiver: the     *)
(* messages arrive once each, in the order in which they were sent, and    *)
(* the receiver is told that there is nothing to come only when no         *)
(* producer is left and nothing is pending.  The receiver stops at an exit *)
(* message, as both receive loops of the program do.                       *)
(***************************************************************************)
EXTENDS Sequences

CONSTANTS Producers, Message

VARIABLES
  pending,    \* messages sent and not received, oldest first
  active,     \* the producers that may still send
  listening   \* whether the receiver is still in its loop

vars == <<pending, active, listening>>

Init == pending = <<>> /\ active = Producers /\ listening = TRUE

Send == \E m \in Message :
  /\ m.from \in active
  /\ pending' = Append(pending, m)
  /\ UNCHANGED <<active, listening>>

Leave == \E p \in active :
  /\ active' = active \ {p}
  /\ UNCHANGED <<pending, listening>>

Receive ==
  /\ listening /\ pending # <<>>
  /\ pending' = Tail(pending)
  /\ listening' = ~Head(pending).exit
  /\ UNCHANGED active

ReceiveNothing ==
  /\ listening /\ pending = <<>> /\ active = {}
  /\ listening' = FALSE
  /\ UNCHANGED <<pending, active>>

Next == Send \/ Leave \/ Receive \/ ReceiveNothing

Spec == Init /\ [][Next]_vars

=============================================================================
