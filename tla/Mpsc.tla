--------------------------------- MODULE Mpsc ---------------------------------
(***************************************************************************)
(* The channel of include/channel.h together with the way both of its      *)
(* users hold it (manager_interface_main and participant_main): a frame    *)
(* opens the channel, starts the producer threads, receives in a loop      *)
(* until it is told to exit, and returns.                                  *)
(*                                                                         *)
(* The move constructors take a const&&, so moving copies.  The frame      *)
(* keeps all four handles it ever had, channel.sender, channel.receiver,   *)
(* sender and receiver, until it returns.  A producer thread has two: the  *)
(* argument kept by std::thread and the parameter of its function.         *)
(*                                                                         *)
(* The destructors write state_tag without the mutex, so a step is one     *)
(* access to state_tag or one acquisition of the mutex.                    *)
(***************************************************************************)
EXTENDS Naturals, Sequences, FiniteSets

CONSTANTS
  Producers,   \* the threads that send
  Frame,       \* the thread that receives
  NoActor,     \* the owner of a free mutex
  MaxSends     \* bound: messages that one producer sends

ASSUME MpscAssumption ==
  /\ IsFiniteSet(Producers)
  /\ Frame \notin Producers
  /\ NoActor \notin Producers \cup {Frame}
  /\ MaxSends \in Nat

VARIABLES
  state_tag,
  messages,    \* the queue
  lock,        \* the owner of the mutex
  live,        \* the handles that share the Mpsc; use_count() is their number
  pc,          \* where each thread is
  sent         \* how many messages each producer has pushed

vars == <<state_tag, messages, lock, live, pc, sent>>

Actors == Producers \cup {Frame}

Message == [from : Producers, seq : 0..(MaxSends - 1), exit : BOOLEAN]

Handle(owner, name) == <<owner, name>>

(* The handles of the frame, in the order of their destruction.            *)
FrameHandles ==
  <<Handle(Frame, "receiver"), Handle(Frame, "sender"),
    Handle(Frame, "channel.receiver"), Handle(Frame, "channel.sender")>>

ProducerHandles(p) == <<Handle(p, "parameter"), Handle(p, "argument")>>

HandlesOf(a) == IF a = Frame THEN FrameHandles ELSE ProducerHandles(a)

Handles == UNION {{HandlesOf(a)[i] : i \in DOMAIN HandlesOf(a)} : a \in Actors}

use_count == Cardinality(live)

IsReceiver(h) == h[2] \in {"receiver", "channel.receiver"}

Init ==
  /\ state_tag = "UP_TO_DATE"
  /\ messages = <<>>
  /\ lock = NoActor
  /\ live = {FrameHandles[i] : i \in 1..4}
  /\ pc = [a \in Actors |-> IF a = Frame THEN "spawn" ELSE "unborn"]
  /\ sent = [p \in Producers |-> 0]

-----------------------------------------------------------------------------

Goto(a, label) == pc' = [pc EXCEPT ![a] = label]

(* notify_one: only the frame ever waits.                                  *)
GotoAndNotify(a, label) ==
  pc' = [b \in Actors |-> IF b = a THEN label
                         ELSE IF b = Frame /\ pc[b] = "asleep" THEN "woken" ELSE pc[b]]

Acquire(a) == lock = NoActor /\ lock' = a

-----------------------------------------------------------------------------
(* Starting the threads: std::thread copies the sender, and the new thread *)
(* copies it again for the parameter of its function.                      *)

Spawn == \E p \in Producers :
  /\ pc[Frame] = "spawn" /\ pc[p] = "unborn"
  /\ live' = live \cup {Handle(p, "argument")}
  /\ Goto(p, "born")
  /\ UNCHANGED <<state_tag, messages, lock, sent>>

Spawned ==
  /\ pc[Frame] = "spawn" /\ \A p \in Producers : pc[p] # "unborn"
  /\ Goto(Frame, "receive")
  /\ UNCHANGED <<state_tag, messages, lock, live, sent>>

(* Mutant: the thread is given the receiver.                               *)
MisbegottenBegin(p) ==
  /\ pc[p] = "born"
  /\ live' = live \cup {Handle(p, "receiver")}
  /\ Goto(p, "ready")
  /\ UNCHANGED <<state_tag, messages, lock, sent>>

Begin(p) ==
  /\ pc[p] = "born"
  /\ live' = live \cup {Handle(p, "parameter")}
  /\ Goto(p, "ready")
  /\ UNCHANGED <<state_tag, messages, lock, sent>>

-----------------------------------------------------------------------------
(* send.                                                                   *)

CallSend(p) ==
  /\ pc[p] = "ready" /\ sent[p] < MaxSends
  /\ Goto(p, "send")
  /\ UNCHANGED <<state_tag, messages, lock, live, sent>>

(* Mutant: a stack instead of a queue.                                     *)
StackingPush(p) == \E exit \in BOOLEAN :
  /\ pc[p] = "send" /\ Acquire(p)
  /\ messages' = <<[from |-> p, seq |-> sent[p], exit |-> exit]>> \o messages
  /\ sent' = [sent EXCEPT ![p] = @ + 1]
  /\ Goto(p, "check")
  /\ UNCHANGED <<state_tag, live>>

(* The mutex is taken and the message pushed, whatever the tag says.       *)
Push(p) == \E exit \in BOOLEAN :
  /\ pc[p] = "send" /\ Acquire(p)
  /\ messages' = Append(messages, [from |-> p, seq |-> sent[p], exit |-> exit])
  /\ sent' = [sent EXCEPT ![p] = @ + 1]
  /\ Goto(p, "check")
  /\ UNCHANGED <<state_tag, live>>

CheckTag(p) ==
  /\ pc[p] = "check"
  /\ IF state_tag = "DISCONNECTED"
       THEN Goto(p, "ready") /\ lock' = NoActor
       ELSE Goto(p, "publish") /\ UNCHANGED lock
  /\ UNCHANGED <<state_tag, messages, live, sent>>

(* Mutant: notify_one is forgotten.                                        *)
SilentPublish(p) ==
  /\ pc[p] = "publish"
  /\ state_tag' = "NEW_MESSAGE"
  /\ lock' = NoActor
  /\ Goto(p, "ready")
  /\ UNCHANGED <<messages, live, sent>>

Publish(p) ==
  /\ pc[p] = "publish"
  /\ state_tag' = "NEW_MESSAGE"
  /\ lock' = NoActor
  /\ GotoAndNotify(p, "ready")
  /\ UNCHANGED <<messages, live, sent>>

-----------------------------------------------------------------------------
(* receive, and the loop around it.                                        *)

Lock ==
  /\ pc[Frame] = "receive" /\ Acquire(Frame)
  /\ Goto(Frame, "switch")
  /\ UNCHANGED <<state_tag, messages, live, sent>>

Switch ==
  /\ pc[Frame] = "switch"
  /\ CASE state_tag = "NEW_MESSAGE"  -> Goto(Frame, "take") /\ UNCHANGED lock
       [] state_tag = "UP_TO_DATE"   -> Goto(Frame, "wait") /\ UNCHANGED lock
       [] state_tag = "DISCONNECTED" -> Goto(Frame, "drop") /\ lock' = NoActor
  /\ UNCHANGED <<state_tag, messages, live, sent>>

(* Mutant: the tag is not reset with the last message.                     *)
StaleTake ==
  /\ pc[Frame] = "take"
  /\ messages' = Tail(messages)
  /\ lock' = NoActor
  /\ Goto(Frame, IF Head(messages).exit THEN "drop" ELSE "receive")
  /\ UNCHANGED <<state_tag, live, sent>>

(* Mutant: the loop ignores what it receives.                              *)
DeafTake ==
  /\ pc[Frame] = "take"
  /\ messages' = Tail(messages)
  /\ state_tag' = IF messages' = <<>> THEN "UP_TO_DATE" ELSE state_tag
  /\ lock' = NoActor
  /\ Goto(Frame, "receive")
  /\ UNCHANGED <<live, sent>>

(* An exit message ends the loop, any other goes round it again.           *)
Take ==
  /\ pc[Frame] = "take"
  /\ messages' = Tail(messages)
  /\ state_tag' = IF messages' = <<>> THEN "UP_TO_DATE" ELSE state_tag
  /\ lock' = NoActor
  /\ Goto(Frame, IF Head(messages).exit THEN "drop" ELSE "receive")
  /\ UNCHANGED <<live, sent>>

(* Mutant: the predicate does not see what was stored.                     *)
BlindWait ==
  /\ pc[Frame] = "wait"
  /\ Goto(Frame, "dozing")
  /\ UNCHANGED <<state_tag, messages, lock, live, sent>>

(* cond_var.wait evaluates its predicate before it sleeps and each time it *)
(* wakes up, with the mutex held, which a destructor does not wait for.    *)
Wait ==
  /\ pc[Frame] = "wait"
  /\ IF state_tag # "UP_TO_DATE"
       THEN Goto(Frame, "receive") /\ lock' = NoActor
       ELSE Goto(Frame, "dozing") /\ UNCHANGED lock
  /\ UNCHANGED <<state_tag, messages, live, sent>>

(* It lets the mutex go and falls asleep in one step.                      *)
FallAsleep ==
  /\ pc[Frame] = "dozing"
  /\ Goto(Frame, "asleep")
  /\ lock' = NoActor
  /\ UNCHANGED <<state_tag, messages, live, sent>>

Rewait ==
  /\ pc[Frame] = "woken" /\ Acquire(Frame)
  /\ Goto(Frame, "wait")
  /\ UNCHANGED <<state_tag, messages, live, sent>>

SpuriousWakeup ==
  /\ pc[Frame] = "asleep"
  /\ Goto(Frame, "woken")
  /\ UNCHANGED <<state_tag, messages, lock, live, sent>>

-----------------------------------------------------------------------------
(* Destroying the handles, one after the other, when a producer function   *)
(* or the frame returns.                                                   *)

Finish(p) ==
  /\ pc[p] = "ready"
  /\ Goto(p, "drop")
  /\ UNCHANGED <<state_tag, messages, lock, live, sent>>

(* The next handle that a goes on to destroy.                              *)
Dying(a, h) == \E i \in DOMAIN HandlesOf(a) :
  /\ h = HandlesOf(a)[i] /\ h \in live
  /\ \A j \in 1..(i - 1) : HandlesOf(a)[j] \notin live

(* Mutant: every destructor declares the channel disconnected.             *)
EagerDrop(a) == \E h \in live :
  /\ pc[a] = "drop" /\ Dying(a, h)
  /\ Goto(a, "mark")
  /\ UNCHANGED <<state_tag, messages, lock, live, sent>>

(* A sender declares the channel disconnected when it counts at most one   *)
(* handle beside itself, a receiver always does.                           *)
Drop(a) == \E h \in live :
  /\ pc[a] = "drop" /\ Dying(a, h)
  /\ Goto(a, IF IsReceiver(h) \/ use_count <= 2 THEN "mark" ELSE "free")
  /\ UNCHANGED <<state_tag, messages, lock, live, sent>>

Mark(a) == \E h \in live :
  /\ pc[a] = "mark" /\ Dying(a, h)
  /\ state_tag' = "DISCONNECTED"
  /\ IF IsReceiver(h) THEN Goto(a, "free") ELSE GotoAndNotify(a, "free")
  /\ UNCHANGED <<messages, lock, live, sent>>

Free(a) == \E h \in live :
  /\ pc[a] = "free" /\ Dying(a, h)
  /\ live' = live \ {h}
  /\ Goto(a, IF \E i \in DOMAIN HandlesOf(a) : HandlesOf(a)[i] \in live' THEN "drop" ELSE "gone")
  /\ UNCHANGED <<state_tag, messages, lock, sent>>

-----------------------------------------------------------------------------

(* What a producer does once it is in a send, or on its way out.           *)
ProducerSteps(p) ==
  Begin(p) \/ Push(p) \/ CheckTag(p) \/ Publish(p) \/ Drop(p) \/ Mark(p) \/ Free(p)

FrameSteps ==
  \/ Spawn \/ Spawned
  \/ Lock \/ Switch \/ Take \/ Wait \/ FallAsleep \/ Rewait
  \/ Drop(Frame) \/ Mark(Frame) \/ Free(Frame)

Next ==
  \/ \E p \in Producers : CallSend(p) \/ Finish(p) \/ ProducerSteps(p)
  \/ FrameSteps
  \/ SpuriousWakeup

Spec == Init /\ [][Next]_vars

(* The scheduler runs every thread that is not blocked.  A producer may    *)
(* wait for ever for its input, so neither a call of send nor the end of   *)
(* the thread is fair; a wakeup without a reason is nothing to count on.   *)
Fairness == WF_vars(FrameSteps) /\ \A p \in Producers : WF_vars(ProducerSteps(p))

FairSpec == Spec /\ Fairness

-----------------------------------------------------------------------------
(* Properties.                                                             *)

Sending == {"send", "check", "publish"}
Leaving == {"drop", "mark", "free"}
Looping == {"receive", "switch", "take", "wait", "dozing", "asleep", "woken"}

(* Every variable has the shape its declaration gives it.                  *)
TypeOK ==
  /\ state_tag \in {"UP_TO_DATE", "NEW_MESSAGE", "DISCONNECTED"}
  /\ messages \in Seq(Message)
  /\ lock \in Actors \cup {NoActor}
  /\ live \subseteq Handles
  /\ pc \in [Actors -> {"spawn", "unborn", "born", "ready", "gone"}
                        \cup Sending \cup Leaving \cup Looping]
  /\ sent \in [Producers -> 0..MaxSends]

(* receive never takes a message from an empty queue: a tag that announces *)
(* one is never wrong, whoever stored it and whenever.                     *)
NeverTakesFromEmpty ==
  /\ state_tag = "NEW_MESSAGE" => messages # <<>>
  /\ pc[Frame] = "take" => messages # <<>>

(* The receiver sleeps over a message only while the sender of one is      *)
(* still in send, about to publish and to notify.                          *)
NoLostWakeup ==
  pc[Frame] = "asleep" /\ messages # <<>> =>
    \E p \in Producers : pc[p] \in {"check", "publish"} /\ lock = p

(* As long as the receive loop runs, no destructor declares the channel    *)
(* disconnected, and every send returns true.                              *)
OpenWhileLooping ==
  pc[Frame] \in Looping =>
    state_tag # "DISCONNECTED" /\ \A p \in Producers : pc[p] # "mark"

(* The channel implements the abstract one.                                *)
Fifo == INSTANCE FifoChannel WITH
  pending   <- messages,
  active    <- {p \in Producers : pc[p] # "gone"},
  listening <- pc[Frame] \in {"spawn"} \cup Looping

ImplementsFifo == Fifo!Spec

(* A message in the queue is received, unless the loop ends before it.     *)
EveryMessageReceived ==
  \A p \in Producers, n \in 0..(MaxSends - 1) :
    (\E i \in DOMAIN messages : messages[i].from = p /\ messages[i].seq = n)
      ~> \/ ~\E i \in DOMAIN messages : messages[i].from = p /\ messages[i].seq = n
         \/ pc[Frame] \notin Looping

(* A queued exit message ends the loop and the frame with it: no           *)
(* destructor waits for a producer.                                        *)
ExitIsObeyed ==
  (\E i \in DOMAIN messages : messages[i].exit) ~> (pc[Frame] = "gone")

-----------------------------------------------------------------------------
(* What channel.h says and the code does not do; TLC finds it violated.    *)

(* channel.h:76, "If there is no producer active, then returns an empty    *)
(* optional": with all producers gone and nothing pending, the loop ends.  *)
NoProducerEndsTheLoop ==
  ((\A p \in Producers : pc[p] = "gone") /\ messages = <<>>)
    ~> (pc[Frame] \notin Looping)

=============================================================================
