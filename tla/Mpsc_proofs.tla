----------------------------- MODULE Mpsc_proofs -----------------------------
(***************************************************************************)
(* What holds of the channel for every set of producers and every number   *)
(* of messages.                                                            *)
(*                                                                         *)
(* The inductive invariant has four parts: the types, who holds the mutex, *)
(* what the handles of the frame guarantee as long as it listens, and how  *)
(* the tag follows the queue.                                              *)
(***************************************************************************)
EXTENDS Mpsc, FiniteSetTheorems, TLAPS

Listening == pc[Frame] \in {"spawn"} \cup Looping

FourHandles ==
  {Handle(Frame, "receiver"), Handle(Frame, "sender"),
   Handle(Frame, "channel.receiver"), Handle(Frame, "channel.sender")}

TypeInv ==
  /\ TypeOK
  /\ pc[Frame] \in {"spawn", "gone"} \cup Leaving \cup Looping
  /\ \A p \in Producers : pc[p] \in {"unborn", "born", "ready", "gone"} \cup Sending \cup Leaving
  /\ \A p \in Producers : pc[p] = "send" => sent[p] < MaxSends

(* The mutex is held by the one thread that is between its acquisition and *)
(* its release.                                                            *)
LockInv == \A a \in Actors :
  lock = a <=> pc[a] \in {"switch", "take", "wait", "dozing", "check", "publish"}

(* The four handles of the frame outlive the loop, so that no destructor   *)
(* counts two or fewer before it ends.                                     *)
OpenInv ==
  /\ IsFiniteSet(live)
  /\ Listening => /\ FourHandles \subseteq live
                  /\ state_tag # "DISCONNECTED"
                  /\ \A p \in Producers : pc[p] # "mark"

(* The tag announces a message only if there is one, and announces each,   *)
(* unless the holder of the mutex is about to.                             *)
QueueInv ==
  /\ state_tag = "NEW_MESSAGE" => messages # <<>>
  /\ pc[Frame] = "take" => messages # <<>>
  /\ \A p \in Producers : pc[p] \in {"check", "publish"} => messages # <<>>
  /\ pc[Frame] \in {"dozing", "asleep"} => state_tag = "UP_TO_DATE"
  /\ Listening /\ messages # <<>> /\ state_tag # "NEW_MESSAGE" => lock \in Producers

IInv == TypeInv /\ LockInv /\ OpenInv /\ QueueInv

-----------------------------------------------------------------------------
(* Facts about the handles and about moving from one label to another.     *)

LEMMA FrameFour == {FrameHandles[i] : i \in 1..4} = FourHandles
<1>1. 1..4 = {1, 2, 3, 4}
  OBVIOUS
<1>2. /\ FrameHandles[1] = Handle(Frame, "receiver")
      /\ FrameHandles[2] = Handle(Frame, "sender")
      /\ FrameHandles[3] = Handle(Frame, "channel.receiver")
      /\ FrameHandles[4] = Handle(Frame, "channel.sender")
  BY DEF FrameHandles
<1> QED
  BY <1>1, <1>2 DEF FourHandles

LEMMA FourCount == IsFiniteSet(FourHandles) /\ Cardinality(FourHandles) = 4
<1>1. /\ Handle(Frame, "receiver") # Handle(Frame, "sender")
      /\ Handle(Frame, "receiver") # Handle(Frame, "channel.receiver")
      /\ Handle(Frame, "receiver") # Handle(Frame, "channel.sender")
      /\ Handle(Frame, "sender") # Handle(Frame, "channel.receiver")
      /\ Handle(Frame, "sender") # Handle(Frame, "channel.sender")
      /\ Handle(Frame, "channel.receiver") # Handle(Frame, "channel.sender")
  BY DEF Handle
<1> DEFINE H1 == {} \cup {Handle(Frame, "receiver")}
           H2 == H1 \cup {Handle(Frame, "sender")}
           H3 == H2 \cup {Handle(Frame, "channel.receiver")}
           H4 == H3 \cup {Handle(Frame, "channel.sender")}
<1>2. IsFiniteSet({}) /\ Cardinality({}) = 0
  BY FS_EmptySet
<1>3. IsFiniteSet(H1) /\ Cardinality(H1) = 1
  BY <1>2, FS_AddElement
<1>4. IsFiniteSet(H2) /\ Cardinality(H2) = 2
  <2>1. Handle(Frame, "sender") \notin H1
    BY <1>1
  <2> QED
    BY <1>3, <2>1, FS_AddElement
<1>5. IsFiniteSet(H3) /\ Cardinality(H3) = 3
  <2>1. Handle(Frame, "channel.receiver") \notin H2
    BY <1>1
  <2>2. IsFiniteSet(H3) /\ Cardinality(H3) = 2 + 1
    BY <1>4, <2>1, FS_AddElement
  <2> QED
    BY <2>2
<1>6. IsFiniteSet(H4) /\ Cardinality(H4) = 4
  <2>1. Handle(Frame, "channel.sender") \notin H3
    BY <1>1
  <2>2. IsFiniteSet(H4) /\ Cardinality(H4) = 3 + 1
    BY <1>5, <2>1, FS_AddElement
  <2> QED
    BY <2>2
<1>7. FourHandles = H4
  BY DEF FourHandles
<1> QED
  BY <1>6, <1>7

LEMMA ManyHandles ==
  ASSUME OpenInv, Listening
  PROVE  ~(use_count <= 2)
<1>1. IsFiniteSet(live) /\ FourHandles \subseteq live
  BY DEF OpenInv
<1>2. Cardinality(FourHandles) <= Cardinality(live)
  BY <1>1, FS_Subset
<1>3. Cardinality(live) \in Nat
  BY <1>1, FS_CardinalityType
<1> QED
  BY <1>2, <1>3, FourCount DEF use_count

(* The dying handles of a thread are its own, and a producer has no        *)
(* receiver.                                                               *)
LEMMA DyingOwn ==
  ASSUME NEW a \in Actors, NEW h, Dying(a, h)
  PROVE  /\ h \in live
         /\ a \in Producers => ~IsReceiver(h) /\ h \notin FourHandles
<1>1. PICK i \in DOMAIN HandlesOf(a) : h = HandlesOf(a)[i] /\ h \in live
  BY DEF Dying
<1>2. ASSUME a \in Producers
      PROVE  ~IsReceiver(h) /\ h \notin FourHandles
  <2>1. a # Frame
    BY <1>2, MpscAssumption
  <2>2. HandlesOf(a) = ProducerHandles(a)
    BY <2>1 DEF HandlesOf
  <2>3. h = Handle(a, "parameter") \/ h = Handle(a, "argument")
    BY <1>1, <2>2 DEF ProducerHandles
  <2>4. ~IsReceiver(h)
    BY <2>3 DEF IsReceiver, Handle
  <2>5. h \notin FourHandles
    BY <2>1, <2>3 DEF FourHandles, Handle
  <2> QED
    BY <2>4, <2>5
<1> QED
  BY <1>1, <1>2

LEMMA HandleTypes ==
  ASSUME NEW p \in Producers
  PROVE  {Handle(p, "argument"), Handle(p, "parameter")} \subseteq Handles
<1>1. p # Frame /\ p \in Actors
  BY MpscAssumption DEF Actors
<1>2. HandlesOf(p) = <<Handle(p, "parameter"), Handle(p, "argument")>>
  BY <1>1 DEF HandlesOf, ProducerHandles
<1>3. {HandlesOf(p)[i] : i \in DOMAIN HandlesOf(p)} \subseteq Handles
  BY <1>1 DEF Handles
<1>4. HandlesOf(p)[1] = Handle(p, "parameter") /\ 1 \in DOMAIN HandlesOf(p)
  BY <1>2
<1>5. HandlesOf(p)[2] = Handle(p, "argument") /\ 2 \in DOMAIN HandlesOf(p)
  BY <1>2
<1> QED
  BY <1>3, <1>4, <1>5

LEMMA Moved ==
  ASSUME TypeOK, NEW a \in Actors, NEW label, Goto(a, label)
  PROVE  /\ pc'[a] = label
         /\ \A b \in Actors : b # a => pc'[b] = pc[b]
         /\ pc' \in [Actors -> {label} \cup {pc[b] : b \in Actors}]
BY DEF TypeOK, Goto

LEMMA MovedAndNotified ==
  ASSUME TypeOK, NEW a \in Actors, NEW label, label # "asleep", GotoAndNotify(a, label)
  PROVE  /\ pc'[a] = label
         /\ \A b \in Actors : b # a /\ b # Frame => pc'[b] = pc[b]
         /\ a # Frame => pc'[Frame] = IF pc[Frame] = "asleep" THEN "woken" ELSE pc[Frame]
         /\ pc' \in [Actors -> {label, "woken"} \cup {pc[b] : b \in Actors}]
<1> Frame \in Actors
  BY DEF Actors
<1> QED
  BY DEF TypeOK, GotoAndNotify

-----------------------------------------------------------------------------
(* Every step keeps the types.                                             *)

LEMMA TypeStep ==
  ASSUME TypeInv, QueueInv, [Next]_vars
  PROVE  TypeInv'
<1> USE MpscAssumption
<1> Frame \in Actors /\ Producers \subseteq Actors /\ Frame \notin Producers
  BY DEF Actors
<1>1. ASSUME NEW p \in Producers, Begin(p)
      PROVE  TypeInv'
  BY <1>1, HandleTypes DEF TypeInv, TypeOK, Begin, Goto, Sending, Leaving, Looping
<1>2. ASSUME NEW p \in Producers, CallSend(p)
      PROVE  TypeInv'
  BY <1>2 DEF TypeInv, TypeOK, CallSend, Goto, Sending, Leaving, Looping
<1>3. ASSUME NEW p \in Producers, Push(p)
      PROVE  TypeInv'
  <2>1. PICK exit \in BOOLEAN :
          /\ pc[p] = "send" /\ lock' = p
          /\ messages' = Append(messages, [from |-> p, seq |-> sent[p], exit |-> exit])
          /\ sent' = [sent EXCEPT ![p] = @ + 1]
          /\ Goto(p, "check")
          /\ UNCHANGED <<state_tag, live>>
    BY <1>3 DEF Push, Acquire
  <2>2. sent[p] \in 0..(MaxSends - 1) /\ sent' \in [Producers -> 0..MaxSends]
    BY <2>1 DEF TypeInv, TypeOK
  <2>3. messages' \in Seq(Message)
    BY <2>1, <2>2 DEF TypeInv, TypeOK, Message
  <2> QED
    BY <2>1, <2>2, <2>3 DEF TypeInv, TypeOK, Goto, Sending, Leaving, Looping
<1>4. ASSUME NEW p \in Producers, CheckTag(p)
      PROVE  TypeInv'
  BY <1>4 DEF TypeInv, TypeOK, CheckTag, Goto, Sending, Leaving, Looping
<1>5. ASSUME NEW p \in Producers, Publish(p)
      PROVE  TypeInv'
  BY <1>5, MovedAndNotified DEF TypeInv, TypeOK, Publish, Sending, Leaving, Looping
<1>6. ASSUME NEW p \in Producers, Finish(p)
      PROVE  TypeInv'
  BY <1>6 DEF TypeInv, TypeOK, Finish, Goto, Sending, Leaving, Looping
<1>7. ASSUME NEW a \in Actors, Drop(a)
      PROVE  TypeInv'
  BY <1>7 DEF TypeInv, TypeOK, Drop, Goto, Sending, Leaving, Looping
<1>8. ASSUME NEW a \in Actors, Mark(a)
      PROVE  TypeInv'
  <2>1. PICK h \in live : Dying(a, h) /\ (Goto(a, "free") \/ GotoAndNotify(a, "free"))
    BY <1>8 DEF Mark
  <2>2. pc[a] = "mark" /\ state_tag' = "DISCONNECTED" /\ UNCHANGED <<messages, lock, live, sent>>
    BY <1>8 DEF Mark
  <2>3. CASE Goto(a, "free")
    BY <2>2, <2>3 DEF TypeInv, TypeOK, Goto, Sending, Leaving, Looping
  <2>4. CASE GotoAndNotify(a, "free")
    BY <2>2, <2>4, MovedAndNotified DEF TypeInv, TypeOK, Sending, Leaving, Looping
  <2> QED
    BY <2>1, <2>3, <2>4
<1>9. ASSUME NEW a \in Actors, Free(a)
      PROVE  TypeInv'
  BY <1>9 DEF TypeInv, TypeOK, Free, Goto, Sending, Leaving, Looping
<1>10. ASSUME Spawn
      PROVE  TypeInv'
  BY <1>10, HandleTypes DEF TypeInv, TypeOK, Spawn, Goto, Sending, Leaving, Looping
<1>11. ASSUME Spawned
      PROVE  TypeInv'
  BY <1>11 DEF TypeInv, TypeOK, Spawned, Goto, Sending, Leaving, Looping
<1>12. ASSUME Lock
      PROVE  TypeInv'
  BY <1>12 DEF TypeInv, TypeOK, Lock, Acquire, Goto, Sending, Leaving, Looping
<1>13. ASSUME Switch
      PROVE  TypeInv'
  BY <1>13 DEF TypeInv, TypeOK, Switch, Goto, Sending, Leaving, Looping
<1>14. ASSUME Take
      PROVE  TypeInv'
  <2>1. messages # <<>> /\ Tail(messages) \in Seq(Message)
    BY <1>14 DEF TypeInv, TypeOK, QueueInv, Take
  <2> QED
    BY <1>14, <2>1 DEF TypeInv, TypeOK, Take, Goto, Sending, Leaving, Looping
<1>15. ASSUME Wait
      PROVE  TypeInv'
  BY <1>15 DEF TypeInv, TypeOK, Wait, Goto, Sending, Leaving, Looping
<1>16. ASSUME FallAsleep
      PROVE  TypeInv'
  BY <1>16 DEF TypeInv, TypeOK, FallAsleep, Goto, Sending, Leaving, Looping
<1>17. ASSUME Rewait
      PROVE  TypeInv'
  BY <1>17 DEF TypeInv, TypeOK, Rewait, Acquire, Goto, Sending, Leaving, Looping
<1>18. ASSUME SpuriousWakeup
      PROVE  TypeInv'
  BY <1>18 DEF TypeInv, TypeOK, SpuriousWakeup, Goto, Sending, Leaving, Looping
<1>19. ASSUME UNCHANGED vars
      PROVE  TypeInv'
  BY <1>19 DEF TypeInv, TypeOK, vars, Goto, Sending, Leaving, Looping
<1> QED
  BY <1>1, <1>2, <1>3, <1>4, <1>5, <1>6, <1>7, <1>8, <1>9, <1>10, <1>11, <1>12, <1>13, <1>14, <1>15, <1>16, <1>17, <1>18,
     <1>19 DEF Next, ProducerSteps, FrameSteps, Actors

-----------------------------------------------------------------------------
(* Every step keeps who holds the mutex.                                   *)

LEMMA LockStep ==
  ASSUME TypeInv, LockInv, [Next]_vars
  PROVE  LockInv'
<1> USE MpscAssumption
<1> Frame \in Actors /\ Producers \subseteq Actors /\ Frame \notin Producers
  BY DEF Actors
<1> \A a \in Actors : NoActor # a
  BY DEF Actors
<1>1. ASSUME NEW p \in Producers, Begin(p)
      PROVE  LockInv'
  BY <1>1 DEF TypeInv, TypeOK, LockInv, Begin, Goto, Sending, Leaving, Looping
<1>2. ASSUME NEW p \in Producers, CallSend(p)
      PROVE  LockInv'
  BY <1>2 DEF TypeInv, TypeOK, LockInv, CallSend, Goto, Sending, Leaving, Looping
<1>3. ASSUME NEW p \in Producers, Push(p)
      PROVE  LockInv'
  BY <1>3 DEF TypeInv, TypeOK, LockInv, Push, Acquire, Goto, Sending, Leaving, Looping
<1>4. ASSUME NEW p \in Producers, CheckTag(p)
      PROVE  LockInv'
  BY <1>4 DEF TypeInv, TypeOK, LockInv, CheckTag, Goto, Sending, Leaving, Looping
<1>5. ASSUME NEW p \in Producers, Publish(p)
      PROVE  LockInv'
  BY <1>5, MovedAndNotified DEF TypeInv, TypeOK, LockInv, Publish, Sending, Leaving, Looping
<1>6. ASSUME NEW p \in Producers, Finish(p)
      PROVE  LockInv'
  BY <1>6 DEF TypeInv, TypeOK, LockInv, Finish, Goto, Sending, Leaving, Looping
<1>7. ASSUME NEW a \in Actors, Drop(a)
      PROVE  LockInv'
  BY <1>7 DEF TypeInv, TypeOK, LockInv, Drop, Goto, Sending, Leaving, Looping
<1>8. ASSUME NEW a \in Actors, Mark(a)
      PROVE  LockInv'
  <2>1. /\ Goto(a, "free") \/ GotoAndNotify(a, "free")
        /\ pc[a] = "mark" /\ state_tag' = "DISCONNECTED"
        /\ UNCHANGED <<messages, lock, live, sent>>
    BY <1>8 DEF Mark
  <2>2. CASE Goto(a, "free")
    BY <2>1, <2>2 DEF TypeInv, TypeOK, LockInv, Goto, Sending, Leaving, Looping
  <2>3. CASE GotoAndNotify(a, "free")
    BY <2>1, <2>3, MovedAndNotified DEF TypeInv, TypeOK, LockInv, Sending, Leaving, Looping
  <2> QED
    BY <2>1, <2>2, <2>3
<1>9. ASSUME NEW a \in Actors, Free(a)
      PROVE  LockInv'
  BY <1>9 DEF TypeInv, TypeOK, LockInv, Free, Goto, Sending, Leaving, Looping
<1>10. ASSUME Spawn
      PROVE  LockInv'
  BY <1>10 DEF TypeInv, TypeOK, LockInv, Spawn, Goto, Sending, Leaving, Looping
<1>11. ASSUME Spawned
      PROVE  LockInv'
  BY <1>11 DEF TypeInv, TypeOK, LockInv, Spawned, Goto, Sending, Leaving, Looping
<1>12. ASSUME Lock
      PROVE  LockInv'
  BY <1>12 DEF TypeInv, TypeOK, LockInv, Lock, Acquire, Goto, Sending, Leaving, Looping
<1>13. ASSUME Switch
      PROVE  LockInv'
  BY <1>13 DEF TypeInv, TypeOK, LockInv, Switch, Goto, Sending, Leaving, Looping
<1>14. ASSUME Take
      PROVE  LockInv'
  BY <1>14 DEF TypeInv, TypeOK, LockInv, Take, Goto, Sending, Leaving, Looping
<1>15. ASSUME Wait
      PROVE  LockInv'
  BY <1>15 DEF TypeInv, TypeOK, LockInv, Wait, Goto, Sending, Leaving, Looping
<1>16. ASSUME FallAsleep
      PROVE  LockInv'
  BY <1>16 DEF TypeInv, TypeOK, LockInv, FallAsleep, Goto, Sending, Leaving, Looping
<1>17. ASSUME Rewait
      PROVE  LockInv'
  BY <1>17 DEF TypeInv, TypeOK, LockInv, Rewait, Acquire, Goto, Sending, Leaving, Looping
<1>18. ASSUME SpuriousWakeup
      PROVE  LockInv'
  BY <1>18 DEF TypeInv, TypeOK, LockInv, SpuriousWakeup, Goto, Sending, Leaving, Looping
<1>19. ASSUME UNCHANGED vars
      PROVE  LockInv'
  BY <1>19 DEF TypeInv, TypeOK, LockInv, vars, Goto, Sending, Leaving, Looping
<1> QED
  BY <1>1, <1>2, <1>3, <1>4, <1>5, <1>6, <1>7, <1>8, <1>9, <1>10, <1>11, <1>12, <1>13, <1>14, <1>15, <1>16, <1>17, <1>18,
     <1>19 DEF Next, ProducerSteps, FrameSteps, Actors

-----------------------------------------------------------------------------
(* Every step keeps the channel open while the frame listens.              *)

LEMMA OpenStep ==
  ASSUME TypeInv, OpenInv, [Next]_vars
  PROVE  OpenInv'
<1> USE MpscAssumption
<1> Frame \in Actors /\ Producers \subseteq Actors /\ Frame \notin Producers
  BY DEF Actors
<1> \A a \in Actors : NoActor # a
  BY DEF Actors
<1>1. ASSUME NEW p \in Producers, Begin(p)
      PROVE  OpenInv'
  <2>1. IsFiniteSet(live')
    BY <1>1, FS_AddElement DEF OpenInv, Begin
  <2> QED
    BY <1>1, <2>1 DEF TypeInv, TypeOK, OpenInv, Listening, Begin, Goto, Sending, Leaving, Looping
<1>2. ASSUME NEW p \in Producers, CallSend(p)
      PROVE  OpenInv'
  BY <1>2 DEF TypeInv, TypeOK, OpenInv, Listening, CallSend, Goto, Sending, Leaving, Looping
<1>3. ASSUME NEW p \in Producers, Push(p)
      PROVE  OpenInv'
  BY <1>3 DEF TypeInv, TypeOK, OpenInv, Listening, Push, Acquire, Goto, Sending, Leaving, Looping
<1>4. ASSUME NEW p \in Producers, CheckTag(p)
      PROVE  OpenInv'
  BY <1>4 DEF TypeInv, TypeOK, OpenInv, Listening, CheckTag, Goto, Sending, Leaving, Looping
<1>5. ASSUME NEW p \in Producers, Publish(p)
      PROVE  OpenInv'
  BY <1>5, MovedAndNotified DEF TypeInv, TypeOK, OpenInv, Listening, Publish, Sending, Leaving, Looping
<1>6. ASSUME NEW p \in Producers, Finish(p)
      PROVE  OpenInv'
  BY <1>6 DEF TypeInv, TypeOK, OpenInv, Listening, Finish, Goto, Sending, Leaving, Looping
<1>7. ASSUME NEW a \in Actors, Drop(a)
      PROVE  OpenInv'
  <2>1. PICK h \in live :
          /\ pc[a] = "drop" /\ Dying(a, h)
          /\ Goto(a, IF IsReceiver(h) \/ use_count <= 2 THEN "mark" ELSE "free")
          /\ UNCHANGED <<state_tag, messages, lock, live, sent>>
    BY <1>7 DEF Drop
  <2>2. CASE a = Frame
    BY <2>1, <2>2 DEF TypeInv, TypeOK, OpenInv, Listening, Goto, Sending, Leaving, Looping
  <2>3. CASE a \in Producers /\ ~Listening
    BY <2>1, <2>3 DEF TypeInv, TypeOK, OpenInv, Listening, Goto, Sending, Leaving, Looping
  <2>4. CASE a \in Producers /\ Listening
    <3>1. Goto(a, "free")
      BY <2>1, <2>4, DyingOwn, ManyHandles
    <3> QED
      BY <2>1, <2>4, <3>1 DEF TypeInv, TypeOK, OpenInv, Listening, Goto, Sending, Leaving, Looping
  <2> QED
    BY <2>2, <2>3, <2>4 DEF Actors
<1>8. ASSUME NEW a \in Actors, Mark(a)
      PROVE  OpenInv'
  <2>1. /\ Goto(a, "free") \/ GotoAndNotify(a, "free")
        /\ pc[a] = "mark" /\ state_tag' = "DISCONNECTED"
        /\ UNCHANGED <<messages, lock, live, sent>>
    BY <1>8 DEF Mark
  <2>2. ~Listening
    BY <2>1 DEF OpenInv, Listening, Looping, Actors
  <2>3. /\ ~Listening' /\ pc'[Frame] \notin {"dozing", "asleep", "take"}
        /\ \A p \in Producers : p # a => pc'[p] = pc[p]
        /\ pc'[a] = "free"
    <3>1. CASE Goto(a, "free")
      BY <2>2, <3>1 DEF TypeInv, TypeOK, Listening, Goto, Looping
    <3>2. CASE GotoAndNotify(a, "free")
      BY <2>2, <3>2, MovedAndNotified DEF TypeInv, TypeOK, Listening, Looping
    <3> QED
      BY <2>1, <3>1, <3>2
  <2> QED
    BY <2>1, <2>3 DEF OpenInv
<1>9. ASSUME NEW a \in Actors, Free(a)
      PROVE  OpenInv'
  <2>1. PICK h \in live :
          /\ pc[a] = "free" /\ Dying(a, h) /\ live' = live \ {h}
          /\ Goto(a, "drop") \/ Goto(a, "gone")
          /\ UNCHANGED <<state_tag, messages, lock, sent>>
    BY <1>9 DEF Free
  <2>2. IsFiniteSet(live')
    BY <2>1, FS_RemoveElement DEF OpenInv
  <2>3. CASE a = Frame
    BY <2>1, <2>2, <2>3 DEF TypeInv, TypeOK, OpenInv, Listening, Goto, Sending, Leaving, Looping
  <2>4. CASE a \in Producers
    <3>1. h \notin FourHandles
      BY <2>1, <2>4, DyingOwn
    <3>2. FourHandles' = FourHandles
      BY DEF FourHandles, Handle
    <3> QED
      BY <2>1, <2>2, <2>4, <3>1, <3>2 DEF TypeInv, TypeOK, OpenInv, Listening, Goto, Sending, Leaving, Looping
  <2> QED
    BY <2>3, <2>4 DEF Actors
<1>10. ASSUME Spawn
      PROVE  OpenInv'
  <2>1. IsFiniteSet(live')
    BY <1>10, FS_AddElement DEF OpenInv, Spawn
  <2> QED
    BY <1>10, <2>1 DEF TypeInv, TypeOK, OpenInv, Listening, Spawn, Goto, Sending, Leaving, Looping
<1>11. ASSUME Spawned
      PROVE  OpenInv'
  BY <1>11 DEF TypeInv, TypeOK, OpenInv, Listening, Spawned, Goto, Sending, Leaving, Looping
<1>12. ASSUME Lock
      PROVE  OpenInv'
  BY <1>12 DEF TypeInv, TypeOK, OpenInv, Listening, Lock, Acquire, Goto, Sending, Leaving, Looping
<1>13. ASSUME Switch
      PROVE  OpenInv'
  BY <1>13 DEF TypeInv, TypeOK, OpenInv, Listening, Switch, Goto, Sending, Leaving, Looping
<1>14. ASSUME Take
      PROVE  OpenInv'
  BY <1>14 DEF TypeInv, TypeOK, OpenInv, Listening, Take, Goto, Sending, Leaving, Looping
<1>15. ASSUME Wait
      PROVE  OpenInv'
  BY <1>15 DEF TypeInv, TypeOK, OpenInv, Listening, Wait, Goto, Sending, Leaving, Looping
<1>16. ASSUME FallAsleep
      PROVE  OpenInv'
  BY <1>16 DEF TypeInv, TypeOK, OpenInv, Listening, FallAsleep, Goto, Sending, Leaving, Looping
<1>17. ASSUME Rewait
      PROVE  OpenInv'
  BY <1>17 DEF TypeInv, TypeOK, OpenInv, Listening, Rewait, Acquire, Goto, Sending, Leaving, Looping
<1>18. ASSUME SpuriousWakeup
      PROVE  OpenInv'
  BY <1>18 DEF TypeInv, TypeOK, OpenInv, Listening, SpuriousWakeup, Goto, Sending, Leaving, Looping
<1>19. ASSUME UNCHANGED vars
      PROVE  OpenInv'
  BY <1>19 DEF TypeInv, TypeOK, OpenInv, Listening, vars, Goto, Sending, Leaving, Looping
<1> QED
  BY <1>1, <1>2, <1>3, <1>4, <1>5, <1>6, <1>7, <1>8, <1>9, <1>10, <1>11, <1>12, <1>13, <1>14, <1>15, <1>16, <1>17, <1>18,
     <1>19 DEF Next, ProducerSteps, FrameSteps, Actors

-----------------------------------------------------------------------------
(* Every step keeps the tag in line with the queue.                        *)

LEMMA QueueStep ==
  ASSUME TypeInv, LockInv, OpenInv, QueueInv, [Next]_vars
  PROVE  QueueInv'
<1> USE MpscAssumption
<1> Frame \in Actors /\ Producers \subseteq Actors /\ Frame \notin Producers
  BY DEF Actors
<1> \A a \in Actors : NoActor # a
  BY DEF Actors
<1>1. ASSUME NEW p \in Producers, Begin(p)
      PROVE  QueueInv'
  BY <1>1 DEF TypeInv, TypeOK, LockInv, OpenInv, QueueInv, Listening, Begin, Goto, Sending, Leaving, Looping
<1>2. ASSUME NEW p \in Producers, CallSend(p)
      PROVE  QueueInv'
  BY <1>2 DEF TypeInv, TypeOK, LockInv, OpenInv, QueueInv, Listening, CallSend, Goto, Sending, Leaving, Looping
<1>3. ASSUME NEW p \in Producers, Push(p)
      PROVE  QueueInv'
  BY <1>3 DEF TypeInv, TypeOK, LockInv, OpenInv, QueueInv, Listening, Push, Acquire, Goto, Sending, Leaving, Looping
<1>4. ASSUME NEW p \in Producers, CheckTag(p)
      PROVE  QueueInv'
  BY <1>4 DEF TypeInv, TypeOK, LockInv, OpenInv, QueueInv, Listening, CheckTag, Goto, Sending, Leaving, Looping
<1>5. ASSUME NEW p \in Producers, Publish(p)
      PROVE  QueueInv'
  BY <1>5, MovedAndNotified DEF TypeInv, TypeOK, LockInv, OpenInv, QueueInv, Listening, Publish, Sending, Leaving, Looping
<1>6. ASSUME NEW p \in Producers, Finish(p)
      PROVE  QueueInv'
  BY <1>6 DEF TypeInv, TypeOK, LockInv, OpenInv, QueueInv, Listening, Finish, Goto, Sending, Leaving, Looping
<1>7. ASSUME NEW a \in Actors, Drop(a)
      PROVE  QueueInv'
  BY <1>7 DEF TypeInv, TypeOK, LockInv, OpenInv, QueueInv, Listening, Drop, Goto, Sending, Leaving, Looping
<1>8. ASSUME NEW a \in Actors, Mark(a)
      PROVE  QueueInv'
  <2>1. /\ Goto(a, "free") \/ GotoAndNotify(a, "free")
        /\ pc[a] = "mark" /\ state_tag' = "DISCONNECTED"
        /\ UNCHANGED <<messages, lock, live, sent>>
    BY <1>8 DEF Mark
  <2>2. ~Listening
    BY <2>1 DEF OpenInv, Listening, Looping, Actors
  <2>3. /\ ~Listening' /\ pc'[Frame] \notin {"dozing", "asleep", "take"}
        /\ \A p \in Producers : p # a => pc'[p] = pc[p]
        /\ pc'[a] = "free"
    <3>1. CASE Goto(a, "free")
      BY <2>2, <3>1 DEF TypeInv, TypeOK, Listening, Goto, Looping
    <3>2. CASE GotoAndNotify(a, "free")
      BY <2>2, <3>2, MovedAndNotified DEF TypeInv, TypeOK, Listening, Looping
    <3> QED
      BY <2>1, <3>1, <3>2
  <2> QED
    BY <2>1, <2>3 DEF QueueInv
<1>9. ASSUME NEW a \in Actors, Free(a)
      PROVE  QueueInv'
  BY <1>9 DEF TypeInv, TypeOK, LockInv, OpenInv, QueueInv, Listening, Free, Goto, Sending, Leaving, Looping
<1>10. ASSUME Spawn
      PROVE  QueueInv'
  BY <1>10 DEF TypeInv, TypeOK, LockInv, OpenInv, QueueInv, Listening, Spawn, Goto, Sending, Leaving, Looping
<1>11. ASSUME Spawned
      PROVE  QueueInv'
  BY <1>11 DEF TypeInv, TypeOK, LockInv, OpenInv, QueueInv, Listening, Spawned, Goto, Sending, Leaving, Looping
<1>12. ASSUME Lock
      PROVE  QueueInv'
  BY <1>12 DEF TypeInv, TypeOK, LockInv, OpenInv, QueueInv, Listening, Lock, Acquire, Goto, Sending, Leaving, Looping
<1>13. ASSUME Switch
      PROVE  QueueInv'
  BY <1>13 DEF TypeInv, TypeOK, LockInv, OpenInv, QueueInv, Listening, Switch, Goto, Sending, Leaving, Looping
<1>14. ASSUME Take
      PROVE  QueueInv'
  BY <1>14 DEF TypeInv, TypeOK, LockInv, OpenInv, QueueInv, Listening, Take, Goto, Sending, Leaving, Looping
<1>15. ASSUME Wait
      PROVE  QueueInv'
  BY <1>15 DEF TypeInv, TypeOK, LockInv, OpenInv, QueueInv, Listening, Wait, Goto, Sending, Leaving, Looping
<1>16. ASSUME FallAsleep
      PROVE  QueueInv'
  BY <1>16 DEF TypeInv, TypeOK, LockInv, OpenInv, QueueInv, Listening, FallAsleep, Goto, Sending, Leaving, Looping
<1>17. ASSUME Rewait
      PROVE  QueueInv'
  BY <1>17 DEF TypeInv, TypeOK, LockInv, OpenInv, QueueInv, Listening, Rewait, Acquire, Goto, Sending, Leaving, Looping
<1>18. ASSUME SpuriousWakeup
      PROVE  QueueInv'
  BY <1>18 DEF TypeInv, TypeOK, LockInv, OpenInv, QueueInv, Listening, SpuriousWakeup, Goto, Sending, Leaving, Looping
<1>19. ASSUME UNCHANGED vars
      PROVE  QueueInv'
  BY <1>19 DEF TypeInv, TypeOK, LockInv, OpenInv, QueueInv, Listening, vars, Goto, Sending, Leaving, Looping
<1> QED
  BY <1>1, <1>2, <1>3, <1>4, <1>5, <1>6, <1>7, <1>8, <1>9, <1>10, <1>11, <1>12, <1>13, <1>14, <1>15, <1>16, <1>17, <1>18,
     <1>19 DEF Next, ProducerSteps, FrameSteps, Actors

-----------------------------------------------------------------------------
(* The invariant, and the theorems that follow from it.                    *)

LEMMA Invariance == Spec => []IInv
<1> USE MpscAssumption
<1> Frame \in Actors /\ Producers \subseteq Actors /\ Frame \notin Producers
  BY DEF Actors
<1>1. Init => IInv
  <2> SUFFICES ASSUME Init
               PROVE  IInv
    OBVIOUS
  <2>1. live = FourHandles /\ IsFiniteSet(live)
    BY FrameFour, FourCount DEF Init
  <2>2. live \subseteq Handles
    <3>1. HandlesOf(Frame) = FrameHandles /\ DOMAIN FrameHandles = 1..4
      BY DEF HandlesOf, FrameHandles
    <3>2. {HandlesOf(Frame)[i] : i \in DOMAIN HandlesOf(Frame)} \subseteq Handles
      BY DEF Handles
    <3> QED
      BY <3>1, <3>2, FrameFour, <2>1
  <2>3. TypeInv
    BY <2>2 DEF Init, TypeInv, TypeOK, Sending, Leaving, Looping
  <2>4. LockInv
    BY DEF Init, LockInv, Actors
  <2>5. OpenInv /\ QueueInv
    BY <2>1 DEF Init, OpenInv, QueueInv, Listening
  <2> QED
    BY <2>3, <2>4, <2>5 DEF IInv
<1>2. IInv /\ [Next]_vars => IInv'
  BY TypeStep, LockStep, OpenStep, QueueStep DEF IInv
<1> QED
  BY <1>1, <1>2, PTL DEF Spec

(* Every variable keeps its type.                                          *)
THEOREM Typing == Spec => []TypeOK
<1>1. IInv => TypeOK
  BY DEF IInv, TypeInv
<1> QED
  BY <1>1, Invariance, PTL

(* receive never pops an empty queue, although the destructors write the   *)
(* tag without the mutex (channel.h:120-127, 166-173).                     *)
THEOREM Availability == Spec => []NeverTakesFromEmpty
<1>1. IInv => NeverTakesFromEmpty
  BY DEF IInv, QueueInv, NeverTakesFromEmpty
<1> QED
  BY <1>1, Invariance, PTL

(* The receiver never sleeps over a message that has been published: the   *)
(* predicate and the notification of channel.h:137-139, 174-181 leave no   *)
(* window.                                                                 *)
THEOREM Wakefulness == Spec => []NoLostWakeup
<1>1. IInv => NoLostWakeup
  <2> SUFFICES ASSUME IInv, pc[Frame] = "asleep", messages # <<>>
               PROVE  \E p \in Producers : pc[p] \in {"check", "publish"} /\ lock = p
    BY DEF NoLostWakeup
  <2>1. lock \in Producers
    BY DEF IInv, QueueInv, Listening, Looping
  <2>2. pc[lock] \in {"switch", "take", "wait", "dozing", "check", "publish"}
    BY <2>1 DEF IInv, LockInv, Actors
  <2>3. pc[lock] \in {"check", "publish"}
    BY <2>1, <2>2 DEF IInv, TypeInv, Sending, Leaving
  <2> QED
    BY <2>1, <2>3
<1> QED
  BY <1>1, Invariance, PTL

(* The channel stays open while the frame receives: its own four handles   *)
(* keep use_count above the bound of ~Sender (channel.h:120-127).          *)
THEOREM Openness == Spec => []OpenWhileLooping
<1>1. IInv => OpenWhileLooping
  BY DEF IInv, OpenInv, Listening, OpenWhileLooping
<1> QED
  BY <1>1, Invariance, PTL

-----------------------------------------------------------------------------
(* Implementation of the abstract channel.  Push is its Send, the end of a *)
(* producer its Leave, Take its Receive; every other step stutters.        *)

LEMMA Stutter ==
  ASSUME UNCHANGED messages,
         \A p \in Producers : (pc'[p] = "gone") = (pc[p] = "gone"),
         (pc'[Frame] \in {"spawn"} \cup Looping) = (pc[Frame] \in {"spawn"} \cup Looping)
  PROVE  UNCHANGED Fifo!vars
<1>1. {p \in Producers : pc'[p] # "gone"} = {p \in Producers : pc[p] # "gone"}
  OBVIOUS
<1> QED
  BY <1>1 DEF Fifo!vars, Looping

LEMMA FifoStep ==
  ASSUME IInv, [Next]_vars
  PROVE  [Fifo!Next]_(Fifo!vars)
<1> USE MpscAssumption
<1> Frame \in Actors /\ Producers \subseteq Actors /\ Frame \notin Producers
  BY DEF Actors
<1> TypeInv /\ TypeOK /\ QueueInv /\ OpenInv
  BY DEF IInv, TypeInv
<1>1. ASSUME NEW p \in Producers, Begin(p)
      PROVE  [Fifo!Next]_(Fifo!vars)
  BY <1>1, Stutter DEF TypeOK, Begin, Goto, Looping
<1>2. ASSUME NEW p \in Producers, CallSend(p)
      PROVE  [Fifo!Next]_(Fifo!vars)
  BY <1>2, Stutter DEF TypeOK, CallSend, Goto, Looping
<1>3. ASSUME NEW p \in Producers, Push(p)
      PROVE  [Fifo!Next]_(Fifo!vars)
  <2>1. PICK exit \in BOOLEAN :
          /\ pc[p] = "send"
          /\ messages' = Append(messages, [from |-> p, seq |-> sent[p], exit |-> exit])
          /\ Goto(p, "check")
    BY <1>3 DEF Push
  <2>2. [from |-> p, seq |-> sent[p], exit |-> exit] \in Message
    BY <2>1 DEF TypeInv, TypeOK, Message
  <2>3. p \in {q \in Producers : pc[q] # "gone"}
    BY <2>1
  <2>4. /\ {q \in Producers : pc'[q] # "gone"} = {q \in Producers : pc[q] # "gone"}
        /\ pc'[Frame] = pc[Frame]
    BY <2>1 DEF TypeOK, Goto
  <2>5. Fifo!Send
    BY <2>1, <2>2, <2>3, <2>4 DEF Fifo!Send, Looping
  <2> QED
    BY <2>5 DEF Fifo!Next
<1>4. ASSUME NEW p \in Producers, CheckTag(p)
      PROVE  [Fifo!Next]_(Fifo!vars)
  BY <1>4, Stutter DEF TypeOK, CheckTag, Goto, Looping
<1>5. ASSUME NEW p \in Producers, Publish(p)
      PROVE  [Fifo!Next]_(Fifo!vars)
  BY <1>5, Stutter, MovedAndNotified DEF TypeInv, TypeOK, Publish, Looping
<1>6. ASSUME NEW p \in Producers, Finish(p)
      PROVE  [Fifo!Next]_(Fifo!vars)
  BY <1>6, Stutter DEF TypeOK, Finish, Goto, Looping
<1>7. ASSUME NEW a \in Actors, Drop(a)
      PROVE  [Fifo!Next]_(Fifo!vars)
  BY <1>7, Stutter DEF TypeOK, Drop, Goto, Looping
<1>8. ASSUME NEW a \in Actors, Mark(a)
      PROVE  [Fifo!Next]_(Fifo!vars)
  <2>1. pc[a] = "mark" /\ UNCHANGED messages /\ (Goto(a, "free") \/ GotoAndNotify(a, "free"))
    BY <1>8 DEF Mark
  <2>2. CASE Goto(a, "free")
    BY <2>1, <2>2, Stutter DEF TypeOK, Goto, Looping
  <2>3. CASE GotoAndNotify(a, "free")
    BY <2>1, <2>3, Stutter, MovedAndNotified DEF TypeOK, Looping
  <2> QED
    BY <2>1, <2>2, <2>3
<1>9. ASSUME NEW a \in Actors, Free(a)
      PROVE  [Fifo!Next]_(Fifo!vars)
  <2>1. pc[a] = "free" /\ UNCHANGED messages /\ (Goto(a, "drop") \/ Goto(a, "gone"))
    BY <1>9 DEF Free
  <2>2. CASE Goto(a, "drop") \/ a = Frame
    BY <2>1, <2>2, Stutter DEF TypeOK, Goto, Looping
  <2>3. CASE Goto(a, "gone") /\ a \in Producers
    <3>1. {q \in Producers : pc'[q] # "gone"} = {q \in Producers : pc[q] # "gone"} \ {a}
      BY <2>3 DEF TypeOK, Goto
    <3>2. a \in {q \in Producers : pc[q] # "gone"} /\ pc'[Frame] = pc[Frame]
      BY <2>1, <2>3 DEF TypeOK, Goto
    <3>3. Fifo!Leave
      BY <2>1, <3>1, <3>2 DEF Fifo!Leave, Looping
    <3> QED
      BY <3>3 DEF Fifo!Next
  <2> QED
    BY <2>1, <2>2, <2>3 DEF Actors
<1>10. ASSUME Spawn
      PROVE  [Fifo!Next]_(Fifo!vars)
  BY <1>10, Stutter DEF TypeOK, Spawn, Goto, Looping
<1>11. ASSUME Spawned
      PROVE  [Fifo!Next]_(Fifo!vars)
  BY <1>11, Stutter DEF TypeOK, Spawned, Goto, Looping
<1>12. ASSUME Lock
      PROVE  [Fifo!Next]_(Fifo!vars)
  BY <1>12, Stutter DEF TypeOK, Lock, Goto, Looping
<1>13. ASSUME Switch
      PROVE  [Fifo!Next]_(Fifo!vars)
  <2>1. /\ pc[Frame] = "switch" /\ UNCHANGED messages
        /\ Goto(Frame, "take") \/ Goto(Frame, "wait")
    BY <1>13 DEF Switch, TypeOK, OpenInv, Listening, Looping
  <2> QED
    BY <2>1, Stutter DEF TypeOK, Goto, Looping
<1>14. ASSUME Take
      PROVE  [Fifo!Next]_(Fifo!vars)
  <2>1. messages # <<>> /\ messages' = Tail(messages)
    BY <1>14 DEF Take, QueueInv
  <2>2. Head(messages).exit \in BOOLEAN
    <3>1. messages[1] \in Message /\ Head(messages) = messages[1]
      BY <2>1 DEF TypeOK
    <3> QED
      BY <3>1 DEF Message
  <2>3. /\ {q \in Producers : pc'[q] # "gone"} = {q \in Producers : pc[q] # "gone"}
        /\ pc[Frame] = "take"
        /\ pc'[Frame] = IF Head(messages).exit THEN "drop" ELSE "receive"
    BY <1>14 DEF Take, TypeOK, Goto
  <2>4. /\ pc[Frame] \in {"spawn"} \cup Looping
        /\ (pc'[Frame] \in {"spawn"} \cup Looping) = ~Head(messages).exit
    BY <2>2, <2>3 DEF Looping
  <2>5. Fifo!Receive
    BY <2>1, <2>3, <2>4 DEF Fifo!Receive, Looping
  <2> QED
    BY <2>5 DEF Fifo!Next
<1>15. ASSUME Wait
      PROVE  [Fifo!Next]_(Fifo!vars)
  BY <1>15, Stutter DEF TypeOK, Wait, Goto, Looping
<1>16. ASSUME FallAsleep
      PROVE  [Fifo!Next]_(Fifo!vars)
  BY <1>16, Stutter DEF TypeOK, FallAsleep, Goto, Looping
<1>17. ASSUME Rewait
      PROVE  [Fifo!Next]_(Fifo!vars)
  BY <1>17, Stutter DEF TypeOK, Rewait, Goto, Looping
<1>18. ASSUME SpuriousWakeup
      PROVE  [Fifo!Next]_(Fifo!vars)
  BY <1>18, Stutter DEF TypeOK, SpuriousWakeup, Goto, Looping
<1>19. ASSUME UNCHANGED vars
      PROVE  [Fifo!Next]_(Fifo!vars)
  BY <1>19, Stutter DEF vars
<1> QED
  BY <1>1, <1>2, <1>3, <1>4, <1>5, <1>6, <1>7, <1>8, <1>9, <1>10, <1>11, <1>12, <1>13, <1>14, <1>15, <1>16, <1>17, <1>18,
     <1>19 DEF Next, ProducerSteps, FrameSteps, Actors

(* The mutex, the tag and the condition variable amount to the channel     *)
(* that channel.h describes: each message once, in order, and none lost.   *)
THEOREM Refinement == Spec => ImplementsFifo
<1>1. Init => Fifo!Init
  <2> SUFFICES ASSUME Init
               PROVE  Fifo!Init
    OBVIOUS
  <2>1. \A p \in Producers : pc[p] = "unborn"
    BY MpscAssumption DEF Init, Actors
  <2>2. pc[Frame] = "spawn"
    BY DEF Init, Actors
  <2>3. {p \in Producers : pc[p] # "gone"} = Producers
    BY <2>1
  <2> QED
    BY <2>2, <2>3 DEF Init, Fifo!Init
<1>2. IInv /\ [Next]_vars => [Fifo!Next]_(Fifo!vars)
  BY FifoStep
<1> QED
  BY <1>1, <1>2, Invariance, PTL DEF Spec, ImplementsFifo, Fifo!Spec

=============================================================================
