--------------------------- MODULE SleepNetwork_proofs ---------------------------
(***************************************************************************)
(* What holds of participants and managers for every set of hosts, host    *)
(* names and signals, and for every bound.                                 *)
(*                                                                         *)
(* The inductive invariant follows a datagram from its sender to the       *)
(* socket it waits in.  What is in the network, or in a socket, is         *)
(* Genuine: it says something that was true when it was sent and that      *)
(* nothing can make untrue.  Who takes it may rely on it, however late.    *)
(***************************************************************************)
EXTENDS SleepNetwork, SequenceTheorems, TLAPS

LeavingLabels == {"leave", "open_exit", "await_exit"}

Connected(p) == pc[p]["main"] \in {"install", "listen"} \cup LeavingLabels

(* Which labels a thread may have, and what they say of the process.       *)
ThreadOK(p) ==
  /\ pc[p]["main"] \in Labels \ {"open_wol", "handle_wol"}
  /\ pc[p]["wake"] \in {"idle", "open_wol", "handle_wol"}
  /\ \A h \in Handlers :
       /\ pc[p][h] \in {"idle"} \cup LeavingLabels
       /\ pc[p][h] # "idle" => Connected(p)
  /\ IF process[p] = "running"
       THEN pc[p]["main"] # "idle"
       ELSE \A t \in Threads : pc[p][t] = "idle"
  /\ Connected(p) => manager_ip[p] \in Managers

ThreadInv == \A p \in Participants : ThreadOK(p)

(* A participant's port is bound exactly while a thread waits at it.       *)
PortOK(p) ==
  /\ <<p, DISCOVERY_PARTICIPANT_PORT>> \in Bound <=> pc[p]["main"] = "await_answer"
  /\ <<p, WOL_PARTICIPANT_PORT>> \in Bound <=> pc[p]["wake"] = "handle_wol"
  /\ <<p, EXIT_PORT>> \in Bound <=> \E t \in Threads : pc[p][t] = "await_exit"
  /\ \A t, u \in Threads : pc[p][t] = "await_exit" /\ pc[p][u] = "await_exit" => t = u

PortInv == \A p \in Participants : PortOK(p)

(* Station p, or another of its name, is listed by m, unless m has ended   *)
(* or one of that name has said goodbye.                                   *)
Listed(p, m) ==
  /\ m \in up
  /\ \A q \in Participants : NameOf[q] = NameOf[p] => <<q, m>> \notin farewells
  => \E q \in table[m] : NameOf[q] = NameOf[p]

(* What each kind of datagram tells.                                       *)
Genuine(d) ==
  /\ d.kind = "DISCOVERY" => d.from \in Participants /\ d.to \in Managers
  /\ d.kind = "ANSWER" => /\ d.from \in Managers /\ d.to \in Participants
                          /\ Listed(d.to, d.from)
  /\ d.kind = "EXIT" /\ d.from \in Participants => <<d.from, d.to>> \in farewells
  /\ d.kind = "MAGIC" => d.to \in Participants

Contents(s) == {queue[s][i] : i \in 1..Len(queue[s])}

MailInv ==
  /\ \A d \in net : Genuine(d)
  /\ \A s \in Bound : \A d \in Contents(s) : Genuine(d) /\ s = <<d.to, PortOf(d.kind)>>

(* What those rely on who have taken an answer, or are about to give one,  *)
(* and what those have said who leave.                                     *)
PromiseInv ==
  /\ \A m \in Managers, p \in Participants : answering[m][p] > 0 => Listed(p, m)
  /\ \A p \in Participants : Connected(p) => Listed(p, manager_ip[p])
  /\ \A p \in Participants, t \in Threads :
       pc[p][t] \in {"open_exit", "await_exit"} => <<p, manager_ip[p]>> \in farewells

IInv ==
  /\ TypeOK
  /\ ThreadInv
  /\ PortInv
  /\ MailInv
  /\ PromiseInv

-----------------------------------------------------------------------------
(* What the operations of a socket do to the datagrams that wait.          *)

QueueType ==
  /\ queue \in [Bound -> Seq(Datagram)]
  /\ \A s \in Bound : Len(queue[s]) <= MaxQueue

(* Nothing waits that did not wait there before, but what was under way to *)
(* this socket.                                                            *)
Kept ==
  /\ QueueType'
  /\ \A s \in Bound' : \A d \in Contents(s)' :
       \/ s \in Bound /\ d \in Contents(s)
       \/ d \in net /\ s = <<d.to, PortOf(d.kind)>>

LEMMA KeptQueue ==
  ASSUME QueueType, UNCHANGED queue
  PROVE  Kept /\ Bound' = Bound
  BY DEF QueueType, Kept, Contents, Bound

LEMMA RestrictedQueue ==
  ASSUME QueueType, NEW sockets \in SUBSET Bound, queue' = [s \in sockets |-> queue[s]]
  PROVE  Kept /\ Bound' = sockets
  BY DEF QueueType, Kept, Contents, Bound

LEMMA BoundQueue ==
  ASSUME QueueType, NEW socket, Bind(socket)
  PROVE  Kept /\ Bound' = Bound \cup {socket}
<1>1. Bound' = Bound \cup {socket}
  BY DEF Bind, Bound
<1>2. \A s \in Bound' : queue'[s] = IF s = socket THEN <<>> ELSE queue[s]
  BY DEF Bind, Bound
<1>3. <<>> \in Seq(Datagram) /\ Len(<<>>) = 0
  BY EmptySeq
<1>4. QueueType'
  BY <1>1, <1>2, <1>3, NetworkAssumption DEF Bind, Bound, QueueType
<1> QED
  BY <1>1, <1>2, <1>3, <1>4 DEF Kept, Contents

LEMMA HeadWaits ==
  ASSUME QueueType, NEW socket \in Bound, queue[socket] # <<>>
  PROVE  Head(queue[socket]) \in Datagram /\ Head(queue[socket]) \in Contents(socket)
<1>1. queue[socket] \in Seq(Datagram)
  BY DEF QueueType
<1>2. /\ Head(queue[socket]) = queue[socket][1] /\ Head(queue[socket]) \in Datagram
      /\ Len(queue[socket]) \in Nat \ {0}
  BY <1>1, HeadTailProperties, EmptySeq
<1> QED
  BY <1>2 DEF Contents

LEMMA PoppedQueue ==
  ASSUME QueueType, NEW socket \in Bound, queue[socket] # <<>>, Pop(socket)
  PROVE  /\ Kept /\ Bound' = Bound
         /\ Head(queue[socket]) \in Datagram /\ Head(queue[socket]) \in Contents(socket)
<1> DEFINE tail == Tail(queue[socket])
<1>1. /\ queue[socket] \in Seq(Datagram) /\ Len(queue[socket]) <= MaxQueue
      /\ Bound' = Bound /\ queue' = [queue EXCEPT ![socket] = tail]
  BY DEF QueueType, Pop, Bound
<1>2. /\ tail \in Seq(Datagram)
      /\ Len(queue[socket]) \in Nat \ {0} /\ Len(tail) = Len(queue[socket]) - 1
      /\ \A i \in 1..Len(tail) : tail[i] = queue[socket][i + 1]
  BY <1>1, HeadTailProperties, EmptySeq
<1> HIDE DEF tail
<1>4. QueueType'
  BY <1>1, <1>2, NetworkAssumption DEF QueueType, Bound
<1>5. \A s \in Bound : \A d \in Contents(s)' : d \in Contents(s)
  <2> SUFFICES ASSUME NEW s \in Bound, NEW d \in Contents(s)'
               PROVE  d \in Contents(s)
    OBVIOUS
  <2>1. CASE s = socket
    <3>1. PICK i \in 1..Len(tail) : d = tail[i]
      BY <1>1, <2>1 DEF Contents, QueueType
    <3>2. i + 1 \in 1..Len(queue[socket])
      BY <1>2
    <3> QED
      BY <1>2, <2>1, <3>1, <3>2 DEF Contents
  <2>2. CASE s # socket
    BY <1>1, <2>2 DEF Contents, QueueType
  <2> QED
    BY <2>1, <2>2
<1> QED
  BY <1>1, <1>4, <1>5, HeadWaits DEF Kept

LEMMA PushedQueue ==
  ASSUME QueueType, NEW d \in net, d \in Datagram, Deliver(d)
  PROVE  Kept /\ Bound' = Bound
<1> DEFINE socket == <<d.to, PortOf(d.kind)>>
<1>1. CASE socket \in Bound /\ Len(queue[socket]) < MaxQueue
  <2> DEFINE longer == Append(queue[socket], d)
  <2>1. /\ queue[socket] \in Seq(Datagram) /\ Len(queue[socket]) \in Nat
        /\ queue' = [queue EXCEPT ![socket] = longer] /\ Bound' = Bound
    BY <1>1, LenProperties DEF QueueType, Deliver, Bound
  <2>2. /\ longer \in Seq(Datagram) /\ Len(longer) = Len(queue[socket]) + 1
        /\ \A i \in 1..Len(longer) :
             longer[i] = IF i <= Len(queue[socket]) THEN queue[socket][i] ELSE d
    BY <2>1, AppendProperties
  <2> HIDE DEF longer
  <2>3. QueueType'
    BY <1>1, <2>1, <2>2, NetworkAssumption DEF QueueType, Bound
  <2>4. \A s \in Bound : \A e \in Contents(s)' : e \in Contents(s) \/ (e = d /\ s = socket)
    <3> HIDE DEF socket
    <3> SUFFICES ASSUME NEW s \in Bound, NEW e \in Contents(s)'
                 PROVE  e \in Contents(s) \/ (e = d /\ s = socket)
      OBVIOUS
    <3>1. CASE s = socket
      <4>1. PICK i \in 1..Len(longer) : e = longer[i]
        BY <2>1, <3>1 DEF Contents, QueueType
      <4>2. CASE i <= Len(queue[socket])
        BY <2>1, <2>2, <3>1, <4>1, <4>2 DEF Contents
      <4>3. CASE ~(i <= Len(queue[socket]))
        BY <2>2, <3>1, <4>1, <4>3
      <4> QED
        BY <4>2, <4>3
    <3>2. CASE s # socket
      BY <2>1, <3>2 DEF Contents, QueueType
    <3> QED
      BY <3>1, <3>2
  <2> QED
    BY <2>1, <2>3, <2>4 DEF Kept
<1>2. CASE ~(socket \in Bound /\ Len(queue[socket]) < MaxQueue)
  BY <1>2, KeptQueue DEF Deliver
<1> QED
  BY <1>1, <1>2

-----------------------------------------------------------------------------
(* What a step does to the threads of the participants and to the sockets. *)

ProcessType ==
  /\ process \in [Participants -> {"running", "ended", "aborted"}]
  /\ pc \in [Participants -> [Threads -> Labels]]
  /\ manager_ip \in [Participants -> Managers \cup {NoManager}]
  /\ starts \in [Participants -> 0..MaxStarts]

BoundOK ==
  /\ Managers \X ManagerPorts \cap Bound = up \X ManagerPorts
  /\ Bound \subseteq Sockets

Local == ProcessType /\ QueueType /\ BoundOK /\ ThreadInv /\ PortInv

(* What Local becomes in a step.                                           *)
Moved == ProcessType' /\ Kept /\ BoundOK' /\ ThreadInv' /\ PortInv'

(* The participants that have no part in a step.                           *)
Untouched(q) ==
  /\ process'[q] = process[q]
  /\ manager_ip'[q] = manager_ip[q]
  /\ \A t \in Threads : pc'[q][t] = pc[q][t]
  /\ \A port \in ParticipantPorts : <<q, port>> \in Bound' <=> <<q, port>> \in Bound

LEMMA UntouchedOK ==
  ASSUME NEW q \in Participants, ThreadOK(q), PortOK(q), Untouched(q)
  PROVE  ThreadOK(q)' /\ PortOK(q)'
<1>1. ThreadOK(q)'
  BY DEF ThreadOK, Untouched, Connected, Threads
<1>2. PortOK(q)'
  BY DEF PortOK, Untouched, Threads, ParticipantPorts
<1> QED
  BY <1>1, <1>2

LEMMA OneMoved ==
  ASSUME ThreadInv, PortInv, NEW p \in Participants,
         \A q \in Participants \ {p} : Untouched(q), ThreadOK(p)', PortOK(p)'
  PROVE  ThreadInv' /\ PortInv'
<1> SUFFICES ASSUME NEW q \in Participants
             PROVE  ThreadOK(q)' /\ PortOK(q)'
  BY DEF ThreadInv, PortInv
<1>1. CASE q = p
  BY <1>1
<1>2. CASE q # p
  BY <1>2, UntouchedOK DEF ThreadInv, PortInv
<1> QED
  BY <1>1, <1>2

LEMMA GotoEffect ==
  ASSUME ProcessType, NEW p \in Participants, NEW t \in Threads, NEW label \in Labels,
         Goto(p, t, label)
  PROVE  /\ pc' \in [Participants -> [Threads -> Labels]]
         /\ \A q \in Participants, u \in Threads :
              pc'[q][u] = IF q = p /\ u = t THEN label ELSE pc[q][u]
  BY DEF ProcessType, Goto

LEMMA EndEffect ==
  ASSUME Local, UNCHANGED up, NEW p \in Participants, NEW fate \in {"ended", "aborted"},
         End(p, fate)
  PROVE  Moved
<1> DEFINE left == {b \in Bound : b[1] # p}
<1>1. Kept /\ Bound' = left
  BY RestrictedQueue DEF End, Local
<1>2. ProcessType'
  BY DEF End, Local, ProcessType, Labels
<1>3. BoundOK'
  BY <1>1, NetworkAssumption DEF Local, BoundOK
<1>4. ASSUME NEW q \in Participants \ {p}
      PROVE  Untouched(q)
  BY <1>1 DEF End, Local, ProcessType, Untouched
<1>5. process'[p] = fate /\ \A t \in Threads : pc'[p][t] = "idle"
  BY DEF End, Local, ProcessType
<1>6. ThreadOK(p)'
  BY <1>5, NetworkAssumption DEF ThreadOK, Connected, Threads, Labels, LeavingLabels
<1>7. PortOK(p)'
  BY <1>1, <1>5 DEF PortOK, Threads
<1> QED
  BY <1>1, <1>2, <1>3, <1>4, <1>6, <1>7, OneMoved DEF Moved, Local

(* A step that leaves the participants alone.                              *)
LEMMA NobodyMoves ==
  ASSUME Local, UNCHANGED participantVars, Kept, BoundOK',
         \A s \in Participants \X ParticipantPorts : s \in Bound' <=> s \in Bound
  PROVE  Moved
<1>1. ProcessType'
  BY DEF Local, ProcessType, participantVars
<1>2. \A q \in Participants : Untouched(q)
  BY DEF Untouched, participantVars
<1>3. ThreadInv' /\ PortInv'
  BY <1>2, UntouchedOK DEF Local, ThreadInv, PortInv
<1> QED
  BY <1>1, <1>3 DEF Moved

(* A thread that goes from one label to another, and no socket is made or  *)
(* closed.                                                                 *)
LEMMA GoingMoves ==
  ASSUME Local, UNCHANGED <<process, manager_ip, starts, up>>,
         NEW p \in Participants, NEW t \in Threads, NEW label \in Labels \ {"await_answer", "await_exit", "handle_wol"},
         Goto(p, t, label), Kept, Bound' = Bound,
         pc[p][t] \notin {"await_answer", "await_exit", "handle_wol"},
         ThreadOK(p)'
  PROVE  Moved
<1>1. ProcessType'
  BY GotoEffect DEF Local, ProcessType
<1>2. BoundOK'
  BY DEF Local, BoundOK
<1>3. \A q \in Participants, u \in Threads :
        pc'[q][u] = IF q = p /\ u = t THEN label ELSE pc[q][u]
  BY GotoEffect DEF Local
<1>4. ASSUME NEW q \in Participants \ {p}
      PROVE  Untouched(q)
  BY <1>3 DEF Untouched
<1>5. PortOK(p)'
  BY <1>3 DEF Local, PortInv, PortOK, Threads
<1> QED
  BY <1>1, <1>2, <1>4, <1>5, OneMoved DEF Moved, Local

(* The main thread goes on, while no handler keeps it from that.           *)
LEMMA MainOK ==
  ASSUME Local, UNCHANGED process,
         NEW p \in Participants, NEW label \in Labels \ {"open_wol", "handle_wol", "idle"},
         pc[p]["main"] # "idle", ~Suspended(p, "main"), Goto(p, "main", label),
         label \in {"install", "listen"} \cup LeavingLabels => manager_ip'[p] \in Managers
  PROVE  ThreadOK(p)'
<1>1. "main" \in Threads /\ "wake" \in Threads /\ Handlers \subseteq Threads /\ label \in Labels
  BY DEF Threads
<1>2. \A u \in Threads : pc'[p][u] = IF u = "main" THEN label ELSE pc[p][u]
  BY <1>1, GotoEffect DEF Local
<1>3. pc'[p]["main"] = label /\ pc'[p]["wake"] = pc[p]["wake"]
  BY <1>1, <1>2
<1>4. \A h \in Handlers : pc'[p][h] = "idle"
  BY <1>1, <1>2, NetworkAssumption DEF Suspended
<1>5. ThreadOK(p) /\ process[p] = "running"
  BY <1>1 DEF Local, ThreadInv, ThreadOK, ProcessType
<1> QED
  BY <1>3, <1>4, <1>5 DEF ThreadOK, Connected

LEMMA AskMoves ==
  ASSUME Local, NEW p \in Participants, Ask(p)
  PROVE  Moved
<1>1. Goto(p, "main", "open_answer") /\ Kept /\ Bound' = Bound
  BY KeptQueue DEF Ask, Local
<1>2. ThreadOK(p)'
  BY <1>1, MainOK DEF Ask, At, Labels, LeavingLabels
<1> QED
  BY <1>1, <1>2, GoingMoves DEF Ask, At, Threads, Labels, managerVars

LEMMA InstallMoves ==
  ASSUME Local, NEW p \in Participants, Install(p)
  PROVE  Moved
<1>1. Goto(p, "main", "listen") /\ Kept /\ Bound' = Bound
  BY KeptQueue DEF Install, Local
<1>2. manager_ip'[p] \in Managers
  BY DEF Install, At, Local, ThreadInv, ThreadOK, Connected
<1>3. ThreadOK(p)'
  BY <1>1, <1>2, MainOK DEF Install, At, Labels
<1> QED
  BY <1>1, <1>3, GoingMoves DEF Install, At, Threads, Labels, managerVars

LEMMA ToldMoves ==
  ASSUME Local, NEW p \in Participants, Told(p)
  PROVE  Moved
<1>1. Goto(p, "main", "leave") /\ Kept /\ Bound' = Bound
  BY KeptQueue DEF Told, Local
<1>2. manager_ip'[p] \in Managers
  BY DEF Told, At, Local, ThreadInv, ThreadOK, Connected
<1>3. ThreadOK(p)'
  BY <1>1, <1>2, MainOK DEF Told, At, Labels
<1> QED
  BY <1>1, <1>3, GoingMoves DEF Told, At, Threads, Labels, managerVars

LEMMA InterruptMoves ==
  ASSUME Local, NEW p \in Participants, Interrupt(p)
  PROVE  Moved
<1>1. PICK h \in Handlers :
        /\ process[p] = "running"
        /\ pc[p]["main"] \notin {"ask", "open_answer", "await_answer", "install"}
        /\ pc[p][h] = "idle"
        /\ Goto(p, h, "leave")
        /\ UNCHANGED <<queue, process, manager_ip, starts, up>>
  BY DEF Interrupt, managerVars
<1>2. Kept /\ Bound' = Bound
  BY <1>1, KeptQueue DEF Local
<1>3. \A u \in Threads : pc'[p][u] = IF u = h THEN "leave" ELSE pc[p][u]
  <2>1. h \in Threads /\ "leave" \in Labels /\ ProcessType
    BY DEF Threads, Labels, Local
  <2> QED
    BY <1>1, <2>1, GotoEffect
<1>4. Connected(p) /\ Connected(p)' /\ manager_ip'[p] = manager_ip[p] /\ process'[p] = "running"
  BY <1>1, <1>3, NetworkAssumption DEF Local, ThreadInv, ThreadOK, Connected, Threads, Labels, LeavingLabels
<1>5. ThreadOK(p)'
  BY <1>1, <1>3, <1>4, NetworkAssumption DEF Local, ThreadInv, ThreadOK, Threads, LeavingLabels
<1> QED
  BY <1>1, <1>2, <1>5, GoingMoves DEF Threads, Labels

(* A thread that leaves, and goes on leaving.                              *)
LEMMA LeavingOK ==
  ASSUME Local, UNCHANGED <<process, manager_ip>>,
         NEW p \in Participants, NEW t \in {"main"} \cup Handlers, NEW label \in LeavingLabels,
         pc[p][t] \in LeavingLabels, Goto(p, t, label)
  PROVE  ThreadOK(p)'
<1>1. \A u \in Threads : pc'[p][u] = IF u = t THEN label ELSE pc[p][u]
  <2>1. t \in Threads /\ label \in Labels /\ ProcessType
    BY DEF Threads, Labels, LeavingLabels, Local
  <2> QED
    BY <2>1, GotoEffect
<1>2. /\ ThreadOK(p) /\ process[p] = "running" /\ Connected(p)
      /\ process'[p] = process[p] /\ manager_ip'[p] = manager_ip[p]
  BY DEF Local, ThreadInv, ThreadOK, Threads, Connected, LeavingLabels, ProcessType
<1>3. Connected(p)'
  BY <1>1, <1>2, NetworkAssumption DEF Connected, Threads
<1>4. pc'[p]["main"] \in Labels \ {"open_wol", "handle_wol", "idle"}
  BY <1>3 DEF Connected, Labels, LeavingLabels
<1>5. pc'[p]["wake"] = pc[p]["wake"]
  BY <1>1, NetworkAssumption DEF Threads
<1>6. \A h \in Handlers : pc'[p][h] \in {"idle"} \cup LeavingLabels
  BY <1>1, <1>2 DEF ThreadOK, Threads
<1> QED
  BY <1>2, <1>3, <1>4, <1>5, <1>6 DEF ThreadOK

LEMMA LeaveMoves ==
  ASSUME Local, NEW p \in Participants, NEW t \in {"main"} \cup Handlers, Leave(p, t)
  PROVE  Moved
<1>1. Goto(p, t, "open_exit") /\ Kept /\ Bound' = Bound
  BY KeptQueue DEF Leave, Local
<1>2. ThreadOK(p)'
  BY <1>1, LeavingOK DEF Leave, At, LeavingLabels
<1> QED
  BY <1>1, <1>2, GoingMoves DEF Leave, At, Threads, Labels, managerVars

(* A thread that binds a port, and waits at it.                            *)
LEMMA OpeningMoves ==
  ASSUME Local, UNCHANGED <<process, manager_ip, starts, up>>,
         NEW p \in Participants, NEW t \in Threads, NEW label \in Labels,
         NEW port \in ParticipantPorts,
         \/ t = "main" /\ port = DISCOVERY_PARTICIPANT_PORT /\ label = "await_answer"
         \/ t = "wake" /\ port = WOL_PARTICIPANT_PORT /\ label = "handle_wol"
         \/ t # "wake" /\ port = EXIT_PORT /\ label = "await_exit",
         pc[p][t] \notin {"await_answer", "await_exit", "handle_wol"},
         <<p, port>> \notin Bound, Bind(<<p, port>>), Goto(p, t, label), ThreadOK(p)'
  PROVE  Moved
<1>1. Kept /\ Bound' = Bound \cup {<<p, port>>}
  BY BoundQueue DEF Local
<1>2. \A q \in Participants, u \in Threads :
        pc'[q][u] = IF q = p /\ u = t THEN label ELSE pc[q][u]
  BY GotoEffect DEF Local
<1>3. ProcessType'
  BY GotoEffect DEF Local, ProcessType
<1>4. BoundOK'
  BY <1>1, NetworkAssumption DEF Local, BoundOK, Sockets
<1>5. ASSUME NEW q \in Participants \ {p}
      PROVE  Untouched(q)
  BY <1>1, <1>2 DEF Untouched
<1>6. \A other \in ParticipantPorts :
        <<p, other>> \in Bound' <=> other = port \/ <<p, other>> \in Bound
  BY <1>1
<1>7. ThreadOK(p) /\ PortOK(p)
  BY DEF Local, ThreadInv, PortInv
<1>8. PortOK(p)'
  <2>1. /\ "main" \in Threads /\ "wake" \in Threads /\ "main" # "wake"
        /\ \A u \in Threads : pc'[p][u] = IF u = t THEN label ELSE pc[p][u]
    BY <1>2 DEF Threads
  <2>2. CASE t = "main" /\ port = DISCOVERY_PARTICIPANT_PORT /\ label = "await_answer"
    BY <1>6, <1>7, <2>1, <2>2 DEF PortOK, ParticipantPorts, DISCOVERY_PARTICIPANT_PORT, EXIT_PORT, WOL_PARTICIPANT_PORT
  <2>3. CASE t = "wake" /\ port = WOL_PARTICIPANT_PORT /\ label = "handle_wol"
    BY <1>6, <1>7, <2>1, <2>3 DEF PortOK, ParticipantPorts, DISCOVERY_PARTICIPANT_PORT, EXIT_PORT, WOL_PARTICIPANT_PORT
  <2>4. CASE t # "wake" /\ port = EXIT_PORT /\ label = "await_exit"
    BY <1>6, <1>7, <2>1, <2>4 DEF PortOK, ParticipantPorts, DISCOVERY_PARTICIPANT_PORT, EXIT_PORT, WOL_PARTICIPANT_PORT
  <2> QED
    BY <2>2, <2>3, <2>4
<1> QED
  BY <1>1, <1>3, <1>4, <1>5, <1>8, OneMoved DEF Moved, Local

LEMMA OpenAnswerMoves ==
  ASSUME Local, NEW p \in Participants, OpenAnswer(p)
  PROVE  Moved
<1> DEFINE port == DISCOVERY_PARTICIPANT_PORT
<1>1. /\ pc[p]["main"] = "open_answer" /\ ~Suspended(p, "main") /\ UNCHANGED up
      /\ \/ /\ <<p, port>> \notin Bound /\ Bind(<<p, port>>) /\ Goto(p, "main", "await_answer")
            /\ UNCHANGED <<process, manager_ip, starts>>
         \/ End(p, "aborted")
  BY DEF OpenAnswer, Open, At, managerVars
<1>2. CASE End(p, "aborted")
  BY <1>1, <1>2, EndEffect
<1>3. CASE /\ <<p, port>> \notin Bound /\ Bind(<<p, port>>) /\ Goto(p, "main", "await_answer")
           /\ UNCHANGED <<process, manager_ip, starts>>
  <2>1. ThreadOK(p)'
    BY <1>1, <1>3, MainOK DEF Labels, LeavingLabels
  <2> QED
    BY <1>1, <1>3, <2>1, OpeningMoves DEF Threads, Labels, ParticipantPorts
<1> QED
  BY <1>1, <1>2, <1>3

LEMMA OpenExitMoves ==
  ASSUME Local, NEW p \in Participants, NEW t \in {"main"} \cup Handlers, OpenExit(p, t)
  PROVE  Moved
<1>1. /\ pc[p][t] = "open_exit" /\ UNCHANGED up
      /\ \/ /\ <<p, EXIT_PORT>> \notin Bound /\ Bind(<<p, EXIT_PORT>>) /\ Goto(p, t, "await_exit")
            /\ UNCHANGED <<process, manager_ip, starts>>
         \/ End(p, "aborted")
  BY DEF OpenExit, Open, At, managerVars
<1>2. CASE End(p, "aborted")
  BY <1>1, <1>2, EndEffect
<1>3. CASE /\ <<p, EXIT_PORT>> \notin Bound /\ Bind(<<p, EXIT_PORT>>) /\ Goto(p, t, "await_exit")
           /\ UNCHANGED <<process, manager_ip, starts>>
  <2>1. ThreadOK(p)'
    BY <1>1, <1>3, LeavingOK DEF LeavingLabels
  <2>2. t \in Threads /\ t # "wake" /\ "await_exit" \in Labels /\ EXIT_PORT \in ParticipantPorts
    BY NetworkAssumption DEF Threads, Labels, ParticipantPorts
  <2> QED
    BY <1>1, <1>3, <2>1, <2>2, OpeningMoves
<1> QED
  BY <1>1, <1>2, <1>3

LEMMA OpenWolMoves ==
  ASSUME Local, NEW p \in Participants, OpenWol(p)
  PROVE  Moved
<1> DEFINE port == WOL_PARTICIPANT_PORT
<1>1. /\ pc[p]["wake"] = "open_wol" /\ UNCHANGED up
      /\ \/ /\ <<p, port>> \notin Bound /\ Bind(<<p, port>>) /\ Goto(p, "wake", "handle_wol")
            /\ UNCHANGED <<process, manager_ip, starts>>
         \/ End(p, "aborted")
  BY DEF OpenWol, Open, At, managerVars
<1>2. CASE End(p, "aborted")
  BY <1>1, <1>2, EndEffect
<1>3. CASE /\ <<p, port>> \notin Bound /\ Bind(<<p, port>>) /\ Goto(p, "wake", "handle_wol")
           /\ UNCHANGED <<process, manager_ip, starts>>
  <2>1. "wake" \in Threads /\ "handle_wol" \in Labels /\ port \in ParticipantPorts
    BY DEF Threads, Labels, ParticipantPorts
  <2>2. \A u \in Threads : pc'[p][u] = IF u = "wake" THEN "handle_wol" ELSE pc[p][u]
    BY <1>3, <2>1, GotoEffect DEF Local
  <2>3. ThreadOK(p) /\ process[p] = "running" /\ process'[p] = process[p] /\ manager_ip'[p] = manager_ip[p]
    BY <1>1, <1>3, <2>1 DEF Local, ThreadInv, ThreadOK
  <2>4. ThreadOK(p)'
    BY <2>2, <2>3, NetworkAssumption DEF ThreadOK, Connected, Threads
  <2> QED
    BY <1>1, <1>3, <2>1, <2>4, OpeningMoves
<1> QED
  BY <1>1, <1>2, <1>3

LEMMA RetryKeeps ==
  ASSUME QueueType, NEW socket \in Bound, NEW request, Retry(socket, request)
  PROVE  Kept /\ Bound' = Bound
<1>1. CASE queue[socket] = <<>>
  BY <1>1, KeptQueue DEF Retry
<1>2. CASE queue[socket] # <<>>
  BY <1>2, PoppedQueue DEF Retry, Pop
<1> QED
  BY <1>1, <1>2

LEMMA AwaitAnswerMoves ==
  ASSUME Local, NEW p \in Participants, AwaitAnswer(p)
  PROVE  Moved
<1>1. <<p, DISCOVERY_PARTICIPANT_PORT>> \in Bound
  BY DEF AwaitAnswer, At, Local, PortInv, PortOK
<1>2. Kept /\ Bound' = Bound
  BY <1>1, RetryKeeps DEF AwaitAnswer, Local
<1> QED
  BY <1>2, NobodyMoves DEF AwaitAnswer, Local, BoundOK, managerVars

LEMMA AwaitExitMoves ==
  ASSUME Local, NEW p \in Participants, NEW t \in {"main"} \cup Handlers, AwaitExit(p, t)
  PROVE  Moved
<1>1. <<p, EXIT_PORT>> \in Bound
  BY DEF AwaitExit, At, Local, PortInv, PortOK, Threads
<1>2. Kept /\ Bound' = Bound
  BY <1>1, RetryKeeps DEF AwaitExit, Local
<1> QED
  BY <1>2, NobodyMoves DEF AwaitExit, Local, BoundOK, managerVars

LEMMA Ports ==
  /\ PortOf("DISCOVERY") = DISCOVERY_MANAGER_PORT
  /\ PortOf("ANSWER") = DISCOVERY_PARTICIPANT_PORT
  /\ PortOf("EXIT") = EXIT_PORT
  /\ PortOf("MAGIC") = WOL_PARTICIPANT_PORT
<1>1. PortOf("DISCOVERY") = DISCOVERY_MANAGER_PORT
  BY Zenon DEF PortOf
<1>2. PortOf("ANSWER") = DISCOVERY_PARTICIPANT_PORT
  BY Zenon DEF PortOf
<1>3. PortOf("EXIT") = EXIT_PORT
  BY Zenon DEF PortOf
<1>4. PortOf("MAGIC") = WOL_PARTICIPANT_PORT
  BY Zenon DEF PortOf
<1> QED
  BY <1>1, <1>2, <1>3, <1>4

(* The head of what waits in a participant's discovery port is an answer.  *)
LEMMA ConnectMoves ==
  ASSUME Local, MailInv, NEW p \in Participants, Connect(p)
  PROVE  /\ Moved
         /\ LET head == Head(queue[<<p, DISCOVERY_PARTICIPANT_PORT>>])
            IN /\ head.from \in Managers /\ manager_ip'[p] = head.from
               /\ Listed(p, head.from)
<1> DEFINE socket == <<p, DISCOVERY_PARTICIPANT_PORT>>
           head == Head(queue[socket])
<1>1. /\ pc[p]["main"] = "await_answer" /\ ~Suspended(p, "main")
      /\ queue[socket] # <<>> /\ Accepted(head)
      /\ manager_ip' = [manager_ip EXCEPT ![p] = head.from]
      /\ queue' = [s \in Bound \ {socket} |-> queue[s]]
      /\ Goto(p, "main", "install")
      /\ UNCHANGED <<process, starts, up>>
  BY DEF Connect, At, HasAnswer, Close, managerVars
<1>2. ThreadOK(p) /\ PortOK(p) /\ ProcessType /\ QueueType /\ BoundOK
  BY DEF Local, ThreadInv, PortInv
<1>3. socket \in Bound
  BY <1>1, <1>2 DEF PortOK
<1>4. head \in Datagram /\ head \in Contents(socket)
  BY <1>1, <1>2, <1>3, HeadWaits
<1> HIDE DEF head
<1>5. Genuine(head) /\ socket = <<head.to, PortOf(head.kind)>>
  BY <1>3, <1>4 DEF MailInv
<1>6. head.kind = "ANSWER" /\ head.to = p
  BY <1>1, <1>5, Ports DEF Accepted, DISCOVERY_MANAGER_PORT, DISCOVERY_PARTICIPANT_PORT
<1>7. head.from \in Managers /\ Listed(p, head.from)
  BY <1>5, <1>6 DEF Genuine
<1>8. manager_ip'[p] = head.from
  BY <1>1, <1>2 DEF ProcessType
<1>9. Kept /\ Bound' = Bound \ {socket}
  BY <1>1, <1>2, RestrictedQueue
<1>10. ThreadOK(p)'
  BY <1>1, <1>7, <1>8, MainOK DEF Labels
<1>11. "main" \in Threads /\ "install" \in Labels
  BY DEF Threads, Labels
<1>12. \A q \in Participants, u \in Threads :
         pc'[q][u] = IF q = p /\ u = "main" THEN "install" ELSE pc[q][u]
  BY <1>1, <1>2, <1>11, GotoEffect
<1>13. ProcessType'
  BY <1>1, <1>2, <1>7, <1>11, GotoEffect DEF ProcessType
<1>14. BoundOK'
  BY <1>1, <1>2, <1>9, NetworkAssumption DEF BoundOK
<1>15. ASSUME NEW q \in Participants \ {p}
       PROVE  Untouched(q)
  BY <1>1, <1>2, <1>9, <1>12 DEF Untouched, ProcessType
<1>16. PortOK(p)'
  BY <1>1, <1>2, <1>9, <1>11, <1>12
  DEF PortOK, Threads, DISCOVERY_PARTICIPANT_PORT, EXIT_PORT, WOL_PARTICIPANT_PORT
<1>17. Moved
  BY <1>9, <1>10, <1>13, <1>14, <1>15, <1>16, OneMoved DEF Moved, Local
<1> QED
  BY <1>7, <1>8, <1>17 DEF head

LEMMA StartMoves ==
  ASSUME Local, NEW p \in Participants, Start(p)
  PROVE  Moved
<1>1. Kept /\ Bound' = Bound
  BY KeptQueue DEF Start, Local
<1>2. \A q \in Participants, u \in Threads :
        pc'[q][u] = IF q # p THEN pc[q][u]
                    ELSE IF u = "main" THEN "ask" ELSE IF u = "wake" THEN "open_wol" ELSE "idle"
  BY DEF Start, Local, ProcessType
<1>3. ThreadOK(p) /\ PortOK(p) /\ \A u \in Threads : pc[p][u] = "idle"
  BY DEF Start, Local, ThreadInv, PortInv, ThreadOK
<1>4. process'[p] = "running" /\ \A q \in Participants \ {p} : process'[q] = process[q]
  BY DEF Start, Local, ProcessType
<1>5. ProcessType'
  <2>1. starts' \in [Participants -> 0..MaxStarts]
    BY NetworkAssumption DEF Start, Local, ProcessType
  <2>2. pc' \in [Participants -> [Threads -> Labels]]
    BY DEF Start, Local, ProcessType, Threads, Labels
  <2> QED
    BY <2>1, <2>2 DEF Start, Local, ProcessType
<1>6. BoundOK'
  BY <1>1 DEF Start, Local, BoundOK, managerVars
<1>7. ASSUME NEW q \in Participants \ {p}
      PROVE  Untouched(q)
  BY <1>1, <1>2, <1>4 DEF Start, Untouched
<1>8. ThreadOK(p)'
  <2>1. pc'[p]["main"] = "ask" /\ pc'[p]["wake"] = "open_wol"
    BY <1>2 DEF Threads
  <2>2. \A h \in Handlers : pc'[p][h] = "idle"
    BY <1>2, NetworkAssumption DEF Threads
  <2> QED
    BY <1>4, <2>1, <2>2 DEF ThreadOK, Connected, Labels, LeavingLabels
<1>9. PortOK(p)'
  BY <1>1, <1>2, <1>3, NetworkAssumption DEF PortOK, Threads
<1> QED
  BY <1>1, <1>5, <1>6, <1>7, <1>8, <1>9, OneMoved DEF Moved, Local

LEMMA NetworkMoves ==
  ASSUME Local, net \subseteq Datagram, NEW d \in net, Deliver(d) \/ Lose(d)
  PROVE  Moved
<1>1. UNCHANGED participantVars /\ UNCHANGED up
  BY DEF Deliver, Lose, managerVars
<1>2. Kept /\ Bound' = Bound
  BY PushedQueue, KeptQueue DEF Lose, Local
<1> QED
  BY <1>1, <1>2, NobodyMoves DEF Local, BoundOK

LEMMA SendMagicMoves ==
  ASSUME Local, NEW p \in Participants, SendMagic(p)
  PROVE  Moved
<1>1. UNCHANGED participantVars /\ UNCHANGED up /\ UNCHANGED queue
  BY DEF SendMagic, managerVars
<1>2. Kept /\ Bound' = Bound
  BY <1>1, KeptQueue DEF Local
<1> QED
  BY <1>1, <1>2, NobodyMoves DEF Local, BoundOK

(* The sockets of a manager that runs are bound.                           *)
LEMMA ManagerTakes ==
  ASSUME Local, NEW m \in up, NEW port \in ManagerPorts,
         queue[<<m, port>>] # <<>>, Pop(<<m, port>>), UNCHANGED <<participantVars, up>>
  PROVE  /\ Moved
         /\ LET head == Head(queue[<<m, port>>])
            IN head \in Datagram /\ head \in Contents(<<m, port>>)
<1>1. <<m, port>> \in Bound
  BY DEF Local, BoundOK
<1>2. /\ Kept /\ Bound' = Bound
      /\ Head(queue[<<m, port>>]) \in Datagram
      /\ Head(queue[<<m, port>>]) \in Contents(<<m, port>>)
  BY <1>1, PoppedQueue DEF Local
<1>3. Moved
  BY <1>2, NobodyMoves DEF Local, BoundOK
<1> QED
  BY <1>2, <1>3

LEMMA ServiceMoves ==
  ASSUME Local, NEW m \in Managers, NEW p \in Participants, Insert(m, p) \/ Respond(m, p)
  PROVE  Moved
<1>1. UNCHANGED participantVars /\ UNCHANGED up /\ UNCHANGED queue
  BY DEF Insert, Respond
<1>2. Kept /\ Bound' = Bound
  BY <1>1, KeptQueue DEF Local
<1> QED
  BY <1>1, <1>2, NobodyMoves DEF Local, BoundOK

LEMMA StopMoves ==
  ASSUME Local, NEW m \in Managers, Stop(m)
  PROVE  Moved
<1> DEFINE left == {b \in Bound : b[1] # m}
<1>1. UNCHANGED participantVars /\ up' = up \ {m} /\ queue' = [s \in left |-> queue[s]]
  BY DEF Stop
<1>2. Kept /\ Bound' = left
  BY <1>1, RestrictedQueue DEF Local
<1>3. BoundOK'
  BY <1>1, <1>2 DEF Local, BoundOK
<1>4. \A s \in Participants \X ParticipantPorts : s \in Bound' <=> s \in Bound
  BY <1>2, NetworkAssumption
<1> QED
  BY <1>1, <1>2, <1>3, <1>4, NobodyMoves

LEMMA NextMoves ==
  ASSUME Local, MailInv, net \subseteq Datagram, Next
  PROVE  Moved
<1>1. CASE \E d \in net : Deliver(d) \/ Lose(d)
  BY <1>1, NetworkMoves
<1>2. ASSUME NEW p \in Participants, MainSteps(p)
      PROVE  Moved
  BY <1>2, AskMoves, OpenAnswerMoves, AwaitAnswerMoves, ConnectMoves, InstallMoves DEF MainSteps
<1>3. ASSUME NEW p \in Participants, Leaving(p)
      PROVE  Moved
  BY <1>3, LeaveMoves, OpenExitMoves, AwaitExitMoves DEF Leaving
<1>4. ASSUME NEW p \in Participants, Waking(p)
      PROVE  Moved
  <2>1. CASE OpenWol(p)
    BY <2>1, OpenWolMoves
  <2>2. CASE HandleWol(p)
    BY <2>2, EndEffect DEF HandleWol, managerVars
  <2> QED
    BY <1>4, <2>1, <2>2 DEF Waking
<1>5. ASSUME NEW p \in Participants,
             Start(p) \/ Kill(p) \/ Told(p) \/ Interrupt(p) \/ SendMagic(p)
      PROVE  Moved
  <2>1. CASE Kill(p)
    BY <2>1, EndEffect DEF Kill, managerVars
  <2> QED
    BY <1>5, <2>1, StartMoves, ToldMoves, InterruptMoves, SendMagicMoves
<1>6. ASSUME NEW m \in Managers, DiscoverySteps(m) \/ Drain(m)
      PROVE  Moved
  <2>1. CASE Receive(m)
    BY <2>1, ManagerTakes DEF Receive, ManagerPorts
  <2>2. CASE Drain(m)
    BY <2>2, ManagerTakes DEF Drain, ManagerPorts
  <2> QED
    BY <1>6, <2>1, <2>2, ServiceMoves DEF DiscoverySteps
<1> QED
  BY <1>1, <1>2, <1>3, <1>4, <1>5, <1>6, StopMoves DEF Next

-----------------------------------------------------------------------------
(* What a step does to the managers, and what a datagram tells.            *)

ManagerType ==
  /\ up \subseteq Managers
  /\ table \in [Managers -> SUBSET Participants]
  /\ inserting \in [Managers -> [Participants -> 0..MaxThreads]]
  /\ answering \in [Managers -> [Participants -> 0..MaxThreads]]

(* What has been said stays said, and who is listed stays listed.          *)
Grown ==
  /\ ManagerType'
  /\ magic \in 0..MaxMagic /\ magic' \in 0..MaxMagic /\ magic' >= magic
  /\ farewells \subseteq farewells'
  /\ \A m \in Managers, p \in Participants : Listed(p, m) => Listed(p, m)'

LEMMA ListedStays ==
  ASSUME NEW p \in Participants, NEW m \in Managers, Listed(p, m),
         up' \subseteq up, farewells \subseteq farewells',
         m \in up' => table[m] \subseteq table'[m]
  PROVE  Listed(p, m)'
  BY DEF Listed

LEMMA ServiceGrows ==
  ASSUME ManagerType, magic \in 0..MaxMagic, NEW m \in Managers, NEW p \in Participants,
         Insert(m, p) \/ Respond(m, p)
  PROVE  Grown
<1>1. UNCHANGED <<up, magic, farewells>>
  BY DEF Insert, Respond
<1>2. ManagerType'
  <2>1. CASE Insert(m, p)
    <3>1. inserting' \in [Managers -> [Participants -> 0..MaxThreads]]
      BY <2>1, NetworkAssumption DEF Insert, ManagerType
    <3>2. answering' \in [Managers -> [Participants -> 0..MaxThreads]]
      BY <2>1, NetworkAssumption DEF Insert, ManagerType
    <3>3. table' \in [Managers -> SUBSET Participants]
      BY <2>1 DEF Insert, ManagerType
    <3> QED
      BY <1>1, <3>1, <3>2, <3>3 DEF ManagerType
  <2>2. CASE Respond(m, p)
    <3>1. answering' \in [Managers -> [Participants -> 0..MaxThreads]]
      BY <2>2, NetworkAssumption DEF Respond, ManagerType
    <3> QED
      BY <1>1, <2>2, <3>1 DEF Respond, ManagerType
  <2> QED
    BY <2>1, <2>2
<1>3. \A n \in Managers : table[n] \subseteq table'[n]
  BY DEF Insert, Respond, ManagerType
<1> QED
  BY <1>1, <1>2, <1>3, ListedStays, NetworkAssumption DEF Grown

LEMMA StopGrows ==
  ASSUME ManagerType, magic \in 0..MaxMagic, NEW m \in Managers, Stop(m)
  PROVE  Grown
<1>1. up' = up \ {m} /\ UNCHANGED <<magic, farewells>>
  BY DEF Stop
<1>2. ManagerType'
  BY <1>1, NetworkAssumption DEF Stop, ManagerType
<1>3. \A n \in Managers : n \in up' => table[n] \subseteq table'[n]
  BY <1>1 DEF Stop, ManagerType
<1> QED
  BY <1>1, <1>2, <1>3, ListedStays, NetworkAssumption DEF Grown

(* What a manager takes from a port is a datagram to it, of a host that it *)
(* is from.                                                                *)
LEMMA ReceiveGrows ==
  ASSUME Local, ManagerType, MailInv, magic \in 0..MaxMagic, NEW m \in Managers, Receive(m)
  PROVE  Grown
<1> DEFINE socket == <<m, DISCOVERY_MANAGER_PORT>>
           head == Head(queue[socket])
<1>1. /\ m \in up /\ queue[socket] # <<>> /\ UNCHANGED <<up, table, answering, magic, farewells>>
      /\ inserting[m][head.from] < MaxThreads
      /\ inserting' = [inserting EXCEPT ![m][head.from] = @ + 1]
  BY DEF Receive
<1>2. socket \in Bound
  BY <1>1 DEF Local, BoundOK, ManagerPorts
<1>3. head \in Datagram /\ Genuine(head) /\ socket = <<head.to, PortOf(head.kind)>>
  BY <1>1, <1>2, HeadWaits DEF Local, MailInv
<1> HIDE DEF head
<1>4. head.kind = "DISCOVERY"
  BY <1>3, Ports
  DEF Datagram, Kinds, DISCOVERY_MANAGER_PORT, DISCOVERY_PARTICIPANT_PORT, EXIT_PORT, WOL_PARTICIPANT_PORT
<1>5. head.from \in Participants
  BY <1>3, <1>4 DEF Genuine
<1>6. inserting' \in [Managers -> [Participants -> 0..MaxThreads]]
  BY <1>1, <1>5, NetworkAssumption DEF ManagerType
<1>7. ManagerType'
  BY <1>1, <1>6 DEF ManagerType
<1> QED
  BY <1>1, <1>7, ListedStays, NetworkAssumption DEF Grown

(* Who is dropped has said goodbye, and so is promised nothing.            *)
LEMMA DrainGrows ==
  ASSUME Local, ManagerType, MailInv, magic \in 0..MaxMagic, NEW m \in Managers, Drain(m)
  PROVE  /\ Grown
         /\ \A n \in Managers : \A p \in table[n] \ table'[n] : <<p, n>> \in farewells
<1> DEFINE socket == <<m, EXIT_PORT>>
           head == Head(queue[socket])
<1>1. /\ m \in up /\ queue[socket] # <<>>
      /\ UNCHANGED <<up, inserting, answering, magic, farewells>>
      /\ table' = [table EXCEPT ![m] = @ \ {head.from}]
  BY DEF Drain
<1>2. socket \in Bound
  BY <1>1 DEF Local, BoundOK, ManagerPorts
<1>3. head \in Datagram /\ Genuine(head) /\ socket = <<head.to, PortOf(head.kind)>>
  BY <1>1, <1>2, HeadWaits DEF Local, MailInv
<1> HIDE DEF head
<1>4. head.kind = "EXIT" /\ head.to = m
  BY <1>3, Ports
  DEF Datagram, Kinds, DISCOVERY_MANAGER_PORT, DISCOVERY_PARTICIPANT_PORT, EXIT_PORT, WOL_PARTICIPANT_PORT
<1>5. head.from \in Participants => <<head.from, m>> \in farewells
  BY <1>3, <1>4 DEF Genuine
<1>6. \A n \in Managers : table'[n] = IF n = m THEN table[n] \ {head.from} ELSE table[n]
  BY <1>1 DEF ManagerType
<1>7. ManagerType'
  BY <1>1 DEF ManagerType
<1>8. ASSUME NEW n \in Managers, NEW p \in table[n] \ table'[n]
      PROVE  <<p, n>> \in farewells
  <2>1. n = m /\ p = head.from
    BY <1>6, <1>8
  <2>2. p \in Participants
    BY <1>8 DEF ManagerType
  <2> QED
    BY <1>5, <2>1, <2>2
<1>9. ASSUME NEW n \in Managers, NEW p \in Participants, Listed(p, n)
      PROVE  Listed(p, n)'
  BY <1>1, <1>7, <1>8, <1>9 DEF Listed, ManagerType
<1> QED
  BY <1>1, <1>7, <1>8, <1>9, NetworkAssumption DEF Grown

LEMMA OthersGrow ==
  ASSUME ManagerType, magic \in 0..MaxMagic, UNCHANGED managerVars,
         magic' = magic \/ (magic' = magic + 1 /\ magic < MaxMagic), farewells \subseteq farewells'
  PROVE  Grown
<1>1. ManagerType'
  BY DEF ManagerType, managerVars
<1>2. \A m \in Managers, p \in Participants : Listed(p, m) => Listed(p, m)'
  BY DEF Listed, managerVars
<1>3. magic' \in 0..MaxMagic /\ magic' >= magic
  BY NetworkAssumption
<1> QED
  BY <1>1, <1>2, <1>3 DEF Grown

-----------------------------------------------------------------------------
(* Who is connected, or leaves, has been so before, but for two steps.     *)

SaidGoodbye == {"open_exit", "await_exit"}

Continues(p) ==
  /\ Connected(p)' => (Connected(p) /\ manager_ip'[p] = manager_ip[p]) \/ Connect(p)
  /\ \A t \in Threads : pc'[p][t] \in SaidGoodbye =>
       /\ manager_ip'[p] = manager_ip[p]
       /\ pc[p][t] \in SaidGoodbye \/ Leave(p, t)

LEMMA GotoContinues ==
  ASSUME Local, UNCHANGED manager_ip,
         NEW p \in Participants, NEW t \in Threads, NEW label \in Labels, Goto(p, t, label),
         t = "main" /\ label \in {"install", "listen"} \cup LeavingLabels => Connected(p),
         label \in SaidGoodbye => pc[p][t] \in SaidGoodbye \/ Leave(p, t)
  PROVE  \A q \in Participants : Continues(q)
<1>1. \A q \in Participants, u \in Threads :
        pc'[q][u] = IF q = p /\ u = t THEN label ELSE pc[q][u]
  BY GotoEffect DEF Local
<1> QED
  BY <1>1 DEF Continues, Connected, Threads

LEMMA EndContinues ==
  ASSUME Local, NEW p \in Participants, NEW fate, End(p, fate)
  PROVE  \A q \in Participants : Continues(q)
<1>1. \A q \in Participants, u \in Threads : pc'[q][u] = IF q = p THEN "idle" ELSE pc[q][u]
  BY DEF End, Local, ProcessType
<1>2. \A q \in Participants \ {p} : manager_ip'[q] = manager_ip[q]
  BY DEF End, Local, ProcessType
<1> QED
  BY <1>1, <1>2 DEF Continues, Connected, Threads, SaidGoodbye, LeavingLabels

LEMMA MainContinues ==
  ASSUME Local, NEW p \in Participants, MainSteps(p)
  PROVE  \A q \in Participants : Continues(q)
<1> USE DEF At, Threads, Labels, SaidGoodbye, LeavingLabels
<1>1. CASE Ask(p)
  BY <1>1, GotoContinues DEF Ask
<1>2. CASE OpenAnswer(p)
  BY <1>2, GotoContinues, EndContinues DEF OpenAnswer, Open
<1>3. CASE AwaitAnswer(p)
  BY <1>3 DEF AwaitAnswer, participantVars, Continues, Connected
<1>4. CASE Connect(p)
  <2>1. \A q \in Participants, u \in Threads :
          pc'[q][u] = IF q = p /\ u = "main" THEN "install" ELSE pc[q][u]
    BY <1>4, GotoEffect DEF Connect, Local
  <2>2. \A u \in Threads : pc[p][u] \notin SaidGoodbye
    BY <1>4, NetworkAssumption DEF Connect, Local, ThreadInv, ThreadOK, Connected
  <2>3. \A q \in Participants \ {p} : manager_ip'[q] = manager_ip[q]
    BY <1>4 DEF Connect, Local, ProcessType
  <2>4. ASSUME NEW q \in Participants \ {p}
        PROVE  Continues(q)
    BY <2>1, <2>3 DEF Continues, Connected
  <2>5. Continues(p)
    BY <1>4, <2>1, <2>2 DEF Continues
  <2> QED
    BY <2>4, <2>5
<1>5. CASE Install(p)
  BY <1>5, GotoContinues DEF Install, Connected
<1> QED
  BY <1>1, <1>2, <1>3, <1>4, <1>5 DEF MainSteps

LEMMA LeavingContinues ==
  ASSUME Local, NEW p \in Participants, Leaving(p)
  PROVE  \A q \in Participants : Continues(q)
<1> USE DEF At, Threads, Labels, SaidGoodbye, LeavingLabels
<1>1. PICK t \in {"main"} \cup Handlers : Leave(p, t) \/ OpenExit(p, t) \/ AwaitExit(p, t)
  BY DEF Leaving
<1>2. CASE Leave(p, t)
  BY <1>2, GotoContinues DEF Leave, Connected
<1>3. CASE OpenExit(p, t)
  BY <1>3, GotoContinues, EndContinues DEF OpenExit, Open, Connected
<1>4. CASE AwaitExit(p, t)
  BY <1>4 DEF AwaitExit, participantVars, Continues, Connected
<1> QED
  BY <1>1, <1>2, <1>3, <1>4

LEMMA NextContinues ==
  ASSUME Local, Next
  PROVE  \A q \in Participants : Continues(q)
<1> USE DEF At, Threads, Labels, SaidGoodbye, LeavingLabels
<1>1. CASE UNCHANGED participantVars
  BY <1>1 DEF participantVars, Continues, Connected
<1>2. ASSUME NEW p \in Participants, Waking(p)
      PROVE  \A q \in Participants : Continues(q)
  <2>1. CASE OpenWol(p)
    BY <2>1, GotoContinues, EndContinues DEF OpenWol, Open
  <2>2. CASE HandleWol(p)
    BY <2>2, EndContinues DEF HandleWol
  <2> QED
    BY <1>2, <2>1, <2>2 DEF Waking
<1>3. ASSUME NEW p \in Participants, Start(p)
      PROVE  \A q \in Participants : Continues(q)
  <2>1. \A q \in Participants, u \in Threads :
          pc'[q][u] = IF q # p THEN pc[q][u]
                      ELSE IF u = "main" THEN "ask" ELSE IF u = "wake" THEN "open_wol" ELSE "idle"
    BY <1>3 DEF Start, Local, ProcessType
  <2> QED
    BY <1>3, <2>1 DEF Start, Continues, Connected
<1>4. ASSUME NEW p \in Participants, Kill(p)
      PROVE  \A q \in Participants : Continues(q)
  BY <1>4, EndContinues DEF Kill
<1>5. ASSUME NEW p \in Participants, Told(p)
      PROVE  \A q \in Participants : Continues(q)
  BY <1>5, GotoContinues DEF Told, Connected
<1>6. ASSUME NEW p \in Participants, Interrupt(p)
      PROVE  \A q \in Participants : Continues(q)
  BY <1>6, GotoContinues, NetworkAssumption DEF Interrupt
<1>7. Next => \/ UNCHANGED participantVars
              \/ \E p \in Participants : \/ MainSteps(p) \/ Leaving(p) \/ Waking(p)
                                         \/ Start(p) \/ Kill(p) \/ Told(p) \/ Interrupt(p)
  BY DEF Next, Deliver, Lose, SendMagic, DiscoverySteps, Receive, Insert, Respond, Drain, Stop
<1> QED
  BY <1>1, <1>2, <1>3, <1>4, <1>5, <1>6, <1>7, MainContinues, LeavingContinues

-----------------------------------------------------------------------------
(* The inductive invariant.                                                *)

LEMMA TypeParts ==
  TypeOK <=> /\ net \subseteq Datagram /\ magic \in 0..MaxMagic
             /\ farewells \subseteq Participants \X Managers
             /\ ProcessType /\ QueueType /\ BoundOK /\ ManagerType
  BY DEF TypeOK, ProcessType, QueueType, BoundOK, ManagerType

LEMMA LocalInv == IInv => Local
  BY TypeParts DEF IInv, Local

LEMMA NextGrows ==
  ASSUME IInv, Next
  PROVE  Grown
<1>1. Local /\ ManagerType /\ MailInv /\ magic \in 0..MaxMagic
  BY LocalInv, TypeParts DEF IInv
<1>2. ASSUME NEW m \in Managers, DiscoverySteps(m) \/ Drain(m) \/ Stop(m)
      PROVE  Grown
  BY <1>1, <1>2, ReceiveGrows, ServiceGrows, DrainGrows, StopGrows DEF DiscoverySteps
<1>3. CASE \E d \in net : Deliver(d) \/ Lose(d)
  BY <1>1, <1>3, OthersGrow DEF Deliver, Lose
<1>4. ASSUME NEW p \in Participants, MainSteps(p) \/ Leaving(p) \/ Waking(p)
      PROVE  Grown
  <2>1. UNCHANGED managerVars /\ magic' = magic /\ farewells \subseteq farewells'
    BY <1>4 DEF MainSteps, Leaving, Waking, Ask, OpenAnswer, Open, AwaitAnswer, Connect, Install,
       Leave, OpenExit, AwaitExit, OpenWol, HandleWol, managerVars
  <2> QED
    BY <1>1, <2>1, OthersGrow
<1>5. ASSUME NEW p \in Participants,
             Start(p) \/ Kill(p) \/ Told(p) \/ Interrupt(p) \/ SendMagic(p)
      PROVE  Grown
  <2>1. CASE SendMagic(p)
    BY <1>1, <2>1, OthersGrow DEF SendMagic
  <2>2. CASE Start(p) \/ Kill(p) \/ Told(p) \/ Interrupt(p)
    <3>1. UNCHANGED managerVars /\ UNCHANGED magic /\ UNCHANGED farewells
      BY <2>2 DEF Start, Kill, Told, Interrupt, managerVars
    <3> QED
      BY <1>1, <3>1, OthersGrow
  <2> QED
    BY <1>5, <2>1, <2>2
<1> QED
  BY <1>2, <1>3, <1>4, <1>5 DEF Next

(* A leaving thread knows its manager.                                     *)
LEMMA LeaverHasManager ==
  ASSUME Local, NEW p \in Participants, NEW t \in {"main"} \cup Handlers,
         pc[p][t] \in LeavingLabels
  PROVE  manager_ip[p] \in Managers
  BY DEF Local, ThreadInv, ThreadOK, Connected, LeavingLabels

LEMMA FarewellsType ==
  ASSUME IInv, Next
  PROVE  farewells' \subseteq Participants \X Managers
<1>1. farewells \subseteq Participants \X Managers
  BY TypeParts DEF IInv
<1>2. ASSUME NEW p \in Participants, NEW t \in {"main"} \cup Handlers, Leave(p, t)
      PROVE  farewells' \subseteq Participants \X Managers
  BY <1>1, <1>2, LocalInv, LeaverHasManager DEF Leave, At, LeavingLabels
<1>3. Next => \/ \E p \in Participants, t \in {"main"} \cup Handlers : Leave(p, t)
              \/ UNCHANGED farewells
  BY DEF Next, Deliver, Lose, SendMagic, MainSteps, Leaving, Waking, Start, Kill, Told, Interrupt,
         Ask, OpenAnswer, Open, AwaitAnswer, Connect, Install, OpenExit, AwaitExit,
         OpenWol, HandleWol, DiscoverySteps, Receive, Insert, Respond, Drain, Stop
<1> QED
  BY <1>1, <1>2, <1>3

(* Nothing makes untrue what a datagram tells.                             *)
LEMMA GenuineStays ==
  ASSUME Grown, NEW d \in Datagram, Genuine(d)
  PROVE  Genuine(d)'
<1>1. d.kind = "ANSWER" => Listed(d.to, d.from)'
  BY DEF Genuine, Grown
<1> QED
  BY <1>1 DEF Genuine, Grown

Sound(d) == d \in Datagram /\ Genuine(d)'

LEMMA RequestsSound ==
  ASSUME NEW p \in Participants, NEW d \in Requests(p)
  PROVE  Sound(d)
<1>1. PICK m \in Managers : d = Message("DISCOVERY", p, m)
  BY DEF Requests
<1> QED
  BY <1>1 DEF Sound, Message, Datagram, Kinds, Hosts, Genuine

LEMMA FarewellSound ==
  ASSUME NEW p \in Participants, manager_ip[p] \in Managers, <<p, manager_ip[p]>> \in farewells',
         NEW d, d = Farewell(p)
  PROVE  Sound(d)
  BY DEF Sound, Farewell, Message, Datagram, Kinds, Hosts, Genuine

(* What is sent is genuine.                                                *)
LEMMA NextSends ==
  ASSUME IInv, Next
  PROVE  \A d \in net' : d \in net \/ Sound(d)
<1>1. Local /\ Grown /\ PromiseInv
  BY LocalInv, NextGrows DEF IInv
<1>2. ASSUME NEW p \in Participants, MainSteps(p)
      PROVE  \A d \in net' : d \in net \/ Sound(d)
  BY <1>2, RequestsSound
  DEF MainSteps, Ask, Send, OpenAnswer, Open, AwaitAnswer, Retry, Connect, Install
<1>3. ASSUME NEW p \in Participants, Leaving(p)
      PROVE  \A d \in net' : d \in net \/ Sound(d)
  <2>1. PICK t \in {"main"} \cup Handlers : Leave(p, t) \/ OpenExit(p, t) \/ AwaitExit(p, t)
    BY <1>3 DEF Leaving
  <2>2. CASE Leave(p, t)
    <3>1. manager_ip[p] \in Managers /\ <<p, manager_ip[p]>> \in farewells'
      BY <1>1, <2>2, LeaverHasManager DEF Leave, At, LeavingLabels
    <3> QED
      BY <2>2, <3>1, FarewellSound DEF Leave, Send
  <2>3. CASE OpenExit(p, t)
    BY <2>3 DEF OpenExit, Open
  <2>4. CASE AwaitExit(p, t)
    <3>1. manager_ip[p] \in Managers /\ <<p, manager_ip[p]>> \in farewells'
      BY <1>1, <2>4, LeaverHasManager DEF AwaitExit, At, LeavingLabels, PromiseInv, Threads
    <3> QED
      BY <2>4, <3>1, FarewellSound DEF AwaitExit, Retry, Send
  <2> QED
    BY <2>1, <2>2, <2>3, <2>4
<1>4. ASSUME NEW p \in Participants, SendMagic(p)
      PROVE  \A d \in net' : d \in net \/ Sound(d)
  <2>1. PICK m \in Managers : magic' = magic + 1 /\ net' = net \cup {Message("MAGIC", m, p)}
    BY <1>4 DEF SendMagic, Send
  <2>2. Sound(Message("MAGIC", m, p))
    BY DEF Sound, Message, Datagram, Kinds, Hosts, Genuine
  <2> QED
    BY <2>1, <2>2
<1>5. ASSUME NEW m \in Managers, NEW p \in Participants, Respond(m, p)
      PROVE  \A d \in net' : d \in net \/ Sound(d)
  <2>1. Listed(p, m)'
    BY <1>1, <1>5 DEF Respond, PromiseInv, Grown
  <2>2. Sound(Message("ANSWER", m, p))
    BY <2>1 DEF Sound, Message, Datagram, Kinds, Hosts, Genuine
  <2> QED
    BY <1>5, <2>2 DEF Respond, Send
<1>6. ASSUME NEW m \in Managers, Stop(m)
      PROVE  \A d \in net' : d \in net \/ Sound(d)
  <2>1. \A h \in Hosts : Sound(Message("EXIT", m, h))
    BY NetworkAssumption DEF Sound, Message, Datagram, Kinds, Hosts, Genuine
  <2>2. \A d \in net' : d \in net \/ \E h \in Hosts : d = Message("EXIT", m, h)
    BY <1>6 DEF Stop, Send
  <2> QED
    BY <2>1, <2>2
<1>7. Next => \/ \E p \in Participants : MainSteps(p) \/ Leaving(p) \/ SendMagic(p)
              \/ \E m \in Managers : Stop(m) \/ \E p \in Participants : Respond(m, p)
              \/ net' \subseteq net
  BY DEF Next, Deliver, Lose, Waking, OpenWol, Open, HandleWol, Start, Kill, Told, Interrupt,
         DiscoverySteps, Receive, Insert, Drain
<1> QED
  BY <1>2, <1>3, <1>4, <1>5, <1>6, <1>7

LEMMA MailStays ==
  ASSUME IInv, Next
  PROVE  net' \subseteq Datagram /\ MailInv'
<1>1. /\ Grown /\ Kept /\ MailInv /\ net \subseteq Datagram /\ magic \in 0..MaxMagic
      /\ QueueType
  BY LocalInv, NextGrows, NextMoves, TypeParts DEF IInv, Moved
<1>2. \A d \in net' : d \in net \/ Sound(d)
  BY NextSends
<1>3. \A d \in net' : d \in Datagram /\ Genuine(d)'
  BY <1>1, <1>2, GenuineStays DEF Sound, MailInv
<1>4. ASSUME NEW s \in Bound', NEW d \in Contents(s)'
      PROVE  Genuine(d)' /\ s = <<d.to, PortOf(d.kind)>>
  <2>1. CASE s \in Bound /\ d \in Contents(s)
    <3>1. d \in Datagram
      BY <1>1, <2>1 DEF QueueType, Contents
    <3>2. Genuine(d) /\ s = <<d.to, PortOf(d.kind)>>
      BY <1>1, <2>1 DEF MailInv
    <3> QED
      BY <1>1, <3>1, <3>2, GenuineStays
  <2>2. CASE d \in net /\ s = <<d.to, PortOf(d.kind)>>
    BY <1>1, <2>2, GenuineStays DEF MailInv
  <2> QED
    BY <1>1, <2>1, <2>2 DEF Kept
<1> QED
  BY <1>3, <1>4 DEF MailInv

LEMMA TypeStays ==
  ASSUME IInv, Next
  PROVE  TypeOK' /\ ThreadInv' /\ PortInv'
<1>1. Moved /\ Grown
  BY LocalInv, NextMoves, NextGrows, TypeParts DEF IInv
<1>2. net' \subseteq Datagram /\ farewells' \subseteq Participants \X Managers
  BY MailStays, FarewellsType
<1>3. ProcessType' /\ QueueType' /\ BoundOK' /\ ManagerType' /\ magic' \in 0..MaxMagic
  BY <1>1 DEF Moved, Kept, Grown
<1>4. TypeOK'
  BY <1>2, <1>3 DEF TypeOK, ProcessType, QueueType, BoundOK, ManagerType
<1> QED
  BY <1>1, <1>4 DEF Moved

(* A thread that is about to answer has listed the station, or found one   *)
(* of its name.                                                            *)
LEMMA AnswersKept ==
  ASSUME IInv, Next, NEW m \in Managers, NEW p \in Participants, answering'[m][p] > 0
  PROVE  Listed(p, m)'
<1>1. /\ Grown /\ PromiseInv /\ ManagerType
  BY NextGrows, TypeParts DEF IInv
<1>2. CASE answering[m][p] > 0
  BY <1>1, <1>2 DEF PromiseInv, Grown
<1>3. CASE Insert(m, p)
  <2>1. \E q \in table'[m] : NameOf[q] = NameOf[p]
    BY <1>1, <1>3 DEF Insert, ManagerType
  <2> QED
    BY <2>1 DEF Listed
<1>4. ASSUME ~Insert(m, p)
      PROVE  answering[m][p] > 0
  <2>1. ASSUME NEW n \in Managers, NEW q \in Participants, Insert(n, q)
        PROVE  answering'[m][p] = answering[m][p]
    BY <1>1, <1>4, <2>1 DEF Insert, ManagerType
  <2>2. ASSUME NEW n \in Managers, NEW q \in Participants, Respond(n, q)
        PROVE  answering[m][p] > 0
    BY <1>1, <2>2, NetworkAssumption DEF Respond, ManagerType
  <2>3. ASSUME NEW n \in Managers, Stop(n)
        PROVE  answering[m][p] > 0
    BY <1>1, <2>3, NetworkAssumption DEF Stop, ManagerType
  <2>4. Next => \/ \E n \in Managers, q \in Participants : Insert(n, q) \/ Respond(n, q)
                \/ \E n \in Managers : Stop(n)
                \/ UNCHANGED answering
    BY DEF Next, Deliver, Lose, MainSteps, Leaving, Waking, Start, Kill, Told, Interrupt, SendMagic,
       Ask, OpenAnswer, Open, AwaitAnswer, Connect, Install, Leave, OpenExit, AwaitExit, OpenWol,
       HandleWol, DiscoverySteps, Receive, Drain, managerVars
  <2> QED
    BY <2>1, <2>2, <2>3, <2>4
<1> QED
  BY <1>2, <1>3, <1>4

LEMMA PromiseStays ==
  ASSUME IInv, Next
  PROVE  PromiseInv'
<1>1. /\ Local /\ Grown /\ MailInv /\ PromiseInv
      /\ \A p \in Participants : Continues(p) /\ ThreadOK(p)
  BY LocalInv, NextGrows, NextContinues DEF IInv, ThreadInv
<1>2. ASSUME NEW p \in Participants, Connected(p)'
      PROVE  Listed(p, manager_ip[p])'
  <2>1. CASE Connect(p)
    BY <1>1, <2>1, ConnectMoves DEF Grown
  <2>2. CASE Connected(p) /\ manager_ip'[p] = manager_ip[p]
    BY <1>1, <2>2 DEF PromiseInv, Grown, ThreadOK
  <2> QED
    BY <1>1, <1>2, <2>1, <2>2 DEF Continues
<1>3. ASSUME NEW p \in Participants, NEW t \in Threads, pc'[p][t] \in SaidGoodbye
      PROVE  <<p, manager_ip'[p]>> \in farewells'
  <2>1. CASE Leave(p, t)
    BY <1>1, <1>3, <2>1 DEF Leave
  <2>2. CASE pc[p][t] \in SaidGoodbye
    BY <1>1, <1>3, <2>2 DEF PromiseInv, Grown, Continues, SaidGoodbye
  <2> QED
    BY <1>1, <1>3, <2>1, <2>2 DEF Continues
<1> QED
  BY <1>2, <1>3, AnswersKept DEF PromiseInv, SaidGoodbye

(* Nothing but magic packets waits where handle_wol looks.                 *)
LEMMA WolCause ==
  ASSUME IInv, NEW p \in Participants, HandleWol(p)
  PROVE  Woken(p)
<1> DEFINE socket == <<p, WOL_PARTICIPANT_PORT>>
           head == Head(queue[socket])
<1>1. Local /\ PortOK(p) /\ MailInv
  BY LocalInv DEF IInv, PortInv
<1>2. socket \in Bound /\ queue[socket] # <<>>
  BY <1>1 DEF HandleWol, At, PortOK
<1>3. head \in Datagram /\ socket = <<head.to, PortOf(head.kind)>>
  BY <1>1, <1>2, HeadWaits DEF Local, MailInv
<1> HIDE DEF head
<1>4. head.kind = "MAGIC"
  BY <1>3, Ports
  DEF Datagram, Kinds, DISCOVERY_MANAGER_PORT, DISCOVERY_PARTICIPANT_PORT, EXIT_PORT, WOL_PARTICIPANT_PORT
<1> QED
  BY <1>2, <1>4 DEF Woken, head

(* The EXIT port is bound by the thread that waits at it.                  *)
LEMMA ExitCause ==
  ASSUME IInv, NEW p \in Participants, NEW t \in {"main"} \cup Handlers, OpenExit(p, t),
         process' # process
  PROVE  LeftTwice(p)
<1>1. PortOK(p) /\ t \in Threads
  BY DEF IInv, PortInv, Threads
<1>2. pc[p][t] = "open_exit" /\ <<p, EXIT_PORT>> \in Bound
  BY DEF OpenExit, Open, At
<1>3. PICK u \in Threads : pc[p][u] = "await_exit"
  BY <1>1, <1>2 DEF PortOK
<1>4. t # u
  BY <1>2, <1>3
<1> QED
  BY <1>1, <1>2, <1>3, <1>4 DEF LeftTwice

(* connect_to_manager and handle_wol always find their ports free.         *)
LEMMA AbortCause ==
  ASSUME IInv, Next, NEW p \in Participants, process[p] # "aborted", process'[p] = "aborted"
  PROVE  Woken(p) \/ LeftTwice(p)
<1>1. Local /\ process \in [Participants -> {"running", "ended", "aborted"}] /\ process' # process
  BY LocalInv DEF IInv, TypeOK
<1>2. ASSUME NEW q \in Participants, NEW fate, End(q, fate)
      PROVE  q = p /\ fate = "aborted"
  BY <1>1, <1>2 DEF End
<1>3. ASSUME NEW q \in Participants, Start(q) \/ Kill(q)
      PROVE  FALSE
  BY <1>1, <1>2, <1>3 DEF Start, Kill
<1>4. ASSUME NEW q \in Participants, OpenAnswer(q) \/ OpenWol(q)
      PROVE  FALSE
  <2>1. PortOK(q)
    BY <1>1 DEF Local, PortInv
  <2> QED
    BY <1>1, <1>4, <2>1 DEF OpenAnswer, OpenWol, Open, At, PortOK
<1>5. ASSUME NEW q \in Participants, Leaving(q)
      PROVE  LeftTwice(p)
  <2>1. PICK t \in {"main"} \cup Handlers : OpenExit(q, t)
    BY <1>1, <1>5 DEF Leaving, Leave, AwaitExit, participantVars
  <2>2. q = p
    BY <1>1, <1>2, <2>1 DEF OpenExit, Open
  <2> QED
    BY <1>1, <2>1, <2>2, ExitCause
<1>6. ASSUME NEW q \in Participants, HandleWol(q)
      PROVE  Woken(p)
  BY <1>2, <1>6, WolCause DEF HandleWol
<1>7. \/ UNCHANGED process
      \/ \E q \in Participants : \/ Start(q) \/ Kill(q) \/ OpenAnswer(q) \/ OpenWol(q)
                                \/ Leaving(q) \/ HandleWol(q)
  BY DEF Next, Deliver, Lose, MainSteps, Waking, Told, Interrupt, SendMagic, Ask, AwaitAnswer,
     Connect, Install, DiscoverySteps, Receive, Insert, Respond, Drain, Stop, participantVars
<1> QED
  BY <1>1, <1>3, <1>4, <1>5, <1>6, <1>7

LEMMA InitIInv == Init => IInv
<1> SUFFICES ASSUME Init
             PROVE  IInv
  OBVIOUS
<1>1. Bound = Managers \X ManagerPorts /\ \A s \in Bound : queue[s] = <<>>
  BY DEF Init, Bound
<1>2. QueueType
  BY <1>1, EmptySeq, NetworkAssumption DEF Init, QueueType, Bound
<1>3. TypeOK
  <2>1. BoundOK
    BY <1>1 DEF Init, BoundOK, Sockets
  <2>2. ProcessType /\ ManagerType
    BY NetworkAssumption DEF Init, ProcessType, ManagerType, Labels
  <2> QED
    BY <1>2, <2>1, <2>2, TypeParts, NetworkAssumption DEF Init
<1>4. ThreadInv
  BY DEF Init, ThreadInv, ThreadOK, Connected, Labels, LeavingLabels, Threads
<1>5. PortInv
  BY <1>1, NetworkAssumption DEF Init, PortInv, PortOK, Threads
<1>6. \A s \in Bound : Contents(s) = {}
  BY <1>1 DEF Contents
<1>7. MailInv
  BY <1>6 DEF Init, MailInv
<1>8. PromiseInv
  BY DEF Init, PromiseInv, Connected, LeavingLabels, Threads
<1> QED
  BY <1>3, <1>4, <1>5, <1>7, <1>8 DEF IInv

LEMMA NextIInv == IInv /\ [Next]_vars => IInv'
<1> SUFFICES ASSUME IInv, [Next]_vars
             PROVE  IInv'
  OBVIOUS
<1>1. CASE Next
  BY <1>1, TypeStays, MailStays, PromiseStays DEF IInv
<1>2. CASE UNCHANGED vars
  <2>1. TypeOK'
    BY <1>2 DEF vars, IInv, TypeOK, Bound
  <2>2. ThreadInv' /\ PortInv'
    BY <1>2 DEF vars, IInv, Bound, ThreadInv, ThreadOK, Connected, PortInv, PortOK
  <2>3. MailInv'
    BY <1>2 DEF vars, IInv, Bound, MailInv, Contents, Genuine, Listed
  <2>4. PromiseInv'
    BY <1>2 DEF vars, IInv, PromiseInv, Connected, Listed
  <2> QED
    BY <2>1, <2>2, <2>3, <2>4 DEF IInv
<1> QED
  BY <1>1, <1>2

LEMMA Invariance == Spec => []IInv
  BY InitIInv, NextIInv, PTL DEF Spec

-----------------------------------------------------------------------------
(* The theorems.                                                           *)

(* Every variable keeps its shape, and no socket holds more than it may:   *)
(* the processes of participant.cpp and manager.cpp, the sockets that      *)
(* socket.cpp binds for them, and the network between them.                *)
THEOREM Typing == Spec => []TypeOK
  BY Invariance, PTL DEF IInv

(* Of all the threads that leave, in main and in sigint_handler, at most   *)
(* one waits in receive_response(EXIT_PORT), and it owns the port.         *)
THEOREM OneAwaiter == Spec => []AwaitersHoldTheirPorts
<1>1. IInv => AwaitersHoldTheirPorts
  BY DEF IInv, PortInv, PortOK, AwaitersHoldTheirPorts
<1> QED
  BY <1>1, Invariance, PTL

(* parse_type knows no EXIT, and nothing else is sent to the EXIT port:    *)
(* disconnect_to_manager never gets the answer that it waits for.          *)
THEOREM NoAnswer == Spec => []NothingAnswersGoodbye
<1>1. ASSUME IInv, NEW p \in Participants, <<p, EXIT_PORT>> \in Bound,
             NEW i \in DOMAIN queue[<<p, EXIT_PORT>>]
      PROVE  ~Accepted(queue[<<p, EXIT_PORT>>][i])
  <2> DEFINE d == queue[<<p, EXIT_PORT>>][i]
  <2>1. MailInv /\ queue[<<p, EXIT_PORT>>] \in Seq(Datagram)
    BY <1>1 DEF IInv, TypeOK
  <2>2. d \in Contents(<<p, EXIT_PORT>>)
    BY <1>1, <2>1 DEF Contents
  <2>3. EXIT_PORT = PortOf(d.kind)
    BY <1>1, <2>1, <2>2 DEF MailInv
  <2> HIDE DEF d
  <2>4. ~Accepted(d)
    BY <2>3, Ports DEF Accepted, DISCOVERY_MANAGER_PORT, DISCOVERY_PARTICIPANT_PORT, EXIT_PORT
  <2> QED
    BY <2>4 DEF d
<1>2. IInv => NothingAnswersGoodbye
  BY <1>1 DEF NothingAnswersGoodbye
<1> QED
  BY <1>2, Invariance, PTL

(* A port in use ends a participant only in the disconnect_to_manager of a *)
(* second thread, and handle_wol only by a magic packet: the sockets of    *)
(* connect_to_manager and of handle_wol, and those of earlier runs, are    *)
(* never in each other's way.                                              *)
THEOREM AbortCauses == Spec => AbortsHaveACause
<1> DEFINE Caused == \A p \in Participants :
             process[p] # "aborted" /\ process'[p] = "aborted" => Woken(p) \/ LeftTwice(p)
<1>1. IInv /\ [Next]_vars => [Caused]_vars
  BY AbortCause
<1>2. Spec => [][Caused]_vars
  BY <1>1, Invariance, PTL DEF Spec
<1> QED
  BY <1>2, PTL DEF AbortsHaveACause

(* answer_discovery inserts before it answers, and connect_to_manager      *)
(* takes whatever answer there is: however old it is, whom it comes from   *)
(* lists a station of this name, unless one of them has said goodbye.      *)
THEOREM ConnectedListed == Spec => []ConnectedIsListed
<1>1. IInv => ConnectedIsListed
  BY DEF IInv, PromiseInv, Connected, Listed, ConnectedIsListed
<1> QED
  BY <1>1, Invariance, PTL

(* monitoring_main removes the sender of whatever it takes, accepted or    *)
(* not; it is always one that has said goodbye to this manager.            *)
THEOREM DroppedHasLeft == Spec => DroppedSaidGoodbye
<1> DEFINE Dropping == \A m \in Managers : m \in up' =>
                         \A p \in table[m] \ table'[m] : <<p, m>> \in farewells
<1>1. ASSUME IInv, NEW m \in Managers, Drain(m)
      PROVE  Dropping
  BY <1>1, LocalInv, TypeParts, DrainGrows DEF IInv
<1>2. ASSUME IInv, NEW m \in Managers, Stop(m)
      PROVE  Dropping
  BY <1>2 DEF IInv, TypeOK, Stop
<1>3. ASSUME IInv, NEW m \in Managers, NEW p \in Participants, Insert(m, p)
      PROVE  Dropping
  BY <1>3 DEF IInv, TypeOK, Insert
<1>4. Next => \/ \E m \in Managers : \/ Drain(m) \/ Stop(m)
                                     \/ \E p \in Participants : Insert(m, p)
              \/ UNCHANGED table
  BY DEF Next, Deliver, Lose, MainSteps, Leaving, Waking, Start, Kill, Told, Interrupt, SendMagic,
     Ask, OpenAnswer, Open, AwaitAnswer, Connect, Install, Leave, OpenExit, AwaitExit, OpenWol,
     HandleWol, DiscoverySteps, Receive, Respond, managerVars
<1>5. IInv /\ [Next]_vars => Dropping
  BY <1>1, <1>2, <1>3, <1>4 DEF vars
<1>6. IInv /\ [Next]_vars => [Dropping]_vars
  BY <1>5
<1> QED
  BY <1>6, Invariance, PTL DEF Spec, DroppedSaidGoodbye

=============================================================================
