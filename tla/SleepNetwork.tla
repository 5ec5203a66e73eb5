------------------------------ MODULE SleepNetwork ------------------------------
(***************************************************************************)
(* Participants and managers on one network: src/participant.cpp,          *)
(* src/discovery.cpp, the EXIT requests of src/monitoring.cpp, and the     *)
(* requests of src/socket.cpp that connect them.                           *)
(*                                                                         *)
(* The network loses, delays, reorders and duplicates datagrams.  What a   *)
(* packet holds besides its sender and its type is looked at by nobody:    *)
(* an answer is whatever accepted packet arrives at the port.  The table   *)
(* of a manager is the atomic one of StationTable, and every operation on  *)
(* it may last for ever, as those of ManagementService do.                 *)
(***************************************************************************)
EXTENDS Naturals, Sequences

CONSTANTS
  Participants,  \* the hosts that run a participant
  Managers,      \* the hosts that run a manager
  NoManager,     \* the manager of a participant that has none
  Handlers,      \* the SIGINT handlers that one process may run
  NameOf,        \* the host name of a participant as packets deliver it
  Duplicating,   \* whether the network duplicates what it carries
  MaxStarts,     \* bound: how often a participant is started
  MaxMagic,      \* bound: magic packets
  MaxQueue,      \* bound: datagrams that a socket keeps
  MaxThreads     \* bound: response threads of a manager for one host

ASSUME NetworkAssumption ==
  /\ Participants \cap Managers = {}
  /\ NoManager \notin Managers
  /\ {"main", "wake"} \cap Handlers = {}
  /\ Duplicating \in BOOLEAN
  /\ MaxStarts \in Nat /\ MaxMagic \in Nat
  /\ MaxQueue \in Nat \ {0} /\ MaxThreads \in Nat \ {0}

VARIABLES
  net,         \* the datagrams under way
  queue,       \* the datagrams that wait in each bound socket
  process,     \* what became of each participant's process; it is aborted
               \* by a port in use and by handle_wol, and ended by the rest
  pc,          \* where its threads are
  manager_ip,  \* the manager that answered it
  up,          \* the managers that run
  table,       \* the stations that a manager lists
  inserting,   \* response threads that are to insert a station
  answering,   \* response threads that are to answer it
  starts,      \* how often each participant was started
  magic,       \* how many magic packets were sent
  farewells    \* history: who has sent an EXIT request to whom

vars == <<net, queue, process, pc, manager_ip, up, table, inserting, answering,
          starts, magic, farewells>>

participantVars == <<process, pc, manager_ip, starts>>
managerVars == <<up, table, inserting, answering>>

Hosts == Participants \cup Managers
Threads == {"main", "wake"} \cup Handlers

DISCOVERY_MANAGER_PORT == 9041
DISCOVERY_PARTICIPANT_PORT == 9040
EXIT_PORT == 8020
WOL_PARTICIPANT_PORT == 7010

(* The ports that each role binds.                                         *)
ParticipantPorts == {DISCOVERY_PARTICIPANT_PORT, EXIT_PORT, WOL_PARTICIPANT_PORT}
ManagerPorts == {DISCOVERY_MANAGER_PORT, EXIT_PORT}

(* Mutant: one port for both.                                              *)
CollidingPortOf(kind) ==
  CASE kind = "DISCOVERY" -> DISCOVERY_MANAGER_PORT
    [] kind = "ANSWER"    -> DISCOVERY_PARTICIPANT_PORT
    [] OTHER              -> WOL_PARTICIPANT_PORT

(* The kinds of datagrams and the ports that they are sent to.  An ANSWER  *)
(* is the response to a DISCOVERY; the one to a MAGIC packet never leaves. *)
PortOf(kind) ==
  CASE kind = "DISCOVERY" -> DISCOVERY_MANAGER_PORT
    [] kind = "ANSWER"    -> DISCOVERY_PARTICIPANT_PORT
    [] kind = "EXIT"      -> EXIT_PORT
    [] kind = "MAGIC"     -> WOL_PARTICIPANT_PORT

Kinds == {"DISCOVERY", "ANSWER", "EXIT", "MAGIC"}

Datagram == [kind : Kinds, from : Hosts, to : Hosts]

Message(kind, from, to) == [kind |-> kind, from |-> from, to |-> to]

(* Mutant: parse_type knows EXIT.                                          *)
KnowingAccepted(d) == d.kind \in {"DISCOVERY", "ANSWER", "EXIT"}

(* What Packet::deserialize accepts: parse_type knows DISCOVERY only.      *)
Accepted(d) == d.kind \in {"DISCOVERY", "ANSWER"}

Sockets == (Participants \X ParticipantPorts) \cup (Managers \X ManagerPorts)

(* The sockets that are bound are the domain of queue.                     *)
Bound == DOMAIN queue

Init ==
  /\ net = {}
  /\ queue = [s \in Managers \X ManagerPorts |-> <<>>]
  /\ process = [p \in Participants |-> "ended"]
  /\ pc = [p \in Participants |-> [t \in Threads |-> "idle"]]
  /\ manager_ip = [p \in Participants |-> NoManager]
  /\ up = Managers
  /\ table = [m \in Managers |-> {}]
  /\ inserting = [m \in Managers |-> [p \in Participants |-> 0]]
  /\ answering = [m \in Managers |-> [p \in Participants |-> 0]]
  /\ starts = [p \in Participants |-> 0]
  /\ magic = 0
  /\ farewells = {}

-----------------------------------------------------------------------------
(* The network and the sockets.                                            *)

Send(messages) == net' = net \cup messages

Goto(p, t, label) == pc' = [pc EXCEPT ![p][t] = label]

Bind(socket) == queue' = [s \in Bound \cup {socket} |-> IF s = socket THEN <<>> ELSE queue[s]]

Close(socket) == queue' = [s \in Bound \ {socket} |-> queue[s]]

Pop(socket) == queue' = [queue EXCEPT ![socket] = Tail(@)]

(* A datagram that arrives at a port nobody has bound is gone, and so is   *)
(* one that finds the socket's buffer full.  A network that duplicates can *)
(* deliver again, at any time, what was ever sent, or not at all.          *)
Deliver(d) ==
  /\ d \in net
  /\ net' = IF Duplicating THEN net ELSE net \ {d}
  /\ LET socket == <<d.to, PortOf(d.kind)>>
     IN queue' = IF socket \in Bound /\ Len(queue[socket]) < MaxQueue
                   THEN [queue EXCEPT ![socket] = Append(@, d)] ELSE queue
  /\ UNCHANGED <<participantVars, managerVars, magic, farewells>>

Lose(d) ==
  /\ d \in net /\ ~Duplicating
  /\ net' = net \ {d}
  /\ UNCHANGED <<queue, participantVars, managerVars, magic, farewells>>

(* Somebody wakes p; wol_request is called by nobody in this program.      *)
SendMagic(p) == \E m \in Managers :
  /\ magic < MaxMagic
  /\ magic' = magic + 1
  /\ Send({Message("MAGIC", m, p)})
  /\ UNCHANGED <<queue, participantVars, managerVars, farewells>>

-----------------------------------------------------------------------------
(* The process of a participant.                                           *)

Start(p) ==
  /\ process[p] # "running" /\ starts[p] < MaxStarts
  /\ starts' = [starts EXCEPT ![p] = @ + 1]
  /\ process' = [process EXCEPT ![p] = "running"]
  /\ pc' = [pc EXCEPT ![p] = [t \in Threads |->
       IF t = "main" THEN "ask" ELSE IF t = "wake" THEN "open_wol" ELSE "idle"]]
  /\ UNCHANGED <<net, queue, manager_ip, managerVars, magic, farewells>>

(* The process ends with all its threads, and its sockets are closed:      *)
(* std::terminate, or a signal that has its default action.                *)
End(p, fate) ==
  /\ process' = [process EXCEPT ![p] = fate]
  /\ pc' = [pc EXCEPT ![p] = [t \in Threads |-> "idle"]]
  /\ manager_ip' = [manager_ip EXCEPT ![p] = NoManager]
  /\ queue' = [s \in {b \in Bound : b[1] # p} |-> queue[s]]
  /\ UNCHANGED starts

(* A crash, SIGINT while it has its default action, or an exception of a   *)
(* system call that fails or of a datagram that cannot be read.            *)
Kill(p) ==
  /\ process[p] = "running"
  /\ End(p, "ended")
  /\ UNCHANGED <<net, managerVars, magic, farewells>>

(* The first SIGINT is handled by the main thread, which therefore does    *)
(* nothing else until the handler returns, and it never does.              *)
Suspended(p, t) == t = "main" /\ \E h \in Handlers : pc[p][h] # "idle"

At(p, t, label) == pc[p][t] = label /\ ~Suspended(p, t)

Requests(p) == {Message("DISCOVERY", p, m) : m \in Managers}

(* connect_to_manager broadcasts its request before it binds the port of   *)
(* the answer.                                                             *)
Ask(p) ==
  /\ At(p, "main", "ask")
  /\ Send(Requests(p))
  /\ Goto(p, "main", "open_answer")
  /\ UNCHANGED <<queue, process, manager_ip, starts, managerVars, magic, farewells>>

(* Mutant: SO_REUSEADDR.                                                   *)
SharingOpen(p, t, label, port, then) ==
  /\ At(p, t, label)
  /\ Bind(<<p, port>>)
  /\ Goto(p, t, then)
  /\ UNCHANGED <<process, manager_ip, starts>>
  /\ UNCHANGED <<net, managerVars, magic, farewells>>

(* A receiver socket is made: a port that is in use raises an IOException, *)
(* which nothing catches.                                                  *)
Open(p, t, label, port, then) ==
  /\ At(p, t, label)
  /\ \/ /\ <<p, port>> \notin Bound
        /\ Bind(<<p, port>>)
        /\ Goto(p, t, then)
        /\ UNCHANGED <<process, manager_ip, starts>>
     \/ /\ <<p, port>> \in Bound
        /\ End(p, "aborted")
  /\ UNCHANGED <<net, managerVars, magic, farewells>>

OpenAnswer(p) ==
  Open(p, "main", "open_answer", DISCOVERY_PARTICIPANT_PORT, "await_answer")

OpenExit(p, t) == Open(p, t, "open_exit", EXIT_PORT, "await_exit")

OpenWol(p) == Open(p, "wake", "open_wol", WOL_PARTICIPANT_PORT, "handle_wol")

HasAnswer(socket) == queue[socket] # <<>> /\ Accepted(Head(queue[socket]))

(* Mutant: the request is not repeated.                                    *)
SilentRetry(socket, request) ==
  /\ ~HasAnswer(socket)
  /\ queue' = IF queue[socket] = <<>> THEN queue ELSE [queue EXCEPT ![socket] = Tail(@)]
  /\ UNCHANGED net

(* A turn of receive_response that ends with nanosleep and send: no        *)
(* datagram, or one that is not accepted.                                  *)
Retry(socket, request) ==
  /\ ~HasAnswer(socket)
  /\ queue' = IF queue[socket] = <<>> THEN queue ELSE [queue EXCEPT ![socket] = Tail(@)]
  /\ Send(request)

AwaitAnswer(p) ==
  /\ At(p, "main", "await_answer")
  /\ Retry(<<p, DISCOVERY_PARTICIPANT_PORT>>, Requests(p))
  /\ UNCHANGED <<participantVars, managerVars, magic, farewells>>

(* Mutant: the wrong address of the answer.                                *)
ConfusedConnect(p) ==
  LET socket == <<p, DISCOVERY_PARTICIPANT_PORT>>
  IN /\ At(p, "main", "await_answer")
     /\ HasAnswer(socket)
     /\ manager_ip' = [manager_ip EXCEPT ![p] = Head(queue[socket]).to]
     /\ Close(socket)
     /\ Goto(p, "main", "install")
     /\ UNCHANGED <<net, process, starts, managerVars, magic, farewells>>

(* Any accepted packet will do; its sender is the manager from now on.     *)
Connect(p) ==
  LET socket == <<p, DISCOVERY_PARTICIPANT_PORT>>
  IN /\ At(p, "main", "await_answer")
     /\ HasAnswer(socket)
     /\ manager_ip' = [manager_ip EXCEPT ![p] = Head(queue[socket]).from]
     /\ Close(socket)
     /\ Goto(p, "main", "install")
     /\ UNCHANGED <<net, process, starts, managerVars, magic, farewells>>

(* signal(SIGINT, sigint_handler), and the interface thread is started.    *)
Install(p) ==
  /\ At(p, "main", "install")
  /\ Goto(p, "main", "listen")
  /\ UNCHANGED <<net, queue, process, manager_ip, starts, managerVars, magic, farewells>>

(* PARTICIPANT_EXIT is received: somebody has typed EXIT.                  *)
Told(p) ==
  /\ At(p, "main", "listen")
  /\ Goto(p, "main", "leave")
  /\ UNCHANGED <<net, queue, process, manager_ip, starts, managerVars, magic, farewells>>

(* SIGINT once the handler is installed.  The signal is blocked in a       *)
(* thread that handles it, so another thread takes the next one.           *)
Interrupt(p) == \E h \in Handlers :
  /\ process[p] = "running"
  /\ pc[p]["main"] \notin {"ask", "open_answer", "await_answer", "install"}
  /\ pc[p][h] = "idle"
  /\ Goto(p, h, "leave")
  /\ UNCHANGED <<net, queue, process, manager_ip, starts, managerVars, magic, farewells>>

Farewell(p) == Message("EXIT", p, manager_ip[p])

(* disconnect_to_manager, called by the main thread and by the handler.    *)
Leave(p, t) ==
  /\ At(p, t, "leave")
  /\ Send({Farewell(p)})
  /\ farewells' = farewells \cup {<<p, manager_ip[p]>>}
  /\ Goto(p, t, "open_exit")
  /\ UNCHANGED <<queue, process, manager_ip, starts, managerVars, magic>>

(* receive_response(EXIT_PORT) never returns, and no process gets from here *)
(* to the end of main or to exit(130): see NothingAnswersGoodbye.          *)
AwaitExit(p, t) ==
  /\ At(p, t, "await_exit")
  /\ Retry(<<p, EXIT_PORT>>, {Farewell(p)})
  /\ UNCHANGED <<participantVars, managerVars, magic, farewells>>

(* handle_wol takes a datagram.  One of the wrong length raises an         *)
(* InvalidPacketException; a magic packet is answered to 255.255.255.255   *)
(* by a socket without SO_BROADCAST, which sendto refuses with an          *)
(* IOException.  Nothing catches either.                                   *)
HandleWol(p) ==
  LET socket == <<p, WOL_PARTICIPANT_PORT>>
  IN /\ At(p, "wake", "handle_wol")
     /\ queue[socket] # <<>>
     /\ End(p, "aborted")
     /\ UNCHANGED <<net, managerVars, magic, farewells>>

-----------------------------------------------------------------------------
(* A manager.                                                              *)

(* Mutant: the main loop answers, and leaves the insertion to the thread.  *)
HastyReceive(m) ==
  LET socket == <<m, DISCOVERY_MANAGER_PORT>>
  IN /\ m \in up /\ queue[socket] # <<>>
     /\ inserting[m][Head(queue[socket]).from] < MaxThreads
     /\ inserting' = [inserting EXCEPT ![m][Head(queue[socket]).from] = @ + 1]
     /\ Send({Message("ANSWER", m, Head(queue[socket]).from)})
     /\ Pop(socket)
     /\ UNCHANGED <<participantVars, up, table, answering, magic, farewells>>

(* discovery_main starts a thread for each request that it receives.       *)
Receive(m) ==
  LET socket == <<m, DISCOVERY_MANAGER_PORT>>
  IN /\ m \in up /\ queue[socket] # <<>>
     /\ inserting[m][Head(queue[socket]).from] < MaxThreads
     /\ inserting' = [inserting EXCEPT ![m][Head(queue[socket]).from] = @ + 1]
     /\ Pop(socket)
     /\ UNCHANGED <<net, participantVars, up, table, answering, magic, farewells>>

(* insert refuses a station whose host name is listed, and its result is   *)
(* ignored.                                                                *)
Insert(m, p) ==
  /\ inserting[m][p] > 0 /\ answering[m][p] < MaxThreads
  /\ inserting' = [inserting EXCEPT ![m][p] = @ - 1]
  /\ answering' = [answering EXCEPT ![m][p] = @ + 1]
  /\ table' = IF \E q \in table[m] : NameOf[q] = NameOf[p]
                THEN table ELSE [table EXCEPT ![m] = @ \cup {p}]
  /\ UNCHANGED <<net, queue, participantVars, up, magic, farewells>>

Respond(m, p) ==
  /\ answering[m][p] > 0
  /\ answering' = [answering EXCEPT ![m][p] = @ - 1]
  /\ Send({Message("ANSWER", m, p)})
  /\ UNCHANGED <<queue, participantVars, up, table, inserting, magic, farewells>>

(* Mutant: remove_by_hostname.                                             *)
NamesakeDrain(m) ==
  LET socket == <<m, EXIT_PORT>>
  IN /\ m \in up /\ queue[socket] # <<>>
     /\ table' = [table EXCEPT ![m] = {q \in @ :
            Head(queue[socket]).from \in Participants => NameOf[q] # NameOf[Head(queue[socket]).from]}]
     /\ Pop(socket)
     /\ UNCHANGED <<net, participantVars, up, inserting, answering, magic, farewells>>

(* monitoring_main takes a datagram from the EXIT port, accepted or not,   *)
(* and removes the station that has its sender's MAC address.              *)
Drain(m) ==
  LET socket == <<m, EXIT_PORT>>
  IN /\ m \in up /\ queue[socket] # <<>>
     /\ table' = [table EXCEPT ![m] = @ \ {Head(queue[socket]).from}]
     /\ Pop(socket)
     /\ UNCHANGED <<net, participantVars, up, inserting, answering, magic, farewells>>

(* The process of the manager ends: by itself, or by SIGINT, whose handler *)
(* broadcasts an EXIT request first.                                       *)
Stop(m) == \E goodbye \in {{}, {Message("EXIT", m, h) : h \in Hosts \ {m}}} :
  /\ m \in up
  /\ up' = up \ {m}
  /\ Send(goodbye)
  /\ queue' = [s \in {b \in Bound : b[1] # m} |-> queue[s]]
  /\ table' = [table EXCEPT ![m] = {}]
  /\ inserting' = [inserting EXCEPT ![m] = [p \in Participants |-> 0]]
  /\ answering' = [answering EXCEPT ![m] = [p \in Participants |-> 0]]
  /\ UNCHANGED <<participantVars, magic, farewells>>

-----------------------------------------------------------------------------

(* What the threads of a participant do by themselves.                     *)
MainSteps(p) == Ask(p) \/ OpenAnswer(p) \/ AwaitAnswer(p) \/ Connect(p) \/ Install(p)

Leaving(p) == \E t \in {"main"} \cup Handlers : Leave(p, t) \/ OpenExit(p, t) \/ AwaitExit(p, t)

Waking(p) == OpenWol(p) \/ HandleWol(p)

(* What a manager does to answer a participant.                            *)
DiscoverySteps(m) == Receive(m) \/ \E p \in Participants : Insert(m, p) \/ Respond(m, p)

Next ==
  \/ \E d \in net : Deliver(d) \/ Lose(d)
  \/ \E p \in Participants :
       \/ MainSteps(p) \/ Leaving(p) \/ Waking(p)
       \/ Start(p) \/ Kill(p) \/ Told(p) \/ Interrupt(p) \/ SendMagic(p)
  \/ \E m \in Managers : DiscoverySteps(m) \/ Drain(m) \/ Stop(m)

Spec == Init /\ [][Next]_vars

(* The scheduler runs the main thread of a participant, and the network    *)
(* does not lose all of the requests, or all of the answers, that are sent *)
(* again and again.  Nothing is promised of a manager: its threads may     *)
(* wait for a lock.                                                        *)
Fairness ==
  /\ \A p \in Participants : WF_vars(MainSteps(p))
  /\ \A p \in Participants, m \in Managers :
       SF_vars(Deliver(Message("DISCOVERY", p, m))) /\ SF_vars(Deliver(Message("ANSWER", m, p)))

FairSpec == Spec /\ Fairness

-----------------------------------------------------------------------------
(* Properties.                                                             *)

Labels ==
  {"idle", "ask", "open_answer", "await_answer", "install", "listen",
   "leave", "open_exit", "await_exit", "open_wol", "handle_wol"}

(* Every variable has the shape its declaration gives it.                  *)
TypeOK ==
  /\ net \subseteq Datagram
  /\ Managers \X ManagerPorts \cap Bound = up \X ManagerPorts
  /\ Bound \subseteq Sockets
  /\ queue \in [Bound -> Seq(Datagram)]
  /\ \A s \in Bound : Len(queue[s]) <= MaxQueue
  /\ process \in [Participants -> {"running", "ended", "aborted"}]
  /\ pc \in [Participants -> [Threads -> Labels]]
  /\ manager_ip \in [Participants -> Managers \cup {NoManager}]
  /\ up \subseteq Managers
  /\ table \in [Managers -> SUBSET Participants]
  /\ inserting \in [Managers -> [Participants -> 0..MaxThreads]]
  /\ answering \in [Managers -> [Participants -> 0..MaxThreads]]
  /\ starts \in [Participants -> 0..MaxStarts]
  /\ magic \in 0..MaxMagic
  /\ farewells \subseteq Participants \X Managers

(* A participant that got its answer, from this run of its process or from *)
(* an earlier one, is listed by the manager that it is connected to, or a  *)
(* station of the same host name is, until the manager ends or one of that *)
(* name has said goodbye.                                                  *)
ConnectedIsListed ==
  \A p \in Participants :
    /\ pc[p]["main"] \in {"install", "listen"} /\ manager_ip[p] \in up
    /\ \A q \in Participants : NameOf[q] = NameOf[p] => <<q, manager_ip[p]>> \notin farewells
    => \E q \in table[manager_ip[p]] : NameOf[q] = NameOf[p]

(* A manager that goes on running drops nobody who has not said goodbye to *)
(* it, whatever arrives at its port, from whom and how often.              *)
DroppedSaidGoodbye ==
  [][\A m \in Managers : m \in up' =>
       \A p \in table[m] \ table'[m] : <<p, m>> \in farewells]_vars

(* An EXIT request is waited for by one thread, on a port of its own.      *)
AwaitersHoldTheirPorts ==
  \A p \in Participants :
    \A t, u \in Threads :
      /\ pc[p][t] = "await_exit" => <<p, EXIT_PORT>> \in Bound
      /\ pc[p][t] = "await_exit" /\ pc[p][u] = "await_exit" => t = u

(* Nothing that reaches a participant's EXIT port is accepted, so it waits *)
(* there until it is killed.                                               *)
NothingAnswersGoodbye ==
  \A p \in Participants : <<p, EXIT_PORT>> \in Bound =>
    \A i \in DOMAIN queue[<<p, EXIT_PORT>>] : ~Accepted(queue[<<p, EXIT_PORT>>][i])

(* A magic packet waits in p's own socket.                                 *)
Woken(p) ==
  LET socket == <<p, WOL_PARTICIPANT_PORT>>
  IN socket \in Bound /\ queue[socket] # <<>> /\ Head(queue[socket]).kind = "MAGIC"

(* A thread of p is to wait for the answer to its goodbye, and another one *)
(* does.                                                                   *)
LeftTwice(p) ==
  \E t, u \in Threads : t # u /\ pc[p][t] = "open_exit" /\ pc[p][u] = "await_exit"

(* These two are all that aborts a process, by the exception of a port in  *)
(* use or by those of handle_wol.  A port that was bound for something     *)
(* else, or by an earlier run, is never in the way.                        *)
AbortsHaveACause ==
  [][\A p \in Participants :
       process[p] # "aborted" /\ process'[p] = "aborted" => Woken(p) \/ LeftTwice(p)]_vars

(* A manager that lets its threads run and lists whom it is told to.       *)
AnswersAll(m) == [](m \in up) /\ WF_vars(DiscoverySteps(m))

(* A participant that asks is connected, if there is such a manager: the   *)
(* answer may come before the port is bound, or be lost, but it asks again. *)
AskersConnect ==
  (\E m \in Managers : AnswersAll(m)) =>
    \A p \in Participants :
      (pc[p]["main"] = "ask") ~> (pc[p]["main"] \notin {"ask", "open_answer", "await_answer"})

-----------------------------------------------------------------------------
(* What socket.h says and the code does not do; TLC finds it violated.     *)

(* socket.h:179, handle_wol "receives a Wake-On-LAN as the next request    *)
(* and sends a response": a magic packet does not end the process.  Only   *)
(* two threads that leave at the same time may.                            *)
MagicIsSurvived ==
  \A p \in Participants :
    process[p] = "aborted" => \E m \in Managers : <<p, m>> \in farewells

=============================================================================
