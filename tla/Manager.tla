-------------------------------- MODULE Manager --------------------------------
(***************************************************************************)
(* The process of a manager (src/manager.cpp): the threads that            *)
(* src/discovery.cpp, src/monitoring.cpp and src/interface.cpp run over    *)
(* the one table of ManagementService.  Each thread calls only what its    *)
(* code calls, and what happens inside a call is ManagementService's.      *)
(*                                                                         *)
(* role says what a thread does next outside the table; while it is in a   *)
(* call, what it does with the result.  The channel of the interface is    *)
(* the FIFO that Mpsc implements.                                          *)
(*                                                                         *)
(* participant_list puts one null pointer per station before the stations, *)
(* and both of its callers use every element: the process dies, unless the *)
(* stations came in between the size and the elements.                     *)
(***************************************************************************)
EXTENDS ManagementService, Sequences

CONSTANTS
  Frame,        \* the main thread, in manager_interface_main
  Monitor,      \* the thread of monitoring_main
  Input,        \* the thread of handle_manager_input
  Responders,   \* the threads of discovery_response
  EmptyName,    \* the empty host name, which no command can name
  MAX_RETRIES,  \* of monitoring.cpp
  MaxGoodbyes   \* bound: EXIT requests that reach the manager

ASSUME ManagerAssumption ==
  /\ Threads = {Frame, Monitor, Input} \cup Responders
  /\ Cardinality({Frame, Monitor, Input}) = 3
  /\ {Frame, Monitor, Input} \cap Responders = {}
  /\ MAX_RETRIES \in Nat /\ MaxGoodbyes \in Nat

VARIABLES
  role,         \* what each thread does outside the table
  station,      \* the station that each response thread inserts
  inbox,        \* the messages of the interface's channel
  display,      \* the stations on the screen, NotShown before the first time
  requests,     \* the stations that this round has still to poll
  polled,       \* the station of the poll under way, or of the last one
  retry_bound,  \* of receive_bounded
  goodbyes,     \* how many EXIT requests were read
  late,         \* history: response threads started after the first display
  ended         \* how the process has ended, if it has

responderVars == <<station, late>>
monitorVars == <<requests, polled, retry_bound, goodbyes>>
frameVars == <<inbox, display>>

threadVars == <<role, responderVars, monitorVars, frameVars, ended>>

managerVars == <<vars, threadVars>>

NotShown == {NoStation}

(* By exit(), or by an exception that no thread catches: of a receive, or  *)
(* of a request or an answer.                                              *)
Endings == {"no", "exit", "receive", "send"}

(* The sockets of the threads have been opened.                            *)
ManagerInit ==
  /\ Init
  /\ role = [t \in Threads |-> CASE t = Frame   -> "register"
                                 [] t = Monitor -> "round"
                                 [] OTHER       -> "none"]
  /\ station = [r \in Responders |-> NoStation]
  /\ inbox = <<>>
  /\ display = NotShown
  /\ requests = {}
  /\ polled = NoStation
  /\ retry_bound = 0
  /\ goodbyes = 0
  /\ late = {}
  /\ ended = "no"

(* The thread is outside the table and about to do what its role says.     *)
On(t, label) == ended = "no" /\ At(t, {"idle"}) /\ role[t] = label

Become(t, label) == role' = [role EXCEPT ![t] = label]

(* A call of the table, and what the thread will be when it returns.       *)
CallThen(t, c, label, then) == Start(t, c, label) /\ Become(t, then) /\ UNCHANGED unborn

List(t, then) == CallList(t) /\ Become(t, then)

-----------------------------------------------------------------------------
(* Inside the table.                                                       *)

(* Mutant: the handler is never told.                                      *)
MuteAnnounce == UNCHANGED inbox

(* The event handler of manager_interface_main sends MANAGER_IFACE_REFRESH. *)
Announce == inbox' = IF handled THEN Append(inbox, "REFRESH") ELSE inbox

InsideTable(t) ==
  /\ ended = "no"
  /\ \/ Dispatch(t) /\ Announce
     \/ pc[t] # "dispatch" /\ Steps(t) /\ UNCHANGED inbox
  /\ UNCHANGED <<role, responderVars, display, monitorVars, ended>>

(* The process dies: of a data race in the table, or because the handler   *)
(* uses the sender of a frame that has returned.  In the second case the   *)
(* memory may also still be good (Dispatch).                               *)
Die(t) ==
  /\ ended = "no"
  /\ \/ Torn(t)
     \/ /\ At(t, {"dispatch"}) /\ handled /\ role[Frame] = "gone"
        /\ crashed' = TRUE
        /\ UNCHANGED <<index, dataLock, status, statusLock, pc, call, reply, listing,
                       handled, notified, unborn>>
  /\ UNCHANGED threadVars

(* render and monitoring_main call addresses() on the first element.       *)
DereferenceNull(t) ==
  /\ On(t, "render") \/ On(t, "request")
  /\ listing[t].nulls > 0
  /\ crashed' = TRUE
  /\ UNCHANGED <<index, dataLock, status, statusLock, pc, call, reply, listing,
                 handled, notified, unborn, threadVars>>

-----------------------------------------------------------------------------
(* discovery_main and discovery_response.                                  *)

(* A request is received, and a thread started that inserts its sender.    *)
Receive(r) ==
  /\ On(r, "none")
  /\ CallInsert(r)
  /\ station' = [station EXCEPT ![r] = call'[r].stn]
  /\ Become(r, "respond")
  /\ late' = IF display = NotShown THEN late ELSE late \cup {r}
  /\ UNCHANGED <<frameVars, monitorVars, ended>>

(* Mutant: the answer is sent while the insertion is under way.            *)
EagerRespond(r) ==
  /\ ended = "no" /\ ~crashed /\ role[r] = "respond"
  /\ Become(r, "answered")
  /\ UNCHANGED <<vars, responderVars, frameVars, monitorVars, ended>>

(* The insertion has returned; what it returned is ignored.                *)
Respond(r) ==
  /\ On(r, "respond")
  /\ Become(r, "answered")
  /\ UNCHANGED <<vars, responderVars, frameVars, monitorVars, ended>>

-----------------------------------------------------------------------------
(* monitoring_main.                                                        *)

BeginRound ==
  /\ On(Monitor, "round")
  /\ List(Monitor, "request")
  /\ UNCHANGED <<responderVars, frameVars, monitorVars, ended>>

(* A SLEEP_STATUS request is sent to every participant.                    *)
RequestAll ==
  /\ On(Monitor, "request")
  /\ listing[Monitor].nulls = 0
  /\ requests' = listing[Monitor].stns
  /\ polled' = NoStation
  /\ Become(Monitor, "poll")
  /\ UNCHANGED <<vars, responderVars, frameVars, retry_bound, goodbyes, ended>>

(* Mutant: one try too many.                                               *)
OverlongPoll == \E s \in requests :
  /\ On(Monitor, "poll")
  /\ polled' = s
  /\ requests' = requests \ {s}
  /\ retry_bound' = MAX_RETRIES + 1
  /\ Become(Monitor, "await")
  /\ UNCHANGED <<vars, responderVars, frameVars, goodbyes, ended>>

(* The next request: receive_bounded is called with MAX_RETRIES.           *)
Poll == \E s \in requests :
  /\ On(Monitor, "poll")
  /\ polled' = s
  /\ requests' = requests \ {s}
  /\ retry_bound' = MAX_RETRIES
  /\ Become(Monitor, "await")
  /\ UNCHANGED <<vars, responderVars, frameVars, goodbyes, ended>>

(* A turn of receive_bounded: a packet is accepted, or the request is sent *)
(* again, after the last try too.                                          *)
Await ==
  /\ On(Monitor, "await") /\ retry_bound > 0
  /\ retry_bound' \in {0, retry_bound - 1}
  /\ UNCHANGED <<vars, role, responderVars, frameVars, requests, polled, goodbyes, ended>>

(* receive_bounded returns a packet, received or not, and sleep_status is  *)
(* passed on with whatever value it happens to have.                       *)
Update == \E w \in Statuses :
  /\ On(Monitor, "await") /\ retry_bound = 0
  /\ CallThen(Monitor, Call("update", "mac", KeyOf[polled]["mac"], NoStation, w), "guard", "poll")
  /\ UNCHANGED <<responderVars, frameVars, monitorVars, ended>>

EndPolls ==
  /\ On(Monitor, "poll") /\ requests = {}
  /\ Become(Monitor, "drain")
  /\ UNCHANGED <<vars, responderVars, frameVars, monitorVars, ended>>

(* A datagram at the EXIT port, of this run of its sender or of another.   *)
Drain == \E s \in Stations :
  /\ On(Monitor, "drain") /\ goodbyes < MaxGoodbyes
  /\ goodbyes' = goodbyes + 1
  /\ CallThen(Monitor, Lookup("remove", "mac", KeyOf[s]["mac"]), "claim", "drain")
  /\ UNCHANGED <<responderVars, frameVars, requests, polled, retry_bound, ended>>

(* Nothing more at the EXIT port: nanosleep, and the next round.           *)
Sleep ==
  /\ On(Monitor, "drain")
  /\ Become(Monitor, "round")
  /\ UNCHANGED <<vars, responderVars, frameVars, monitorVars, ended>>

-----------------------------------------------------------------------------
(* manager_interface_main.                                                 *)

Register ==
  /\ On(Frame, "register")
  /\ CallRegister(Frame)
  /\ Become(Frame, "start")
  /\ UNCHANGED <<responderVars, frameVars, monitorVars, ended>>

(* The input thread is started and the table listed for the first time.    *)
Begin ==
  /\ On(Frame, "start")
  /\ CallList(Frame)
  /\ role' = [role EXCEPT ![Frame] = "render", ![Input] = "read"]
  /\ UNCHANGED <<responderVars, frameVars, monitorVars, ended>>

(* Mutant: the loop ends where it should go on.                            *)
QuittingRender ==
  /\ On(Frame, "render")
  /\ listing[Frame].nulls = 0
  /\ display' = listing[Frame].stns
  /\ statusLock' = [s \in Stations |-> IF s \in listing[Frame].stns
                                        THEN SharedGuard(statusLock[s]) ELSE statusLock[s]]
  /\ Become(Frame, "gone")
  /\ UNCHANGED <<index, dataLock, status, pc, call, reply, listing, handled, notified,
                 unborn, crashed>>
  /\ UNCHANGED <<responderVars, inbox, monitorVars, ended>>

(* Mutant: the messages that came during the listing are thrown away.      *)
DrainingRender ==
  /\ On(Frame, "render")
  /\ listing[Frame].nulls = 0
  /\ display' = listing[Frame].stns
  /\ inbox' = <<>>
  /\ statusLock' = [s \in Stations |-> IF s \in listing[Frame].stns
                                        THEN SharedGuard(statusLock[s]) ELSE statusLock[s]]
  /\ Become(Frame, "receive")
  /\ UNCHANGED <<index, dataLock, status, pc, call, reply, listing, handled, notified,
                 unborn, crashed>>
  /\ UNCHANGED <<responderVars, monitorVars, ended>>

(* render shows every station, and its status under the shared guard.      *)
Render ==
  /\ On(Frame, "render")
  /\ listing[Frame].nulls = 0
  /\ display' = listing[Frame].stns
  /\ statusLock' = [s \in Stations |-> IF s \in listing[Frame].stns
                                        THEN SharedGuard(statusLock[s]) ELSE statusLock[s]]
  /\ Become(Frame, "receive")
  /\ UNCHANGED <<index, dataLock, status, pc, call, reply, listing, handled, notified,
                 unborn, crashed>>
  /\ UNCHANGED <<responderVars, inbox, monitorVars, ended>>

HasMessage(message) == inbox # <<>> /\ Head(inbox) = message

Refresh ==
  /\ On(Frame, "receive") /\ HasMessage("REFRESH")
  /\ inbox' = Tail(inbox)
  /\ List(Frame, "render")
  /\ UNCHANGED <<responderVars, display, monitorVars, ended>>

(* Mutant: the break leaves the switch and nothing sets exit.              *)
BreakingLeave ==
  /\ On(Frame, "receive") /\ HasMessage("EXIT")
  /\ inbox' = Tail(inbox)
  /\ UNCHANGED <<vars, role, responderVars, display, monitorVars, ended>>

(* MANAGER_IFACE_EXIT: the frame returns, and its sender with it, to which *)
(* the event handler still refers.                                         *)
Leave ==
  /\ On(Frame, "receive") /\ HasMessage("EXIT")
  /\ inbox' = Tail(inbox)
  /\ Become(Frame, "gone")
  /\ UNCHANGED <<vars, responderVars, display, monitorVars, ended>>

(* The main thread returns from main, which ends the process.  The handler *)
(* of SIGINT ends it too, at any time; that is left to SleepNetwork.       *)
Exit ==
  /\ On(Frame, "gone")
  /\ ended' = "exit"
  /\ UNCHANGED <<vars, role, responderVars, frameVars, monitorVars>>

-----------------------------------------------------------------------------
(* handle_manager_input.                                                   *)

(* WAKEUP with a host name, which is not empty.                            *)
Wakeup == \E k \in Keys \ {EmptyName} :
  /\ On(Input, "read")
  /\ CallThen(Input, Lookup("wakeup", "hostname", k), "guard", "read")
  /\ UNCHANGED <<responderVars, frameVars, monitorVars, ended>>

(* End of file.                                                            *)
EndOfInput ==
  /\ On(Input, "read")
  /\ inbox' = Append(inbox, "EXIT")
  /\ Become(Input, "gone")
  /\ UNCHANGED <<vars, responderVars, display, monitorVars, ended>>

-----------------------------------------------------------------------------
(* An exception that no thread catches ends the process.                   *)

Terminate(cause) ==
  /\ ended' = cause
  /\ UNCHANGED <<vars, role, responderVars, frameVars, monitorVars>>

(* discovery_main receives at any time, whatever its responses do.  A      *)
(* datagram may be one that its reader cannot read, as OnlyBackslashesDerail *)
(* of PacketCodec tells, or recvfrom may fail.                             *)
ReceiveThrows == ended = "no" /\ ~crashed /\ Terminate("receive")

DrainThrows == On(Monitor, "drain") /\ Terminate("receive")

(* A turn of receive_bounded reads, and may send again.                    *)
AwaitThrows ==
  /\ On(Monitor, "await") /\ retry_bound > 0
  /\ Terminate("receive") \/ Terminate("send")

(* A request looks up the host's own addresses before it is sent, and so   *)
(* does an answer; either lookup, or sendto, may fail.                     *)
RequestThrows ==
  /\ On(Monitor, "request")
  /\ listing[Monitor].nulls = 0 /\ listing[Monitor].stns # {}
  /\ Terminate("send")

RespondThrows(r) == On(r, "respond") /\ Terminate("send")

Exceptions ==
  \/ ReceiveThrows \/ DrainThrows \/ AwaitThrows \/ RequestThrows
  \/ \E r \in Responders : RespondThrows(r)

-----------------------------------------------------------------------------

MonitorSteps == BeginRound \/ RequestAll \/ Poll \/ Await \/ Update \/ EndPolls \/ Sleep

FrameSteps == Register \/ Begin \/ Render \/ Refresh \/ Leave \/ Exit

(* What a thread does by itself.                                           *)
ThreadSteps(t) ==
  \/ InsideTable(t) \/ DereferenceNull(t)
  \/ t \in Responders /\ Respond(t)
  \/ t = Monitor /\ MonitorSteps
  \/ t = Frame /\ FrameSteps

(* What happens to it.                                                     *)
Environment ==
  \/ \E r \in Responders : Receive(r)
  \/ Drain \/ Wakeup \/ EndOfInput \/ Exceptions

ManagerNext == Environment \/ \E t \in Threads : ThreadSteps(t) \/ Die(t)

ManagerSpec == ManagerInit /\ [][ManagerNext]_managerVars

(* Every thread is scheduled.  No request, command or end of file need     *)
(* ever come.                                                              *)
ManagerFairness == \A t \in Threads : WF_managerVars(ThreadSteps(t))

FairManagerSpec == ManagerSpec /\ ManagerFairness

-----------------------------------------------------------------------------
(* Properties.                                                             *)

Roles == {"none", "register", "start", "render", "receive", "gone", "round", "request",
          "poll", "await", "drain", "read", "respond", "answered"}

(* Every variable of the threads has the shape its declaration gives it,   *)
(* and each thread keeps to the operations that its code calls.            *)
ManagerTypeOK ==
  /\ role \in [Threads -> Roles]
  /\ station \in [Responders -> Stations \cup {NoStation}]
  /\ inbox \in Seq({"REFRESH", "EXIT"})
  /\ display \subseteq Stations \/ display = NotShown
  /\ requests \subseteq Stations /\ polled \in Stations \cup {NoStation}
  /\ retry_bound \in 0..MAX_RETRIES /\ goodbyes \in 0..MaxGoodbyes
  /\ late \subseteq Responders /\ ended \in Endings
  /\ call[Frame].op \in {"none", "register", "list"}
  /\ call[Monitor].op \in {"none", "list", "update", "remove"}
  /\ call[Input].op \in {"none", "wakeup"}
  /\ \A r \in Responders : call[r].op \in {"none", "insert"}

(* A host that was answered is in all three indices, or the station that   *)
(* had its host name before it is, until a removal finds a station.        *)
AnsweredIsListed ==
  \A r \in Responders :
    /\ role[r] = "answered"
    /\ \A t \in Threads : call[t].op = "remove" => call[t].stn = NoStation
    => LET s == index["hostname"][KeyOf[station[r]]["hostname"]]
       IN /\ s # NoStation
          /\ \A ix \in Indices : index[ix][KeyOf[s][ix]] = s

(* The monitoring thread never comes back from the update of the first     *)
(* station it polls: it polls no other one, reads no EXIT request and      *)
(* begins no other round, although its requests are bounded.               *)
FirstPollIsTheLast ==
  polled # NoStation => role[Monitor] = "await" \/ pc[Monitor] # "idle"

(* Of the hosts that ask once the table has been shown, at most one is     *)
(* answered: the guard of the first listing lets one more writer in.       *)
OneLateAnswer == Cardinality({r \in late : role[r] = "answered"}) <= 1

(* Until a discovery request is received, whatever is typed and whoever    *)
(* takes leave, only a receive that throws, or the main thread's return at *)
(* the end of the input, ends the manager: it meets no null pointer, no    *)
(* torn read and no dangling handler, and it sends nothing that could fail. *)
QuietUntilAsked ==
  (\A r \in Responders : station[r] = NoStation)
    => ~crashed /\ ended \in {"no", "exit", "receive"}

(* No refresh is lost: whenever the main thread waits at an empty channel, *)
(* every listed station is on the screen, whether it was inserted before,  *)
(* while or after the handler was registered and the table listed, or the  *)
(* thread that inserts it has still to dispatch.                           *)
NothingIsMissed ==
  role[Frame] = "receive" /\ inbox = <<>> =>
    \A s \in StationsIn("mac") \ display : \E t \in Threads :
      call[t].op = "insert" /\ call[t].stn = s /\ pc[t] \in {"edit2", "edit3", "dispatch"}

(* The event handler is called without its frame only after the console    *)
(* was closed, while the process ends.                                     *)
HandlerHasItsFrame ==
  \A t \in Threads :
    pc[t] = "dispatch" /\ handled /\ role[Frame] = "gone" => role[Input] = "gone"

Over == crashed \/ ended # "no"

(* The end of the input ends the process, whatever the other threads do    *)
(* and wherever they hang.                                                 *)
EndOfInputIsObeyed == (role[Input] = "gone") ~> Over

(* No manager lives on with a station: the display or the monitor meets    *)
(* its null pointer, if nothing else ends the process first.  That either  *)
(* survives its listing by a lucky moment, or hangs, saves nobody.         *)
ListingIsFatal == (StationsIn("mac") # {}) ~> Over

=============================================================================
