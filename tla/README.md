# SleepManager in TLA+

SleepManager is one C++ program with two roles. A *participant* announces itself
to the manager by broadcast, listens for Wake-on-LAN, and leaves when its user
types EXIT. The *manager* keeps a table of the work stations that announced
themselves, polls their sleep status, and shows the table on a console. Paths
below are relative to the repository, `src/src/*.cpp` and `src/include/*.h`.

The project models the program as it is written. Where the code does something
else than its own comments say, a run of its own exhibits it (see *What the code
does not do*); the properties of the other runs are those that hold all the same.

## Inventory

| component | state | operations | talks to |
|---|---|---|---|
| station table, `management.h/.cpp`, `lock.h` | three maps (by host name, MAC, IP) to shared stations, `rw_data_lock`, the handler vector and `event_lock`; per station its addresses, `status_`, `rw_status_lock` | `insert`, `remove_by_*`, `get_by_*`, `update_sleep_status`, `wakeup`, `participant_list`, `register_event_handler` | called by all threads of the manager; calls the event handlers |
| channel, `channel.h` | `state_tag`, queue, mutex, condition variable, the number of handles | `send`, `receive`, copying and destroying handles | console threads to main loops |
| packet codec, `packet.h/.cpp` | the `Packet` object that is filled, the cursor of the reader | `serialize`, `deserialize` | sockets |
| sockets, `socket.h/.cpp` | bound ports, `global_seqn`, the request that is repeated | `request`, `receive_response`, `receive_bounded`, `receive`, `try_receive`, `respond`, `handle_wol` | discovery, monitoring, participant |
| discovery, `discovery.cpp` | one thread per datagram | insert the sender, then answer it | sockets, table |
| monitoring, `monitoring.cpp` | the requests of a round | poll every station, update its status, drain EXIT requests | sockets, table |
| console, `interface.cpp` | the channel of each role | commands, refreshing the display | table, channel |
| manager, `manager.cpp` | - | starts the three above; SIGINT | all |
| participant, `participant.cpp` | the manager's address | connect, receive commands, disconnect, Wake-on-LAN; SIGINT | sockets, channel |
| addresses, `address.h/.cpp` | the descriptors that lookups open; the bits of a parsing stream | rendering, parsing, looking up the host | codec, sockets |

The behaviours that are hard here: the table is shared by a thread per discovery
request, the monitoring thread, the input thread and the display, over locks that
the read guard unbalances; the channel's destructors run without its mutex; a
datagram that is rejected has already changed the object it was read into;
requests are repeated over a network that loses, duplicates and delays, and
answers are recognised by their port alone. `PROJECT.json` lists the hazards one
by one, at their lines.

What makes each component correct:

* *table* - writers exclude each other; the indices agree; the replies are those
  of an atomic table; an event describes a table that has what it announces; a
  lock that was claimed is given back; every change fires its event.
* *channel* - every message once, in order; no lost wakeup; disconnection is told
  exactly when one side is gone.
* *codec* - what is accepted is what was sent; what is rejected does no harm; an
  answer carries its request's number.
* *sockets* - an answer is the answer to this request; repeated requests end.
* *addresses* - the text of an address gives back the address, another text gives
  none; a lookup may be repeated.
* *manager and participant* - a participant that asks is listed and answered, one
  that leaves is removed, and both programs end when they are told to.

## Modules

| module | models | kind |
|---|---|---|
| `RwLock` | `std::shared_mutex` and `SharedLockGuard` | operators on a lock's state |
| `ManagementService` | the station table | state machine, properties |
| `StationTable` | the atomic table its header promises | abstract specification |
| `ManagementService_proofs` | | proofs of the table's safety |
| `ManagementService_refinement` | | proof that the table implements `StationTable` |
| `Mpsc` | the channel in the hands of its two users | state machine, properties |
| `FifoChannel` | the FIFO channel its header promises | abstract specification |
| `Mpsc_proofs` | | proofs of the channel's safety, and that it implements `FifoChannel` |
| `PacketCodec` | serialization and deserialization in a request and its answer | state machine, properties |
| `PacketCodec_proofs` | | proofs |
| `SleepNetwork` | participants and managers, their requests and signals, over UDP | state machine, properties |
| `SleepNetwork_proofs` | | proofs |
| `Manager` | the manager's process: discovery, monitoring and console over `ManagementService`, which it extends | composition, properties |
| `Manager_proofs` | | proofs, over those of the table |
| `Addresses` | the lookup of the host's addresses, rendering and parsing | state machine, properties |
| `Addresses_proofs` | | proofs |
| `MCManagement`, `MCMpsc`, `MCPacketCodec`, `MCSleepNetwork`, `MCManager`, `MCAddresses` | | constants for TLC |

### The table: `ManagementService`

A step is one access to shared state. A thread's `pc` says where it is inside an
operation: `check` reads the status of the station to insert; `claim` and `enter`
are the two halves of `lock_guard(rw_data_lock)`; `edit1` to `edit3` are the three
map operations, in the order of the operation (`EditOrder`); `sclaim` and `senter`
take a station's status lock; `dispatch` calls the handlers; `unlock` leaves;
`guard` is the shared guard of a reader, `size` and `read` its accesses. `call`
holds the arguments and locals, `reply` the result. Any thread may call any
operation at any time, which covers the manager's threads and more.

`RwLock` describes what libstdc++ and glibc do with the code as written, and was
compared with the real library on short sequences of guards and lock guards. The
guard calls `unlock_shared()` twice and nobody calls `lock_shared()`, so the
unsigned reader count leaves zero and never returns to it, short of 2^29 calls (the
named bound of that module). A writer is admitted if the count is zero or if the
last writer left the lock in its write phase, which it does only if the count was
zero when it left. Hence after the first guard at most one more write section can
follow, and then the lock is `Dead`.

Two data races are steps with more than one outcome: a reader inside a map that a
writer is relinking, and a dispatch over a handler vector that is being extended.
Each either reads old or new contents or ends the process (`Torn`).

`SharedAddressSharesHostname` is the one assumption about addresses: stations that
share a MAC or an IP address share their host name. It holds of one host that asks
twice, and of any two hosts, because the codec delivers the empty host name for all
of them (`codec_text`).

`ImplementsTable` maps the three indices to one set of stations, those of
`hostname_index`, and each insert or removal to one instant: the edit of that index.

### The channel: `Mpsc`

The frame is `manager_interface_main` or `participant_main`: it opens the channel,
starts the input threads, receives until it is told to exit, and returns. The move
constructors take `const&&` and therefore copy, so the frame holds four handles
until it returns and each thread two. `live` is the set of handles, `use_count` its
size. `state_tag` is atomic and written by destructors without the mutex, so a
destructor is three steps (`Drop` reads the count, `Mark` writes the tag and
notifies, `Free` gives the handle up) and `send` is three (`Push`, `CheckTag`,
`Publish`). `Wait` evaluates the predicate with the mutex held and `FallAsleep` lets the
mutex go, so that a destructor may write the tag in between; `SpuriousWakeup` is
the condition variable's own. A message matters only by whether it is an exit.
In `participant_main` a call of `disconnect_to_manager` stands between the loop and
the return; it belongs to the participant and is not part of the channel.

### The codec: `PacketCodec`

A datagram is a sequence of symbols: characters of a text, a rendered number, a
rendered address, the field end. `Request` serializes a packet for the server,
`Respond` answers an accepted one with the header that was received. Each read of a
field is a step which stores into the `Packet` object of the reading host, so that a
rejection leaves what was read. The server's object survives a rejection, because
`ServerSocket::receive` loops over one object.

`HostnameAssumption` excludes host names in which a backslash is followed by digits
and a field end, which a reader would take for one more number; the characters of a
host's name are letters, digits and hyphens, so that a backslash is already one more
than the model has to allow.

### The network: `SleepNetwork`

Every host is a participant or a manager. `net` holds the datagrams under way and
`queue` one bounded buffer for each socket that is bound. A network that duplicates
may deliver again whatever was ever sent; one that does not may lose it. A
datagram is its kind, sender and destination, because no code looks at anything
else: an answer is whatever `Accepted` packet reaches the port.

The main thread of a participant goes through `ask`, `open_answer`, `await_answer`,
`install`, `listen`, `leave`, `open_exit` and `await_exit`; a turn of
`receive_response` is one step, `Retry`. `wake` is the Wake-on-LAN thread, and
`Handlers` are the activations of the SIGINT handler: the first runs on the main
thread and suspends it, the next on another one. Binding a port twice aborts the
process, and so does a datagram at the Wake-on-LAN port (`HandleWol`): one of the
wrong length raises an exception, and the answer to a magic packet is broadcast from
a socket that has not enabled broadcasts, which `sendto` refuses. These two are the
fate `aborted`. Whatever else ends a process is `Kill`, at any time: a signal, a crash,
an exception of a failed system call or of a datagram that cannot be read. It may be
started again, up to `MaxStarts` times, while its datagrams are still under way.

A manager counts its response threads before and after the insertion. Its table is
the atomic one, to which `ManagementService` is related by `ImplementsTable`, with
the test for the host name only. An operation may never happen, as those of
`ManagementService` may hang. A manager that ends is not started again; a new one
is another host. Participant and manager are on different hosts: on one host, both
bind `EXIT_PORT`, and the one that comes second is aborted.

Nothing is accepted at a participant's EXIT port (`NothingAnswersGoodbye`), so the
step in which `receive_response(EXIT_PORT)` returns is not in the model: no
process ends by returning from `disconnect_to_manager`.

### The manager: `Manager`

`Manager` extends `ManagementService`: its threads are the main thread (`Frame`), the
monitor, the input thread and one thread for each discovery request, and each calls
only what its code calls. `role` says what a thread does outside the table, or, while
it is inside, what it does with the result. Between two calls it takes one step for
each access to something shared: the channel (`inbox`, the FIFO that `Mpsc`
implements), the screen (`display`), the status locks that `Render` reads. A poll is
`Poll`, the turns of `receive_bounded` (`Await`, whose counter is `retry_bound`) and
`Update`. The status that is passed on is uninitialised, so any is chosen.

`DereferenceNull` ends the process where the display or the monitor uses the null
pointers of a listing. `Die` is a data race of the table (`Torn`) or a dispatch to the
handler whose frame has returned; in that case the memory may also still be good, and
the dispatch goes on. Requests, EXIT datagrams, commands and the end of the input come
from outside at any time. SIGINT, which ends the process too, is in `SleepNetwork`.

No thread catches an exception, and `ended` says which kind has ended the process:
one of a receive, since `discovery_main` (`ReceiveThrows`), the drain of the EXIT port
(`DrainThrows`) and `receive_bounded` (`AwaitThrows`) may each read a datagram whose host
name derails the reader (`packet.cpp:161` and `169`), or fail to read; or one of a send,
since a request and an answer look up the host's addresses first (`RequestThrows`,
`RespondThrows`; what can fail there is in `Addresses`). They may come at any turn.

### The addresses: `Addresses`

A text is a sequence of tokens: numbers as a stream extracts them, the separator,
anything else; `Render` puts the octets and the separators in turn. The two `operator>>`
differ only in constants. A step is one
extraction; one from a stream that is not good stores nothing, and what is then read
from `ch` or `byte` is any value. A lookup takes the first IPv4 address of the host's
name and then one interface after the other (`LoadMac`): it may have another address, or
none any more, or this one, and then it may still not tell its MAC address, which is an
exception like the end of the list. `load_mac` never closes the descriptors that it
opens, and they may run out; they are those of the lookups only. A lookup or a parse
that throws ends the process.

## Runs

All runs allow deadlock: threads may be stuck in a dead lock, producers may be
done, and an exception ends the process.

| run | question | instance |
|---|---|---|
| `table` | exclusion, agreement, dead locks stay dead, events, atomicity; a claimed lock is released | 2 threads, 3 stations of which 2 share all addresses, 2 keys, fair |
| `table_removal` | violated, see below | 2 threads |
| `channel` | no empty pop, no lost wakeup, no early disconnection, FIFO; messages are received, exit is obeyed | 2 producers, 2 messages each, fair |
| `channel_eof` | violated, see below | 1 producer |
| `codec_exchange` | acceptance, rejection, derailment, numbering | 3 numbers around 2^16, 6 host names, 4 types |
| `codec_text` | violated, see below | plain host names |
| `network_safety` | who is connected is listed, who is dropped has left, nothing answers a goodbye | 2 participants of one name, 2 starts, 1 signal, 1 manager, duplicating network |
| `network_progress` | who asks is connected; what a port in use and a magic packet can abort | 1 participant, 2 signals, 1 magic packet, 1 manager, losing network, fair |
| `network_wol` | violated, see below | 1 participant, 1 magic packet |
| `manager_safety` | who is answered is listed; what hangs the monitor and late requests; what ends a process that nobody has asked; no lost refresh | 3 requests, 3 stations of which 2 share the host name, 1 EXIT request, 1 retry |
| `manager_progress` | the end of the input ends the process, a listed station is fatal | 1 request, 1 station, 1 EXIT request, 3 retries, fair |
| `addresses` | what a lookup returns, what is taken for an address, guessed memory | 3 octets, all texts of up to 6 tokens, 4 descriptors |

The bounds suffice for the cases at stake. Two threads give every race of a reader
with a writer, of two writers and of a writer with a registration. Stations `a` and
`a2` are a host that asks twice, `c` shares nothing with them, and `manager_safety`
has two stations that share only the host name: these are all the ways two stations
can relate. Two messages of two producers give queues
in which the tag must stay set after a receive, and teardown between any two steps
of a send. The codec's numbers lie below, at and beyond the modulus, and its host
names put a backslash before a letter, a field end, another backslash and the end.
Two participants of one name are what the codec makes of any two hosts; two starts
put the datagrams of one run in the way of the next; one signal meets a main thread
that is leaving already, two meet each other. Buffers and response threads are one
for each host, so that both are exhausted at once; more of them were tried with one
participant. Of the manager's three requests, one is needed to be listed before
the first display and two after it, of which one hangs; since the monitor never comes
back from its first update, one EXIT request before it and the retries of one poll are
all that happens. The station of each request may be brought on the screen by the
handler, by the first listing or by both. `manager_safety` regards the two hosts of one
name as alike, and the requests, which the code does not tell apart. Liveness is
checked with one request; `ListingIsFatal` was also checked with two requests of two
hosts. Addresses of three octets
have a first, a middle and a last one, and texts of six tokens are one longer than
such an address; the numbers fit an octet, do not, and do not fit an unsigned.

Fairness. Threads that run are scheduled: weak fairness of what each thread does
once it is inside an operation. Nobody is obliged to call anything, a producer
may wait for input for ever, and no spurious wakeup is counted on. A thread that
waits to claim the table lock is not promised it: the lock is not fair and may be
taken by others for ever, so `TableReleased` speaks of the owner only. On the
network, strong fairness of the delivery of requests and of answers says that not
all of the repetitions are lost, and nothing is assumed of a manager: `AskersConnect`
names the manager it needs, one that stays up and whose threads are not held up by
its table (`AnswersAll`). The manager of this code is not such a one once its table
lock is dead. In `Manager` each thread is scheduled, weakly, as a thread of its own
(`ManagerFairness`); no request, EXIT datagram, command or end of input need ever come.

## What the code does not do

| run | the comment | the code |
|---|---|---|
| `table_removal` | `management.h:70` "every time a change happens" | `management.cpp:55` waits for ever on a lock that `insert` ruined |
| `channel_eof` | `channel.h:76` "no producer active" | `channel.h:123` counts the receiver's own handles |
| `network_wol` | `socket.h:179` "receives a Wake-On-LAN ... and sends a response" | `socket.cpp:301` broadcasts from a socket that may not |
| `codec_text` | `packet.h:113` "escaping control characters" | `packet.cpp:109` keeps only what is escaped |

Three more divergences are in the models and have no run of their own. `lock.h:11`
unlocks where it should lock, so readers of the table run inside a writer's edits
(`management.h:46`, "A concurrent table"). A send that overlaps the end of the receiver
stores NEW_MESSAGE over DISCONNECTED (`channel.h:137`). `parse_type` knows one of the
four types (`packet.cpp:67`).

`AcceptedAsSent` also records that `read_uint` keeps 16 bits of a number
(`packet.cpp:169`), where `packet.h:134` promises "an integer from decimal".
`participant_list` returns one null pointer for each station in front of the
stations (`management.cpp:185`), the `nulls` of a `listing` in `ManagementService`;
`monitoring.cpp:17` and `interface.cpp:82` dereference every element.

The manager runs show how far such a process comes. It dies at the first display or
round that finds a station, unless the station came in between the size and the
elements of that listing; and then the next display does it, so that no manager lives
on with a station (`ListingIsFatal`). Until then the monitor hangs in the update of
the first station it polls (`FirstPollIsTheLast`), and of the hosts that ask
after the first display at most one is answered (`OneLateAnswer`). Whenever the main
thread waits at an empty channel, what is listed is on the screen, or its thread is
still about to announce it (`NothingIsMissed`): a station that is inserted between the
registration of the handler and the first listing is brought by both, and none by
neither. Without a request the
process meets no null pointer and no torn read, and sends nothing whose exception could
end it; only an exception of a receive, which a datagram with an ill-formed host name
raises, or the end of the input does (`QuietUntilAsked`). The end of the input, once it
is read, ends the process whatever hangs (`EndOfInputIsObeyed`); a WAKEUP of a listed
station keeps the input thread from reading it.

The addresses run shows that a number is cut to eight bits, so that 256 is taken for 0
(`ParsedIsWritten`); that a text which is too short is completed from uninitialised
memory (`GuessedIsShort`); that whatever fails on the way, a lookup that returns has the
two addresses of one interface (`LoadedIsOwn`), though possibly of the loopback; and
that a host whose name resolves to an address of no interface, or which has looked its
addresses up too often, ends with an exception.

The network runs show, beside what they check: a second participant is answered and
never listed, because its host name is taken (`ConnectedIsListed` can promise no
more than a namesake); a late or repeated goodbye of an earlier run removes a
participant that has come back; EXIT and then SIGINT, or two SIGINTs, abort
the process, which a single one of them never ends.

## Proofs

Every invariant and every action property that a passing run checks is proved of the
module's specification, for every value of its constants: any number of threads,
stations, keys, producers, messages, participants, managers, signals, host names,
numbers and octets, and any bound. So are both refinements. The proofs rest on the
named assumptions of the modules alone, which TLC evaluates on every run. Each
proceeds from an inductive invariant that TLC checked on the run's instance first.
`PROJECT.json` lists the theorems with the properties they state.

*Table.* `IInv` is inductive and has four parts. `TypeInv` adds to `TypeOK` which
labels go with which operation. `StatusInv` says that a station is in an index, or
in the hands of a thread behind `check`, only with a dead status lock: this is why
no status lock is ever granted, and without it a removal could go on to change the
status and the argument about events and frozen tables would break. `LockInv`
connects the table lock's owner and phase to the labels, so that two writers would
have to own it at once. `IndexInv` says what the indices look like between the edits
of the one writer: equal up to the edits it has still to make. It uses
`SharedAddressSharesHostname`, since only the insert into `hostname_index` is
tested. The action properties `Frost` and `Notification` follow from the
invariant by going through the actions.

*Refinement of the table.* An insertion takes effect when it edits `hostname_index`, its
first edit; a removal when it edits that index, its first, second or last, or when its
lookup finds nothing. The first needs `IndexInv`: a name that is free in one index is
free in the table, and a station that another index finds is in the table. The second
needs `ReplyInv`: what a call will return is settled from its effect on, and the station
that a removal holds has the removal's key. It also says that every station is AWAKEN
throughout, since no removal gets as far as changing a status; an `insert` that found one
disconnected would return without effect, which the atomic table does not.

*Channel.* `IInv` has the types, `LockInv` (the mutex is held by the thread between
its acquisition and its release), `OpenInv` (the four handles of the frame are alive
while it listens, so that, by counting them, no destructor of a sender can see two
handles or fewer) and `QueueInv` (a tag that announces a message is right, and an
unannounced message has a sender that holds the mutex and is about to announce it).
`Wakefulness` is the last part; `Refinement` maps `Push` to the abstract send, the
end of a producer to its leave, `Take` to the abstract receive, and everything
else to stuttering.

*Codec.* `IInv` says what is left of a datagram: the fields from `next` on as they were
written, while those before it are filled in (`Clean`); or the host name held a backslash
and the reader is past the end of its field (`Derailed`). Then it finds one of three
things: the rest of the host name, which is no number; the type, read as a direction,
and nothing after it; or nothing. None of them is ever accepted, and this is the
heart of `AcceptedAsSent`. That nothing is written of a host name without a backslash
is induction over the loop of `write(string)`: the induction theorems of the library
take an operator, which the provers do not instantiate, so `Induction` and `Recursion`
derive from well-foundedness what is needed, with a set and a function in its place.
`AnswerInv` keeps the number of the request in the server's object until its answer has
arrived.

*Network.* The invariant follows a datagram from its sender to the socket it waits
in (`MailInv`). Each is `Genuine`: it says something that was true when it was sent and
that nothing can make untrue, such as that its sender has once said goodbye. Hence who
takes it may rely on it, however late or often it comes, and `ConnectedIsListed` follows
(`PromiseInv`). `ThreadInv` and `PortInv` say which labels go together and that a port
is bound exactly while its thread awaits something there, so that a bound port tells
who is in the way: of the three kinds of sockets only that of a goodbye ever meets one,
and it is another goodbye's (`AbortsHaveACause`).

*Manager.* `IInv` of the table carries over, for each step of the process is a step of
the table, leaves the table alone, guards status locks, or is the last. `SkewInv` says
that the first display and the first listing of the monitor have unbalanced the table
lock; so a writer that comes later leaves it dead, and at most one does (`LateInv`,
`OneLateAnswer`). Nobody but the monitor removes stations, so the entry of the station
that it polls stays, and with it the dead status lock it waits for (`PollInv`,
`FirstPollIsTheLast`). Until a removal has found its
station, a host whose response thread is past its insertion is in the indices, or its
host name's owner is (`SettledInv`). A manager without a request never has a station,
and so neither a poll nor an answer whose exception could end it (`QuietInv`). Each
station that is listed is on the screen, or in the listing that the frame is about to
render, or its thread has still to dispatch, or a refresh waits in the channel
(`ShownInv`): the handler is registered before the first listing, so whoever edits the
table after a listing was read tells it. The handler's frame is gone only after the end
of the input (`EndInv`).

*Addresses.* That a lookup returns addresses of one interface is inductive as it stands
(`LoadedOwn`). The rest of the invariant follows the stream of a parse. While nothing has failed it
stands where the number of octets stored says, and they are those of the text
(`GoodInv`). A failure before the end of the text keeps the stream from ever reaching
the end, which is demanded of it; one at the end can only be followed by guesses, unless
the last number was too large. `UnsignedMax % 256 = 255`, that an unsigned has at least
eight bits, makes the octet of such a number 255.

Only model-checked are the liveness properties: `TableReleased`, `EveryMessageReceived`,
`ExitIsObeyed`, `AskersConnect`, `EndOfInputIsObeyed` and `ListingIsFatal`. Their proofs would need ENABLED for the fairness of each action, which
the provers do not treat. The comments of the code that it contradicts are refuted by
the counterexamples of the four runs that expect a violation.

## Not modelled, and the plan

Left out for good: `main.cpp` (one argument chooses the role), `io_exception`
(wording), the layout of the display (formatting), `PacketSerializer::write(bool)`
and `read_bool` (called by nobody), the Makefile. O_NONBLOCK, which an empty
`try_receive` leaves set on its socket, is left out because no socket of the program is
read both with and without it.

Next, in this order:

1. An abstract specification of membership (a participant joins, is listed, leaves),
   implemented by `SleepNetwork`, and the proof of it from `PromiseInv`.
2. The manager's table as seen by the network: that `Manager` performs the insertions
   and removals that `SleepNetwork` assumes of it, so that the two fit together.
