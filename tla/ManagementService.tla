--------------------------- MODULE ManagementService ---------------------------
(***************************************************************************)
(* The table of work stations (include/management.h, src/management.cpp):  *)
(* three indices over the same stations, a table lock, one status lock per *)
(* station, and the event handlers.  Any thread may call any operation of  *)
(* the class; a step is one access to shared state.                        *)
(*                                                                         *)
(* insert calls node->status() before the station enters an index, and the *)
(* guard in status() kills that station's status lock.  The code behind    *)
(* lock_guard(rw_status_lock) is therefore never reached (invariant        *)
(* StatusLockNeverGranted): status_ keeps the value discovery constructs a *)
(* station with, and neither REMOVAL nor CHANGED_STATUS is dispatched.     *)
(***************************************************************************)
EXTENDS Naturals, FiniteSets, RwLock

CONSTANTS
  Threads,     \* the threads that share the service
  Stations,    \* the WorkStation objects, one for each discovery request
  Keys,        \* hostnames, MAC addresses and IP addresses
  KeyOf,       \* a station's NodeAddresses: KeyOf[s][ix] is its key in index ix
  NoStation,   \* the null shared_ptr
  NoKey        \* the key of a call that takes none

Indices == {"hostname", "mac", "ip"}

(* Two stations with the same MAC or IP address also have the same         *)
(* hostname: one host asking twice, or any two hosts at all, since the     *)
(* hostname that arrives in a packet is the empty string for all of them.  *)
SharedAddressSharesHostname ==
  \A a, b \in Stations : \A ix \in Indices :
    KeyOf[a][ix] = KeyOf[b][ix] => KeyOf[a]["hostname"] = KeyOf[b]["hostname"]

ASSUME ConstantsAssumption ==
  /\ KeyOf \in [Stations -> [Indices -> Keys]]
  /\ IsFiniteSet(Keys)
  /\ NoThread \notin Threads
  /\ NoStation \notin Stations
  /\ NoKey \notin Keys
  /\ SharedAddressSharesHostname

VARIABLES
  index,       \* mac_address_index, ip_address_index, hostname_index
  dataLock,    \* rw_data_lock
  status,      \* status_ of each station
  statusLock,  \* rw_status_lock of each station
  pc,          \* where each thread is
  call,        \* the operation it executes and its locals
  reply,       \* what its last operation returned
  listing,     \* the vector participant_list builds: leading nulls, then stations
  handled,     \* whether the interface has registered its event handler
  notified,    \* the events the handler has received
  unborn,      \* WorkStation objects not constructed yet
  crashed      \* the process died of a memory error

vars == <<index, dataLock, status, statusLock, pc, call, reply, listing, handled,
          notified, unborn, crashed>>

Ops == {"none", "insert", "remove", "get", "update", "wakeup", "list", "register"}

Statuses == {"DISCONNECTED", "ASLEEP", "AWAKEN"}

Call(o, ix, k, s, w) == [op |-> o, via |-> ix, key |-> k, stn |-> s, want |-> w]

NoCall == Call("none", "mac", NoKey, NoStation, "AWAKEN")

EmptyListing == [nulls |-> 0, stns |-> {}]

Init ==
  /\ index = [ix \in Indices |-> [k \in Keys |-> NoStation]]
  /\ dataLock = FreshLock
  /\ status = [s \in Stations |-> "AWAKEN"]
  /\ statusLock = [s \in Stations |-> FreshLock]
  /\ pc = [t \in Threads |-> "idle"]
  /\ call = [t \in Threads |-> NoCall]
  /\ reply = [t \in Threads |-> FALSE]
  /\ listing = [t \in Threads |-> EmptyListing]
  /\ handled = FALSE
  /\ notified = {}
  /\ unborn = Stations
  /\ crashed = FALSE

-----------------------------------------------------------------------------
(* Calling and returning.                                                  *)

At(t, labels) == ~crashed /\ pc[t] \in labels

Goto(t, label) == pc' = [pc EXCEPT ![t] = label]

Start(t, c, label) ==
  /\ At(t, {"idle"})
  /\ call' = [call EXCEPT ![t] = c]
  /\ Goto(t, label)
  /\ reply' = [reply EXCEPT ![t] = FALSE]
  /\ listing' = [listing EXCEPT ![t] = EmptyListing]
  /\ UNCHANGED <<index, dataLock, status, statusLock, handled, notified, crashed>>

Return(t, value) ==
  /\ Goto(t, "idle")
  /\ call' = [call EXCEPT ![t] = NoCall]
  /\ reply' = [reply EXCEPT ![t] = value]

CallInsert(t) == \E s \in unborn :
  /\ unborn' = unborn \ {s}
  /\ Start(t, Call("insert", "hostname", NoKey, s, "AWAKEN"), "check")

(* Mutant: the key and the index it belongs to are swapped.                *)
SwappedLookup(o, ix, k) == Call(o, k, ix, NoStation, "AWAKEN")

Lookup(o, ix, k) == Call(o, ix, k, NoStation, "AWAKEN")

CallRemove(t) == \E ix \in Indices, k \in Keys :
  Start(t, Lookup("remove", ix, k), "claim") /\ UNCHANGED unborn

CallGet(t) == \E ix \in Indices, k \in Keys :
  Start(t, Lookup("get", ix, k), "guard") /\ UNCHANGED unborn

CallUpdate(t) == \E k \in Keys, w \in Statuses :
  Start(t, Call("update", "mac", k, NoStation, w), "guard") /\ UNCHANGED unborn

CallWakeup(t) == \E k \in Keys :
  Start(t, Lookup("wakeup", "hostname", k), "guard") /\ UNCHANGED unborn

CallList(t) ==
  Start(t, Lookup("list", "mac", NoKey), "guard") /\ UNCHANGED unborn

(* The interface registers its one handler.                                *)
CallRegister(t) ==
  /\ ~handled
  /\ \A u \in Threads : call[u].op # "register"
  /\ Start(t, Lookup("register", "mac", NoKey), "push")
  /\ UNCHANGED unborn

-----------------------------------------------------------------------------
(* Mutant: insert reads status_ without a guard.                           *)
UnguardedCheckStatus(t) ==
  /\ At(t, {"check"})
  /\ Goto(t, "claim")
  /\ UNCHANGED <<index, dataLock, status, statusLock, call, reply, listing, handled,
                 notified, unborn, crashed>>

(* insert begins with node->status(): the guard skews the station's own    *)
(* status lock.                                                            *)
CheckStatus(t) ==
  LET s == call[t].stn IN
  /\ At(t, {"check"})
  /\ statusLock' = [statusLock EXCEPT ![s] = SharedGuard(@)]
  /\ IF status[s] = "DISCONNECTED"
       THEN Return(t, FALSE)
       ELSE Goto(t, "claim") /\ UNCHANGED <<call, reply>>
  /\ UNCHANGED <<index, dataLock, status, listing, handled, notified, unborn, crashed>>

-----------------------------------------------------------------------------
(* The exclusive locks: rw_data_lock for insert and the removals, and a    *)
(* station's rw_status_lock for on_remove, update_sleep_status and wakeup. *)

(* Mutant: the lock_guard of the edits is missing.                         *)
UnlockedTable(t) ==
  /\ At(t, {"claim"})
  /\ Goto(t, "edit1")
  /\ UNCHANGED <<index, dataLock, status, statusLock, call, reply, listing, handled,
                 notified, unborn, crashed>>

ClaimTable(t) ==
  /\ At(t, {"claim"})
  /\ Claimable(dataLock)
  /\ dataLock' = Claim(dataLock, t)
  /\ Goto(t, "enter")
  /\ UNCHANGED <<index, status, statusLock, call, reply, listing, handled, notified, unborn, crashed>>

ClaimStatus(t) ==
  LET s == call[t].stn IN
  /\ At(t, {"sclaim"})
  /\ Claimable(statusLock[s])
  /\ statusLock' = [statusLock EXCEPT ![s] = Claim(@, t)]
  /\ Goto(t, "senter")
  /\ UNCHANGED <<index, dataLock, status, call, reply, listing, handled, notified, unborn, crashed>>

(* What the code under a status lock writes into status_.                  *)
NewStatus(t) ==
  LET s == call[t].stn IN
  CASE call[t].op = "remove" -> "DISCONNECTED"
    [] call[t].op = "update" -> call[t].want
    [] call[t].op = "wakeup" -> IF status[s] = "ASLEEP" THEN "AWAKEN" ELSE status[s]

(* Entering the claimed lock.  The code under a status lock is short: it   *)
(* writes status_, releases, and goes on to dispatch_event unless an       *)
(* update or a wakeup has changed nothing.                                 *)
EnterLock(t) ==
  LET s == call[t].stn IN
  /\ At(t, {"enter", "senter"})
  /\ IF pc[t] = "enter"
       THEN /\ MayEnter(dataLock)
            /\ dataLock' = Enter(dataLock)
            /\ Goto(t, "edit1")
            /\ UNCHANGED <<status, statusLock, call, reply>>
       ELSE /\ MayEnter(statusLock[s])
            /\ status' = [status EXCEPT ![s] = NewStatus(t)]
            /\ statusLock' = [statusLock EXCEPT ![s] = Release(Enter(@))]
            /\ IF call[t].op = "remove" \/ NewStatus(t) # status[s]
                 THEN Goto(t, "dispatch") /\ UNCHANGED <<call, reply>>
                 ELSE Return(t, FALSE)
            /\ UNCHANGED dataLock
  /\ UNCHANGED <<index, listing, handled, notified, unborn, crashed>>

LeaveTable(t) ==
  /\ At(t, {"unlock"})
  /\ dataLock' = Release(dataLock)
  /\ Return(t, reply[t])
  /\ UNCHANGED <<index, status, statusLock, listing, handled, notified, unborn, crashed>>

-----------------------------------------------------------------------------
(* Editing the indices, one std::map operation at a time.                  *)

(* Mutant: one index is visited twice and another not at all.              *)
RepeatedEditOrder(ix) ==
  CASE ix = "hostname" -> <<"hostname", "mac", "mac">>
    [] ix = "mac"      -> <<"mac", "ip", "hostname">>
    [] ix = "ip"       -> <<"ip", "mac", "hostname">>

(* The order in which an operation that starts at index ix visits them.    *)
EditOrder(ix) ==
  CASE ix = "hostname" -> <<"hostname", "mac", "ip">>
    [] ix = "mac"      -> <<"mac", "ip", "hostname">>
    [] ix = "ip"       -> <<"ip", "mac", "hostname">>

Editing(t) == pc[t] \in {"edit1", "edit2", "edit3"}

(* The index that a thread at one of its three edits is about to change.   *)
EditedIndex(t) ==
  EditOrder(call[t].via)[CASE pc[t] = "edit1" -> 1 [] pc[t] = "edit2" -> 2 [] pc[t] = "edit3" -> 3]

Put(ix, s) == [index EXCEPT ![ix][KeyOf[s][ix]] = s]
Drop(ix, k) == [index EXCEPT ![ix][k] = NoStation]

(* Mutant: an assignment through operator[] replaces the station that has  *)
(* the hostname.                                                           *)
OverwritingInsertFirst(t) ==
  /\ At(t, {"edit1"}) /\ call[t].op = "insert"
  /\ index' = Put("hostname", call[t].stn)
  /\ reply' = [reply EXCEPT ![t] = TRUE]
  /\ Goto(t, "edit2")
  /\ UNCHANGED <<dataLock, status, statusLock, call, listing, handled, notified, unborn, crashed>>

(* Mutant: the early return for a taken hostname forgets the lock.         *)
LeakyInsertFirst(t) ==
  LET s == call[t].stn IN
  /\ At(t, {"edit1"}) /\ call[t].op = "insert"
  /\ IF index["hostname"][KeyOf[s]["hostname"]] = NoStation
       THEN /\ index' = Put("hostname", s)
            /\ reply' = [reply EXCEPT ![t] = TRUE]
            /\ Goto(t, "edit2")
            /\ UNCHANGED call
       ELSE Return(t, FALSE) /\ UNCHANGED index
  /\ UNCHANGED <<dataLock, status, statusLock, listing, handled, notified, unborn, crashed>>

(* hostname_index.insert: decides whether the station is new.              *)
InsertFirst(t) ==
  LET s == call[t].stn IN
  /\ At(t, {"edit1"}) /\ call[t].op = "insert"
  /\ IF index["hostname"][KeyOf[s]["hostname"]] = NoStation
       THEN /\ index' = Put("hostname", s)
            /\ reply' = [reply EXCEPT ![t] = TRUE]
            /\ Goto(t, "edit2")
       ELSE Goto(t, "unlock") /\ UNCHANGED <<index, reply>>
  /\ UNCHANGED <<dataLock, status, statusLock, call, listing, handled, notified, unborn, crashed>>

(* Mutant: the event is dispatched before the last index has the station.  *)
HastyInsertNext(t) ==
  LET s  == call[t].stn
      ix == EditedIndex(t)
  IN
  /\ At(t, {"edit2", "edit3"}) /\ call[t].op = "insert"
  /\ index' = IF index[ix][KeyOf[s][ix]] = NoStation THEN Put(ix, s) ELSE index
  /\ Goto(t, "dispatch")
  /\ UNCHANGED <<dataLock, status, statusLock, call, reply, listing, handled, notified, unborn, crashed>>

(* The other two inserts keep an entry that is already there.              *)
InsertNext(t) ==
  LET s  == call[t].stn
      ix == EditedIndex(t)
  IN
  /\ At(t, {"edit2", "edit3"}) /\ call[t].op = "insert"
  /\ index' = IF index[ix][KeyOf[s][ix]] = NoStation THEN Put(ix, s) ELSE index
  /\ Goto(t, IF pc[t] = "edit2" THEN "edit3" ELSE "dispatch")
  /\ UNCHANGED <<dataLock, status, statusLock, call, reply, listing, handled, notified, unborn, crashed>>

(* The first extract decides whether the station is present.               *)
RemoveFirst(t) ==
  LET ix == call[t].via
      s  == index[ix][call[t].key]
  IN
  /\ At(t, {"edit1"}) /\ call[t].op = "remove"
  /\ IF s # NoStation
       THEN /\ index' = Drop(ix, call[t].key)
            /\ call' = [call EXCEPT ![t].stn = s]
            /\ reply' = [reply EXCEPT ![t] = TRUE]
            /\ Goto(t, "edit2")
       ELSE Goto(t, "unlock") /\ UNCHANGED <<index, call, reply>>
  /\ UNCHANGED <<dataLock, status, statusLock, listing, handled, notified, unborn, crashed>>

(* Mutant: the table lock is released before on_remove is called.          *)
EarlyReleaseRemoveNext(t) ==
  LET s  == call[t].stn
      ix == EditedIndex(t)
  IN
  /\ At(t, {"edit2", "edit3"}) /\ call[t].op = "remove"
  /\ index' = Drop(ix, KeyOf[s][ix])
  /\ dataLock' = IF pc[t] = "edit3" THEN Release(dataLock) ELSE dataLock
  /\ Goto(t, IF pc[t] = "edit2" THEN "edit3" ELSE "sclaim")
  /\ UNCHANGED <<status, statusLock, call, reply, listing, handled, notified, unborn, crashed>>

(* The other two extracts use the station's own addresses; then on_remove  *)
(* goes for the station's status lock, still inside the table lock.        *)
RemoveNext(t) ==
  LET s  == call[t].stn
      ix == EditedIndex(t)
  IN
  /\ At(t, {"edit2", "edit3"}) /\ call[t].op = "remove"
  /\ index' = Drop(ix, KeyOf[s][ix])
  /\ Goto(t, IF pc[t] = "edit2" THEN "edit3" ELSE "sclaim")
  /\ UNCHANGED <<dataLock, status, statusLock, call, reply, listing, handled, notified, unborn, crashed>>

EventType(o) ==
  CASE o = "insert" -> "INSERTION" [] o = "remove" -> "REMOVAL" [] OTHER -> "CHANGED_STATUS"

(* dispatch_event, called with the table lock held by insert and on_remove *)
(* and without any lock by update_sleep_status and wakeup.                 *)
Dispatch(t) ==
  LET event == [type |-> EventType(call[t].op), stn |-> call[t].stn] IN
  /\ At(t, {"dispatch"})
  /\ notified' = IF handled THEN notified \cup {event} ELSE notified
  /\ IF call[t].op \in {"insert", "remove"}
       THEN Goto(t, "unlock") /\ UNCHANGED <<call, reply>>
       ELSE Return(t, TRUE)
  /\ UNCHANGED <<index, dataLock, status, statusLock, listing, handled, unborn, crashed>>

-----------------------------------------------------------------------------
(* Reading the indices.  The guard keeps nobody out.                       *)

(* Mutant: the readers have no guard.                                      *)
UnguardedGuard(t) ==
  /\ At(t, {"guard"})
  /\ Goto(t, IF call[t].op = "list" THEN "size" ELSE "read")
  /\ UNCHANGED <<index, dataLock, status, statusLock, call, reply, listing, handled,
                 notified, unborn, crashed>>

Guard(t) ==
  /\ At(t, {"guard"})
  /\ dataLock' = SharedGuard(dataLock)
  /\ Goto(t, IF call[t].op = "list" THEN "size" ELSE "read")
  /\ UNCHANGED <<index, status, statusLock, call, reply, listing, handled, notified, unborn, crashed>>

StationsIn(ix) == {index[ix][k] : k \in Keys} \ {NoStation}

(* Mutant: one element too many.                                           *)
OffByOneSizeListing(t) ==
  /\ At(t, {"size"})
  /\ listing' = [listing EXCEPT ![t].nulls =
                   Cardinality({k \in Keys : index["mac"][k] # NoStation}) + 1]
  /\ Goto(t, "read")
  /\ UNCHANGED <<index, dataLock, status, statusLock, call, reply, handled, notified, unborn, crashed>>

(* vector vec(mac_address_index.size()): that many null pointers.          *)
SizeListing(t) ==
  /\ At(t, {"size"})
  /\ listing' = [listing EXCEPT ![t].nulls =
                   Cardinality({k \in Keys : index["mac"][k] # NoStation})]
  /\ Goto(t, "read")
  /\ UNCHANGED <<index, dataLock, status, statusLock, call, reply, handled, notified, unborn, crashed>>

(* push_back of every entry, behind the nulls.                             *)
FillListing(t) ==
  /\ At(t, {"read"}) /\ call[t].op = "list"
  /\ listing' = [listing EXCEPT ![t].stns = StationsIn("mac")]
  /\ Return(t, FALSE)
  /\ UNCHANGED <<index, dataLock, status, statusLock, handled, notified, unborn, crashed>>

(* get_by_mac_address, get_by_ip_address, get_by_hostname.                 *)
ReadStation(t) ==
  /\ At(t, {"read"}) /\ call[t].op = "get"
  /\ Return(t, index[call[t].via][call[t].key])
  /\ UNCHANGED <<index, dataLock, status, statusLock, listing, handled, notified, unborn, crashed>>

(* The lookup with which update_sleep_status and wakeup begin.             *)
FindStation(t) ==
  LET s == index[call[t].via][call[t].key] IN
  /\ At(t, {"read"}) /\ call[t].op \in {"update", "wakeup"}
  /\ IF s = NoStation
       THEN Return(t, FALSE)
       ELSE /\ call' = [call EXCEPT ![t].stn = s]
            /\ Goto(t, "sclaim")
            /\ UNCHANGED reply
  /\ UNCHANGED <<index, dataLock, status, statusLock, listing, handled, notified, unborn, crashed>>

(* register_event_handler.                                                 *)
PushHandler(t) ==
  /\ At(t, {"push"})
  /\ handled' = TRUE
  /\ Return(t, FALSE)
  /\ UNCHANGED <<index, dataLock, status, statusLock, listing, notified, unborn, crashed>>

(* Two data races.  A reader walks a std::map whose nodes a writer is      *)
(* relinking; dispatch_event walks the handler vector, without event_lock, *)
(* while push_back moves it.  Either sees the old or the new contents (the *)
(* actions above) or dies of a dangling pointer.                           *)
Torn(t) ==
  /\ \E u \in Threads \ {t} :
       \/ At(t, {"read"}) /\ Editing(u) /\ EditedIndex(u) = call[t].via
       \/ At(t, {"dispatch"}) /\ pc[u] = "push"
  /\ crashed' = TRUE
  /\ UNCHANGED <<index, dataLock, status, statusLock, pc, call, reply, listing, handled, notified, unborn>>

-----------------------------------------------------------------------------

Calls(t) ==
  \/ CallInsert(t) \/ CallRemove(t) \/ CallGet(t) \/ CallUpdate(t)
  \/ CallWakeup(t) \/ CallList(t) \/ CallRegister(t)

(* Everything a thread does between a call and its return.                 *)
Steps(t) ==
  \/ CheckStatus(t) \/ ClaimTable(t) \/ ClaimStatus(t) \/ EnterLock(t) \/ LeaveTable(t)
  \/ InsertFirst(t) \/ InsertNext(t) \/ RemoveFirst(t) \/ RemoveNext(t)
  \/ Dispatch(t)
  \/ Guard(t) \/ SizeListing(t) \/ FillListing(t) \/ ReadStation(t)
  \/ FindStation(t) \/ PushHandler(t)

Next == \E t \in Threads : Calls(t) \/ Steps(t) \/ Torn(t)

Spec == Init /\ [][Next]_vars

(* A thread inside a call is never suspended for ever by the scheduler;    *)
(* nobody has to call anything.                                            *)
Fairness == \A t \in Threads : WF_vars(Steps(t))

FairSpec == Spec /\ Fairness

-----------------------------------------------------------------------------
(* Properties.                                                             *)

Labels == {"idle", "check", "claim", "enter", "edit1", "edit2", "edit3", "unlock",
           "dispatch", "sclaim", "senter", "guard", "size", "read", "push"}

Calling == [op : Ops, via : Indices, key : Keys \cup {NoKey},
            stn : Stations \cup {NoStation}, want : Statuses]

Events == [type : {"INSERTION", "REMOVAL", "CHANGED_STATUS"}, stn : Stations]

(* Every variable has the shape its declaration gives it.                  *)
TypeOK ==
  /\ index \in [Indices -> [Keys -> Stations \cup {NoStation}]]
  /\ dataLock \in LockOf(Threads)
  /\ status \in [Stations -> Statuses]
  /\ statusLock \in [Stations -> LockOf(Threads)]
  /\ pc \in [Threads -> Labels]
  /\ call \in [Threads -> Calling]
  /\ reply \in [Threads -> BOOLEAN \cup Stations \cup {NoStation}]
  /\ listing \in [Threads -> [nulls : Nat, stns : SUBSET Stations]]
  /\ handled \in BOOLEAN
  /\ notified \subseteq Events
  /\ unborn \subseteq Stations
  /\ crashed \in BOOLEAN

(* A thread that the table lock has let in and not yet released.           *)
Removing(t) == call[t].op = "remove" /\ pc[t] \in {"sclaim", "senter"}
InTable(t) == Editing(t) \/ Removing(t) \/ pc[t] \in {"dispatch", "unlock"}

(* However badly the shared guards unbalance the lock, at most one thread  *)
(* at a time is between lock_guard(rw_data_lock) and its release.          *)
WriterExclusion ==
  \A t, u \in Threads : InTable(t) /\ InTable(u) => t = u

(* Whenever no thread is in the middle of its edits, the three indices     *)
(* hold the same stations, each under its own keys.                        *)
IndicesAgree ==
  (\A t \in Threads : ~Editing(t)) =>
    /\ \A ix \in Indices, k \in Keys :
         index[ix][k] # NoStation => KeyOf[index[ix][k]][ix] = k
    /\ \A ix, iy \in Indices : StationsIn(ix) = StationsIn(iy)

(* on_remove, update_sleep_status and wakeup never get a status lock: a    *)
(* thread that has claimed one waits for readers that are not there.       *)
StatusLockNeverGranted ==
  \A t \in Threads :
    pc[t] \in {"sclaim", "senter"} => Dead(statusLock[call[t].stn])

(* A reader that finds the table lock outside its write phase, or a        *)
(* removal that finds its station, is the end of the table: no later step  *)
(* of any thread changes an index.                                         *)
Frozen == Dead(dataLock) \/ \E t \in Threads : Removing(t)

FrozenForever == [][Frozen => Frozen' /\ index' = index]_vars

(* An INSERTION event reaches the handler only while the station is in all *)
(* three indices, so the refresh it triggers can show it.                  *)
NotifiedWhenListed ==
  [][\A e \in notified' \ notified :
       e.type = "INSERTION" =>
         \A ix \in Indices : index[ix][KeyOf[e.stn][ix]] = e.stn]_vars

(* A thread that has claimed the table lock, to insert or to remove, gives *)
(* it back, unless the table is frozen or the process dies.  Only the      *)
(* owner is promised this much: a thread that waits for the claim may be   *)
(* overtaken for ever, as the lock is not fair.                            *)
TableReleased ==
  \A t \in Threads :
    (dataLock.owner = t) ~> (dataLock.owner # t \/ Frozen \/ crashed)

(* The table as its header promises it: the stations of hostname_index,    *)
(* which insert edits first and a removal takes from at one of its edits.  *)
EditsHostnameAt(t) == IF call[t].via = "hostname" THEN {"edit1"} ELSE {"edit1", "edit2", "edit3"}

Pending(t) ==
  \/ pc[t] \in {"check", "claim", "enter", "edit1"}
  \/ call[t].op = "remove" /\ pc[t] \in EditsHostnameAt(t)

Decided(t) == call[t].op \in {"insert", "remove"} /\ ~Pending(t)

Answer(t) == Decided(t) /\ reply[t]

NoRequest == [op |-> "none"]

Request(t) ==
  CASE call[t].op = "insert" -> [op |-> "insert", stn |-> call[t].stn]
    [] call[t].op = "remove" -> [op |-> "remove", via |-> call[t].via, key |-> call[t].key]
    [] OTHER -> NoRequest

Table == INSTANCE StationTable WITH
  table   <- StationsIn("hostname"),
  request <- [t \in Threads |-> Request(t)],
  decided <- [t \in Threads |-> Decided(t)],
  answer  <- [t \in Threads |-> Answer(t)]

(* The indices and the replies of insert and the three removals implement  *)
(* the atomic table.                                                       *)
ImplementsTable == Table!Spec

-----------------------------------------------------------------------------
(* What management.h says and the code does not do; TLC finds it violated. *)

(* management.h:70, a registered handler is "fired every time a change     *)
(* happens": a removal that takes a station out while the handler is       *)
(* registered is told to it, if the process lives.                         *)
EveryRemovalFires ==
  \A t \in Threads, s \in Stations :
    (handled /\ call[t].op = "remove" /\ call[t].stn = s)
      ~> (crashed \/ \E e \in notified : e.type = "REMOVAL" /\ e.stn = s)

=============================================================================
