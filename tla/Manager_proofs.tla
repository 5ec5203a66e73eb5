---------------------------- MODULE Manager_proofs ----------------------------
(***************************************************************************)
(* Theorems about the manager's process, for any number of response        *)
(* threads, stations and keys.                                             *)
(*                                                                         *)
(* The invariant of the table (IInv, of ManagementService_proofs) holds in *)
(* the process too: each of its steps is one of the table's, or leaves the *)
(* table alone, or guards status locks, or is the last.                    *)
(***************************************************************************)
EXTENDS Manager, ManagementService_proofs

LEMMA Distinct ==
  /\ Frame # Monitor /\ Frame # Input /\ Monitor # Input
  /\ Frame \notin Responders /\ Monitor \notin Responders /\ Input \notin Responders
  /\ Frame \in Threads /\ Monitor \in Threads /\ Input \in Threads
  /\ Responders \subseteq Threads
<1>1. ASSUME NEW a, NEW b
      PROVE  Cardinality({a, b}) # 3
  <2>1. IsFiniteSet({b}) /\ Cardinality({b}) = 1
    BY FS_Singleton
  <2>2. {a, b} = {b} \cup {a}
    OBVIOUS
  <2> QED
    BY <2>1, <2>2, FS_AddElement
<1>2. Frame # Monitor
  <2>1. Frame = Monitor => {Frame, Monitor, Input} = {Monitor, Input}
    OBVIOUS
  <2> QED
    BY <1>1, <2>1, ManagerAssumption
<1>3. Frame # Input
  <2>1. Frame = Input => {Frame, Monitor, Input} = {Monitor, Input}
    OBVIOUS
  <2> QED
    BY <1>1, <2>1, ManagerAssumption
<1>4. Monitor # Input
  <2>1. Monitor = Input => {Frame, Monitor, Input} = {Frame, Input}
    OBVIOUS
  <2> QED
    BY <1>1, <2>1, ManagerAssumption
<1> QED
  BY <1>2, <1>3, <1>4, ManagerAssumption

-----------------------------------------------------------------------------
(* The parts of the inductive invariant.                                   *)

(* insert finds no station disconnected: on_remove never gets that far.    *)
Awake == \A s \in Stations : status[s] = "AWAKEN"

(* What each thread may be doing, and which operation it does it with.     *)
RoleInv ==
  /\ role[Frame] \in {"register", "start", "render", "receive", "gone"}
  /\ role[Monitor] \in {"round", "request", "poll", "await", "drain"}
  /\ role[Input] \in {"none", "read", "gone"}
  /\ role[Frame] \in {"register", "start"} => role[Input] = "none"
  /\ call[Frame].op # "none" =>
       \/ role[Frame] = "start" /\ call[Frame].op = "register"
       \/ role[Frame] = "render" /\ call[Frame].op = "list"
  /\ call[Monitor].op # "none" =>
       \/ role[Monitor] = "request" /\ call[Monitor].op = "list"
       \/ role[Monitor] = "poll" /\ call[Monitor].op = "update"
       \/ role[Monitor] = "drain" /\ call[Monitor].op = "remove"
  /\ call[Input].op # "none" => role[Input] = "read" /\ call[Input].op = "wakeup"
  /\ \A r \in Responders :
       /\ role[r] \in {"none", "respond", "answered"}
       /\ role[r] # "none" => station[r] \in Stations
       /\ call[r].op # "none" =>
            role[r] = "respond" /\ call[r].op = "insert" /\ call[r].stn = station[r]

(* The variables outside the table.                                        *)
ThreadTypes ==
  /\ role \in [Threads -> Roles]
  /\ station \in [Responders -> Stations \cup {NoStation}]
  /\ inbox \in Seq({"REFRESH", "EXIT"})
  /\ display \subseteq Stations \/ display = NotShown
  /\ requests \subseteq Stations /\ polled \in Stations \cup {NoStation}
  /\ role[Monitor] = "await" => polled \in Stations
  /\ retry_bound \in 0..MAX_RETRIES /\ goodbyes \in 0..MaxGoodbyes
  /\ late \subseteq Responders /\ ended \in Endings

BaseInv == IInv /\ Awake /\ RoleInv /\ ThreadTypes

-----------------------------------------------------------------------------
(* The monitor's listing and the first display have guarded the table.     *)
SkewInv ==
  /\ \/ role[Monitor] \in {"poll", "await", "drain"}
     \/ role[Monitor] = "request" /\ pc[Monitor] # "guard"
     => dataLock.skewed
  /\ \/ display # NotShown
     \/ role[Frame] = "render" /\ pc[Frame] # "guard"
     => dataLock.skewed

(* A station that the monitor is to poll keeps an entry under its MAC      *)
(* address: only the monitor removes, and not while it polls.              *)
Listed(s) == index["mac"][KeyOf[s]["mac"]] # NoStation

PollInv ==
  /\ role[Monitor] = "request" /\ pc[Monitor] = "idle" =>
       \A s \in listing[Monitor].stns : Listed(s)
  /\ role[Monitor] \in {"poll", "await"} => \A s \in requests : Listed(s)
  /\ role[Monitor] = "await" => Listed(polled)
  /\ polled # NoStation =>
       \/ role[Monitor] = "await"
       \/ /\ role[Monitor] = "poll" /\ pc[Monitor] \in {"guard", "read", "sclaim", "senter"}
          /\ call[Monitor].via = "mac"
          /\ pc[Monitor] \in {"guard", "read"} => index["mac"][call[Monitor].key] # NoStation

(* A removal that has found its station does not return.                   *)
FindInv ==
  \A t \in Threads :
    call[t].op = "remove" /\ call[t].stn # NoStation =>
      pc[t] \in {"edit2", "edit3", "sclaim", "senter"}

Untouched == \A t \in Threads : call[t].op = "remove" => call[t].stn = NoStation

(* s has the host name of the station that r was asked to insert, and      *)
(* nobody is moving it.                                                    *)
Heir(r, s) ==
  /\ index["hostname"][KeyOf[station[r]]["hostname"]] = s
  /\ \A t \in Threads : ~Underway(t, s)

Settled(r) ==
  \/ role[r] = "answered"
  \/ role[r] = "respond" /\ pc[r] \in {"idle", "dispatch", "unlock"}

SettledInv ==
  Untouched => \A r \in Responders : Settled(r) => \E s \in Stations : Heir(r, s)

(* An insertion that began after the first display leaves a dead lock.     *)
LateDone(r) ==
  /\ r \in late
  /\ \/ role[r] = "answered"
     \/ role[r] = "respond" /\ pc[r] = "idle"

LateInv ==
  /\ late # {} => display # NotShown
  /\ \A r \in Responders : LateDone(r) => Dead(dataLock)
  /\ \A q, r \in Responders : LateDone(q) /\ LateDone(r) => q = r

(* While nobody has asked, the table is empty and nobody gets into it; so  *)
(* the monitor has nobody to poll, and nothing is sent.                    *)
Quiet == \A r \in Responders : station[r] = NoStation

QuietInv ==
  Quiet =>
    /\ ~crashed /\ ~dataLock.writePhase /\ ended # "send"
    /\ requests = {} /\ role[Monitor] # "await"
    /\ \A ix \in Indices, k \in Keys : index[ix][k] = NoStation
    /\ \A t \in Threads :
         /\ pc[t] \notin {"edit1", "edit2", "edit3", "unlock", "dispatch", "sclaim", "senter"}
         /\ listing[t].nulls = 0 /\ listing[t].stns = {}

(* The frame leaves when it is told, and it is told by the end of input.   *)
EndInv ==
  role[Frame] = "gone" \/ (\E i \in DOMAIN inbox : inbox[i] = "EXIT") => role[Input] = "gone"

(* A refresh of the screen is coming for s: it waits in the channel, or    *)
(* the thread that inserts s has still to dispatch.                        *)
Telling(t, s) ==
  call[t].op = "insert" /\ call[t].stn = s /\ pc[t] \in {"edit2", "edit3", "dispatch"}

Refreshing == \E i \in DOMAIN inbox : inbox[i] = "REFRESH"

Coming(s) == Refreshing \/ \E t \in Threads : Telling(t, s)

(* The handler is registered before the first listing, and what a listing  *)
(* or the screen lacks is coming.                                          *)
ShownInv ==
  /\ \/ role[Frame] \in {"render", "receive"}
     \/ role[Frame] = "start" /\ pc[Frame] = "idle"
     => handled
  /\ role[Frame] = "render" /\ pc[Frame] = "idle" =>
       \A s \in StationsIn("mac") \ listing[Frame].stns : Coming(s)
  /\ role[Frame] = "receive" => \A s \in StationsIn("mac") \ display : Coming(s)

ManagerInv ==
  /\ BaseInv /\ SkewInv /\ PollInv /\ FindInv /\ SettledInv /\ LateInv /\ QuietInv
  /\ EndInv /\ ShownInv

-----------------------------------------------------------------------------
(* What the steps of the table do, as far as the threads around it care.   *)

(* A call begins.                                                          *)
LEMMA StartShape ==
  ASSUME TypeOK, NEW t \in Threads, NEW c, NEW label, Start(t, c, label)
  PROVE  /\ ~crashed /\ pc[t] = "idle" /\ pc'[t] = label /\ call'[t] = c
         /\ listing'[t] = EmptyListing
         /\ \A u \in Threads \ {t} :
              pc'[u] = pc[u] /\ call'[u] = call[u] /\ listing'[u] = listing[u]
         /\ UNCHANGED <<index, dataLock, status, statusLock, handled, notified, crashed>>
  BY DEF Start, At, Goto, TypeOK

(* What a thread keeps while it is inside a call, and what the others      *)
(* notice of it.                                                           *)
Advance(t) ==
  /\ ~crashed /\ pc[t] # "idle"
  /\ \A u \in Threads \ {t} :
       pc'[u] = pc[u] /\ call'[u] = call[u] /\ listing'[u] = listing[u]
  /\ \/ pc'[t] = "idle" /\ call'[t] = NoCall
     \/ /\ pc'[t] \notin {"idle", "check", "guard", "claim"} \/ pc[t] = "check"
        /\ call'[t].op = call[t].op /\ call'[t].via = call[t].via
        /\ call'[t].key = call[t].key
        /\ call[t].op \in {"insert", "list"} => call'[t] = call[t]
  /\ call[t].op = "insert" /\ pc'[t] = "idle" => pc[t] = "unlock"
  /\ UNCHANGED <<status, unborn, crashed>>

LEMMA StepShape ==
  ASSUME IInv, Awake, NEW t \in Threads, Steps(t)
  PROVE  Advance(t)
<1>1. TypeOK /\ CallOK(t) /\ StatusInv
  BY DEF IInv, TypeInv, CallsOK
<1> USE ConstantsAssumption
<1>2. CASE CheckStatus(t)
  <2>1. status[call[t].stn] # "DISCONNECTED"
    BY <1>1, <1>2 DEF CheckStatus, At, CallOK, Awake
  <2> QED
    BY <1>1, <1>2, <2>1 DEF CheckStatus, At, Goto, TypeOK, Advance
<1>3. CASE ClaimTable(t) \/ ClaimStatus(t)
  BY <1>1, <1>3 DEF ClaimTable, ClaimStatus, At, Goto, TypeOK, Advance
<1>4. CASE EnterLock(t)
  <2>1. pc[t] = "enter"
    BY <1>1, <1>4 DEF EnterLock, At, MayEnter, StatusInv, CallOK
  <2> QED
    BY <1>1, <1>4, <2>1 DEF EnterLock, At, Goto, TypeOK, Advance
<1>5. CASE InsertFirst(t) \/ InsertNext(t) \/ RemoveNext(t)
  BY <1>1, <1>5 DEF InsertFirst, InsertNext, RemoveNext, At, Goto, TypeOK, Advance
<1>6. CASE RemoveFirst(t)
  <2> DEFINE s == index[call[t].via][call[t].key]
  <2>1. CASE s # NoStation
    <3>1. /\ call'[t].op = call[t].op /\ call'[t].via = call[t].via
          /\ call'[t].key = call[t].key /\ \A u \in Threads \ {t} : call'[u] = call[u]
      BY <1>1, <1>6, <2>1, Found DEF RemoveFirst
    <3> QED
      BY <1>1, <1>6, <2>1, <3>1 DEF RemoveFirst, At, Goto, TypeOK, Advance
  <2>2. CASE s = NoStation
    BY <1>1, <1>6, <2>2 DEF RemoveFirst, At, Goto, TypeOK, Advance
  <2> QED
    BY <2>1, <2>2
<1>7. CASE Dispatch(t)
  BY <1>1, <1>7 DEF Dispatch, At, Goto, StatusInv, TypeOK, Advance
<1>8. CASE Guard(t) \/ SizeListing(t)
  BY <1>1, <1>8 DEF Guard, SizeListing, At, Goto, TypeOK, Advance
<1>9. CASE LeaveTable(t) \/ FillListing(t) \/ ReadStation(t) \/ PushHandler(t)
  <2>1. \E value : Return(t, value)
    BY <1>9 DEF LeaveTable, FillListing, ReadStation, PushHandler
  <2>2. /\ pc'[t] = "idle" /\ call'[t] = NoCall
        /\ \A u \in Threads \ {t} : pc'[u] = pc[u] /\ call'[u] = call[u]
    BY <1>1, <2>1 DEF Return, Goto, TypeOK
  <2>3. /\ ~crashed /\ pc[t] # "idle" /\ UNCHANGED <<status, unborn, crashed>>
        /\ \A u \in Threads \ {t} : listing'[u] = listing[u]
        /\ call[t].op = "insert" => pc[t] = "unlock"
    BY <1>1, <1>9 DEF LeaveTable, FillListing, ReadStation, PushHandler, At, TypeOK, CallOK
  <2> QED
    BY <2>2, <2>3 DEF Advance
<1>10. CASE FindStation(t)
  <2> DEFINE s == index[call[t].via][call[t].key]
  <2>1. CASE s # NoStation
    <3>1. /\ call'[t].op = call[t].op /\ call'[t].via = call[t].via
          /\ call'[t].key = call[t].key /\ \A u \in Threads \ {t} : call'[u] = call[u]
      BY <1>1, <1>10, <2>1, Found DEF FindStation
    <3> QED
      BY <1>1, <1>10, <2>1, <3>1 DEF FindStation, At, Goto, TypeOK, Advance
  <2>2. CASE s = NoStation
    BY <1>1, <1>10, <2>2 DEF FindStation, Return, At, Goto, TypeOK, Advance
  <2> QED
    BY <2>1, <2>2
<1> QED
  BY <1>2, <1>3, <1>4, <1>5, <1>6, <1>7, <1>8, <1>9, <1>10 DEF Steps

(* The reader count stays unbalanced, and a dead lock stays dead.          *)
LEMMA StepSkew ==
  ASSUME IInv, NEW t \in Threads, Steps(t)
  PROVE  /\ dataLock.skewed => dataLock'.skewed
         /\ pc[t] = "guard" => dataLock'.skewed
         /\ Dead(dataLock) => Dead(dataLock') /\ pc[t] # "unlock"
         /\ pc[t] = "unlock" /\ dataLock.skewed => Dead(dataLock')
         /\ \/ dataLock'.writePhase => dataLock.writePhase
            \/ pc[t] = "unlock"
            \/ pc[t] = "enter" /\ ~dataLock.skewed
<1>1. TypeOK /\ CallOK(t) /\ StatusInv /\ LockInv
  BY DEF IInv, TypeInv, CallsOK
<1>2. CASE ClaimTable(t)
  BY <1>1, <1>2 DEF ClaimTable, At, Claim, TypeOK, LockOf, Dead
<1>3. CASE EnterLock(t)
  <2>1. pc[t] = "enter"
    BY <1>1, <1>3, ConstantsAssumption DEF EnterLock, At, MayEnter, StatusInv, CallOK
  <2> QED
    BY <1>1, <1>3, <2>1 DEF EnterLock, MayEnter, Enter, TypeOK, LockOf, Dead
<1>4. CASE LeaveTable(t)
  <2>1. pc[t] = "unlock" /\ dataLock.writePhase
    BY <1>1, <1>4 DEF LeaveTable, At, LockInv, InTable
  <2> QED
    BY <1>1, <1>4, <2>1 DEF LeaveTable, Release, TypeOK, LockOf, Dead
<1>5. CASE Guard(t)
  BY <1>1, <1>5 DEF Guard, At, SharedGuard, TypeOK, LockOf, Dead
<1>6. CASE \/ CheckStatus(t) \/ ClaimStatus(t) \/ InsertFirst(t) \/ InsertNext(t)
           \/ RemoveFirst(t) \/ RemoveNext(t) \/ Dispatch(t) \/ SizeListing(t)
           \/ FillListing(t) \/ ReadStation(t) \/ FindStation(t) \/ PushHandler(t)
  <2>1. UNCHANGED dataLock /\ pc[t] \notin {"guard", "unlock"}
    BY <1>1, <1>6 DEF CheckStatus, ClaimStatus, InsertFirst, InsertNext, RemoveFirst, RemoveNext,
       Dispatch, SizeListing, FillListing, ReadStation, FindStation, PushHandler, At
  <2> QED
    BY <2>1 DEF Dead
<1> QED
  BY <1>2, <1>3, <1>4, <1>5, <1>6 DEF Steps

(* The indices and the listings.                                           *)
LEMMA StepIndex ==
  ASSUME IInv, NEW t \in Threads, Steps(t)
  PROVE  /\ call[t].op # "remove" =>
              \A ix \in Indices, k \in Keys :
                index[ix][k] # NoStation => index'[ix][k] = index[ix][k]
         /\ ~Editing(t) => UNCHANGED index
         /\ call[t].op = "list" /\ pc'[t] = "idle" => listing'[t].stns = StationsIn("mac")
         /\ listing'[t].stns \in {listing[t].stns, StationsIn("mac")}
         /\ \/ listing'[t].nulls = listing[t].nulls
            \/ listing'[t].nulls = Cardinality({k \in Keys : index["mac"][k] # NoStation})
<1>1. TypeOK /\ CallOK(t) /\ StatusInv /\ TypeInv
  BY DEF IInv, TypeInv, CallsOK
<1>2. ~Editing(t) => UNCHANGED index
  BY <1>1, StepFrame
<1>3. ASSUME NEW ix \in Indices, NEW k \in Keys, index[ix][k] # NoStation, call[t].op # "remove"
      PROVE  index'[ix][k] = index[ix][k]
  <2>1. CASE InsertFirst(t)
    <3> DEFINE s == call[t].stn
    <3>1. \/ UNCHANGED index
          \/ /\ index["hostname"][KeyOf[s]["hostname"]] = NoStation
             /\ index' = [index EXCEPT !["hostname"][KeyOf[s]["hostname"]] = s]
      BY <2>1 DEF InsertFirst, Put
    <3> QED
      BY <1>1, <1>3, <3>1 DEF TypeOK, Indices
  <2>2. CASE InsertNext(t)
    <3> DEFINE s == call[t].stn
               iy == EditedIndex(t)
    <3>1. \/ UNCHANGED index
          \/ index[iy][KeyOf[s][iy]] = NoStation /\ index' = Put(iy, s)
      BY <2>2 DEF InsertNext
    <3>2. iy \in Indices
      BY <1>1, <2>2, EditedIndexType DEF InsertNext, At, Editing
    <3> HIDE DEF iy
    <3> QED
      BY <1>1, <1>3, <3>1, <3>2 DEF TypeOK, Put
  <2>3. CASE RemoveFirst(t) \/ RemoveNext(t)
    BY <1>3, <2>3 DEF RemoveFirst, RemoveNext
  <2>4. CASE \/ CheckStatus(t) \/ ClaimTable(t) \/ ClaimStatus(t) \/ EnterLock(t) \/ LeaveTable(t)
             \/ Dispatch(t) \/ Guard(t) \/ SizeListing(t) \/ FillListing(t) \/ ReadStation(t)
             \/ FindStation(t) \/ PushHandler(t)
    BY <2>4 DEF CheckStatus, ClaimTable, ClaimStatus, EnterLock, LeaveTable, Dispatch, Guard,
       SizeListing, FillListing, ReadStation, FindStation, PushHandler
  <2> QED
    BY <2>1, <2>2, <2>3, <2>4 DEF Steps
<1>4. \/ FillListing(t) /\ listing' = [listing EXCEPT ![t].stns = StationsIn("mac")]
      \/ SizeListing(t)
      \/ UNCHANGED listing /\ (call[t].op = "list" => pc'[t] # "idle")
  <2>1. CASE Guard(t) \/ PushHandler(t) \/ ReadStation(t) \/ FindStation(t) \/ ClaimStatus(t)
    BY <1>1, <2>1 DEF Guard, PushHandler, ReadStation, FindStation, ClaimStatus, At, Goto, CallOK, TypeOK
  <2>2. CASE \/ CheckStatus(t) \/ ClaimTable(t) \/ EnterLock(t) \/ LeaveTable(t) \/ Dispatch(t)
             \/ InsertFirst(t) \/ InsertNext(t) \/ RemoveFirst(t) \/ RemoveNext(t)
    BY <1>1, <2>2 DEF CheckStatus, ClaimTable, EnterLock, LeaveTable, Dispatch, InsertFirst,
       InsertNext, RemoveFirst, RemoveNext, At, CallOK
  <2>3. FillListing(t) => listing' = [listing EXCEPT ![t].stns = StationsIn("mac")]
    BY DEF FillListing
  <2> QED
    BY <2>1, <2>2, <2>3 DEF Steps
<1>5. ASSUME FillListing(t)
      PROVE  listing'[t].stns = StationsIn("mac") /\ listing'[t].nulls = listing[t].nulls
  <2> DEFINE S == StationsIn("mac")
  <2>1. listing' = [listing EXCEPT ![t].stns = S]
    BY <1>5 DEF FillListing
  <2> HIDE DEF S
  <2>2. listing \in [Threads -> [nulls : Nat, stns : SUBSET Stations]]
    BY <1>1 DEF TypeOK
  <2>3. listing'[t] = [listing[t] EXCEPT !.stns = S]
    BY <2>1, <2>2
  <2>4. listing'[t].stns = S /\ listing'[t].nulls = listing[t].nulls
    BY <2>2, <2>3
  <2> QED
    BY <2>4 DEF S
<1>6. ASSUME SizeListing(t)
      PROVE  /\ listing'[t].nulls = Cardinality({k \in Keys : index["mac"][k] # NoStation})
             /\ listing'[t].stns = listing[t].stns /\ pc'[t] = "read"
  <2> DEFINE n == Cardinality({k \in Keys : index["mac"][k] # NoStation})
  <2>1. listing' = [listing EXCEPT ![t].nulls = n] /\ pc'[t] = "read"
    BY <1>1, <1>6 DEF SizeListing, Goto, TypeOK
  <2> HIDE DEF n
  <2>2. listing'[t].nulls = n /\ listing'[t].stns = listing[t].stns
    BY <1>1, <2>1 DEF TypeOK
  <2> QED
    BY <2>1, <2>2 DEF n
<1> QED
  BY <1>2, <1>3, <1>4, <1>5, <1>6

-----------------------------------------------------------------------------
(* The table's invariant, in the process.                                  *)

LEMMA CrashStep ==
  ASSUME IInv, crashed' = TRUE,
         UNCHANGED <<index, dataLock, status, statusLock, pc, call, reply, listing, handled,
                     notified, unborn>>
  PROVE  IInv'
<1>1. TypeInv'
  BY DEF IInv, TypeInv, TypeOK, CallsOK, CallOK
<1>2. StatusInv' /\ LockInv'
  BY DEF IInv, StatusInv, LockInv, InTable, Editing, Removing
<1>3. IndexInv'
  BY DEF IInv, IndexInv, WellPlaced, Whole, Has, Free, Underway, InsertionInv, RemovalInv, Visited
<1> QED
  BY <1>1, <1>2, <1>3 DEF IInv

LEMMA GuardStep ==
  ASSUME IInv, NEW S \in SUBSET Stations,
         statusLock' = [s \in Stations |-> IF s \in S THEN SharedGuard(statusLock[s])
                                                      ELSE statusLock[s]],
         UNCHANGED <<index, dataLock, status, pc, call, reply, listing, handled, notified,
                     unborn, crashed>>
  PROVE  IInv'
<1>1. \A s \in Stations : /\ statusLock'[s] \in LockOf(Threads)
                          /\ statusLock'[s].writePhase = statusLock[s].writePhase
                          /\ statusLock[s].skewed => statusLock'[s].skewed
  BY DEF IInv, TypeInv, TypeOK, SharedGuard, LockOf
<1>2. TypeInv'
  BY <1>1 DEF IInv, TypeInv, TypeOK, CallsOK, CallOK
<1>3. StatusInv'
  BY <1>1 DEF IInv, StatusInv, TypeInv, TypeOK, Calling
<1>4. LockInv'
  BY DEF IInv, LockInv, InTable, Editing, Removing
<1>5. IndexInv'
  BY DEF IInv, IndexInv, WellPlaced, Whole, Has, Free, Underway, InsertionInv, RemovalInv, Visited
<1> QED
  BY <1>2, <1>3, <1>4, <1>5 DEF IInv

LEMMA NextStep ==
  ASSUME IInv, [Next]_vars
  PROVE  IInv'
  BY TypeStep, StatusStep, LockStep, IndexStep DEF IInv

(* The steps that leave the table alone.                                   *)
Aside ==
  \/ \E r \in Responders : Respond(r)
  \/ RequestAll \/ Poll \/ Await \/ EndPolls \/ Sleep \/ Leave \/ Exit \/ EndOfInput
  \/ Exceptions

(* An exception changes nothing but the state of the process.              *)
LEMMA ThrowShape ==
  ASSUME Exceptions
  PROVE  /\ ended' \in {"receive", "send"}
         /\ UNCHANGED <<vars, role, responderVars, frameVars, monitorVars>>
  BY DEF Exceptions, ReceiveThrows, DrainThrows, AwaitThrows, RequestThrows, RespondThrows, Terminate

(* The calls, with the place where each begins.                            *)
Begins(t, c, label) ==
  /\ t \in Threads /\ ended = "no"
  /\ Start(t, c, label)
  /\ \/ /\ t \in Responders /\ Receive(t) /\ label = "check"
        /\ c.op = "insert" /\ c.stn \in Stations
     \/ /\ t = Monitor /\ c.stn = NoStation
        /\ \/ BeginRound /\ label = "guard" /\ c.op = "list"
           \/ /\ Update /\ label = "guard" /\ c.op = "update"
              /\ c.via = "mac" /\ c.key = KeyOf[polled]["mac"]
           \/ Drain /\ label = "claim" /\ c.op = "remove"
     \/ /\ t = Frame
        /\ \/ Register /\ label = "push" /\ c.op = "register"
           \/ Begin /\ label = "guard" /\ c.op = "list"
           \/ Refresh /\ label = "guard" /\ c.op = "list"
     \/ t = Input /\ Wakeup /\ label = "guard" /\ c.op = "wakeup"

LEMMA CallsBegin ==
  ASSUME BaseInv,
         \/ \E r \in Responders : Receive(r)
         \/ BeginRound \/ Update \/ Drain \/ Register \/ Begin \/ Refresh \/ Wakeup
  PROVE  /\ \E t, c, label : Begins(t, c, label)
         /\ Next
<1>1. TypeOK /\ (On(Monitor, "await") => polled \in Stations)
  BY DEF BaseInv, IInv, TypeInv, ThreadTypes, On
<1> USE Distinct
<1>2. ASSUME NEW r \in Responders, Receive(r)
      PROVE  (\E t, c, label : Begins(t, c, label)) /\ CallInsert(r)
  <2>1. PICK s \in unborn : Start(r, Call("insert", "hostname", NoKey, s, "AWAKEN"), "check")
    BY <1>2 DEF Receive, CallInsert
  <2> DEFINE c == Call("insert", "hostname", NoKey, s, "AWAKEN")
  <2>2. c.op = "insert" /\ c.stn \in Stations
    BY <1>1 DEF Call, TypeOK
  <2> HIDE DEF c
  <2>3. Begins(r, c, "check")
    BY <1>2, <2>1, <2>2 DEF Begins, Receive, On, c
  <2> QED
    BY <1>2, <2>3 DEF Receive
<1>3. ASSUME BeginRound
      PROVE  (\E t, c, label : Begins(t, c, label)) /\ CallList(Monitor)
  <2> DEFINE c == Lookup("list", "mac", NoKey)
  <2>1. Start(Monitor, c, "guard") /\ c.op = "list" /\ c.stn = NoStation
    BY <1>3 DEF BeginRound, List, CallList, Lookup, Call
  <2> HIDE DEF c
  <2>2. Begins(Monitor, c, "guard")
    BY <1>3, <2>1 DEF Begins, BeginRound, On
  <2> QED
    BY <1>3, <2>2 DEF BeginRound, List
<1>4. ASSUME Update
      PROVE  (\E t, c, label : Begins(t, c, label)) /\ CallUpdate(Monitor)
  <2>1. PICK w \in Statuses :
          CallThen(Monitor, Call("update", "mac", KeyOf[polled]["mac"], NoStation, w), "guard", "poll")
    BY <1>4 DEF Update
  <2> DEFINE c == Call("update", "mac", KeyOf[polled]["mac"], NoStation, w)
  <2>2. /\ Start(Monitor, c, "guard") /\ c.op = "update" /\ c.stn = NoStation
        /\ c.via = "mac" /\ c.key = KeyOf[polled]["mac"]
    BY <2>1 DEF CallThen, Call
  <2>3. KeyOf[polled]["mac"] \in Keys
    BY <1>1, <1>4, ConstantsAssumption DEF Update, Indices
  <2>4. CallUpdate(Monitor)
    BY <2>1, <2>3 DEF CallThen, CallUpdate
  <2> HIDE DEF c
  <2>5. Begins(Monitor, c, "guard")
    BY <1>4, <2>2 DEF Begins, Update, On
  <2> QED
    BY <2>4, <2>5
<1>5. ASSUME Drain
      PROVE  (\E t, c, label : Begins(t, c, label)) /\ CallRemove(Monitor)
  <2>1. PICK s \in Stations :
          CallThen(Monitor, Lookup("remove", "mac", KeyOf[s]["mac"]), "claim", "drain")
    BY <1>5 DEF Drain
  <2> DEFINE c == Lookup("remove", "mac", KeyOf[s]["mac"])
  <2>2. Start(Monitor, c, "claim") /\ c.op = "remove" /\ c.stn = NoStation
    BY <2>1 DEF CallThen, Lookup, Call
  <2>3. KeyOf[s]["mac"] \in Keys
    BY ConstantsAssumption DEF Indices
  <2>4. CallRemove(Monitor)
    BY <2>1, <2>3 DEF CallThen, CallRemove, Indices
  <2> HIDE DEF c
  <2>5. Begins(Monitor, c, "claim")
    BY <1>5, <2>2 DEF Begins, Drain, On
  <2> QED
    BY <2>4, <2>5
<1>6. ASSUME Register
      PROVE  (\E t, c, label : Begins(t, c, label)) /\ CallRegister(Frame)
  <2> DEFINE c == Lookup("register", "mac", NoKey)
  <2>1. Start(Frame, c, "push") /\ c.op = "register"
    BY <1>6 DEF Register, CallRegister, Lookup, Call
  <2> HIDE DEF c
  <2>2. Begins(Frame, c, "push")
    BY <1>6, <2>1 DEF Begins, Register, On
  <2> QED
    BY <1>6, <2>2 DEF Register
<1>7. ASSUME Begin \/ Refresh
      PROVE  (\E t, c, label : Begins(t, c, label)) /\ CallList(Frame)
  <2> DEFINE c == Lookup("list", "mac", NoKey)
  <2>1. CallList(Frame) /\ Start(Frame, c, "guard") /\ c.op = "list"
    BY <1>7 DEF Begin, Refresh, List, CallList, Lookup, Call
  <2> HIDE DEF c
  <2>2. Begins(Frame, c, "guard")
    BY <1>7, <2>1 DEF Begins, Begin, Refresh, On
  <2> QED
    BY <2>1, <2>2
<1>8. ASSUME Wakeup
      PROVE  (\E t, c, label : Begins(t, c, label)) /\ CallWakeup(Input)
  <2>1. PICK k \in Keys : CallThen(Input, Lookup("wakeup", "hostname", k), "guard", "read")
    BY <1>8 DEF Wakeup
  <2> DEFINE c == Lookup("wakeup", "hostname", k)
  <2>2. Start(Input, c, "guard") /\ c.op = "wakeup"
    BY <2>1 DEF CallThen, Lookup, Call
  <2>3. CallWakeup(Input)
    BY <2>1 DEF CallThen, CallWakeup
  <2> HIDE DEF c
  <2>4. Begins(Input, c, "guard")
    BY <1>8, <2>2 DEF Begins, Wakeup, On
  <2> QED
    BY <2>3, <2>4
<1> QED
  BY <1>2, <1>3, <1>4, <1>5, <1>6, <1>7, <1>8 DEF Next, Calls

(* Everything that a step of the process may be.                           *)
LEMMA Kinds ==
  ASSUME BaseInv, ManagerNext
  PROVE  \/ Aside
         \/ \E t, c, label : Begins(t, c, label)
         \/ \E t \in Threads : InsideTable(t) \/ DereferenceNull(t) \/ Die(t)
         \/ Render
<1>1. CASE \/ \E r \in Responders : Receive(r)
           \/ BeginRound \/ Update \/ Drain \/ Register \/ Begin \/ Refresh \/ Wakeup
  BY <1>1, CallsBegin
<1>2. CASE \/ \E r \in Responders : Respond(r)
           \/ RequestAll \/ Poll \/ Await \/ EndPolls \/ Sleep \/ Leave \/ Exit \/ EndOfInput \/ Exceptions
  BY <1>2 DEF Aside
<1> QED
  BY <1>1, <1>2 DEF ManagerNext, Environment, ThreadSteps, MonitorSteps, FrameSteps

LEMMA TableStep ==
  ASSUME BaseInv, [ManagerNext]_managerVars
  PROVE  IInv'
<1>1. IInv /\ TypeOK
  BY DEF BaseInv, IInv, TypeInv
<1>2. CASE UNCHANGED managerVars
  BY <1>1, <1>2, NextStep DEF managerVars
<1>3. CASE Aside
  <2>1. UNCHANGED vars
    BY <1>3, ThrowShape
    DEF Aside, Respond, RequestAll, Poll, Await, EndPolls, Sleep, Leave, Exit, EndOfInput
  <2> QED
    BY <1>1, <2>1, NextStep
<1>4. CASE \/ \E r \in Responders : Receive(r)
           \/ BeginRound \/ Update \/ Drain \/ Register \/ Begin \/ Refresh \/ Wakeup
  BY <1>1, <1>4, CallsBegin, NextStep
<1>5. ASSUME NEW t \in Threads, InsideTable(t)
      PROVE  IInv'
  BY <1>1, <1>5, NextStep DEF InsideTable, Next, Steps
<1>6. ASSUME NEW t \in Threads, DereferenceNull(t) \/ Die(t)
      PROVE  IInv'
  BY <1>1, <1>6, NextStep, CrashStep DEF DereferenceNull, Die, Next
<1>7. CASE Render
  <2>1. listing[Frame].stns \in SUBSET Stations
    BY <1>1, Distinct DEF TypeOK
  <2> QED
    BY <1>1, <1>7, <2>1, GuardStep DEF Render
<1> QED
  BY <1>2, <1>3, <1>4, <1>5, <1>6, <1>7
  DEF Aside, ManagerNext, Environment, ThreadSteps, MonitorSteps, FrameSteps

-----------------------------------------------------------------------------
(* The roles.                                                              *)

(* A thread that begins a call had none; with its new role the call is one *)
(* of those its code makes.                                                *)
LEMMA BeginRoles ==
  ASSUME BaseInv, NEW t, NEW c, NEW label, Begins(t, c, label)
  PROVE  RoleInv' /\ role' \in [Threads -> Roles]
<1>1. TypeOK /\ RoleInv /\ ThreadTypes /\ role \in [Threads -> Roles] /\ t \in Threads
  BY DEF BaseInv, IInv, TypeInv, ThreadTypes, Begins
<1>2. /\ pc[t] = "idle" /\ call'[t] = c
      /\ \A u \in Threads \ {t} : call'[u] = call[u]
  BY <1>1, StartShape DEF Begins
<1> USE Distinct DEF Roles
<1>3. ASSUME t \in Responders, Receive(t), c.op = "insert", c.stn \in Stations
      PROVE  RoleInv' /\ role' \in [Threads -> Roles]
  <2>1. /\ role[t] = "none" /\ role' = [role EXCEPT ![t] = "respond"]
        /\ station' = [station EXCEPT ![t] = c.stn]
    BY <1>2, <1>3 DEF Receive, On, Become
  <2>2. /\ role'[t] = "respond" /\ station'[t] = c.stn
        /\ \A u \in Threads \ {t} : role'[u] = role[u]
        /\ \A r \in Responders \ {t} : station'[r] = station[r]
    BY <1>1, <1>3, <2>1 DEF ThreadTypes
  <2> QED
    BY <1>1, <1>2, <1>3, <2>1, <2>2 DEF RoleInv
<1>4. ASSUME t = Monitor,
             \/ BeginRound /\ c.op = "list"
             \/ Update /\ c.op = "update"
             \/ Drain /\ c.op = "remove"
      PROVE  RoleInv' /\ role' \in [Threads -> Roles]
  <2>1. /\ UNCHANGED station
        /\ \/ c.op = "list" /\ role' = [role EXCEPT ![Monitor] = "request"]
           \/ c.op = "update" /\ role' = [role EXCEPT ![Monitor] = "poll"]
           \/ c.op = "remove" /\ role' = [role EXCEPT ![Monitor] = "drain"]
    BY <1>4 DEF BeginRound, Update, Drain, List, CallThen, Become, responderVars
  <2> QED
    BY <1>1, <1>2, <1>4, <2>1 DEF RoleInv
<1>5. ASSUME t = Frame,
             \/ Register /\ c.op = "register"
             \/ Begin /\ c.op = "list"
             \/ Refresh /\ c.op = "list"
      PROVE  RoleInv' /\ role' \in [Threads -> Roles]
  <2>1. /\ UNCHANGED station
        /\ \/ /\ c.op = "register" /\ role[Frame] = "register"
              /\ role' = [role EXCEPT ![Frame] = "start"]
           \/ /\ c.op = "list" /\ role[Frame] = "start"
              /\ role' = [role EXCEPT ![Frame] = "render", ![Input] = "read"]
           \/ /\ c.op = "list" /\ role[Frame] = "receive"
              /\ role' = [role EXCEPT ![Frame] = "render"]
    BY <1>5 DEF Register, Begin, Refresh, List, On, Become, responderVars
  <2> QED
    BY <1>1, <1>2, <1>5, <2>1 DEF RoleInv
<1>6. ASSUME t = Input, Wakeup, c.op = "wakeup"
      PROVE  RoleInv' /\ role' \in [Threads -> Roles]
  <2>1. /\ UNCHANGED station /\ role[Input] = "read"
        /\ role' = [role EXCEPT ![Input] = "read"]
    BY <1>6 DEF Wakeup, CallThen, On, Become, responderVars
  <2> QED
    BY <1>1, <1>2, <1>6, <2>1 DEF RoleInv
<1> QED
  BY <1>3, <1>4, <1>5, <1>6 DEF Begins

(* A step inside the table keeps the operation of the call, or ends it.    *)
LEMMA AdvanceRoles ==
  ASSUME RoleInv, NEW t \in Threads, Advance(t), UNCHANGED <<role, station>>
  PROVE  RoleInv'
<1>1. /\ call'[t].op # "none" => call'[t].op = call[t].op
      /\ call'[t].op = "insert" => call'[t] = call[t]
      /\ \A u \in Threads \ {t} : call'[u] = call[u]
  BY DEF Advance, NoCall, Call
<1> QED
  BY <1>1, Distinct DEF RoleInv

(* An idle thread takes up another role.                                   *)
LEMMA AsideRoles ==
  ASSUME BaseInv, Aside
  PROVE  RoleInv' /\ role' \in [Threads -> Roles] /\ UNCHANGED vars
<1>1. RoleInv /\ role \in [Threads -> Roles] /\ \A t \in Threads : CallOK(t)
  BY DEF BaseInv, IInv, TypeInv, CallsOK, ThreadTypes
<1>2. \A t \in Threads : pc[t] = "idle" => call[t].op = "none"
  BY <1>1 DEF CallOK, NoCall, Call
<1>3. UNCHANGED <<vars, station>> /\ call' = call
  BY ThrowShape DEF Aside, Respond, RequestAll, Poll, Await, EndPolls, Sleep, Leave, Exit, EndOfInput, vars,
     responderVars
<1> USE Distinct DEF Roles
<1>4. ASSUME NEW r \in Responders, Respond(r)
      PROVE  RoleInv' /\ role' \in [Threads -> Roles]
  BY <1>1, <1>2, <1>3, <1>4 DEF Respond, On, At, Become, RoleInv
<1>5. CASE RequestAll \/ Poll \/ EndPolls \/ Sleep
  <2>1. /\ pc[Monitor] = "idle"
        /\ \E then \in {"poll", "await", "drain", "round"} : role' = [role EXCEPT ![Monitor] = then]
    BY <1>5 DEF RequestAll, Poll, EndPolls, Sleep, On, At, Become
  <2> QED
    BY <1>1, <1>2, <1>3, <2>1 DEF RoleInv
<1>6. CASE Leave
  BY <1>1, <1>2, <1>3, <1>6 DEF Leave, On, At, Become, RoleInv
<1>7. CASE EndOfInput
  BY <1>1, <1>2, <1>3, <1>7 DEF EndOfInput, On, At, Become, RoleInv
<1>8. CASE Await \/ Exit \/ Exceptions
  BY <1>1, <1>3, <1>8, ThrowShape DEF Await, Exit, RoleInv
<1> QED
  BY <1>3, <1>4, <1>5, <1>6, <1>7, <1>8 DEF Aside

LEMMA AsideTypes ==
  ASSUME BaseInv, Aside
  PROVE  ThreadTypes'
<1>1. ThreadTypes /\ role' \in [Threads -> Roles] /\ MAX_RETRIES \in Nat
  BY AsideRoles, ManagerAssumption DEF BaseInv
<1> USE Distinct DEF Roles
<1>2. ASSUME NEW r \in Responders, Respond(r)
      PROVE  ThreadTypes'
  BY <1>1, <1>2 DEF Respond, Become, ThreadTypes, responderVars, frameVars, monitorVars
<1>3. CASE RequestAll
  <2>1. listing[Monitor].stns \subseteq Stations
    BY DEF BaseInv, IInv, TypeInv, TypeOK
  <2> QED
    BY <1>1, <1>3, <2>1 DEF RequestAll, Become, ThreadTypes, responderVars, frameVars
<1>4. CASE Poll
  BY <1>1, <1>4 DEF Poll, Become, ThreadTypes, responderVars, frameVars
<1>5. CASE Await
  BY <1>1, <1>5 DEF Await, ThreadTypes, responderVars, frameVars
<1>6. CASE EndPolls \/ Sleep
  BY <1>1, <1>6 DEF EndPolls, Sleep, Become, ThreadTypes, responderVars, frameVars, monitorVars
<1>7. CASE Leave
  <2>1. inbox' \in Seq({"REFRESH", "EXIT"})
    BY <1>1, <1>7 DEF Leave, HasMessage, ThreadTypes
  <2> QED
    BY <1>1, <1>7, <2>1 DEF Leave, Become, ThreadTypes, responderVars, monitorVars
<1>8. CASE Exit \/ Exceptions
  <2>1. ended' \in Endings /\ UNCHANGED <<role, responderVars, frameVars, monitorVars>>
    BY <1>8, ThrowShape DEF Exit, Endings
  <2> QED
    BY <1>1, <2>1 DEF ThreadTypes, responderVars, frameVars, monitorVars
<1>9. CASE EndOfInput
  <2>1. inbox' \in Seq({"REFRESH", "EXIT"})
    BY <1>1, <1>9 DEF EndOfInput, ThreadTypes
  <2> QED
    BY <1>1, <1>9, <2>1 DEF EndOfInput, Become, ThreadTypes, responderVars, monitorVars
<1> QED
  BY <1>2, <1>3, <1>4, <1>5, <1>6, <1>7, <1>8, <1>9 DEF Aside

LEMMA BeginTypes ==
  ASSUME BaseInv, NEW t, NEW c, NEW label, Begins(t, c, label)
  PROVE  ThreadTypes'
<1>1. ThreadTypes /\ role' \in [Threads -> Roles] /\ MaxGoodbyes \in Nat /\ TypeOK
  BY BeginRoles, ManagerAssumption DEF BaseInv, IInv, TypeInv
<1>2. t \in Threads /\ Start(t, c, label) /\ call'[t] = c
  BY <1>1, StartShape DEF Begins
<1> USE Distinct DEF Roles
<1>3. ASSUME t \in Responders, Receive(t), c.stn \in Stations
      PROVE  ThreadTypes'
  BY <1>1, <1>2, <1>3 DEF Receive, Become, ThreadTypes, frameVars, monitorVars
<1>4. CASE BeginRound \/ Update
  <2>1. /\ UNCHANGED <<station, late, inbox, display, requests, polled, retry_bound, goodbyes, ended>>
        /\ \E then \in {"request", "poll"} : role' = [role EXCEPT ![Monitor] = then]
    BY <1>4 DEF BeginRound, Update, List, CallThen, Become, responderVars, frameVars, monitorVars
  <2> QED
    BY <1>1, <2>1 DEF ThreadTypes
<1>5. CASE Drain
  BY <1>1, <1>5 DEF Drain, CallThen, Become, ThreadTypes, responderVars, frameVars
<1>6. CASE Register \/ Begin \/ Wakeup
  <2>1. UNCHANGED <<station, late, inbox, display, requests, polled, retry_bound, goodbyes, ended>>
    BY <1>6 DEF Register, Begin, Wakeup, responderVars, frameVars, monitorVars
  <2>2. role'[Monitor] = role[Monitor]
    BY <1>1, <1>6 DEF Register, Begin, Wakeup, CallThen, Become, ThreadTypes
  <2> QED
    BY <1>1, <2>1, <2>2 DEF ThreadTypes
<1>7. CASE Refresh
  <2>1. inbox' \in Seq({"REFRESH", "EXIT"})
    BY <1>1, <1>7 DEF Refresh, HasMessage, ThreadTypes
  <2>2. role'[Monitor] = role[Monitor]
    BY <1>1, <1>7 DEF Refresh, List, Become, ThreadTypes
  <2> QED
    BY <1>1, <1>7, <2>1, <2>2 DEF Refresh, ThreadTypes, responderVars, monitorVars
<1> QED
  BY <1>3, <1>4, <1>5, <1>6, <1>7 DEF Begins

LEMMA InsideShape ==
  ASSUME BaseInv, NEW t \in Threads, InsideTable(t)
  PROVE  /\ Steps(t) /\ Advance(t)
         /\ \/ UNCHANGED inbox
            \/ inbox' = Append(inbox, "REFRESH")
         /\ UNCHANGED <<role, station, late, display, requests, polled, retry_bound, goodbyes, ended>>
<1>1. Steps(t)
  BY DEF InsideTable, Steps
<1>2. Advance(t)
  BY <1>1, StepShape DEF BaseInv
<1> QED
  BY <1>1, <1>2 DEF InsideTable, Announce, responderVars, monitorVars

(* Render guards status locks and shows what was listed.                   *)
LEMMA RenderShape ==
  ASSUME BaseInv, Render
  PROVE  /\ pc[Frame] = "idle" /\ role[Frame] = "render" /\ listing[Frame].nulls = 0
         /\ display' = listing[Frame].stns /\ display' \subseteq Stations
         /\ role' \in [Threads -> Roles] /\ role'[Frame] = "receive"
         /\ \A u \in Threads \ {Frame} : role'[u] = role[u]
         /\ UNCHANGED <<index, dataLock, status, pc, call, listing, handled, crashed>>
         /\ UNCHANGED <<station, late, inbox, requests, polled, retry_bound, goodbyes, ended>>
<1>1. role \in [Threads -> Roles] /\ listing[Frame].stns \subseteq Stations
  BY Distinct DEF BaseInv, IInv, TypeInv, TypeOK, ThreadTypes
<1> QED
  BY <1>1, Distinct DEF Render, On, At, Become, Roles, responderVars, monitorVars

LEMMA DeathShape ==
  ASSUME NEW t \in Threads, DereferenceNull(t) \/ Die(t)
  PROVE  /\ crashed' = TRUE
         /\ UNCHANGED <<index, dataLock, status, pc, call, listing, handled, unborn>>
         /\ UNCHANGED <<role, station, late, inbox, display, requests, polled, retry_bound,
                        goodbyes, ended>>
  BY DEF DereferenceNull, Die, Torn, threadVars, responderVars, frameVars, monitorVars

LEMMA BaseStep == BaseInv /\ [ManagerNext]_managerVars => BaseInv'
<1> SUFFICES ASSUME BaseInv, [ManagerNext]_managerVars
             PROVE  Awake' /\ RoleInv' /\ ThreadTypes'
  BY TableStep DEF BaseInv
<1>1. Awake /\ RoleInv /\ ThreadTypes
  BY DEF BaseInv
<1> USE Distinct
<1>2. CASE UNCHANGED managerVars
  <2>1. UNCHANGED <<status, call, role, station, late, inbox, display, requests, polled,
                    retry_bound, goodbyes, ended>>
    BY <1>2 DEF managerVars, vars, threadVars, responderVars, frameVars, monitorVars
  <2> QED
    BY <1>1, <2>1 DEF Awake, RoleInv, ThreadTypes
<1>3. CASE Aside
  <2>1. Awake'
    BY <1>1, <1>3, AsideRoles DEF vars, Awake
  <2> QED
    BY <1>3, <2>1, AsideRoles, AsideTypes
<1>4. ASSUME NEW t, NEW c, NEW label, Begins(t, c, label)
      PROVE  Awake' /\ RoleInv' /\ ThreadTypes'
  <2>1. UNCHANGED status
    BY <1>4 DEF Begins, Start
  <2> QED
    BY <1>1, <1>4, <2>1, BeginRoles, BeginTypes DEF Awake
<1>5. ASSUME NEW t \in Threads, InsideTable(t)
      PROVE  Awake' /\ RoleInv' /\ ThreadTypes'
  <2>1. Awake' /\ RoleInv'
    BY <1>1, <1>5, InsideShape, AdvanceRoles DEF Awake, Advance
  <2>2. inbox' \in Seq({"REFRESH", "EXIT"})
    BY <1>1, <1>5, InsideShape DEF ThreadTypes
  <2>3. ThreadTypes'
    BY <1>1, <1>5, <2>2, InsideShape DEF ThreadTypes
  <2> QED
    BY <2>1, <2>3
<1>6. ASSUME NEW t \in Threads, DereferenceNull(t) \/ Die(t)
      PROVE  Awake' /\ RoleInv' /\ ThreadTypes'
  <2>1. UNCHANGED <<status, call, role, station, late, inbox, display, requests, polled,
                    retry_bound, goodbyes, ended>>
    BY <1>6, DeathShape
  <2> QED
    BY <1>1, <2>1 DEF Awake, RoleInv, ThreadTypes
<1>7. CASE Render
  <2>1. Awake' /\ RoleInv'
    <3>1. \A t \in Threads : pc[t] = "idle" => call[t].op = "none"
      BY DEF BaseInv, IInv, TypeInv, CallsOK, CallOK, NoCall, Call
    <3> QED
      BY <1>1, <1>7, <3>1, RenderShape DEF Awake, RoleInv
  <2>2. ThreadTypes'
    BY <1>1, <1>7, RenderShape DEF ThreadTypes
  <2> QED
    BY <2>1, <2>2
<1> QED
  BY <1>2, <1>3, <1>4, <1>5, <1>6, <1>7, Kinds

LEMMA BaseInit == ManagerInit => BaseInv
<1> SUFFICES ASSUME ManagerInit
             PROVE  BaseInv
  OBVIOUS
<1>1. IInv
  BY TableInit DEF ManagerInit
<1>2. \A t \in Threads : call[t].op = "none" /\ pc[t] = "idle"
  BY DEF ManagerInit, Init, NoCall, Call
<1>3. /\ role[Frame] = "register" /\ role[Monitor] = "round"
      /\ \A t \in Threads \ {Frame, Monitor} : role[t] = "none"
  BY Distinct, Zenon DEF ManagerInit
<1>4. role \in [Threads -> Roles]
  <2> DEFINE First(t) == CASE t = Frame -> "register" [] t = Monitor -> "round" [] OTHER -> "none"
  <2>1. role = [t \in Threads |-> First(t)]
    BY DEF ManagerInit
  <2> HIDE DEF First
  <2>2. \A t \in Threads : role[t] \in Roles
    BY <1>3 DEF Roles
  <2> QED
    BY <2>1, <2>2
<1>5. Awake /\ RoleInv
  BY <1>2, <1>3, Distinct DEF ManagerInit, Init, Awake, RoleInv
<1>6. ThreadTypes
  <2>1. /\ station = [r \in Responders |-> NoStation] /\ inbox = <<>> /\ display = NotShown
        /\ requests = {} /\ polled = NoStation /\ retry_bound = 0 /\ goodbyes = 0
        /\ late = {} /\ ended = "no"
    BY DEF ManagerInit
  <2> QED
    <3>1. inbox \in Seq({"REFRESH", "EXIT"}) /\ station \in [Responders -> Stations \cup {NoStation}]
      BY <2>1
    <3>2. retry_bound \in 0..MAX_RETRIES /\ goodbyes \in 0..MaxGoodbyes
      BY <2>1, ManagerAssumption
    <3>3. role[Monitor] # "await"
      BY <1>3, Distinct
    <3> QED
      BY <1>4, <2>1, <3>1, <3>2, <3>3 DEF ThreadTypes, Endings
<1> QED
  BY <1>1, <1>5, <1>6 DEF BaseInv

-----------------------------------------------------------------------------
(* The listing's guards.                                                   *)

LEMMA SkewStep == BaseInv /\ SkewInv /\ [ManagerNext]_managerVars => SkewInv'
<1> SUFFICES ASSUME BaseInv, SkewInv, [ManagerNext]_managerVars
             PROVE  SkewInv'
  OBVIOUS
<1>1. /\ IInv /\ TypeOK /\ RoleInv /\ role \in [Threads -> Roles] /\ role' \in [Threads -> Roles]
  BY BaseStep DEF BaseInv, IInv, TypeInv, ThreadTypes
<1> USE Distinct
<1>2. CASE UNCHANGED managerVars
  BY <1>2 DEF managerVars, vars, threadVars, frameVars, SkewInv
<1>3. CASE Aside
  <2>1. UNCHANGED <<pc, dataLock>>
    BY <1>3, AsideRoles DEF vars
  <2>2. ASSUME NEW r \in Responders, Respond(r)
        PROVE  SkewInv'
    BY <1>1, <2>1, <2>2 DEF Respond, Become, frameVars, SkewInv
  <2>3. CASE RequestAll \/ Poll \/ EndPolls \/ Sleep
    BY <1>1, <2>1, <2>3
    DEF RequestAll, Poll, EndPolls, Sleep, On, At, Become, frameVars, SkewInv
  <2>4. CASE Await \/ Leave \/ Exit \/ EndOfInput \/ Exceptions
    BY <1>1, <2>1, <2>4, ThrowShape
    DEF Await, Leave, Exit, EndOfInput, Become, frameVars, SkewInv
  <2> QED
    BY <1>3, <2>2, <2>3, <2>4 DEF Aside
<1>4. ASSUME NEW t, NEW c, NEW label, Begins(t, c, label)
      PROVE  SkewInv'
  <2>1. /\ UNCHANGED dataLock /\ t \in Threads /\ pc'[t] = label
        /\ \A u \in Threads \ {t} : pc'[u] = pc[u]
    BY <1>1, <1>4, StartShape DEF Begins
  <2>2. CASE t \in Responders /\ Receive(t)
    BY <1>1, <2>1, <2>2 DEF Receive, Become, frameVars, SkewInv
  <2>3. CASE t = Monitor /\ BeginRound /\ label = "guard"
    BY <1>1, <2>1, <2>3 DEF BeginRound, List, Become, frameVars, SkewInv
  <2>4. CASE t = Monitor /\ (Update \/ Drain)
    BY <1>1, <2>1, <2>4 DEF Update, Drain, On, CallThen, Become, frameVars, SkewInv
  <2>5. CASE t = Frame /\ Register
    BY <1>1, <2>1, <2>5 DEF Register, Become, frameVars, SkewInv
  <2>6. CASE t = Frame /\ (Begin \/ Refresh) /\ label = "guard"
    BY <1>1, <2>1, <2>6 DEF Begin, Refresh, List, Become, frameVars, SkewInv
  <2>7. CASE t = Input /\ Wakeup
    BY <1>1, <2>1, <2>7 DEF Wakeup, CallThen, Become, frameVars, SkewInv
  <2> QED
    BY <1>4, <2>2, <2>3, <2>4, <2>5, <2>6, <2>7 DEF Begins
<1>5. ASSUME NEW t \in Threads, InsideTable(t)
      PROVE  SkewInv'
  BY <1>1, <1>5, InsideShape, StepSkew DEF Advance, SkewInv
<1>6. ASSUME NEW t \in Threads, DereferenceNull(t) \/ Die(t)
      PROVE  SkewInv'
  BY <1>6, DeathShape DEF SkewInv
<1>7. CASE Render
  BY <1>1, <1>7, RenderShape DEF SkewInv
<1> QED
  BY <1>2, <1>3, <1>4, <1>5, <1>6, <1>7, Kinds

-----------------------------------------------------------------------------
(* The poll.                                                               *)

(* A thread that is inside a call has one.                                 *)
LEMMA BusyOps ==
  ASSUME TypeInv, NEW t \in Threads, pc[t] # "idle"
  PROVE  call[t].op # "none"
  BY DEF TypeInv, TypeOK, Labels, CallsOK, CallOK

(* What another thread does does not take a polled station's entry away.   *)
LEMMA PollInside ==
  ASSUME BaseInv, PollInv, NEW t \in Threads, InsideTable(t)
  PROVE  PollInv'
<1>1. /\ IInv /\ TypeOK /\ WellPlaced /\ StatusInv /\ CallOK(t) /\ RoleInv /\ Steps(t) /\ Advance(t)
      /\ UNCHANGED <<role, requests, polled>> /\ TypeInv
      /\ requests \subseteq Stations /\ listing[Monitor].stns \subseteq Stations
      /\ role[Monitor] = "await" => polled \in Stations
  BY InsideShape, Distinct DEF BaseInv, IInv, IndexInv, TypeInv, CallsOK, TypeOK, ThreadTypes
<1> USE Distinct, ConstantsAssumption
<1>2. "mac" \in Indices
  BY DEF Indices
<1>3. ASSUME call[t].op # "remove", NEW s \in Stations, Listed(s)
      PROVE  Listed(s)'
  <2>1. KeyOf[s]["mac"] \in Keys
    BY <1>2
  <2> QED
    BY <1>1, <1>2, <1>3, <2>1, StepIndex DEF Listed
<1>4. CASE t # Monitor
  <2>1. /\ pc'[Monitor] = pc[Monitor] /\ call'[Monitor] = call[Monitor]
        /\ listing'[Monitor] = listing[Monitor] /\ call[t].op # "remove"
    BY <1>1, <1>4, ManagerAssumption DEF Advance, RoleInv
  <2>2. ASSUME pc[Monitor] \in {"guard", "read"}, call[Monitor].op = "update",
               call[Monitor].via = "mac", index["mac"][call[Monitor].key] # NoStation
        PROVE  index'["mac"][call[Monitor].key] # NoStation
    <3>1. call[Monitor].key \in Keys
      BY <1>1, <2>2 DEF TypeInv, CallsOK, CallOK
    <3> QED
      BY <1>1, <1>2, <2>1, <2>2, <3>1, StepIndex
  <2>3. role[Monitor] = "poll" /\ pc[Monitor] # "idle" => call[Monitor].op = "update"
    BY <1>1, BusyOps DEF RoleInv
  <2> QED
    BY <1>1, <1>3, <2>1, <2>2, <2>3 DEF PollInv
<1>5. CASE t = Monitor /\ call[t].op = "list"
  <2>1. role[Monitor] = "request" /\ polled = NoStation
    BY <1>1, <1>5 DEF RoleInv, PollInv
  <2>2. ASSUME pc'[Monitor] = "idle", NEW s \in listing'[Monitor].stns
        PROVE  Listed(s)'
    <3>1. pc[t] \in {"guard", "size", "read"}
      BY <1>1, <1>5 DEF CallOK, Advance, TypeOK, Labels
    <3>2. UNCHANGED index /\ s \in StationsIn("mac")
      BY <1>1, <1>5, <2>2, <3>1, StepIndex DEF Editing
    <3>3. PICK k \in Keys : index["mac"][k] = s /\ s # NoStation
      BY <3>2 DEF StationsIn
    <3>4. KeyOf[s]["mac"] = k
      BY <1>1, <1>2, <3>3 DEF WellPlaced
    <3> QED
      BY <3>2, <3>3, <3>4 DEF Listed
  <2> QED
    BY <1>1, <2>1, <2>2 DEF PollInv
<1>6. CASE t = Monitor /\ call[t].op = "remove"
  BY <1>1, <1>6 DEF RoleInv, PollInv
<1>7. CASE t = Monitor /\ call[t].op = "update"
  <2>1. role[Monitor] = "poll"
    BY <1>1, <1>7 DEF RoleInv
  <2>2. /\ pc[t] \in {"guard", "read", "sclaim", "senter"} /\ call[t].key \in Keys
    BY <1>1, <1>7 DEF CallOK, Advance, TypeOK, Labels, StatusInv
  <2>3. UNCHANGED index
    BY <1>1, <2>2, StepIndex DEF Editing
  <2>4. ASSUME polled # NoStation, pc[t] \in {"guard", "read"}
        PROVE  /\ pc'[t] \in {"read", "sclaim"} /\ call'[t].via = "mac"
               /\ pc'[t] = "read" => index'["mac"][call'[t].key] # NoStation
    <3>1. call[t].via = "mac" /\ index["mac"][call[t].key] # NoStation
      BY <1>7, <2>1, <2>4 DEF PollInv
    <3>2. CASE Guard(t)
      BY <1>1, <1>7, <2>3, <3>1, <3>2 DEF Guard, Goto, TypeOK
    <3>3. CASE FindStation(t)
      <4>1. pc'[t] = "sclaim"
        BY <1>1, <3>1, <3>3 DEF FindStation, Goto, TypeOK
      <4> QED
        BY <1>1, <3>1, <4>1 DEF Advance
    <3> QED
      BY <1>1, <1>7, <2>4, <3>2, <3>3
      DEF Steps, CheckStatus, ClaimTable, ClaimStatus, EnterLock, LeaveTable, InsertFirst,
          InsertNext, RemoveFirst, RemoveNext, Dispatch, SizeListing, FillListing, ReadStation,
          PushHandler, At
  <2>5. pc[t] \in {"sclaim", "senter"} => pc'[t] \in {"sclaim", "senter"} /\ UNCHANGED call
    BY <1>1, StepFrame
  <2> QED
    BY <1>1, <1>7, <2>1, <2>2, <2>3, <2>4, <2>5 DEF PollInv, Listed
<1> QED
  BY <1>1, <1>4, <1>5, <1>6, <1>7 DEF RoleInv, CallOK, Advance, TypeOK, Labels

LEMMA PollStep == BaseInv /\ PollInv /\ [ManagerNext]_managerVars => PollInv'
<1> SUFFICES ASSUME BaseInv, PollInv, [ManagerNext]_managerVars
             PROVE  PollInv'
  OBVIOUS
<1>1. /\ TypeOK /\ role \in [Threads -> Roles] /\ role' \in [Threads -> Roles]
      /\ "mac" \in Indices
  BY BaseStep DEF BaseInv, IInv, TypeInv, ThreadTypes, Indices
<1> USE Distinct
<1>2. CASE UNCHANGED managerVars
  BY <1>2 DEF managerVars, vars, threadVars, monitorVars, PollInv, Listed
<1>3. CASE Aside
  <2>1. UNCHANGED <<pc, index, call, listing>>
    BY <1>3, AsideRoles DEF vars
  <2>2. ASSUME NEW t \in Threads \ {Monitor}, NEW then, Become(t, then), UNCHANGED monitorVars
        PROVE  PollInv'
    BY <1>1, <2>1, <2>2 DEF Become, monitorVars, PollInv, Listed
  <2>3. CASE (\E r \in Responders : Respond(r)) \/ Leave \/ EndOfInput
    BY <2>2, <2>3 DEF Respond, Leave, EndOfInput
  <2>4. CASE RequestAll
    BY <1>1, <2>1, <2>4 DEF RequestAll, On, At, Become, PollInv, Listed
  <2>5. CASE Poll
    BY <1>1, <2>1, <2>5 DEF Poll, On, At, Become, PollInv, Listed
  <2>6. CASE EndPolls \/ Sleep
    BY <1>1, <2>1, <2>6 DEF EndPolls, Sleep, On, At, Become, monitorVars, PollInv, Listed
  <2>7. CASE Await \/ Exit \/ Exceptions
    BY <1>1, <2>1, <2>7, ThrowShape DEF Await, Exit, monitorVars, PollInv, Listed
  <2> QED
    BY <1>3, <2>3, <2>4, <2>5, <2>6, <2>7 DEF Aside
<1>4. ASSUME NEW t, NEW c, NEW label, Begins(t, c, label)
      PROVE  PollInv'
  <2>1. /\ UNCHANGED index /\ t \in Threads
        /\ pc[t] = "idle" /\ pc'[t] = label /\ call'[t] = c
        /\ \A u \in Threads \ {t} :
             pc'[u] = pc[u] /\ call'[u] = call[u] /\ listing'[u] = listing[u]
    BY <1>1, <1>4, StartShape DEF Begins
  <2>2. CASE t # Monitor
    <3>1. UNCHANGED <<requests, polled>> /\ role'[Monitor] = role[Monitor]
      BY <1>1, <1>4, <2>2
      DEF Begins, Receive, Register, Begin, Refresh, Wakeup, List, CallThen, Become, monitorVars
    <3> QED
      BY <1>1, <2>1, <2>2, <3>1 DEF PollInv, Listed
  <2>3. CASE t = Monitor /\ BeginRound /\ label = "guard"
    BY <1>1, <2>1, <2>3 DEF BeginRound, On, At, List, Become, monitorVars, PollInv, Listed
  <2>4. CASE /\ t = Monitor /\ Update /\ label = "guard"
             /\ c.via = "mac" /\ c.key = KeyOf[polled]["mac"]
    <3>1. /\ role[Monitor] = "await" /\ role' = [role EXCEPT ![Monitor] = "poll"]
          /\ UNCHANGED <<requests, polled>>
      BY <2>4 DEF Update, On, CallThen, Become, monitorVars
    <3> QED
      BY <1>1, <2>1, <2>4, <3>1 DEF PollInv, Listed
  <2>5. CASE t = Monitor /\ Drain
    BY <1>1, <2>1, <2>5 DEF Drain, On, At, CallThen, Become, PollInv, Listed
  <2> QED
    BY <1>4, <2>2, <2>3, <2>4, <2>5 DEF Begins
<1>5. ASSUME NEW t \in Threads, InsideTable(t)
      PROVE  PollInv'
  BY <1>5, PollInside
<1>6. ASSUME NEW t \in Threads, DereferenceNull(t) \/ Die(t)
      PROVE  PollInv'
  BY <1>6, DeathShape DEF PollInv, Listed
<1>7. CASE Render
  BY <1>1, <1>7, RenderShape DEF PollInv, Listed
<1> QED
  BY <1>2, <1>3, <1>4, <1>5, <1>6, <1>7, Kinds

-----------------------------------------------------------------------------
(* The answers.                                                            *)

LEMMA FindStep == BaseInv /\ FindInv /\ [ManagerNext]_managerVars => FindInv'
<1> SUFFICES ASSUME BaseInv, FindInv, [ManagerNext]_managerVars
             PROVE  FindInv'
  OBVIOUS
<1>1. IInv /\ TypeOK /\ TypeInv /\ StatusInv
  BY DEF BaseInv, IInv, TypeInv
<1>2. CASE UNCHANGED <<pc, call>>
  BY <1>2 DEF FindInv
<1>3. CASE UNCHANGED managerVars \/ Aside \/ Render
  BY <1>2, <1>3, AsideRoles, RenderShape DEF managerVars, vars
<1>4. ASSUME NEW t, NEW c, NEW label, Begins(t, c, label)
      PROVE  FindInv'
  <2>1. /\ t \in Threads /\ call'[t] = c /\ \A u \in Threads \ {t} : pc'[u] = pc[u] /\ call'[u] = call[u]
    BY <1>1, <1>4, StartShape DEF Begins
  <2>2. c.op = "remove" => c.stn = NoStation
    BY <1>4 DEF Begins
  <2> QED
    BY <2>1, <2>2 DEF FindInv
<1>5. ASSUME NEW t \in Threads, InsideTable(t)
      PROVE  FindInv'
  <2>1. Steps(t) /\ Advance(t) /\ CallOK(t)
    BY <1>1, <1>5, InsideShape DEF TypeInv, CallsOK
  <2>2. CASE call[t].op # "remove"
    BY <2>1, <2>2 DEF Advance, NoCall, Call, FindInv
  <2>3. CASE call[t].op = "remove" /\ call[t].stn # NoStation
    <3>1. pc[t] \in {"edit2", "edit3", "sclaim", "senter"}
      BY <2>3 DEF FindInv
    <3>2. pc[t] \in {"sclaim", "senter"} => pc'[t] \in {"sclaim", "senter"}
      BY <1>1, <2>1, StepFrame
    <3>3. pc[t] \in {"edit2", "edit3"} => pc'[t] \in {"edit3", "sclaim"}
      BY <1>1, <2>1, <2>3
      DEF Steps, CheckStatus, ClaimTable, ClaimStatus, EnterLock, LeaveTable, InsertFirst,
          InsertNext, RemoveFirst, RemoveNext, Dispatch, Guard, SizeListing, FillListing,
          ReadStation, FindStation, PushHandler, At, Goto, TypeOK
    <3> QED
      BY <2>1, <3>1, <3>2, <3>3 DEF Advance, FindInv
  <2>4. CASE call[t].op = "remove" /\ call[t].stn = NoStation
    <3>1. CASE RemoveFirst(t)
      <4>1. pc'[t] = "edit2" \/ UNCHANGED call
        BY <1>1, <3>1 DEF RemoveFirst, Goto, TypeOK
      <4> QED
        BY <2>1, <2>4, <4>1 DEF Advance, FindInv
    <3>2. CASE ~RemoveFirst(t)
      <4>1. call'[t] = call[t] \/ call'[t] = NoCall
        BY <1>1, <2>1, <2>4, <3>2
        DEF Steps, CheckStatus, ClaimTable, ClaimStatus, EnterLock, LeaveTable, InsertFirst,
            InsertNext, RemoveNext, Dispatch, Guard, SizeListing, FillListing,
            ReadStation, FindStation, PushHandler, Return, TypeOK
      <4> QED
        BY <2>1, <2>4, <4>1 DEF Advance, NoCall, Call, FindInv
    <3> QED
      BY <3>1, <3>2
  <2> QED
    BY <2>2, <2>3, <2>4
<1>6. ASSUME NEW t \in Threads, DereferenceNull(t) \/ Die(t)
      PROVE  FindInv'
  BY <1>6, DeathShape DEF FindInv
<1> QED
  BY <1>3, <1>4, <1>5, <1>6, Kinds

(* The removal that has found a station is there for good.                 *)
LEMMA Touched ==
  ASSUME BaseInv, FindInv, ManagerNext
  PROVE  Untouched' => Untouched
<1>1. IInv /\ TypeOK /\ TypeInv /\ StatusInv
  BY DEF BaseInv, IInv, TypeInv
<1> SUFFICES ASSUME NEW u \in Threads, call[u].op = "remove", call[u].stn # NoStation
             PROVE  call'[u].op = "remove" /\ call'[u].stn # NoStation
  BY DEF Untouched
<1>2. pc[u] \in {"edit2", "edit3", "sclaim", "senter"}
  BY DEF FindInv
<1>3. CASE Aside \/ Render
  BY <1>3, AsideRoles, RenderShape DEF vars
<1>4. ASSUME NEW t, NEW c, NEW label, Begins(t, c, label)
      PROVE  call'[u] = call[u]
  <2>1. t \in Threads /\ pc[t] = "idle" /\ \A v \in Threads \ {t} : call'[v] = call[v]
    BY <1>1, <1>4, StartShape DEF Begins
  <2> QED
    BY <1>2, <2>1
<1>5. ASSUME NEW t \in Threads, InsideTable(t)
      PROVE  call'[u] = call[u]
  <2>1. Steps(t) /\ Advance(t)
    BY <1>5, InsideShape
  <2>2. CASE t = u
    <3>1. pc[u] \in {"sclaim", "senter"} => UNCHANGED call
      BY <1>1, <2>1, <2>2, StepFrame
    <3>2. pc[u] \in {"edit2", "edit3"} => UNCHANGED call
      BY <1>1, <2>1, <2>2
      DEF Steps, CheckStatus, ClaimTable, ClaimStatus, EnterLock, LeaveTable, InsertFirst,
          InsertNext, RemoveFirst, RemoveNext, Dispatch, Guard, SizeListing, FillListing,
          ReadStation, FindStation, PushHandler, At
    <3> QED
      BY <1>2, <3>1, <3>2
  <2> QED
    BY <2>1, <2>2 DEF Advance
<1>6. ASSUME NEW t \in Threads, DereferenceNull(t) \/ Die(t)
      PROVE  call'[u] = call[u]
  BY <1>6, DeathShape
<1> QED
  BY <1>3, <1>4, <1>5, <1>6, Kinds

(* A step in the table leaves a settled host its heir, unless a removal    *)
(* has found a station.                                                    *)
LEMMA HeirKept ==
  ASSUME BaseInv, FindInv, NEW t \in Threads, InsideTable(t), Untouched',
         NEW k \in Keys, NEW s, index["hostname"][k] = s, s # NoStation,
         \A u \in Threads : ~Underway(u, s)
  PROVE  /\ index'["hostname"][k] = s
         /\ \A u \in Threads : ~Underway(u, s)'
<1>1. /\ IInv /\ TypeOK /\ TypeInv /\ CallOK(t) /\ WellPlaced /\ Steps(t) /\ Advance(t)
      /\ "hostname" \in Indices
  BY InsideShape DEF BaseInv, IInv, TypeInv, CallsOK, IndexInv, Indices
<1> USE ConstantsAssumption
<1>2. s \in Stations /\ KeyOf[s]["hostname"] = k
  BY <1>1 DEF TypeOK, WellPlaced
<1>3. \A u \in Threads \ {t} : ~Underway(u, s)'
  BY <1>1 DEF Underway, Advance
<1>4. CASE call[t].op # "remove"
  <2>1. index'["hostname"][k] = s
    BY <1>1, <1>4, StepIndex
  <2>2. ~Underway(t, s)'
    <3>1. SUFFICES ASSUME pc'[t] \in {"edit2", "edit3"}, call'[t].stn = s
                   PROVE  FALSE
      BY DEF Underway
    <3>2. CASE InsertFirst(t)
      <4>1. index["hostname"][KeyOf[s]["hostname"]] = NoStation
        BY <1>1, <3>1, <3>2 DEF InsertFirst, Goto, TypeOK
      <4> QED
        BY <1>2, <4>1
    <3>3. CASE ~InsertFirst(t)
      <4>1. pc[t] \in {"edit2", "edit3"} /\ call'[t] = call[t]
        BY <1>1, <1>4, <3>1, <3>3
        DEF Steps, CheckStatus, ClaimTable, ClaimStatus, EnterLock, LeaveTable,
            InsertNext, RemoveFirst, RemoveNext, Dispatch, Guard, SizeListing, FillListing,
            ReadStation, FindStation, PushHandler, Return, At, Goto, TypeOK
      <4> QED
        BY <3>1, <4>1 DEF Underway
    <3> QED
      BY <3>2, <3>3
  <2> QED
    BY <1>3, <2>1, <2>2
<1>5. CASE call[t].op = "remove"
  <2>1. call[t].stn = NoStation
    BY <1>5, Touched DEF InsideTable, Untouched, ManagerNext, ThreadSteps
  <2>2. ~RemoveNext(t)
    BY <1>1, <2>1 DEF RemoveNext, At, CallOK
  <2>3. RemoveFirst(t) => UNCHANGED index /\ pc'[t] = "unlock"
    <3>1. SUFFICES ASSUME RemoveFirst(t), index[call[t].via][call[t].key] # NoStation
                   PROVE  FALSE
      BY <1>1 DEF RemoveFirst, Goto, TypeOK
    <3>2. call'[t].op = "remove" /\ call'[t].stn # NoStation
      BY <1>1, <1>5, <3>1, Found DEF RemoveFirst
    <3> QED
      BY <3>2 DEF Untouched
  <2>4. UNCHANGED index /\ pc'[t] \notin {"edit2", "edit3"}
    BY <1>1, <1>5, <2>2, <2>3
    DEF Steps, CheckStatus, ClaimTable, ClaimStatus, EnterLock, LeaveTable, InsertFirst,
        InsertNext, Dispatch, Guard, SizeListing, FillListing,
        ReadStation, FindStation, PushHandler, Return, At, Goto, TypeOK
  <2> QED
    BY <1>3, <2>4 DEF Underway
<1> QED
  BY <1>4, <1>5

(* An insertion leaves its host an heir: the station itself, or the one    *)
(* that it found.                                                          *)
LEMMA HeirFound ==
  ASSUME BaseInv, NEW r \in Responders, InsideTable(r), ~Settled(r), Settled(r)'
  PROVE  \E s \in Stations : Heir(r, s)'
<1>1. /\ IInv /\ TypeOK /\ TypeInv /\ CallOK(r) /\ WellPlaced /\ Steps(r) /\ Advance(r) /\ RoleInv
      /\ InsertionInv(r) /\ LockInv /\ UNCHANGED <<role, station>> /\ r \in Threads
  BY InsideShape, Distinct DEF BaseInv, IInv, TypeInv, CallsOK, IndexInv
<1> USE ConstantsAssumption DEF Indices
<1>2. /\ role[r] = "respond" /\ pc[r] \notin {"idle", "dispatch", "unlock"}
      /\ pc'[r] \in {"idle", "dispatch", "unlock"}
  BY <1>1 DEF Settled
<1>3. /\ call[r].op = "insert" /\ call[r].stn = station[r] /\ station[r] \in Stations
      /\ call[r].via = "hostname"
  BY <1>1, <1>2, BusyOps DEF RoleInv, CallOK
<1>4. /\ Editing(r) /\ \A u \in Threads \ {r} : ~Editing(u)' /\ ~Editing(r)'
      /\ \/ InsertFirst(r) /\ pc'[r] = "unlock"
         \/ InsertNext(r) /\ pc[r] = "edit3" /\ pc'[r] = "dispatch"
  <2>1. \/ InsertFirst(r) /\ pc'[r] = "unlock"
        \/ InsertNext(r) /\ pc[r] = "edit3" /\ pc'[r] = "dispatch"
    <3>1. pc[r] \in {"check", "claim", "enter", "edit1", "edit2", "edit3"}
      BY <1>1, <1>2, <1>3 DEF CallOK, TypeOK, Labels
    <3>2. \/ CheckStatus(r) \/ ClaimTable(r) \/ (EnterLock(r) /\ pc[r] = "enter")
          \/ InsertFirst(r) \/ InsertNext(r)
      BY <1>1, <1>3, <3>1
      DEF Steps, ClaimStatus, EnterLock, LeaveTable, RemoveFirst, RemoveNext, Dispatch, Guard,
          SizeListing, FillListing, ReadStation, FindStation, PushHandler, At
    <3>3. CheckStatus(r) => pc[r] = "check" /\ pc'[r] \in {"idle", "claim"}
      BY <1>1 DEF CheckStatus, At, Goto, Return, TypeOK
    <3>4. /\ ClaimTable(r) => pc'[r] = "enter"
          /\ EnterLock(r) /\ pc[r] = "enter" => pc'[r] = "edit1"
          /\ InsertFirst(r) => pc'[r] \in {"edit2", "unlock"}
          /\ InsertNext(r) => \/ pc[r] = "edit2" /\ pc'[r] = "edit3"
                              \/ pc[r] = "edit3" /\ pc'[r] = "dispatch"
      BY <1>1 DEF ClaimTable, EnterLock, InsertFirst, InsertNext, At, Goto, TypeOK
    <3> QED
      BY <1>1, <1>2, <1>3, <3>2, <3>3, <3>4 DEF Advance
  <2>2. Editing(r)
    BY <2>1 DEF InsertFirst, InsertNext, At, Editing
  <2>3. \A u \in Threads \ {r} : ~Editing(u)
    BY <1>1, <2>2 DEF LockInv, InTable
  <2> QED
    BY <1>1, <1>2, <2>1, <2>2, <2>3 DEF Advance, Editing
<1> DEFINE k == KeyOf[station[r]]["hostname"]
<1>5. k \in Keys
  BY <1>3
<1>6. CASE InsertFirst(r) /\ pc'[r] = "unlock"
  <2>1. index["hostname"][k] # NoStation /\ UNCHANGED index
    BY <1>1, <1>3, <1>6 DEF InsertFirst, Goto, TypeOK
  <2> QED
    BY <1>1, <1>4, <1>5, <2>1 DEF Heir, Underway, Editing, TypeOK
<1>7. CASE InsertNext(r) /\ pc[r] = "edit3" /\ pc'[r] = "dispatch"
  <2>1. Has("hostname", station[r])
    <3>1. Visited(r) = {EditOrder("hostname")[1], EditOrder("hostname")[2]}
      BY <1>3, <1>7 DEF Visited
    <3>2. "hostname" \in Visited(r)
      BY <3>1, EditOrders
    <3> QED
      BY <1>1, <1>3, <1>7, <3>2 DEF InsertionInv
  <2>2. index'["hostname"][k] = station[r]
    BY <1>1, <1>3, <1>5, <2>1, StepIndex DEF Has
  <2> QED
    BY <1>1, <1>3, <1>4, <2>2 DEF Heir, Underway, Editing
<1> QED
  BY <1>4, <1>6, <1>7

LEMMA SettledStep == BaseInv /\ FindInv /\ SettledInv /\ [ManagerNext]_managerVars => SettledInv'
<1> SUFFICES ASSUME BaseInv, FindInv, SettledInv, [ManagerNext]_managerVars, Untouched',
                    NEW r \in Responders, Settled(r)'
             PROVE  \E s \in Stations : Heir(r, s)'
  BY DEF SettledInv
<1>1. /\ TypeOK /\ r \in Threads /\ RoleInv /\ RoleInv'
      /\ role \in [Threads -> Roles] /\ role' \in [Threads -> Roles]
  BY Distinct, BaseStep DEF BaseInv, IInv, TypeInv, ThreadTypes
<1> USE Distinct
<1>2. ASSUME Settled(r), UNCHANGED station, UNCHANGED index, Untouched,
             \A u \in Threads, s \in Stations : Underway(u, s)' => Underway(u, s)
      PROVE  \E s \in Stations : Heir(r, s)'
  BY <1>2 DEF SettledInv, Heir
<1>3. CASE UNCHANGED managerVars
  <2>1. UNCHANGED <<index, pc, call, role, station>>
    BY <1>3 DEF managerVars, vars, threadVars, responderVars
  <2> QED
    BY <1>2, <2>1 DEF Settled, Underway, Untouched
<1>4. CASE Aside
  <2>1. UNCHANGED <<index, pc, call, station>>
    BY <1>4, AsideRoles, ThrowShape
    DEF vars, Aside, Respond, RequestAll, Poll, Await, EndPolls, Sleep, Leave, Exit, EndOfInput,
        responderVars
  <2>2. role'[r] = role[r] \/ Respond(r)
    BY <1>1, <1>4, ThrowShape
    DEF Aside, Respond, RequestAll, Poll, Await, EndPolls, Sleep, Leave, Exit, EndOfInput, Become
  <2>3. Settled(r)
    BY <2>1, <2>2 DEF Settled, Respond, On, At
  <2> QED
    BY <1>2, <2>1, <2>3 DEF Underway, Untouched
<1>5. ASSUME NEW t, NEW c, NEW label, Begins(t, c, label)
      PROVE  \E s \in Stations : Heir(r, s)'
  <2>1. /\ UNCHANGED index /\ t \in Threads /\ pc[t] = "idle" /\ pc'[t] = label /\ call'[t] = c
        /\ \A u \in Threads \ {t} : pc'[u] = pc[u] /\ call'[u] = call[u]
        /\ label \in {"check", "guard", "claim", "push"}
    BY <1>1, <1>5, StartShape DEF Begins
  <2>2. \A u \in Threads, s \in Stations : Underway(u, s)' => Underway(u, s)
    BY <2>1 DEF Underway
  <2>3. call[t].op = "none"
    BY <2>1 DEF BaseInv, IInv, TypeInv, CallsOK, CallOK, NoCall, Call
  <2>4. Untouched
    BY <2>1, <2>3 DEF Untouched
  <2>5. CASE t \in Responders /\ Receive(t) /\ label = "check"
    <3>1. r # t
      <4>1. role'[t] = "respond"
        BY <1>1, <2>5 DEF Receive, Become
      <4> QED
        BY <2>1, <2>5, <4>1 DEF Settled
    <3>2. role'[r] = role[r] /\ station'[r] = station[r]
      BY <1>1, <2>5, <3>1 DEF BaseInv, ThreadTypes, Receive, Become
    <3>3. PICK s \in Stations : Heir(r, s)
      BY <2>1, <2>4, <3>1, <3>2 DEF Settled, SettledInv
    <3> QED
      BY <2>1, <2>2, <3>2, <3>3 DEF Heir
  <2>6. CASE t \in {Monitor, Frame, Input} /\ UNCHANGED station
    <3>1. role'[r] = role[r]
      BY <1>1, <1>5, <2>6
      DEF Begins, BeginRound, Update, Drain, Register, Begin, Refresh, Wakeup, List, CallThen, Become
    <3> QED
      BY <1>2, <2>1, <2>2, <2>4, <2>6, <3>1 DEF Settled
  <2> QED
    BY <1>5, <2>5, <2>6
    DEF Begins, BeginRound, Update, Drain, Register, Begin, Refresh, Wakeup, responderVars
<1>6. ASSUME NEW t \in Threads, InsideTable(t)
      PROVE  \E s \in Stations : Heir(r, s)'
  <2>1. Steps(t) /\ Advance(t) /\ UNCHANGED <<role, station>>
    BY <1>6, InsideShape
  <2>2. CASE ~Settled(r)
    <3>1. t = r
      BY <2>1, <2>2 DEF Settled, Advance
    <3> QED
      BY <1>6, <2>2, <3>1, HeirFound
  <2>3. CASE Settled(r)
    <3>1. Untouched
      BY <1>6, Touched DEF ManagerNext, ThreadSteps
    <3>2. PICK s \in Stations : Heir(r, s)
      BY <2>3, <3>1 DEF SettledInv
    <3>3. KeyOf[station[r]]["hostname"] \in Keys /\ s # NoStation
      BY <1>1, <2>3, ConstantsAssumption DEF RoleInv, Settled, Indices
    <3>4. Heir(r, s)'
      BY <1>6, <2>1, <3>2, <3>3, HeirKept DEF Heir
    <3> QED
      BY <3>4
  <2> QED
    BY <2>2, <2>3
<1>7. ASSUME NEW t \in Threads, DereferenceNull(t) \/ Die(t)
      PROVE  \E s \in Stations : Heir(r, s)'
  BY <1>2, <1>7, DeathShape DEF Settled, Underway, Untouched
<1>8. CASE Render
  BY <1>2, <1>8, RenderShape DEF Settled, Underway, Untouched
<1> QED
  BY <1>3, <1>4, <1>5, <1>6, <1>7, <1>8, Kinds

-----------------------------------------------------------------------------
(* The late answer.                                                        *)

LEMMA LateStep == BaseInv /\ SkewInv /\ LateInv /\ [ManagerNext]_managerVars => LateInv'
<1> SUFFICES ASSUME BaseInv, SkewInv, LateInv, [ManagerNext]_managerVars
             PROVE  LateInv'
  OBVIOUS
<1>1. /\ IInv /\ TypeInv /\ TypeOK /\ RoleInv /\ ThreadTypes /\ late \subseteq Responders
      /\ role \in [Threads -> Roles] /\ role' \in [Threads -> Roles]
  BY BaseStep DEF BaseInv, IInv, TypeInv, ThreadTypes
<1> USE Distinct
<1>2. ASSUME UNCHANGED <<late, dataLock>>, late # {} /\ display # NotShown => display' # NotShown,
             \A r \in Responders : LateDone(r)' => LateDone(r)
      PROVE  LateInv'
  BY <1>2 DEF LateInv, Dead
<1>3. CASE UNCHANGED managerVars
  <2>1. UNCHANGED <<late, dataLock, display, role, pc>>
    BY <1>3 DEF managerVars, vars, threadVars, responderVars, frameVars
  <2> QED
    BY <1>2, <2>1 DEF LateDone
<1>4. CASE Aside
  <2>1. UNCHANGED <<late, dataLock, display, pc>>
    BY <1>4, AsideRoles, ThrowShape
    DEF vars, Aside, Respond, RequestAll, Poll, Await, EndPolls, Sleep, Leave, Exit, EndOfInput,
        responderVars, frameVars
  <2>2. ASSUME NEW r \in Responders
        PROVE  role'[r] = role[r] \/ Respond(r)
    BY <1>1, <1>4, ThrowShape
    DEF Aside, Respond, RequestAll, Poll, Await, EndPolls, Sleep, Leave, Exit, EndOfInput, Become
  <2>3. \A r \in Responders : LateDone(r)' => LateDone(r)
    BY <2>1, <2>2 DEF LateDone, Respond, On, At
  <2> QED
    BY <1>2, <2>1, <2>3
<1>5. ASSUME NEW t, NEW c, NEW label, Begins(t, c, label)
      PROVE  LateInv'
  <2>1. /\ UNCHANGED dataLock /\ t \in Threads /\ pc'[t] = label
        /\ \A u \in Threads \ {t} : pc'[u] = pc[u]
    BY <1>1, <1>5, StartShape DEF Begins
  <2>2. CASE t \in Responders /\ Receive(t) /\ label = "check"
    <3>1. /\ role'[t] = "respond" /\ \A r \in Responders \ {t} : role'[r] = role[r]
          /\ UNCHANGED display
          /\ \/ UNCHANGED late
             \/ late' = late \cup {t} /\ display # NotShown
      BY <1>1, <2>2 DEF Receive, Become, frameVars
    <3>2. \A r \in Responders : LateDone(r)' => LateDone(r)
      BY <2>1, <2>2, <3>1 DEF LateDone
    <3> QED
      BY <2>1, <3>1, <3>2 DEF LateInv, Dead
  <2>3. CASE t \in {Monitor, Frame, Input} /\ UNCHANGED <<late, display>>
    <3>1. \A r \in Responders : role'[r] = role[r]
      BY <1>1, <1>5, <2>3
      DEF Begins, BeginRound, Update, Drain, Register, Begin, Refresh, Wakeup, List, CallThen, Become
    <3> QED
      BY <1>2, <2>1, <2>3, <3>1 DEF LateDone
  <2> QED
    BY <1>5, <2>2, <2>3
    DEF Begins, BeginRound, Update, Drain, Register, Begin, Refresh, Wakeup, responderVars, frameVars
<1>6. ASSUME NEW t \in Threads, InsideTable(t)
      PROVE  LateInv'
  <2>1. Steps(t) /\ Advance(t) /\ UNCHANGED <<role, late, display>>
    BY <1>6, InsideShape
  <2>2. ASSUME NEW r \in Responders, LateDone(r)', ~LateDone(r)
        PROVE  r = t /\ pc[t] = "unlock" /\ dataLock.skewed
    <3>1. r = t
      BY <2>1, <2>2 DEF LateDone, Advance
    <3>2. call[t].op = "insert" /\ pc'[t] = "idle"
      BY <1>1, <2>1, <2>2, <3>1, BusyOps DEF LateDone, Advance, RoleInv
    <3> QED
      BY <2>1, <2>2, <3>1, <3>2 DEF Advance, LateInv, LateDone, SkewInv
  <2>3. ASSUME NEW r \in Responders, LateDone(r)'
        PROVE  Dead(dataLock')
    BY <1>1, <2>1, <2>2, <2>3, StepSkew DEF LateInv
  <2>4. ASSUME NEW q \in Responders, NEW r \in Responders, LateDone(q)', LateDone(r)'
        PROVE  q = r
    <3>1. CASE LateDone(q) \/ LateDone(r)
      <4>1. pc[t] # "unlock"
        BY <1>1, <2>1, <3>1, StepSkew DEF LateInv
      <4> QED
        BY <2>2, <2>4, <4>1 DEF LateInv
    <3>2. CASE ~LateDone(q) /\ ~LateDone(r)
      BY <2>2, <2>4, <3>2
    <3> QED
      BY <3>1, <3>2
  <2> QED
    BY <2>1, <2>3, <2>4 DEF LateInv, Dead
<1>7. ASSUME NEW t \in Threads, DereferenceNull(t) \/ Die(t)
      PROVE  LateInv'
  BY <1>2, <1>7, DeathShape DEF LateDone
<1>8. CASE Render
  <2>1. display' # NotShown
    BY <1>8, RenderShape, ConstantsAssumption DEF NotShown
  <2> QED
    BY <1>2, <1>8, <2>1, RenderShape DEF LateDone
<1> QED
  BY <1>3, <1>4, <1>5, <1>6, <1>7, <1>8, Kinds

-----------------------------------------------------------------------------
(* The quiet manager.                                                      *)

(* Without a request no step of the table gets past its lock.              *)
LEMMA QuietInside ==
  ASSUME BaseInv, SkewInv, QuietInv, Quiet, NEW t \in Threads, InsideTable(t)
  PROVE  QuietInv'
<1>1. /\ IInv /\ TypeOK /\ CallOK(t) /\ RoleInv /\ Steps(t) /\ Advance(t)
  BY InsideShape DEF BaseInv, IInv, TypeInv, CallsOK
<1> USE Distinct, ConstantsAssumption
<1> DEFINE Deep == {"edit1", "edit2", "edit3", "unlock", "dispatch", "sclaim", "senter"}
<1>2. /\ ~crashed /\ ~dataLock.writePhase /\ ended # "send"
      /\ requests = {} /\ role[Monitor] # "await"
      /\ \A ix \in Indices, k \in Keys : index[ix][k] = NoStation
      /\ \A u \in Threads :
           pc[u] \notin Deep /\ listing[u].nulls = 0 /\ listing[u].stns = {}
  BY DEF QuietInv
<1>3. UNCHANGED index
  BY <1>1, <1>2, StepIndex DEF Editing
<1>4. call[t].op # "insert"
  BY <1>1, ManagerAssumption DEF RoleInv, Quiet
<1>5. pc[t] = "enter" => dataLock.skewed
  <2>1. SUFFICES ASSUME pc[t] = "enter"
                 PROVE  dataLock.skewed
    OBVIOUS
  <2>2. call[t].op = "remove"
    BY <1>1, <1>4, <2>1 DEF CallOK
  <2>3. t = Monitor /\ role[Monitor] = "drain"
    BY <1>1, <2>2, ManagerAssumption DEF RoleInv
  <2> QED
    BY <2>3 DEF SkewInv
<1>6. pc'[t] \notin Deep
  <2>1. CASE EnterLock(t)
    BY <1>1, <1>2, <1>5, <2>1 DEF EnterLock, At, MayEnter
  <2>2. CASE FindStation(t)
    <3>1. index[call[t].via][call[t].key] = NoStation
      BY <1>1, <1>2, <2>2 DEF FindStation, CallOK, TypeOK, Calling
    <3> QED
      BY <1>1, <2>2, <3>1 DEF FindStation, Return, Goto, TypeOK
  <2>3. CASE CheckStatus(t) \/ ClaimTable(t)
    BY <1>1, <2>3 DEF CheckStatus, ClaimTable, Return, Goto, TypeOK
  <2>4. CASE Guard(t) \/ SizeListing(t) \/ FillListing(t) \/ ReadStation(t) \/ PushHandler(t)
    BY <1>1, <2>4 DEF Guard, SizeListing, FillListing, ReadStation, PushHandler, Return, Goto, TypeOK
  <2>5. CASE \/ ClaimStatus(t) \/ LeaveTable(t) \/ InsertFirst(t) \/ InsertNext(t)
             \/ RemoveFirst(t) \/ RemoveNext(t) \/ Dispatch(t)
    BY <1>2, <2>5 DEF ClaimStatus, LeaveTable, InsertFirst, InsertNext, RemoveFirst, RemoveNext,
       Dispatch, At
  <2> QED
    BY <1>1, <2>1, <2>2, <2>3, <2>4, <2>5 DEF Steps
<1>7. listing'[t].nulls = 0 /\ listing'[t].stns = {}
  <2>1. {k \in Keys : index["mac"][k] # NoStation} = {}
    BY <1>2 DEF Indices
  <2>2. Cardinality({k \in Keys : index["mac"][k] # NoStation}) = 0
    BY <2>1, FS_EmptySet
  <2>3. StationsIn("mac") = {}
    BY <1>2 DEF StationsIn, Indices
  <2> QED
    BY <1>1, <1>2, <2>2, <2>3, StepIndex
<1>8. ~dataLock'.writePhase
  BY <1>1, <1>2, <1>5, StepSkew
<1>9. UNCHANGED <<role, requests, ended>>
  BY InsideShape
<1> QED
  BY <1>1, <1>2, <1>3, <1>6, <1>7, <1>8, <1>9 DEF Advance, QuietInv

LEMMA QuietStep == BaseInv /\ SkewInv /\ QuietInv /\ [ManagerNext]_managerVars => QuietInv'
<1> SUFFICES ASSUME BaseInv, SkewInv, QuietInv, [ManagerNext]_managerVars, Quiet'
             PROVE  QuietInv'
  BY DEF QuietInv
<1>1. /\ TypeOK /\ station \in [Responders -> Stations \cup {NoStation}]
      /\ RoleInv /\ role \in [Threads -> Roles]
  BY DEF BaseInv, IInv, TypeInv, ThreadTypes
<1> USE Distinct, ConstantsAssumption
<1> DEFINE Deep == {"edit1", "edit2", "edit3", "unlock", "dispatch", "sclaim", "senter"}
<1>2. CASE UNCHANGED managerVars
  BY <1>2 DEF managerVars, vars, threadVars, responderVars, monitorVars, QuietInv, Quiet
<1>3. CASE Aside
  <2>1. UNCHANGED vars /\ UNCHANGED station
    BY <1>3, AsideRoles, ThrowShape
    DEF Aside, Respond, RequestAll, Poll, Await, EndPolls, Sleep, Leave, Exit, EndOfInput,
        responderVars
  <2>2. /\ Quiet /\ requests = {} /\ role[Monitor] # "await" /\ ended # "send"
        /\ listing[Monitor].stns = {}
    BY <2>1 DEF QuietInv, Quiet
  <2>3. requests' = {} /\ role'[Monitor] # "await" /\ ended' # "send"
    <3>1. CASE RequestAll \/ Poll \/ Await \/ EndPolls \/ Sleep
      BY <1>1, <2>2, <3>1 DEF RequestAll, Poll, Await, EndPolls, Sleep, On, Become, monitorVars
    <3>2. CASE (\E r \in Responders : Respond(r)) \/ Leave \/ Exit \/ EndOfInput
      BY <1>1, <2>2, <3>2 DEF Respond, Leave, Exit, EndOfInput, Become, monitorVars
    <3>3. CASE Exceptions
      <4>1. ~AwaitThrows /\ ~RequestThrows
        BY <2>2 DEF AwaitThrows, RequestThrows, On
      <4>2. ASSUME NEW r \in Responders, RespondThrows(r)
            PROVE  FALSE
        BY <1>1, <2>2, <4>2 DEF RespondThrows, On, RoleInv, Quiet
      <4>3. ended' = "receive"
        BY <3>3, <4>1, <4>2 DEF Exceptions, ReceiveThrows, DrainThrows, Terminate
      <4> QED
        BY <2>2, <3>3, <4>3, ThrowShape DEF monitorVars
    <3> QED
      BY <1>3, <3>1, <3>2, <3>3 DEF Aside
  <2> QED
    BY <2>1, <2>2, <2>3 DEF vars, QuietInv, Quiet
<1>4. ASSUME NEW t, NEW c, NEW label, Begins(t, c, label)
      PROVE  QuietInv'
  <2>1. /\ UNCHANGED <<index, dataLock, crashed>> /\ t \in Threads
        /\ pc'[t] = label /\ call'[t] = c /\ label \notin Deep
        /\ listing'[t].nulls = 0 /\ listing'[t].stns = {}
        /\ \A u \in Threads \ {t} : pc'[u] = pc[u] /\ listing'[u] = listing[u]
    BY <1>1, <1>4, StartShape DEF Begins, EmptyListing
  <2>2. UNCHANGED station
    <3>1. CASE t \in Responders /\ Receive(t) /\ c.stn \in Stations
      <4>1. station'[t] = c.stn
        BY <1>1, <2>1, <3>1 DEF Receive
      <4> QED
        BY <3>1, <4>1 DEF Quiet
    <3> QED
      BY <1>4, <3>1
      DEF Begins, BeginRound, Update, Drain, Register, Begin, Refresh, Wakeup, responderVars
  <2>3. Quiet /\ requests = {} /\ role[Monitor] # "await" /\ ended # "send"
    BY <2>2 DEF QuietInv, Quiet
  <2>4. requests' = {} /\ role'[Monitor] # "await" /\ ended' # "send"
    BY <1>1, <1>4, <2>3
    DEF Begins, Receive, BeginRound, Update, Drain, Register, Begin, Refresh, Wakeup, List,
        CallThen, On, Become, monitorVars
  <2> QED
    BY <2>1, <2>2, <2>3, <2>4 DEF QuietInv, Quiet
<1>5. ASSUME NEW t \in Threads, InsideTable(t)
      PROVE  QuietInv'
  <2>1. Quiet
    BY <1>5, InsideShape DEF Quiet
  <2> QED
    BY <1>5, <2>1, QuietInside
<1>6. ASSUME NEW t \in Threads, DereferenceNull(t) \/ Die(t)
      PROVE  QuietInv'
  <2>1. Quiet
    BY <1>6, DeathShape DEF Quiet
  <2>2. \A u \in Threads : pc[u] \notin Deep /\ listing[u].nulls = 0
    BY <2>1 DEF QuietInv
  <2> QED
    BY <1>6, <2>2 DEF DereferenceNull, Die, Torn, At, Editing
<1>7. CASE Render
  BY <1>1, <1>7, RenderShape DEF QuietInv, Quiet
<1> QED
  BY <1>2, <1>3, <1>4, <1>5, <1>6, <1>7, Kinds

-----------------------------------------------------------------------------
(* The end of the console.                                                 *)

LEMMA EndStep == BaseInv /\ EndInv /\ [ManagerNext]_managerVars => EndInv'
<1> SUFFICES ASSUME BaseInv, EndInv, [ManagerNext]_managerVars
             PROVE  EndInv'
  OBVIOUS
<1> DEFINE Told == \E i \in DOMAIN inbox : inbox[i] = "EXIT"
<1>1. /\ TypeOK /\ RoleInv /\ inbox \in Seq({"REFRESH", "EXIT"})
      /\ role \in [Threads -> Roles] /\ role' \in [Threads -> Roles]
  BY BaseStep DEF BaseInv, IInv, TypeInv, ThreadTypes
<1> USE Distinct
<1>2. ASSUME role'[Frame] = "gone" => role[Frame] = "gone" \/ Told, Told' => Told,
             role[Input] = "gone" => role'[Input] = "gone"
      PROVE  EndInv'
  BY <1>2 DEF EndInv
<1>3. CASE UNCHANGED managerVars
  BY <1>2, <1>3 DEF managerVars, threadVars, frameVars
<1>4. ASSUME HasMessage("EXIT") \/ HasMessage("REFRESH"), inbox' = Tail(inbox)
      PROVE  Told' => Told
  <2>1. inbox # <<>>
    BY <1>4 DEF HasMessage
  <2>2. \A i \in DOMAIN inbox' : i + 1 \in DOMAIN inbox /\ inbox'[i] = inbox[i + 1]
    BY <1>1, <1>4, <2>1
  <2> QED
    BY <2>2
<1>5. CASE Aside
  <2>1. CASE EndOfInput
    BY <1>1, <2>1 DEF EndOfInput, Become, EndInv
  <2>2. CASE Leave
    <3>1. Told /\ (Told' => Told)
      BY <1>1, <1>4, <2>2 DEF Leave, HasMessage
    <3> QED
      BY <1>1, <1>2, <2>2, <3>1 DEF Leave, Become
  <2>3. CASE (\E r \in Responders : Respond(r)) \/ RequestAll \/ Poll \/ EndPolls \/ Sleep
    BY <1>1, <1>2, <2>3 DEF Respond, RequestAll, Poll, EndPolls, Sleep, Become, frameVars
  <2>4. CASE Await \/ Exit \/ Exceptions
    BY <1>2, <2>4, ThrowShape DEF Await, Exit, frameVars
  <2> QED
    BY <1>5, <2>1, <2>2, <2>3, <2>4 DEF Aside
<1>6. CASE \/ \E r \in Responders : Receive(r)
           \/ BeginRound \/ Update \/ Drain \/ Register \/ Wakeup
  <2>1. UNCHANGED inbox
    BY <1>6 DEF Receive, BeginRound, Update, Drain, Register, Wakeup, frameVars
  <2>2. (role'[Frame] = role[Frame] \/ role'[Frame] = "start") /\ role'[Input] = role[Input]
    BY <1>1, <1>6
    DEF Receive, BeginRound, Update, Drain, Register, Wakeup, List, CallThen, On, Become
  <2> QED
    BY <1>2, <2>1, <2>2
<1>7. CASE Begin \/ Refresh
  <2>1. CASE Begin
    <3>1. role[Input] = "none" /\ UNCHANGED inbox /\ role'[Frame] = "render"
      BY <1>1, <2>1 DEF Begin, On, RoleInv, frameVars
    <3> QED
      BY <1>2, <3>1
  <2>2. CASE Refresh
    <3>1. role'[Frame] = "render" /\ role'[Input] = role[Input] /\ (Told' => Told)
      BY <1>1, <1>4, <2>2 DEF Refresh, List, Become
    <3> QED
      BY <1>2, <3>1
  <2> QED
    BY <1>7, <2>1, <2>2
<1>8. ASSUME NEW t \in Threads, InsideTable(t)
      PROVE  EndInv'
  <2>1. UNCHANGED role /\ (UNCHANGED inbox \/ inbox' = Append(inbox, "REFRESH"))
    BY <1>8, InsideShape
  <2>2. Told' => Told
    BY <1>1, <2>1
  <2> QED
    BY <1>2, <2>1, <2>2
<1>9. ASSUME NEW t \in Threads, DereferenceNull(t) \/ Die(t)
      PROVE  EndInv'
  BY <1>2, <1>9, DeathShape
<1>10. CASE Render
  BY <1>2, <1>10, RenderShape
<1> QED
  BY <1>3, <1>5, <1>6, <1>7, <1>8, <1>9, <1>10
  DEF Aside, ManagerNext, Environment, ThreadSteps, MonitorSteps, FrameSteps

-----------------------------------------------------------------------------
(* The screen.                                                             *)

(* A step in the table loses no refresh, and one that lists a station      *)
(* brings one.                                                             *)
LEMMA ComingKept ==
  ASSUME BaseInv, handled, NEW t \in Threads, InsideTable(t), NEW s
  PROVE  /\ Coming(s) => Coming(s)'
         /\ s \in StationsIn("mac")' /\ s \notin StationsIn("mac") => Coming(s)'
<1>1. /\ TypeOK /\ TypeInv /\ CallOK(t) /\ Steps(t) /\ Advance(t) /\ StatusInv
      /\ inbox \in Seq({"REFRESH", "EXIT"})
  BY InsideShape DEF BaseInv, IInv, TypeInv, CallsOK, ThreadTypes
<1>2. Refreshing => Refreshing'
  <2>1. UNCHANGED inbox \/ inbox' = Append(inbox, "REFRESH")
    BY InsideShape
  <2> QED
    BY <1>1, <2>1 DEF Refreshing
<1>3. \A u \in Threads \ {t} : Telling(u, s) => Telling(u, s)'
  BY <1>1 DEF Telling, Advance
<1>4. ASSUME InsertNext(t), call[t].stn = s
      PROVE  Telling(t, s)'
  BY <1>1, <1>4 DEF InsertNext, Goto, TypeOK, Telling
<1>5. ASSUME Telling(t, s)
      PROVE  Coming(s)'
  <2>1. CASE pc[t] = "dispatch"
    <3>1. inbox' = Append(inbox, "REFRESH")
      BY <2>1 DEF InsideTable, Announce
    <3>2. inbox'[Len(inbox) + 1] = "REFRESH" /\ Len(inbox) + 1 \in DOMAIN inbox'
      BY <1>1, <3>1
    <3> QED
      BY <3>2 DEF Coming, Refreshing
  <2>2. CASE pc[t] \in {"edit2", "edit3"}
    <3>1. InsertNext(t)
      BY <1>1, <1>5, <2>2
      DEF Steps, CheckStatus, ClaimTable, ClaimStatus, EnterLock, LeaveTable, InsertFirst,
          RemoveFirst, RemoveNext, Dispatch, Guard, SizeListing, FillListing, ReadStation,
          FindStation, PushHandler, At, Telling
    <3> QED
      BY <1>4, <1>5, <3>1 DEF Coming, Telling
  <2> QED
    BY <1>5, <2>1, <2>2 DEF Telling
<1>6. ASSUME s \in StationsIn("mac")', s \notin StationsIn("mac")
      PROVE  Coming(s)'
  <2>1. PICK k \in Keys : index'["mac"][k] = s /\ s # NoStation
    BY <1>6 DEF StationsIn
  <2>2. index["mac"][k] # s
    BY <1>6, <2>1 DEF StationsIn
  <2>3. \/ InsertFirst(t) \/ InsertNext(t) \/ RemoveFirst(t) \/ RemoveNext(t)
        \/ UNCHANGED index
    BY <1>1
    DEF Steps, CheckStatus, ClaimTable, ClaimStatus, EnterLock, LeaveTable, Dispatch, Guard,
        SizeListing, FillListing, ReadStation, FindStation, PushHandler
  <2>4. ~InsertFirst(t)
    <3>1. InsertFirst(t) => index'["mac"] = index["mac"]
      BY <1>1 DEF InsertFirst, Put, TypeOK, Indices
    <3> QED
      BY <2>1, <2>2, <3>1
  <2>5. \A ix \in Indices, j \in Keys :
          index' = Drop(ix, j) => index'["mac"][k] \in {index["mac"][k], NoStation}
    BY <1>1 DEF Drop, TypeOK, Indices
  <2>6. ~RemoveFirst(t)
    <3>1. RemoveFirst(t) => UNCHANGED index \/ index' = Drop(call[t].via, call[t].key)
      BY DEF RemoveFirst
    <3>2. RemoveFirst(t) => call[t].via \in Indices /\ call[t].key \in Keys
      BY <1>1 DEF RemoveFirst, CallOK, TypeOK, Calling
    <3> QED
      BY <2>1, <2>2, <2>5, <3>1, <3>2
  <2>7. ~RemoveNext(t)
    <3> DEFINE ix == EditedIndex(t)
    <3>1. SUFFICES ASSUME RemoveNext(t)
                   PROVE  FALSE
      OBVIOUS
    <3>2. ix \in Indices /\ call[t].stn \in Stations
      BY <1>1, <3>1, EditedIndexType DEF RemoveNext, At, Editing, CallOK
    <3>3. index' = Drop(ix, KeyOf[call[t].stn][ix])
      BY <3>1 DEF RemoveNext
    <3> HIDE DEF ix
    <3>4. KeyOf[call[t].stn][ix] \in Keys
      BY <3>2, ConstantsAssumption
    <3> QED
      BY <2>1, <2>2, <2>5, <3>2, <3>3, <3>4
  <2>8. InsertNext(t)
    BY <2>1, <2>2, <2>3, <2>4, <2>6, <2>7
  <2>9. call[t].stn = s
    <3> DEFINE ix == EditedIndex(t)
    <3>1. ix \in Indices
      BY <1>1, <2>8, EditedIndexType DEF InsertNext, At, Editing
    <3>2. index' = Put(ix, call[t].stn)
      BY <2>1, <2>2, <2>8 DEF InsertNext
    <3> HIDE DEF ix
    <3> QED
      BY <1>1, <2>1, <2>2, <3>1, <3>2 DEF Put, TypeOK, Indices
  <2> QED
    BY <1>4, <2>8, <2>9 DEF Coming
<1> QED
  BY <1>2, <1>3, <1>5, <1>6 DEF Coming

LEMMA ShownInside ==
  ASSUME BaseInv, ShownInv, NEW t \in Threads, InsideTable(t)
  PROVE  ShownInv'
<1>1. /\ TypeOK /\ TypeInv /\ CallOK(t) /\ Steps(t) /\ Advance(t) /\ IInv /\ RoleInv
      /\ UNCHANGED <<role, display>>
  BY InsideShape DEF BaseInv, IInv, TypeInv, CallsOK
<1> USE Distinct
<1>2. (UNCHANGED handled \/ handled' = TRUE) /\ (PushHandler(t) => handled' = TRUE)
  BY <1>1
  DEF Steps, CheckStatus, ClaimTable, ClaimStatus, EnterLock, LeaveTable, InsertFirst,
      InsertNext, RemoveFirst, RemoveNext, Dispatch, Guard, SizeListing, FillListing,
      ReadStation, FindStation, PushHandler
<1>3. CASE t # Frame
  <2>1. pc'[Frame] = pc[Frame] /\ listing'[Frame] = listing[Frame]
    BY <1>1, <1>3 DEF Advance
  <2>2. ASSUME handled, NEW S, \A s \in StationsIn("mac") \ S : Coming(s)
        PROVE  \A s \in StationsIn("mac")' \ S : Coming(s)'
    BY <2>2, ComingKept
  <2> QED
    BY <1>1, <1>2, <2>1, <2>2 DEF ShownInv
<1>4. CASE t = Frame
  <2>1. \/ role[Frame] = "start" /\ call[Frame].op = "register"
        \/ role[Frame] = "render" /\ call[Frame].op = "list"
    BY <1>1, <1>4, BusyOps DEF Advance, RoleInv
  <2>2. CASE role[Frame] = "start" /\ call[Frame].op = "register"
    <3>1. PushHandler(t)
      <4>1. pc[t] = "push"
        BY <1>1, <1>4, <2>2 DEF CallOK, Advance, TypeOK, Labels
      <4> QED
        BY <1>1, <4>1
        DEF Steps, CheckStatus, ClaimTable, ClaimStatus, EnterLock, LeaveTable, InsertFirst,
            InsertNext, RemoveFirst, RemoveNext, Dispatch, Guard, SizeListing, FillListing,
            ReadStation, FindStation, At
    <3> QED
      BY <1>1, <1>2, <2>2, <3>1 DEF ShownInv
  <2>3. CASE role[Frame] = "render" /\ call[Frame].op = "list"
    <3>1. pc[t] \in {"guard", "size", "read"}
      BY <1>1, <1>4, <2>3 DEF CallOK, Advance, TypeOK, Labels
    <3>2. UNCHANGED index
      BY <1>1, <3>1, StepIndex DEF Editing
    <3>3. pc'[t] = "idle" => listing'[t].stns = StationsIn("mac")
      BY <1>1, <1>4, <2>3, StepIndex
    <3>4. StationsIn("mac")' = StationsIn("mac")
      BY <3>2 DEF StationsIn
    <3>5. handled'
      <4>1. handled
        BY <2>3 DEF ShownInv
      <4> QED
        BY <1>2, <4>1, Zenon
    <3>6. role'[Frame] = "render"
      BY <1>1, <2>3
    <3> QED
      BY <1>4, <3>3, <3>4, <3>5, <3>6 DEF ShownInv
  <2> QED
    BY <2>1, <2>2, <2>3
<1> QED
  BY <1>3, <1>4

LEMMA ShownStep == BaseInv /\ ShownInv /\ [ManagerNext]_managerVars => ShownInv'
<1> SUFFICES ASSUME BaseInv, ShownInv, [ManagerNext]_managerVars
             PROVE  ShownInv'
  OBVIOUS
<1>1. /\ TypeOK /\ inbox \in Seq({"REFRESH", "EXIT"})
      /\ role \in [Threads -> Roles] /\ role' \in [Threads -> Roles]
  BY BaseStep DEF BaseInv, IInv, TypeInv, ThreadTypes
<1> USE Distinct
<1>2. ASSUME UNCHANGED <<index, handled, display>>, role'[Frame] = role[Frame],
             pc'[Frame] = pc[Frame], listing'[Frame] = listing[Frame],
             \A s \in StationsIn("mac") : Coming(s) => Coming(s)'
      PROVE  ShownInv'
  <2>1. StationsIn("mac")' = StationsIn("mac")
    BY <1>2 DEF StationsIn
  <2> QED
    BY <1>2, <2>1 DEF ShownInv
<1>3. CASE UNCHANGED managerVars
  <2>1. UNCHANGED <<index, handled, display, role, pc, listing, call, inbox>>
    BY <1>3 DEF managerVars, vars, threadVars, frameVars
  <2> QED
    BY <1>2, <2>1 DEF Coming, Refreshing, Telling
<1>4. CASE Aside
  <2>1. UNCHANGED <<index, handled, pc, listing, call>>
    BY <1>4, AsideRoles DEF vars
  <2>2. CASE Leave
    <3>1. role'[Frame] = "gone"
      BY <1>1, <2>2 DEF Leave, Become
    <3> QED
      BY <3>1 DEF ShownInv
  <2>3. CASE EndOfInput
    <3>1. Refreshing => Refreshing'
      BY <1>1, <2>3 DEF EndOfInput, Refreshing
    <3>2. role'[Frame] = role[Frame] /\ UNCHANGED display
      BY <1>1, <2>3 DEF EndOfInput, Become
    <3> QED
      BY <1>2, <2>1, <3>1, <3>2 DEF Coming, Telling
  <2>4. CASE \/ \E r \in Responders : Respond(r)
             \/ RequestAll \/ Poll \/ Await \/ EndPolls \/ Sleep \/ Exit \/ Exceptions
    <3>1. UNCHANGED <<inbox, display>>
      BY <2>4, ThrowShape
      DEF Respond, RequestAll, Poll, Await, EndPolls, Sleep, Exit, frameVars
    <3>2. role'[Frame] = role[Frame]
      BY <1>1, <2>4, ThrowShape
      DEF Respond, RequestAll, Poll, Await, EndPolls, Sleep, Exit, Become
    <3> QED
      BY <1>2, <2>1, <3>1, <3>2 DEF Coming, Refreshing, Telling
  <2> QED
    BY <1>4, <2>2, <2>3, <2>4 DEF Aside
<1>5. ASSUME NEW t, NEW c, NEW label, Begins(t, c, label)
      PROVE  ShownInv'
  <2>1. /\ UNCHANGED <<index, handled>> /\ t \in Threads /\ pc[t] = "idle" /\ pc'[t] = label
        /\ \A u \in Threads \ {t} :
             pc'[u] = pc[u] /\ call'[u] = call[u] /\ listing'[u] = listing[u]
    BY <1>1, <1>5, StartShape DEF Begins
  <2>2. CASE t # Frame
    <3>1. UNCHANGED <<inbox, display>> /\ role'[Frame] = role[Frame]
      BY <1>1, <1>5, <2>2
      DEF Begins, Receive, BeginRound, Update, Drain, Wakeup, List, CallThen, Become, frameVars
    <3>2. \A s : Coming(s) => Coming(s)'
      BY <2>1, <3>1 DEF Coming, Refreshing, Telling
    <3> QED
      BY <1>2, <2>1, <2>2, <3>1, <3>2
  <2>3. CASE t = Frame /\ Register /\ label = "push"
    <3>1. role'[Frame] = "start"
      BY <1>1, <2>3 DEF Register, Become
    <3> QED
      BY <2>1, <2>3, <3>1 DEF ShownInv
  <2>4. CASE t = Frame /\ (Begin \/ Refresh) /\ label = "guard"
    <3>1. handled /\ role'[Frame] = "render"
      BY <1>1, <2>1, <2>4 DEF Begin, Refresh, List, On, Become, ShownInv
    <3> QED
      BY <2>1, <2>4, <3>1 DEF ShownInv
  <2> QED
    BY <1>5, <2>2, <2>3, <2>4 DEF Begins
<1>6. ASSUME NEW t \in Threads, InsideTable(t)
      PROVE  ShownInv'
  BY <1>6, ShownInside
<1>7. ASSUME NEW t \in Threads, DereferenceNull(t) \/ Die(t)
      PROVE  ShownInv'
  BY <1>2, <1>7, DeathShape DEF Coming, Refreshing, Telling
<1>8. CASE Render
  <2>1. \A s : Coming(s)' <=> Coming(s)
    BY <1>8, RenderShape DEF Coming, Refreshing, Telling
  <2>2. StationsIn("mac")' = StationsIn("mac")
    BY <1>8, RenderShape DEF StationsIn
  <2> QED
    BY <1>8, <2>1, <2>2, RenderShape DEF ShownInv
<1> QED
  BY <1>3, <1>4, <1>5, <1>6, <1>7, <1>8, Kinds

-----------------------------------------------------------------------------
(* The theorems.                                                           *)

LEMMA ManagerInvariance == ManagerSpec => []ManagerInv
<1>1. ManagerInit => ManagerInv
  <2> SUFFICES ASSUME ManagerInit
               PROVE  ManagerInv
    OBVIOUS
  <2>1. BaseInv /\ RoleInv
    BY BaseInit DEF BaseInv
  <2>2. /\ role[Frame] = "register" /\ role[Monitor] = "round"
        /\ \A r \in Responders : role[r] = "none"
    BY Distinct, Zenon DEF ManagerInit
  <2>3. /\ inbox = <<>> /\ display = NotShown /\ polled = NoStation /\ late = {}
        /\ requests = {} /\ ended = "no"
        /\ \A r \in Responders : station[r] = NoStation
    BY DEF ManagerInit
  <2>4. /\ \A t \in Threads : /\ pc[t] = "idle" /\ call[t].op = "none"
                               /\ listing[t].nulls = 0 /\ listing[t].stns = {}
        /\ ~crashed /\ dataLock.writePhase = FALSE
        /\ \A ix \in Indices, k \in Keys : index[ix][k] = NoStation
    BY DEF ManagerInit, Init, FreshLock, EmptyListing, NoCall, Call
  <2>5. SkewInv /\ PollInv
    BY <2>2, <2>3 DEF SkewInv, PollInv
  <2>6. FindInv /\ SettledInv /\ LateInv
    BY <2>2, <2>3, <2>4 DEF FindInv, SettledInv, Settled, LateInv, LateDone
  <2>7. QuietInv /\ EndInv /\ ShownInv
    BY <2>2, <2>3, <2>4 DEF QuietInv, EndInv, ShownInv
  <2> QED
    BY <2>1, <2>5, <2>6, <2>7 DEF ManagerInv
<1>2. ManagerInv /\ [ManagerNext]_managerVars => ManagerInv'
  BY BaseStep, SkewStep, PollStep, FindStep, SettledStep, LateStep, QuietStep, EndStep,
     ShownStep
  DEF ManagerInv
<1> QED
  BY <1>1, <1>2, PTL DEF ManagerSpec

(* Every variable of the threads keeps its type, and each thread keeps to  *)
(* the operations that its code calls.                                     *)
THEOREM ManagerTyping == ManagerSpec => []ManagerTypeOK
<1>1. ManagerInv => ManagerTypeOK
  BY DEF ManagerInv, BaseInv, RoleInv, ThreadTypes, ManagerTypeOK
<1> QED
  BY <1>1, ManagerInvariance, PTL

(* An answered host is in all three indices, or its host name's owner is.  *)
THEOREM Answered == ManagerSpec => []AnsweredIsListed
<1>1. ManagerInv => AnsweredIsListed
  <2> SUFFICES ASSUME ManagerInv, NEW r \in Responders, role[r] = "answered", Untouched
               PROVE  LET s == index["hostname"][KeyOf[station[r]]["hostname"]]
                      IN s # NoStation /\ \A ix \in Indices : Has(ix, s)
    BY DEF AnsweredIsListed, Untouched, Has
  <2>1. WellPlaced /\ \A s \in Stations : (\A t \in Threads : ~Underway(t, s)) => Whole(s)
    BY DEF ManagerInv, BaseInv, IInv, IndexInv
  <2>2. PICK s \in Stations : Heir(r, s)
    BY DEF ManagerInv, SettledInv, Settled
  <2>3. KeyOf[station[r]]["hostname"] \in Keys /\ "hostname" \in Indices /\ s # NoStation
    BY ConstantsAssumption DEF ManagerInv, BaseInv, RoleInv, Indices
  <2>4. Has("hostname", s) /\ Whole(s)
    BY <2>1, <2>2, <2>3 DEF WellPlaced, Has, Heir
  <2> QED
    BY <2>2, <2>3, <2>4 DEF Whole, Heir
<1> QED
  BY <1>1, ManagerInvariance, PTL

(* The monitor never comes back from the update of the first station that  *)
(* it polls: the station's entry is still there, and its status lock dead. *)
THEOREM FirstPoll == ManagerSpec => []FirstPollIsTheLast
<1>1. ManagerInv => FirstPollIsTheLast
  BY DEF ManagerInv, PollInv, FirstPollIsTheLast
<1> QED
  BY <1>1, ManagerInvariance, PTL

(* Of the hosts that ask after the first display at most one is answered.  *)
THEOREM LateAnswer == ManagerSpec => []OneLateAnswer
<1>1. ManagerInv => OneLateAnswer
  <2> SUFFICES ASSUME ManagerInv
               PROVE  Cardinality({r \in late : role[r] = "answered"}) <= 1
    BY DEF OneLateAnswer
  <2> DEFINE S == {r \in late : role[r] = "answered"}
  <2>1. \A q, r \in S : q = r
    BY DEF ManagerInv, BaseInv, ThreadTypes, LateInv, LateDone
  <2>2. CASE S = {}
    BY <2>2, FS_EmptySet
  <2>3. CASE S # {}
    <3>1. PICK r \in S : S = {r}
      BY <2>1, <2>3
    <3> QED
      BY <3>1, FS_Singleton
  <2> QED
    BY <2>2, <2>3
<1> QED
  BY <1>1, ManagerInvariance, PTL

(* Until a discovery request is received, only a receive that throws and   *)
(* the end of the console end the manager: no null pointer, no torn read,  *)
(* no dangling handler, no request or answer that fails.                   *)
THEOREM Unasked == ManagerSpec => []QuietUntilAsked
<1>1. ManagerInv => QuietUntilAsked
  BY DEF ManagerInv, BaseInv, ThreadTypes, QuietInv, Quiet, QuietUntilAsked, Endings
<1> QED
  BY <1>1, ManagerInvariance, PTL

(* The handler outlives its frame only once the console was closed.        *)
THEOREM HandlerFrame == ManagerSpec => []HandlerHasItsFrame
<1>1. ManagerInv => HandlerHasItsFrame
  BY DEF ManagerInv, EndInv, HandlerHasItsFrame
<1> QED
  BY <1>1, ManagerInvariance, PTL

(* No refresh is lost: whenever the main thread waits at an empty channel, *)
(* each listed station is on the screen or its inserter has yet to tell.   *)
THEOREM NothingMissed == ManagerSpec => []NothingIsMissed
<1>1. ManagerInv => NothingIsMissed
  <2> SUFFICES ASSUME ManagerInv, role[Frame] = "receive", inbox = <<>>,
                      NEW s \in StationsIn("mac") \ display
               PROVE  \E t \in Threads : Telling(t, s)
    BY DEF NothingIsMissed, Telling
  <2>1. ~Refreshing
    BY DEF Refreshing
  <2> QED
    BY <2>1 DEF ManagerInv, ShownInv, Coming
<1> QED
  BY <1>1, ManagerInvariance, PTL


=============================================================================
