----------------------- MODULE ManagementService_refinement -----------------------
(***************************************************************************)
(* The three indices implement the atomic table of StationTable.           *)
(*                                                                         *)
(* An insertion takes effect when it edits the hostname index, its first;  *)
(* a removal takes effect when it edits that index, be it first or last.   *)
(* The proof needs the indices to agree at that moment (IndexInv), and     *)
(* what the call will reply to be settled by then (ReplyInv).              *)
(***************************************************************************)
EXTENDS ManagementService_proofs

(* The reply of a call that changes the table, at each place in its code.  *)
ReplyOK(t) ==
  /\ call[t].op \in {"insert", "remove"} => reply[t] \in BOOLEAN
  /\ call[t].op \in {"insert", "remove"} /\ pc[t] \in {"check", "claim", "enter", "edit1"} =>
       reply[t] = FALSE
  /\ call[t].op = "remove" /\ pc[t] \in {"edit2", "edit3"} =>
       reply[t] = TRUE /\ KeyOf[call[t].stn][call[t].via] = call[t].key

(* insert finds no station disconnected: on_remove never gets that far.    *)
ReplyInv ==
  /\ \A t \in Threads : ReplyOK(t)
  /\ \A s \in Stations : status[s] = "AWAKEN"

RInv == IInv /\ ReplyInv

-----------------------------------------------------------------------------
(* ReplyInv is an invariant.                                               *)

LEMMA ReplyInit == Init => ReplyInv
  BY DEF Init, ReplyInv, ReplyOK, NoCall, Call

(* A step of t says nothing of another thread's reply.                     *)
LEMMA ReplyFrame ==
  ASSUME ReplyInv, NEW t \in Threads, UNCHANGED status, ReplyOK(t)',
         \A u \in Threads \ {t} : pc'[u] = pc[u] /\ call'[u] = call[u] /\ reply'[u] = reply[u]
  PROVE  ReplyInv'
  BY DEF ReplyInv, ReplyOK

(* A step between two places that ask the same of the reply.               *)
LEMMA ReplySame ==
  ASSUME NEW t, ReplyOK(t), call'[t] = call[t], reply'[t] = reply[t],
         \/ pc'[t] = pc[t]
         \/ pc[t] \in {"check", "claim", "enter"} /\ pc'[t] \in {"claim", "enter", "edit1"}
         \/ pc'[t] \notin {"check", "claim", "enter", "edit1", "edit2", "edit3"}
         \/ call[t].op \notin {"insert", "remove"}
         \/ pc[t] = "edit2" /\ pc'[t] = "edit3"
  PROVE  ReplyOK(t)'
  BY DEF ReplyOK

LEMMA ReplyCalls ==
  ASSUME TypeInv, ReplyInv, NEW t \in Threads, Calls(t)
  PROVE  ReplyInv'
<1>1. ASSUME NEW c, NEW label, Start(t, c, label), label \notin {"edit2", "edit3"}
      PROVE  ReplyInv'
  <2>1. /\ pc'[t] = label /\ reply'[t] = FALSE /\ UNCHANGED status
        /\ \A u \in Threads \ {t} : pc'[u] = pc[u] /\ call'[u] = call[u] /\ reply'[u] = reply[u]
    BY <1>1 DEF Start, Goto, TypeInv, TypeOK
  <2>2. ReplyOK(t)'
    BY <1>1, <2>1 DEF ReplyOK
  <2> QED
    BY <2>1, <2>2, ReplyFrame
<1> QED
  BY <1>1 DEF Calls, CallInsert, CallRemove, CallGet, CallUpdate, CallWakeup, CallList,
     CallRegister

LEMMA ReplySteps ==
  ASSUME IInv, ReplyInv, NEW t \in Threads, Steps(t)
  PROVE  ReplyInv'
<1> USE ConstantsAssumption
<1> DEFINE Others == \A u \in Threads \ {t} :
                       pc'[u] = pc[u] /\ call'[u] = call[u] /\ reply'[u] = reply[u]
<1>1. TypeInv /\ TypeOK /\ CallOK(t) /\ ReplyOK(t) /\ StatusInv /\ IndexInv
  BY DEF IInv, TypeInv, CallsOK, ReplyInv
<1>2. ASSUME UNCHANGED status, Others, ReplyOK(t)'
      PROVE  ReplyInv'
  BY <1>2, ReplyFrame
<1>3. ASSUME UNCHANGED status, NEW value, Return(t, value)
      PROVE  ReplyInv'
  BY <1>1, <1>2, <1>3 DEF Return, Goto, TypeOK, ReplyOK, NoCall, Call
<1>4. CASE CheckStatus(t)
  <2>1. call[t].stn \in Stations /\ status[call[t].stn] = "AWAKEN"
    BY <1>1, <1>4 DEF CheckStatus, At, CallOK, ReplyInv
  <2>2. /\ pc[t] = "check" /\ UNCHANGED <<status, call, reply>>
        /\ pc'[t] = "claim" /\ \A u \in Threads \ {t} : pc'[u] = pc[u]
    BY <1>1, <1>4, <2>1 DEF CheckStatus, At, Goto, TypeOK
  <2> QED
    BY <1>1, <1>2, <2>2, ReplySame
<1>5. CASE ClaimTable(t) \/ ClaimStatus(t)
  <2>1. /\ UNCHANGED <<status, call, reply>> /\ \A u \in Threads \ {t} : pc'[u] = pc[u]
        /\ \/ pc[t] = "claim" /\ pc'[t] = "enter"
           \/ pc[t] = "sclaim" /\ pc'[t] = "senter"
    BY <1>1, <1>5 DEF ClaimTable, ClaimStatus, At, Goto, TypeOK
  <2> QED
    BY <1>1, <1>2, <2>1, ReplySame
<1>6. CASE EnterLock(t)
  <2>1. pc[t] = "enter"
    BY <1>1, <1>6 DEF EnterLock, At, MayEnter, StatusInv, CallOK
  <2>2. /\ UNCHANGED <<status, call, reply>> /\ pc'[t] = "edit1"
        /\ \A u \in Threads \ {t} : pc'[u] = pc[u]
    BY <1>1, <1>6, <2>1 DEF EnterLock, Goto, TypeOK
  <2> QED
    BY <1>1, <1>2, <2>1, <2>2, ReplySame
<1>7. CASE InsertFirst(t)
  <2>1. /\ UNCHANGED <<status, call>> /\ call[t].op = "insert"
        /\ \A u \in Threads \ {t} : pc'[u] = pc[u] /\ reply'[u] = reply[u]
        /\ \/ pc'[t] = "edit2" /\ reply'[t] = TRUE
           \/ pc'[t] = "unlock" /\ UNCHANGED reply
    BY <1>1, <1>7 DEF InsertFirst, Goto, TypeOK
  <2> QED
    BY <1>1, <1>2, <2>1 DEF ReplyOK
<1>8. CASE InsertNext(t) \/ RemoveNext(t)
  <2>1. /\ UNCHANGED <<status, call, reply>> /\ \A u \in Threads \ {t} : pc'[u] = pc[u]
        /\ \/ pc[t] = "edit2" /\ pc'[t] = "edit3"
           \/ pc'[t] \in {"dispatch", "sclaim"}
    BY <1>1, <1>8 DEF InsertNext, RemoveNext, At, Goto, TypeOK
  <2> QED
    BY <1>1, <1>2, <2>1, ReplySame
<1>9. CASE RemoveFirst(t)
  <2> DEFINE s == index[call[t].via][call[t].key]
  <2>1. /\ UNCHANGED status /\ call[t].op = "remove" /\ pc[t] = "edit1"
        /\ call[t].via \in Indices /\ call[t].key \in Keys
        /\ \A u \in Threads \ {t} : pc'[u] = pc[u]
    BY <1>1, <1>9 DEF RemoveFirst, At, Goto, TypeOK, CallOK, Calling
  <2>2. CASE s # NoStation
    <3>1. KeyOf[s][call[t].via] = call[t].key
      BY <1>1, <2>1, <2>2 DEF IndexInv, WellPlaced
    <3>2. /\ call'[t].stn = s /\ call'[t].via = call[t].via /\ call'[t].key = call[t].key
          /\ \A u \in Threads \ {t} : call'[u] = call[u]
      BY <1>1, <1>9, <2>2, Found DEF RemoveFirst
    <3>3. reply'[t] = TRUE /\ \A u \in Threads \ {t} : reply'[u] = reply[u]
      BY <1>1, <1>9, <2>2 DEF RemoveFirst, TypeOK
    <3>4. pc'[t] = "edit2"
      BY <1>1, <1>9, <2>2 DEF RemoveFirst, Goto, TypeOK
    <3> QED
      BY <1>2, <2>1, <3>1, <3>2, <3>3, <3>4 DEF ReplyOK
  <2>3. CASE s = NoStation
    <3>1. pc'[t] = "unlock" /\ UNCHANGED <<call, reply>>
      BY <1>1, <1>9, <2>3 DEF RemoveFirst, Goto, TypeOK
    <3> QED
      BY <1>1, <1>2, <2>1, <3>1, ReplySame
  <2> QED
    BY <2>2, <2>3
<1>10. CASE Dispatch(t)
  <2>1. /\ UNCHANGED <<status, call, reply>> /\ pc'[t] = "unlock"
        /\ \A u \in Threads \ {t} : pc'[u] = pc[u]
    BY <1>1, <1>10 DEF Dispatch, At, Goto, TypeOK, StatusInv
  <2> QED
    BY <1>1, <1>2, <2>1, ReplySame
<1>11. CASE Guard(t) \/ SizeListing(t)
  <2>1. /\ UNCHANGED <<status, call, reply>> /\ pc'[t] \in {"size", "read"}
        /\ \A u \in Threads \ {t} : pc'[u] = pc[u]
    BY <1>1, <1>11 DEF Guard, SizeListing, Goto, TypeOK
  <2> QED
    BY <1>1, <1>2, <2>1, ReplySame
<1>12. CASE FindStation(t)
  <2> DEFINE s == index[call[t].via][call[t].key]
  <2>1. CASE s # NoStation
    <3>1. /\ UNCHANGED <<status, reply>> /\ pc'[t] = "sclaim"
          /\ \A u \in Threads \ {t} : pc'[u] = pc[u]
          /\ call[t].op \in {"update", "wakeup"}
      BY <1>1, <1>12, <2>1 DEF FindStation, Goto, TypeOK
    <3>2. call'[t].op = call[t].op /\ \A u \in Threads \ {t} : call'[u] = call[u]
      BY <1>1, <1>12, <2>1, Found DEF FindStation
    <3> QED
      BY <1>2, <3>1, <3>2 DEF ReplyOK
  <2>2. CASE s = NoStation
    BY <1>3, <1>12, <2>2 DEF FindStation
  <2> QED
    BY <2>1, <2>2
<1>13. CASE LeaveTable(t) \/ FillListing(t) \/ ReadStation(t) \/ PushHandler(t)
  BY <1>3, <1>13 DEF LeaveTable, FillListing, ReadStation, PushHandler
<1> QED
  BY <1>4, <1>5, <1>6, <1>7, <1>8, <1>9, <1>10, <1>11, <1>12, <1>13 DEF Steps

LEMMA RInvariance == Spec => []RInv
<1>1. IInv /\ ReplyInv /\ [Next]_vars => ReplyInv'
  <2> SUFFICES ASSUME IInv, ReplyInv, [Next]_vars
               PROVE  ReplyInv'
    OBVIOUS
  <2>1. CASE UNCHANGED vars
    BY <2>1 DEF vars, ReplyInv, ReplyOK
  <2>2. ASSUME NEW t \in Threads, Torn(t)
        PROVE  ReplyInv'
    BY <2>2 DEF Torn, ReplyInv, ReplyOK
  <2> QED
    BY <2>1, <2>2, ReplyCalls, ReplySteps DEF Next, IInv
<1> QED
  BY <1>1, ReplyInit, Invariance, PTL DEF Spec, RInv

-----------------------------------------------------------------------------
(* What a step of t looks like to the callers of the table.                *)

Frame(t) == \A u \in Threads \ {t} :
  pc'[u] = pc[u] /\ call'[u] = call[u] /\ reply'[u] = reply[u]

LEMMA Requests ==
  ASSUME NEW t
  PROVE  /\ call[t].op = "insert" => Request(t) = [op |-> "insert", stn |-> call[t].stn]
         /\ call[t].op = "remove" =>
              Request(t) = [op |-> "remove", via |-> call[t].via, key |-> call[t].key]
         /\ call[t].op \notin {"insert", "remove"} => Request(t) = NoRequest
  BY Zenon DEF Request

LEMMA RequestsNext ==
  ASSUME NEW t
  PROVE  /\ call'[t].op = "insert" => Request(t)' = [op |-> "insert", stn |-> call'[t].stn]
         /\ call'[t].op = "remove" =>
              Request(t)' = [op |-> "remove", via |-> call'[t].via, key |-> call'[t].key]
         /\ call'[t].op \notin {"insert", "remove"} => Request(t)' = NoRequest
  BY Zenon DEF Request, NoRequest

LEMMA OthersSeen ==
  ASSUME NEW t, Frame(t), NEW u \in Threads \ {t}
  PROVE  Request(u)' = Request(u) /\ Decided(u)' = Decided(u) /\ Answer(u)' = Answer(u)
<1>1. pc'[u] = pc[u] /\ call'[u] = call[u] /\ reply'[u] = reply[u]
  BY DEF Frame
<1>2. Request(u)' = Request(u)
  BY <1>1, Requests, RequestsNext
<1>3. Decided(u)' = Decided(u)
  BY <1>1 DEF Decided, Pending, EditsHostnameAt
<1>4. Answer(u)' = Answer(u)
  BY <1>1, <1>3 DEF Answer
<1> QED
  BY <1>2, <1>3, <1>4

LEMMA Unseen ==
  ASSUME NEW t \in Threads, Frame(t),
         StationsIn("hostname")' = StationsIn("hostname"), Request(t)' = Request(t),
         Decided(t)' = Decided(t), Answer(t)' = Answer(t)
  PROVE  UNCHANGED Table!vars
<1>1. \A u \in Threads : /\ Request(u)' = Request(u) /\ Decided(u)' = Decided(u)
                         /\ Answer(u)' = Answer(u)
  BY OthersSeen
<1> QED
  BY <1>1 DEF Table!vars

LEMMA Invoked ==
  ASSUME NEW t \in Threads, Frame(t), NEW r \in Table!Inserts \cup Table!Removals,
         StationsIn("hostname")' = StationsIn("hostname"),
         Request(t) = NoRequest, Request(t)' = r,
         Decided(t)' = Decided(t), Answer(t)' = Answer(t)
  PROVE  Table!Next
<1>1. \A u \in Threads : Decided(u)' = Decided(u) /\ Answer(u)' = Answer(u)
  BY OthersSeen
<1>2. \A u \in Threads : Request(u)' = IF u = t THEN r ELSE Request(u)
  BY OthersSeen
<1>3. Table!Invoke(t, r)
  BY <1>1, <1>2 DEF Table!Invoke
<1> QED
  BY <1>3 DEF Table!Next

LEMMA DecidedNow ==
  ASSUME NEW t \in Threads, Frame(t), NEW new, StationsIn("hostname")' = new,
         Request(t) # NoRequest, Request(t)' = Request(t), ~Decided(t), Decided(t)',
         Answer(t)' = (new # StationsIn("hostname"))
  PROVE  Table!Decide(t, new)
<1>1. \A u \in Threads : Request(u)' = Request(u)
  BY OthersSeen
<1>2. \A u \in Threads : Decided(u)' = IF u = t THEN TRUE ELSE Decided(u)
  BY OthersSeen
<1>3. \A u \in Threads : Answer(u)' = IF u = t THEN new # StationsIn("hostname") ELSE Answer(u)
  BY OthersSeen
<1> QED
  BY <1>1, <1>2, <1>3 DEF Table!Decide

LEMMA Responded ==
  ASSUME NEW t \in Threads, Frame(t), StationsIn("hostname")' = StationsIn("hostname"),
         Decided(t), Request(t)' = NoRequest, Decided(t)' = FALSE, Answer(t)' = FALSE
  PROVE  Table!Next
<1>1. \A u \in Threads : Request(u)' = IF u = t THEN NoRequest ELSE Request(u)
  BY OthersSeen
<1>2. \A u \in Threads : Decided(u)' = IF u = t THEN FALSE ELSE Decided(u)
  BY OthersSeen
<1>3. \A u \in Threads : Answer(u)' = IF u = t THEN FALSE ELSE Answer(u)
  BY OthersSeen
<1>4. Table!Respond(t)
  BY <1>1, <1>2, <1>3 DEF Table!Respond
<1> QED
  BY <1>4 DEF Table!Next

-----------------------------------------------------------------------------
(* The stations of hostname_index.                                         *)

LEMMA Placed ==
  ASSUME TypeOK, WellPlaced
  PROVE  \A x : x \in StationsIn("hostname") <=> x \in Stations /\ Has("hostname", x)
<1>1. \A k \in Keys : index["hostname"][k] \in Stations \cup {NoStation}
  BY DEF TypeOK, Indices
<1> QED
  BY <1>1, ConstantsAssumption DEF StationsIn, WellPlaced, Has, Indices

LEMMA OtherIndex ==
  ASSUME TypeOK, NEW ix \in Indices \ {"hostname"}, NEW k \in Keys, NEW s,
         index' = [index EXCEPT ![ix][k] = s]
  PROVE  StationsIn("hostname")' = StationsIn("hostname")
<1>1. index'["hostname"] = index["hostname"]
  BY DEF TypeOK, Indices
<1> QED
  BY <1>1 DEF StationsIn

(* While t edits, nobody else does, and so no other station is underway.   *)
LEMMA OthersWhole ==
  ASSUME IInv, NEW t \in Threads, Editing(t), NEW x \in Stations,
         ~Underway(t, x)
  PROVE  Whole(x)
<1>1. \A u \in Threads \ {t} : ~Editing(u)
  BY DEF IInv, LockInv, InTable
<1>2. \A u \in Threads : ~Underway(u, x)
  BY <1>1 DEF Underway, Editing
<1> QED
  BY <1>2 DEF IInv, IndexInv

LEMMA EditedHostname ==
  ASSUME TypeInv, NEW t \in Threads, pc[t] \in {"edit2", "edit3"}
  PROVE  EditedIndex(t) = "hostname" <=> pc[t] = "edit3" /\ call[t].via # "hostname"
<1>1. call[t].via \in Indices
  BY DEF TypeInv, TypeOK, Calling
<1>2. EditedIndex(t) = EditOrder(call[t].via)[IF pc[t] = "edit2" THEN 2 ELSE 3]
  BY DEF EditedIndex
<1> QED
  BY <1>1, <1>2 DEF EditOrder, Indices

(* A step that changes no index, and neither begins, decides nor ends the  *)
(* call of t.                                                              *)
LEMMA UnseenSame ==
  ASSUME NEW t \in Threads, Frame(t), UNCHANGED <<call, reply>>,
         StationsIn("hostname")' = StationsIn("hostname"), Pending(t)' <=> Pending(t)
  PROVE  UNCHANGED Table!vars
<1>1. Request(t)' = Request(t)
  BY Requests, RequestsNext
<1>2. Decided(t)' = Decided(t) /\ Answer(t)' = Answer(t)
  BY DEF Decided, Answer
<1> QED
  BY <1>1, <1>2, Unseen

LEMMA UnseenOther ==
  ASSUME NEW t \in Threads, Frame(t), UNCHANGED index,
         call[t].op \notin {"insert", "remove"}, call'[t].op \notin {"insert", "remove"}
  PROVE  UNCHANGED Table!vars
<1>1. Request(t)' = Request(t)
  BY Requests, RequestsNext
<1>2. Decided(t)' = Decided(t) /\ Answer(t)' = Answer(t)
  BY DEF Decided, Answer
<1> QED
  BY <1>1, <1>2, Unseen DEF StationsIn

-----------------------------------------------------------------------------
(* The steps.                                                              *)

LEMMA CallsSeen ==
  ASSUME RInv, NEW t \in Threads, Calls(t)
  PROVE  Table!Next \/ UNCHANGED Table!vars
<1>1. TypeOK /\ pc[t] = "idle" /\ call[t] = NoCall /\ call[t].op = "none"
  BY DEF RInv, IInv, TypeInv, CallsOK, CallOK, Calls, CallInsert, CallRemove, CallGet, CallUpdate,
     CallWakeup, CallList, CallRegister, Start, At, NoCall, Call
<1>2. Request(t) = NoRequest /\ Decided(t) = FALSE /\ Answer(t) = FALSE
  BY <1>1, Requests DEF Decided, Answer
<1>3. ASSUME NEW c, NEW label, Start(t, c, label)
      PROVE  /\ Frame(t) /\ UNCHANGED index /\ StationsIn("hostname")' = StationsIn("hostname")
             /\ call'[t] = c /\ pc'[t] = label
  BY <1>1, <1>3 DEF Start, Goto, TypeOK, Frame, StationsIn
<1>4. CASE CallInsert(t)
  <2>1. PICK s \in unborn : Start(t, Call("insert", "hostname", NoKey, s, "AWAKEN"), "check")
    BY <1>4 DEF CallInsert
  <2>2. call'[t].op = "insert" /\ call'[t].stn = s /\ pc'[t] = "check"
    BY <1>3, <2>1 DEF Call
  <2>3. s \in Stations
    BY <1>1 DEF TypeOK
  <2>4. Request(t)' = [op |-> "insert", stn |-> s] /\ Request(t)' \in Table!Inserts
    BY <2>2, <2>3, RequestsNext DEF Table!Inserts
  <2>5. Decided(t)' = FALSE /\ Answer(t)' = FALSE
    BY <2>2 DEF Decided, Answer, Pending
  <2> QED
    BY <1>2, <1>3, <2>1, <2>4, <2>5, Invoked
<1>5. CASE CallRemove(t)
  <2>1. PICK ix \in Indices, k \in Keys : Start(t, Lookup("remove", ix, k), "claim")
    BY <1>5 DEF CallRemove
  <2>2. call'[t].op = "remove" /\ call'[t].via = ix /\ call'[t].key = k /\ pc'[t] = "claim"
    BY <1>3, <2>1 DEF Lookup, Call
  <2>3. /\ Request(t)' = [op |-> "remove", via |-> ix, key |-> k]
        /\ Request(t)' \in Table!Removals
    BY <2>2, RequestsNext DEF Table!Removals
  <2>4. Decided(t)' = FALSE /\ Answer(t)' = FALSE
    BY <2>2 DEF Decided, Answer, Pending
  <2> QED
    BY <1>2, <1>3, <2>1, <2>3, <2>4, Invoked
<1>6. CASE CallGet(t) \/ CallUpdate(t) \/ CallWakeup(t) \/ CallList(t) \/ CallRegister(t)
  <2>1. ASSUME NEW c, NEW label, Start(t, c, label), c.op \notin {"insert", "remove"}
        PROVE  UNCHANGED Table!vars
    BY <1>1, <1>3, <2>1, UnseenOther
  <2> QED
    BY <1>6, <2>1 DEF CallGet, CallUpdate, CallWakeup, CallList, CallRegister, Lookup, Call
<1> QED
  BY <1>4, <1>5, <1>6 DEF Calls

(* insert takes effect at its first edit.                                  *)
LEMMA InsertFirstSeen ==
  ASSUME RInv, NEW t \in Threads, InsertFirst(t)
  PROVE  Table!Next
<1> DEFINE s == call[t].stn
           table == StationsIn("hostname")
           new == IF \E x \in table : KeyOf[x]["hostname"] = KeyOf[s]["hostname"]
                    THEN table ELSE table \cup {s}
<1>1. /\ TypeOK /\ WellPlaced /\ s \in Stations /\ KeyOf[s]["hostname"] \in Keys
      /\ pc[t] = "edit1" /\ call[t].op = "insert" /\ reply[t] = FALSE /\ "hostname" \in Indices
  BY ConstantsAssumption
  DEF InsertFirst, At, RInv, IInv, TypeInv, CallsOK, CallOK, IndexInv, ReplyInv, ReplyOK, Indices
<1>2. Frame(t) /\ UNCHANGED call
  BY <1>1 DEF InsertFirst, Goto, Frame, TypeOK
<1>3. /\ Request(t) = [op |-> "insert", stn |-> s] /\ Request(t)' = Request(t)
      /\ Request(t) # NoRequest
  BY <1>1, <1>2, Requests, RequestsNext DEF NoRequest
<1>4. ~Decided(t)
  BY <1>1 DEF Decided, Pending
<1>5. \A x : x \in table <=> x \in Stations /\ Has("hostname", x)
  BY <1>1, Placed
<1>6. CASE Free("hostname", s)
  <2>1. index' = Put("hostname", s) /\ pc'[t] = "edit2" /\ reply'[t] = TRUE
    BY <1>1, <1>6 DEF InsertFirst, Goto, Free, TypeOK
  <2>2. \A k \in Keys : index'["hostname"][k] = IF k = KeyOf[s]["hostname"] THEN s ELSE index["hostname"][k]
    BY <1>1, <2>1 DEF Put, TypeOK
  <2>3. table' = table \cup {s}
    BY <1>1, <1>6, <2>2, ConstantsAssumption DEF StationsIn, Free
  <2>4. /\ s \notin table
        /\ ~\E x \in table : KeyOf[x]["hostname"] = KeyOf[s]["hostname"]
    BY <1>1, <1>5, <1>6, ConstantsAssumption DEF Has, Free
  <2>5. new = table \cup {s} /\ table' = new /\ new # table
    BY <2>3, <2>4
  <2>6. Decided(t)' /\ Answer(t)' = TRUE
    BY <1>1, <1>2, <2>1 DEF Decided, Answer, Pending
  <2>7. Table!Decide(t, new)
    BY <1>2, <1>3, <1>4, <2>5, <2>6, DecidedNow
  <2> QED
    BY <1>1, <1>3, <2>7 DEF Table!Next, Table!Insert
<1>7. CASE ~Free("hostname", s)
  <2>1. UNCHANGED index /\ pc'[t] = "unlock" /\ reply'[t] = FALSE
    BY <1>1, <1>7 DEF InsertFirst, Goto, Free, TypeOK
  <2> DEFINE x == index["hostname"][KeyOf[s]["hostname"]]
  <2>2. x \in table /\ KeyOf[x]["hostname"] = KeyOf[s]["hostname"]
    BY <1>1, <1>7 DEF StationsIn, Free, WellPlaced
  <2>3. new = table /\ table' = new
    BY <2>1, <2>2 DEF StationsIn
  <2>4. Decided(t)' /\ Answer(t)' = FALSE
    BY <1>1, <1>2, <2>1 DEF Decided, Answer, Pending
  <2>5. Table!Decide(t, new)
    BY <1>2, <1>3, <1>4, <2>3, <2>4, DecidedNow
  <2> QED
    BY <1>1, <1>3, <2>5 DEF Table!Next, Table!Insert
<1> QED
  BY <1>6, <1>7

(* A removal that starts from another index takes effect at its last edit, *)
(* or when it finds no station.                                            *)
LEMMA RemoveFirstSeen ==
  ASSUME RInv, NEW t \in Threads, RemoveFirst(t)
  PROVE  Table!Next \/ UNCHANGED Table!vars
<1> DEFINE via == call[t].via
           key == call[t].key
           s == index[via][key]
           table == StationsIn("hostname")
           new == {x \in table : KeyOf[x][via] # key}
<1>1. /\ IInv /\ TypeOK /\ WellPlaced /\ via \in Indices /\ key \in Keys
      /\ pc[t] = "edit1" /\ call[t].op = "remove" /\ reply[t] = FALSE /\ Editing(t)
  BY DEF RemoveFirst, At, RInv, IInv, TypeInv, TypeOK, Calling, CallsOK, CallOK, IndexInv, ReplyInv,
     ReplyOK, Editing
<1>2. \A x : x \in table <=> x \in Stations /\ Has("hostname", x)
  BY <1>1, Placed
<1>3. /\ Request(t) = [op |-> "remove", via |-> via, key |-> key] /\ Request(t) # NoRequest
      /\ Decided(t) = FALSE /\ Answer(t) = FALSE
  BY <1>1, Requests DEF NoRequest, Decided, Answer, Pending
<1>4. CASE s = NoStation
  <2>1. Frame(t) /\ UNCHANGED <<index, call, reply>> /\ pc'[t] = "unlock"
    BY <1>1, <1>4 DEF RemoveFirst, Goto, Frame, TypeOK
  <2>2. ASSUME NEW x \in table
        PROVE  KeyOf[x][via] # key
    <3>1. x \in Stations /\ Whole(x) /\ Has("hostname", x) /\ "hostname" \in Indices
      BY <1>1, <1>2, OthersWhole DEF Underway, Indices
    <3>2. Has(via, x)
      BY <1>1, <3>1 DEF Whole
    <3> QED
      BY <1>4, <3>1, <3>2, ConstantsAssumption DEF Has
  <2>3. new = table /\ table' = new
    BY <2>1, <2>2 DEF StationsIn
  <2>4. Request(t)' = Request(t) /\ Decided(t)' /\ Answer(t)' = FALSE
    BY <1>1, <1>3, <2>1, RequestsNext DEF Decided, Answer, Pending, EditsHostnameAt
  <2>5. Table!Decide(t, new)
    BY <1>3, <2>1, <2>3, <2>4, DecidedNow
  <2> QED
    BY <1>1, <1>3, <2>5 DEF Table!Next, Table!Remove
<1>5. CASE s # NoStation
  <2>1. /\ index' = Drop(via, key) /\ pc'[t] = "edit2" /\ reply'[t] = TRUE
        /\ call'[t].op = "remove" /\ call'[t].via = via /\ call'[t].key = key
        /\ \A u \in Threads \ {t} : call'[u] = call[u]
    <3>1. index' = Drop(via, key) /\ call' = [call EXCEPT ![t].stn = s]
      BY <1>5 DEF RemoveFirst
    <3>2. pc'[t] = "edit2" /\ reply'[t] = TRUE
      BY <1>1, <1>5 DEF RemoveFirst, Goto, TypeOK
    <3> QED
      BY <1>1, <3>1, <3>2, Found
  <2>2. Frame(t)
    BY <1>1, <1>5, <2>1 DEF RemoveFirst, Goto, Frame, TypeOK
  <2>3. Request(t)' = Request(t)
    BY <1>3, <2>1, RequestsNext
  <2>4. CASE via = "hostname"
    <3>1. /\ s \in Stations /\ KeyOf[s]["hostname"] = key
          /\ \A k \in Keys : index'["hostname"][k] = IF k = key THEN NoStation ELSE index["hostname"][k]
      BY <1>1, <1>5, <2>1, <2>4 DEF Drop, TypeOK, WellPlaced
    <3>2. table' = new
      BY <1>1, <2>4, <3>1 DEF StationsIn, WellPlaced
    <3>3. s \in table \ new
      BY <1>1, <1>5, <2>4, <3>1 DEF StationsIn
    <3>4. Decided(t)' /\ Answer(t)' = TRUE
      BY <2>1, <2>4 DEF Decided, Answer, Pending, EditsHostnameAt
    <3>5. Table!Decide(t, new)
      BY <1>3, <2>2, <2>3, <3>2, <3>3, <3>4, DecidedNow
    <3> QED
      BY <1>1, <1>3, <3>5 DEF Table!Next, Table!Remove
  <2>5. CASE via # "hostname"
    <3>1. table' = table
      BY <1>1, <2>1, <2>5, OtherIndex DEF Drop
    <3>2. Decided(t)' = FALSE /\ Answer(t)' = FALSE
      BY <2>1, <2>5 DEF Decided, Answer, Pending, EditsHostnameAt
    <3> QED
      BY <1>3, <2>2, <2>3, <3>1, <3>2, Unseen
  <2> QED
    BY <2>4, <2>5
<1> QED
  BY <1>4, <1>5

(* The edits of the other indices are seen by nobody.                      *)
LEMMA InsertNextSeen ==
  ASSUME RInv, NEW t \in Threads, InsertNext(t)
  PROVE  UNCHANGED Table!vars
<1> DEFINE s == call[t].stn
           ix == EditedIndex(t)
<1>1. /\ TypeInv /\ TypeOK /\ pc[t] \in {"edit2", "edit3"} /\ call[t].op = "insert"
      /\ s \in Stations /\ call[t].via = "hostname"
  BY DEF InsertNext, At, RInv, IInv, TypeInv, CallsOK, CallOK
<1>2. ix \in Indices \ {"hostname"}
  <2>1. ix \in Indices
    BY <1>1, EditedIndexType DEF Editing
  <2> QED
    BY <1>1, <2>1, EditedHostname
<1>3. /\ Frame(t) /\ UNCHANGED <<call, reply>> /\ pc'[t] \in {"edit3", "dispatch"}
      /\ \/ UNCHANGED index
         \/ index' = Put(ix, s)
  BY <1>1 DEF InsertNext, Goto, Frame, TypeOK
<1> HIDE DEF ix
<1>4. StationsIn("hostname")' = StationsIn("hostname")
  <2>1. KeyOf[s][ix] \in Keys
    BY <1>1, <1>2, ConstantsAssumption
  <2>2. CASE index' = Put(ix, s)
    BY <1>1, <1>2, <2>1, <2>2, OtherIndex DEF Put
  <2> QED
    BY <1>3, <2>2 DEF StationsIn
<1>5. Pending(t)' <=> Pending(t)
  BY <1>1, <1>3 DEF Pending
<1> QED
  BY <1>3, <1>4, <1>5, UnseenSame

LEMMA RemoveNextSeen ==
  ASSUME RInv, NEW t \in Threads, RemoveNext(t)
  PROVE  Table!Next \/ UNCHANGED Table!vars
<1> DEFINE s == call[t].stn
           via == call[t].via
           key == call[t].key
           ix == EditedIndex(t)
           table == StationsIn("hostname")
           new == {x \in table : KeyOf[x][via] # key}
<1>1. /\ IInv /\ TypeInv /\ TypeOK /\ WellPlaced /\ pc[t] \in {"edit2", "edit3"}
      /\ call[t].op = "remove" /\ Editing(t)
      /\ s \in Stations /\ via \in Indices /\ key \in Keys
      /\ reply[t] = TRUE /\ KeyOf[s][via] = key /\ RemovalInv(t)
  BY DEF RemoveNext, At, RInv, IInv, TypeInv, TypeOK, Calling, CallsOK, CallOK, IndexInv, ReplyInv,
     ReplyOK, Editing
<1>2. /\ Frame(t) /\ UNCHANGED <<call, reply>> /\ index' = Drop(ix, KeyOf[s][ix])
      /\ pc'[t] = IF pc[t] = "edit2" THEN "edit3" ELSE "sclaim"
  BY <1>1 DEF RemoveNext, Goto, Frame, TypeOK
<1>3. /\ ix \in Indices
      /\ ix = "hostname" <=> (pc[t] = "edit3" /\ via # "hostname")
  <2>1. ix \in Indices
    BY <1>1, EditedIndexType
  <2> QED
    BY <1>1, <2>1, EditedHostname
<1>4. /\ ix \notin Visited(t) /\ via \in Visited(t)
  <2>1. ix \notin Visited(t)
    BY <1>1, VisitNext
  <2>2. EditOrder(via)[1] \in Visited(t)
    <3>1. CASE pc[t] = "edit2"
      BY <3>1 DEF Visited
    <3>2. CASE pc[t] = "edit3"
      BY <3>2 DEF Visited
    <3> QED
      BY <1>1, <3>1, <3>2
  <2> QED
    BY <1>1, <2>1, <2>2, EditOrders
<1>5. /\ Request(t) = [op |-> "remove", via |-> via, key |-> key] /\ Request(t) # NoRequest
      /\ Request(t)' = Request(t)
  BY <1>1, <1>2, Requests, RequestsNext DEF NoRequest
<1> HIDE DEF ix
<1>6. CASE ix # "hostname"
  <2>1. StationsIn("hostname")' = StationsIn("hostname")
    BY <1>1, <1>2, <1>3, <1>6, OtherIndex, ConstantsAssumption DEF Drop
  <2>2. Pending(t)' <=> Pending(t)
    BY <1>1, <1>2, <1>3, <1>6 DEF Pending, EditsHostnameAt
  <2> QED
    BY <1>2, <2>1, <2>2, UnseenSame
<1>7. CASE ix = "hostname"
  <2>1. \A x : x \in table <=> x \in Stations /\ Has("hostname", x)
    BY <1>1, Placed
  <2>2. s \in table /\ index[via][key] = NoStation
    BY <1>1, <1>3, <1>4, <1>7, <2>1 DEF RemovalInv, Has, Free
  <2>3. ASSUME NEW x \in table \ {s}
        PROVE  KeyOf[x][via] # key
    <3>1. x \in Stations /\ Has("hostname", x) /\ ~Underway(t, x)
      BY <2>1 DEF Underway
    <3>2. Has(via, x)
      BY <1>1, <1>3, <1>7, <3>1, OthersWhole DEF Whole
    <3> QED
      BY <2>2, <3>1, <3>2, ConstantsAssumption DEF Has
  <2>4. new = table \ {s}
    BY <1>1, <2>3
  <2>5. \A k \in Keys : index'["hostname"][k] =
          IF k = KeyOf[s]["hostname"] THEN NoStation ELSE index["hostname"][k]
    BY <1>1, <1>2, <1>3, <1>7, ConstantsAssumption DEF Drop, TypeOK
  <2>6. table' = table \ {s}
    <3>1. \A k \in Keys : index["hostname"][k] = s <=> k = KeyOf[s]["hostname"]
      BY <1>1, <1>3, <1>7, <2>1, <2>2, ConstantsAssumption DEF WellPlaced, Has
    <3> QED
      BY <2>5, <3>1 DEF StationsIn
  <2>7. ~Decided(t) /\ Decided(t)' /\ Answer(t)' = TRUE
    BY <1>1, <1>2, <1>3, <1>7 DEF Decided, Answer, Pending, EditsHostnameAt
  <2>8. Table!Decide(t, new)
    BY <1>2, <1>5, <2>2, <2>4, <2>6, <2>7, DecidedNow
  <2> QED
    BY <1>1, <1>5, <2>8 DEF Table!Next, Table!Remove
<1> QED
  BY <1>6, <1>7

LEMMA StepsSeen ==
  ASSUME RInv, NEW t \in Threads, Steps(t)
  PROVE  Table!Next \/ UNCHANGED Table!vars
<1> USE ConstantsAssumption
<1>1. /\ TypeInv /\ TypeOK /\ CallOK(t) /\ StatusInv
      /\ call[t].op \in {"insert", "remove"} => reply[t] \in BOOLEAN
  BY DEF RInv, IInv, TypeInv, CallsOK, ReplyInv, ReplyOK
<1>2. CASE CheckStatus(t) \/ ClaimTable(t) \/ ClaimStatus(t) \/ EnterLock(t)
  <2>1. EnterLock(t) => pc[t] = "enter"
    BY <1>1 DEF EnterLock, At, MayEnter, StatusInv, CallOK
  <2>2. pc[t] = "check" => status[call[t].stn] # "DISCONNECTED"
    BY <1>1 DEF CallOK, RInv, ReplyInv
  <2>3. /\ Frame(t) /\ UNCHANGED <<index, call, reply>>
        /\ \/ pc[t] = "check" /\ pc'[t] = "claim"
           \/ pc[t] = "claim" /\ pc'[t] = "enter"
           \/ pc[t] = "enter" /\ pc'[t] = "edit1"
           \/ pc[t] = "sclaim" /\ pc'[t] = "senter"
    BY <1>1, <1>2, <2>1, <2>2
    DEF CheckStatus, ClaimTable, ClaimStatus, EnterLock, At, Goto, Frame, TypeOK
  <2>4. Pending(t)' <=> Pending(t)
    BY <2>3 DEF Pending, EditsHostnameAt
  <2> QED
    BY <2>3, <2>4, UnseenSame DEF StationsIn
<1>3. CASE LeaveTable(t)
  <2>1. /\ pc[t] = "unlock" /\ call[t].op \in {"insert", "remove"} /\ UNCHANGED index
        /\ Frame(t) /\ call'[t] = NoCall
    BY <1>1, <1>3 DEF LeaveTable, At, CallOK, Return, Goto, Frame, TypeOK
  <2>2. Decided(t)
    BY <2>1 DEF Decided, Pending, EditsHostnameAt
  <2>3. call'[t].op = "none"
    BY <2>1 DEF NoCall, Call
  <2>4. Request(t)' = NoRequest /\ Decided(t)' = FALSE /\ Answer(t)' = FALSE
    BY <2>3, RequestsNext DEF Decided, Answer
  <2> QED
    BY <2>1, <2>2, <2>4, Responded DEF StationsIn
<1>4. CASE Dispatch(t)
  <2>1. /\ pc[t] = "dispatch" /\ call[t].op = "insert" /\ pc'[t] = "unlock"
        /\ Frame(t) /\ UNCHANGED <<index, call, reply>>
    BY <1>1, <1>4 DEF Dispatch, At, StatusInv, Goto, Frame, TypeOK
  <2>2. Pending(t)' <=> Pending(t)
    BY <2>1 DEF Pending
  <2> QED
    BY <2>1, <2>2, UnseenSame DEF StationsIn
<1>5. CASE Guard(t) \/ SizeListing(t)
  <2>1. /\ call[t].op \notin {"insert", "remove"} /\ UNCHANGED <<index, call, reply>> /\ Frame(t)
    BY <1>1, <1>5 DEF Guard, SizeListing, At, CallOK, Goto, Frame, TypeOK
  <2> QED
    BY <2>1, UnseenOther
<1>6. CASE FillListing(t) \/ ReadStation(t) \/ PushHandler(t)
  <2>1. /\ call[t].op \notin {"insert", "remove"} /\ UNCHANGED index /\ Frame(t)
        /\ call'[t] = NoCall
    BY <1>1, <1>6
    DEF FillListing, ReadStation, PushHandler, At, CallOK, Return, Goto, Frame, TypeOK
  <2> QED
    BY <2>1, UnseenOther DEF NoCall, Call
<1>7. CASE FindStation(t)
  <2>1. CASE index[call[t].via][call[t].key] # NoStation
    <3>1. /\ call[t].op \notin {"insert", "remove"} /\ UNCHANGED <<index, reply>>
          /\ \A u \in Threads \ {t} : pc'[u] = pc[u]
      BY <1>1, <1>7, <2>1 DEF FindStation, Goto, TypeOK
    <3>2. call'[t].op = call[t].op /\ \A u \in Threads \ {t} : call'[u] = call[u]
      BY <1>1, <1>7, <2>1, Found DEF FindStation
    <3> QED
      BY <3>1, <3>2, UnseenOther DEF Frame
  <2>2. CASE index[call[t].via][call[t].key] = NoStation
    <3>1. /\ call[t].op \notin {"insert", "remove"} /\ UNCHANGED index /\ Frame(t)
          /\ call'[t] = NoCall
      BY <1>1, <1>7, <2>2 DEF FindStation, Return, Goto, Frame, TypeOK
    <3> QED
      BY <3>1, UnseenOther DEF NoCall, Call
  <2> QED
    BY <2>1, <2>2
<1> QED
  BY <1>2, <1>3, <1>4, <1>5, <1>6, <1>7, InsertFirstSeen, InsertNextSeen, RemoveFirstSeen,
     RemoveNextSeen DEF Steps

(* Whatever threads call insert and the three removals, what they see is   *)
(* the table that management.h describes: each call takes effect at one    *)
(* instant, and what it returns says which effect it had.                  *)
THEOREM Refinement == Spec => ImplementsTable
<1>1. Init => Table!Init
  <2> SUFFICES ASSUME Init
               PROVE  Table!Init
    OBVIOUS
  <2>1. StationsIn("hostname") = {}
    BY DEF Init, StationsIn, Indices
  <2>2. \A t \in Threads : call[t].op = "none"
    BY DEF Init, NoCall, Call
  <2>3. \A t \in Threads : /\ Request(t) = NoRequest
                           /\ Decided(t) = FALSE /\ Answer(t) = FALSE
    BY <2>2, Requests DEF Decided, Answer
  <2> QED
    BY <2>1, <2>3 DEF Table!Init
<1>2. RInv /\ [Next]_vars => [Table!Next]_(Table!vars)
  <2> SUFFICES ASSUME RInv, [Next]_vars
               PROVE  Table!Next \/ UNCHANGED Table!vars
    OBVIOUS
  <2>1. CASE UNCHANGED vars
    <3>1. \A t \in Threads : /\ Request(t)' = Request(t) /\ Decided(t)' = Decided(t)
                             /\ Answer(t)' = Answer(t)
      BY <2>1, Requests, RequestsNext DEF vars, Decided, Answer, Pending, EditsHostnameAt
    <3> QED
      BY <2>1, <3>1 DEF vars, Table!vars, StationsIn
  <2>2. ASSUME NEW t \in Threads, Torn(t)
        PROVE  UNCHANGED Table!vars
    <3>1. Frame(t) /\ UNCHANGED <<index, pc, call, reply>>
      BY <2>2 DEF Torn, Frame
    <3>2. Pending(t)' <=> Pending(t)
      BY <3>1 DEF Pending, EditsHostnameAt
    <3> QED
      BY <3>1, <3>2, UnseenSame DEF StationsIn
  <2> QED
    BY <2>1, <2>2, CallsSeen, StepsSeen DEF Next
<1> QED
  BY <1>1, <1>2, RInvariance, PTL DEF Spec, ImplementsTable, Table!Spec

=============================================================================
