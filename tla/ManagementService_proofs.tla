------------------------ MODULE ManagementService_proofs ------------------------
(***************************************************************************)
(* Theorems about the table of work stations, for any number of threads,   *)
(* stations and keys.                                                      *)
(***************************************************************************)
EXTENDS ManagementService, FiniteSetTheorems, TLAPS

-----------------------------------------------------------------------------
(* Types.  TypeOK is not inductive: a thread that is about to use the      *)
(* station or the key of its call must have one.                           *)

(* What a thread's place in the code says of the call it executes.         *)
CallOK(t) ==
  LET o == call[t].op IN
  /\ pc[t] = "idle" => call[t] = NoCall
  /\ pc[t] = "check" => o = "insert"
  /\ pc[t] \in {"claim", "enter", "edit1", "edit2", "edit3", "unlock"} =>
       o \in {"insert", "remove"}
  /\ pc[t] \in {"sclaim", "senter"} => o \in {"remove", "update", "wakeup"}
  /\ pc[t] = "dispatch" => o \in {"insert", "remove", "update", "wakeup"}
  /\ pc[t] = "guard" => o \in {"get", "update", "wakeup", "list"}
  /\ pc[t] = "size" => o = "list"
  /\ pc[t] = "read" => o \in {"get", "update", "wakeup", "list"}
  /\ pc[t] = "push" => o = "register"
  /\ o = "insert" => call[t].stn \in Stations /\ call[t].via = "hostname"
  /\ o \in {"remove", "get", "update", "wakeup"} => call[t].key \in Keys
  /\ pc[t] \in {"edit2", "edit3", "dispatch", "sclaim", "senter"} => call[t].stn \in Stations

CallsOK == \A t \in Threads : CallOK(t)

TypeInv == TypeOK /\ CallsOK

LEMMA EditedIndexType ==
  ASSUME NEW t \in Threads, TypeInv, Editing(t)
  PROVE  EditedIndex(t) \in Indices
  BY DEF TypeInv, TypeOK, Calling, Indices, Editing, EditedIndex, EditOrder

LEMMA TypeInit == Init => TypeInv
<1> SUFFICES ASSUME Init PROVE TypeInv
  OBVIOUS
<1>1. NoCall \in Calling
  BY DEF NoCall, Call, Calling, Ops, Indices, Statuses
<1>2. TypeOK
  BY <1>1 DEF Init, TypeOK, FreshLock, LockOf, Labels, Statuses, EmptyListing
<1>3. CallsOK
  BY DEF Init, CallsOK, CallOK, NoCall, Call
<1> QED
  BY <1>2, <1>3 DEF TypeInv

(* A step of t leaves the places and the calls of the others alone.        *)
LEMMA CallsFrame ==
  ASSUME CallsOK, NEW t \in Threads, CallOK(t)',
         \A u \in Threads \ {t} : pc'[u] = pc[u] /\ call'[u] = call[u]
  PROVE  CallsOK'
  BY DEF CallsOK, CallOK

LEMMA GotoType ==
  ASSUME TypeOK, NEW t \in Threads, NEW label \in Labels, Goto(t, label)
  PROVE  /\ pc' \in [Threads -> Labels]
         /\ pc'[t] = label
         /\ \A u \in Threads \ {t} : pc'[u] = pc[u]
  BY DEF TypeOK, Goto

Replies == BOOLEAN \cup Stations \cup {NoStation}

LEMMA ReturnType ==
  ASSUME TypeOK, NEW t \in Threads, NEW value \in Replies, Return(t, value)
  PROVE  /\ pc' \in [Threads -> Labels]
         /\ call' \in [Threads -> Calling]
         /\ reply' \in [Threads -> Replies]
         /\ CallOK(t)'
         /\ \A u \in Threads \ {t} : pc'[u] = pc[u] /\ call'[u] = call[u]
<1>1. NoCall \in Calling /\ NoCall.op = "none" /\ "idle" \in Labels
  BY DEF NoCall, Call, Calling, Ops, Indices, Statuses, Labels
<1>2. pc'[t] = "idle" /\ call'[t] = NoCall
  BY DEF TypeOK, Return, Goto
<1> QED
  BY <1>1, <1>2 DEF TypeOK, Return, Goto, Replies, CallOK

LEMMA StartType ==
  ASSUME TypeOK, NEW t \in Threads, NEW c \in Calling, NEW label \in Labels,
         Start(t, c, label), unborn' \subseteq Stations
  PROVE  /\ TypeOK'
         /\ pc'[t] = label /\ call'[t] = c
         /\ \A u \in Threads \ {t} : pc'[u] = pc[u] /\ call'[u] = call[u]
  BY DEF Start, Goto, TypeOK, EmptyListing

(* What a thread finds in an index becomes the station of its call.        *)
LEMMA Found ==
  ASSUME TypeOK, NEW t \in Threads, NEW s, call' = [call EXCEPT ![t].stn = s]
  PROVE  /\ call'[t].stn = s
         /\ call'[t].op = call[t].op /\ call'[t].via = call[t].via
         /\ call'[t].key = call[t].key
         /\ \A u \in Threads \ {t} : call'[u] = call[u]
  BY DEF TypeOK, Calling

LEMMA TypeCalls ==
  ASSUME TypeInv, NEW t \in Threads, Calls(t)
  PROVE  TypeInv'
<1>1. ASSUME NEW c \in Calling, NEW label \in Labels, Start(t, c, label),
             unborn' \subseteq Stations,
             pc'[t] = label /\ call'[t] = c => CallOK(t)'
      PROVE  TypeInv'
  BY <1>1, StartType, CallsFrame DEF TypeInv
<1>2. CASE CallInsert(t)
  <2>1. PICK s \in unborn : /\ unborn' = unborn \ {s}
                            /\ Start(t, Call("insert", "hostname", NoKey, s, "AWAKEN"), "check")
    BY <1>2 DEF CallInsert
  <2>2. Call("insert", "hostname", NoKey, s, "AWAKEN") \in Calling /\ "check" \in Labels
    BY DEF Call, Calling, Ops, Indices, Statuses, Labels, TypeInv, TypeOK
  <2> QED
    BY <1>1, <2>1, <2>2 DEF TypeInv, TypeOK, CallOK, Call
<1>3. CASE CallRemove(t)
  BY <1>1, <1>3 DEF CallRemove, Lookup, Call, Calling, Ops, Indices, Statuses, Labels,
     TypeInv, TypeOK, CallOK
<1>4. CASE CallGet(t)
  BY <1>1, <1>4 DEF CallGet, Lookup, Call, Calling, Ops, Indices, Statuses, Labels,
     TypeInv, TypeOK, CallOK
<1>5. CASE CallUpdate(t)
  BY <1>1, <1>5 DEF CallUpdate, Call, Calling, Ops, Indices, Labels,
     TypeInv, TypeOK, CallOK
<1>6. CASE CallWakeup(t)
  BY <1>1, <1>6 DEF CallWakeup, Lookup, Call, Calling, Ops, Indices, Statuses, Labels,
     TypeInv, TypeOK, CallOK
<1>7. CASE CallList(t)
  BY <1>1, <1>7 DEF CallList, Lookup, Call, Calling, Ops, Indices, Statuses, Labels,
     TypeInv, TypeOK, CallOK
<1>8. CASE CallRegister(t)
  BY <1>1, <1>8 DEF CallRegister, Lookup, Call, Calling, Ops, Indices, Statuses, Labels,
     TypeInv, TypeOK, CallOK
<1> QED
  BY <1>2, <1>3, <1>4, <1>5, <1>6, <1>7, <1>8 DEF Calls

LEMMA TypeSteps ==
  ASSUME TypeInv, NEW t \in Threads, Steps(t)
  PROVE  TypeInv'
<1> USE ConstantsAssumption
<1> DEFINE Others == \A u \in Threads \ {t} : pc'[u] = pc[u] /\ call'[u] = call[u]
<1>0. ASSUME TypeOK', CallOK(t)', Others
      PROVE  TypeInv'
  BY <1>0, CallsFrame DEF TypeInv
<1>1. CASE CheckStatus(t)
  <2>1. statusLock' \in [Stations -> LockOf(Threads)]
    BY <1>1 DEF CheckStatus, SharedGuard, LockOf, TypeInv, TypeOK
  <2>2. CASE status[call[t].stn] = "DISCONNECTED"
    BY <1>0, <1>1, <2>1, <2>2, ReturnType DEF CheckStatus, TypeInv, TypeOK, Replies
  <2>3. CASE status[call[t].stn] # "DISCONNECTED"
    <3>1. /\ pc' \in [Threads -> Labels] /\ pc'[t] = "claim"
          /\ \A u \in Threads \ {t} : pc'[u] = pc[u]
      BY <1>1, <2>3, GotoType DEF CheckStatus, TypeInv, Labels
    <3> QED
      BY <1>0, <1>1, <2>1, <2>3, <3>1 DEF CheckStatus, At, TypeInv, TypeOK, CallsOK, CallOK
  <2> QED
    BY <2>2, <2>3
<1>2. CASE ClaimTable(t)
  <2>1. /\ pc' \in [Threads -> Labels] /\ pc'[t] = "enter"
        /\ \A u \in Threads \ {t} : pc'[u] = pc[u]
    BY <1>2, GotoType DEF ClaimTable, TypeInv, Labels
  <2>2. TypeOK'
    BY <1>2, <2>1 DEF ClaimTable, TypeInv, TypeOK, LockOf, Claim
  <2>3. CallOK(t)'
    BY <1>2, <2>1 DEF ClaimTable, At, TypeInv, TypeOK, CallsOK, CallOK
  <2>4. Others
    BY <1>2, <2>1 DEF ClaimTable, TypeInv, TypeOK
  <2> QED
    BY <1>0, <2>2, <2>3, <2>4
<1>3. CASE ClaimStatus(t)
  <2>1. /\ pc' \in [Threads -> Labels] /\ pc'[t] = "senter"
        /\ \A u \in Threads \ {t} : pc'[u] = pc[u]
    BY <1>3, GotoType DEF ClaimStatus, TypeInv, Labels
  <2>2. TypeOK'
    BY <1>3, <2>1 DEF ClaimStatus, TypeInv, TypeOK, LockOf, Claim
  <2>3. CallOK(t)'
    BY <1>3, <2>1 DEF ClaimStatus, At, TypeInv, TypeOK, CallsOK, CallOK
  <2>4. Others
    BY <1>3, <2>1 DEF ClaimStatus, TypeInv, TypeOK
  <2> QED
    BY <1>0, <2>2, <2>3, <2>4
<1>4. CASE EnterLock(t)
  <2>1. CASE pc[t] = "enter"
    <3>1. /\ pc' \in [Threads -> Labels] /\ pc'[t] = "edit1"
          /\ \A u \in Threads \ {t} : pc'[u] = pc[u]
      BY <1>4, <2>1, GotoType DEF EnterLock, TypeInv, Labels
    <3>2. TypeOK'
      BY <1>4, <2>1, <3>1 DEF EnterLock, TypeInv, TypeOK, LockOf, Enter
    <3>3. CallOK(t)' /\ Others
      BY <1>4, <2>1, <3>1 DEF EnterLock, TypeInv, TypeOK, CallsOK, CallOK
    <3> QED
      BY <1>0, <3>2, <3>3
  <2>2. CASE pc[t] = "senter"
    <3>1. NewStatus(t) \in Statuses
      BY <2>2 DEF NewStatus, TypeInv, TypeOK, CallsOK, CallOK, Calling, Statuses
    <3>2. status' \in [Stations -> Statuses]
      BY <1>4, <2>2, <3>1 DEF EnterLock, TypeInv, TypeOK
    <3>3. statusLock' \in [Stations -> LockOf(Threads)]
      <4> DEFINE s == call[t].stn
      <4>1. s \in Stations /\ statusLock[s] \in LockOf(Threads)
        BY <2>2 DEF TypeInv, TypeOK, CallsOK, CallOK
      <4>2. Release(Enter(statusLock[s])) \in LockOf(Threads)
        BY <4>1 DEF LockOf, Enter, Release
      <4>3. statusLock' = [statusLock EXCEPT ![s] = Release(Enter(statusLock[s]))]
        BY <1>4, <2>2 DEF EnterLock
      <4> QED
        BY <4>1, <4>2, <4>3 DEF TypeInv, TypeOK
    <3>4. CASE call[t].op = "remove" \/ NewStatus(t) # status[call[t].stn]
      <4>1. /\ pc' \in [Threads -> Labels] /\ pc'[t] = "dispatch"
            /\ \A u \in Threads \ {t} : pc'[u] = pc[u]
        BY <1>4, <2>2, <3>4, GotoType DEF EnterLock, TypeInv, Labels
      <4> QED
        BY <1>0, <1>4, <2>2, <3>2, <3>3, <3>4, <4>1
        DEF EnterLock, TypeInv, TypeOK, CallsOK, CallOK
    <3>5. CASE ~(call[t].op = "remove" \/ NewStatus(t) # status[call[t].stn])
      BY <1>0, <1>4, <2>2, <3>2, <3>3, <3>5, ReturnType DEF EnterLock, TypeInv, TypeOK, Replies
    <3> QED
      BY <3>4, <3>5
  <2> QED
    BY <1>4, <2>1, <2>2 DEF EnterLock, At
<1>5. CASE LeaveTable(t)
  <2>1. dataLock' \in LockOf(Threads)
    BY <1>5 DEF LeaveTable, Release, LockOf, TypeInv, TypeOK
  <2> QED
    BY <1>0, <1>5, <2>1, ReturnType DEF LeaveTable, TypeInv, TypeOK, Replies
<1>6. CASE InsertFirst(t)
  <2>1. /\ pc' \in [Threads -> Labels] /\ pc'[t] \in {"edit2", "unlock"}
        /\ \A u \in Threads \ {t} : pc'[u] = pc[u]
    BY <1>6, GotoType DEF InsertFirst, TypeInv, Labels
  <2>2. call[t].stn \in Stations
    BY <1>6 DEF InsertFirst, TypeInv, CallsOK, CallOK
  <2>3. index' \in [Indices -> [Keys -> Stations \cup {NoStation}]]
    BY <1>6, <2>2 DEF InsertFirst, Put, Indices, TypeInv, TypeOK
  <2>4. TypeOK'
    BY <1>6, <2>1, <2>3 DEF InsertFirst, TypeInv, TypeOK
  <2>5. CallOK(t)' /\ Others
    BY <1>6, <2>1 DEF InsertFirst, At, TypeInv, TypeOK, CallsOK, CallOK
  <2> QED
    BY <1>0, <2>4, <2>5
<1>7. CASE InsertNext(t)
  <2>1. /\ pc' \in [Threads -> Labels] /\ pc'[t] \in {"edit3", "dispatch"}
        /\ \A u \in Threads \ {t} : pc'[u] = pc[u]
    BY <1>7, GotoType DEF InsertNext, TypeInv, Labels
  <2>2. EditedIndex(t) \in Indices /\ call[t].stn \in Stations
    BY <1>7, EditedIndexType DEF InsertNext, At, Editing, TypeInv, CallsOK, CallOK
  <2>3. index' \in [Indices -> [Keys -> Stations \cup {NoStation}]]
    BY <1>7, <2>2 DEF InsertNext, Put, TypeInv, TypeOK
  <2>4. TypeOK'
    BY <1>7, <2>1, <2>3 DEF InsertNext, TypeInv, TypeOK
  <2>5. CallOK(t)' /\ Others
    BY <1>7, <2>1, <2>2 DEF InsertNext, At, TypeInv, TypeOK, CallsOK, CallOK
  <2> QED
    BY <1>0, <2>4, <2>5
<1>8. CASE RemoveFirst(t)
  <2> DEFINE s == index[call[t].via][call[t].key]
  <2>1. /\ pc' \in [Threads -> Labels] /\ pc'[t] \in {"edit2", "unlock"}
        /\ \A u \in Threads \ {t} : pc'[u] = pc[u]
    BY <1>8, GotoType DEF RemoveFirst, TypeInv, Labels
  <2>2. /\ s \in Stations \cup {NoStation} /\ call[t] \in Calling
        /\ call[t].op = "remove" /\ call[t].via \in Indices /\ call[t].key \in Keys
    BY <1>8 DEF RemoveFirst, TypeInv, TypeOK, CallsOK, CallOK, Calling
  <2>3. CASE s # NoStation
    <3>1. [call[t] EXCEPT !.stn = s] \in Calling
      BY <2>2 DEF Calling
    <3>2. /\ index' = Drop(call[t].via, call[t].key)
          /\ call' = [call EXCEPT ![t] = [call[t] EXCEPT !.stn = s]]
          /\ reply' = [reply EXCEPT ![t] = TRUE] /\ pc'[t] = "edit2"
      BY <1>8, <2>3, GotoType DEF RemoveFirst, TypeInv, Labels
    <3>3. TypeOK'
      BY <1>8, <2>1, <2>2, <3>1, <3>2 DEF RemoveFirst, Drop, TypeInv, TypeOK
    <3>4. CallOK(t)' /\ Others
      BY <2>1, <2>2, <2>3, <3>1, <3>2 DEF TypeInv, TypeOK, CallsOK, CallOK, Calling
    <3> QED
      BY <1>0, <3>3, <3>4
  <2>4. CASE s = NoStation
    BY <1>0, <1>8, <2>1, <2>2, <2>4, GotoType
    DEF RemoveFirst, At, TypeInv, TypeOK, CallsOK, CallOK, Labels
  <2> QED
    BY <2>3, <2>4
<1>9. CASE RemoveNext(t)
  <2>1. /\ pc' \in [Threads -> Labels] /\ pc'[t] \in {"edit3", "sclaim"}
        /\ \A u \in Threads \ {t} : pc'[u] = pc[u]
    BY <1>9, GotoType DEF RemoveNext, TypeInv, Labels
  <2>2. EditedIndex(t) \in Indices /\ call[t].stn \in Stations
    BY <1>9, EditedIndexType DEF RemoveNext, At, Editing, TypeInv, CallsOK, CallOK
  <2>3. index' \in [Indices -> [Keys -> Stations \cup {NoStation}]]
    BY <1>9, <2>2 DEF RemoveNext, Drop, TypeInv, TypeOK
  <2>4. TypeOK'
    BY <1>9, <2>1, <2>3 DEF RemoveNext, TypeInv, TypeOK
  <2>5. CallOK(t)' /\ Others
    BY <1>9, <2>1, <2>2 DEF RemoveNext, At, TypeInv, TypeOK, CallsOK, CallOK
  <2> QED
    BY <1>0, <2>4, <2>5
<1>10. CASE Dispatch(t)
  <2>1. call[t].op \in {"insert", "remove", "update", "wakeup"} /\ call[t].stn \in Stations
    BY <1>10 DEF Dispatch, At, TypeInv, CallsOK, CallOK
  <2>2. notified' \subseteq Events
    BY <1>10, <2>1 DEF Dispatch, EventType, Events, TypeInv, TypeOK
  <2>3. CASE call[t].op \in {"insert", "remove"}
    <3>1. /\ pc' \in [Threads -> Labels] /\ pc'[t] = "unlock"
          /\ \A u \in Threads \ {t} : pc'[u] = pc[u]
      BY <1>10, <2>3, GotoType DEF Dispatch, TypeInv, Labels
    <3> QED
      BY <1>0, <1>10, <2>2, <2>3, <3>1 DEF Dispatch, TypeInv, TypeOK, CallsOK, CallOK
  <2>4. CASE call[t].op \notin {"insert", "remove"}
    BY <1>0, <1>10, <2>2, <2>4, ReturnType DEF Dispatch, TypeInv, TypeOK, Replies
  <2> QED
    BY <2>3, <2>4
<1>11. CASE Guard(t)
  <2>1. /\ pc' \in [Threads -> Labels]
        /\ pc'[t] = IF call[t].op = "list" THEN "size" ELSE "read"
        /\ \A u \in Threads \ {t} : pc'[u] = pc[u]
    BY <1>11, GotoType DEF Guard, TypeInv, Labels
  <2>2. TypeOK'
    BY <1>11, <2>1 DEF Guard, SharedGuard, LockOf, TypeInv, TypeOK
  <2>3. CallOK(t)' /\ Others
    BY <1>11, <2>1 DEF Guard, At, TypeInv, TypeOK, CallsOK, CallOK
  <2> QED
    BY <1>0, <2>2, <2>3
<1>12. CASE SizeListing(t)
  <2>1. /\ pc' \in [Threads -> Labels] /\ pc'[t] = "read"
        /\ \A u \in Threads \ {t} : pc'[u] = pc[u]
    BY <1>12, GotoType DEF SizeListing, TypeInv, Labels
  <2> DEFINE used == {k \in Keys : index["mac"][k] # NoStation}
  <2>2. Cardinality(used) \in Nat
    BY FS_Subset, FS_CardinalityType
  <2>3. listing' = [listing EXCEPT ![t].nulls = Cardinality(used)]
    BY <1>12 DEF SizeListing
  <2> HIDE DEF used
  <2>4. listing' \in [Threads -> [nulls : Nat, stns : SUBSET Stations]]
    BY <2>2, <2>3 DEF TypeInv, TypeOK
  <2>5. TypeOK'
    BY <1>12, <2>1, <2>4 DEF SizeListing, TypeInv, TypeOK
  <2>6. CallOK(t)' /\ Others
    BY <1>12, <2>1 DEF SizeListing, At, TypeInv, TypeOK, CallsOK, CallOK
  <2> QED
    BY <1>0, <2>5, <2>6
<1>13. CASE FillListing(t)
  <2>1. StationsIn("mac") \subseteq Stations
    BY DEF StationsIn, Indices, TypeInv, TypeOK
  <2>2. listing' \in [Threads -> [nulls : Nat, stns : SUBSET Stations]]
    BY <1>13, <2>1 DEF FillListing, TypeInv, TypeOK
  <2> QED
    BY <1>0, <1>13, <2>2, ReturnType DEF FillListing, TypeInv, TypeOK, Replies
<1>14. CASE ReadStation(t)
  <2>1. index[call[t].via][call[t].key] \in Replies
    BY <1>14 DEF ReadStation, TypeInv, TypeOK, CallsOK, CallOK, Calling, Replies
  <2> QED
    BY <1>0, <1>14, <2>1, ReturnType DEF ReadStation, TypeInv, TypeOK, Replies
<1>15. CASE FindStation(t)
  <2> DEFINE s == index[call[t].via][call[t].key]
  <2>1. /\ s \in Stations \cup {NoStation} /\ call[t] \in Calling
        /\ call[t].op \in {"update", "wakeup"} /\ call[t].key \in Keys
    BY <1>15 DEF FindStation, TypeInv, TypeOK, CallsOK, CallOK, Calling
  <2>2. CASE s # NoStation
    <3>1. [call[t] EXCEPT !.stn = s] \in Calling
      BY <2>1, <2>2 DEF Calling
    <3>2. /\ call' = [call EXCEPT ![t] = [call[t] EXCEPT !.stn = s]]
          /\ pc' \in [Threads -> Labels] /\ pc'[t] = "sclaim"
          /\ \A u \in Threads \ {t} : pc'[u] = pc[u]
          /\ UNCHANGED reply
      BY <1>15, <2>2, GotoType DEF FindStation, TypeInv, Labels
    <3>3. TypeOK'
      BY <1>15, <3>1, <3>2 DEF FindStation, TypeInv, TypeOK
    <3>4. CallOK(t)' /\ Others
      BY <2>1, <2>2, <3>1, <3>2 DEF TypeInv, TypeOK, CallsOK, CallOK, Calling
    <3> QED
      BY <1>0, <3>3, <3>4
  <2>3. CASE s = NoStation
    BY <1>0, <1>15, <2>3, ReturnType DEF FindStation, TypeInv, TypeOK, Replies
  <2> QED
    BY <2>2, <2>3
<1>16. CASE PushHandler(t)
  BY <1>0, <1>16, ReturnType DEF PushHandler, TypeInv, TypeOK, Replies
<1> QED
  BY <1>1, <1>2, <1>3, <1>4, <1>5, <1>6, <1>7, <1>8, <1>9, <1>10, <1>11, <1>12, <1>13, <1>14, <1>15, <1>16 DEF Steps

LEMMA TypeStep == TypeInv /\ [Next]_vars => TypeInv'
<1> SUFFICES ASSUME TypeInv, [Next]_vars PROVE TypeInv'
  OBVIOUS
<1>1. CASE UNCHANGED vars
  BY <1>1 DEF vars, TypeInv, TypeOK, CallsOK, CallOK
<1>2. ASSUME NEW t \in Threads, Torn(t) PROVE TypeInv'
  BY <1>2 DEF Torn, TypeInv, TypeOK, CallsOK, CallOK
<1> QED
  BY <1>1, <1>2, TypeCalls, TypeSteps DEF Next

(* Every variable keeps the type its declaration gives it.                 *)
THEOREM Typing == Spec => []TypeOK
<1>1. Spec => []TypeInv
  BY TypeInit, TypeStep, PTL DEF Spec
<1>2. TypeInv => TypeOK
  BY DEF TypeInv
<1> QED
  BY <1>1, <1>2, PTL

-----------------------------------------------------------------------------
(* The status locks.  No status lock is ever in its write phase, and that  *)
(* of every station which is in an index, or which a call has got hold of, *)
(* is skewed.  Hence nobody gets past it, and only an insert dispatches.   *)

StatusInv ==
  /\ \A s \in Stations : ~statusLock[s].writePhase
  /\ \A ix \in Indices, k \in Keys :
       index[ix][k] # NoStation => statusLock[index[ix][k]].skewed
  /\ \A t \in Threads :
       pc[t] # "check" /\ call[t].stn # NoStation => statusLock[call[t].stn].skewed
  /\ \A t \in Threads : pc[t] = "dispatch" => call[t].op = "insert"

(* A step of t that leaves the status locks and the indices alone and gets *)
(* hold of no station but one that is already in an index.                 *)
LEMMA StatusFrame ==
  ASSUME TypeInv, StatusInv, NEW t \in Threads, UNCHANGED <<index, statusLock>>,
         \A u \in Threads \ {t} : pc'[u] = pc[u] /\ call'[u] = call[u],
         pc'[t] = "dispatch" => call'[t].op = "insert",
         \/ call'[t].stn = NoStation
         \/ pc'[t] = "check"
         \/ call'[t] = call[t] /\ pc[t] # "check"
         \/ \E ix \in Indices, k \in Keys :
              index[ix][k] # NoStation /\ call'[t].stn = index[ix][k]
  PROVE  StatusInv'
  BY DEF StatusInv

LEMMA StatusCalls ==
  ASSUME TypeInv, StatusInv, NEW t \in Threads, Calls(t)
  PROVE  StatusInv'
<1>1. ASSUME NEW c, NEW label, Start(t, c, label), label # "dispatch",
             label = "check" \/ c.stn = NoStation
      PROVE  StatusInv'
  BY <1>1, StatusFrame DEF Start, Goto, TypeInv, TypeOK
<1> QED
  BY <1>1 DEF Calls, CallInsert, CallRemove, CallGet, CallUpdate, CallWakeup, CallList,
     CallRegister, Lookup, Call

LEMMA StatusSteps ==
  ASSUME TypeInv, StatusInv, NEW t \in Threads, Steps(t)
  PROVE  StatusInv'
<1> USE ConstantsAssumption
<1>0. NoCall.stn = NoStation
  BY DEF NoCall, Call
<1>1. CASE CheckStatus(t)
  <2> DEFINE s == call[t].stn
  <2>1. s \in Stations /\ call[t].op = "insert"
    BY <1>1 DEF CheckStatus, At, TypeInv, CallsOK, CallOK
  <2>2. /\ \A x \in Stations : statusLock'[x].writePhase = statusLock[x].writePhase
        /\ \A x \in Stations : statusLock[x].skewed => statusLock'[x].skewed
        /\ statusLock'[s].skewed
    BY <1>1, <2>1 DEF CheckStatus, SharedGuard, TypeInv, TypeOK, LockOf
  <2>3. /\ UNCHANGED index
        /\ \A u \in Threads \ {t} : pc'[u] = pc[u] /\ call'[u] = call[u]
        /\ pc'[t] # "dispatch" /\ call'[t] \in {call[t], NoCall}
    BY <1>1 DEF CheckStatus, Goto, Return, TypeInv, TypeOK
  <2>4. \A u \in Threads : call[u].stn \in Stations \cup {NoStation}
    BY DEF TypeInv, TypeOK, Calling
  <2>5. \A ix \in Indices, k \in Keys : index[ix][k] \in Stations \cup {NoStation}
    BY DEF TypeInv, TypeOK
  <2>6. ASSUME NEW u \in Threads, pc'[u] # "check", call'[u].stn # NoStation
        PROVE  statusLock'[call'[u].stn].skewed
    <3>1. CASE u = t
      BY <1>0, <2>1, <2>2, <2>3, <2>6, <3>1
    <3>2. CASE u # t
      BY <2>2, <2>3, <2>4, <2>6, <3>2 DEF StatusInv
    <3> QED
      BY <3>1, <3>2
  <2>7. /\ \A x \in Stations : ~statusLock'[x].writePhase
        /\ \A ix \in Indices, k \in Keys :
             index'[ix][k] # NoStation => statusLock'[index'[ix][k]].skewed
    BY <2>2, <2>3, <2>5 DEF StatusInv
  <2>8. \A u \in Threads : pc'[u] = "dispatch" => call'[u].op = "insert"
    BY <2>3 DEF StatusInv
  <2> QED
    BY <2>6, <2>7, <2>8 DEF StatusInv
<1>2. CASE ClaimTable(t)
  BY <1>2, StatusFrame DEF ClaimTable, At, Goto, TypeInv, TypeOK
<1>3. CASE ClaimStatus(t)
  <2> DEFINE s == call[t].stn
  <2>1. s \in Stations
    BY <1>3 DEF ClaimStatus, At, TypeInv, CallsOK, CallOK
  <2>2. \A x \in Stations : /\ statusLock'[x].writePhase = statusLock[x].writePhase
                            /\ statusLock'[x].skewed = statusLock[x].skewed
    BY <1>3, <2>1 DEF ClaimStatus, Claim, TypeInv, TypeOK, LockOf
  <2>3. /\ UNCHANGED <<index, call>>
        /\ \A u \in Threads \ {t} : pc'[u] = pc[u]
        /\ pc'[t] = "senter" /\ pc[t] = "sclaim"
    BY <1>3 DEF ClaimStatus, At, Goto, TypeInv, TypeOK
  <2>4. \A u \in Threads : call[u].stn \in Stations \cup {NoStation}
    BY DEF TypeInv, TypeOK, Calling
  <2>5. \A ix \in Indices, k \in Keys : index[ix][k] \in Stations \cup {NoStation}
    BY DEF TypeInv, TypeOK
  <2> QED
    BY <2>1, <2>2, <2>3, <2>4, <2>5 DEF StatusInv
<1>4. CASE EnterLock(t)
  <2>1. pc[t] # "senter"
    <3> SUFFICES ASSUME pc[t] = "senter" PROVE FALSE
      OBVIOUS
    <3>1. call[t].stn \in Stations
      BY DEF TypeInv, CallsOK, CallOK
    <3>2. MayEnter(statusLock[call[t].stn])
      BY <1>4 DEF EnterLock
    <3> QED
      BY <3>1, <3>2 DEF StatusInv, MayEnter
  <2> QED
    BY <1>4, <2>1, StatusFrame DEF EnterLock, At, Goto, TypeInv, TypeOK
<1>5. CASE LeaveTable(t)
  BY <1>0, <1>5, StatusFrame DEF LeaveTable, Return, Goto, TypeInv, TypeOK
<1>6. CASE InsertFirst(t)
  <2>1. call[t].stn \in Stations /\ statusLock[call[t].stn].skewed
    BY <1>6 DEF InsertFirst, At, TypeInv, CallsOK, CallOK, StatusInv
  <2>2. /\ UNCHANGED <<statusLock, call>>
        /\ \A u \in Threads \ {t} : pc'[u] = pc[u]
        /\ pc[t] = "edit1" /\ pc'[t] \in {"edit2", "unlock"}
    BY <1>6 DEF InsertFirst, At, Goto, TypeInv, TypeOK
  <2>3. \A ix \in Indices, k \in Keys : index'[ix][k] \in {index[ix][k], call[t].stn}
    <3>1. index' = Put("hostname", call[t].stn) \/ index' = index
      BY <1>6 DEF InsertFirst
    <3>2. index \in [Indices -> [Keys -> Stations \cup {NoStation}]]
      BY DEF TypeInv, TypeOK
    <3> QED
      BY <3>1, <3>2 DEF Put
  <2>4. \A ix \in Indices, k \in Keys :
          index'[ix][k] # NoStation => statusLock[index'[ix][k]].skewed
    BY <2>1, <2>3 DEF StatusInv
  <2>5. \A u \in Threads :
          /\ pc'[u] # "check" /\ call[u].stn # NoStation => statusLock[call[u].stn].skewed
          /\ pc'[u] = "dispatch" => call[u].op = "insert"
    BY <2>1, <2>2 DEF StatusInv
  <2> QED
    BY <2>2, <2>4, <2>5, Zenon DEF StatusInv
<1>7. CASE InsertNext(t)
  <2>1. /\ call[t].stn \in Stations /\ statusLock[call[t].stn].skewed
        /\ call[t].op = "insert"
    BY <1>7 DEF InsertNext, At, TypeInv, CallsOK, CallOK, StatusInv
  <2>2. /\ UNCHANGED <<statusLock, call>>
        /\ \A u \in Threads \ {t} : pc'[u] = pc[u]
        /\ pc[t] # "check"
    BY <1>7 DEF InsertNext, At, Goto, TypeInv, TypeOK
  <2>3. \A ix \in Indices, k \in Keys : index'[ix][k] \in {index[ix][k], call[t].stn}
    BY <1>7 DEF InsertNext, Put, TypeInv, TypeOK
  <2> QED
    BY <2>1, <2>2, <2>3 DEF StatusInv
<1>8. CASE RemoveFirst(t)
  <2> DEFINE s == index[call[t].via][call[t].key]
  <2>1. call[t].via \in Indices /\ call[t].key \in Keys
    BY <1>8 DEF RemoveFirst, TypeInv, TypeOK, CallsOK, CallOK, Calling
  <2>2. /\ UNCHANGED statusLock
        /\ \A u \in Threads \ {t} : pc'[u] = pc[u] /\ call'[u] = call[u]
        /\ pc[t] = "edit1" /\ pc'[t] \in {"edit2", "unlock"}
        /\ call'[t] = call[t] \/ (s # NoStation /\ call'[t].stn = s)
    <3>1. CASE s # NoStation
      <4>1. call' = [call EXCEPT ![t].stn = s] /\ UNCHANGED statusLock
        BY <1>8, <3>1 DEF RemoveFirst
      <4>2. \A u \in Threads \ {t} : pc'[u] = pc[u]
        BY <1>8, <3>1 DEF RemoveFirst, Goto, TypeInv, TypeOK
      <4>3. pc[t] = "edit1" /\ pc'[t] = "edit2"
        BY <1>8, <3>1 DEF RemoveFirst, At, Goto, TypeInv, TypeOK
      <4> QED
        BY <3>1, <4>1, <4>2, <4>3, Found DEF TypeInv
    <3>2. CASE s = NoStation
      BY <1>8, <3>2 DEF RemoveFirst, At, Goto, TypeInv, TypeOK
    <3> QED
      BY <3>1, <3>2
  <2>3. \A ix \in Indices, k \in Keys : index'[ix][k] \in {index[ix][k], NoStation}
    <3>1. CASE index' = index
      BY <3>1
    <3>2. CASE index' = Drop(call[t].via, call[t].key)
      BY <2>1, <3>2 DEF Drop, TypeInv, TypeOK
    <3> QED
      BY <1>8, <3>1, <3>2 DEF RemoveFirst
  <2> QED
    BY <2>1, <2>2, <2>3 DEF StatusInv
<1>9. CASE RemoveNext(t)
  <2>1. /\ UNCHANGED <<statusLock, call>>
        /\ \A u \in Threads \ {t} : pc'[u] = pc[u]
        /\ pc[t] # "check" /\ pc'[t] # "dispatch"
    BY <1>9 DEF RemoveNext, At, Goto, TypeInv, TypeOK
  <2>2. \A ix \in Indices, k \in Keys : index'[ix][k] \in {index[ix][k], NoStation}
    BY <1>9 DEF RemoveNext, Drop, TypeInv, TypeOK
  <2> QED
    BY <2>1, <2>2 DEF StatusInv
<1>10. CASE Dispatch(t)
  BY <1>0, <1>10, StatusFrame DEF Dispatch, At, Return, Goto, TypeInv, TypeOK
<1>11. CASE Guard(t)
  BY <1>11, StatusFrame DEF Guard, At, Goto, TypeInv, TypeOK
<1>12. CASE SizeListing(t)
  BY <1>12, StatusFrame DEF SizeListing, At, Goto, TypeInv, TypeOK
<1>13. CASE FillListing(t)
  BY <1>0, <1>13, StatusFrame DEF FillListing, Return, Goto, TypeInv, TypeOK
<1>14. CASE ReadStation(t)
  BY <1>0, <1>14, StatusFrame DEF ReadStation, Return, Goto, TypeInv, TypeOK
<1>15. CASE FindStation(t)
  <2> DEFINE s == index[call[t].via][call[t].key]
  <2>1. call[t].via \in Indices /\ call[t].key \in Keys
    BY <1>15 DEF FindStation, TypeInv, TypeOK, CallsOK, CallOK, Calling
  <2>2. /\ \A u \in Threads \ {t} : pc'[u] = pc[u] /\ call'[u] = call[u]
        /\ pc'[t] # "dispatch" /\ UNCHANGED <<index, statusLock>>
        /\ call'[t] = NoCall \/ (s # NoStation /\ call'[t].stn = s)
    <3>1. CASE s # NoStation
      BY <1>15, <3>1, Found DEF FindStation, Goto, TypeInv, TypeOK
    <3>2. CASE s = NoStation
      BY <1>15, <3>2 DEF FindStation, Goto, Return, TypeInv, TypeOK
    <3> QED
      BY <3>1, <3>2
  <2> QED
    BY <1>0, <2>1, <2>2, StatusFrame
<1>16. CASE PushHandler(t)
  BY <1>0, <1>16, StatusFrame DEF PushHandler, Return, Goto, TypeInv, TypeOK
<1> QED
  BY <1>1, <1>2, <1>3, <1>4, <1>5, <1>6, <1>7, <1>8, <1>9, <1>10, <1>11, <1>12, <1>13, <1>14, <1>15, <1>16 DEF Steps

LEMMA StatusStep == TypeInv /\ StatusInv /\ [Next]_vars => StatusInv'
<1> SUFFICES ASSUME TypeInv, StatusInv, [Next]_vars PROVE StatusInv'
  OBVIOUS
<1>1. CASE UNCHANGED vars
  BY <1>1 DEF vars, StatusInv
<1>2. ASSUME NEW t \in Threads, Torn(t) PROVE StatusInv'
  BY <1>2 DEF Torn, StatusInv
<1> QED
  BY <1>1, <1>2, StatusCalls, StatusSteps DEF Next

-----------------------------------------------------------------------------
(* The table lock.  It belongs to the one thread that is inside it, and    *)
(* stays in its write phase until that thread leaves.                      *)

LockInv ==
  /\ \A t \in Threads : pc[t] = "enter" \/ InTable(t) => dataLock.owner = t
  /\ \A t \in Threads : InTable(t) => dataLock.writePhase

(* A step of t that neither enters nor leaves the lock.                    *)
LEMMA LockFrame ==
  ASSUME LockInv, NEW t \in Threads,
         dataLock'.owner = dataLock.owner, dataLock'.writePhase = dataLock.writePhase,
         \A u \in Threads \ {t} : pc'[u] = pc[u] /\ call'[u] = call[u],
         pc'[t] # "enter",
         InTable(t)' => InTable(t)
  PROVE  LockInv'
  BY DEF LockInv, InTable, Editing, Removing

LEMMA LockCalls ==
  ASSUME TypeInv, LockInv, NEW t \in Threads, Calls(t)
  PROVE  LockInv'
<1>1. ASSUME NEW c, NEW label \in {"check", "claim", "guard", "push"}, Start(t, c, label)
      PROVE  LockInv'
  BY <1>1, LockFrame DEF Start, Goto, TypeInv, TypeOK, InTable, Editing, Removing
<1> QED
  BY <1>1 DEF Calls, CallInsert, CallRemove, CallGet, CallUpdate, CallWakeup, CallList,
     CallRegister

LEMMA LockSteps ==
  ASSUME TypeInv, StatusInv, LockInv, NEW t \in Threads, Steps(t)
  PROVE  LockInv'
<1> USE ConstantsAssumption
<1> DEFINE Others == \A u \in Threads \ {t} : pc'[u] = pc[u] /\ call'[u] = call[u]
<1>a. ASSUME UNCHANGED dataLock, Others, pc'[t] # "enter", InTable(t)' => InTable(t)
      PROVE  LockInv'
  BY <1>a, LockFrame
<1>b. ASSUME dataLock.owner = t, NEW u \in Threads \ {t}
      PROVE  pc[u] # "enter" /\ ~InTable(u)
  BY <1>b DEF LockInv
<1>1. CASE CheckStatus(t)
  BY <1>a, <1>1 DEF CheckStatus, Goto, Return, TypeInv, TypeOK, InTable, Editing, Removing
<1>2. CASE ClaimTable(t)
  <2>1. \A u \in Threads : pc[u] # "enter" /\ ~InTable(u)
    BY <1>2 DEF ClaimTable, Claimable, LockInv
  <2>2. /\ dataLock'.owner = t /\ pc'[t] = "enter" /\ UNCHANGED call
        /\ \A u \in Threads \ {t} : pc'[u] = pc[u]
    BY <1>2 DEF ClaimTable, Claim, Goto, TypeInv, TypeOK, LockOf
  <2> QED
    BY <2>1, <2>2 DEF LockInv, InTable, Editing, Removing
<1>3. CASE ClaimStatus(t)
  BY <1>a, <1>3 DEF ClaimStatus, At, Goto, TypeInv, TypeOK, InTable, Editing, Removing
<1>4. CASE EnterLock(t)
  <2>1. pc[t] = "enter"
    BY <1>4 DEF EnterLock, At, MayEnter, StatusInv, TypeInv, CallsOK, CallOK
  <2>2. dataLock.owner = t
    BY <2>1 DEF LockInv
  <2>3. /\ dataLock'.owner = t /\ dataLock'.writePhase /\ pc'[t] = "edit1"
        /\ UNCHANGED call /\ \A u \in Threads \ {t} : pc'[u] = pc[u]
    BY <1>4, <2>1, <2>2 DEF EnterLock, Enter, Goto, TypeInv, TypeOK, LockOf
  <2> QED
    BY <1>b, <2>2, <2>3 DEF LockInv, InTable, Editing, Removing
<1>5. CASE LeaveTable(t)
  <2>1. dataLock.owner = t
    BY <1>5 DEF LeaveTable, At, LockInv, InTable
  <2>2. pc'[t] = "idle" /\ Others
    BY <1>5 DEF LeaveTable, Return, Goto, TypeInv, TypeOK
  <2> QED
    BY <1>b, <2>1, <2>2 DEF LockInv, InTable, Editing, Removing
<1>6. CASE InsertFirst(t)
  BY <1>a, <1>6 DEF InsertFirst, At, Goto, TypeInv, TypeOK, InTable, Editing, Removing
<1>7. CASE InsertNext(t)
  BY <1>a, <1>7 DEF InsertNext, At, Goto, TypeInv, TypeOK, InTable, Editing, Removing
<1>8. CASE RemoveFirst(t)
  <2>1. /\ pc[t] = "edit1" /\ pc'[t] \in {"edit2", "unlock"} /\ UNCHANGED dataLock
        /\ \A u \in Threads \ {t} : pc'[u] = pc[u]
    BY <1>8 DEF RemoveFirst, At, Goto, TypeInv, TypeOK
  <2>2. \A u \in Threads \ {t} : call'[u] = call[u]
    BY <1>8 DEF RemoveFirst, TypeInv, TypeOK
  <2> QED
    BY <1>a, <2>1, <2>2 DEF InTable, Editing, Removing
<1>9. CASE RemoveNext(t)
  BY <1>a, <1>9 DEF RemoveNext, At, Goto, TypeInv, TypeOK, InTable, Editing, Removing
<1>10. CASE Dispatch(t)
  BY <1>a, <1>10 DEF Dispatch, At, Return, Goto, TypeInv, TypeOK, StatusInv, InTable, Editing,
     Removing
<1>11. CASE Guard(t)
  <2>1. /\ dataLock'.owner = dataLock.owner /\ dataLock'.writePhase = dataLock.writePhase
        /\ Others /\ pc'[t] \in {"size", "read"}
    BY <1>11 DEF Guard, SharedGuard, Goto, TypeInv, TypeOK, LockOf
  <2> QED
    BY <2>1, LockFrame DEF InTable, Editing, Removing
<1>12. CASE SizeListing(t)
  BY <1>a, <1>12 DEF SizeListing, At, Goto, TypeInv, TypeOK, InTable, Editing, Removing
<1>13. CASE FillListing(t)
  BY <1>a, <1>13 DEF FillListing, Return, Goto, TypeInv, TypeOK, InTable, Editing, Removing
<1>14. CASE ReadStation(t)
  BY <1>a, <1>14 DEF ReadStation, Return, Goto, TypeInv, TypeOK, InTable, Editing, Removing
<1>15. CASE FindStation(t)
  <2>1. /\ Others /\ UNCHANGED dataLock
        /\ pc'[t] = "idle" \/ (pc'[t] = "sclaim" /\ call'[t].op = call[t].op)
    <3>1. CASE index[call[t].via][call[t].key] # NoStation
      BY <1>15, <3>1, Found DEF FindStation, Goto, TypeInv, TypeOK
    <3>2. CASE index[call[t].via][call[t].key] = NoStation
      BY <1>15, <3>2 DEF FindStation, Goto, Return, TypeInv, TypeOK
    <3> QED
      BY <3>1, <3>2
  <2> QED
    BY <1>a, <1>15, <2>1 DEF FindStation, InTable, Editing, Removing
<1>16. CASE PushHandler(t)
  BY <1>a, <1>16 DEF PushHandler, Return, Goto, TypeInv, TypeOK, InTable, Editing, Removing
<1> QED
  BY <1>1, <1>2, <1>3, <1>4, <1>5, <1>6, <1>7, <1>8, <1>9, <1>10, <1>11, <1>12, <1>13, <1>14, <1>15, <1>16 DEF Steps

LEMMA LockStep == TypeInv /\ StatusInv /\ LockInv /\ [Next]_vars => LockInv'
<1> SUFFICES ASSUME TypeInv, StatusInv, LockInv, [Next]_vars PROVE LockInv'
  OBVIOUS
<1>1. CASE UNCHANGED vars
  BY <1>1 DEF vars, LockInv, InTable, Editing, Removing
<1>2. ASSUME NEW t \in Threads, Torn(t) PROVE LockInv'
  BY <1>2 DEF Torn, LockInv, InTable, Editing, Removing
<1> QED
  BY <1>1, <1>2, LockCalls, LockSteps DEF Next

-----------------------------------------------------------------------------
(* The indices.  Between two operations each station is in all of them or  *)
(* in none; during one, the station under edit is in those (an insertion)  *)
(* or out of those (a removal) that have been visited.                     *)

Visited(t) ==
  CASE pc[t] = "edit2" -> {EditOrder(call[t].via)[1]}
    [] pc[t] = "edit3" -> {EditOrder(call[t].via)[1], EditOrder(call[t].via)[2]}
    [] pc[t] = "dispatch" -> Indices
    [] OTHER -> {}

Has(ix, s) == index[ix][KeyOf[s][ix]] = s
Free(ix, s) == index[ix][KeyOf[s][ix]] = NoStation

Underway(t, s) == pc[t] \in {"edit2", "edit3"} /\ call[t].stn = s

WellPlaced ==
  \A ix \in Indices, k \in Keys :
    index[ix][k] # NoStation => KeyOf[index[ix][k]][ix] = k

Whole(s) == \A ix, iy \in Indices : Has(ix, s) => Has(iy, s)

InsertionInv(t) ==
  pc[t] \in {"edit2", "edit3", "dispatch"} /\ call[t].op = "insert" =>
    \A ix \in Indices :
      IF ix \in Visited(t) THEN Has(ix, call[t].stn) ELSE Free(ix, call[t].stn)

RemovalInv(t) ==
  pc[t] \in {"edit2", "edit3"} /\ call[t].op = "remove" =>
    \A ix \in Indices :
      IF ix \in Visited(t) THEN Free(ix, call[t].stn) ELSE Has(ix, call[t].stn)

IndexInv ==
  /\ WellPlaced
  /\ \A s \in Stations : (\A t \in Threads : ~Underway(t, s)) => Whole(s)
  /\ \A t \in Threads : InsertionInv(t) /\ RemovalInv(t)

(* Each operation visits each index once, beginning with its own.          *)
LEMMA EditOrders ==
  ASSUME NEW ix \in Indices
  PROVE  /\ EditOrder(ix)[1] = ix
         /\ \A i \in 1..3 : EditOrder(ix)[i] \in Indices
         /\ \A i, j \in 1..3 : EditOrder(ix)[i] = EditOrder(ix)[j] => i = j
         /\ Indices = {EditOrder(ix)[1], EditOrder(ix)[2], EditOrder(ix)[3]}
  BY DEF Indices, EditOrder

LEMMA VisitNext ==
  ASSUME TypeInv, NEW t \in Threads, pc[t] \in {"edit2", "edit3"}
  PROVE  /\ EditedIndex(t) \in Indices \ Visited(t)
         /\ Visited(t) \subseteq Indices
         /\ pc[t] = "edit3" => Indices = Visited(t) \cup {EditedIndex(t)}
         /\ pc[t] = "edit2" /\ pc'[t] = "edit3" /\ call'[t].via = call[t].via =>
              Visited(t)' = Visited(t) \cup {EditedIndex(t)}
<1>1. call[t].via \in Indices
  BY DEF TypeInv, TypeOK, Calling
<1> DEFINE order == EditOrder(call[t].via)
<1>2. CASE pc[t] = "edit2"
  <2>1. EditedIndex(t) = order[2] /\ Visited(t) = {order[1]}
    BY <1>2 DEF EditedIndex, Visited
  <2>2. pc'[t] = "edit3" /\ call'[t].via = call[t].via => Visited(t)' = {order[1], order[2]}
    BY DEF Visited
  <2> QED
    BY <1>1, <1>2, <2>1, <2>2, EditOrders
<1>3. CASE pc[t] = "edit3"
  <2>1. EditedIndex(t) = order[3] /\ Visited(t) = {order[1], order[2]}
    BY <1>3 DEF EditedIndex, Visited
  <2> QED
    BY <1>1, <1>3, <2>1, EditOrders
<1> QED
  BY <1>2, <1>3

(* Entering s into an index where its place is free, and taking it out of  *)
(* one it is in, changes nothing for any other station or index.           *)
LEMMA PutOne ==
  ASSUME TypeOK, NEW s \in Stations, NEW ix \in Indices, Free(ix, s), WellPlaced,
         index' = Put(ix, s)
  PROVE  /\ WellPlaced' /\ Has(ix, s)'
         /\ \A x \in Stations \ {s}, iy \in Indices : Has(iy, x)' <=> Has(iy, x)
         /\ \A iy \in Indices \ {ix} : /\ Has(iy, s)' <=> Has(iy, s)
                                       /\ Free(iy, s)' <=> Free(iy, s)
<1>1. KeyOf[s][ix] \in Keys
  BY ConstantsAssumption
<1>2. \A iy \in Indices, k \in Keys :
        index'[iy][k] = IF iy = ix /\ k = KeyOf[s][ix] THEN s ELSE index[iy][k]
  BY <1>1 DEF Put, TypeOK
<1>3. \A x \in Stations, iy \in Indices : KeyOf[x][iy] \in Keys
  BY ConstantsAssumption
<1>4. WellPlaced'
  BY <1>1, <1>2 DEF WellPlaced
<1> QED
  BY <1>1, <1>2, <1>3, <1>4, ConstantsAssumption DEF Has, Free

LEMMA DropOne ==
  ASSUME TypeOK, NEW s \in Stations, NEW ix \in Indices, Has(ix, s), WellPlaced,
         index' = Drop(ix, KeyOf[s][ix])
  PROVE  /\ WellPlaced' /\ Free(ix, s)'
         /\ \A x \in Stations \ {s}, iy \in Indices : Has(iy, x)' <=> Has(iy, x)
         /\ \A iy \in Indices \ {ix} : /\ Has(iy, s)' <=> Has(iy, s)
                                       /\ Free(iy, s)' <=> Free(iy, s)
<1>1. KeyOf[s][ix] \in Keys
  BY ConstantsAssumption
<1>2. \A iy \in Indices, k \in Keys :
        index'[iy][k] = IF iy = ix /\ k = KeyOf[s][ix] THEN NoStation ELSE index[iy][k]
  BY <1>1 DEF Drop, TypeOK
<1>3. \A x \in Stations, iy \in Indices : KeyOf[x][iy] \in Keys
  BY ConstantsAssumption
<1>4. WellPlaced'
  BY <1>1, <1>2 DEF WellPlaced
<1> QED
  BY <1>1, <1>2, <1>3, <1>4, ConstantsAssumption DEF Has, Free

(* A station whose hostname is free has a free place in every index: what  *)
(* sits in one of its places would share its hostname.                     *)
LEMMA FreeHostname ==
  ASSUME TypeOK, NEW s \in Stations, Free("hostname", s), WellPlaced,
         \A x \in Stations : Whole(x)
  PROVE  \A ix \in Indices : Free(ix, s)
<1> SUFFICES ASSUME NEW ix \in Indices, ~Free(ix, s) PROVE FALSE
  OBVIOUS
<1> DEFINE x == index[ix][KeyOf[s][ix]]
<1>1. KeyOf[s][ix] \in Keys /\ "hostname" \in Indices
  BY ConstantsAssumption DEF Indices
<1>2. x \in Stations
  BY <1>1 DEF Free, TypeOK
<1>3. KeyOf[x][ix] = KeyOf[s][ix]
  BY <1>1, <1>2, ConstantsAssumption DEF WellPlaced
<1>4. Has("hostname", x)
  BY <1>1, <1>2, <1>3 DEF Has, Whole
<1>5. KeyOf[x]["hostname"] = KeyOf[s]["hostname"]
  BY <1>2, <1>3, ConstantsAssumption DEF SharedAddressSharesHostname
<1> QED
  BY <1>2, <1>4, <1>5, ConstantsAssumption DEF Has, Free

(* A step of t outside the edits.                                          *)
LEMMA IndexFrame ==
  ASSUME IndexInv, NEW t \in Threads, UNCHANGED index,
         \A u \in Threads \ {t} : pc'[u] = pc[u] /\ call'[u] = call[u],
         pc[t] \notin {"edit2", "edit3"}, pc'[t] \notin {"edit2", "edit3", "dispatch"}
  PROVE  IndexInv'
<1>1. WellPlaced' /\ \A s \in Stations : Whole(s) => Whole(s)'
  BY DEF IndexInv, WellPlaced, Whole, Has
<1>2. \A u \in Threads, s \in Stations : Underway(u, s)' <=> Underway(u, s)
  BY DEF Underway
<1>3. \A u \in Threads : InsertionInv(u)' /\ RemovalInv(u)'
  BY DEF IndexInv, InsertionInv, RemovalInv, Visited, Has, Free
<1> QED
  BY <1>1, <1>2, <1>3 DEF IndexInv

(* A step of t inside the table lock, where nobody else edits anything.    *)
LEMMA IndexAlone ==
  ASSUME LockInv, IndexInv, NEW t \in Threads, InTable(t), InTable(t)',
         NEW s \in Stations, WellPlaced',
         \A u \in Threads \ {t} : pc'[u] = pc[u] /\ call'[u] = call[u],
         \A x \in Stations \ {s}, iy \in Indices : Has(iy, x)' <=> Has(iy, x),
         pc[t] \in {"edit2", "edit3"} => call[t].stn = s,
         Underway(t, s)' \/ Whole(s)',
         InsertionInv(t)', RemovalInv(t)'
  PROVE  IndexInv'
<1>1. \A u \in Threads \ {t} : pc[u] \notin {"edit2", "edit3", "dispatch"}
  BY DEF LockInv, InTable, Editing
<1>2. \A u \in Threads : InsertionInv(u)' /\ RemovalInv(u)'
  BY <1>1 DEF InsertionInv, RemovalInv
<1>3. ASSUME NEW x \in Stations, x # s PROVE Whole(x)'
  <2>1. \A u \in Threads : ~Underway(u, x)
    BY <1>1, <1>3 DEF Underway
  <2> QED
    BY <1>3, <2>1 DEF IndexInv, Whole
<1>4. (\A u \in Threads : ~Underway(u, s)') => Whole(s)'
  OBVIOUS
<1> QED
  BY <1>2, <1>3, <1>4 DEF IndexInv



LEMMA IndexCalls ==
  ASSUME TypeInv, IndexInv, NEW t \in Threads, Calls(t)
  PROVE  IndexInv'
<1>1. ASSUME NEW c, NEW label \in {"check", "claim", "guard", "push"}, Start(t, c, label)
      PROVE  IndexInv'
  BY <1>1, IndexFrame DEF Start, At, Goto, TypeInv, TypeOK
<1> QED
  BY <1>1 DEF Calls, CallInsert, CallRemove, CallGet, CallUpdate, CallWakeup, CallList,
     CallRegister

LEMMA IndexInsertFirst ==
  ASSUME TypeInv, LockInv, IndexInv, NEW t \in Threads, InsertFirst(t)
  PROVE  IndexInv'
<1> DEFINE s == call[t].stn
<1>1. /\ s \in Stations /\ call[t].via = "hostname" /\ pc[t] = "edit1"
      /\ UNCHANGED call /\ \A u \in Threads \ {t} : pc'[u] = pc[u]
      /\ WellPlaced /\ TypeOK /\ call[t].op = "insert" /\ "hostname" \in Indices
  BY DEF InsertFirst, At, Goto, TypeInv, TypeOK, CallsOK, CallOK, IndexInv, Indices
<1>2. CASE Free("hostname", s)
  <2>1. index' = Put("hostname", s) /\ pc'[t] = "edit2"
    BY <1>2 DEF InsertFirst, Free, Goto, TypeInv, TypeOK
  <2>2. \A x \in Stations, u \in Threads : ~Underway(u, x)
    BY <1>1 DEF LockInv, InTable, Editing, Underway
  <2>3. \A ix \in Indices : Free(ix, s)
    BY <1>1, <1>2, <2>2, FreeHostname DEF IndexInv
  <2>4. Visited(t)' = {"hostname"}
    BY <1>1, <2>1, EditOrders DEF Visited
  <2>5. /\ WellPlaced' /\ Has("hostname", s)'
        /\ \A x \in Stations \ {s}, iy \in Indices : Has(iy, x)' <=> Has(iy, x)
        /\ \A iy \in Indices \ {"hostname"} : Free(iy, s)' <=> Free(iy, s)
    BY <1>1, <1>2, <2>1, PutOne
  <2>6. InsertionInv(t)' /\ RemovalInv(t)' /\ Underway(t, s)'
    BY <1>1, <2>1, <2>3, <2>4, <2>5 DEF InsertionInv, RemovalInv, Underway, Has, Free
  <2>7. InTable(t) /\ InTable(t)'
    BY <1>1, <2>1 DEF InTable, Editing
  <2> QED
    BY <1>1, <2>5, <2>6, <2>7, IndexAlone
<1>3. CASE ~Free("hostname", s)
  BY <1>1, <1>3, IndexFrame DEF InsertFirst, Free, Goto, TypeInv, TypeOK
<1> QED
  BY <1>2, <1>3

LEMMA IndexInsertNext ==
  ASSUME TypeInv, LockInv, IndexInv, NEW t \in Threads, InsertNext(t)
  PROVE  IndexInv'
<1>s. PICK s : s = call[t].stn
  OBVIOUS
<1>x. PICK ix : ix = EditedIndex(t)
  OBVIOUS
<1>1. /\ s \in Stations /\ call[t].op = "insert" /\ pc[t] \in {"edit2", "edit3"}
      /\ UNCHANGED call /\ \A u \in Threads \ {t} : pc'[u] = pc[u]
      /\ pc'[t] = (IF pc[t] = "edit2" THEN "edit3" ELSE "dispatch")
      /\ WellPlaced /\ TypeOK
  BY <1>s DEF InsertNext, At, Goto, TypeInv, TypeOK, CallsOK, CallOK, IndexInv
<1>2. ix \in Indices \ Visited(t)
  BY <1>1, <1>x, VisitNext
<1>3. Free(ix, s)
  BY <1>1, <1>2, <1>s DEF IndexInv, InsertionInv
<1>4. index' = Put(ix, s)
  BY <1>3, <1>s, <1>x DEF InsertNext, Free
<1>5. /\ WellPlaced' /\ Has(ix, s)'
      /\ \A x \in Stations \ {s}, iy \in Indices : Has(iy, x)' <=> Has(iy, x)
      /\ \A iy \in Indices \ {ix} : /\ Has(iy, s)' <=> Has(iy, s)
                                    /\ Free(iy, s)' <=> Free(iy, s)
  BY <1>1, <1>2, <1>3, <1>4, PutOne
<1>6. Visited(t)' = Visited(t) \cup {ix}
  <2>1. CASE pc[t] = "edit2"
    BY <1>1, <2>1, <1>x, VisitNext
  <2>2. CASE pc[t] = "edit3"
    BY <1>1, <2>2, <1>x, VisitNext DEF Visited
  <2> QED
    BY <1>1, <2>1, <2>2
<1>7. InsertionInv(t)'
  BY <1>1, <1>2, <1>5, <1>6, <1>s DEF IndexInv, InsertionInv, Has, Free
<1>8. RemovalInv(t)' /\ InTable(t) /\ InTable(t)'
  BY <1>1 DEF RemovalInv, InTable, Editing
<1>9. Underway(t, s)' \/ Whole(s)'
  <2>1. CASE pc[t] = "edit2"
    BY <1>1, <1>s, <2>1 DEF Underway
  <2>2. CASE pc[t] = "edit3"
    <3>1. Visited(t)' = Indices
      BY <1>1, <2>2 DEF Visited, Indices
    <3> QED
      BY <1>1, <1>7, <1>s, <2>2, <3>1 DEF InsertionInv, Whole, Has
  <2> QED
    BY <1>1, <2>1, <2>2
<1> QED
  BY <1>1, <1>5, <1>7, <1>8, <1>9, <1>s, IndexAlone

LEMMA IndexRemoveFirst ==
  ASSUME TypeInv, LockInv, IndexInv, NEW t \in Threads, RemoveFirst(t)
  PROVE  IndexInv'
<1>x. PICK ix : ix = call[t].via
  OBVIOUS
<1>s. PICK s : s = index[ix][call[t].key]
  OBVIOUS
<1>1. /\ ix \in Indices /\ call[t].key \in Keys /\ pc[t] = "edit1"
      /\ call[t].op = "remove" /\ WellPlaced /\ TypeOK
      /\ \A u \in Threads \ {t} : pc'[u] = pc[u]
  BY <1>x DEF RemoveFirst, At, Goto, TypeInv, TypeOK, CallsOK, CallOK, Calling, IndexInv
<1>2. CASE s # NoStation
  <2>1. /\ index' = Drop(ix, call[t].key) /\ pc'[t] = "edit2"
        /\ call'[t].stn = s /\ call'[t].op = "remove" /\ call'[t].via = ix
        /\ \A u \in Threads \ {t} : call'[u] = call[u]
    <3>1. index' = Drop(ix, call[t].key) /\ call' = [call EXCEPT ![t].stn = s]
      BY <1>2, <1>s, <1>x DEF RemoveFirst
    <3>2. pc'[t] = "edit2"
      BY <1>1, <1>2, <1>s, <1>x DEF RemoveFirst, Goto, TypeOK
    <3> QED
      BY <1>1, <1>x, <3>1, <3>2, Found
  <2>2. s \in Stations /\ call[t].key = KeyOf[s][ix]
    BY <1>1, <1>2, <1>s DEF WellPlaced, TypeOK
  <2>3. Has(ix, s)
    BY <1>s, <2>2 DEF Has
  <2>4. \A x \in Stations, u \in Threads : ~Underway(u, x)
    BY <1>1 DEF LockInv, InTable, Editing, Underway
  <2>5. \A iy \in Indices : Has(iy, s)
    BY <1>1, <2>2, <2>3, <2>4 DEF IndexInv, Whole
  <2>6. Visited(t)' = {ix}
    BY <1>1, <2>1, EditOrders DEF Visited
  <2>7. /\ WellPlaced' /\ Free(ix, s)'
        /\ \A x \in Stations \ {s}, iy \in Indices : Has(iy, x)' <=> Has(iy, x)
        /\ \A iy \in Indices \ {ix} : Has(iy, s)' <=> Has(iy, s)
    BY <1>1, <2>1, <2>2, <2>3, DropOne
  <2>8. InsertionInv(t)' /\ RemovalInv(t)' /\ Underway(t, s)'
    BY <2>1, <2>5, <2>6, <2>7 DEF InsertionInv, RemovalInv, Underway, Has, Free
  <2>9. InTable(t) /\ InTable(t)'
    BY <1>1, <2>1 DEF InTable, Editing
  <2> QED
    BY <1>1, <2>1, <2>2, <2>7, <2>8, <2>9, IndexAlone
<1>3. CASE s = NoStation
  BY <1>1, <1>3, <1>s, <1>x, IndexFrame DEF RemoveFirst, Goto, TypeInv, TypeOK
<1> QED
  BY <1>2, <1>3

LEMMA IndexRemoveNext ==
  ASSUME TypeInv, LockInv, IndexInv, NEW t \in Threads, RemoveNext(t)
  PROVE  IndexInv'
<1>s. PICK s : s = call[t].stn
  OBVIOUS
<1>x. PICK ix : ix = EditedIndex(t)
  OBVIOUS
<1>1. /\ s \in Stations /\ call[t].op = "remove" /\ pc[t] \in {"edit2", "edit3"}
      /\ UNCHANGED call /\ \A u \in Threads \ {t} : pc'[u] = pc[u]
      /\ pc'[t] = (IF pc[t] = "edit2" THEN "edit3" ELSE "sclaim")
      /\ WellPlaced /\ TypeOK
  BY <1>s DEF RemoveNext, At, Goto, TypeInv, TypeOK, CallsOK, CallOK, IndexInv
<1>2. ix \in Indices \ Visited(t)
  BY <1>1, <1>x, VisitNext
<1>3. Has(ix, s)
  BY <1>1, <1>2, <1>s DEF IndexInv, RemovalInv
<1>4. index' = Drop(ix, KeyOf[s][ix])
  BY <1>s, <1>x DEF RemoveNext
<1>5. pc[t] = "edit3" => Indices = Visited(t) \cup {ix}
  BY <1>1, <1>x, VisitNext
<1>6. pc[t] = "edit2" => Visited(t)' = Visited(t) \cup {ix}
  BY <1>1, <1>x, VisitNext
<1>7. /\ WellPlaced' /\ Free(ix, s)'
      /\ \A x \in Stations \ {s}, iy \in Indices : Has(iy, x)' <=> Has(iy, x)
      /\ \A iy \in Indices \ {ix} : /\ Has(iy, s)' <=> Has(iy, s)
                                    /\ Free(iy, s)' <=> Free(iy, s)
  BY <1>1, <1>2, <1>3, <1>4, DropOne
<1>8. RemovalInv(t)'
  BY <1>1, <1>2, <1>6, <1>7, <1>s DEF IndexInv, RemovalInv, Has, Free
<1>9. InsertionInv(t)' /\ InTable(t) /\ InTable(t)'
  BY <1>1 DEF InsertionInv, InTable, Editing, Removing
<1>10. Underway(t, s)' \/ Whole(s)'
  <2>1. CASE pc[t] = "edit2"
    BY <1>1, <1>s, <2>1 DEF Underway
  <2>2. CASE pc[t] = "edit3"
    <3>1. \A iy \in Indices : Free(iy, s)'
      BY <1>1, <1>5, <1>7, <1>s, <2>2 DEF IndexInv, RemovalInv
    <3> QED
      BY <1>1, <3>1, ConstantsAssumption DEF Whole, Has, Free
  <2> QED
    BY <1>1, <2>1, <2>2
<1> QED
  BY <1>1, <1>7, <1>8, <1>9, <1>10, <1>s, IndexAlone

LEMMA IndexSteps ==
  ASSUME TypeInv, StatusInv, LockInv, IndexInv, NEW t \in Threads, Steps(t)
  PROVE  IndexInv'
<1> DEFINE Aside == /\ UNCHANGED index
                    /\ \A u \in Threads \ {t} : pc'[u] = pc[u] /\ call'[u] = call[u]
                    /\ pc[t] \notin {"edit2", "edit3"}
                    /\ pc'[t] \notin {"edit2", "edit3", "dispatch"}
<1>0. Aside => IndexInv'
  BY IndexFrame
<1>1. CASE CheckStatus(t)
  BY <1>0, <1>1 DEF CheckStatus, At, Goto, Return, TypeInv, TypeOK
<1>2. CASE ClaimTable(t)
  BY <1>0, <1>2 DEF ClaimTable, At, Goto, TypeInv, TypeOK
<1>3. CASE ClaimStatus(t)
  BY <1>0, <1>3 DEF ClaimStatus, At, Goto, TypeInv, TypeOK
<1>4. CASE EnterLock(t)
  <2>1. pc[t] = "enter"
    BY <1>4, ConstantsAssumption
    DEF EnterLock, At, MayEnter, StatusInv, TypeInv, CallsOK, CallOK
  <2> QED
    BY <1>0, <1>4, <2>1 DEF EnterLock, Goto, TypeInv, TypeOK
<1>5. CASE LeaveTable(t)
  BY <1>0, <1>5 DEF LeaveTable, At, Goto, Return, TypeInv, TypeOK
<1>6. CASE InsertFirst(t)
  BY <1>6, IndexInsertFirst
<1>7. CASE InsertNext(t)
  BY <1>7, IndexInsertNext
<1>8. CASE RemoveFirst(t)
  BY <1>8, IndexRemoveFirst
<1>9. CASE RemoveNext(t)
  BY <1>9, IndexRemoveNext
<1>10. CASE Dispatch(t)
  BY <1>0, <1>10 DEF Dispatch, At, Goto, Return, TypeInv, TypeOK
<1>11. CASE Guard(t)
  BY <1>0, <1>11 DEF Guard, At, Goto, TypeInv, TypeOK
<1>12. CASE SizeListing(t)
  BY <1>0, <1>12 DEF SizeListing, At, Goto, TypeInv, TypeOK
<1>13. CASE FillListing(t)
  BY <1>0, <1>13 DEF FillListing, At, Goto, Return, TypeInv, TypeOK
<1>14. CASE ReadStation(t)
  BY <1>0, <1>14 DEF ReadStation, At, Goto, Return, TypeInv, TypeOK
<1>15. CASE FindStation(t)
  <2>1. CASE index[call[t].via][call[t].key] # NoStation
    BY <1>0, <1>15, <2>1, Found DEF FindStation, At, Goto, TypeInv, TypeOK
  <2>2. CASE index[call[t].via][call[t].key] = NoStation
    BY <1>0, <1>15, <2>2 DEF FindStation, At, Goto, Return, TypeInv, TypeOK
  <2> QED
    BY <2>1, <2>2
<1>16. CASE PushHandler(t)
  BY <1>0, <1>16 DEF PushHandler, At, Goto, Return, TypeInv, TypeOK
<1> QED
  BY <1>1, <1>2, <1>3, <1>4, <1>5, <1>6, <1>7, <1>8, <1>9, <1>10, <1>11, <1>12, <1>13, <1>14, <1>15, <1>16 DEF Steps

LEMMA IndexStep == TypeInv /\ StatusInv /\ LockInv /\ IndexInv /\ [Next]_vars => IndexInv'
<1> SUFFICES ASSUME TypeInv, StatusInv, LockInv, IndexInv, [Next]_vars PROVE IndexInv'
  OBVIOUS
<1>1. ASSUME UNCHANGED <<index, pc, call>> PROVE IndexInv'
  BY <1>1 DEF IndexInv, WellPlaced, Whole, Has, Free, Underway, InsertionInv, RemovalInv, Visited
<1>2. CASE UNCHANGED vars
  BY <1>1, <1>2 DEF vars
<1>3. ASSUME NEW t \in Threads, Torn(t) PROVE IndexInv'
  BY <1>1, <1>3 DEF Torn
<1> QED
  BY <1>2, <1>3, IndexCalls, IndexSteps DEF Next

-----------------------------------------------------------------------------
(* The theorems.                                                           *)

IInv == TypeInv /\ StatusInv /\ LockInv /\ IndexInv

LEMMA TableInit == Init => IInv
<1> SUFFICES ASSUME Init PROVE IInv
  OBVIOUS
<1>1. TypeInv
  BY TypeInit
<1>2. StatusInv /\ LockInv
  BY DEF Init, StatusInv, LockInv, FreshLock, NoCall, Call, InTable, Editing, Removing
<1>3. \A ix \in Indices, s \in Stations : ~Has(ix, s)
  BY ConstantsAssumption DEF Init, Has
<1>4. IndexInv
  BY <1>3 DEF Init, IndexInv, WellPlaced, Whole, InsertionInv, RemovalInv
<1> QED
  BY <1>1, <1>2, <1>4 DEF IInv

LEMMA Invariance == Spec => []IInv
<1>1. IInv /\ [Next]_vars => IInv'
  BY TypeStep, StatusStep, LockStep, IndexStep DEF IInv
<1> QED
  BY <1>1, TableInit, PTL DEF Spec

(* At most one thread at a time is inside the table lock.                  *)
THEOREM Exclusion == Spec => []WriterExclusion
<1>1. IInv => WriterExclusion
  BY DEF IInv, LockInv, WriterExclusion
<1> QED
  BY <1>1, Invariance, PTL

(* No thread that has claimed a status lock gets past it.                  *)
THEOREM StatusLocksAreDead == Spec => []StatusLockNeverGranted
<1>1. IInv => StatusLockNeverGranted
  <2> SUFFICES ASSUME IInv, NEW t \in Threads, pc[t] \in {"sclaim", "senter"}
               PROVE  Dead(statusLock[call[t].stn])
    BY DEF StatusLockNeverGranted
  <2>1. call[t].stn \in Stations
    BY DEF IInv, TypeInv, CallsOK, CallOK
  <2> QED
    BY <2>1, ConstantsAssumption DEF IInv, StatusInv, Dead
<1> QED
  BY <1>1, Invariance, PTL

(* Between the edits the three indices hold the same stations.             *)
THEOREM Agreement == Spec => []IndicesAgree
<1>1. IInv => IndicesAgree
  <2> SUFFICES ASSUME IInv, \A t \in Threads : ~Editing(t)
               PROVE  WellPlaced /\ \A ix, iy \in Indices : StationsIn(ix) \subseteq StationsIn(iy)
    BY DEF IndicesAgree, WellPlaced
  <2>1. WellPlaced /\ \A s \in Stations : Whole(s)
    BY DEF IInv, IndexInv, Underway, Editing
  <2>2. ASSUME NEW ix \in Indices, NEW iy \in Indices, NEW s \in StationsIn(ix)
        PROVE  s \in StationsIn(iy)
    <3>1. PICK k \in Keys : index[ix][k] = s /\ s # NoStation
      BY DEF StationsIn
    <3>2. s \in Stations /\ KeyOf[s][iy] \in Keys
      BY <3>1, ConstantsAssumption DEF IInv, TypeInv, TypeOK
    <3>3. Has(ix, s)
      BY <2>1, <3>1, <3>2 DEF WellPlaced, Has
    <3>4. Has(iy, s)
      BY <2>1, <3>2, <3>3 DEF Whole
    <3> QED
      BY <3>1, <3>2, <3>4 DEF StationsIn, Has
  <2> QED
    BY <2>1, <2>2
<1> QED
  BY <1>1, Invariance, PTL

(* A step of t leaves the others where they are, changes an index only at  *)
(* an edit, and the table lock only where it claims, enters or leaves it   *)
(* or guards it.                                                           *)
LEMMA StepFrame ==
  ASSUME TypeInv, StatusInv, NEW t \in Threads, Calls(t) \/ Steps(t) \/ Torn(t)
  PROVE  /\ \A u \in Threads \ {t} : pc'[u] = pc[u] /\ call'[u] = call[u]
         /\ ~Editing(t) => index' = index
         /\ \/ UNCHANGED dataLock
            \/ ClaimTable(t) \/ LeaveTable(t) \/ Guard(t)
            \/ pc[t] = "enter" /\ MayEnter(dataLock)
         /\ pc[t] = "sclaim" => pc'[t] \in {"sclaim", "senter"} /\ UNCHANGED call
         /\ pc[t] = "senter" => pc'[t] = "senter" /\ UNCHANGED call
<1>1. CASE Calls(t) \/ Torn(t)
  BY <1>1 DEF Torn, Calls, CallInsert, CallRemove, CallGet, CallUpdate, CallWakeup, CallList,
     CallRegister, Start, At, Goto, TypeInv, TypeOK
<1>2. CASE RemoveFirst(t)
  BY <1>2 DEF RemoveFirst, At, Goto, TypeInv, TypeOK, Editing
<1>3. CASE FindStation(t)
  BY <1>3 DEF FindStation, At, Goto, Return, TypeInv, TypeOK
<1>4. CASE EnterLock(t)
  <2>1. pc[t] = "enter"
    BY <1>4, ConstantsAssumption
    DEF EnterLock, At, MayEnter, StatusInv, TypeInv, CallsOK, CallOK
  <2> QED
    BY <1>4, <2>1 DEF EnterLock, Goto, TypeInv, TypeOK
<1>5. CASE InsertFirst(t) \/ InsertNext(t) \/ RemoveNext(t)
  BY <1>5 DEF InsertFirst, InsertNext, RemoveNext, At, Goto, TypeInv, TypeOK, Editing
<1>6. CASE CheckStatus(t) \/ ClaimTable(t) \/ ClaimStatus(t) \/ LeaveTable(t) \/ Dispatch(t)
  BY <1>6 DEF CheckStatus, ClaimTable, ClaimStatus, LeaveTable, Dispatch, At, Goto, Return,
     TypeInv, TypeOK
<1>7. CASE Guard(t) \/ SizeListing(t) \/ FillListing(t) \/ ReadStation(t) \/ PushHandler(t)
  BY <1>7 DEF Guard, SizeListing, FillListing, ReadStation, PushHandler, At, Goto, Return,
     TypeInv, TypeOK
<1> QED
  BY <1>1, <1>2, <1>3, <1>4, <1>5, <1>6, <1>7 DEF Steps

(* A frozen table stays frozen, and no index changes any more: a dead lock *)
(* has nobody inside it and lets nobody in, and a removal waits inside the *)
(* lock for a status lock that is dead.                                    *)
THEOREM Frost == Spec => FrozenForever
<1>1. IInv /\ [Next]_vars => [Frozen => Frozen' /\ index' = index]_vars
  <2> SUFFICES ASSUME IInv, NEW t \in Threads, Calls(t) \/ Steps(t) \/ Torn(t), Frozen
               PROVE  Frozen' /\ index' = index
    BY DEF Next
  <2>1. CASE Dead(dataLock)
    <3>1. ~InTable(t)
      BY <2>1 DEF IInv, LockInv, Dead
    <3>2. \/ UNCHANGED dataLock
          \/ ClaimTable(t) \/ Guard(t)
      BY <2>1, <3>1, StepFrame DEF IInv, LeaveTable, At, InTable, MayEnter, Dead
    <3>3. Dead(dataLock)'
      BY <2>1, <3>2 DEF ClaimTable, Claim, Guard, SharedGuard, Dead, IInv, TypeInv, TypeOK, LockOf
    <3> QED
      BY <3>1, <3>3, StepFrame DEF IInv, InTable, Frozen
  <2>2. ASSUME NEW u \in Threads, Removing(u)
        PROVE  Frozen' /\ index' = index
    <3>1. dataLock.owner = u /\ ~Editing(u)
      BY <2>2 DEF IInv, LockInv, InTable, Removing, Editing
    <3>2. ~Editing(t)
      BY <3>1 DEF IInv, LockInv, InTable
    <3>3. Removing(u)'
      BY <2>2, StepFrame DEF IInv, Removing
    <3> QED
      BY <3>2, <3>3, StepFrame DEF IInv, Frozen
  <2> QED
    BY <2>1, <2>2 DEF Frozen
<1> QED
  BY <1>1, Invariance, PTL DEF Spec, FrozenForever

(* An INSERTION is dispatched when the station is in every index.          *)
THEOREM Notification == Spec => NotifiedWhenListed
<1> DEFINE Told(e) == e.type = "INSERTION" =>
                        \A ix \in Indices : index[ix][KeyOf[e.stn][ix]] = e.stn
<1>1. IInv /\ [Next]_vars => [\A e \in notified' \ notified : Told(e)]_vars
  <2> SUFFICES ASSUME IInv, NEW t \in Threads, Calls(t) \/ Steps(t) \/ Torn(t),
                      NEW e \in notified' \ notified
               PROVE  Told(e)
    BY DEF Next
  <2>1. Dispatch(t)
    BY DEF Torn, Calls, CallInsert, CallRemove, CallGet, CallUpdate, CallWakeup, CallList,
       CallRegister, Start, Steps, CheckStatus, ClaimTable, ClaimStatus, EnterLock, LeaveTable,
       InsertFirst, InsertNext, RemoveFirst, RemoveNext, Guard, SizeListing, FillListing,
       ReadStation, FindStation, PushHandler
  <2>2. pc[t] = "dispatch" /\ call[t].op = "insert" /\ e.stn = call[t].stn
    BY <2>1 DEF Dispatch, At, IInv, StatusInv
  <2>3. Visited(t) = Indices
    BY <2>2 DEF Visited
  <2> QED
    BY <2>2, <2>3 DEF IInv, IndexInv, InsertionInv, Has
<1> QED
  BY <1>1, Invariance, PTL DEF Spec, NotifiedWhenListed

=============================================================================
