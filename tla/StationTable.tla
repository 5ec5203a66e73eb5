----------------------------- MODULE StationTable -----------------------------
(***************************************************************************)
(* What include/management.h promises of the concurrent table of work      *)
(* stations, for the operations that change it: each call takes effect at  *)
(* one instant between its invocation and its return, insert adds a        *)
(* station unless its hostname is taken and says whether it did, and       *)
(* a removal takes out the station with the given key and says whether     *)
(* there was one.                                                          *)
(***************************************************************************)
CONSTANTS Threads, Stations, Indices, Keys, KeyOf, NoRequest

VARIABLES
  table,     \* the set of stations
  request,   \* what each thread has called and not returned from
  decided,   \* whether that call has taken effect
  answer     \* what it will return, once decided

vars == <<table, request, decided, answer>>

Inserts == [op : {"insert"}, stn : Stations]
Removals == [op : {"remove"}, via : Indices, key : Keys]

Init ==
  /\ table = {}
  /\ request = [t \in Threads |-> NoRequest]
  /\ decided = [t \in Threads |-> FALSE]
  /\ answer = [t \in Threads |-> FALSE]

Invoke(t, r) ==
  /\ request[t] = NoRequest
  /\ request' = [request EXCEPT ![t] = r]
  /\ UNCHANGED <<table, decided, answer>>

Decide(t, newTable) ==
  /\ request[t] # NoRequest /\ ~decided[t]
  /\ table' = newTable
  /\ decided' = [decided EXCEPT ![t] = TRUE]
  /\ answer' = [answer EXCEPT ![t] = newTable # table]
  /\ UNCHANGED request

Insert(t) == \E s \in Stations :
  /\ request[t] = [op |-> "insert", stn |-> s]
  /\ Decide(t, IF \E x \in table : KeyOf[x]["hostname"] = KeyOf[s]["hostname"]
                 THEN table
                 ELSE table \cup {s})

Remove(t) == \E ix \in Indices, k \in Keys :
  /\ request[t] = [op |-> "remove", via |-> ix, key |-> k]
  /\ Decide(t, {x \in table : KeyOf[x][ix] # k})

Respond(t) ==
  /\ decided[t]
  /\ request' = [request EXCEPT ![t] = NoRequest]
  /\ decided' = [decided EXCEPT ![t] = FALSE]
  /\ answer' = [answer EXCEPT ![t] = FALSE]
  /\ UNCHANGED table

Next == \E t \in Threads :
  \/ \E r \in Inserts \cup Removals : Invoke(t, r)
  \/ Insert(t) \/ Remove(t) \/ Respond(t)

Spec == Init /\ [][Next]_vars

=============================================================================
