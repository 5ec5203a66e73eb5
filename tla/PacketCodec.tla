------------------------------ MODULE PacketCodec ------------------------------
(***************************************************************************)
(* The wire format of include/packet.h and src/packet.cpp, in the exchange *)
(* that src/socket.cpp builds on it: a client serializes a request, the    *)
(* server deserializes it field by field into a Packet object, and answers *)
(* an accepted one with the header it received; the client deserializes    *)
(* the answer.  A rejected datagram leaves what it filled in behind, for   *)
(* the loops of socket.cpp deserialize the next one into the same object.  *)
(*                                                                         *)
(* A datagram is a sequence of symbols: the characters of a text, one      *)
(* symbol for a number or an address as rendered, and the field end.       *)
(***************************************************************************)
EXTENDS Naturals, Sequences, SequencesExt

CONSTANTS
  Numbers,      \* values of the counter and of the clock
  Hostnames,    \* texts, sequences of symbols
  ReadModulus,  \* read_uint keeps a number modulo this: 2^16
  NoAddress     \* the address of a new NodeAddresses, all zeros

ASSUME CodecAssumption == Numbers \subseteq Nat /\ ReadModulus \in Nat \ {0}

(* Host names are texts, and one that holds a field end holds no digits:   *)
(* after a backslash both are written, and could pass for a number and the *)
(* end of its field.  A host has only letters, digits and - in its name.   *)
ASSUME HostnameAssumption ==
  \A h \in Hostnames :
    /\ h \in Seq(ToSet(h))
    /\ [kind |-> "end", value |-> 0] \in ToSet(h) => \A s \in ToSet(h) : s.kind # "number"

VARIABLES
  origin,   \* the packet that was serialized
  to,       \* the host that reads the datagram
  wire,     \* what is left of the datagram
  next,     \* the index of the field to read
  verdict,  \* what deserialize makes of the datagram
  packet    \* the Packet object that each host deserializes into

vars == <<origin, to, wire, next, verdict, packet>>

Hosts == {"client", "server"}

Symbol(kind, value) == [kind |-> kind, value |-> value]

FieldEnd == Symbol("end", 0)
Backslash == Symbol("backslash", 0)

DirectionCode == [REQUEST |-> 0, RESPONSE |-> 1]
TypeCode == [DISCOVERY |-> 0, EXIT |-> 1, WOL |-> 2, SLEEP_STATUS |-> 3]

(* The fields of a packet, in their order on the wire; the sleep status is *)
(* not sent.                                                               *)
Fields == <<"seqn", "timestamp", "mac", "ip", "hostname", "direction", "type">>

Packet(seqn, timestamp, host, hostname, direction, type) ==
  [seqn |-> seqn, timestamp |-> timestamp, mac |-> host, ip |-> host,
   hostname |-> hostname, direction |-> direction, type |-> type]

(* A new Packet.                                                           *)
FreshPacket == Packet(0, 0, NoAddress, <<>>, "REQUEST", "DISCOVERY")

-----------------------------------------------------------------------------
(* PacketSerializer.                                                       *)

(* write(string) keeps a character only when it follows a backslash.       *)
WrittenText(text) ==
  LET loop[i \in 0..Len(text)] ==   \* after i characters
        IF i = 0 THEN [out |-> <<>>, escape |-> FALSE]
        ELSE IF loop[i - 1].escape
          THEN [out |-> Append(loop[i - 1].out, text[i]), escape |-> FALSE]
          ELSE [out |-> loop[i - 1].out, escape |-> text[i] = Backslash]
  IN loop[Len(text)].out

WriteField(field, value) ==
  CASE field \in {"seqn", "timestamp"} -> <<Symbol("number", value)>>
    [] field \in {"mac", "ip"}         -> <<Symbol("address", value)>>
    [] field = "hostname"              -> WrittenText(value)
    [] field = "direction"             -> <<Symbol("number", DirectionCode[value])>>
    [] field = "type"                  -> <<Symbol("number", TypeCode[value])>>

Written(p, field) == Append(WriteField(field, p[field]), FieldEnd)

WrittenHeader(p) ==
  Written(p, "seqn") \o Written(p, "timestamp") \o Written(p, "mac") \o Written(p, "ip")
    \o Written(p, "hostname") \o Written(p, "direction")

(* Mutant: field ends between the fields only.                             *)
SeparatedSerialize(p) == WrittenHeader(p) \o WriteField("type", p.type)

Serialize(p) == WrittenHeader(p) \o Written(p, "type")

(* A packet is serialized and sent to a host.                              *)
Send(p, host) ==
  /\ origin' = p
  /\ to' = host
  /\ wire' = Serialize(p)
  /\ next' = 1
  /\ verdict' = "reading"

Init ==
  /\ origin = FreshPacket
  /\ to = "server"
  /\ wire = <<>>
  /\ next = 1
  /\ verdict = "none"
  /\ packet = [h \in Hosts |-> FreshPacket]

(* The client asks, for the first time or again, and waits with a new      *)
(* Packet.  The server is in ServerSocket::receive: its Packet is the one  *)
(* of the last rejected datagram, or a new one.                            *)
Request == \E seqn, timestamp \in Numbers, hostname \in Hostnames, type \in DOMAIN TypeCode :
  /\ verdict \in {"none", "accepted", "rejected"}
  /\ Send(Packet(seqn, timestamp, "client", hostname, "REQUEST", type), "server")
  /\ packet' = [client |-> FreshPacket,
                server |-> IF verdict = "rejected" /\ to = "server"
                             THEN packet["server"] ELSE FreshPacket]

(* Mutant: the answer is numbered anew.                                    *)
RenumberedRespond == \E seqn, timestamp \in Numbers, hostname \in Hostnames :
  /\ verdict = "accepted" /\ to = "server"
  /\ Send(Packet(seqn, timestamp, "server", hostname, "RESPONSE", packet["server"].type), "client")
  /\ UNCHANGED packet

(* Request::respond: the header of the request, but for the direction, the *)
(* addresses and the time.                                                 *)
Respond == \E timestamp \in Numbers, hostname \in Hostnames :
  /\ verdict = "accepted" /\ to = "server"
  /\ Send(Packet(packet["server"].seqn, timestamp, "server", hostname, "RESPONSE",
                 packet["server"].type), "client")
  /\ UNCHANGED packet

-----------------------------------------------------------------------------
(* PacketDeserializer.                                                     *)

(* The places where probe_field_end may stop: a field end that does not    *)
(* follow a backslash of its own field.                                    *)
Ends == {j \in DOMAIN wire : wire[j] = FieldEnd /\ (j = 1 \/ wire[j - 1] # Backslash)}

FieldEndAt(j) == j \in Ends /\ \A k \in Ends : j <= k

Reading(fields) == verdict = "reading" /\ Fields[next] \in fields

(* Mutant: the cursor runs past the last field.                            *)
OverrunStore(j, value) ==
  /\ packet' = [packet EXCEPT ![to][Fields[next]] = value]
  /\ wire' = SubSeq(wire, j + 1, Len(wire))
  /\ next' = next + 1
  /\ verdict' = IF next = Len(Fields) THEN "accepted" ELSE "reading"
  /\ UNCHANGED <<origin, to>>

(* The field was read up to its end j and stored as value.                 *)
Store(j, value) ==
  /\ packet' = [packet EXCEPT ![to][Fields[next]] = value]
  /\ wire' = SubSeq(wire, j + 1, Len(wire))
  /\ next' = IF next = Len(Fields) THEN next ELSE next + 1
  /\ verdict' = IF next = Len(Fields) THEN "accepted" ELSE "reading"
  /\ UNCHANGED <<origin, to>>

(* deserialize returns false.                                              *)
Reject ==
  /\ verdict' = "rejected"
  /\ UNCHANGED <<origin, to, wire, next, packet>>

ReadUint == \E j \in DOMAIN wire :
  /\ Reading({"seqn", "timestamp"})
  /\ FieldEndAt(j) /\ wire[1].kind = "number"
  /\ Store(j, wire[1].value % ReadModulus)

(* read_mac_address, read_ip_address: parsing undoes rendering.            *)
ReadAddress == \E j \in DOMAIN wire :
  /\ Reading({"mac", "ip"})
  /\ FieldEndAt(j) /\ wire[1].kind = "address"
  /\ Store(j, wire[1].value)

ReadText == \E j \in DOMAIN wire :
  /\ Reading({"hostname"})
  /\ FieldEndAt(j)
  /\ Store(j, SubSeq(wire, 1, j - 1))

(* Mutant: parse_direction succeeds and assigns nothing.                   *)
ForgetfulReadDirection == \E j \in DOMAIN wire :
  /\ Reading({"direction"})
  /\ FieldEndAt(j) /\ wire[1].kind = "number"
  /\ Store(j, packet[to].direction)

(* parse_direction, which knows both directions.                           *)
ReadDirection == \E j \in DOMAIN wire :
  /\ Reading({"direction"})
  /\ FieldEndAt(j) /\ wire[1].kind = "number"
  /\ \/ \E direction \in DOMAIN DirectionCode :
          wire[1].value = DirectionCode[direction] /\ Store(j, direction)
     \/ wire[1].value \notin {0, 1} /\ Reject

(* Mutant: parse_type assigns before it checks.                            *)
HastyReadType == \E j \in DOMAIN wire, type \in DOMAIN TypeCode :
  /\ Reading({"type"})
  /\ FieldEndAt(j) /\ wire[1] = Symbol("number", TypeCode[type])
  /\ packet' = [packet EXCEPT ![to].type = type]
  /\ verdict' = IF type = "DISCOVERY" THEN "accepted" ELSE "rejected"
  /\ UNCHANGED <<origin, to, wire, next>>

(* parse_type, which knows one of the four types.                          *)
ReadType == \E j \in DOMAIN wire :
  /\ Reading({"type"})
  /\ FieldEndAt(j) /\ wire[1].kind = "number"
  /\ \/ wire[1].value = TypeCode.DISCOVERY /\ Store(j, "DISCOVERY")
     \/ wire[1].value # TypeCode.DISCOVERY /\ Reject

(* The field end is missing, or the field is no number or no address: an   *)
(* exception that nothing catches.                                         *)
Throw ==
  /\ verdict = "reading"
  /\ \/ Ends = {}
     \/ Ends # {} /\ ~Reading({"hostname"})
        /\ wire[1].kind # IF Reading({"mac", "ip"}) THEN "address" ELSE "number"
  /\ verdict' = "thrown"
  /\ UNCHANGED <<origin, to, wire, next, packet>>

Deserialize == ReadUint \/ ReadAddress \/ ReadText \/ ReadDirection \/ ReadType \/ Throw

Next == Request \/ Respond \/ Deserialize

Spec == Init /\ [][Next]_vars

-----------------------------------------------------------------------------
(* Properties.                                                             *)

(* Every variable has the shape its declaration gives it.                  *)
TypeOK ==
  /\ to \in Hosts
  /\ next \in DOMAIN Fields
  /\ verdict \in {"none", "reading", "accepted", "rejected", "thrown"}
  /\ \A h \in Hosts :
       /\ DOMAIN packet[h] = ToSet(Fields)
       /\ packet[h].seqn \in 0..(ReadModulus - 1) /\ packet[h].timestamp \in 0..(ReadModulus - 1)
       /\ packet[h].mac \in Hosts \cup {NoAddress} /\ packet[h].ip \in Hosts \cup {NoAddress}
       /\ packet[h].direction \in DOMAIN DirectionCode /\ packet[h].type \in DOMAIN TypeCode

(* What is left of a packet that is read whole: numbers lose all but 16    *)
(* bits, although packet.h:134 promises "an integer from decimal".         *)
Mangled(p) ==
  [seqn |-> p.seqn % ReadModulus, timestamp |-> p.timestamp % ReadModulus, mac |-> p.mac,
   ip |-> p.ip, hostname |-> WrittenText(p.hostname), direction |-> p.direction, type |-> p.type]

(* An accepted packet is the one that was sent, as far as its fields       *)
(* survive; none is left over from a datagram before.                      *)
AcceptedAsSent == verdict = "accepted" => packet[to] = Mangled(origin)

(* A packet of a type that parse_type rejects still has its header, and    *)
(* the type of a new one.  monitoring_main relies on the first: it removes *)
(* a station by the header of an EXIT request, which is always rejected.   *)
RejectedKeepsHeader ==
  verdict = "rejected" /\ Fields[next] = "type"
    => origin.type # "DISCOVERY" /\ packet[to] = [Mangled(origin) EXCEPT !.type = "DISCOVERY"]

(* What the program sends raises no InvalidPacketException, and is never   *)
(* rejected for its direction, unless a host name holds a backslash.       *)
OnlyBackslashesDerail ==
  verdict = "thrown" \/ (verdict = "rejected" /\ Fields[next] # "type")
    => Backslash \in ToSet(origin.hostname)

(* An answer read by the client is numbered like the request that the      *)
(* server read, although the number has been truncated on both ways, and   *)
(* holds the addresses of the server.                                      *)
AnswerCarriesItsRequest ==
  to = "client" /\ verdict = "accepted"
    => packet["client"] = [Mangled(origin) EXCEPT !.seqn = packet["server"].seqn,
                                                  !.direction = "RESPONSE", !.type = "DISCOVERY"]

-----------------------------------------------------------------------------
(* What packet.h says and the code does not do; TLC finds it violated.     *)

(* packet.h:113, "renders plaintext escaping control characters": a host   *)
(* name without control characters arrives as it is.                       *)
TextSurvives == verdict = "accepted" => packet[to].hostname = origin.hostname

=============================================================================
