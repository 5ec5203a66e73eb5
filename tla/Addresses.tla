------------------------------- MODULE Addresses -------------------------------
(***************************************************************************)
(* src/address.cpp: a process looks up the addresses of its own host,      *)
(* before each packet that it sends, and parses the addresses in packets.  *)
(* An exception ends the process, since nothing in the program catches it. *)
(*                                                                         *)
(* A text is a sequence of tokens: numbers as the stream extracts them,    *)
(* the separator (: or .), and characters that are neither.  Two numbers   *)
(* in a row have white space between them.  operator>> for MAC and for IP  *)
(* addresses differ only in the number of octets, the separator and the    *)
(* base.                                                                   *)
(***************************************************************************)
EXTENDS Naturals, Sequences

CONSTANTS
  Octets,          \* how many an address has: 6 or 4
  Bytes,           \* the values of an octet
  Numbers,         \* the numbers that a text holds
  UnsignedMax,     \* UINT_MAX
  MaxTokens,       \* bound: length of a text
  Interfaces,      \* the list of getifaddrs: names, which may come repeatedly
  IpOf, MacOf,     \* the addresses of each name
  Resolutions,     \* lists that getaddrinfo may return for the host's name
  NoIp,            \* no address, or none of IPv4
  MaxDescriptors   \* RLIMIT_NOFILE

ASSUME AddressAssumption ==
  /\ Octets \in Nat \ {0} /\ UnsignedMax \in Nat /\ MaxTokens \in Nat /\ MaxDescriptors \in Nat
  /\ Interfaces \in Seq(DOMAIN IpOf)
  /\ UnsignedMax % 256 = 255   \* an unsigned has at least eight bits
  /\ Bytes \subseteq 0..255 /\ Numbers \subseteq Nat

VARIABLES
  phase,          \* what the process does, or how the last operation ended
  ip, mac,        \* of the NodeAddresses being loaded
  probe,          \* the interface that load_mac is at
  descriptors,    \* open file descriptors
  origin,         \* the address that was rendered into the text, if one was
  text,
  position,       \* of the stream in the text
  eof, fail,      \* eofbit and failbit
  address,        \* the octets that operator>> has stored
  indeterminate   \* whether one of them comes from an uninitialised variable

lookupVars == <<ip, mac, probe, descriptors>>
streamVars == <<origin, text, position, eof, fail, address, indeterminate>>

vars == <<phase, lookupVars, streamVars>>

Init ==
  /\ phase = "idle"
  /\ ip = NoIp /\ mac = NoIp /\ probe = 1 /\ descriptors = 0
  /\ origin = <<>> /\ text = <<>> /\ position = 1 /\ eof = FALSE /\ fail = FALSE
  /\ address = <<>> /\ indeterminate = FALSE

(* Lookups may follow each other.  A parse has only variables of its own,  *)
(* so one parse tells all.                                                 *)
MayLoad == phase \in {"idle", "loaded"}

MayParse == phase = "idle"

Throw == phase' = "thrown"

-----------------------------------------------------------------------------
(* NodeAddresses::load_host.                                               *)

(* load_hostname and load_ip: the first IPv4 address of the host's name.   *)
(* There is no MAC address yet.                                            *)
LoadIp == \E resolved \in Resolutions :
  LET ipv4 == SelectSeq(resolved, LAMBDA a : a # NoIp) IN
  /\ MayLoad
  /\ IF ipv4 = <<>>
       THEN Throw /\ UNCHANGED <<ip, mac, probe>>
       ELSE ip' = Head(ipv4) /\ mac' = NoIp /\ probe' = 1 /\ phase' = "load_mac"
  /\ UNCHANGED <<descriptors, streamVars>>

IsOwn(interface) == IpOf[interface] = ip

(* Mutant: nobody looks whether SIOCGIFHWADDR has failed.                  *)
CarelessLoadMac ==
  /\ phase = "load_mac"
  /\ \/ /\ probe > Len(Interfaces) \/ descriptors = MaxDescriptors
        /\ Throw
        /\ UNCHANGED lookupVars
     \/ /\ probe <= Len(Interfaces) /\ descriptors < MaxDescriptors
        /\ descriptors' = descriptors + 1
        /\ \/ probe' = probe + 1 /\ UNCHANGED <<phase, mac>>
           \/ /\ IsOwn(Interfaces[probe])
              /\ phase' = "loaded" /\ mac' \in {mac, MacOf[Interfaces[probe]]}
              /\ UNCHANGED probe
        /\ UNCHANGED ip
  /\ UNCHANGED streamVars

(* A turn of the loop of load_mac: a socket is opened, and never closed,   *)
(* to ask for the interface's addresses.  The list may end, or the         *)
(* descriptors.  The interface has another IP address, or none any more;   *)
(* or it has this one and tells its MAC address, or does not.              *)
LoadMac ==
  /\ phase = "load_mac"
  /\ \/ /\ probe > Len(Interfaces) \/ descriptors = MaxDescriptors
        /\ Throw
        /\ UNCHANGED lookupVars
     \/ /\ probe <= Len(Interfaces) /\ descriptors < MaxDescriptors
        /\ descriptors' = descriptors + 1
        /\ \/ probe' = probe + 1 /\ UNCHANGED <<phase, mac>>
           \/ /\ IsOwn(Interfaces[probe])
              /\ \/ phase' = "loaded" /\ mac' = MacOf[Interfaces[probe]]
                 \/ Throw /\ UNCHANGED mac
              /\ UNCHANGED probe
        /\ UNCHANGED ip
  /\ UNCHANGED streamVars

-----------------------------------------------------------------------------
(* Rendering and parsing.                                                  *)

Token(kind, value) == [kind |-> kind, value |-> value]

Number(n) == Token("number", n)
Separator == Token("separator", 0)
Other == Token("other", 0)

Tokens == {Number(n) : n \in Numbers} \cup {Separator, Other}

Texts == UNION {[1..length -> Tokens] : length \in 0..MaxTokens}

(* The first tokens of a text that has a separator after every octet.      *)
Separated(octets, length) ==
  [i \in 1..length |-> IF i % 2 = 1 THEN Number(octets[(i + 1) \div 2]) ELSE Separator]

(* Mutant: a separator after every octet.                                  *)
TerminatedRender(octets) == Separated(octets, 2 * Octets)

(* operator<<: a separator before every octet but the first.               *)
Render(octets) == Separated(octets, 2 * Octets - 1)

(* parse_mac_address, parse_ip_address: a stream over the text.            *)
Parse(source, t) ==
  /\ origin' = source /\ text' = t
  /\ position' = 1 /\ eof' = FALSE /\ fail' = FALSE
  /\ address' = <<>> /\ indeterminate' = FALSE
  /\ phase' = "octet"
  /\ UNCHANGED lookupVars

ParseRendered ==
  MayParse /\ \E octets \in [1..Octets -> Bytes] : Parse(octets, Render(octets))

ParseOther == MayParse /\ \E t \in Texts : Parse(<<>>, t)

Good == ~eof /\ ~fail

(* input_stream >> ch; a stream that is not good leaves ch uninitialised,  *)
(* and the comparison goes either way.                                     *)
ReadSeparator ==
  /\ phase = "separator"
  /\ \/ /\ Good /\ text[position] = Separator
        /\ position' = position + 1
        /\ phase' = "octet"
        /\ UNCHANGED fail
     \/ /\ Good /\ text[position] # Separator
        /\ Throw
        /\ UNCHANGED <<position, fail>>
     \/ /\ ~Good
        /\ fail' = TRUE
        /\ phase' \in {"octet", "thrown"}
        /\ UNCHANGED position
  /\ UNCHANGED <<lookupVars, origin, text, eof, address, indeterminate>>

(* *it = byte keeps eight bits.                                            *)
Store(byte) ==
  /\ address' = Append(address, byte % 256)
  /\ phase' = IF Len(address) + 1 = Octets THEN "end" ELSE "separator"

AtEnd(i) == i > Len(text)

(* Mutant: a number that does not fit leaves the stream good.              *)
LenientReadOctet ==
  /\ phase = "octet" /\ Good /\ ~AtEnd(position) /\ text[position].kind = "number"
  /\ Store(text[position].value)
  /\ position' = position + 1
  /\ eof' = AtEnd(position + 1)
  /\ UNCHANGED <<fail, indeterminate, lookupVars, origin, text>>

(* input_stream >> byte, for a number; one that does not fit is UINT_MAX.  *)
ReadOctet ==
  /\ phase = "octet" /\ Good /\ ~AtEnd(position) /\ text[position].kind = "number"
  /\ Store(IF text[position].value <= UnsignedMax THEN text[position].value ELSE UnsignedMax)
  /\ fail' = (text[position].value > UnsignedMax)
  /\ position' = position + 1
  /\ eof' = AtEnd(position + 1)
  /\ UNCHANGED <<indeterminate, lookupVars, origin, text>>

(* For anything else: zero, and the stream fails.                          *)
ReadNoOctet ==
  /\ phase = "octet" /\ Good /\ ~AtEnd(position) /\ text[position].kind # "number"
  /\ Store(0)
  /\ fail' = TRUE
  /\ UNCHANGED <<position, eof, indeterminate, lookupVars, origin, text>>

(* From a stream that is not good, or at its end: byte is uninitialised.   *)
ReadNothing == \E byte \in Bytes :
  /\ phase = "octet" /\ (~Good \/ AtEnd(position))
  /\ Store(byte)
  /\ fail' = TRUE
  /\ eof' = (eof \/ ~fail)
  /\ indeterminate' = TRUE
  /\ UNCHANGED <<position, lookupVars, origin, text>>

(* Mutant: the end of the input is not demanded.                           *)
CarelessFinish ==
  /\ phase = "end"
  /\ phase' = "parsed"
  /\ UNCHANGED <<lookupVars, streamVars>>

(* The end of the input is demanded, but not that nothing has failed.      *)
Finish ==
  /\ phase = "end"
  /\ phase' = IF eof THEN "parsed" ELSE "thrown"
  /\ UNCHANGED <<lookupVars, streamVars>>

-----------------------------------------------------------------------------

Next ==
  \/ LoadIp \/ LoadMac
  \/ ParseRendered \/ ParseOther
  \/ ReadSeparator \/ ReadOctet \/ ReadNoOctet \/ ReadNothing \/ Finish

Spec == Init /\ [][Next]_vars

-----------------------------------------------------------------------------
(* Properties.                                                             *)

(* load_host returns two addresses of one interface, or throws: whatever   *)
(* fails on the way, an IP address never gets away without its MAC         *)
(* address, or with that of another interface.                             *)
LoadedIsOwn ==
  phase = "loaded" =>
    \E i \in 1..Len(Interfaces) : IsOwn(Interfaces[i]) /\ mac = MacOf[Interfaces[i]]

(* Parsing undoes rendering, and refuses nothing that was rendered.        *)
RenderedIsParsed ==
  origin # <<>> => phase # "thrown" /\ (phase = "parsed" => address = origin /\ ~indeterminate)

(* A text that is parsed without guessing is an address written in full,   *)
(* of which only the high bits of its numbers are lost; one that does not  *)
(* fit an unsigned is taken only in the last place, as 255.                *)
ParsedIsWritten ==
  phase = "parsed" /\ ~indeterminate =>
    /\ Len(text) = 2 * Octets - 1
    /\ \A i \in 1..(Octets - 1) : text[2 * i] = Separator
    /\ \A i \in 1..Octets :
         /\ text[2 * i - 1].kind = "number"
         /\ \/ text[2 * i - 1].value <= UnsignedMax /\ address[i] = text[2 * i - 1].value % 256
            \/ text[2 * i - 1].value > UnsignedMax /\ i = Octets /\ address[i] = 255

(* Uninitialised memory becomes part of an address only if the text is too *)
(* short: it stops after one of its numbers or separators.                 *)
GuessedIsShort ==
  phase = "parsed" /\ indeterminate =>
    /\ Len(text) < 2 * Octets - 1
    /\ \A i \in DOMAIN text : text[i].kind = IF i % 2 = 1 THEN "number" ELSE "separator"

=============================================================================
