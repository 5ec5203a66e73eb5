-------------------------- MODULE PacketCodec_proofs --------------------------
(***************************************************************************)
(* The codec, for host names of any length, any numbers and any modulus.   *)
(*                                                                         *)
(* The inductive invariant: what is left of a datagram is what was written *)
(* of the fields that are still to be read, and the fields before them are *)
(* those that were sent; or a backslash in the host name has taken the     *)
(* reader past the end of that field, and then it can only be rejected or  *)
(* raise an exception.  Nothing in between: after a host name the reader   *)
(* finds the direction, a symbol of the host name, or the type.            *)
(***************************************************************************)
EXTENDS PacketCodec, SequenceTheorems, WellFoundedInduction, TLAPS

-----------------------------------------------------------------------------
(* The inductive invariant.                                                *)

AnyAddress == Hosts \cup {NoAddress}

Symbols ==
  [kind : {"number"}, value : Nat] \cup [kind : {"address"}, value : AnyAddress]
    \cup {FieldEnd} \cup UNION {ToSet(h) : h \in Hostnames}

Types == DOMAIN TypeCode
Directions == DOMAIN DirectionCode

(* What is sent, and what a host has filled in.                            *)
Sent ==
  [seqn : Nat, timestamp : Nat, mac : AnyAddress, ip : AnyAddress,
   hostname : Hostnames \cup {<<>>}, direction : Directions, type : Types]

Filled ==
  [seqn : 0..(ReadModulus - 1), timestamp : 0..(ReadModulus - 1),
   mac : AnyAddress, ip : AnyAddress, hostname : Seq(Symbols),
   direction : Directions, type : {"DISCOVERY"}]

TypeInv ==
  /\ origin \in Sent /\ to \in Hosts
  /\ wire \in Seq(Symbols) /\ next \in 1..7
  /\ verdict \in {"none", "reading", "accepted", "rejected", "thrown"}
  /\ packet \in [Hosts -> Filled]

(* The part of the datagram from each field on.                            *)
Rest7(p) == Written(p, "type")
Rest6(p) == Written(p, "direction") \o Rest7(p)
Rest5(p) == Written(p, "hostname") \o Rest6(p)
Rest4(p) == Written(p, "ip") \o Rest5(p)
Rest3(p) == Written(p, "mac") \o Rest4(p)
Rest2(p) == Written(p, "timestamp") \o Rest3(p)
Rest1(p) == Written(p, "seqn") \o Rest2(p)

Rests(p) == <<Rest1(p), Rest2(p), Rest3(p), Rest4(p), Rest5(p), Rest6(p), Rest7(p)>>

(* The fields before next are those of the packet that was sent.           *)
FilledIn ==
  /\ next > 1 => packet[to].seqn = origin.seqn % ReadModulus
  /\ next > 2 => packet[to].timestamp = origin.timestamp % ReadModulus
  /\ next > 3 => packet[to].mac = origin.mac
  /\ next > 4 => packet[to].ip = origin.ip
  /\ next > 5 => packet[to].hostname = WrittenText(origin.hostname)
  /\ next > 6 => packet[to].direction = origin.direction

Clean == wire = Rests(origin)[next] /\ FilledIn

(* The host name held a field end, and what came after it is left; or it   *)
(* ended in a backslash and took the direction with it, so that the type   *)
(* is read as a direction, and then nothing is left.                       *)
Derailed ==
  /\ Backslash \in ToSet(origin.hostname)
  /\ \/ next = 6 /\ wire # <<>> /\ wire[1].kind # "number"
     \/ next = 6 /\ wire = Written(origin, "type")
     \/ next = 7 /\ wire = <<>>

ReadingInv == verdict = "reading" => Clean \/ Derailed

(* An answer is numbered like the request that the server still has.       *)
AnswerInv ==
  to = "client" =>
    /\ origin.seqn = packet["server"].seqn
    /\ origin.direction = "RESPONSE" /\ origin.type = "DISCOVERY"

IInv ==
  /\ TypeInv /\ ReadingInv /\ AnswerInv
  /\ AcceptedAsSent /\ RejectedKeepsHeader /\ OnlyBackslashesDerail

-----------------------------------------------------------------------------
(* Induction.  The theorems of the library have an operator for the        *)
(* predicate; these have a set and a function.                             *)

LEMMA Induction ==
  ASSUME NEW S, 0 \in S, \A n \in Nat : n \in S => n + 1 \in S
  PROVE  Nat \subseteq S
<1> DEFINE T == Nat \ S
           R == OpToRel(<, Nat)
<1> SUFFICES ASSUME T # {}
             PROVE  FALSE
  OBVIOUS
<1>1. \A m, n \in Nat : m < n => <<m, n>> \in R
  BY DEF OpToRel
<1>2. IsWellFoundedOn(R, Nat)
  BY NatLessThanWellFounded, Zenon
<1> HIDE DEF R
<1>3. PICK n \in T : \A m \in T : ~ (<<m, n>> \in R)
  <2>1. T \subseteq Nat
    OBVIOUS
  <2> HIDE DEF T
  <2> QED
    BY <1>2, <2>1, WFMin, Zenon
<1>4. n # 0 /\ n \in Nat /\ n - 1 \in Nat /\ n - 1 + 1 = n
  OBVIOUS
<1>5. n - 1 \notin T
  <2>1. <<n - 1, n>> \in R
    BY <1>1, <1>4
  <2> QED
    BY <1>3, <2>1, Zenon
<1> QED
  BY <1>3, <1>4, <1>5

(* A loop of n turns has a run: its state is base before the first turn,   *)
(* and step gives the state after a turn.                                  *)
HasRun(n, D, base, step) ==
  \E f \in [0..n -> D] : f[0] = base /\ \A i \in 1..n : f[i] = step[i][f[i - 1]]

LEMMA Recursion ==
  ASSUME NEW n \in Nat, NEW D, NEW base \in D, NEW step \in [1..n -> [D -> D]]
  PROVE  HasRun(n, D, base, step)
<1> USE DEF HasRun
<1> DEFINE Runs(m) == HasRun(m, D, base, step)
           S == {m \in Nat : m <= n => Runs(m)}
<1>1. 0 \in S
  <2> DEFINE f == [i \in 0..0 |-> base]
  <2>1. f \in [0..0 -> D] /\ f[0] = base
    OBVIOUS
  <2>2. 1..0 = {}
    OBVIOUS
  <2> HIDE DEF f
  <2>3. Runs(0)
    BY <2>1, <2>2
  <2> QED
    BY <2>3
<1>2. ASSUME NEW m \in Nat, m \in S
      PROVE  m + 1 \in S
  <2> SUFFICES ASSUME m + 1 <= n
               PROVE  Runs(m + 1)
    OBVIOUS
  <2>1. PICK f \in [0..m -> D] : f[0] = base /\ \A i \in 1..m : f[i] = step[i][f[i - 1]]
    BY <1>2
  <2> DEFINE g == [i \in 0..(m + 1) |-> IF i = m + 1 THEN step[m + 1][f[m]] ELSE f[i]]
  <2>2. f[m] \in D /\ step[m + 1][f[m]] \in D
    BY <2>1
  <2>3. g \in [0..(m + 1) -> D]
    BY <2>2
  <2>4. g[0] = base
    BY <2>1
  <2>5. ASSUME NEW i \in 1..(m + 1)
        PROVE  g[i] = step[i][g[i - 1]]
    <3>1. CASE i = m + 1
      <4>1. g[i] = step[m + 1][f[m]] /\ g[i - 1] = f[m]
        BY <3>1
      <4> QED
        BY <3>1, <4>1
    <3>2. CASE i # m + 1
      <4>1. i \in 1..m /\ i - 1 \in 0..m /\ i - 1 # m + 1
        BY <3>2
      <4>2. g[i] = f[i] /\ g[i - 1] = f[i - 1]
        BY <3>2, <4>1
      <4>3. f[i] = step[i][f[i - 1]]
        BY <2>1, <4>1
      <4> QED
        BY <4>2, <4>3
    <3> QED
      BY <3>1, <3>2
  <2> HIDE DEF g
  <2> QED
    BY <2>3, <2>4, <2>5
<1>3. Nat \subseteq S
  <2> HIDE DEF S
  <2> QED
    BY <1>1, <1>2, Induction
<1> QED
  BY <1>3

-----------------------------------------------------------------------------
(* What write(string) makes of a text.                                     *)

Text(h) == h \in Seq(ToSet(h))

Turn(h, before, i) ==
  IF before.escape THEN [out |-> Append(before.out, h[i]), escape |-> FALSE]
                   ELSE [out |-> before.out, escape |-> h[i] = Backslash]

(* The loop of write(string), as a function of the characters read.        *)
LoopOf(h, f) ==
  f = [i \in 0..Len(h) |-> IF i = 0 THEN [out |-> <<>>, escape |-> FALSE]
                                    ELSE Turn(h, f[i - 1], i)]

LEMMA LoopExists ==
  ASSUME NEW h, Text(h)
  PROVE  \E f : LoopOf(h, f)
<1> DEFINE n == Len(h)
           D == [out : Seq(ToSet(h)), escape : BOOLEAN]
           base == [out |-> <<>>, escape |-> FALSE]
           step == [i \in 1..n |-> [d \in D |-> Turn(h, d, i)]]
<1>1. n \in Nat /\ h \in [1..n -> ToSet(h)]
  BY LenProperties DEF Text
<1>2. base \in D
  BY EmptySeq
<1>3. ASSUME NEW i \in 1..n, NEW d \in D
      PROVE  Turn(h, d, i) \in D
  <2>1. h[i] \in ToSet(h)
    BY <1>1
  <2>2. Append(d.out, h[i]) \in Seq(ToSet(h)) /\ d.out \in Seq(ToSet(h))
    BY <2>1, AppendProperties
  <2>3. (h[i] = Backslash) \in BOOLEAN
    OBVIOUS
  <2> QED
    BY <2>2, <2>3 DEF Turn
<1>4. step \in [1..n -> [D -> D]]
  <2> HIDE DEF D
  <2> QED
    BY <1>3
<1> HIDE DEF D, base
<1>5. PICK f \in [0..n -> D] : f[0] = base /\ \A i \in 1..n : f[i] = step[i][f[i - 1]]
  <2>1. n \in Nat
    BY <1>1
  <2> HIDE DEF n, step
  <2>2. HasRun(n, D, base, step)
    BY <1>2, <1>4, <2>1, Recursion
  <2> QED
    BY <2>2 DEF HasRun
<1>6. ASSUME NEW i \in 1..n
      PROVE  f[i] = Turn(h, f[i - 1], i)
  <2>1. f[i - 1] \in D
    BY <1>1, <1>5
  <2> QED
    BY <1>5, <2>1
<1>7. f = [i \in 0..n |-> IF i = 0 THEN base ELSE Turn(h, f[i - 1], i)]
  <2>1. ASSUME NEW i \in 0..n
        PROVE  f[i] = IF i = 0 THEN base ELSE Turn(h, f[i - 1], i)
    <3>1. i = 0 \/ i \in 1..n
      BY <1>1
    <3> QED
      BY <1>5, <1>6, <3>1
  <2> QED
    BY <1>5, <2>1
<1> QED
  BY <1>7 DEF LoopOf, base

LEMMA WrittenByLoop ==
  ASSUME NEW h, Text(h)
  PROVE  \E f : LoopOf(h, f) /\ WrittenText(h) = f[Len(h)].out
<1>1. PICK f : LoopOf(h, f)
  BY LoopExists
<1> QED
  BY <1>1, Zenon DEF WrittenText, LoopOf, Turn

(* What holds before the loop, and after a turn when before it, holds in   *)
(* the end.                                                                *)
LEMMA LoopKeeps ==
  ASSUME NEW h, Text(h), NEW f, LoopOf(h, f),
         NEW D, [out |-> <<>>, escape |-> FALSE] \in D,
         \A i \in 1..Len(h), d \in D : Turn(h, d, i) \in D
  PROVE  f[Len(h)] \in D
<1> DEFINE n == Len(h)
           S == {m \in Nat : m <= n => f[m] \in D}
<1>1. n \in Nat
  BY LenProperties DEF Text
<1>2. 0 \in S
  BY <1>1 DEF LoopOf
<1>3. ASSUME NEW m \in Nat, m \in S
      PROVE  m + 1 \in S
  <2> SUFFICES ASSUME m + 1 <= n
               PROVE  f[m + 1] \in D
    OBVIOUS
  <2>1. m + 1 \in 1..n /\ m + 1 \in 0..n /\ m + 1 # 0 /\ (m + 1) - 1 = m
    BY <1>1
  <2>2. f[m] \in D
    BY <1>1, <1>3
  <2>3. f[m + 1] = Turn(h, f[m], m + 1)
    BY <2>1 DEF LoopOf
  <2> QED
    BY <2>1, <2>2, <2>3
<1>4. Nat \subseteq S
  <2> HIDE DEF S
  <2> QED
    BY <1>2, <1>3, Induction
<1> QED
  BY <1>1, <1>4

(* What is written of a text are symbols of it.                            *)
LEMMA WrittenIsOfText ==
  ASSUME NEW h, Text(h)
  PROVE  WrittenText(h) \in Seq(ToSet(h))
<1> DEFINE D == [out : Seq(ToSet(h)), escape : BOOLEAN]
<1>1. PICK f : LoopOf(h, f) /\ WrittenText(h) = f[Len(h)].out
  BY WrittenByLoop
<1>2. [out |-> <<>>, escape |-> FALSE] \in D
  BY EmptySeq
<1>3. ASSUME NEW i \in 1..Len(h), NEW d \in D
      PROVE  Turn(h, d, i) \in D
  <2>1. h[i] \in ToSet(h)
    BY LenProperties DEF Text
  <2>2. Append(d.out, h[i]) \in Seq(ToSet(h)) /\ d.out \in Seq(ToSet(h))
    BY <2>1, AppendProperties
  <2>3. (h[i] = Backslash) \in BOOLEAN
    OBVIOUS
  <2> QED
    BY <2>2, <2>3 DEF Turn
<1>4. f[Len(h)] \in D
  <2> HIDE DEF D
  <2> QED
    BY <1>1, <1>2, <1>3, LoopKeeps
<1> QED
  BY <1>1, <1>4

(* Only what follows a backslash is written.                               *)
LEMMA NothingWritten ==
  ASSUME NEW h, Text(h), Backslash \notin ToSet(h)
  PROVE  WrittenText(h) = <<>>
<1> DEFINE nothing == [out |-> <<>>, escape |-> FALSE]
<1>1. PICK f : LoopOf(h, f) /\ WrittenText(h) = f[Len(h)].out
  BY WrittenByLoop
<1>2. ASSUME NEW i \in 1..Len(h), NEW d \in {nothing}
      PROVE  Turn(h, d, i) \in {nothing}
  <2>1. h[i] \in ToSet(h)
    BY LenProperties DEF Text
  <2>2. (h[i] = Backslash) = FALSE
    BY <2>1
  <2>3. d.escape = FALSE /\ d.out = <<>>
    OBVIOUS
  <2>4. Turn(h, d, i) = [out |-> d.out, escape |-> h[i] = Backslash]
    BY <2>3, Zenon DEF Turn
  <2> QED
    BY <2>2, <2>3, <2>4, Zenon
<1>3. f[Len(h)] \in {nothing}
  <2> HIDE DEF nothing
  <2>1. [out |-> <<>>, escape |-> FALSE] \in {nothing}
    BY DEF nothing
  <2> QED
    BY <1>1, <1>2, <2>1, LoopKeeps
<1> QED
  BY <1>1, <1>3

-----------------------------------------------------------------------------
(* What is on the wire.                                                    *)

LEMMA SymbolKinds ==
  /\ FieldEnd \in Symbols /\ Backslash # FieldEnd
  /\ \A n \in Nat : /\ Symbol("number", n) \in Symbols
                    /\ Symbol("number", n).kind = "number" /\ Symbol("number", n).value = n
                    /\ Symbol("number", n) # FieldEnd /\ Symbol("number", n) # Backslash
  /\ \A a \in AnyAddress : /\ Symbol("address", a) \in Symbols
                           /\ Symbol("address", a).kind = "address" /\ Symbol("address", a).value = a
                           /\ Symbol("address", a) # FieldEnd /\ Symbol("address", a) # Backslash
BY DEF Symbol, FieldEnd, Backslash, Symbols

LEMMA HostnameIsText ==
  ASSUME NEW p \in Sent
  PROVE  /\ Text(p.hostname) /\ ToSet(p.hostname) \subseteq Symbols
         /\ FieldEnd \in ToSet(p.hostname) => \A s \in ToSet(p.hostname) : s.kind # "number"
         /\ WrittenText(p.hostname) \in Seq(Symbols)
         /\ WrittenText(p.hostname) \in Seq(ToSet(p.hostname))
<1> DEFINE h == p.hostname
<1>1. h \in Hostnames \/ h = <<>>
  BY DEF Sent
<1>2. CASE h \in Hostnames
  <2>1. Text(h)
    BY <1>2, HostnameAssumption DEF Text
  <2>2. FieldEnd \in ToSet(h) => \A s \in ToSet(h) : s.kind # "number"
    BY <1>2, HostnameAssumption DEF FieldEnd, Symbol
  <2>3. ToSet(h) \subseteq Symbols
    <3>1. ToSet(h) \in {ToSet(g) : g \in Hostnames}
      BY <1>2
    <3>2. \A s \in ToSet(h) : s \in UNION {ToSet(g) : g \in Hostnames}
      BY <3>1, Zenon
    <3> QED
      BY <3>2, Zenon DEF Symbols
  <2>4. WrittenText(h) \in Seq(ToSet(h))
    BY <2>1, WrittenIsOfText
  <2>5. WrittenText(h) \in Seq(Symbols)
    BY <2>3, <2>4, SeqMonotonic
  <2> QED
    BY <2>1, <2>2, <2>3, <2>4, <2>5
<1>3. CASE h = <<>>
  <2>1. ToSet(h) = {}
    BY <1>3 DEF ToSet
  <2>2. Text(h)
    BY <1>3, EmptySeq DEF Text
  <2>3. WrittenText(h) \in Seq(ToSet(h))
    BY <2>2, WrittenIsOfText
  <2>4. WrittenText(h) \in Seq(Symbols)
    BY <2>1, <2>3, SeqMonotonic
  <2> QED
    BY <2>1, <2>2, <2>3, <2>4
<1> QED
  BY <1>1, <1>2, <1>3

LEMMA Appended ==
  ASSUME NEW s, NEW t
  PROVE  Append(<<s>>, t) = <<s, t>>
<1> DEFINE one == <<s>>
           two == <<s, t>>
<1>1. one \in Seq({s, t}) /\ Len(one) = 1 /\ one[1] = s /\ t \in {s, t}
  OBVIOUS
<1>2. two \in Seq({s, t}) /\ Len(two) = 2 /\ two[1] = s /\ two[2] = t
  OBVIOUS
<1> HIDE DEF one, two
<1>3. /\ Append(one, t) \in Seq({s, t}) /\ Len(Append(one, t)) = 2
      /\ Append(one, t)[1] = s /\ Append(one, t)[2] = t
  <2>1. \A S : \A seq \in Seq(S), elt \in S :
          /\ Append(seq, elt) \in Seq(S) /\ Len(Append(seq, elt)) = Len(seq) + 1
          /\ \A i \in 1..Len(seq) : Append(seq, elt)[i] = seq[i]
          /\ Append(seq, elt)[Len(seq) + 1] = elt
    BY AppendProperties
  <2>2. /\ Append(one, t) \in Seq({s, t}) /\ Len(Append(one, t)) = Len(one) + 1
        /\ \A i \in 1..Len(one) : Append(one, t)[i] = one[i]
        /\ Append(one, t)[Len(one) + 1] = t
    BY <1>1, <2>1, Zenon
  <2> QED
    BY <1>1, <2>2
<1>4. Append(one, t) = two
  BY <1>2, <1>3, SeqEqual
<1> QED
  BY <1>4 DEF one, two

(* A field as it is written.                                               *)
LEMMA WrittenFields ==
  ASSUME NEW p \in Sent
  PROVE  /\ Written(p, "seqn") = <<Symbol("number", p.seqn), FieldEnd>>
         /\ Written(p, "timestamp") = <<Symbol("number", p.timestamp), FieldEnd>>
         /\ Written(p, "mac") = <<Symbol("address", p.mac), FieldEnd>>
         /\ Written(p, "ip") = <<Symbol("address", p.ip), FieldEnd>>
         /\ Written(p, "hostname") = WrittenText(p.hostname) \o <<FieldEnd>>
         /\ Written(p, "direction") = <<Symbol("number", DirectionCode[p.direction]), FieldEnd>>
         /\ Written(p, "type") = <<Symbol("number", TypeCode[p.type]), FieldEnd>>
<1>1. WrittenText(p.hostname) \in Seq(Symbols) /\ FieldEnd \in Symbols
  BY HostnameIsText, SymbolKinds
<1>2. Append(WrittenText(p.hostname), FieldEnd) = WrittenText(p.hostname) \o <<FieldEnd>>
  BY <1>1, AppendIsConcat
<1>3. Written(p, "hostname") = Append(WrittenText(p.hostname), FieldEnd)
  BY DEF Written, WriteField, Sent
<1>4. /\ WriteField("seqn", p.seqn) = <<Symbol("number", p.seqn)>>
      /\ WriteField("timestamp", p.timestamp) = <<Symbol("number", p.timestamp)>>
      /\ WriteField("mac", p.mac) = <<Symbol("address", p.mac)>>
      /\ WriteField("ip", p.ip) = <<Symbol("address", p.ip)>>
  BY DEF WriteField
<1>5. WriteField("direction", p.direction) = <<Symbol("number", DirectionCode[p.direction])>>
  BY DEF WriteField
<1>6. WriteField("type", p.type) = <<Symbol("number", TypeCode[p.type])>>
  BY DEF WriteField
<1> QED
  BY <1>2, <1>3, <1>4, <1>5, <1>6, Appended, Zenon DEF Written

LEMMA CodesAreNumbers ==
  /\ \A d \in Directions : DirectionCode[d] \in Nat
  /\ \A t \in Types : TypeCode[t] \in Nat
  /\ \A d, e \in Directions : DirectionCode[d] = DirectionCode[e] => d = e
  /\ \A t \in Types : TypeCode[t] = TypeCode.DISCOVERY => t = "DISCOVERY"
  /\ \A d \in Directions : DirectionCode[d] \in {0, 1}
BY DEF Directions, Types, DirectionCode, TypeCode

LEMMA PairOfSymbols ==
  ASSUME NEW s \in Symbols
  PROVE  <<s, FieldEnd>> \in Seq(Symbols) /\ <<FieldEnd>> \in Seq(Symbols)
BY SymbolKinds

LEMMA FieldsAreSymbols ==
  ASSUME NEW p \in Sent
  PROVE  /\ Written(p, "seqn") \in Seq(Symbols) /\ Written(p, "timestamp") \in Seq(Symbols)
         /\ Written(p, "mac") \in Seq(Symbols) /\ Written(p, "ip") \in Seq(Symbols)
         /\ Written(p, "hostname") \in Seq(Symbols)
         /\ Written(p, "direction") \in Seq(Symbols) /\ Written(p, "type") \in Seq(Symbols)
<1>1. /\ p.seqn \in Nat /\ p.timestamp \in Nat /\ p.mac \in AnyAddress /\ p.ip \in AnyAddress
      /\ DirectionCode[p.direction] \in Nat /\ TypeCode[p.type] \in Nat
  BY CodesAreNumbers DEF Sent
<1>2. /\ Symbol("number", p.seqn) \in Symbols /\ Symbol("number", p.timestamp) \in Symbols
      /\ Symbol("address", p.mac) \in Symbols /\ Symbol("address", p.ip) \in Symbols
      /\ Symbol("number", DirectionCode[p.direction]) \in Symbols
      /\ Symbol("number", TypeCode[p.type]) \in Symbols
  BY <1>1, SymbolKinds
<1>3. WrittenText(p.hostname) \o <<FieldEnd>> \in Seq(Symbols)
  BY HostnameIsText, <1>2, PairOfSymbols, ConcatProperties
<1> QED
  BY <1>2, <1>3, PairOfSymbols, WrittenFields, Zenon

LEMMA RestsAreSymbols ==
  ASSUME NEW p \in Sent
  PROVE  /\ Rest1(p) \in Seq(Symbols) /\ Rest2(p) \in Seq(Symbols) /\ Rest3(p) \in Seq(Symbols)
         /\ Rest4(p) \in Seq(Symbols) /\ Rest5(p) \in Seq(Symbols) /\ Rest6(p) \in Seq(Symbols)
         /\ Rest7(p) \in Seq(Symbols)
<1>7. Rest7(p) \in Seq(Symbols)
  BY FieldsAreSymbols DEF Rest7
<1>6. Rest6(p) \in Seq(Symbols)
  BY <1>7, FieldsAreSymbols, ConcatProperties DEF Rest6
<1>5. Rest5(p) \in Seq(Symbols)
  BY <1>6, FieldsAreSymbols, ConcatProperties DEF Rest5
<1>4. Rest4(p) \in Seq(Symbols)
  BY <1>5, FieldsAreSymbols, ConcatProperties DEF Rest4
<1>3. Rest3(p) \in Seq(Symbols)
  BY <1>4, FieldsAreSymbols, ConcatProperties DEF Rest3
<1>2. Rest2(p) \in Seq(Symbols)
  BY <1>3, FieldsAreSymbols, ConcatProperties DEF Rest2
<1>1. Rest1(p) \in Seq(Symbols)
  BY <1>2, FieldsAreSymbols, ConcatProperties DEF Rest1
<1> QED
  BY <1>1, <1>2, <1>3, <1>4, <1>5, <1>6, <1>7

LEMMA Regrouped ==
  ASSUME NEW s \in Seq(Symbols), NEW t \in Seq(Symbols), NEW u \in Seq(Symbols),
         NEW before, before = s \o t, NEW rest, rest = t \o u
  PROVE  before \o u = s \o rest
BY ConcatAssociative

(* The fields are appended to what is written already.                     *)
LEMMA SerializedWhole ==
  ASSUME NEW p \in Sent
  PROVE  Serialize(p) = Rest1(p)
<1> DEFINE a == Written(p, "seqn")
           b == Written(p, "timestamp")
           c == Written(p, "mac")
           d == Written(p, "ip")
           e == Written(p, "hostname")
           f == Written(p, "direction")
           written2 == a \o b
           written3 == written2 \o c
           written4 == written3 \o d
           written5 == written4 \o e
           written6 == written5 \o f
<1>0. /\ written2 = a \o b /\ written3 = written2 \o c /\ written4 = written3 \o d
      /\ written5 = written4 \o e /\ written6 = written5 \o f
  OBVIOUS
<1>1. /\ a \in Seq(Symbols) /\ b \in Seq(Symbols) /\ c \in Seq(Symbols) /\ d \in Seq(Symbols)
      /\ e \in Seq(Symbols) /\ f \in Seq(Symbols)
  BY FieldsAreSymbols
<1>2. Serialize(p) = written6 \o Rest7(p)
  BY DEF Serialize, WrittenHeader, Rest7
<1>3. /\ Rest6(p) = f \o Rest7(p) /\ Rest5(p) = e \o Rest6(p) /\ Rest4(p) = d \o Rest5(p)
      /\ Rest3(p) = c \o Rest4(p) /\ Rest2(p) = b \o Rest3(p) /\ Rest1(p) = a \o Rest2(p)
  BY DEF Rest1, Rest2, Rest3, Rest4, Rest5, Rest6
<1> HIDE DEF a, b, c, d, e, f
<1>4. written2 \in Seq(Symbols)
  BY <1>1, ConcatProperties
<1> HIDE DEF written2
<1>5. written3 \in Seq(Symbols)
  BY <1>1, <1>4, ConcatProperties
<1> HIDE DEF written3
<1>6. written4 \in Seq(Symbols)
  BY <1>1, <1>5, ConcatProperties
<1> HIDE DEF written4
<1>7. written5 \in Seq(Symbols)
  BY <1>1, <1>6, ConcatProperties
<1> HIDE DEF written5, written6
<1>8. written6 \o Rest7(p) = written5 \o Rest6(p)
  <2>1. written6 = written5 \o f /\ Rest6(p) = f \o Rest7(p)
    BY <1>0, <1>3
  <2>2. written5 \in Seq(Symbols) /\ f \in Seq(Symbols) /\ Rest7(p) \in Seq(Symbols)
    BY <1>1, <1>7, RestsAreSymbols
  <2> QED
    BY <2>1, <2>2, Regrouped
<1>9. written5 \o Rest6(p) = written4 \o Rest5(p)
  <2>1. written5 = written4 \o e /\ Rest5(p) = e \o Rest6(p)
    BY <1>0, <1>3
  <2>2. written4 \in Seq(Symbols) /\ e \in Seq(Symbols) /\ Rest6(p) \in Seq(Symbols)
    BY <1>1, <1>6, RestsAreSymbols
  <2> QED
    BY <2>1, <2>2, Regrouped
<1>10. written4 \o Rest5(p) = written3 \o Rest4(p)
  <2>1. written4 = written3 \o d /\ Rest4(p) = d \o Rest5(p)
    BY <1>0, <1>3
  <2>2. written3 \in Seq(Symbols) /\ d \in Seq(Symbols) /\ Rest5(p) \in Seq(Symbols)
    BY <1>1, <1>5, RestsAreSymbols
  <2> QED
    BY <2>1, <2>2, Regrouped
<1>11. written3 \o Rest4(p) = written2 \o Rest3(p)
  <2>1. written3 = written2 \o c /\ Rest3(p) = c \o Rest4(p)
    BY <1>0, <1>3
  <2>2. written2 \in Seq(Symbols) /\ c \in Seq(Symbols) /\ Rest4(p) \in Seq(Symbols)
    BY <1>1, <1>4, RestsAreSymbols
  <2> QED
    BY <2>1, <2>2, Regrouped
<1>12. written2 \o Rest3(p) = a \o Rest2(p)
  <2>1. written2 = a \o b /\ Rest2(p) = b \o Rest3(p)
    BY <1>0, <1>3
  <2>2. a \in Seq(Symbols) /\ b \in Seq(Symbols) /\ Rest3(p) \in Seq(Symbols)
    BY <1>1, RestsAreSymbols
  <2> QED
    BY <2>1, <2>2, Regrouped
<1> QED
  BY <1>2, <1>3, <1>8, <1>9, <1>10, <1>11, <1>12, Zenon

-----------------------------------------------------------------------------
(* Where a field ends.                                                     *)

(* A field of one symbol ends after it.                                    *)
LEMMA ShortField ==
  ASSUME NEW s \in Symbols, s # FieldEnd, s # Backslash, NEW rest \in Seq(Symbols),
         wire = <<s, FieldEnd>> \o rest
  PROVE  /\ wire[1] = s /\ FieldEndAt(2) /\ 2 \in DOMAIN wire /\ Ends # {}
         /\ \A j \in DOMAIN wire : FieldEndAt(j) => j = 2
         /\ SubSeq(wire, 3, Len(wire)) = rest
<1> DEFINE field == <<s, FieldEnd>>
<1>1. field \in Seq(Symbols) /\ Len(field) = 2 /\ field[1] = s /\ field[2] = FieldEnd
  BY SymbolKinds
<1>2. Len(rest) \in Nat
  BY LenProperties
<1> HIDE DEF field
<1>3. /\ wire \in Seq(Symbols) /\ Len(wire) = 2 + Len(rest)
      /\ \A i \in 1..(2 + Len(rest)) : wire[i] = IF i <= 2 THEN field[i] ELSE rest[i - 2]
  <2>1. wire = field \o rest
    BY DEF field
  <2> QED
    BY <1>1, <2>1, ConcatProperties
<1>4. DOMAIN wire = 1..(2 + Len(rest))
  BY <1>3, LenProperties
<1>5. 1 \in DOMAIN wire /\ 2 \in DOMAIN wire /\ wire[1] = s /\ wire[2] = FieldEnd
  BY <1>1, <1>2, <1>3, <1>4
<1>6. 2 \in Ends /\ 1 \notin Ends
  BY <1>5 DEF Ends
<1>7. FieldEndAt(2)
  BY <1>2, <1>4, <1>6 DEF FieldEndAt, Ends
<1>8. ASSUME NEW j \in DOMAIN wire, FieldEndAt(j)
      PROVE  j = 2
  <2>1. j <= 2 /\ j # 1
    BY <1>6, <1>8 DEF FieldEndAt
  <2> QED
    BY <1>2, <1>4, <2>1
<1>9. SubSeq(wire, 3, Len(wire)) = rest
  <2> DEFINE left == SubSeq(wire, 3, Len(wire))
  <2>1. \A i \in 3..Len(wire) : wire[i] \in Symbols
    BY <1>2, <1>3, <1>4, ElementOfSeq
  <2>2. /\ left \in Seq(Symbols) /\ Len(left) = Len(rest)
        /\ \A i \in 1..Len(rest) : left[i] = wire[i + 2]
    <3>1. /\ left \in Seq(Symbols)
          /\ Len(left) = IF 3 <= Len(wire) THEN Len(wire) - 3 + 1 ELSE 0
          /\ \A i \in 1..(Len(wire) - 3 + 1) : left[i] = wire[3 + i - 1]
      BY <1>2, <1>3, <2>1, SubSeqProperties
    <3> HIDE DEF left
    <3> QED
      BY <1>2, <1>3, <3>1
  <2> HIDE DEF left
  <2>3. ASSUME NEW i \in 1..Len(rest)
        PROVE  left[i] = rest[i]
    <3>1. i + 2 \in 1..(2 + Len(rest)) /\ ~(i + 2 <= 2) /\ (i + 2) - 2 = i
      BY <1>2
    <3>2. wire[i + 2] = rest[(i + 2) - 2]
      BY <1>3, <3>1, Zenon
    <3> QED
      BY <2>2, <3>1, <3>2
  <2>4. left = rest
    BY <2>2, <2>3, SeqEqual
  <2> QED
    BY <2>4 DEF left
<1> QED
  BY <1>5, <1>6, <1>7, <1>8, <1>9

LEMMA TwoSymbols ==
  ASSUME NEW w \in Seq(Symbols), Len(w) = 2, NEW s \in Symbols, NEW t \in Symbols,
         w[1] = s, w[2] = t
  PROVE  w = <<s, t>>
<1> DEFINE v == <<s, t>>
<1>1. v \in Seq(Symbols) /\ Len(v) = 2 /\ v[1] = s /\ v[2] = t
  OBVIOUS
<1> HIDE DEF v
<1>2. \A i \in 1..Len(w) : w[i] = v[i]
  BY <1>1
<1>3. w = v
  BY <1>1, <1>2, SeqEqual
<1> QED
  BY <1>3 DEF v

LEMMA FourSymbols ==
  ASSUME NEW w \in Seq(Symbols), Len(w) = 4,
         NEW a \in Symbols, NEW b \in Symbols, NEW c \in Symbols, NEW d \in Symbols,
         w[1] = a, w[2] = b, w[3] = c, w[4] = d
  PROVE  w = <<a, b>> \o <<c, d>>
<1> DEFINE first == <<a, b>>
           last == <<c, d>>
           v == first \o last
<1>1. /\ first \in Seq(Symbols) /\ Len(first) = 2 /\ first[1] = a /\ first[2] = b
      /\ last \in Seq(Symbols) /\ Len(last) = 2 /\ last[1] = c /\ last[2] = d
  OBVIOUS
<1> HIDE DEF first, last
<1>2. /\ v \in Seq(Symbols) /\ Len(v) = Len(first) + Len(last)
      /\ \A i \in 1..(Len(first) + Len(last)) :
           v[i] = IF i <= Len(first) THEN first[i] ELSE last[i - Len(first)]
  BY <1>1, ConcatProperties
<1> HIDE DEF v
<1>3. Len(v) = 4 /\ v[1] = a /\ v[2] = b /\ v[3] = c /\ v[4] = d
  BY <1>1, <1>2
<1>4. \A i \in 1..Len(w) : w[i] = v[i]
  BY <1>3
<1>5. w = v
  BY <1>2, <1>3, <1>4, SeqEqual
<1> QED
  BY <1>5 DEF v, first, last

(* From the host name on: what is written of it, its field end, and two    *)
(* more fields of one symbol.                                              *)
LEMMA HostnameOnwards ==
  ASSUME NEW p \in Sent, wire = Rest5(p)
  PROVE  LET text == WrittenText(p.hostname)
             n == Len(text)
         IN  /\ n \in Nat /\ wire \in Seq(Symbols) /\ Len(wire) = n + 5 /\ DOMAIN wire = 1..(n + 5)
             /\ \A i \in 1..n : wire[i] = text[i]
             /\ wire[n + 1] = FieldEnd
             /\ wire[n + 2] = Symbol("number", DirectionCode[p.direction])
             /\ wire[n + 3] = FieldEnd
             /\ wire[n + 4] = Symbol("number", TypeCode[p.type])
             /\ wire[n + 5] = FieldEnd
<1> DEFINE text == WrittenText(p.hostname)
           n == Len(text)
           d == Symbol("number", DirectionCode[p.direction])
           t == Symbol("number", TypeCode[p.type])
           last == <<t, FieldEnd>>
           two == <<d, FieldEnd>> \o last
           end == <<FieldEnd>>
           field == text \o end
<1>1. text \in Seq(Symbols) /\ n \in Nat
  BY HostnameIsText, LenProperties
<1>2. FieldEnd \in Symbols /\ d \in Symbols /\ t \in Symbols
  BY CodesAreNumbers, SymbolKinds DEF Sent
<1>3. wire = field \o two
  BY WrittenFields DEF Rest5, Rest6, Rest7
<1> HIDE DEF d, t, text
<1>4. two \in Seq(Symbols) /\ Len(two) = 4 /\ two[1] = d /\ two[2] = FieldEnd /\ two[3] = t
      /\ two[4] = FieldEnd
  <2> DEFINE first == <<d, FieldEnd>>
  <2>1. /\ first \in Seq(Symbols) /\ Len(first) = 2 /\ first[1] = d /\ first[2] = FieldEnd
        /\ last \in Seq(Symbols) /\ Len(last) = 2 /\ last[1] = t /\ last[2] = FieldEnd
    BY <1>2
  <2>2. two = first \o last
    OBVIOUS
  <2> HIDE DEF first, last, two
  <2>3. /\ two \in Seq(Symbols) /\ Len(two) = Len(first) + Len(last)
        /\ \A i \in 1..(Len(first) + Len(last)) :
             two[i] = IF i <= Len(first) THEN first[i] ELSE last[i - Len(first)]
    BY <2>1, <2>2, ConcatProperties
  <2> QED
    BY <2>1, <2>3
<1>5. end \in Seq(Symbols) /\ Len(end) = 1 /\ end[1] = FieldEnd
  BY <1>2
<1> HIDE DEF two, end
<1>6. /\ field \in Seq(Symbols) /\ Len(field) = n + 1
      /\ \A i \in 1..(n + 1) : field[i] = IF i <= n THEN text[i] ELSE end[i - n]
  BY <1>1, <1>5, ConcatProperties
<1> HIDE DEF field, n
<1>7. /\ wire \in Seq(Symbols) /\ Len(wire) = n + 5
      /\ \A i \in 1..(n + 5) : wire[i] = IF i <= n + 1 THEN field[i] ELSE two[i - (n + 1)]
  <2>1. /\ wire \in Seq(Symbols) /\ Len(wire) = Len(field) + Len(two)
        /\ \A i \in 1..(Len(field) + Len(two)) :
             wire[i] = IF i <= Len(field) THEN field[i] ELSE two[i - Len(field)]
    <3>1. field \in Seq(Symbols) /\ two \in Seq(Symbols)
      BY <1>4, <1>6
    <3> QED
      BY <1>3, <3>1, ConcatProperties
  <2> QED
    BY <1>1, <1>4, <1>6, <2>1
<1>8. DOMAIN wire = 1..(n + 5)
  BY <1>7, LenProperties
<1>9. \A i \in 1..n : wire[i] = text[i]
  BY <1>1, <1>6, <1>7
<1>10. wire[n + 1] = FieldEnd
  BY <1>1, <1>5, <1>6, <1>7
<1>11. wire[n + 2] = d /\ wire[n + 3] = FieldEnd /\ wire[n + 4] = t /\ wire[n + 5] = FieldEnd
  BY <1>1, <1>4, <1>7
<1> QED
  BY <1>1, <1>7, <1>8, <1>9, <1>10, <1>11 DEF n, d, t, text

LEMMA HostnameEnds ==
  ASSUME NEW p \in Sent, wire = Rest5(p)
  PROVE  Ends # {}
<1> DEFINE n == Len(WrittenText(p.hostname))
           d == Symbol("number", DirectionCode[p.direction])
<1>1. /\ n \in Nat /\ DOMAIN wire = 1..(n + 5)
      /\ wire[n + 2] = d /\ wire[n + 3] = FieldEnd
  BY HostnameOnwards
<1>2. d # Backslash
  BY CodesAreNumbers, SymbolKinds DEF Sent
<1> HIDE DEF d, n
<1>3. n + 3 \in Ends
  BY <1>1, <1>2 DEF Ends
<1> QED
  BY <1>3

(* It may end later than that only if something was written of it; then    *)
(* what is left begins with a symbol of it, or with its field end; or the  *)
(* field end was escaped, and the direction is gone with it.               *)
LEMMA HostnameField ==
  ASSUME NEW p \in Sent, wire = Rest5(p), NEW j \in DOMAIN wire, FieldEndAt(j)
  PROVE  LET left == SubSeq(wire, j + 1, Len(wire))
         IN  \/ /\ SubSeq(wire, 1, j - 1) = WrittenText(p.hostname)
                /\ left = Rest6(p)
             \/ /\ Backslash \in ToSet(p.hostname)
                /\ left # <<>> /\ left[1].kind # "number"
             \/ /\ Backslash \in ToSet(p.hostname)
                /\ left = Rest7(p)
<1> DEFINE text == WrittenText(p.hostname)
           n == Len(text)
           d == Symbol("number", DirectionCode[p.direction])
           t == Symbol("number", TypeCode[p.type])
           left == SubSeq(wire, j + 1, Len(wire))
<1>1. /\ n \in Nat /\ wire \in Seq(Symbols) /\ Len(wire) = n + 5 /\ DOMAIN wire = 1..(n + 5)
      /\ \A i \in 1..n : wire[i] = text[i]
      /\ wire[n + 1] = FieldEnd /\ wire[n + 2] = d /\ wire[n + 3] = FieldEnd
      /\ wire[n + 4] = t /\ wire[n + 5] = FieldEnd
  BY HostnameOnwards
<1>2. /\ d # FieldEnd /\ d # Backslash /\ t # FieldEnd /\ t # Backslash
      /\ d \in Symbols /\ t \in Symbols /\ FieldEnd \in Symbols
  BY CodesAreNumbers, SymbolKinds DEF Sent
<1>3. text \in Seq(ToSet(p.hostname)) /\ text \in Seq(Symbols)
  BY HostnameIsText
<1>4. j \in 1..(n + 5) /\ wire[j] = FieldEnd /\ (j = 1 \/ wire[j - 1] # Backslash)
  BY <1>1 DEF FieldEndAt, Ends
<1>5. Rest6(p) = <<d, FieldEnd>> \o <<t, FieldEnd>> /\ Rest7(p) = <<t, FieldEnd>>
  BY WrittenFields DEF Rest6, Rest7
<1> HIDE DEF d, t, n
<1>6. n + 3 \in Ends
  BY <1>1, <1>2 DEF Ends
<1>7. j <= n + 3 /\ j # n + 2
  BY <1>1, <1>2, <1>4, <1>6 DEF FieldEndAt
<1>8. /\ left \in Seq(Symbols) /\ Len(left) = (n + 5) - j
      /\ \A i \in 1..((n + 5) - j) : left[i] = wire[j + i]
  <2>1. \A i \in (j + 1)..Len(wire) : wire[i] \in Symbols
    BY <1>1, <1>4, ElementOfSeq
  <2>2. /\ left \in Seq(Symbols)
        /\ Len(left) = IF j + 1 <= Len(wire) THEN Len(wire) - (j + 1) + 1 ELSE 0
        /\ \A i \in 1..(Len(wire) - (j + 1) + 1) : left[i] = wire[j + 1 + i - 1]
    <3>1. j + 1 \in Int /\ Len(wire) \in Int
      BY <1>1, <1>4
    <3> QED
      BY <2>1, <3>1, SubSeqProperties
  <2> HIDE DEF left
  <2>3. /\ Len(wire) - (j + 1) + 1 = (n + 5) - j
        /\ (IF j + 1 <= Len(wire) THEN Len(wire) - (j + 1) + 1 ELSE 0) = (n + 5) - j
    BY <1>1, <1>4
  <2>4. \A i \in 1..((n + 5) - j) : j + 1 + i - 1 = j + i
    BY <1>1, <1>4
  <2>5. \A i \in 1..((n + 5) - j) : left[i] = wire[j + 1 + i - 1]
    BY <2>2, <2>3
  <2>6. \A i \in 1..((n + 5) - j) : left[i] = wire[j + i]
    BY <2>4, <2>5
  <2> QED
    BY <2>2, <2>3, <2>6
<1> HIDE DEF left
<1>9. ASSUME j <= n
      PROVE  /\ Backslash \in ToSet(p.hostname)
             /\ left # <<>> /\ left[1].kind # "number"
  <2>1. text # <<>>
    BY <1>1, <1>4, <1>9 DEF n
  <2>2. Backslash \in ToSet(p.hostname)
    BY <2>1, NothingWritten, HostnameIsText
  <2>3. \A i \in 1..n : text[i] \in ToSet(p.hostname)
    BY <1>3, ElementOfSeq DEF n
  <2>4. FieldEnd \in ToSet(p.hostname)
    BY <1>1, <1>4, <1>9, <2>3
  <2>5. left[1] = wire[j + 1] /\ left # <<>>
    BY <1>1, <1>4, <1>8, <1>9
  <2>6. wire[j + 1].kind # "number"
    <3>1. CASE j = n
      BY <1>1, <3>1 DEF FieldEnd, Symbol
    <3>2. CASE j < n
      <4>1. j + 1 \in 1..n
        BY <1>1, <1>4, <3>2
      <4>2. wire[j + 1] \in ToSet(p.hostname)
        BY <1>1, <2>3, <4>1
      <4> QED
        BY <2>4, <4>2, HostnameIsText
    <3> QED
      BY <1>1, <1>4, <1>9, <3>1, <3>2
  <2> QED
    BY <2>2, <2>5, <2>6
<1>10. ASSUME j = n + 1
       PROVE  SubSeq(wire, 1, j - 1) = text /\ left = Rest6(p)
  <2>1. SubSeq(wire, 1, j - 1) = text
    <3> DEFINE read == SubSeq(wire, 1, j - 1)
    <3>1. \A i \in 1..(j - 1) : wire[i] \in Symbols
      BY <1>1, <1>4, ElementOfSeq
    <3>2. /\ read \in Seq(Symbols) /\ Len(read) = IF 1 <= j - 1 THEN j - 1 - 1 + 1 ELSE 0
          /\ \A i \in 1..(j - 1 - 1 + 1) : read[i] = wire[1 + i - 1]
      BY <1>4, <3>1, SubSeqProperties
    <3> HIDE DEF read
    <3>3. Len(read) = Len(text) /\ \A i \in 1..Len(read) : read[i] = text[i]
      BY <1>1, <1>10, <3>2 DEF n
    <3>4. read = text
      BY <1>3, <3>2, <3>3, SeqEqual
    <3> QED
      BY <3>4 DEF read
  <2>2. Len(left) = 4 /\ left[1] = d /\ left[2] = FieldEnd /\ left[3] = t /\ left[4] = FieldEnd
    <3>1. (n + 5) - j = 4 /\ j + 1 = n + 2 /\ j + 2 = n + 3 /\ j + 3 = n + 4 /\ j + 4 = n + 5
      BY <1>1, <1>10
    <3>2. \A i \in 1..4 : left[i] = wire[j + i]
      BY <1>8, <3>1
    <3>3. left[1] = wire[n + 2] /\ left[2] = wire[n + 3] /\ left[3] = wire[n + 4]
          /\ left[4] = wire[n + 5]
      BY <3>1, <3>2
    <3> QED
      BY <1>1, <1>8, <3>1, <3>3
  <2>3. left = <<d, FieldEnd>> \o <<t, FieldEnd>>
    <3>1. left \in Seq(Symbols) /\ d \in Symbols /\ FieldEnd \in Symbols /\ t \in Symbols
      BY <1>2, <1>8
    <3> QED
      BY <2>2, <3>1, FourSymbols
  <2> QED
    BY <1>5, <2>1, <2>3
<1>11. ASSUME j = n + 3
       PROVE  Backslash \in ToSet(p.hostname) /\ left = Rest7(p)
  <2>1. n + 1 \notin Ends
    BY <1>1, <1>11 DEF FieldEndAt
  <2>2. n # 0
    BY <1>1, <2>1 DEF Ends
  <2>3. Backslash \in ToSet(p.hostname)
    BY <2>2, NothingWritten, HostnameIsText DEF n
  <2>4. Len(left) = 2 /\ left[1] = t /\ left[2] = FieldEnd
    <3>1. (n + 5) - j = 2 /\ j + 1 = n + 4 /\ j + 2 = n + 5
      BY <1>1, <1>11
    <3>2. \A i \in 1..2 : left[i] = wire[j + i]
      BY <1>8, <3>1
    <3>3. left[1] = wire[n + 4] /\ left[2] = wire[n + 5]
      BY <3>1, <3>2
    <3> QED
      BY <1>1, <1>8, <3>1, <3>3
  <2>5. left = <<t, FieldEnd>>
    BY <1>2, <1>8, <2>4, TwoSymbols
  <2> QED
    BY <1>5, <2>3, <2>5
<1>12. j <= n \/ j = n + 1 \/ j = n + 3
  BY <1>1, <1>4, <1>7
<1> QED
  BY <1>9, <1>10, <1>11, <1>12 DEF left

-----------------------------------------------------------------------------
(* The initial state, and what is sent.                                    *)

LEMMA Residues == \A n \in Nat : n % ReadModulus \in 0..(ReadModulus - 1)
BY CodecAssumption

LEMMA FieldNames ==
  /\ Fields[1] = "seqn" /\ Fields[2] = "timestamp" /\ Fields[3] = "mac" /\ Fields[4] = "ip"
  /\ Fields[5] = "hostname" /\ Fields[6] = "direction" /\ Fields[7] = "type"
  /\ Len(Fields) = 7
BY DEF Fields

LEMMA RestsInOrder ==
  ASSUME NEW p
  PROVE  /\ Rests(p)[1] = Rest1(p) /\ Rests(p)[2] = Rest2(p) /\ Rests(p)[3] = Rest3(p)
         /\ Rests(p)[4] = Rest4(p) /\ Rests(p)[5] = Rest5(p) /\ Rests(p)[6] = Rest6(p)
         /\ Rests(p)[7] = Rest7(p)
BY DEF Rests

LEMMA FreshIsFilled == FreshPacket \in Filled /\ FreshPacket \in Sent
<1>1. <<>> \in Seq(Symbols)
  BY EmptySeq
<1>2. 0 \in 0..(ReadModulus - 1) /\ NoAddress \in AnyAddress /\ "DISCOVERY" \in Types
      /\ "REQUEST" \in Directions
  BY CodecAssumption DEF AnyAddress, Types, Directions, TypeCode, DirectionCode
<1>3. FreshPacket = [seqn |-> 0, timestamp |-> 0, mac |-> NoAddress, ip |-> NoAddress,
                     hostname |-> <<>>, direction |-> "REQUEST", type |-> "DISCOVERY"]
  BY DEF FreshPacket, Packet
<1> QED
  BY <1>1, <1>2, <1>3 DEF Filled, Sent

LEMMA InitInv == Init => IInv
<1> SUFFICES ASSUME Init
             PROVE  IInv
  OBVIOUS
<1>1. TypeInv
  BY FreshIsFilled, EmptySeq DEF Init, TypeInv, Hosts
<1> QED
  BY <1>1 DEF Init, IInv, ReadingInv, AnswerInv, AcceptedAsSent, RejectedKeepsHeader,
              OnlyBackslashesDerail

(* A datagram has been sent.                                               *)
LEMMA SendStep ==
  ASSUME NEW p \in Sent, NEW host \in Hosts, Send(p, host), packet' \in [Hosts -> Filled],
         host = "client" => p.seqn = packet'["server"].seqn /\ p.direction = "RESPONSE"
                            /\ p.type = "DISCOVERY"
  PROVE  IInv'
<1>1. /\ origin' = p /\ to' = host /\ wire' = Serialize(p) /\ next' = 1 /\ verdict' = "reading"
  BY DEF Send
<1>2. wire' = Rest1(p) /\ wire' \in Seq(Symbols)
  BY <1>1, SerializedWhole, RestsAreSymbols
<1>3. TypeInv'
  BY <1>1, <1>2 DEF TypeInv
<1>4. Clean'
  <2>1. wire' = Rests(origin')[next']
    BY <1>1, <1>2, RestsInOrder
  <2>2. FilledIn'
    BY <1>1 DEF FilledIn
  <2> QED
    BY <2>1, <2>2 DEF Clean
<1>5. ReadingInv'
  BY <1>4 DEF ReadingInv
<1>6. AnswerInv'
  BY <1>1 DEF AnswerInv
<1> QED
  BY <1>1, <1>3, <1>5, <1>6
     DEF IInv, AcceptedAsSent, RejectedKeepsHeader, OnlyBackslashesDerail

LEMMA PacketIsSent ==
  ASSUME NEW seqn \in Nat, NEW timestamp \in Nat, NEW host \in Hosts, NEW hostname \in Hostnames,
         NEW direction \in Directions, NEW type \in Types
  PROVE  LET p == Packet(seqn, timestamp, host, hostname, direction, type)
         IN  p \in Sent /\ p.seqn = seqn /\ p.direction = direction /\ p.type = type
<1>1. host \in AnyAddress
  BY DEF AnyAddress
<1> QED
  BY <1>1 DEF Packet, Sent

LEMMA RequestStep == IInv /\ Request => IInv'
<1> SUFFICES ASSUME IInv, Request
             PROVE  IInv'
  OBVIOUS
<1>1. PICK seqn \in Numbers, timestamp \in Numbers, hostname \in Hostnames, type \in DOMAIN TypeCode :
        /\ Send(Packet(seqn, timestamp, "client", hostname, "REQUEST", type), "server")
        /\ packet' = [client |-> FreshPacket,
                      server |-> IF verdict = "rejected" /\ to = "server"
                                   THEN packet["server"] ELSE FreshPacket]
  BY DEF Request
<1> DEFINE p == Packet(seqn, timestamp, "client", hostname, "REQUEST", type)
<1>2. p \in Sent
  <2>1. seqn \in Nat /\ timestamp \in Nat
    BY CodecAssumption
  <2>2. "client" \in Hosts /\ "REQUEST" \in Directions /\ type \in Types
    BY DEF Hosts, Directions, DirectionCode, Types
  <2> QED
    BY <2>1, <2>2, PacketIsSent
<1>3. packet' \in [Hosts -> Filled]
  <2> DEFINE kept == IF verdict = "rejected" /\ to = "server" THEN packet["server"] ELSE FreshPacket
  <2>1. kept \in Filled /\ FreshPacket \in Filled
    BY FreshIsFilled DEF IInv, TypeInv, Hosts
  <2> HIDE DEF kept
  <2>2. [client |-> FreshPacket, server |-> kept] \in [Hosts -> Filled]
    BY <2>1 DEF Hosts
  <2> QED
    BY <1>1, <2>2 DEF kept
<1>4. "server" \in Hosts /\ "server" # "client" /\ Send(p, "server")
  BY <1>1 DEF Hosts
<1> HIDE DEF p
<1> QED
  BY <1>2, <1>3, <1>4, SendStep

LEMMA RespondStep == IInv /\ Respond => IInv'
<1> SUFFICES ASSUME IInv, Respond
             PROVE  IInv'
  OBVIOUS
<1>1. PICK timestamp \in Numbers, hostname \in Hostnames :
        Send(Packet(packet["server"].seqn, timestamp, "server", hostname, "RESPONSE",
                    packet["server"].type), "client")
  BY DEF Respond
<1>2. packet' = packet /\ packet \in [Hosts -> Filled]
  BY DEF Respond, IInv, TypeInv
<1> DEFINE q == packet["server"]
           p == Packet(q.seqn, timestamp, "server", hostname, "RESPONSE", q.type)
<1>3. q \in Filled
  BY <1>2 DEF Hosts
<1>4. q.seqn \in Nat /\ q.type = "DISCOVERY" /\ timestamp \in Nat
  BY <1>3, CodecAssumption DEF Filled
<1>5. "server" \in Hosts /\ "client" \in Hosts /\ "RESPONSE" \in Directions /\ "DISCOVERY" \in Types
  BY DEF Hosts, Directions, DirectionCode, Types, TypeCode
<1>6. p \in Sent /\ p.seqn = q.seqn /\ p.direction = "RESPONSE" /\ p.type = "DISCOVERY"
  BY <1>4, <1>5, PacketIsSent
<1>7. Send(p, "client") /\ p.seqn = packet'["server"].seqn
  BY <1>1, <1>2, <1>6
<1> HIDE DEF p, q
<1> QED
  BY <1>2, <1>5, <1>6, <1>7, SendStep

-----------------------------------------------------------------------------
(* What is read.                                                           *)

(* While nothing is wrong, each field is there with its end.               *)
LEMMA CleanWire ==
  ASSUME TypeInv, Clean
  PROVE  /\ next = 1 => wire = <<Symbol("number", origin.seqn), FieldEnd>> \o Rest2(origin)
         /\ next = 2 => wire = <<Symbol("number", origin.timestamp), FieldEnd>> \o Rest3(origin)
         /\ next = 3 => wire = <<Symbol("address", origin.mac), FieldEnd>> \o Rest4(origin)
         /\ next = 4 => wire = <<Symbol("address", origin.ip), FieldEnd>> \o Rest5(origin)
         /\ next = 5 => wire = Rest5(origin)
         /\ next = 6 => wire = <<Symbol("number", DirectionCode[origin.direction]), FieldEnd>>
                                 \o Rest7(origin)
         /\ next = 7 => wire = <<Symbol("number", TypeCode[origin.type]), FieldEnd>> \o <<>>
<1>1. origin \in Sent /\ wire = Rests(origin)[next]
  BY DEF TypeInv, Clean
<1>2. ASSUME next = 1
      PROVE  wire = <<Symbol("number", origin.seqn), FieldEnd>> \o Rest2(origin)
  <2>1. wire = Rest1(origin)
    BY <1>1, <1>2, RestsInOrder, Zenon
  <2> QED
    BY <1>1, <2>1, WrittenFields, Zenon DEF Rest1
<1>3. ASSUME next = 2
      PROVE  wire = <<Symbol("number", origin.timestamp), FieldEnd>> \o Rest3(origin)
  <2>1. wire = Rest2(origin)
    BY <1>1, <1>3, RestsInOrder, Zenon
  <2> QED
    BY <1>1, <2>1, WrittenFields, Zenon DEF Rest2
<1>4. ASSUME next = 3
      PROVE  wire = <<Symbol("address", origin.mac), FieldEnd>> \o Rest4(origin)
  <2>1. wire = Rest3(origin)
    BY <1>1, <1>4, RestsInOrder, Zenon
  <2> QED
    BY <1>1, <2>1, WrittenFields, Zenon DEF Rest3
<1>5. ASSUME next = 4
      PROVE  wire = <<Symbol("address", origin.ip), FieldEnd>> \o Rest5(origin)
  <2>1. wire = Rest4(origin)
    BY <1>1, <1>5, RestsInOrder, Zenon
  <2> QED
    BY <1>1, <2>1, WrittenFields, Zenon DEF Rest4
<1>6. ASSUME next = 6
      PROVE  wire = <<Symbol("number", DirectionCode[origin.direction]), FieldEnd>> \o Rest7(origin)
  <2>1. wire = Rest6(origin)
    BY <1>1, <1>6, RestsInOrder, Zenon
  <2> QED
    BY <1>1, <2>1, WrittenFields, Zenon DEF Rest6
<1>7. ASSUME next = 5
      PROVE  wire = Rest5(origin)
  BY <1>1, <1>7, RestsInOrder, Zenon
<1>8. ASSUME next = 7
      PROVE  wire = <<Symbol("number", TypeCode[origin.type]), FieldEnd>> \o <<>>
  <2>1. wire = Rest7(origin)
    BY <1>1, <1>8, RestsInOrder, Zenon
  <2>2. wire = <<Symbol("number", TypeCode[origin.type]), FieldEnd>> /\ wire \in Seq(Symbols)
    BY <1>1, <2>1, WrittenFields DEF Rest7, TypeInv
  <2>3. wire \o <<>> = wire
    BY <2>2, ConcatEmptySeq
  <2> QED
    BY <2>2, <2>3
<1> QED
  BY <1>2, <1>3, <1>4, <1>5, <1>6, <1>7, <1>8, Zenon

LEMMA NumberRead ==
  ASSUME NEW n \in Nat, NEW rest \in Seq(Symbols),
         wire = <<Symbol("number", n), FieldEnd>> \o rest
  PROVE  /\ wire[1].kind = "number" /\ wire[1].value = n /\ Ends # {}
         /\ wire[1] = Symbol("number", n)
         /\ \A j \in DOMAIN wire : FieldEndAt(j) => SubSeq(wire, j + 1, Len(wire)) = rest
<1> DEFINE s == Symbol("number", n)
<1>1. s \in Symbols /\ s # FieldEnd /\ s # Backslash /\ s.kind = "number" /\ s.value = n
  BY SymbolKinds
<1> HIDE DEF s
<1>2. wire = <<s, FieldEnd>> \o rest
  BY DEF s
<1>3. /\ wire[1] = s /\ Ends # {}
      /\ \A j \in DOMAIN wire : FieldEndAt(j) => j = 2
      /\ SubSeq(wire, 3, Len(wire)) = rest
  BY <1>1, <1>2, ShortField
<1>4. 2 + 1 = 3
  OBVIOUS
<1> QED
  BY <1>1, <1>3, <1>4 DEF s

LEMMA AddressRead ==
  ASSUME NEW a \in AnyAddress, NEW rest \in Seq(Symbols),
         wire = <<Symbol("address", a), FieldEnd>> \o rest
  PROVE  /\ wire[1].kind = "address" /\ wire[1].value = a /\ Ends # {}
         /\ \A j \in DOMAIN wire : FieldEndAt(j) => SubSeq(wire, j + 1, Len(wire)) = rest
<1> DEFINE s == Symbol("address", a)
<1>1. s \in Symbols /\ s # FieldEnd /\ s # Backslash /\ s.kind = "address" /\ s.value = a
  BY SymbolKinds
<1> HIDE DEF s
<1>2. wire = <<s, FieldEnd>> \o rest
  BY DEF s
<1>3. /\ wire[1] = s /\ Ends # {}
      /\ \A j \in DOMAIN wire : FieldEndAt(j) => j = 2
      /\ SubSeq(wire, 3, Len(wire)) = rest
  BY <1>1, <1>2, ShortField
<1>4. 2 + 1 = 3
  OBVIOUS
<1> QED
  BY <1>1, <1>3, <1>4

(* A field is stored in the packet of the host that reads.                 *)
LEMMA StoredIn ==
  ASSUME TypeInv, NEW j \in DOMAIN wire, NEW value, Store(j, value),
         NEW filled \in Filled, filled = [packet[to] EXCEPT ![Fields[next]] = value]
  PROVE  /\ packet' \in [Hosts -> Filled] /\ packet'[to] = filled
         /\ \A h \in Hosts : h # to => packet'[h] = packet[h]
         /\ to' = to /\ origin' = origin /\ wire' = SubSeq(wire, j + 1, Len(wire))
         /\ wire' \in Seq(Symbols)
         /\ verdict' = IF next = 7 THEN "accepted" ELSE "reading"
         /\ next' = IF next = 7 THEN 7 ELSE next + 1
<1>1. /\ packet \in [Hosts -> Filled] /\ to \in Hosts /\ wire \in Seq(Symbols)
  BY DEF TypeInv
<1>2. packet' = [packet EXCEPT ![to] = filled]
  BY DEF Store
<1>3. /\ packet' \in [Hosts -> Filled] /\ packet'[to] = filled
      /\ \A h \in Hosts : h # to => packet'[h] = packet[h]
  BY <1>1, <1>2
<1>4. SubSeq(wire, j + 1, Len(wire)) \in Seq(Symbols)
  <2>1. Len(wire) \in Nat /\ DOMAIN wire = 1..Len(wire)
    BY <1>1, LenProperties
  <2>2. \A i \in (j + 1)..Len(wire) : wire[i] \in Symbols
    BY <1>1, <2>1, ElementOfSeq
  <2> QED
    BY <2>1, <2>2, SubSeqProperties
<1>5. /\ to' = to /\ origin' = origin /\ wire' = SubSeq(wire, j + 1, Len(wire))
      /\ verdict' = IF next = Len(Fields) THEN "accepted" ELSE "reading"
      /\ next' = IF next = Len(Fields) THEN next ELSE next + 1
  BY DEF Store
<1> QED
  BY <1>3, <1>4, <1>5, FieldNames

(* A field before the last was stored: nothing is said of a verdict yet.   *)
LEMMA StoreStep ==
  ASSUME TypeInv, AnswerInv, next # 7, NEW j \in DOMAIN wire, NEW value, Store(j, value),
         NEW filled \in Filled, filled = [packet[to] EXCEPT ![Fields[next]] = value],
         (Clean \/ Derailed)'
  PROVE  IInv'
<1>1. /\ packet' \in [Hosts -> Filled]
      /\ \A h \in Hosts : h # to => packet'[h] = packet[h]
      /\ to' = to /\ origin' = origin /\ wire' \in Seq(Symbols)
      /\ verdict' = "reading" /\ next' = next + 1
  BY StoredIn
<1>2. TypeInv'
  BY <1>1 DEF TypeInv
<1>3. AnswerInv'
  BY <1>1 DEF AnswerInv, Hosts
<1>4. ReadingInv'
  BY DEF ReadingInv
<1> QED
  BY <1>1, <1>2, <1>3, <1>4
     DEF IInv, AcceptedAsSent, RejectedKeepsHeader, OnlyBackslashesDerail

LEMMA DerailedLate == ASSUME Derailed PROVE next \in {6, 7}
BY DEF Derailed

LEMMA ReadUintStep == IInv /\ ReadUint => IInv'
<1> SUFFICES ASSUME IInv, ReadUint
             PROVE  IInv'
  OBVIOUS
<1>1. PICK j \in DOMAIN wire :
        /\ verdict = "reading" /\ Fields[next] \in {"seqn", "timestamp"}
        /\ FieldEndAt(j) /\ wire[1].kind = "number"
        /\ Store(j, wire[1].value % ReadModulus)
  BY DEF ReadUint, Reading
<1>2. TypeInv /\ AnswerInv /\ origin \in Sent /\ next \in 1..7 /\ packet[to] \in Filled
  BY DEF IInv, TypeInv
<1>3. next = 1 \/ next = 2
  BY <1>1, <1>2, FieldNames
<1>4. Clean
  BY <1>1, <1>3, DerailedLate DEF IInv, ReadingInv
<1>5. CASE next = 1
  <2> DEFINE value == origin.seqn % ReadModulus
             filled == [packet[to] EXCEPT !.seqn = value]
  <2>1. origin.seqn \in Nat
    BY <1>2 DEF Sent
  <2>2. wire[1].value = origin.seqn /\ SubSeq(wire, j + 1, Len(wire)) = Rest2(origin)
    BY <1>1, <1>2, <1>4, <1>5, <2>1, CleanWire, RestsAreSymbols, NumberRead
  <2>3. value \in 0..(ReadModulus - 1)
    BY <2>1, Residues
  <2> HIDE DEF value
  <2>4. filled \in Filled /\ filled.seqn = value
    BY <1>2, <2>3 DEF Filled
  <2>5. filled = [packet[to] EXCEPT ![Fields[next]] = value] /\ Store(j, value)
    BY <1>1, <1>5, <2>2, FieldNames DEF value
  <2> HIDE DEF filled
  <2>6. /\ packet'[to] = filled /\ to' = to /\ origin' = origin /\ wire' = Rest2(origin) /\ next' = 2
    <3>1. /\ packet'[to] = filled /\ to' = to /\ origin' = origin
          /\ wire' = SubSeq(wire, j + 1, Len(wire)) /\ next' = IF next = 7 THEN 7 ELSE next + 1
      BY <1>2, <2>4, <2>5, StoredIn
    <3> QED
      BY <1>5, <2>2, <3>1
  <2>7. wire' = Rests(origin')[next']
    BY <2>6, RestsInOrder
  <2>8. FilledIn'
    BY <2>4, <2>6 DEF FilledIn, value
  <2> QED
    BY <1>2, <1>5, <2>4, <2>5, <2>7, <2>8, StoreStep DEF Clean
<1>6. CASE next = 2
  <2> DEFINE value == origin.timestamp % ReadModulus
             filled == [packet[to] EXCEPT !.timestamp = value]
  <2>1. origin.timestamp \in Nat
    BY <1>2 DEF Sent
  <2>2. wire[1].value = origin.timestamp /\ SubSeq(wire, j + 1, Len(wire)) = Rest3(origin)
    BY <1>1, <1>2, <1>4, <1>6, <2>1, CleanWire, RestsAreSymbols, NumberRead
  <2>3. value \in 0..(ReadModulus - 1)
    BY <2>1, Residues
  <2> HIDE DEF value
  <2>4. filled \in Filled /\ filled.timestamp = value /\ filled.seqn = packet[to].seqn
    BY <1>2, <2>3 DEF Filled
  <2>5. filled = [packet[to] EXCEPT ![Fields[next]] = value] /\ Store(j, value)
    BY <1>1, <1>6, <2>2, FieldNames DEF value
  <2> HIDE DEF filled
  <2>6. /\ packet'[to] = filled /\ to' = to /\ origin' = origin /\ wire' = Rest3(origin) /\ next' = 3
    <3>1. /\ packet'[to] = filled /\ to' = to /\ origin' = origin
          /\ wire' = SubSeq(wire, j + 1, Len(wire)) /\ next' = IF next = 7 THEN 7 ELSE next + 1
      BY <1>2, <2>4, <2>5, StoredIn
    <3> QED
      BY <1>6, <2>2, <3>1
  <2>7. wire' = Rests(origin')[next']
    BY <2>6, RestsInOrder
  <2>8. FilledIn'
    BY <1>4, <1>6, <2>4, <2>6 DEF FilledIn, Clean, value
  <2> QED
    BY <1>2, <1>6, <2>4, <2>5, <2>7, <2>8, StoreStep DEF Clean
<1> QED
  BY <1>3, <1>5, <1>6

LEMMA ReadAddressStep == IInv /\ ReadAddress => IInv'
<1> SUFFICES ASSUME IInv, ReadAddress
             PROVE  IInv'
  OBVIOUS
<1>1. PICK j \in DOMAIN wire :
        /\ verdict = "reading" /\ Fields[next] \in {"mac", "ip"}
        /\ FieldEndAt(j) /\ wire[1].kind = "address"
        /\ Store(j, wire[1].value)
  BY DEF ReadAddress, Reading
<1>2. TypeInv /\ AnswerInv /\ origin \in Sent /\ next \in 1..7 /\ packet[to] \in Filled
  BY DEF IInv, TypeInv
<1>3. next = 3 \/ next = 4
  BY <1>1, <1>2, FieldNames
<1>4. Clean
  BY <1>1, <1>3, DerailedLate DEF IInv, ReadingInv
<1>5. CASE next = 3
  <2> DEFINE filled == [packet[to] EXCEPT !.mac = origin.mac]
  <2>1. origin.mac \in AnyAddress
    BY <1>2 DEF Sent
  <2>2. wire[1].value = origin.mac /\ SubSeq(wire, j + 1, Len(wire)) = Rest4(origin)
    BY <1>1, <1>2, <1>4, <1>5, <2>1, CleanWire, RestsAreSymbols, AddressRead
  <2>3. filled \in Filled
    BY <1>2, <2>1 DEF Filled
  <2>4. /\ filled.mac = origin.mac
        /\ filled.seqn = packet[to].seqn /\ filled.timestamp = packet[to].timestamp
    BY <1>2 DEF Filled
  <2>5. filled = [packet[to] EXCEPT ![Fields[next]] = origin.mac] /\ Store(j, origin.mac)
    BY <1>1, <1>5, <2>2, FieldNames
  <2> HIDE DEF filled
  <2>6. /\ packet'[to] = filled /\ to' = to /\ origin' = origin /\ wire' = Rest4(origin) /\ next' = 4
    <3>1. /\ packet'[to] = filled /\ to' = to /\ origin' = origin
          /\ wire' = SubSeq(wire, j + 1, Len(wire)) /\ next' = IF next = 7 THEN 7 ELSE next + 1
      BY <1>2, <2>3, <2>5, StoredIn
    <3> QED
      BY <1>5, <2>2, <3>1
  <2>7. wire' = Rests(origin')[next']
    BY <2>6, RestsInOrder
  <2>8. FilledIn'
    BY <1>4, <1>5, <2>4, <2>6 DEF FilledIn, Clean
  <2> QED
    BY <1>2, <1>5, <2>3, <2>5, <2>7, <2>8, StoreStep DEF Clean
<1>6. CASE next = 4
  <2> DEFINE filled == [packet[to] EXCEPT !.ip = origin.ip]
  <2>1. origin.ip \in AnyAddress
    BY <1>2 DEF Sent
  <2>2. wire[1].value = origin.ip /\ SubSeq(wire, j + 1, Len(wire)) = Rest5(origin)
    BY <1>1, <1>2, <1>4, <1>6, <2>1, CleanWire, RestsAreSymbols, AddressRead
  <2>3. filled \in Filled
    BY <1>2, <2>1 DEF Filled
  <2>4. /\ filled.ip = origin.ip
        /\ filled.seqn = packet[to].seqn /\ filled.timestamp = packet[to].timestamp /\ filled.mac = packet[to].mac
    BY <1>2 DEF Filled
  <2>5. filled = [packet[to] EXCEPT ![Fields[next]] = origin.ip] /\ Store(j, origin.ip)
    BY <1>1, <1>6, <2>2, FieldNames
  <2> HIDE DEF filled
  <2>6. /\ packet'[to] = filled /\ to' = to /\ origin' = origin /\ wire' = Rest5(origin) /\ next' = 5
    <3>1. /\ packet'[to] = filled /\ to' = to /\ origin' = origin
          /\ wire' = SubSeq(wire, j + 1, Len(wire)) /\ next' = IF next = 7 THEN 7 ELSE next + 1
      BY <1>2, <2>3, <2>5, StoredIn
    <3> QED
      BY <1>6, <2>2, <3>1
  <2>7. wire' = Rests(origin')[next']
    BY <2>6, RestsInOrder
  <2>8. FilledIn'
    BY <1>4, <1>6, <2>4, <2>6 DEF FilledIn, Clean
  <2> QED
    BY <1>2, <1>6, <2>3, <2>5, <2>7, <2>8, StoreStep DEF Clean
<1> QED
  BY <1>3, <1>5, <1>6

LEMMA ReadTextStep == IInv /\ ReadText => IInv'
<1> SUFFICES ASSUME IInv, ReadText
             PROVE  IInv'
  OBVIOUS
<1>1. PICK j \in DOMAIN wire :
        /\ verdict = "reading" /\ Fields[next] = "hostname"
        /\ FieldEndAt(j) /\ Store(j, SubSeq(wire, 1, j - 1))
  BY DEF ReadText, Reading
<1>2. TypeInv /\ AnswerInv /\ origin \in Sent /\ next \in 1..7 /\ packet[to] \in Filled
  BY DEF IInv, TypeInv
<1>3. next = 5
  BY <1>1, <1>2, FieldNames
<1>4. Clean
  BY <1>1, <1>3, DerailedLate DEF IInv, ReadingInv
<1> DEFINE value == SubSeq(wire, 1, j - 1)
           filled == [packet[to] EXCEPT !.hostname = value]
           left == SubSeq(wire, j + 1, Len(wire))
<1>5. value \in Seq(Symbols)
  <2>1. wire \in Seq(Symbols) /\ Len(wire) \in Nat /\ DOMAIN wire = 1..Len(wire)
    BY <1>2, LenProperties DEF TypeInv
  <2>2. \A i \in 1..(j - 1) : wire[i] \in Symbols
    BY <2>1, ElementOfSeq
  <2> QED
    BY <2>1, <2>2, SubSeqProperties
<1>6. \/ value = WrittenText(origin.hostname) /\ left = Rest6(origin)
      \/ /\ Backslash \in ToSet(origin.hostname)
         /\ left # <<>> /\ left[1].kind # "number"
      \/ Backslash \in ToSet(origin.hostname) /\ left = Rest7(origin)
  BY <1>1, <1>2, <1>3, <1>4, CleanWire, HostnameField
<1> HIDE DEF value, left
<1>7. filled \in Filled
  BY <1>2, <1>5 DEF Filled
<1>8. /\ filled.hostname = value
      /\ filled.seqn = packet[to].seqn /\ filled.timestamp = packet[to].timestamp
      /\ filled.mac = packet[to].mac /\ filled.ip = packet[to].ip
  BY <1>2 DEF Filled
<1>9. filled = [packet[to] EXCEPT ![Fields[next]] = value] /\ Store(j, value)
  BY <1>1 DEF value
<1> HIDE DEF filled
<1>10. /\ packet'[to] = filled /\ to' = to /\ origin' = origin /\ wire' = left /\ next' = 6
  <2>1. /\ packet'[to] = filled /\ to' = to /\ origin' = origin
        /\ wire' = SubSeq(wire, j + 1, Len(wire)) /\ next' = IF next = 7 THEN 7 ELSE next + 1
    BY <1>2, <1>7, <1>9, StoredIn
  <2> QED
    BY <1>3, <2>1 DEF left
<1>11. (Clean \/ Derailed)'
  <2>1. CASE value = WrittenText(origin.hostname) /\ left = Rest6(origin)
    <3>1. wire' = Rests(origin')[next']
      BY <1>10, <2>1, RestsInOrder
    <3>2. FilledIn'
      BY <1>3, <1>4, <1>8, <1>10, <2>1 DEF FilledIn, Clean
    <3> QED
      BY <3>1, <3>2 DEF Clean
  <2>2. CASE Backslash \in ToSet(origin.hostname) /\ left # <<>> /\ left[1].kind # "number"
    BY <1>10, <2>2 DEF Derailed
  <2>3. CASE Backslash \in ToSet(origin.hostname) /\ left = Rest7(origin)
    BY <1>10, <2>3 DEF Derailed, Rest7
  <2> QED
    BY <1>6, <2>1, <2>2, <2>3
<1> QED
  BY <1>2, <1>3, <1>7, <1>9, <1>11, StoreStep

(* A field was rejected: the packet stays as it is filled in.              *)
LEMMA RejectStep ==
  ASSUME TypeInv, AnswerInv, Reject, RejectedKeepsHeader', OnlyBackslashesDerail'
  PROVE  IInv'
<1>1. /\ verdict' = "rejected" /\ origin' = origin /\ to' = to /\ wire' = wire
      /\ next' = next /\ packet' = packet
  BY DEF Reject
<1>2. TypeInv'
  BY <1>1 DEF TypeInv
<1>3. AnswerInv'
  BY <1>1 DEF AnswerInv
<1> QED
  BY <1>1, <1>2, <1>3 DEF IInv, ReadingInv, AcceptedAsSent

LEMMA ReadDirectionStep == IInv /\ ReadDirection => IInv'
<1> SUFFICES ASSUME IInv, ReadDirection
             PROVE  IInv'
  OBVIOUS
<1>1. PICK j \in DOMAIN wire :
        /\ verdict = "reading" /\ Fields[next] = "direction"
        /\ FieldEndAt(j) /\ wire[1].kind = "number"
        /\ \/ \E direction \in DOMAIN DirectionCode :
                wire[1].value = DirectionCode[direction] /\ Store(j, direction)
           \/ wire[1].value \notin {0, 1} /\ Reject
  BY DEF ReadDirection, Reading
<1>2. TypeInv /\ AnswerInv /\ origin \in Sent /\ next \in 1..7 /\ packet[to] \in Filled
  BY DEF IInv, TypeInv
<1>3. next = 6
  BY <1>1, <1>2, FieldNames
<1>4. origin.direction \in Directions /\ DirectionCode[origin.direction] \in Nat
      /\ TypeCode[origin.type] \in Nat
  BY <1>2, CodesAreNumbers DEF Sent
<1>5. ASSUME NEW direction \in Directions, Store(j, direction)
      PROVE  LET filled == [packet[to] EXCEPT !.direction = direction]
             IN  /\ filled \in Filled /\ filled = [packet[to] EXCEPT ![Fields[next]] = direction]
                 /\ filled.direction = direction
                 /\ filled.seqn = packet[to].seqn /\ filled.timestamp = packet[to].timestamp
                 /\ filled.mac = packet[to].mac /\ filled.ip = packet[to].ip
                 /\ filled.hostname = packet[to].hostname
                 /\ packet'[to] = filled /\ to' = to /\ origin' = origin
                 /\ wire' = SubSeq(wire, j + 1, Len(wire)) /\ next' = 7
  <2> DEFINE filled == [packet[to] EXCEPT !.direction = direction]
  <2>1. filled \in Filled
    BY <1>2, <1>5 DEF Filled
  <2>2. /\ filled.direction = direction
        /\ filled.seqn = packet[to].seqn /\ filled.timestamp = packet[to].timestamp
        /\ filled.mac = packet[to].mac /\ filled.ip = packet[to].ip
        /\ filled.hostname = packet[to].hostname
    BY <1>2 DEF Filled
  <2>3. filled = [packet[to] EXCEPT ![Fields[next]] = direction]
    BY <1>1
  <2> HIDE DEF filled
  <2>4. /\ packet'[to] = filled /\ to' = to /\ origin' = origin
        /\ wire' = SubSeq(wire, j + 1, Len(wire)) /\ next' = IF next = 7 THEN 7 ELSE next + 1
    BY <1>2, <1>5, <2>1, <2>3, StoredIn
  <2>5. next' = 7
    BY <1>3, <2>4
  <2> QED
    BY <2>1, <2>2, <2>3, <2>4, <2>5 DEF filled
<1>6. CASE Clean
  <2>1. /\ wire[1].value = DirectionCode[origin.direction]
        /\ SubSeq(wire, j + 1, Len(wire)) = Rest7(origin)
    BY <1>1, <1>2, <1>3, <1>4, <1>6, CleanWire, RestsAreSymbols, NumberRead
  <2>2. Store(j, origin.direction)
    <3>1. DirectionCode[origin.direction] \in {0, 1}
      BY <1>4, CodesAreNumbers
    <3>2. PICK direction \in Directions :
            DirectionCode[origin.direction] = DirectionCode[direction] /\ Store(j, direction)
      BY <1>1, <2>1, <3>1 DEF Directions
    <3>3. direction = origin.direction
      BY <1>4, <3>2, CodesAreNumbers
    <3> QED
      BY <3>2, <3>3
  <2> DEFINE filled == [packet[to] EXCEPT !.direction = origin.direction]
  <2>3. /\ filled \in Filled /\ filled = [packet[to] EXCEPT ![Fields[next]] = origin.direction]
        /\ filled.direction = origin.direction
        /\ filled.seqn = packet[to].seqn /\ filled.timestamp = packet[to].timestamp
        /\ filled.mac = packet[to].mac /\ filled.ip = packet[to].ip
        /\ filled.hostname = packet[to].hostname
        /\ packet'[to] = filled /\ to' = to /\ origin' = origin
        /\ wire' = SubSeq(wire, j + 1, Len(wire)) /\ next' = 7
    BY <1>4, <1>5, <2>2
  <2> HIDE DEF filled
  <2>4. wire' = Rests(origin')[next']
    BY <2>1, <2>3, RestsInOrder
  <2>5. FilledIn'
    <3>1. /\ packet[to].seqn = origin.seqn % ReadModulus
          /\ packet[to].timestamp = origin.timestamp % ReadModulus
          /\ packet[to].mac = origin.mac /\ packet[to].ip = origin.ip
          /\ packet[to].hostname = WrittenText(origin.hostname)
      BY <1>3, <1>6 DEF FilledIn, Clean
    <3>2. packet'[to'] = filled /\ origin' = origin
      BY <2>3
    <3> QED
      BY <2>3, <3>1, <3>2 DEF FilledIn
  <2>6. (Clean \/ Derailed)'
    BY <2>4, <2>5 DEF Clean
  <2>7. filled \in Filled /\ filled = [packet[to] EXCEPT ![Fields[next]] = origin.direction]
    BY <2>3
  <2> QED
    BY <1>2, <1>3, <2>2, <2>6, <2>7, StoreStep
<1>7. CASE Derailed
  <2>1. Backslash \in ToSet(origin.hostname) /\ wire = Written(origin, "type")
    BY <1>1, <1>3, <1>7 DEF Derailed
  <2>2. wire = <<Symbol("number", TypeCode[origin.type]), FieldEnd>> \o <<>>
    <3>1. wire = <<Symbol("number", TypeCode[origin.type]), FieldEnd>> /\ wire \in Seq(Symbols)
      BY <1>2, <2>1, WrittenFields DEF TypeInv
    <3>2. wire \o <<>> = wire
      BY <3>1, ConcatEmptySeq
    <3> QED
      BY <3>1, <3>2
  <2>3. SubSeq(wire, j + 1, Len(wire)) = <<>>
    <3>1. <<>> \in Seq(Symbols)
      BY EmptySeq
    <3> QED
      BY <1>1, <1>4, <2>2, <3>1, NumberRead
  <2>4. CASE \E direction \in Directions : Store(j, direction)
    <3>1. PICK direction \in Directions : Store(j, direction)
      BY <2>4
    <3> DEFINE filled == [packet[to] EXCEPT !.direction = direction]
    <3>2. /\ filled \in Filled /\ filled = [packet[to] EXCEPT ![Fields[next]] = direction]
          /\ origin' = origin /\ wire' = <<>> /\ next' = 7
      BY <1>5, <2>3, <3>1
    <3> HIDE DEF filled
    <3>3. Derailed'
      BY <2>1, <3>2 DEF Derailed
    <3> QED
      BY <1>2, <1>3, <3>1, <3>2, <3>3, StoreStep
  <2>5. CASE Reject
    <3>1. next' = 6 /\ origin' = origin /\ verdict' = "rejected"
      BY <1>3, <2>5 DEF Reject
    <3>2. RejectedKeepsHeader' /\ OnlyBackslashesDerail'
      BY <2>1, <3>1, FieldNames DEF RejectedKeepsHeader, OnlyBackslashesDerail
    <3> QED
      BY <1>2, <2>5, <3>2, RejectStep
  <2> QED
    BY <1>1, <2>4, <2>5 DEF Directions
<1> QED
  BY <1>1, <1>6, <1>7 DEF IInv, ReadingInv

LEMMA ReadTypeStep == IInv /\ ReadType => IInv'
<1> SUFFICES ASSUME IInv, ReadType
             PROVE  IInv'
  OBVIOUS
<1>1. PICK j \in DOMAIN wire :
        /\ verdict = "reading" /\ Fields[next] = "type"
        /\ FieldEndAt(j) /\ wire[1].kind = "number"
        /\ \/ wire[1].value = TypeCode.DISCOVERY /\ Store(j, "DISCOVERY")
           \/ wire[1].value # TypeCode.DISCOVERY /\ Reject
  BY DEF ReadType, Reading
<1>2. TypeInv /\ AnswerInv /\ origin \in Sent /\ next \in 1..7 /\ packet[to] \in Filled
  BY DEF IInv, TypeInv
<1>3. next = 7
  BY <1>1, <1>2, FieldNames
<1>4. wire # <<>>
  BY <1>1
<1>5. Clean
  BY <1>1, <1>3, <1>4 DEF IInv, ReadingInv, Derailed
<1>6. wire[1].value = TypeCode[origin.type]
  <2>1. TypeCode[origin.type] \in Nat /\ <<>> \in Seq(Symbols)
    BY <1>2, CodesAreNumbers, EmptySeq DEF Sent
  <2> QED
    BY <1>2, <1>3, <1>5, <2>1, CleanWire, NumberRead
<1>7. /\ packet[to].seqn = origin.seqn % ReadModulus
      /\ packet[to].timestamp = origin.timestamp % ReadModulus
      /\ packet[to].mac = origin.mac /\ packet[to].ip = origin.ip
      /\ packet[to].hostname = WrittenText(origin.hostname)
      /\ packet[to].direction = origin.direction /\ packet[to].type = "DISCOVERY"
  BY <1>2, <1>3, <1>5 DEF Clean, FilledIn, Filled
<1>8. packet[to] = [Mangled(origin) EXCEPT !.type = "DISCOVERY"]
  BY <1>2, <1>7 DEF Filled, Mangled
<1>9. CASE wire[1].value = TypeCode.DISCOVERY /\ Store(j, "DISCOVERY")
  <2> DEFINE filled == [packet[to] EXCEPT !.type = "DISCOVERY"]
  <2>1. origin.type = "DISCOVERY"
    BY <1>2, <1>6, <1>9, CodesAreNumbers DEF Sent
  <2>2. filled \in Filled /\ filled = packet[to]
    BY <1>2, <1>7 DEF Filled
  <2>3. filled = [packet[to] EXCEPT ![Fields[next]] = "DISCOVERY"]
    BY <1>1
  <2> HIDE DEF filled
  <2>4. /\ packet' \in [Hosts -> Filled] /\ packet'[to] = filled
        /\ \A h \in Hosts : h # to => packet'[h] = packet[h]
        /\ to' = to /\ origin' = origin /\ wire' \in Seq(Symbols)
        /\ verdict' = IF next = 7 THEN "accepted" ELSE "reading"
        /\ next' = IF next = 7 THEN 7 ELSE next + 1
    BY <1>2, <1>9, <2>2, <2>3, StoredIn
  <2>5. verdict' = "accepted" /\ next' = 7
    BY <1>3, <2>4
  <2>6. TypeInv'
    BY <1>2, <2>4, <2>5 DEF TypeInv
  <2>7. AnswerInv'
    BY <1>2, <2>4 DEF AnswerInv, Hosts
  <2>8. packet[to] = Mangled(origin)
    BY <1>8, <2>1 DEF Mangled
  <2>9. AcceptedAsSent'
    BY <2>2, <2>4, <2>8 DEF AcceptedAsSent, Mangled
  <2> QED
    BY <2>5, <2>6, <2>7, <2>9
       DEF IInv, ReadingInv, RejectedKeepsHeader, OnlyBackslashesDerail
<1>10. CASE wire[1].value # TypeCode.DISCOVERY /\ Reject
  <2>1. origin.type # "DISCOVERY"
    BY <1>6, <1>10
  <2>2. /\ verdict' = "rejected" /\ origin' = origin /\ to' = to /\ next' = 7 /\ packet' = packet
    BY <1>3, <1>10 DEF Reject
  <2>3. RejectedKeepsHeader'
    BY <1>8, <2>1, <2>2 DEF RejectedKeepsHeader, Mangled
  <2>4. OnlyBackslashesDerail'
    BY <2>2, FieldNames DEF OnlyBackslashesDerail
  <2> QED
    BY <1>2, <1>10, <2>3, <2>4, RejectStep
<1> QED
  BY <1>1, <1>9, <1>10

LEMMA ThrowStep == IInv /\ Throw => IInv'
<1> SUFFICES ASSUME IInv, Throw
             PROVE  IInv'
  OBVIOUS
<1>1. /\ verdict = "reading" /\ verdict' = "thrown" /\ origin' = origin /\ to' = to
      /\ wire' = wire /\ next' = next /\ packet' = packet
  BY DEF Throw
<1>2. TypeInv /\ AnswerInv /\ origin \in Sent /\ next \in 1..7
  BY DEF IInv, TypeInv
<1>3. ~Clean
  <2> SUFFICES ASSUME Clean
               PROVE  FALSE
    OBVIOUS
  <2>1. /\ origin.seqn \in Nat /\ origin.timestamp \in Nat
        /\ origin.mac \in AnyAddress /\ origin.ip \in AnyAddress
        /\ DirectionCode[origin.direction] \in Nat /\ TypeCode[origin.type] \in Nat
        /\ <<>> \in Seq(Symbols)
    BY <1>2, CodesAreNumbers, EmptySeq DEF Sent
  <2>2. CASE next = 1
    <3>1. Ends # {} /\ wire[1].kind = "number"
      BY <1>2, <2>1, <2>2, CleanWire, RestsAreSymbols, NumberRead
    <3> QED
      BY <2>2, <3>1, FieldNames DEF Throw, Reading
  <2>3. CASE next = 2
    <3>1. Ends # {} /\ wire[1].kind = "number"
      BY <1>2, <2>1, <2>3, CleanWire, RestsAreSymbols, NumberRead
    <3> QED
      BY <2>3, <3>1, FieldNames DEF Throw, Reading
  <2>4. CASE next = 3
    <3>1. Ends # {} /\ wire[1].kind = "address"
      BY <1>2, <2>1, <2>4, CleanWire, RestsAreSymbols, AddressRead
    <3> QED
      BY <1>1, <2>4, <3>1, FieldNames DEF Throw, Reading
  <2>5. CASE next = 4
    <3>1. Ends # {} /\ wire[1].kind = "address"
      BY <1>2, <2>1, <2>5, CleanWire, RestsAreSymbols, AddressRead
    <3> QED
      BY <1>1, <2>5, <3>1, FieldNames DEF Throw, Reading
  <2>6. CASE next = 5
    <3>1. wire = Rest5(origin)
      BY <1>2, <2>6, CleanWire
    <3>2. Ends # {}
      BY <1>2, <3>1, HostnameEnds
    <3> QED
      BY <1>1, <2>6, <3>2, FieldNames DEF Throw, Reading
  <2>7. CASE next = 6
    <3>1. Ends # {} /\ wire[1].kind = "number"
      BY <1>2, <2>1, <2>7, CleanWire, RestsAreSymbols, NumberRead
    <3> QED
      BY <2>7, <3>1, FieldNames DEF Throw, Reading
  <2>8. CASE next = 7
    <3>1. Ends # {} /\ wire[1].kind = "number"
      BY <1>2, <2>1, <2>8, CleanWire, NumberRead
    <3> QED
      BY <2>8, <3>1, FieldNames DEF Throw, Reading
  <2> QED
    BY <1>2, <2>2, <2>3, <2>4, <2>5, <2>6, <2>7, <2>8
<1>4. Backslash \in ToSet(origin.hostname)
  BY <1>1, <1>3 DEF IInv, ReadingInv, Derailed
<1>5. TypeInv'
  BY <1>1, <1>2 DEF TypeInv
<1>6. AnswerInv'
  BY <1>1, <1>2 DEF AnswerInv
<1> QED
  BY <1>1, <1>4, <1>5, <1>6
     DEF IInv, ReadingInv, AcceptedAsSent, RejectedKeepsHeader, OnlyBackslashesDerail

-----------------------------------------------------------------------------
(* The theorems.                                                           *)

LEMMA StepInv == IInv /\ [Next]_vars => IInv'
<1> SUFFICES ASSUME IInv, [Next]_vars
             PROVE  IInv'
  OBVIOUS
<1>1. CASE Request
  BY <1>1, RequestStep
<1>2. CASE Respond
  BY <1>2, RespondStep
<1>3. CASE ReadUint
  BY <1>3, ReadUintStep
<1>4. CASE ReadAddress
  BY <1>4, ReadAddressStep
<1>5. CASE ReadText
  BY <1>5, ReadTextStep
<1>6. CASE ReadDirection
  BY <1>6, ReadDirectionStep
<1>7. CASE ReadType
  BY <1>7, ReadTypeStep
<1>8. CASE Throw
  BY <1>8, ThrowStep
<1>9. CASE UNCHANGED vars
  BY <1>9 DEF vars, IInv, TypeInv, ReadingInv, Clean, Derailed, FilledIn, AnswerInv,
              AcceptedAsSent, RejectedKeepsHeader, OnlyBackslashesDerail
<1> QED
  BY <1>1, <1>2, <1>3, <1>4, <1>5, <1>6, <1>7, <1>8, <1>9 DEF Next, Deserialize

LEMMA Invariance == Spec => []IInv
<1> QED
  BY InitInv, StepInv, PTL DEF Spec

(* Whatever arrives, the object it is read into stays a packet: numbers of *)
(* 16 bits, an address of a host, a direction and a type of the code.      *)
THEOREM Typing == Spec => []TypeOK
<1>1. IInv => TypeOK
  <2> SUFFICES ASSUME IInv
               PROVE  TypeOK
    OBVIOUS
  <2>1. /\ to \in Hosts /\ next \in 1..7 /\ packet \in [Hosts -> Filled]
        /\ verdict \in {"none", "reading", "accepted", "rejected", "thrown"}
    BY DEF IInv, TypeInv
  <2>2. DOMAIN Fields = 1..7
    BY DEF Fields
  <2>3. ToSet(Fields) = {"seqn", "timestamp", "mac", "ip", "hostname", "direction", "type"}
    BY <2>2, FieldNames DEF ToSet
  <2>4. ASSUME NEW h \in Hosts
        PROVE  /\ DOMAIN packet[h] = ToSet(Fields)
               /\ packet[h].seqn \in 0..(ReadModulus - 1)
               /\ packet[h].timestamp \in 0..(ReadModulus - 1)
               /\ packet[h].mac \in Hosts \cup {NoAddress}
               /\ packet[h].ip \in Hosts \cup {NoAddress}
               /\ packet[h].direction \in DOMAIN DirectionCode
               /\ packet[h].type \in DOMAIN TypeCode
    <3>1. packet[h] \in Filled
      BY <2>1
    <3>2. DOMAIN packet[h] = ToSet(Fields)
      BY <2>3, <3>1 DEF Filled
    <3>3. "DISCOVERY" \in DOMAIN TypeCode
      BY DEF TypeCode
    <3> QED
      BY <3>1, <3>2, <3>3 DEF Filled, AnyAddress, Directions
  <2> QED
    BY <2>1, <2>2, <2>4 DEF TypeOK
<1> QED
  BY <1>1, Invariance, PTL

(* A packet is accepted as it was sent, but for the high bits of its       *)
(* numbers and what is not written of its host name: nothing is left in it *)
(* from a datagram before, and no two fields are mistaken for each other,  *)
(* wherever a host name has backslashes.                                   *)
THEOREM Accepted == Spec => []AcceptedAsSent
<1>1. IInv => AcceptedAsSent
  BY DEF IInv
<1> QED
  BY <1>1, Invariance, PTL

(* A packet that is rejected for its type has the header that was sent:    *)
(* what monitoring_main reads of an EXIT request.                          *)
THEOREM Rejected == Spec => []RejectedKeepsHeader
<1>1. IInv => RejectedKeepsHeader
  BY DEF IInv
<1> QED
  BY <1>1, Invariance, PTL

(* The deserializer throws, or rejects a direction, only after a backslash *)
(* in a host name.                                                         *)
THEOREM Derailing == Spec => []OnlyBackslashesDerail
<1>1. IInv => OnlyBackslashesDerail
  BY DEF IInv
<1> QED
  BY <1>1, Invariance, PTL

(* An accepted answer carries the number of the request it answers.        *)
THEOREM Answering == Spec => []AnswerCarriesItsRequest
<1>1. IInv => AnswerCarriesItsRequest
  <2> SUFFICES ASSUME IInv, to = "client", verdict = "accepted"
               PROVE  packet["client"] = [Mangled(origin) EXCEPT !.seqn = packet["server"].seqn,
                                            !.direction = "RESPONSE", !.type = "DISCOVERY"]
    BY DEF AnswerCarriesItsRequest
  <2>1. packet["client"] = Mangled(origin)
    BY DEF IInv, AcceptedAsSent
  <2>2. packet["server"] \in Filled /\ packet["client"] \in Filled
    BY DEF IInv, TypeInv, Hosts
  <2>3. Mangled(origin).seqn = packet["server"].seqn
    <3>1. origin.seqn = packet["server"].seqn
      BY DEF IInv, AnswerInv
    <3>2. packet["server"].seqn \in 0..(ReadModulus - 1)
      BY <2>2 DEF Filled
    <3>3. packet["server"].seqn % ReadModulus = packet["server"].seqn
      BY <3>2, CodecAssumption
    <3> QED
      BY <3>1, <3>3 DEF Mangled
  <2>4. Mangled(origin).direction = "RESPONSE" /\ Mangled(origin).type = "DISCOVERY"
    BY DEF IInv, AnswerInv, Mangled
  <2> QED
    BY <2>1, <2>3, <2>4 DEF Mangled
<1> QED
  BY <1>1, Invariance, PTL


===============================================================================
