--------------------------- MODULE Addresses_proofs ---------------------------
(***************************************************************************)
(* Lookups, and the parsing of every text, for addresses of any length.    *)
(*                                                                         *)
(* The inductive invariant follows the stream.  While nothing has failed   *)
(* it stands where the octets that were stored say.  A failure before the  *)
(* end of the text never reaches the end, which is demanded; one at the    *)
(* end can be followed only by guesses, unless the last octet raised it.   *)
(***************************************************************************)
EXTENDS Addresses, SequenceTheorems, TLAPS

Reading == {"octet", "separator", "end", "parsed"}

AnyToken == [kind : {"number", "separator", "other"}, value : Nat]

SequenceInv == text \in Seq(AnyToken) /\ address \in Seq(0..255)

TypeInv ==
  /\ phase \in {"idle", "load_mac", "loaded", "thrown"} \cup Reading
  /\ probe \in Nat \ {0} /\ descriptors \in Nat
  /\ position \in Nat \ {0}
  /\ eof \in BOOLEAN /\ fail \in BOOLEAN /\ indeterminate \in BOOLEAN

(* What was extracted is numbers with separators between them; only an     *)
(* extraction of the last token meets the end.                             *)
ExtractedInv ==
  /\ position <= Len(text) + 1
  /\ \A i \in 1..(position - 1) :
       IF i % 2 = 1 THEN text[i].kind = "number" ELSE text[i] = Separator
  /\ eof => position = Len(text) + 1

(* The first octets of the address are the first numbers of the text.      *)
Copied(octets) ==
  \A i \in 1..octets :
    /\ 2 * i - 1 < position
    /\ text[2 * i - 1].value <= UnsignedMax /\ address[i] = text[2 * i - 1].value % 256

(* A parse is at a turn of its loop; the stream has given no more than the *)
(* octets that were stored and the separators between them.                *)
LoopInv ==
  /\ phase = "octet" => Len(address) < Octets /\ position <= 2 * Len(address) + 1
  /\ phase = "separator" => Len(address) \in 1..(Octets - 1) /\ position <= 2 * Len(address)
  /\ phase \in {"end", "parsed"} => Len(address) = Octets /\ position <= 2 * Octets
  /\ phase = "parsed" => eof

(* Until something fails it has given just them.                           *)
GoodInv ==
  /\ phase \in Reading /\ ~fail => Copied(Len(address)) /\ ~indeterminate
  /\ phase = "octet" /\ ~fail => position = 2 * Len(address) + 1 /\ ~eof
  /\ phase \in Reading \ {"octet"} /\ ~fail =>
       position = 2 * Len(address) /\ (position > Len(text) => eof)

(* The last number does not fit an unsigned.                               *)
Overflowed ==
  /\ position = 2 * Octets
  /\ Copied(Octets - 1)
  /\ text[2 * Octets - 1].value > UnsignedMax /\ address[Octets] = 255

(* What a failure leaves: a guess, a number too large, or text that will   *)
(* never be extracted.                                                     *)
FailInv ==
  /\ phase \in Reading /\ indeterminate => position < 2 * Octets
  /\ phase \in {"end", "parsed"} /\ fail /\ eof /\ ~indeterminate => Overflowed

(* Nothing fails in a text that was rendered.                              *)
RenderedInv ==
  /\ phase \notin Reading \cup {"thrown"} => origin = <<>>
  /\ origin # <<>> =>
       /\ origin \in [1..Octets -> Bytes] /\ text = Render(origin)
       /\ phase \in Reading /\ ~fail

IInv ==
  /\ SequenceInv /\ TypeInv /\ LoadedIsOwn
  /\ ExtractedInv /\ LoopInv /\ GoodInv /\ FailInv /\ RenderedInv

-----------------------------------------------------------------------------
(* Operators.                                                              *)

LEMMA BytesAreSmall ==
  ASSUME NEW b \in Bytes
  PROVE  b \in Nat /\ b \in 0..255 /\ b <= UnsignedMax /\ b % 256 = b
<1>1. b \in 0..255 /\ b % 256 = b
  BY AddressAssumption
<1>2. UnsignedMax >= 255
  BY AddressAssumption
<1> QED
  BY <1>1, <1>2, AddressAssumption

LEMMA TextsAreTexts == \A t \in Texts : t \in Seq(AnyToken)
<1>1. Tokens \subseteq AnyToken
  BY AddressAssumption DEF Tokens, AnyToken, Number, Separator, Other, Token
<1>2. ASSUME NEW length \in 0..MaxTokens, NEW t \in [1..length -> Tokens]
      PROVE  t \in Seq(AnyToken)
  BY <1>1, <1>2, AddressAssumption
<1> QED
  BY <1>2 DEF Texts

(* A rendered address is a text, written as parsing demands.               *)
LEMMA Rendered ==
  ASSUME NEW octets \in [1..Octets -> Bytes]
  PROVE  /\ Render(octets) \in Seq(AnyToken)
         /\ Len(Render(octets)) = 2 * Octets - 1
         /\ \A i \in 1..Octets : Render(octets)[2 * i - 1] = Number(octets[i])
         /\ \A i \in 1..(Octets - 1) : Render(octets)[2 * i] = Separator
<1> DEFINE n == 2 * Octets - 1
<1>1. n \in Nat
  BY AddressAssumption
<1>2. \A i \in 1..n : Separated(octets, n)[i] \in AnyToken
  <2>1. \A i \in 1..n : i % 2 = 1 => (i + 1) \div 2 \in 1..Octets
    BY AddressAssumption
  <2>2. Separator \in AnyToken
    BY DEF AnyToken, Separator, Token
  <2>3. ASSUME NEW i \in 1..Octets
        PROVE  Number(octets[i]) \in AnyToken
    <3>1. octets[i] \in Bytes
      OBVIOUS
    <3>2. octets[i] \in Nat
      BY <3>1, BytesAreSmall, Zenon
    <3> QED
      BY <3>2 DEF AnyToken, Number, Token
  <2> QED
    BY <2>1, <2>2, <2>3 DEF Separated
<1>3. Separated(octets, n) \in Seq(AnyToken) /\ Len(Separated(octets, n)) = n
  BY <1>1, <1>2 DEF Separated
<1>4. ASSUME NEW i \in 1..Octets
      PROVE  Separated(octets, n)[2 * i - 1] = Number(octets[i])
  <2>1. 2 * i - 1 \in 1..n /\ (2 * i - 1) % 2 = 1 /\ ((2 * i - 1) + 1) \div 2 = i
    BY AddressAssumption
  <2> QED
    BY <2>1, Zenon DEF Separated
<1>5. ASSUME NEW i \in 1..(Octets - 1)
      PROVE  Separated(octets, n)[2 * i] = Separator
  <2>1. 2 * i \in 1..n /\ (2 * i) % 2 # 1
    BY AddressAssumption
  <2> QED
    BY <2>1, Zenon DEF Separated
<1> QED
  BY <1>3, <1>4, <1>5 DEF Render

-----------------------------------------------------------------------------
(* IInv is inductive.                                                      *)

LEMMA AddressesInit == Init => IInv
<1> SUFFICES ASSUME Init
             PROVE  IInv
  OBVIOUS
<1>1. <<>> \in Seq(AnyToken) /\ <<>> \in Seq(0..255)
  OBVIOUS
<1>2. SequenceInv
  BY <1>1, Zenon DEF Init, SequenceInv
<1>4. TypeInv /\ LoadedIsOwn
  <2>1. phase \in {"idle", "load_mac", "loaded", "thrown"} \cup Reading
    BY DEF Init
  <2>2. probe \in Nat \ {0} /\ descriptors \in Nat
    BY DEF Init
  <2>3. position \in Nat \ {0}
    BY DEF Init
  <2>4. eof \in BOOLEAN /\ fail \in BOOLEAN /\ indeterminate \in BOOLEAN
    BY DEF Init
  <2>5. LoadedIsOwn
    BY DEF Init, LoadedIsOwn
  <2> QED
    BY <2>1, <2>2, <2>3, <2>4, <2>5, Zenon DEF TypeInv
<1>3. ExtractedInv /\ LoopInv /\ GoodInv /\ FailInv /\ RenderedInv
  BY DEF Init, ExtractedInv, LoopInv, GoodInv, FailInv, RenderedInv, Reading
<1> QED
  BY <1>2, <1>3, <1>4 DEF IInv

(* An operation that leaves the stream alone, and ends outside a parse.    *)
LEMMA Elsewhere ==
  ASSUME IInv, UNCHANGED streamVars,
         \/ phase' = "thrown" /\ origin = <<>>
         \/ phase \notin Reading \cup {"thrown"} /\ phase' \in {"idle", "load_mac", "loaded"}
         \/ UNCHANGED phase,
         probe' \in Nat \ {0}, descriptors' \in Nat, LoadedIsOwn'
  PROVE  IInv'
<1> USE DEF streamVars
<1>1. SequenceInv' /\ ExtractedInv'
  BY DEF IInv, SequenceInv, ExtractedInv
<1>4. TypeInv'
  <2>1. phase' \in {"idle", "load_mac", "loaded", "thrown"} \cup Reading
    BY DEF IInv, TypeInv, Reading
  <2>2. /\ position' \in Nat \ {0}
        /\ eof' \in BOOLEAN /\ fail' \in BOOLEAN /\ indeterminate' \in BOOLEAN
    BY DEF IInv, TypeInv
  <2> QED
    BY <2>1, <2>2 DEF TypeInv, Reading
<1>2. LoopInv' /\ GoodInv' /\ FailInv'
  <2>1. phase' = phase \/ phase' \notin Reading
    BY DEF Reading
  <2>2. LoopInv'
    BY <2>1 DEF IInv, LoopInv, Reading
  <2>3. GoodInv'
    BY <2>1 DEF IInv, GoodInv, Reading, Copied
  <2>4. FailInv'
    BY <2>1 DEF IInv, FailInv, Reading, Copied, Overflowed
  <2> QED
    BY <2>2, <2>3, <2>4
<1>3. RenderedInv'
  BY DEF IInv, RenderedInv, Reading
<1> QED
  BY <1>1, <1>2, <1>3, <1>4 DEF IInv

LEMMA Loads ==
  ASSUME IInv, LoadIp \/ LoadMac
  PROVE  IInv'
<1>1. CASE LoadIp
  BY <1>1, Elsewhere
  DEF LoadIp, MayLoad, Throw, IInv, TypeInv, LoadedIsOwn, RenderedInv, Reading
<1>2. CASE LoadMac
  <2> USE <1>2
  <2>1. /\ phase = "load_mac" /\ UNCHANGED streamVars
        /\ probe \in Nat \ {0} /\ descriptors \in Nat
    BY DEF LoadMac, IInv, TypeInv
  <2>2. probe' \in Nat \ {0} /\ descriptors' \in Nat
    BY <2>1 DEF LoadMac, lookupVars
  <2>3. \/ phase' = "thrown"
        \/ UNCHANGED phase
        \/ /\ phase' = "loaded" /\ ip' = ip /\ probe <= Len(Interfaces)
           /\ IsOwn(Interfaces[probe]) /\ mac' = MacOf[Interfaces[probe]]
    BY DEF LoadMac, Throw
  <2>4. LoadedIsOwn'
    BY <2>1, <2>3, AddressAssumption DEF LoadedIsOwn, IsOwn
  <2>5. origin = <<>>
    BY <2>1 DEF IInv, RenderedInv, Reading
  <2> QED
    BY <2>1, <2>2, <2>3, <2>4, <2>5, Elsewhere DEF Reading
<1> QED
  BY <1>1, <1>2

LEMMA Parses ==
  ASSUME IInv, ParseRendered \/ ParseOther
  PROVE  IInv'
<1>1. ASSUME NEW source, NEW t \in Seq(AnyToken), Parse(source, t),
             source = <<>> \/ (source \in [1..Octets -> Bytes] /\ t = Render(source))
      PROVE  IInv'
  <2> USE <1>1 DEF Parse, lookupVars
  <2>0. SequenceInv'
    <3>1. <<>> \in Seq(0..255)
      OBVIOUS
    <3> QED
      BY <3>1, Zenon DEF SequenceInv
  <2>1. TypeInv' /\ LoadedIsOwn'
    <3>1. phase' \in Reading /\ position' \in Nat \ {0}
      BY DEF Reading
    <3>2. eof' \in BOOLEAN /\ fail' \in BOOLEAN /\ indeterminate' \in BOOLEAN
      OBVIOUS
    <3>3. probe' = probe /\ descriptors' = descriptors
      OBVIOUS
    <3> QED
      BY <3>1, <3>2, <3>3, Zenon DEF IInv, TypeInv, LoadedIsOwn
  <2>2. ExtractedInv' /\ LoopInv' /\ GoodInv' /\ FailInv'
    BY AddressAssumption DEF ExtractedInv, LoopInv, GoodInv, FailInv, Reading, Copied
  <2>3. RenderedInv'
    BY DEF RenderedInv, Reading, Render
  <2> QED
    BY <2>0, <2>1, <2>2, <2>3 DEF IInv
<1> QED
  BY <1>1, TextsAreTexts, Rendered DEF ParseRendered, ParseOther

LEMMA Separates ==
  ASSUME IInv, ReadSeparator
  PROVE  IInv'
<1> USE DEF lookupVars
<1>1. /\ phase = "separator" /\ phase \in Reading /\ phase' \in {"octet", "thrown"}
      /\ position' \in {position, position + 1} /\ fail' \in BOOLEAN
      /\ UNCHANGED <<probe, descriptors, origin, text, eof, address, indeterminate>>
  BY DEF ReadSeparator, Throw, Reading, IInv, TypeInv
<1>2. SequenceInv' /\ TypeInv' /\ LoadedIsOwn'
  BY <1>1 DEF IInv, SequenceInv, TypeInv, LoadedIsOwn, Reading
<1>3. /\ Len(address) \in 1..(Octets - 1) /\ position <= 2 * Len(address)
      /\ ~fail => position = 2 * Len(address) /\ (position > Len(text) => eof)
      /\ ~fail => Copied(Len(address)) /\ ~indeterminate
  BY <1>1 DEF IInv, LoopInv, GoodInv, Reading
<1>4. CASE Good /\ text[position] = Separator
  <2>1. phase' = "octet" /\ position' = position + 1 /\ fail' = fail /\ ~fail /\ ~eof
    BY <1>1, <1>4 DEF ReadSeparator, Good
  <2>2. ExtractedInv'
    <3>1. position = 2 * Len(address) /\ position <= Len(text) /\ Len(text) \in Nat
      BY <1>3, <2>1 DEF IInv, ExtractedInv, TypeInv, SequenceInv
    <3>2. position % 2 # 1 /\ position \in Nat \ {0}
      BY <1>3, <3>1
    <3>3. ASSUME NEW i \in 1..(position' - 1)
          PROVE  IF i % 2 = 1 THEN text[i].kind = "number" ELSE text[i] = Separator
      <4>1. i = position \/ i \in 1..(position - 1)
        BY <2>1, <3>2
      <4> QED
        BY <1>4, <3>2, <4>1 DEF IInv, ExtractedInv
    <3> QED
      BY <1>1, <2>1, <3>1, <3>3 DEF ExtractedInv
  <2>3. LoopInv' /\ FailInv'
    BY <1>1, <1>3, <2>1, AddressAssumption DEF IInv, SequenceInv, LoopInv, FailInv, Reading
  <2>4. Copied(Len(address))'
    BY <1>1, <1>3, <2>1 DEF IInv, TypeInv, SequenceInv, Copied
  <2>5. GoodInv'
    BY <1>1, <1>3, <2>1, <2>4 DEF GoodInv, Reading, IInv, SequenceInv
  <2>6. RenderedInv'
    BY <1>1, <2>1 DEF IInv, RenderedInv, Reading
  <2> QED
    BY <1>2, <2>2, <2>3, <2>5, <2>6 DEF IInv
<1>5. CASE ~Good \/ text[position] # Separator
  <2>1. /\ position' = position
        /\ fail' \/ phase' = "thrown"
        /\ fail => fail'
    BY <1>1, <1>5 DEF ReadSeparator, Good, Throw
  <2>2. ExtractedInv'
    BY <1>1, <2>1 DEF IInv, ExtractedInv
  <2>3. LoopInv' /\ GoodInv'
    BY <1>1, <1>3, <2>1, AddressAssumption
    DEF IInv, SequenceInv, TypeInv, LoopInv, GoodInv, Reading
  <2>4. FailInv'
    BY <1>1, <2>1 DEF IInv, FailInv, Reading
  <2>5. origin = <<>>
    <3> SUFFICES ASSUME origin # <<>>
                 PROVE  FALSE
      OBVIOUS
    <3>1. ~fail /\ origin \in [1..Octets -> Bytes] /\ text = Render(origin)
      BY DEF IInv, RenderedInv
    <3>2. Len(text) = 2 * Octets - 1 /\ text[2 * Len(address)] = Separator
      BY <1>3, <3>1, Rendered
    <3>3. position = 2 * Len(address) /\ position < Len(text) + 1
      BY <1>3, <3>1, <3>2, AddressAssumption
    <3>4. ~eof
      BY <3>3 DEF IInv, ExtractedInv
    <3> QED
      BY <1>5, <3>1, <3>2, <3>3, <3>4 DEF Good
  <2>6. RenderedInv'
    BY <1>1, <2>5 DEF RenderedInv, Reading
  <2> QED
    BY <1>2, <2>2, <2>3, <2>4, <2>6 DEF IInv
<1> QED
  BY <1>4, <1>5

(* What the three ways to read an octet have in common.                    *)
LEMMA Stores ==
  ASSUME IInv, NEW byte \in Nat, phase = "octet", Store(byte),
         UNCHANGED <<origin, text, probe, descriptors>>,
         position' \in {position, position + 1}, fail' \in BOOLEAN, eof' \in BOOLEAN,
         indeterminate' \in BOOLEAN
  PROVE  /\ SequenceInv' /\ TypeInv' /\ LoadedIsOwn'
         /\ Len(address) < Octets /\ Len(address') = Len(address) + 1
         /\ address' = Append(address, byte % 256)
         /\ phase' = IF Len(address') = Octets THEN "end" ELSE "separator"
         /\ \A i \in 1..Len(address) : address'[i] = address[i]
         /\ address'[Len(address')] = byte % 256
         /\ LoopInv'
<1>1. Len(address) < Octets /\ position <= 2 * Len(address) + 1 /\ Len(address) \in Nat
      /\ address \in Seq(0..255) /\ position \in Nat \ {0}
  BY DEF IInv, LoopInv, SequenceInv, TypeInv
<1>2. byte % 256 \in 0..255
  OBVIOUS
<1>3. address' = Append(address, byte % 256)
      /\ phase' = IF Len(address) + 1 = Octets THEN "end" ELSE "separator"
  BY DEF Store
<1>4. /\ Len(address') = Len(address) + 1 /\ address' \in Seq(0..255)
      /\ \A i \in 1..Len(address) : address'[i] = address[i]
      /\ address'[Len(address) + 1] = byte % 256
  BY <1>1, <1>2, <1>3
<1>5. SequenceInv' /\ LoadedIsOwn'
  BY <1>3, <1>4 DEF IInv, SequenceInv, LoadedIsOwn
<1>6. TypeInv'
  <2>1. phase' \in {"end", "separator"} /\ position' \in Nat \ {0}
    BY <1>1, <1>3
  <2> QED
    BY <2>1 DEF IInv, TypeInv, Reading
<1>7. LoopInv'
  BY <1>1, <1>3, <1>4, AddressAssumption DEF LoopInv
<1> QED
  BY <1>1, <1>3, <1>4, <1>5, <1>6, <1>7

(* A number extends what was extracted.                                    *)
LEMMA Extends ==
  ASSUME IInv, phase = "octet", ~fail, position <= Len(text), text[position].kind = "number",
         position' = position + 1, text' = text,
         eof' => position + 1 > Len(text)
  PROVE  ExtractedInv'
<1>1. position = 2 * Len(address) + 1 /\ Len(address) \in Nat /\ Len(text) \in Nat
  BY DEF IInv, GoodInv, SequenceInv
<1>2. position % 2 = 1 /\ position \in Nat \ {0}
  BY <1>1
<1>3. ASSUME NEW i \in 1..(position' - 1)
      PROVE  IF i % 2 = 1 THEN text[i].kind = "number" ELSE text[i] = Separator
  <2>1. i = position \/ i \in 1..(position - 1)
    BY <1>2
  <2> QED
    BY <1>2, <2>1 DEF IInv, ExtractedInv
<1> QED
  <2>1. position' <= Len(text') + 1 /\ (eof' => position' = Len(text') + 1)
    BY <1>1
  <2> QED
    BY <1>3, <2>1 DEF ExtractedInv

LEMMA ReadsOctet ==
  ASSUME IInv, ReadOctet
  PROVE  IInv'
<1> DEFINE value == text[position].value
           byte == IF value <= UnsignedMax THEN value ELSE UnsignedMax
<1>0. PICK n : n = Len(address)
  OBVIOUS
<1>1. /\ phase = "octet" /\ ~eof /\ ~fail /\ position <= Len(text)
      /\ text[position].kind = "number" /\ Store(byte)
      /\ IF value > UnsignedMax THEN fail' = TRUE ELSE fail' = FALSE
      /\ IF position + 1 > Len(text) THEN eof' = TRUE ELSE eof' = FALSE
      /\ position' = position + 1
      /\ UNCHANGED <<indeterminate, probe, descriptors, origin, text>>
  <2>1. /\ fail' = (value > UnsignedMax) /\ eof' = (position + 1 > Len(text))
        /\ Good /\ ~(position > Len(text))
        /\ phase = "octet" /\ text[position].kind = "number" /\ Store(byte)
        /\ position' = position + 1
        /\ UNCHANGED <<indeterminate, probe, descriptors, origin, text>>
    BY Zenon DEF ReadOctet, AtEnd, lookupVars
  <2>2. Len(text) \in Nat /\ position \in Nat
    BY DEF IInv, SequenceInv, TypeInv
  <2>3. position <= Len(text)
    BY <2>1, <2>2
  <2>4. IF value > UnsignedMax THEN fail' = TRUE ELSE fail' = FALSE
    <3>1. CASE value > UnsignedMax
      <4>1. fail' = TRUE
        BY <2>1, <3>1, Zenon
      <4> QED
        BY <3>1, <4>1
    <3>2. CASE ~(value > UnsignedMax)
      <4>1. (value > UnsignedMax) = FALSE
        BY <3>2
      <4>2. fail' = FALSE
        BY <2>1, <4>1, Zenon
      <4> QED
        BY <3>2, <4>2
    <3> QED
      BY <3>1, <3>2
  <2>5. IF position + 1 > Len(text) THEN eof' = TRUE ELSE eof' = FALSE
    <3>1. CASE position + 1 > Len(text)
      <4>1. eof' = TRUE
        BY <2>1, <3>1, Zenon
      <4> QED
        BY <3>1, <4>1
    <3>2. CASE ~(position + 1 > Len(text))
      <4>1. (position + 1 > Len(text)) = FALSE
        BY <3>2
      <4>2. eof' = FALSE
        BY <2>1, <4>1, Zenon
      <4> QED
        BY <3>2, <4>2
    <3> QED
      BY <3>1, <3>2
  <2> QED
    BY <2>1, <2>3, <2>4, <2>5, Zenon DEF Good
<1>2. position = 2 * n + 1 /\ Copied(n) /\ indeterminate = FALSE /\ n \in Nat
      /\ position \in Nat \ {0} /\ Len(text) \in Nat
  BY <1>0, <1>1 DEF IInv, GoodInv, Reading, SequenceInv, TypeInv
<1>3. value \in Nat /\ byte \in Nat
  <2>1. text[position] \in AnyToken
    BY <1>1, <1>2 DEF IInv, SequenceInv
  <2> QED
    BY <2>1, AddressAssumption DEF AnyToken
<1> HIDE DEF value, byte
<1>4. /\ SequenceInv' /\ TypeInv' /\ LoadedIsOwn' /\ LoopInv'
      /\ n < Octets /\ Len(address') = n + 1
      /\ phase' = IF Len(address') = Octets THEN "end" ELSE "separator"
      /\ \A i \in 1..n : address'[i] = address[i]
      /\ address'[n + 1] = byte % 256
  <2>1. fail' \in BOOLEAN /\ eof' \in BOOLEAN /\ indeterminate' \in BOOLEAN
    BY <1>1, <1>2
  <2> QED
    BY <1>0, <1>1, <1>3, <2>1, Stores
<1>5. ExtractedInv'
  <2>1. eof' => position + 1 > Len(text)
    BY <1>1
  <2> QED
    BY <1>1, <2>1, Extends
<1>6. Copied(n)'
  <2>1. ASSUME NEW i \in 1..n
        PROVE  /\ 2 * i - 1 < position'
               /\ text'[2 * i - 1].value <= UnsignedMax
               /\ address'[i] = text'[2 * i - 1].value % 256
    <3>1. /\ 2 * i - 1 < position /\ text[2 * i - 1].value <= UnsignedMax
          /\ address[i] = text[2 * i - 1].value % 256
      BY <1>2 DEF Copied
    <3>2. address'[i] = address[i] /\ text' = text
      BY <1>0, <1>1, <1>4
    <3>3. 2 * i - 1 < position'
      BY <1>1, <1>2, <3>1
    <3> QED
      BY <3>1, <3>2, <3>3, Zenon
  <2> QED
    BY <2>1, Zenon DEF Copied
<1>7. CASE value <= UnsignedMax
  <2>1. fail' = FALSE /\ byte = value
    <3>1. ~(value > UnsignedMax)
      BY <1>3, <1>7, AddressAssumption
    <3> QED
      BY <1>1, <1>7, <3>1, Zenon DEF byte
  <2>2. Copied(n + 1)'
    <3>1. text'[2 * (n + 1) - 1].value = value /\ 2 * (n + 1) - 1 < position'
      BY <1>1, <1>2 DEF value
    <3>2. ASSUME NEW i \in 1..(n + 1)
          PROVE  /\ 2 * i - 1 < position'
                 /\ text'[2 * i - 1].value <= UnsignedMax
                 /\ address'[i] = text'[2 * i - 1].value % 256
      <4>1. CASE i = n + 1
        BY <1>4, <1>7, <2>1, <3>1, <4>1
      <4>2. CASE i \in 1..n
        BY <1>6, <4>2 DEF Copied
      <4> QED
        BY <1>2, <4>1, <4>2
    <3> QED
      BY <3>2, Zenon DEF Copied
  <2>3. GoodInv'
    <3>1. Copied(Len(address))'
      BY <1>4, <2>2
    <3>2. phase' # "octet" /\ position' = 2 * Len(address')
      BY <1>1, <1>2, <1>4
    <3>3. position' > Len(text') => eof'
      BY <1>1
    <3> QED
      BY <1>1, <1>2, <3>1, <3>2, <3>3 DEF GoodInv
  <2>4. FailInv'
    BY <1>1, <1>2, <2>1 DEF FailInv
  <2>5. RenderedInv'
    BY <1>1, <1>4, <2>1 DEF IInv, RenderedInv, Reading
  <2> QED
    BY <1>4, <1>5, <2>3, <2>4, <2>5 DEF IInv
<1>8. CASE value > UnsignedMax
  <2>1. fail' = TRUE /\ byte = UnsignedMax
    <3>1. ~(value <= UnsignedMax)
      BY <1>3, <1>8, AddressAssumption
    <3> QED
      BY <1>1, <1>8, <3>1, Zenon DEF byte
  <2>2. GoodInv'
    BY <1>4, <2>1 DEF GoodInv
  <2>3. Len(address') = Octets => Overflowed'
    <3> SUFFICES ASSUME n + 1 = Octets
                 PROVE  Overflowed'
      BY <1>4
    <3>1. position' = 2 * Octets /\ 2 * Octets - 1 = position /\ n = Octets - 1
      BY <1>1, <1>2
    <3>2. address'[Octets] = 255
      BY <1>4, <2>1, AddressAssumption
    <3> QED
      BY <1>1, <1>6, <1>8, <3>1, <3>2 DEF Overflowed, value
  <2>4. FailInv'
    BY <1>1, <1>2, <1>4, <2>3 DEF FailInv
  <2>5. origin = <<>>
    <3> SUFFICES ASSUME origin # <<>>
                 PROVE  FALSE
      OBVIOUS
    <3>1. origin \in [1..Octets -> Bytes] /\ text = Render(origin)
      BY DEF IInv, RenderedInv
    <3>2. n + 1 \in 1..Octets /\ position = 2 * (n + 1) - 1
      BY <1>2, <1>4, AddressAssumption
    <3>3. text[position] = Number(origin[n + 1])
      BY <3>1, <3>2, Rendered
    <3>4. value = origin[n + 1] /\ origin[n + 1] \in Bytes
      BY <3>1, <3>2, <3>3 DEF value, Number, Token
    <3> QED
      BY <1>3, <1>8, <3>4, BytesAreSmall, AddressAssumption
  <2>6. RenderedInv'
    BY <1>1, <1>4, <2>5 DEF RenderedInv, Reading
  <2> QED
    BY <1>4, <1>5, <2>2, <2>4, <2>6 DEF IInv
<1> QED
  BY <1>3, <1>7, <1>8, AddressAssumption

(* In a text that was rendered the stream stands before a number.          *)
LEMMA RenderedNumber ==
  ASSUME IInv, phase = "octet", origin # <<>>
  PROVE  /\ ~fail /\ ~eof /\ position <= Len(text)
         /\ text[position].kind = "number"
<1>1. ~fail /\ origin \in [1..Octets -> Bytes] /\ text = Render(origin)
  BY DEF IInv, RenderedInv
<1>2. /\ Len(address) \in Nat /\ Len(address) < Octets
      /\ position = 2 * Len(address) + 1 /\ ~eof
  BY <1>1 DEF IInv, SequenceInv, LoopInv, GoodInv
<1>3. Len(address) + 1 \in 1..Octets /\ position = 2 * (Len(address) + 1) - 1
  BY <1>2, AddressAssumption
<1>4. position <= Len(text) /\ text[position] = Number(origin[Len(address) + 1])
  <2>1. Len(text) = 2 * Octets - 1
    BY <1>1, Rendered
  <2>2. text[2 * (Len(address) + 1) - 1] = Number(origin[Len(address) + 1])
    BY <1>1, <1>3, Rendered, Zenon
  <2> QED
    BY <1>3, <2>1, <2>2, AddressAssumption
<1> QED
  BY <1>1, <1>2, <1>4 DEF Number, Token

LEMMA ReadsNoOctet ==
  ASSUME IInv, ReadNoOctet
  PROVE  IInv'
<1>1. /\ phase = "octet" /\ ~eof /\ ~fail /\ text[position].kind # "number"
      /\ Store(0) /\ fail' = TRUE
      /\ UNCHANGED <<position, eof, indeterminate, probe, descriptors, origin, text>>
  BY DEF ReadNoOctet, Good, lookupVars
<1>2. ~indeterminate /\ eof \in BOOLEAN /\ indeterminate \in BOOLEAN
  BY <1>1 DEF IInv, GoodInv, Reading, TypeInv
<1>3. SequenceInv' /\ TypeInv' /\ LoadedIsOwn' /\ LoopInv'
  BY <1>1, <1>2, Stores
<1>4. ExtractedInv'
  BY <1>1 DEF IInv, ExtractedInv
<1>5. GoodInv' /\ FailInv'
  BY <1>1, <1>2 DEF GoodInv, FailInv
<1>6. origin = <<>>
  BY <1>1, RenderedNumber
<1>7. phase' \in Reading
  BY <1>1 DEF Store, Reading
<1>8. RenderedInv'
  BY <1>1, <1>6, <1>7 DEF RenderedInv
<1> QED
  BY <1>3, <1>4, <1>5, <1>8 DEF IInv

LEMMA ReadsNothing ==
  ASSUME IInv, ReadNothing
  PROVE  IInv'
<1>1. PICK byte \in Bytes :
        /\ phase = "octet" /\ (~Good \/ position > Len(text))
        /\ Store(byte) /\ fail' = TRUE /\ indeterminate' = TRUE
        /\ eof' = (eof \/ ~fail)
        /\ UNCHANGED <<position, probe, descriptors, origin, text>>
  BY Zenon DEF ReadNothing, AtEnd, lookupVars
<1>2. eof' \in BOOLEAN /\ (eof' => eof \/ ~fail)
  <2>1. CASE eof \/ ~fail
    <3>1. (eof \/ ~fail) = TRUE
      BY <2>1
    <3>2. eof' = TRUE
      BY <1>1, <3>1, Zenon
    <3> QED
      BY <2>1, <3>2
  <2>2. CASE ~(eof \/ ~fail)
    <3>1. (eof \/ ~fail) = FALSE
      BY <2>2
    <3>2. eof' = FALSE
      BY <1>1, <3>1, Zenon
    <3> QED
      BY <3>2
  <2> QED
    BY <2>1, <2>2
<1>3. byte \in Nat
  BY BytesAreSmall
<1>4. SequenceInv' /\ TypeInv' /\ LoadedIsOwn' /\ LoopInv'
  BY <1>1, <1>2, <1>3, Stores
<1>5. ExtractedInv'
  <2>1. ~fail => ~eof
    BY <1>1 DEF IInv, GoodInv
  <2>2. eof' => position = Len(text) + 1
    BY <1>1, <1>2, <2>1 DEF IInv, ExtractedInv, Good, SequenceInv, TypeInv
  <2> QED
    BY <1>1, <2>2 DEF IInv, ExtractedInv
<1>6. GoodInv'
  BY <1>1 DEF GoodInv
<1>7. FailInv'
  <2>1. position < 2 * Octets
    BY <1>1, AddressAssumption DEF IInv, LoopInv, SequenceInv, TypeInv
  <2> QED
    BY <1>1, <2>1 DEF FailInv
<1>8. origin = <<>>
  <2>1. position \in Nat /\ Len(text) \in Nat
    BY DEF IInv, TypeInv, SequenceInv
  <2> QED
    BY <1>1, <2>1, RenderedNumber DEF Good
<1>9. phase' \in Reading
  BY <1>1 DEF Store, Reading
<1>10. RenderedInv'
  BY <1>1, <1>8, <1>9 DEF RenderedInv
<1> QED
  BY <1>4, <1>5, <1>6, <1>7, <1>10 DEF IInv

LEMMA Finishes ==
  ASSUME IInv, Finish
  PROVE  IInv'
<1>1. /\ phase = "end" /\ phase' = IF eof THEN "parsed" ELSE "thrown"
      /\ UNCHANGED <<probe, descriptors, origin, text, position, eof, fail, address,
                    indeterminate>>
  BY DEF Finish, lookupVars, streamVars
<1>2. SequenceInv' /\ TypeInv' /\ LoadedIsOwn' /\ ExtractedInv'
  BY <1>1 DEF IInv, SequenceInv, TypeInv, LoadedIsOwn, ExtractedInv, Reading
<1>3. LoopInv' /\ GoodInv'
  BY <1>1 DEF IInv, LoopInv, GoodInv, Copied, Reading
<1>4. FailInv'
  BY <1>1 DEF IInv, FailInv, Overflowed, Copied, Reading
<1>5. origin # <<>> => eof
  <2> SUFFICES ASSUME origin # <<>>
               PROVE  eof
    OBVIOUS
  <2>1. ~fail /\ origin \in [1..Octets -> Bytes] /\ text = Render(origin)
    BY DEF IInv, RenderedInv
  <2>2. Len(text) = 2 * Octets - 1
    BY <2>1, Rendered
  <2>3. position = 2 * Octets
    BY <1>1, <2>1 DEF IInv, LoopInv, GoodInv, Reading
  <2>4. position > Len(text)
    BY <2>2, <2>3, AddressAssumption
  <2> QED
    BY <1>1, <2>1, <2>4 DEF IInv, GoodInv, Reading
<1>6. RenderedInv'
  BY <1>1, <1>5 DEF IInv, RenderedInv, Reading
<1> QED
  BY <1>2, <1>3, <1>4, <1>6 DEF IInv

LEMMA Preservation == IInv /\ [Next]_vars => IInv'
<1> SUFFICES ASSUME IInv, [Next]_vars
             PROVE  IInv'
  OBVIOUS
<1>1. CASE UNCHANGED vars
  BY <1>1, Elsewhere DEF vars, lookupVars, IInv, TypeInv, LoadedIsOwn, IsOwn
<1> QED
  BY <1>1, Loads, Parses, Separates, ReadsOctet, ReadsNoOctet, ReadsNothing, Finishes DEF Next

LEMMA Invariance == Spec => []IInv
  BY AddressesInit, Preservation, PTL DEF Spec

-----------------------------------------------------------------------------
(* Theorems.                                                               *)

(* load_mac finds the interface that has the address of load_ip, and takes *)
(* its MAC address, or load_host throws.                                   *)
THEOREM LoadedOwn == Spec => []LoadedIsOwn
  BY Invariance, PTL DEF IInv

(* operator>> takes what operator<< gives, and gives it back.              *)
THEOREM RoundTrip == Spec => []RenderedIsParsed
<1>1. IInv => RenderedIsParsed
  <2> SUFFICES ASSUME IInv, origin # <<>>
               PROVE  phase # "thrown" /\ (phase = "parsed" => address = origin /\ ~indeterminate)
    BY DEF RenderedIsParsed
  <2>1. /\ phase \in Reading /\ ~fail
        /\ origin \in [1..Octets -> Bytes] /\ text = Render(origin)
    BY DEF IInv, RenderedInv
  <2>2. ASSUME phase = "parsed"
        PROVE  address = origin
    <3>1. Len(address) = Octets /\ Copied(Octets) /\ address \in Seq(0..255)
      BY <2>1, <2>2 DEF IInv, LoopInv, GoodInv, SequenceInv
    <3>2. ASSUME NEW i \in 1..Octets
          PROVE  address[i] = origin[i]
      <4>1. text[2 * i - 1] = Number(origin[i]) /\ origin[i] \in Bytes
        BY <2>1, Rendered
      <4>2. address[i] = text[2 * i - 1].value % 256
        BY <3>1 DEF Copied
      <4> QED
        BY <4>1, <4>2, BytesAreSmall DEF Number, Token
    <3>3. DOMAIN address = 1..Octets /\ DOMAIN origin = 1..Octets
      BY <2>1, <3>1
    <3>4. address = [i \in 1..Octets |-> address[i]] /\ origin = [i \in 1..Octets |-> origin[i]]
      BY <2>1, <3>1, <3>3
    <3> QED
      BY <3>2, <3>4
  <2> QED
    BY <2>1, <2>2 DEF IInv, GoodInv, Reading
<1> QED
  BY <1>1, Invariance, PTL

(* operator>> makes up nothing, unless it reads uninitialised memory.      *)
THEOREM Written == Spec => []ParsedIsWritten
<1>1. IInv => ParsedIsWritten
  <2> SUFFICES ASSUME IInv, phase = "parsed", ~indeterminate
               PROVE  ParsedIsWritten
    BY DEF ParsedIsWritten
  <2>1. Len(address) = Octets /\ eof /\ position = Len(text) + 1
    BY DEF IInv, LoopInv, ExtractedInv
  <2>2. Len(text) \in Nat /\ Octets \in Nat \ {0}
    BY AddressAssumption DEF IInv, SequenceInv
  <2>3. position = 2 * Octets /\ (Copied(Octets) \/ Overflowed)
    BY <2>1 DEF IInv, GoodInv, FailInv, Overflowed, Reading
  <2>4. Len(text) = 2 * Octets - 1
    BY <2>1, <2>2, <2>3
  <2>5. ASSUME NEW i \in 1..(Octets - 1)
        PROVE  text[2 * i] = Separator
    <3>1. 2 * i \in 1..(position - 1) /\ (2 * i) % 2 # 1
      BY <2>2, <2>3
    <3> QED
      BY <3>1, Zenon DEF IInv, ExtractedInv
  <2>6. ASSUME NEW i \in 1..Octets
        PROVE  /\ text[2 * i - 1].kind = "number"
               /\ \/ text[2 * i - 1].value <= UnsignedMax
                     /\ address[i] = text[2 * i - 1].value % 256
                  \/ text[2 * i - 1].value > UnsignedMax /\ i = Octets /\ address[i] = 255
    <3>1. 2 * i - 1 \in 1..(position - 1) /\ (2 * i - 1) % 2 = 1
      BY <2>2, <2>3
    <3>2. text[2 * i - 1].kind = "number"
      BY <3>1, Zenon DEF IInv, ExtractedInv
    <3>3. i = Octets \/ i \in 1..(Octets - 1)
      BY <2>2
    <3> QED
      BY <2>3, <3>2, <3>3 DEF Copied, Overflowed
  <2> QED
    BY <2>4, <2>5, <2>6 DEF ParsedIsWritten
<1> QED
  BY <1>1, Invariance, PTL

(* The memory that operator>> reads uninitialised gets into an address     *)
(* only for a text that stops too early.                                   *)
THEOREM Guessed == Spec => []GuessedIsShort
<1>1. IInv => GuessedIsShort
  <2> SUFFICES ASSUME IInv, phase = "parsed", indeterminate
               PROVE  GuessedIsShort
    BY DEF GuessedIsShort
  <2>1. position = Len(text) + 1 /\ position < 2 * Octets
    BY DEF IInv, LoopInv, ExtractedInv, FailInv, Reading
  <2>2. text \in Seq(AnyToken) /\ Len(text) \in Nat /\ Octets \in Nat \ {0}
    BY AddressAssumption DEF IInv, SequenceInv
  <2>3. ASSUME NEW i \in DOMAIN text
        PROVE  text[i].kind = IF i % 2 = 1 THEN "number" ELSE "separator"
    <3>1. i \in 1..(position - 1)
      BY <2>1, <2>2
    <3>2. IF i % 2 = 1 THEN text[i].kind = "number" ELSE text[i] = Separator
      BY <3>1, Zenon DEF IInv, ExtractedInv
    <3>3. Separator.kind = "separator"
      BY DEF Separator, Token
    <3> QED
      BY <3>2, <3>3
  <2> QED
    BY <2>1, <2>2, <2>3 DEF GuessedIsShort
<1> QED
  BY <1>1, Invariance, PTL

===============================================================================
