----------------------------- MODULE MCPacketCodec -----------------------------
(***************************************************************************)
(* The packet codec for TLC.  Plain is the host name that machines have;   *)
(* the others hold backslashes at the places where the escapes of writing  *)
(* and reading meet: before a letter, before a field end, before another.  *)
(***************************************************************************)
EXTENDS PacketCodec

LetterA == Symbol("letter", "a")

Plain == <<LetterA, LetterA>>

AllHostnames ==
  {<<>>, Plain,
   <<Backslash, LetterA>>,
   <<Backslash, Backslash>>,
   <<Backslash, FieldEnd>>,
   <<Backslash, Backslash, Backslash, FieldEnd>>}

PlainHostnames == {Plain}

(* Below, at and beyond the modulus.                                       *)
SmallAndLarge == {1, 65535, 65537}

=============================================================================
