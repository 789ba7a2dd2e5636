----------------------------- MODULE Conversions ------------------------------
(***************************************************************************)
(* The conversions of the node's own making: the two base64 encoders and   *)
(* the decoder (conv_base64.cpp), RC4 in hexadecimal (conv_rc4.cpp), and   *)
(* what nodes_nginx_update_file makes of a content it decodes.  A text is  *)
(* a sequence of bytes; one that grows byte by byte is what is checked.    *)
(***************************************************************************)
EXTENDS Integers, Sequences, SequencesExt

CONSTANTS Byte,         \* the bytes a text may hold
          MaxText,      \* bound: bytes of a text
          Keys,         \* keys of RC4
          Fronts,       \* what may lie in front of the alphabet basis64
          BitXor(_, _)  \* the operator ^ of the language

\* Characters: the digits 0..61, and these; - and _ are three more than the
\* digits + and /.  Nul ends a text; Foreign is a character of no alphabet.
Plus == 62
Slash == 63
Pad == 64
Nul == 67
Foreign == 68

\* S[j] of a key with a byte above 127, which is negative, lies outside S;
\* with an empty key the remainder is by zero.
ASSUME ConversionAssumption ==
  /\ Byte \subseteq 0..255 /\ MaxText \in Nat
  /\ \A k \in Keys : k # <<>> /\ k \in Seq(1..127)
  /\ \A a, b \in 0..255 : BitXor(a, b) \in 0..255 /\ BitXor(BitXor(a, b), b) = a
ASSUME FrontAssumption == Fronts \subseteq [-8..-1 -> 0..Foreign]

VARIABLES plain,     \* the text
          front,     \* the bytes in front of basis64, by their index: nobody's
          secret,    \* the key of RC4
          mixed      \* S, with the turns it has had and its j

conversionVars == <<plain, front, secret, mixed>>

Digit1(a)    == a \div 4
Digit2(a, b) == (a % 4) * 16 + b \div 16
Digit3(b, c) == (b % 16) * 4 + c \div 64
Digit4(c)    == c % 64

\* The basis64 of the first encoder, for a digit made with byte b shifted by
\* the width w.  A char above 127 is negative: it stays so when it is shifted,
\* the bits of the digit are set in it already, and the index is below 0.
UrlSafe(digit) == IF digit >= Plus THEN digit + 3 ELSE digit   \* - and _
Signed(b, w, digit) == IF b > 127 THEN front[b \div w - 256 \div w] ELSE UrlSafe(digit)

\* A text up to the first character of this kind.
Until(text, end) ==
  LET ends == {i \in DOMAIN text : text[i] = end} IN
  IF ends = {} THEN text ELSE SubSeq(text, 1, (CHOOSE i \in ends : \A j \in ends : i <= j) - 1)

Rest(t) == SubSeq(t, Len(t) - (Len(t) % 3) + 1, Len(t))
Group(t, i) == SubSeq(t, 3 * i - 2, 3 * i)

\* template_base64_encode, as conv_base64_encode of a string calls it.
StringDigits(t) ==
  LET Whole(g) == <<UrlSafe(Digit1(g[1])), Signed(g[2], 16, Digit2(g[1], g[2])),
                    Signed(g[3], 64, Digit3(g[2], g[3])), UrlSafe(Digit4(g[3]))>>
      End == CASE Len(Rest(t)) = 0 -> <<>>
               [] Len(Rest(t)) = 1 -> <<UrlSafe(Digit1(Rest(t)[1])), UrlSafe(Digit2(Rest(t)[1], 0))>>
               [] Len(Rest(t)) = 2 -> <<UrlSafe(Digit1(Rest(t)[1])), Signed(Rest(t)[2], 16, Digit2(Rest(t)[1], Rest(t)[2])),
                                        UrlSafe(Digit3(Rest(t)[2], 0))>>
  IN FlattenSeq([i \in 1..Len(t) \div 3 |-> Whole(Group(t, i))]) \o End

\* Its length is strlen's, and its caller reads it as a string.
EncodeString(t) == Until(StringDigits(t), Nul)

\* conv_base64_encode of unsigned bytes.
EncodeBytes(t) ==
  LET Whole(g) == <<Digit1(g[1]), Digit2(g[1], g[2]), Digit3(g[2], g[3]), Digit4(g[3])>>
      End == CASE Len(Rest(t)) = 0 -> <<>>
               [] Len(Rest(t)) = 1 -> <<Digit1(Rest(t)[1]), Digit2(Rest(t)[1], 0), Pad, Pad>>
               [] Len(Rest(t)) = 2 -> <<Digit1(Rest(t)[1]), Digit2(Rest(t)[1], Rest(t)[2]), Digit3(Rest(t)[2], 0), Pad>>
  IN FlattenSeq([i \in 1..Len(t) \div 3 |-> Whole(Group(t, i))]) \o End

\* template_base64_decode, which looks at nothing behind the first "=".
Undecoded == <<-1>>
Body(chars) == Until(chars, Pad)
Decodable(chars) == ToSet(Body(chars)) \subseteq 0..Slash /\ Len(Body(chars)) % 4 # 1
Octet(d, i) == CASE i = 1 -> d[1] * 4 + d[2] \div 16
                 [] i = 2 -> (d[2] % 16) * 16 + d[3] \div 4
                 [] i = 3 -> (d[3] % 4) * 64 + d[4]
\* Mutant of Decode: a rest of three characters is one byte.
DecodeShort(chars) ==
  LET b == Body(chars)
      Quad(g) == SubSeq(b, 4 * g - 3, 4 * g)
      rest == SubSeq(b, Len(b) - (Len(b) % 4) + 1, Len(b))
  IN IF ~Decodable(chars) THEN Undecoded
     ELSE FlattenSeq([g \in 1..Len(b) \div 4 |-> [i \in 1..3 |-> Octet(Quad(g), i)]])
          \o (IF Len(rest) > 1 THEN <<Octet(rest, 1)>> ELSE <<>>)
Decode(chars) ==
  LET b == Body(chars)
      Quad(g) == SubSeq(b, 4 * g - 3, 4 * g)
      rest == SubSeq(b, Len(b) - (Len(b) % 4) + 1, Len(b))
  IN IF ~Decodable(chars) THEN Undecoded
     ELSE FlattenSeq([g \in 1..Len(b) \div 4 |-> [i \in 1..3 |-> Octet(Quad(g), i)]])
          \o [i \in 1..(IF rest = <<>> THEN 0 ELSE Len(rest) - 1) |-> Octet(rest, i)]

\* nodes_nginx_update_file: the buffer holds zeros when nothing was decoded,
\* and strlen says how much of it is written.
FileText(chars) == Until(IF Decode(chars) = Undecoded THEN <<>> ELSE Decode(chars), 0)
-----------------------------------------------------------------------------
\* conv_rc4_to_rc4: S is filled, and mixed with the key in 256 turns.
Fills ==
  /\ mixed.s = <<>>
  /\ mixed' = [mixed EXCEPT !.s = [i \in 0..255 |-> i]]
  /\ UNCHANGED <<plain, front, secret>>

Exchanged(s, i, j) == [s EXCEPT ![i] = s[j], ![j] = s[i]]
KeyByte(i) == secret[(i % Len(secret)) + 1]
Mixes ==
  LET j == (mixed.j + mixed.s[mixed.i] + KeyByte(mixed.i)) % 256 IN
  /\ mixed.s # <<>> /\ mixed.i < 256
  /\ mixed' = [s |-> Exchanged(mixed.s, mixed.i, j), i |-> mixed.i + 1, j |-> j]
  /\ UNCHANGED <<plain, front, secret>>

\* Then a byte of the text at a time, from i and j at 0.
Stirred(m) ==
  LET i == (m.i + 1) % 256
      j == (m.j + m.s[i]) % 256
  IN [s |-> Exchanged(m.s, i, j), i |-> i, j |-> j]
Drawn(m) == m.s[(m.s[m.i] + m.s[m.j]) % 256]
Rc4(t) ==
  LET turned[n \in 0..Len(t)] == IF n = 0 THEN [s |-> mixed.s, i |-> 0, j |-> 0] ELSE Stirred(turned[n - 1])
  IN [n \in 1..Len(t) |-> BitXor(t[n], Drawn(turned[n]))]

\* conv_rc4_char_to_hex and conv_rc4_hex_to_char.
HexDigit(h) == IF h > 9 THEN h - 10 + 65 ELSE h + 48
HexValue(c) == IF c >= 65 THEN c - 65 + 10 ELSE c - 48
CharToHex(t) == [i \in 1..2 * Len(t) |->
                   HexDigit(IF i % 2 = 1 THEN t[(i + 1) \div 2] \div 16 ELSE t[i \div 2] % 16)]
HexToChar(h) == [i \in 1..Len(h) \div 2 |-> HexValue(h[2 * i - 1]) * 16 + HexValue(h[2 * i])]

Rc4Encode(t) == CharToHex(Rc4(t))
Rc4Decode(h) == Rc4(HexToChar(h))
-----------------------------------------------------------------------------
ConversionInit ==
  /\ plain = <<>> /\ front \in Fronts /\ secret \in Keys
  /\ mixed = [s |-> <<>>, i |-> 0, j |-> 0]

\* The next text is one byte longer, and the bytes in front may be others.
Grows ==
  /\ mixed.i = 256 /\ Len(plain) < MaxText
  /\ \E b \in Byte : plain' = Append(plain, b)
  /\ front' \in Fronts
  /\ UNCHANGED <<secret, mixed>>

ConversionNext == Fills \/ Mixes \/ Grows

\* Base64 by its definition: the i-th six bits of the text, zeros behind it.
Weight == <<128, 64, 32, 16, 8, 4, 2, 1>>
BitOf(t, n) == IF n < 8 * Len(t) THEN (t[(n \div 8) + 1] \div Weight[(n % 8) + 1]) % 2 ELSE 0
SixBits(t, i) == LET b(m) == BitOf(t, 6 * (i - 1) + m) IN
                 32 * b(0) + 16 * b(1) + 8 * b(2) + 4 * b(3) + 2 * b(4) + b(5)
Base64(t) == [i \in 1..4 * ((Len(t) + 2) \div 3) |-> IF 6 * (i - 1) < 8 * Len(t) THEN SixBits(t, i) ELSE Pad]

\* The i-th digit is made with a byte above 127, shifted.
Spoils(t, i) ==
  LET p == 3 * (i \div 4) + (i % 4) IN i % 4 \in {2, 3} /\ p \in DOMAIN t /\ t[p] > 127

(***************************************************************************)
(* The encoder of bytes is base64 and the decoder undoes it.  The encoder  *)
(* of strings makes base64 in the other alphabet and without padding, but  *)
(* for the digits made with a byte above 127 behind the first of a group,  *)
(* which may be anything and may cut the text: without such a byte it is   *)
(* decoded, unless it has a digit of the other alphabet, when it is        *)
(* refused and a file made of it is empty.  A file made of a text is that  *)
(* text up to its first zero.  S stays a permutation, and RC4 undoes       *)
(* itself through hexadecimal (conv_base64.cpp, conv_rc4.cpp,              *)
(* nodes_process.cpp:258-261).                                             *)
(***************************************************************************)
CodecsInvert ==
  /\ EncodeBytes(plain) = Base64(plain)
  /\ Decode(EncodeBytes(plain)) = plain
  /\ LET code == EncodeString(plain)  digits == Body(Base64(plain)) IN
     /\ Len(code) <= Len(digits)
     /\ \A i \in DOMAIN code : code[i] = UrlSafe(digits[i]) \/ Spoils(plain, i)
     /\ (\A i \in DOMAIN digits : ~Spoils(plain, i)) =>
          /\ Len(code) = Len(digits)
          /\ IF ToSet(digits) \subseteq 0..61 THEN Decode(code) = plain ELSE FileText(code) = <<>>
  /\ IsPrefix(FileText(EncodeBytes(plain)), plain)
  /\ 0 \notin ToSet(plain) => FileText(EncodeBytes(plain)) = plain
  /\ mixed.s # <<>> => {mixed.s[i] : i \in 0..255} = 0..255
  /\ Rc4Decode(Rc4Encode(plain)) = plain
=============================================================================
