--------------------------- MODULE KeyRouting_proofs ---------------------------
(* Proofs about KeyRouting and the conversions below it: a text is valid when  *)
(* it encodes code points, a frame that is sent is read as it was meant and no *)
(* other is, the search text stays readable, no key leaks while a palette is   *)
(* open, and the matchers know the keys of the current layout.                 *)
EXTENDS MCKeyRouting, Recursion_proofs, SequenceTheorems, FiniteSetTheorems, TLAPS

(*****************************************************************************)
(* Code points in groups of bits (encodeUtf8, decodeUtf8).                  *)
(*****************************************************************************)

\* A number in digits to the base 64.
LEMMA Digit64 ==
  ASSUME NEW q \in Int, NEW r \in Int, 0 <= r, r < 64
  PROVE  (64 * q + r) \div 64 = q /\ (64 * q + r) % 64 = r
  BY SMT

\* The same of two digits.
LEMMA Digits4096 ==
  ASSUME NEW q \in Int, NEW r \in Int, 0 <= r, r < 4096
  PROVE  (4096 * q + r) \div 4096 = q
  BY SMT

\* The same of three digits.
LEMMA Digits262144 ==
  ASSUME NEW q \in Int, NEW r \in Int, 0 <= r, r < 262144
  PROVE  (262144 * q + r) \div 262144 = q
  BY SMT

\* A code point in groups of six bits, and the lowest three.
SixBits(c, o, t, s, r) ==
  t < 64 /\ s < 64 /\ r < 64 /\ c = 64 * (64 * (64 * o + t) + s) + r

\* The shifts of encodeUtf8 take a code point apart.
LEMMA TakenApart ==
  ASSUME NEW o \in Nat, NEW t \in Nat, NEW s \in Nat, NEW r \in Nat, NEW c \in Nat,
         SixBits(c, o, t, s, r)
  PROVE  /\ c \div 64 = 64 * (64 * o + t) + s /\ c % 64 = r
         /\ (c \div 64) % 64 = s
         /\ c \div 4096 = 64 * o + t /\ (c \div 4096) % 64 = t
         /\ c \div 262144 = o
<1>0. t < 64 /\ s < 64 /\ r < 64 /\ c = 64 * (64 * (64 * o + t) + s) + r
  BY DEF SixBits
<1>1. 64 * (64 * o + t) + s \in Int /\ 64 * o + t \in Int /\ o \in Int
  BY SMT, <1>0
<1>2. c \div 64 = 64 * (64 * o + t) + s /\ c % 64 = r
  BY SMT, <1>0, <1>1, Digit64
<1>3. (64 * (64 * o + t) + s) % 64 = s
  BY SMT, <1>0, <1>1, Digit64
<1>4. 64 * s + r \in Int /\ 0 <= 64 * s + r /\ 64 * s + r < 4096
      /\ c = 4096 * (64 * o + t) + (64 * s + r)
  BY SMT, <1>0
<1>5. c \div 4096 = 64 * o + t
  BY SMT, <1>1, <1>4, Digits4096
<1>6. (64 * o + t) % 64 = t
  BY SMT, <1>0, Digit64
<1>7. 4096 * t + 64 * s + r \in Int /\ 0 <= 4096 * t + 64 * s + r /\ 4096 * t + 64 * s + r < 262144
      /\ c = 262144 * o + (4096 * t + 64 * s + r)
  BY SMT, <1>0
<1>8. c \div 262144 = o
  BY SMT, <1>7, Digits262144
<1> QED
  BY SMT, <1>0, <1>2, <1>3, <1>5, <1>6, <1>8

\* Quotients by powers of 64 are quotients of quotients.
LEMMA Divided ==
  ASSUME NEW c \in Nat
  PROVE  c \div 64 \in Nat /\ c % 64 \in Nat /\ c % 64 < 64 /\ c = 64 * (c \div 64) + (c % 64)
  BY SMT

\* The groups of six bits of a number, from the last one.
Bits0(c) == c % 64

\* The groups of six bits that the shifts leave.
Bits1(c) == (c \div 64) % 64
Bits2(c) == ((c \div 64) \div 64) % 64
Bits3(c) == ((c \div 64) \div 64) \div 64

\* The groups of six bits of a code point.
LEMMA BitsOf ==
  ASSUME NEW c \in Nat
  PROVE  /\ Bits3(c) \in Nat
         /\ Bits2(c) \in Nat /\ Bits2(c) < 64
         /\ Bits1(c) \in Nat /\ Bits1(c) < 64
         /\ Bits0(c) \in Nat /\ Bits0(c) < 64
         /\ c = 64 * (64 * (64 * Bits3(c) + Bits2(c)) + Bits1(c)) + Bits0(c)
<1> DEFINE q == c \div 64  r == c % 64  p == q \div 64  s == q % 64  o == p \div 64  t == p % 64
<1>0. Bits3(c) = o /\ Bits2(c) = t /\ Bits1(c) = s /\ Bits0(c) = r
  BY DEF Bits0, Bits1, Bits2, Bits3
<1>1. q \in Nat /\ r \in Nat /\ r < 64 /\ c = 64 * q + r
  BY SMT, Divided
<1> HIDE DEF q, r
<1>2. p \in Nat /\ s \in Nat /\ s < 64 /\ q = 64 * p + s
  BY SMT, Divided, <1>1
<1> HIDE DEF p, s
<1>3. o \in Nat /\ t \in Nat /\ t < 64 /\ p = 64 * o + t
  BY SMT, Divided, <1>2
<1> HIDE DEF o, t
<1>4. c = 64 * (64 * (64 * o + t) + s) + r
  BY SMT, <1>1, <1>2, <1>3
<1> QED
  BY SMT, <1>0, <1>1, <1>2, <1>3, <1>4

\* Groups of six bits make up a number.
LEMMA PutTogether ==
  ASSUME NEW c \in Nat
  PROVE  \E o, t, s, r \in Nat : SixBits(c, o, t, s, r)
<1>1. Bits3(c) \in Nat /\ Bits2(c) \in Nat /\ Bits1(c) \in Nat /\ Bits0(c) \in Nat
  BY BitsOf
<1>2. SixBits(c, Bits3(c), Bits2(c), Bits1(c), Bits0(c))
  BY BitsOf DEF SixBits
<1> QED
  BY <1>1, <1>2

\* The branches of encodeUtf8.
LEMMA BytesByLength ==
  ASSUME NEW c \in Nat
  PROVE  /\ c <= 127 => CharacterOf(c) = <<c>>
         /\ 128 <= c /\ c <= 2047 => CharacterOf(c) = <<192 + c \div 64, 128 + (c % 64)>>
         /\ 2048 <= c /\ c <= 65535
              => CharacterOf(c) = <<224 + c \div 4096, 128 + ((c \div 64) % 64), 128 + (c % 64)>>
         /\ 65536 <= c
              => CharacterOf(c) = <<240 + c \div 262144, 128 + ((c \div 4096) % 64),
                                    128 + ((c \div 64) % 64), 128 + (c % 64)>>
  BY SMT DEF CharacterOf

\* The bytes of a code point from its groups of bits.
LEMMA BytesOf ==
  ASSUME NEW o \in Nat, NEW t \in Nat, NEW s \in Nat, NEW r \in Nat, NEW c \in Nat,
         SixBits(c, o, t, s, r)
  PROVE  /\ c <= 127 => CharacterOf(c) = <<c>>
         /\ 128 <= c /\ c <= 2047 => CharacterOf(c) = <<192 + s, 128 + r>>
         /\ 2048 <= c /\ c <= 65535 => CharacterOf(c) = <<224 + t, 128 + s, 128 + r>>
         /\ 65536 <= c => CharacterOf(c) = <<240 + o, 128 + t, 128 + s, 128 + r>>
<1>0. t < 64 /\ s < 64 /\ r < 64 /\ c = 64 * (64 * (64 * o + t) + s) + r
  BY DEF SixBits
<1>1. /\ c \div 64 = 64 * (64 * o + t) + s /\ c % 64 = r
      /\ (c \div 64) % 64 = s
      /\ c \div 4096 = 64 * o + t /\ (c \div 4096) % 64 = t
      /\ c \div 262144 = o
  BY SMT, TakenApart
<1>2. /\ c <= 2047 => o = 0 /\ t = 0 /\ 64 * (64 * o + t) + s = s
      /\ c <= 65535 => o = 0 /\ 64 * o + t = t
  BY SMT, <1>0
<1>3. CASE c <= 127
  BY SMT, <1>3, BytesByLength
<1>4. CASE 128 <= c /\ c <= 2047
  <2>1. CharacterOf(c) = <<192 + c \div 64, 128 + (c % 64)>>
    BY SMT, <1>4, BytesByLength
  <2>2. c \div 64 = s /\ c % 64 = r
    BY SMT, <1>1, <1>2, <1>4
  <2> QED
    BY SMT, <1>4, <2>1, <2>2
<1>5. CASE 2048 <= c /\ c <= 65535
  <2>1. CharacterOf(c) = <<224 + c \div 4096, 128 + ((c \div 64) % 64), 128 + (c % 64)>>
    BY SMT, <1>5, BytesByLength
  <2>2. c \div 4096 = t /\ (c \div 64) % 64 = s /\ c % 64 = r
    BY SMT, <1>1, <1>2, <1>5
  <2> QED
    BY SMT, <1>5, <2>1, <2>2
<1>6. CASE 65536 <= c
  <2>1. CharacterOf(c) = <<240 + c \div 262144, 128 + ((c \div 4096) % 64),
                           128 + ((c \div 64) % 64), 128 + (c % 64)>>
    BY SMT, <1>6, BytesByLength
  <2> QED
    BY SMT, <1>6, <2>1, <1>1
<1> QED
  BY SMT, <1>3, <1>4, <1>5, <1>6

\* What the bytes of a character stand for.
LEMMA CodepointsOf ==
  /\ \A a \in Nat : CodepointOf(<<a>>) = a % 128
  /\ \A a, b \in Nat : CodepointOf(<<a, b>>) = 64 * (a % 32) + (b % 64)
  /\ \A a, b, c \in Nat : CodepointOf(<<a, b, c>>) = 64 * (64 * (a % 16) + (b % 64)) + (c % 64)
  /\ \A a, b, c, d \in Nat :
       CodepointOf(<<a, b, c, d>>) = 64 * (64 * (64 * (a % 8) + (b % 64)) + (c % 64)) + (d % 64)
  BY SMT DEF CodepointOf, Lead, Joined

LEMMA CodepointOfFour ==
  ASSUME NEW a \in Nat, NEW b \in Nat, NEW c \in Nat, NEW d \in Nat
  PROVE  CodepointOf(<<a, b, c, d>>) = 64 * (64 * (64 * (a % 8) + (b % 64)) + (c % 64)) + (d % 64)
  BY SMT, CodepointsOf

(*****************************************************************************)
(* Characters: the bytes of one code point, and nothing else.               *)
(*****************************************************************************)

\* The lengths in bytes, with the first byte, of the characters.
LEMMA Lengths ==
  ASSUME NEW a \in Nat
  PROVE  /\ a < 128 <=> LengthFrom(a) = 1
         /\ 192 <= a /\ a <= 223 <=> LengthFrom(a) = 2
         /\ 224 <= a /\ a <= 239 <=> LengthFrom(a) = 3
         /\ 240 <= a /\ a <= 247 <=> LengthFrom(a) = 4
         /\ LengthFrom(a) \in 0 .. 4
  BY SMT DEF LengthFrom

\* A sequence of bytes that can be one character.
OneCharacter(b) == LengthFrom(b[1]) = Len(b) /\ IsCharacter(b)

\* IsCharacter of one byte.
LEMMA CharactersOfOne ==
  ASSUME NEW x \in Nat
  PROVE  LET b == <<x>>
         IN IsCharacter(b) <=>
              /\ CodepointOf(b) >= 0 /\ IsScalar(CodepointOf(b))
<1> DEFINE b == <<x>>
<1>1. Len(b) = 1
  BY SMT
<1>2. Minimum(1) = 0
  BY SMT DEF Minimum
<1>3. (\A i \in 2 .. 1 : b[i] \in 128 .. 191)
        <=> TRUE
  BY SMT
<1> HIDE DEF b
<1> QED
  BY SMT, <1>1, <1>2, <1>3 DEF IsCharacter

\* IsCharacter of two bytes.
LEMMA CharactersOfTwo ==
  ASSUME NEW x \in Nat, NEW y \in Nat
  PROVE  LET b == <<x, y>>
         IN IsCharacter(b) <=>
              /\ 128 <= y /\ y <= 191
              /\ CodepointOf(b) >= 128 /\ IsScalar(CodepointOf(b))
<1> DEFINE b == <<x, y>>
<1>1. Len(b) = 2
  BY SMT
<1>2. Minimum(2) = 128
  BY SMT DEF Minimum
<1>3. (\A i \in 2 .. 2 : b[i] \in 128 .. 191)
        <=> 128 <= y /\ y <= 191
  BY SMT
<1> HIDE DEF b
<1> QED
  BY SMT, <1>1, <1>2, <1>3 DEF IsCharacter

\* IsCharacter of three bytes.
LEMMA CharactersOfThree ==
  ASSUME NEW x \in Nat, NEW y \in Nat, NEW z \in Nat
  PROVE  LET b == <<x, y, z>>
         IN IsCharacter(b) <=>
              /\ 128 <= y /\ y <= 191
              /\ 128 <= z /\ z <= 191
              /\ CodepointOf(b) >= 2048 /\ IsScalar(CodepointOf(b))
<1> DEFINE b == <<x, y, z>>
<1>1. Len(b) = 3
  BY SMT
<1>2. Minimum(3) = 2048
  BY SMT DEF Minimum
<1>3. (\A i \in 2 .. 3 : b[i] \in 128 .. 191)
        <=> 128 <= y /\ y <= 191 /\ 128 <= z /\ z <= 191
  BY SMT
<1> HIDE DEF b
<1> QED
  BY SMT, <1>1, <1>2, <1>3 DEF IsCharacter

\* IsCharacter of four bytes.
LEMMA CharactersOfFour ==
  ASSUME NEW x \in Nat, NEW y \in Nat, NEW z \in Nat, NEW w \in Nat
  PROVE  LET b == <<x, y, z, w>>
         IN IsCharacter(b) <=>
              /\ 128 <= y /\ y <= 191
              /\ 128 <= z /\ z <= 191
              /\ 128 <= w /\ w <= 191
              /\ CodepointOf(b) >= 65536 /\ IsScalar(CodepointOf(b))
<1> DEFINE b == <<x, y, z, w>>
<1>1. Len(b) = 4
  BY SMT
<1>2. Minimum(4) = 65536
  BY SMT DEF Minimum
<1>3. (\A i \in 2 .. 4 : b[i] \in 128 .. 191)
        <=> 128 <= y /\ y <= 191 /\ 128 <= z /\ z <= 191 /\ 128 <= w /\ w <= 191
  BY SMT
<1> HIDE DEF b
<1> QED
  BY SMT, <1>1, <1>2, <1>3 DEF IsCharacter

\* Sequences of one to four bytes.
LEMMA BytesInSeq ==
  /\ \A a \in Byte : <<a>> \in Seq(Byte)
  /\ \A a, b \in Byte : <<a, b>> \in Seq(Byte)
  /\ \A a, b, c \in Byte : <<a, b, c>> \in Seq(Byte)
  /\ \A a, b, c, d \in Byte : <<a, b, c, d>> \in Seq(Byte)
<1> QED
  BY SMT

\* Bytes by their bounds.
LEMMA BytesAre ==
  ASSUME NEW a
  PROVE  a \in Byte <=> a \in Nat /\ a <= 255
  BY SMT DEF Byte

\* Scalar values by their bounds.
LEMMA ScalarsAre ==
  ASSUME NEW c \in Nat
  PROVE  IsScalar(c) <=> c <= 1114111 /\ (c < 55296 \/ c > 57343)
  BY SMT DEF IsScalar

\* Two bytes made of a code point of their length are its character.
LEMMA TwoBytes ==
  ASSUME NEW s \in Nat, NEW r \in Nat, NEW c \in Nat,
         s < 32, SixBits(c, 0, 0, s, r), c >= 128, IsScalar(c)
  PROVE  LET b == <<192 + s, 128 + r>>
         IN b \in Seq(Byte) /\ Len(b) = 2 /\ OneCharacter(b) /\ CodepointOf(b) = c
<1> DEFINE b == <<192 + s, 128 + r>>
<1>0. r < 64 /\ c = 64 * s + r
  BY SMT DEF SixBits
<1>1. /\ 192 + s \in Nat /\ 128 + r \in Nat
      /\ (192 + s) % 32 = s /\ (128 + r) % 64 = r
  BY SMT, <1>0
<1>2. CodepointOf(b) = c
  <2>1. CodepointOf(b) = 64 * ((192 + s) % 32) + ((128 + r) % 64)
    BY SMT, <1>1, CodepointsOf
  <2> HIDE DEF b
  <2> QED
    BY SMT, <1>0, <1>1, <2>1
<1>3. IsCharacter(b)
  BY SMT, <1>0, <1>1, <1>2, CharactersOfTwo
<1>4. 192 + s \in Byte /\ 128 + r \in Byte
      /\ LengthFrom(192 + s) = 2
  BY SMT, <1>0, BytesAre, Lengths
<1>5. b \in Seq(Byte)
  BY <1>4, BytesInSeq
<1>6. Len(b) = 2 /\ b[1] = 192 + s
  BY SMT
<1>7. OneCharacter(b)
  <2> HIDE DEF b
  <2> QED
    BY SMT, <1>3, <1>4, <1>6 DEF OneCharacter
<1> HIDE DEF b
<1> QED
  BY <1>2, <1>5, <1>6, <1>7 DEF b

\* Three bytes made of a code point of their length are its character.
LEMMA ThreeBytes ==
  ASSUME NEW t \in Nat, NEW s \in Nat, NEW r \in Nat, NEW c \in Nat,
         t < 16, SixBits(c, 0, t, s, r), c >= 2048, IsScalar(c)
  PROVE  LET b == <<224 + t, 128 + s, 128 + r>>
         IN b \in Seq(Byte) /\ Len(b) = 3 /\ OneCharacter(b) /\ CodepointOf(b) = c
<1> DEFINE b == <<224 + t, 128 + s, 128 + r>>
<1>0. s < 64 /\ r < 64 /\ c = 64 * (64 * t + s) + r
  BY SMT DEF SixBits
<1>1. /\ 224 + t \in Nat /\ 128 + s \in Nat /\ 128 + r \in Nat
      /\ (224 + t) % 16 = t /\ (128 + s) % 64 = s /\ (128 + r) % 64 = r
  BY SMT, <1>0
<1>2. CodepointOf(b) = c
  <2>1. CodepointOf(b) = 
              64 * (64 * ((224 + t) % 16) + ((128 + s) % 64)) + ((128 + r) % 64)
    BY SMT, <1>1, CodepointsOf
  <2> HIDE DEF b
  <2> QED
    BY SMT, <1>0, <1>1, <2>1
<1>3. IsCharacter(b)
  BY SMT, <1>0, <1>1, <1>2, CharactersOfThree
<1>4. 224 + t \in Byte /\ 128 + s \in Byte /\ 128 + r \in Byte
      /\ LengthFrom(224 + t) = 3
  BY SMT, <1>0, BytesAre, Lengths
<1>5. b \in Seq(Byte)
  BY <1>4, BytesInSeq
<1>6. Len(b) = 3 /\ b[1] = 224 + t
  BY SMT
<1>7. OneCharacter(b)
  <2> HIDE DEF b
  <2> QED
    BY SMT, <1>3, <1>4, <1>6 DEF OneCharacter
<1> HIDE DEF b
<1> QED
  BY <1>2, <1>5, <1>6, <1>7 DEF b

\* Four bytes made of a code point of their length are its character.
LEMMA FourBytes ==
  ASSUME NEW o \in Nat, NEW t \in Nat, NEW s \in Nat, NEW r \in Nat, NEW c \in Nat,
         o < 8, SixBits(c, o, t, s, r), c >= 65536, IsScalar(c)
  PROVE  LET b == <<240 + o, 128 + t, 128 + s, 128 + r>>
         IN b \in Seq(Byte) /\ Len(b) = 4 /\ OneCharacter(b) /\ CodepointOf(b) = c
<1> DEFINE b == <<240 + o, 128 + t, 128 + s, 128 + r>>
<1>0. t < 64 /\ s < 64 /\ r < 64 /\ c = 64 * (64 * (64 * o + t) + s) + r
  BY SMT DEF SixBits
<1>1. /\ 240 + o \in Nat /\ 128 + t \in Nat /\ 128 + s \in Nat /\ 128 + r \in Nat
      /\ (240 + o) % 8 = o /\ (128 + t) % 64 = t /\ (128 + s) % 64 = s /\ (128 + r) % 64 = r
  BY SMT, <1>0
<1>2. CodepointOf(b) = c
  <2> DEFINE w == 240 + o  x == 128 + t  y == 128 + s  z == 128 + r
  <2>1. w \in Nat /\ x \in Nat /\ y \in Nat /\ z \in Nat
    BY <1>1
  <2>2. w % 8 = o /\ x % 64 = t /\ y % 64 = s /\ z % 64 = r
    BY <1>1
  <2>3. b = <<w, x, y, z>>
    OBVIOUS
  <2> HIDE DEF b, w, x, y, z
  <2>4. CodepointOf(<<w, x, y, z>>) = 64 * (64 * (64 * (w % 8) + (x % 64)) + (y % 64)) + (z % 64)
    BY <2>1, CodepointOfFour
  <2> QED
    BY SMTT(30), <1>0, <2>2, <2>3, <2>4
<1>3. IsCharacter(b)
  BY SMT, <1>0, <1>1, <1>2, CharactersOfFour
<1>4. 240 + o \in Byte /\ 128 + t \in Byte /\ 128 + s \in Byte /\ 128 + r \in Byte
      /\ LengthFrom(240 + o) = 4
  BY SMT, <1>0, BytesAre, Lengths
<1>5. b \in Seq(Byte)
  BY <1>4, BytesInSeq
<1>6. Len(b) = 4 /\ b[1] = 240 + o
  BY SMT
<1>7. OneCharacter(b)
  <2> HIDE DEF b
  <2> QED
    BY SMT, <1>3, <1>4, <1>6 DEF OneCharacter
<1> HIDE DEF b
<1> QED
  BY <1>2, <1>5, <1>6, <1>7 DEF b

\* The bytes of a code point are read back as that code point.
LEMMA WrittenCharacter ==
  ASSUME NEW c \in Nat, IsScalar(c)
  PROVE  /\ CharacterOf(c) \in Seq(Byte) /\ Len(CharacterOf(c)) \in 1 .. 4
         /\ OneCharacter(CharacterOf(c))
         /\ CodepointOf(CharacterOf(c)) = c
<1>1. PICK o \in Nat, t \in Nat, s \in Nat, r \in Nat :
        SixBits(c, o, t, s, r)
  BY PutTogether
<1>2. /\ c <= 127 => CharacterOf(c) = <<c>>
      /\ 128 <= c /\ c <= 2047 => CharacterOf(c) = <<192 + s, 128 + r>>
      /\ 2048 <= c /\ c <= 65535 => CharacterOf(c) = <<224 + t, 128 + s, 128 + r>>
      /\ 65536 <= c => CharacterOf(c) = <<240 + o, 128 + t, 128 + s, 128 + r>>
  BY SMT, <1>1, BytesOf
<1>3. /\ c <= 1114111 /\ c = 64 * (64 * (64 * o + t) + s) + r
      /\ t < 64 /\ s < 64 /\ r < 64
  BY SMT, <1>1, ScalarsAre DEF SixBits
<1>5. CASE c <= 127
  <2>1. CharacterOf(c) = <<c>>
    BY SMT, <1>2, <1>5
  <2>2. c \in Byte /\ c % 128 = c /\ LengthFrom(c) = 1
    BY SMT, <1>5, BytesAre, Lengths
  <2>3. <<c>> \in Seq(Byte) /\ Len(<<c>>) = 1 /\ <<c>>[1] = c
    BY SMT, <2>2, BytesInSeq
  <2>4. IsCharacter(<<c>>) /\ CodepointOf(<<c>>) = c
    BY SMT, <2>2, CharactersOfOne, CodepointsOf
  <2> QED
    BY SMT, <2>1, <2>2, <2>3, <2>4 DEF OneCharacter
<1>6. CASE 128 <= c /\ c <= 2047
  <2>1. CharacterOf(c) = <<192 + s, 128 + r>>
    BY SMT, <1>2, <1>6
  <2>2. s < 32 /\ SixBits(c, 0, 0, s, r)
    BY SMT, <1>3, <1>6 DEF SixBits
  <2> QED
    BY SMT, <1>6, <2>1, <2>2, TwoBytes
<1>7. CASE 2048 <= c /\ c <= 65535
  <2>1. CharacterOf(c) = <<224 + t, 128 + s, 128 + r>>
    BY SMT, <1>2, <1>7
  <2>2. t < 16 /\ SixBits(c, 0, t, s, r)
    BY SMT, <1>3, <1>7 DEF SixBits
  <2> QED
    BY SMT, <1>7, <2>1, <2>2, ThreeBytes
<1>8. CASE 65536 <= c
  <2>1. CharacterOf(c) = <<240 + o, 128 + t, 128 + s, 128 + r>>
    BY SMT, <1>2, <1>8
  <2>2. o < 8
    BY SMT, <1>3
  <2> QED
    BY SMTT(60), <1>1, <1>8, <2>1, <2>2, FourBytes
<1> QED
  BY SMT, <1>5, <1>6, <1>7, <1>8

\* A sequence of up to four bytes, byte by byte.
LEMMA Elements ==
  ASSUME NEW b \in Seq(Byte)
  PROVE  /\ Len(b) = 1 => \E x \in Byte : b = <<x>>
         /\ Len(b) = 2 => \E x, y \in Byte : b = <<x, y>>
         /\ Len(b) = 3 => \E x, y, z \in Byte : b = <<x, y, z>>
         /\ Len(b) = 4 => \E x, y, z, w \in Byte : b = <<x, y, z, w>>
<1>1. \A i \in 1 .. Len(b) : b[i] \in Byte
  OBVIOUS
<1>2. CASE Len(b) = 1
  BY <1>1, <1>2
<1>3. CASE Len(b) = 2
  BY <1>1, <1>3
<1>4. CASE Len(b) = 3
  <2>1. b[1] \in Byte /\ b[2] \in Byte /\ b[3] \in Byte
    BY <1>1, <1>4
  <2>2. b = <<b[1], b[2], b[3]>>
    BY <1>4
  <2> QED
    BY <1>4, <2>1, <2>2
<1>5. CASE Len(b) = 4
  <2>1. b[1] \in Byte /\ b[2] \in Byte /\ b[3] \in Byte /\ b[4] \in Byte
    BY <1>1, <1>5
  <2>2. b = <<b[1], b[2], b[3], b[4]>>
    BY <1>5
  <2> QED
    BY <1>5, <2>1, <2>2
<1> QED
  BY <1>2, <1>3, <1>4, <1>5

\* And the bytes of a character are the ones its code point is written with.
LEMMA ReadCharacter ==
  ASSUME NEW b \in Seq(Byte), Len(b) \in 1 .. 4, OneCharacter(b)
  PROVE  /\ CodepointOf(b) \in Nat /\ IsScalar(CodepointOf(b))
         /\ CharacterOf(CodepointOf(b)) = b
<1>1. CASE Len(b) = 1
  <2>1. PICK x \in Byte : b = <<x>>
    BY <1>1, Elements
  <2>2. x \in Nat /\ x < 128
    BY SMT, <2>1, <1>1, BytesAre, Lengths DEF OneCharacter
  <2>3. IsScalar(x % 128) /\ CodepointOf(b) = x % 128 /\ x % 128 = x
    BY SMT, <2>1, <2>2, CharactersOfOne, CodepointsOf DEF OneCharacter
  <2>4. CharacterOf(x) = <<x>>
    BY SMT, <2>2, BytesByLength
  <2> QED
    BY SMT, <2>1, <2>2, <2>3, <2>4
<1>2. CASE Len(b) = 2
  <2>1. PICK x \in Byte, y \in Byte : b = <<x, y>>
    BY <1>2, Elements
  <2>2. x \in Nat /\ y \in Nat /\ 192 <= x /\ x <= 223
    BY SMT, <2>1, <1>2, BytesAre, Lengths DEF OneCharacter
  <2>3. 128 <= y /\ y <= 191
    BY SMT, <2>1, <2>2, CharactersOfTwo DEF OneCharacter
  <2>4. x - 192 \in Nat /\ y - 128 \in Nat
    BY SMT, <2>2, <2>3
  <2>5. PICK s \in Nat, r \in Nat : x = 192 + s /\ y = 128 + r
    BY SMT, <2>2, <2>4
  <2>6. s < 32 /\ r < 64 /\ x % 32 = s /\ y % 64 = r
    BY SMT, <2>2, <2>3, <2>5
  <2>7. CodepointOf(b) = 64 * s + r /\ 64 * s + r >= 128 /\ IsScalar(64 * s + r)
    BY SMT, <2>1, <2>2, <2>6, CharactersOfTwo, CodepointsOf DEF OneCharacter
  <2>8. 64 * s + r \in Nat /\ SixBits(64 * s + r, 0, 0, s, r) /\ 64 * s + r <= 2047
    BY SMT, <2>6 DEF SixBits
  <2>9. CharacterOf(64 * s + r) = <<192 + s, 128 + r>>
    BY SMT, <2>6, <2>7, <2>8, BytesOf
  <2> QED
    BY SMT, <2>1, <2>5, <2>7, <2>8, <2>9
<1>3. CASE Len(b) = 3
  <2>1. PICK x \in Byte, y \in Byte, z \in Byte : b = <<x, y, z>>
    BY <1>3, Elements
  <2>2. x \in Nat /\ y \in Nat /\ z \in Nat /\ 224 <= x /\ x <= 239
    BY SMT, <2>1, <1>3, BytesAre, Lengths DEF OneCharacter
  <2>3. 128 <= y /\ y <= 191 /\ 128 <= z /\ z <= 191
    BY SMT, <2>1, <2>2, CharactersOfThree DEF OneCharacter
  <2>4. x - 224 \in Nat /\ y - 128 \in Nat /\ z - 128 \in Nat
    BY SMT, <2>2, <2>3
  <2>5. PICK t \in Nat, s \in Nat, r \in Nat : x = 224 + t /\ y = 128 + s /\ z = 128 + r
    BY SMT, <2>2, <2>4
  <2>6. t < 16 /\ s < 64 /\ r < 64 /\ x % 16 = t /\ y % 64 = s /\ z % 64 = r
    BY SMT, <2>2, <2>3, <2>5
  <2> DEFINE c == 64 * (64 * t + s) + r
  <2>7. CodepointOf(b) = c /\ c >= 2048 /\ IsScalar(c)
    BY SMT, <2>1, <2>2, <2>6, CharactersOfThree, CodepointsOf DEF OneCharacter
  <2>8. c \in Nat /\ SixBits(c, 0, t, s, r) /\ c <= 65535
    BY SMT, <2>6 DEF SixBits
  <2>9. CharacterOf(c) = <<224 + t, 128 + s, 128 + r>>
    BY SMTT(60), <2>6, <2>7, <2>8, BytesOf
  <2> QED
    BY SMT, <2>1, <2>5, <2>7, <2>8, <2>9
<1>4. CASE Len(b) = 4
  <2>1. PICK x \in Byte, y \in Byte, z \in Byte, w \in Byte : b = <<x, y, z, w>>
    BY <1>4, Elements
  <2>2. x \in Nat /\ y \in Nat /\ z \in Nat /\ w \in Nat /\ 240 <= x /\ x <= 247
    BY SMT, <2>1, <1>4, BytesAre, Lengths DEF OneCharacter
  <2>3. 128 <= y /\ y <= 191 /\ 128 <= z /\ z <= 191 /\ 128 <= w /\ w <= 191
    BY SMT, <2>1, <2>2, CharactersOfFour DEF OneCharacter
  <2>4. x - 240 \in Nat /\ y - 128 \in Nat /\ z - 128 \in Nat /\ w - 128 \in Nat
    BY SMT, <2>2, <2>3
  <2>5. PICK o \in Nat, t \in Nat, s \in Nat, r \in Nat :
          x = 240 + o /\ y = 128 + t /\ z = 128 + s /\ w = 128 + r
    BY SMT, <2>2, <2>4
  <2>6. /\ o < 8 /\ t < 64 /\ s < 64 /\ r < 64
        /\ x % 8 = o /\ y % 64 = t /\ z % 64 = s /\ w % 64 = r
    BY SMT, <2>2, <2>3, <2>5
  <2> DEFINE c == 64 * (64 * (64 * o + t) + s) + r
  <2>7. CodepointOf(b) = c /\ c >= 65536 /\ IsScalar(c)
    BY SMT, <2>1, <2>2, <2>6, CharactersOfFour, CodepointsOf DEF OneCharacter
  <2>8. c \in Nat /\ SixBits(c, o, t, s, r)
    BY SMT, <2>6 DEF SixBits
  <2>9. CharacterOf(c) = <<240 + o, 128 + t, 128 + s, 128 + r>>
    BY SMTT(60), <2>6, <2>7, <2>8, BytesOf
  <2> QED
    BY SMT, <2>1, <2>5, <2>7, <2>8, <2>9
<1> QED
  BY SMT, <1>1, <1>2, <1>3, <1>4

(*****************************************************************************)
(* Decode goes through a text character by character.                       *)
(*****************************************************************************)

\* The last k bytes of a text begin with these n.
First(text, k) == (Len(text) - k) + 1

\* The bytes Decode takes for a character k bytes before the end.
FirstBytes(text, k) ==
  SubSeq(text, First(text, k), (First(text, k) + LengthFrom(text[First(text, k)])) - 1)

\* What Decode makes of them when d is what it makes of fewer bytes.
DecodedFrom(text, k, d) ==
  LET n == LengthFrom(text[First(text, k)])
      b == FirstBytes(text, k)
  IN IF n \notin 1 .. k \/ ~IsCharacter(b) \/ d[k - n] = Nothing THEN Nothing
     ELSE <<CodepointOf(b)>> \o d[k - n]

\* What Decode looks at are bytes of the text.
LEMMA FirstBytesAre ==
  ASSUME NEW text \in Seq(Byte), NEW k \in 1 .. Len(text)
  PROVE  LET n == LengthFrom(text[First(text, k)])
             b == FirstBytes(text, k)
         IN /\ First(text, k) \in 1 .. Len(text) /\ text[First(text, k)] \in Byte
            /\ n \in 0 .. 4
            /\ n \in 1 .. k => b \in Seq(Byte) /\ Len(b) = n /\ b[1] = text[First(text, k)]
<1> DEFINE i == First(text, k)  n == LengthFrom(text[i])
<1>1. i \in 1 .. Len(text) /\ i = Len(text) - k + 1 /\ text[i] \in Byte
  BY DEF First
<1>2. text[i] \in Nat
  BY <1>1, BytesAre
<1>3. n \in 0 .. 4
  BY <1>2, Lengths
<1>4. ASSUME n \in 1 .. k
      PROVE  LET b == SubSeq(text, i, (i + n) - 1)
             IN b \in Seq(Byte) /\ Len(b) = n /\ b[1] = text[i]
  <2> HIDE DEF i, n
  <2>1. (i + n) - 1 \in Int /\ (i + n) - 1 <= Len(text) /\ i <= (i + n) - 1
    BY <1>1, <1>4
  <2> QED
    BY SMTT(60), <1>1, <1>4, <2>1
<1> HIDE DEF i, n
<1> QED
  BY <1>1, <1>3, <1>4 DEF i, n, FirstBytes

\* The values of the recursion are code points, or nothing.
LEMMA DecodedFromIs ==
  ASSUME NEW text \in Seq(Byte), NEW k \in 1 .. Len(text), NEW d \in [0 .. Len(text) -> Seq(Int)]
  PROVE  DecodedFrom(text, k, d) \in Seq(Int)
<1> DEFINE n == LengthFrom(text[First(text, k)])  b == FirstBytes(text, k)
<1>1. Nothing \in Seq(Int)
  BY DEF Nothing
<1>2. ASSUME n \in 1 .. k, IsCharacter(b) PROVE <<CodepointOf(b)>> \o d[k - n] \in Seq(Int)
  <2>1. b \in Seq(Byte) /\ Len(b) = n /\ Len(b) \in 1 .. 4 /\ OneCharacter(b)
    <3>1. n \in 0 .. 4 /\ b \in Seq(Byte) /\ Len(b) = n /\ b[1] = text[First(text, k)]
      BY <1>2, FirstBytesAre
    <3> HIDE DEF b
    <3> QED
      BY <1>2, <3>1 DEF OneCharacter
  <2>2. CodepointOf(b) \in Nat
    BY <2>1, ReadCharacter
  <2>3. k - n \in 0 .. Len(text)
    BY <1>2
  <2>4. d[k - n] \in Seq(Int)
    BY <2>3
  <2> QED
    BY <2>2, <2>4
<1> QED
  BY <1>1, <1>2 DEF DecodedFrom

\* The recursion of Decode is defined.
LEMMA DecodeUnfolds ==
  ASSUME NEW text \in Seq(Byte)
  PROVE  \E d \in [0 .. Len(text) -> Seq(Int)] :
           /\ Decode(text) = d[Len(text)] /\ d[0] = <<>>
           /\ \A k \in 1 .. Len(text) : d[k] = DecodedFrom(text, k, d)
<1> DEFINE N == Len(text)
           D == Seq(Int)
           Is(f) == f = [k \in 0 .. N |-> IF k = 0 THEN <<>> ELSE DecodedFrom(text, k, f)]
           decoded == CHOOSE f : Is(f)
           value == [k \in 1 .. N |-> [f \in [0 .. N -> D] |-> DecodedFrom(text, k, f)]]
<1>1. N \in Nat /\ <<>> \in D
  OBVIOUS
<1>2. value \in [1 .. N -> [[0 .. N -> D] -> D]]
  BY DecodedFromIs
<1>3. ASSUME NEW k \in 1 .. N, NEW f \in [0 .. N -> D], NEW g \in [0 .. N -> D],
             \A j \in 0 .. k - 1 : f[j] = g[j]
      PROVE  DecodedFrom(text, k, f) = DecodedFrom(text, k, g)
  <2> DEFINE n == LengthFrom(text[First(text, k)])
  <2>1. n \in 1 .. k => k - n \in 0 .. k - 1
    OBVIOUS
  <2> HIDE DEF n
  <2>2. n \in 1 .. k => f[k - n] = g[k - n]
    BY <1>3, <2>1
  <2> QED
    BY <2>2 DEF DecodedFrom, n
<1>4. PICK f \in [0 .. N -> D] : Continues(f, N, <<>>, value)
  <2>1. LooksBack(value, N, D)
    BY <1>3 DEF LooksBack
  <2> HIDE DEF value, N, D
  <2> QED
    BY <1>1, <1>2, <2>1, CourseIsDefined
<1>5. f[0] = <<>> /\ \A k \in 1 .. N : f[k] = DecodedFrom(text, k, f)
  BY <1>4 DEF Continues
<1>6. Is(f)
  BY <1>5
<1>7. Is(decoded)
  <2> HIDE DEF Is
  <2> QED
    BY <1>6
<1>8. Decode(text) = decoded[N]
  BY DEF Decode, DecodedFrom, FirstBytes, First
<1> HIDE DEF decoded
<1>9. \A k \in 0 .. N : decoded[k] = IF k = 0 THEN <<>> ELSE DecodedFrom(text, k, decoded)
  BY <1>7
<1>10. decoded = f
  <2> DEFINE T == {k \in 0 .. N : decoded[k] = f[k]}
  <2>1. ASSUME NEW k \in 0 .. N, \A m \in 0 .. k - 1 : m \in T PROVE k \in T
    <3>1. CASE k = 0
      BY <1>1, <1>5, <1>9, <3>1
    <3>2. CASE k # 0
      <4> DEFINE n == LengthFrom(text[First(text, k)])
      <4>1. n \in 1 .. k => k - n \in 0 .. k - 1
        OBVIOUS
      <4> HIDE DEF n
      <4>2. n \in 1 .. k => decoded[k - n] = f[k - n]
        BY <2>1, <4>1
      <4>3. DecodedFrom(text, k, decoded) = DecodedFrom(text, k, f)
        BY <4>2 DEF DecodedFrom, n
      <4>4. k \in 1 .. N
        BY <3>2
      <4> QED
        BY <1>5, <1>9, <3>2, <4>3, <4>4
    <3> QED
      BY <3>1, <3>2
  <2> HIDE DEF T
  <2>2. \A k \in 0 .. N : k \in T
    BY <1>1, <2>1, CompleteInduction
  <2>3. \A k \in 0 .. N : decoded[k] = f[k]
    BY <2>2 DEF T
  <2>4. decoded = [k \in 0 .. N |-> decoded[k]]
    BY <1>7 DEF Is
  <2> QED
    BY <2>3, <2>4
<1> QED
  BY <1>5, <1>8, <1>10

\* d is what the recursion of Decode computes for a text.
Decodes(d, text) ==
  /\ d \in [0 .. Len(text) -> Seq(Int)] /\ d[0] = <<>>
  /\ \A k \in 1 .. Len(text) : d[k] = DecodedFrom(text, k, d)

\* Decode by its recursion.
LEMMA DecodeIs ==
  ASSUME NEW text \in Seq(Byte)
  PROVE  \E d : Decodes(d, text) /\ Decode(text) = d[Len(text)]
  BY DecodeUnfolds DEF Decodes

\* What precedes a text does not change what the text is decoded to.
LEMMA DecodeOfEnd ==
  ASSUME NEW a \in Seq(Byte), NEW rest \in Seq(Byte), NEW d, Decodes(d, a \o rest),
         NEW e, Decodes(e, rest)
  PROVE  \A k \in 0 .. Len(rest) : d[k] = e[k]
<1> DEFINE text == a \o rest  N == Len(rest)  M == Len(a)
           T == {k \in 0 .. N : d[k] = e[k]}
<1>1. /\ text \in Seq(Byte) /\ Len(text) = M + N /\ M \in Nat /\ N \in Nat
      /\ \A i \in 1 .. N : text[M + i] = rest[i]
  BY ConcatProperties
<1> HIDE DEF M, N
<1>2. ASSUME NEW k \in 0 .. N, \A m \in 0 .. k - 1 : m \in T PROVE k \in T
  <2>1. CASE k = 0
    BY <1>2, <2>1 DEF Decodes
  <2>2. CASE k # 0
    <3> DEFINE i == First(rest, k)  n == LengthFrom(rest[i])
    <3>1. k \in 1 .. Len(rest) /\ k \in 1 .. Len(text)
      BY <1>1, <2>2 DEF N
    <3>2. First(text, k) = M + i
      BY <1>1, <3>1 DEF First, N
    <3>3. i \in 1 .. N /\ i = (N - k) + 1 /\ text[M + i] = rest[i]
      BY <1>1, <3>1 DEF First, N
    <3>4. n \in 0 .. 4
      BY <3>1, FirstBytesAre
    <3> HIDE DEF i
    <3>5. LengthFrom(text[First(text, k)]) = n
      BY <3>2, <3>3
    <3> HIDE DEF n
    <3>6. ASSUME n \in 1 .. k PROVE FirstBytes(text, k) = FirstBytes(rest, k)
      <4>1. FirstBytes(text, k) = SubSeq(text, M + i, (M + i + n) - 1)
        BY <3>2, <3>5 DEF FirstBytes
      <4>2. FirstBytes(rest, k) = SubSeq(rest, i, (i + n) - 1)
        BY DEF FirstBytes, i, n
      <4>3. M + i \in M + 1 .. M + N /\ (M + i + n) - 1 \in M + 1 .. M + N
        BY <1>1, <3>3, <3>6
      <4>4. (M + i) - M = i /\ ((M + i + n) - 1) - M = (i + n) - 1
        BY <1>1, <3>3, <3>4
      <4>5. SubSeq(text, M + i, (M + i + n) - 1)
              = SubSeq(rest, (M + i) - M, ((M + i + n) - 1) - M)
        BY <4>3, SubSeqOfConcat2 DEF M, N
      <4> QED
        BY <4>1, <4>2, <4>4, <4>5
    <3>7. n \in 1 .. k => d[k - n] = e[k - n]
      <4> SUFFICES ASSUME n \in 1 .. k PROVE d[k - n] = e[k - n]
        OBVIOUS
      <4>1. k - n \in 0 .. k - 1
        BY <3>4
      <4> QED
        BY <1>2, <4>1
    <3>8. DecodedFrom(text, k, d) = DecodedFrom(rest, k, e)
      BY <3>5, <3>6, <3>7 DEF DecodedFrom, n, i
    <3>9. d[k] = DecodedFrom(text, k, d) /\ e[k] = DecodedFrom(rest, k, e)
      BY <3>1 DEF Decodes
    <3> QED
      BY <3>8, <3>9
  <2> QED
    BY <2>1, <2>2
<1> HIDE DEF T
<1>3. \A k \in 0 .. N : k \in T
  BY <1>1, <1>2, CompleteInduction
<1> QED
  BY <1>3 DEF T, N

\* The empty text has no code points.
LEMMA DecodeOfNothing == Decode(<<>>) = <<>>
<1>1. <<>> \in Seq(Byte) /\ Len(<<>>) = 0
  OBVIOUS
<1>2. PICK d : Decodes(d, <<>>) /\ Decode(<<>>) = d[Len(<<>>)]
  BY <1>1, DecodeIs
<1> QED
  BY <1>1, <1>2 DEF Decodes

\* A text that begins with the bytes of one character.
LEMMA DecodeRest ==
  ASSUME NEW b \in Seq(Byte), Len(b) \in 1 .. 4, LengthFrom(b[1]) = Len(b), NEW rest \in Seq(Byte)
  PROVE  Decode(b \o rest) = IF ~IsCharacter(b) \/ Decode(rest) = Nothing THEN Nothing
                             ELSE <<CodepointOf(b)>> \o Decode(rest)
<1> DEFINE text == b \o rest  N == Len(rest)  n == Len(b)  k == n + N
<1>1. /\ text \in Seq(Byte) /\ Len(text) = k /\ N \in Nat /\ n \in 1 .. 4
      /\ text[1] = b[1] /\ b # <<>>
  BY ConcatProperties
<1>2. PICK d : Decodes(d, text) /\ Decode(text) = d[k]
  BY <1>1, DecodeIs
<1>3. PICK e : Decodes(e, rest) /\ Decode(rest) = e[N]
  BY DecodeIs
<1>4. d[N] = Decode(rest)
  BY <1>1, <1>2, <1>3, DecodeOfEnd
<1>5. First(text, k) = 1 /\ LengthFrom(text[First(text, k)]) = n
  BY <1>1 DEF First
<1>6. FirstBytes(text, k) = b
  <2>1. FirstBytes(text, k) = SubSeq(text, 1, n)
    BY SMTT(60), <1>1, <1>5 DEF FirstBytes
  <2>2. SubSeq(text, 1, n) = SubSeq(b, 1, n)
    BY <1>1, SubSeqOfConcat1
  <2> QED
    BY <2>1, <2>2, SubSeqFull
<1>7. Decode(text) = DecodedFrom(text, k, d)
  BY <1>1, <1>2 DEF Decodes
<1>8. n \in 1 .. k /\ k - n = N
  BY <1>1
<1> HIDE DEF text, N, n, k
<1>9. Decode(text) = IF ~IsCharacter(b) \/ d[N] = Nothing THEN Nothing
                     ELSE <<CodepointOf(b)>> \o d[N]
  BY <1>5, <1>6, <1>7, <1>8 DEF DecodedFrom
<1> QED
  BY <1>4, <1>9 DEF text

\* A text that is valid is empty or begins with a character.
LEMMA DecodeSplits ==
  ASSUME NEW text \in Seq(Byte), text # <<>>, Decode(text) # Nothing
  PROVE  \E b, rest \in Seq(Byte) :
           text = b \o rest /\ Len(b) \in 1 .. 4 /\ OneCharacter(b)
<1> DEFINE k == Len(text)  n == LengthFrom(text[1])  b == FirstBytes(text, k)
           rest == SubSeq(text, n + 1, k)
<1>1. k \in Nat /\ k >= 1
  OBVIOUS
<1>2. PICK d : Decodes(d, text) /\ Decode(text) = d[k]
  BY DecodeIs
<1>3. First(text, k) = 1
  BY <1>1 DEF First
<1>4. Decode(text) = DecodedFrom(text, k, d)
  BY <1>1, <1>2 DEF Decodes
<1>5. n \in 1 .. k /\ IsCharacter(b)
  BY <1>2, <1>3, <1>4 DEF DecodedFrom
<1>6. b \in Seq(Byte) /\ Len(b) = n /\ b[1] = text[1] /\ n \in 0 .. 4
  BY SMTT(60), <1>1, <1>3, <1>5, FirstBytesAre
<1>7. b = SubSeq(text, 1, n)
  BY <1>3, <1>5 DEF FirstBytes
<1>8. SubSeq(text, 1, n) \o SubSeq(text, n + 1, k) = SubSeq(text, 1, k)
  <2>1. 1 \in 1 .. Len(text) + 1 /\ n \in 1 - 1 .. Len(text) /\ k \in n .. Len(text)
    BY <1>1, <1>5
  <2> HIDE DEF k, n
  <2> QED
    BY <2>1, ConcatAdjacentSubSeq
<1>9. text = b \o rest
  BY <1>7, <1>8, SubSeqFull
<1>10. rest \in Seq(Byte)
  BY <1>1, <1>5
<1>11. OneCharacter(b) /\ Len(b) \in 1 .. 4
  <2> HIDE DEF b, n, k
  <2> QED
    BY <1>5, <1>6 DEF OneCharacter, n
<1> HIDE DEF b, rest
<1> QED
  BY <1>6, <1>9, <1>10, <1>11

(*****************************************************************************)
(* Sequences that are joined.                                               *)
(*****************************************************************************)

\* f joins the first i sequences of s.
Joins(f, s, S) ==
  /\ f \in [0 .. Len(s) -> Seq(S)] /\ f[0] = <<>>
  /\ \A i \in 1 .. Len(s) : f[i] = f[i - 1] \o s[i]

\* Only one function joins the parts of a sequence.
LEMMA JoinsOne ==
  ASSUME NEW S, NEW s \in Seq(Seq(S)), NEW f, Joins(f, s, S), NEW g, Joins(g, s, S)
  PROVE  f[Len(s)] = g[Len(s)]
<1> DEFINE T == {i \in 0 .. Len(s) : f[i] = g[i]}
<1>1. 0 \in T
  BY DEF Joins
<1>2. \A i \in 0 .. Len(s) - 1 : i \in T => i + 1 \in T
  <2> SUFFICES ASSUME NEW i \in 0 .. Len(s) - 1, i \in T PROVE f[i + 1] = g[i + 1]
    OBVIOUS
  <2>1. i + 1 \in 1 .. Len(s) /\ (i + 1) - 1 = i
    OBVIOUS
  <2> QED
    BY <2>1 DEF Joins
<1>3. Len(s) \in Nat
  OBVIOUS
<1> HIDE DEF T
<1>4. \A i \in 0 .. Len(s) : i \in T
  BY <1>1, <1>2, <1>3, InductionUpTo
<1> QED
  BY <1>3, <1>4 DEF T

\* The recursion of FlattenSeq is defined.
LEMMA FlattenIs ==
  ASSUME NEW S, NEW s \in Seq(Seq(S))
  PROVE  \E f : Joins(f, s, S) /\ FlattenSeq(s) = f[Len(s)]
<1> DEFINE N == Len(s)
           D == Seq(S)
           step == [i \in Nat |-> [q \in D |-> IF i \in 1 .. N THEN q \o s[i] ELSE q]]
           Is(f) == f = [i \in 1 .. N |-> IF i = 1 THEN s[i] ELSE f[i - 1] \o s[i]]
           flatten == CHOOSE f : Is(f)
<1>1. N \in Nat /\ <<>> \in D /\ \A i \in 1 .. N : s[i] \in D
  OBVIOUS
<1>2. step \in [Nat -> [D -> D]]
  BY <1>1
<1>3. PICK g \in [0 .. N -> D] : Computes(g, N, <<>>, step)
  <2> HIDE DEF step, N, D
  <2> QED
    BY <1>1, <1>2, RecursionIsDefined
<1>4. g[0] = <<>> /\ \A i \in 1 .. N : g[i] = g[i - 1] \o s[i]
  <2>1. \A i \in 1 .. N : i \in Nat /\ i - 1 \in 0 .. N /\ g[i - 1] \in D
    <3> HIDE DEF D, N, step, Is, flatten
    <3> QED
      BY <1>1, <1>3
  <2> QED
    BY <1>3, <2>1 DEF Computes
<1>5. Joins(g, s, S)
  BY <1>3, <1>4 DEF Joins
<1>6. CASE N = 0
  <2>1. s = <<>>
    BY <1>6
  <2>2. FlattenSeq(s) = <<>>
    BY <2>1 DEF FlattenSeq
  <2> QED
    BY <1>4, <1>5, <1>6, <2>2
<1>7. CASE N # 0
  <2> DEFINE h == [i \in 1 .. N |-> g[i]]
  <2>0. \A j \in 1 .. N : h[j] = g[j]
    OBVIOUS
  <2>1. ASSUME NEW i \in 1 .. N
        PROVE  g[i] = IF i = 1 THEN s[i] ELSE h[i - 1] \o s[i]
    <3>1. g[i] = g[i - 1] \o s[i] /\ s[i] \in Seq(S)
      BY <1>1, <1>4
    <3>2. CASE i = 1
      <4> HIDE DEF h, N, step, flatten, Is, D
      <4>0. i - 1 = 0 /\ g[0] = <<>>
        BY <1>4, <3>2
      <4>1. g[i] = <<>> \o s[i]
        BY <3>1, <4>0
      <4>2. <<>> \o s[i] = s[i]
        BY <3>1, ConcatEmptySeq
      <4> QED
        BY <3>2, <4>1, <4>2
    <3>3. CASE i # 1
      <4>1. i - 1 \in 1 .. N
        BY <3>3
      <4>2. h[i - 1] = g[i - 1]
        BY <2>0, <4>1
      <4> HIDE DEF h, N, step, flatten, Is, D
      <4> QED
        BY <3>1, <3>3, <4>2
    <3> QED
      BY <3>2, <3>3
  <2>2. Is(h)
    BY <2>1
  <2> HIDE DEF h
  <2>3. Is(flatten)
    <3> HIDE DEF Is
    <3> QED
      BY <2>2
  <2>4. FlattenSeq(s) = flatten[N]
    BY <1>7 DEF FlattenSeq
  <2> HIDE DEF flatten
  <2>5. flatten = [i \in 1 .. N |-> IF i = 1 THEN s[i] ELSE flatten[i - 1] \o s[i]]
    BY <2>3
  <2> DEFINE f == [i \in 0 .. N |-> IF i = 0 THEN <<>> ELSE flatten[i]]
  <2>6. f[0] = <<>> /\ \A i \in 1 .. N : f[i] = flatten[i]
    BY <1>1
  <2>7. \A i \in 1 .. N : f[i] = f[i - 1] \o s[i]
    <3> TAKE i \in 1 .. N
    <3>1. CASE i = 1
      <4>1. f[i] = s[i] /\ f[i - 1] = <<>> /\ s[i] \in Seq(S)
        BY <1>1, <2>5, <2>6, <3>1
      <4> QED
        BY <4>1, ConcatEmptySeq
    <3>2. CASE i # 1
      <4>1. i - 1 \in 1 .. N /\ i \in 1 .. N
        BY <3>2
      <4>2. flatten[i] = flatten[i - 1] \o s[i]
        BY <2>5, <3>2
      <4> HIDE DEF f
      <4> QED
        BY <2>6, <4>1, <4>2
    <3> QED
      BY <3>1, <3>2
  <2>8. \A i \in 0 .. N : f[i] \in Seq(S)
    <3> DEFINE T == {i \in 0 .. N : f[i] \in Seq(S)}
    <3>1. 0 \in T
      BY <1>1
    <3>2. \A i \in 0 .. N : f[i] \in Seq(S) <=> i \in T
      BY Zenon
    <3> HIDE DEF f, T
    <3>3. ASSUME NEW i \in 0 .. N - 1, i \in T PROVE i + 1 \in T
      <4>1. i + 1 \in 1 .. N /\ i + 1 \in 0 .. N /\ (i + 1) - 1 = i /\ i \in 0 .. N
        BY <1>1
      <4>2. f[i] \in Seq(S)
        BY <3>2, <3>3, <4>1
      <4>3. \A j \in 1 .. N : s[j] \in Seq(S)
        BY <1>1
      <4>4. f[i + 1] = f[i] \o s[i + 1]
        BY <2>7, <4>1
      <4>5. f[i + 1] \in Seq(S)
        BY <4>1, <4>2, <4>3, <4>4, ConcatProperties
      <4> QED
        BY <3>2, <4>1, <4>5
    <3>4. \A i \in 0 .. N : i \in T
      BY <1>1, <3>1, <3>3, InductionUpTo
    <3> QED
      BY <3>2, <3>4
  <2>9. f \in [0 .. N -> Seq(S)]
    <3>1. f = [i \in 0 .. N |-> f[i]]
      OBVIOUS
    <3> HIDE DEF f
    <3> QED
      BY <2>8, <3>1
  <2>10. FlattenSeq(s) = f[N]
    <3>1. N \in 1 .. N
      BY <1>1, <1>7
    <3> HIDE DEF f
    <3> QED
      BY <2>4, <2>6, <3>1
  <2>11. Joins(f, s, S)
    <3> HIDE DEF f
    <3> QED
      BY <2>6, <2>7, <2>9 DEF Joins
  <2> HIDE DEF f
  <2> QED
    BY <2>10, <2>11
<1> QED
  BY <1>6, <1>7

\* What is joined is a sequence of the same elements.
LEMMA FlattenInSeq ==
  ASSUME NEW S, NEW s \in Seq(Seq(S))
  PROVE  FlattenSeq(s) \in Seq(S)
<1>1. PICK f : Joins(f, s, S) /\ FlattenSeq(s) = f[Len(s)]
  BY FlattenIs
<1>2. Len(s) \in 0 .. Len(s)
  OBVIOUS
<1> QED
  BY <1>1, <1>2 DEF Joins

\* No sequences are joined to the empty one.
LEMMA FlattenOfNothing == FlattenSeq(<<>>) = <<>>
  BY DEF FlattenSeq

\* One more sequence before the others.
LEMMA FlattenBefore ==
  ASSUME NEW S, NEW x \in Seq(S), NEW s \in Seq(Seq(S))
  PROVE  FlattenSeq(<<x>> \o s) = x \o FlattenSeq(s)
<1> DEFINE N == Len(s)  t == <<x>> \o s
<1>1. /\ t \in Seq(Seq(S)) /\ Len(t) = N + 1 /\ N \in Nat /\ t[1] = x
      /\ \A i \in 1 .. N : t[i + 1] = s[i] /\ s[i] \in Seq(S)
  BY ConcatProperties
<1> HIDE DEF t, N
<1>2. PICK f : Joins(f, s, S) /\ FlattenSeq(s) = f[N]
  BY FlattenIs DEF N
<1>3. PICK g : Joins(g, t, S) /\ FlattenSeq(t) = g[N + 1]
  BY <1>1, FlattenIs
<1> DEFINE T == {i \in 0 .. N : g[i + 1] = x \o f[i]}
<1>4. 0 \in T
  <2>1. 1 \in 1 .. Len(t) /\ 0 \in 0 .. N /\ 0 + 1 = 1 /\ 1 - 1 = 0
    BY <1>1
  <2>2. g[1] = g[0] \o t[1] /\ g[0] = <<>> /\ f[0] = <<>>
    BY <1>2, <1>3, <2>1 DEF Joins
  <2>3. g[1] = x
    BY <1>1, <2>2, ConcatEmptySeq
  <2>4. x \o <<>> = x
    BY ConcatEmptySeq
  <2> QED
    BY <2>1, <2>2, <2>3, <2>4
<1>5. ASSUME NEW i \in 0 .. N - 1, i \in T PROVE i + 1 \in T
  <2>1. /\ i + 1 \in 1 .. N /\ i + 2 \in 1 .. Len(t) /\ (i + 1) - 1 = i /\ (i + 2) - 1 = i + 1
        /\ (i + 1) + 1 = i + 2 /\ i \in 0 .. Len(s)
    BY <1>1 DEF N
  <2>2. g[i + 2] = g[i + 1] \o t[i + 2] /\ f[i + 1] = f[i] \o s[i + 1] /\ f[i] \in Seq(S)
    BY <1>2, <1>3, <2>1 DEF Joins, N
  <2>3. t[i + 2] = s[i + 1] /\ s[i + 1] \in Seq(S) /\ g[i + 1] = x \o f[i]
    BY <1>1, <1>5, <2>1
  <2>4. (x \o f[i]) \o s[i + 1] = x \o (f[i] \o s[i + 1])
    <3> DEFINE y == f[i]  z == s[i + 1]
    <3>1. x \in Seq(S) /\ y \in Seq(S) /\ z \in Seq(S)
      BY <2>2, <2>3
    <3> HIDE DEF y, z
    <3>2. (x \o y) \o z = x \o (y \o z)
      BY SMTT(60), <3>1, ConcatAssociative
    <3> QED
      BY <3>2 DEF y, z
  <2>5. g[(i + 1) + 1] = x \o f[i + 1]
    BY <2>1, <2>2, <2>3, <2>4
  <2>6. i + 1 \in 0 .. N
    BY <1>1
  <2> QED
    BY <2>5, <2>6
<1> HIDE DEF T
<1>6. \A i \in 0 .. N : i \in T
  BY <1>1, <1>4, <1>5, InductionUpTo
<1>7. N \in 0 .. N
  BY <1>1
<1> QED
  BY <1>2, <1>3, <1>6, <1>7 DEF T, t

\* One more sequence after the others.
LEMMA FlattenAfter ==
  ASSUME NEW S, NEW x \in Seq(S), NEW s \in Seq(Seq(S))
  PROVE  FlattenSeq(Append(s, x)) = FlattenSeq(s) \o x
<1> DEFINE N == Len(s)  t == Append(s, x)
<1>1. /\ t \in Seq(Seq(S)) /\ Len(t) = N + 1 /\ N \in Nat /\ t[N + 1] = x
      /\ \A i \in 1 .. N : t[i] = s[i]
  BY AppendProperties
<1> HIDE DEF t
<1>2. PICK f : Joins(f, s, S) /\ FlattenSeq(s) = f[N]
  BY FlattenIs
<1>3. PICK g : Joins(g, t, S) /\ FlattenSeq(t) = g[N + 1]
  BY <1>1, FlattenIs
<1> DEFINE h == [i \in 0 .. N |-> g[i]]
<1>4. Joins(h, s, S)
  <2>1. \A i \in 0 .. N : i \in 0 .. Len(t)
    BY <1>1
  <2>2. h \in [0 .. Len(s) -> Seq(S)] /\ h[0] = <<>>
    BY <1>1, <1>3, <2>1 DEF Joins
  <2>3. \A i \in 1 .. Len(s) : h[i] = h[i - 1] \o s[i]
    <3> TAKE i \in 1 .. Len(s)
    <3>1. i \in 1 .. Len(t) /\ i \in 0 .. N /\ i - 1 \in 0 .. N /\ t[i] = s[i]
      BY <1>1
    <3>2. g[i] = g[i - 1] \o t[i]
      BY <1>3, <3>1 DEF Joins
    <3> QED
      BY <3>1, <3>2
  <2> HIDE DEF h
  <2> QED
    BY <2>2, <2>3 DEF Joins
<1>5. h[N] = g[N]
  BY <1>1
<1> HIDE DEF h
<1>6. f[N] = h[N]
  BY <1>2, <1>4, JoinsOne
<1>7. N + 1 \in 1 .. Len(t) /\ (N + 1) - 1 = N
  BY <1>1
<1>8. g[N + 1] = g[N] \o t[N + 1]
  BY <1>3, <1>7 DEF Joins
<1> QED
  BY <1>1, <1>2, <1>3, <1>5, <1>6, <1>8 DEF t

(*****************************************************************************)
(* Valid texts are the encodings of code points.                            *)
(*****************************************************************************)

\* The code points that have an encoding.
Scalar == {c \in Nat : IsScalar(c)}

\* The characters of code points.
Spelled(cps) == [i \in DOMAIN cps |-> CharacterOf(cps[i])]

\* A failed conversion is told from every text.
LEMMA NothingIsNoText == \A cps \in Seq(Scalar) : cps # Nothing
<1> SUFFICES ASSUME Nothing \in Seq(Scalar) PROVE FALSE
  OBVIOUS
<1>1. Len(Nothing) = 1 /\ Nothing[1] = -1
  BY DEF Nothing
<1>2. Nothing[1] \in Scalar
  BY <1>1
<1> QED
  BY <1>1, <1>2 DEF Scalar

\* Encode writes one code point after the other.
LEMMA CharactersAre ==
  ASSUME NEW cps \in Seq(Scalar)
  PROVE  /\ Spelled(cps) \in Seq(Seq(Byte)) /\ Len(Spelled(cps)) = Len(cps)
         /\ \A i \in 1 .. Len(cps) : Spelled(cps)[i] = CharacterOf(cps[i])
         /\ Encode(cps) = FlattenSeq(Spelled(cps)) /\ Encode(cps) \in Seq(Byte)
<1>1. DOMAIN cps = 1 .. Len(cps) /\ Len(cps) \in Nat
  OBVIOUS
<1>2. \A i \in 1 .. Len(cps) : cps[i] \in Nat /\ IsScalar(cps[i])
  BY DEF Scalar
<1>3. \A i \in 1 .. Len(cps) : CharacterOf(cps[i]) \in Seq(Byte)
  BY <1>2, WrittenCharacter
<1>4. Spelled(cps) = [i \in 1 .. Len(cps) |-> CharacterOf(cps[i])]
  BY <1>1 DEF Spelled
<1>5. Spelled(cps) \in Seq(Seq(Byte)) /\ Len(Spelled(cps)) = Len(cps)
  BY <1>1, <1>3, <1>4
<1>6. Encode(cps) = FlattenSeq(Spelled(cps))
  BY <1>1, <1>2 DEF Encode, Spelled
<1>7. FlattenSeq(Spelled(cps)) \in Seq(Byte)
  BY <1>5, FlattenInSeq
<1> QED
  BY <1>4, <1>5, <1>6, <1>7

\* No code points are encoded as the empty text.
LEMMA EncodeOfNothing == Encode(<<>>) = <<>>
<1>1. <<>> \in Seq(Scalar) /\ Len(<<>>) = 0
  OBVIOUS
<1>2. Spelled(<<>>) \in Seq(Seq(Byte)) /\ Len(Spelled(<<>>)) = 0
  BY <1>1, CharactersAre
<1>3. Spelled(<<>>) = <<>>
  BY <1>2
<1> QED
  BY <1>1, <1>3, CharactersAre, FlattenOfNothing

\* One code point before the others is encoded before them.
LEMMA EncodeBefore ==
  ASSUME NEW c \in Scalar, NEW cps \in Seq(Scalar)
  PROVE  /\ <<c>> \o cps \in Seq(Scalar)
         /\ Encode(<<c>> \o cps) = CharacterOf(c) \o Encode(cps)
<1> DEFINE t == <<c>> \o cps  N == Len(cps)
<1>1. /\ t \in Seq(Scalar) /\ Len(t) = N + 1 /\ t[1] = c /\ N \in Nat
      /\ \A i \in 1 .. N : t[i + 1] = cps[i]
  BY ConcatProperties
<1>2. c \in Nat /\ IsScalar(c)
  BY DEF Scalar
<1>3. CharacterOf(c) \in Seq(Byte)
  BY <1>2, WrittenCharacter
<1> DEFINE u == Spelled(cps)  v == <<CharacterOf(c)>> \o u  w == Spelled(t)
<1> HIDE DEF t
<1>4. /\ u \in Seq(Seq(Byte)) /\ Len(u) = N
      /\ \A i \in 1 .. N : u[i] = CharacterOf(cps[i])
  BY CharactersAre
<1>5. /\ w \in Seq(Seq(Byte)) /\ Len(w) = N + 1
      /\ \A i \in 1 .. N + 1 : w[i] = CharacterOf(t[i])
  BY <1>1, CharactersAre
<1> HIDE DEF u, w
<1>6. /\ v \in Seq(Seq(Byte)) /\ Len(v) = N + 1 /\ v[1] = CharacterOf(c)
      /\ \A i \in 2 .. N + 1 : v[i] = u[i - 1]
  BY <1>1, <1>3, <1>4
<1> HIDE DEF v, N
<1>7. \A i \in 1 .. N + 1 : v[i] = w[i]
  <2> TAKE i \in 1 .. N + 1
  <2>1. CASE i = 1
    BY <1>1, <1>5, <1>6, <2>1
  <2>2. CASE i # 1
    <3>1. i - 1 \in 1 .. N /\ (i - 1) + 1 = i /\ i \in 2 .. N + 1
      BY <1>1, <2>2
    <3>2. v[i] = u[i - 1]
      BY <1>6, <3>1
    <3>3. u[i - 1] = CharacterOf(cps[i - 1])
      BY <1>4, <3>1
    <3>4. t[(i - 1) + 1] = cps[i - 1]
      BY <1>1, <3>1
    <3>5. w[i] = CharacterOf(t[i])
      BY <1>5
    <3> QED
      BY <3>1, <3>2, <3>3, <3>4, <3>5
  <2> QED
    BY <2>1, <2>2
<1>8. v = w
  <2>1. v \in Seq(Seq(Byte)) /\ w \in Seq(Seq(Byte)) /\ Len(v) = N + 1 /\ Len(w) = N + 1
    BY <1>5, <1>6
  <2>2. \A i \in 1 .. Len(v) : v[i] = w[i]
    BY Zenon, <1>7, <2>1
  <2>3. Len(v) = Len(w)
    BY Zenon, <2>1
  <2> QED
    BY Zenon, <2>1, <2>2, <2>3, SeqEqual
<1>9. FlattenSeq(v) = CharacterOf(c) \o FlattenSeq(u)
  BY <1>3, <1>4, FlattenBefore DEF v
<1>10. Encode(t) = FlattenSeq(w) /\ Encode(cps) = FlattenSeq(u)
  BY <1>1, CharactersAre DEF u, w
<1> QED
  BY <1>1, <1>8, <1>9, <1>10 DEF t

\* One code point after the others is encoded after them.
LEMMA EncodeAfter ==
  ASSUME NEW c \in Scalar, NEW cps \in Seq(Scalar)
  PROVE  /\ Append(cps, c) \in Seq(Scalar)
         /\ Encode(Append(cps, c)) = Encode(cps) \o CharacterOf(c)
<1> DEFINE t == Append(cps, c)  N == Len(cps)
<1>1. /\ t \in Seq(Scalar) /\ Len(t) = N + 1 /\ t[N + 1] = c /\ N \in Nat
      /\ \A i \in 1 .. N : t[i] = cps[i]
  BY AppendProperties
<1>2. c \in Nat /\ IsScalar(c)
  BY DEF Scalar
<1>3. CharacterOf(c) \in Seq(Byte)
  BY <1>2, WrittenCharacter
<1> DEFINE u == Spelled(cps)  v == Append(u, CharacterOf(c))  w == Spelled(t)
<1> HIDE DEF t
<1>4. /\ u \in Seq(Seq(Byte)) /\ Len(u) = N
      /\ \A i \in 1 .. N : u[i] = CharacterOf(cps[i])
  BY CharactersAre
<1>5. /\ w \in Seq(Seq(Byte)) /\ Len(w) = N + 1
      /\ \A i \in 1 .. N + 1 : w[i] = CharacterOf(t[i])
  BY <1>1, CharactersAre
<1> HIDE DEF u, w
<1>6. /\ v \in Seq(Seq(Byte)) /\ Len(v) = N + 1 /\ v[N + 1] = CharacterOf(c)
      /\ \A i \in 1 .. N : v[i] = u[i]
  BY <1>1, <1>3, <1>4, AppendProperties
<1> HIDE DEF v, N
<1>7. \A i \in 1 .. N + 1 : v[i] = w[i]
  <2> TAKE i \in 1 .. N + 1
  <2>1. CASE i = N + 1
    BY <1>1, <1>5, <1>6, <2>1
  <2>2. CASE i # N + 1
    <3>1. i \in 1 .. N
      BY <1>1, <2>2
    <3> QED
      BY <1>1, <1>4, <1>5, <1>6, <3>1
  <2> QED
    BY <2>1, <2>2
<1>8. v = w
  <2>1. v \in Seq(Seq(Byte)) /\ w \in Seq(Seq(Byte)) /\ Len(v) = N + 1 /\ Len(w) = N + 1
    BY <1>5, <1>6
  <2>2. \A i \in 1 .. Len(v) : v[i] = w[i]
    BY Zenon, <1>7, <2>1
  <2>3. Len(v) = Len(w)
    BY Zenon, <2>1
  <2> QED
    BY Zenon, <2>1, <2>2, <2>3, SeqEqual
<1>9. FlattenSeq(v) = FlattenSeq(u) \o CharacterOf(c)
  BY <1>3, <1>4, FlattenAfter DEF v
<1>10. Encode(t) = FlattenSeq(w) /\ Encode(cps) = FlattenSeq(u)
  BY <1>1, CharactersAre DEF u, w
<1> QED
  BY <1>1, <1>8, <1>9, <1>10 DEF t

\* decodeUtf8 reads every sequence of scalar values as encodeUtf8 wrote it.
THEOREM DecodeOfEncode == \A cps \in Seq(Scalar) : Decode(Encode(cps)) = cps
<1> DEFINE P(cps) == Decode(Encode(cps)) = cps
           T == {n \in Nat : \A cps \in Seq(Scalar) : Len(cps) = n => P(cps)}
<1>1. 0 \in T
  <2> SUFFICES ASSUME NEW cps \in Seq(Scalar), Len(cps) = 0 PROVE P(cps)
    OBVIOUS
  <2>1. cps = <<>>
    OBVIOUS
  <2> QED
    BY <2>1, EncodeOfNothing, DecodeOfNothing
<1>2. ASSUME NEW n \in T PROVE n + 1 \in T
  <2> SUFFICES ASSUME NEW cps \in Seq(Scalar), Len(cps) = n + 1 PROVE P(cps)
    OBVIOUS
  <2> DEFINE c == cps[1]  rest == Tail(cps)  b == CharacterOf(c)
  <2>1. n \in Nat /\ c \in Scalar /\ rest \in Seq(Scalar) /\ Len(rest) = n /\ cps = <<c>> \o rest
    OBVIOUS
  <2> HIDE DEF c, rest
  <2>2. P(rest)
    BY <2>1
  <2>3. Encode(cps) = b \o Encode(rest) /\ Encode(rest) \in Seq(Byte)
    BY <2>1, EncodeBefore, CharactersAre
  <2>4. c \in Nat /\ IsScalar(c)
    BY <2>1 DEF Scalar
  <2>5. /\ b \in Seq(Byte) /\ Len(b) \in 1 .. 4 /\ OneCharacter(b) /\ CodepointOf(b) = c
    BY <2>4, WrittenCharacter
  <2>6. LengthFrom(b[1]) = Len(b) /\ IsCharacter(b)
    BY <2>5 DEF OneCharacter
  <2>7. Decode(b \o Encode(rest)) = IF ~IsCharacter(b) \/ Decode(Encode(rest)) = Nothing
                                    THEN Nothing ELSE <<CodepointOf(b)>> \o Decode(Encode(rest))
    BY <2>3, <2>5, <2>6, DecodeRest
  <2>8. rest # Nothing
    BY <2>1, NothingIsNoText
  <2> QED
    BY <2>1, <2>2, <2>3, <2>5, <2>6, <2>7, <2>8
<1>3. T \subseteq Nat
  OBVIOUS
<1> HIDE DEF T
<1>4. T = Nat
  BY <1>1, <1>2, <1>3, Induction
<1> TAKE cps \in Seq(Scalar)
<1>5. Len(cps) \in T
  BY <1>4
<1> QED
  BY <1>5 DEF T

\* What decodeUtf8 accepts encodeUtf8 writes: a valid text is the only encoding of its
\* code points.
THEOREM EncodeOfDecode ==
  \A text \in Seq(Byte) :
    Decode(text) # Nothing => Decode(text) \in Seq(Scalar) /\ Encode(Decode(text)) = text
<1> DEFINE P(text) ==
             Decode(text) # Nothing => Decode(text) \in Seq(Scalar) /\ Encode(Decode(text)) = text
           T == {n \in Nat : \A text \in Seq(Byte) : Len(text) <= n => P(text)}
<1>0. P(<<>>)
  <2>1. <<>> \in Seq(Scalar)
    OBVIOUS
  <2> QED
    BY <2>1, EncodeOfNothing, DecodeOfNothing
<1>1. 0 \in T
  <2> SUFFICES ASSUME NEW text \in Seq(Byte), Len(text) <= 0 PROVE P(text)
    OBVIOUS
  <2>1. text = <<>>
    OBVIOUS
  <2> QED
    BY <1>0, <2>1
<1>2. ASSUME NEW n \in T PROVE n + 1 \in T
  <2> SUFFICES ASSUME NEW text \in Seq(Byte), Len(text) <= n + 1, text # <<>>,
                      Decode(text) # Nothing
               PROVE  Decode(text) \in Seq(Scalar) /\ Encode(Decode(text)) = text
    BY <1>0
  <2>1. PICK b \in Seq(Byte), rest \in Seq(Byte) :
          text = b \o rest /\ Len(b) \in 1 .. 4 /\ OneCharacter(b)
    BY DecodeSplits
  <2>2. LengthFrom(b[1]) = Len(b) /\ IsCharacter(b)
    BY <2>1 DEF OneCharacter
  <2>3. Decode(text) = IF ~IsCharacter(b) \/ Decode(rest) = Nothing
                       THEN Nothing ELSE <<CodepointOf(b)>> \o Decode(rest)
    BY <2>1, <2>2, DecodeRest
  <2>4. Decode(rest) # Nothing /\ Decode(text) = <<CodepointOf(b)>> \o Decode(rest)
    BY <2>2, <2>3
  <2>5. Len(rest) <= n
    <3>1. Len(text) = Len(b) + Len(rest) /\ Len(rest) \in Nat /\ n \in Nat
      BY <2>1, ConcatProperties
    <3> DEFINE i == Len(text)  j == Len(b)  k == Len(rest)
    <3>2. i <= n + 1
      OBVIOUS
    <3>3. j \in 1 .. 4
      BY <2>1
    <3>4. i = j + k /\ k \in Nat /\ n \in Nat
      BY <3>1
    <3> HIDE DEF i, j, k, T, P
    <3>5. k <= n
      BY <3>2, <3>3, <3>4
    <3> QED
      BY <3>5 DEF k
  <2>6. Decode(rest) \in Seq(Scalar) /\ Encode(Decode(rest)) = rest
    BY <2>4, <2>5
  <2>7. CodepointOf(b) \in Scalar /\ CharacterOf(CodepointOf(b)) = b
    BY <2>1, ReadCharacter DEF Scalar
  <2>8. /\ <<CodepointOf(b)>> \o Decode(rest) \in Seq(Scalar)
        /\ Encode(<<CodepointOf(b)>> \o Decode(rest))
             = CharacterOf(CodepointOf(b)) \o Encode(Decode(rest))
    BY <2>6, <2>7, EncodeBefore
  <2> QED
    BY <2>1, <2>4, <2>6, <2>7, <2>8
<1>3. T \subseteq Nat
  OBVIOUS
<1> HIDE DEF T
<1>4. T = Nat
  BY <1>1, <1>2, <1>3, Induction
<1> TAKE text \in Seq(Byte)
<1>5. Len(text) \in T /\ Len(text) <= Len(text)
  BY <1>4
<1> QED
  BY <1>5 DEF T

(*****************************************************************************)
(* The digits of the state file (hexEncode, hexDecode).                     *)
(*****************************************************************************)

\* The digits of a byte are read back as the byte.
LEMMA HexOfByte ==
  ASSUME NEW a \in Byte
  PROVE  /\ HexDigit(a \div 16) \in Byte /\ HexDigit(a % 16) \in Byte
         /\ HexValue(HexDigit(a \div 16)) = a \div 16 /\ HexValue(HexDigit(a % 16)) = a % 16
         /\ a \div 16 \in 0 .. 15 /\ a % 16 \in 0 .. 15
         /\ 16 * (a \div 16) + (a % 16) = a
<1>1. a \in Nat /\ a <= 255
  BY BytesAre
<1>2. a \div 16 \in 0 .. 15 /\ a % 16 \in 0 .. 15 /\ 16 * (a \div 16) + (a % 16) = a
  BY SMT, <1>1
<1>3. ASSUME NEW n \in 0 .. 15 PROVE HexDigit(n) \in Byte /\ HexValue(HexDigit(n)) = n
  <2>1. CASE n < 10
    BY SMT, <2>1 DEF HexDigit, HexValue, Byte
  <2>2. CASE n >= 10
    BY SMT, <2>2 DEF HexDigit, HexValue, Byte
  <2> QED
    BY SMT, <2>1, <2>2
<1> QED
  BY <1>2, <1>3

\* The two digits of each byte, one pair after the other.
LEMMA HexEncodeIs ==
  ASSUME NEW text \in Seq(Byte)
  PROVE  /\ HexEncode(text) \in Seq(Byte) /\ Len(HexEncode(text)) = 2 * Len(text)
         /\ \A i \in 1 .. Len(text) :
              /\ HexEncode(text)[2 * i - 1] = HexDigit(text[i] \div 16)
              /\ HexEncode(text)[2 * i] = HexDigit(text[i] % 16)
<1> DEFINE N == Len(text)
           pairs == [i \in DOMAIN text |->
                       <<HexDigit(text[i] \div 16), HexDigit(text[i] % 16)>>]
<1>1. N \in Nat /\ DOMAIN text = 1 .. N /\ \A i \in 1 .. N : text[i] \in Byte
  OBVIOUS
<1>2. \A i \in 1 .. N : pairs[i] = <<HexDigit(text[i] \div 16), HexDigit(text[i] % 16)>>
  BY <1>1
<1>3. \A i \in 1 .. N : HexDigit(text[i] \div 16) \in Byte /\ HexDigit(text[i] % 16) \in Byte
  BY <1>1, HexOfByte
<1>4. \A i \in 1 .. N : /\ pairs[i] \in Seq(Byte) /\ Len(pairs[i]) = 2
                        /\ pairs[i][1] = HexDigit(text[i] \div 16)
                        /\ pairs[i][2] = HexDigit(text[i] % 16)
  BY <1>2, <1>3, BytesInSeq
<1>5. pairs \in Seq(Seq(Byte)) /\ Len(pairs) = N
  BY <1>1, <1>4
<1>6. HexEncode(text) = FlattenSeq(pairs)
  BY DEF HexEncode
<1> HIDE DEF pairs, N
<1>7. PICK f : Joins(f, pairs, Byte) /\ FlattenSeq(pairs) = f[N]
  BY <1>5, FlattenIs
<1> DEFINE Good(n) ==
             /\ f[n] \in Seq(Byte) /\ Len(f[n]) = 2 * n
             /\ \A i \in 1 .. n : /\ f[n][2 * i - 1] = HexDigit(text[i] \div 16)
                                  /\ f[n][2 * i] = HexDigit(text[i] % 16)
           T == {n \in 0 .. N : Good(n)}
<1>8. 0 \in T
  BY <1>1, <1>7 DEF Joins
<1>9. ASSUME NEW n \in 0 .. N - 1, n \in T PROVE n + 1 \in T
  <2> DEFINE p == pairs[n + 1]  q == f[n]
  <2>1. n + 1 \in 1 .. N /\ (n + 1) - 1 = n /\ n \in Nat
    BY <1>1
  <2>2. f[n + 1] = q \o p
    BY <1>5, <1>7, <2>1 DEF Joins
  <2>3. /\ p \in Seq(Byte) /\ Len(p) = 2
        /\ p[1] = HexDigit(text[n + 1] \div 16) /\ p[2] = HexDigit(text[n + 1] % 16)
    BY <1>4, <2>1
  <2>4. /\ q \in Seq(Byte) /\ Len(q) = 2 * n
        /\ \A i \in 1 .. n : /\ q[2 * i - 1] = HexDigit(text[i] \div 16)
                             /\ q[2 * i] = HexDigit(text[i] % 16)
    BY <1>9
  <2> HIDE DEF p, q
  <2>a. q \in Seq(Byte) /\ Len(q) = 2 * n /\ p \in Seq(Byte) /\ Len(p) = 2
    BY <2>3, <2>4
  <2>b. /\ q \o p \in Seq(Byte) /\ Len(q \o p) = Len(q) + Len(p)
        /\ \A i \in 1 .. Len(q) + Len(p) :
             (q \o p)[i] = IF i <= Len(q) THEN q[i] ELSE p[i - Len(q)]
    BY <2>a, ConcatProperties
  <2>c. 2 * n \in Nat /\ 2 * n + 1 \in 1 .. 2 * n + 2 /\ 2 * n + 2 \in 1 .. 2 * n + 2
    BY <2>1
  <2>d. (2 * n + 1) - 2 * n = 1 /\ (2 * n + 2) - 2 * n = 2 /\ ~(2 * n + 1 <= 2 * n)
        /\ ~(2 * n + 2 <= 2 * n)
    BY <2>1
  <2>5. /\ q \o p \in Seq(Byte) /\ Len(q \o p) = 2 * (n + 1)
        /\ \A i \in 1 .. 2 * n : (q \o p)[i] = q[i]
        /\ (q \o p)[2 * n + 1] = p[1] /\ (q \o p)[2 * n + 2] = p[2]
    <3>1. q \o p \in Seq(Byte) /\ Len(q \o p) = 2 * (n + 1)
      BY <2>1, <2>a, <2>b
    <3>2. \A i \in 1 .. 2 * n : (q \o p)[i] = q[i]
      BY <2>a, <2>b, <2>c
    <3>3. (q \o p)[2 * n + 1] = p[1]
      BY <2>a, <2>b, <2>c, <2>d
    <3>4. (q \o p)[2 * n + 2] = p[2]
      BY <2>a, <2>b, <2>c, <2>d
    <3> QED
      BY <3>1, <3>2, <3>3, <3>4
  <2>6. ASSUME NEW i \in 1 .. n + 1
        PROVE  /\ f[n + 1][2 * i - 1] = HexDigit(text[i] \div 16)
               /\ f[n + 1][2 * i] = HexDigit(text[i] % 16)
    <3>1. CASE i = n + 1
      <4>1. 2 * i - 1 = 2 * n + 1 /\ 2 * i = 2 * n + 2
        BY <2>1, <3>1
      <4> QED
        BY <2>2, <2>3, <2>5, <3>1, <4>1
    <3>2. CASE i # n + 1
      <4>1. i \in 1 .. n /\ 2 * i - 1 \in 1 .. 2 * n /\ 2 * i \in 1 .. 2 * n
        BY <2>1, <3>2
      <4> QED
        BY <2>2, <2>4, <2>5, <4>1
    <3> QED
      BY <3>1, <3>2
  <2>7. Good(n + 1)
    BY <2>2, <2>5, <2>6
  <2> HIDE DEF Good
  <2> QED
    BY <1>1, <2>1, <2>7
<1> HIDE DEF T
<1>10. \A n \in 0 .. N : n \in T
  BY <1>1, <1>8, <1>9, InductionUpTo
<1>11. Good(N)
  BY <1>1, <1>10 DEF T
<1> QED
  BY <1>6, <1>7, <1>11 DEF N

\* Every number is an even one or the one before it.
LEMMA HalfOf ==
  ASSUME NEW j \in Nat
  PROVE  \E i \in Nat : j = 2 * i - 1 \/ j = 2 * i
<1>1. (j + 1) \div 2 \in Nat
  OBVIOUS
<1>2. j = 2 * ((j + 1) \div 2) - 1 \/ j = 2 * ((j + 1) \div 2)
  OBVIOUS
<1> QED
  BY <1>1, <1>2

\* Digits lead back to the text if it is valid; otherwise there is none.
LEMMA HexDecodeOfEncode ==
  ASSUME NEW text \in Seq(Byte)
  PROVE  HexDecode(HexEncode(text)) = IF IsValidUtf8(text) THEN text ELSE Nothing
<1> DEFINE digits == HexEncode(text)  N == Len(text)
           values == [i \in DOMAIN digits |-> HexValue(digits[i])]
           back == [i \in 1 .. Len(digits) \div 2 |-> 16 * values[2 * i - 1] + values[2 * i]]
<1>1. /\ digits \in Seq(Byte) /\ Len(digits) = 2 * N /\ N \in Nat
      /\ \A i \in 1 .. N : /\ digits[2 * i - 1] = HexDigit(text[i] \div 16)
                           /\ digits[2 * i] = HexDigit(text[i] % 16)
  BY HexEncodeIs
<1>2. DOMAIN digits = 1 .. 2 * N
  BY <1>1
<1>3. HexDecode(digits) = IF Len(digits) % 2 = 1 \/ (\E i \in DOMAIN values : values[i] < 0)
                             \/ ~IsValidUtf8(back) THEN Nothing ELSE back
  BY DEF HexDecode
<1> HIDE DEF digits
<1>4. ASSUME NEW i \in 1 .. N
      PROVE  /\ values[2 * i - 1] = text[i] \div 16 /\ values[2 * i] = text[i] % 16
             /\ text[i] \div 16 >= 0 /\ text[i] % 16 >= 0
             /\ 16 * (text[i] \div 16) + (text[i] % 16) = text[i]
  <2>1. 2 * i - 1 \in 1 .. 2 * N /\ 2 * i \in 1 .. 2 * N /\ text[i] \in Byte
    BY <1>1
  <2>2. values[2 * i - 1] = HexValue(digits[2 * i - 1]) /\ values[2 * i] = HexValue(digits[2 * i])
    BY <1>2, <2>1
  <2> HIDE DEF values
  <2>3. /\ HexValue(HexDigit(text[i] \div 16)) = text[i] \div 16
        /\ HexValue(HexDigit(text[i] % 16)) = text[i] % 16
        /\ text[i] \div 16 \in 0 .. 15 /\ text[i] % 16 \in 0 .. 15
        /\ 16 * (text[i] \div 16) + (text[i] % 16) = text[i]
    BY <2>1, HexOfByte
  <2>4. /\ digits[2 * i - 1] = HexDigit(text[i] \div 16)
        /\ digits[2 * i] = HexDigit(text[i] % 16)
    BY <1>1
  <2>5. values[2 * i - 1] = text[i] \div 16
    BY Zenon, <2>2, <2>3, <2>4
  <2>6. values[2 * i] = text[i] % 16
    BY Zenon, <2>2, <2>3, <2>4
  <2>7. text[i] \div 16 >= 0 /\ text[i] % 16 >= 0
    BY <2>3
  <2> QED
    BY <2>3, <2>5, <2>6, <2>7
<1>5. ASSUME NEW j \in DOMAIN values PROVE ~(values[j] < 0)
  <2>1. j \in 1 .. 2 * N
    BY <1>2
  <2> HIDE DEF values
  <2>2. \E i \in 1 .. N : j = 2 * i - 1 \/ j = 2 * i
    <3>1. N \in Nat /\ j \in Nat /\ 1 <= j /\ j <= 2 * N
      BY <1>1, <2>1
    <3>2. \E i \in Nat : j = 2 * i - 1 \/ j = 2 * i
      BY <3>1, HalfOf
    <3>3. PICK i \in Nat : j = 2 * i - 1 \/ j = 2 * i
      BY <3>2
    <3>4. i \in 1 .. N
      BY <3>1, <3>3
    <3> QED
      BY <3>3, <3>4
  <2>3. PICK i \in 1 .. N : j = 2 * i - 1 \/ j = 2 * i
    BY <2>2
  <2>4. /\ values[2 * i - 1] = text[i] \div 16 /\ values[2 * i] = text[i] % 16
        /\ text[i] \div 16 \in 0 .. 15 /\ text[i] % 16 \in 0 .. 15
    <3>1. text[i] \in Byte
      BY <1>1
    <3> QED
      BY <1>4, <3>1, HexOfByte
  <2> QED
    BY <2>3, <2>4
<1>6. Len(digits) \div 2 = N /\ Len(digits) % 2 = 0
  BY SMT, <1>1
<1>7. back = text
  <2>1. back = [i \in 1 .. N |-> 16 * values[2 * i - 1] + values[2 * i]]
    BY <1>6
  <2> HIDE DEF values, back
  <2>2. \A i \in 1 .. N : back[i] = text[i]
    BY <1>4, <2>1
  <2>3. text = [i \in 1 .. N |-> text[i]]
    OBVIOUS
  <2>4. back = [i \in 1 .. N |-> back[i]]
    BY <2>1
  <2> QED
    BY <2>2, <2>3, <2>4
<1> HIDE DEF values, back
<1>8. HexDecode(digits) = IF ~IsValidUtf8(text) THEN Nothing ELSE text
  BY <1>3, <1>5, <1>6, <1>7
<1> QED
  BY <1>8 DEF digits

(*****************************************************************************)
(* The search text: what keys and Backspace make of it.                     *)
(*****************************************************************************)

\* What OnlyShortestForms says, of every text: decodeUtf8 accepts only what encodeUtf8
\* writes, and the digits of the state file stand for it alone.
THEOREM ShortestForm ==
  ASSUME NEW text \in Seq(Byte)
  PROVE  IF IsValidUtf8(text)
         THEN Encode(Decode(text)) = text /\ HexDecode(HexEncode(text)) = text
         ELSE HexDecode(HexEncode(text)) = Nothing
<1>1. CASE IsValidUtf8(text)
  BY <1>1, EncodeOfDecode, HexDecodeOfEncode DEF IsValidUtf8
<1>2. CASE ~IsValidUtf8(text)
  BY <1>2, HexDecodeOfEncode
<1> QED
  BY <1>1, <1>2

\* A text whose code points are cps.
Spells(text, cps) ==
  text \in Seq(Byte) /\ cps \in Seq(Scalar) /\ Decode(text) = cps /\ Encode(cps) = text

\* A valid text spells its code points.
LEMMA TextSpells ==
  ASSUME NEW text \in Seq(Byte), Decode(text) # Nothing
  PROVE  \E cps \in Seq(Scalar) : Spells(text, cps)
  BY EncodeOfDecode DEF Spells

\* Code points are spelled by the text they are encoded as.
LEMMA SpellsText ==
  ASSUME NEW cps \in Seq(Scalar)
  PROVE  Spells(Encode(cps), cps) /\ Decode(Encode(cps)) # Nothing
  BY CharactersAre, DecodeOfEncode, NothingIsNoText DEF Spells

\* What was appended is taken off again.
LEMMA FrontOfAppend ==
  ASSUME NEW S, NEW s \in Seq(S), NEW x \in S
  PROVE  Front(Append(s, x)) = s /\ Append(s, x) # <<>>
  BY AppendProperties, HeadTailAppend DEF Front

\* One character more is one code point more.
LEMMA WithOneMore ==
  ASSUME NEW text, NEW cps, Spells(text, cps), NEW sym \in DOMAIN Unicode
  PROVE  /\ Append(cps, Unicode[sym]) \in Seq(Scalar)
         /\ Spells(With(text, sym), Append(cps, Unicode[sym]))
         /\ Len(With(text, sym)) = Len(text) + Len(CharacterOf(Unicode[sym]))
<1> DEFINE c == Unicode[sym]
<1>1. c \in Nat /\ IsScalar(c)
  BY RoutingAssumption
<1>2. c \in Scalar
  BY <1>1 DEF Scalar
<1>3. CharacterOf(c) \in Seq(Byte)
  BY <1>1, WrittenCharacter
<1>4. With(text, sym) = text \o CharacterOf(c)
  BY DEF With
<1> HIDE DEF c
<1>5. cps \in Seq(Scalar) /\ text \in Seq(Byte) /\ Encode(cps) = text
  BY DEF Spells
<1>6. Append(cps, c) \in Seq(Scalar) /\ Encode(Append(cps, c)) = text \o CharacterOf(c)
  BY <1>2, <1>5, EncodeAfter
<1>7. Spells(text \o CharacterOf(c), Append(cps, c))
  BY <1>6, SpellsText
<1>8. Len(text \o CharacterOf(c)) = Len(text) + Len(CharacterOf(c))
  BY <1>3, <1>5, ConcatProperties
<1> QED
  BY <1>4, <1>6, <1>7, <1>8 DEF c

\* Without the last one: of a text that is not empty.
LEMMA WithoutOne ==
  ASSUME NEW text, NEW cps \in Seq(Scalar), NEW c \in Scalar, Spells(text, Append(cps, c))
  PROVE  WithoutLast(text) = Encode(cps) /\ text = Encode(cps) \o CharacterOf(c)
<1>1. Decode(text) = Append(cps, c) /\ text = Encode(Append(cps, c))
  BY DEF Spells
<1>2. Append(cps, c) # <<>> /\ Front(Append(cps, c)) = cps
  BY FrontOfAppend
<1>3. Append(cps, c) \in Seq(Scalar) /\ Encode(Append(cps, c)) = Encode(cps) \o CharacterOf(c)
  BY EncodeAfter
<1>4. Append(cps, c) # Nothing
  BY <1>3, NothingIsNoText
<1> QED
  BY <1>1, <1>2, <1>3, <1>4 DEF WithoutLast

\* A search text: whole characters, and no longer than it may be.
SearchTexts ==
  {text \in Seq(Byte) : Decode(text) # Nothing /\ Len(text) <= MaximumSearchSize}

\* The limit of the search text is a number of bytes.
LEMMA LimitIs == MaximumSearchSize \in Nat /\ 1 <= MaximumSearchSize
<1>1. MaximumSearchSize \in Nat /\ 0 < MaximumSearchSize
  BY CodecAssumption
<1> QED
  BY <1>1

\* The empty search text is within the limit.
LEMMA EmptySearch == <<>> \in SearchTexts
<1>1. <<>> \in Seq(Byte) /\ Len(<<>>) = 0
  OBVIOUS
<1>2. Decode(<<>>) = <<>> /\ <<>> # Nothing
  BY DecodeOfNothing DEF Nothing
<1>3. 0 <= MaximumSearchSize
  BY LimitIs
<1> QED
  BY <1>1, <1>2, <1>3 DEF SearchTexts

\* A key leaves a search text one, and Backspace takes back what it added.
LEMMA WithFits ==
  ASSUME NEW text \in SearchTexts, NEW sym \in DOMAIN Unicode, Fits(text, sym)
  PROVE  With(text, sym) \in SearchTexts /\ WithoutLast(With(text, sym)) = text
<1>1. text \in Seq(Byte) /\ Decode(text) # Nothing
  BY DEF SearchTexts
<1>2. PICK cps \in Seq(Scalar) : Spells(text, cps)
  BY <1>1, TextSpells
<1> DEFINE c == Unicode[sym]  more == With(text, sym)
<1>3. /\ Append(cps, c) \in Seq(Scalar) /\ Spells(more, Append(cps, c))
      /\ Len(more) = Len(text) + Len(CharacterOf(c))
  BY <1>2, WithOneMore
<1>4. Len(more) <= MaximumSearchSize
  BY <1>3 DEF Fits
<1>5. c \in Scalar
  BY RoutingAssumption DEF Scalar
<1> HIDE DEF c, more
<1>6. more \in Seq(Byte) /\ Decode(more) = Append(cps, c)
  BY <1>3 DEF Spells
<1>7. Decode(more) # Nothing
  BY <1>3, <1>6, NothingIsNoText
<1>8. WithoutLast(more) = Encode(cps)
  BY <1>3, <1>5, WithoutOne
<1>9. Encode(cps) = text
  BY <1>2 DEF Spells
<1> QED
  BY <1>4, <1>6, <1>7, <1>8, <1>9 DEF SearchTexts, more

\* Backspace leaves a search text one.
LEMMA WithoutFits ==
  ASSUME NEW text \in SearchTexts
  PROVE  WithoutLast(text) \in SearchTexts
<1>1. text \in Seq(Byte) /\ Decode(text) # Nothing /\ Len(text) <= MaximumSearchSize
  BY DEF SearchTexts
<1>2. CASE Decode(text) = <<>>
  BY <1>2 DEF WithoutLast
<1>3. CASE Decode(text) # <<>>
  <2>1. PICK all \in Seq(Scalar) : Spells(text, all)
    BY <1>1, TextSpells
  <2>2. all # <<>>
    BY <1>3, <2>1 DEF Spells
  <2>3. PICK cps \in Seq(Scalar), c \in Scalar : all = Append(cps, c)
    BY <2>2, SequenceEmptyOrAppend
  <2>4. WithoutLast(text) = Encode(cps) /\ text = Encode(cps) \o CharacterOf(c)
    BY <2>1, <2>3, WithoutOne
  <2>5. Encode(cps) \in Seq(Byte) /\ Decode(Encode(cps)) # Nothing
    BY SpellsText DEF Spells
  <2>6. c \in Nat /\ IsScalar(c)
    BY DEF Scalar
  <2>7. CharacterOf(c) \in Seq(Byte) /\ Len(CharacterOf(c)) \in 1 .. 4
    BY <2>6, WrittenCharacter
  <2>8. Len(text) = Len(Encode(cps)) + Len(CharacterOf(c)) /\ Len(Encode(cps)) \in Nat
    BY <2>4, <2>5, <2>7, ConcatProperties
  <2>9. Len(Encode(cps)) <= MaximumSearchSize
    BY <1>1, <2>7, <2>8, LimitIs
  <2> QED
    BY <2>4, <2>5, <2>9 DEF SearchTexts
<1> QED
  BY <1>2, <1>3

\* What a key can make of the search text.
LEMMA RouteKeepsText ==
  ASSUME NEW key, NEW text \in SearchTexts, Route(key, text).action = "Search"
  PROVE  Route(key, text).text \in SearchTexts
<1> DEFINE k == Normalized(key)
<1>1. /\ \A c : Commanded(c).action = "Command"
      /\ Ignored.action = "Ignore"
      /\ \A t : Searched(t).action = "Search" /\ Searched(t).text = t
  BY DEF Commanded, Ignored, Searched
<1>2. \/ \E c : Route(key, text) = Commanded(c)
      \/ Route(key, text) = Ignored
      \/ Route(key, text) = Searched(WithoutLast(text))
      \/ IsPrintable(k) /\ Fits(text, k.sym) /\ Route(key, text) = Searched(With(text, k.sym))
  BY DEF Route
<1>3. CASE Route(key, text) = Searched(WithoutLast(text))
  BY <1>1, <1>3, WithoutFits
<1>4. CASE IsPrintable(k) /\ Fits(text, k.sym) /\ Route(key, text) = Searched(With(text, k.sym))
  <2>1. k.sym \in DOMAIN Unicode
    BY <1>4 DEF IsPrintable
  <2> HIDE DEF k
  <2> QED
    BY <1>1, <1>4, <2>1, WithFits
<1> QED
  BY <1>1, <1>2, <1>3, <1>4

\* No step leaves half a character behind.
LEMMA SearchStep ==
  ASSUME search \in SearchTexts, [Next]_vars PROVE search' \in SearchTexts
<1>1. ASSUME NEW key, Routed(key) PROVE search' \in SearchTexts
  BY <1>1, EmptySearch, RouteKeepsText DEF Routed
<1>2. ASSUME NEW code \in Codes, Press(code) PROVE search' \in SearchTexts
  BY <1>1, <1>2, EmptySearch DEF Press, Opened, Delivered
<1>3. ASSUME NEW code \in Codes, Release(code) PROVE search' = search
  BY <1>3 DEF Release, Delivered
<1>4. CASE GroupChanged \/ Configure \/ UNCHANGED vars
  BY <1>4 DEF GroupChanged, Configure, vars
<1>5. CASE TransactionEnds \/ FocusMoves
  BY <1>5, EmptySearch DEF TransactionEnds, Ended, FocusMoves
<1> QED
  BY <1>2, <1>3, <1>4, <1>5 DEF Next

\* Whatever is typed and sent, the search text is whole characters within the limit.
THEOREM TextIsWhole == Spec => [](search \in SearchTexts)
<1>1. Init => search \in SearchTexts
  BY EmptySearch DEF Init
<1>2. search \in SearchTexts /\ [Next]_vars => (search \in SearchTexts)'
  BY SearchStep
<1> QED
  BY <1>1, <1>2, PTL DEF Spec

\* BackspaceUndoes for every symbol and every text that can be typed.
THEOREM BackspaceIsRight == Spec => []BackspaceUndoes
<1>1. search \in SearchTexts => BackspaceUndoes
  BY WithFits DEF BackspaceUndoes
<1> QED
  BY <1>1, TextIsWhole, PTL

(*****************************************************************************)
(* Numbers of two and of four bytes (Writer::integer, Reader::integer).     *)
(*****************************************************************************)

\* A number in digits to the base 256.
LEMMA Digit256 ==
  ASSUME NEW q \in Int, NEW r \in Int, 0 <= r, r < 256
  PROVE  (256 * q + r) \div 256 = q /\ (256 * q + r) % 256 = r
  BY SMT

\* The same of two digits.
LEMMA Digits65536 ==
  ASSUME NEW q \in Int, NEW r \in Int, 0 <= r, r < 65536
  PROVE  (65536 * q + r) \div 65536 = q
  BY SMT

\* The same of three digits.
LEMMA Digits16777216 ==
  ASSUME NEW q \in Int, NEW r \in Int, 0 <= r, r < 16777216
  PROVE  (16777216 * q + r) \div 16777216 = q
  BY SMT

\* Quotients by powers of 256 are quotients of quotients.
LEMMA Divided256 ==
  ASSUME NEW x \in Int
  PROVE  /\ x \div 256 \in Int /\ x % 256 \in Nat /\ x % 256 < 256
         /\ x = 256 * (x \div 256) + (x % 256)
  BY SMT

\* Two bytes and two bytes are four.
LEMMA Joined2 ==
  ASSUME NEW a \in Byte, NEW b \in Byte, NEW c \in Byte, NEW d \in Byte
  PROVE  <<a, b>> \o <<c, d>> = <<a, b, c, d>>
<1> DEFINE p == <<a, b>>  q == <<c, d>>  s == p \o q
<1>1. p \in Seq(Byte) /\ q \in Seq(Byte)
  BY BytesInSeq
<1>2. Len(p) = 2 /\ Len(q) = 2 /\ p[1] = a /\ p[2] = b /\ q[1] = c /\ q[2] = d
  OBVIOUS
<1> HIDE DEF p, q
<1>3. /\ s \in Seq(Byte) /\ Len(s) = Len(p) + Len(q)
      /\ \A i \in 1 .. Len(p) + Len(q) : s[i] = IF i <= Len(p) THEN p[i] ELSE q[i - Len(p)]
  BY <1>1, ConcatProperties
<1> HIDE DEF s
<1>4. Len(s) = 4 /\ s[1] = a /\ s[2] = b /\ s[3] = c /\ s[4] = d
  BY <1>2, <1>3
<1>5. PICK x \in Byte, y \in Byte, z \in Byte, w \in Byte : s = <<x, y, z, w>>
  BY <1>3, <1>4, Elements
<1>6. s = <<a, b, c, d>>
  BY <1>4, <1>5
<1> QED
  BY <1>6 DEF p, q, s

\* Every number of sixteen bits has its two bytes, and they are read as the number.
LEMMA U16Is ==
  ASSUME NEW v \in Nat, v <= 65535
  PROVE  \E a, b \in Byte : U16(v) = <<a, b>> /\ 256 * a + b = v
<1> DEFINE q == v \div 256  r == v % 256
<1>1. q \in Int /\ r \in Nat /\ r < 256 /\ v = 256 * q + r
  BY Divided256
<1> HIDE DEF q, r
<1>2. q \in Nat /\ q < 256
  BY <1>1
<1>3. q % 256 = q
  BY SMT, <1>2
<1>4. U16(v) = <<q % 256, r>>
  BY DEF U16, q, r
<1>5. q \in Byte /\ r \in Byte
  BY <1>1, <1>2, BytesAre
<1> QED
  BY <1>1, <1>3, <1>4, <1>5

\* Two bytes are those of the number they are read as.
LEMMA U16Of ==
  ASSUME NEW a \in Byte, NEW b \in Byte
  PROVE  U16(256 * a + b) = <<a, b>> /\ 256 * a + b \in Nat /\ 256 * a + b <= 65535
<1>1. a \in Nat /\ a <= 255 /\ b \in Nat /\ b <= 255
  BY BytesAre
<1>2. (256 * a + b) \div 256 = a /\ (256 * a + b) % 256 = b
  BY <1>1, Digit256
<1>3. a % 256 = a
  BY SMT, <1>1
<1>4. U16(256 * a + b) = <<a, b>>
  BY <1>2, <1>3 DEF U16
<1> QED
  BY <1>1, <1>4

\* A number of four bytes in two's complement, by the value of its first byte.
Quarters(x, s, b, c, d) ==
  /\ -128 <= s /\ s <= 127 /\ b <= 255 /\ c <= 255 /\ d <= 255
  /\ x = 256 * (256 * (256 * s + b) + c) + d

\* A number, its sign taken off, is made up of four bytes.
LEMMA QuartersApart ==
  ASSUME NEW x \in Int, NEW s \in Int, NEW b \in Nat, NEW c \in Nat, NEW d \in Nat,
         Quarters(x, s, b, c, d)
  PROVE  /\ x \div 16777216 = s /\ x \div 65536 = 256 * s + b
         /\ x \div 256 = 256 * (256 * s + b) + c /\ x % 256 = d
<1>1. /\ -128 <= s /\ s <= 127 /\ b <= 255 /\ c <= 255 /\ d <= 255
      /\ x = 256 * (256 * (256 * s + b) + c) + d
  BY DEF Quarters
<1>2. /\ x = 16777216 * s + (65536 * b + 256 * c + d)
      /\ 0 <= 65536 * b + 256 * c + d /\ 65536 * b + 256 * c + d < 16777216
      /\ 65536 * b + 256 * c + d \in Int
  BY SMT, <1>1
<1>3. x = 65536 * (256 * s + b) + (256 * c + d) /\ 0 <= 256 * c + d /\ 256 * c + d < 65536
      /\ 256 * c + d \in Int /\ 256 * s + b \in Int
  BY SMT, <1>1
<1>4. 256 * (256 * s + b) + c \in Int /\ 0 <= d /\ d < 256
  BY SMT, <1>1
<1>5. x \div 16777216 = s
  BY <1>2, Digits16777216
<1>6. x \div 65536 = 256 * s + b
  BY <1>3, Digits65536
<1>7. x \div 256 = 256 * (256 * s + b) + c /\ x % 256 = d
  BY <1>1, <1>4, Digit256
<1> QED
  BY <1>5, <1>6, <1>7

\* The sign of a number is in its first byte.
LEMMA TopByte ==
  ASSUME NEW s \in Int, -128 <= s, s <= 127
  PROVE  /\ s % 256 \in Nat /\ s % 256 <= 255
         /\ (((s % 256) + 128) % 256) - 128 = s
  BY SMT

\* The first byte tells the sign of a number.
LEMMA TopValue ==
  ASSUME NEW a \in Nat, a <= 255
  PROVE  LET s == ((a + 128) % 256) - 128
         IN s \in Int /\ -128 <= s /\ s <= 127 /\ s % 256 = a
  BY SMT

\* The bytes of x, by the value of the first one.
InBytes(x, s, b, c, d) ==
  /\ s % 256 \in Byte /\ b \in Byte /\ c \in Byte /\ d \in Byte
  /\ U32(x) = <<s % 256, b, c, d>>
  /\ Signed32(<<s % 256, b, c, d>>) = x

\* The four bytes of a coordinate.
LEMMA U32Is ==
  ASSUME NEW x \in Int, NEW s \in Int, NEW b \in Nat, NEW c \in Nat, NEW d \in Nat,
         Quarters(x, s, b, c, d)
  PROVE  InBytes(x, s, b, c, d)
<1>1. /\ -128 <= s /\ s <= 127 /\ b <= 255 /\ c <= 255 /\ d <= 255
      /\ x = 256 * (256 * (256 * s + b) + c) + d
  BY DEF Quarters
<1>2. /\ s % 256 \in Nat /\ s % 256 <= 255
      /\ (((s % 256) + 128) % 256) - 128 = s
  BY <1>1, TopByte
<1>3. s % 256 \in Byte /\ b \in Byte /\ c \in Byte /\ d \in Byte
  BY <1>1, <1>2, BytesAre
<1>4. /\ x \div 16777216 = s /\ x \div 65536 = 256 * s + b
      /\ x \div 256 = 256 * (256 * s + b) + c /\ x % 256 = d
  BY QuartersApart
<1>5. (256 * s + b) % 256 = b
  BY <1>1, Digit256
<1>6. (256 * (256 * s + b) + c) % 256 = c
  <2>1. 256 * s + b \in Int /\ 0 <= c /\ c < 256
    BY <1>1
  <2> QED
    BY <2>1, Digit256
<1>7. U32(x) = <<s % 256, b>> \o <<c, d>>
  BY <1>4, <1>5, <1>6 DEF U32, U16
<1>8. U32(x) = <<s % 256, b, c, d>>
  BY <1>3, <1>7, Joined2
<1> DEFINE a == s % 256
<1> HIDE DEF a
<1>9. Signed32(<<a, b, c, d>>) = 65536 * (256 * (((a + 128) % 256) - 128) + b) + 256 * c + d
  BY DEF Signed32
<1>10. ((a + 128) % 256) - 128 = s
  BY <1>2 DEF a
<1>11. Signed32(<<a, b, c, d>>) = x
  BY <1>1, <1>9, <1>10
<1> QED
  BY <1>3, <1>8, <1>11 DEF a, InBytes

\* Four bytes are those of the number they make up.
LEMMA QuartersOf ==
  ASSUME NEW x \in Int, -2147483648 <= x, x <= 2147483647
  PROVE  \E s \in Int : \E b, c, d \in Nat : Quarters(x, s, b, c, d)
<1> DEFINE p == x \div 256  q == p \div 256  s == q \div 256
           d == x % 256  c == p % 256  b == q % 256
<1>1. p \in Int /\ d \in Nat /\ d < 256 /\ x = 256 * p + d
  BY Divided256
<1> HIDE DEF p, d
<1>2. q \in Int /\ c \in Nat /\ c < 256 /\ p = 256 * q + c
  BY <1>1, Divided256
<1> HIDE DEF q, c
<1>3. s \in Int /\ b \in Nat /\ b < 256 /\ q = 256 * s + b
  BY <1>2, Divided256
<1> HIDE DEF s, b
<1>4. x = 256 * (256 * (256 * s + b) + c) + d
  BY <1>1, <1>2, <1>3
<1>5. -128 <= s /\ s <= 127
  BY SMT, <1>1, <1>2, <1>3
<1>6. Quarters(x, s, b, c, d)
  BY <1>1, <1>2, <1>3, <1>4, <1>5 DEF Quarters
<1> QED
  BY <1>1, <1>2, <1>3, <1>6

\* Every coordinate is written as four bytes, and every four bytes are one.
LEMMA U32Bytes ==
  ASSUME NEW x \in Coordinates
  PROVE  \E a, b, c, d \in Byte : U32(x) = <<a, b, c, d>> /\ Signed32(<<a, b, c, d>>) = x
<1>0. x \in Int
  BY SMT DEF Coordinates
<1>1. x \in Int /\ -2147483648 <= x /\ x <= 2147483647
  BY SMT DEF Coordinates
<1>2. PICK s \in Int : \E b, c, d \in Nat : Quarters(x, s, b, c, d)
  BY SMT, <1>1, QuartersOf
<1>3. PICK b \in Nat, c \in Nat, d \in Nat : Quarters(x, s, b, c, d)
  BY <1>2
<1>4. InBytes(x, s, b, c, d)
  BY <1>0, <1>3, U32Is
<1> QED
  BY ZenonT(60), <1>4 DEF InBytes

\* Four bytes are those of the coordinate they are read as.
LEMMA U32Of ==
  ASSUME NEW a \in Byte, NEW b \in Byte, NEW c \in Byte, NEW d \in Byte
  PROVE  /\ Signed32(<<a, b, c, d>>) \in Coordinates
         /\ U32(Signed32(<<a, b, c, d>>)) = <<a, b, c, d>>
<1>1. /\ a \in Nat /\ a <= 255 /\ b \in Nat /\ b <= 255
      /\ c \in Nat /\ c <= 255 /\ d \in Nat /\ d <= 255
  BY BytesAre
<1> DEFINE s == ((a + 128) % 256) - 128
           x == 256 * (256 * (256 * s + b) + c) + d
<1>2. s \in Int /\ -128 <= s /\ s <= 127 /\ s % 256 = a
  BY <1>1, TopValue
<1> HIDE DEF s
<1>3. x \in Int /\ -2147483648 <= x /\ x <= 2147483647
  BY SMT, <1>1, <1>2
<1>4. Quarters(x, s, b, c, d)
  BY <1>1, <1>2 DEF Quarters
<1>0. x \in Int /\ b \in Nat /\ c \in Nat /\ d \in Nat
  BY <1>1, <1>3
<1> HIDE DEF x
<1>5. InBytes(x, s, b, c, d)
  BY <1>0, <1>2, <1>4, U32Is
<1>6. x \in Coordinates
  BY SMT, <1>3 DEF Coordinates
<1> QED
  BY <1>2, <1>5, <1>6 DEF InBytes

(*****************************************************************************)
(* One field: what is written is read, what is read was written so.         *)
(*****************************************************************************)

\* How the fields are coded.
Codings == {"u8", "u16", "u32", "u64", "identifier", "rectangle", "text"}

\* The two parts of a concatenation.
LEMMA Parts ==
  ASSUME NEW S, NEW a \in Seq(S), NEW b \in Seq(S)
  PROVE  /\ a \o b \in Seq(S) /\ Len(a \o b) = Len(a) + Len(b)
         /\ SubSeq(a \o b, 1, Len(a)) = a
         /\ SubSeq(a \o b, Len(a) + 1, Len(a) + Len(b)) = b
<1>1. a \o b \in Seq(S) /\ Len(a \o b) = Len(a) + Len(b) /\ Len(a) \in Nat /\ Len(b) \in Nat
  BY ConcatProperties
<1>2. SubSeq(a \o b, 1, Len(a)) = a
  <2>1. CASE a = <<>>
    <3>1. Len(a) = 0
      BY <2>1
    <3> QED
      BY <2>1, <3>1, SubSeqEmpty
  <2>2. CASE a # <<>>
    <3>1. 1 \in 1 .. Len(a) /\ Len(a) \in 1 .. Len(a)
      BY <2>2
    <3>2. SubSeq(a \o b, 1, Len(a)) = SubSeq(a, 1, Len(a))
      BY <3>1, SubSeqOfConcat1
    <3> QED
      BY <3>2, SubSeqFull
  <2> QED
    BY <2>1, <2>2
<1>3. SubSeq(a \o b, Len(a) + 1, Len(a) + Len(b)) = b
  <2>1. CASE b = <<>>
    <3>1. /\ Len(b) = 0 /\ Len(a) + Len(b) < Len(a) + 1
          /\ Len(a) + 1 \in Int /\ Len(a) + Len(b) \in Int
      BY <1>1, <2>1
    <3> QED
      BY <2>1, <3>1, SubSeqEmpty
  <2>2. CASE b # <<>>
    <3>1. /\ Len(a) + 1 \in Len(a) + 1 .. Len(a) + Len(b)
          /\ Len(a) + Len(b) \in Len(a) + 1 .. Len(a) + Len(b)
          /\ (Len(a) + 1) - Len(a) = 1 /\ (Len(a) + Len(b)) - Len(a) = Len(b)
      BY <1>1, <2>2
    <3>2. SubSeq(a \o b, Len(a) + 1, Len(a) + Len(b))
            = SubSeq(b, (Len(a) + 1) - Len(a), (Len(a) + Len(b)) - Len(a))
      BY <3>1, SubSeqOfConcat2
    <3> QED
      BY <3>1, <3>2, SubSeqFull
  <2> QED
    BY <2>1, <2>2
<1> QED
  BY <1>1, <1>2, <1>3

\* The beginning and the end of a sequence make it up.
LEMMA Halves ==
  ASSUME NEW S, NEW s \in Seq(S), NEW n \in 0 .. Len(s)
  PROVE  /\ SubSeq(s, 1, n) \in Seq(S) /\ Len(SubSeq(s, 1, n)) = n
         /\ SubSeq(s, n + 1, Len(s)) \in Seq(S) /\ Len(SubSeq(s, n + 1, Len(s))) = Len(s) - n
         /\ SubSeq(s, 1, n) \o SubSeq(s, n + 1, Len(s)) = s
<1>1. Len(s) \in Nat /\ n \in Nat /\ n <= Len(s) /\ \A i \in 1 .. Len(s) : s[i] \in S
  OBVIOUS
<1>2. SubSeq(s, 1, n) \in Seq(S) /\ Len(SubSeq(s, 1, n)) = n
  <2>1. \A i \in 1 .. n : s[i] \in S
    BY <1>1
  <2> QED
    BY <1>1, <2>1, SubSeqProperties
<1>3. SubSeq(s, n + 1, Len(s)) \in Seq(S) /\ Len(SubSeq(s, n + 1, Len(s))) = Len(s) - n
  <2>1. \A i \in n + 1 .. Len(s) : s[i] \in S
    BY <1>1
  <2>2. n + 1 \in Int /\ Len(s) \in Int
    BY <1>1
  <2>3. /\ SubSeq(s, n + 1, Len(s)) \in Seq(S)
        /\ Len(SubSeq(s, n + 1, Len(s))) = IF n + 1 <= Len(s) THEN Len(s) - (n + 1) + 1 ELSE 0
    BY <2>1, <2>2, SubSeqProperties
  <2> QED
    BY <1>1, <2>3
<1>4. SubSeq(s, 1, n) \o SubSeq(s, n + 1, Len(s)) = SubSeq(s, 1, Len(s))
  <2>1. 1 \in 1 .. Len(s) + 1 /\ n \in 1 - 1 .. Len(s) /\ Len(s) \in n .. Len(s)
    BY <1>1
  <2> QED
    BY <2>1, ConcatAdjacentSubSeq
<1>5. SubSeq(s, 1, Len(s)) = s
  BY SubSeqFull
<1> QED
  BY <1>2, <1>3, <1>4, <1>5

\* A piece of one of the parts of a concatenation.
PieceOfFirst(p, q, m, n) == SubSeq(p \o q, m, n) = SubSeq(p, m, n)

\* Positions behind the first part are positions of the second.
PieceOfSecond(p, q, m, n) == SubSeq(p \o q, Len(p) + m, Len(p) + n) = SubSeq(q, m, n)

\* Pieces within one of the parts are its pieces.
LEMMA Pieces ==
  ASSUME NEW p \in Seq(Byte), NEW q \in Seq(Byte), NEW m \in Int, NEW n \in Int, 1 <= m, m <= n
  PROVE  /\ n <= Len(p) => PieceOfFirst(p, q, m, n)
         /\ n <= Len(q) => PieceOfSecond(p, q, m, n)
<1>1. Len(p) \in Nat /\ Len(q) \in Nat
  OBVIOUS
<1>2. ASSUME n <= Len(p) PROVE SubSeq(p \o q, m, n) = SubSeq(p, m, n)
  <2>1. m \in 1 .. Len(p) /\ n \in 1 .. Len(p)
    BY <1>1, <1>2
  <2> QED
    BY <2>1, SubSeqOfConcat1
<1>3. ASSUME n <= Len(q) PROVE SubSeq(p \o q, Len(p) + m, Len(p) + n) = SubSeq(q, m, n)
  <2> DEFINE k == Len(p) + m  l == Len(p) + n
  <2>1. k \in Len(p) + 1 .. Len(p) + Len(q) /\ l \in Len(p) + 1 .. Len(p) + Len(q)
    BY <1>1, <1>3
  <2>2. k - Len(p) = m /\ l - Len(p) = n
    BY <1>1
  <2> HIDE DEF k, l
  <2>3. SubSeq(p \o q, k, l) = SubSeq(q, k - Len(p), l - Len(p))
    BY <2>1, SubSeqOfConcat2
  <2> QED
    BY <2>2, <2>3 DEF k, l
<1> QED
  BY <1>2, <1>3 DEF PieceOfFirst, PieceOfSecond

\* a, then b, are s.
Consists(s, a, b) ==
  /\ s = a \o b /\ s \in Seq(Byte) /\ Len(s) = Len(a) + Len(b)
  /\ SubSeq(s, 1, Len(a)) = a /\ SubSeq(s, Len(a) + 1, Len(a) + Len(b)) = b

\* A concatenation consists of its parts.
LEMMA ConsistsOf ==
  ASSUME NEW a \in Seq(Byte), NEW b \in Seq(Byte)
  PROVE  Consists(a \o b, a, b)
  BY Parts DEF Consists

\* Two words next to each other.
LEMMA TwoParts ==
  ASSUME NEW a \in Seq(Byte), Len(a) = 4, NEW b \in Seq(Byte), Len(b) = 4
  PROVE  /\ a \o b \in Seq(Byte) /\ Len(a \o b) = 8
         /\ SubSeq(a \o b, 1, 4) = a /\ SubSeq(a \o b, 5, 8) = b
<1>1. Consists(a \o b, a, b)
  BY ConsistsOf
<1>2. Len(a) + 1 = 5 /\ Len(a) + Len(b) = 8
  OBVIOUS
<1> QED
  BY <1>1, <1>2 DEF Consists

\* s is made of four words.
Words(s, a, b, c, d) ==
  /\ s \in Seq(Byte) /\ Len(s) = 16
  /\ SubSeq(s, 1, 4) = a /\ SubSeq(s, 5, 8) = b
  /\ SubSeq(s, 9, 12) = c /\ SubSeq(s, 13, 16) = d

\* Four words next to each other.
LEMMA FourParts ==
  ASSUME NEW a \in Seq(Byte), Len(a) = 4, NEW b \in Seq(Byte), Len(b) = 4,
         NEW c \in Seq(Byte), Len(c) = 4, NEW d \in Seq(Byte), Len(d) = 4
  PROVE  Words((a \o b) \o (c \o d), a, b, c, d)
<1> DEFINE p == a \o b  q == c \o d  s == p \o q
<1>1. p \in Seq(Byte) /\ Len(p) = 8 /\ SubSeq(p, 1, 4) = a /\ SubSeq(p, 5, 8) = b
  BY TwoParts
<1>2. q \in Seq(Byte) /\ Len(q) = 8 /\ SubSeq(q, 1, 4) = c /\ SubSeq(q, 5, 8) = d
  BY TwoParts
<1> HIDE DEF p, q
<1>3. s \in Seq(Byte) /\ Len(s) = Len(p) + Len(q)
  BY ZenonT(60), <1>1, <1>2, ConcatProperties
<1>a. p \in Seq(Byte) /\ q \in Seq(Byte) /\ 8 <= Len(p) /\ 8 <= Len(q) /\ 4 <= Len(p) /\ 4 <= Len(q)
  BY <1>1, <1>2
<1>b. /\ 1 \in Int /\ 4 \in Int /\ 5 \in Int /\ 8 \in Int
      /\ 1 <= 1 /\ 1 <= 4 /\ 1 <= 5 /\ 5 <= 8
  OBVIOUS
<1>4. PieceOfFirst(p, q, 1, 4) /\ PieceOfFirst(p, q, 5, 8)
  BY Zenon, <1>a, <1>b, Pieces
<1>5. PieceOfSecond(p, q, 1, 4) /\ PieceOfSecond(p, q, 5, 8)
  BY Zenon, <1>a, <1>b, Pieces
<1>6. Len(p) + 1 = 9 /\ Len(p) + 4 = 12 /\ Len(p) + 5 = 13 /\ Len(p) + 8 = 16
  BY <1>1
<1>7. SubSeq(s, 1, 4) = a /\ SubSeq(s, 5, 8) = b
  BY <1>1, <1>4 DEF PieceOfFirst
<1>8. SubSeq(s, 9, 12) = c /\ SubSeq(s, 13, 16) = d
  BY <1>2, <1>5, <1>6 DEF PieceOfSecond
<1>9. Len(s) = 16
  BY <1>1, <1>2, <1>3
<1> HIDE DEF s
<1> QED
  BY <1>3, <1>7, <1>8, <1>9 DEF Words, p, q, s

\* A coordinate is read as it was written.
LEMMA U32Word ==
  ASSUME NEW x \in Coordinates
  PROVE  U32(x) \in Seq(Byte) /\ Len(U32(x)) = 4 /\ Signed32(U32(x)) = x
<1>1. PICK a \in Byte, b \in Byte, c \in Byte, d \in Byte :
        U32(x) = <<a, b, c, d>> /\ Signed32(<<a, b, c, d>>) = x
  BY U32Bytes
<1>2. <<a, b, c, d>> \in Seq(Byte) /\ Len(<<a, b, c, d>>) = 4
  BY BytesInSeq
<1> QED
  BY <1>1, <1>2

\* Four bytes are written as they were read.
LEMMA WordU32 ==
  ASSUME NEW s \in Seq(Byte), Len(s) = 4
  PROVE  Signed32(s) \in Coordinates /\ U32(Signed32(s)) = s
<1>1. PICK a \in Byte, b \in Byte, c \in Byte, d \in Byte : s = <<a, b, c, d>>
  BY Elements
<1> QED
  BY <1>1, U32Of

\* The reader takes a rectangle from its four words.
LEMMA RectangleIs ==
  ASSUME NEW bytes
  PROVE  Rectangle(bytes) = [x |-> Signed32(SubSeq(bytes, 1, 4)),
                             y |-> Signed32(SubSeq(bytes, 5, 8)),
                             width |-> Signed32(SubSeq(bytes, 9, 12)),
                             height |-> Signed32(SubSeq(bytes, 13, 16))]
<1>1. /\ 4 * 0 + 1 = 1 /\ 4 * 0 + 4 = 4 /\ 4 * 1 + 1 = 5 /\ 4 * 1 + 4 = 8
      /\ 4 * 2 + 1 = 9 /\ 4 * 2 + 4 = 12 /\ 4 * 3 + 1 = 13 /\ 4 * 3 + 4 = 16
  OBVIOUS
<1> QED
  BY <1>1 DEF Rectangle

\* The bytes of a rectangle.
Corner(r) == (U32(r.x) \o U32(r.y)) \o (U32(r.width) \o U32(r.height))

\* A rectangle is read as it was written.
LEMMA RectangleWritten ==
  ASSUME NEW r \in Rectangles
  PROVE  Corner(r) \in Seq(Byte) /\ Len(Corner(r)) = 16 /\ Rectangle(Corner(r)) = r
<1>1. /\ r.x \in Coordinates /\ r.y \in Coordinates
      /\ r.width \in Coordinates /\ r.height \in Coordinates
      /\ r = [x |-> r.x, y |-> r.y, width |-> r.width, height |-> r.height]
  BY DEF Rectangles
<1> DEFINE a == U32(r.x)  b == U32(r.y)  c == U32(r.width)  d == U32(r.height)
           s == (a \o b) \o (c \o d)
<1>2. /\ a \in Seq(Byte) /\ Len(a) = 4 /\ Signed32(a) = r.x
      /\ b \in Seq(Byte) /\ Len(b) = 4 /\ Signed32(b) = r.y
      /\ c \in Seq(Byte) /\ Len(c) = 4 /\ Signed32(c) = r.width
      /\ d \in Seq(Byte) /\ Len(d) = 4 /\ Signed32(d) = r.height
  BY <1>1, U32Word
<1>3. Corner(r) = s
  BY DEF Corner
<1> HIDE DEF a, b, c, d
<1>a. Words(s, a, b, c, d)
  BY <1>2, FourParts
<1> HIDE DEF s
<1>4. /\ s \in Seq(Byte) /\ Len(s) = 16
      /\ SubSeq(s, 1, 4) = a /\ SubSeq(s, 5, 8) = b
      /\ SubSeq(s, 9, 12) = c /\ SubSeq(s, 13, 16) = d
  BY <1>a DEF Words
<1>5. Rectangle(s) = [x |-> r.x, y |-> r.y, width |-> r.width, height |-> r.height]
  BY <1>2, <1>4, RectangleIs
<1> QED
  BY <1>1, <1>3, <1>4, <1>5

\* Sixteen bytes are written as they were read.
LEMMA RectangleRead ==
  ASSUME NEW s \in Seq(Byte), Len(s) = 16
  PROVE  Rectangle(s) \in Rectangles /\ Corner(Rectangle(s)) = s
<1> DEFINE a == SubSeq(s, 1, 4)  b == SubSeq(s, 5, 8)
           c == SubSeq(s, 9, 12)  d == SubSeq(s, 13, 16)
           p == SubSeq(s, 1, 8)  q == SubSeq(s, 9, 16)
<1>1. \A i \in Int : 1 <= i /\ i <= 16 => s[i] \in Byte
  OBVIOUS
<1>2. /\ a \in Seq(Byte) /\ Len(a) = 4 /\ b \in Seq(Byte) /\ Len(b) = 4
      /\ c \in Seq(Byte) /\ Len(c) = 4 /\ d \in Seq(Byte) /\ Len(d) = 4
  <2>1. a \in Seq(Byte) /\ Len(a) = 4
    BY <1>1, SubSeqProperties
  <2>2. b \in Seq(Byte) /\ Len(b) = 4
    BY <1>1, SubSeqProperties
  <2>3. c \in Seq(Byte) /\ Len(c) = 4
    BY <1>1, SubSeqProperties
  <2>4. d \in Seq(Byte) /\ Len(d) = 4
    BY <1>1, SubSeqProperties
  <2> QED
    BY <2>1, <2>2, <2>3, <2>4
<1>3. a \o b = p /\ c \o d = q /\ p \o q = SubSeq(s, 1, 16)
  <2>0. /\ 1 \in 1 .. Len(s) + 1 /\ 4 \in 1 - 1 .. Len(s) /\ 8 \in 4 .. Len(s) /\ 4 + 1 = 5
        /\ 9 \in 1 .. Len(s) + 1 /\ 12 \in 9 - 1 .. Len(s) /\ 16 \in 12 .. Len(s) /\ 12 + 1 = 13
        /\ 8 \in 1 - 1 .. Len(s) /\ 16 \in 8 .. Len(s) /\ 8 + 1 = 9
    OBVIOUS
  <2>1. SubSeq(s, 1, 4) \o SubSeq(s, 4 + 1, 8) = SubSeq(s, 1, 8)
    BY <2>0, ConcatAdjacentSubSeq
  <2>2. SubSeq(s, 9, 12) \o SubSeq(s, 12 + 1, 16) = SubSeq(s, 9, 16)
    BY <2>0, ConcatAdjacentSubSeq
  <2>3. SubSeq(s, 1, 8) \o SubSeq(s, 8 + 1, 16) = SubSeq(s, 1, 16)
    BY <2>0, ConcatAdjacentSubSeq
  <2> QED
    BY <2>0, <2>1, <2>2, <2>3
<1>4. SubSeq(s, 1, 16) = s
  BY SubSeqFull
<1>5. Rectangle(s) = [x |-> Signed32(a), y |-> Signed32(b),
                      width |-> Signed32(c), height |-> Signed32(d)]
  BY RectangleIs
<1> HIDE DEF a, b, c, d, p, q
<1>6. /\ Signed32(a) \in Coordinates /\ U32(Signed32(a)) = a
      /\ Signed32(b) \in Coordinates /\ U32(Signed32(b)) = b
      /\ Signed32(c) \in Coordinates /\ U32(Signed32(c)) = c
      /\ Signed32(d) \in Coordinates /\ U32(Signed32(d)) = d
  BY <1>2, WordU32
<1>7. Rectangle(s) \in Rectangles
  BY <1>5, <1>6 DEF Rectangles
<1>8. Corner(Rectangle(s)) = (a \o b) \o (c \o d)
  BY <1>5, <1>6 DEF Corner
<1> QED
  BY <1>3, <1>4, <1>7, <1>8

\* The sizes of the fields that say nothing of it themselves.
LEMMA SizesAre ==
  /\ \A coding \in Codings : coding # "text" => FixedSize[coding] \in Nat
  /\ FixedSize["u8"] = 1 /\ FixedSize["u16"] = 2 /\ FixedSize["rectangle"] = 16
<1>1. TransactionSize \in Nat
  BY CodecAssumption
<1> QED
  BY <1>1 DEF FixedSize, Codings

\* What a field says of its own size: rest begins with it.
FieldIs(coding, v, w) ==
  /\ w = Written(coding, v) /\ w \in Seq(Byte) /\ Value(coding, w) = v
  /\ \A rest \in Seq(Byte) : SizeIn(coding, w \o rest) = Len(w)

\* Every value of a field is written so that it is read again.
LEMMA FieldWritten ==
  ASSUME NEW coding \in Codings, NEW v \in Values(coding)
  PROVE  FieldIs(coding, v, Written(coding, v))
<1> DEFINE w == Written(coding, v)
<1>1. CASE coding = "u8"
  <2>1. v \in Byte
    BY <1>1 DEF Values
  <2>2. w = <<v>>
    BY <1>1 DEF Written
  <2>3. w \in Seq(Byte) /\ Len(w) = 1 /\ w[1] = v
    BY <2>1, <2>2, BytesInSeq
  <2>4. Value(coding, w) = v
    BY <1>1, <2>3 DEF Value
  <2>5. \A rest \in Seq(Byte) : SizeIn(coding, w \o rest) = Len(w)
    BY <1>1, <2>3, SizesAre DEF SizeIn
  <2> QED
    BY <2>3, <2>4, <2>5 DEF FieldIs
<1>2. CASE coding = "u16"
  <2>1. v \in Nat /\ v <= 65535
    BY <1>2 DEF Values
  <2>2. PICK a \in Byte, b \in Byte : U16(v) = <<a, b>> /\ 256 * a + b = v
    BY <2>1, U16Is
  <2>3. w = <<a, b>>
    BY <1>2, <2>2 DEF Written
  <2>4. w \in Seq(Byte) /\ Len(w) = 2 /\ w[1] = a /\ w[2] = b
    BY <2>3, BytesInSeq
  <2>5. Value(coding, w) = v
    BY <1>2, <2>2, <2>4 DEF Value, Number16
  <2>6. \A rest \in Seq(Byte) : SizeIn(coding, w \o rest) = Len(w)
    BY <1>2, <2>4, SizesAre DEF SizeIn
  <2> QED
    BY <2>4, <2>5, <2>6 DEF FieldIs
<1>3. CASE coding = "rectangle"
  <2>1. v \in Rectangles
    BY <1>3 DEF Values
  <2>2. w = Corner(v)
    BY <1>3 DEF Written, Corner
  <2>3. w \in Seq(Byte) /\ Len(w) = 16 /\ Rectangle(w) = v
    BY <2>1, <2>2, RectangleWritten
  <2>4. Value(coding, w) = v
    BY <1>3, <2>3 DEF Value
  <2>5. \A rest \in Seq(Byte) : SizeIn(coding, w \o rest) = Len(w)
    BY <1>3, <2>3, SizesAre DEF SizeIn
  <2> QED
    BY <2>3, <2>4, <2>5 DEF FieldIs
<1>4. CASE coding = "text"
  <2>1. v \in Seq(Byte) /\ Len(v) \in Nat /\ Len(v) <= 65535
    BY <1>4 DEF Values
  <2>2. PICK a \in Byte, b \in Byte : U16(Len(v)) = <<a, b>> /\ 256 * a + b = Len(v)
    BY <2>1, U16Is
  <2> DEFINE u == <<a, b>>
  <2>3. w = u \o v
    BY <1>4, <2>2 DEF Written
  <2>4. u \in Seq(Byte) /\ Len(u) = 2 /\ u[1] = a /\ u[2] = b
    BY BytesInSeq
  <2> HIDE DEF u
  <2>5. Consists(u \o v, u, v)
    BY <2>1, <2>4, ConsistsOf
  <2>6. w \in Seq(Byte) /\ Len(w) = Len(v) + 2 /\ SubSeq(w, 3, Len(w)) = v
    <3>1. Len(u) + 1 = 3 /\ Len(u) + Len(v) = Len(v) + 2
      BY <2>1, <2>4
    <3> HIDE DEF w
    <3> QED
      BY <2>3, <2>5, <3>1 DEF Consists
  <2>7. w[1] = a /\ w[2] = b
    <3>0. u \in Seq(Byte) /\ v \in Seq(Byte)
      BY <2>1, <2>4
    <3>1. \A i \in 1 .. Len(u) + Len(v) : (u \o v)[i] = IF i <= Len(u) THEN u[i] ELSE v[i - Len(u)]
      BY <3>0, ConcatProperties
    <3>2. /\ 1 \in 1 .. Len(u) + Len(v) /\ 2 \in 1 .. Len(u) + Len(v)
          /\ 1 <= Len(u) /\ 2 <= Len(u)
      BY <2>1, <2>4
    <3>3. (u \o v)[1] = u[1] /\ (u \o v)[2] = u[2]
      BY Zenon, <3>1, <3>2
    <3> HIDE DEF w
    <3> QED
      BY <2>3, <2>4, <3>3
  <2>8. Value(coding, w) = v
    BY <1>4, <2>6 DEF Value
  <2>9. ASSUME NEW rest \in Seq(Byte) PROVE SizeIn(coding, w \o rest) = Len(w)
    <3> HIDE DEF w
    <3>1. /\ Len(w \o rest) = Len(w) + Len(rest)
          /\ (w \o rest)[1] = w[1] /\ (w \o rest)[2] = w[2]
      BY <2>1, <2>6, ConcatProperties
    <3>2. Len(rest) \in Nat
      OBVIOUS
    <3>3. ~(Len(w \o rest) < 2)
      BY <2>1, <2>6, <3>1, <3>2
    <3>4. Number16(w \o rest) = Len(v)
      BY <2>2, <2>7, <3>1 DEF Number16
    <3>5. SizeIn(coding, w \o rest) = 2 + Number16(w \o rest)
      BY <1>4, <3>3 DEF SizeIn
    <3> QED
      BY <2>1, <2>6, <3>4, <3>5
  <2> QED
    BY <2>6, <2>8, <2>9 DEF FieldIs
<1>5. CASE coding \notin {"u8", "u16", "rectangle", "text"}
  <2>1. v \in Seq(Byte) /\ Len(v) = FixedSize[coding]
    BY <1>5 DEF Values
  <2>2. w = v
    BY <1>5 DEF Written
  <2>3. Value(coding, w) = v
    BY <1>5, <2>2 DEF Value
  <2>4. \A rest \in Seq(Byte) : SizeIn(coding, w \o rest) = Len(w)
    BY <1>5, <2>1, <2>2 DEF SizeIn
  <2> QED
    BY <2>1, <2>2, <2>3, <2>4 DEF FieldIs
<1> QED
  BY <1>1, <1>2, <1>3, <1>4, <1>5

\* b, the bytes a field takes of rest, are what its value is written as.
ReadBack(coding, b) ==
  Value(coding, b) \in Values(coding) /\ Written(coding, Value(coding, b)) = b

\* A field has a size, whatever it begins with.
LEMMA SizeIs ==
  ASSUME NEW coding \in Codings, NEW rest \in Seq(Byte)
  PROVE  SizeIn(coding, rest) \in Nat
<1>1. CASE coding # "text"
  BY <1>1, SizesAre DEF SizeIn
<1>2. CASE coding = "text" /\ Len(rest) < 2
  BY <1>2 DEF SizeIn
<1>3. CASE coding = "text" /\ ~(Len(rest) < 2)
  <2>1. rest[1] \in Byte /\ rest[2] \in Byte
    BY <1>3
  <2>2. rest[1] \in Nat /\ rest[2] \in Nat
    BY <2>1, BytesAre
  <2>3. SizeIn(coding, rest) = 2 + Number16(rest)
    BY <1>3 DEF SizeIn
  <2> QED
    BY <2>2, <2>3 DEF Number16
<1> QED
  BY <1>1, <1>2, <1>3

\* Every field that is read is written as it was.
LEMMA FieldRead ==
  ASSUME NEW coding \in Codings, NEW rest \in Seq(Byte), SizeIn(coding, rest) <= Len(rest)
  PROVE  ReadBack(coding, SubSeq(rest, 1, SizeIn(coding, rest)))
<1> DEFINE n == SizeIn(coding, rest)  b == SubSeq(rest, 1, n)
<1> SUFFICES ReadBack(coding, b)
  OBVIOUS
<1>1. n \in Nat /\ n \in 0 .. Len(rest)
  BY SizeIs
<1>2. b \in Seq(Byte) /\ Len(b) = n
  <2> HIDE DEF n
  <2> QED
    BY <1>1, Halves
<1>3. CASE coding = "u8"
  <2>1. Len(b) = 1
    BY <1>2, <1>3, SizesAre DEF SizeIn
  <2> HIDE DEF b
  <2>2. PICK x \in Byte : b = <<x>>
    BY <1>2, <2>1, Elements
  <2> QED
    BY <1>3, <2>2 DEF ReadBack, Value, Values, Written
<1>4. CASE coding = "u16"
  <2>1. Len(b) = 2
    BY <1>2, <1>4, SizesAre DEF SizeIn
  <2> HIDE DEF b
  <2>2. PICK x \in Byte, y \in Byte : b = <<x, y>>
    BY <1>2, <2>1, Elements
  <2>3. Value(coding, b) = 256 * x + y
    BY <1>4, <2>2 DEF Value, Number16
  <2>4. U16(256 * x + y) = <<x, y>> /\ 256 * x + y \in Nat /\ 256 * x + y <= 65535
    BY U16Of
  <2>5. Written(coding, 256 * x + y) = U16(256 * x + y)
    BY <1>4 DEF Written
  <2>6. Values(coding) = {m \in Nat : m <= 65535}
    BY <1>4 DEF Values
  <2> QED
    BY <2>2, <2>3, <2>4, <2>5, <2>6 DEF ReadBack
<1>5. CASE coding = "rectangle"
  <2>1. Len(b) = 16
    BY <1>2, <1>5, SizesAre DEF SizeIn
  <2> HIDE DEF b
  <2>2. Rectangle(b) \in Rectangles /\ Corner(Rectangle(b)) = b
    BY <1>2, <2>1, RectangleRead
  <2>3. Value(coding, b) = Rectangle(b) /\ Values(coding) = Rectangles
    BY <1>5 DEF Value, Values
  <2>4. Written(coding, Rectangle(b)) = Corner(Rectangle(b))
    BY <1>5 DEF Written, Corner
  <2> QED
    BY <2>2, <2>3, <2>4 DEF ReadBack
<1>6. CASE coding = "text"
  <2>1. ~(Len(rest) < 2)
    BY <1>6 DEF SizeIn
  <2>2. n = 2 + Number16(rest) /\ rest[1] \in Byte /\ rest[2] \in Byte
    BY <1>6, <2>1 DEF SizeIn
  <2>3. rest[1] \in Nat /\ rest[2] \in Nat /\ rest[1] <= 255 /\ rest[2] <= 255
    BY <2>2, BytesAre
  <2> DEFINE m == 256 * rest[1] + rest[2]  t == SubSeq(b, 3, n)
  <2>4. m \in Nat /\ m <= 65535 /\ n = 2 + m
    BY <2>2, <2>3 DEF Number16
  <2>5. b[1] = rest[1] /\ b[2] = rest[2]
    BY <1>1, <2>4
  <2>6. U16(m) = <<rest[1], rest[2]>>
    BY <2>2, U16Of
  <2> HIDE DEF b, n, m
  <2>7. t \in Seq(Byte) /\ Len(t) = m
    <3>1. \A i \in 3 .. n : b[i] \in Byte
      BY <1>2, <2>4
    <3>2. n \in Int /\ 3 \in Int
      BY <1>1
    <3>3. SubSeq(b, 3, n) \in Seq(Byte) /\ Len(SubSeq(b, 3, n)) = IF 3 <= n THEN n - 3 + 1 ELSE 0
      BY <3>1, <3>2, SubSeqProperties
    <3> QED
      BY <2>4, <3>3
  <2>8. SubSeq(b, 1, 2) \o SubSeq(b, 2 + 1, Len(b)) = b
    <3>1. 2 \in 0 .. Len(b)
      BY <1>2, <2>4
    <3> QED
      BY <1>2, <3>1, Halves
  <2>9. SubSeq(b, 1, 2) = <<rest[1], rest[2]>>
    <3> DEFINE h == SubSeq(b, 1, 2)
    <3>1. \A i \in 1 .. 2 : b[i] \in Byte
      BY <1>2, <2>4
    <3>2. h \in Seq(Byte) /\ Len(h) = 2 /\ h[1] = b[1] /\ h[2] = b[2]
      BY <3>1, SubSeqProperties
    <3> HIDE DEF h
    <3>3. PICK x \in Byte, y \in Byte : h = <<x, y>>
      BY <3>2, Elements
    <3>4. h = <<rest[1], rest[2]>>
      BY <2>5, <3>2, <3>3
    <3> QED
      BY <3>4 DEF h
  <2>10. U16(m) \o t = b
    <3>1. 2 + 1 = 3 /\ Len(b) = n
      BY <1>2
    <3> QED
      BY Zenon, <2>6, <2>8, <2>9, <3>1
  <2>11. Value(coding, b) = t
    BY <1>2, <1>6 DEF Value
  <2>12. Values(coding) = {text \in Seq(Byte) : Len(text) <= 65535}
    BY <1>6 DEF Values
  <2>13. Written(coding, t) = U16(Len(t)) \o t
    BY <1>6 DEF Written
  <2> HIDE DEF t
  <2> QED
    BY <2>4, <2>7, <2>10, <2>11, <2>12, <2>13 DEF ReadBack
<1>7. CASE coding \notin {"u8", "u16", "rectangle", "text"}
  <2>1. Len(b) = FixedSize[coding]
    BY <1>2, <1>7 DEF SizeIn
  <2>2. Values(coding) = {bytes \in Seq(Byte) : Len(bytes) = FixedSize[coding]}
    BY <1>7 DEF Values
  <2>3. Value(coding, b) = b /\ Written(coding, b) = b
    BY <1>7 DEF Value, Written
  <2> QED
    BY <1>2, <2>1, <2>2, <2>3 DEF ReadBack
<1> QED
  BY <1>3, <1>4, <1>5, <1>6, <1>7

(*****************************************************************************)
(* The layouts of the payloads.                                             *)
(*****************************************************************************)

\* The message types.
Types == {"Hello", "Welcome", "Show", "Command", "Hide", "Selected", "Cancelled", "Ping", "Pong"}

\* Its fields have names of their own.
LaidOut(layout) ==
  /\ Len(layout) \in Nat /\ DOMAIN layout = 1 .. Len(layout)
  /\ \A i \in 1 .. Len(layout) :
       /\ layout[i] = <<layout[i][1], layout[i][2]>>
       /\ layout[i][2] \in Codings /\ layout[i][1] # "version" /\ layout[i][1] # "type"
  /\ \A i, j \in 1 .. Len(layout) : i # j => layout[i][1] # layout[j][1]

\* The layouts one by one.
LEMMA LayoutsAre ==
  /\ DOMAIN Layout = Types
  /\ Layout["Hello"] = << <<"minimumVersion", "u16">>, <<"maximumVersion", "u16">>,
                          <<"nonce", "u64">>, <<"capabilities", "u32">> >>
  /\ Layout["Welcome"] = << <<"selectedVersion", "u16">>, <<"nonce", "u64">>,
                            <<"capabilities", "u32">> >>
  /\ Layout["Show"] = << <<"transaction", "identifier">>, <<"caret", "rectangle">>,
                         <<"screen", "rectangle">>, <<"locale", "u8">>,
                         <<"scalePercent", "u16">>, <<"closeAfterSelection", "u8">> >>
  /\ Layout["Command"] = << <<"transaction", "identifier">>, <<"sequence", "u32">>,
                            <<"kind", "u8">>, <<"text", "text">> >>
  /\ Layout["Hide"] = << <<"transaction", "identifier">>, <<"reason", "u8">> >>
  /\ Layout["Cancelled"] = << <<"transaction", "identifier">>, <<"reason", "u8">> >>
  /\ Layout["Selected"] = << <<"transaction", "identifier">>, <<"text", "text">> >>
  /\ Layout["Ping"] = << <<"nonce", "u64">> >>
  /\ Layout["Pong"] = << <<"nonce", "u64">> >>
  BY DEF Layout, Types

\* Layouts of one field.
LEMMA LaidOutOne ==
  ASSUME NEW n1, NEW c1 \in Codings, n1 \notin {"version", "type"}
  PROVE  LaidOut(<< <<n1, c1>> >>)
<1> DEFINE l == << <<n1, c1>> >>
<1>1. Len(l) = 1 /\ DOMAIN l = 1 .. 1 /\ l[1] = <<n1, c1>>
  OBVIOUS
<1> HIDE DEF l
<1>2. LaidOut(l)
  BY <1>1 DEF LaidOut
<1> QED
  BY <1>2 DEF l

\* Layouts of two fields.
LEMMA LaidOutTwo ==
  ASSUME NEW n1, NEW c1 \in Codings, NEW n2, NEW c2 \in Codings,
         n1 \notin {"version", "type"}, n2 \notin {"version", "type"}, n1 # n2
  PROVE  LaidOut(<< <<n1, c1>>, <<n2, c2>> >>)
<1> DEFINE l == << <<n1, c1>>, <<n2, c2>> >>
<1>1. Len(l) = 2 /\ DOMAIN l = 1 .. 2 /\ l[1] = <<n1, c1>> /\ l[2] = <<n2, c2>>
  OBVIOUS
<1> HIDE DEF l
<1>2. LaidOut(l)
  BY <1>1 DEF LaidOut
<1> QED
  BY <1>2 DEF l

\* No layout has two fields of one name.
LEMMA LayoutsInOrder == \A type \in Types : LaidOut(Layout[type])
<1>0. {"u8", "u16", "u32", "u64", "identifier", "rectangle", "text"} \subseteq Codings
  BY DEF Codings
<1>1. LaidOut(Layout["Ping"]) /\ LaidOut(Layout["Pong"])
  BY <1>0, LayoutsAre, LaidOutOne
<1>2. LaidOut(Layout["Hide"]) /\ LaidOut(Layout["Cancelled"]) /\ LaidOut(Layout["Selected"])
  BY <1>0, LayoutsAre, LaidOutTwo
<1>3. LaidOut(Layout["Welcome"])
  <2> DEFINE l == Layout["Welcome"]
  <2>1. /\ Len(l) = 3 /\ DOMAIN l = 1 .. 3 /\ l[1] = <<"selectedVersion", "u16">>
        /\ l[2] = <<"nonce", "u64">> /\ l[3] = <<"capabilities", "u32">>
    BY LayoutsAre
  <2> HIDE DEF l
  <2>2. LaidOut(l)
    BY <1>0, <2>1 DEF LaidOut
  <2> QED
    BY <2>2 DEF l
<1>4. LaidOut(Layout["Hello"])
  <2> DEFINE l == Layout["Hello"]
  <2>1. /\ Len(l) = 4 /\ DOMAIN l = 1 .. 4 /\ l[1] = <<"minimumVersion", "u16">>
        /\ l[2] = <<"maximumVersion", "u16">> /\ l[3] = <<"nonce", "u64">>
        /\ l[4] = <<"capabilities", "u32">>
    BY LayoutsAre
  <2> HIDE DEF l
  <2>2. LaidOut(l)
    BY <1>0, <2>1 DEF LaidOut
  <2> QED
    BY <2>2 DEF l
<1>5. LaidOut(Layout["Command"])
  <2> DEFINE l == Layout["Command"]
  <2>1. /\ Len(l) = 4 /\ DOMAIN l = 1 .. 4 /\ l[1] = <<"transaction", "identifier">>
        /\ l[2] = <<"sequence", "u32">> /\ l[3] = <<"kind", "u8">>
        /\ l[4] = <<"text", "text">>
    BY LayoutsAre
  <2> HIDE DEF l
  <2>2. LaidOut(l)
    BY <1>0, <2>1 DEF LaidOut
  <2> QED
    BY <2>2 DEF l
<1>6. LaidOut(Layout["Show"])
  <2> DEFINE l == Layout["Show"]
  <2>1. /\ Len(l) = 6 /\ DOMAIN l = 1 .. 6 /\ l[1] = <<"transaction", "identifier">>
        /\ l[2] = <<"caret", "rectangle">> /\ l[3] = <<"screen", "rectangle">>
        /\ l[4] = <<"locale", "u8">> /\ l[5] = <<"scalePercent", "u16">>
        /\ l[6] = <<"closeAfterSelection", "u8">>
    BY LayoutsAre
  <2> HIDE DEF l
  <2>2. LaidOut(l)
    BY <1>0, <2>1 DEF LaidOut
  <2> QED
    BY <2>2 DEF l
<1> QED
  BY <1>1, <1>2, <1>3, <1>4, <1>5, <1>6 DEF Types

(*****************************************************************************)
(* A payload that is written is read field by field (readPayload).          *)
(*****************************************************************************)

\* What is read before the first field.
Begun(type, bytes) ==
  [ok |-> TRUE, rest |-> bytes, fields |-> [version |-> ProtocolVersion, type |-> type]]

\* r holds what is read after each field.
Reads(r, type, bytes) ==
  /\ r[0] = Begun(type, bytes)
  /\ \A i \in 1 .. Len(Layout[type]) : r[i] = ReadField(r[i - 1], Layout[type][i])

\* ReadFields reads one field after the other.
LEMMA ReadFieldsIs ==
  ASSUME NEW type \in Types, NEW bytes
  PROVE  \E r : Reads(r, type, bytes) /\ ReadFields(type, bytes) = r[Len(Layout[type])]
<1> DEFINE N == Len(Layout[type])
           Is(f, n) ==
             f = [i \in 0 .. n |->
                    IF i = 0 THEN [ok |-> TRUE, rest |-> bytes,
                                   fields |-> [version |-> ProtocolVersion, type |-> type]]
                    ELSE ReadField(f[i - 1], Layout[type][i])]
           T == {n \in 0 .. N : \E f : Is(f, n)}
           read == CHOOSE f : Is(f, N)
<1>0. N \in Nat
  BY LayoutsInOrder DEF LaidOut
<1>1. 0 \in T
  <2> DEFINE f == [i \in 0 .. 0 |-> Begun(type, bytes)]
  <2>1. Is(f, 0)
    BY DEF Begun
  <2> HIDE DEF f, Is
  <2>2. \E g : Is(g, 0)
    BY <2>1
  <2> QED
    BY <1>0, <2>2
<1>2. ASSUME NEW n \in 0 .. N - 1, n \in T PROVE n + 1 \in T
  <2>1. PICK f : Is(f, n)
    BY <1>2
  <2> DEFINE last == ReadField(f[n], Layout[type][n + 1])
             g == [i \in 0 .. n + 1 |-> IF i <= n THEN f[i] ELSE last]
  <2>2. n \in Nat /\ n + 1 \in 0 .. N
    BY <1>0
  <2> HIDE DEF last
  <2>3. g[0] = Begun(type, bytes)
    BY <2>1, <2>2 DEF Begun
  <2>4. ASSUME NEW i \in 1 .. n + 1 PROVE g[i] = ReadField(g[i - 1], Layout[type][i])
    <3>1. CASE i <= n
      <4>1. i \in 0 .. n /\ i - 1 \in 0 .. n /\ i # 0
        BY <2>2, <3>1
      <4>2. f[i] = ReadField(f[i - 1], Layout[type][i])
        BY <2>1, <4>1
      <4>3. g[i] = f[i] /\ g[i - 1] = f[i - 1]
        BY <2>2, <4>1
      <4> QED
        BY <4>2, <4>3
    <3>2. CASE i = n + 1
      <4>1. g[n + 1] = last /\ g[n] = f[n] /\ i - 1 = n
        BY <2>2, <3>2
      <4> QED
        BY <3>2, <4>1 DEF last
    <3> QED
      BY <2>2, <3>1, <3>2
  <2>5. g = [i \in 0 .. n + 1 |-> g[i]]
    OBVIOUS
  <2> HIDE DEF g
  <2>6. g = [i \in 0 .. n + 1 |->
               IF i = 0 THEN Begun(type, bytes) ELSE ReadField(g[i - 1], Layout[type][i])]
    <3>1. \A i \in 0 .. n + 1 :
            g[i] = IF i = 0 THEN Begun(type, bytes) ELSE ReadField(g[i - 1], Layout[type][i])
      BY <2>2, <2>3, <2>4
    <3> QED
      BY <2>5, <3>1
  <2>7. Is(g, n + 1)
    BY <2>6 DEF Begun
  <2> HIDE DEF Is
  <2>8. \E h : Is(h, n + 1)
    BY <2>7
  <2> QED
    BY <2>2, <2>8
<1> HIDE DEF T
<1>3. \A n \in 0 .. N : n \in T
  BY <1>0, <1>1, <1>2, InductionUpTo
<1>4. \E f : Is(f, N)
  BY <1>0, <1>3 DEF T
<1>5. Is(read, N)
  <2> HIDE DEF Is, N
  <2> QED
    BY <1>4
<1>6. ReadFields(type, bytes) = read[N]
  BY DEF ReadFields
<1> HIDE DEF read
<1>7. Reads(read, type, bytes)
  <2>1. read[0] = Begun(type, bytes)
    BY <1>0, <1>5 DEF Begun
  <2>2. ASSUME NEW i \in 1 .. N PROVE read[i] = ReadField(read[i - 1], Layout[type][i])
    <3>1. i \in 0 .. N /\ i # 0
      BY <1>0
    <3> QED
      BY <1>5, <3>1
  <2> QED
    BY <2>1, <2>2 DEF Reads
<1> QED
  BY <1>6, <1>7

\* What is known after one field more.
LEMMA ReadFieldGoesOn ==
  ASSUME NEW rest, NEW fields, NEW name, NEW coding
  PROVE  LET size == SizeIn(coding, rest)
             read == [ok |-> TRUE, rest |-> rest, fields |-> fields]
         IN /\ Len(rest) < size
                 => ~ReadField(read, <<name, coding>>).ok
            /\ ~(Len(rest) < size)
                 => ReadField(read, <<name, coding>>) =
                      [ok |-> TRUE, rest |-> SubSeq(rest, size + 1, Len(rest)),
                       fields |-> WithField(fields, name, Value(coding, SubSeq(rest, 1, size)))]
<1> DEFINE read == [ok |-> TRUE, rest |-> rest, fields |-> fields]
           field == <<name, coding>>
           size == SizeIn(coding, rest)
           more == WithField(fields, name, Value(coding, SubSeq(rest, 1, size)))
<1>1. /\ read.ok = TRUE /\ read.rest = rest /\ read.fields = fields
      /\ field[1] = name /\ field[2] = coding
  OBVIOUS
<1>2. ReadField(read, field) =
        IF ~read.ok \/ Len(read.rest) < SizeIn(field[2], read.rest) THEN [read EXCEPT !.ok = FALSE]
        ELSE [ok |-> TRUE,
              rest |-> SubSeq(read.rest, SizeIn(field[2], read.rest) + 1, Len(read.rest)),
              fields |-> WithField(read.fields, field[1],
                Value(field[2], SubSeq(read.rest, 1, SizeIn(field[2], read.rest))))]
  BY DEF ReadField
<1> HIDE DEF field
<1>3. ASSUME Len(rest) < size PROVE ~ReadField(read, field).ok
  <2>1. ReadField(read, field) = [read EXCEPT !.ok = FALSE]
    BY <1>1, <1>2, <1>3
  <2> QED
    BY <2>1
<1>4. ASSUME ~(Len(rest) < size)
      PROVE  ReadField(read, field) =
               [ok |-> TRUE, rest |-> SubSeq(rest, size + 1, Len(rest)), fields |-> more]
  BY Zenon, <1>1, <1>2, <1>4
<1> QED
  BY <1>3, <1>4 DEF field

\* The parts of a payload.
WrittenFields(e) ==
  [i \in 1 .. Len(Layout[e.type]) |-> Written(Layout[e.type][i][2], e[Layout[e.type][i][1]])]

\* The fields of an envelope that are read before a number of them is.
Until(e, n) ==
  [f \in {"version", "type"} \cup {Layout[e.type][i][1] : i \in 1 .. n} |-> e[f]]

\* The bytes of the fields after the first n.
Remaining(parts, n) == FlattenSeq(SubSeq(parts, n + 1, Len(parts)))

\* An envelope is its version, its type and the fields of its layout.
LEMMA EnvelopeIs ==
  ASSUME NEW e, IsEnvelope(e)
  PROVE  /\ e.type \in Types /\ LaidOut(Layout[e.type])
         /\ e = Until(e, Len(Layout[e.type]))
         /\ \A i \in 1 .. Len(Layout[e.type]) :
              e[Layout[e.type][i][1]] \in Values(Layout[e.type][i][2])
<1>1. e.type \in Types
  BY LayoutsAre DEF IsEnvelope
<1>2. LaidOut(Layout[e.type])
  BY <1>1, LayoutsInOrder
<1>3. DOMAIN Layout[e.type] = 1 .. Len(Layout[e.type])
  BY <1>2 DEF LaidOut
<1> QED
  BY <1>1, <1>2, <1>3 DEF IsEnvelope, Until

\* A payload is its fields, each as it is written.
LEMMA PartsAre ==
  ASSUME NEW e, IsEnvelope(e)
  PROVE  /\ WrittenFields(e) \in Seq(Seq(Byte)) /\ Len(WrittenFields(e)) = Len(Layout[e.type])
         /\ Payload(e) = FlattenSeq(WrittenFields(e)) /\ Payload(e) \in Seq(Byte)
         /\ \A i \in 1 .. Len(Layout[e.type]) :
              FieldIs(Layout[e.type][i][2], e[Layout[e.type][i][1]], WrittenFields(e)[i])
<1> DEFINE L == Layout[e.type]  N == Len(L)  parts == WrittenFields(e)
<1>1. LaidOut(L) /\ \A i \in 1 .. N : e[L[i][1]] \in Values(L[i][2])
  BY EnvelopeIs
<1>2. N \in Nat /\ DOMAIN L = 1 .. N /\ \A i \in 1 .. N : L[i][2] \in Codings
  BY <1>1 DEF LaidOut
<1>3. \A i \in 1 .. N : parts[i] = Written(L[i][2], e[L[i][1]])
  BY DEF WrittenFields
<1>4. Payload(e) = FlattenSeq(parts)
  BY <1>2 DEF Payload, WrittenFields
<1>5. parts = [i \in 1 .. N |-> parts[i]]
  BY DEF WrittenFields
<1> HIDE DEF parts, L, N
<1>6. \A i \in 1 .. N : FieldIs(L[i][2], e[L[i][1]], parts[i])
  BY <1>1, <1>2, <1>3, FieldWritten
<1>7. \A i \in 1 .. N : parts[i] \in Seq(Byte)
  BY <1>6 DEF FieldIs
<1>8. parts \in Seq(Seq(Byte)) /\ Len(parts) = N
  BY <1>2, <1>5, <1>7
<1>9. FlattenSeq(parts) \in Seq(Byte)
  BY <1>8, FlattenInSeq
<1> QED
  BY <1>4, <1>6, <1>8, <1>9 DEF parts, L, N

\* One field more.
LEMMA OneMore ==
  ASSUME NEW e, IsEnvelope(e), NEW n \in Nat, n + 1 <= Len(Layout[e.type])
  PROVE  WithField(Until(e, n), Layout[e.type][n + 1][1], e[Layout[e.type][n + 1][1]])
           = Until(e, n + 1)
<1> DEFINE L == Layout[e.type]  name == L[n + 1][1]
           D(k) == {"version", "type"} \cup {L[i][1] : i \in 1 .. k}
<1>1. D(n + 1) = D(n) \cup {name}
  <2>1. \A i \in 1 .. n + 1 : i = n + 1 \/ i \in 1 .. n
    OBVIOUS
  <2>2. \A i \in 1 .. n : i \in 1 .. n + 1
    OBVIOUS
  <2>3. n + 1 \in 1 .. n + 1
    OBVIOUS
  <2> HIDE DEF L
  <2> QED
    BY <2>1, <2>2, <2>3
<1> HIDE DEF L, name
<1>2. /\ DOMAIN Until(e, n) = D(n)
      /\ \A f \in D(n) : Until(e, n)[f] = e[f]
  BY DEF Until, L
<1>3. Until(e, n + 1) = [f \in D(n + 1) |-> e[f]]
  BY DEF Until, L
<1> HIDE DEF D
<1>4. WithField(Until(e, n), name, e[name])
        = [f \in D(n) \cup {name} |-> IF f = name THEN e[name] ELSE Until(e, n)[f]]
  BY <1>2 DEF WithField
<1>5. \A f \in D(n) \cup {name} : (IF f = name THEN e[name] ELSE Until(e, n)[f]) = e[f]
  BY <1>2
<1>6. WithField(Until(e, n), name, e[name]) = [f \in D(n) \cup {name} |-> e[f]]
  BY <1>4, <1>5
<1> QED
  BY <1>1, <1>3, <1>6 DEF L, name

\* What remains is one field and what remains after it.
LEMMA RemainingIs ==
  ASSUME NEW parts \in Seq(Seq(Byte)), NEW n \in Nat, n + 1 <= Len(parts)
  PROVE  /\ Remaining(parts, n) = parts[n + 1] \o Remaining(parts, n + 1)
         /\ Remaining(parts, n + 1) \in Seq(Byte) /\ parts[n + 1] \in Seq(Byte)
<1>1. n + 1 \in 1 .. Len(parts) /\ Len(parts) \in n + 1 .. Len(parts)
  OBVIOUS
<1>2. SubSeq(parts, n + 1, Len(parts)) = <<parts[n + 1]>> \o SubSeq(parts, n + 1 + 1, Len(parts))
  BY <1>1, SubSeqRecursiveFirst
<1>3. SubSeq(parts, n + 1 + 1, Len(parts)) \in Seq(Seq(Byte))
  <2>1. n + 1 \in 0 .. Len(parts)
    OBVIOUS
  <2> QED
    BY <2>1, Halves
<1>4. parts[n + 1] \in Seq(Byte)
  BY <1>1
<1> DEFINE s == SubSeq(parts, n + 1 + 1, Len(parts))
<1>5. /\ FlattenSeq(<<parts[n + 1]>> \o s) = parts[n + 1] \o FlattenSeq(s)
      /\ FlattenSeq(s) \in Seq(Byte)
  <2> HIDE DEF s
  <2> QED
    BY <1>3, <1>4, FlattenBefore, FlattenInSeq DEF s
<1> QED
  BY <1>2, <1>4, <1>5 DEF Remaining

\* All fields remain at first, and none in the end.
LEMMA RemainingEnds ==
  ASSUME NEW parts \in Seq(Seq(Byte))
  PROVE  Remaining(parts, 0) = FlattenSeq(parts) /\ Remaining(parts, Len(parts)) = <<>>
<1>1. SubSeq(parts, 0 + 1, Len(parts)) = parts
  BY SubSeqFull
<1>2. SubSeq(parts, Len(parts) + 1, Len(parts)) = <<>>
  <2>1. Len(parts) + 1 \in Int /\ Len(parts) \in Int /\ Len(parts) < Len(parts) + 1
    OBVIOUS
  <2> QED
    BY <2>1, SubSeqEmpty
<1> QED
  BY <1>1, <1>2, FlattenOfNothing DEF Remaining

\* All that is written is read again.
LEMMA FieldsAreRead ==
  ASSUME NEW e, IsEnvelope(e), e.version = ProtocolVersion
  PROVE  ReadFields(e.type, Payload(e)) = [ok |-> TRUE, rest |-> <<>>, fields |-> e]
<1> DEFINE L == Layout[e.type]  N == Len(L)  parts == WrittenFields(e)
           Is(n) == [ok |-> TRUE, rest |-> Remaining(parts, n), fields |-> Until(e, n)]
<1>1. /\ e.type \in Types /\ LaidOut(L) /\ e = Until(e, N)
  BY EnvelopeIs
<1>2. /\ N \in Nat /\ parts \in Seq(Seq(Byte)) /\ Len(parts) = N
      /\ Payload(e) = FlattenSeq(parts)
      /\ \A i \in 1 .. N : FieldIs(L[i][2], e[L[i][1]], parts[i])
  BY <1>1, PartsAre DEF LaidOut
<1>3. PICK r : Reads(r, e.type, Payload(e)) /\ ReadFields(e.type, Payload(e)) = r[N]
  BY <1>1, ReadFieldsIs
<1> DEFINE T == {n \in 0 .. N : r[n] = Is(n)}
<1>4. 0 \in T
  <2>1. Until(e, 0) = [version |-> ProtocolVersion, type |-> e.type]
    <3>1. {L[i][1] : i \in 1 .. 0} = {}
      OBVIOUS
    <3>2. Until(e, 0) = [f \in {"version", "type"} |-> e[f]]
      BY <3>1 DEF Until
    <3>3. e["version"] = ProtocolVersion /\ e["type"] = e.type
      OBVIOUS
    <3> QED
      BY <3>2, <3>3
  <2>2. r[0] = Begun(e.type, Payload(e))
    BY <1>3 DEF Reads
  <2>3. Payload(e) = Remaining(parts, 0)
    BY <1>2, RemainingEnds
  <2> HIDE DEF parts, L, N
  <2>4. r[0] = Is(0)
    BY <2>1, <2>2, <2>3 DEF Begun
  <2> QED
    BY <1>2, <2>4
<1>5. ASSUME NEW n \in 0 .. N - 1, n \in T PROVE n + 1 \in T
  <2> DEFINE name == L[n + 1][1]  coding == L[n + 1][2]
             w == parts[n + 1]  rest == Remaining(parts, n)  next == Remaining(parts, n + 1)
             size == SizeIn(coding, rest)
  <2> HIDE DEF parts, N
  <2>1. n \in Nat /\ n + 1 \in 1 .. N /\ n + 1 <= N /\ (n + 1) - 1 = n /\ n + 1 \in 0 .. N
    BY <1>2
  <2>2. rest = w \o next /\ next \in Seq(Byte) /\ w \in Seq(Byte)
    BY <1>2, <2>1, RemainingIs
  <2>3. FieldIs(coding, e[name], w)
    BY <1>2, <2>1
  <2>4. r[n] = [ok |-> TRUE, rest |-> rest, fields |-> Until(e, n)]
    BY <1>5
  <2>5. r[n + 1] = ReadField(r[n], L[n + 1])
    BY <1>3, <2>1 DEF Reads, N
  <2>6. L[n + 1] = <<name, coding>>
    BY <1>1, <2>1 DEF LaidOut, N
  <2>7. WithField(Until(e, n), name, e[name]) = Until(e, n + 1)
    BY <2>1, OneMore DEF N
  <2> HIDE DEF L, name, coding, w, rest, next
  <2>8. Consists(w \o next, w, next)
    BY <2>2, ConsistsOf
  <2>9. size = Len(w) /\ Value(coding, w) = e[name]
    BY <2>2, <2>3 DEF FieldIs
  <2>10. /\ Len(rest) = Len(w) + Len(next) /\ SubSeq(rest, 1, Len(w)) = w
         /\ SubSeq(rest, Len(w) + 1, Len(rest)) = next
    BY <2>2, <2>8 DEF Consists
  <2>11. Len(w) \in Nat /\ Len(next) \in Nat
    BY <2>2
  <2> HIDE DEF size
  <2>12. ~(Len(rest) < size)
    BY <2>9, <2>10, <2>11
  <2>13. r[n + 1] = ReadField([ok |-> TRUE, rest |-> rest, fields |-> Until(e, n)],
                              <<name, coding>>)
    BY <2>4, <2>5, <2>6
  <2>14. ReadField([ok |-> TRUE, rest |-> rest, fields |-> Until(e, n)], <<name, coding>>)
           = [ok |-> TRUE, rest |-> SubSeq(rest, size + 1, Len(rest)),
              fields |-> WithField(Until(e, n), name, Value(coding, SubSeq(rest, 1, size)))]
    BY <2>12, ReadFieldGoesOn DEF size
  <2>15. r[n + 1] = [ok |-> TRUE, rest |-> next, fields |-> Until(e, n + 1)]
    BY <2>7, <2>9, <2>10, <2>13, <2>14
  <2> QED
    BY <2>1, <2>15 DEF next
<1> HIDE DEF T, Is, N, parts, L
<1>6. \A n \in 0 .. N : n \in T
  BY <1>2, <1>4, <1>5, InductionUpTo
<1>7. r[N] = Is(N)
  BY <1>2, <1>6 DEF T
<1>8. Remaining(parts, N) = <<>>
  BY <1>2, RemainingEnds
<1> QED
  BY <1>1, <1>3, <1>7, <1>8 DEF Is

(*****************************************************************************)
(* Frames: the header and the payload (serialize, parse).                   *)
(*****************************************************************************)

\* The header serialize writes.
HeaderOf(number, length) ==
  Magic \o U16(ProtocolVersion) \o <<number, 0>> \o U32(length)

\* The numbers of the message types.
LEMMA NumbersAre ==
  /\ Len(MessageTypes) = 9 /\ DOMAIN MessageTypes = 1 .. 9
  /\ \A i \in 1 .. 9 : MessageTypes[i] \in Types /\ NumberOf(MessageTypes[i]) = i
  /\ \A type \in Types : NumberOf(type) \in 1 .. 9 /\ MessageTypes[NumberOf(type)] = type
<1>1. Len(MessageTypes) = 9 /\ DOMAIN MessageTypes = 1 .. 9
  BY DEF MessageTypes
<1>2. \A i \in 1 .. 9 : MessageTypes[i] \in Types
  BY DEF MessageTypes, Types
<1>3. \A i, j \in 1 .. 9 : MessageTypes[i] = MessageTypes[j] => i = j
  BY DEF MessageTypes
<1>4. \A type \in Types : \E i \in 1 .. 9 : MessageTypes[i] = type
  BY DEF MessageTypes, Types
<1>5. ASSUME NEW type, NEW i \in 1 .. 9, MessageTypes[i] = type
      PROVE  NumberOf(type) = i
  BY <1>1, <1>3, <1>5 DEF NumberOf
<1> QED
  BY <1>1, <1>2, <1>4, <1>5

\* The bytes of the version.
LEMMA VersionIs == U16(ProtocolVersion) = <<0, 1>>
<1>1. 0 \in Byte /\ 1 \in Byte /\ 256 * 0 + 1 = 1
  BY BytesAre
<1>2. U16(256 * 0 + 1) = <<0, 1>>
  <2>1. \A a \in Byte, b \in Byte : U16(256 * a + b) = <<a, b>>
    BY U16Of
  <2> QED
    BY Zenon, <1>1, <2>1
<1> QED
  BY Zenon, <1>1, <1>2 DEF ProtocolVersion

\* The bytes of the magic number.
LEMMA MagicIs == Magic \in Seq(Byte) /\ Len(Magic) = 4
<1>1. 69 \in Byte /\ 80 \in Byte /\ 65 \in Byte /\ 76 \in Byte
  BY BytesAre
<1> QED
  BY <1>1 DEF Magic

\* The parts of a header are where parse looks for them.
HeaderParts(h, number, length) ==
  /\ h \in Seq(Byte) /\ Len(h) = 12
  /\ SubSeq(h, 1, 4) = Magic /\ SubSeq(h, 5, 6) = U16(ProtocolVersion)
  /\ h[7] = number /\ h[8] = 0 /\ SubSeq(h, 9, 12) = U32(length)

\* A header that is written is one.
LEMMA HeaderIs ==
  ASSUME NEW number \in Byte, NEW length \in Coordinates
  PROVE  HeaderParts(HeaderOf(number, length), number, length)
<1> DEFINE v == U16(ProtocolVersion)  n == <<number, 0>>  l == U32(length)
           p == Magic \o v  q == p \o n  h == q \o l
<1>0. 0 \in Byte /\ 1 \in Byte
  BY BytesAre
<1>1. v \in Seq(Byte) /\ Len(v) = 2
  BY <1>0, VersionIs, BytesInSeq
<1>2. n \in Seq(Byte) /\ Len(n) = 2 /\ n[1] = number /\ n[2] = 0
  BY <1>0, BytesInSeq
<1>3. l \in Seq(Byte) /\ Len(l) = 4
  BY U32Word
<1>4. HeaderOf(number, length) = h
  BY DEF HeaderOf
<1>5. Consists(p, Magic, v)
  BY <1>1, MagicIs, ConsistsOf
<1> HIDE DEF v, n, l
<1>6. p \in Seq(Byte) /\ Len(p) = 6 /\ SubSeq(p, 1, 4) = Magic /\ SubSeq(p, 5, 6) = v
  <2>1. Len(Magic) + 1 = 5 /\ Len(Magic) + Len(v) = 6
    BY <1>1, MagicIs
  <2> QED
    BY <1>5, <2>1, MagicIs DEF Consists
<1> HIDE DEF p
<1>7. Consists(q, p, n)
  BY <1>2, <1>6, ConsistsOf
<1>8. q \in Seq(Byte) /\ Len(q) = 8
  BY <1>2, <1>6, <1>7 DEF Consists
<1>9. q[7] = number /\ q[8] = 0
  <2>0. p \in Seq(Byte) /\ n \in Seq(Byte)
    BY <1>2, <1>6
  <2>1. \A i \in 1 .. Len(p) + Len(n) : q[i] = IF i <= Len(p) THEN p[i] ELSE n[i - Len(p)]
    BY <2>0, ConcatProperties
  <2> HIDE DEF q
  <2>2. /\ 7 \in 1 .. Len(p) + Len(n) /\ 8 \in 1 .. Len(p) + Len(n)
        /\ ~(7 <= Len(p)) /\ ~(8 <= Len(p)) /\ 7 - Len(p) = 1 /\ 8 - Len(p) = 2
    BY <1>2, <1>6
  <2> QED
    BY Zenon, <1>2, <2>1, <2>2
<1>10. SubSeq(q, 1, 4) = Magic /\ SubSeq(q, 5, 6) = v
  <2>1. /\ 1 \in Int /\ 4 \in Int /\ 5 \in Int /\ 6 \in Int /\ 1 <= 1 /\ 1 <= 4 /\ 1 <= 5 /\ 5 <= 6
        /\ 4 <= Len(p) /\ 6 <= Len(p)
    BY <1>6
  <2>2. PieceOfFirst(p, n, 1, 4) /\ PieceOfFirst(p, n, 5, 6)
    BY Zenon, <1>2, <1>6, <2>1, Pieces
  <2> QED
    BY <1>6, <2>2 DEF PieceOfFirst
<1> HIDE DEF q
<1>11. Consists(h, q, l)
  BY <1>3, <1>8, ConsistsOf
<1>12. h \in Seq(Byte) /\ Len(h) = 12 /\ SubSeq(h, 9, 12) = l
  <2>1. Len(q) + 1 = 9 /\ Len(q) + Len(l) = 12
    BY <1>3, <1>8
  <2> QED
    BY <1>11, <2>1 DEF Consists
<1>13. SubSeq(h, 1, 4) = Magic /\ SubSeq(h, 5, 6) = v
  <2>1. /\ 1 \in Int /\ 4 \in Int /\ 5 \in Int /\ 6 \in Int /\ 1 <= 1 /\ 1 <= 4 /\ 1 <= 5 /\ 5 <= 6
        /\ 4 <= Len(q) /\ 6 <= Len(q)
    BY <1>8
  <2>2. PieceOfFirst(q, l, 1, 4) /\ PieceOfFirst(q, l, 5, 6)
    BY Zenon, <1>3, <1>8, <2>1, Pieces
  <2> QED
    BY <1>10, <2>2 DEF PieceOfFirst
<1>14. h[7] = number /\ h[8] = 0
  <2>0. q \in Seq(Byte) /\ l \in Seq(Byte)
    BY <1>3, <1>8
  <2>1. \A i \in 1 .. Len(q) + Len(l) : h[i] = IF i <= Len(q) THEN q[i] ELSE l[i - Len(q)]
    BY <2>0, ConcatProperties
  <2> HIDE DEF h
  <2>2. 7 \in 1 .. Len(q) + Len(l) /\ 8 \in 1 .. Len(q) + Len(l) /\ 7 <= Len(q) /\ 8 <= Len(q)
    BY <1>3, <1>8
  <2> QED
    BY Zenon, <1>9, <2>1, <2>2
<1> HIDE DEF h
<1>15. HeaderParts(h, number, length)
  BY <1>12, <1>13, <1>14 DEF HeaderParts, v, l
<1> QED
  BY <1>4, <1>15

\* And there is no other header.
LEMMA HeaderOnly ==
  ASSUME NEW h \in Seq(Byte), NEW number, NEW length, HeaderParts(h, number, length)
  PROVE  h = HeaderOf(number, length)
<1> DEFINE a == SubSeq(h, 1, 4)  b == SubSeq(h, 5, 6)  c == SubSeq(h, 7, 8)  d == SubSeq(h, 9, 12)
<1>1. /\ Len(h) = 12 /\ a = Magic /\ b = U16(ProtocolVersion)
      /\ h[7] = number /\ h[8] = 0 /\ d = U32(length)
  BY DEF HeaderParts
<1>2. c = <<number, 0>>
  <2>1. \A i \in 7 .. 8 : h[i] \in Byte
    <3>1. \A i \in Int : 1 <= i /\ i <= Len(h) => h[i] \in Byte
      OBVIOUS
    <3>2. \A i \in 7 .. 8 : i \in Int /\ 1 <= i /\ i <= Len(h)
      BY <1>1
    <3> QED
      BY <3>1, <3>2
  <2>2. c \in Seq(Byte) /\ Len(c) = 2 /\ c[1] = h[7] /\ c[2] = h[8]
    BY <2>1, SubSeqProperties
  <2> HIDE DEF c
  <2>3. PICK x \in Byte, y \in Byte : c = <<x, y>>
    BY <2>2, Elements
  <2> QED
    BY <1>1, <2>2, <2>3
<1>3. /\ 1 \in 1 .. Len(h) + 1 /\ 4 \in 1 - 1 .. Len(h) /\ 6 \in 4 .. Len(h) /\ 4 + 1 = 5
      /\ 6 \in 1 - 1 .. Len(h) /\ 8 \in 6 .. Len(h) /\ 6 + 1 = 7
      /\ 8 \in 1 - 1 .. Len(h) /\ 12 \in 8 .. Len(h) /\ 8 + 1 = 9
  BY <1>1
<1>4. SubSeq(h, 1, 4) \o SubSeq(h, 4 + 1, 6) = SubSeq(h, 1, 6)
  BY Zenon, <1>3, ConcatAdjacentSubSeq
<1>5. SubSeq(h, 1, 6) \o SubSeq(h, 6 + 1, 8) = SubSeq(h, 1, 8)
  BY Zenon, <1>3, ConcatAdjacentSubSeq
<1>6. SubSeq(h, 1, 8) \o SubSeq(h, 8 + 1, 12) = SubSeq(h, 1, 12)
  BY Zenon, <1>3, ConcatAdjacentSubSeq
<1>7. SubSeq(h, 1, 12) = h
  BY <1>1, SubSeqFull
<1>8. ((a \o b) \o c) \o d = h
  BY Zenon, <1>3, <1>4, <1>5, <1>6, <1>7
<1> HIDE DEF a, b, c, d
<1> QED
  BY <1>1, <1>2, <1>8 DEF HeaderOf

\* A frame begins with its header and ends with its payload.
Framed(frame, number, payload) ==
  /\ Len(frame) = 12 + Len(payload) /\ SubSeq(frame, 13, Len(frame)) = payload
  /\ SubSeq(frame, 1, 4) = Magic /\ SubSeq(frame, 5, 6) = U16(ProtocolVersion)
  /\ frame[7] = number /\ frame[8] = 0 /\ SubSeq(frame, 9, 12) = U32(Len(payload))

\* A header and a payload make a frame.
LEMMA FramedIs ==
  ASSUME NEW number \in Byte, NEW payload \in Seq(Byte), Len(payload) \in Coordinates
  PROVE  Framed(HeaderOf(number, Len(payload)) \o payload, number, payload)
<1> DEFINE length == Len(payload)  h == HeaderOf(number, length)  frame == h \o payload
<1>1. HeaderParts(h, number, length)
  BY HeaderIs
<1> HIDE DEF h
<1>2. /\ h \in Seq(Byte) /\ Len(h) = 12
      /\ SubSeq(h, 1, 4) = Magic /\ SubSeq(h, 5, 6) = U16(ProtocolVersion)
      /\ h[7] = number /\ h[8] = 0 /\ SubSeq(h, 9, 12) = U32(length)
  BY <1>1 DEF HeaderParts
<1>3. Consists(frame, h, payload)
  BY <1>2, ConsistsOf
<1>4. Len(frame) = 12 + length /\ SubSeq(frame, 13, Len(frame)) = payload
  <2>1. Len(h) + 1 = 13 /\ Len(h) + Len(payload) = 12 + length
    BY <1>2
  <2> QED
    BY <1>2, <1>3, <2>1 DEF Consists
<1>5. /\ SubSeq(frame, 1, 4) = Magic /\ SubSeq(frame, 5, 6) = U16(ProtocolVersion)
      /\ SubSeq(frame, 9, 12) = U32(length)
  <2>1. /\ 1 \in Int /\ 4 \in Int /\ 5 \in Int /\ 6 \in Int /\ 9 \in Int /\ 12 \in Int
        /\ 1 <= 1 /\ 1 <= 4 /\ 1 <= 5 /\ 5 <= 6 /\ 1 <= 9 /\ 9 <= 12
        /\ 4 <= Len(h) /\ 6 <= Len(h) /\ 12 <= Len(h)
    BY <1>2
  <2>2. PieceOfFirst(h, payload, 1, 4) /\ PieceOfFirst(h, payload, 5, 6)
          /\ PieceOfFirst(h, payload, 9, 12)
    BY Zenon, <1>2, <2>1, Pieces
  <2> QED
    BY <1>2, <2>2 DEF PieceOfFirst
<1>6. frame[7] = number /\ frame[8] = 0
  <2>1. \A i \in 1 .. Len(h) + Len(payload) :
          frame[i] = IF i <= Len(h) THEN h[i] ELSE payload[i - Len(h)]
    BY <1>2, ConcatProperties
  <2> HIDE DEF frame
  <2>2. /\ 7 \in 1 .. Len(h) + Len(payload) /\ 8 \in 1 .. Len(h) + Len(payload)
        /\ 7 <= Len(h) /\ 8 <= Len(h)
    BY <1>2
  <2> QED
    BY Zenon, <1>2, <2>1, <2>2
<1> HIDE DEF frame
<1>7. Framed(frame, number, payload)
  BY <1>4, <1>5, <1>6 DEF Framed
<1> QED
  BY <1>7 DEF frame, h

\* The length of every frame is a number the header can hold.
LEMMA SizesFit ==
  /\ MaximumFrameSize \in Nat /\ MaximumFrameSize <= 65536
  /\ \A n \in Nat : n <= MaximumFrameSize => n \in Coordinates
<1>1. MaximumFrameSize \in Nat /\ MaximumFrameSize <= 65536
  BY CodecAssumption
<1> QED
  BY <1>1 DEF Coordinates

\* What serialize makes of an envelope it accepts.
LEMMA SerializeIs ==
  ASSUME NEW e, IsEnvelope(e), Serialize(e) # Nothing
  PROVE  /\ e.version = ProtocolVersion /\ WellFormed(e) /\ Payload(e) \in Seq(Byte)
         /\ Len(Payload(e)) <= MaximumFrameSize - HeaderSize
         /\ Serialize(e) = HeaderOf(NumberOf(e.type), Len(Payload(e))) \o Payload(e)
<1>1. /\ e.version = ProtocolVersion /\ WellFormed(e)
      /\ ~(Len(Payload(e)) > MaximumFrameSize - HeaderSize)
  BY Zenon DEF Serialize
<1>2. Payload(e) \in Seq(Byte)
  BY PartsAre
<1>3. Serialize(e) = HeaderOf(NumberOf(e.type), Len(Payload(e))) \o Payload(e)
  BY Zenon, <1>1 DEF Serialize, HeaderOf
<1>4. Len(Payload(e)) <= MaximumFrameSize - HeaderSize
  <2>1. Len(Payload(e)) \in Int
    BY <1>2
  <2> QED
    BY <1>1, <2>1, SizesFit DEF HeaderSize
<1> QED
  BY <1>1, <1>2, <1>3, <1>4

\* What one peer's serialize accepts, the other's parse reads as it was meant: every
\* envelope of the types of protocol.hpp, with every value of its fields.
THEOREM SentAsRead ==
  ASSUME NEW e, IsEnvelope(e)
  PROVE  ReadAsSent(e)
<1> SUFFICES ASSUME Serialize(e) # Nothing
             PROVE  Parse(Serialize(e)) = IF VersionsAgree(e) THEN e ELSE Rejected
  BY DEF ReadAsSent
<1> DEFINE payload == Payload(e)  number == NumberOf(e.type)  frame == Serialize(e)
<1>1. /\ e.version = ProtocolVersion /\ WellFormed(e) /\ payload \in Seq(Byte)
      /\ Len(payload) <= MaximumFrameSize - HeaderSize
      /\ frame = HeaderOf(number, Len(payload)) \o payload
  BY SerializeIs
<1>2. /\ Len(payload) \in Nat /\ Len(payload) \in Coordinates
      /\ 12 + Len(payload) \in HeaderSize .. MaximumFrameSize
      /\ (12 + Len(payload)) - HeaderSize = Len(payload) /\ HeaderSize + 1 = 13
  <2> HIDE DEF payload
  <2>1. Len(payload) \in Nat
    BY <1>1
  <2>2. Len(payload) <= MaximumFrameSize /\ 12 + Len(payload) <= MaximumFrameSize
    BY <1>1, <2>1, SizesFit DEF HeaderSize
  <2> QED
    BY <2>1, <2>2, SizesFit DEF HeaderSize
<1>3. e.type \in Types
  BY EnvelopeIs
<1>4. number \in Byte /\ number \in DOMAIN MessageTypes /\ MessageTypes[number] = e.type
  <2>1. number \in 1 .. 9 /\ DOMAIN MessageTypes = 1 .. 9 /\ MessageTypes[number] = e.type
    BY <1>3, NumbersAre
  <2>2. number \in Byte
    BY <2>1, BytesAre
  <2> QED
    BY <2>1, <2>2
<1>5. ReadFields(e.type, payload) = [ok |-> TRUE, rest |-> <<>>, fields |-> e]
  BY <1>1, FieldsAreRead
<1> HIDE DEF payload, number
<1>6. Framed(frame, number, payload)
  BY <1>1, <1>2, <1>4, FramedIs
<1> HIDE DEF frame
<1>7. /\ Len(frame) = 12 + Len(payload) /\ SubSeq(frame, 13, Len(frame)) = payload
      /\ SubSeq(frame, 1, 4) = Magic /\ SubSeq(frame, 5, 6) = U16(ProtocolVersion)
      /\ frame[7] = number /\ frame[8] = 0 /\ SubSeq(frame, 9, 12) = U32(Len(payload))
  BY <1>6 DEF Framed
<1>8. /\ Len(frame) \in HeaderSize .. MaximumFrameSize
      /\ SubSeq(frame, 9, 12) = U32(Len(frame) - HeaderSize)
      /\ SubSeq(frame, HeaderSize + 1, Len(frame)) = payload
  BY Zenon, <1>2, <1>7
<1>9. Parse(frame) = ReadPayload(MessageTypes[frame[7]], SubSeq(frame, HeaderSize + 1, Len(frame)))
  BY Zenon, <1>4, <1>7, <1>8 DEF Parse
<1>10. Parse(frame) = ReadPayload(e.type, payload)
  BY Zenon, <1>4, <1>7, <1>8, <1>9
<1>11. ReadPayload(e.type, payload) = IF VersionsAgree(e) THEN e ELSE Rejected
  <2>1. /\ ReadFields(e.type, payload).ok = TRUE /\ ReadFields(e.type, payload).rest = <<>>
        /\ ReadFields(e.type, payload).fields = e
    BY <1>5
  <2> QED
    BY Zenon, <1>1, <2>1 DEF ReadPayload
<1> QED
  BY <1>10, <1>11 DEF frame

(*****************************************************************************)
(* A frame that is read was written so.                                     *)
(*****************************************************************************)

\* The flag of a read is changed, and nothing else.
LEMMA WithOk ==
  ASSUME NEW ok, NEW rest, NEW fields, NEW b
  PROVE  [[ok |-> ok, rest |-> rest, fields |-> fields] EXCEPT !.ok = b]
           = [ok |-> b, rest |-> rest, fields |-> fields]
  OBVIOUS

\* A read that fails, and one that has failed before.
LEMMA ReadFieldFails ==
  ASSUME NEW ok, NEW rest, NEW fields, NEW name, NEW coding,
         ~ok \/ Len(rest) < SizeIn(coding, rest)
  PROVE  ReadField([ok |-> ok, rest |-> rest, fields |-> fields], <<name, coding>>)
           = [ok |-> FALSE, rest |-> rest, fields |-> fields]
<1> DEFINE read == [ok |-> ok, rest |-> rest, fields |-> fields]
           field == <<name, coding>>
<1>1. read.rest = rest /\ read.ok = ok /\ field[2] = coding
  OBVIOUS
<1>2. [read EXCEPT !.ok = FALSE] = [ok |-> FALSE, rest |-> rest, fields |-> fields]
  <2>1. \A b : [read EXCEPT !.ok = b] = [ok |-> b, rest |-> rest, fields |-> fields]
    BY WithOk
  <2> QED
    BY Zenon, <2>1
<1> HIDE DEF read, field
<1>3. ReadField(read, field) = [read EXCEPT !.ok = FALSE]
  BY Zenon, <1>1 DEF ReadField
<1> QED
  BY <1>2, <1>3 DEF read, field

\* The names of the fields up to one of them, and the bytes of these fields.
NamesUntil(type, n) == {"version", "type"} \cup {Layout[type][i][1] : i \in 1 .. n}

\* The bytes of the first n fields as they were read.
BytesUntil(type, fields, n) ==
  [i \in 1 .. n |-> Written(Layout[type][i][2], fields[Layout[type][i][1]])]

\* What is read so far and what is left make up the payload.
Accounted(type, bytes, n, rest, fields) ==
  /\ rest \in Seq(Byte)
  /\ fields = [f \in NamesUntil(type, n) |-> fields[f]]
  /\ fields.version = ProtocolVersion /\ fields.type = type
  /\ \A i \in 1 .. n : fields[Layout[type][i][1]] \in Values(Layout[type][i][2])
  /\ \A i \in 1 .. n : BytesUntil(type, fields, n)[i] \in Seq(Byte)
  /\ FlattenSeq(BytesUntil(type, fields, n)) \o rest = bytes

\* At first all bytes are left.
LEMMA AccountedAtFirst ==
  ASSUME NEW type \in Types, NEW bytes \in Seq(Byte)
  PROVE  Accounted(type, bytes, 0, bytes, [version |-> ProtocolVersion, type |-> type])
<1> DEFINE fields == [version |-> ProtocolVersion, type |-> type]
<1>1. /\ fields.version = ProtocolVersion /\ fields.type = type
      /\ fields = [f \in {"version", "type"} |-> fields[f]]
  OBVIOUS
<1> HIDE DEF fields
<1>2. NamesUntil(type, 0) = {"version", "type"}
  BY DEF NamesUntil
<1>3. BytesUntil(type, fields, 0) = <<>>
  BY DEF BytesUntil
<1>4. FlattenSeq(BytesUntil(type, fields, 0)) \o bytes = bytes
  BY <1>3, FlattenOfNothing, ConcatEmptySeq
<1>5. Accounted(type, bytes, 0, bytes, fields)
  BY <1>1, <1>2, <1>4 DEF Accounted
<1> QED
  BY <1>5 DEF fields

\* Each field that is read accounts for its own bytes.
LEMMA AccountedNext ==
  ASSUME NEW type \in Types, NEW bytes \in Seq(Byte), NEW n \in Nat, n + 1 <= Len(Layout[type]),
         NEW rest, NEW fields, Accounted(type, bytes, n, rest, fields),
         NEW size, size = SizeIn(Layout[type][n + 1][2], rest), ~(Len(rest) < size),
         NEW value, value = Value(Layout[type][n + 1][2], SubSeq(rest, 1, size))
  PROVE  Accounted(type, bytes, n + 1, SubSeq(rest, size + 1, Len(rest)),
                   WithField(fields, Layout[type][n + 1][1], value))
<1> DEFINE L == Layout[type]  name == L[n + 1][1]  coding == L[n + 1][2]
           w == SubSeq(rest, 1, size)  next == SubSeq(rest, size + 1, Len(rest))
           more == WithField(fields, name, value)
           before == BytesUntil(type, fields, n)  after == BytesUntil(type, more, n + 1)
<1>1. LaidOut(L)
  BY LayoutsInOrder
<1>2. /\ name \notin {"version", "type"} /\ coding \in Codings
      /\ \A i \in 1 .. n : L[i][1] # name
  <2>1. n + 1 \in 1 .. Len(L) /\ \A i \in 1 .. n : i \in 1 .. Len(L) /\ i # n + 1
    BY <1>1 DEF LaidOut
  <2> HIDE DEF L
  <2> QED
    BY <1>1, <2>1 DEF LaidOut
<1>3. /\ rest \in Seq(Byte) /\ fields = [f \in NamesUntil(type, n) |-> fields[f]]
      /\ fields.version = ProtocolVersion /\ fields.type = type
      /\ \A i \in 1 .. n : fields[L[i][1]] \in Values(L[i][2])
      /\ \A i \in 1 .. n : before[i] \in Seq(Byte)
      /\ FlattenSeq(before) \o rest = bytes
  BY DEF Accounted
<1>4. NamesUntil(type, n + 1) = NamesUntil(type, n) \cup {name}
  <2>1. \A i \in 1 .. n + 1 : i = n + 1 \/ i \in 1 .. n
    OBVIOUS
  <2>2. \A i \in 1 .. n : i \in 1 .. n + 1
    OBVIOUS
  <2>3. n + 1 \in 1 .. n + 1
    OBVIOUS
  <2> QED
    BY <2>1, <2>2, <2>3 DEF NamesUntil
<1>5. /\ size \in Nat /\ size \in 0 .. Len(rest) /\ SizeIn(coding, rest) <= Len(rest)
      /\ size = SizeIn(coding, rest)
  BY SMTT(60), <1>2, <1>3, SizeIs
<1>6. w \in Seq(Byte) /\ next \in Seq(Byte) /\ w \o next = rest
  BY <1>3, <1>5, Halves
<1>7. ReadBack(coding, SubSeq(rest, 1, SizeIn(coding, rest)))
  BY <1>2, <1>3, <1>5, FieldRead
<1>8. value \in Values(coding) /\ Written(coding, value) = w
  BY <1>5, <1>7 DEF ReadBack
<1> HIDE DEF L, name, coding, w, next
<1>9. /\ more = [f \in NamesUntil(type, n) \cup {name} |-> more[f]]
      /\ more[name] = value
      /\ \A f \in NamesUntil(type, n) : f # name => more[f] = fields[f]
  <2>1. DOMAIN fields = NamesUntil(type, n)
    BY <1>3
  <2> QED
    BY <2>1 DEF WithField
<1>10. \A i \in 1 .. n : L[i][1] \in NamesUntil(type, n)
  BY DEF NamesUntil, L
<1>11. "version" \in NamesUntil(type, n) /\ "type" \in NamesUntil(type, n)
  BY DEF NamesUntil
<1> HIDE DEF more
<1>12. more.version = ProtocolVersion /\ more.type = type
  BY <1>2, <1>3, <1>9, <1>11
<1>13. more = [f \in NamesUntil(type, n + 1) |-> more[f]]
  BY <1>4, <1>9
<1>14. \A i \in 1 .. n : more[L[i][1]] = fields[L[i][1]]
  BY <1>2, <1>9, <1>10
<1>15. \A i \in 1 .. n + 1 : more[L[i][1]] \in Values(L[i][2])
  <2>1. \A i \in 1 .. n + 1 : i = n + 1 \/ i \in 1 .. n
    OBVIOUS
  <2>2. more[L[n + 1][1]] \in Values(L[n + 1][2])
    BY <1>8, <1>9 DEF name, coding
  <2> QED
    BY <1>3, <1>14, <2>1, <2>2
<1>16. before \in Seq(Seq(Byte)) /\ Len(before) = n
  <2>1. before = [i \in 1 .. n |-> before[i]]
    BY DEF BytesUntil
  <2>2. \A i \in 1 .. n : before[i] \in Seq(Byte)
    BY <1>3
  <2> HIDE DEF before
  <2>3. before \in [1 .. n -> Seq(Byte)]
    BY <2>1, <2>2
  <2> QED
    BY <2>3
<1>17. after = Append(before, w)
  <2>1. after = [i \in 1 .. n + 1 |-> after[i]]
    BY DEF BytesUntil
  <2>2. \A i \in 1 .. n : after[i] = Written(L[i][2], more[L[i][1]])
    BY DEF BytesUntil, L
  <2>3. \A i \in 1 .. n : before[i] = Written(L[i][2], fields[L[i][1]])
    BY DEF BytesUntil, L
  <2>4. after[n + 1] = w
    <3>1. n + 1 \in 1 .. n + 1
      OBVIOUS
    <3>2. after[n + 1] = Written(L[n + 1][2], more[L[n + 1][1]])
      BY Zenon, <3>1 DEF BytesUntil, L
    <3>3. after[n + 1] = Written(coding, more[name])
      BY Zenon, <3>2 DEF name, coding
    <3> QED
      BY Zenon, <1>8, <1>9, <3>3
  <2> HIDE DEF before, after
  <2>5. \A i \in 1 .. n : after[i] = before[i]
    BY <1>14, <2>2, <2>3
  <2>6. after \in Seq(Seq(Byte)) /\ Len(after) = n + 1
    <3>1. \A i \in 1 .. n + 1 : i = n + 1 \/ i \in 1 .. n
      OBVIOUS
    <3>2. \A i \in 1 .. n + 1 : after[i] \in Seq(Byte)
      BY <1>3, <1>6, <2>4, <2>5, <3>1
    <3> QED
      BY <2>1, <3>2
  <2>7. /\ Append(before, w) \in Seq(Seq(Byte)) /\ Len(Append(before, w)) = n + 1
        /\ \A i \in 1 .. n : Append(before, w)[i] = before[i]
        /\ Append(before, w)[n + 1] = w
    BY <1>6, <1>16, AppendProperties
  <2>8. \A i \in 1 .. Len(after) : after[i] = Append(before, w)[i]
    <3>1. \A i \in 1 .. n + 1 : i = n + 1 \/ i \in 1 .. n
      OBVIOUS
    <3> QED
      BY <2>4, <2>5, <2>6, <2>7, <3>1
  <2> QED
    BY <2>6, <2>7, <2>8, SeqEqual
<1> HIDE DEF before, after
<1>18. FlattenSeq(after) \o next = bytes
  <2>1. FlattenSeq(before) \in Seq(Byte)
    BY <1>16, FlattenInSeq
  <2>2. FlattenSeq(after) = FlattenSeq(before) \o w
    BY <1>6, <1>16, <1>17, FlattenAfter
  <2>3. (FlattenSeq(before) \o w) \o next = FlattenSeq(before) \o (w \o next)
    <3> DEFINE F == FlattenSeq(before)
    <3>1. F \in Seq(Byte) /\ w \in Seq(Byte) /\ next \in Seq(Byte)
      BY <1>6, <2>1
    <3> HIDE DEF F
    <3>2. (F \o w) \o next = F \o (w \o next)
      BY SMTT(60), <3>1, ConcatAssociative
    <3> QED
      BY <3>2 DEF F
  <2> QED
    BY <1>3, <1>6, <2>2, <2>3
<1>19. \A i \in 1 .. n + 1 : after[i] \in Seq(Byte)
  <2>1. after \in Seq(Seq(Byte)) /\ Len(after) = n + 1
    BY <1>6, <1>16, <1>17, AppendProperties
  <2> QED
    BY <2>1
<1>20. Accounted(type, bytes, n + 1, next, more)
  BY <1>6, <1>12, <1>13, <1>15, <1>18, <1>19 DEF Accounted, L, after
<1> QED
  BY <1>20 DEF next, more, name, L

\* After some fields a read has failed, or it accounts for the payload.
Known(read, type, bytes, n) ==
  \E rest, fields :
    \/ read = [ok |-> FALSE, rest |-> rest, fields |-> fields]
    \/ /\ read = [ok |-> TRUE, rest |-> rest, fields |-> fields]
       /\ Accounted(type, bytes, n, rest, fields)

\* One field more is known by its bytes.
LEMMA KnownNext ==
  ASSUME NEW type \in Types, NEW bytes \in Seq(Byte), NEW n \in Nat, n + 1 <= Len(Layout[type]),
         NEW read, Known(read, type, bytes, n)
  PROVE  Known(ReadField(read, Layout[type][n + 1]), type, bytes, n + 1)
<1> DEFINE name == Layout[type][n + 1][1]  coding == Layout[type][n + 1][2]
           field == Layout[type][n + 1]
<1> SUFFICES Known(ReadField(read, field), type, bytes, n + 1)
  OBVIOUS
<1>1. field = <<name, coding>>
  <2>1. LaidOut(Layout[type]) /\ n + 1 \in 1 .. Len(Layout[type])
    BY LayoutsInOrder DEF LaidOut
  <2> QED
    BY <2>1 DEF LaidOut
<1> HIDE DEF field
<1>2. PICK rest, fields :
        \/ read = [ok |-> FALSE, rest |-> rest, fields |-> fields]
        \/ /\ read = [ok |-> TRUE, rest |-> rest, fields |-> fields]
           /\ Accounted(type, bytes, n, rest, fields)
  BY DEF Known
<1> DEFINE size == SizeIn(coding, rest)
           value == Value(coding, SubSeq(rest, 1, size))
           failed == [ok |-> FALSE, rest |-> rest, fields |-> fields]
<1>3. ASSUME ReadField(read, field) = failed
      PROVE  Known(ReadField(read, field), type, bytes, n + 1)
  BY <1>3 DEF Known
<1>4. CASE read = failed
  <2>1. ReadField(failed, <<name, coding>>) = failed
    <3> HIDE DEF name, coding
    <3>1. \A ok : ~ok => ReadField([ok |-> ok, rest |-> rest, fields |-> fields],
                                   <<name, coding>>) = failed
      BY ReadFieldFails
    <3> QED
      BY Zenon, <3>1
  <2> QED
    BY Zenon, <1>1, <1>3, <1>4, <2>1
<1>5. CASE /\ read = [ok |-> TRUE, rest |-> rest, fields |-> fields]
           /\ Accounted(type, bytes, n, rest, fields)
  <2>1. CASE Len(rest) < size
    <3>1. ReadField([ok |-> TRUE, rest |-> rest, fields |-> fields], <<name, coding>>) = failed
      <4> HIDE DEF name, coding
      <4>1. \A ok : ReadField([ok |-> ok, rest |-> rest, fields |-> fields],
                              <<name, coding>>) = failed
        BY <2>1, ReadFieldFails
      <4> QED
        BY Zenon, <4>1
    <3> QED
      BY Zenon, <1>1, <1>3, <1>5, <3>1
  <2>2. CASE ~(Len(rest) < size)
    <3> DEFINE next == SubSeq(rest, size + 1, Len(rest))  more == WithField(fields, name, value)
    <3>1. ReadField([ok |-> TRUE, rest |-> rest, fields |-> fields], <<name, coding>>)
            = [ok |-> TRUE, rest |-> next, fields |-> more]
      <4> HIDE DEF name, coding
      <4> QED
        BY Zenon, <2>2, ReadFieldGoesOn
    <3>2. Accounted(type, bytes, n + 1, next, more)
      <4> HIDE DEF size, value
      <4>1. size = SizeIn(Layout[type][n + 1][2], rest)
        BY DEF size
      <4>2. value = Value(Layout[type][n + 1][2], SubSeq(rest, 1, size))
        BY DEF value
      <4> HIDE DEF size, value
      <4> QED
        BY Zenon, <1>5, <2>2, <4>1, <4>2, AccountedNext
    <3> HIDE DEF next, more
    <3>3. Known([ok |-> TRUE, rest |-> next, fields |-> more], type, bytes, n + 1)
      BY <3>2 DEF Known
    <3> QED
      BY Zenon, <1>1, <1>5, <3>1, <3>3
  <2> QED
    BY <2>1, <2>2
<1> HIDE DEF failed
<1> QED
  BY <1>2, <1>4, <1>5 DEF failed

\* All fields are known by their bytes.
LEMMA ReadFieldsKnown ==
  ASSUME NEW type \in Types, NEW bytes \in Seq(Byte)
  PROVE  Known(ReadFields(type, bytes), type, bytes, Len(Layout[type]))
<1> DEFINE N == Len(Layout[type])
<1>1. N \in Nat
  BY LayoutsInOrder DEF LaidOut
<1>2. PICK r : Reads(r, type, bytes) /\ ReadFields(type, bytes) = r[N]
  BY ReadFieldsIs
<1> DEFINE T == {n \in 0 .. N : Known(r[n], type, bytes, n)}
<1>3. 0 \in T
  <2>1. r[0] = [ok |-> TRUE, rest |-> bytes,
                fields |-> [version |-> ProtocolVersion, type |-> type]]
    BY <1>2 DEF Reads, Begun
  <2>2. Accounted(type, bytes, 0, bytes, [version |-> ProtocolVersion, type |-> type])
    BY AccountedAtFirst
  <2> DEFINE fields == [version |-> ProtocolVersion, type |-> type]
  <2> HIDE DEF fields
  <2>3. r[0] = [ok |-> TRUE, rest |-> bytes, fields |-> fields]
    BY <2>1 DEF fields
  <2>4. Accounted(type, bytes, 0, bytes, fields)
    BY <2>2 DEF fields
  <2>5. Known(r[0], type, bytes, 0)
    BY <2>3, <2>4 DEF Known
  <2>6. 0 \in 0 .. N
    BY <1>1
  <2> QED
    BY <2>5, <2>6
<1>4. ASSUME NEW n \in 0 .. N - 1, n \in T PROVE n + 1 \in T
  <2>1. n \in Nat /\ n + 1 <= N /\ n + 1 \in 0 .. N /\ n + 1 \in 1 .. N /\ (n + 1) - 1 = n
    BY <1>1
  <2>2. r[n + 1] = ReadField(r[n], Layout[type][n + 1])
    BY <1>2, <2>1 DEF Reads
  <2>3. Known(r[n], type, bytes, n)
    BY <1>4
  <2>4. Known(r[n + 1], type, bytes, n + 1)
    BY <2>1, <2>2, <2>3, KnownNext
  <2> QED
    BY <2>1, <2>4
<1> HIDE DEF T, N
<1>5. \A n \in 0 .. N : n \in T
  BY <1>1, <1>3, <1>4, InductionUpTo
<1>6. Known(r[N], type, bytes, N)
  BY <1>1, <1>5 DEF T
<1> QED
  BY <1>2, <1>6 DEF N

\* A payload that is read whole is the payload of what is read.
LEMMA ReadWhole ==
  ASSUME NEW type \in Types, NEW bytes \in Seq(Byte),
         ReadFields(type, bytes).ok, ReadFields(type, bytes).rest = <<>>
  PROVE  LET e == ReadFields(type, bytes).fields
         IN IsEnvelope(e) /\ e.type = type /\ e.version = ProtocolVersion /\ Payload(e) = bytes
<1> DEFINE N == Len(Layout[type])  read == ReadFields(type, bytes)  e == read.fields
<1> HIDE DEF N, read
<1>1. Known(read, type, bytes, N)
  BY ReadFieldsKnown DEF N, read
<1>2. read.ok /\ read.rest = <<>>
  BY DEF read
<1>3. Accounted(type, bytes, N, <<>>, e)
  <2>1. PICK rest, fields :
          \/ read = [ok |-> FALSE, rest |-> rest, fields |-> fields]
          \/ /\ read = [ok |-> TRUE, rest |-> rest, fields |-> fields]
             /\ Accounted(type, bytes, N, rest, fields)
    BY <1>1 DEF Known
  <2>2. read # [ok |-> FALSE, rest |-> rest, fields |-> fields]
    <3>1. ASSUME read = [ok |-> FALSE, rest |-> rest, fields |-> fields] PROVE FALSE
      <4>1. ~read.ok
        BY <3>1
      <4> QED
        BY <1>2, <4>1
    <3> QED
      BY <3>1
  <2>3. read = [ok |-> TRUE, rest |-> rest, fields |-> fields]
    BY Zenon, <2>1, <2>2
  <2>4. Accounted(type, bytes, N, rest, fields)
    BY Zenon, <2>1, <2>2
  <2>5. read.rest = rest /\ read.fields = fields
    BY <2>3
  <2> QED
    BY Zenon, <1>2, <2>4, <2>5
<1> HIDE DEF e
<1>4. /\ e = [f \in NamesUntil(type, N) |-> e[f]] /\ e.version = ProtocolVersion /\ e.type = type
      /\ \A i \in 1 .. N : e[Layout[type][i][1]] \in Values(Layout[type][i][2])
      /\ FlattenSeq(BytesUntil(type, e, N)) \o <<>> = bytes
      /\ \A i \in 1 .. N : BytesUntil(type, e, N)[i] \in Seq(Byte)
  BY <1>3 DEF Accounted
<1>5. N \in Nat /\ DOMAIN Layout[type] = 1 .. N
  BY LayoutsInOrder DEF LaidOut, N
<1>6. IsEnvelope(e)
  <2>1. e.type \in DOMAIN Layout
    BY <1>4, LayoutsAre
  <2>2. NamesUntil(type, N)
          = {"version", "type"} \cup {Layout[e.type][i][1] : i \in DOMAIN Layout[e.type]}
    BY <1>4, <1>5 DEF NamesUntil
  <2>3. e = [f \in {"version", "type"} \cup
                     {Layout[e.type][i][1] : i \in DOMAIN Layout[e.type]} |-> e[f]]
    BY <1>4, <2>2
  <2>4. \A i \in DOMAIN Layout[e.type] : e[Layout[e.type][i][1]] \in Values(Layout[e.type][i][2])
    BY <1>4, <1>5
  <2> QED
    BY Zenon, <2>1, <2>3, <2>4 DEF IsEnvelope
<1>7. Payload(e) = bytes
  <2>1. Payload(e) = FlattenSeq(BytesUntil(type, e, N))
    BY <1>4, <1>5 DEF Payload, BytesUntil
  <2>2. Payload(e) \in Seq(Byte)
    BY <1>6, PartsAre
  <2>3. Payload(e) \o <<>> = Payload(e)
    BY <2>2, ConcatEmptySeq
  <2> QED
    BY Zenon, <1>4, <2>1, <2>3
<1> QED
  BY <1>4, <1>6, <1>7 DEF e, read

\* What parse has checked of a frame it accepts.
LEMMA ParseIs ==
  ASSUME NEW frame, Parse(frame) # Rejected
  PROVE  LET bytes == SubSeq(frame, HeaderSize + 1, Len(frame))
             type  == MessageTypes[frame[7]]
             e     == Parse(frame)
         IN /\ Len(frame) \in HeaderSize .. MaximumFrameSize
            /\ SubSeq(frame, 1, 4) = Magic /\ SubSeq(frame, 5, 6) = U16(ProtocolVersion)
            /\ frame[7] \in DOMAIN MessageTypes /\ frame[8] = 0
            /\ SubSeq(frame, 9, 12) = U32(Len(frame) - HeaderSize)
            /\ ReadFields(type, bytes).ok /\ ReadFields(type, bytes).rest = <<>>
            /\ e = ReadFields(type, bytes).fields /\ WellFormed(e)
<1> DEFINE bytes == SubSeq(frame, HeaderSize + 1, Len(frame))  type == MessageTypes[frame[7]]
           read == ReadFields(type, bytes)
<1>1. /\ Len(frame) \in HeaderSize .. MaximumFrameSize
      /\ SubSeq(frame, 1, 4) = Magic /\ SubSeq(frame, 5, 6) = U16(ProtocolVersion)
      /\ frame[7] \in DOMAIN MessageTypes /\ frame[8] = 0
      /\ SubSeq(frame, 9, 12) = U32(Len(frame) - HeaderSize)
      /\ Parse(frame) = ReadPayload(type, bytes)
  BY Zenon DEF Parse
<1> HIDE DEF type, bytes
<1>2. /\ read.ok /\ read.rest = <<>> /\ WellFormed(read.fields)
      /\ ReadPayload(type, bytes) = read.fields
  BY Zenon, <1>1 DEF ReadPayload
<1> QED
  BY Zenon, <1>1, <1>2 DEF type, bytes

\* A frame that parse accepts is the one serialize writes for what was read: of all
\* sequences of bytes no two mean the same.
THEOREM ReadAsWritten ==
  ASSUME NEW frame \in Seq(Byte)
  PROVE  OnlyFrame(frame)
<1> SUFFICES ASSUME Parse(frame) # Rejected PROVE Serialize(Parse(frame)) = frame
  BY DEF OnlyFrame
<1> DEFINE n == Len(frame)  number == frame[7]  bytes == SubSeq(frame, 12 + 1, n)
           type == MessageTypes[number]  e == Parse(frame)  h == SubSeq(frame, 1, 12)
<1>1. /\ n \in HeaderSize .. MaximumFrameSize
      /\ SubSeq(frame, 1, 4) = Magic /\ SubSeq(frame, 5, 6) = U16(ProtocolVersion)
      /\ number \in DOMAIN MessageTypes /\ frame[8] = 0
      /\ SubSeq(frame, 9, 12) = U32(n - HeaderSize)
      /\ ReadFields(type, bytes).ok /\ ReadFields(type, bytes).rest = <<>>
      /\ e = ReadFields(type, bytes).fields /\ WellFormed(e)
  <2>1. HeaderSize = 12
    BY DEF HeaderSize
  <2> QED
    BY Zenon, <2>1, ParseIs
<1> HIDE DEF e
<1>2. n \in Nat /\ 12 <= n /\ n <= MaximumFrameSize /\ 12 \in 0 .. n
  BY <1>1, SizesFit DEF HeaderSize
<1>3. type \in Types /\ NumberOf(type) = number
  BY <1>1, NumbersAre
<1>4. /\ h \in Seq(Byte) /\ Len(h) = 12 /\ bytes \in Seq(Byte) /\ Len(bytes) = n - 12
      /\ h \o bytes = frame
  BY <1>2, Halves
<1> HIDE DEF type
<1>5. IsEnvelope(e) /\ e.type = type /\ e.version = ProtocolVersion /\ Payload(e) = bytes
  <2> HIDE DEF bytes
  <2> QED
    BY Zenon, <1>1, <1>3, <1>4, ReadWhole
<1> HIDE DEF bytes, n
<1>6. /\ n - HeaderSize = Len(bytes)
      /\ Len(Payload(e)) <= MaximumFrameSize - HeaderSize
      /\ ~(Len(Payload(e)) > MaximumFrameSize - HeaderSize)
  <2>1. Len(bytes) = n - 12 /\ Payload(e) = bytes
    BY <1>4, <1>5
  <2>2. n - 12 <= MaximumFrameSize - 12
    BY <1>2, SizesFit
  <2> QED
    BY <1>2, <2>1, <2>2, SizesFit DEF HeaderSize
<1>7. HeaderParts(h, number, Len(bytes))
  <2> HIDE DEF h
  <2>1. frame = h \o bytes
    BY <1>4
  <2>2. /\ 1 \in Int /\ 4 \in Int /\ 5 \in Int /\ 6 \in Int /\ 9 \in Int /\ 12 \in Int
        /\ 1 <= 1 /\ 1 <= 4 /\ 1 <= 5 /\ 5 <= 6 /\ 1 <= 9 /\ 9 <= 12
        /\ 4 <= Len(h) /\ 6 <= Len(h) /\ 12 <= Len(h)
    BY <1>4
  <2>3. /\ PieceOfFirst(h, bytes, 1, 4) /\ PieceOfFirst(h, bytes, 5, 6)
        /\ PieceOfFirst(h, bytes, 9, 12)
    BY Zenon, <1>4, <2>2, Pieces
  <2>4. /\ SubSeq(h, 1, 4) = SubSeq(frame, 1, 4) /\ SubSeq(h, 5, 6) = SubSeq(frame, 5, 6)
        /\ SubSeq(h, 9, 12) = SubSeq(frame, 9, 12)
    BY <2>1, <2>3 DEF PieceOfFirst
  <2>5. h[7] = frame[7] /\ h[8] = frame[8]
    <3>1. \A i \in 1 .. Len(h) + Len(bytes) :
            (h \o bytes)[i] = IF i <= Len(h) THEN h[i] ELSE bytes[i - Len(h)]
      BY <1>4, ConcatProperties
    <3>2. /\ 7 \in 1 .. Len(h) + Len(bytes) /\ 8 \in 1 .. Len(h) + Len(bytes)
          /\ 7 <= Len(h) /\ 8 <= Len(h)
      BY <1>4
    <3> QED
      BY Zenon, <2>1, <3>1, <3>2
  <2> QED
    BY Zenon, <1>1, <1>4, <1>6, <2>4, <2>5 DEF HeaderParts
<1>8. h = HeaderOf(number, Len(bytes))
  <2> HIDE DEF h, number
  <2> QED
    BY <1>4, <1>7, HeaderOnly
<1>9. Serialize(e) = HeaderOf(NumberOf(e.type), Len(Payload(e))) \o Payload(e)
  BY Zenon, <1>1, <1>5, <1>6 DEF Serialize, HeaderOf
<1>10. Serialize(e) = h \o bytes
  BY Zenon, <1>3, <1>5, <1>8, <1>9
<1> QED
  BY <1>4, <1>10 DEF e

(*****************************************************************************)
(* The command of a search text.                                            *)
(*****************************************************************************)

\* There is room for a search text in a frame.
LEMMA RoomForSearch ==
  /\ TransactionSize \in Nat /\ 0 < TransactionSize
  /\ MaximumSearchSize \in Nat /\ MaximumSearchSize <= 65535
  /\ TransactionSize + 7 + MaximumSearchSize <= MaximumFrameSize - HeaderSize
<1>1. /\ TransactionSize \in Nat /\ 0 < TransactionSize
      /\ MaximumSearchSize \in Nat
      /\ HeaderSize + TransactionSize + 4 + 1 + 2 + MaximumSearchSize <= MaximumFrameSize
  BY CodecAssumption
<1> QED
  BY <1>1, SizesFit DEF HeaderSize

\* The command of a search text is an envelope.
LEMMA SearchCommandIs ==
  ASSUME search \in SearchTexts
  PROVE  /\ IsEnvelope(SearchCommand) /\ WellFormed(SearchCommand)
         /\ SearchCommand.version = ProtocolVersion /\ SearchCommand.type = "Command"
         /\ SearchCommand.text = search
<1> DEFINE e == SearchCommand  id == [i \in 1 .. TransactionSize |-> 1]  number == <<0, 0, 0, 1>>
<1>1. /\ e.version = ProtocolVersion /\ e.type = "Command" /\ e.transaction = id
      /\ e.sequence = number /\ e.kind = 12 /\ e.text = search
      /\ e = [f \in {"version", "type", "transaction", "sequence", "kind", "text"} |-> e[f]]
  BY DEF SearchCommand, SearchText
<1>2. 0 \in Byte /\ 1 \in Byte /\ 12 \in Byte
  BY BytesAre
<1>3. id \in Seq(Byte) /\ Len(id) = TransactionSize /\ id[1] = 1 /\ 1 \in DOMAIN id
  BY <1>2, RoomForSearch
<1>4. number \in Seq(Byte) /\ Len(number) = 4
  BY <1>2, BytesInSeq
<1>5. search \in Seq(Byte) /\ Decode(search) # Nothing /\ Len(search) <= MaximumSearchSize
      /\ Len(search) \in Nat
  BY DEF SearchTexts
<1> HIDE DEF e, id, number
<1>6. FixedSize["identifier"] = TransactionSize /\ FixedSize["u32"] = 4
  BY DEF FixedSize
<1>7. /\ e.transaction \in Values("identifier") /\ e.sequence \in Values("u32")
      /\ e.kind \in Values("u8") /\ e.text \in Values("text")
  BY <1>1, <1>2, <1>3, <1>4, <1>5, <1>6, RoomForSearch DEF Values
<1>8. IsEnvelope(e)
  <2> DEFINE L == Layout["Command"]
  <2>1. /\ DOMAIN L = 1 .. 4 /\ L[1] = <<"transaction", "identifier">>
        /\ L[2] = <<"sequence", "u32">> /\ L[3] = <<"kind", "u8">> /\ L[4] = <<"text", "text">>
    BY LayoutsAre
  <2> HIDE DEF L
  <2>2. {"version", "type"} \cup {L[i][1] : i \in DOMAIN L}
          = {"version", "type", "transaction", "sequence", "kind", "text"}
    <3>1. /\ L[1][1] = "transaction" /\ L[2][1] = "sequence"
          /\ L[3][1] = "kind" /\ L[4][1] = "text"
      BY <2>1
    <3>2. \A i \in DOMAIN L : i = 1 \/ i = 2 \/ i = 3 \/ i = 4
      BY <2>1
    <3>3. 1 \in DOMAIN L /\ 2 \in DOMAIN L /\ 3 \in DOMAIN L /\ 4 \in DOMAIN L
      BY <2>1
    <3> QED
      BY <3>1, <3>2, <3>3
  <2>3. \A i \in DOMAIN L : e[L[i][1]] \in Values(L[i][2])
    <3>1. /\ e["transaction"] \in Values("identifier") /\ e["sequence"] \in Values("u32")
          /\ e["kind"] \in Values("u8") /\ e["text"] \in Values("text")
      BY <1>7
    <3>2. ASSUME NEW i \in DOMAIN L PROVE e[L[i][1]] \in Values(L[i][2])
      <4>1. i = 1 \/ i = 2 \/ i = 3 \/ i = 4
        BY <2>1
      <4> QED
        BY <2>1, <3>1, <4>1
    <3> QED
      BY <3>2
  <2>4. e.type \in DOMAIN Layout
    BY <1>1, LayoutsAre DEF Types
  <2>5. Layout[e.type] = L
    BY <1>1 DEF L
  <2>6. e = [f \in {"version", "type"} \cup {L[i][1] : i \in DOMAIN L} |-> e[f]]
    BY <1>1, <2>2
  <2> QED
    BY Zenon, <2>3, <2>4, <2>5, <2>6 DEF IsEnvelope
<1>9. WellFormed(e)
  <2>1. ValidTransaction(e.transaction)
    BY <1>1, <1>3 DEF ValidTransaction
  <2>2. ValidText(e.text, MaximumSearchSize)
    BY <1>1, <1>5 DEF ValidText, IsValidUtf8
  <2> QED
    BY <1>1, <2>1, <2>2 DEF WellFormed, SearchText
<1> QED
  BY <1>1, <1>8, <1>9 DEF e

\* It is one that serialize accepts.
LEMMA SearchCommandFits ==
  ASSUME search \in SearchTexts
  PROVE  Serialize(SearchCommand) # Nothing
<1> DEFINE e == SearchCommand  parts == WrittenFields(e)  L == Layout["Command"]
           R(n) == Len(Remaining(parts, n))
<1>1. /\ IsEnvelope(e) /\ WellFormed(e) /\ e.version = ProtocolVersion /\ e.type = "Command"
      /\ e.text = search /\ Layout[e.type] = L
  BY SearchCommandIs
<1>2. /\ Len(L) = 4 /\ L[1] = <<"transaction", "identifier">>
      /\ L[2] = <<"sequence", "u32">> /\ L[3] = <<"kind", "u8">> /\ L[4] = <<"text", "text">>
  BY LayoutsAre
<1>3. search \in Seq(Byte) /\ Len(search) \in Nat /\ Len(search) <= MaximumSearchSize
  BY DEF SearchTexts
<1> HIDE DEF e, L
<1>4. /\ parts \in Seq(Seq(Byte)) /\ Len(parts) = 4 /\ Payload(e) = FlattenSeq(parts)
      /\ Payload(e) \in Seq(Byte)
      /\ FieldIs("identifier", e["transaction"], parts[1])
      /\ FieldIs("u32", e["sequence"], parts[2])
      /\ FieldIs("u8", e["kind"], parts[3]) /\ FieldIs("text", e["text"], parts[4])
  <2> HIDE DEF parts
  <2>1. /\ parts \in Seq(Seq(Byte)) /\ Len(parts) = Len(L) /\ Payload(e) = FlattenSeq(parts)
        /\ Payload(e) \in Seq(Byte)
        /\ \A i \in 1 .. Len(L) : FieldIs(L[i][2], e[L[i][1]], parts[i])
    BY <1>1, PartsAre DEF parts
  <2>2. 1 \in 1 .. Len(L) /\ 2 \in 1 .. Len(L) /\ 3 \in 1 .. Len(L) /\ 4 \in 1 .. Len(L)
    BY <1>2
  <2> QED
    BY <1>2, <2>1, <2>2
<1> HIDE DEF parts
<1>5. /\ Len(parts[1]) = TransactionSize /\ Len(parts[2]) = 4
      /\ Len(parts[3]) = 1 /\ Len(parts[4]) = 2 + Len(search)
  <2>1. /\ parts[1] = Written("identifier", e["transaction"])
        /\ parts[2] = Written("u32", e["sequence"]) /\ parts[3] = Written("u8", e["kind"])
        /\ parts[4] = Written("text", e["text"]) /\ parts[4] \in Seq(Byte)
    BY <1>4 DEF FieldIs
  <2>2. parts[1] = e["transaction"] /\ parts[2] = e["sequence"] /\ parts[3] = <<e["kind"]>>
        /\ parts[4] = U16(Len(search)) \o search
    BY <1>1, <2>1 DEF Written
  <2>3. Len(e["transaction"]) = TransactionSize /\ Len(e["sequence"]) = 4
    BY RoomForSearch DEF e, SearchCommand
  <2>4. Len(U16(Len(search)) \o search) = 2 + Len(search)
    <3>1. Len(search) <= 65535
      BY <1>3, RoomForSearch
    <3>2. PICK a \in Byte, b \in Byte : U16(Len(search)) = <<a, b>>
      BY <1>3, <3>1, U16Is
    <3>3. <<a, b>> \in Seq(Byte) /\ Len(<<a, b>>) = 2
      BY BytesInSeq
    <3>4. Len(<<a, b>> \o search) = Len(<<a, b>>) + Len(search)
      BY <1>3, <3>3, ConcatProperties
    <3> QED
      BY <3>2, <3>3, <3>4
  <2> QED
    BY <2>2, <2>3, <2>4
<1>6. ASSUME NEW n \in Nat, n + 1 <= Len(parts)
      PROVE  R(n) = Len(parts[n + 1]) + R(n + 1)
  <2>1. /\ Remaining(parts, n) = parts[n + 1] \o Remaining(parts, n + 1)
        /\ Remaining(parts, n + 1) \in Seq(Byte) /\ parts[n + 1] \in Seq(Byte)
    BY <1>4, <1>6, RemainingIs
  <2> QED
    BY <2>1, ConcatProperties
<1>7. Len(Payload(e)) = TransactionSize + 7 + Len(search)
  <2>1. /\ 0 \in Nat /\ 1 \in Nat /\ 2 \in Nat /\ 3 \in Nat
        /\ 0 + 1 <= Len(parts) /\ 1 + 1 <= Len(parts) /\ 2 + 1 <= Len(parts) /\ 3 + 1 <= Len(parts)
        /\ 0 + 1 = 1 /\ 1 + 1 = 2 /\ 2 + 1 = 3 /\ 3 + 1 = 4
    BY <1>4
  <2>2. R(0) = R(0 + 1) + TransactionSize
    <3>1. R(0) = Len(parts[0 + 1]) + R(0 + 1)
      BY <1>6, <2>1
    <3>2. R(0 + 1) \in Nat
      BY <1>4, <2>1, RemainingIs
    <3> QED
      BY <1>5, <2>1, <3>1, <3>2, RoomForSearch
  <2>3. R(1) = 4 + R(1 + 1)
    BY <1>5, <1>6, <2>1
  <2>4. R(2) = 1 + R(2 + 1)
    BY <1>5, <1>6, <2>1
  <2>5. R(3) = 2 + Len(search) + R(3 + 1)
    BY <1>5, <1>6, <2>1
  <2>6. R(4) = 0
    <3>1. Remaining(parts, Len(parts)) = <<>>
      BY <1>4, RemainingEnds
    <3>2. Remaining(parts, 4) = <<>>
      BY <1>4, <3>1
    <3> QED
      BY <3>2
  <2>7. R(0) = Len(Payload(e))
    BY <1>4, RemainingEnds
  <2> QED
    BY <1>3, <2>1, <2>2, <2>3, <2>4, <2>5, <2>6, <2>7, RoomForSearch
<1>8. ~(Len(Payload(e)) > MaximumFrameSize - HeaderSize)
  BY <1>3, <1>7, RoomForSearch, SizesFit DEF HeaderSize
<1>9. Serialize(e) = HeaderOf(NumberOf(e.type), Len(Payload(e))) \o Payload(e)
  BY Zenon, <1>1, <1>8 DEF Serialize, HeaderOf
<1>10. Framed(Serialize(e), NumberOf(e.type), Payload(e))
  <2>1. NumberOf(e.type) \in Byte
    <3>1. NumberOf(e.type) \in 1 .. 9
      BY <1>1, NumbersAre DEF Types
    <3> QED
      BY <3>1, BytesAre
  <2>2. Len(Payload(e)) \in Coordinates
    <3>1. Len(Payload(e)) \in Nat /\ Len(Payload(e)) <= MaximumFrameSize
      BY <1>3, <1>7, RoomForSearch, SizesFit DEF HeaderSize
    <3> QED
      BY <3>1, SizesFit
  <2> QED
    BY <1>4, <1>9, <2>1, <2>2, FramedIs
<1>11. Len(Serialize(e)) = 12 + Len(Payload(e)) /\ Len(Payload(e)) \in Nat
  BY <1>4, <1>10 DEF Framed
<1>12. Len(Nothing) = 1
  BY DEF Nothing
<1>13. Serialize(e) # Nothing
  <2> DEFINE frame == Serialize(e)
  <2>1. Len(frame) # 1
    BY <1>11
  <2> HIDE DEF frame
  <2> QED
    BY Zenon, <1>12, <2>1 DEF frame
<1> QED
  BY <1>13 DEF e

\* SearchIsReadable for every text that can be typed.
THEOREM SearchIsRead == Spec => []SearchIsReadable
<1>1. ASSUME search \in SearchTexts PROVE SearchIsReadable
  <2>1. IsEnvelope(SearchCommand) /\ SearchCommand.type = "Command"
    BY <1>1, SearchCommandIs
  <2>2. Serialize(SearchCommand) # Nothing
    BY <1>1, SearchCommandFits
  <2>3. VersionsAgree(SearchCommand)
    BY <2>1 DEF VersionsAgree
  <2>4. ReadAsSent(SearchCommand)
    BY <2>1, SentAsRead
  <2> QED
    BY Zenon, <2>2, <2>3, <2>4 DEF ReadAsSent, SearchIsReadable
<1> QED
  BY <1>1, TextIsWhole, PTL

(*****************************************************************************)
(* The labels of missing glyphs (missingGlyphLabel).                        *)
(*****************************************************************************)

\* The recursion of NumberNamed is defined.
LEMMA NumberNamedIs ==
  ASSUME NEW digits \in Seq(Nat)
  PROVE  \E f : /\ NumberNamed(digits) = f[Len(digits)] /\ f[0] = 0
                /\ \A i \in 1 .. Len(digits) : f[i] = 16 * f[i - 1] + digits[i]
<1> DEFINE N == Len(digits)
           step == [i \in Nat |-> [n \in Nat |-> IF i \in 1 .. N THEN 16 * n + digits[i] ELSE n]]
           Is(f) == f = [i \in 0 .. N |-> IF i = 0 THEN 0 ELSE 16 * f[i - 1] + digits[i]]
           number == CHOOSE f : Is(f)
<1>1. N \in Nat /\ \A i \in 1 .. N : digits[i] \in Nat
  OBVIOUS
<1>2. step \in [Nat -> [Nat -> Nat]]
  <2>1. ASSUME NEW i \in 1 .. N, NEW n \in Nat PROVE 16 * n + digits[i] \in Nat
    BY <1>1
  <2> HIDE DEF N
  <2> QED
    BY <2>1
<1>3. PICK g \in [0 .. N -> Nat] : Computes(g, N, 0, step)
  <2> HIDE DEF step, N
  <2> QED
    BY <1>1, <1>2, RecursionIsDefined
<1>4. \A i \in 0 .. N : g[i] = IF i = 0 THEN 0 ELSE 16 * g[i - 1] + digits[i]
  <2> TAKE i \in 0 .. N
  <2>1. CASE i = 0
    BY <1>3, <2>1 DEF Computes
  <2>2. CASE i # 0
    <3>1. i \in 1 .. N /\ i - 1 \in 0 .. N /\ i \in Nat /\ g[i - 1] \in Nat
      BY <2>2
    <3>2. g[i] = step[i][g[i - 1]]
      BY <1>3, <3>1 DEF Computes
    <3> QED
      BY <2>2, <3>1, <3>2
  <2> QED
    BY <2>1, <2>2
<1>5. Is(g)
  BY <1>4
<1>6. Is(number)
  <2> HIDE DEF Is
  <2> QED
    BY <1>5
<1>7. NumberNamed(digits) = number[N]
  BY DEF NumberNamed
<1> HIDE DEF number
<1>8. \A i \in 0 .. N : number[i] = IF i = 0 THEN 0 ELSE 16 * number[i - 1] + digits[i]
  BY <1>6
<1>9. number[0] = 0 /\ \A i \in 1 .. N : number[i] = 16 * number[i - 1] + digits[i]
  BY <1>1, <1>8
<1> HIDE DEF Is
<1> QED
  BY <1>7, <1>9

\* Quotients by powers of 16 are quotients of quotients.
LEMMA Divided16 ==
  ASSUME NEW c \in Nat
  PROVE  /\ c \div 1 = c
         /\ c \div 256 = (c \div 16) \div 16
         /\ c \div 4096 = ((c \div 16) \div 16) \div 16
         /\ c \div 65536 = (((c \div 16) \div 16) \div 16) \div 16
         /\ c \div 1048576 = ((((c \div 16) \div 16) \div 16) \div 16) \div 16
  BY SMT

\* The shifts of missingGlyphLabel take a code point apart.
LEMMA DigitsOf ==
  ASSUME NEW c \in Nat
  PROVE  \E q1, q2, q3, q4, q5 \in Nat :
           /\ c \div 16 = q1 /\ c \div 256 = q2 /\ c \div 4096 = q3
           /\ c \div 65536 = q4 /\ c \div 1048576 = q5
           /\ c = 16 * q1 + (c % 16) /\ q1 = 16 * q2 + (q1 % 16) /\ q2 = 16 * q3 + (q2 % 16)
           /\ q3 = 16 * q4 + (q3 % 16) /\ q4 = 16 * q5 + (q4 % 16)
<1> DEFINE q1 == c \div 16  q2 == q1 \div 16  q3 == q2 \div 16  q4 == q3 \div 16
           q5 == q4 \div 16
<1>1. \A n \in Nat : n \div 16 \in Nat /\ n = 16 * (n \div 16) + (n % 16)
  BY SMT
<1>2. q1 \in Nat /\ q2 \in Nat /\ q3 \in Nat /\ q4 \in Nat /\ q5 \in Nat
  <2>1. q1 \in Nat
    BY <1>1
  <2> HIDE DEF q1
  <2>2. q2 \in Nat
    BY <1>1, <2>1
  <2> HIDE DEF q2
  <2>3. q3 \in Nat
    BY <1>1, <2>2
  <2> HIDE DEF q3
  <2>4. q4 \in Nat
    BY <1>1, <2>3
  <2> HIDE DEF q4
  <2>5. q5 \in Nat
    BY <1>1, <2>4
  <2> QED
    BY <2>1, <2>2, <2>3, <2>4, <2>5
<1>3. /\ c \div 256 = q2 /\ c \div 4096 = q3 /\ c \div 65536 = q4 /\ c \div 1048576 = q5
  BY Divided16
<1>4. /\ c = 16 * q1 + (c % 16) /\ q1 = 16 * q2 + (q1 % 16) /\ q2 = 16 * q3 + (q2 % 16)
      /\ q3 = 16 * q4 + (q3 % 16) /\ q4 = 16 * q5 + (q4 % 16)
  <2>1. c = 16 * q1 + (c % 16)
    BY <1>1
  <2>2. q1 = 16 * q2 + (q1 % 16)
    BY <1>1, <1>2
  <2>3. q2 = 16 * q3 + (q2 % 16)
    BY <1>1, <1>2
  <2>4. q3 = 16 * q4 + (q3 % 16)
    BY <1>1, <1>2
  <2>5. q4 = 16 * q5 + (q4 % 16)
    BY <1>1, <1>2
  <2> QED
    BY <2>1, <2>2, <2>3, <2>4, <2>5
<1>5. c \div 16 = q1
  OBVIOUS
<1> HIDE DEF q1, q2, q3, q4, q5
<1> QED
  BY <1>2, <1>3, <1>4, <1>5

\* What four, five and six digits stand for.
Value4(d) == 16 * (16 * (16 * d[1] + d[2]) + d[3]) + d[4]
Value5(d) == 16 * (16 * (16 * (16 * d[1] + d[2]) + d[3]) + d[4]) + d[5]
Value6(d) == 16 * (16 * (16 * (16 * (16 * d[1] + d[2]) + d[3]) + d[4]) + d[5]) + d[6]

\* NumberNamed of as many digits as a code point can have.
LEMMA NamedBy ==
  ASSUME NEW digits \in Seq(Nat)
  PROVE  /\ Len(digits) = 4 => NumberNamed(digits) = Value4(digits)
         /\ Len(digits) = 5 => NumberNamed(digits) = Value5(digits)
         /\ Len(digits) = 6 => NumberNamed(digits) = Value6(digits)
<1> DEFINE N == Len(digits)
<1>1. PICK f : /\ NumberNamed(digits) = f[N] /\ f[0] = 0
               /\ \A i \in 1 .. N : f[i] = 16 * f[i - 1] + digits[i]
  BY NumberNamedIs
<1>2. \A i \in 1 .. N : digits[i] \in Nat
  OBVIOUS
<1>3. N \in Nat
  OBVIOUS
<1> HIDE DEF N
<1>4. ASSUME N >= 4
      PROVE  /\ f[1] = digits[1] /\ f[2] = 16 * f[1] + digits[2]
             /\ f[3] = 16 * f[2] + digits[3] /\ f[4] = 16 * f[3] + digits[4]
  <2>1. /\ 1 \in 1 .. N /\ 2 \in 1 .. N /\ 3 \in 1 .. N /\ 4 \in 1 .. N
        /\ 1 - 1 = 0 /\ 2 - 1 = 1 /\ 3 - 1 = 2 /\ 4 - 1 = 3
    BY <1>3, <1>4
  <2>2. f[1] = 16 * f[1 - 1] + digits[1] /\ f[2] = 16 * f[2 - 1] + digits[2]
    BY <1>1, <2>1
  <2>3. f[3] = 16 * f[3 - 1] + digits[3] /\ f[4] = 16 * f[4 - 1] + digits[4]
    BY <1>1, <2>1
  <2>4. digits[1] \in Nat
    BY <1>2, <2>1
  <2> QED
    BY <1>1, <2>2, <2>3, <2>4
<1>5. ASSUME N >= 5 PROVE f[5] = 16 * f[4] + digits[5]
  <2>1. 5 \in 1 .. N /\ 5 - 1 = 4
    BY <1>3, <1>5
  <2>2. f[5] = 16 * f[5 - 1] + digits[5]
    BY <1>1, <2>1
  <2> QED
    BY <2>2
<1>6. ASSUME N >= 6 PROVE f[6] = 16 * f[5] + digits[6]
  <2>1. 6 \in 1 .. N /\ 6 - 1 = 5
    BY <1>3, <1>6
  <2>2. f[6] = 16 * f[6 - 1] + digits[6]
    BY <1>1, <2>1
  <2> QED
    BY <2>2
<1>7. CASE N = 4
  BY <1>1, <1>4, <1>7 DEF N, Value4
<1>8. CASE N = 5
  BY <1>1, <1>4, <1>5, <1>8 DEF N, Value5
<1>9. CASE N = 6
  BY <1>1, <1>4, <1>5, <1>6, <1>9 DEF N, Value6
<1> QED
  BY <1>7, <1>8, <1>9 DEF N

\* Four, five and six digits, by the quotients they are the last digits of.
FourDigits(d, c, q1, q2, q3) ==
  Len(d) = 4 /\ d[4] = c % 16 /\ d[3] = q1 % 16 /\ d[2] = q2 % 16 /\ d[1] = q3 % 16

FiveDigits(d, c, q1, q2, q3, q4) ==
  /\ Len(d) = 5 /\ d[5] = c % 16 /\ d[4] = q1 % 16 /\ d[3] = q2 % 16 /\ d[2] = q3 % 16
  /\ d[1] = q4 % 16

SixDigits(d, c, q1, q2, q3, q4, q5) ==
  /\ Len(d) = 6 /\ d[6] = c % 16 /\ d[5] = q1 % 16 /\ d[4] = q2 % 16 /\ d[3] = q3 % 16
  /\ d[2] = q4 % 16 /\ d[1] = q5 % 16

\* d has as many digits as c needs.
AreDigits(d, c) ==
  /\ c < 65536 => FourDigits(d, c, c \div 16, c \div 256, c \div 4096)
  /\ 65536 <= c /\ c < 1048576 =>
       FiveDigits(d, c, c \div 16, c \div 256, c \div 4096, c \div 65536)
  /\ 1048576 <= c =>
       SixDigits(d, c, c \div 16, c \div 256, c \div 4096, c \div 65536, c \div 1048576)

\* The digits of a code point, from the last one.
LEMMA DigitsAre ==
  ASSUME NEW c \in Nat
  PROVE  Digits(c) \in Seq(Nat) /\ AreDigits(Digits(c), c)
<1> DEFINE n == IF c < 65536 THEN 4 ELSE IF c < 1048576 THEN 5 ELSE 6
           weights == <<1, 16, 256, 4096, 65536, 1048576>>
           digits == [i \in 1 .. n |-> (c \div weights[(n - i) + 1]) % 16]
<1>1. Digits(c) = digits
  BY SMT DEF Digits
<1>2. n \in Nat /\ n <= 6
  BY SMT
<1>3. ASSUME NEW i \in 1 .. n PROVE (c \div weights[(n - i) + 1]) % 16 \in Nat
  <2>1. (n - i) + 1 \in 1 .. 6
    BY SMT, <1>2
  <2>2. \A k \in 1 .. 6 : weights[k] \in Nat /\ weights[k] > 0
    BY SMT
  <2> DEFINE w == weights[(n - i) + 1]
  <2>3. w \in Nat /\ w > 0
    BY SMT, <2>1, <2>2
  <2> HIDE DEF w
  <2>4. c \div w \in Int
    BY SMT, <2>3
  <2> DEFINE q == c \div w
  <2> HIDE DEF q
  <2>5. q % 16 \in Nat
    BY SMT, <2>4 DEF q
  <2> QED
    BY SMT, <2>5 DEF q, w
<1>4. /\ weights[1] = 1 /\ weights[2] = 16 /\ weights[3] = 256 /\ weights[4] = 4096
      /\ weights[5] = 65536 /\ weights[6] = 1048576
  BY SMT
<1> HIDE DEF weights
<1>5. digits \in Seq(Nat) /\ Len(digits) = n
      /\ \A i \in 1 .. n : digits[i] = (c \div weights[(n - i) + 1]) % 16
  <2> HIDE DEF n
  <2> QED
    BY SMT, <1>2, <1>3
<1>6. c \div 1 = c
  BY SMT, Divided16
<1> HIDE DEF digits
<1>7. ASSUME c < 65536 PROVE AreDigits(digits, c)
  <2>1. n = 4
    BY SMT, <1>7
  <2> HIDE DEF n
  <2>2. /\ (4 - 4) + 1 = 1 /\ (4 - 3) + 1 = 2 /\ (4 - 2) + 1 = 3 /\ (4 - 1) + 1 = 4
        /\ 1 \in 1 .. 4 /\ 2 \in 1 .. 4 /\ 3 \in 1 .. 4 /\ 4 \in 1 .. 4
    BY SMT
  <2>3. \A i \in 1 .. 4 : digits[i] = (c \div weights[(4 - i) + 1]) % 16
    BY SMT, <1>5, <2>1
  <2>4. /\ digits[4] = c % 16 /\ digits[3] = (c \div 16) % 16
        /\ digits[2] = (c \div 256) % 16 /\ digits[1] = (c \div 4096) % 16
    BY SMT, <1>4, <1>6, <2>2, <2>3
  <2>5. ~(65536 <= c) /\ ~(1048576 <= c)
    BY SMT, <1>7
  <2> QED
    BY SMT, <1>5, <2>1, <2>4, <2>5 DEF AreDigits, FourDigits, FiveDigits, SixDigits
<1>8. ASSUME 65536 <= c /\ c < 1048576 PROVE AreDigits(digits, c)
  <2>1. n = 5
    BY SMT, <1>8
  <2> HIDE DEF n
  <2>2. /\ (5 - 5) + 1 = 1 /\ (5 - 4) + 1 = 2 /\ (5 - 3) + 1 = 3 /\ (5 - 2) + 1 = 4
        /\ (5 - 1) + 1 = 5
        /\ 1 \in 1 .. 5 /\ 2 \in 1 .. 5 /\ 3 \in 1 .. 5 /\ 4 \in 1 .. 5 /\ 5 \in 1 .. 5
    BY SMT
  <2>3. \A i \in 1 .. 5 : digits[i] = (c \div weights[(5 - i) + 1]) % 16
    BY SMT, <1>5, <2>1
  <2>4. /\ digits[5] = c % 16 /\ digits[4] = (c \div 16) % 16
        /\ digits[3] = (c \div 256) % 16 /\ digits[2] = (c \div 4096) % 16
        /\ digits[1] = (c \div 65536) % 16
    BY SMT, <1>4, <1>6, <2>2, <2>3
  <2>5. ~(c < 65536) /\ ~(1048576 <= c)
    BY SMT, <1>8
  <2> QED
    BY SMT, <1>5, <2>1, <2>4, <2>5 DEF AreDigits, FourDigits, FiveDigits, SixDigits
<1>9. ASSUME 1048576 <= c PROVE AreDigits(digits, c)
  <2>1. n = 6
    BY SMT, <1>9
  <2> HIDE DEF n
  <2>2. /\ (6 - 6) + 1 = 1 /\ (6 - 5) + 1 = 2 /\ (6 - 4) + 1 = 3 /\ (6 - 3) + 1 = 4
        /\ (6 - 2) + 1 = 5 /\ (6 - 1) + 1 = 6
        /\ 1 \in 1 .. 6 /\ 2 \in 1 .. 6 /\ 3 \in 1 .. 6 /\ 4 \in 1 .. 6 /\ 5 \in 1 .. 6
        /\ 6 \in 1 .. 6
    BY SMT
  <2>3. \A i \in 1 .. 6 : digits[i] = (c \div weights[(6 - i) + 1]) % 16
    BY SMT, <1>5, <2>1
  <2>4. /\ digits[6] = c % 16 /\ digits[5] = (c \div 16) % 16
        /\ digits[4] = (c \div 256) % 16 /\ digits[3] = (c \div 4096) % 16
        /\ digits[2] = (c \div 65536) % 16 /\ digits[1] = (c \div 1048576) % 16
    BY SMT, <1>4, <1>6, <2>2, <2>3
  <2>5. ~(c < 65536) /\ ~(c < 1048576)
    BY SMT, <1>9
  <2> QED
    BY SMT, <1>5, <2>1, <2>4, <2>5 DEF AreDigits, FourDigits, FiveDigits, SixDigits
<1>10. AreDigits(digits, c)
  <2> HIDE DEF n
  <2> QED
    BY SMT, <1>7, <1>8, <1>9
<1> QED
  BY SMT, <1>1, <1>5, <1>10

\* Digits are read as the number they are the digits of.
LEMMA DigitsRead ==
  ASSUME NEW c \in Scalar, NEW d \in Seq(Nat), AreDigits(d, c)
  PROVE  Len(d) >= 4 /\ NumberNamed(d) = c
<1>0. c \in Nat /\ c <= 1114111
  BY SMT DEF Scalar, IsScalar
<1>1. PICK q1 \in Nat, q2 \in Nat, q3 \in Nat, q4 \in Nat, q5 \in Nat :
        /\ c \div 16 = q1 /\ c \div 256 = q2 /\ c \div 4096 = q3
        /\ c \div 65536 = q4 /\ c \div 1048576 = q5
        /\ c = 16 * q1 + (c % 16) /\ q1 = 16 * q2 + (q1 % 16) /\ q2 = 16 * q3 + (q2 % 16)
        /\ q3 = 16 * q4 + (q3 % 16) /\ q4 = 16 * q5 + (q4 % 16)
  BY SMT, <1>0, DigitsOf
<1>2. \A q \in Nat : q < 16 => q % 16 = q
  BY SMT
<1>3. /\ c % 16 \in Nat /\ q1 % 16 \in Nat /\ q2 % 16 \in Nat /\ q3 % 16 \in Nat
      /\ q4 % 16 \in Nat
  BY SMT, <1>0
<1>4. CASE c < 65536
  <2>0. FourDigits(d, c, c \div 16, c \div 256, c \div 4096)
    BY SMT, <1>0, <1>4 DEF AreDigits
  <2>1. FourDigits(d, c, q1, q2, q3)
    <3>1. c \div 16 = q1 /\ c \div 256 = q2 /\ c \div 4096 = q3
      BY SMT, <1>1
    <3> QED
      BY SMT, <2>0, <3>1
  <2>2. Len(d) = 4 /\ d[4] = c % 16 /\ d[3] = q1 % 16 /\ d[2] = q2 % 16 /\ d[1] = q3 % 16
    BY Zenon, <2>1 DEF FourDigits
  <2>3. NumberNamed(d) = Value4(d)
    BY Zenon, <2>2, NamedBy
  <2>4. q3 < 16
    BY SMT, <1>0, <1>1, <1>3, <1>4
  <2>5. d[1] = q3
    BY SMT, <1>2, <2>2, <2>4
  <2>6. Value4(d) = c
    BY SMT, <1>0, <1>1, <1>3, <2>2, <2>5 DEF Value4
  <2> QED
    BY SMT, <2>2, <2>3, <2>6
<1>5. CASE 65536 <= c /\ c < 1048576
  <2>0. FiveDigits(d, c, c \div 16, c \div 256, c \div 4096, c \div 65536)
    BY SMT, <1>0, <1>5 DEF AreDigits
  <2>1. FiveDigits(d, c, q1, q2, q3, q4)
    <3>1. c \div 16 = q1 /\ c \div 256 = q2 /\ c \div 4096 = q3 /\ c \div 65536 = q4
      BY SMT, <1>1
    <3> QED
      BY SMT, <2>0, <3>1
  <2>2. /\ Len(d) = 5 /\ d[5] = c % 16 /\ d[4] = q1 % 16 /\ d[3] = q2 % 16 /\ d[2] = q3 % 16
        /\ d[1] = q4 % 16
    BY Zenon, <2>1 DEF FiveDigits
  <2>3. NumberNamed(d) = Value5(d)
    BY Zenon, <2>2, NamedBy
  <2>4. q4 < 16
    BY SMT, <1>0, <1>1, <1>3, <1>5
  <2>5. d[1] = q4
    BY SMT, <1>2, <2>2, <2>4
  <2>6. Value5(d) = c
    BY SMTT(60), <1>0, <1>1, <1>3, <2>2, <2>5 DEF Value5
  <2> QED
    BY SMT, <2>2, <2>3, <2>6
<1>6. CASE 1048576 <= c
  <2>1. SixDigits(d, c, q1, q2, q3, q4, q5)
    BY SMT, <1>0, <1>1, <1>6 DEF AreDigits
  <2>2. /\ Len(d) = 6 /\ d[6] = c % 16 /\ d[5] = q1 % 16 /\ d[4] = q2 % 16 /\ d[3] = q3 % 16
        /\ d[2] = q4 % 16 /\ d[1] = q5 % 16
    BY Zenon, <2>1 DEF SixDigits
  <2>3. NumberNamed(d) = Value6(d)
    BY Zenon, <2>2, NamedBy
  <2>4. q5 < 16
    BY SMT, <1>0, <1>1, <1>3, <1>6
  <2>5. d[1] = q5
    BY SMT, <1>2, <2>2, <2>4
  <2>6. Value6(d) = c
    BY SMT, <1>0, <1>1, <1>3, <2>2, <2>5 DEF Value6
  <2> QED
    BY SMT, <2>2, <2>3, <2>6
<1> QED
  BY SMT, <1>0, <1>4, <1>5, <1>6

\* The digits of a code point are.
LEMMA DigitsName ==
  ASSUME NEW c \in Scalar
  PROVE  Len(Digits(c)) >= 4 /\ NumberNamed(Digits(c)) = c
<1>1. c \in Nat
  BY SMT DEF Scalar
<1>2. Digits(c) \in Seq(Nat) /\ AreDigits(Digits(c), c)
  BY SMT, <1>1, DigitsAre
<1> QED
  BY SMT, <1>2, DigitsRead

\* Of code points that are encoded, the first gap is named.
LEMMA GapsShown ==
  ASSUME NEW s \in Seq(Scalar), s # <<>>, NEW font
  PROVE  LET coverage == InspectGlyphCoverage(Encode(s), font)
             gaps     == Gaps(s, font)
         IN /\ gaps = {} => coverage.renderable
            /\ gaps # {} => /\ ~coverage.renderable
                            /\ MissingGlyphLabel(coverage) = Digits(s[Min(gaps)])
<1> DEFINE coverage == InspectGlyphCoverage(Encode(s), font)  gaps == Gaps(s, font)
           first == s[Min(gaps)]
<1>1. Decode(Encode(s)) = s
  BY DecodeOfEncode
<1>2. ~(s \in {Nothing, <<>>})
  BY NothingIsNoText
<1>3. gaps = {} => coverage = Renderable
  BY Zenon, <1>1, <1>2 DEF InspectGlyphCoverage
<1>4. gaps # {} => coverage = [renderable |-> FALSE, missing |-> <<first>>]
  BY Zenon, <1>1, <1>2 DEF InspectGlyphCoverage
<1> HIDE DEF coverage, gaps, first
<1>5. Renderable.renderable = TRUE
  BY Zenon DEF Renderable
<1>6. ASSUME gaps = {} PROVE coverage.renderable
  BY Zenon, <1>3, <1>5, <1>6
<1>7. ASSUME gaps # {}
      PROVE  ~coverage.renderable /\ MissingGlyphLabel(coverage) = Digits(first)
  <2>1. [renderable |-> FALSE, missing |-> <<first>>].renderable = FALSE
    BY Zenon
  <2>2. [renderable |-> FALSE, missing |-> <<first>>].missing = <<first>>
    BY Zenon
  <2>3. <<first>> # <<>> /\ <<first>>[1] = first
    OBVIOUS
  <2>4. coverage.missing = <<first>>
    BY Zenon, <1>4, <1>7, <2>2
  <2>5. MissingGlyphLabel(coverage) = Digits(first)
    BY <2>3, <2>4 DEF MissingGlyphLabel
  <2>6. ~coverage.renderable
    BY Zenon, <1>4, <1>7, <2>1
  <2> QED
    BY Zenon, <2>5, <2>6
<1> QED
  BY Zenon, <1>6, <1>7 DEF coverage, gaps, first

\* What is no text cannot be drawn.
LEMMA NothingShown ==
  ASSUME NEW font
  PROVE  ~InspectGlyphCoverage(<<>>, font).renderable
<1>1. Decode(<<>>) \in {Nothing, <<>>}
  BY DecodeOfNothing
<1>2. InspectGlyphCoverage(<<>>, font) = [renderable |-> FALSE, missing |-> <<>>]
  BY Zenon, <1>1 DEF InspectGlyphCoverage
<1>3. [renderable |-> FALSE, missing |-> <<>>].renderable = FALSE
  BY Zenon
<1> QED
  BY Zenon, <1>2, <1>3

\* What a font lacks is named, for all code points and all fonts.
THEOREM GapIsNamed ==
  ASSUME NEW s \in Seq(Scalar), NEW fonts
  PROVE  NamesTheGap(s, fonts)
<1> DEFINE needed == {c \in Range(s) : ~IsNonRenderingCodepoint(c)}
           Shown(font) == InspectGlyphCoverage(Encode(s), font).renderable
           label(font) == MissingGlyphLabel(InspectGlyphCoverage(Encode(s), font))
<1>1. ASSUME Encode(s) = <<>>, NEW font PROVE ~Shown(font)
  BY Zenon, <1>1, NothingShown
<1>2. ASSUME Encode(s) # <<>>, NEW font, Shown(font)
      PROVE  Gaps(s, font) = {} /\ needed \subseteq font
  <2>1. s # <<>>
    BY <1>2, EncodeOfNothing
  <2>2. Gaps(s, font) = {}
    BY Zenon, <1>2, <2>1, GapsShown
  <2> QED
    BY <2>2 DEF Gaps, Range
<1>3. ASSUME Encode(s) # <<>>, NEW font, ~Shown(font)
      PROVE  /\ Len(label(font)) >= 4
             /\ NumberNamed(label(font)) \in needed \ font
             /\ \A other : Shown(other) => NumberNamed(label(font)) \in other
  <2> DEFINE gaps == Gaps(s, font)  m == Min(gaps)
  <2>1. s # <<>>
    BY <1>3, EncodeOfNothing
  <2>2. gaps # {}
    BY Zenon, <1>3, <2>1, GapsShown
  <2>3. gaps \subseteq Nat
    BY DEF Gaps
  <2>4. m \in gaps
    <3>1. \E x \in gaps : \A y \in gaps : x <= y
      BY <2>2, <2>3, Smallest
    <3> QED
      BY <3>1 DEF Min
  <2>5. label(font) = Digits(s[m])
    BY Zenon, <2>1, <2>2, GapsShown
  <2> HIDE DEF m
  <2>6. m \in DOMAIN s /\ ~IsNonRenderingCodepoint(s[m]) /\ s[m] \notin font
    BY <2>4 DEF Gaps
  <2>7. s[m] \in Scalar /\ s[m] \in Range(s)
    BY <2>6 DEF Range
  <2>8. Len(label(font)) >= 4 /\ NumberNamed(label(font)) = s[m]
    BY <2>5, <2>7, DigitsName
  <2>9. s[m] \in needed \ font
    BY <2>6, <2>7
  <2>10. ASSUME NEW other, Shown(other) PROVE s[m] \in other
    <3>1. needed \subseteq other
      BY Zenon, <1>2, <1>3, <2>10
    <3> QED
      BY <2>9, <3>1
  <2> HIDE DEF needed, label, Shown
  <2> QED
    BY <2>8, <2>9, <2>10
<1> QED
  BY Zenon, <1>1, <1>2, <1>3 DEF NamesTheGap

(*****************************************************************************)
(* normalizeForSearch.                                                      *)
(*****************************************************************************)

\* Folding leaves nothing to fold.
LEMMA FoldIs ==
  ASSUME NEW c \in Scalar
  PROVE  /\ FoldCodepoint(c) \in Scalar /\ FoldCodepoint(FoldCodepoint(c)) = FoldCodepoint(c)
         /\ FoldCodepoint(Space) = Space /\ Space \in Scalar /\ IsSpace(Space)
<1>1. c \in Nat /\ c <= 1114111 /\ (c < 55296 \/ c > 57343)
  BY ScalarsAre DEF Scalar
<1> DEFINE d == FoldCodepoint(c)
<1>2. /\ d \in Nat /\ d <= 1114111 /\ (d < 55296 \/ d > 57343)
      /\ FoldCodepoint(d) = d
  BY SMT, <1>1 DEF FoldCodepoint, Space
<1> HIDE DEF d
<1>3. d \in Scalar
  BY <1>2, ScalarsAre DEF Scalar
<1>4. Space \in Nat /\ Space <= 1114111 /\ Space < 55296
  BY SMT DEF Space
<1>5. Space \in Scalar
  BY <1>4, ScalarsAre DEF Scalar
<1>6. FoldCodepoint(Space) = Space /\ IsSpace(Space)
  BY SMT DEF FoldCodepoint, IsSpace, Space
<1> QED
  BY <1>2, <1>3, <1>5, <1>6 DEF d

\* No space is the first or follows another one.
Apart(s) == \A i \in 1 .. Len(s) : s[i] = Space => i > 1 /\ s[i - 1] # Space

\* Code points that are folded and squeezed.
Tidy(cps) ==
  /\ cps \in Seq(Scalar) /\ Apart(cps)
  /\ \A i \in 1 .. Len(cps) :
       FoldCodepoint(cps[i]) = cps[i] /\ (IsSpace(cps[i]) => cps[i] = Space)

\* Spaces stay apart when something else follows.
LEMMA ApartLonger ==
  ASSUME NEW S, NEW s \in Seq(S), NEW t \in Seq(S), t # <<>>, Apart(s),
         \/ \A i \in 1 .. Len(t) : t[i] # Space
         \/ s # <<>> /\ s[Len(s)] # Space /\ Len(t) = 1
  PROVE  Apart(s \o t)
<1> DEFINE u == s \o t
<1>1. /\ Len(u) = Len(s) + Len(t) /\ Len(s) \in Nat /\ Len(t) \in Nat
      /\ \A i \in 1 .. Len(s) + Len(t) : u[i] = IF i <= Len(s) THEN s[i] ELSE t[i - Len(s)]
  BY ConcatProperties
<1> HIDE DEF u
<1> SUFFICES ASSUME NEW i \in 1 .. Len(u), u[i] = Space PROVE i > 1 /\ u[i - 1] # Space
  BY DEF Apart, u
<1>2. CASE i <= Len(s)
  <2>1. i \in 1 .. Len(s) /\ s[i] = Space
    BY <1>1, <1>2
  <2>2. i > 1 /\ s[i - 1] # Space
    BY <2>1 DEF Apart
  <2> QED
    BY <1>1, <2>1, <2>2
<1>3. CASE i > Len(s)
  <2> DEFINE j == i - Len(s)
  <2>1. j \in 1 .. Len(t) /\ t[j] = Space
    BY <1>1, <1>3
  <2>2. s # <<>> /\ s[Len(s)] # Space /\ Len(t) = 1
    BY <2>1
  <2>3. Len(s) >= 1
    BY <1>1, <2>2
  <2>4. i = Len(s) + 1 /\ i - 1 = Len(s) /\ i - 1 \in 1 .. Len(s) + Len(t) /\ i - 1 <= Len(s)
    BY <1>1, <2>1, <2>2, <2>3
  <2>5. u[i - 1] = s[i - 1]
    BY <1>1, <2>4
  <2> QED
    BY <2>2, <2>3, <2>4, <2>5
<1> QED
  BY <1>1, <1>2, <1>3

\* A tidy text stays one when a space follows no other.
LEMMA TidyLonger ==
  ASSUME NEW t, Tidy(t), NEW c \in Scalar, FoldCodepoint(c) = c, IsSpace(c) => c = Space,
         c = Space => t # <<>> /\ t[Len(t)] # Space
  PROVE  Tidy(Append(t, c))
<1> DEFINE u == Append(t, c)
<1>1. t \in Seq(Scalar) /\ Apart(t)
      /\ \A i \in 1 .. Len(t) :
           FoldCodepoint(t[i]) = t[i] /\ (IsSpace(t[i]) => t[i] = Space)
  BY DEF Tidy
<1>2. /\ u \in Seq(Scalar) /\ Len(u) = Len(t) + 1 /\ u[Len(t) + 1] = c /\ Len(t) \in Nat
      /\ \A i \in 1 .. Len(t) : u[i] = t[i]
  BY <1>1, AppendProperties
<1>3. u = t \o <<c>>
  BY <1>1, AppendIsConcat
<1>4. Apart(t \o <<c>>)
  <2> DEFINE one == <<c>>
  <2>1. one \in Seq(Scalar) /\ Len(one) = 1 /\ one # <<>> /\ one[1] = c
    OBVIOUS
  <2> HIDE DEF one
  <2>2. CASE c # Space
    <3>1. \A i \in 1 .. Len(one) : one[i] # Space
      BY <2>1, <2>2
    <3> QED
      BY <1>1, <2>1, <3>1, ApartLonger DEF one
  <2>3. CASE c = Space
    BY <1>1, <2>1, <2>3, ApartLonger DEF one
  <2> QED
    BY <2>2, <2>3
<1>5. \A i \in 1 .. Len(u) :
        FoldCodepoint(u[i]) = u[i] /\ (IsSpace(u[i]) => u[i] = Space)
  <2> HIDE DEF u
  <2> TAKE i \in 1 .. Len(u)
  <2>1. i \in 1 .. Len(t) \/ i = Len(t) + 1
    BY <1>2
  <2> QED
    BY <1>1, <1>2, <2>1
<1> HIDE DEF u
<1>6. Tidy(u)
  BY <1>2, <1>3, <1>4, <1>5 DEF Tidy
<1> QED
  BY <1>6 DEF u

\* One more code point, and all of them.
LEMMA PushedTidy ==
  ASSUME NEW t, Tidy(t), NEW c \in Scalar
  PROVE  Tidy(Pushed(t, c))
<1> DEFINE d == FoldCodepoint(c)
<1>1. /\ d \in Scalar /\ FoldCodepoint(d) = d
      /\ FoldCodepoint(Space) = Space /\ Space \in Scalar /\ IsSpace(Space)
  BY FoldIs
<1> HIDE DEF d
<1>2. CASE ~IsSpace(d)
  <2>1. Pushed(t, c) = Append(t, d)
    BY <1>2 DEF Pushed, d
  <2>2. d # Space
    BY <1>1, <1>2
  <2> QED
    BY <1>1, <1>2, <2>1, <2>2, TidyLonger
<1>3. CASE IsSpace(d) /\ (t = <<>> \/ Last(t) = Space)
  BY <1>3 DEF Pushed, d
<1>4. CASE IsSpace(d) /\ t # <<>> /\ Last(t) # Space
  <2>1. Pushed(t, c) = Append(t, Space)
    BY <1>4 DEF Pushed, d
  <2>2. t[Len(t)] # Space
    BY <1>4 DEF Last
  <2> QED
    BY <1>1, <1>4, <2>1, <2>2, TidyLonger
<1> QED
  BY <1>2, <1>3, <1>4

\* Squeezed goes through the code points one after the other.
LEMMA SqueezedIs ==
  ASSUME NEW cps \in Seq(Scalar)
  PROVE  \E f : /\ Squeezed(cps) = f[Len(cps)] /\ f[0] = <<>>
                /\ \A i \in 1 .. Len(cps) : f[i] = Pushed(f[i - 1], cps[i])
<1> DEFINE N == Len(cps)
           D == {t \in Seq(Scalar) : Tidy(t)}
           step == [i \in Nat |-> [t \in D |-> IF i \in 1 .. N THEN Pushed(t, cps[i]) ELSE t]]
           Is(f) == f = [i \in 0 .. N |->
                           IF i = 0 THEN <<>> ELSE Pushed(f[i - 1], cps[i])]
           squeezed == CHOOSE f : Is(f)
<1>1. N \in Nat /\ \A i \in 1 .. N : cps[i] \in Scalar
  OBVIOUS
<1>2. <<>> \in D
  BY DEF Tidy, Apart
<1>3. step \in [Nat -> [D -> D]]
  <2>1. ASSUME NEW i \in 1 .. N, NEW t \in D PROVE Pushed(t, cps[i]) \in D
    <3>1. Tidy(Pushed(t, cps[i]))
      BY <1>1, PushedTidy
    <3> QED
      BY <3>1 DEF Tidy
  <2> HIDE DEF D, N
  <2> QED
    BY <2>1
<1>4. PICK g \in [0 .. N -> D] : Computes(g, N, <<>>, step)
  <2> HIDE DEF step, N, D
  <2> QED
    BY <1>1, <1>2, <1>3, RecursionIsDefined
<1>5. \A i \in 0 .. N : g[i] = IF i = 0 THEN <<>> ELSE Pushed(g[i - 1], cps[i])
  <2> TAKE i \in 0 .. N
  <2>1. CASE i = 0
    BY <1>4, <2>1 DEF Computes
  <2>2. CASE i # 0
    <3> HIDE DEF D
    <3>1. i \in 1 .. N /\ i - 1 \in 0 .. N /\ i \in Nat /\ g[i - 1] \in D
      BY <2>2
    <3>2. g[i] = step[i][g[i - 1]]
      BY <1>4, <3>1 DEF Computes
    <3> QED
      BY <2>2, <3>1, <3>2
  <2> QED
    BY <2>1, <2>2
<1>6. Is(g)
  BY <1>5
<1>7. Is(squeezed)
  <2> HIDE DEF Is
  <2> QED
    BY <1>6
<1>8. Squeezed(cps) = squeezed[N]
  BY DEF Squeezed
<1> HIDE DEF squeezed
<1>9. \A i \in 0 .. N : squeezed[i] = IF i = 0 THEN <<>> ELSE Pushed(squeezed[i - 1], cps[i])
  BY <1>7
<1>10. squeezed[0] = <<>> /\ \A i \in 1 .. N : squeezed[i] = Pushed(squeezed[i - 1], cps[i])
  BY <1>1, <1>9
<1> HIDE DEF Is
<1> QED
  BY <1>8, <1>10

\* What is squeezed is tidy.
LEMMA SqueezedTidy ==
  ASSUME NEW cps \in Seq(Scalar)
  PROVE  Tidy(Squeezed(cps))
<1> DEFINE N == Len(cps)
<1>1. N \in Nat /\ \A i \in 1 .. N : cps[i] \in Scalar
  OBVIOUS
<1>2. PICK f : /\ Squeezed(cps) = f[N] /\ f[0] = <<>>
               /\ \A i \in 1 .. N : f[i] = Pushed(f[i - 1], cps[i])
  BY SqueezedIs
<1> DEFINE T == {i \in 0 .. N : Tidy(f[i])}
<1>3. 0 \in T
  <2>1. Tidy(<<>>)
    BY DEF Tidy, Apart
  <2> QED
    BY <1>1, <1>2, <2>1
<1>4. ASSUME NEW n \in 0 .. N - 1, n \in T PROVE n + 1 \in T
  <2>1. n + 1 \in 1 .. N /\ n + 1 \in 0 .. N /\ (n + 1) - 1 = n
    BY <1>1
  <2>2. f[n + 1] = Pushed(f[n], cps[n + 1])
    BY <1>2, <2>1
  <2>3. Tidy(f[n]) /\ cps[n + 1] \in Scalar
    BY <1>1, <1>4, <2>1
  <2>4. Tidy(f[n + 1])
    BY <2>2, <2>3, PushedTidy
  <2> QED
    BY <2>1, <2>4
<1> HIDE DEF T, N
<1>5. \A n \in 0 .. N : n \in T
  BY <1>1, <1>3, <1>4, InductionUpTo
<1> QED
  BY <1>1, <1>2, <1>5 DEF T

\* What is tidy is squeezed already.
LEMMA SqueezedStays ==
  ASSUME NEW t, Tidy(t)
  PROVE  Squeezed(t) = t
<1> DEFINE N == Len(t)
<1>1. /\ t \in Seq(Scalar) /\ N \in Nat /\ Apart(t)
      /\ \A i \in 1 .. N :
           FoldCodepoint(t[i]) = t[i] /\ (IsSpace(t[i]) => t[i] = Space)
  BY DEF Tidy
<1>2. PICK f : /\ Squeezed(t) = f[N] /\ f[0] = <<>>
               /\ \A i \in 1 .. N : f[i] = Pushed(f[i - 1], t[i])
  BY <1>1, SqueezedIs
<1> DEFINE T == {i \in 0 .. N : f[i] = SubSeq(t, 1, i)}
<1>3. 0 \in T
  <2>1. SubSeq(t, 1, 0) = <<>>
    BY <1>1, SubSeqEmpty
  <2>2. f[0] = <<>>
    BY <1>2
  <2>3. 0 \in 0 .. N
    BY <1>1
  <2> HIDE DEF N
  <2> QED
    BY <2>1, <2>2, <2>3
<1>4. ASSUME NEW n \in 0 .. N - 1, n \in T PROVE n + 1 \in T
  <2> DEFINE p == SubSeq(t, 1, n)  c == t[n + 1]
  <2>1. n \in Nat /\ n + 1 \in 1 .. N /\ n + 1 \in 0 .. N /\ (n + 1) - 1 = n /\ n \in 0 .. N
    BY <1>1
  <2>2. f[n + 1] = Pushed(p, c)
    BY <1>2, <1>4, <2>1
  <2>3. SubSeq(t, 1, n + 1) = Append(p, c)
    <3>1. 1 \in 1 .. Len(t) /\ n + 1 \in 1 .. Len(t)
      BY <2>1
    <3> QED
      BY <1>1, <2>1, <3>1, SubSeqRecursiveSecond
  <2>4. p \in Seq(Scalar) /\ Len(p) = n
    <3> HIDE DEF N
    <3> QED
      BY <1>1, <2>1, Halves DEF N
  <2>5. FoldCodepoint(c) = c /\ (IsSpace(c) => c = Space)
    BY <1>1, <2>1
  <2>6. CASE ~IsSpace(c)
    <3> HIDE DEF p, c
    <3>1. Pushed(p, c) = Append(p, c)
      BY <2>5, <2>6 DEF Pushed
    <3> QED
      BY <2>1, <2>2, <2>3, <3>1
  <2>7. CASE IsSpace(c)
    <3>1. n + 1 > 1 /\ t[n] # Space
      BY <1>1, <2>1, <2>5, <2>7 DEF Apart
    <3>2. p # <<>> /\ Last(p) # Space
      <4>1. n >= 1
        BY <2>1, <3>1
      <4>2. p[n] = t[n]
        BY <1>1, <2>1, <4>1
      <4> HIDE DEF p
      <4>3. p # <<>>
        BY <2>4, <4>1
      <4> QED
        BY <2>4, <3>1, <4>2, <4>3 DEF Last
    <3> HIDE DEF p, c
    <3>3. Pushed(p, c) = Append(p, c)
      BY <2>5, <2>7, <3>2 DEF Pushed
    <3> QED
      BY <2>1, <2>2, <2>3, <3>3
  <2> QED
    BY <2>6, <2>7
<1> HIDE DEF T, N
<1>5. \A n \in 0 .. N : n \in T
  BY <1>1, <1>3, <1>4, InductionUpTo
<1>6. Squeezed(t) = SubSeq(t, 1, N)
  BY <1>1, <1>2, <1>5 DEF T
<1> QED
  BY <1>1, <1>6, SubSeqFull DEF N

\* What is left when the space at the end is gone.
LEMMA TrimmedIs ==
  ASSUME NEW t, Tidy(t)
  PROVE  /\ Tidy(Trimmed(t)) /\ Trimmed(Trimmed(t)) = Trimmed(t)
         /\ Trimmed(t) # <<>> => Last(Trimmed(t)) # Space
<1>1. /\ t \in Seq(Scalar) /\ Apart(t) /\ Len(t) \in Nat
      /\ \A i \in 1 .. Len(t) :
           FoldCodepoint(t[i]) = t[i] /\ (IsSpace(t[i]) => t[i] = Space)
  BY DEF Tidy
<1>2. CASE t = <<>> \/ Last(t) # Space
  BY <1>2 DEF Trimmed
<1>3. CASE t # <<>> /\ Last(t) = Space
  <2> DEFINE u == SubSeq(t, 1, Len(t) - 1)
  <2>1. Trimmed(t) = u
    BY <1>3 DEF Trimmed, Front
  <2>2. Len(t) >= 1 /\ Len(t) - 1 \in 0 .. Len(t) /\ t[Len(t)] = Space
    BY <1>1, <1>3 DEF Last
  <2>3. u \in Seq(Scalar) /\ Len(u) = Len(t) - 1
    BY <1>1, <2>2, Halves
  <2>4. \A i \in 1 .. Len(t) - 1 : u[i] = t[i]
    BY <1>1, <2>2
  <2> HIDE DEF u
  <2>5. Apart(u)
    <3> SUFFICES ASSUME NEW i \in 1 .. Len(t) - 1, u[i] = Space PROVE i > 1 /\ u[i - 1] # Space
      BY <2>3 DEF Apart
    <3>1. i \in 1 .. Len(t) /\ t[i] = Space
      BY <2>2, <2>4
    <3>2. i > 1 /\ t[i - 1] # Space
      BY <1>1, <3>1 DEF Apart
    <3>3. i - 1 \in 1 .. Len(t) - 1
      BY <2>2, <3>2
    <3> QED
      BY <2>4, <3>2, <3>3
  <2>6. Tidy(u)
    <3>1. \A i \in 1 .. Len(u) :
            FoldCodepoint(u[i]) = u[i] /\ (IsSpace(u[i]) => u[i] = Space)
      BY <1>1, <2>2, <2>3, <2>4
    <3> QED
      BY <2>3, <2>5, <3>1 DEF Tidy
  <2>7. u # <<>> => Last(u) # Space
    <3> SUFFICES ASSUME u # <<>> PROVE u[Len(t) - 1] # Space
      BY <2>3 DEF Last
    <3>1. Len(u) >= 1
      BY <2>3
    <3>2. Len(t) > 1 /\ t[Len(t) - 1] # Space
      BY <1>1, <2>2 DEF Apart
    <3>3. Len(t) - 1 \in 1 .. Len(t) - 1
      BY <1>1, <3>2
    <3> QED
      BY <2>4, <3>2, <3>3
  <2>8. Trimmed(u) = u
    BY <2>7 DEF Trimmed
  <2> QED
    BY <2>1, <2>6, <2>7, <2>8
<1> QED
  BY <1>2, <1>3

\* The byte 32 is a space, and no part of another character.
LEMMA SpaceIsOneByte ==
  ASSUME NEW c \in Scalar
  PROVE  /\ c = Space => CharacterOf(c) = <<Space>>
         /\ c # Space => \A i \in 1 .. Len(CharacterOf(c)) : CharacterOf(c)[i] # Space
<1> DEFINE w == CharacterOf(c)
<1>1. c \in Nat
  BY DEF Scalar
<1>2. CASE c <= 127
  <2>1. w = <<c>>
    BY <1>2 DEF CharacterOf
  <2> QED
    BY <2>1
<1>3. CASE ~(c <= 127)
  <2>1. c # Space
    BY SMT, <1>1, <1>3 DEF Space
  <2>2. CASE c <= 2047
    <3>1. PICK x \in Nat, y \in Nat : w = <<x, y>> /\ x >= 128 /\ y >= 128
      <4>1. w = <<192 + c \div 64, 128 + (c % 64)>>
        BY <1>3, <2>2 DEF CharacterOf
      <4>2. c \div 64 \in Nat /\ c % 64 \in Nat
        BY <1>1
      <4> QED
        BY <4>1, <4>2
    <3>2. x # Space /\ y # Space
      BY <3>1 DEF Space
    <3> HIDE DEF w
    <3>3. \A i \in 1 .. Len(w) : w[i] # Space
      BY <3>1, <3>2
    <3> QED
      BY <2>1, <3>3 DEF w
  <2>3. CASE ~(c <= 2047) /\ c <= 65535
    <3>1. PICK x \in Nat, y \in Nat, z \in Nat :
            w = <<x, y, z>> /\ x >= 128 /\ y >= 128 /\ z >= 128
      <4>1. w = <<224 + c \div 4096, 128 + ((c \div 64) % 64), 128 + (c % 64)>>
        BY <1>3, <2>3 DEF CharacterOf
      <4>2. c \div 4096 \in Nat /\ (c \div 64) % 64 \in Nat /\ c % 64 \in Nat
        BY <1>1
      <4> QED
        BY <4>1, <4>2
    <3>2. x # Space /\ y # Space /\ z # Space
      BY <3>1 DEF Space
    <3> HIDE DEF w
    <3>3. \A i \in 1 .. Len(w) : w[i] # Space
      BY <3>1, <3>2
    <3> QED
      BY <2>1, <3>3 DEF w
  <2>4. CASE ~(c <= 65535)
    <3>1. PICK x \in Nat, y \in Nat, z \in Nat, q \in Nat :
            w = <<x, y, z, q>> /\ x >= 128 /\ y >= 128 /\ z >= 128 /\ q >= 128
      <4>1. w = <<240 + c \div 262144, 128 + ((c \div 4096) % 64),
                  128 + ((c \div 64) % 64), 128 + (c % 64)>>
        <5>1. ~(c <= 2047)
          BY <1>1, <2>4
        <5> QED
          BY SMT, <1>3, <2>4, <5>1 DEF CharacterOf
      <4>2. /\ c \div 262144 \in Nat /\ (c \div 4096) % 64 \in Nat
            /\ (c \div 64) % 64 \in Nat /\ c % 64 \in Nat
        BY SMT, <1>1
      <4> QED
        BY <4>1, <4>2
    <3>2. x # Space /\ y # Space /\ z # Space /\ q # Space
      BY <3>1 DEF Space
    <3> HIDE DEF w
    <3>3. \A i \in 1 .. Len(w) : w[i] # Space
      BY <3>1, <3>2
    <3> QED
      BY <2>1, <3>3 DEF w
  <2> QED
    BY SMT, <2>2, <2>3, <2>4
<1> QED
  BY <1>1, <1>2, <1>3

\* The bytes of a tidy text are apart as its code points are.
BytesApart(text, t) ==
  /\ text \in Seq(Byte) /\ Apart(text)
  /\ text = <<>> <=> t = <<>>
  /\ t # <<>> => (text[Len(text)] = Space <=> t[Len(t)] = Space)

\* So they are in every tidy text.
LEMMA TidyBytes ==
  ASSUME NEW t, Tidy(t)
  PROVE  BytesApart(Encode(t), t)
<1> DEFINE N == Len(t)
           T == {n \in 0 .. N : BytesApart(Encode(SubSeq(t, 1, n)), SubSeq(t, 1, n))}
<1>1. t \in Seq(Scalar) /\ N \in Nat /\ Apart(t)
  BY DEF Tidy
<1>2. 0 \in T
  <2>1. SubSeq(t, 1, 0) = <<>>
    BY <1>1, SubSeqEmpty
  <2>2. BytesApart(Encode(<<>>), <<>>)
    <3>1. <<>> \in Seq(Byte) /\ Apart(<<>>)
      BY DEF Apart
    <3> QED
      BY <3>1, EncodeOfNothing DEF BytesApart
  <2>3. 0 \in 0 .. N
    BY <1>1
  <2> HIDE DEF N
  <2> QED
    BY <2>1, <2>2, <2>3
<1>3. ASSUME NEW n \in 0 .. N - 1, n \in T PROVE n + 1 \in T
  <2> DEFINE p == SubSeq(t, 1, n)  q == SubSeq(t, 1, n + 1)  c == t[n + 1]
             v == Encode(p)  w == CharacterOf(c)
  <2>1. n \in Nat /\ n + 1 \in 1 .. N /\ n + 1 \in 0 .. N /\ (n + 1) - 1 = n /\ n \in 0 .. N
    BY <1>1
  <2>2. q = Append(p, c)
    <3>1. 1 \in 1 .. Len(t) /\ n + 1 \in 1 .. Len(t)
      BY <2>1
    <3> QED
      BY <1>1, <2>1, <3>1, SubSeqRecursiveSecond
  <2>3. p \in Seq(Scalar) /\ Len(p) = n /\ c \in Scalar
    <3>1. c \in Scalar
      BY <1>1, <2>1
    <3> HIDE DEF N
    <3> QED
      BY <1>1, <2>1, <3>1, Halves DEF N
  <2>4. c = Space => p # <<>> /\ p[Len(p)] # Space
    <3> SUFFICES ASSUME c = Space PROVE p # <<>> /\ p[Len(p)] # Space
      OBVIOUS
    <3>1. n + 1 > 1 /\ t[n] # Space
      BY <1>1, <2>1 DEF Apart
    <3>2. n >= 1
      BY <2>1, <3>1
    <3>3. p[n] = t[n]
      BY <1>1, <2>1, <3>2
    <3> HIDE DEF p
    <3> QED
      BY <2>3, <3>1, <3>2, <3>3
  <2>5. BytesApart(v, p)
    BY <1>3
  <2> HIDE DEF p, c
  <2>6. Encode(q) = v \o w
    BY <2>2, <2>3, EncodeAfter
  <2>7. /\ v \in Seq(Byte) /\ Apart(v) /\ (v = <<>> <=> p = <<>>)
        /\ p # <<>> => (v[Len(v)] = Space <=> p[Len(p)] = Space)
    BY <2>5 DEF BytesApart
  <2>8. w \in Seq(Byte) /\ Len(w) \in 1 .. 4
    <3>1. c \in Nat /\ IsScalar(c)
      BY <2>3 DEF Scalar
    <3> QED
      BY <3>1, WrittenCharacter
  <2>9. /\ c = Space => w = <<Space>>
        /\ c # Space => \A i \in 1 .. Len(w) : w[i] # Space
    BY <2>3, SpaceIsOneByte
  <2> HIDE DEF v, w
  <2>10. w # <<>> /\ Len(w) \in Nat /\ Len(w) >= 1
    BY <2>8
  <2>11. Apart(v \o w)
    <3>1. CASE c = Space
      <4>1. v # <<>> /\ v[Len(v)] # Space /\ Len(w) = 1
        BY <2>4, <2>7, <2>9, <3>1
      <4> QED
        BY <2>7, <2>8, <2>10, <4>1, ApartLonger
    <3>2. CASE c # Space
      <4>1. \A i \in 1 .. Len(w) : w[i] # Space
        BY <2>9, <3>2
      <4> QED
        BY <2>7, <2>8, <2>10, <4>1, ApartLonger
    <3> QED
      BY <3>1, <3>2
  <2>12. /\ v \o w \in Seq(Byte) /\ v \o w # <<>>
         /\ (v \o w)[Len(v \o w)] = w[Len(w)]
    <3> DEFINE s == v \o w
    <3>1. /\ s \in Seq(Byte) /\ Len(s) = Len(v) + Len(w) /\ Len(v) \in Nat
          /\ \A i \in 1 .. Len(v) + Len(w) : s[i] = IF i <= Len(v) THEN v[i] ELSE w[i - Len(v)]
      BY <2>7, <2>8, ConcatProperties
    <3> HIDE DEF s
    <3>2. /\ Len(v) + Len(w) \in 1 .. Len(v) + Len(w) /\ ~(Len(v) + Len(w) <= Len(v))
          /\ (Len(v) + Len(w)) - Len(v) = Len(w)
      BY <2>10, <3>1
    <3>3. s[Len(s)] = w[Len(w)]
      BY Zenon, <3>1, <3>2
    <3>4. Len(s) # 0
      BY <2>10, <3>1
    <3>5. s # <<>>
      BY <3>4
    <3> QED
      BY <3>1, <3>3, <3>5 DEF s
  <2>13. w[Len(w)] = Space <=> c = Space
    <3>1. c = Space => w[Len(w)] = Space
      BY <2>9
    <3>2. Len(w) \in 1 .. Len(w)
      BY <2>10
    <3> QED
      BY <2>9, <3>1, <3>2
  <2>14. q # <<>> /\ q[Len(q)] = c
    <3>1. Append(p, c) # <<>> /\ Append(p, c)[Len(Append(p, c))] = c
      BY <2>3, AppendProperties
    <3> HIDE DEF q
    <3> QED
      BY Zenon, <2>2, <3>1
  <2> HIDE DEF q
  <2>15. BytesApart(Encode(q), q)
    BY <2>6, <2>11, <2>12, <2>13, <2>14 DEF BytesApart
  <2> QED
    BY <2>1, <2>15 DEF q
<1> HIDE DEF T, N
<1>4. \A n \in 0 .. N : n \in T
  BY <1>1, <1>2, <1>3, InductionUpTo
<1>5. SubSeq(t, 1, N) = t
  BY <1>1, SubSeqFull DEF N
<1>6. N \in T
  BY <1>1, <1>4
<1> QED
  BY <1>5, <1>6 DEF T

\* What normalizeForSearch makes of any bytes stays as it is when it is normalized
\* again, and no token of it is empty.
THEOREM NormalizedSettles ==
  ASSUME NEW text \in Seq(Byte)
  PROVE  NormalizeForSearch(text) \in Seq(Byte) /\ Settled(NormalizeForSearch(text))
<1> DEFINE s == IF IsValidUtf8(text) THEN Decode(text) ELSE <<>>
           t == Trimmed(Squeezed(s))  n == Encode(t)
<1>1. s \in Seq(Scalar)
  <2>1. <<>> \in Seq(Scalar)
    OBVIOUS
  <2> QED
    BY <2>1, EncodeOfDecode DEF IsValidUtf8
<1>2. NormalizeForSearch(text) = n
  <2>1. CASE IsValidUtf8(text)
    BY <2>1 DEF NormalizeForSearch
  <2>2. CASE ~IsValidUtf8(text)
    <3>1. Tidy(<<>>)
      BY DEF Tidy, Apart
    <3>2. Trimmed(Squeezed(<<>>)) = <<>>
      BY <3>1, SqueezedStays DEF Trimmed
    <3> QED
      BY <2>2, <3>2, EncodeOfNothing DEF NormalizeForSearch
  <2> QED
    BY <2>1, <2>2
<1>3. Tidy(t) /\ Trimmed(t) = t /\ (t # <<>> => Last(t) # Space)
  <2> HIDE DEF s
  <2> QED
    BY <1>1, SqueezedTidy, TrimmedIs
<1> HIDE DEF s, t
<1>4. t \in Seq(Scalar)
  BY <1>3 DEF Tidy
<1>5. Decode(n) = t /\ IsValidUtf8(n)
  BY <1>4, DecodeOfEncode, NothingIsNoText DEF IsValidUtf8
<1>6. Squeezed(t) = t
  BY <1>3, SqueezedStays
<1>7. BytesApart(n, t)
  BY <1>3, TidyBytes
<1> HIDE DEF n
<1>8. NormalizeForSearch(n) = n
  BY <1>3, <1>5, <1>6 DEF NormalizeForSearch, n
<1>9. /\ n \in Seq(Byte) /\ Apart(n) /\ (n = <<>> <=> t = <<>>)
      /\ t # <<>> => (n[Len(n)] = Space <=> t[Len(t)] = Space)
  BY <1>7 DEF BytesApart
<1>10. n # <<>> => n[1] # Space /\ Last(n) # Space
  <2> SUFFICES ASSUME n # <<>> PROVE n[1] # Space /\ Last(n) # Space
    OBVIOUS
  <2>1. 1 \in 1 .. Len(n)
    BY <1>9
  <2>2. n[1] # Space
    BY <1>9, <2>1 DEF Apart
  <2>3. t[Len(t)] # Space
    BY <1>3, <1>9 DEF Last
  <2> QED
    BY <1>9, <2>2, <2>3 DEF Last
<1>11. \A i \in 2 .. Len(n) : n[i] # Space \/ n[i - 1] # Space
  BY <1>9 DEF Apart
<1> QED
  BY <1>2, <1>8, <1>9, <1>10, <1>11 DEF Settled

(***************************************************************************)
(* The search: split, textScore, documentScore and EmojiCatalog::search.   *)
(***************************************************************************)

\* A set of integers with an upper bound has a greatest element, which is Max.
LEMMA Greatest ==
  ASSUME NEW S, S \subseteq Int, S # {}, NEW b \in Int, \A x \in S : x <= b
  PROVE  Max(S) \in S /\ \A x \in S : x <= Max(S)
<1> DEFINE T == {n \in Nat : b - n \in S}
<1>1. PICK x \in S : x \in Int /\ x <= b
  OBVIOUS
<1>2. b - x \in Nat /\ b - (b - x) = x
  BY <1>1
<1>3. T \subseteq Nat /\ T # {}
  BY <1>2
<1>4. PICK m \in T : \A k \in T : m <= k
  BY <1>3, Smallest
<1>5. m \in Nat /\ b - m \in S
  BY <1>4
<1>6. ASSUME NEW y \in S PROVE b - m >= y
  <2>1. y \in Int /\ y <= b
    OBVIOUS
  <2>2. b - y \in Nat /\ b - (b - y) = y
    BY <2>1
  <2>3. b - y \in T
    BY <2>2
  <2> HIDE DEF T
  <2>4. m <= b - y
    BY <1>4, <2>3
  <2> QED
    BY <1>5, <2>1, <2>2, <2>4
<1>7. Max(S) \in S /\ \A y \in S : Max(S) >= y
  BY <1>5, <1>6 DEF Max
<1> QED
  BY <1>7

\* A set of natural numbers that is not empty has Min as its least element.
LEMMA Least ==
  ASSUME NEW S, S \subseteq Nat, S # {}
  PROVE  Min(S) \in S /\ \A x \in S : Min(S) <= x
<1>1. \E m \in S : \A k \in S : m <= k
  BY Smallest
<1> QED
  BY <1>1 DEF Min

\* What split makes of a text, part by part.
LEMMA PartIs ==
  ASSUME NEW text \in Seq(Byte), NEW i \in Beginnings(text)
  PROVE  \E j \in i .. Len(text) :
           /\ Part(text, i) = SubSeq(text, i, j)
           /\ \A k \in i .. j : text[k] # Space
           /\ j = Len(text) \/ text[j + 1] = Space
<1> DEFINE n == Len(text)
           S == {j \in i .. n + 1 : j = n + 1 \/ text[j] = Space}
<1>1. n \in Nat /\ i \in 1 .. n /\ text[i] # Space
  BY DEF Beginnings
<1>2. Part(text, i) = SubSeq(text, i, Min(S) - 1)
  BY DEF Part
<1> HIDE DEF n
<1>3. S \subseteq Nat /\ n + 1 \in S
  BY <1>1
<1> DEFINE m == Min(S)
<1>4. m \in S /\ \A x \in S : m <= x
  <2> HIDE DEF S
  <2> QED
    BY <1>3, Least
<1> HIDE DEF m
<1>5. m \in i .. n + 1 /\ (m = n + 1 \/ text[m] = Space)
  BY <1>4
<1>6. m # i
  BY <1>1, <1>5
<1>7. m - 1 \in i .. n /\ m \in Nat /\ (m - 1) + 1 = m
  BY <1>1, <1>5, <1>6
<1>8. ASSUME NEW k \in i .. m - 1 PROVE text[k] # Space
  <2>1. k \in i .. n + 1 /\ ~(m <= k)
    BY <1>1, <1>5
  <2> QED
    BY <1>4, <2>1
<1>9. m - 1 = n \/ text[(m - 1) + 1] = Space
  BY <1>1, <1>5, <1>7
<1> QED
  BY <1>2, <1>7, <1>8, <1>9 DEF m, n

\* A score is at most the one of the token itself.
LEMMA TextScoreIs ==
  ASSUME NEW token, NEW text, NEW exact \in Nat
  PROVE  /\ TextScore(token, text, exact) \in Int
         /\ TextScore(token, text, exact) <= exact
         /\ TextScore(token, text, exact) = exact => text = token
  BY DEF TextScore, NoMatch

\* A part of a text is found in it at the beginning of a word.
LEMMA PartScore ==
  ASSUME NEW text \in Seq(Byte), NEW i \in Beginnings(text), NEW exact \in Nat, exact >= 250
  PROVE  TextScore(Part(text, i), text, exact) >= 0
<1> DEFINE n == Len(text)  part == Part(text, i)
<1>1. n \in Nat /\ i \in 1 .. n /\ (i = 1 \/ text[i - 1] = Space)
  BY DEF Beginnings
<1>2. PICK j \in i .. n : part = SubSeq(text, i, j)
  BY PartIs
<1>3. text # <<>>
  BY <1>1
<1>4. j \in Nat /\ j <= n /\ i <= j /\ i \in Nat
  BY <1>1, <1>2
<1>5. /\ part \in Seq(Byte) /\ Len(part) = (j - i) + 1
      /\ \A k \in 1 .. (j - i) + 1 : part[k] = text[(i + k) - 1]
  BY <1>1, <1>2, <1>4
<1> HIDE DEF part
<1>6. CASE i = 1
  <2>1. Len(part) = j /\ part = SubSeq(text, 1, j)
    BY <1>2, <1>4, <1>5, <1>6
  <2>2. SubSeq(part, 1, Len(part)) = part
    BY <1>5, SubSeqFull
  <2>3. IsPrefix(part, text)
    BY <1>4, <2>1, <2>2 DEF IsPrefix
  <2> QED
    BY <1>3, <2>3 DEF TextScore, part
<1>7. CASE i > 1 /\ text[i - 1] = Space
  <2> DEFINE word == <<Space>> \o part  t == SubSeq(text, i - 1, j)
  <2>1. i - 1 \in 1 .. n /\ i - 1 <= j /\ i - 1 \in Nat
    BY <1>1, <1>4, <1>7
  <2>2. /\ t \in Seq(Byte) /\ Len(t) = (j - i) + 2
        /\ \A k \in 1 .. (j - i) + 2 : t[k] = text[(i + k) - 2]
    BY <1>1, <1>4, <2>1
  <2>3. /\ word \in Seq(Byte) /\ Len(word) = (j - i) + 2 /\ word[1] = Space
        /\ \A k \in 2 .. (j - i) + 2 : word[k] = part[k - 1]
    BY <1>4, <1>5 DEF Byte, Space
  <2> HIDE DEF t, word
  <2>4. ASSUME NEW k \in 1 .. (j - i) + 2 PROVE t[k] = word[k]
    <3>1. CASE k = 1
      BY <1>4, <1>7, <2>2, <2>3, <3>1
    <3>2. CASE k # 1
      <4>1. k \in 2 .. (j - i) + 2 /\ k - 1 \in 1 .. (j - i) + 1
        BY <1>4, <3>2
      <4>2. word[k] = text[(i + (k - 1)) - 1] /\ t[k] = text[(i + k) - 2]
        BY <1>5, <2>2, <2>3, <4>1
      <4>3. (i + (k - 1)) - 1 = (i + k) - 2
        BY <1>4, <4>1
      <4> QED
        BY <4>2, <4>3
    <3> QED
      BY <3>1, <3>2
  <2>5. t = word
    BY <2>2, <2>3, <2>4, SeqEqual
  <2>6. /\ i - 1 \in 1 .. (n - Len(word)) + 1
        /\ ((i - 1) + Len(word)) - 1 = j
    BY <1>1, <1>4, <2>1, <2>3
  <2>7. Occurs(word, text)
    BY <2>5, <2>6 DEF Occurs, t
  <2> QED
    BY <1>3, <2>7 DEF TextScore, part, word
<1> QED
  BY <1>1, <1>6, <1>7

\* Normalized text that is a single part is that part.
LEMMA SinglePart ==
  ASSUME NEW text \in Seq(Byte), text # <<>>, text[1] # Space, text[Len(text)] # Space,
         \A i \in 2 .. Len(text) : text[i] # Space \/ text[i - 1] # Space,
         NEW b, Beginnings(text) = {b}
  PROVE  b = 1 /\ Part(text, 1) = text
<1> DEFINE n == Len(text)
<1>1. n \in Nat /\ n >= 1
  OBVIOUS
<1>0. SubSeq(text, 1, n) = text
  BY SubSeqFull
<1> HIDE DEF n
<1>2. 1 \in Beginnings(text)
  BY <1>1 DEF Beginnings, n
<1>3. b = 1
  BY <1>2
<1>4. PICK j \in 1 .. n : /\ Part(text, 1) = SubSeq(text, 1, j)
                          /\ j = n \/ text[j + 1] = Space
  BY <1>2, PartIs DEF n
<1>5. CASE j = n
  BY <1>0, <1>3, <1>4, <1>5
<1>6. CASE j # n
  <2>1. text[j + 1] = Space /\ j + 1 \in 1 .. n /\ j \in Nat
    BY <1>1, <1>4, <1>6
  <2>2. j + 1 # n
    BY <2>1 DEF n
  <2>3. j + 2 \in 2 .. n /\ (j + 2) - 1 = j + 1 /\ j + 2 # 1
    BY <1>1, <2>1, <2>2
  <2>4. text[j + 2] # Space
    BY <2>1, <2>3 DEF n
  <2>5. j + 2 \in Beginnings(text)
    BY <2>1, <2>3, <2>4 DEF Beginnings, n
  <2> QED
    BY <1>3, <2>3, <2>5
<1> QED
  BY <1>5, <1>6

\* The texts a token is compared with, and what each counts when it is the token.
ScoredTexts(document, locale) ==
  LET exact(l) == IF l = locale THEN 1000 ELSE 900
      texts(l) == {<<document.names[l], exact(l)>>}
                  \cup {<<keyword, exact(l) - 300>> : keyword \in document.keywords[l]}
  IN texts(locale) \cup texts(English)

\* What a text may count.
Counts(t, document, locale) ==
  t[2] \in 600 .. 1000 /\ (t[2] = 1000 => t[1] = document.names[locale])

\* Each text is among them.
HasTexts(document, locale) ==
  \A l \in {locale, English} : \A text \in {document.names[l]} \cup document.keywords[l] :
    \E t \in ScoredTexts(document, locale) : t[1] = text

\* Each counts at most 1000, the name in the locale alone so much, and none less than 600.
LEMMA ScoredTextsAre ==
  ASSUME NEW document, NEW locale
  PROVE  /\ \A t \in ScoredTexts(document, locale) : Counts(t, document, locale)
         /\ <<document.names[locale], 1000>> \in ScoredTexts(document, locale)
         /\ HasTexts(document, locale)
<1> DEFINE exact(l) == IF l = locale THEN 1000 ELSE 900
           texts(l) == {<<document.names[l], exact(l)>>}
                  \cup {<<keyword, exact(l) - 300>> : keyword \in document.keywords[l]}
<1>1. ScoredTexts(document, locale) = texts(locale) \cup texts(English)
  BY Zenon DEF ScoredTexts
<1>2. \A l : exact(l) \in 900 .. 1000 /\ (exact(l) = 1000 => l = locale)
  OBVIOUS
<1>3. exact(locale) = 1000
  OBVIOUS
<1>4. \A l : \A t \in texts(l) :
        \/ t[1] = document.names[l] /\ t[2] = exact(l)
        \/ t[1] \in document.keywords[l] /\ t[2] = exact(l) - 300
  OBVIOUS
<1>5. \A l : <<document.names[l], exact(l)>> \in texts(l)
  OBVIOUS
<1>6. \A l : \A keyword \in document.keywords[l] : <<keyword, exact(l) - 300>> \in texts(l)
  OBVIOUS
<1> HIDE DEF exact, texts
<1>7. ASSUME NEW t \in ScoredTexts(document, locale)
      PROVE  Counts(t, document, locale)
  <2>1. PICK l \in {locale, English} : t \in texts(l)
    BY <1>1
  <2>2. CASE t[1] = document.names[l] /\ t[2] = exact(l)
    BY <1>2, <2>2 DEF Counts
  <2>3. CASE t[1] \in document.keywords[l] /\ t[2] = exact(l) - 300
    BY <1>2, <2>3 DEF Counts
  <2> QED
    BY <1>4, <2>1, <2>2, <2>3
<1>8. <<document.names[locale], 1000>> \in ScoredTexts(document, locale)
  BY <1>1, <1>3, <1>5
<1>9. ASSUME NEW l \in {locale, English}, NEW text \in {document.names[l]} \cup document.keywords[l]
      PROVE  \E t \in ScoredTexts(document, locale) : t[1] = text
  <2>1. \E t \in texts(l) : t[1] = text
    <3>1. CASE text = document.names[l]
      <4>1. <<document.names[l], exact(l)>>[1] = text
        BY <3>1
      <4> QED
        BY Zenon, <1>5, <4>1
    <3>2. CASE text \in document.keywords[l]
      <4>1. <<text, exact(l) - 300>>[1] = text
        OBVIOUS
      <4> QED
        BY Zenon, <1>6, <3>2, <4>1
    <3> QED
      BY <3>1, <3>2
  <2> QED
    BY <1>1, <2>1
<1>10. HasTexts(document, locale)
  BY Zenon, <1>9 DEF HasTexts
<1> QED
  BY <1>7, <1>8, <1>10

\* A token scores at most 1000, which only the name in the locale reaches, and at least
\* what any of the texts gives it.
LEMMA DocumentScoreIs ==
  ASSUME NEW token, NEW document, NEW locale
  PROVE  LET score == DocumentScore(token, document, locale)
         IN /\ score \in Int /\ score <= 1000
            /\ score = 1000 => document.names[locale] = token
            /\ \A t \in ScoredTexts(document, locale) : TextScore(token, t[1], t[2]) <= score
<1> DEFINE T == ScoredTexts(document, locale)
           S == {TextScore(token, t[1], t[2]) : t \in T}
<1>1. DocumentScore(token, document, locale) = Max(S)
  BY Zenon DEF DocumentScore, ScoredTexts
<1>2. (\A t \in T : Counts(t, document, locale)) /\ T # {}
  <2>1. \A t \in T : Counts(t, document, locale)
    BY ZenonT(60), ScoredTextsAre
  <2>2. T # {}
    BY ZenonT(60), ScoredTextsAre
  <2> QED
    BY <2>1, <2>2
<1> HIDE DEF T
<1>3. ASSUME NEW t \in T
      PROVE  /\ TextScore(token, t[1], t[2]) \in Int
             /\ TextScore(token, t[1], t[2]) <= 1000
             /\ TextScore(token, t[1], t[2]) = 1000 => document.names[locale] = token
  <2>1. t[2] \in Nat /\ t[2] <= 1000 /\ (t[2] = 1000 => t[1] = document.names[locale])
    BY <1>2 DEF Counts
  <2>2. /\ TextScore(token, t[1], t[2]) \in Int
        /\ TextScore(token, t[1], t[2]) <= t[2]
        /\ TextScore(token, t[1], t[2]) = t[2] => t[1] = token
    BY <2>1, TextScoreIs
  <2> QED
    BY <2>1, <2>2
<1>4. S \subseteq Int /\ S # {} /\ \A x \in S : x <= 1000
  BY <1>2, <1>3
<1>5. Max(S) \in S /\ \A x \in S : x <= Max(S)
  <2> DEFINE most == 1000
  <2>1. most \in Int /\ \A x \in S : x <= most
    BY <1>4
  <2> HIDE DEF S, most
  <2> QED
    BY ZenonT(60), <1>4, <2>1, Greatest
<1>6. PICK t \in T : Max(S) = TextScore(token, t[1], t[2])
  BY <1>5
<1>7. \A u \in T : TextScore(token, u[1], u[2]) <= Max(S)
  BY <1>5
<1> HIDE DEF S
<1> QED
  BY <1>1, <1>3, <1>6, <1>7 DEF T

\* The sum of the scores is defined.
LEMMA TotalScoreIs ==
  ASSUME NEW text \in Seq(Byte), NEW document, NEW locale
  PROVE  LET score(i) == DocumentScore(Part(text, i), document, locale)
             total    == TotalScore(text, document, locale)
         IN /\ total \in Int
            /\ (\A i \in Beginnings(text) : score(i) >= 0) => total >= 0
            /\ Beginnings(text) = {1} /\ score(1) >= 0 => total = score(1)
            /\ (\E i \in Beginnings(text) : score(i) < 0) => total = NoMatch
<1> DEFINE N == Len(text)  B == Beginnings(text)
           score == [i \in B |-> DocumentScore(Part(text, i), document, locale)]
           part(n) == IF n \in B THEN score[n] ELSE 0
           step == [i \in Nat |-> [n \in Int |-> n + part(i)]]
           Is(f) == f = [n \in 0 .. N |-> IF n = 0 THEN 0 ELSE f[n - 1] + part(n)]
           total == CHOOSE f : Is(f)
<1>1. N \in Nat /\ B \subseteq 1 .. N
  BY DEF Beginnings
<1>2. \A i \in B : score[i] \in Int
  BY DocumentScoreIs
<1>3. TotalScore(text, document, locale) =
        IF \E i \in B : score[i] < 0 THEN NoMatch ELSE total[N]
  BY Zenon DEF TotalScore
<1>4. \A i \in B : score[i] = DocumentScore(Part(text, i), document, locale)
  OBVIOUS
<1> HIDE DEF score, N, B
<1>5. \A n : part(n) \in Int
  BY <1>2
<1>6. step \in [Nat -> [Int -> Int]]
  <2> HIDE DEF part
  <2>1. \A i \in Nat : \A n \in Int : n + part(i) \in Int
    BY <1>5
  <2> QED
    BY <2>1
<1>7. PICK g \in [0 .. N -> Int] : Computes(g, N, 0, step)
  <2> HIDE DEF step
  <2>1. 0 \in Int
    OBVIOUS
  <2> QED
    BY <1>1, <1>6, <2>1, RecursionIsDefined
<1>8. Is(g)
  <2> HIDE DEF part
  <2>1. \A n \in 0 .. N : g[n] = IF n = 0 THEN 0 ELSE g[n - 1] + part(n)
    <3> TAKE n \in 0 .. N
    <3>1. CASE n = 0
      BY <1>7, <3>1 DEF Computes
    <3>2. CASE n # 0
      <4>1. n \in 1 .. N /\ n - 1 \in 0 .. N /\ n \in Nat
        BY <1>1, <3>2
      <4>2. g[n] = step[n][g[n - 1]] /\ g[n - 1] \in Int
        BY <1>7, <4>1 DEF Computes
      <4> QED
        BY <3>2, <4>1, <4>2
    <3> QED
      BY <3>1, <3>2
  <2> QED
    BY <2>1
<1>9. Is(total)
  <2> HIDE DEF Is
  <2> QED
    BY <1>8
<1> HIDE DEF total
<1>10. \A n \in 0 .. N : total[n] = IF n = 0 THEN 0 ELSE total[n - 1] + part(n)
  <2> HIDE DEF part
  <2> QED
    BY <1>9
<1>11. total[0] = 0 /\ \A n \in 0 .. N - 1 : total[n + 1] = total[n] + part(n + 1)
  <2> HIDE DEF part
  <2>1. \A n \in 0 .. N - 1 : n + 1 \in 0 .. N /\ n + 1 # 0 /\ (n + 1) - 1 = n
    BY <1>1
  <2> QED
    BY <1>1, <1>10, <2>1
<1> HIDE DEF Is
<1>12. total[N] \in Int
  <2> DEFINE T == {n \in 0 .. N : total[n] \in Int}
  <2>1. 0 \in T
    BY <1>1, <1>11
  <2>2. ASSUME NEW n \in 0 .. N - 1, n \in T PROVE n + 1 \in T
    <3>1. n + 1 \in 0 .. N /\ total[n + 1] = total[n] + part(n + 1) /\ part(n + 1) \in Int
      BY <1>1, <1>5, <1>11
    <3> HIDE DEF part
    <3> QED
      BY <2>2, <3>1
  <2> HIDE DEF T
  <2>3. \A n \in 0 .. N : n \in T
    BY <1>1, <2>1, <2>2, InductionUpTo
  <2> QED
    BY <1>1, <2>3 DEF T
<1>13. ASSUME \A i \in B : score[i] >= 0 PROVE total[N] >= 0
  <2> DEFINE T == {n \in 0 .. N : total[n] \in Nat}
  <2>1. 0 \in T
    BY <1>1, <1>11
  <2>2. ASSUME NEW n \in 0 .. N - 1, n \in T PROVE n + 1 \in T
    <3>1. n + 1 \in 0 .. N /\ total[n + 1] = total[n] + part(n + 1)
      BY <1>1, <1>11
    <3>2. part(n + 1) \in Nat
      BY <1>2, <1>13
    <3> HIDE DEF part
    <3> QED
      BY <2>2, <3>1, <3>2
  <2> HIDE DEF T
  <2>3. \A n \in 0 .. N : n \in T
    BY <1>1, <2>1, <2>2, InductionUpTo
  <2> QED
    BY <1>1, <2>3 DEF T
<1>14. ASSUME B = {1} PROVE total[N] = score[1]
  <2> DEFINE T == {n \in 0 .. N : n >= 1 => total[n] = score[1]}
  <2>1. 0 \in T
    BY <1>1
  <2>2. ASSUME NEW n \in 0 .. N - 1, n \in T PROVE n + 1 \in T
    <3>1. n + 1 \in 0 .. N /\ total[n + 1] = total[n] + part(n + 1)
      BY <1>1, <1>11
    <3>2. CASE n = 0
      <4>1. part(1) = score[1] /\ score[1] \in Int /\ 0 + 1 = 1
        BY <1>2, <1>14
      <4> HIDE DEF part
      <4> QED
        BY <1>11, <3>1, <3>2, <4>1
    <3>3. CASE n # 0
      <4>1. part(n + 1) = 0 /\ n >= 1 /\ score[1] \in Int
        BY <1>1, <1>2, <1>14, <3>3
      <4> HIDE DEF part
      <4> QED
        BY <2>2, <3>1, <4>1
    <3> QED
      BY <3>2, <3>3
  <2> HIDE DEF T
  <2>3. \A n \in 0 .. N : n \in T
    BY <1>1, <2>1, <2>2, InductionUpTo
  <2>4. N >= 1 /\ N \in 0 .. N
    BY <1>1, <1>14
  <2> QED
    BY <2>3, <2>4 DEF T
<1>15. NoMatch \in Int
  BY DEF NoMatch
<1> HIDE DEF part
<1>16. \A i \in B : score[i] < 0 <=> ~(score[i] >= 0)
  BY <1>2
<1> QED
  BY <1>3, <1>4, <1>12, <1>13, <1>14, <1>15, <1>16 DEF B

\* A match is an emoji with its score; no emoji has two.
AreMatches(C) ==
  /\ IsFiniteSet(C)
  /\ \A c \in C : c = [index |-> c.index, score |-> c.score] /\ c.index \in Nat /\ c.score \in Int

\* How many matches are better.
RankIn(C, c) == Cardinality({d \in C : Better(d, c)})

\* The candidates of a query are.
LEMMA CandidatesAre ==
  ASSUME NEW text \in Seq(Byte), NEW locale
  PROVE  /\ AreMatches(Candidates(text, locale))
         /\ \A i \in DOMAIN Documents :
              TotalScore(text, SearchDocuments[i], locale) # NoMatch =>
                [index |-> i, score |-> TotalScore(text, SearchDocuments[i], locale)]
                  \in Candidates(text, locale)
         /\ \A c \in Candidates(text, locale) :
              /\ c.index \in DOMAIN Documents
              /\ c.score = TotalScore(text, SearchDocuments[c.index], locale)
              /\ c.score # NoMatch
<1> DEFINE I == DOMAIN Documents
           score(i) == TotalScore(text, SearchDocuments[i], locale)
           match(i) == [index |-> i, score |-> score(i)]
           f == [i \in I |-> match(i)]
           M == {match(i) : i \in I}
           C == Candidates(text, locale)
<1>1. IsFiniteSet(I) /\ I \subseteq Nat
  <2>1. Len(Documents) \in Nat /\ I = 1 .. Len(Documents)
    BY SearchAssumption
  <2>2. IsFiniteSet(1 .. Len(Documents))
    BY <2>1, FS_Interval
  <2> QED
    BY <2>1, <2>2
<1>2. C = {c \in M : c.score # NoMatch}
  BY Zenon DEF Candidates
<1>3. \A i \in I : score(i) \in Int
  BY TotalScoreIs
<1> HIDE DEF score, I, C
<1>4. \A i \in I : match(i).index = i /\ match(i).score = score(i)
  OBVIOUS
<1>5. \A i \in I : match(i) = [index |-> match(i).index, score |-> match(i).score]
  OBVIOUS
<1> HIDE DEF match
<1>6. IsFiniteSet(M)
  <2>1. f \in [I -> M] /\ \A m \in M : \E i \in I : f[i] = m
    OBVIOUS
  <2>2. f \in Surjection(I, M)
    BY <2>1 DEF Surjection
  <2> HIDE DEF f, M
  <2> QED
    BY <1>1, <2>2, FS_Surjection
<1>7. C \subseteq M
  BY <1>2
<1>8. IsFiniteSet(C)
  <2> HIDE DEF M
  <2> QED
    BY <1>6, <1>7, FS_Subset
<1>9. ASSUME NEW c \in C
      PROVE  /\ c = [index |-> c.index, score |-> c.score]
             /\ c.index \in I /\ c.score = score(c.index) /\ c.score # NoMatch
  <2>1. PICK i \in I : c = match(i)
    BY <1>7
  <2>2. c.score # NoMatch
    BY <1>2
  <2> HIDE DEF M
  <2> QED
    BY Zenon, <1>4, <1>5, <2>1, <2>2
<1>10. \A c \in C : c.index \in Nat /\ c.score \in Int
  BY <1>1, <1>3, <1>9
<1>11. \A i \in I : score(i) # NoMatch => match(i) \in C
  BY Zenon, <1>2, <1>4
<1>12. AreMatches(C)
  BY Zenon, <1>8, <1>9, <1>10 DEF AreMatches
<1> QED
  BY Zenon, <1>9, <1>11, <1>12 DEF match, score, I, C

\* A match better than a better one is better, and of two matches one is.
LEMMA BetterIs ==
  ASSUME NEW C, AreMatches(C), NEW c \in C, NEW d \in C
  PROVE  /\ ~Better(c, c)
         /\ c = d \/ Better(c, d) \/ Better(d, c)
         /\ \A e \in C : Better(e, c) /\ Better(c, d) => Better(e, d)
<1>1. \A m \in C : m.index \in Nat /\ m.score \in Int
  BY Zenon DEF AreMatches
<1>2. c.index = d.index /\ c.score = d.score => c = d
  BY Zenon DEF AreMatches
<1> QED
  BY <1>1, <1>2 DEF Better

\* The worse one has the higher rank.
LEMMA WorseRanksLower ==
  ASSUME NEW C, AreMatches(C), NEW c \in C, NEW d \in C, Better(c, d)
  PROVE  RankIn(C, c) < RankIn(C, d)
<1> DEFINE Above(m) == {e \in C : Better(e, m)}
<1>1. IsFiniteSet(C)
  BY DEF AreMatches
<1>2. Above(c) \subseteq Above(d)
  BY BetterIs
<1>3. c \in Above(d) /\ c \notin Above(c)
  BY BetterIs
<1>4. IsFiniteSet(Above(d))
  <2>1. Above(d) \in SUBSET C
    OBVIOUS
  <2> HIDE DEF Above
  <2> QED
    BY <1>1, <2>1, FS_Subset
<1> HIDE DEF Above
<1>5. /\ IsFiniteSet(Above(c)) /\ Cardinality(Above(c)) <= Cardinality(Above(d))
      /\ Cardinality(Above(d)) = Cardinality(Above(c)) => Above(d) = Above(c)
  BY <1>2, <1>4, FS_Subset
<1>6. Cardinality(Above(c)) \in Nat /\ Cardinality(Above(d)) \in Nat
  BY <1>4, <1>5, FS_CardinalityType
<1>7. Cardinality(Above(c)) # Cardinality(Above(d))
  BY <1>3, <1>5
<1>8. Cardinality(Above(c)) < Cardinality(Above(d))
  BY <1>5, <1>6, <1>7
<1> QED
  BY <1>8 DEF Above, RankIn

\* The ranks lead to the matches.
LEMMA RanksAre ==
  ASSUME NEW C, AreMatches(C), NEW c \in C
  PROVE  /\ RankIn(C, c) \in 0 .. Cardinality(C) - 1 /\ Cardinality(C) \in Nat
         /\ (CHOOSE m \in C : RankIn(C, m) = RankIn(C, c)) = c
<1> DEFINE Above == {e \in C : Better(e, c)}
<1>1. IsFiniteSet(C)
  BY DEF AreMatches
<1>2. Above \in SUBSET C /\ c \notin Above /\ c \in C
  BY BetterIs
<1> HIDE DEF Above
<1>3. /\ IsFiniteSet(Above) /\ Cardinality(Above) <= Cardinality(C)
      /\ Cardinality(C) = Cardinality(Above) => C = Above
  BY <1>1, <1>2, FS_Subset
<1>4. Cardinality(Above) \in Nat /\ Cardinality(C) \in Nat
  BY <1>1, <1>3, FS_CardinalityType
<1>5. Cardinality(C) # Cardinality(Above)
  BY <1>2, <1>3
<1>6. Cardinality(Above) \in 0 .. Cardinality(C) - 1
  BY <1>3, <1>4, <1>5
<1>7. ASSUME NEW m \in C, RankIn(C, m) = RankIn(C, c) PROVE m = c
  <2>1. RankIn(C, c) \in Int
    BY <1>4 DEF RankIn, Above
  <2>2. ~Better(m, c) /\ ~Better(c, m)
    <3>1. ASSUME Better(m, c) PROVE FALSE
      <4>1. RankIn(C, m) < RankIn(C, c)
        BY <3>1, WorseRanksLower
      <4> QED
        BY <1>7, <2>1, <4>1
    <3>2. ASSUME Better(c, m) PROVE FALSE
      <4>1. RankIn(C, c) < RankIn(C, m)
        BY <3>2, WorseRanksLower
      <4> QED
        BY <1>7, <2>1, <4>1
    <3> QED
      BY <3>1, <3>2
  <2> QED
    BY <2>2, BetterIs
<1>8. (CHOOSE m \in C : RankIn(C, m) = RankIn(C, c)) = c
  BY Zenon, <1>7
<1> QED
  BY <1>4, <1>6, <1>8 DEF RankIn, Above

\* An emoji of the catalog and its texts.
LEMMA DocumentIs ==
  ASSUME NEW i \in DOMAIN Documents, NEW l \in Locales
  PROVE  /\ Documents[i].names[l] \in Seq(Byte)
         /\ \A keyword \in Range(Documents[i].keywords[l]) : keyword \in Seq(Byte)
         /\ SearchDocuments[i].names[l] = NormalizeForSearch(Documents[i].names[l])
         /\ SearchDocuments[i].keywords[l] =
              {NormalizeForSearch(k) : k \in Range(Documents[i].keywords[l])}
<1> DEFINE d == Documents[i]
<1>1. d \in [sequence : Seq(Byte), names : [Locales -> Seq(Byte)],
             keywords : [Locales -> Seq(Seq(Byte))]]
  <2> DEFINE R == [sequence : Seq(Byte), names : [Locales -> Seq(Byte)],
                   keywords : [Locales -> Seq(Seq(Byte))]]
  <2>1. Documents \in Seq(R)
    BY SearchAssumption
  <2> HIDE DEF R
  <2>2. Documents[i] \in R
    BY <2>1
  <2> QED
    BY <2>2 DEF R
<1>2. d.names \in [Locales -> Seq(Byte)] /\ d.keywords \in [Locales -> Seq(Seq(Byte))]
  BY <1>1
<1>3. d.names[l] \in Seq(Byte) /\ d.keywords[l] \in Seq(Seq(Byte))
  BY <1>2
<1>4. \A keyword \in Range(d.keywords[l]) : keyword \in Seq(Byte)
  BY <1>3 DEF Range
<1>5. /\ SearchDocuments[i].names[l] = NormalizeForSearch(d.names[l])
      /\ SearchDocuments[i].keywords[l] = {NormalizeForSearch(k) : k \in Range(d.keywords[l])}
  BY DEF SearchDocuments
<1> QED
  BY <1>3, <1>4, <1>5

\* What an emoji is called in the locale or in English.
TextsOf(i, locale) ==
  UNION {{Documents[i].names[l]} \cup Range(Documents[i].keywords[l]) : l \in {locale, English}}

\* Each part of it is a token that the emoji matches.
LEMMA OwnScore ==
  ASSUME NEW i \in DOMAIN Documents, NEW locale \in Locales, NEW query \in TextsOf(i, locale),
         NEW k \in Beginnings(NormalizeForSearch(query))
  PROVE  DocumentScore(Part(NormalizeForSearch(query), k), SearchDocuments[i], locale) >= 0
<1> DEFINE text == NormalizeForSearch(query)  d == SearchDocuments[i]  token == Part(text, k)
<1>1. PICK l \in {locale, English} :
        query \in {Documents[i].names[l]} \cup Range(Documents[i].keywords[l])
  BY DEF TextsOf
<1>2. l \in Locales
  BY SearchAssumption
<1>3. query \in Seq(Byte) /\ text \in {d.names[l]} \cup d.keywords[l]
  BY <1>1, <1>2, DocumentIs
<1>4. text \in Seq(Byte)
  BY <1>3, NormalizedSettles
<1> HIDE DEF text, d
<1>5. PICK t \in ScoredTexts(d, locale) : t[1] = text
  <2>1. HasTexts(d, locale)
    BY ZenonT(60), ScoredTextsAre
  <2> QED
    BY Zenon, <1>3, <2>1 DEF HasTexts
<1>6. Counts(t, d, locale)
  BY ZenonT(60), ScoredTextsAre
<1>7. t[2] \in Nat /\ t[2] >= 250
  BY <1>6 DEF Counts
<1>8. k \in Beginnings(text)
  BY DEF text
<1>9. TextScore(token, text, t[2]) >= 0
  BY <1>4, <1>7, <1>8, PartScore
<1>10. TextScore(token, t[1], t[2]) <= DocumentScore(token, d, locale)
  BY DocumentScoreIs
<1>11. DocumentScore(token, d, locale) \in Int /\ TextScore(token, text, t[2]) \in Int
  BY <1>7, DocumentScoreIs, TextScoreIs
<1>12. TextScore(token, text, t[2]) <= DocumentScore(token, d, locale)
  BY <1>5, <1>10
<1> HIDE DEF token
<1>13. DocumentScore(token, d, locale) >= 0
  BY <1>9, <1>11, <1>12
<1> QED
  BY <1>13 DEF token, d, text

\* The text that is typed for an emoji is not empty, nor an emoji itself.
IsTyped(query) ==
  NormalizeForSearch(query) # <<>> /\ \A j \in DOMAIN Documents : Documents[j].sequence # query

\* The results are the candidates by their ranks, up to the limit.
LEMMA SearchIs ==
  ASSUME NEW query \in Seq(Byte), IsTyped(query), NEW locale, Limit # 0
  PROVE  LET C     == Candidates(NormalizeForSearch(query), locale)
             found == Search(query, locale)
         IN /\ Len(found) \in Nat /\ DOMAIN found = 1 .. Len(found)
            /\ (Len(found) = Cardinality(C) \/ Len(found) = Limit)
            /\ \A c \in C : RankIn(C, c) < Limit =>
                 RankIn(C, c) + 1 \in 1 .. Len(found) /\ found[RankIn(C, c) + 1] = c.index
<1> DEFINE text == NormalizeForSearch(query)
           C == Candidates(text, locale)
           n == Min({Limit, Cardinality(C)})
           at(r) == CHOOSE c \in C : RankIn(C, c) = r
           found == [k \in 1 .. n |-> at(k - 1).index]
<1>1. AreMatches(C)
  BY NormalizedSettles, CandidatesAre
<1>2. {i \in DOMAIN Documents : Documents[i].sequence = query} = {} /\ text # <<>>
  BY DEF IsTyped
<1>3. Search(query, locale) = found
  BY Zenon, <1>2 DEF Search, RankIn
<1>4. Cardinality(C) \in Nat
  BY <1>1, FS_CardinalityType DEF AreMatches
<1>5. Limit \in Nat /\ Limit # 0
  BY SearchAssumption
<1> HIDE DEF C, text
<1>6. n \in Nat /\ (n = Limit \/ n = Cardinality(C))
      /\ \A x \in {Limit, Cardinality(C)} : n <= x
  <2> DEFINE S == {Limit, Cardinality(C)}
  <2>1. S \subseteq Nat /\ S # {}
    BY <1>4, <1>5
  <2>2. Min(S) \in S /\ \A x \in S : Min(S) <= x
    <3> HIDE DEF S
    <3> QED
      BY <2>1, Least
  <2> QED
    BY <2>1, <2>2
<1> HIDE DEF n
<1>7. Len(found) = n /\ DOMAIN found = 1 .. n
  <2> DEFINE value(k) == at(k - 1).index
  <2> HIDE DEF value
  <2>1. Len([k \in 1 .. n |-> value(k)]) = n
    BY <1>6
  <2> QED
    BY <2>1 DEF value
<1>8. ASSUME NEW c \in C, RankIn(C, c) < Limit
      PROVE  RankIn(C, c) + 1 \in 1 .. n /\ found[RankIn(C, c) + 1] = c.index
  <2> DEFINE r == RankIn(C, c)
  <2>1. r \in 0 .. Cardinality(C) - 1 /\ at(r) = c
    BY Zenon, <1>1, RanksAre
  <2> HIDE DEF r, at
  <2>2. r + 1 \in 1 .. n /\ (r + 1) - 1 = r
    BY <1>4, <1>5, <1>6, <1>8, <2>1 DEF r
  <2>3. found[r + 1] = at(r).index
    BY <2>2
  <2> QED
    BY <2>1, <2>2, <2>3 DEF r
<1> HIDE DEF found
<1>9. /\ Len(found) \in Nat /\ (Len(found) = Cardinality(C) \/ Len(found) = Limit)
      /\ \A c \in C : RankIn(C, c) < Limit =>
           RankIn(C, c) + 1 \in 1 .. Len(found) /\ found[RankIn(C, c) + 1] = c.index
  BY <1>6, <1>7, <1>8
<1>10. DOMAIN found = 1 .. Len(found)
  BY <1>7
<1> QED
  BY Zenon, <1>3, <1>9, <1>10 DEF C, text

\* An emoji is among the results of what it is called.
LEMMA FoundByTexts ==
  ASSUME NEW i \in DOMAIN Documents, NEW locale \in Locales, NEW query \in TextsOf(i, locale),
         IsTyped(query), Len(Search(query, locale)) < Limit
  PROVE  i \in Range(Search(query, locale))
<1> DEFINE text == NormalizeForSearch(query)  C == Candidates(text, locale)
           d == SearchDocuments[i]  total == TotalScore(text, d, locale)
           found == Search(query, locale)  c == [index |-> i, score |-> total]
<1>1. query \in Seq(Byte)
  <2>1. PICK l \in {locale, English} :
          query \in {Documents[i].names[l]} \cup Range(Documents[i].keywords[l])
    BY DEF TextsOf
  <2> QED
    BY <2>1, SearchAssumption, DocumentIs
<1>2. text \in Seq(Byte)
  BY <1>1, NormalizedSettles
<1>3. \A k \in Beginnings(text) : DocumentScore(Part(text, k), d, locale) >= 0
  BY OwnScore
<1>4. total \in Int /\ total >= 0
  <2> HIDE DEF text, d
  <2> QED
    BY <1>2, <1>3, TotalScoreIs
<1> HIDE DEF text
<1>5. total # NoMatch
  BY <1>4 DEF NoMatch
<1>6. c \in C /\ AreMatches(C)
  BY Zenon, <1>2, <1>5, CandidatesAre
<1>7. c.index = i
  OBVIOUS
<1> HIDE DEF C, c, total
<1>8. RankIn(C, c) \in 0 .. Cardinality(C) - 1 /\ Cardinality(C) \in Nat
  BY Zenon, <1>6, RanksAre
<1>10. Limit # 0
  <2> SUFFICES ASSUME Limit = 0 PROVE FALSE
    OBVIOUS
  <2>1. found = <<>>
    BY DEF Search
  <2>2. Len(found) = 0
    BY <2>1
  <2> QED
    BY <2>2
<1>11. /\ Len(found) \in Nat /\ DOMAIN found = 1 .. Len(found)
       /\ (Len(found) = Cardinality(C) \/ Len(found) = Limit)
       /\ \A m \in C : RankIn(C, m) < Limit =>
            RankIn(C, m) + 1 \in 1 .. Len(found) /\ found[RankIn(C, m) + 1] = m.index
  BY Zenon, <1>1, <1>10, SearchIs DEF C, text
<1>12. Limit \in Nat
  BY SearchAssumption
<1>13. Len(found) < Limit
  OBVIOUS
<1> HIDE DEF found
<1>14. RankIn(C, c) < Limit
  BY <1>8, <1>11, <1>12, <1>13
<1>15. RankIn(C, c) + 1 \in 1 .. Len(found) /\ found[RankIn(C, c) + 1] = i
  BY <1>6, <1>7, <1>11, <1>14
<1> QED
  <2>1. \E k \in 1 .. Len(found) : found[k] = i
    BY <1>15
  <2>2. DOMAIN found = 1 .. Len(found)
    BY <1>11
  <2> QED
    BY <2>1, <2>2 DEF Range, found

\* A token that is all of a query: it scores 1000 where it is the name, and nowhere more.
LEMMA SingleScore ==
  ASSUME NEW text \in Seq(Byte), text # <<>>, Beginnings(text) = {1}, Part(text, 1) = text,
         NEW document, NEW locale
  PROVE  LET total == TotalScore(text, document, locale)
         IN /\ document.names[locale] = text => total = 1000
            /\ total # NoMatch => total <= 1000 /\ (total = 1000 => document.names[locale] = text)
<1> DEFINE score == DocumentScore(text, document, locale)
           total == TotalScore(text, document, locale)
<1>1. /\ score \in Int /\ score <= 1000
      /\ score = 1000 => document.names[locale] = text
  BY DocumentScoreIs
<1>2. /\ score >= 0 => total = score
      /\ score < 0 => total = NoMatch
  BY TotalScoreIs
<1>3. document.names[locale] = text => score = 1000
  <2> SUFFICES ASSUME document.names[locale] = text PROVE score = 1000
    OBVIOUS
  <2> DEFINE t == <<text, 1000>>
  <2>1. t \in ScoredTexts(document, locale)
    BY ScoredTextsAre
  <2>2. TextScore(text, t[1], t[2]) <= score
    BY <2>1, DocumentScoreIs
  <2>3. TextScore(text, text, 1000) = 1000
    BY DEF TextScore
  <2> QED
    BY <1>1, <2>2, <2>3
<1> HIDE DEF score, total
<1>4. score < 0 \/ score >= 0
  BY <1>1
<1> QED
  BY <1>1, <1>2, <1>3, <1>4 DEF total

\* Of equal scores no other is better than the first one's.
LEMMA FirstRanksFirst ==
  ASSUME NEW C, AreMatches(C), NEW c \in C, NEW most \in Int, c.score = most,
         \A d \in C : d.score <= most /\ (d.score = most => c.index <= d.index)
  PROVE  RankIn(C, c) = 0
<1>1. c.index \in Nat /\ \A d \in C : d.index \in Nat /\ d.score \in Int
  BY Zenon DEF AreMatches
<1>2. \A d \in C : ~Better(d, c)
  BY <1>1 DEF Better
<1>3. {d \in C : Better(d, c)} = {}
  BY Zenon, <1>2
<1> QED
  BY <1>3, FS_EmptySet DEF RankIn

\* An emoji whose name is the single word that was typed comes first.
LEMMA NameComesFirst ==
  ASSUME NEW i \in DOMAIN Documents, NEW locale \in Locales,
         IsTyped(Documents[i].names[locale]), Limit > 0,
         Cardinality(Beginnings(SearchDocuments[i].names[locale])) = 1
  PROVE  SearchDocuments[Search(Documents[i].names[locale], locale)[1]].names[locale]
           = SearchDocuments[i].names[locale]
<1> DEFINE name == Documents[i].names[locale]
           text == NormalizeForSearch(name)
           C == Candidates(text, locale)
           Name(j) == SearchDocuments[j].names[locale]
           total(j) == TotalScore(text, SearchDocuments[j], locale)
           found == Search(name, locale)
<1>1. name \in Seq(Byte) /\ Name(i) = text
  BY DocumentIs
<1>2. text \in Seq(Byte) /\ Settled(text) /\ text # <<>>
  BY <1>1, NormalizedSettles DEF IsTyped
<1>3. IsTyped(name) /\ Limit \in Nat /\ Limit > 0 /\ Cardinality(Beginnings(text)) = 1
  BY <1>1, SearchAssumption
<1>4. /\ Len(found) \in Nat
      /\ \A c \in C : RankIn(C, c) < Limit => found[RankIn(C, c) + 1] = c.index
  BY <1>1, <1>3, SearchIs
<1> HIDE DEF text, found, name
<1>5. Beginnings(text) = {1} /\ Part(text, 1) = text
  <2>1. IsFiniteSet(Beginnings(text))
    <3>1. IsFiniteSet(1 .. Len(text)) /\ Beginnings(text) \in SUBSET (1 .. Len(text))
      <4>1. Len(text) \in Int /\ DOMAIN text = 1 .. Len(text)
        BY <1>2
      <4>2. IsFiniteSet(1 .. Len(text))
        BY <4>1, FS_Interval
      <4> QED
        BY <4>1, <4>2 DEF Beginnings
    <3> QED
      BY <3>1, FS_Subset
  <2>2. PICK b : Beginnings(text) = {b}
    BY <1>3, <2>1, FS_Singleton
  <2>3. /\ text[1] # Space /\ text[Len(text)] # Space
        /\ \A k \in 2 .. Len(text) : text[k] # Space \/ text[k - 1] # Space
    BY Zenon, <1>2 DEF Settled, Last
  <2> QED
    BY <1>2, <2>2, <2>3, SinglePart
<1>6. ASSUME NEW j
      PROVE  /\ Name(j) = text => total(j) = 1000
             /\ total(j) # NoMatch => total(j) <= 1000 /\ (total(j) = 1000 => Name(j) = text)
  BY <1>2, <1>5, SingleScore
<1>7. /\ AreMatches(C)
      /\ \A j \in DOMAIN Documents : total(j) # NoMatch => [index |-> j, score |-> total(j)] \in C
      /\ \A c \in C : /\ c.index \in DOMAIN Documents
                      /\ c.score = total(c.index) /\ c.score # NoMatch
  BY Zenon, <1>2, CandidatesAre
<1> HIDE DEF C, total, Name
<1>8. [index |-> i, score |-> 1000] \in C
  <2>1. total(i) = 1000
    BY <1>1, <1>6
  <2>2. total(i) # NoMatch
    BY <2>1 DEF NoMatch
  <2>3. [index |-> i, score |-> total(i)] \in C
    BY <1>7, <2>2
  <2> QED
    BY <2>1, <2>3
<1>9. \A c \in C : c.score <= 1000 /\ (c.score = 1000 => Name(c.index) = text)
  BY <1>6, <1>7
<1>10. \A c \in C : c.index \in Nat
  BY Zenon, <1>7 DEF AreMatches
<1> DEFINE B == {n \in Nat : \E c \in C : c.index = n /\ c.score = 1000}
<1>11. PICK m \in B : \A n \in B : m <= n
  <2>1. B \subseteq Nat
    OBVIOUS
  <2>2. i \in B
    BY <1>8, <1>10
  <2> HIDE DEF B
  <2> QED
    BY <2>1, <2>2, Smallest
<1>12. PICK c \in C : c.index = m /\ c.score = 1000
  BY <1>11
<1>13. \A d \in C : d.score = 1000 => c.index <= d.index
  BY <1>10, <1>11, <1>12
<1>14. RankIn(C, c) = 0
  <2> DEFINE most == 1000
  <2>1. most \in Int /\ c.score = most
        /\ \A d \in C : d.score <= most /\ (d.score = most => c.index <= d.index)
    BY <1>9, <1>12, <1>13
  <2> HIDE DEF most
  <2> QED
    BY <1>7, <2>1, FirstRanksFirst
<1>15. found[1] = c.index
  BY <1>3, <1>4, <1>14
<1>16. Name(c.index) = text
  BY <1>9, <1>12
<1>17. Name(found[1]) = Name(i)
  BY <1>1, <1>15, <1>16
<1> QED
  BY Zenon, <1>17 DEF Name, found, name

\* An emoji is found by what it is called, for every catalog and every limit.
THEOREM NamesLeadToEmoji ==
  ASSUME NEW i \in DOMAIN Documents, NEW locale \in Locales
  PROVE  Finds(i, locale)
<1> DEFINE name == Documents[i].names[locale]
           Name(j) == SearchDocuments[j].names[locale]
<1>1. ASSUME NEW query \in TextsOf(i, locale), IsTyped(query),
             Len(Search(query, locale)) < Limit
      PROVE  i \in Range(Search(query, locale))
  BY <1>1, FoundByTexts
<1>2. ASSUME IsTyped(name), Limit > 0, Cardinality(Beginnings(Name(i))) = 1
      PROVE  Name(Search(name, locale)[1]) = Name(i)
  BY <1>2, NameComesFirst
<1> QED
  BY Zenon, <1>1, <1>2 DEF Finds, TextsOf, IsTyped

(***************************************************************************)
(* The matchers.                                                           *)
(***************************************************************************)

\* The layout all matchers should have.
CurrentLayout == IF group = NoGroup THEN US ELSE SplitLayout(group)

\* A matcher that never had other shortcuts or another layout.
Fresh(layout, shortcuts) ==
  Rebuilt([layout |-> layout, shortcuts |-> shortcuts, physical |-> {}])

\* No matcher remembers what was configured or switched before.
MatchersCurrent ==
  /\ trigger  = Fresh(CurrentLayout, config)
  /\ favorite = Fresh(CurrentLayout, FavoriteChord)
  /\ variants = Fresh(CurrentLayout, VariantsChord)

PhysicalOf(layout, shortcuts) ==
  IF layout \in DOMAIN Keymaps \/ layout.name # "us"
  THEN UNION {PhysicalShortcuts(layout, s) : s \in shortcuts} ELSE {}

\* What rebuilding makes of a matcher.
LEMMA RebuiltMatcher ==
  ASSUME NEW layout, NEW shortcuts, NEW physical
  PROVE  Rebuilt([layout |-> layout, shortcuts |-> shortcuts, physical |-> physical])
           = [layout |-> layout, shortcuts |-> shortcuts,
              physical |-> PhysicalOf(layout, shortcuts)]
  BY DEF Rebuilt, PhysicalOf

LEMMA FreshMatcher ==
  ASSUME NEW layout, NEW shortcuts
  PROVE  Fresh(layout, shortcuts) = [layout |-> layout, shortcuts |-> shortcuts,
                                     physical |-> PhysicalOf(layout, shortcuts)]
  BY RebuiltMatcher DEF Fresh

\* Another layout leaves a fresh matcher fresh, and so do other shortcuts.
LEMMA WithLayoutFresh ==
  ASSUME NEW layout, NEW shortcuts, NEW parts
  PROVE  WithLayout(Fresh(layout, shortcuts), parts) = Fresh(SplitLayout(parts), shortcuts)
<1> DEFINE m == [layout |-> layout, shortcuts |-> shortcuts,
                 physical |-> PhysicalOf(layout, shortcuts)]
<1>1. Fresh(layout, shortcuts) = m
  BY FreshMatcher
<1>2. CASE layout = SplitLayout(parts)
  BY <1>1, <1>2 DEF WithLayout
<1>3. CASE layout # SplitLayout(parts)
  <2> DEFINE other == SplitLayout(parts)
  <2>1. [m EXCEPT !.layout = other]
          = [layout |-> other, shortcuts |-> shortcuts, physical |-> PhysicalOf(layout, shortcuts)]
    OBVIOUS
  <2>2. Rebuilt([m EXCEPT !.layout = other]) = Fresh(other, shortcuts)
    BY <2>1, RebuiltMatcher, FreshMatcher
  <2>3. m.layout # other
    BY <1>3
  <2> QED BY <1>1, <2>2, <2>3 DEF WithLayout
<1> QED BY <1>2, <1>3

LEMMA WithShortcutsFresh ==
  ASSUME NEW layout, NEW shortcuts, NEW others
  PROVE  WithShortcuts(Fresh(layout, shortcuts), others) = Fresh(layout, others)
<1> DEFINE m == [layout |-> layout, shortcuts |-> shortcuts,
                 physical |-> PhysicalOf(layout, shortcuts)]
<1>1. Fresh(layout, shortcuts) = m
  BY FreshMatcher
<1>2. [m EXCEPT !.shortcuts = others]
        = [layout |-> layout, shortcuts |-> others, physical |-> PhysicalOf(layout, shortcuts)]
  OBVIOUS
<1>3. Rebuilt([m EXCEPT !.shortcuts = others]) = Fresh(layout, others)
  BY <1>2, RebuiltMatcher, FreshMatcher
<1> QED BY <1>1, <1>3 DEF WithShortcuts

LEMMA NewMatcherFresh ==
  ASSUME NEW shortcuts PROVE NewMatcher(shortcuts) = Fresh(US, shortcuts)
<1> DEFINE m == [layout |-> US, shortcuts |-> {}, physical |-> {}]
<1>1. [m EXCEPT !.shortcuts = shortcuts]
        = [layout |-> US, shortcuts |-> shortcuts, physical |-> {}]
  OBVIOUS
<1> QED BY <1>1 DEF NewMatcher, WithShortcuts, Fresh

\* reloadLayout brings matchers up to date whatever layout they had.
LEMMA ReloadKeepsCurrent ==
  ASSUME NEW shortcuts, NEW current, current \in Groups \cup {NoGroup},
         current = NoGroup => current = group,
         favorite = Fresh(CurrentLayout, FavoriteChord),
         variants = Fresh(CurrentLayout, VariantsChord),
         group' = current, config' = shortcuts,
         ReloadLayout(Fresh(CurrentLayout, shortcuts), current)
  PROVE  MatchersCurrent'
<1>1. CASE current = NoGroup
  <2>1. CurrentLayout' = CurrentLayout
    BY <1>1 DEF CurrentLayout
  <2> QED BY <1>1, <2>1 DEF ReloadLayout, MatchersCurrent, FavoriteChord, VariantsChord
<1>2. CASE current # NoGroup
  <2>1. CurrentLayout' = SplitLayout(current)
    BY <1>2 DEF CurrentLayout
  <2> QED BY <1>2, <2>1, WithLayoutFresh DEF ReloadLayout, MatchersCurrent
<1> QED BY <1>1, <1>2

(***************************************************************************)
(* The invariant of the keys.                                              *)
(***************************************************************************)

\* The keys the client knows when a palette opens all count as held then.
KeysInv ==
  /\ focus \in Contexts
  /\ group \in Groups \cup {NoGroup}
  /\ Active => origin = focus /\ seen \subseteq held
  /\ StuckOnlyAcrossTrigger
  /\ MatchersCurrent

\* It holds at first.
LEMMA InitKeys == Init => KeysInv
<1> SUFFICES ASSUME Init PROVE KeysInv
  OBVIOUS
<1>1. MatchersCurrent
  BY NewMatcherFresh DEF Init, MatchersCurrent, CurrentLayout
<1> QED BY <1>1 DEF Init, KeysInv, Active, StuckOnlyAcrossTrigger

\* The settings and the group have no say about keys, and keys none about them.
LEMMA ReloadStep ==
  ASSUME KeysInv, GroupChanged \/ Configure PROVE KeysInv'
<1>1. MatchersCurrent'
  <2>1. CASE GroupChanged
    <3>1. group' \in Groups /\ group' # NoGroup
      BY <2>1, RoutingAssumption DEF GroupChanged
    <3>2. config' = config /\ ReloadLayout(Fresh(CurrentLayout, config), group')
      BY <2>1 DEF GroupChanged, KeysInv, MatchersCurrent
    <3> QED BY <3>1, <3>2, ReloadKeepsCurrent DEF KeysInv, MatchersCurrent
  <2>2. CASE Configure
    <3>1. group' = group
      BY <2>2 DEF Configure
    <3>2. ReloadLayout(Fresh(CurrentLayout, config'), group)
      BY <2>2, WithShortcutsFresh DEF Configure, KeysInv, MatchersCurrent
    <3> QED BY <3>1, <3>2, ReloadKeepsCurrent DEF KeysInv, MatchersCurrent
  <2> QED BY <2>1, <2>2
<1> QED BY <1>1, RoutingAssumption
     DEF GroupChanged, Configure, KeysInv, Active, StuckOnlyAcrossTrigger, clients

\* The steps of keys and focus leave the matchers alone.
LEMMA MatchersKept ==
  ASSUME MatchersCurrent, UNCHANGED <<matchers, group, config>> PROVE MatchersCurrent'
  BY DEF MatchersCurrent, CurrentLayout, matchers, FavoriteChord, VariantsChord

LEMMA EndStep ==
  ASSUME KeysInv, TransactionEnds PROVE KeysInv'
<1>1. MatchersCurrent'
  BY MatchersKept DEF KeysInv, TransactionEnds
<1> QED BY <1>1 DEF KeysInv, TransactionEnds, Ended, Active, StuckOnlyAcrossTrigger, clients

LEMMA FocusStep ==
  ASSUME KeysInv, FocusMoves PROVE KeysInv'
<1>1. MatchersCurrent'
  BY MatchersKept DEF KeysInv, FocusMoves
<1>2. origin' = NoContext
  BY DEF KeysInv, FocusMoves, Active
<1> QED BY <1>1, <1>2 DEF KeysInv, FocusMoves, Active, StuckOnlyAcrossTrigger

LEMMA PressStep ==
  ASSUME KeysInv, NEW code \in Codes, Press(code) PROVE KeysInv'
<1>1. MatchersCurrent'
  BY MatchersKept DEF KeysInv, Press
<1>2. focus' = focus /\ group' = group /\ down' = down \cup {code}
  BY DEF Press
<1>3. PICK keyboard \in Keyboards :
        LET key == KeyOf(code, down \cap Modifiers, keyboard)
        IN IF Filtered(FALSE) THEN Routed(key)
           ELSE IF ~Active /\ Matches(trigger, key) THEN Opened(down')
           ELSE Delivered(seen \cup {code})
  BY DEF Press
<1>4. CASE Filtered(FALSE)
  <2>1. seen' = seen /\ held' = held /\ (origin' = origin \/ origin' = NoContext)
    BY <1>3, <1>4 DEF Routed
  <2> QED BY <1>1, <1>2, <2>1 DEF KeysInv, Active, StuckOnlyAcrossTrigger
<1>5. CASE ~Filtered(FALSE) /\ Opened(down')
  <2>1. seen' = seen /\ held' = held \cup (seen \cap down')
    BY <1>5 DEF Opened
  <2>2. origin' = focus \/ origin' = NoContext
    BY <1>5 DEF Opened
  <2>3. seen' \subseteq held'
    BY <1>2, <2>1 DEF KeysInv, StuckOnlyAcrossTrigger
  <2> QED BY <1>1, <1>2, <2>1, <2>2, <2>3 DEF KeysInv, Active, StuckOnlyAcrossTrigger
<1>6. CASE ~Filtered(FALSE) /\ Delivered(seen \cup {code})
  <2>1. origin = NoContext
    BY <1>6 DEF KeysInv, Active, Filtered
  <2> QED BY <1>1, <1>2, <1>6, <2>1 DEF KeysInv, Active, StuckOnlyAcrossTrigger, Delivered
<1> QED BY <1>3, <1>4, <1>5, <1>6

LEMMA ReleaseStep ==
  ASSUME KeysInv, NEW code \in Codes, Release(code) PROVE KeysInv'
<1>1. MatchersCurrent'
  BY MatchersKept DEF KeysInv, Release
<1>2. focus' = focus /\ group' = group /\ down' = down \ {code}
  BY DEF Release
<1>3. CASE Filtered(TRUE)
  <2>1. seen' = seen /\ held' = held /\ origin' = origin
    BY <1>3 DEF Release
  <2>2. seen \subseteq held
    BY <1>3, RoutingAssumption DEF KeysInv, Active, Filtered
  <2> QED BY <1>1, <1>2, <2>1, <2>2 DEF KeysInv, Active, StuckOnlyAcrossTrigger
<1>4. CASE ~Filtered(TRUE)
  <2>1. seen' = seen \ {code} /\ held' = held /\ origin' = origin
    BY <1>4 DEF Release, Delivered
  <2> QED BY <1>1, <1>2, <2>1 DEF KeysInv, Active, StuckOnlyAcrossTrigger
<1> QED BY <1>3, <1>4

\* Every step keeps it.
LEMMA StepKeys == KeysInv /\ [Next]_vars => KeysInv'
<1> SUFFICES ASSUME KeysInv, [Next]_vars PROVE KeysInv'
  OBVIOUS
<1>1. CASE UNCHANGED vars
  <2>1. MatchersCurrent'
    BY <1>1, MatchersKept DEF KeysInv, vars
  <2> QED BY <1>1, <2>1 DEF vars, KeysInv, Active, StuckOnlyAcrossTrigger, clients
<1> QED BY <1>1, ReloadStep, EndStep, FocusStep, PressStep, ReleaseStep DEF Next

\* The keys and the matchers agree in every state that is reached.
THEOREM KeysSafe == Spec => []KeysInv
  BY InitKeys, StepKeys, PTL DEF Spec

(***************************************************************************)
(* The properties of the keys.                                             *)
(***************************************************************************)

\* StuckOnlyAcrossTrigger for every set of keys, layouts and contexts.
THEOREM OnlyHeldKeysStick == Spec => []StuckOnlyAcrossTrigger
<1>1. KeysInv => StuckOnlyAcrossTrigger
  BY DEF KeysInv
<1> QED BY <1>1, KeysSafe, PTL

\* InputIsolated for every set of keys, layouts and contexts.
THEOREM NoKeyLeaks == Spec => InputIsolated
<1> DEFINE Isolated == focus' = focus /\ (Active \/ origin' # NoContext) => seen' = seen
<1>1. ASSUME KeysInv, [Next]_vars PROVE Isolated
  <2> SUFFICES ASSUME focus' = focus, Active \/ origin' # NoContext PROVE seen' = seen
    OBVIOUS
  <2>1. Active => origin = focus
    BY <1>1 DEF KeysInv
  <2>2. CASE GroupChanged \/ Configure \/ TransactionEnds \/ UNCHANGED vars
    BY <2>2 DEF GroupChanged, Configure, TransactionEnds, vars, clients
  <2>3. ~FocusMoves
    BY DEF FocusMoves
  <2>4. ASSUME NEW code \in Codes, Press(code) PROVE seen' = seen
    <3>1. Filtered(FALSE) => seen' = seen
      BY <2>4 DEF Press, Routed
    <3>2. Opened(down') => seen' = seen
      BY DEF Opened
    <3>3. ~Filtered(FALSE) => Opened(down') \/ Delivered(seen \cup {code})
      BY <2>4 DEF Press
    <3>4. Delivered(seen \cup {code}) => origin' = origin
      BY DEF Delivered
    <3> QED BY <2>1, <3>1, <3>2, <3>3, <3>4 DEF Filtered, Active
  <2>5. ASSUME NEW code \in Codes, Release(code) PROVE seen' = seen
    <3>1. origin' = origin
      BY <2>5 DEF Release, Delivered
    <3> QED BY <2>1, <2>5, <3>1 DEF Release, Filtered, Active
  <2> QED BY <1>1, <2>2, <2>3, <2>4, <2>5 DEF Next
<1> QED BY <1>1, KeysSafe, PTL DEF Spec, InputIsolated

\* A fresh matcher recognizes its shortcuts by their keys in the layout.
LEMMA FreshFollowsKeys ==
  ASSUME KeysInv, NEW shortcuts, NEW s \in shortcuts, NEW c \in HomeKeys(s), NEW keyboard
  PROVE  Matches(Fresh(CurrentLayout, shortcuts), KeyOf(c, s.states, keyboard))
<1> DEFINE m   == Fresh(CurrentLayout, shortcuts)
           key == KeyOf(c, s.states, keyboard)
<1>1. CurrentLayout \in DOMAIN Keymaps \/ CurrentLayout.name # "us"
  BY RoutingAssumption DEF CurrentLayout, KeysInv
<1>2. m.physical = UNION {PhysicalShortcuts(CurrentLayout, t) : t \in shortcuts}
  BY <1>1, FreshMatcher DEF PhysicalOf
<1>3. PhysicalShortcuts(CurrentLayout, s) \subseteq m.physical
  BY <1>2
<1>4. key.states = s.states /\ key.code = c
  BY DEF KeyOf
<1>5. \E t \in PhysicalShortcuts(CurrentLayout, s) :
        t.states = s.states /\ t.code # NoCode /\ t.code = c
  <2>1. CASE s.code # NoCode
    BY <2>1 DEF HomeKeys, PhysicalShortcuts
  <2>2. CASE s.code = NoCode
    <3> DEFINE codes == IF Carriers(CurrentLayout, s.sym) # {} \/ CurrentLayout.name = "us"
                        THEN Carriers(CurrentLayout, s.sym) ELSE Carriers(US, s.sym)
               t     == [sym |-> NoSymbol, code |-> c, states |-> s.states]
    <3>1. HomeKeys(s) = codes
      BY <2>2 DEF HomeKeys, CurrentLayout
    <3>2. PhysicalShortcuts(CurrentLayout, s) = Physical(codes, s)
      BY <2>2 DEF PhysicalShortcuts
    <3>3. codes \subseteq Codes
      BY DEF Carriers
    <3>4. c \in codes /\ c # NoCode
      BY <3>1, <3>3, RoutingAssumption
    <3>5. t \in Physical(codes, s)
      BY <3>4 DEF Physical
    <3>6. t.states = s.states /\ t.code = c
      OBVIOUS
    <3> HIDE DEF codes, t
    <3> QED BY <3>2, <3>4, <3>5, <3>6
  <2> QED BY <2>1, <2>2
<1>6. Checks(key, m.physical)
  BY <1>3, <1>4, <1>5 DEF Checks
<1> QED BY <1>6 DEF Matches

\* ShortcutsFollowKeys for every layout, setting and order of changes.
THEOREM KeysAreFollowed == Spec => []ShortcutsFollowKeys
<1>1. KeysInv => ShortcutsFollowKeys
  BY FreshFollowsKeys DEF KeysInv, MatchersCurrent, ShortcutsFollowKeys
<1> QED BY <1>1, KeysSafe, PTL

(*****************************************************************************)
(* The samples: each conversion is tried on what it may be given.           *)
(*****************************************************************************)

\* What the conversions are tried on comes from the sets it should come from.
SampleKnown ==
  \/ sample = NoSample
  \/ \E e \in Envelopes : sample = <<"envelope", e>>
  \/ \E f \in Frames : sample = <<"frame", f>>
  \/ \E t \in Texts : sample = <<"text", t>>
  \/ \E s \in Strings : sample = <<"string", s>>
  \/ \E s \in Emojis : sample = <<"emoji", s>>
  \/ \E i \in DOMAIN Documents, locale \in Locales : sample = <<"document", i, locale>>

\* Trying one and dropping it keep it so, and a key changes no sample.
LEMMA SampleStep == SampleKnown /\ [MCNext]_<<vars, sample>> => SampleKnown'
<1> SUFFICES ASSUME SampleKnown, [MCNext]_<<vars, sample>> PROVE SampleKnown'
  OBVIOUS
<1> USE DEF SampleKnown
<1>1. ASSUME UNCHANGED sample PROVE SampleKnown'
  <2>1. Envelopes' = Envelopes /\ Frames' = Frames /\ Texts' = Texts
    OBVIOUS
  <2> QED
    BY <1>1
<1>2. CASE Try
  BY Zenon, <1>2 DEF Try
<1>3. CASE Drop
  BY <1>3 DEF Drop
<1> QED
  BY <1>1, <1>2, <1>3 DEF MCNext

\* MCSpec tries the conversions and is otherwise Spec.
THEOREM SampledIsSpec == MCSpec => Spec
<1>1. MCInit => Init
  BY DEF MCInit
<1>2. [MCNext]_<<vars, sample>> => [Next]_vars
  BY DEF MCNext, Try, Drop
<1> QED
  BY <1>1, <1>2, PTL DEF MCSpec, Spec

\* Each conversion is given what it may be given.
LEMMA SamplesKnown == MCSpec => []SampleKnown
<1>1. MCInit => SampleKnown
  BY DEF MCInit, SampleKnown
<1> QED
  BY <1>1, SampleStep, PTL DEF MCSpec

\* A sample by its kind.
LEMMA SampleIs ==
  ASSUME SampleKnown
  PROVE  /\ sample[1] = "envelope" => sample[2] \in Envelopes
         /\ sample[1] = "frame" => sample[2] \in Frames
         /\ sample[1] = "text" => sample[2] \in Texts
         /\ sample[1] = "string" => sample[2] \in Strings
         /\ sample[1] = "emoji" => sample[2] \in Emojis
         /\ sample[1] = "document" => sample[2] \in DOMAIN Documents /\ sample[3] \in Locales
  BY DEF SampleKnown, NoSample

\* SentIsRead of everything that is tried: protocol.cpp sends and reads alike.
THEOREM EnvelopesAreRead == MCSpec => []SentIsRead
<1>1. SampleKnown => SentIsRead
  BY SampleIs, SamplesAreProper, SentAsRead DEF SentIsRead
<1> QED
  BY <1>1, SamplesKnown, PTL

\* ReadIsCanonical, of the damaged frames as well.
THEOREM FramesAreCanonical == MCSpec => []ReadIsCanonical
<1>1. SampleKnown => ReadIsCanonical
  BY SampleIs, SamplesAreProper, ReadAsWritten DEF ReadIsCanonical
<1> QED
  BY <1>1, SamplesKnown, PTL

\* OnlyShortestForms of the texts that are tried.
THEOREM TextsAreShortest == MCSpec => []OnlyShortestForms
<1>1. SampleKnown => OnlyShortestForms
  BY SampleIs, SamplesAreProper, ShortestForm DEF OnlyShortestForms
<1> QED
  BY <1>1, SamplesKnown, PTL

\* NormalizeOnce of the texts that are tried.
THEOREM NormalizedOnce == MCSpec => []NormalizeOnce
<1>1. ASSUME NEW s \in Strings PROVE Settled(NormalizeForSearch(Encode(s)))
  BY SamplesAreProper, NormalizedSettles
<1>2. SampleKnown => NormalizeOnce
  BY <1>1, SampleIs DEF NormalizeOnce
<1> QED
  BY <1>2, SamplesKnown, PTL
\* LabelNamesTheGap of the emoji and the fonts that are tried.
THEOREM LabelsAreRight == MCSpec => []LabelNamesTheGap
<1>1. Emojis \subseteq Seq(Scalar)
  BY SamplesAreProper DEF Scalar
<1>2. ASSUME NEW s \in Emojis PROVE NamesTheGap(s, Fonts)
  BY <1>1, GapIsNamed
<1>3. SampleKnown => LabelNamesTheGap
  BY <1>2, SampleIs DEF LabelNamesTheGap
<1> QED
  BY <1>3, SamplesKnown, PTL

\* FoundByName of the catalog that is tried.
THEOREM EmojiAreFound == MCSpec => []FoundByName
<1>1. SampleKnown => FoundByName
  BY SampleIs, NamesLeadToEmoji DEF FoundByName
<1> QED
  BY <1>1, SamplesKnown, PTL
================================================================================
