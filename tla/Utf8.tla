-------------------------------- MODULE Utf8 ---------------------------------
(* The text conversions of src/core/utf8.cpp. A text is a sequence of bytes,   *)
(* 0 .. 255, its code points are a sequence of numbers. Bit masks and shifts   *)
(* are quotients and remainders.                                               *)
EXTENDS Integers, SequencesExt

Byte == 0 .. 255

\* The result of a conversion that fails: no code points, no text.
Nothing == <<-1>>

Space == 32

IsScalar(c) == 0 <= c /\ c <= 1114111 /\ ~(55296 <= c /\ c <= 57343)

(***************************************************************************)
(* decodeUtf8 and encodeUtf8.                                              *)
(***************************************************************************)

\* The bytes a character has by its first byte; 0 when no character begins so.
LengthFrom(first) ==
  IF first < 128 THEN 1
  ELSE IF first \in 192 .. 223 THEN 2
  ELSE IF first \in 224 .. 239 THEN 3
  ELSE IF first \in 240 .. 247 THEN 4
  ELSE 0

\* What the first of n bytes and each continuation byte contribute.
Lead(first, n) == first % <<128, 32, 16, 8>>[n]
Joined(c, continuation) == 64 * c + (continuation % 64)

\* The smallest code point that needs n bytes.
Minimum(n) == <<0, 128, 2048, 65536>>[n]

CodepointOf(character) ==
  LET n    == Len(character)
      lead == Lead(character[1], n)
  IN IF n = 1 THEN lead
     ELSE IF n = 2 THEN Joined(lead, character[2])
     ELSE IF n = 3 THEN Joined(Joined(lead, character[2]), character[3])
     ELSE Joined(Joined(Joined(lead, character[2]), character[3]), character[4])

\* A mutant of IsCharacter: longer forms than necessary pass.
IsAnyForm(character) ==
  /\ \A i \in 2 .. Len(character) : character[i] \in 128 .. 191
  /\ IsScalar(CodepointOf(character))

\* Bytes of the length the first one asks for: continuation bytes follow it, and
\* they encode a scalar value that is not too small for them.
IsCharacter(character) ==
  /\ \A i \in 2 .. Len(character) : character[i] \in 128 .. 191
  /\ CodepointOf(character) >= Minimum(Len(character))
  /\ IsScalar(CodepointOf(character))

\* decoded[k] is what the last k bytes are decoded to.
Decode(text) ==
  LET decoded[k \in 0 .. Len(text)] ==
        IF k = 0 THEN <<>>
        ELSE LET first     == (Len(text) - k) + 1
                 n         == LengthFrom(text[first])
                 character == SubSeq(text, first, (first + n) - 1)
             IN IF n \notin 1 .. k \/ ~IsCharacter(character) \/ decoded[k - n] = Nothing
                THEN Nothing
                ELSE <<CodepointOf(character)>> \o decoded[k - n]
  IN decoded[Len(text)]

IsValidUtf8(text) == Decode(text) # Nothing

\* The bytes of one code point.
CharacterOf(c) ==
  IF c <= 127 THEN <<c>>
  ELSE IF c <= 2047 THEN <<192 + c \div 64, 128 + (c % 64)>>
  ELSE IF c <= 65535 THEN <<224 + c \div 4096, 128 + ((c \div 64) % 64), 128 + (c % 64)>>
  ELSE <<240 + c \div 262144, 128 + ((c \div 4096) % 64),
         128 + ((c \div 64) % 64), 128 + (c % 64)>>

\* One value that is no scalar leaves no text at all.
Encode(codepoints) ==
  IF \A i \in DOMAIN codepoints : IsScalar(codepoints[i])
  THEN FlattenSeq([i \in DOMAIN codepoints |-> CharacterOf(codepoints[i])])
  ELSE <<>>

(***************************************************************************)
(* normalizeForSearch.                                                     *)
(***************************************************************************)

FoldCodepoint(c) ==
  IF c \in 65 .. 90 \/ c \in 1040 .. 1071 THEN c + 32   \* A-Z, Cyrillic A-YA
  ELSE IF c \in {196, 214, 220} THEN c + 32             \* German umlauts
  ELSE IF c = 7838 THEN 223                             \* capital sharp s
  ELSE IF c = 1025 THEN 1105                            \* Cyrillic IO
  ELSE IF c \in {45, 95} THEN Space                     \* hyphen, underscore
  ELSE c

IsSpace(c) == c \in {Space, 9, 10, 13}

\* One more code point: white space counts once, and not at the beginning.
Pushed(text, c) ==
  IF ~IsSpace(FoldCodepoint(c)) THEN Append(text, FoldCodepoint(c))
  ELSE IF text = <<>> \/ Last(text) = Space THEN text ELSE Append(text, Space)

Squeezed(codepoints) ==
  LET squeezed[i \in 0 .. Len(codepoints)] ==
        IF i = 0 THEN <<>> ELSE Pushed(squeezed[i - 1], codepoints[i])
  IN squeezed[Len(codepoints)]

\* A mutant of Trimmed: white space at the end stays.
Untrimmed(text) == text

Trimmed(text) == IF text # <<>> /\ Last(text) = Space THEN Front(text) ELSE text

NormalizeForSearch(text) ==
  IF ~IsValidUtf8(text) THEN <<>>
  ELSE Encode(Trimmed(Squeezed(Decode(text))))

\* Nothing is left to normalize, and no token is empty.
Settled(text) ==
  /\ NormalizeForSearch(text) = text
  /\ text # <<>> => text[1] # Space /\ Last(text) # Space
  /\ \A i \in 2 .. Len(text) : text[i] # Space \/ text[i - 1] # Space

(***************************************************************************)
(* hexEncode and hexDecode, which the state file uses. A digit is its      *)
(* character's number; hexDecode also takes capital letters.               *)
(***************************************************************************)

HexDigit(n) == IF n < 10 THEN 48 + n ELSE 87 + n

HexValue(digit) ==
  IF digit \in 48 .. 57 THEN digit - 48
  ELSE IF digit \in 97 .. 102 THEN digit - 87
  ELSE IF digit \in 65 .. 70 THEN digit - 55
  ELSE -1

HexEncode(text) ==
  FlattenSeq([i \in DOMAIN text |-> <<HexDigit(text[i] \div 16), HexDigit(text[i] % 16)>>])

HexDecode(digits) ==
  LET values == [i \in DOMAIN digits |-> HexValue(digits[i])]
      text   == [i \in 1 .. Len(digits) \div 2 |-> 16 * values[2 * i - 1] + values[2 * i]]
  IN IF Len(digits) % 2 = 1 \/ (\E i \in DOMAIN values : values[i] < 0) \/ ~IsValidUtf8(text)
     THEN Nothing ELSE text
=============================================================================
