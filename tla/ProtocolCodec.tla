---------------------------- MODULE ProtocolCodec -----------------------------
(* The frames of src/ipc/protocol.cpp: serialize and parse, byte by byte. An   *)
(* envelope is a record of its version, its message type and the fields of its *)
(* payload; enumerators and the flag are their numbers. Nonces, capabilities,  *)
(* sequence numbers and identifiers are only ever copied and compared: they    *)
(* are their bytes, so no width is lost. Of a rejected frame only the          *)
(* rejection is kept, as in every caller, not which error it was.              *)
EXTENDS Utf8

CONSTANTS
  TransactionSize,      \* bytes of a TransactionId, 16
  MaximumFrameSize,     \* maximumFrameSize, 64 * 1024
  MaximumSearchSize,    \* maximumSearchSize, 256
  MaximumSelectionSize  \* maximumSelectionSize, 128

ProtocolVersion == 1
Magic           == <<69, 80, 65, 76>>   \* EPAL
HeaderSize      == 12

\* Every command fits into a frame: its transaction, number, kind and text.
ASSUME CodecAssumption ==
  /\ \A size \in {TransactionSize, MaximumFrameSize, MaximumSearchSize, MaximumSelectionSize} :
       size \in Nat /\ 0 < size /\ size <= 65536
  /\ HeaderSize + TransactionSize + 4 + 1 + 2 + MaximumSearchSize <= MaximumFrameSize

SearchText      == 12                   \* CommandKind::SearchText

\* The message types in the order of their numbers.
MessageTypes == <<"Hello", "Welcome", "Show", "Command", "Hide", "Selected", "Cancelled",
                  "Ping", "Pong">>
NumberOf(type) == CHOOSE i \in DOMAIN MessageTypes : MessageTypes[i] = type

\* The fields of each payload in the order they are written.
Layout ==
  LET transaction == <<"transaction", "identifier">>
      nonce       == <<"nonce", "u64">>
      capable     == <<"capabilities", "u32">>
      ends        == <<transaction, <<"reason", "u8">> >>
  IN [Hello     |-> << <<"minimumVersion", "u16">>, <<"maximumVersion", "u16">>, nonce, capable>>,
      Welcome   |-> << <<"selectedVersion", "u16">>, nonce, capable>>,
      Show      |-> <<transaction, <<"caret", "rectangle">>, <<"screen", "rectangle">>,
                      <<"locale", "u8">>, <<"scalePercent", "u16">>,
                      <<"closeAfterSelection", "u8">> >>,
      Command   |-> <<transaction, <<"sequence", "u32">>, <<"kind", "u8">>, <<"text", "text">> >>,
      Hide      |-> ends,
      Selected  |-> <<transaction, <<"text", "text">> >>,
      Cancelled |-> ends,
      Ping      |-> <<nonce>>,
      Pong      |-> <<nonce>>]

(***************************************************************************)
(* Writer and Reader.                                                      *)
(***************************************************************************)

U16(value) == <<(value \div 256) % 256, value % 256>>
U32(value) == <<(value \div 16777216) % 256, (value \div 65536) % 256>> \o U16(value)

Number16(bytes) == 256 * bytes[1] + bytes[2]

\* A mutant of Signed32: the sign bit counts as any other.
Unsigned31(bytes) ==
  65536 * (256 * (bytes[1] % 128) + bytes[2]) + 256 * bytes[3] + bytes[4]

\* A four-byte number in two's complement.
Signed32(bytes) ==
  65536 * (256 * (((bytes[1] + 128) % 256) - 128) + bytes[2]) + 256 * bytes[3] + bytes[4]

Rectangle(bytes) ==
  LET Coordinate(i) == Signed32(SubSeq(bytes, 4 * i + 1, 4 * i + 4))
  IN [x |-> Coordinate(0), y |-> Coordinate(1), width |-> Coordinate(2), height |-> Coordinate(3)]

Written(coding, value) ==
  IF coding = "u8" THEN <<value>>
  ELSE IF coding = "u16" THEN U16(value)
  ELSE IF coding = "rectangle"
  THEN (U32(value.x) \o U32(value.y)) \o (U32(value.width) \o U32(value.height))
  ELSE IF coding = "text" THEN U16(Len(value)) \o value
  ELSE value

\* The bytes a field takes at the beginning of `rest`; a text says it itself.
FixedSize ==
  [u8 |-> 1, u16 |-> 2, u32 |-> 4, u64 |-> 8, identifier |-> TransactionSize, rectangle |-> 16]
SizeIn(coding, rest) ==
  IF coding # "text" THEN FixedSize[coding]
  ELSE IF Len(rest) < 2 THEN 2 ELSE 2 + Number16(rest)

Value(coding, bytes) ==
  IF coding = "u8" THEN bytes[1]
  ELSE IF coding = "u16" THEN Number16(bytes)
  ELSE IF coding = "rectangle" THEN Rectangle(bytes)
  ELSE IF coding = "text" THEN SubSeq(bytes, 3, Len(bytes))
  ELSE bytes

(***************************************************************************)
(* The types of the payloads.                                              *)
(***************************************************************************)

Coordinates == {x \in Int : -2147483647 - 1 <= x /\ x <= 2147483647}
Rectangles  == [x : Coordinates, y : Coordinates, width : Coordinates, height : Coordinates]

\* The values of a field; a longer text is refused before it is written.
Values(coding) ==
  IF coding = "u8" THEN Byte
  ELSE IF coding = "u16" THEN {n \in Nat : n <= 65535}
  ELSE IF coding = "rectangle" THEN Rectangles
  ELSE IF coding = "text" THEN {text \in Seq(Byte) : Len(text) <= 65535}
  ELSE {bytes \in Seq(Byte) : Len(bytes) = FixedSize[coding]}

\* An envelope has its type, a version and the fields of its payload.
IsEnvelope(e) ==
  /\ e.type \in DOMAIN Layout
  /\ LET layout == Layout[e.type]
     IN /\ e = [f \in {"version", "type"} \cup {layout[i][1] : i \in DOMAIN layout} |-> e[f]]
        /\ \A i \in DOMAIN layout : e[layout[i][1]] \in Values(layout[i][2])

(***************************************************************************)
(* What a payload must satisfy.                                            *)
(***************************************************************************)

ValidTransaction(transaction) == \E i \in DOMAIN transaction : transaction[i] # 0

ValidRectangle(r) ==
  /\ r.x \in -1000000 .. 1000000 /\ r.y \in -1000000 .. 1000000
  /\ r.width \in 0 .. 32768 /\ r.height \in 0 .. 32768

ValidText(text, maximum) == Len(text) <= maximum /\ IsValidUtf8(text)

\* The checks writePayload and readPayload share (the enumerators, which only the
\* reader checks, have their type in an envelope that is written).
WellFormed(e) ==
  /\ e.type \in {"Show", "Command", "Hide", "Selected", "Cancelled"} =>
       ValidTransaction(e.transaction)
  /\ e.type = "Show" =>
       /\ ValidRectangle(e.caret) /\ ValidRectangle(e.screen)
       /\ e.scalePercent \in 50 .. 400
       /\ e.locale <= 2 /\ e.closeAfterSelection <= 1
  /\ e.type = "Command" =>
       /\ e.kind <= 14 /\ (e.kind # SearchText => e.text = <<>>)
       /\ ValidText(e.text, MaximumSearchSize)
  /\ e.type = "Selected" => e.text # <<>> /\ ValidText(e.text, MaximumSelectionSize)
  /\ e.type \in {"Hide", "Cancelled"} => e.reason <= 7

\* Only the reader looks at the versions of a handshake.
VersionsAgree(e) ==
  /\ e.type = "Hello"   => e.minimumVersion \in 1 .. e.maximumVersion
  /\ e.type = "Welcome" => e.selectedVersion # 0

(***************************************************************************)
(* Frames.                                                                 *)
(***************************************************************************)

Payload(e) ==
  FlattenSeq([i \in DOMAIN Layout[e.type] |->
                Written(Layout[e.type][i][2], e[Layout[e.type][i][1]])])

Serialize(e) ==
  IF \/ e.version # ProtocolVersion \/ ~WellFormed(e)
     \/ Len(Payload(e)) > MaximumFrameSize - HeaderSize
  THEN Nothing
  ELSE Magic \o U16(e.version) \o <<NumberOf(e.type), 0>> \o U32(Len(Payload(e))) \o Payload(e)

Rejected == [type |-> "none"]

WithField(fields, name, value) ==
  [f \in DOMAIN fields \cup {name} |-> IF f = name THEN value ELSE fields[f]]

\* One field: what is read so far, and the bytes that are left.
ReadField(read, field) ==
  LET size == SizeIn(field[2], read.rest)
  IN IF ~read.ok \/ Len(read.rest) < size THEN [read EXCEPT !.ok = FALSE]
     ELSE [ok |-> TRUE, rest |-> SubSeq(read.rest, size + 1, Len(read.rest)),
           fields |-> WithField(read.fields, field[1],
                                Value(field[2], SubSeq(read.rest, 1, size)))]

\* The fields of a payload in their order.
ReadFields(type, bytes) ==
  LET read[i \in 0 .. Len(Layout[type])] ==
        IF i = 0 THEN [ok |-> TRUE, rest |-> bytes,
                       fields |-> [version |-> ProtocolVersion, type |-> type]]
        ELSE ReadField(read[i - 1], Layout[type][i])
  IN read[Len(Layout[type])]

\* A mutant of ReadPayload: bytes may follow the payload.
ReadPayloadLoosely(type, bytes) ==
  LET read == ReadFields(type, bytes)
  IN IF read.ok /\ WellFormed(read.fields) /\ VersionsAgree(read.fields)
     THEN read.fields ELSE Rejected

\* readPayload, which must use up all bytes.
ReadPayload(type, bytes) ==
  LET read == ReadFields(type, bytes)
  IN IF /\ read.ok /\ read.rest = <<>>
        /\ WellFormed(read.fields) /\ VersionsAgree(read.fields)
     THEN read.fields ELSE Rejected

Parse(frame) ==
  IF /\ Len(frame) \in HeaderSize .. MaximumFrameSize
     /\ SubSeq(frame, 1, 4) = Magic
     /\ SubSeq(frame, 5, 6) = U16(ProtocolVersion)
     /\ frame[7] \in DOMAIN MessageTypes
     /\ frame[8] = 0
     /\ SubSeq(frame, 9, 12) = U32(Len(frame) - HeaderSize)
  THEN ReadPayload(MessageTypes[frame[7]], SubSeq(frame, HeaderSize + 1, Len(frame)))
  ELSE Rejected

(***************************************************************************)
(* Properties.                                                             *)
(***************************************************************************)

\* What one peer's serialize accepts, the other's parse reads as it was meant; only
\* a handshake whose versions agree with nothing is sent and not read.
ReadAsSent(e) ==
  Serialize(e) # Nothing => Parse(Serialize(e)) = IF VersionsAgree(e) THEN e ELSE Rejected

\* A frame that parse accepts is the one serialize writes, to the last byte.
OnlyFrame(frame) ==
  LET read == Parse(frame) IN read # Rejected => Serialize(read) = frame
=============================================================================
