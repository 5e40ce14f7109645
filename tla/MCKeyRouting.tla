---------------------------- MODULE MCKeyRouting ------------------------------
(* Three letter keys in a US layout, in a variant that moves them as Dvorak    *)
(* does and in a Russian one; a group whose layout does not compile. And, for  *)
(* the conversions alone, envelopes, frames and texts at their boundaries.     *)
EXTENDS KeyRouting, CatalogSearch, GlyphCoverage

VARIABLE sample  \* what one of the conversions is given, and its kind

Letters(z, d, v) ==
  "Z" :> z @@ "D" :> d @@ "V" :> v @@
  [code \in {"Control", "Shift", "Escape", "BackSpace"} |-> <<code>>]

Named(name, variant) == [name |-> name, variant |-> variant]

AllKeymaps ==
  US :> Letters(<<"z", "Z">>, <<"d", "D">>, <<"v", "V">>) @@
  Named("us", <<"dvorak">>) :> Letters(<<"d", "D">>, <<"v", "V">>, <<"z", "Z">>) @@
  Named("ru", <<>>) :> Letters(<<"ya", "YA">>, <<"ve", "VE">>, <<"em", "EM">>)

Capitals   == [z |-> "Z", d |-> "D", v |-> "V", ya |-> "YA", ve |-> "VE", em |-> "EM"]
Characters == [z |-> 122, Z |-> 90, d |-> 100, D |-> 68, v |-> 118, V |-> 86,
               ya |-> 1103, YA |-> 1071, ve |-> 1074, VE |-> 1042, em |-> 1084, EM |-> 1052]

\* TLC keeps the value of a definition, but not of one that stands for a constant.
MCKeymaps   == AllKeymaps
MCUppercase == Capitals
MCUnicode   == Characters

MCGroups    == {<<"us">>, <<"us", "dvorak">>, <<"ru">>, <<"xx">>}
MCKeyboards == {US, Named("ru", <<>>)}
MCTriggers  == {{Chord({"Control"}, "Z")},
                {[sym |-> NoSymbol, states |-> {"Control"}, code |-> "D"]}}

ContextSymmetry == Permutations(Contexts)

(***************************************************************************)
(* The codec.                                                              *)
(***************************************************************************)

Envelope(type) == [version |-> ProtocolVersion, type |-> type]
Id        == [i \in 1 .. TransactionSize |-> i % 2]
NoId      == [i \in 1 .. TransactionSize |-> 0]
Nonce     == <<0, 0, 0, 0, 255, 128, 127, 1>>
Character == <<208, 178>>
Edges     == {-1000001, -1000000, -1, 0, 1000000, 1000001}
Sizes     == {-1, 0, 256, 32768, 32769}
Rect(x, y, width, height) == [x |-> x, y |-> y, width |-> width, height |-> height]

Handshakes ==
  [version : {ProtocolVersion}, type : {"Hello"}, minimumVersion : 0 .. 2,
   maximumVersion : {1, 258}, nonce : {Nonce}, capabilities : {<<0, 0, 0, 7>>}]
  \cup [version : {0, ProtocolVersion}, type : {"Welcome"}, selectedVersion : 0 .. 1,
        nonce : {Nonce}, capabilities : {<<255, 0, 0, 7>>}]

Shows ==
  LET carets  == {Rect(x, 300, 1, 20) : x \in Edges} \cup {Rect(7, y, 1, 20) : y \in Edges}
      screens == {Rect(0, 0, w, 1080) : w \in Sizes} \cup {Rect(0, 0, 1920, h) : h \in Sizes}
      Show(id, caret, screen, scale, locale, close) ==
        Envelope("Show") @@ [transaction |-> id, caret |-> caret, screen |-> screen,
          locale |-> locale, scalePercent |-> scale, closeAfterSelection |-> close]
      at   == Rect(-5, 300, 1, 20)
      full == Rect(0, 0, 1920, 1080)
  IN {Show(Id, caret, full, 100, 2, 1) : caret \in carets}
     \cup {Show(Id, at, screen, 100, 0, 0) : screen \in screens}
     \cup {Show(id, at, full, scale, 1, 1) : id \in {Id, NoId}, scale \in {49, 50, 400, 401}}

Commands ==
  [version : {ProtocolVersion}, type : {"Command"}, transaction : {Id, NoId},
   sequence : {<<255, 255, 255, 255>>}, kind : {0, 1, SearchText, 14},
   text : {<<>>, Character, <<193, 161>>, <<97, 98, 99>>}]

Replies ==
  [version : {ProtocolVersion}, type : {"Selected"}, transaction : {Id},
   text : {<<>>, <<240, 159, 153, 130>>, <<237, 160, 128>>, Character \o <<97, 98, 99>>}]
  \cup [version : {ProtocolVersion}, type : {"Hide", "Cancelled"}, transaction : {Id, NoId},
        reason : 0 .. 7]
  \cup [version : {ProtocolVersion}, type : {"Ping", "Pong"}, nonce : {Nonce}]

Envelopes == Handshakes \cup Shows \cup Commands \cup Replies

\* Frames that are damaged: cut, continued with the right and with the wrong
\* length, one byte changed.
Continued(frame, byte) ==
  [Append(frame, byte) EXCEPT ![12] = (Len(frame) + 1) - HeaderSize]
Damaged(frame) ==
  {SubSeq(frame, 1, n) : n \in 0 .. Len(frame)}
  \cup {Append(frame, 0), Continued(frame, 0), Continued(frame, 128)}
  \cup {[frame EXCEPT ![i] = byte] : i \in DOMAIN frame, byte \in {0, 1, 2, 127, 128, 255}}

Typical ==
  {CHOOSE e \in Envelopes : e.type = type /\ Serialize(e) # Nothing /\ VersionsAgree(e) :
     type \in Range(MessageTypes)}
  \cup {Envelope("Command") @@ [transaction |-> Id, sequence |-> <<0, 0, 0, 1>>,
                                 kind |-> SearchText, text |-> Character]}

Frames == UNION {Damaged(Serialize(e)) : e \in Typical}

(***************************************************************************)
(* The texts.                                                              *)
(***************************************************************************)

\* Bytes at the boundaries of what may follow what.
Bytes == {97, 127, 128, 143, 144, 159, 160, 191, 192, 194, 223, 224, 237, 240, 244, 247, 248}

Texts == UNION {[1 .. n -> Bytes] : n \in 0 .. 2} \cup [1 .. 3 -> Bytes \ {97, 192, 223, 248}]
           \cup [1 .. 4 -> {128, 143, 144, 191, 194, 240, 244}]

\* The code points that are folded or squeezed, and neighbours of them.
Codepoints == {9, 10, 32, 45, 64, 65, 95, 97, 223, 1025, 1040, 1105, 7838}

Strings == UNION {[1 .. n -> Codepoints] : n \in 0 .. 3}

(***************************************************************************)
(* The catalog: four emoji with a name and a keyword in English, Russian.  *)
(***************************************************************************)

cat  == <<99, 97, 116>>
Cat  == <<67, 97, 116>>
card == <<99, 97, 114, 100>>
cart == <<99, 97, 114, 116>>
kot  == Encode(<<1082, 1086, 1090>>)
Kot  == Encode(<<1050, 1086, 1090>>)
Yozh == Encode(<<1025, 1078>>)
Spaced(a, b)   == a \o <<Space>> \o b
Hyphened(a, b) == a \o <<45>> \o b

Document(e, names, keywords) ==
  [sequence |-> CharacterOf(128568 + e), names |-> names, keywords |-> keywords]
MCDocuments ==
  <<Document(1, <<cart, Yozh>>,              << <<card>>, <<Kot>> >>),
    Document(2, <<Spaced(card, Cat), kot>>,  << <<>>, <<>> >>),
    Document(3, <<Cat, Hyphened(Kot, kot)>>, << <<cart>>, <<Yozh>> >>),
    Document(4, <<Hyphened(cart, card), kot \o kot>>, << <<card \o cat>>, <<Cat>> >>)>>

\* Sequences with a keycap, a joiner, a variation selector and tags; the one that is
\* only a joiner can always be drawn.
Emojis == {<<35, 65039, 8419>>, <<129770>>, <<128075, 8205, 129770>>, <<127988, 917607, 917631>>,
           <<129770, 65039, 35>>, <<8205>>, <<917632>>, <<>>}
Fonts  == SUBSET {35, 8205, 8419, 128075, 129770}

(***************************************************************************)
(* The conversions have no state: each is tried on its samples before the  *)
(* first key, one at a time.                                               *)
(***************************************************************************)

NoSample == <<"none">>

\* What the conversions are tried on is what they may be given.
ASSUME SamplesAreProper ==
  /\ \A e \in Envelopes : IsEnvelope(e)
  /\ Frames \cup Texts \cup {Encode(s) : s \in Strings} \subseteq Seq(Byte)
  /\ Emojis \subseteq Seq({c \in Nat : IsScalar(c)})

MCInit == Init /\ sample = NoSample

Try ==
  /\ sample = NoSample /\ group = NoGroup /\ ~Active /\ search = <<>>
  /\ down \cup seen \cup held = {}
  /\ \/ \E e \in Envelopes : sample' = <<"envelope", e>>
     \/ \E f \in Frames    : sample' = <<"frame", f>>
     \/ \E t \in Texts     : sample' = <<"text", t>>
     \/ \E s \in Strings   : sample' = <<"string", s>>
     \/ \E s \in Emojis    : sample' = <<"emoji", s>>
     \/ \E i \in DOMAIN Documents, locale \in Locales : sample' = <<"document", i, locale>>
  /\ UNCHANGED vars

Drop == sample # NoSample /\ sample' = NoSample /\ UNCHANGED vars

MCNext ==
  \/ Next /\ sample = NoSample /\ UNCHANGED sample
  \/ Try \/ Drop
MCSpec == MCInit /\ [][MCNext]_<<vars, sample>>

\* The codec is its own inverse: what is sent is read as it was meant.
SentIsRead == sample[1] = "envelope" => ReadAsSent(sample[2])

\* No two frames mean the same.
ReadIsCanonical == sample[1] = "frame" => OnlyFrame(sample[2])

\* A text that is valid UTF-8 is the only encoding of its code points: longer
\* forms, surrogates and what is above the last code point are refused. In the state
\* file its digits stand for it alone as well.
OnlyShortestForms ==
  sample[1] = "text" =>
    LET text == sample[2]
    IN IF IsValidUtf8(text)
       THEN Encode(Decode(text)) = text /\ HexDecode(HexEncode(text)) = text
       ELSE HexDecode(HexEncode(text)) = Nothing

\* Text that was normalized stays as it is (the catalog's texts are normalized once,
\* the query at every search), and no token of it is empty.
NormalizeOnce ==
  sample[1] = "string" => Settled(NormalizeForSearch(Encode(sample[2])))

\* What a font lacks is named on the tile that stands for the emoji.
LabelNamesTheGap == sample[1] = "emoji" => NamesTheGap(sample[2], Fonts)

\* What an emoji is called leads to it.
FoundByName == sample[1] = "document" => Finds(sample[2], sample[3])
=============================================================================
