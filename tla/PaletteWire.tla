----------------------------- MODULE PaletteWire -----------------------------
(* What the Fcitx5 addon and the palette helper exchange over the session bus: *)
(* the payloads of src/ipc/protocol.cpp that either side acts on, the notices  *)
(* of the bus daemon, and the two streams they travel in. D-Bus delivers the   *)
(* messages for one connection in the order the daemon routed them, so each    *)
(* direction is one FIFO queue, and the daemon's own notices take their place  *)
(* in it. A frame is a record: encoding and decoding are not modelled here.    *)
EXTENDS Naturals, Sequences, PeerSession

CONSTANTS
  Contexts,      \* the input contexts of the client applications
  NoContext,     \* an unset reference to an input context
  MaxTxn,        \* bound: transactions created over the whole run
  MaxCommand,    \* bound: keys forwarded per transaction
  MaxSearch,     \* maximumSearchSize, in typed characters
  AddonStarts,   \* bound: times Fcitx5 (and the addon with it) is started
  HelperStarts   \* bound: times the helper is started

ASSUME ContextAssumption == NoContext \notin Contexts
ASSUME BoundAssumption ==
  /\ MaxTxn \in Nat /\ MaxCommand \in Nat /\ MaxSearch \in Nat
  /\ AddonStarts \in Nat \ {0} /\ HelperStarts \in Nat \ {0}

VARIABLES
  toHelper,      \* method calls of the addon and notices, as the helper gets them
  toAddon,       \* replies and signals of the helper and notices, for the addon
  escaped        \* history: transactions Escape was pressed in to end them

\* Transactions and negotiation nonces are random in the code and never collide:
\* here they are drawn from a counter. 0 is none.
Txns        == 1 .. MaxTxn
MaybeTxn    == 0 .. MaxTxn
AddonNames  == 1 .. AddonStarts     \* unique bus names, one per start
HelperNames == 1 .. HelperStarts
MaybeAddon  == 0 .. AddonStarts
MaybeHelper == 0 .. HelperStarts
CommandNumbers == 0 .. MaxCommand   \* of commands within a transaction; 0 is before any

MaybeContext == Contexts \cup {NoContext}

\* A search text is known by its length; an emoji by the search text it was
\* listed under.
Searches == 0 .. MaxSearch
Emoji    == Searches

\* The command kinds the two sides tell apart: "Navigate" stands for the arrow,
\* page, category, favorite and variant commands, which end no transaction.
CommandKinds == {"Cancel", "Select", "Navigate", "SearchText"}

Hello(from, nonce) == [kind |-> "Hello", from |-> from, nonce |-> nonce]
Show(from, txn, close) ==
  [kind |-> "Show", from |-> from, transaction |-> txn, closeAfterSelection |-> close]
Command(from, txn, seq, what, text) ==
  [kind |-> "Command", from |-> from, transaction |-> txn, sequence |-> seq,
   command |-> what, text |-> text]
Hide(from, txn) == [kind |-> "Hide", from |-> from, transaction |-> txn]
PeerGone(from)  == [kind |-> "PeerGone", from |-> from]

ToHelper ==
  [kind : {"Hello"}, from : AddonNames, nonce : Txns]
    \cup [kind : {"Show"}, from : AddonNames, transaction : Txns,
          closeAfterSelection : BOOLEAN]
    \cup [kind : {"Command"}, from : AddonNames, transaction : Txns,
          sequence : CommandNumbers, command : CommandKinds, text : Searches]
    \cup [kind : {"Hide"}, from : AddonNames, transaction : Txns]
    \cup [kind : {"PeerGone"}, from : AddonNames]

\* The three ends of the Hello call that travel back: a Welcome, a reply without
\* a frame, an error of the bus daemon.
Welcome(from, call, nonce) ==
  [kind |-> "Welcome", from |-> from, call |-> call, nonce |-> nonce,
   version |-> protocolVersion]
Refusal(call)   == [kind |-> "Refusal", call |-> call]
CallError(call) == [kind |-> "CallError", call |-> call]
Selected(from, txn, emoji) ==
  [kind |-> "Selected", from |-> from, transaction |-> txn, sequence |-> emoji]
Cancelled(from, txn) ==
  [kind |-> "Cancelled", from |-> from, transaction |-> txn]
OwnerGone(from) == [kind |-> "OwnerGone", from |-> from]

ToAddon ==
  [kind : {"Welcome"}, from : HelperNames, call : Txns, nonce : Txns,
   version : {protocolVersion}]
    \cup [kind : {"Refusal", "CallError"}, call : Txns]
    \cup [kind : {"Selected"}, from : HelperNames, transaction : Txns, sequence : Emoji]
    \cup [kind : {"Cancelled"}, from : HelperNames, transaction : Txns]
    \cup [kind : {"OwnerGone"}, from : HelperNames]
=============================================================================
