---------------------------- MODULE PaletteHelper ----------------------------
(* The helper process: PaletteSession (src/ui/palette_session.cpp) behind the  *)
(* D-Bus object of src/ui/main.cpp, with the part of PaletteWindow             *)
(* (src/ui/palette_window.cpp) the session drives: whether it is on screen,    *)
(* the search text it lists, the settings panel. Signals between the two are   *)
(* direct connections on the one Qt thread: a slot runs inside the action that *)
(* raises its signal.                                                          *)
EXTENDS PaletteWire

CONSTANTS
  HelperBuilds   \* FALSE in it: a started helper may speak another version

ASSUME HelperAssumption == HelperBuilds \subseteq BOOLEAN /\ TRUE \in HelperBuilds

VARIABLES
  helper,   \* the process and its fields, see HelperRecords
  chosen    \* history: the emoji the helper reported for each transaction

helperVars == <<helper, chosen>>

NoEmoji == MaxSearch + 1

Validators == [transaction : MaybeTxn, lastSequence : CommandNumbers]

HelperRecords ==
  [up : BOOLEAN,
   name : MaybeHelper,       \* unique name of the last start
   compatible : BOOLEAN,               \* speaks protocolVersion
   peerOwner : MaybeAddon,
   negotiated : BOOLEAN,
   transaction : MaybeTxn,
   validator : Validators,
   visible : BOOLEAN,                  \* the window
   closeAfterSelection : BOOLEAN,      \* of the last Show
   query : Searches,
   settingsPanel : BOOLEAN]

NewHelper(up, name, compatible) ==
  [up |-> up, name |-> name, compatible |-> compatible, peerOwner |-> 0,
   negotiated |-> FALSE, transaction |-> 0, validator |-> NoSequence,
   visible |-> FALSE, closeAfterSelection |-> FALSE, query |-> 0,
   settingsPanel |-> FALSE]

HelperInit ==
  /\ helper = NewHelper(FALSE, 0, TRUE)
  /\ chosen = [t \in Txns |-> NoEmoji]

\* hidePalette: the panels go with the window; the search text stays.
Hidden(h) == [h EXCEPT !.visible = FALSE, !.settingsPanel = FALSE]

\* reset: the transaction and its command counter go, and the window with them.
Reset(h) == Hidden([h EXCEPT !.transaction = 0, !.validator = NoSequence])

\* A frame the session emits; every frame names its transaction.
Emits(frame) == toAddon' = Append(toAddon, frame)

(***************************************************************************)
(* Exchange: one method call of the addon. A call that is refused returns  *)
(* an empty frame, which the addon reads only for Hello.                   *)
(***************************************************************************)

TakesCall(kind) ==
  /\ helper.up /\ toHelper # <<>>
  /\ Head(toHelper).kind = kind
  /\ toHelper' = Tail(toHelper)

\* A Hello from a new sender resets what the old peer left before it binds.
Rebound(h, sender) ==
  [(IF h.peerOwner = sender THEN h ELSE Reset(h)) EXCEPT !.peerOwner = sender,
                                                         !.negotiated = TRUE]

ExchangeHello ==
  /\ TakesCall("Hello")
  /\ LET hello == Head(toHelper)
     IN IF helper.compatible
        THEN /\ helper' = Rebound(helper, hello.from)
             /\ Emits(Welcome(helper.name, hello.nonce, hello.nonce))
        ELSE Emits(Refusal(hello.nonce)) /\ UNCHANGED helper
  /\ UNCHANGED <<chosen, escaped>>

\* What is not a Hello needs the negotiated peer.
FromPeer(call) == helper.negotiated /\ call.from = helper.peerOwner

\* showPalette: the search text survives only in a window that is still open.
Shown(h, show) ==
  [h EXCEPT !.transaction = show.transaction,
            !.validator = BeginSequence(show.transaction),
            !.closeAfterSelection = show.closeAfterSelection,
            !.query = IF h.visible THEN h.query ELSE 0,
            !.visible = TRUE]

ExchangeShow ==
  /\ TakesCall("Show")
  /\ LET show == Head(toHelper)
     IN helper' = IF FromPeer(show) THEN Shown(helper, show) ELSE helper
  /\ UNCHANGED <<toAddon, chosen, escaped>>

\* chooseSequence and the slot of selectionRequested: the transaction ends in the
\* helper with the frame that reports it; without one nothing is reported. The
\* window closes only when the last Show asked for it.
ChooseFrom(h) ==
  /\ helper' = LET done == [h EXCEPT !.transaction = 0, !.validator = NoSequence]
                   after == IF h.transaction = 0 THEN h ELSE done
               IN IF h.closeAfterSelection THEN Hidden(after) ELSE after
  /\ IF h.transaction = 0
     THEN UNCHANGED <<toAddon, chosen>>
     ELSE /\ Emits(Selected(h.name, h.transaction, h.query))
          /\ chosen' = [chosen EXCEPT ![h.transaction] = h.query]

\* Command Cancel closes the settings panel when it is open, and otherwise ends
\* the transaction and reports it.
CancelFromKeyboard(h) ==
  IF h.settingsPanel
  THEN /\ helper' = [h EXCEPT !.settingsPanel = FALSE]
       /\ escaped' = escaped \ {h.transaction}
       /\ UNCHANGED toAddon
  ELSE /\ helper' = Reset(h)
       /\ Emits(Cancelled(h.name, h.transaction))
       /\ UNCHANGED escaped

\* A command counts in its own transaction and in increasing order.
Handles(call) ==
  /\ FromPeer(call)
  /\ helper.transaction # 0 /\ call.transaction = helper.transaction
  /\ AcceptsSequence(helper.validator, call.transaction, call.sequence)

\* The validator after an accepted command.
Counted(call) == [helper EXCEPT !.validator.lastSequence = call.sequence]

\* Select in a list without entries chooses nothing; which lists are empty is up
\* to the catalog, so both happen.
Handled(call) ==
  LET h == Counted(call)
  IN CASE call.command = "SearchText" ->
            helper' = [h EXCEPT !.query = call.text] /\ UNCHANGED <<toAddon, chosen, escaped>>
       [] call.command = "Cancel" -> CancelFromKeyboard(h) /\ UNCHANGED chosen
       [] call.command = "Select" ->
            /\ ChooseFrom(h) \/ (helper' = h /\ UNCHANGED <<toAddon, chosen>>)
            /\ UNCHANGED escaped
       [] OTHER -> helper' = h /\ UNCHANGED <<toAddon, chosen, escaped>>

ExchangeCommand ==
  /\ TakesCall("Command")
  /\ IF Handles(Head(toHelper))
     THEN Handled(Head(toHelper))
     ELSE UNCHANGED <<helper, toAddon, chosen, escaped>>

\* A Hide counts for the transaction the helper still has.
HidesPalette(call) ==
  FromPeer(call) /\ helper.transaction # 0 /\ call.transaction = helper.transaction

ExchangeHide ==
  /\ TakesCall("Hide")
  /\ helper' = IF HidesPalette(Head(toHelper)) THEN Reset(helper) ELSE helper
  /\ UNCHANGED <<toAddon, chosen, escaped>>

\* A mutant of WithoutPeer: the peer is forgotten, its palette is not.
PeerForgotten == [helper EXCEPT !.peerOwner = 0, !.negotiated = FALSE]

\* peerDisconnected, from the service watcher on the peer's unique name.
WithoutPeer == [Reset(helper) EXCEPT !.peerOwner = 0, !.negotiated = FALSE]

PeerDisconnected ==
  /\ TakesCall("PeerGone")
  /\ helper' = IF Head(toHelper).from = helper.peerOwner THEN WithoutPeer ELSE helper
  /\ UNCHANGED <<toAddon, chosen, escaped>>

(***************************************************************************)
(* The pointer. The palette never takes the keyboard, only clicks.         *)
(***************************************************************************)

\* A click on an emoji of the grid or of the variants panel. The event filter
\* swallows a press outside an open settings panel.
ClickEmoji ==
  /\ helper.visible /\ ~helper.settingsPanel
  /\ ChooseFrom(helper)
  /\ UNCHANGED <<toHelper, escaped>>

\* The settings button; a press elsewhere closes the panel as well.
ClickSettings ==
  /\ helper.visible
  /\ helper' = [helper EXCEPT !.settingsPanel = ~@]
  /\ UNCHANGED <<toHelper, toAddon, chosen, escaped>>
=============================================================================
