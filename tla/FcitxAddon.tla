----------------------------- MODULE FcitxAddon ------------------------------
(* The Fcitx5 addon (src/addon/emoji_palette_addon.cpp) with the selection     *)
(* controller it owns (src/runtime/selection_controller.cpp). Both run on the  *)
(* Fcitx event loop: every event handler is one action. A handler that calls   *)
(* into another (show into cancel and negotiate, receiveFrame into select,     *)
(* begin and sendShow) is composed of operators on the record of the addon's   *)
(* fields.                                                                     *)
EXTENDS PaletteWire

CONSTANTS
  CloseSettings, \* values the user's CloseAfterSelection option takes
  SendOutcomes,  \* FALSE in it: an envelope may fail to be serialized or sent, a call to be queued
  AddonCatalog   \* the emoji the addon's own catalog holds

ASSUME AddonAssumption ==
  /\ CloseSettings \subseteq BOOLEAN /\ CloseSettings # {}
  /\ SendOutcomes \subseteq BOOLEAN /\ TRUE \in SendOutcomes
  /\ AddonCatalog \subseteq Emoji

VARIABLES
  addon,    \* the addon's fields, see AddonRecords
  fresh,    \* the next unused transaction identifier
  focused,  \* contexts that have the input focus
  alive,    \* contexts that exist
  commits,  \* history: every commitString call, in order
  asked,    \* history: the context each transaction was begun for
  broken    \* history: transactions whose context was disturbed after they began

addonVars == <<addon, fresh, focused, alive, commits, asked, broken>>

SessionRecords == [state : SessionStates, owner : MaybeHelper, nonce : MaybeTxn]

AddonRecords ==
  [name : AddonNames,
   transaction : MaybeTxn,                  \* of the controller
   target : MaybeContext,                   \* of the controller: where it commits
   origin : MaybeContext,
   closeAfterSelection : BOOLEAN,
   commandSequence : CommandNumbers,
   search : Searches,
   session : SessionRecords,
   pendingCall : MaybeTxn]                  \* nonce of the Hello awaiting its reply

NewAddon(name) ==
  [name |-> name, transaction |-> 0, target |-> NoContext, origin |-> NoContext,
   closeAfterSelection |-> TRUE, commandSequence |-> 0, search |-> 0,
   session |-> NewSession, pendingCall |-> 0]

AddonInit ==
  /\ addon = NewAddon(1)
  /\ fresh = 1
  /\ focused = {} /\ alive = Contexts
  /\ commits = <<>>
  /\ asked = [t \in Txns |-> NoContext]
  /\ broken = {}

Active == addon.transaction # 0

\* cancel: the transaction, the tracked context, the search text and the command
\* counter all go.
Idle(a) == [a EXCEPT !.transaction = 0, !.target = NoContext, !.origin = NoContext,
                     !.search = 0, !.commandSequence = 0]

\* cancel tells the helper only of a transaction it may be showing. A caller that
\* has cleared the transaction before (a rejected selection) hides nothing.
MustHide(a, notify) == notify /\ a.transaction # 0 /\ IsReady(a.session)

\* The effect of cancel(reason, notifyHelper) from the state `a`. A Hide that
\* cannot be sent leads back into cancel, which has nothing left to do.
CancelFrom(a, notify) ==
  /\ addon' = Idle(a)
  /\ \E sent \in SendOutcomes :
       toHelper' = IF MustHide(a, notify) /\ sent
                   THEN Append(toHelper, Hide(a.name, a.transaction))
                   ELSE toHelper

\* A mutant of SendFrom: a failure to send goes unnoticed.
SendUnchecked(a, message) ==
  \E sent \in SendOutcomes :
    /\ addon' = a
    /\ toHelper' = IF sent THEN Append(toHelper, message) ELSE toHelper

\* sendEnvelope from the state `a`: what cannot be sent cancels the transaction.
SendFrom(a, message) ==
  \E sent \in SendOutcomes :
    /\ addon' = IF sent THEN a ELSE Idle(a)
    /\ toHelper' = IF sent THEN Append(toHelper, message) ELSE toHelper

ShowOf(a) == Show(a.name, a.transaction, a.closeAfterSelection)

\* SelectionController::begin with a new identifier, for the context c.
BeginTransaction(a, c) ==
  [a EXCEPT !.transaction = fresh, !.target = c, !.commandSequence = 0]

\* negotiate from the state `a`. The slot of callAsync is stored unchecked: for a Hello
\* the bus does not queue it is null, and takes the place of the pending call all the
\* same. Such a transaction stays active, and no callback will ever look after it.
Negotiate(a) ==
  \E queued \in SendOutcomes :
    /\ addon' = [a EXCEPT !.pendingCall = IF queued THEN fresh ELSE 0]
    /\ toHelper' = IF queued THEN Append(toHelper, Hello(a.name, fresh)) ELSE toHelper

Began(c) ==
  /\ fresh' = fresh + 1
  /\ asked' = [asked EXCEPT ![fresh] = c]

(***************************************************************************)
(* Keys. With no transaction the configured trigger opens one; with one,   *)
(* every key of its context is consumed and routed.                        *)
(***************************************************************************)

\* show, after the trigger key in context c. The option is read anew each time.
Trigger(c) ==
  /\ ~Active /\ c \in focused
  /\ fresh <= MaxTxn
  /\ Began(c)
  /\ \E close \in CloseSettings :
       LET a == [BeginTransaction(Idle(addon), c) EXCEPT !.origin = c,
                                                         !.closeAfterSelection = close]
       IN IF IsReady(a.session) THEN SendFrom(a, ShowOf(a)) ELSE Negotiate(a)
  /\ UNCHANGED <<toAddon, focused, alive, commits, broken, escaped>>

\* handleActiveKey and sendCommand: the routed key becomes a numbered command,
\* whether or not the helper has been shown the transaction yet. Only SearchText
\* carries a text.
Forward(kind, search) ==
  /\ Active
  /\ addon.commandSequence < MaxCommand
  /\ LET a == [addon EXCEPT !.commandSequence = @ + 1, !.search = search]
     IN SendFrom(a, Command(a.name, a.transaction, a.commandSequence, kind,
                            IF kind = "SearchText" THEN search ELSE 0))
  /\ UNCHANGED <<toAddon, fresh, focused, alive, commits, asked, broken>>

PressEscape ==
  /\ Forward("Cancel", addon.search)
  /\ escaped' = escaped \cup {addon.transaction}

\* The bound on identifiers also bounds the choices that need a new one.
MayChoose == addon.closeAfterSelection \/ fresh <= MaxTxn

PressReturn   == MayChoose /\ Forward("Select", addon.search) /\ UNCHANGED escaped
PressArrow    == Forward("Navigate", addon.search) /\ UNCHANGED escaped
\* A printable key that would exceed maximumSearchSize is consumed and ignored.
TypeCharacter == /\ addon.search < MaxSearch
                 /\ Forward("SearchText", addon.search + 1)
                 /\ UNCHANGED escaped
\* Backspace sends the search text even when it was empty already.
PressBackspace == /\ Forward("SearchText", IF addon.search = 0 THEN 0 ELSE addon.search - 1)
                  /\ UNCHANGED escaped

(***************************************************************************)
(* Events of the input contexts. Fcitx clears the focus flag and then      *)
(* raises the event, in one turn of the loop.                              *)
(***************************************************************************)

\* A mutant of Disturbed: an event of the tracked context is overlooked.
Overlooked(c) == UNCHANGED <<addon, toHelper>>

\* The watcher shared by FocusOut, Reset, SwitchInputMethod and Destroyed: only
\* the tracked context matters.
Disturbed(c) ==
  IF c = addon.origin THEN CancelFrom(addon, TRUE) ELSE UNCHANGED <<addon, toHelper>>

\* What the properties remember of such an event, whoever handles it.
Remembered(c) == broken' = broken \cup {t \in Txns : asked[t] = c}

FocusIn(c) ==
  /\ c \in alive \ focused
  /\ focused' = focused \cup {c}
  /\ UNCHANGED <<toHelper, toAddon, addon, fresh, alive, commits, asked, broken, escaped>>

FocusOut(c) ==
  /\ c \in focused
  /\ focused' = focused \ {c}
  /\ Disturbed(c) /\ Remembered(c)
  /\ UNCHANGED <<toAddon, fresh, alive, commits, asked, escaped>>

\* Reset and SwitchInputMethod leave the focus where it is.
ResetOrSwitch(c) ==
  /\ c \in alive
  /\ Disturbed(c) /\ Remembered(c)
  /\ UNCHANGED <<toAddon, fresh, focused, alive, commits, asked, escaped>>

Destroy(c) ==
  /\ c \in alive
  /\ alive' = alive \ {c} /\ focused' = focused \ {c}
  /\ Disturbed(c) /\ Remembered(c)
  /\ UNCHANGED <<toAddon, fresh, commits, asked, escaped>>

(***************************************************************************)
(* What the bus brings. Each action takes the head of the queue.           *)
(***************************************************************************)

Takes(kinds) ==
  /\ toAddon # <<>>
  /\ Head(toAddon).kind \in kinds
  /\ toAddon' = Tail(toAddon)

\* The callback of negotiate runs for the pending call only (dropping the slot
\* drops the callback), and looks again whether its transaction is the current one.
AnswersPending(call) == call # 0 /\ call = addon.pendingCall
Settled == [addon EXCEPT !.pendingCall = 0]
IgnoresReply(call) == Settled.transaction # call

\* The Welcome branch: the session is begun and accepted with the sender of the
\* reply, then the palette is shown if the context still has the focus.
Negotiated(welcome) ==
  LET session == AcceptWelcome(Begin(addon.session, welcome.from, welcome.call),
                               welcome.from, welcome)
      a == [Settled EXCEPT !.session = session]
  IN IF IsReady(session) /\ a.target \in focused
     THEN SendFrom(a, ShowOf(a))
     ELSE CancelFrom(a, TRUE)

ReceiveReply ==
  /\ Takes({"Welcome", "Refusal", "CallError"})
  /\ LET reply == Head(toAddon)
     IN IF ~AnswersPending(reply.call)
        THEN UNCHANGED <<addon, toHelper>>
        ELSE IF IgnoresReply(reply.call)
        THEN addon' = Settled /\ UNCHANGED toHelper
        ELSE IF reply.kind = "Welcome"
        THEN Negotiated(reply)
        ELSE CancelFrom(Settled, reply.kind = "Refusal")
  /\ UNCHANGED <<fresh, focused, alive, commits, asked, broken, escaped>>

\* A mutant of CallTimesOut: the time limit only releases the call.
SilentTimeout ==
  /\ addon.pendingCall # 0
  /\ addon' = Settled
  /\ UNCHANGED <<toHelper, toAddon, fresh, focused, alive, commits, asked, broken, escaped>>

\* The five-second limit of the Hello call: the same callback, with an error.
CallTimesOut ==
  /\ addon.pendingCall # 0
  /\ IF IgnoresReply(addon.pendingCall)
     THEN addon' = Settled /\ UNCHANGED toHelper
     ELSE CancelFrom(Settled, FALSE)
  /\ UNCHANGED <<toAddon, fresh, focused, alive, commits, asked, broken, escaped>>

\* A mutant of SelectResult: the transaction of the frame is not compared.
SelectUnmatched(txn, emoji) == IF Active THEN "Committed" ELSE "Inactive"

\* A mutant of SelectResult: every Selected frame is committed.
SelectUnchecked(txn, emoji) == "Committed"

\* A mutant of SelectResult: the addon's catalog is not asked.
SelectUnknown(txn, emoji) ==
  IF Active /\ txn = addon.transaction /\ addon.target \in focused THEN "Committed"
                                                                  ELSE "Inactive"

\* SelectionController::select, in the order of its tests.
SelectResult(txn, emoji) ==
  IF ~Active                          THEN "Inactive"
  ELSE IF txn # addon.transaction     THEN "TransactionMismatch"
  ELSE IF addon.target \notin alive   THEN "TargetUnavailable"
  ELSE IF addon.target \notin focused THEN "FocusLost"
  ELSE IF emoji \notin AddonCatalog   THEN "InvalidSelection"
  ELSE "Committed"

Terminal == [addon EXCEPT !.transaction = 0, !.target = NoContext]

\* A mutant of Finished: the transaction outlives its commit.
NotTerminal == [addon EXCEPT !.origin = NoContext]

\* closeAfterSelection: the controller is terminal and the context untracked;
\* the search text and the counter stay as they were.
Finished == [Terminal EXCEPT !.origin = NoContext]

\* A mutant of AfterCommit: the next selection goes by the same identifier.
AfterCommitReusing ==
  /\ IF addon.closeAfterSelection
     THEN addon' = Finished /\ UNCHANGED toHelper
     ELSE SendFrom([addon EXCEPT !.commandSequence = 0], ShowOf(addon))
  /\ UNCHANGED <<fresh, asked>>

\* After a commit: done, or at once a new transaction for the same context.
AfterCommit ==
  IF addon.closeAfterSelection
  THEN addon' = Finished /\ UNCHANGED <<toHelper, fresh, asked>>
  ELSE IF addon.origin \in focused
  THEN /\ Began(addon.origin)
       /\ LET a == BeginTransaction(Terminal, addon.origin) IN SendFrom(a, ShowOf(a))
  ELSE CancelFrom(Terminal, TRUE) /\ UNCHANGED <<fresh, asked>>

ReceiveSelected ==
  /\ Takes({"Selected"})
  /\ LET frame == Head(toAddon)
         result == SelectResult(frame.transaction, frame.sequence)
     IN IF Accepts(addon.session, frame.from) /\ result = "Committed"
        THEN /\ addon.closeAfterSelection \/ fresh <= MaxTxn
             /\ AfterCommit
             /\ commits' = Append(commits, [transaction |-> addon.transaction,
                                           context |-> addon.target,
                                           sequence |-> frame.sequence])
        ELSE /\ IF \/ ~Accepts(addon.session, frame.from)
                   \/ result \in {"Inactive", "TransactionMismatch"}
                THEN UNCHANGED <<addon, toHelper>>
                \* select has cancelled the controller before the addon does
                ELSE CancelFrom(Terminal, TRUE)
             /\ UNCHANGED <<commits, fresh, asked>>
  /\ UNCHANGED <<focused, alive, broken, escaped>>

\* A mutant of EndsTransaction: the helper's cancellation is ignored.
EndsNothing(txn) == FALSE

\* A mutant of EndsTransaction: the frame's transaction is not compared.
EndsAny(txn) == Active

\* A Cancelled frame counts for the current transaction only.
EndsTransaction(txn) == txn = addon.transaction

ReceiveCancelled ==
  /\ Takes({"Cancelled"})
  /\ LET frame == Head(toAddon)
     IN IF Accepts(addon.session, frame.from) /\ EndsTransaction(frame.transaction)
        THEN CancelFrom(addon, FALSE)
        ELSE UNCHANGED <<addon, toHelper>>
  /\ UNCHANGED <<fresh, focused, alive, commits, asked, broken, escaped>>

\* A mutant of WithoutOwner: the transaction survives the helper it ran in.
SessionOnly(owner) ==
  [addon EXCEPT !.session = OwnerLost(@, owner), !.pendingCall = 0]

\* The owner of the helper's name left the bus: a session with that owner and its
\* transaction end, and a pending call is dropped together with its callback.
WithoutOwner(owner) ==
  [Idle(addon) EXCEPT !.session = OwnerLost(@, owner), !.pendingCall = 0]

ReceiveOwnerGone ==
  /\ Takes({"OwnerGone"})
  /\ LET owner == Head(toAddon).from
     IN addon' = IF Accepts(addon.session, owner) THEN WithoutOwner(owner) ELSE Settled
  /\ UNCHANGED <<toHelper, fresh, focused, alive, commits, asked, broken, escaped>>
=============================================================================
