--------------------------- MODULE PaletteProtocol ---------------------------
(* The addon, the helper and the session bus between them, with everything     *)
(* that happens to the two processes: the helper is activated by a message to  *)
(* its well-known name, may fail to start, may die at any moment; Fcitx5 may   *)
(* be restarted under a running helper.                                        *)
EXTENDS FcitxAddon, PaletteHelper

vars == <<toHelper, toAddon, escaped, addonVars, helperVars>>

Init == 
  /\ AddonInit /\ HelperInit
  /\ toHelper = <<>> /\ toAddon = <<>> /\ escaped = {}

(***************************************************************************)
(* The bus daemon, modelled from how src/ uses it: D-Bus activation of the *)
(* service file, NameOwnerChanged, and an error for a call whose callee    *)
(* died.                                                                   *)
(***************************************************************************)

\* Whether the pending Hello is among the first n calls of the queue.
PendingLost(n) ==
  \E i \in 1 .. n : /\ toHelper[i].kind = "Hello"
                    /\ toHelper[i].from = addon.name
                    /\ toHelper[i].nonce = addon.pendingCall

ErrorIfLost(n) ==
  IF PendingLost(n) THEN <<CallError(addon.pendingCall)>> ELSE <<>>

BusUnchanged ==
  UNCHANGED <<fresh, commits, asked, escaped, chosen>>

\* A message waits for the service: the daemon starts the helper, whose main()
\* registers the object and then the name, and gets the messages in order.
StartHelper ==
  /\ ~helper.up /\ toHelper # <<>> /\ helper.name < HelperStarts
  /\ \E build \in HelperBuilds : helper' = NewHelper(TRUE, helper.name + 1, build)
  /\ UNCHANGED <<toHelper, toAddon, addon, focused, alive, broken>>
  /\ BusUnchanged

\* The service cannot be started: the waiting messages are dropped, and the one
\* that expects a reply gets an error.
StartFails ==
  /\ ~helper.up /\ toHelper # <<>>
  /\ toHelper' = <<>>
  /\ toAddon' = toAddon \o ErrorIfLost(Len(toHelper))
  /\ UNCHANGED <<helper, addon, focused, alive, broken>>
  /\ BusUnchanged

\* The helper dies or leaves the bus. What the daemon had routed to it is lost (a
\* notice of the daemon, and all before it, always was); the rest waits for the
\* next start. The change of ownership is announced before the lost call fails.
HelperDies ==
  /\ helper.up /\ helper.name < HelperStarts
  /\ \E routed \in 0 .. Len(toHelper) :
       /\ \A i \in 1 .. Len(toHelper) : toHelper[i].kind = "PeerGone" => i <= routed
       /\ toHelper' = SubSeq(toHelper, routed + 1, Len(toHelper))
       /\ toAddon' = Append(toAddon, OwnerGone(helper.name)) \o ErrorIfLost(routed)
  /\ helper' = NewHelper(FALSE, helper.name, TRUE)
  /\ UNCHANGED <<addon, focused, alive, broken>>
  /\ BusUnchanged

\* Fcitx5 ends and starts again: a new addon under a new bus name, new contexts,
\* and nothing addressed to the old name arrives. The helper hears of it if it
\* watches that name.
RestartAddon ==
  /\ addon.name < AddonStarts
  /\ addon' = NewAddon(addon.name + 1)
  /\ toAddon' = <<>>
  /\ toHelper' = IF helper.up /\ helper.peerOwner = addon.name
                 THEN Append(toHelper, PeerGone(addon.name)) ELSE toHelper
  /\ focused' = {} /\ alive' = Contexts
  /\ broken' = 1 .. fresh - 1
  /\ UNCHANGED helper
  /\ BusUnchanged

(***************************************************************************)
(* The composition.                                                        *)
(***************************************************************************)

AddonHears ==
  /\ ReceiveReply \/ ReceiveSelected \/ ReceiveCancelled \/ ReceiveOwnerGone
  /\ UNCHANGED helperVars

HelperHears ==
  /\ ExchangeHello \/ ExchangeShow \/ ExchangeCommand \/ ExchangeHide
       \/ PeerDisconnected
  /\ UNCHANGED addonVars

Timeout == CallTimesOut /\ UNCHANGED helperVars

User ==
  \/ /\ \/ \E c \in Contexts : Trigger(c)
        \/ PressEscape \/ PressReturn \/ PressArrow \/ TypeCharacter \/ PressBackspace
     /\ UNCHANGED helperVars
  \/ /\ MayChoose /\ ClickEmoji
     /\ UNCHANGED addonVars
  \/ /\ ClickSettings
     /\ UNCHANGED addonVars

ClientEvents ==
  /\ \E c \in Contexts : FocusIn(c) \/ FocusOut(c) \/ ResetOrSwitch(c) \/ Destroy(c)
  /\ UNCHANGED helperVars

Next ==
  \/ AddonHears \/ HelperHears \/ Timeout
  \/ User \/ ClientEvents
  \/ StartHelper \/ StartFails \/ HelperDies \/ RestartAddon

Spec == Init /\ [][Next]_vars

\* Both event loops keep running, the bus delivers and activates, the timer of
\* the pending call fires. No user, client or failure is ever forced to act.
Fairness ==
  /\ WF_vars(AddonHears)
  /\ WF_vars(HelperHears)
  /\ WF_vars(Timeout)
  /\ WF_vars(StartHelper \/ StartFails)

FairSpec == Spec /\ Fairness

(***************************************************************************)
(* Properties.                                                             *)
(***************************************************************************)

Commits == [transaction : Txns, context : Contexts, sequence : Emoji]

\* Every variable has its type.
TypeOK ==
  /\ toHelper \in Seq(ToHelper)
  /\ toAddon \in Seq(ToAddon)
  /\ addon \in AddonRecords
  /\ fresh \in 1 .. MaxTxn + 1
  /\ alive \subseteq Contexts /\ focused \subseteq alive
  /\ commits \in Seq(Commits)
  /\ asked \in [Txns -> MaybeContext]
  /\ broken \subseteq Txns /\ escaped \subseteq Txns
  /\ helper \in HelperRecords
  /\ chosen \in [Txns -> Emoji \cup {NoEmoji}]

\* At most one commitString per transaction: a second Selected frame, a late one or
\* one for the follow-up transaction never commits again under the same identifier
\* (SelectionController::select clears the transaction before it commits).
OneCommitPerTransaction ==
  \A i, j \in DOMAIN commits :
    commits[i].transaction = commits[j].transaction => i = j

\* What is committed is the emoji the helper reported for that very transaction,
\* not the answer to an earlier one.
CommitsTheChoice ==
  \A i \in DOMAIN commits : commits[i].sequence = chosen[commits[i].transaction]

\* An emoji only ever enters the context whose trigger key opened the palette
\* (for a follow-up transaction: the context it continues in), and the last
\* commit came while that context had not once lost focus, been reset, switched
\* its input method or been destroyed since.
CommitsUndisturbed ==
  [][\A i \in DOMAIN commits' \ DOMAIN commits :
       /\ commits'[i].context = asked[commits'[i].transaction]
       /\ commits'[i].transaction \notin broken]_vars

\* While a transaction is active the addon tracks a focused, living context, the one
\* the controller commits to: the fallback tests of select, of the Welcome callback
\* and of the follow-up Show never meet another state.
ActiveContextFocused ==
  IF Active THEN /\ addon.target \in focused
                 /\ addon.origin = addon.target
                 /\ asked[addon.transaction] = addon.target
            ELSE addon.origin = NoContext

Quiet == toHelper = <<>> /\ toAddon = <<>>

\* Once all messages are handled, an idle addon leaves no palette on the screen.
NoOrphanPalette == Quiet /\ ~Active => ~helper.visible

\* Once all messages are handled, an active transaction of a ready session is the
\* one the helper shows, to this addon, and no command is ahead of the addon's
\* counter.
QuietAgreement ==
  Quiet /\ Active /\ IsReady(addon.session) =>
    /\ helper.up /\ helper.name = addon.session.owner
    /\ helper.negotiated /\ helper.peerOwner = addon.name
    /\ helper.visible /\ helper.transaction = addon.transaction
    /\ helper.validator.lastSequence <= addon.commandSequence
    /\ helper.closeAfterSelection = addon.closeAfterSelection

\* A frame that answers an earlier transaction changes nothing in the addon, and a
\* command of an earlier transaction changes nothing in the helper.
LateMessagesHarmless ==
  [][/\ (/\ toAddon # <<>> /\ toAddon' = Tail(toAddon) /\ addon'.name = addon.name
         /\ Head(toAddon).kind \in {"Selected", "Cancelled"}
         /\ Head(toAddon).transaction # addon.transaction) => addon' = addon
     /\ (/\ toHelper # <<>> /\ toHelper' = Tail(toHelper) /\ helper.up /\ helper'.up
         /\ Head(toHelper).kind = "Command"
         /\ Head(toHelper).transaction # helper.transaction) => helper' = helper]_vars

\* The addon with helper and bus implements what the palette promises: every step
\* is a step of InsertionPromise or invisible to it. Only emoji of the addon's own
\* catalog are ever inserted, whatever the helper reports.
Promise == INSTANCE InsertionPromise WITH
  Emoji <- AddonCatalog, opened <- fresh - 1, current <- addon.transaction, place <- addon.target,
  inserted <- commits
KeepsPromise == Promise!Spec

\* The helper shows its palette as SessionWindow says, whatever messages reach it in
\* whatever order, and whenever it dies: what the protocol takes its window for.
Window == INSTANCE SessionWindow WITH
  Queries <- Searches, NoQuery <- 0,
  serving <- helper.transaction # 0, visible <- helper.visible,
  settings <- helper.settingsPanel, closes <- helper.closeAfterSelection,
  query <- helper.query
HelperKeepsToSession == Window!Spec

\* A transaction whose Hello was sent does not wait forever: it ends or the
\* session becomes ready ("Helper absence or crash cancels the active
\* transaction", docs/architecture.md).
HandshakeEnds ==
  \A t \in Txns : (addon.transaction = t /\ ~IsReady(addon.session))
                    ~> (addon.transaction # t \/ IsReady(addon.session))

CrashNoticed == \E i \in DOMAIN toAddon : toAddon[i].kind = "OwnerGone"

\* A handshake whose Hello the bus has taken does end, in a ready session or without
\* its transaction, unless the helper dies in it: also when the helper cannot be
\* started, has another version, or died before. A Hello that was not taken is the
\* other way to get stuck (see Negotiate).
HandshakeEndsAlive ==
  \A t \in Txns :
    (addon.transaction = t /\ addon.pendingCall = t /\ ~CrashNoticed)
      ~> (addon.transaction # t \/ IsReady(addon.session) \/ CrashNoticed)

\* A transaction whose session is with a helper that is gone ends.
HelperLossEnds ==
  \A t \in Txns : (/\ addon.transaction = t /\ IsReady(addon.session)
                   /\ ~(helper.up /\ helper.name = addon.session.owner))
                    ~> addon.transaction # t

\* Escape ends the transaction it was pressed in, unless it closed the settings
\* panel instead ("Press Escape to cancel", README.md).
EscapeEnds ==
  \A t \in Txns : (t \in escaped /\ addon.transaction = t)
                    ~> (addon.transaction # t \/ t \notin escaped)

\* An Escape on its way to a helper that shows its transaction does end it, even
\* if the helper dies first or a selection overtakes it.
EscapeEndsShown ==
  \A t \in Txns :
    (/\ addon.transaction = t /\ helper.transaction = t
     /\ \E i \in DOMAIN toHelper : /\ toHelper[i].kind = "Command"
                                   /\ toHelper[i].command = "Cancel"
                                   /\ toHelper[i].transaction = t)
      ~> (addon.transaction # t \/ t \notin escaped)
=============================================================================
