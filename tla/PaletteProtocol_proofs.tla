----------------------- MODULE PaletteProtocol_proofs ------------------------
(* Proofs about PaletteProtocol, for every value of its constants.             *)
EXTENDS PaletteProtocol, SequenceTheorems, TLAPS

USE ContextAssumption, BoundAssumption, AddonAssumption, HelperAssumption
    DEF ContextAssumption, BoundAssumption, AddonAssumption, HelperAssumption

(***************************************************************************)
(* Type correctness.                                                       *)
(***************************************************************************)

\* A helper without a bus name has done nothing yet.
LiveName == helper.name = 0 => ~helper.up /\ ~helper.visible

TypeInv == TypeOK /\ LiveName

\* What the type lemmas need of the number ranges: the names of the ranges stay
\* folded, which keeps the records out of the arithmetic.
LEMMA Ranges ==
  /\ 0 \in MaybeTxn /\ Txns \subseteq MaybeTxn /\ \A t \in MaybeTxn : t # 0 => t \in Txns
  /\ 0 \in CommandNumbers /\ 0 \in Searches
  /\ 0 \in MaybeHelper /\ HelperNames \subseteq MaybeHelper
  /\ 0 \in MaybeAddon /\ AddonNames \subseteq MaybeAddon
  /\ NoContext \in MaybeContext /\ Contexts \subseteq MaybeContext
  /\ NoContext \notin Contexts
BY DEF MaybeTxn, Txns, CommandNumbers, Searches, MaybeHelper, HelperNames, MaybeAddon,
       AddonNames, MaybeContext

\* The operators on the addon's record stay within its type.
LEMMA IdleType ==
  ASSUME NEW a \in AddonRecords
  PROVE  Idle(a) \in AddonRecords
BY Ranges DEF Idle, AddonRecords

\* A cancellation leaves a typed addon and a typed queue.
LEMMA CancelType ==
  ASSUME toHelper \in Seq(ToHelper), NEW a \in AddonRecords, NEW notify \in BOOLEAN,
         CancelFrom(a, notify)
  PROVE  addon' \in AddonRecords /\ toHelper' \in Seq(ToHelper)
<1>1. addon' \in AddonRecords
  BY IdleType DEF CancelFrom
<1>2. ASSUME MustHide(a, notify)
      PROVE  Hide(a.name, a.transaction) \in ToHelper
  BY <1>2, Ranges DEF MustHide, Hide, ToHelper, AddonRecords
<1> QED
  BY <1>1, <1>2 DEF CancelFrom

\* So does an attempt to send a message.
LEMMA SendType ==
  ASSUME toHelper \in Seq(ToHelper), NEW a \in AddonRecords, NEW m \in ToHelper,
         SendFrom(a, m)
  PROVE  addon' \in AddonRecords /\ toHelper' \in Seq(ToHelper)
BY IdleType DEF SendFrom

\* A Show is a message of its type.
LEMMA ShowType ==
  ASSUME NEW a \in AddonRecords, a.transaction # 0
  PROVE  ShowOf(a) \in ToHelper
BY Ranges DEF ShowOf, Show, ToHelper, AddonRecords

\* A begun transaction is the fresh one.
LEMMA BeginType ==
  ASSUME NEW a \in AddonRecords, NEW c \in Contexts, fresh \in Txns
  PROVE  /\ BeginTransaction(a, c) \in AddonRecords
         /\ BeginTransaction(a, c).transaction = fresh
BY Ranges DEF BeginTransaction, AddonRecords

\* The trigger key keeps the types.
LEMMA TriggerType ==
  ASSUME TypeInv, NEW c \in Contexts, Trigger(c), UNCHANGED helperVars
  PROVE  TypeInv'
<1>1. fresh \in Txns
  BY DEF TypeInv, TypeOK, Trigger, Txns
<1>2. PICK close \in CloseSettings :
        LET a == [BeginTransaction(Idle(addon), c) EXCEPT !.origin = c,
                                                          !.closeAfterSelection = close]
        IN IF IsReady(a.session) THEN SendFrom(a, ShowOf(a)) ELSE Negotiate(a)
  BY DEF Trigger
<1> DEFINE a == [BeginTransaction(Idle(addon), c) EXCEPT !.origin = c,
                                                         !.closeAfterSelection = close]
<1>3. a \in AddonRecords /\ a.transaction = fresh
  <2>1. Idle(addon) \in AddonRecords
    BY IdleType DEF TypeInv, TypeOK
  <2>2. /\ BeginTransaction(Idle(addon), c) \in AddonRecords
        /\ BeginTransaction(Idle(addon), c).transaction = fresh
    BY <1>1, <2>1, BeginType
  <2> QED
    BY <2>2, Ranges DEF AddonRecords
<1> HIDE DEF a
<1>4. fresh # 0
  BY <1>1 DEF Txns
<1>5. addon' \in AddonRecords /\ toHelper' \in Seq(ToHelper)
  <2>1. CASE IsReady(a.session)
    <3>1. ShowOf(a) \in ToHelper
      BY <1>3, <1>4, ShowType
    <3>2. SendFrom(a, ShowOf(a))
      BY <1>2, <2>1 DEF a
    <3> QED
      BY <1>3, <3>1, <3>2, SendType DEF TypeInv, TypeOK
  <2>2. CASE ~IsReady(a.session)
    <3>1. Negotiate(a)
      BY <1>2, <2>2 DEF a
    <3>2. PICK call \in {0, fresh} : addon' = [a EXCEPT !.pendingCall = call]
      BY <3>1 DEF Negotiate
    <3>3. toHelper' = toHelper \/ toHelper' = Append(toHelper, Hello(a.name, fresh))
      BY <3>1 DEF Negotiate
    <3>4. Hello(a.name, fresh) \in ToHelper
      BY <1>1, <1>3 DEF Hello, ToHelper, AddonRecords
    <3>5. addon' \in AddonRecords
      BY <1>1, <1>3, <3>2, Ranges DEF AddonRecords
    <3>6. toHelper \in Seq(ToHelper)
      BY DEF TypeInv, TypeOK
    <3>7. toHelper' \in Seq(ToHelper)
      BY <3>3, <3>4, <3>6
    <3> QED
      BY <3>5, <3>7
  <2> QED
    BY <2>1, <2>2
<1>6. fresh' \in 1 .. MaxTxn + 1
  BY <1>1 DEF Trigger, Began, Txns
<1>7. asked' \in [Txns -> MaybeContext]
  BY <1>1, Ranges DEF Trigger, Began, TypeInv, TypeOK
<1> QED
  BY <1>5, <1>6, <1>7 DEF Trigger, TypeInv, TypeOK, LiveName, helperVars

\* A forwarded key keeps the types.
LEMMA ForwardType ==
  ASSUME TypeInv, NEW kind \in CommandKinds, NEW search \in Searches,
         Forward(kind, search), escaped' \subseteq Txns, UNCHANGED helperVars
  PROVE  TypeInv'
<1> DEFINE a == [addon EXCEPT !.commandSequence = @ + 1, !.search = search]
           text == IF kind = "SearchText" THEN search ELSE 0
<1>1. addon.commandSequence + 1 \in CommandNumbers
  BY DEF Forward, TypeInv, TypeOK, AddonRecords, CommandNumbers
<1>2. /\ a \in AddonRecords /\ a.transaction = addon.transaction
      /\ a.name = addon.name /\ a.commandSequence = addon.commandSequence + 1
  BY <1>1 DEF TypeInv, TypeOK, AddonRecords
<1>3. SendFrom(a, Command(a.name, a.transaction, a.commandSequence, kind, text))
  BY DEF Forward
<1> HIDE DEF a
<1>4. Command(a.name, a.transaction, a.commandSequence, kind, text) \in ToHelper
  BY <1>1, <1>2, Ranges DEF Command, ToHelper, AddonRecords, Forward, Active
<1>5. addon' \in AddonRecords /\ toHelper' \in Seq(ToHelper)
  BY <1>2, <1>3, <1>4, SendType DEF TypeInv, TypeOK
<1> QED
  BY <1>5 DEF Forward, TypeInv, TypeOK, LiveName, helperVars

\* The event of an input context keeps the types.
LEMMA DisturbedType ==
  ASSUME TypeInv, NEW c \in Contexts, Disturbed(c)
  PROVE  addon' \in AddonRecords /\ toHelper' \in Seq(ToHelper)
BY CancelType DEF Disturbed, TypeInv, TypeOK

LEMMA ClientType ==
  ASSUME TypeInv, ClientEvents
  PROVE  TypeInv'
<1>1. PICK c \in Contexts : FocusIn(c) \/ FocusOut(c) \/ ResetOrSwitch(c) \/ Destroy(c)
  BY DEF ClientEvents
<1>2. CASE FocusIn(c)
  BY <1>2 DEF FocusIn, TypeInv, TypeOK, LiveName, ClientEvents, helperVars
<1>3. CASE FocusOut(c)
  BY <1>3, DisturbedType
     DEF FocusOut, Remembered, TypeInv, TypeOK, LiveName, ClientEvents, helperVars
<1>4. CASE ResetOrSwitch(c)
  BY <1>4, DisturbedType
     DEF ResetOrSwitch, Remembered, TypeInv, TypeOK, LiveName, ClientEvents, helperVars
<1>5. CASE Destroy(c)
  BY <1>5, DisturbedType
     DEF Destroy, Remembered, TypeInv, TypeOK, LiveName, ClientEvents, helperVars
<1> QED
  BY <1>1, <1>2, <1>3, <1>4, <1>5

\* Taking the head of the addon's queue.
LEMMA TakesType ==
  ASSUME toAddon \in Seq(ToAddon), NEW kinds, Takes(kinds)
  PROVE  /\ Head(toAddon) \in ToAddon /\ Head(toAddon).kind \in kinds
         /\ toAddon' \in Seq(ToAddon)
BY DEF Takes

LEMMA SettledType ==
  ASSUME addon \in AddonRecords
  PROVE  Settled \in AddonRecords
BY Ranges DEF Settled, AddonRecords

\* The reply to a Hello keeps the types, whatever it is.
LEMMA ReplyType ==
  ASSUME TypeInv, ReceiveReply, UNCHANGED helperVars
  PROVE  TypeInv'
<1> DEFINE reply == Head(toAddon)
<1>1. /\ reply \in ToAddon /\ reply.kind \in {"Welcome", "Refusal", "CallError"}
      /\ toAddon' \in Seq(ToAddon)
  BY TakesType DEF ReceiveReply, TypeInv, TypeOK
<1>2. Settled \in AddonRecords
  BY SettledType DEF TypeInv, TypeOK
<1>3. addon' \in AddonRecords /\ toHelper' \in Seq(ToHelper)
  <2>1. CASE UNCHANGED <<addon, toHelper>>
    BY <2>1 DEF TypeInv, TypeOK
  <2>2. CASE addon' = Settled /\ UNCHANGED toHelper
    BY <1>2, <2>2 DEF TypeInv, TypeOK
  <2>3. CASE CancelFrom(Settled, reply.kind = "Refusal")
    BY <1>2, <2>3, CancelType DEF TypeInv, TypeOK
  <2>4. CASE reply.kind = "Welcome" /\ Negotiated(reply) /\ ~IgnoresReply(reply.call)
             /\ AnswersPending(reply.call)
    <3> DEFINE session == AcceptWelcome(Begin(addon.session, reply.from, reply.call),
                                        reply.from, reply)
               a == [Settled EXCEPT !.session = session]
    <3>1. session \in SessionRecords
      BY <1>1, <2>4, Ranges DEF ToAddon, AcceptWelcome, Begin, SessionRecords, SessionStates
    <3>2. a \in AddonRecords /\ a.transaction = Settled.transaction
      BY <1>2, <3>1 DEF AddonRecords
    <3>3. IF IsReady(session) /\ a.target \in focused
          THEN SendFrom(a, ShowOf(a)) ELSE CancelFrom(a, TRUE)
      BY <2>4 DEF Negotiated
    <3>4. a.transaction # 0
      BY <2>4, <3>2 DEF IgnoresReply, AnswersPending
    <3> HIDE DEF a
    <3>5. ShowOf(a) \in ToHelper
      BY <3>2, <3>4, ShowType
    <3> QED
      BY <3>2, <3>3, <3>5, SendType, CancelType DEF TypeInv, TypeOK
  <2> QED
    BY <2>1, <2>2, <2>3, <2>4 DEF ReceiveReply
<1> QED
  BY <1>1, <1>3 DEF ReceiveReply, TypeInv, TypeOK, LiveName, helperVars

LEMMA TimeoutType ==
  ASSUME TypeInv, Timeout
  PROVE  TypeInv'
<1>1. addon' \in AddonRecords /\ toHelper' \in Seq(ToHelper)
  BY SettledType, CancelType DEF Timeout, CallTimesOut, TypeInv, TypeOK
<1> QED
  BY <1>1 DEF Timeout, CallTimesOut, TypeInv, TypeOK, LiveName, helperVars

\* The follow-up to a commit keeps the types.
LEMMA AfterCommitType ==
  ASSUME TypeInv, Active, AfterCommit,
         addon.closeAfterSelection \/ fresh <= MaxTxn
  PROVE  /\ addon' \in AddonRecords /\ toHelper' \in Seq(ToHelper)
         /\ fresh' \in 1 .. MaxTxn + 1 /\ asked' \in [Txns -> MaybeContext]
<1>1. Terminal \in AddonRecords /\ Finished \in AddonRecords
  BY Ranges DEF Terminal, Finished, AddonRecords, TypeInv, TypeOK
<1>2. CASE addon.closeAfterSelection
  BY <1>1, <1>2 DEF AfterCommit, TypeInv, TypeOK
<1>3. CASE ~addon.closeAfterSelection /\ addon.origin \in focused
  <2> DEFINE a == BeginTransaction(Terminal, addon.origin)
  <2>1. fresh \in Txns /\ fresh # 0
    BY <1>3 DEF TypeInv, TypeOK, Txns
  <2>2. addon.origin \in Contexts
    BY <1>3 DEF TypeInv, TypeOK
  <2>3. a \in AddonRecords /\ a.transaction = fresh
    BY <1>1, <2>1, <2>2, BeginType
  <2>4. Began(addon.origin) /\ SendFrom(a, ShowOf(a))
    BY <1>3 DEF AfterCommit
  <2> HIDE DEF a
  <2>5. ShowOf(a) \in ToHelper
    BY <2>1, <2>3, ShowType
  <2>6. addon' \in AddonRecords /\ toHelper' \in Seq(ToHelper)
    BY <2>3, <2>4, <2>5, SendType DEF TypeInv, TypeOK
  <2>7. fresh' \in 1 .. MaxTxn + 1
    BY <2>1, <2>4 DEF Began, Txns
  <2>8. asked' \in [Txns -> MaybeContext]
    BY <2>1, <2>2, <2>4, Ranges DEF Began, TypeInv, TypeOK
  <2> QED
    BY <2>6, <2>7, <2>8
<1>4. CASE ~addon.closeAfterSelection /\ addon.origin \notin focused
  BY <1>1, <1>4, CancelType DEF AfterCommit, TypeInv, TypeOK
<1> QED
  BY <1>2, <1>3, <1>4

LEMMA SelectedType ==
  ASSUME TypeInv, ReceiveSelected, UNCHANGED helperVars
  PROVE  TypeInv'
<1> DEFINE frame == Head(toAddon)
           result == SelectResult(frame.transaction, frame.sequence)
           committed == Accepts(addon.session, frame.from) /\ result = "Committed"
<1>1. /\ frame \in ToAddon /\ frame.kind = "Selected" /\ toAddon' \in Seq(ToAddon)
  BY TakesType DEF ReceiveSelected, TypeInv, TypeOK
<1>2. CASE committed
  <2>1. /\ AfterCommit
        /\ addon.closeAfterSelection \/ fresh <= MaxTxn
        /\ commits' = Append(commits, [transaction |-> addon.transaction,
                                       context |-> addon.target,
                                       sequence |-> frame.sequence])
    BY <1>2 DEF ReceiveSelected
  <2>2. Active /\ addon.target \in focused
    BY <1>2 DEF SelectResult
  <2>3. [transaction |-> addon.transaction, context |-> addon.target,
         sequence |-> frame.sequence] \in Commits
    <3>1. addon.transaction \in Txns
      BY <2>2, Ranges DEF Active, TypeInv, TypeOK, AddonRecords
    <3>2. addon.target \in Contexts
      BY <2>2 DEF TypeInv, TypeOK
    <3>3. frame.sequence \in Emoji
      BY <1>1 DEF ToAddon
    <3> QED
      BY <3>1, <3>2, <3>3 DEF Commits
  <2>4. commits' \in Seq(Commits)
    BY <2>1, <2>3 DEF TypeInv, TypeOK
  <2>5. /\ addon' \in AddonRecords /\ toHelper' \in Seq(ToHelper)
        /\ fresh' \in 1 .. MaxTxn + 1 /\ asked' \in [Txns -> MaybeContext]
    BY <2>1, <2>2, AfterCommitType
  <2> QED
    BY <1>1, <2>4, <2>5 DEF ReceiveSelected, TypeInv, TypeOK, LiveName, helperVars
<1>3. CASE ~committed
  <2>1. Terminal \in AddonRecords
    BY Ranges DEF Terminal, AddonRecords, TypeInv, TypeOK
  <2>2. UNCHANGED <<addon, toHelper>> \/ CancelFrom(Terminal, TRUE)
    BY <1>3 DEF ReceiveSelected
  <2>3. UNCHANGED <<commits, fresh, asked>>
    BY <1>3 DEF ReceiveSelected
  <2>4. addon' \in AddonRecords /\ toHelper' \in Seq(ToHelper)
    BY <2>1, <2>2, CancelType DEF TypeInv, TypeOK
  <2> QED
    BY <1>1, <2>3, <2>4 DEF ReceiveSelected, TypeInv, TypeOK, LiveName, helperVars
<1> QED
  BY <1>2, <1>3

LEMMA CancelledType ==
  ASSUME TypeInv, ReceiveCancelled, UNCHANGED helperVars
  PROVE  TypeInv'
<1>1. toAddon' \in Seq(ToAddon)
  BY TakesType DEF ReceiveCancelled, TypeInv, TypeOK
<1>2. addon' \in AddonRecords /\ toHelper' \in Seq(ToHelper)
  BY CancelType DEF ReceiveCancelled, TypeInv, TypeOK
<1> QED
  BY <1>1, <1>2 DEF ReceiveCancelled, TypeInv, TypeOK, LiveName, helperVars

LEMMA OwnerGoneType ==
  ASSUME TypeInv, ReceiveOwnerGone, UNCHANGED helperVars
  PROVE  TypeInv'
<1> DEFINE owner == Head(toAddon).from
<1>1. toAddon' \in Seq(ToAddon)
  BY TakesType DEF ReceiveOwnerGone, TypeInv, TypeOK
<1>2. WithoutOwner(owner) \in AddonRecords
  <2>1. Idle(addon) \in AddonRecords
    BY IdleType DEF TypeInv, TypeOK
  <2>2. OwnerLost(Idle(addon).session, owner) \in SessionRecords
    BY <2>1, Ranges DEF OwnerLost, NewSession, SessionRecords, SessionStates, AddonRecords
  <2> QED
    BY <2>1, <2>2, Ranges DEF WithoutOwner, AddonRecords
<1>3. addon' \in AddonRecords
  BY <1>2, SettledType DEF ReceiveOwnerGone, TypeInv, TypeOK
<1> QED
  BY <1>1, <1>3 DEF ReceiveOwnerGone, TypeInv, TypeOK, LiveName, helperVars

\* The helper's record under its own operators.
LEMMA ResetType ==
  ASSUME NEW h \in HelperRecords
  PROVE  Reset(h) \in HelperRecords /\ Reset(h).transaction = 0 /\ Reset(h).up = h.up
         /\ Reset(h).name = h.name
BY Ranges DEF Reset, Hidden, NoSequence, BeginSequence, HelperRecords, Validators

\* A call the helper takes.
LEMMA TakesCallType ==
  ASSUME TypeInv, NEW kind, TakesCall(kind)
  PROVE  /\ Head(toHelper) \in ToHelper /\ Head(toHelper).kind = kind
         /\ toHelper' \in Seq(ToHelper)
         /\ helper.up /\ helper.name \in HelperNames
<1>1. helper.name # 0 /\ helper.up
  BY DEF TakesCall, TypeInv, LiveName
<1>2. helper.name \in HelperNames
  BY <1>1 DEF TypeInv, TypeOK, HelperRecords, MaybeHelper, HelperNames
<1> QED
  BY <1>1, <1>2 DEF TakesCall, TypeInv, TypeOK

LEMMA HelloType ==
  ASSUME TypeInv, ExchangeHello, UNCHANGED addonVars
  PROVE  TypeInv'
<1> DEFINE hello == Head(toHelper)
<1>1. /\ hello \in ToHelper /\ hello.kind = "Hello" /\ toHelper' \in Seq(ToHelper)
      /\ helper.up /\ helper.name \in HelperNames
  BY TakesCallType DEF ExchangeHello
<1>2. hello.from \in AddonNames /\ hello.nonce \in Txns
  BY <1>1 DEF ToHelper
<1>3. CASE helper.compatible
  <2>1. Rebound(helper, hello.from) \in HelperRecords
    <3>1. Reset(helper) \in HelperRecords
      BY ResetType DEF TypeInv, TypeOK
    <3> QED
      BY <1>2, <3>1, Ranges DEF Rebound, TypeInv, TypeOK, HelperRecords
  <2>2. Rebound(helper, hello.from).name = helper.name
    BY ResetType, <1>2 DEF Rebound, TypeInv, TypeOK, HelperRecords
  <2>3. Welcome(helper.name, hello.nonce, hello.nonce) \in ToAddon
    BY <1>1, <1>2 DEF Welcome, ToAddon
  <2>4. helper' = Rebound(helper, hello.from)
        /\ toAddon' = Append(toAddon, Welcome(helper.name, hello.nonce, hello.nonce))
    BY <1>3 DEF ExchangeHello, Emits
  <2>5. toAddon' \in Seq(ToAddon)
    BY <2>3, <2>4 DEF TypeInv, TypeOK
  <2>6. helper'.name # 0
    BY <1>1, <2>2, <2>4 DEF HelperNames
  <2> QED
    BY <1>1, <2>1, <2>4, <2>5, <2>6
       DEF ExchangeHello, TypeInv, TypeOK, LiveName, addonVars
<1>4. CASE ~helper.compatible
  <2>1. Refusal(hello.nonce) \in ToAddon
    BY <1>2 DEF Refusal, ToAddon
  <2>2. helper' = helper /\ toAddon' = Append(toAddon, Refusal(hello.nonce))
    BY <1>4 DEF ExchangeHello, Emits
  <2>3. toAddon' \in Seq(ToAddon)
    BY <2>1, <2>2 DEF TypeInv, TypeOK
  <2> QED
    BY <1>1, <2>2, <2>3 DEF ExchangeHello, TypeInv, TypeOK, LiveName, addonVars
<1> QED
  BY <1>3, <1>4

LEMMA ShowCallType ==
  ASSUME TypeInv, ExchangeShow, UNCHANGED addonVars
  PROVE  TypeInv'
<1> DEFINE show == Head(toHelper)
<1>1. /\ show \in ToHelper /\ show.kind = "Show" /\ toHelper' \in Seq(ToHelper)
      /\ helper.up /\ helper.name \in HelperNames
  BY TakesCallType DEF ExchangeShow
<1>2. Shown(helper, show) \in HelperRecords /\ Shown(helper, show).name = helper.name
  <2>1. show.transaction \in MaybeTxn /\ show.closeAfterSelection \in BOOLEAN
    BY <1>1, Ranges DEF ToHelper
  <2>2. BeginSequence(show.transaction) \in Validators
    BY <2>1, Ranges DEF BeginSequence, Validators
  <2> QED
    BY <2>1, <2>2, Ranges DEF Shown, TypeInv, TypeOK, HelperRecords
<1>3. helper' \in HelperRecords /\ helper'.name = helper.name
  BY <1>2 DEF ExchangeShow, TypeInv, TypeOK
<1>4. helper'.name # 0
  BY <1>1, <1>3 DEF HelperNames
<1> QED
  BY <1>1, <1>3, <1>4 DEF ExchangeShow, TypeInv, TypeOK, LiveName, addonVars

LEMMA HideCallType ==
  ASSUME TypeInv, ExchangeHide, UNCHANGED addonVars
  PROVE  TypeInv'
<1>1. toHelper' \in Seq(ToHelper) /\ helper.name \in HelperNames
  BY TakesCallType DEF ExchangeHide
<1>2. helper' \in HelperRecords /\ helper'.name = helper.name
  BY ResetType DEF ExchangeHide, TypeInv, TypeOK
<1>3. helper'.name # 0
  BY <1>1, <1>2 DEF HelperNames
<1> QED
  BY <1>1, <1>2, <1>3 DEF ExchangeHide, TypeInv, TypeOK, LiveName, addonVars

LEMMA PeerGoneType ==
  ASSUME TypeInv, PeerDisconnected, UNCHANGED addonVars
  PROVE  TypeInv'
<1>1. toHelper' \in Seq(ToHelper) /\ helper.name \in HelperNames
  BY TakesCallType DEF PeerDisconnected
<1>2. WithoutPeer \in HelperRecords /\ WithoutPeer.name = helper.name
  <2>1. Reset(helper) \in HelperRecords /\ Reset(helper).name = helper.name
    BY ResetType DEF TypeInv, TypeOK
  <2> QED
    BY <2>1, Ranges DEF WithoutPeer, HelperRecords
<1>3. helper' \in HelperRecords /\ helper'.name = helper.name
  BY <1>2 DEF PeerDisconnected, TypeInv, TypeOK
<1>4. helper'.name # 0
  BY <1>1, <1>3 DEF HelperNames
<1> QED
  BY <1>1, <1>3, <1>4 DEF PeerDisconnected, TypeInv, TypeOK, LiveName, addonVars

\* A choice, with or without a frame.
LEMMA ChooseType ==
  ASSUME NEW h \in HelperRecords, h.name \in HelperNames, ChooseFrom(h),
         toAddon \in Seq(ToAddon), chosen \in [Txns -> Emoji \cup {NoEmoji}]
  PROVE  /\ helper' \in HelperRecords /\ helper'.name = h.name
         /\ toAddon' \in Seq(ToAddon) /\ chosen' \in [Txns -> Emoji \cup {NoEmoji}]
<1> DEFINE done == [h EXCEPT !.transaction = 0, !.validator = NoSequence]
<1>1. done \in HelperRecords /\ done.name = h.name
  BY Ranges DEF NoSequence, BeginSequence, HelperRecords, Validators
<1>2. \A g \in HelperRecords : Hidden(g) \in HelperRecords /\ Hidden(g).name = g.name
  BY DEF Hidden, HelperRecords
<1>3. helper' \in HelperRecords /\ helper'.name = h.name
  <2>1. helper' \in {h, done, Hidden(h), Hidden(done)}
    BY DEF ChooseFrom
  <2> HIDE DEF done
  <2> QED
    BY <1>1, <1>2, <2>1
<1>4. CASE h.transaction = 0
  BY <1>3, <1>4 DEF ChooseFrom
<1>5. CASE h.transaction # 0
  <2>1. h.transaction \in Txns /\ h.query \in Emoji
    BY <1>5, Ranges DEF HelperRecords, Emoji
  <2>2. Selected(h.name, h.transaction, h.query) \in ToAddon
    BY <2>1 DEF Selected, ToAddon
  <2>3. toAddon' \in Seq(ToAddon)
    BY <1>5, <2>2 DEF ChooseFrom, Emits
  <2>4. chosen' \in [Txns -> Emoji \cup {NoEmoji}]
    BY <1>5, <2>1 DEF ChooseFrom
  <2> QED
    BY <1>3, <2>3, <2>4
<1> QED
  BY <1>4, <1>5

LEMMA CommandType ==
  ASSUME TypeInv, ExchangeCommand, UNCHANGED addonVars
  PROVE  TypeInv'
<1> DEFINE call == Head(toHelper)
           h == Counted(call)
<1>1. /\ call \in ToHelper /\ call.kind = "Command" /\ toHelper' \in Seq(ToHelper)
      /\ helper.up /\ helper.name \in HelperNames
  BY TakesCallType DEF ExchangeCommand
<1>2. CASE UNCHANGED <<helper, toAddon, chosen, escaped>>
  BY <1>1, <1>2 DEF TypeInv, TypeOK, LiveName, addonVars
<1>3. CASE Handles(call) /\ Handled(call)
  <2>1. /\ call.sequence \in CommandNumbers /\ call.text \in Searches
        /\ call.transaction \in MaybeTxn
    BY <1>1, Ranges DEF ToHelper
  <2>2. h \in HelperRecords /\ h.name = helper.name /\ h.transaction = helper.transaction
    BY <2>1 DEF Counted, TypeInv, TypeOK, HelperRecords, Validators
  <2>3. h.transaction \in Txns
    BY <1>3, <2>2, Ranges DEF Handles, HelperRecords
  <2> HIDE DEF h
  <2>4. /\ helper' \in HelperRecords /\ helper'.name = h.name
        /\ toAddon' \in Seq(ToAddon) /\ chosen' \in [Txns -> Emoji \cup {NoEmoji}]
        /\ escaped' \subseteq Txns
    <3>1. CASE call.command = "SearchText"
      <4>1. /\ helper' = [h EXCEPT !.query = call.text]
            /\ UNCHANGED <<toAddon, chosen, escaped>>
        BY <1>3, <3>1 DEF Handled, h
      <4>2. helper' \in HelperRecords /\ helper'.name = h.name
        BY <2>1, <2>2, <4>1 DEF HelperRecords
      <4> QED
        BY <4>1, <4>2 DEF TypeInv, TypeOK
    <3>2. CASE call.command = "Cancel"
      <4>1. CancelFromKeyboard(h) /\ UNCHANGED chosen
        BY <1>3, <3>2 DEF Handled, h
      <4>2. [h EXCEPT !.settingsPanel = FALSE] \in HelperRecords
            /\ [h EXCEPT !.settingsPanel = FALSE].name = h.name
        BY <2>2 DEF HelperRecords
      <4>3. helper' \in HelperRecords /\ helper'.name = h.name
        BY <2>2, <4>1, <4>2, ResetType DEF CancelFromKeyboard
      <4>4. Cancelled(h.name, h.transaction) \in ToAddon
        BY <1>1, <2>2, <2>3 DEF Cancelled, ToAddon
      <4>5. toAddon' \in Seq(ToAddon)
        <5>1. UNCHANGED toAddon \/ toAddon' = Append(toAddon, Cancelled(h.name, h.transaction))
          BY <4>1 DEF CancelFromKeyboard, Emits
        <5>2. toAddon \in Seq(ToAddon)
          BY DEF TypeInv, TypeOK
        <5> QED
          BY <4>4, <5>1, <5>2
      <4>6. escaped' \subseteq Txns
        BY <4>1 DEF CancelFromKeyboard, TypeInv, TypeOK
      <4> QED
        BY <4>1, <4>3, <4>5, <4>6 DEF TypeInv, TypeOK
    <3>3. CASE call.command = "Select"
      <4>1. /\ ChooseFrom(h) \/ (helper' = h /\ UNCHANGED <<toAddon, chosen>>)
            /\ UNCHANGED escaped
        BY <1>3, <3>3 DEF Handled, h
      <4>2. CASE ChooseFrom(h)
        <5>1. h.name \in HelperNames
          BY <1>1, <2>2
        <5>2. /\ helper' \in HelperRecords /\ helper'.name = h.name
              /\ toAddon' \in Seq(ToAddon) /\ chosen' \in [Txns -> Emoji \cup {NoEmoji}]
          BY <2>2, <4>2, <5>1, ChooseType DEF TypeInv, TypeOK
        <5> QED
          BY <4>1, <5>2 DEF TypeInv, TypeOK
      <4> QED
        BY <2>2, <4>1, <4>2 DEF TypeInv, TypeOK
    <3>4. CASE call.command \notin {"SearchText", "Cancel", "Select"}
      <4>1. helper' = h /\ UNCHANGED <<toAddon, chosen, escaped>>
        BY <1>3, <3>4 DEF Handled, h
      <4> QED
        BY <2>2, <4>1 DEF TypeInv, TypeOK
    <3> QED
      BY <3>1, <3>2, <3>3, <3>4
  <2>5. helper'.name # 0
    BY <1>1, <2>2, <2>4 DEF HelperNames
  <2> QED
    BY <1>1, <2>4, <2>5 DEF TypeInv, TypeOK, LiveName, addonVars
<1> QED
  BY <1>2, <1>3 DEF ExchangeCommand

\* A visible window belongs to a process that was started, so does a click.
LEMMA ClickType ==
  ASSUME TypeInv, ClickEmoji \/ ClickSettings, UNCHANGED addonVars
  PROVE  TypeInv'
<1>1. helper.visible /\ helper.name # 0
  BY DEF ClickEmoji, ClickSettings, TypeInv, LiveName
<1>2. helper.name \in HelperNames
  BY <1>1 DEF TypeInv, TypeOK, HelperRecords, MaybeHelper, HelperNames
<1>3. CASE ClickEmoji
  <2>1. /\ helper' \in HelperRecords /\ helper'.name = helper.name
        /\ toAddon' \in Seq(ToAddon) /\ chosen' \in [Txns -> Emoji \cup {NoEmoji}]
    BY <1>2, <1>3, ChooseType DEF ClickEmoji, TypeInv, TypeOK
  <2> QED
    BY <1>1, <1>3, <2>1 DEF ClickEmoji, TypeInv, TypeOK, LiveName, addonVars
<1>4. CASE ClickSettings
  <2>1. helper' \in HelperRecords /\ helper'.name = helper.name
    BY <1>4 DEF ClickSettings, TypeInv, TypeOK, HelperRecords
  <2> QED
    BY <1>1, <1>4, <2>1 DEF ClickSettings, TypeInv, TypeOK, LiveName, addonVars
<1> QED
  BY <1>3, <1>4

\* A helper that was just started, or is gone.
LEMMA NewHelperType ==
  ASSUME NEW up \in BOOLEAN, NEW name \in MaybeHelper, NEW compatible \in BOOLEAN
  PROVE  NewHelper(up, name, compatible) \in HelperRecords
BY Ranges DEF NewHelper, HelperRecords, NoSequence, BeginSequence, Validators

\* The error of a lost call, if there is one.
LEMMA ErrorType ==
  ASSUME TypeInv, NEW n \in 0 .. Len(toHelper)
  PROVE  ErrorIfLost(n) \in Seq(ToAddon)
<1>1. CASE PendingLost(n)
  <2>1. PICK i \in 1 .. n : /\ toHelper[i].kind = "Hello"
                            /\ toHelper[i].nonce = addon.pendingCall
    BY <1>1 DEF PendingLost
  <2>2. toHelper[i] \in ToHelper
    BY <2>1 DEF TypeInv, TypeOK
  <2>3. addon.pendingCall \in Txns
    BY <2>1, <2>2 DEF ToHelper
  <2>4. CallError(addon.pendingCall) \in ToAddon
    BY <2>3 DEF CallError, ToAddon
  <2> QED
    BY <1>1, <2>4 DEF ErrorIfLost
<1>2. CASE ~PendingLost(n)
  BY <1>2 DEF ErrorIfLost
<1> QED
  BY <1>1, <1>2

LEMMA BusType ==
  ASSUME TypeInv, StartHelper \/ StartFails \/ HelperDies \/ RestartAddon
  PROVE  TypeInv'
<1>1. CASE StartHelper
  <2>1. helper.name + 1 \in MaybeHelper /\ helper.name + 1 # 0
    BY <1>1 DEF StartHelper, TypeInv, TypeOK, HelperRecords, MaybeHelper
  <2>2. PICK build \in BOOLEAN : helper' = NewHelper(TRUE, helper.name + 1, build)
    BY <1>1 DEF StartHelper
  <2>3. helper' \in HelperRecords /\ helper'.name # 0
    BY <2>1, <2>2, NewHelperType DEF NewHelper
  <2> QED
    BY <1>1, <2>3 DEF StartHelper, BusUnchanged, TypeInv, TypeOK, LiveName
<1>2. CASE StartFails
  <2>1. toHelper' \in Seq(ToHelper)
    BY <1>2 DEF StartFails
  <2>2. ErrorIfLost(Len(toHelper)) \in Seq(ToAddon)
    <3>1. Len(toHelper) \in 0 .. Len(toHelper)
      BY DEF TypeInv, TypeOK
    <3> QED
      BY <3>1, ErrorType
  <2>3. toAddon' \in Seq(ToAddon)
    BY <1>2, <2>2 DEF StartFails, TypeInv, TypeOK
  <2> QED
    BY <1>2, <2>1, <2>3 DEF StartFails, BusUnchanged, TypeInv, TypeOK, LiveName
<1>3. CASE HelperDies
  <2>1. PICK routed \in 0 .. Len(toHelper) :
          /\ toHelper' = SubSeq(toHelper, routed + 1, Len(toHelper))
          /\ toAddon' = Append(toAddon, OwnerGone(helper.name)) \o ErrorIfLost(routed)
    BY <1>3 DEF HelperDies
  <2>2. helper.up /\ helper.name # 0 /\ helper.name \in MaybeHelper
    BY <1>3 DEF HelperDies, TypeInv, TypeOK, LiveName, HelperRecords
  <2>3. toHelper' \in Seq(ToHelper)
    <3>1. toHelper \in Seq(ToHelper) /\ routed \in Nat
      BY DEF TypeInv, TypeOK
    <3>2. SubSeq(toHelper, routed + 1, Len(toHelper)) \in Seq(ToHelper)
      BY <3>1, SubSeqProperties
    <3> QED
      BY <2>1, <3>2
  <2>4. toAddon' \in Seq(ToAddon)
    <3>1. OwnerGone(helper.name) \in ToAddon
      <4>1. helper.name \in HelperNames
        BY <2>2 DEF MaybeHelper, HelperNames
      <4> QED
        BY <4>1 DEF OwnerGone, ToAddon
    <3>2. Append(toAddon, OwnerGone(helper.name)) \in Seq(ToAddon)
      BY <3>1 DEF TypeInv, TypeOK
    <3>3. ErrorIfLost(routed) \in Seq(ToAddon)
      BY ErrorType
    <3> QED
      BY <2>1, <3>2, <3>3
  <2>5. helper' \in HelperRecords /\ helper'.name # 0
    <3>1. helper' = NewHelper(FALSE, helper.name, TRUE)
      BY <1>3 DEF HelperDies
    <3> QED
      BY <2>2, <3>1, NewHelperType DEF NewHelper
  <2> QED
    BY <1>3, <2>3, <2>4, <2>5 DEF HelperDies, BusUnchanged, TypeInv, TypeOK, LiveName
<1>4. CASE RestartAddon
  <2>1. addon.name \in AddonNames /\ addon.name + 1 \in AddonNames
    BY <1>4 DEF RestartAddon, TypeInv, TypeOK, AddonRecords, AddonNames
  <2>2. addon' \in AddonRecords
    BY <1>4, <2>1, Ranges
       DEF RestartAddon, NewAddon, NewSession, AddonRecords, SessionRecords, SessionStates
  <2>3. toHelper' \in Seq(ToHelper)
    <3>1. PeerGone(addon.name) \in ToHelper
      BY <2>1 DEF PeerGone, ToHelper
    <3> QED
      BY <1>4, <3>1 DEF RestartAddon, TypeInv, TypeOK
  <2>4. broken' \subseteq Txns
    BY <1>4 DEF RestartAddon, TypeInv, TypeOK, Txns
  <2>5. toAddon' \in Seq(ToAddon)
    BY <1>4 DEF RestartAddon
  <2> QED
    BY <1>4, <2>2, <2>3, <2>4, <2>5
       DEF RestartAddon, BusUnchanged, TypeInv, TypeOK, LiveName
<1> QED
  BY <1>1, <1>2, <1>3, <1>4

LEMMA UserType ==
  ASSUME TypeInv, User
  PROVE  TypeInv'
<1>1. ASSUME NEW c \in Contexts, Trigger(c), UNCHANGED helperVars
      PROVE  TypeInv'
  BY <1>1, TriggerType
<1>2. ASSUME PressEscape \/ PressReturn \/ PressArrow \/ TypeCharacter \/ PressBackspace,
             UNCHANGED helperVars
      PROVE  TypeInv'
  <2>1. addon.search \in Searches
    BY DEF TypeInv, TypeOK, AddonRecords
  <2>2. CASE PressEscape
    <3>1. addon.transaction \in Txns
      BY <2>2, Ranges DEF PressEscape, Forward, Active, TypeInv, TypeOK, AddonRecords
    <3>2. escaped' \subseteq Txns
      BY <2>2, <3>1 DEF PressEscape, TypeInv, TypeOK
    <3> QED
      BY <1>2, <2>1, <2>2, <3>2, ForwardType DEF PressEscape, CommandKinds
  <2>3. ASSUME UNCHANGED escaped PROVE escaped' \subseteq Txns
    BY <2>3 DEF TypeInv, TypeOK
  <2>4. CASE PressReturn
    BY <1>2, <2>1, <2>3, <2>4, ForwardType DEF PressReturn, CommandKinds
  <2>5. CASE PressArrow
    BY <1>2, <2>1, <2>3, <2>5, ForwardType DEF PressArrow, CommandKinds
  <2>6. CASE TypeCharacter
    <3>1. addon.search + 1 \in Searches
      BY <2>6 DEF TypeCharacter, TypeInv, TypeOK, AddonRecords, Searches
    <3> QED
      BY <1>2, <2>3, <2>6, <3>1, ForwardType DEF TypeCharacter, CommandKinds
  <2>7. CASE PressBackspace
    <3>1. (IF addon.search = 0 THEN 0 ELSE addon.search - 1) \in Searches
      BY DEF TypeInv, TypeOK, AddonRecords, Searches
    <3> QED
      BY <1>2, <2>3, <2>7, <3>1, ForwardType DEF PressBackspace, CommandKinds
  <2> QED
    BY <1>2, <2>2, <2>4, <2>5, <2>6, <2>7
<1> QED
  BY <1>1, <1>2, ClickType DEF User

\* Every step keeps the types.
LEMMA TypeStep ==
  ASSUME TypeInv, [Next]_vars
  PROVE  TypeInv'
<1>1. CASE AddonHears
  BY <1>1, ReplyType, SelectedType, CancelledType, OwnerGoneType DEF AddonHears
<1>2. CASE HelperHears
  BY <1>2, HelloType, ShowCallType, CommandType, HideCallType, PeerGoneType DEF HelperHears
<1>3. CASE Timeout
  BY <1>3, TimeoutType
<1>4. CASE User
  BY <1>4, UserType
<1>5. CASE ClientEvents
  BY <1>5, ClientType
<1>6. CASE StartHelper \/ StartFails \/ HelperDies \/ RestartAddon
  BY <1>6, BusType
<1>7. CASE UNCHANGED vars
  BY <1>7 DEF vars, addonVars, helperVars, TypeInv, TypeOK, LiveName
<1> QED
  BY <1>1, <1>2, <1>3, <1>4, <1>5, <1>6, <1>7 DEF Next

LEMMA TypeInit ==
  ASSUME Init
  PROVE  TypeInv
<1>1. addon \in AddonRecords
  BY Ranges DEF Init, AddonInit, NewAddon, NewSession, AddonRecords, AddonNames,
                SessionRecords, SessionStates
<1>2. helper \in HelperRecords /\ LiveName
  BY Ranges, NewHelperType DEF Init, HelperInit, LiveName, NewHelper
<1>3. fresh \in 1 .. MaxTxn + 1
  BY DEF Init, AddonInit
<1>4. commits \in Seq(Commits) /\ toHelper \in Seq(ToHelper) /\ toAddon \in Seq(ToAddon)
  BY DEF Init, AddonInit
<1> QED
  BY <1>1, <1>2, <1>3, <1>4, Ranges DEF Init, AddonInit, HelperInit, TypeInv, TypeOK

\* Every variable of the composed system always has its type.
THEOREM TypeCorrect == Spec => []TypeOK
<1>1. Init => TypeInv
  BY TypeInit
<1>2. TypeInv /\ [Next]_vars => TypeInv'
  BY TypeStep
<1>3. TypeInv => TypeOK
  BY DEF TypeInv
<1> QED
  BY <1>1, <1>2, <1>3, PTL DEF Spec

(***************************************************************************)
(* Transactions and commits. Whatever the helper and the bus do, what a step *)
(* does to the transaction, its context and the commits has one of six       *)
(* shapes; the invariant and the refinement follow from the shapes alone.    *)
(***************************************************************************)

(***************************************************************************)
(* The shapes of a step.                                                   *)
(***************************************************************************)

\* The fields a transaction consists of, and a step that clears them.
Core  == <<addon.transaction, addon.target, addon.origin>>
Clear == addon'.transaction = 0 /\ addon'.target = NoContext /\ addon'.origin = NoContext
Holds(t, c) == addon'.transaction = t /\ addon'.target = c /\ addon'.origin = c

Keeps ==
  /\ UNCHANGED <<Core, fresh, commits, asked, broken>>
  /\ focused' = focused \/ \E c \in Contexts : focused' = focused \cup {c}

Ends == Clear /\ UNCHANGED <<fresh, commits, asked, broken, focused>>

OpensFor(c) ==
  /\ ~Active /\ c \in focused /\ fresh \in Txns
  /\ Began(c)
  /\ Clear \/ Holds(fresh, c)
  /\ UNCHANGED <<commits, broken, focused>>

CommitsAndContinues(e) ==
  /\ Active /\ addon.target \in focused
  /\ commits' = Append(commits, [transaction |-> addon.transaction,
                                 context |-> addon.target, sequence |-> e])
  /\ \/ Clear /\ UNCHANGED <<fresh, asked>>
     \/ /\ fresh \in Txns /\ addon.origin \in focused
        /\ Began(addon.origin)
        /\ Clear \/ Holds(fresh, addon.origin)
  /\ UNCHANGED <<broken, focused>>

Disturbs(c) ==
  /\ focused' \in {focused, focused \ {c}}
  /\ Remembered(c)
  /\ IF c = addon.origin THEN Clear ELSE UNCHANGED Core
  /\ UNCHANGED <<fresh, commits, asked>>

Restarts ==
  /\ Clear /\ focused' = {} /\ broken' = 1 .. fresh - 1
  /\ UNCHANGED <<fresh, commits, asked>>

Shape ==
  \/ Keeps \/ Ends \/ Restarts
  \/ \E c \in Contexts : OpensFor(c) \/ Disturbs(c)
  \/ \E e \in AddonCatalog : CommitsAndContinues(e)

\* Cancelling clears the transaction.
LEMMA CancelClears ==
  ASSUME NEW a \in AddonRecords, NEW notify, CancelFrom(a, notify)
  PROVE  Clear
BY DEF CancelFrom, Idle, Clear, AddonRecords

\* Sending keeps it or clears it.
LEMMA SendKeepsOrClears ==
  ASSUME NEW a \in AddonRecords, NEW m, SendFrom(a, m)
  PROVE  addon' = a \/ Clear
BY DEF SendFrom, Idle, Clear, AddonRecords

LEMMA TriggerShape ==
  ASSUME TypeInv, NEW c \in Contexts, Trigger(c)
  PROVE  OpensFor(c)
<1>1. PICK close \in CloseSettings :
        LET a == [BeginTransaction(Idle(addon), c) EXCEPT !.origin = c,
                                                          !.closeAfterSelection = close]
        IN IF IsReady(a.session) THEN SendFrom(a, ShowOf(a)) ELSE Negotiate(a)
  BY DEF Trigger
<1> DEFINE a == [BeginTransaction(Idle(addon), c) EXCEPT !.origin = c,
                                                         !.closeAfterSelection = close]
<1>2. fresh \in Txns
  BY DEF TypeInv, TypeOK, Trigger, Txns
<1>3. a \in AddonRecords /\ a.transaction = fresh /\ a.target = c /\ a.origin = c
  <2>1. Idle(addon) \in AddonRecords
    BY IdleType DEF TypeInv, TypeOK
  <2>2. BeginTransaction(Idle(addon), c) \in AddonRecords
    BY <1>2, <2>1, BeginType
  <2> QED
    BY <1>2, <2>1, <2>2, close \in BOOLEAN, Ranges DEF BeginTransaction, AddonRecords
<1>4. (addon' = a \/ Clear) \/ \E call : addon' = [a EXCEPT !.pendingCall = call]
  BY <1>1, <1>3, SendKeepsOrClears DEF Negotiate
<1> HIDE DEF a
<1>5. Clear \/ Holds(fresh, c)
  BY <1>3, <1>4 DEF Holds, AddonRecords
<1> QED
  BY <1>2, <1>5 DEF OpensFor, Trigger

LEMMA ForwardShape ==
  ASSUME TypeInv, NEW kind, NEW search \in Searches, Forward(kind, search)
  PROVE  Keeps \/ Ends
<1> DEFINE a == [addon EXCEPT !.commandSequence = @ + 1, !.search = search]
<1>1. /\ a \in AddonRecords /\ a.transaction = addon.transaction
      /\ a.target = addon.target /\ a.origin = addon.origin
  <2>1. addon.commandSequence + 1 \in CommandNumbers
    BY DEF Forward, TypeInv, TypeOK, AddonRecords, CommandNumbers
  <2> QED
    BY <2>1 DEF TypeInv, TypeOK, AddonRecords
<1>2. addon' = a \/ Clear
  BY <1>1, SendKeepsOrClears DEF Forward
<1> HIDE DEF a
<1> QED
  BY <1>1, <1>2 DEF Forward, Keeps, Ends, Core

LEMMA ClientShape ==
  ASSUME TypeInv, ClientEvents
  PROVE  Keeps \/ \E c \in Contexts : Disturbs(c)
<1>1. PICK c \in Contexts : FocusIn(c) \/ FocusOut(c) \/ ResetOrSwitch(c) \/ Destroy(c)
  BY DEF ClientEvents
<1>2. CASE FocusIn(c)
  BY <1>2 DEF FocusIn, Keeps, Core
<1>3. CASE FocusOut(c) \/ ResetOrSwitch(c) \/ Destroy(c)
  <2>1. Disturbed(c)
    BY <1>3 DEF FocusOut, ResetOrSwitch, Destroy
  <2>2. IF c = addon.origin THEN Clear ELSE UNCHANGED Core
    BY <2>1, CancelClears DEF Disturbed, Core, TypeInv, TypeOK
  <2> QED
    BY <1>3, <2>2 DEF FocusOut, ResetOrSwitch, Destroy, Disturbs
<1> QED
  BY <1>1, <1>2, <1>3

\* Taking the pending call away touches no transaction.
LEMMA SettledCore ==
  ASSUME addon \in AddonRecords
  PROVE  /\ Settled \in AddonRecords /\ Settled.transaction = addon.transaction
         /\ Settled.target = addon.target /\ Settled.origin = addon.origin
BY SettledType DEF Settled, AddonRecords

LEMMA ReplyShape ==
  ASSUME TypeInv, ReceiveReply
  PROVE  Keeps \/ Ends
<1> DEFINE reply == Head(toAddon)
<1>1. UNCHANGED <<fresh, focused, commits, asked, broken>>
  BY DEF ReceiveReply
<1>2. /\ Settled \in AddonRecords /\ Settled.transaction = addon.transaction
      /\ Settled.target = addon.target /\ Settled.origin = addon.origin
  BY SettledCore DEF TypeInv, TypeOK
<1>3. UNCHANGED Core \/ Clear
  <2>1. CASE UNCHANGED addon
    BY <2>1 DEF Core
  <2>2. CASE addon' = Settled
    BY <1>2, <2>2 DEF Core
  <2>3. CASE CancelFrom(Settled, reply.kind = "Refusal")
    BY <1>2, <2>3, CancelClears
  <2>4. CASE reply.kind = "Welcome" /\ AnswersPending(reply.call) /\ Negotiated(reply)
    <3> DEFINE session == AcceptWelcome(Begin(addon.session, reply.from, reply.call),
                                        reply.from, reply)
               a == [Settled EXCEPT !.session = session]
    <3>1. reply \in ToAddon
      BY TakesType DEF ReceiveReply, TypeInv, TypeOK
    <3>2. session \in SessionRecords
      BY <2>4, <3>1, Ranges DEF ToAddon, AcceptWelcome, Begin, SessionRecords, SessionStates
    <3>3. /\ a \in AddonRecords /\ a.transaction = addon.transaction
          /\ a.target = addon.target /\ a.origin = addon.origin
      BY <1>2, <3>2 DEF AddonRecords
    <3>4. SendFrom(a, ShowOf(a)) \/ CancelFrom(a, TRUE)
      BY <2>4 DEF Negotiated
    <3> HIDE DEF a
    <3>5. addon' = a \/ Clear
      BY <3>3, <3>4, SendKeepsOrClears, CancelClears
    <3> QED
      BY <3>3, <3>5 DEF Core
  <2> QED
    BY <2>1, <2>2, <2>3, <2>4 DEF ReceiveReply
<1> QED
  BY <1>1, <1>3 DEF Keeps, Ends

LEMMA TimeoutShape ==
  ASSUME TypeInv, Timeout
  PROVE  Keeps \/ Ends
<1>1. /\ Settled \in AddonRecords /\ Settled.transaction = addon.transaction
      /\ Settled.target = addon.target /\ Settled.origin = addon.origin
  BY SettledCore DEF TypeInv, TypeOK
<1>2. UNCHANGED Core \/ Clear
  BY <1>1, CancelClears DEF Timeout, CallTimesOut, Core
<1> QED
  BY <1>2 DEF Timeout, CallTimesOut, Keeps, Ends

LEMMA SelectedShape ==
  ASSUME TypeInv, ReceiveSelected
  PROVE  Keeps \/ Ends \/ \E e \in AddonCatalog : CommitsAndContinues(e)
<1> DEFINE frame == Head(toAddon)
           committed == /\ Accepts(addon.session, frame.from)
                        /\ SelectResult(frame.transaction, frame.sequence) = "Committed"
<1>1. /\ Terminal \in AddonRecords /\ Terminal.origin = addon.origin
      /\ Finished.transaction = 0 /\ Finished.target = NoContext
      /\ Finished.origin = NoContext
  BY Ranges DEF Terminal, Finished, AddonRecords, TypeInv, TypeOK
<1>2. CASE committed
  <2>1. /\ AfterCommit
        /\ addon.closeAfterSelection \/ fresh <= MaxTxn
        /\ commits' = Append(commits, [transaction |-> addon.transaction,
                                       context |-> addon.target,
                                       sequence |-> frame.sequence])
    BY <1>2 DEF ReceiveSelected
  <2>2. Active /\ addon.target \in focused
    BY <1>2 DEF SelectResult
  <2>3. frame.sequence \in AddonCatalog
    BY <1>2 DEF SelectResult
  <2>4. \/ Clear /\ UNCHANGED <<fresh, asked>>
        \/ /\ fresh \in Txns /\ addon.origin \in focused
           /\ Began(addon.origin)
           /\ Clear \/ Holds(fresh, addon.origin)
    <3>1. CASE addon.closeAfterSelection
      BY <1>1, <2>1, <3>1 DEF AfterCommit, Clear
    <3>2. CASE ~addon.closeAfterSelection /\ addon.origin \in focused
      <4> DEFINE a == BeginTransaction(Terminal, addon.origin)
      <4>1. fresh \in Txns /\ addon.origin \in Contexts
        BY <2>1, <3>2 DEF TypeInv, TypeOK, Txns
      <4>2. /\ a \in AddonRecords /\ a.transaction = fresh
            /\ a.target = addon.origin /\ a.origin = addon.origin
        BY <1>1, <4>1, BeginType DEF BeginTransaction, AddonRecords
      <4>3. Began(addon.origin) /\ SendFrom(a, ShowOf(a))
        BY <2>1, <3>2 DEF AfterCommit
      <4> HIDE DEF a
      <4>4. Clear \/ Holds(fresh, addon.origin)
        BY <4>2, <4>3, SendKeepsOrClears DEF Holds
      <4> QED
        BY <3>2, <4>1, <4>3, <4>4
    <3>3. CASE ~addon.closeAfterSelection /\ addon.origin \notin focused
      BY <1>1, <2>1, <3>3, CancelClears DEF AfterCommit
    <3> QED
      BY <3>1, <3>2, <3>3
  <2>5. CommitsAndContinues(frame.sequence)
    BY <2>1, <2>2, <2>4 DEF CommitsAndContinues, ReceiveSelected
  <2> QED
    BY <2>3, <2>5
<1>3. CASE ~committed
  <2>1. UNCHANGED addon \/ CancelFrom(Terminal, TRUE)
    BY <1>3 DEF ReceiveSelected
  <2>2. UNCHANGED Core \/ Clear
    BY <1>1, <2>1, CancelClears DEF Core
  <2>3. UNCHANGED <<commits, fresh, asked, focused, broken>>
    BY <1>3 DEF ReceiveSelected
  <2> QED
    BY <2>2, <2>3 DEF Keeps, Ends
<1> QED
  BY <1>2, <1>3

LEMMA CancelledShape ==
  ASSUME TypeInv, ReceiveCancelled
  PROVE  Keeps \/ Ends
<1>1. UNCHANGED Core \/ Clear
  BY CancelClears DEF ReceiveCancelled, Core, TypeInv, TypeOK
<1> QED
  BY <1>1 DEF ReceiveCancelled, Keeps, Ends

LEMMA OwnerGoneShape ==
  ASSUME TypeInv, ReceiveOwnerGone
  PROVE  Keeps \/ Ends
<1>1. \A owner : /\ WithoutOwner(owner).transaction = 0
                 /\ WithoutOwner(owner).target = NoContext
                 /\ WithoutOwner(owner).origin = NoContext
  BY DEF WithoutOwner, Idle, AddonRecords, TypeInv, TypeOK
<1>2. UNCHANGED Core \/ Clear
  BY <1>1, SettledCore DEF ReceiveOwnerGone, Core, Clear, TypeInv, TypeOK
<1> QED
  BY <1>2 DEF ReceiveOwnerGone, Keeps, Ends

\* Every step has one of the six shapes.
LEMMA EveryStepHasAShape ==
  ASSUME TypeInv, [Next]_vars
  PROVE  Shape
<1>1. CASE AddonHears
  BY <1>1, ReplyShape, SelectedShape, CancelledShape, OwnerGoneShape DEF AddonHears, Shape
<1>2. CASE HelperHears
  BY <1>2 DEF HelperHears, addonVars, Core, Keeps, Shape
<1>3. CASE Timeout
  BY <1>3, TimeoutShape DEF Shape
<1>4. CASE User
  <2>1. ASSUME NEW c \in Contexts, Trigger(c) PROVE Shape
    BY <2>1, TriggerShape DEF Shape
  <2>2. CASE PressEscape \/ PressReturn \/ PressArrow \/ TypeCharacter \/ PressBackspace
    <3>1. PICK kind \in CommandKinds, search \in Searches : Forward(kind, search)
      <4>1. addon.search \in Searches
        BY DEF TypeInv, TypeOK, AddonRecords
      <4>2. CASE PressEscape \/ PressReturn \/ PressArrow
        BY <4>1, <4>2 DEF PressEscape, PressReturn, PressArrow, CommandKinds
      <4>3. CASE TypeCharacter
        <5>1. addon.search + 1 \in Searches
          BY <4>3 DEF TypeCharacter, TypeInv, TypeOK, AddonRecords, Searches
        <5> QED
          BY <4>3, <5>1 DEF TypeCharacter, CommandKinds
      <4>4. CASE PressBackspace
        <5>1. (IF addon.search = 0 THEN 0 ELSE addon.search - 1) \in Searches
          BY DEF TypeInv, TypeOK, AddonRecords, Searches
        <5> QED
          BY <4>4, <5>1 DEF PressBackspace, CommandKinds
      <4> QED
        BY <2>2, <4>2, <4>3, <4>4
    <3> QED
      BY <3>1, ForwardShape DEF Shape
  <2>3. CASE UNCHANGED addonVars
    BY <2>3 DEF addonVars, Core, Keeps, Shape
  <2> QED
    BY <1>4, <2>1, <2>2, <2>3 DEF User
<1>5. CASE ClientEvents
  BY <1>5, ClientShape DEF Shape
<1>6. CASE StartHelper \/ StartFails \/ HelperDies
  BY <1>6 DEF StartHelper, StartFails, HelperDies, BusUnchanged, Core, Keeps, Shape
<1>7. CASE RestartAddon
  BY <1>7 DEF RestartAddon, NewAddon, BusUnchanged, Clear, Restarts, Shape
<1>8. CASE UNCHANGED vars
  BY <1>8 DEF vars, addonVars, Core, Keeps, Shape
<1> QED
  BY <1>1, <1>2, <1>3, <1>4, <1>5, <1>6, <1>7, <1>8 DEF Next

(***************************************************************************)
(* The inductive invariant. A transaction is known once it is begun;       *)
(* identifiers from `fresh` on are not: nothing was asked for, committed   *)
(* or disturbed under them, so the next transaction starts undisturbed.    *)
(***************************************************************************)

ActiveUndisturbed ==
  Active => addon.transaction < fresh /\ addon.transaction \notin broken

IdleHasNoTarget == ~Active => addon.target = NoContext

CommittedAreOver ==
  \A i \in DOMAIN commits : /\ commits[i].transaction < fresh
                            /\ commits[i].transaction # addon.transaction

FutureUntouched ==
  \A t \in Txns : t >= fresh => asked[t] = NoContext /\ t \notin broken

TransactionInv ==
  /\ TypeInv
  /\ ActiveUndisturbed /\ IdleHasNoTarget /\ ActiveContextFocused
  /\ CommittedAreOver /\ OneCommitPerTransaction /\ FutureUntouched

LEMMA TransactionInit ==
  ASSUME Init
  PROVE  TransactionInv
<1>1. TypeInv
  BY TypeInit
<1>2. /\ addon.transaction = 0 /\ addon.target = NoContext /\ addon.origin = NoContext
      /\ commits = <<>> /\ asked = [t \in Txns |-> NoContext] /\ broken = {}
  BY DEF Init, AddonInit, NewAddon
<1> QED
  BY <1>1, <1>2
     DEF TransactionInv, Active, ActiveUndisturbed, IdleHasNoTarget, ActiveContextFocused,
         CommittedAreOver, OneCommitPerTransaction, FutureUntouched

\* What the transactions' part of the invariant needs of the types.
LEMMA PlainTypes ==
  ASSUME TypeInv
  PROVE  /\ fresh \in Nat /\ fresh # 0
         /\ addon.transaction \in Nat
         /\ Active => addon.transaction \in Txns
         /\ commits \in Seq(Commits) /\ asked \in [Txns -> MaybeContext]
         /\ broken \subseteq Txns /\ focused \subseteq Contexts
         /\ \A i \in DOMAIN commits : commits[i].transaction \in Txns
<1>1. fresh \in Nat /\ fresh # 0 /\ \A t \in MaybeTxn : t \in Nat
  BY DEF TypeInv, TypeOK, MaybeTxn
<1>2. /\ addon.transaction \in MaybeTxn
      /\ commits \in Seq(Commits) /\ asked \in [Txns -> MaybeContext]
      /\ broken \subseteq Txns /\ focused \subseteq Contexts
  BY DEF TypeInv, TypeOK, AddonRecords
<1>3. \A i \in DOMAIN commits : commits[i].transaction \in Txns
  <2>1. \A i \in DOMAIN commits : commits[i] \in Commits
    BY <1>2
  <2> QED
    BY <2>1 DEF Commits
<1> QED
  BY <1>1, <1>2, <1>3, Ranges DEF Active

\* A begun transaction is active, undisturbed, and the only new thing.
LEMMA BeganStep ==
  ASSUME TransactionInv, NEW c \in focused, fresh \in Txns, Began(c),
         Clear \/ Holds(fresh, c), UNCHANGED <<broken, focused>>
  PROVE  /\ ActiveUndisturbed' /\ IdleHasNoTarget' /\ ActiveContextFocused'
         /\ FutureUntouched'
<1>1. /\ fresh \in Nat /\ fresh # 0 /\ fresh' = fresh + 1
      /\ asked \in [Txns -> MaybeContext] /\ asked' = [asked EXCEPT ![fresh] = c]
  BY PlainTypes DEF TransactionInv, Began
<1>2. FutureUntouched' /\ fresh \notin broken
  BY <1>1 DEF TransactionInv, FutureUntouched, Txns
<1>3. asked'[fresh] = c
  BY <1>1
<1>4. CASE Clear
  BY <1>2, <1>4 DEF Clear, Active, ActiveUndisturbed, IdleHasNoTarget, ActiveContextFocused
<1>5. CASE Holds(fresh, c)
  BY <1>1, <1>2, <1>3, <1>5
     DEF Holds, Active, ActiveUndisturbed, IdleHasNoTarget, ActiveContextFocused
<1> QED
  BY <1>2, <1>4, <1>5

LEMMA CommitStep ==
  ASSUME TransactionInv, NEW e \in AddonCatalog, CommitsAndContinues(e)
  PROVE  /\ CommittedAreOver' /\ OneCommitPerTransaction'
         /\ DOMAIN commits' \ DOMAIN commits = {Len(commits) + 1}
         /\ commits'[Len(commits) + 1] =
              [transaction |-> addon.transaction, context |-> addon.target, sequence |-> e]
<1> DEFINE n == Len(commits)
           new == [transaction |-> addon.transaction, context |-> addon.target,
                   sequence |-> e]
<1>1. /\ fresh \in Nat /\ addon.transaction \in Nat /\ addon.transaction < fresh
      /\ addon.transaction # 0
      /\ commits \in Seq(Commits) /\ \A i \in DOMAIN commits : commits[i].transaction \in Txns
  BY PlainTypes DEF TransactionInv, CommitsAndContinues, Active, ActiveUndisturbed
<1>2. commits' = Append(commits, new)
  BY DEF CommitsAndContinues
<1>3. /\ n \in Nat /\ DOMAIN commits = 1 .. n /\ DOMAIN commits' = 1 .. n + 1
      /\ \A i \in 1 .. n : commits'[i] = commits[i]
      /\ commits'[n + 1] = new
  BY <1>1, <1>2
<1>4. \A i \in DOMAIN commits' : /\ commits'[i].transaction \in Nat
                                 /\ commits'[i].transaction < fresh
                                 /\ commits'[i].transaction # 0
  <2>1. \A i \in 1 .. n : /\ commits[i].transaction \in Nat
                          /\ commits[i].transaction < fresh
                          /\ commits[i].transaction # 0
    BY <1>1, <1>3 DEF TransactionInv, CommittedAreOver, Txns
  <2> QED
    BY <1>1, <1>3, <2>1
<1>5. fresh' \in Nat /\ fresh <= fresh' /\ addon'.transaction \in {0, fresh}
  BY <1>1 DEF CommitsAndContinues, Began, Clear, Holds
<1>6. CommittedAreOver'
  BY <1>1, <1>4, <1>5 DEF CommittedAreOver
<1>7. \A i \in 1 .. n : commits'[i].transaction # addon.transaction
  BY <1>3 DEF TransactionInv, CommittedAreOver
<1>8. OneCommitPerTransaction'
  <2> SUFFICES ASSUME NEW i \in 1 .. n + 1, NEW j \in 1 .. n + 1,
                      commits'[i].transaction = commits'[j].transaction
               PROVE  i = j
    BY <1>3 DEF OneCommitPerTransaction
  <2>1. CASE i \in 1 .. n /\ j \in 1 .. n
    BY <1>3, <2>1 DEF TransactionInv, OneCommitPerTransaction
  <2>2. CASE i = n + 1 /\ j \in 1 .. n
    BY <1>3, <1>7, <2>2
  <2>3. CASE j = n + 1 /\ i \in 1 .. n
    BY <1>3, <1>7, <2>3
  <2> QED
    BY <1>3, <2>1, <2>2, <2>3
<1>9. DOMAIN commits' \ DOMAIN commits = {n + 1}
  <2>1. (1 .. n + 1) \ (1 .. n) = {n + 1}
    BY <1>3
  <2> QED
    BY <1>3, <2>1
<1> QED
  BY <1>3, <1>6, <1>8, <1>9

\* The invariant through each shape.
LEMMA TransactionStep ==
  ASSUME TransactionInv, [Next]_vars
  PROVE  TransactionInv'
<1>1. TypeInv /\ TypeInv'
  BY TypeStep DEF TransactionInv
<1>2. /\ fresh \in Nat /\ fresh # 0 /\ addon.transaction \in Nat
      /\ focused \subseteq Contexts /\ broken \subseteq Txns
      /\ asked \in [Txns -> MaybeContext]
      /\ \A i \in DOMAIN commits : commits[i].transaction \in Txns
  BY <1>1, PlainTypes
<1>3. Shape
  BY <1>1, EveryStepHasAShape
<1> USE DEF TransactionInv
<1>4. CASE Keeps
  BY <1>1, <1>4
     DEF Keeps, Core, Active, ActiveUndisturbed, IdleHasNoTarget, ActiveContextFocused,
         CommittedAreOver, OneCommitPerTransaction, FutureUntouched
<1>5. CASE Clear /\ UNCHANGED <<fresh, commits, asked>> /\ FutureUntouched'
  BY <1>1, <1>2, <1>5
     DEF Clear, Active, ActiveUndisturbed, IdleHasNoTarget, ActiveContextFocused,
         CommittedAreOver, OneCommitPerTransaction, Txns
<1>6. CASE Ends
  BY <1>5, <1>6 DEF Ends, FutureUntouched
<1>7. CASE Restarts
  <2>1. FutureUntouched'
    BY <1>2, <1>7 DEF Restarts, FutureUntouched, Txns
  <2> QED
    BY <1>5, <1>7, <2>1 DEF Restarts
<1>8. ASSUME NEW c \in Contexts, OpensFor(c) PROVE TransactionInv'
  <2>1. /\ ActiveUndisturbed' /\ IdleHasNoTarget' /\ ActiveContextFocused'
        /\ FutureUntouched'
    BY <1>8, BeganStep DEF OpensFor
  <2>2. commits' = commits /\ fresh' = fresh + 1 /\ addon'.transaction \in {0, fresh}
    BY <1>8 DEF OpensFor, Began, Clear, Holds
  <2>3. CommittedAreOver' /\ OneCommitPerTransaction'
    BY <1>2, <2>2 DEF CommittedAreOver, OneCommitPerTransaction, Txns
  <2> QED
    BY <1>1, <2>1, <2>3
<1>9. ASSUME NEW c \in Contexts, Disturbs(c) PROVE TransactionInv'
  <2>1. FutureUntouched'
    <3>1. \A t \in Txns : t >= fresh => asked[t] # c
      BY <1>2, ContextAssumption DEF FutureUntouched
    <3> QED
      BY <1>9, <3>1 DEF Disturbs, Remembered, FutureUntouched
  <2>2. CASE c = addon.origin
    BY <1>5, <1>9, <2>1, <2>2 DEF Disturbs
  <2>3. CASE c # addon.origin
    <3>1. UNCHANGED <<addon.transaction, addon.target, addon.origin, fresh, commits, asked>>
      BY <1>9, <2>3 DEF Disturbs, Core
    <3>2. Active => /\ addon.target = addon.origin /\ addon.target \in focused'
                    /\ addon.transaction \notin broken'
      BY <1>9, <2>3 DEF ActiveContextFocused, ActiveUndisturbed, Disturbs, Remembered
    <3> QED
      BY <1>1, <2>1, <3>1, <3>2
         DEF Active, ActiveUndisturbed, IdleHasNoTarget, ActiveContextFocused,
             CommittedAreOver, OneCommitPerTransaction
  <2> QED
    BY <2>2, <2>3
<1>10. ASSUME NEW e \in AddonCatalog, CommitsAndContinues(e) PROVE TransactionInv'
  <2>1. CommittedAreOver' /\ OneCommitPerTransaction'
    BY <1>10, CommitStep
  <2>2. CASE Clear /\ UNCHANGED <<fresh, asked>>
    <3>1. FutureUntouched'
      BY <1>10, <2>2 DEF CommitsAndContinues, FutureUntouched
    <3> QED
      BY <1>1, <2>1, <2>2, <3>1
         DEF Clear, Active, ActiveUndisturbed, IdleHasNoTarget, ActiveContextFocused
  <2>3. CASE ~(Clear /\ UNCHANGED <<fresh, asked>>)
    <3>1. /\ fresh \in Txns /\ addon.origin \in focused /\ Began(addon.origin)
          /\ Clear \/ Holds(fresh, addon.origin)
          /\ UNCHANGED <<broken, focused>>
      BY <1>10, <2>3 DEF CommitsAndContinues
    <3> QED
      BY <1>1, <2>1, <3>1, BeganStep
  <2> QED
    BY <2>2, <2>3
<1> QED
  BY <1>3, <1>4, <1>6, <1>7, <1>8, <1>9, <1>10 DEF Shape

LEMMA TransactionInvariant == Spec => []TransactionInv
<1>1. Init => TransactionInv
  BY TransactionInit
<1>2. TransactionInv /\ [Next]_vars => TransactionInv'
  BY TransactionStep
<1> QED
  BY <1>1, <1>2, PTL DEF Spec

\* No transaction is ever committed twice.
THEOREM CommitsOnce == Spec => []OneCommitPerTransaction
<1>1. TransactionInv => OneCommitPerTransaction
  BY DEF TransactionInv
<1> QED
  BY <1>1, TransactionInvariant, PTL

\* An active transaction always belongs to a focused, living context, the tracked one.
THEOREM ActiveIsFocused == Spec => []ActiveContextFocused
<1>1. TransactionInv => ActiveContextFocused
  BY DEF TransactionInv
<1> QED
  BY <1>1, TransactionInvariant, PTL

\* A commit goes to the context its transaction was begun for, and nothing has
\* disturbed that context in between.
THEOREM CommitsInPlace == Spec => CommitsUndisturbed
<1> DEFINE A == \A i \in DOMAIN commits' \ DOMAIN commits :
                  /\ commits'[i].context = asked[commits'[i].transaction]
                  /\ commits'[i].transaction \notin broken
<1>1. TransactionInv /\ [Next]_vars => [A]_vars
  <2> SUFFICES ASSUME TransactionInv, [Next]_vars
               PROVE  A
    OBVIOUS
  <2>1. Shape
    BY EveryStepHasAShape DEF TransactionInv
  <2>2. CASE commits' = commits
    BY <2>2
  <2>3. ASSUME NEW e \in AddonCatalog, CommitsAndContinues(e) PROVE A
    <3>1. /\ Active /\ asked[addon.transaction] = addon.target
          /\ addon.transaction \notin broken
      BY <2>3 DEF CommitsAndContinues, TransactionInv, ActiveContextFocused,
                  ActiveUndisturbed
    <3>2. /\ DOMAIN commits' \ DOMAIN commits = {Len(commits) + 1}
          /\ commits'[Len(commits) + 1] =
               [transaction |-> addon.transaction, context |-> addon.target, sequence |-> e]
      BY <2>3, CommitStep
    <3>3. /\ commits'[Len(commits) + 1].context = addon.target
          /\ commits'[Len(commits) + 1].transaction = addon.transaction
      BY <3>2
    <3> QED
      BY <3>1, <3>2, <3>3
  <2>4. Keeps \/ Ends \/ Restarts => commits' = commits
    BY DEF Keeps, Ends, Restarts
  <2>5. \A c \in Contexts : OpensFor(c) \/ Disturbs(c) => commits' = commits
    BY DEF OpensFor, Disturbs
  <2> QED
    BY <2>1, <2>2, <2>3, <2>4, <2>5 DEF Shape
<1> QED
  BY <1>1, TransactionInvariant, PTL DEF Spec, CommitsUndisturbed

(***************************************************************************)
(* The composed system implements InsertionPromise.                        *)
(***************************************************************************)

LEMMA PromiseInit ==
  ASSUME Init
  PROVE  Promise!Init
BY DEF Init, AddonInit, NewAddon, Promise!Init

\* Each shape is a step of the promise or invisible to it.
LEMMA PromiseStep ==
  ASSUME TransactionInv, [Next]_vars
  PROVE  [Promise!Next]_(Promise!vars)
<1>1. Shape
  BY EveryStepHasAShape DEF TransactionInv
<1>2. fresh \in Nat
  BY PlainTypes DEF TransactionInv
<1>3. CASE Keeps
  BY <1>3 DEF Keeps, Core, Promise!Focus, Promise!Next, Promise!vars
<1>4. CASE Ends
  <2>1. CASE Active
    BY <1>4, <2>1 DEF Ends, Clear, Active, Promise!Close, Promise!Closes, Promise!Next
  <2>2. CASE ~Active
    BY <1>4, <2>2
       DEF Ends, Clear, Active, TransactionInv, IdleHasNoTarget, Promise!vars
  <2> QED
    BY <2>1, <2>2
<1>5. CASE Restarts
  BY <1>5 DEF Restarts, Clear, Promise!Restart, Promise!Closes, Promise!Next
<1>6. ASSUME NEW c \in Contexts, OpensFor(c) PROVE Promise!Next
  <2>1. Promise!Open(c)
    BY <1>2, <1>6
       DEF OpensFor, Active, Began, Clear, Holds, Promise!Open, Promise!Opens, Promise!Closes
  <2> QED
    BY <2>1 DEF Promise!Next
<1>7. ASSUME NEW c \in Contexts, Disturbs(c) PROVE Promise!Next
  <2>1. addon.origin = c <=> addon.target = c
    BY ContextAssumption DEF TransactionInv, ActiveContextFocused, IdleHasNoTarget
  <2>2. Promise!Disturb(c)
    BY <1>7, <2>1 DEF Disturbs, Clear, Core, Promise!Disturb, Promise!Closes
  <2> QED
    BY <2>2 DEF Promise!Next
<1>8. ASSUME NEW e \in AddonCatalog, CommitsAndContinues(e) PROVE Promise!Next
  <2>1. Active /\ addon.origin = addon.target
    BY <1>8 DEF CommitsAndContinues, TransactionInv, ActiveContextFocused
  <2>2. Promise!Insert(e)
    BY <1>2, <1>8, <2>1
       DEF CommitsAndContinues, Active, Began, Clear, Holds, Promise!Insert,
           Promise!Opens, Promise!Closes
  <2> QED
    BY <2>2 DEF Promise!Next
<1> QED
  BY <1>1, <1>3, <1>4, <1>5, <1>6, <1>7, <1>8 DEF Shape

\* The addon, with whatever the helper and the bus do, keeps the promise.
THEOREM Implements == Spec => KeepsPromise
<1>1. Init => Promise!Init
  BY PromiseInit
<1>2. TransactionInv /\ [Next]_vars => [Promise!Next]_(Promise!vars)
  BY PromiseStep
<1> QED
  BY <1>1, <1>2, TransactionInvariant, PTL DEF Spec, KeepsPromise, Promise!Spec

(***************************************************************************)
(* What the messages promise: what is committed is what the helper reported  *)
(* for that transaction, and messages of other transactions change nothing.  *)
(* The helper hears of a transaction once: the first part follows the Show   *)
(* of a transaction from the moment its identifier is drawn to the report    *)
(* that ends it.                                                             *)
(***************************************************************************)

(***************************************************************************)
(* The Shows in the helper's queue.                                        *)
(***************************************************************************)

IsShow(m)   == m.kind = "Show"
ShowsIn(q)  == {t \in Txns : \E i \in DOMAIN q : IsShow(q[i]) /\ q[i].transaction = t}
ShowsOnce(q) ==
  \A i, j \in DOMAIN q :
    IsShow(q[i]) /\ IsShow(q[j]) /\ q[i].transaction = q[j].transaction => i = j

\* No Show more in the new queue than in the old; one more at most, for `t`.
Fewer(q, new) == /\ ShowsIn(new) \subseteq ShowsIn(q)
                 /\ ShowsOnce(q) => ShowsOnce(new)
Adds(q, new, t) == /\ ShowsIn(new) \subseteq ShowsIn(q) \cup {t}
                   /\ ShowsOnce(q) /\ t \notin ShowsIn(q) => ShowsOnce(new)

LEMMA FewerAdds ==
  ASSUME NEW q, NEW new, NEW t, Fewer(q, new)
  PROVE  Adds(q, new, t)
BY DEF Fewer, Adds

LEMMA SameShows ==
  ASSUME NEW q
  PROVE  Fewer(q, q)
BY DEF Fewer

\* What is cut off the front takes no place of what stays.
LEMMA CutShows ==
  ASSUME NEW q \in Seq(ToHelper), NEW new \in Seq(ToHelper), NEW k \in Nat,
         \A i \in DOMAIN new : i + k \in DOMAIN q /\ new[i] = q[i + k]
  PROVE  Fewer(q, new)
<1>1. ShowsIn(new) \subseteq ShowsIn(q)
  BY DEF ShowsIn
<1>2. ASSUME ShowsOnce(q) PROVE ShowsOnce(new)
  <2> SUFFICES ASSUME NEW i \in DOMAIN new, NEW j \in DOMAIN new,
                      IsShow(new[i]), IsShow(new[j]),
                      new[i].transaction = new[j].transaction
               PROVE  i = j
    BY DEF ShowsOnce
  <2>1. i + k = j + k
    BY <1>2 DEF ShowsOnce
  <2>2. i \in Nat /\ j \in Nat
    OBVIOUS
  <2> QED
    BY <2>1, <2>2
<1> QED
  BY <1>1, <1>2 DEF Fewer

LEMMA TailShows ==
  ASSUME NEW q \in Seq(ToHelper), q # <<>>
  PROVE  Fewer(q, Tail(q))
<1>1. Tail(q) \in Seq(ToHelper)
  OBVIOUS
<1>2. \A i \in DOMAIN Tail(q) : i + 1 \in DOMAIN q /\ Tail(q)[i] = q[i + 1]
  OBVIOUS
<1> QED
  BY <1>1, <1>2, CutShows

\* The Show at the head is the only one of its transaction.
LEMMA HeadShows ==
  ASSUME NEW q \in Seq(ToHelper), q # <<>>, IsShow(Head(q)), ShowsOnce(q)
  PROVE  /\ Head(q).transaction \in ShowsIn(q)
         /\ Head(q).transaction \notin ShowsIn(Tail(q))
<1> DEFINE t == Head(q).transaction
<1>1. Head(q) \in ToHelper /\ 1 \in DOMAIN q /\ Head(q) = q[1]
  OBVIOUS
<1>2. t \in Txns
  BY <1>1 DEF ToHelper, IsShow
<1>3. t \in ShowsIn(q)
  BY <1>1, <1>2 DEF ShowsIn
<1>4. ASSUME t \in ShowsIn(Tail(q)) PROVE FALSE
  <2>1. PICK i \in DOMAIN Tail(q) : IsShow(Tail(q)[i]) /\ Tail(q)[i].transaction = t
    BY <1>4 DEF ShowsIn
  <2>2. i \in Nat /\ i # 0 /\ i + 1 \in DOMAIN q /\ Tail(q)[i] = q[i + 1]
    OBVIOUS
  <2>3. i + 1 = 1
    BY <1>1, <2>1, <2>2 DEF ShowsOnce
  <2> QED
    BY <2>2, <2>3
<1> QED
  BY <1>3, <1>4

LEMMA AppendShows ==
  ASSUME NEW q \in Seq(ToHelper), NEW m \in ToHelper
  PROVE  /\ ~IsShow(m) => Fewer(q, Append(q, m))
         /\ IsShow(m)  => Adds(q, Append(q, m), m.transaction)
<1> DEFINE new == Append(q, m)
           n   == Len(q) + 1
<1>1. /\ n \in Nat /\ new[n] = m /\ n \notin DOMAIN q
      /\ DOMAIN new = DOMAIN q \cup {n} /\ \A i \in DOMAIN q : new[i] = q[i]
  OBVIOUS
<1> HIDE DEF new, n
<1>2. CASE ~IsShow(m)
  BY <1>1, <1>2 DEF Fewer, ShowsIn, ShowsOnce, new
<1>3. CASE IsShow(m)
  <2>1. ShowsIn(new) \subseteq ShowsIn(q) \cup {m.transaction}
    BY <1>1 DEF ShowsIn
  <2>2. m.transaction \in Txns
    BY <1>3 DEF IsShow, ToHelper
  <2>3. ASSUME ShowsOnce(q), m.transaction \notin ShowsIn(q) PROVE ShowsOnce(new)
    <3>1. \A i \in DOMAIN q : IsShow(q[i]) => q[i].transaction # m.transaction
      BY <2>2, <2>3 DEF ShowsIn
    <3> QED
      BY <1>1, <2>3, <3>1 DEF ShowsOnce
  <2> QED
    BY <1>3, <2>1, <2>3 DEF Adds, new
<1> QED
  BY <1>2, <1>3

\* A cancellation sends no Show; an attempt to send one adds it at most.
LEMMA CancelShows ==
  ASSUME toHelper \in Seq(ToHelper), NEW a \in AddonRecords, NEW notify \in BOOLEAN,
         CancelFrom(a, notify)
  PROVE  Fewer(toHelper, toHelper')
<1>1. ASSUME MustHide(a, notify)
      PROVE  Hide(a.name, a.transaction) \in ToHelper
  BY <1>1, Ranges DEF MustHide, Hide, ToHelper, AddonRecords
<1>2. ~IsShow(Hide(a.name, a.transaction))
  BY DEF IsShow, Hide
<1> QED
  BY <1>1, <1>2, AppendShows, SameShows DEF CancelFrom

LEMMA SendShows ==
  ASSUME toHelper \in Seq(ToHelper), NEW a, NEW m \in ToHelper, SendFrom(a, m)
  PROVE  /\ ~IsShow(m) => Fewer(toHelper, toHelper')
         /\ IsShow(m)  => Adds(toHelper, toHelper', m.transaction)
BY AppendShows, SameShows, FewerAdds DEF SendFrom

(***************************************************************************)
(* The inductive invariant. A transaction is untold, then shown by one     *)
(* message in the queue, then the helper's, and undecided all the while;   *)
(* once reported it is none of these again.                                *)
(***************************************************************************)

Reported(q, t, e) ==
  \E i \in DOMAIN q : q[i].kind = "Selected" /\ q[i].transaction = t /\ q[i].sequence = e

Undecided(t) == chosen[t] = NoEmoji
Untold(t)    == Undecided(t) /\ helper.transaction # t /\ t \notin ShowsIn(toHelper)

ReportsTheChoice ==
  \A t \in Txns, e \in Emoji : Reported(toAddon, t, e) => chosen[t] = e

ShownUndecided == helper.transaction # 0 => Undecided(helper.transaction)

WaitingUndecided ==
  \A t \in ShowsIn(toHelper) : Undecided(t) /\ helper.transaction # t

PendingUntold == \A t \in Txns : t >= fresh \/ t = addon.pendingCall => Untold(t)

ChoiceInv ==
  /\ TypeInv
  /\ CommitsTheChoice /\ ReportsTheChoice
  /\ ShownUndecided /\ WaitingUndecided /\ ShowsOnce(toHelper)
  /\ PendingUntold /\ addon.pendingCall < fresh

LEMMA ChoiceInit ==
  ASSUME Init
  PROVE  ChoiceInv
<1>1. TypeInv
  BY TypeInit
<1>2. /\ toHelper = <<>> /\ toAddon = <<>> /\ commits = <<>>
      /\ helper.transaction = 0 /\ chosen = [t \in Txns |-> NoEmoji]
      /\ addon.pendingCall = 0 /\ fresh = 1
  BY DEF Init, AddonInit, NewAddon, HelperInit, NewHelper
<1>3. ShowsIn(toHelper) = {} /\ ShowsOnce(toHelper)
  BY <1>2 DEF ShowsIn, ShowsOnce
<1>4. CommitsTheChoice /\ ReportsTheChoice
  BY <1>2 DEF CommitsTheChoice, ReportsTheChoice, Reported
<1>5. PendingUntold
  BY <1>2, <1>3 DEF PendingUntold, Untold, Undecided, Txns
<1> QED
  BY <1>1, <1>2, <1>3, <1>4, <1>5 DEF ChoiceInv, ShownUndecided, WaitingUndecided

(***************************************************************************)
(* The shapes of a step, as far as transactions are told and answered.     *)
(***************************************************************************)

\* The helper chooses nothing and learns of no transaction; the addon reads
\* reports, and commits only what one says.
NothingChosen ==
  /\ chosen' = chosen /\ helper'.transaction \in {0, helper.transaction}
  /\ \A t \in Txns, e \in Emoji : Reported(toAddon', t, e) => Reported(toAddon, t, e)
  /\ \/ commits' = commits
     \/ \E new \in Commits : /\ Reported(toAddon, new.transaction, new.sequence)
                             /\ commits' = Append(commits, new)

NothingShown ==
  /\ Fewer(toHelper, toHelper') /\ fresh' = fresh
  /\ addon'.pendingCall \in {0, addon.pendingCall}

ShowsFresh ==
  /\ Adds(toHelper, toHelper', fresh) /\ fresh' = fresh + 1
  /\ addon'.pendingCall = addon.pendingCall

\* With a Hello, if the bus takes it.
GreetsForFresh ==
  /\ Fewer(toHelper, toHelper') /\ fresh' = fresh + 1
  /\ addon'.pendingCall \in {0, fresh}

ShowsPending ==
  /\ addon.pendingCall # 0
  /\ Adds(toHelper, toHelper', addon.pendingCall) /\ fresh' = fresh
  /\ addon'.pendingCall = 0

TakesShow ==
  /\ toHelper # <<>> /\ IsShow(Head(toHelper)) /\ toHelper' = Tail(toHelper)
  /\ helper'.transaction = Head(toHelper).transaction
  /\ UNCHANGED <<chosen, toAddon, commits, fresh, addon>>

Chooses ==
  /\ helper.transaction # 0 /\ helper'.transaction = 0
  /\ \E e \in Emoji, n \in HelperNames :
       /\ chosen' = [chosen EXCEPT ![helper.transaction] = e]
       /\ toAddon' = Append(toAddon, Selected(n, helper.transaction, e))
  /\ Fewer(toHelper, toHelper')
  /\ UNCHANGED <<commits, fresh, addon>>

ChoiceShape ==
  \/ NothingChosen /\ (NothingShown \/ ShowsFresh \/ GreetsForFresh \/ ShowsPending)
  \/ TakesShow \/ Chooses

(***************************************************************************)
(* The invariant through each shape.                                       *)
(***************************************************************************)

\* What the choice's part of the invariant needs of the types.
LEMMA ChoiceTypes ==
  ASSUME TypeInv
  PROVE  /\ fresh \in Nat /\ fresh # 0
         /\ addon.pendingCall \in Nat /\ helper.transaction \in Nat
         /\ helper.transaction # 0 => helper.transaction \in Txns
         /\ chosen \in [Txns -> Emoji \cup {NoEmoji}]
         /\ toHelper \in Seq(ToHelper) /\ toAddon \in Seq(ToAddon)
         /\ commits \in Seq(Commits)
         /\ \A i \in DOMAIN commits : commits[i] \in Commits
         /\ NoEmoji \notin Emoji
         /\ \A t \in Txns : t \in Nat /\ t # 0
<1>1. /\ addon.pendingCall \in MaybeTxn /\ helper.transaction \in MaybeTxn
      /\ chosen \in [Txns -> Emoji \cup {NoEmoji}]
      /\ toHelper \in Seq(ToHelper) /\ toAddon \in Seq(ToAddon)
      /\ commits \in Seq(Commits)
      /\ fresh \in 1 .. MaxTxn + 1
  BY DEF TypeInv, TypeOK, AddonRecords, HelperRecords
<1>2. NoEmoji \notin Emoji
  BY DEF NoEmoji, Emoji, Searches
<1>3. \A i \in DOMAIN commits : commits[i] \in Commits
  BY <1>1
<1>4. \A t \in Txns : t \in Nat /\ t # 0
  BY DEF Txns
<1>5. \A t \in MaybeTxn : t \in Nat
  BY DEF MaybeTxn
<1> QED
  BY <1>1, <1>2, <1>3, <1>4, <1>5, Ranges

LEMMA ShowsAreTransactions ==
  ASSUME NEW q
  PROVE  ShowsIn(q) \subseteq Txns
BY DEF ShowsIn

LEMMA NothingChosenStep ==
  ASSUME ChoiceInv, TypeInv', NothingChosen
  PROVE  CommitsTheChoice' /\ ReportsTheChoice' /\ ShownUndecided'
<1>1. ReportsTheChoice'
  BY DEF NothingChosen, ChoiceInv, ReportsTheChoice
<1>2. ShownUndecided'
  BY DEF NothingChosen, ChoiceInv, ShownUndecided, Undecided
<1>3. CASE commits' = commits
  BY <1>1, <1>2, <1>3 DEF NothingChosen, ChoiceInv, CommitsTheChoice
<1>4. ASSUME NEW new \in Commits, Reported(toAddon, new.transaction, new.sequence),
             commits' = Append(commits, new)
      PROVE  CommitsTheChoice'
  <2>1. new.transaction \in Txns /\ new.sequence \in Emoji
    BY DEF Commits
  <2>2. chosen[new.transaction] = new.sequence
    BY <1>4, <2>1 DEF ChoiceInv, ReportsTheChoice
  <2>3. \A i \in DOMAIN commits' :
          commits'[i] = new \/ (i \in DOMAIN commits /\ commits'[i] = commits[i])
    BY <1>4, ChoiceTypes DEF ChoiceInv
  <2> QED
    BY <2>2, <2>3 DEF NothingChosen, ChoiceInv, CommitsTheChoice
<1> QED
  BY <1>1, <1>2, <1>3, <1>4 DEF NothingChosen

LEMMA ChoiceStepOfShape ==
  ASSUME ChoiceInv, TypeInv', ChoiceShape
  PROVE  ChoiceInv'
<1>1. /\ fresh \in Nat /\ fresh # 0
      /\ addon.pendingCall \in Nat /\ helper.transaction \in Nat
      /\ helper.transaction # 0 => helper.transaction \in Txns
      /\ chosen \in [Txns -> Emoji \cup {NoEmoji}]
      /\ NoEmoji \notin Emoji
      /\ \A t \in Txns : t \in Nat /\ t # 0
  BY ChoiceTypes DEF ChoiceInv
<1>2. /\ TypeInv /\ CommitsTheChoice /\ ReportsTheChoice
      /\ ShownUndecided /\ WaitingUndecided /\ ShowsOnce(toHelper)
      /\ PendingUntold /\ addon.pendingCall < fresh
  BY DEF ChoiceInv
<1>3. ShowsIn(toHelper) \subseteq Txns /\ ShowsIn(toHelper') \subseteq Txns
  BY ShowsAreTransactions
<1>4. CASE NothingChosen /\ NothingShown
  <2>1. WaitingUndecided' /\ ShowsOnce(toHelper')
    BY <1>1, <1>2, <1>3, <1>4
       DEF NothingChosen, NothingShown, Fewer, WaitingUndecided, Undecided
  <2>2. PendingUntold' /\ (addon.pendingCall < fresh)'
    BY <1>1, <1>2, <1>3, <1>4
       DEF NothingChosen, NothingShown, Fewer, PendingUntold, Untold, Undecided
  <2> QED
    BY <1>4, <2>1, <2>2, NothingChosenStep DEF ChoiceInv
<1>5. CASE NothingChosen /\ ShowsFresh
  <2>1. fresh \in Txns => Untold(fresh)
    BY <1>1, <1>2 DEF PendingUntold
  <2>2. WaitingUndecided'
    BY <1>1, <1>2, <1>3, <1>5, <2>1
       DEF NothingChosen, ShowsFresh, Adds, WaitingUndecided, Untold, Undecided
  <2>3. ShowsOnce(toHelper')
    BY <1>2, <1>3, <1>5, <2>1 DEF ShowsFresh, Adds, Untold
  <2>4. PendingUntold' /\ (addon.pendingCall < fresh)'
    BY <1>1, <1>2, <1>3, <1>5
       DEF NothingChosen, ShowsFresh, Adds, PendingUntold, Untold, Undecided
  <2> QED
    BY <1>5, <2>2, <2>3, <2>4, NothingChosenStep DEF ChoiceInv
<1>6. CASE NothingChosen /\ GreetsForFresh
  <2>1. WaitingUndecided' /\ ShowsOnce(toHelper')
    BY <1>1, <1>2, <1>3, <1>6
       DEF NothingChosen, GreetsForFresh, Fewer, WaitingUndecided, Undecided
  <2>2. PendingUntold' /\ (addon.pendingCall < fresh)'
    BY <1>1, <1>2, <1>3, <1>6
       DEF NothingChosen, GreetsForFresh, Fewer, PendingUntold, Untold, Undecided
  <2> QED
    BY <1>6, <2>1, <2>2, NothingChosenStep DEF ChoiceInv
<1>7. CASE NothingChosen /\ ShowsPending
  <2>1. addon.pendingCall \in Txns => Untold(addon.pendingCall)
    BY <1>2 DEF PendingUntold
  <2>2. WaitingUndecided'
    BY <1>1, <1>2, <1>3, <1>7, <2>1
       DEF NothingChosen, ShowsPending, Adds, WaitingUndecided, Untold, Undecided
  <2>3. ShowsOnce(toHelper')
    BY <1>2, <1>3, <1>7, <2>1 DEF ShowsPending, Adds, Untold
  <2>4. PendingUntold' /\ (addon.pendingCall < fresh)'
    BY <1>1, <1>2, <1>3, <1>7
       DEF NothingChosen, ShowsPending, Adds, PendingUntold, Untold, Undecided
  <2> QED
    BY <1>7, <2>2, <2>3, <2>4, NothingChosenStep DEF ChoiceInv
<1>8. CASE TakesShow
  <2> DEFINE t == Head(toHelper).transaction
  <2>1. /\ t \in ShowsIn(toHelper) /\ t \notin ShowsIn(toHelper')
        /\ Fewer(toHelper, toHelper')
    BY <1>2, <1>8, HeadShows, TailShows, ChoiceTypes DEF TakesShow
  <2>2. helper'.transaction = t /\ UNCHANGED <<chosen, toAddon, commits, fresh, addon>>
    BY <1>8 DEF TakesShow
  <2> HIDE DEF t
  <2>3. t \in Txns /\ Undecided(t)
    BY <1>2, <1>3, <2>1 DEF WaitingUndecided
  <2>4. CommitsTheChoice' /\ ReportsTheChoice' /\ ShownUndecided'
    BY <1>2, <2>2, <2>3 DEF CommitsTheChoice, ReportsTheChoice, ShownUndecided, Undecided
  <2>5. WaitingUndecided' /\ ShowsOnce(toHelper')
    BY <1>2, <2>1, <2>2 DEF Fewer, WaitingUndecided, Undecided
  <2>6. PendingUntold'
    BY <1>2, <2>1, <2>2 DEF Fewer, PendingUntold, Untold, Undecided
  <2> QED
    BY <1>2, <2>2, <2>4, <2>5, <2>6 DEF ChoiceInv
<1>9. CASE Chooses
  <2> DEFINE u == helper.transaction
  <2>1. u \in Txns /\ chosen[u] = NoEmoji
    BY <1>1, <1>2, <1>9 DEF Chooses, ShownUndecided, Undecided
  <2>2. PICK e \in Emoji, n \in HelperNames :
          /\ chosen' = [chosen EXCEPT ![u] = e]
          /\ toAddon' = Append(toAddon, Selected(n, u, e))
    BY <1>9 DEF Chooses
  <2>3. chosen'[u] = e /\ \A t \in Txns : t # u => chosen'[t] = chosen[t]
    BY <1>1, <2>1, <2>2
  <2>4. CommitsTheChoice'
    <3>1. \A i \in DOMAIN commits : /\ commits[i].transaction \in Txns
                                    /\ commits[i].sequence \in Emoji
      BY <1>2, ChoiceTypes DEF Commits
    <3>2. \A i \in DOMAIN commits : commits[i].transaction # u
      BY <1>1, <1>2, <2>1, <3>1 DEF CommitsTheChoice
    <3> QED
      BY <1>2, <1>9, <2>3, <3>1, <3>2 DEF Chooses, CommitsTheChoice
  <2>5. ReportsTheChoice'
    <3> SUFFICES ASSUME NEW t \in Txns, NEW d \in Emoji, Reported(toAddon', t, d)
                 PROVE  chosen'[t] = d
      BY DEF ReportsTheChoice
    <3>1. PICK i \in DOMAIN toAddon' :
            /\ toAddon'[i].kind = "Selected" /\ toAddon'[i].transaction = t
            /\ toAddon'[i].sequence = d
      BY DEF Reported
    <3>2. \/ i \in DOMAIN toAddon /\ toAddon'[i] = toAddon[i]
          \/ toAddon'[i] = Selected(n, u, e)
      BY <1>2, <2>2, ChoiceTypes
    <3>3. CASE i \in DOMAIN toAddon /\ toAddon'[i] = toAddon[i]
      <4>1. chosen[t] = d
        BY <1>2, <3>1, <3>3 DEF ReportsTheChoice, Reported
      <4> QED
        BY <1>1, <2>1, <2>3, <4>1
    <3>4. CASE toAddon'[i] = Selected(n, u, e)
      BY <2>3, <3>1, <3>4 DEF Selected
    <3> QED
      BY <3>2, <3>3, <3>4
  <2>6. helper'.transaction = 0 /\ Fewer(toHelper, toHelper')
        /\ UNCHANGED <<commits, fresh, addon>>
    BY <1>9 DEF Chooses
  <2> HIDE DEF u
  <2>7. ShownUndecided' /\ WaitingUndecided' /\ ShowsOnce(toHelper')
    BY <1>1, <1>2, <1>3, <2>3, <2>6
       DEF Fewer, ShownUndecided, WaitingUndecided, Undecided, u
  <2>8. PendingUntold'
    BY <1>1, <1>2, <1>3, <2>3, <2>6 DEF Fewer, PendingUntold, Untold, Undecided, u
  <2> QED
    BY <1>2, <2>4, <2>5, <2>6, <2>7, <2>8 DEF ChoiceInv
<1> QED
  BY <1>4, <1>5, <1>6, <1>7, <1>8, <1>9 DEF ChoiceShape

(***************************************************************************)
(* Every step has one of the shapes.                                       *)
(***************************************************************************)

\* No report in the new queue that the old one does not hold.
NoNewReport(q, new) ==
  \A t \in Txns, e \in Emoji : Reported(new, t, e) => Reported(q, t, e)

LEMMA TailReports ==
  ASSUME NEW q \in Seq(ToAddon), q # <<>>
  PROVE  NoNewReport(q, Tail(q))
<1>1. \A i \in DOMAIN Tail(q) : i + 1 \in DOMAIN q /\ Tail(q)[i] = q[i + 1]
  OBVIOUS
<1> QED
  BY <1>1 DEF NoNewReport, Reported

LEMMA ConcatReports ==
  ASSUME NEW q \in Seq(ToAddon), NEW r \in Seq(ToAddon),
         \A i \in DOMAIN r : r[i].kind # "Selected"
  PROVE  NoNewReport(q, q \o r)
<1> DEFINE new == q \o r
<1>1. \A i \in DOMAIN new : \/ i \in DOMAIN q /\ new[i] = q[i]
                            \/ i - Len(q) \in DOMAIN r /\ new[i] = r[i - Len(q)]
  OBVIOUS
<1> HIDE DEF new
<1>2. NoNewReport(q, new)
  BY <1>1 DEF NoNewReport, Reported
<1> QED
  BY <1>2 DEF new

LEMMA AppendReports ==
  ASSUME NEW q \in Seq(ToAddon), NEW m \in ToAddon, m.kind # "Selected"
  PROVE  NoNewReport(q, Append(q, m))
<1> DEFINE new == Append(q, m)
<1>1. \A i \in DOMAIN new : (i \in DOMAIN q /\ new[i] = q[i]) \/ new[i] = m
  OBVIOUS
<1> HIDE DEF new
<1>2. NoNewReport(q, new)
  BY <1>1 DEF NoNewReport, Reported
<1> QED
  BY <1>2 DEF new

\* A step of the addon that commits nothing.
LEMMA AddonStepChoosesNothing ==
  ASSUME UNCHANGED helperVars, UNCHANGED commits,
         NoNewReport(toAddon, toAddon')
  PROVE  NothingChosen
BY DEF helperVars, NothingChosen, NoNewReport

LEMMA SameReports ==
  ASSUME NEW q
  PROVE  NoNewReport(q, q)
BY DEF NoNewReport

LEMMA TakesReports ==
  ASSUME TypeInv, NEW kinds, Takes(kinds)
  PROVE  NoNewReport(toAddon, toAddon')
BY TailReports DEF Takes, TypeInv, TypeOK

\* What cancelling and sending do to the pending call.
LEMMA CancelPending ==
  ASSUME NEW a \in AddonRecords, NEW notify, CancelFrom(a, notify)
  PROVE  addon'.pendingCall = a.pendingCall
BY DEF CancelFrom, Idle, AddonRecords

LEMMA SendPending ==
  ASSUME NEW a \in AddonRecords, NEW m, SendFrom(a, m)
  PROVE  addon'.pendingCall = a.pendingCall
BY DEF SendFrom, Idle, AddonRecords

\* A Show names its transaction.
LEMMA ShowNames ==
  ASSUME NEW a \in AddonRecords, a.transaction # 0
  PROVE  /\ ShowOf(a) \in ToHelper /\ IsShow(ShowOf(a))
         /\ ShowOf(a).transaction = a.transaction
BY ShowType DEF ShowOf, Show, IsShow

LEMMA TriggerChoice ==
  ASSUME TypeInv, NEW c \in Contexts, Trigger(c), UNCHANGED helperVars
  PROVE  NothingChosen /\ (ShowsFresh \/ GreetsForFresh)
<1>1. fresh \in Txns /\ fresh # 0 /\ fresh' = fresh + 1
  BY DEF TypeInv, TypeOK, Trigger, Txns, Began
<1>2. PICK close \in CloseSettings :
        LET a == [BeginTransaction(Idle(addon), c) EXCEPT !.origin = c,
                                                          !.closeAfterSelection = close]
        IN IF IsReady(a.session) THEN SendFrom(a, ShowOf(a)) ELSE Negotiate(a)
  BY DEF Trigger
<1> DEFINE a == [BeginTransaction(Idle(addon), c) EXCEPT !.origin = c,
                                                         !.closeAfterSelection = close]
<1>3. a \in AddonRecords /\ a.transaction = fresh /\ a.pendingCall = addon.pendingCall
  <2>1. Idle(addon) \in AddonRecords /\ Idle(addon).pendingCall = addon.pendingCall
    BY IdleType DEF TypeInv, TypeOK, Idle, AddonRecords
  <2>2. BeginTransaction(Idle(addon), c) \in AddonRecords
    BY <1>1, <2>1, BeginType
  <2> QED
    BY <1>1, <2>1, <2>2, close \in BOOLEAN, Ranges DEF BeginTransaction, AddonRecords
<1> HIDE DEF a
<1>4. NothingChosen
  BY AddonStepChoosesNothing, SameReports DEF Trigger
<1>5. CASE IsReady(a.session)
  <2>1. SendFrom(a, ShowOf(a))
    BY <1>2, <1>5 DEF a
  <2> QED
    BY <1>1, <1>3, <1>4, <2>1, ShowNames, SendShows, SendPending
       DEF ShowsFresh, TypeInv, TypeOK
<1>6. CASE ~IsReady(a.session)
  <2>1. Negotiate(a)
    BY <1>2, <1>6 DEF a
  <2>2. toHelper' = toHelper \/ toHelper' = Append(toHelper, Hello(a.name, fresh))
    BY <2>1 DEF Negotiate
  <2>3. addon'.pendingCall \in {0, fresh}
    BY <1>3, <2>1 DEF AddonRecords, Negotiate
  <2>4. Hello(a.name, fresh) \in ToHelper /\ ~IsShow(Hello(a.name, fresh))
    BY <1>1, <1>3 DEF Hello, ToHelper, AddonRecords, IsShow
  <2>5. Fewer(toHelper, toHelper')
    BY <2>2, <2>4, AppendShows, SameShows DEF TypeInv, TypeOK
  <2> QED
    BY <1>1, <1>4, <2>3, <2>5 DEF GreetsForFresh
<1> QED
  BY <1>5, <1>6

LEMMA ForwardChoice ==
  ASSUME TypeInv, NEW kind \in CommandKinds, NEW search \in Searches,
         Forward(kind, search), UNCHANGED helperVars
  PROVE  NothingChosen /\ NothingShown
<1> DEFINE a == [addon EXCEPT !.commandSequence = @ + 1, !.search = search]
           m == Command(a.name, a.transaction, a.commandSequence, kind,
                        IF kind = "SearchText" THEN search ELSE 0)
<1>1. addon.commandSequence + 1 \in CommandNumbers
  BY DEF Forward, TypeInv, TypeOK, AddonRecords, CommandNumbers
<1>2. /\ a \in AddonRecords /\ a.pendingCall = addon.pendingCall
      /\ a.name \in AddonNames /\ a.transaction \in Txns
      /\ a.commandSequence \in CommandNumbers
  BY <1>1, Ranges DEF TypeInv, TypeOK, AddonRecords, Forward, Active
<1>3. SendFrom(a, m)
  BY DEF Forward
<1> HIDE DEF a
<1>4. m \in ToHelper /\ ~IsShow(m)
  BY <1>2, Ranges DEF Command, ToHelper, IsShow
<1> HIDE DEF m
<1>5. Fewer(toHelper, toHelper') /\ addon'.pendingCall = addon.pendingCall
  BY <1>2, <1>3, <1>4, SendShows, SendPending DEF TypeInv, TypeOK
<1> QED
  BY <1>5, AddonStepChoosesNothing, SameReports DEF Forward, NothingShown

LEMMA KeyChoice ==
  ASSUME TypeInv, UNCHANGED helperVars,
         PressEscape \/ PressReturn \/ PressArrow \/ TypeCharacter \/ PressBackspace
  PROVE  NothingChosen /\ NothingShown
<1>1. addon.search \in Searches
  BY DEF TypeInv, TypeOK, AddonRecords
<1>2. CASE PressEscape \/ PressReturn \/ PressArrow
  BY <1>1, <1>2, ForwardChoice DEF PressEscape, PressReturn, PressArrow, CommandKinds
<1>3. CASE TypeCharacter
  <2>1. addon.search + 1 \in Searches
    BY <1>3 DEF TypeCharacter, TypeInv, TypeOK, AddonRecords, Searches
  <2> QED
    BY <1>3, <2>1, ForwardChoice DEF TypeCharacter, CommandKinds
<1>4. CASE PressBackspace
  <2>1. (IF addon.search = 0 THEN 0 ELSE addon.search - 1) \in Searches
    BY DEF TypeInv, TypeOK, AddonRecords, Searches
  <2> QED
    BY <1>4, <2>1, ForwardChoice DEF PressBackspace, CommandKinds
<1> QED
  BY <1>2, <1>3, <1>4

LEMMA ClientChoice ==
  ASSUME TypeInv, ClientEvents
  PROVE  NothingChosen /\ NothingShown
<1>1. PICK c \in Contexts : FocusIn(c) \/ FocusOut(c) \/ ResetOrSwitch(c) \/ Destroy(c)
  BY DEF ClientEvents
<1>2. UNCHANGED <<toAddon, commits, fresh, helperVars>>
  BY <1>1 DEF FocusIn, FocusOut, ResetOrSwitch, Destroy, ClientEvents
<1>3. UNCHANGED <<addon, toHelper>> \/ CancelFrom(addon, TRUE)
  BY <1>1 DEF FocusIn, FocusOut, ResetOrSwitch, Destroy, Disturbed
<1>4. Fewer(toHelper, toHelper') /\ addon'.pendingCall = addon.pendingCall
  BY <1>3, SameShows, CancelShows, CancelPending DEF TypeInv, TypeOK
<1> QED
  BY <1>2, <1>4, AddonStepChoosesNothing, SameReports DEF NothingShown

\* Taking the pending call away touches no transaction.
LEMMA SettledPending ==
  ASSUME addon \in AddonRecords
  PROVE  /\ Settled \in AddonRecords /\ Settled.transaction = addon.transaction
         /\ Settled.pendingCall = 0
BY SettledType DEF Settled, AddonRecords

LEMMA ReplyChoice ==
  ASSUME TypeInv, ReceiveReply, UNCHANGED helperVars
  PROVE  NothingChosen /\ (NothingShown \/ ShowsPending)
<1> DEFINE reply == Head(toAddon)
<1>1. NothingChosen /\ fresh' = fresh
  BY TakesReports, AddonStepChoosesNothing DEF ReceiveReply
<1>2. /\ Settled \in AddonRecords /\ Settled.transaction = addon.transaction
      /\ Settled.pendingCall = 0
  BY SettledPending DEF TypeInv, TypeOK
<1>3. CASE UNCHANGED <<addon, toHelper>>
  BY <1>1, <1>3, SameShows DEF NothingShown
<1>4. CASE addon' = Settled /\ UNCHANGED toHelper
  BY <1>1, <1>2, <1>4, SameShows DEF NothingShown
<1>5. CASE CancelFrom(Settled, reply.kind = "Refusal")
  BY <1>1, <1>2, <1>5, CancelShows, CancelPending DEF NothingShown, TypeInv, TypeOK
<1>6. CASE reply.kind = "Welcome" /\ Negotiated(reply) /\ ~IgnoresReply(reply.call)
           /\ AnswersPending(reply.call)
  <2> DEFINE session == AcceptWelcome(Begin(addon.session, reply.from, reply.call),
                                      reply.from, reply)
             a == [Settled EXCEPT !.session = session]
  <2>1. reply \in ToAddon
    BY TakesType DEF ReceiveReply, TypeInv, TypeOK
  <2>2. session \in SessionRecords
    BY <1>6, <2>1, Ranges DEF ToAddon, AcceptWelcome, Begin, SessionRecords, SessionStates
  <2>3. a \in AddonRecords /\ a.transaction = Settled.transaction /\ a.pendingCall = 0
    BY <1>2, <2>2 DEF AddonRecords
  <2>4. a.transaction = addon.pendingCall /\ addon.pendingCall # 0
    BY <1>6, <2>3 DEF IgnoresReply, AnswersPending
  <2>5. SendFrom(a, ShowOf(a)) \/ CancelFrom(a, TRUE)
    BY <1>6 DEF Negotiated
  <2> HIDE DEF a
  <2>6. CASE SendFrom(a, ShowOf(a))
    BY <1>1, <2>3, <2>4, <2>6, ShowNames, SendShows, SendPending
       DEF ShowsPending, TypeInv, TypeOK
  <2>7. CASE CancelFrom(a, TRUE)
    BY <1>1, <2>3, <2>7, CancelShows, CancelPending DEF NothingShown, TypeInv, TypeOK
  <2> QED
    BY <2>5, <2>6, <2>7
<1> QED
  BY <1>3, <1>4, <1>5, <1>6 DEF ReceiveReply

LEMMA TimeoutChoice ==
  ASSUME TypeInv, Timeout
  PROVE  NothingChosen /\ NothingShown
<1>1. /\ Settled \in AddonRecords /\ Settled.pendingCall = 0
  BY SettledPending DEF TypeInv, TypeOK
<1>2. (addon' = Settled /\ UNCHANGED toHelper) \/ CancelFrom(Settled, FALSE)
  BY DEF Timeout, CallTimesOut
<1>3. Fewer(toHelper, toHelper') /\ addon'.pendingCall = 0
  BY <1>1, <1>2, SameShows, CancelShows, CancelPending DEF TypeInv, TypeOK
<1> QED
  BY <1>3, AddonStepChoosesNothing, SameReports DEF Timeout, CallTimesOut, NothingShown

\* The follow-up to a commit shows nothing, or the transaction it begins.
LEMMA AfterCommitShows ==
  ASSUME TypeInv, AfterCommit, addon.closeAfterSelection \/ fresh <= MaxTxn
  PROVE  NothingShown \/ ShowsFresh
<1>1. /\ Terminal \in AddonRecords /\ Terminal.pendingCall = addon.pendingCall
      /\ Finished.pendingCall = addon.pendingCall
  BY Ranges DEF Terminal, Finished, AddonRecords, TypeInv, TypeOK
<1>2. CASE addon.closeAfterSelection
  BY <1>1, <1>2, SameShows DEF AfterCommit, NothingShown
<1>3. CASE ~addon.closeAfterSelection /\ addon.origin \in focused
  <2> DEFINE a == BeginTransaction(Terminal, addon.origin)
  <2>1. fresh \in Txns /\ fresh # 0 /\ addon.origin \in Contexts
    BY <1>3 DEF TypeInv, TypeOK, Txns
  <2>2. /\ a \in AddonRecords /\ a.transaction = fresh
        /\ a.pendingCall = addon.pendingCall
    BY <1>1, <2>1, BeginType DEF BeginTransaction, AddonRecords
  <2>3. Began(addon.origin) /\ SendFrom(a, ShowOf(a))
    BY <1>3 DEF AfterCommit
  <2> HIDE DEF a
  <2> QED
    BY <2>1, <2>2, <2>3, ShowNames, SendShows, SendPending
       DEF Began, ShowsFresh, TypeInv, TypeOK
<1>4. CASE ~addon.closeAfterSelection /\ addon.origin \notin focused
  <2>1. CancelFrom(Terminal, TRUE) /\ fresh' = fresh
    BY <1>4 DEF AfterCommit
  <2> QED
    BY <1>1, <2>1, CancelShows, CancelPending DEF NothingShown, TypeInv, TypeOK
<1> QED
  BY <1>2, <1>3, <1>4

LEMMA SelectedChoice ==
  ASSUME TypeInv, ReceiveSelected, UNCHANGED helperVars
  PROVE  NothingChosen /\ (NothingShown \/ ShowsFresh)
<1> DEFINE frame == Head(toAddon)
           committed == /\ Accepts(addon.session, frame.from)
                        /\ SelectResult(frame.transaction, frame.sequence) = "Committed"
           new == [transaction |-> addon.transaction, context |-> addon.target,
                   sequence |-> frame.sequence]
<1>1. /\ frame \in ToAddon /\ frame.kind = "Selected"
      /\ NoNewReport(toAddon, toAddon')
  BY TakesType, TakesReports DEF ReceiveSelected, TypeInv, TypeOK
<1>2. CASE committed
  <2>1. AfterCommit /\ (addon.closeAfterSelection \/ fresh <= MaxTxn)
    BY <1>2 DEF ReceiveSelected
  <2>2. commits' = Append(commits, new)
    BY <1>2 DEF ReceiveSelected
  <2>3. /\ addon.transaction # 0 /\ frame.transaction = addon.transaction
        /\ addon.target \in focused
    BY <1>2 DEF SelectResult, Active
  <2>4. addon.transaction \in Txns /\ addon.target \in Contexts /\ frame.sequence \in Emoji
    BY <1>1, <2>3, Ranges DEF ToAddon, TypeInv, TypeOK, AddonRecords
  <2>5. new \in Commits /\ new.transaction = addon.transaction /\ new.sequence = frame.sequence
    BY <2>4 DEF Commits
  <2>6. Reported(toAddon, addon.transaction, frame.sequence)
    <3>1. 1 \in DOMAIN toAddon /\ toAddon[1] = frame
      BY DEF ReceiveSelected, Takes, TypeInv, TypeOK
    <3> QED
      BY <1>1, <2>3, <3>1 DEF Reported
  <2> HIDE DEF new
  <2>7. NothingChosen
    BY <1>1, <2>2, <2>5, <2>6 DEF NothingChosen, NoNewReport, helperVars
  <2> QED
    BY <2>1, <2>7, AfterCommitShows
<1>3. CASE ~committed
  <2>1. Terminal \in AddonRecords /\ Terminal.pendingCall = addon.pendingCall
    BY Ranges DEF Terminal, AddonRecords, TypeInv, TypeOK
  <2>2. UNCHANGED <<addon, toHelper>> \/ CancelFrom(Terminal, TRUE)
    BY <1>3 DEF ReceiveSelected
  <2>3. commits' = commits /\ fresh' = fresh
    BY <1>3 DEF ReceiveSelected
  <2>4. NothingChosen
    BY <1>1, <2>3, AddonStepChoosesNothing
  <2>5. Fewer(toHelper, toHelper') /\ addon'.pendingCall = addon.pendingCall
    BY <2>1, <2>2, SameShows, CancelShows, CancelPending DEF TypeInv, TypeOK
  <2> QED
    BY <2>3, <2>4, <2>5 DEF NothingShown
<1> QED
  BY <1>2, <1>3

LEMMA NoticeChoice ==
  ASSUME TypeInv, ReceiveCancelled \/ ReceiveOwnerGone, UNCHANGED helperVars
  PROVE  NothingChosen /\ NothingShown
<1>1. NothingChosen /\ fresh' = fresh
  BY TakesReports, AddonStepChoosesNothing DEF ReceiveCancelled, ReceiveOwnerGone
<1>2. CASE ReceiveCancelled
  <2>1. UNCHANGED <<addon, toHelper>> \/ CancelFrom(addon, FALSE)
    BY <1>2 DEF ReceiveCancelled
  <2> QED
    BY <1>1, <2>1, SameShows, CancelShows, CancelPending DEF NothingShown, TypeInv, TypeOK
<1>3. CASE ReceiveOwnerGone
  <2>1. \A owner : WithoutOwner(owner).pendingCall = 0
    BY DEF WithoutOwner, Idle, AddonRecords, TypeInv, TypeOK
  <2>2. addon'.pendingCall = 0 /\ toHelper' = toHelper
    BY <1>3, <2>1, SettledPending DEF ReceiveOwnerGone, TypeInv, TypeOK
  <2> QED
    BY <1>1, <2>2, SameShows DEF NothingShown
<1> QED
  BY <1>2, <1>3

(***************************************************************************)
(* The helper's steps.                                                     *)
(***************************************************************************)

\* A step of the helper or the bus in which nothing is chosen or shown.
LEMMA HelperStepChoosesNothing ==
  ASSUME UNCHANGED <<chosen, commits, fresh, addon>>,
         helper'.transaction \in {0, helper.transaction},
         NoNewReport(toAddon, toAddon'), Fewer(toHelper, toHelper')
  PROVE  ChoiceShape
BY DEF NothingChosen, NothingShown, NoNewReport, ChoiceShape

LEMMA TakenCallShows ==
  ASSUME TypeInv, NEW kind, TakesCall(kind)
  PROVE  Fewer(toHelper, toHelper')
BY TailShows DEF TakesCall, TypeInv, TypeOK

LEMMA HelloChoice ==
  ASSUME TypeInv, ExchangeHello, UNCHANGED addonVars
  PROVE  ChoiceShape
<1> DEFINE hello == Head(toHelper)
<1>1. /\ hello \in ToHelper /\ hello.kind = "Hello" /\ helper.name \in HelperNames
      /\ Fewer(toHelper, toHelper')
  BY TakesCallType, TakenCallShows DEF ExchangeHello
<1>2. hello.nonce \in Txns
  BY <1>1 DEF ToHelper
<1>3. helper'.transaction \in {0, helper.transaction}
  <2>1. Reset(helper) \in HelperRecords /\ Reset(helper).transaction = 0
    BY ResetType DEF TypeInv, TypeOK
  <2> QED
    BY <2>1 DEF ExchangeHello, Rebound, TypeInv, TypeOK, HelperRecords
<1>4. NoNewReport(toAddon, toAddon')
  <2>1. Welcome(helper.name, hello.nonce, hello.nonce) \in ToAddon
    BY <1>1, <1>2 DEF Welcome, ToAddon
  <2>2. Welcome(helper.name, hello.nonce, hello.nonce).kind # "Selected"
    BY DEF Welcome
  <2>3. Refusal(hello.nonce) \in ToAddon /\ Refusal(hello.nonce).kind # "Selected"
    BY <1>2 DEF Refusal, ToAddon
  <2>4. \/ toAddon' = Append(toAddon, Welcome(helper.name, hello.nonce, hello.nonce))
        \/ toAddon' = Append(toAddon, Refusal(hello.nonce))
    BY DEF ExchangeHello, Emits
  <2> QED
    BY <2>1, <2>2, <2>3, <2>4, AppendReports DEF TypeInv, TypeOK
<1>5. UNCHANGED <<chosen, commits, fresh, addon>>
  BY DEF ExchangeHello, addonVars
<1> QED
  BY <1>1, <1>3, <1>4, <1>5, HelperStepChoosesNothing

LEMMA ShowCallChoice ==
  ASSUME TypeInv, ExchangeShow, UNCHANGED addonVars
  PROVE  ChoiceShape
<1> DEFINE show == Head(toHelper)
<1>1. UNCHANGED <<chosen, toAddon, commits, fresh, addon>>
  BY DEF ExchangeShow, addonVars
<1>2. CASE FromPeer(show)
  <2>1. helper' = Shown(helper, show)
    BY <1>2 DEF ExchangeShow
  <2>2. helper'.transaction = show.transaction
    BY <2>1 DEF Shown, TypeInv, TypeOK, HelperRecords
  <2>3. toHelper # <<>> /\ IsShow(show) /\ toHelper' = Tail(toHelper)
    BY DEF ExchangeShow, TakesCall, IsShow
  <2> QED
    BY <1>1, <2>2, <2>3 DEF TakesShow, ChoiceShape
<1>3. CASE ~FromPeer(show)
  BY <1>1, <1>3, HelperStepChoosesNothing, TakenCallShows, SameReports DEF ExchangeShow
<1> QED
  BY <1>2, <1>3

LEMMA EndingCallChoice ==
  ASSUME TypeInv, ExchangeHide \/ PeerDisconnected, UNCHANGED addonVars
  PROVE  ChoiceShape
<1>1. Reset(helper) \in HelperRecords /\ Reset(helper).transaction = 0
  BY ResetType DEF TypeInv, TypeOK
<1>2. WithoutPeer.transaction = 0
  BY <1>1 DEF WithoutPeer, HelperRecords
<1>3. helper'.transaction \in {0, helper.transaction}
  BY <1>1, <1>2 DEF ExchangeHide, PeerDisconnected
<1>4. Fewer(toHelper, toHelper')
  BY TakenCallShows DEF ExchangeHide, PeerDisconnected
<1> QED
  BY <1>3, <1>4, HelperStepChoosesNothing, SameReports
     DEF ExchangeHide, PeerDisconnected, addonVars

\* A choice reports the helper's transaction, or there is none to report.
LEMMA ChooseChoice ==
  ASSUME TypeInv, NEW h \in HelperRecords, h.transaction = helper.transaction,
         h.name \in HelperNames, ChooseFrom(h), UNCHANGED addonVars,
         Fewer(toHelper, toHelper')
  PROVE  ChoiceShape
<1> DEFINE done == [h EXCEPT !.transaction = 0, !.validator = NoSequence]
<1>1. done \in HelperRecords /\ done.transaction = 0
  BY Ranges DEF NoSequence, BeginSequence, HelperRecords, Validators
<1>2. \A g \in HelperRecords : Hidden(g).transaction = g.transaction
  BY DEF Hidden, HelperRecords
<1>3. CASE h.transaction = 0
  <2>1. helper' \in {h, Hidden(h)} /\ UNCHANGED <<toAddon, chosen>>
    BY <1>3 DEF ChooseFrom
  <2> QED
    BY <1>2, <1>3, <2>1, HelperStepChoosesNothing, SameReports DEF addonVars
<1>4. CASE h.transaction # 0
  <2>1. helper' \in {done, Hidden(done)}
    BY <1>4 DEF ChooseFrom
  <2>2. /\ toAddon' = Append(toAddon, Selected(h.name, h.transaction, h.query))
        /\ chosen' = [chosen EXCEPT ![h.transaction] = h.query]
    BY <1>4 DEF ChooseFrom, Emits
  <2> HIDE DEF done
  <2>3. helper'.transaction = 0
    BY <1>1, <1>2, <2>1
  <2>4. h.query \in Emoji
    BY DEF HelperRecords, Emoji
  <2> QED
    BY <1>4, <2>2, <2>3, <2>4 DEF Chooses, ChoiceShape, addonVars
<1> QED
  BY <1>3, <1>4

LEMMA CommandChoice ==
  ASSUME TypeInv, ExchangeCommand, UNCHANGED addonVars
  PROVE  ChoiceShape
<1> DEFINE call == Head(toHelper)
           h == Counted(call)
<1>1. /\ call \in ToHelper /\ call.kind = "Command" /\ helper.name \in HelperNames
      /\ Fewer(toHelper, toHelper')
  BY TakesCallType, TakenCallShows DEF ExchangeCommand
<1>2. UNCHANGED <<commits, fresh, addon>>
  BY DEF addonVars
<1>3. CASE UNCHANGED <<helper, toAddon, chosen, escaped>>
  BY <1>1, <1>2, <1>3, HelperStepChoosesNothing, SameReports
<1>4. CASE Handles(call) /\ Handled(call)
  <2>1. /\ call.sequence \in CommandNumbers /\ call.text \in Searches
        /\ call.transaction \in MaybeTxn
    BY <1>1, Ranges DEF ToHelper
  <2>2. h \in HelperRecords /\ h.name = helper.name /\ h.transaction = helper.transaction
    BY <2>1 DEF Counted, TypeInv, TypeOK, HelperRecords, Validators
  <2>3. h.transaction \in Txns
    BY <1>4, <2>2, Ranges DEF Handles, HelperRecords
  <2> HIDE DEF h
  <2>4. CASE call.command = "SearchText"
    <3>1. helper' = [h EXCEPT !.query = call.text] /\ UNCHANGED <<toAddon, chosen>>
      BY <1>4, <2>4 DEF Handled, h
    <3>2. helper'.transaction = helper.transaction
      BY <2>2, <3>1 DEF HelperRecords
    <3> QED
      BY <1>1, <1>2, <3>1, <3>2, HelperStepChoosesNothing, SameReports
  <2>5. CASE call.command = "Cancel"
    <3>1. CancelFromKeyboard(h) /\ UNCHANGED chosen
      BY <1>4, <2>5 DEF Handled, h
    <3>2. [h EXCEPT !.settingsPanel = FALSE].transaction = h.transaction
      BY <2>2 DEF HelperRecords
    <3>3. helper'.transaction \in {0, helper.transaction}
      BY <2>2, <3>1, <3>2, ResetType DEF CancelFromKeyboard
    <3>4. /\ Cancelled(h.name, h.transaction) \in ToAddon
          /\ Cancelled(h.name, h.transaction).kind # "Selected"
      BY <1>1, <2>2, <2>3 DEF Cancelled, ToAddon
    <3>5. NoNewReport(toAddon, toAddon')
      BY <3>1, <3>4, AppendReports, SameReports DEF CancelFromKeyboard, Emits, TypeInv, TypeOK
    <3> QED
      BY <1>1, <1>2, <3>1, <3>3, <3>5, HelperStepChoosesNothing
  <2>6. CASE call.command = "Select"
    <3>1. ChooseFrom(h) \/ (helper' = h /\ UNCHANGED <<toAddon, chosen>>)
      BY <1>4, <2>6 DEF Handled, h
    <3>2. CASE ChooseFrom(h)
      BY <1>1, <2>2, <3>2, ChooseChoice
    <3>3. CASE helper' = h /\ UNCHANGED <<toAddon, chosen>>
      BY <1>1, <1>2, <2>2, <3>3, HelperStepChoosesNothing, SameReports
    <3> QED
      BY <3>1, <3>2, <3>3
  <2>7. CASE call.command \notin {"SearchText", "Cancel", "Select"}
    <3>1. helper' = h /\ UNCHANGED <<toAddon, chosen>>
      BY <1>4, <2>7 DEF Handled, h
    <3> QED
      BY <1>1, <1>2, <2>2, <3>1, HelperStepChoosesNothing, SameReports
  <2> QED
    BY <2>4, <2>5, <2>6, <2>7
<1> QED
  BY <1>3, <1>4 DEF ExchangeCommand

LEMMA ClickChoice ==
  ASSUME TypeInv, ClickEmoji \/ ClickSettings, UNCHANGED addonVars
  PROVE  ChoiceShape
<1>1. helper \in HelperRecords /\ helper.name # 0
  BY DEF ClickEmoji, ClickSettings, TypeInv, TypeOK, LiveName
<1>2. CASE ClickEmoji
  <2>1. helper.name \in HelperNames
    BY <1>1 DEF HelperRecords, MaybeHelper, HelperNames
  <2>2. ChooseFrom(helper) /\ Fewer(toHelper, toHelper')
    BY <1>2, SameShows DEF ClickEmoji
  <2> QED
    BY <1>1, <2>1, <2>2, ChooseChoice
<1>3. CASE ClickSettings
  <2>1. helper'.transaction = helper.transaction
    BY <1>1, <1>3 DEF ClickSettings, HelperRecords
  <2> QED
    BY <1>3, <2>1, HelperStepChoosesNothing, SameReports, SameShows
       DEF ClickSettings, addonVars
<1> QED
  BY <1>2, <1>3

(***************************************************************************)
(* The bus.                                                                *)
(***************************************************************************)

\* The error of a lost call reports nothing.
LEMMA ErrorReports ==
  ASSUME TypeInv, NEW n \in 0 .. Len(toHelper)
  PROVE  /\ ErrorIfLost(n) \in Seq(ToAddon)
         /\ \A i \in DOMAIN ErrorIfLost(n) : ErrorIfLost(n)[i].kind # "Selected"
<1>1. ErrorIfLost(n) \in {<<>>, <<CallError(addon.pendingCall)>>}
  BY DEF ErrorIfLost
<1>2. CallError(addon.pendingCall).kind # "Selected"
  BY DEF CallError
<1> HIDE DEF ErrorIfLost
<1>3. \A i \in DOMAIN ErrorIfLost(n) : ErrorIfLost(n)[i].kind # "Selected"
  <2>1. CASE ErrorIfLost(n) = <<>>
    BY <2>1
  <2>2. CASE ErrorIfLost(n) = <<CallError(addon.pendingCall)>>
    BY <1>2, <2>2
  <2> QED
    BY <1>1, <2>1, <2>2
<1> QED
  BY <1>3, ErrorType

LEMMA BusChoice ==
  ASSUME TypeInv, StartHelper \/ StartFails \/ HelperDies \/ RestartAddon
  PROVE  ChoiceShape
<1>1. toHelper \in Seq(ToHelper) /\ toAddon \in Seq(ToAddon)
  BY DEF TypeInv, TypeOK
<1>2. UNCHANGED <<chosen, commits, fresh>>
  BY DEF StartHelper, StartFails, HelperDies, RestartAddon, BusUnchanged
<1>3. CASE StartHelper
  <2>1. helper'.transaction = 0
    BY <1>3 DEF StartHelper, NewHelper
  <2> QED
    BY <1>2, <1>3, <2>1, HelperStepChoosesNothing, SameReports, SameShows DEF StartHelper
<1>4. CASE StartFails
  <2>1. Fewer(toHelper, toHelper')
    <3>1. toHelper' = <<>>
      BY <1>4 DEF StartFails
    <3> QED
      BY <3>1 DEF Fewer, ShowsIn, ShowsOnce
  <2>2. NoNewReport(toAddon, toAddon')
    <3>1. Len(toHelper) \in 0 .. Len(toHelper)
      BY <1>1
    <3> QED
      BY <1>1, <1>4, <3>1, ErrorReports, ConcatReports DEF StartFails
  <2> QED
    BY <1>2, <1>4, <2>1, <2>2, HelperStepChoosesNothing DEF StartFails
<1>5. CASE HelperDies
  <2>1. PICK routed \in 0 .. Len(toHelper) :
          /\ toHelper' = SubSeq(toHelper, routed + 1, Len(toHelper))
          /\ toAddon' = Append(toAddon, OwnerGone(helper.name)) \o ErrorIfLost(routed)
    BY <1>5 DEF HelperDies
  <2>2. Fewer(toHelper, toHelper')
    <3>1. routed \in Nat
      BY <1>1
    <3>2. /\ toHelper' \in Seq(ToHelper)
          /\ \A i \in DOMAIN toHelper' : /\ i + routed \in DOMAIN toHelper
                                         /\ toHelper'[i] = toHelper[i + routed]
      BY <1>1, <2>1, <3>1, SubSeqProperties
    <3> QED
      BY <1>1, <3>1, <3>2, CutShows
  <2>3. NoNewReport(toAddon, toAddon')
    <3> DEFINE noticed == Append(toAddon, OwnerGone(helper.name))
    <3>1. OwnerGone(helper.name) \in ToAddon /\ OwnerGone(helper.name).kind # "Selected"
      <4>1. helper.name \in HelperNames
        BY <1>5 DEF HelperDies, TypeInv, TypeOK, LiveName, HelperRecords, MaybeHelper,
                    HelperNames
      <4> QED
        BY <4>1 DEF OwnerGone, ToAddon
    <3>2. noticed \in Seq(ToAddon) /\ NoNewReport(toAddon, noticed)
      BY <1>1, <3>1, AppendReports
    <3> HIDE DEF noticed
    <3>3. NoNewReport(noticed, noticed \o ErrorIfLost(routed))
      BY <3>2, ErrorReports, ConcatReports
    <3> QED
      BY <2>1, <3>2, <3>3 DEF noticed, NoNewReport
  <2>4. helper'.transaction = 0 /\ addon' = addon
    BY <1>5 DEF HelperDies, NewHelper
  <2> QED
    BY <1>2, <2>2, <2>3, <2>4, HelperStepChoosesNothing
<1>6. CASE RestartAddon
  <2>1. Fewer(toHelper, toHelper')
    <3>1. addon.name \in AddonNames
      BY DEF TypeInv, TypeOK, AddonRecords
    <3>2. PeerGone(addon.name) \in ToHelper /\ ~IsShow(PeerGone(addon.name))
      BY <3>1 DEF PeerGone, ToHelper, IsShow
    <3> QED
      BY <1>1, <1>6, <3>2, AppendShows, SameShows DEF RestartAddon
  <2>2. toAddon' = <<>> /\ helper' = helper /\ addon'.pendingCall = 0
    BY <1>6 DEF RestartAddon, NewAddon
  <2>3. NothingChosen
    BY <1>2, <2>2 DEF NothingChosen, Reported
  <2> QED
    BY <1>2, <2>1, <2>2, <2>3 DEF NothingShown, ChoiceShape
<1> QED
  BY <1>3, <1>4, <1>5, <1>6

(***************************************************************************)
(* The theorems.                                                           *)
(***************************************************************************)

LEMMA EveryStepHasAChoiceShape ==
  ASSUME TypeInv, Next
  PROVE  ChoiceShape
<1>1. CASE AddonHears
  BY <1>1, ReplyChoice, SelectedChoice, NoticeChoice DEF AddonHears, ChoiceShape
<1>2. CASE HelperHears
  BY <1>2, HelloChoice, ShowCallChoice, CommandChoice, EndingCallChoice DEF HelperHears
<1>3. CASE Timeout
  BY <1>3, TimeoutChoice DEF ChoiceShape
<1>4. CASE User
  BY <1>4, TriggerChoice, KeyChoice, ClickChoice DEF User, ChoiceShape
<1>5. CASE ClientEvents
  BY <1>5, ClientChoice DEF ChoiceShape
<1>6. CASE StartHelper \/ StartFails \/ HelperDies \/ RestartAddon
  BY <1>6, BusChoice
<1> QED
  BY <1>1, <1>2, <1>3, <1>4, <1>5, <1>6 DEF Next

LEMMA ChoiceStep ==
  ASSUME ChoiceInv, [Next]_vars
  PROVE  ChoiceInv'
<1>1. TypeInv /\ TypeInv'
  BY TypeStep DEF ChoiceInv
<1>2. CASE Next
  BY <1>1, <1>2, EveryStepHasAChoiceShape, ChoiceStepOfShape
<1>3. CASE UNCHANGED vars
  BY <1>1, <1>3
     DEF vars, addonVars, helperVars, ChoiceInv, CommitsTheChoice, ReportsTheChoice, Reported,
         ShownUndecided, WaitingUndecided, PendingUntold, Untold, Undecided, ShowsIn, ShowsOnce
<1> QED
  BY <1>2, <1>3

\* Every commit inserts the emoji the helper reported for that very transaction.
THEOREM CommitsWhatWasChosen == Spec => []CommitsTheChoice
<1>1. Init => ChoiceInv
  BY ChoiceInit
<1>2. ChoiceInv /\ [Next]_vars => ChoiceInv'
  BY ChoiceStep
<1>3. ChoiceInv => CommitsTheChoice
  BY DEF ChoiceInv
<1> QED
  BY <1>1, <1>2, <1>3, PTL DEF Spec

(***************************************************************************)
(* Messages of other transactions. Only the action that takes a message    *)
(* shortens its queue without changing the process at the other end.       *)
(***************************************************************************)

LEMMA TailIsShorter ==
  ASSUME NEW S, NEW q \in Seq(S), q # <<>>
  PROVE  Tail(q) # q
<1> DEFINE n == Len(q)
<1>1. n \in Nat /\ Len(Tail(q)) = n - 1
  OBVIOUS
<1> HIDE DEF n
<1>2. n - 1 # n
  BY <1>1
<1> QED
  BY <1>1, <1>2 DEF n

\* The addon, when a frame does not name its transaction.
LEMMA LateFrame ==
  ASSUME TypeInv, Next, toAddon # <<>>, toAddon' = Tail(toAddon), addon'.name = addon.name,
         Head(toAddon).kind \in {"Selected", "Cancelled"},
         Head(toAddon).transaction # addon.transaction
  PROVE  addon' = addon
<1>1. toAddon' # toAddon
  BY TailIsShorter DEF TypeInv, TypeOK
<1>2. CASE AddonHears
  <2>1. CASE ReceiveReply
    BY <2>1 DEF ReceiveReply, Takes
  <2>2. CASE ReceiveSelected
    <3>1. SelectResult(Head(toAddon).transaction, Head(toAddon).sequence)
            \in {"Inactive", "TransactionMismatch"}
      BY DEF SelectResult
    <3> QED
      BY <2>2, <3>1 DEF ReceiveSelected
  <2>3. CASE ReceiveCancelled
    BY <2>3 DEF ReceiveCancelled, EndsTransaction
  <2>4. CASE ReceiveOwnerGone
    BY <2>4 DEF ReceiveOwnerGone, Takes
  <2> QED
    BY <1>2, <2>1, <2>2, <2>3, <2>4 DEF AddonHears
<1>3. CASE HelperHears
  BY <1>3 DEF HelperHears, addonVars
<1>4. CASE Timeout
  BY <1>1, <1>4 DEF Timeout, CallTimesOut
<1>5. CASE User
  BY <1>1, <1>5 DEF User, Trigger, PressEscape, PressReturn, PressArrow, TypeCharacter,
                    PressBackspace, Forward, addonVars
<1>6. CASE ClientEvents
  BY <1>1, <1>6 DEF ClientEvents, FocusIn, FocusOut, ResetOrSwitch, Destroy
<1>7. CASE StartHelper \/ StartFails \/ HelperDies
  BY <1>7 DEF StartHelper, StartFails, HelperDies
<1>8. CASE RestartAddon
  <2>1. addon.name \in Nat
    BY DEF TypeInv, TypeOK, AddonRecords, AddonNames
  <2> QED
    BY <1>8, <2>1 DEF RestartAddon, NewAddon
<1> QED
  BY <1>2, <1>3, <1>4, <1>5, <1>6, <1>7, <1>8 DEF Next

\* The helper, when a command does not name its transaction.
LEMMA LateCommand ==
  ASSUME TypeInv, Next, toHelper # <<>>, toHelper' = Tail(toHelper), helper.up, helper'.up,
         Head(toHelper).kind = "Command",
         Head(toHelper).transaction # helper.transaction
  PROVE  helper' = helper
<1>1. toHelper' # toHelper
  BY TailIsShorter DEF TypeInv, TypeOK
<1>2. CASE UNCHANGED helperVars
  BY <1>2 DEF helperVars
<1>3. CASE HelperHears
  <2>1. CASE ExchangeCommand
    BY <2>1 DEF ExchangeCommand, Handles
  <2>2. CASE ExchangeHello \/ ExchangeShow \/ ExchangeHide \/ PeerDisconnected
    BY <2>2 DEF ExchangeHello, ExchangeShow, ExchangeHide, PeerDisconnected, TakesCall
  <2> QED
    BY <1>3, <2>1, <2>2 DEF HelperHears
<1>4. CASE ClickEmoji \/ ClickSettings
  BY <1>1, <1>4 DEF ClickEmoji, ClickSettings
<1>5. CASE StartHelper \/ StartFails \/ RestartAddon
  BY <1>1, <1>5 DEF StartHelper, StartFails, RestartAddon
<1>6. CASE HelperDies
  BY <1>6 DEF HelperDies, NewHelper
<1> QED
  BY <1>2, <1>3, <1>4, <1>5, <1>6 DEF Next, AddonHears, Timeout, User, ClientEvents

\* A frame or a command of another transaction changes nothing where it arrives.
THEOREM LateMessagesIgnored == Spec => LateMessagesHarmless
<1> DEFINE A == /\ (/\ toAddon # <<>> /\ toAddon' = Tail(toAddon) /\ addon'.name = addon.name
                    /\ Head(toAddon).kind \in {"Selected", "Cancelled"}
                    /\ Head(toAddon).transaction # addon.transaction) => addon' = addon
                /\ (/\ toHelper # <<>> /\ toHelper' = Tail(toHelper) /\ helper.up /\ helper'.up
                    /\ Head(toHelper).kind = "Command"
                    /\ Head(toHelper).transaction # helper.transaction) => helper' = helper
<1>1. TypeInv /\ [Next]_vars => [A]_vars
  BY LateFrame, LateCommand
<1>2. Init => TypeInv
  BY TypeInit
<1>3. TypeInv /\ [Next]_vars => TypeInv'
  BY TypeStep
<1> QED
  BY <1>1, <1>2, <1>3, PTL DEF Spec, LateMessagesHarmless
(***************************************************************************)
(* The helper shows its palette as SessionWindow says.                     *)
(***************************************************************************)

\* g shows what h shows.
SameView(g, h) ==
  /\ (g.transaction # 0) = (h.transaction # 0)
  /\ g.visible = h.visible /\ g.settingsPanel = h.settingsPanel
  /\ g.closeAfterSelection = h.closeAfterSelection /\ g.query = h.query

LEMMA ViewStutters ==
  ASSUME SameView(helper', helper)
  PROVE  UNCHANGED (Window!vars)
BY DEF SameView, Window!vars

\* What is hidden and what is reset, as the session sees it.
LEMMA ViewHidden ==
  ASSUME NEW h \in HelperRecords
  PROVE  /\ Hidden(h).visible = FALSE /\ Hidden(h).settingsPanel = FALSE
         /\ Hidden(h).closeAfterSelection = h.closeAfterSelection
         /\ Hidden(h).query = h.query /\ Hidden(h).transaction = h.transaction
         /\ Reset(h).visible = FALSE /\ Reset(h).settingsPanel = FALSE
         /\ Reset(h).closeAfterSelection = h.closeAfterSelection
         /\ Reset(h).query = h.query /\ Reset(h).transaction = 0
BY DEF Hidden, Reset, HelperRecords

LEMMA ViewWithdrawn ==
  ASSUME NEW h \in HelperRecords, SameView(h, helper),
         helper'.visible = FALSE, helper'.settingsPanel = FALSE, helper'.transaction = 0,
         helper'.closeAfterSelection = h.closeAfterSelection, helper'.query = h.query
  PROVE  Window!Withdraw
BY DEF SameView, Window!Withdraw

\* A panel is open in a visible palette only.
PanelShown == helper.settingsPanel => helper.visible

ViewInv == TypeInv /\ PanelShown

LEMMA ViewParts ==
  ASSUME ViewInv
  PROVE  /\ helper \in HelperRecords /\ PanelShown
         /\ helper.visible \in BOOLEAN /\ helper.settingsPanel \in BOOLEAN
         /\ helper.closeAfterSelection \in BOOLEAN /\ SameView(helper, helper)
BY DEF ViewInv, TypeInv, TypeOK, HelperRecords, SameView

LEMMA ChooseInView ==
  ASSUME NEW h \in HelperRecords, SameView(h, helper), ChooseFrom(h),
         helper.transaction # 0 \/ (helper.visible /\ ~helper.settingsPanel)
  PROVE  Window!Choose
<1> DEFINE done == [h EXCEPT !.transaction = 0, !.validator = NoSequence]
           after == IF h.transaction = 0 THEN h ELSE done
<1>1. helper' = IF h.closeAfterSelection THEN Hidden(after) ELSE after
  BY DEF ChooseFrom
<1>2. /\ after \in HelperRecords /\ after.transaction = 0 /\ after.visible = h.visible
      /\ after.settingsPanel = h.settingsPanel
      /\ after.closeAfterSelection = h.closeAfterSelection /\ after.query = h.query
  BY Ranges DEF NoSequence, BeginSequence, HelperRecords, Validators
<1> HIDE DEF after
<1>3. CASE h.closeAfterSelection
  <2>1. helper' = Hidden(after) /\ helper.closeAfterSelection
    BY <1>1, <1>3 DEF SameView
  <2>2. /\ helper'.visible = FALSE /\ helper'.settingsPanel = FALSE /\ helper'.transaction = 0
        /\ helper'.closeAfterSelection = h.closeAfterSelection /\ helper'.query = h.query
    BY <1>2, <2>1, ViewHidden
  <2>3. Window!Withdraw
    BY <2>2, ViewWithdrawn
  <2> QED
    BY <2>1, <2>3 DEF Window!Choose
<1>4. CASE ~h.closeAfterSelection
  <2>1. helper' = after /\ ~helper.closeAfterSelection
    BY <1>1, <1>4 DEF SameView
  <2> QED
    BY <1>2, <2>1 DEF SameView, Window!Choose
<1> QED
  BY <1>3, <1>4

\* The calls but commands.
LEMMA CallInView ==
  ASSUME ViewInv, ExchangeHello \/ ExchangeShow \/ ExchangeHide \/ PeerDisconnected
  PROVE  Window!Show \/ Window!Withdraw \/ UNCHANGED (Window!vars)
<1> DEFINE call == Head(toHelper)
<1>0. Reset(helper) \in HelperRecords
  BY ViewParts, ResetType
<1>1. CASE ExchangeHello
  <2>1. helper' = helper \/ helper' = Rebound(helper, call.from)
    BY <1>1 DEF ExchangeHello
  <2>2. CASE helper' = helper
    BY <2>2, ViewParts, ViewStutters
  <2> HIDE DEF call
  <2>3. CASE helper' = Rebound(helper, call.from) /\ helper.peerOwner = call.from
    <3>1. SameView(helper', helper)
      BY <2>3, ViewParts DEF Rebound, HelperRecords, SameView
    <3> QED
      BY <3>1, ViewStutters
  <2>4. CASE helper' = Rebound(helper, call.from) /\ helper.peerOwner # call.from
    <3>1. helper' = [Reset(helper) EXCEPT !.peerOwner = call.from, !.negotiated = TRUE]
      BY <2>4 DEF Rebound
    <3>2. /\ helper'.visible = Reset(helper).visible
          /\ helper'.settingsPanel = Reset(helper).settingsPanel
          /\ helper'.transaction = Reset(helper).transaction
          /\ helper'.closeAfterSelection = Reset(helper).closeAfterSelection
          /\ helper'.query = Reset(helper).query
      BY <1>0, <3>1 DEF HelperRecords
    <3> QED
      BY <3>2, ViewParts, ViewHidden, ViewWithdrawn
  <2> QED
    BY <2>1, <2>2, <2>3, <2>4
<1>2. CASE ExchangeShow
  <2>1. call \in ToHelper /\ call.kind = "Show"
    BY <1>2, TakesCallType DEF ExchangeShow, ViewInv
  <2>2. call.transaction # 0 /\ call.closeAfterSelection \in BOOLEAN
    BY <2>1 DEF ToHelper, Txns
  <2>3. helper' = helper \/ helper' = Shown(helper, call)
    BY <1>2 DEF ExchangeShow
  <2> HIDE DEF call
  <2>4. CASE helper' = helper
    BY <2>4, ViewParts, ViewStutters
  <2>5. CASE helper' = Shown(helper, call)
    <3>1. /\ helper'.transaction # 0 /\ helper'.visible = TRUE
          /\ helper'.settingsPanel = helper.settingsPanel
          /\ helper'.closeAfterSelection \in BOOLEAN
          /\ helper'.query = IF helper.visible THEN helper.query ELSE 0
      BY <2>2, <2>5, ViewParts DEF Shown, HelperRecords
    <3> QED
      BY <3>1 DEF Window!Show
  <2> QED
    BY <2>3, <2>4, <2>5
<1>3. CASE ExchangeHide
  BY <1>3, ViewParts, ViewHidden, ViewWithdrawn, ViewStutters DEF ExchangeHide
<1>4. CASE PeerDisconnected
  <2>1. helper' = helper \/ helper' = [Reset(helper) EXCEPT !.peerOwner = 0, !.negotiated = FALSE]
    BY <1>4 DEF PeerDisconnected, WithoutPeer
  <2>2. CASE helper' = helper
    BY <2>2, ViewParts, ViewStutters
  <2>3. CASE helper' = [Reset(helper) EXCEPT !.peerOwner = 0, !.negotiated = FALSE]
    <3>1. /\ helper'.visible = Reset(helper).visible
          /\ helper'.settingsPanel = Reset(helper).settingsPanel
          /\ helper'.transaction = Reset(helper).transaction
          /\ helper'.closeAfterSelection = Reset(helper).closeAfterSelection
          /\ helper'.query = Reset(helper).query
      BY <1>0, <2>3 DEF HelperRecords
    <3> QED
      BY <3>1, ViewParts, ViewHidden, ViewWithdrawn
  <2> QED
    BY <2>1, <2>2, <2>3
<1> QED
  BY <1>1, <1>2, <1>3, <1>4

LEMMA CommandInView ==
  ASSUME ViewInv, ExchangeCommand
  PROVE  \/ Window!Search \/ Window!Settings \/ Window!Withdraw \/ Window!Choose
         \/ UNCHANGED (Window!vars)
<1> DEFINE call == Head(toHelper)
           h == Counted(call)
<1>1. CASE UNCHANGED <<helper, toAddon, chosen, escaped>>
  BY <1>1, ViewParts, ViewStutters
<1>2. CASE Handles(call) /\ Handled(call)
  <2>1. call \in ToHelper /\ call.kind = "Command"
    BY TakesCallType DEF ExchangeCommand, ViewInv
  <2>2. call.sequence \in CommandNumbers /\ call.text \in Searches
    BY <2>1 DEF ToHelper
  <2>3. h \in HelperRecords /\ SameView(h, helper) /\ h.transaction = helper.transaction
    BY <2>2, ViewParts DEF Counted, HelperRecords, Validators, SameView
  <2>4. helper.transaction # 0
    BY <1>2 DEF Handles
  <2> HIDE DEF h
  <2>5. CASE call.command = "SearchText"
    <3>1. helper' = [h EXCEPT !.query = call.text]
      BY <1>2, <2>5 DEF Handled, h
    <3> HIDE DEF call
    <3>2. /\ helper'.transaction = h.transaction /\ helper'.visible = h.visible
          /\ helper'.settingsPanel = h.settingsPanel /\ helper'.query = call.text
          /\ helper'.closeAfterSelection = h.closeAfterSelection
      BY <2>3, <3>1 DEF HelperRecords
    <3> QED
      BY <2>2, <2>3, <2>4, <3>2 DEF SameView, Window!Search
  <2>6. CASE call.command = "Cancel"
    <3>1. CancelFromKeyboard(h)
      BY <1>2, <2>6 DEF Handled, h
    <3>2. CASE h.settingsPanel
      <4>1. helper' = [h EXCEPT !.settingsPanel = FALSE]
        BY <3>1, <3>2 DEF CancelFromKeyboard
      <4>2. /\ helper'.transaction = h.transaction /\ helper'.visible = h.visible
            /\ helper'.settingsPanel = FALSE /\ helper'.query = h.query
            /\ helper'.closeAfterSelection = h.closeAfterSelection
        BY <2>3, <4>1 DEF HelperRecords
      <4>3. helper.settingsPanel /\ helper.visible
        BY <2>3, <3>2, ViewParts DEF SameView, PanelShown
      <4> QED
        BY <2>3, <4>2, <4>3 DEF SameView, Window!Settings
    <3>3. CASE ~h.settingsPanel
      BY <2>3, <3>1, <3>3, ViewHidden, ViewWithdrawn DEF CancelFromKeyboard
    <3> QED
      BY <3>2, <3>3
  <2>7. CASE call.command = "Select"
    <3>1. ChooseFrom(h) \/ helper' = h
      BY <1>2, <2>7 DEF Handled, h
    <3> QED
      BY <2>3, <2>4, <3>1, ChooseInView, ViewStutters
  <2>8. CASE call.command \notin {"SearchText", "Cancel", "Select"}
    <3>1. helper' = h
      BY <1>2, <2>8 DEF Handled, h
    <3> QED
      BY <2>3, <3>1, ViewStutters
  <2> QED
    BY <2>5, <2>6, <2>7, <2>8
<1> QED
  BY <1>1, <1>2 DEF ExchangeCommand

LEMMA ClickInView ==
  ASSUME ViewInv, ClickEmoji \/ ClickSettings
  PROVE  Window!Choose \/ Window!Settings
<1>1. CASE ClickEmoji
  BY <1>1, ViewParts, ChooseInView DEF ClickEmoji
<1>2. CASE ClickSettings
  <2> DEFINE panel == ~helper.settingsPanel
  <2>1. helper.visible /\ helper' = [helper EXCEPT !.settingsPanel = panel]
    BY <1>2 DEF ClickSettings
  <2> HIDE DEF panel
  <2>2. /\ helper'.transaction = helper.transaction /\ helper'.visible = helper.visible
        /\ helper'.settingsPanel = panel /\ helper'.query = helper.query
        /\ helper'.closeAfterSelection = helper.closeAfterSelection
    BY <2>1, ViewParts DEF HelperRecords
  <2> QED
    BY <2>1, <2>2 DEF Window!Settings, panel
<1> QED
  BY <1>1, <1>2

\* A helper that starts, or is gone, shows nothing and remembers nothing.
LEMMA NewHelperInView ==
  ASSUME NEW up, NEW name, NEW compatible, helper' = NewHelper(up, name, compatible)
  PROVE  Window!Restart
BY DEF NewHelper, Window!Restart, Window!Init

LEMMA ViewStep ==
  ASSUME ViewInv, [Next]_vars
  PROVE  [Window!Next]_(Window!vars)
<1>1. ASSUME UNCHANGED helper PROVE UNCHANGED (Window!vars)
  BY <1>1, ViewParts, ViewStutters
<1>2. CASE UNCHANGED vars \/ AddonHears \/ Timeout \/ ClientEvents
  BY <1>1, <1>2 DEF vars, helperVars, AddonHears, Timeout, ClientEvents
<1>3. CASE HelperHears
  BY <1>3, CallInView, CommandInView DEF HelperHears, Window!Next
<1>4. CASE User
  <2>1. UNCHANGED helper \/ ClickEmoji \/ ClickSettings
    BY <1>4 DEF User, helperVars
  <2> QED
    BY <1>1, <2>1, ClickInView DEF Window!Next
<1>5. CASE StartHelper \/ HelperDies
  BY <1>5, NewHelperInView DEF StartHelper, HelperDies, Window!Next
<1>6. CASE StartFails \/ RestartAddon
  BY <1>1, <1>6 DEF StartFails, RestartAddon
<1> QED
  BY <1>2, <1>3, <1>4, <1>5, <1>6 DEF Next

LEMMA PanelStep ==
  ASSUME PanelShown, [Window!Next]_(Window!vars)
  PROVE  PanelShown'
<1>1. CASE UNCHANGED (Window!vars)
  BY <1>1 DEF PanelShown, Window!vars
<1>2. CASE Window!Show \/ Window!Withdraw \/ Window!Search \/ Window!Settings
  BY <1>2 DEF PanelShown, Window!Show, Window!Withdraw, Window!Search, Window!Settings
<1>3. CASE Window!Choose \/ Window!Restart
  BY <1>3 DEF PanelShown, Window!Choose, Window!Withdraw, Window!Restart, Window!Init
<1> QED
  BY <1>1, <1>2, <1>3 DEF Window!Next

LEMMA ViewInit == Init => Window!Init /\ PanelShown
BY DEF Init, HelperInit, NewHelper, Window!Init, PanelShown

\* The helper shows its palette as SessionWindow says: in any order of calls, clicks and
\* losses, whichever process dies.
THEOREM HelperShowsAsAgreed == Spec => HelperKeepsToSession
<1>1. ViewInv /\ [Next]_vars => [Window!Next]_(Window!vars)
  BY ViewStep
<1>2. ViewInv /\ [Next]_vars => ViewInv'
  BY TypeStep, ViewStep, PanelStep DEF ViewInv
<1>3. Init => ViewInv /\ Window!Init
  BY TypeInit, ViewInit DEF ViewInv
<1> QED
  BY <1>1, <1>2, <1>3, PTL DEF Spec, HelperKeepsToSession, Window!Spec
=============================================================================
