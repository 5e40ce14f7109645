# A verification of fcitx5-emoji-palette

TLA+ models of the emoji palette for Fcitx5, model-checked with TLC and proved
with TLAPS. Paths are relative to the repository; `A` stands for
`src/addon/emoji_palette_addon.cpp`, `H` for `src/ui/palette_session.cpp`, `W`
for `src/ui/palette_window.cpp`.

## 1. The system

A trigger key in any application opens a small palette window. The palette never
takes the keyboard focus: Fcitx5 keeps receiving the keys, the addon forwards
them to the palette, and the emoji the user picks comes back to the addon, which
commits it into the application. Two processes take part, connected by the D-Bus
session bus:

    application <-- Fcitx5 + addon --(Exchange calls)--> bus --> helper (Qt)
                          <--(replies, Frame signals, NameOwnerChanged)--

| Component | State | Operations | Talks to |
|---|---|---|---|
| Addon (`A`) | tracked context, close-after-selection, search text, command counter, pending Hello, session | trigger key, routed keys, four context events, Hello reply and its time limit, Selected, Cancelled, loss of the helper | controller and session by calls, helper over the bus |
| Selection controller (`src/runtime/selection_controller.cpp`) | transaction, target context | begin, cancel, select | addon, input context (`commitString`) |
| Peer session, command validator, backoff (`src/ipc/session.cpp`) | owner, nonce, state; last command number; current delay | begin, acceptWelcome, ownerLost, negotiationExpired; accept; nextDelay | addon, helper |
| Helper session (`H`, `src/ui/main.cpp`) | peer, transaction, command validator | Exchange of Hello, Show, Command, Hide; peer loss; the two slots of the window's signals | window by direct signals, addon over the bus |
| Palette window (`W`) | visibility, request, search, category, panels, in-memory state | showPalette, hidePalette, handleCommand, clicks, settings | list model, keyboard grid, state store, placement |
| Emoji list model, glyph cache (`src/ui/emoji_list_model.cpp`) | listed records, category, query, coverage cache | setCategory, setSearch, setGlyphProbe, refresh | catalog, window |
| Keyboard grid (`src/core/keyboard.cpp`) | item count, columns, rows, selected index, category | setGrid, setCategory, dispatch | window |
| Popup placement (`src/core/geometry.cpp`) | none | placePopup | window |
| State store (`src/core/state.cpp`) | favorites and recents in memory, the state file | load, save, toggleFavorite, recordUse | window, file system |
| Key router, shortcut matcher (`src/addon/key_router.cpp`, `shortcut_matcher.cpp`) | layout keycodes of the shortcuts | route; setLayout, setShortcuts, matches | addon |
| Protocol codec (`src/ipc/protocol.cpp`) | none | serialize, parse, validators, negotiate | both sides |
| UTF-8, catalog and search, glyph coverage (`src/core/utf8.cpp`, `src/model/catalog.cpp`, `src/core/glyph_coverage.cpp`) | none | decode, encode, fold, normalize; search, score; coverage | many |

### What is hard

- *Interleaving and ordering.* Keys, focus changes, clicks on the palette and
  messages in both directions interleave freely. Each direction is ordered, the
  two are not ordered against each other: every answer may be late.
- *Two ideas of the transaction.* The addon knows its transaction from the trigger
  on, the helper from the Show to the reported choice. Commands, Hide, Selected and
  Cancelled are matched against an idea that may be gone.
- *The handshake.* The first transaction waits for the helper's activation and the
  Hello reply while its keys are already swallowed.
- *Crashes.* The helper may die at any moment and is activated again by the next
  message; Fcitx5 may restart under a running helper.
- *Partial failures.* A frame that cannot be serialized or sent; a context that
  died; an emoji that is not in the addon's catalog; another protocol version.
- *Persistence.* Saving must survive a crash or a power loss at every step.

### What makes each component correct

| Component | Correct when |
|---|---|
| Addon and controller | one commit per transaction, of the emoji chosen in it, into the undisturbed context it was opened for; a transaction does not outlive its helper, its context or its handshake |
| Helper session | acts on its peer's current transaction only; an idle addon leaves no palette on the screen |
| Both | once the messages are handled, the two agree on what is shown |
| State store | a save is atomic and durable; what is loaded is a state that was saved; lists stay bounded, ordered, free of duplicates |
| Keyboard grid | the selected index is inside the grid after every operation |
| Popup placement | where the program places the popup, it stays in the available area, beside the caret when there is room |
| Window and list model | what Select picks is what is highlighted; Escape closes panels before it cancels |
| Key router and matcher | a shortcut keeps its physical keys through every change of settings and layout; no key reaches the client while the palette is open; the search text can always be sent |
| Codec, UTF-8 | parse inverts serialize; what is accepted has one form only; normalizing once is enough |
| Catalog search | an emoji is found by each of its names and keywords, and comes first by its name |
| Glyph coverage | the label of a tile names a code point without which no font draws it |

## 2. The modules

    PeerSession -- PaletteWire --+-- FcitxAddon ----+
                                 +-- PaletteHelper -+-- PaletteProtocol -- MCPaletteProtocol
                                                          |  implements InsertionPromise, and
                                                          |  its helper SessionWindow
                                                          +-- PaletteProtocol_proofs
                                                                +-- PaletteProtocol_agreement

    StateLists --+-- StateStore -- StateStore_proofs
                 +-- PaletteWindow -- MCPaletteWindow, PaletteWindow_proofs
    KeyboardState -+      |  implements SessionWindow

    Recursion_proofs --+-- StateLists_proofs (of StateLists) -- StateStore_proofs, PaletteWindow_proofs
                       +-- KeyRouting_proofs

    PopupPlacement -- MCPopupPlacement, PopupPlacement_proofs

    Utf8 --+-- ProtocolCodec -- KeyRouting --+-- MCKeyRouting -- KeyRouting_proofs
           +-- CatalogSearch ----------------+
           +-- GlyphCoverage ----------------+

`PROJECT.json` maps every definition to the lines it stands for. What follows is
how to read them.

### The protocol

The addon and the helper are event driven and single threaded. One event handler is
therefore one action, with everything it calls: the trigger's `show` contains
`cancel`, `begin` and `sendShow` or `negotiate`; a `Selected` frame contains
`select`, the commit and the follow-up `begin` and `sendShow`. Handlers that share
a callee share an operator on the record of the fields (`CancelFrom`, `SendFrom`,
`Negotiate`, `BeginTransaction`).

| TLA+ | Code |
|---|---|
| `addon` | the addon's members and its controller's: `transaction` and `target` are the controller's, `origin` is `originalContext_`, `pendingCall` the nonce of the call `pendingCall_` waits for |
| `Trigger`, `PressEscape`, `PressReturn`, `PressArrow`, `TypeCharacter`, `PressBackspace` | the key watcher: trigger, then `handleActiveKey` and `sendCommand` |
| `FocusIn`, `FocusOut`, `ResetOrSwitch`, `Destroy` | the watchers of the input contexts; Fcitx changes the focus flag in the same turn |
| `ReceiveReply`, `CallTimesOut` | the callback of `negotiate`, with a reply, a bus error or after five seconds |
| `ReceiveSelected`, `ReceiveCancelled`, `ReceiveOwnerGone` | the Frame handler and the watcher of the helper's name |
| `helper` | `PaletteSession`'s members with the visibility, query and settings panel of its window |
| `ExchangeHello`, `-Show`, `-Command`, `-Hide` | `PaletteSession::exchange` |
| `PeerDisconnected` | the service watcher's slot |
| `ClickEmoji`, `ClickSettings` | what the pointer does while the palette is open |
| `toHelper`, `toAddon` | the bus: one ordered stream for each direction, the daemon's notices in their places |
| `StartHelper`, `StartFails`, `HelperDies`, `RestartAddon` | activation and its failure, the end of either process; external, modelled from how the sources use D-Bus |
| `fresh` | random identifiers, as a counter: they never repeat |
| `commits`, `asked`, `broken`, `chosen`, `escaped` | history, read by properties only |

An emoji is known by the length of the search text it was listed under. That is
enough to tell the answer to one transaction from the answer to another one and to
see a selection that is not in the addon's catalog. Navigation keys are one kind of
command because to the protocol they are alike; what they do is in `PaletteWindow`.

`InsertionPromise` says what the palette promises applications, without messages:
an insertion closes its transaction in the same step, goes to the focused context
the transaction was opened for, and what disturbs that context closes the
transaction in the same step. `PaletteProtocol!KeepsPromise` is the refinement:
`opened <- fresh - 1`, `current <- addon.transaction`, `place <- addon.target`,
`inserted <- commits`, `Emoji <- AddonCatalog`.

### The window

`PaletteWindow` has the record `window` (the members of `PaletteWindow` and
`EmojiListModel`, the lists in memory, the keyboard state), the size of the grid's
viewport, and of the session whether it has a transaction. Each command and each
click is an action; `setCategory`, `updateSearch`, `refreshGrid`, `updateSelection`
and the model's `setCategory`, `setSearch`, `rebuild` are operators composed as the
code composes them. `window.current` is the view's current row, which the code
keeps apart from `window.keyboard.selectedIndex`. `KeyboardState` has the operators
of `src/core/keyboard.cpp`. What the catalog finds for a search is a constant, since
scoring is not the window's; `CatalogSearch` has it.

The protocol has a small window inside its helper, this module a small session beside
its window. `SessionWindow` is what the two must agree on: when the palette is on the
screen, what its last Show asked for, which search text survives, which step closes the
settings panel and which ends the transaction. Both implement it, `PaletteWindow` by
`KeepsToSession` (`visible <- window.visible`, `settings <- window.settings`, ...) and the
helper by `PaletteProtocol!HelperKeepsToSession` (`serving <- helper.transaction # 0`,
`query <- helper.query`, ...). Its `Choose` is wider than either needs to be on its own: a
palette that waits for its next Show can be clicked, and the session drops the choice.

### The store

`save` is one call in the code. In `StateStore` each of its system calls is an
action, because the process may die and the power may fail between any two of them:
`CreateTemporary`, `WriteTemporary`, `SyncTemporary`, `Rename`, `SyncDirectory`, and
`SaveFails` at each. `file` is what the path names now, `durable` the set of what it
may name after a power loss; renaming data that was not flushed adds a torn file to
that set. `StateLists` holds the list operations and the conditions under which
`serialize` and `parseState` accept a state, shared with `PaletteWindow`.

### Placement

`PopupPlacement` has `placePopup` as an operator and its caller's actions: a Show,
another cell size, and screens that come and go. `Position` is `positionFor` on both
platforms (`wayland`). Elsewhere, and on Wayland with a caret, the program places the
window (`Placed`), by `move` or by the layer's margins, which are the same place told from
the screen's corner; that a compositor measures them from there is taken for granted. On
Wayland without a caret the placement is ignored: the layer has a top anchor, a margin of
24 and the active screen, and the compositor does the rest (`Hung`, external). The window
was cut to the screen of the pointer (`cut`), and may hang on another one (`area`).

### Keys

`KeyRouting` is the input side of the addon: what Fcitx5 presents of a key (the symbol
in the layout it arrives in, the modifiers, the physical key), the three
`ShortcutMatcher`s (the trigger's and the router's two chords), `route`, and the
events that reach them.

| TLA+ | Code |
|---|---|
| `trigger`, `favorite`, `variants` | the matchers, each a record of layout, shortcuts and the physical shortcuts found for them |
| `Press`, `Release` | the key watcher: `handleActiveKey` and `route` in a transaction, the trigger without one |
| `GroupChanged`, `Configure` | `reloadLayout`; `setConfig` and `reloadConfig` with `reloadShortcuts` |
| `TransactionEnds`, `FocusMoves` | the ways a transaction ends that no key causes |
| `Keymaps` | the layouts xkbcommon can compile; `Carriers` is the walk over key codes and levels in `appendKeycodes` |
| `seen`, `held` | history: what the focused client takes for held |

A transaction is here the context it belongs to: `FcitxAddon` has the rest of it.
`Routed` sends nothing, but may fail to send, which ends the transaction.

### Conversions

`Utf8`, `ProtocolCodec`, `CatalogSearch` and `GlyphCoverage` have no state: they are the
functions of their source files as operators, over bytes and code points. An envelope
is a record; `Layout` lists the fields of each payload with their encodings, and
`Serialize` and `Parse` walk it in opposite directions, as `writePayload` and
`readPayload` do. `KeyRouting` uses the codec for its search command, and
`MCKeyRouting` gives the conversions a variable, `sample`: before the first key any of
the samples may be taken and dropped again, so that each sample is a state and each
property of a conversion an invariant.

## 3. The runs

| Run | What it asks | Instance |
|---|---|---|
| `protocol_crash` | the reported choice is committed, late messages change nothing, no palette is left over | two transactions, two commands each, two starts of either process |
| `protocol_continue` | one commit per transaction, in the undisturbed context; the refinement | two contexts (symmetric), three transactions, close-after-selection on and off |
| `protocol_faults` | the refinement and the agreement on every error path; a lost helper, an Escape and a handshake end the transaction | two transactions, envelopes that fail, a helper of another version, an emoji the addon does not know, a helper that dies once or does not start |
| `popup_placement` | inside the area, beside the caret | both platforms, one or two screens with a negative origin, 75 carets on and off them, windows smaller and larger than a screen |
| `state_store` | saves are atomic, lists stay ordered and savable | one favorite and two recents at most, three emoji, a clock that may go back, three changes, two starts |
| `palette_window` | list, keyboard, current row and details agree; the window implements `SessionWindow` | four emoji with variants, a fifth that only the lists know, three queries, two changes of the lists |
| `key_routing` | shortcuts keep their keys, no key leaks, the search text can be sent; frames, texts, searches and labels at their boundaries | three letter keys, Escape, Backspace, Control and Shift; US, Dvorak and Russian layouts and one that does not compile; two trigger lists, two contexts (symmetric), two bytes of search text; some 18,000 samples |
| `orphan_palette` | F1 | one context, close-after-selection off |
| `crash_in_handshake` | F2 | two starts of the helper |
| `escape_in_handshake` | F3 | one start of each |
| `escape_with_variants`, `right_click_names_another` | F4, F5 | as `palette_window` |

### Bounds, and why they are enough

- *Transactions* (`MaxTxn` 2 or 3). Every hazard is a confusion of a transaction
  with its predecessor; a third shows a chain of two follow-ups. Identifiers only
  get compared for equality.
- *Commands* (`MaxCommand`, per transaction). Two show a validator that is behind
  and one that is ahead; with one, one key races each other event. The counter's
  32 bits are not reached by keys.
- *Search* (`MaxSearch` 1): two different texts tell two choices apart.
- *Starts*. One death and one new start of each side; two only repeat it.
- *Lists* (`MaximumFavorites` 1 for 500, `MaximumEntries` 2 for 100): a list at its
  limit is reached in the first change.
- *Placement*: screens of ten by eight and less; `TopMargin` is 1 for 24 pixels. The
  windows fit, fill a screen and exceed it, and the carets lie at its edges and beyond.
- *Window*: commands and clicks are not bounded at all; only the changes of the
  lists are. Grids of one and of two columns and up to two rows against lists of
  zero to three items have every boundary of the moves.
- *Keys*: one ordinary key is down at a time besides the modifiers; a second one would
  be routed the same. `MaximumSearchSize` 2 for 256 bytes: with characters of one and
  of two bytes every way to reach the limit happens. `MaximumSelectionSize` 4 for 128,
  the longest single character. The rest of the codec has its own sizes.
- *Samples*: every message type with each bounded field below, at and above its limits;
  of one frame of every type (two of Command) every cut, three continuations and every byte changed to the
  values at the edges of 7 and 8 bits; texts of up to four bytes taken from the
  boundaries of what may follow what; strings of three code points that fold, squeeze
  or do neither; four emoji whose names and keywords match as whole, prefix, word,
  part and subsequence in two locales; eight sequences under 32 fonts.
- *Deadlock* is not checked for the protocol and the store. Identifiers, keys,
  changes and starts are used up there, and what remains is an idle system, which
  also the program may be forever. The other runs do check it.

### Fairness

`FairSpec` of `PaletteProtocol` has weak fairness for `AddonHears` and `HelperHears`
(both event loops keep running and take what has arrived: neither handler blocks),
for `Timeout` (the timer of the pending call, `A` passes it five seconds), and for
`StartHelper \/ StartFails` (the bus daemon answers an activation one way or the
other). Keys, clicks, clients, crashes and restarts are never forced. A bus that
loses messages between living processes is not modelled: D-Bus does not.

## 4. What the runs show

What the documentation says of a selection holds on every instance: no run finds a
second commit, a commit into a disturbed context, an emoji of an earlier transaction
or an old message with an effect, also when both processes restart. The rest is
where the code and its documentation part.

**F1, `orphan_palette`** (`src/ui/palette_session.cpp:89`). With
close-after-selection off, the helper gives up its transaction when it reports a
selection but keeps the window open for the next Show. If the context loses the
focus while the frame is under way, the addon sends a Hide, ignores the selection,
and sends no Show. The helper ignores the Hide, since it has no transaction, and the
palette stays on the screen with nothing to close it but another trigger.
`docs/architecture.md:103` has "Any lifecycle invalidation moves the transaction to
cancelled and sends `Hide`". With close-after-selection on, `protocol_crash`
verifies the same property.

**F2, `crash_in_handshake`** (`A`:144). If the helper dies before it answered the
Hello, the daemon announces the change of ownership before it fails the call. The
watcher drops `pendingCall_`, and with it the only callback that could end the
transaction; the session is not ready, so the watcher does not end it either. The
context's keys are swallowed until its focus changes. `docs/architecture.md:137`:
"Helper absence or crash cancels the active transaction without affecting Fcitx5".
There is a second way to get stuck, without a crash: `callExchange` stores the slot of
`callAsync` unchecked (`A`:305). If the bus does not queue the Hello, the slot is null, no
callback exists, and the transaction stays active beside a living helper; `sendEnvelope`
does look at the outcome (`A`:320). `HandshakeEnds` fails for it as well: with one start of
the helper and `SendOutcomes = {TRUE, FALSE}` the counterexample is a trigger and a `Negotiate`
that is not queued. What `HandshakeEndsAlive` says, in `protocol_faults` where that happens
too, is only of a Hello the bus has taken: its transaction ends or gets a ready session,
unless the helper dies in it.

**F3, `escape_in_handshake`** (`A`:392). Between the trigger and the Show an Escape
is swallowed, sent as a command of a transaction the helper has not been shown, and
dropped there; then the palette opens. `README.md:101`: "Press `Escape` to cancel".
`EscapeEndsShown` verifies that an Escape that finds its palette works.

**F4, `escape_with_variants`** (`W`:208). Escape asks for the settings panel only;
with the variants panel open it cancels the transaction. `docs/architecture.md:61`:
"Escape is forwarded as a logical command so the helper can close an open child
panel first".

**F5, `right_click_names_another`** (`W`:416). A right click moves the view's
current row, which Enter inserts and Ctrl+D marks, but not the keyboard's
selection or the label the window calls "Selected emoji" (`W`:429), which go on
telling of another emoji.

Two statements of the documentation have nothing behind them in the program. No run shows
it, since what they ask for is not there to be modelled:

- `docs/architecture.md:140`: "Version mismatch is a visible, actionable error". A helper
  of another version makes the palette stay away without a message; its refusal cancels
  the transaction like any other (`ReceiveReply`).
- `docs/architecture.md:138`: "Repeated activation is rate-limited". Every trigger of a
  session that is not ready sends a Hello, and `ReconnectBackoff` has no caller.

Met while modelling, contradicting no statement of the repository, so no run:

- A text typed during the handshake or between a selection and its follow-up Show
  reaches the addon's search text but not the helper's. The next search key sends
  the whole text and mends it; a Return before that picks from the other list.
- A helper that stops answering in a ready session is never given up: `Ping`,
  `CancelReason::Timeout` and `negotiationExpired` have no caller in the program.
- From the 501st favorite on `serialize` refuses the state and every save fails, the
  recents' too, until one favorite is removed. `OnlyFavoritesBlock` states that
  nothing else has this effect.
- A state file that cannot be read once counts as empty and is replaced by the next
  save (`Start`); `FindsASavedState` speaks of starts that can read it.
- On Wayland without a caret the window is cut to the height of a screen and then hung 24
  pixels below its upper edge, so it may stand over the lower one by as much; on another
  screen than the one it was cut to, by more. `InsideArea` allows no more than the first.
- With no emoji to show the star button is disabled but keeps the star of the item shown
  before (`Blank`).
- Recents count selections the addon then discards, as the window records the use
  before it reports it.
- `refreshGrid` runs before the first layout and before `positionFor` cuts the
  window down: PageDown may then not move by what is visible.
- The window keeps the size a small screen gave it until the cell size is changed.
- If the clock goes back, a new recent may be the one a full list drops at once.
- The variants panel stays open, with its variants, when the selection moves on.
- The release of a key that was held when the palette opened is consumed, so its client
  takes the key for held. `StuckOnlyAcrossTrigger` states that no other key can stick.
- A shortcut with the symbol of a shifted level is also recognized on that physical key
  without Shift, since its states are copied from the shortcut. A variant of the US
  layout that does not compile loses even the shortcuts given by a key code.
- `serialize` writes a Hello or Welcome whose versions `parse` refuses.
- Return and space select, so several tokens can only be typed as `-` or `_`.
- A token of three bytes matches as a subsequence: two Cyrillic letters do, two Latin
  ones do not. A keyword that matches as one scores below zero and so never counts.
- With several tokens the emoji of exactly that name need not come first.
- After a change of the font the tiles are drawn anew, but the note in the status line
  stays until the selection moves.

## 5. The proofs

TLC checks small instances; the theorems hold for every value of the constants under
the assumptions of the modules (`ContextAssumption`, `BoundAssumption`,
`AddonAssumption`, `HelperAssumption`, `PlacementAssumption`, `StoreAssumption`,
`ListAssumption`, `WindowAssumption`, `RoutingAssumption`, `CodecAssumption`,
`SearchAssumption`): bounds are
naturals, a missing context is not a context, settings are Boolean, areas are not
negative, a US layout compiles, and so does every variant of it that a group has; the
sizes of the protocol fit into 16 bits and a search command fits into a frame, and a
symbol that stands for a character stands for a scalar value; each emoji of the catalog
has names and keywords, as bytes, in the same locales, English among them. What is said of the
samples rests on `SamplesAreProper` too, which TLC evaluates: they are envelopes,
sequences of bytes and sequences of scalar values.

| Theorem | Shows |
|---|---|
| `TypeCorrect` | `Spec => []TypeOK` of the composed protocol |
| `CommitsOnce` | at most one commit for each transaction |
| `ActiveIsFocused` | the context of an active transaction is alive and focused |
| `CommitsInPlace` | a commit goes to the context of the trigger, undisturbed since |
| `Implements` | the protocol implements `InsertionPromise` |
| `CommitsWhatWasChosen` | a commit inserts what the helper reported for its transaction |
| `QuietSystemsAgree` | once all messages are handled, addon and helper agree on what is shown |
| `ClosingLeavesNoPalette` | if palettes close after a selection and every envelope is sent, none stays without a transaction |
| `LateMessagesIgnored` | frames and commands of other transactions change nothing |
| `SavesAreAtomic` | a start finds the confirmed state or one whose save began since |
| `SavesLeaveNoLitter` | no save leaves its temporary file behind |
| `StoreTypeCorrect`, `RecentsStayInOrder` | the lists of the store: their types, their order and their limit |
| `OnlyManyFavoritesBlock` | only too many favorites keep a state from being saved |
| `UsesDropTheLast` | a use removes another emoji only from a full list, and the last ones |
| `KeysAreFollowed` | shortcuts are recognized on their physical keys, for all layouts, settings and groups |
| `NoKeyLeaks`, `OnlyHeldKeysStick` | what the client learns of the keys around a transaction |
| `TextIsWhole`, `BackspaceIsRight` | the search text is whole characters within its limit, and Backspace takes back the last one, for all symbols and limits |
| `SearchIsRead` | the helper reads every search text that can be typed |
| `DecodeOfEncode`, `EncodeOfDecode`, `ShortestForm` | UTF-8: what is encoded is decoded, a text that is accepted is the only encoding of its code points, and so in the hexadecimal digits of the state file |
| `NormalizedSettles` | text of any bytes, once normalized, stays as it is and has no empty token |
| `SentAsRead`, `ReadAsWritten` | frames: every envelope that is sent is read as it was meant, and no other sequence of bytes is read at all |
| `GapIsNamed` | the label of an emoji tile leads to the glyph: for all code points and all fonts, a font that is said to draw an emoji has all its code points, and where one is missing the digits are its number |
| `EnvelopesAreRead`, `FramesAreCanonical`, `TextsAreShortest`, `NormalizedOnce`, `LabelsAreRight` | the same of the samples: the invariants of the run; `SampledIsSpec`: the run is one of `KeyRouting` |
| `PlacedInsideArea`, `PlacedBesideCaret` | placement, for unbounded screens, carets, windows and margins; `PlacementTypeCorrect` has its types |
| `ListStaysCurrent`, `DetailsStayCurrent`, `PanelsStayWithWindow` | the window, for every catalog, lists, results and sizes |
| `WindowTypeCorrect`, `GridStaysMatched`, `KeysLeadBack` | the window's types; the keyboard's and the view's selection are in the list; a key and the key back lead to the same item |
| `NamesLeadToEmoji`, `EmojiAreFound` | search: what an emoji is called or described by finds it, unless others fill the limit, and a name of one word comes first; for every catalog and limit, and for the catalog of the run |
| `WindowKeepsToSession`, `HelperShowsAsAgreed` | the window, and the helper of the protocol, implement `SessionWindow` |
| `OnlyCatalogIsReported` | only emoji of the catalog are reported, whatever the stored lists name |

**Protocol.** `TypeOK` is not inductive: the name of the helper's last start is 0
before the first, and frames carry it. `TypeInv` adds `LiveName` (a helper without a
name is neither up nor visible). For safety, `TransactionInv` adds, besides the
properties themselves: the active transaction is below `fresh` and its context was
not disturbed since (`ActiveUndisturbed`); an idle controller has no target
(`IdleHasNoTarget`); a committed transaction is below `fresh` and is not the active
one (`CommittedAreOver`); nothing was asked for or disturbed under identifiers that
are not yet handed out (`FutureUntouched`). `OneCommitPerTransaction` needs the third:
without it a step could commit under an identifier already used. `CommitsInPlace`
needs the first and the last: a transaction begins under an identifier nothing has
disturbed.

The proof does not go through the actions twice. `Shape` is the disjunction of the six
things a step can do to the fields the invariant reads (keep them, end the
transaction, begin one, commit, disturb a context, restart), one lemma shows that every
action of `Next` has one of these shapes, and the invariant, the action property and
the refinement are proved of the shapes. Nothing but the types of its frames is used
of the helper: the addon's safety does not depend on what the helper sends when.

`CommitsTheChoice` does depend on it, and on the messages in flight: that the helper
never answers one transaction twice. `ChoiceInv` follows a transaction from one process
to the other. Identifiers from `fresh` on and the one a pending Hello was sent for are
untold (`PendingUntold`): no Show names them, the helper does not have them, nothing was
reported for them. A Show in the queue names an undecided transaction the helper does not
have (`WaitingUndecided`), and no second Show names it (`ShowsOnce`); the helper's
transaction is undecided (`ShownUndecided`); a report in flight carries the choice
(`ReportsTheChoice`). If Welcome could be answered twice for one pending call, or a
follow-up sent under the old identifier, a transaction would be shown twice and could be
reported twice with different emoji. `ChoiceShape` plays the part of `Shape`. The losses
of a dying helper and of a restart only take messages away, which every conjunct
survives. `LateMessagesIgnored` follows from the types, action by action.

`QuietAgreement` says nothing while messages are under way; `AgreementInv` says what each
of them is worth. In a ready session (`SessionIsTrue`) either the notice that the owner is
gone is in the addon's queue, or the owner runs, has the addon for its peer and hears only
Show, Command and Hide from it; then the active transaction is `Served`: the last Show in
the queue is for it with the option's present value, or it is on the screen and no Show
follows, or a frame that ends it is on its way back. Around that, `InFlight`: no Hide
names the active transaction, no command of it is ahead of the counter, behind the Hello
of the pending call come commands only, and a Welcome to that call comes from a helper
that still has the addon for its peer, or has the notice of its loss behind it. The last
one is where a helper that dies after its Welcome would leave the addon ready with nobody.
The steps of the addon are taken apart by shape again (`AddonRests`, `AddonShows`,
`AddonGreets`, `AddonCommands`, `AddonWelcomed`, `AddonLosesOwner`, `AddonStartsAnew`);
those of the helper and the bus one by one.

`NoOrphanPalette` is false in general (F1), and true under `AlwaysCloses`: palettes close
after a selection and every envelope is sent. `OrphanInv` adds to `AgreementInv` that each
palette is `Covered`: the transaction on the screen (`Screen`), and that of every Show
the helper will accept (`Coming`), is `Awaited` by the addon in a ready session, or
something behind it in the queue takes it back: another Show, its Hide, or the notice that
the addon is gone. A step that ends the addon's transaction must send its Hide, and it can,
because an awaited transaction has a session to send it in (`Greeted`, `Alive`). The helper
forgets a transaction without closing when the option is off, and then no Hide takes it
back; that is where `Closes` (the option is on while the palette is visible; a helper that
never had a Show has it off) is needed, and where the run of F1 fails. `Distinct` (a
transaction is shown once and answered once) keeps the answer to one transaction from
being taken for the answer to another. Here the steps of the addon have shapes again
(`OrphanShape`), and so have the turns of the helper (`HelperTurn`).

**Store.** `FindsASavedState` needs `SaveInStages`: a save under way has its state
among `tried`; from the sync on the temporary file holds that state, and at the
rename it is flushed. Without the last fact a renamed file might be torn after a power
loss, which is the mutant of `SyncTemporary`.

`SavesLeaveNoLitter` needs only that there is a temporary file between its creation and
the rename and at no other time.

What the lists hold follows from `ListsInv`: every state there is (in memory, being
saved, to be found by a start, in a file) has lists without doubles, recents in order,
no more of them than `MaximumEntries`, and no use counted more often than `changes`. All
of these states are in it because a start brings any of them back to memory; the bound on
the counts is what `TypeOK` says of them.

**Lists.** `Only` (what a loop with a test keeps of a list) and `Sorted` (what the sort
leaves) are the two operators behind the lists. `Only` is a recursive function:
`OnlyProperties` says that the result holds exactly the elements wanted, in their order
and without doubles if there were none. It is proved by induction over the length of
what was walked through, and begins with a proof that the function exists, since a
recursive definition is a `CHOOSE` (`RecursionIsDefined`, for steps given as a function).
`Sorted` is the one sequence in order; `SortedExists` constructs it from the rank of each
entry. `RecordUseProperties` and `ToggleProperties` say what the two operations make of
lists that are in order.

**Placement.** `PlacementInv` is `TypeOK` with both properties; the lemmas are the
arithmetic of the clamp and of the side the popup goes to (`PlacedRight`), and of the middle
of the screen a window hangs in (`HungRight`).

**Keys.** `KeysInv` has two parts. `MatchersCurrent`: each matcher is what a new one with
the current layout and shortcuts would be (`Fresh`), so nothing of what was configured
or switched before is left; the lemmas show that `setLayout` and `setShortcuts` map
fresh matchers to fresh ones, including the early return of `setLayout`. That a fresh
matcher recognizes its keys is then a fact about keymaps. The other part says
that a transaction belongs to the focused context, and that what a client takes for
held is held or was when a palette opened; `InputIsolated` follows action by action.

**Window.** `WindowInv` says that the window is a record of its fields, lists what
is asked for, tells of the keyboard's item, and that a hidden window has no panels and
serves nothing. It is inductive because every operator that changes the lists, the
request or the keyboard ends in `UpdateSelection`, and the ones that change what is
asked for rebuild first; the lemmas say so operator by operator. `PanelsGoWithWindow` needs
`~serving` in a hidden window, or ShowVariants would open a panel there.

`WholeInv` is about the rest of the window: what is asked for is something the model can
list, list and variants are of the catalog (`KnownOnly` and `VariantsOf` are made with
`Only`), and the keyboard is a grid over the list with its selection inside (`GridOf`),
the view's row too. The grid's lemmas are about the moves alone: that each leads from a
grid to a grid, and back if the end of the list did not cut it short. A step that
rebuilds the list leaves a grid over the old one for a moment, which `RefreshGrid` mends
in the same handler; `OnlyCatalogIsReported` needs that the selection is inside the list
when Enter is pressed, after whatever handler ran last.

**Texts.** A text is valid when it is the characters of code points, one after the other.
That is proved from both ends: of one character by arithmetic, for the four lengths it can
have (`WrittenCharacter`: the bytes of a scalar value are read as it; `ReadCharacter`:
bytes that `IsCharacter` accepts are the ones their code point is written with, which is
where longer forms and surrogates fall out), then of all texts by induction over their
length. `Decode` is a recursion from the end of the text whose step looks back up to four
places; `CourseIsDefined` says that such recursions have a value, `DecodeOfEnd` that what
precedes a text does not matter for it, and `DecodeSplits` that a valid text begins with a
character and goes on with a valid text. `EncodeBefore` and `EncodeAfter` are the same for
`Encode`, at the front and at the back: Backspace works at the back.

The search text is then in `SearchTexts`: valid, and not longer than its limit. This is
the inductive invariant `BackspaceUndoes` and `SearchIsReadable` need; of neither alone
could one prove that it lasts, since a text cut inside a character would have a last
character only by accident. A key adds one code point (`WithOneMore`), Backspace removes
one (`WithoutOne`), and taking back what was added gives the text before.

Normalizing leaves a text `Tidy`: folded, with no white space but single spaces between
other characters. `FoldIs` says that what was folded is not folded again, so
`SqueezedStays`; and a space is one byte and no part of any other character
(`SpaceIsOneByte`), so what is true of code points is true of the bytes that are split
into tokens.

**Frames.** One field at a time: `FieldWritten` says that the bytes of every value of a
coding are as many as the reader will take, whatever follows, and are read as that value,
`FieldRead` that the bytes the reader takes are what their value is written as. For
coordinates this is two's complement in four bytes (`U32Is`, `U32Of`). A payload is an
induction over its layout, in both directions. Reading (`FieldsAreRead`): after n fields
the record has exactly the first n, and the bytes left are `Remaining`. Writing
(`Known`): after n fields either a read has failed or what is left and what the fields are
written as make up the payload; that needs that no layout has two fields of one name
(`LayoutsInOrder`). The header is compared byte by byte. The two directions together say
that `Serialize` and `Parse` are inverse on what they accept: two envelopes never share a
frame, and two frames never share an envelope.

The theorems are about every envelope (`IsEnvelope`: the types of protocol.hpp) and every
sequence of bytes, the samples only about what TLC tries; `SampleKnown` connects them.

**Search.** An emoji is found by its own text because each token of a query is a part of
the text (`Beginnings`, `Part`), and a part is found at the beginning of a word of it
(`PartScore`): as the whole, a prefix or after a space, never by the walk alone. So each
token scores at least what the text counts less 250, never below zero (`OwnScore`), the sum
is defined (`TotalScoreIs`) and the emoji is a candidate. The sort is a rank, the number of
better candidates; `Better` is a strict order of matches, so ranks are distinct and are the
numbers from 0 on (`RanksAre`): if the limit was not reached, every candidate came back.
For the first place, a token that is the whole query scores 1000 in an emoji of that name
and less in any other (`DocumentScoreIs`); with several tokens the scores add up and say
no such thing, which is why the property asks for a name of one word.

**Session.** In the window, all that rebuilds, moves, sorts and remembers leaves the fields
`SessionWindow` has as they are (`SameSession`, operator by operator); what is left of each
action is one of its steps or none. The step needs of `WindowInv` that a hidden window serves
nothing. In the helper it needs `PanelShown` (the settings panel is open in a visible palette
only), without which a Show would bring back a panel or a click would close one that nobody
sees; `SameView` plays the part of `SameSession`.

**Induction over data.** The library's induction theorems take an operator for the
property, which these provers cannot instantiate. `Recursion_proofs` says the same with
sets: a set that holds 0 and the successor of each of its numbers holds all of them
(`Induction`, `InductionUpTo`, `CompleteInduction`, all from `Smallest`), and the property
is the set of the numbers that have it. That a recursive function exists is proved for
steps that look one place back (`RecursionIsDefined`) or at all before (`CourseIsDefined`).

**Only model-checked**: the liveness properties and what is ENABLED (TLAPS 1.4 has no
proof rules for fairness that apply here); that the violations of F1 to F5 are reached.
Every invariant and action property that a passing run checks is also a theorem. In
`protocol_crash` the agreement of a quiet system is left to its theorem.

## 6. What is not modelled

- *Data*: the lines of the state file (its fields, in hexadecimal, are in `Utf8`),
  strings in the protocol and the window, where only their identity counts, locales and
  caret rectangles in the protocol. Which error a rejected frame gets: no caller looks.
- *Fcitx5, xkbcommon, D-Bus, Qt and the file system* are modelled from their use.
- *Integers* in the placement are unbounded; the code's 32-bit sums stay far from
  their limits on real screens.
- *The window's painting, texts, tooltips, fonts and cell sizes*, the migration and
  storing of its settings, the other attributes of the Wayland layer (keyboard, zone,
  scope).
- *Frames the addon cannot parse* (`A`:329-338). The owner of the session is the helper,
  which sends what `serialize` wrote, and `parse` reads that (`SentAsRead`). A null glyph
  probe (`src/core/glyph_coverage.cpp:29`): `setGlyphProbe` replaces one.
- *The two glyph caches*: both are dropped whole when the probe is replaced, and
  memoize `GlyphCoverage` otherwise.
- *The session's Ping* and the peer session's expiry and backoff, which nothing calls.
- *Build, packaging, translations, generated tables and the tools that make them.*

## 7. Plan

Done: protocol with refinement and proofs, window with list model and keyboard, store,
placement, keys, codec, text, search and glyph coverage, and what window and session owe
each other. What is left, in the order of
its weight:

1. `PeerSession` as a machine of its own (negotiationExpired with wrapping times,
   `ReconnectBackoff`), once the program calls what only its tests call today.
2. The lines of the state file: what `serialize` writes `parseState` reads back.
