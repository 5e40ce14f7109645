------------------------------ MODULE KeyRouting ------------------------------
(* What the addon makes of a key: the shortcut matcher                         *)
(* (src/addon/shortcut_matcher.cpp), which finds the physical keys of its      *)
(* shortcuts in the layout of the input-method group, the router of the keys   *)
(* of an active transaction (src/addon/key_router.cpp), and the key watcher    *)
(* and the settings of src/addon/emoji_palette_addon.cpp that use them. A      *)
(* transaction is here the context it was opened in: FcitxAddon has the rest.  *)
EXTENDS ProtocolCodec

CONSTANTS
  Codes,       \* physical keys
  Modifiers,   \* those whose holding is a state of the other keys
  Keymaps,     \* layouts that compile: the symbols of each key, level by level
  Uppercase,   \* the capital of each letter
  Latin,       \* the letters Fcitx makes capital in a chord
  Unicode,     \* the code point of each symbol that has one
  Groups,      \* default layouts a group may have, as the parts of layout-variant
  Keyboards,   \* layouts in which keys may arrive, whatever the group's default
  Triggers,    \* shortcut lists the user may configure
  Contexts, NoContext

US == [name |-> "us", variant |-> <<>>]
NoCode == "none"
NoSymbol == "none"
Chord(states, sym) == [sym |-> sym, states |-> states, code |-> NoCode]

NoGroup == <<"none">>   \* no input-method group yet

SplitLayout(parts) ==
  IF parts = <<>> THEN US ELSE [name |-> Head(parts), variant |-> Tail(parts)]

\* A variant of "us" that does not compile is left out: there is no layout to find
\* keys in, and the matcher keeps no physical shortcut.
ASSUME RoutingAssumption ==
  /\ US \in DOMAIN Keymaps /\ Keyboards \subseteq DOMAIN Keymaps
  /\ Modifiers \subseteq Codes /\ NoCode \notin Codes
  /\ Latin \subseteq DOMAIN Uppercase
  /\ \A sym \in DOMAIN Unicode : Unicode[sym] \in Nat /\ IsScalar(Unicode[sym])
  /\ NoContext \notin Contexts /\ NoGroup \notin Groups
  /\ \A parts \in Groups :
       SplitLayout(parts) \in DOMAIN Keymaps \/ SplitLayout(parts).name # "us"

VARIABLES
  trigger, favorite, variants, \* the matchers of the addon and of its router
  group,    \* the current group's default layout; NoGroup before there is one
  config,   \* triggerKey
  origin,   \* the context of the active transaction
  search,   \* search_
  focus,    \* the context that gets the keys
  down,     \* keys that are held
  seen,     \* history: keys the focused client takes for held
  held      \* history: keys it saw pressed that were held when a palette opened

matchers == <<trigger, favorite, variants>>
clients  == <<focus, seen, held>>
vars     == <<matchers, group, config, origin, search, down, clients>>

Active  == origin # NoContext

(***************************************************************************)
(* Keys, as Fcitx presents them: the symbol in the layout they arrive in,  *)
(* the modifiers held before, the physical key.                            *)
(***************************************************************************)

KeyOf(code, states, keyboard) ==
  LET levels == Keymaps[keyboard][code]
  IN [sym    |-> IF "Shift" \in states /\ Len(levels) > 1 THEN levels[2] ELSE levels[1],
      states |-> states, code |-> code]

\* Key::normalize: letters of a chord are capital; Shift that is used up by the
\* symbol goes, except in a chord with a letter.
Normalized(key) ==
  LET chord == key.states \notin {{}, {"Shift"}}
      sym   == IF chord /\ key.sym \in Latin THEN Uppercase[key.sym] ELSE key.sym
      letter == sym \in Latin \cup {Uppercase[l] : l \in Latin}
  IN [key EXCEPT !.sym = sym,
                 !.states = IF sym \in DOMAIN Unicode /\ ~(chord /\ letter)
                            THEN @ \ {"Shift"} ELSE @]

\* Key::checkKeyList
Checks(key, shortcuts) ==
  \E s \in shortcuts :
    /\ key.states = s.states
    /\ IF s.code # NoCode THEN key.code = s.code ELSE key.sym = s.sym

(***************************************************************************)
(* ShortcutMatcher.                                                        *)
(***************************************************************************)

Cased(sym) == sym \in DOMAIN Uppercase \/ \E l \in DOMAIN Uppercase : sym = Uppercase[l]

\* The keys that have the symbol on some level of a layout.
Carriers(layout, sym) ==
  IF layout \notin DOMAIN Keymaps THEN {}
  ELSE {c \in Codes : \E i \in DOMAIN Keymaps[layout][c] : Keymaps[layout][c][i] = sym}

\* appendKeycodes: a letter counts with and without Shift.
Physical(codes, s) ==
  [sym : {NoSymbol}, code : codes,
   states : {s.states} \cup (IF Cased(s.sym) THEN {s.states \cup {"Shift"}} ELSE {})]

\* One shortcut: the keys of the layout, or else those of the US layout, which a
\* variant of it does not fall back on.
PhysicalShortcuts(layout, s) ==
  IF s.code # NoCode THEN {s}
  ELSE IF Carriers(layout, s.sym) # {} \/ layout.name = "us"
  THEN Physical(Carriers(layout, s.sym), s)
  ELSE Physical(Carriers(US, s.sym), s)

\* rebuildPhysicalShortcuts, which gives up when no keymap compiles.
Rebuilt(m) ==
  [m EXCEPT !.physical =
     IF m.layout \in DOMAIN Keymaps \/ m.layout.name # "us"
     THEN UNION {PhysicalShortcuts(m.layout, s) : s \in m.shortcuts} ELSE {}]

\* A mutant of WithLayout: the variant is not compared.
WithLayoutName(m, parts) ==
  IF m.layout.name = SplitLayout(parts).name THEN m
  ELSE Rebuilt([m EXCEPT !.layout = SplitLayout(parts)])

\* setLayout and setShortcuts. A layout that is set already is not searched again.
WithLayout(m, parts) ==
  IF m.layout = SplitLayout(parts) THEN m
  ELSE Rebuilt([m EXCEPT !.layout = SplitLayout(parts)])
WithShortcuts(m, shortcuts) == Rebuilt([m EXCEPT !.shortcuts = shortcuts])

Matches(m, key) == Checks(Normalized(key), m.shortcuts) \/ Checks(key, m.physical)

NewMatcher(shortcuts) ==
  WithShortcuts([layout |-> US, shortcuts |-> {}, physical |-> {}], shortcuts)

FavoriteChord == {Chord({"Control"}, "D")}
VariantsChord == {Chord({"Control"}, "V")}

(***************************************************************************)
(* ActiveKeyRouter.                                                        *)
(***************************************************************************)

Navigation == {"Left", "Right", "Up", "Down", "Home", "End", "Page_Up", "Page_Down", "Tab"}

IsPrintable(key) ==
  /\ key.states = {} /\ key.sym \in DOMAIN Unicode
  /\ Unicode[key.sym] >= Space /\ Unicode[key.sym] \notin 127 .. 159

\* A mutant of WithoutLast: one byte instead of one character.
WithoutByte(text) == IF text = <<>> THEN text ELSE Front(text)

\* Backspace takes one character off, whatever its length in bytes.
WithoutLast(text) ==
  IF Decode(text) \in {Nothing, <<>>} THEN text ELSE Encode(Front(Decode(text)))

\* A mutant of Fits: the limit is overlooked.
FitsAlways(text, sym) == TRUE

Fits(text, sym) == Len(text) + Len(CharacterOf(Unicode[sym])) <= MaximumSearchSize
With(text, sym) == text \o CharacterOf(Unicode[sym])

Ignored       == [action |-> "Ignore"]
Commanded(k)  == [action |-> "Command", command |-> k]
Searched(t)   == [action |-> "Search", text |-> t]

\* route, for a press; a release is ignored.
Route(key, text) ==
  LET k == Normalized(key)
      Plain(syms) == k.states = {} /\ k.sym \in syms
  IN IF Plain({"Escape"}) THEN Commanded("Cancel")
     ELSE IF Plain({"Return", "KP_Enter", "space"}) THEN Commanded("Select")
     ELSE IF Matches(favorite, key) THEN Commanded("ToggleFavorite")
     ELSE IF Matches(variants, key) THEN Commanded("ShowVariants")
     ELSE IF Plain(Navigation) \/ (k.sym = "Tab" /\ k.states = {"Shift"}) THEN Commanded("Move")
     ELSE IF Plain({"BackSpace"}) THEN Searched(WithoutLast(text))
     ELSE IF IsPrintable(k) /\ Fits(text, k.sym) THEN Searched(With(text, k.sym))
     ELSE Ignored

(***************************************************************************)
(* The addon.                                                              *)
(***************************************************************************)

Init ==
  /\ config \in Triggers
  /\ trigger = NewMatcher(config)
  /\ favorite = NewMatcher(FavoriteChord) /\ variants = NewMatcher(VariantsChord)
  /\ group = NoGroup
  /\ origin = NoContext /\ search = <<>>
  /\ focus \in Contexts /\ down = {} /\ seen = {} /\ held = {}

\* reloadLayout, for the trigger matcher m; there may be no group yet.
ReloadLayout(m, current) ==
  IF current = NoGroup THEN trigger' = m /\ UNCHANGED <<favorite, variants>>
  ELSE /\ trigger'  = WithLayout(m, current)
       /\ favorite' = WithLayout(favorite, current)
       /\ variants' = WithLayout(variants, current)

\* InputMethodGroupChanged
GroupChanged ==
  /\ group' \in Groups
  /\ ReloadLayout(trigger, group')
  /\ UNCHANGED <<config, origin, search, down, clients>>

\* setConfig and reloadConfig, reloadShortcuts
Configure ==
  /\ config' \in Triggers
  /\ ReloadLayout(WithShortcuts(trigger, config'), group)
  /\ UNCHANGED <<group, origin, search, down, clients>>

\* The end of a transaction: cancel clears the search text, a commit does not.
Ended == origin' = NoContext /\ search' \in {<<>>, search}

\* A frame of the helper, a reset, the end of the connection.
TransactionEnds ==
  /\ Active /\ Ended
  /\ UNCHANGED <<matchers, group, config, down, clients>>

\* The keyboard goes to another context; losing it ends the transaction. A client
\* forgets its keys with the focus.
FocusMoves ==
  /\ focus' \in Contexts \ {focus} /\ seen' = {} /\ held' = {}
  /\ IF focus = origin THEN origin' = NoContext /\ search' = <<>> ELSE UNCHANGED <<origin, search>>
  /\ UNCHANGED <<matchers, group, config, down>>

\* show: a palette for the focused context, unless it cannot be sent.
Opened(pressed) ==
  /\ origin' \in {focus, NoContext} /\ search' = <<>>
  /\ held' = held \cup (seen \cap pressed)
  /\ UNCHANGED seen

\* handleActiveKey of a press: what is routed may fail to be sent.
Routed(key) ==
  LET route == Route(key, search)
  IN /\ \/ /\ search' = IF route.action = "Search" THEN route.text ELSE search
           /\ UNCHANGED origin
        \/ route.action # "Ignore" /\ origin' = NoContext /\ search' = <<>>
     /\ UNCHANGED <<seen, held>>

Delivered(keys) == seen' = keys /\ UNCHANGED <<origin, search, held>>

\* A mutant of Filtered: releases pass.
FiltersPresses(release) == origin = focus /\ ~release

\* Full input isolation: every key of the transaction's context is consumed.
Filtered(release) == origin = focus

\* One ordinary key is down at a time (bound).
Press(code) ==
  /\ code \notin down /\ (code \in Modifiers \/ down \subseteq Modifiers)
  /\ down' = down \cup {code}
  /\ \E keyboard \in Keyboards :
       LET key == KeyOf(code, down \cap Modifiers, keyboard)
       IN IF Filtered(FALSE) THEN Routed(key)
          ELSE IF ~Active /\ Matches(trigger, key) THEN Opened(down')
          ELSE Delivered(seen \cup {code})
  /\ UNCHANGED <<matchers, group, config, focus>>

\* A mutant of Release: a release can open the palette.
ReleaseTriggers(code) ==
  /\ code \in down /\ down' = down \ {code}
  /\ \E keyboard \in Keyboards :
       IF Filtered(TRUE) THEN UNCHANGED <<origin, search, seen, held>>
       ELSE IF ~Active /\ Matches(trigger, KeyOf(code, down \cap Modifiers, keyboard))
            THEN Opened(down')
       ELSE Delivered(seen \ {code})
  /\ UNCHANGED <<matchers, group, config, focus>>

Release(code) ==
  /\ code \in down /\ down' = down \ {code}
  /\ IF Filtered(TRUE) THEN UNCHANGED <<origin, search, seen, held>>
     ELSE Delivered(seen \ {code})
  /\ UNCHANGED <<matchers, group, config, focus>>

Next ==
  \/ GroupChanged \/ Configure \/ TransactionEnds \/ FocusMoves
  \/ \E code \in Codes : Press(code) \/ Release(code)

Spec == Init /\ [][Next]_vars

(***************************************************************************)
(* Properties.                                                             *)
(***************************************************************************)

\* The physical keys a shortcut means in the current group: those that have its
\* symbol, or had it on a US keyboard.
HomeKeys(s) ==
  LET layout == IF group = NoGroup THEN US ELSE SplitLayout(group)
  IN IF s.code # NoCode THEN {s.code}
     ELSE IF Carriers(layout, s.sym) # {} \/ layout.name = "us" THEN Carriers(layout, s.sym)
     ELSE Carriers(US, s.sym)

\* "Configured trigger letters follow their physical key when the active keyboard
\* layout changes" (README.md): whatever was configured and switched before, and in
\* whatever layout the key arrives, it is recognized by the matcher it belongs to.
\* So are the two chords of the router.
ShortcutsFollowKeys ==
  \A keyboard \in Keyboards :
    /\ \A s \in config : \A c \in HomeKeys(s) : Matches(trigger, KeyOf(c, s.states, keyboard))
    /\ \A s \in FavoriteChord : \A c \in HomeKeys(s) :
         Matches(favorite, KeyOf(c, s.states, keyboard))
    /\ \A s \in VariantsChord : \A c \in HomeKeys(s) :
         Matches(variants, KeyOf(c, s.states, keyboard))

\* The client learns of no key while its transaction is active, nor of the one that
\* opened it ("no key reaches the input method or the client application",
\* docs/architecture.md).
InputIsolated ==
  [][focus' = focus /\ (Active \/ origin' # NoContext) => seen' = seen]_vars

\* Consuming releases can leave a client with a key it takes for held, but only one
\* that was held when the palette opened.
StuckOnlyAcrossTrigger == seen \ down \subseteq held

\* Whatever was typed, the addon can send the search text and the helper reads the
\* same text.
SearchCommand ==
  [version |-> ProtocolVersion, type |-> "Command",
   transaction |-> [i \in 1 .. TransactionSize |-> 1], sequence |-> <<0, 0, 0, 1>>,
   kind |-> SearchText, text |-> search]
SearchIsReadable == Parse(Serialize(SearchCommand)) = SearchCommand

\* Backspace takes back exactly what the last key added, in every script.
BackspaceUndoes ==
  \A sym \in DOMAIN Unicode : Fits(search, sym) => WithoutLast(With(search, sym)) = search
=============================================================================
