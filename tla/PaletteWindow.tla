---------------------------- MODULE PaletteWindow -----------------------------
(* The palette's window (src/ui/palette_window.cpp) with its list model        *)
(* (src/ui/emoji_list_model.cpp), keyboard state and lists. Commands of the    *)
(* session and clicks run on the one Qt thread, so each handler is one action; *)
(* a handler that calls others is composed of operators on the record of the   *)
(* window's fields. Of the session (src/ui/palette_session.cpp) only whether   *)
(* it has a transaction is kept: it passes commands on only then. One locale.  *)
EXTENDS Integers, StateLists, KeyboardState

CONSTANTS
  Catalog,      \* the catalog: records of sequence, category and base, 0 for none
  Categories,   \* the buttons, in order; "RecentlyUsed" and "Favorites" among them
  FirstCategory,\* index of the button that is pressed at first
  Queries,      \* search texts; NoQuery is the empty one
  NoQuery,
  Results,      \* what the catalog finds for each other query
  Views,        \* sizes the grid has in a laid out window, in columns and rows
  Unlaid,       \* its size in a window that was never shown
  StoredStates, \* states the state file may hold
  CloseSettings,\* values of close-after-selection a Show brings
  Times,        \* times the clock may show, in any order
  MaxChanges    \* bound: favorites toggled and emoji used

InCatalog(e)  == \E i \in DOMAIN Catalog : Catalog[i].sequence = e
SequencesOf(records) == [i \in DOMAIN records |-> records[i].sequence]

Entries == [sequence : Sequences, useCount : Nat \ {0}, lastUsed : Nat]

Sizes == [columns : Nat, rows : Nat]

ASSUME WindowAssumption ==
  /\ Catalog \in Seq([sequence : Sequences, category : Range(Categories),
                      base : Sequences \cup {0}])
  /\ 0 \notin Sequences /\ Distinct(SequencesOf(Catalog))
  /\ Categories \in Seq(Range(Categories))
  /\ FirstCategory \in 0 .. Len(Categories) - 1
  /\ NoQuery \in Queries
  /\ Results \in [Queries \ {NoQuery} -> Seq(Range(SequencesOf(Catalog)))]
  /\ Views \subseteq Sizes /\ Unlaid \in Sizes
  /\ \A s \in StoredStates : s \in Lists(Entries) /\ Serializable(s)
  /\ CloseSettings \subseteq BOOLEAN /\ Times \subseteq Nat /\ MaxChanges \in Nat

VARIABLES
  window,   \* the fields of the window and its model, see IsWindow
  view,     \* the size of the grid's viewport
  serving,  \* the session has a transaction
  signal,   \* what the last step told the session
  changes   \* the bounded counter

vars == <<window, view, serving, signal, changes>>

NoRow     == -1
NoDetails == [names |-> 0, star |-> FALSE, varies |-> FALSE]
NoSignal     == [kind |-> "none"]
Cancellation == [kind |-> "cancelled"]
Selection(e) == [kind |-> "selected", sequence |-> e]

(***************************************************************************)
(* The catalog and the list model.                                         *)
(***************************************************************************)

RecordOf(e) == CHOOSE r \in Range(Catalog) : r.sequence = e
BaseOf(e)   == IF RecordOf(e).base = 0 THEN e ELSE RecordOf(e).base

\* A mutant of VariantsOf: the catalog is not asked for the base.
VariantsUnasked(e) ==
  <<BaseOf(e)>> \o SequencesOf(Only(Catalog, {r \in Range(Catalog) : r.base = BaseOf(e)}))

\* variantsFor: the base itself, then what derives from it.
VariantsOf(e) ==
  (IF InCatalog(BaseOf(e)) THEN <<BaseOf(e)>> ELSE <<>>)
    \o SequencesOf(Only(Catalog, {r \in Range(Catalog) : r.base = BaseOf(e)}))

\* The lists may name emoji of another version's catalog.
KnownOnly(sequences) == Only(sequences, Range(SequencesOf(Catalog)))

\* rebuild: what the model lists for a search text, or for a category.
ListingOf(query, category, lists) ==
  IF query # NoQuery THEN Results[query]
  ELSE CASE category = "RecentlyUsed" -> KnownOnly(SequencesOf(lists.recents))
         [] category = "Favorites"    -> KnownOnly(lists.favorites)
         [] OTHER -> SequencesOf(Only(Catalog, {r \in Range(Catalog) : r.category = category}))

Listing(w) == ListingOf(w.query, Categories[w.category + 1], w.lists)

\* The view forgets its current row when its model is reset.
Rebuilt(w) == [w EXCEPT !.listed = Listing(w), !.current = NoRow]

\* EmojiListModel::setCategory
InModelCategory(w, index) ==
  IF w.category = index /\ w.query = NoQuery THEN w
  ELSE Rebuilt([w EXCEPT !.category = index])

\* EmojiListModel::setSearch
WithSearch(w, query) ==
  IF w.query = query THEN w ELSE Rebuilt([w EXCEPT !.query = query])

(***************************************************************************)
(* The window.                                                             *)
(***************************************************************************)

IsFavorite(w, e) == Contains(w.lists.favorites, e)

\* What the status line and the two buttons show for an item.
DetailsOf(w, e) == [names |-> e, star |-> IsFavorite(w, e), varies |-> Len(VariantsOf(e)) > 1]

ItemAt(w, row) == w.listed[row + 1]

\* What they show without an item: the buttons are disabled, but the star keeps the face
\* it had for the item shown before.
Blank(details) == [names |-> 0, star |-> details.star, varies |-> FALSE]

\* updateSelection: the view and the details follow the keyboard.
UpdateSelection(w) ==
  IF w.listed = <<>> THEN [w EXCEPT !.current = NoRow, !.details = Blank(w.details)]
  ELSE [w EXCEPT !.current = w.keyboard.selectedIndex,
                 !.details = DetailsOf(w, ItemAt(w, w.keyboard.selectedIndex))]

\* refreshGrid measures the viewport as it is at that moment.
RefreshGrid(w, size, reset) ==
  LET k == Resized(IF reset THEN NewGrid ELSE w.keyboard, Len(w.listed), size.columns, size.rows)
  IN UpdateSelection([w EXCEPT !.keyboard = InCategory(k, w.category, Len(Categories))])

SetCategory(w, index)   == RefreshGrid(InModelCategory(w, index), view, TRUE)
UpdateSearch(w, query)  == RefreshGrid(WithSearch(w, query), view, TRUE)

\* A mutant of Hidden: the variants wait for the next time.
HiddenLeavingVariants(w) == [w EXCEPT !.visible = FALSE, !.settings = FALSE]

\* hidePalette
Hidden(w) == [w EXCEPT !.visible = FALSE, !.settings = FALSE, !.variants = <<>>]

\* A mutant of Toggled: the keyboard does not hear of the new list.
ToggledInModel(w) ==
  IF w.current = NoRow THEN w
  ELSE Rebuilt([w EXCEPT !.lists = ToggleFavorite(@, ItemAt(w, w.current))])

\* toggleCurrentFavorite
Toggled(w) ==
  IF w.current = NoRow THEN w
  ELSE RefreshGrid(Rebuilt([w EXCEPT !.lists = ToggleFavorite(@, ItemAt(w, w.current))]),
                   view, FALSE)

\* showCurrentVariants: an emoji without variants closes the panel.
ShowVariants(w) ==
  IF w.current = NoRow THEN w
  ELSE LET variants == VariantsOf(ItemAt(w, w.current))
       IN [w EXCEPT !.variants = IF Len(variants) > 1 THEN variants ELSE <<>>]

\* A mutant of Remembered: the list keeps the old recents.
RememberedUnseen(w, e, now) ==
  RefreshGrid([w EXCEPT !.lists = RecordUse(@, e, now)], view, FALSE)

\* What chooseSequence does before it tells the session.
Remembered(w, e, now) ==
  RefreshGrid(Rebuilt([w EXCEPT !.lists = RecordUse(@, e, now)]), view, FALSE)

\* chooseSequence. The session gives up its transaction with the selection.
Choose(w, e) ==
  /\ changes < MaxChanges /\ changes' = changes + 1
  /\ \E now \in Times :
       LET chosen == Remembered(w, e, now)
       IN window' = IF w.closes THEN Hidden(chosen) ELSE chosen
  /\ signal' = Selection(e) /\ serving' = FALSE
  /\ UNCHANGED view

NewWindow(lists) ==
  LET w == [visible |-> FALSE, settings |-> FALSE, variants |-> <<>>, closes |-> FALSE,
            category |-> FirstCategory, query |-> NoQuery, lists |-> lists,
            listed |-> <<>>, current |-> NoRow, details |-> NoDetails, keyboard |-> NewGrid]
  IN RefreshGrid(Rebuilt(w), Unlaid, TRUE)

Init ==
  /\ \E lists \in StoredStates : window = NewWindow(lists)
  /\ view = Unlaid /\ serving = FALSE /\ signal = NoSignal /\ changes = 0

Silent     == signal' = NoSignal
OnlyWindow == Silent /\ UNCHANGED <<view, serving, changes>>

(***************************************************************************)
(* The session's calls.                                                    *)
(***************************************************************************)

\* A mutant of ShowPalette: an open palette forgets what was typed.
ShowAfresh ==
  /\ \E closes \in CloseSettings :
       window' = [UpdateSearch([window EXCEPT !.closes = closes], NoQuery) EXCEPT !.visible = TRUE]
  /\ view' \in Views
  /\ serving' = TRUE /\ Silent /\ UNCHANGED changes

\* showPalette: the grid is measured before the window is placed and laid out.
ShowPalette ==
  /\ \E closes \in CloseSettings :
       LET w == [window EXCEPT !.closes = closes]
       IN window' = [(IF w.visible THEN w ELSE UpdateSearch(w, NoQuery)) EXCEPT !.visible = TRUE]
  /\ view' \in Views
  /\ serving' = TRUE /\ Silent /\ UNCHANGED changes

\* The session's reset, for a Hide or a lost peer.
HidePalette ==
  /\ window.visible
  /\ window' = Hidden(window) /\ serving' = FALSE
  /\ Silent /\ UNCHANGED <<view, changes>>

CommandSearchText ==
  /\ serving
  /\ \E query \in Queries : window' = UpdateSearch(window, query)
  /\ OnlyWindow

\* Escape: only the settings panel is asked for.
CommandCancel ==
  /\ serving
  /\ IF window.settings
     THEN window' = [window EXCEPT !.settings = FALSE] /\ OnlyWindow
     ELSE /\ window' = Hidden(window) /\ serving' = FALSE
          /\ signal' = Cancellation /\ UNCHANGED <<view, changes>>

\* A mutant of Selected: the keyboard's item is only highlighted.
MovedOnly(w, k) == [w EXCEPT !.keyboard = k, !.current = k.selectedIndex]

\* The selection after a move that led somewhere.
Selected(w, k) == UpdateSelection([w EXCEPT !.keyboard = k])

CommandMove ==
  /\ serving
  /\ \E move \in Moves :
       LET k == Moved(window.keyboard, move)
       IN window' = IF k = window.keyboard THEN window ELSE Selected(window, k)
  /\ OnlyWindow

CommandTurn ==
  /\ serving
  /\ \E turn \in Turns :
       LET k == Turned(window.keyboard, turn)
       IN window' = IF window.keyboard.categoryCount <= 1 THEN window
                    ELSE SetCategory([window EXCEPT !.keyboard = k], k.categoryIndex)
  /\ OnlyWindow

\* activateCurrent chooses what the view has as its current row.
CommandSelect ==
  /\ serving
  /\ IF window.keyboard.itemCount = 0 \/ window.current = NoRow
     THEN UNCHANGED window /\ OnlyWindow
     ELSE Choose(window, ItemAt(window, window.current))

ToggleCurrent ==
  /\ changes < MaxChanges /\ changes' = changes + 1
  /\ window' = Toggled(window)
  /\ Silent /\ UNCHANGED <<view, serving>>

CommandToggleFavorite == serving /\ ToggleCurrent

CommandShowVariants == serving /\ window' = ShowVariants(window) /\ OnlyWindow

(***************************************************************************)
(* Clicks. A press outside an open settings panel only closes it.          *)
(***************************************************************************)

MayClick == window.visible /\ ~window.settings

ClickItem(row) ==
  /\ MayClick /\ row < Len(window.listed)
  /\ Choose([window EXCEPT !.current = row], ItemAt(window, row))

\* The menu event comes whether or not the press closed the settings panel. Only
\* the view's current row moves.
RightClickItem(row) ==
  /\ window.visible /\ row < Len(window.listed)
  /\ window' = ShowVariants([window EXCEPT !.current = row, !.settings = FALSE])
  /\ OnlyWindow

ClickVariant ==
  /\ MayClick
  /\ \E i \in DOMAIN window.variants : Choose(window, window.variants[i])

ClickCategory(index) ==
  /\ MayClick /\ window' = SetCategory(window, index) /\ OnlyWindow

\* The two buttons are enabled with the details.
ClickFavorite == MayClick /\ window.details.names # 0 /\ ToggleCurrent
ClickVariants ==
  /\ MayClick /\ window.details.varies
  /\ window' = ShowVariants(window) /\ OnlyWindow

ClickSettings ==
  /\ window.visible
  /\ window' = [window EXCEPT !.settings = ~@] /\ OnlyWindow

\* applyCellSize: the window is laid out anew before the grid is measured.
ClickSize ==
  /\ window.visible /\ window.settings
  /\ view' \in Views
  /\ window' = RefreshGrid(window, view', FALSE)
  /\ Silent /\ UNCHANGED <<serving, changes>>

\* Panels that open and close and the screen's limits resize the grid.
LaidOut ==
  /\ window.visible
  /\ view' \in Views
  /\ Silent /\ UNCHANGED <<window, serving, changes>>

Rows == 0 .. Len(Catalog) - 1

Next ==
  \/ ShowPalette \/ HidePalette
  \/ CommandSearchText \/ CommandCancel \/ CommandMove \/ CommandTurn \/ CommandSelect
  \/ CommandToggleFavorite \/ CommandShowVariants
  \/ \E row \in Rows : ClickItem(row) \/ RightClickItem(row)
  \/ \E index \in 0 .. Len(Categories) - 1 : ClickCategory(index)
  \/ ClickVariant \/ ClickFavorite \/ ClickVariants \/ ClickSettings \/ ClickSize \/ LaidOut

Spec == Init /\ [][Next]_vars

(***************************************************************************)
(* Properties.                                                             *)
(***************************************************************************)

ItemDetails == [names : Sequences \cup {0}, star : BOOLEAN, varies : BOOLEAN]

IsWindow(w) ==
  /\ w.visible \in BOOLEAN /\ w.settings \in BOOLEAN /\ w.closes \in BOOLEAN
  /\ w.category \in 0 .. Len(Categories) - 1 /\ w.query \in Queries
  /\ w.listed \in Seq(Sequences) /\ w.variants \in Seq(Sequences)
  /\ w.lists \in Lists(Entries)
  /\ w.current \in Nat \cup {NoRow}
  /\ w.details \in ItemDetails /\ w.keyboard \in Grids

TypeOK ==
  /\ IsWindow(window)
  /\ view \in Views \cup {Unlaid} /\ serving \in BOOLEAN
  /\ signal \in {NoSignal, Cancellation} \cup {Selection(e) : e \in Sequences}
  /\ changes \in 0 .. MaxChanges

\* The list shown is the one the search text, the category and the lists of the
\* moment ask for, although the model skips rebuilds it takes for unnecessary.
ListIsCurrent == window.listed = Listing(window)

\* The keyboard counts the items and categories there are; its selection and the
\* view's current row are among them, although the list shrinks and grows under both.
GridMatchesList ==
  /\ window.keyboard.itemCount = Len(window.listed)
  /\ window.keyboard.categoryIndex = window.category
  /\ window.keyboard.categoryCount = Len(Categories)
  /\ IF window.listed = <<>>
     THEN window.keyboard.selectedIndex = 0 /\ window.current = NoRow
     ELSE /\ window.keyboard.selectedIndex \in 0 .. Len(window.listed) - 1
          /\ window.current \in 0 .. Len(window.listed) - 1

Undo == {<<"Right", "Left">>, <<"Down", "Up">>, <<"PageDown", "PageUp">>}

CutShort(k, move) ==
  k.selectedIndex + (CASE move = "Right" -> 1 [] move = "Down" -> k.columns
                       [] move = "PageDown" -> Page(k)) > LastItem(k)

\* A key forward and the key back lead to the same item again, in whatever place of
\* whatever grid, unless the end of the list cut the way forward short.
BackAgain ==
  LET k == window.keyboard
  IN \A p \in Undo : k.itemCount > 0 /\ ~CutShort(k, p[1]) => Moved(Moved(k, p[1]), p[2]) = k

\* The status line, the star and the variants button always tell of the item the
\* keyboard has selected, as it is in the lists of the moment. Without an item the status
\* line names none and no button is enabled; what a disabled star shows tells of nobody.
DetailsMatch(w) ==
  w.details = IF w.listed = <<>> THEN Blank(w.details)
              ELSE DetailsOf(w, ItemAt(w, w.keyboard.selectedIndex))
DetailsAreCurrent == DetailsMatch(window)

\* No panel waits in a hidden window for the next time it is shown, and the
\* session serves no transaction with it.
PanelsGoWithWindow ==
  ~window.visible => ~window.settings /\ window.variants = <<>> /\ ~serving

\* Whatever an older or newer version left in the lists, and whatever an emoji
\* derives from, only emoji of the catalog are reported (the addon, which has the
\* same catalog, cancels for any other).
ReportsCatalogEmoji == signal.kind = "selected" => InCatalog(signal.sequence)

\* The window with its lists and its keyboard does for the session what SessionWindow
\* says: what any command or click does to the palette, the panel, the search text
\* and the transaction is a step of it or invisible to it.
Session == INSTANCE SessionWindow WITH
  visible <- window.visible, settings <- window.settings, closes <- window.closes,
  query <- window.query
KeepsToSession == Session!Spec

\* "Escape is forwarded as a logical command so the helper can close an open child
\* panel first" (docs/architecture.md): it cancels only without one.
EscapeClosesPanelFirst ==
  [][signal' = Cancellation => ~window.settings /\ window.variants = <<>>]_vars

\* The label named "Selected emoji" (src/ui/palette_window.cpp) tells of the item
\* that is highlighted, and that Enter inserts.
SelectedIsNamed ==
  window.listed # <<>> => window.details.names = ItemAt(window, window.current)
=============================================================================
