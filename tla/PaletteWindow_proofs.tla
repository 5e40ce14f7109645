------------------------- MODULE PaletteWindow_proofs -------------------------
(* What the window shows is current, for every catalog, every state of the     *)
(* lists and every size of the grid.                                           *)
EXTENDS PaletteWindow, StateLists_proofs

(***************************************************************************)
(* The fields of the window, and what the operators on them establish.     *)
(***************************************************************************)

\* w is a record of the window's fields, of whatever values.
HasFields(w) ==
  w = [visible |-> w.visible, settings |-> w.settings, variants |-> w.variants,
       closes |-> w.closes, category |-> w.category, query |-> w.query, lists |-> w.lists,
       listed |-> w.listed, current |-> w.current, details |-> w.details,
       keyboard |-> w.keyboard]

\* The model lists what is asked for.
ListMatches(w) == w.listed = Listing(w)

\* v differs from w at most in the list and in what shows it.
SamePanels(v, w) ==
  /\ v.visible = w.visible /\ v.settings = w.settings /\ v.variants = w.variants
  /\ v.closes = w.closes

\* What the model is asked for.
SameRequest(v, w) ==
  /\ v.category = w.category /\ v.query = w.query /\ v.lists = w.lists

LEMMA RebuiltMatches ==
  ASSUME NEW w, HasFields(w)
  PROVE  /\ HasFields(Rebuilt(w)) /\ ListMatches(Rebuilt(w))
         /\ SamePanels(Rebuilt(w), w)
<1> DEFINE v == Rebuilt(w)
           list == Listing(w)
<1>1. v = [w EXCEPT !.listed = list, !.current = NoRow]
  BY DEF Rebuilt
<1> HIDE DEF v, list
<1>2. HasFields(v) /\ v.listed = list /\ SamePanels(v, w) /\ SameRequest(v, w)
  BY <1>1 DEF HasFields, SamePanels, SameRequest
<1>3. Listing(v) = Listing(w)
  BY <1>2 DEF Listing, SameRequest
<1> QED
  BY <1>2, <1>3 DEF v, list, ListMatches

LEMMA UpdateMatches ==
  ASSUME NEW w, HasFields(w)
  PROVE  /\ HasFields(UpdateSelection(w)) /\ DetailsMatch(UpdateSelection(w))
         /\ SamePanels(UpdateSelection(w), w) /\ SameRequest(UpdateSelection(w), w)
         /\ UpdateSelection(w).listed = w.listed
<1> DEFINE v == UpdateSelection(w)
           item == ItemAt(w, w.keyboard.selectedIndex)
           row == IF w.listed = <<>> THEN NoRow ELSE w.keyboard.selectedIndex
           details == IF w.listed = <<>> THEN Blank(w.details) ELSE DetailsOf(w, item)
<1>1. v = [w EXCEPT !.current = row, !.details = details]
  BY DEF UpdateSelection
<1>2. details = IF w.listed = <<>> THEN Blank(w.details) ELSE DetailsOf(w, item)
  OBVIOUS
<1>3. ItemAt(w, w.keyboard.selectedIndex) = item
  OBVIOUS
<1> HIDE DEF v, row, details, item
<1>4. /\ HasFields(v) /\ SamePanels(v, w) /\ SameRequest(v, w)
      /\ v.listed = w.listed /\ v.keyboard = w.keyboard /\ v.details = details
  BY <1>1 DEF HasFields, SamePanels, SameRequest
<1>5. ItemAt(v, v.keyboard.selectedIndex) = item
  BY <1>3, <1>4 DEF ItemAt
<1>6. DetailsOf(v, item) = DetailsOf(w, item)
  BY <1>4 DEF DetailsOf, IsFavorite, SameRequest
<1>7. CASE w.listed = <<>>
  <2>1. v.details = Blank(w.details)
    BY <1>2, <1>4, <1>7
  <2>2. Blank(v.details) = Blank(w.details)
    BY <2>1 DEF Blank
  <2> QED
    BY <1>4, <1>7, <2>1, <2>2 DEF v, DetailsMatch
<1>8. CASE w.listed # <<>>
  BY <1>2, <1>4, <1>5, <1>6, <1>8 DEF v, DetailsMatch
<1> QED
  BY <1>7, <1>8

\* A window whose list matches and whose fields are told by the details.
Sound(w) == HasFields(w) /\ ListMatches(w) /\ DetailsMatch(w)

\* Another keyboard leaves the list as it is.
LEMMA KeyboardKeepsList ==
  ASSUME NEW w, NEW k, HasFields(w), ListMatches(w)
  PROVE  LET v == [w EXCEPT !.keyboard = k]
         IN HasFields(v) /\ ListMatches(v) /\ SamePanels(v, w)
<1> DEFINE v == [w EXCEPT !.keyboard = k]
<1>1. /\ HasFields(v) /\ SamePanels(v, w) /\ SameRequest(v, w) /\ v.listed = w.listed
  BY DEF HasFields, SamePanels, SameRequest
<1> HIDE DEF v
<1>2. ListMatches(v)
  BY <1>1 DEF ListMatches, Listing, SameRequest
<1> QED
  BY <1>1, <1>2 DEF v

\* The selection after a new keyboard.
LEMMA SelectedIsSound ==
  ASSUME NEW w, NEW k, HasFields(w), ListMatches(w)
  PROVE  Sound(Selected(w, k)) /\ SamePanels(Selected(w, k), w)
<1> DEFINE v == [w EXCEPT !.keyboard = k]
           u == UpdateSelection(v)
<1>1. HasFields(v) /\ ListMatches(v) /\ SamePanels(v, w)
  BY KeyboardKeepsList
<1>2. Selected(w, k) = u
  BY DEF Selected
<1> HIDE DEF v
<1>3. /\ HasFields(u) /\ DetailsMatch(u) /\ SamePanels(u, v) /\ SameRequest(u, v)
      /\ u.listed = v.listed
  BY <1>1, UpdateMatches
<1> HIDE DEF u
<1>4. ListMatches(u) /\ SamePanels(u, w)
  BY <1>1, <1>3 DEF ListMatches, Listing, SameRequest, SamePanels
<1> QED
  BY <1>2, <1>3, <1>4 DEF Sound

LEMMA RefreshIsSound ==
  ASSUME NEW w, NEW size, NEW reset, HasFields(w), ListMatches(w)
  PROVE  /\ Sound(RefreshGrid(w, size, reset))
         /\ SamePanels(RefreshGrid(w, size, reset), w)
<1> DEFINE k == InCategory(Resized(IF reset THEN NewGrid ELSE w.keyboard, Len(w.listed),
                                   size.columns, size.rows),
                           w.category, Len(Categories))
<1>1. RefreshGrid(w, size, reset) = Selected(w, k)
  BY DEF RefreshGrid, Selected
<1> HIDE DEF k
<1> QED
  BY <1>1, SelectedIsSound

LEMMA SetCategoryIsSound ==
  ASSUME NEW w, NEW index, HasFields(w), ListMatches(w)
  PROVE  Sound(SetCategory(w, index)) /\ SamePanels(SetCategory(w, index), w)
<1> DEFINE m == InModelCategory(w, index)
           v == [w EXCEPT !.category = index]
<1>1. HasFields(m) /\ ListMatches(m) /\ SamePanels(m, w)
  <2>1. CASE w.category = index /\ w.query = NoQuery
    BY <2>1 DEF InModelCategory, SamePanels
  <2>2. CASE ~(w.category = index /\ w.query = NoQuery)
    <3>1. m = Rebuilt(v)
      BY <2>2 DEF InModelCategory
    <3>2. HasFields(v) /\ SamePanels(v, w)
      BY DEF HasFields, SamePanels
    <3> HIDE DEF m, v
    <3> QED
      BY <3>1, <3>2, RebuiltMatches DEF SamePanels
  <2> QED
    BY <2>1, <2>2
<1> HIDE DEF m
<1>2. Sound(RefreshGrid(m, view, TRUE)) /\ SamePanels(RefreshGrid(m, view, TRUE), m)
  BY <1>1, RefreshIsSound
<1> QED
  BY <1>1, <1>2 DEF SetCategory, m, SamePanels

LEMMA UpdateSearchIsSound ==
  ASSUME NEW w, NEW query, HasFields(w), ListMatches(w)
  PROVE  Sound(UpdateSearch(w, query)) /\ SamePanels(UpdateSearch(w, query), w)
<1> DEFINE m == WithSearch(w, query)
           v == [w EXCEPT !.query = query]
<1>1. HasFields(m) /\ ListMatches(m) /\ SamePanels(m, w)
  <2>1. CASE w.query = query
    BY <2>1 DEF WithSearch, SamePanels
  <2>2. CASE w.query # query
    <3>1. m = Rebuilt(v)
      BY <2>2 DEF WithSearch
    <3>2. HasFields(v) /\ SamePanels(v, w)
      BY DEF HasFields, SamePanels
    <3> HIDE DEF m, v
    <3> QED
      BY <3>1, <3>2, RebuiltMatches DEF SamePanels
  <2> QED
    BY <2>1, <2>2
<1> HIDE DEF m
<1>2. Sound(RefreshGrid(m, view, TRUE)) /\ SamePanels(RefreshGrid(m, view, TRUE), m)
  BY <1>1, RefreshIsSound
<1> QED
  BY <1>1, <1>2 DEF UpdateSearch, m, SamePanels

\* New lists are shown at once.
LEMMA NewListsAreSound ==
  ASSUME NEW w, NEW lists, HasFields(w)
  PROVE  LET v == RefreshGrid(Rebuilt([w EXCEPT !.lists = lists]), view, FALSE)
         IN Sound(v) /\ SamePanels(v, w)
<1> DEFINE u == [w EXCEPT !.lists = lists]
           m == Rebuilt(u)
           v == RefreshGrid(m, view, FALSE)
<1>1. HasFields(u) /\ SamePanels(u, w)
  BY DEF HasFields, SamePanels
<1> HIDE DEF u
<1>2. HasFields(m) /\ ListMatches(m) /\ SamePanels(m, u)
  BY <1>1, RebuiltMatches
<1> HIDE DEF m
<1>3. Sound(v) /\ SamePanels(v, m)
  BY <1>2, RefreshIsSound
<1> HIDE DEF v
<1>4. SamePanels(v, w)
  BY <1>1, <1>2, <1>3 DEF SamePanels
<1> QED
  BY <1>3, <1>4 DEF v, m, u

(***************************************************************************)
(* The invariant: the window is sound, and its panels go with it.          *)
(***************************************************************************)

Panels(w, busy) == ~w.visible => ~w.settings /\ w.variants = <<>> /\ ~busy

WindowInv == Sound(window) /\ Panels(window, serving)

LEMMA WindowInit == Init => WindowInv
<1> SUFFICES ASSUME Init PROVE WindowInv
  OBVIOUS
<1>1. PICK lists \in StoredStates : window = NewWindow(lists)
  BY DEF Init
<1> DEFINE w == [visible |-> FALSE, settings |-> FALSE, variants |-> <<>>, closes |-> FALSE,
                 category |-> FirstCategory, query |-> NoQuery, lists |-> lists,
                 listed |-> <<>>, current |-> NoRow, details |-> NoDetails,
                 keyboard |-> NewGrid]
<1>2. window = RefreshGrid(Rebuilt(w), Unlaid, TRUE)
  BY <1>1 DEF NewWindow
<1>3. /\ HasFields(w) /\ w.visible = FALSE /\ w.settings = FALSE /\ w.variants = <<>>
  BY DEF HasFields
<1> HIDE DEF w
<1>4. Sound(window) /\ SamePanels(window, Rebuilt(w)) /\ SamePanels(Rebuilt(w), w)
  BY <1>2, <1>3, RebuiltMatches, RefreshIsSound
<1>5. serving = FALSE
  BY DEF Init
<1> QED
  BY <1>3, <1>4, <1>5 DEF WindowInv, Panels, SamePanels

\* v differs from w in its panels and visibility at most.
SameContents(v, w) ==
  /\ SameRequest(v, w) /\ v.listed = w.listed /\ v.details = w.details
  /\ v.keyboard = w.keyboard

LEMMA SameContentsIsSound ==
  ASSUME NEW v, NEW w, Sound(w), HasFields(v), SameContents(v, w)
  PROVE  Sound(v)
<1>1. ListMatches(v)
  BY DEF Sound, ListMatches, Listing, SameContents, SameRequest
<1>2. ItemAt(v, v.keyboard.selectedIndex) = ItemAt(w, w.keyboard.selectedIndex)
  BY DEF ItemAt, SameContents
<1>3. \A e : DetailsOf(v, e) = DetailsOf(w, e)
  BY DEF DetailsOf, IsFavorite, SameContents, SameRequest
<1>4. DetailsMatch(v)
  BY <1>2, <1>3 DEF Sound, DetailsMatch, SameContents
<1> QED
  BY <1>1, <1>4 DEF Sound

LEMMA HiddenIsSound ==
  ASSUME NEW w, Sound(w)
  PROVE  /\ Sound(Hidden(w))
         /\ Hidden(w).settings = FALSE /\ Hidden(w).variants = <<>>
<1> DEFINE v == Hidden(w)
<1>1. HasFields(w) /\ v = [w EXCEPT !.visible = FALSE, !.settings = FALSE, !.variants = <<>>]
  BY DEF Sound, Hidden
<1> HIDE DEF v
<1>2. HasFields(v) /\ SameContents(v, w) /\ v.settings = FALSE /\ v.variants = <<>>
  BY <1>1 DEF HasFields, SameContents, SameRequest
<1> QED
  BY <1>2, SameContentsIsSound DEF v

\* ShowVariants keeps the contents, and opens a panel only in the window it got.
LEMMA ShowVariantsIsSound ==
  ASSUME NEW w, Sound(w)
  PROVE  /\ Sound(ShowVariants(w))
         /\ ShowVariants(w).visible = w.visible
<1> DEFINE v == ShowVariants(w)
           variants == VariantsOf(ItemAt(w, w.current))
           panel == IF Len(variants) > 1 THEN variants ELSE <<>>
<1>1. CASE w.current = NoRow
  BY <1>1 DEF ShowVariants
<1>2. CASE w.current # NoRow
  <2>1. v = [w EXCEPT !.variants = panel]
    BY <1>2 DEF ShowVariants
  <2>2. HasFields(w)
    BY DEF Sound
  <2> HIDE DEF v, panel
  <2>3. HasFields(v) /\ SameContents(v, w) /\ v.visible = w.visible
    BY <2>1, <2>2 DEF HasFields, SameContents, SameRequest
  <2> QED
    BY <2>3, SameContentsIsSound DEF v
<1> QED
  BY <1>1, <1>2

\* A choice: the lists are current, and what is hidden has no panels.
LEMMA ChooseKeeps ==
  ASSUME WindowInv, NEW e, NEW w, HasFields(w), SamePanels(w, window),
         changes < MaxChanges,
         \E now \in Times :
           LET chosen == Remembered(w, e, now)
           IN window' = IF w.closes THEN Hidden(chosen) ELSE chosen,
         serving' = FALSE
  PROVE  WindowInv'
<1>1. PICK now \in Times :
        window' = IF w.closes THEN Hidden(Remembered(w, e, now)) ELSE Remembered(w, e, now)
  OBVIOUS
<1> DEFINE lists == RecordUse(w.lists, e, now)
           u == [w EXCEPT !.lists = RecordUse(@, e, now)]
           chosen == Remembered(w, e, now)
<1>2. u = [w EXCEPT !.lists = lists]
  OBVIOUS
<1>3. chosen = RefreshGrid(Rebuilt(u), view, FALSE)
  BY DEF Remembered
<1> HIDE DEF lists, u, chosen
<1>4. Sound(chosen) /\ SamePanels(chosen, w)
  BY <1>2, <1>3, NewListsAreSound
<1>5. CASE w.closes
  BY <1>1, <1>4, <1>5, HiddenIsSound DEF WindowInv, Panels, chosen
<1>6. CASE ~w.closes
  <2>1. window' = chosen
    BY <1>1, <1>6 DEF chosen
  <2> QED
    BY <1>4, <2>1 DEF WindowInv, Panels, SamePanels
<1> QED
  BY <1>5, <1>6

(***************************************************************************)
(* The steps.                                                              *)
(***************************************************************************)

\* A sound window that stayed as visible, with its panels as they were.
LEMMA SamePanelsKeeps ==
  ASSUME WindowInv, Sound(window'), SamePanels(window', window),
         serving' => serving
  PROVE  WindowInv'
BY DEF WindowInv, Panels, SamePanels

\* A visible sound window may have any panel open.
LEMMA VisibleKeeps ==
  ASSUME Sound(window'), window'.visible
  PROVE  WindowInv'
BY DEF WindowInv, Panels

LEMMA SessionStep ==
  ASSUME WindowInv,
         ShowPalette \/ HidePalette \/ CommandSearchText \/ CommandCancel
  PROVE  WindowInv'
<1> USE DEF Silent, OnlyWindow
<1>0. HasFields(window) /\ ListMatches(window)
  BY DEF WindowInv, Sound
<1>1. CASE ShowPalette
  <2>1. PICK closes \in CloseSettings :
          window' = [(IF [window EXCEPT !.closes = closes].visible
                      THEN [window EXCEPT !.closes = closes]
                      ELSE UpdateSearch([window EXCEPT !.closes = closes], NoQuery))
                     EXCEPT !.visible = TRUE]
    BY <1>1 DEF ShowPalette
  <2> DEFINE w == [window EXCEPT !.closes = closes]
             u == IF w.visible THEN w ELSE UpdateSearch(w, NoQuery)
  <2>2. HasFields(w) /\ SameContents(w, window)
    BY <1>0 DEF HasFields, SameContents, SameRequest
  <2>3. window' = [u EXCEPT !.visible = TRUE]
    BY <2>1
  <2> HIDE DEF w
  <2>4. Sound(w)
    BY <2>2, SameContentsIsSound DEF WindowInv
  <2>5. Sound(u)
    BY <2>4, UpdateSearchIsSound DEF Sound
  <2> HIDE DEF u
  <2>6. HasFields(window') /\ SameContents(window', u) /\ window'.visible = TRUE
    BY <2>3, <2>5 DEF Sound, HasFields, SameContents, SameRequest
  <2> QED
    BY <2>5, <2>6, SameContentsIsSound, VisibleKeeps
<1>2. CASE HidePalette
  BY <1>2, HiddenIsSound DEF HidePalette, WindowInv, Panels
<1>3. CASE CommandSearchText
  <2>1. PICK query \in Queries : window' = UpdateSearch(window, query)
    BY <1>3 DEF CommandSearchText
  <2>2. serving' = serving
    BY <1>3 DEF CommandSearchText
  <2> QED
    BY <1>0, <2>1, <2>2, UpdateSearchIsSound, SamePanelsKeeps
<1>4. CASE CommandCancel
  <2>1. CASE window.settings
    <3>1. window' = [window EXCEPT !.settings = FALSE] /\ window.visible = TRUE
      BY <1>4, <2>1 DEF CommandCancel, WindowInv, Panels
    <3>2. HasFields(window') /\ SameContents(window', window) /\ window'.visible = TRUE
      BY <1>0, <3>1 DEF HasFields, SameContents, SameRequest
    <3> QED
      BY <3>2, SameContentsIsSound, VisibleKeeps DEF WindowInv
  <2>2. CASE ~window.settings
    BY <1>4, <2>2, HiddenIsSound DEF CommandCancel, WindowInv, Panels
  <2> QED
    BY <2>1, <2>2
<1> QED
  BY <1>1, <1>2, <1>3, <1>4

LEMMA CommandStep ==
  ASSUME WindowInv,
         \/ CommandMove \/ CommandTurn \/ CommandSelect \/ CommandToggleFavorite
         \/ CommandShowVariants
  PROVE  WindowInv'
<1> USE DEF Silent, OnlyWindow
<1>0. HasFields(window) /\ ListMatches(window) /\ Sound(window)
  BY DEF WindowInv, Sound
<1>1. CASE CommandMove
  <2>1. PICK move \in Moves :
          window' = IF Moved(window.keyboard, move) = window.keyboard THEN window
                    ELSE Selected(window, Moved(window.keyboard, move))
    BY <1>1 DEF CommandMove
  <2>2. Sound(window') /\ SamePanels(window', window) /\ serving' = serving
    BY <1>0, <1>1, <2>1, SelectedIsSound DEF CommandMove, SamePanels
  <2> QED
    BY <2>2, SamePanelsKeeps
<1>2. CASE CommandTurn
  <2>1. PICK turn \in Turns :
          window' = IF window.keyboard.categoryCount <= 1 THEN window
                    ELSE SetCategory([window EXCEPT !.keyboard = Turned(window.keyboard, turn)],
                                     Turned(window.keyboard, turn).categoryIndex)
    BY <1>2 DEF CommandTurn
  <2> DEFINE k == Turned(window.keyboard, turn)
             w == [window EXCEPT !.keyboard = k]
             index == k.categoryIndex
  <2>2. HasFields(w) /\ ListMatches(w) /\ SamePanels(w, window)
    BY <1>0, KeyboardKeepsList
  <2>3. window' = IF window.keyboard.categoryCount <= 1 THEN window ELSE SetCategory(w, index)
    BY <2>1
  <2> HIDE DEF w, index
  <2>4. Sound(window') /\ SamePanels(window', window) /\ serving' = serving
    BY <1>0, <1>2, <2>2, <2>3, SetCategoryIsSound DEF CommandTurn, SamePanels
  <2> QED
    BY <2>4, SamePanelsKeeps
<1>3. CASE CommandSelect
  <2>1. CASE window.keyboard.itemCount = 0 \/ window.current = NoRow
    BY <1>3, <2>1 DEF CommandSelect, WindowInv
  <2>2. CASE ~(window.keyboard.itemCount = 0 \/ window.current = NoRow)
    <3>1. Choose(window, ItemAt(window, window.current))
      BY <1>3, <2>2 DEF CommandSelect
    <3> QED
      BY <1>0, <3>1, ChooseKeeps DEF Choose, SamePanels
  <2> QED
    BY <2>1, <2>2
<1>4. CASE CommandToggleFavorite
  <2>1. window' = Toggled(window) /\ serving' = serving
    BY <1>4 DEF CommandToggleFavorite, ToggleCurrent
  <2> QED
    BY <1>0, <2>1, NewListsAreSound, SamePanelsKeeps DEF Toggled, SamePanels
<1>5. CASE CommandShowVariants
  <2>1. serving /\ window' = ShowVariants(window)
    BY <1>5 DEF CommandShowVariants
  <2>2. window.visible
    BY <2>1 DEF WindowInv, Panels
  <2>3. Sound(window') /\ window'.visible
    BY <1>0, <2>1, <2>2, ShowVariantsIsSound
  <2> QED
    BY <2>3, VisibleKeeps
<1> QED
  BY <1>1, <1>2, <1>3, <1>4, <1>5

LEMMA ClickStep ==
  ASSUME WindowInv,
         \/ \E row \in Rows : ClickItem(row) \/ RightClickItem(row)
         \/ \E index \in 0 .. Len(Categories) - 1 : ClickCategory(index)
         \/ ClickVariant \/ ClickFavorite \/ ClickVariants \/ ClickSettings
         \/ ClickSize \/ LaidOut
  PROVE  WindowInv'
<1> USE DEF Silent, OnlyWindow, MayClick
<1>0. HasFields(window) /\ ListMatches(window) /\ Sound(window)
  BY DEF WindowInv, Sound
<1>1. ASSUME NEW row \in Rows, ClickItem(row)
      PROVE  WindowInv'
  <2> DEFINE w == [window EXCEPT !.current = row]
             item == ItemAt(window, row)
  <2>1. Choose(w, item)
    BY <1>1 DEF ClickItem
  <2>2. HasFields(w) /\ SamePanels(w, window)
    BY <1>0 DEF HasFields, SamePanels
  <2> HIDE DEF w, item
  <2> QED
    BY <2>1, <2>2, ChooseKeeps DEF Choose
<1>2. ASSUME NEW row \in Rows, RightClickItem(row)
      PROVE  WindowInv'
  <2> DEFINE w == [window EXCEPT !.current = row, !.settings = FALSE]
  <2>1. window.visible /\ window' = ShowVariants(w)
    BY <1>2 DEF RightClickItem
  <2> HIDE DEF w
  <2>2. HasFields(w) /\ SameContents(w, window) /\ w.visible = window.visible
    <3>1. w = [window EXCEPT !.current = row, !.settings = FALSE]
      BY DEF w
    <3> QED
      BY <1>0, <3>1 DEF HasFields, SameContents, SameRequest
  <2>3. Sound(w)
    BY <1>0, <2>2, SameContentsIsSound
  <2>4. Sound(window') /\ window'.visible
    BY <2>1, <2>2, <2>3, ShowVariantsIsSound
  <2> QED
    BY <2>4, VisibleKeeps
<1>3. ASSUME NEW index \in 0 .. Len(Categories) - 1, ClickCategory(index)
      PROVE  WindowInv'
  <2>1. window' = SetCategory(window, index) /\ serving' = serving
    BY <1>3 DEF ClickCategory
  <2> QED
    BY <1>0, <2>1, SetCategoryIsSound, SamePanelsKeeps
<1>4. CASE ClickVariant
  <2>1. PICK i \in DOMAIN window.variants : Choose(window, window.variants[i])
    BY <1>4 DEF ClickVariant
  <2> QED
    BY <1>0, <2>1, ChooseKeeps DEF Choose, SamePanels
<1>5. CASE ClickFavorite
  <2>1. window' = Toggled(window) /\ serving' = serving
    BY <1>5 DEF ClickFavorite, ToggleCurrent
  <2> QED
    BY <1>0, <2>1, NewListsAreSound, SamePanelsKeeps DEF Toggled, SamePanels
<1>6. CASE ClickVariants
  <2>1. window.visible /\ window' = ShowVariants(window)
    BY <1>6 DEF ClickVariants
  <2>2. Sound(window') /\ window'.visible
    BY <1>0, <2>1, ShowVariantsIsSound
  <2> QED
    BY <2>2, VisibleKeeps
<1>7. CASE ClickSettings
  <2> DEFINE settings == ~window.settings
  <2>1. window.visible /\ window' = [window EXCEPT !.settings = settings]
    BY <1>7 DEF ClickSettings
  <2> HIDE DEF settings
  <2>2. HasFields(window') /\ SameContents(window', window) /\ window'.visible = window.visible
    BY <1>0, <2>1 DEF HasFields, SameContents, SameRequest
  <2> QED
    BY <1>0, <2>1, <2>2, SameContentsIsSound, VisibleKeeps
<1>8. CASE ClickSize
  <2>1. window' = RefreshGrid(window, view', FALSE) /\ serving' = serving
    BY <1>8 DEF ClickSize
  <2> QED
    BY <1>0, <2>1, RefreshIsSound, SamePanelsKeeps
<1>9. CASE LaidOut
  BY <1>9 DEF LaidOut, WindowInv
<1> QED
  BY <1>1, <1>2, <1>3, <1>4, <1>5, <1>6, <1>7, <1>8, <1>9

LEMMA WindowStep ==
  ASSUME WindowInv, [Next]_vars
  PROVE  WindowInv'
<1>1. CASE UNCHANGED vars
  BY <1>1 DEF vars, WindowInv
<1> QED
  BY <1>1, SessionStep, CommandStep, ClickStep DEF Next

LEMMA WindowInvariant == Spec => []WindowInv
  BY WindowInit, WindowStep, PTL DEF Spec

\* The list is current whichever way setCategory, setSearch and refresh decide
\* about a rebuild.
THEOREM ListStaysCurrent == Spec => []ListIsCurrent
<1>1. WindowInv => ListIsCurrent
  BY DEF WindowInv, Sound, ListMatches, ListIsCurrent
<1> QED
  BY <1>1, WindowInvariant, PTL

\* Status line, star and variants button tell of the keyboard's item, whatever
\* changed the lists or the selection last.
THEOREM DetailsStayCurrent == Spec => []DetailsAreCurrent
<1>1. WindowInv => DetailsAreCurrent
  BY DEF WindowInv, Sound, DetailsAreCurrent
<1> QED
  BY <1>1, WindowInvariant, PTL

\* A hidden window has no panel open and serves no transaction.
THEOREM PanelsStayWithWindow == Spec => []PanelsGoWithWindow
<1>1. WindowInv => PanelsGoWithWindow
  BY DEF WindowInv, Panels, PanelsGoWithWindow
<1> QED
  BY <1>1, WindowInvariant, PTL

(***************************************************************************)
(* The keyboard: a selection among the items, and the way back.            *)
(***************************************************************************)

\* k is a grid of n items whose selection is one of them.
GridOf(k, n) ==
  /\ k \in Grids /\ k.itemCount = n
  /\ k.selectedIndex \in (IF n = 0 THEN {0} ELSE 0 .. n - 1)

LEMMA NewGridIsGrid == NewGrid \in Grids
BY DEF NewGrid, Grids

LEMMA AtMostBounds ==
  ASSUME NEW n \in Nat, NEW top \in Nat
  PROVE  AtMost(n, top) \in 0 .. top /\ AtMost(n, top) <= n /\ (n <= top => AtMost(n, top) = n)
BY DEF AtMost

\* refreshGrid: whatever the selection was, it is among the items of the new list.
LEMMA RefreshedGrid ==
  ASSUME NEW g \in Grids, NEW n \in Nat, NEW size \in Sizes, NEW index \in Nat,
         NEW count \in Nat, index < count
  PROVE  LET k == InCategory(Resized(g, n, size.columns, size.rows), index, count)
         IN GridOf(k, n) /\ k.categoryIndex = index /\ k.categoryCount = count
<1> DEFINE columns == AtLeastOne(size.columns)
           rows == AtLeastOne(size.rows)
           selected == IF n = 0 THEN 0 ELSE AtMost(g.selectedIndex, n - 1)
           r == Resized(g, n, size.columns, size.rows)
           k == InCategory(r, index, count)
<1>1. columns \in Nat \ {0} /\ rows \in Nat \ {0}
  BY DEF Sizes, AtLeastOne
<1>2. selected \in Nat /\ selected \in (IF n = 0 THEN {0} ELSE 0 .. n - 1)
  <2>1. g.selectedIndex \in Nat
    BY DEF Grids
  <2>2. CASE n = 0
    BY <2>2
  <2>3. CASE n # 0
    <3>1. n - 1 \in Nat
      BY <2>3
    <3> QED
      BY <2>1, <2>3, <3>1, AtMostBounds
  <2> QED
    BY <2>2, <2>3
<1>3. r = [itemCount |-> n, columns |-> columns, visibleRows |-> rows,
           selectedIndex |-> selected, categoryIndex |-> g.categoryIndex,
           categoryCount |-> g.categoryCount]
  <2>1. r = [g EXCEPT !.itemCount = n, !.columns = columns, !.visibleRows = rows,
                      !.selectedIndex = selected]
    BY DEF Resized
  <2> HIDE DEF columns, rows, selected, r
  <2> QED
    BY <2>1 DEF Grids
<1>4. AtLeastOne(count) = count /\ AtMost(index, count - 1) = index /\ count \in Nat \ {0}
  BY DEF AtLeastOne, AtMost
<1>5. k = [r EXCEPT !.categoryCount = count, !.categoryIndex = index]
  BY <1>4 DEF InCategory
<1> HIDE DEF columns, rows, selected, r, k
<1>6. k = [itemCount |-> n, columns |-> columns, visibleRows |-> rows,
           selectedIndex |-> selected, categoryIndex |-> index, categoryCount |-> count]
  BY <1>3, <1>5
<1>7. GridOf(k, n) /\ k.categoryIndex = index /\ k.categoryCount = count
  BY <1>1, <1>2, <1>4, <1>6 DEF GridOf, Grids
<1> QED
  BY <1>7 DEF k, r

LEMMA PageIsNat == ASSUME NEW k \in Grids PROVE Page(k) \in Nat /\ k.columns \in Nat
<1>1. k.columns \in Nat /\ k.visibleRows \in Nat
  BY DEF Grids
<1>2. \A a, b \in Nat : a * b \in Nat
  OBVIOUS
<1> QED
  BY <1>1, <1>2 DEF Page

\* A move stays among the items.
LEMMA MoveStays ==
  ASSUME NEW k, NEW n \in Nat, GridOf(k, n), NEW move \in Moves
  PROVE  /\ GridOf(Moved(k, move), n)
         /\ Moved(k, move).categoryIndex = k.categoryIndex
         /\ Moved(k, move).categoryCount = k.categoryCount
<1>1. k \in Grids /\ k.itemCount = n
  BY DEF GridOf
<1>2. CASE n = 0
  BY <1>1, <1>2 DEF Moved
<1>3. CASE n # 0
  <2> DEFINE i == k.selectedIndex
             p == Page(k)
             c == k.columns
             t == Target(k, move)
  <2>1. /\ i \in 0 .. n - 1 /\ p \in Nat /\ c \in Nat /\ LastItem(k) = n - 1 /\ n - 1 \in Nat
    BY <1>1, <1>3, PageIsNat DEF GridOf, LastItem
  <2>2. i + 1 \in Nat /\ i + c \in Nat /\ i + p \in Nat
    BY <2>1
  <2>3. \A m \in Nat : AtMost(m, n - 1) \in 0 .. n - 1
    BY <2>1, AtMostBounds
  <2> HIDE DEF i, p, c
  <2>4. /\ AtMost(i + 1, n - 1) \in 0 .. n - 1 /\ AtMost(i + c, n - 1) \in 0 .. n - 1
        /\ AtMost(i + p, n - 1) \in 0 .. n - 1
    BY <2>2, <2>3
  <2>5. t \in 0 .. n - 1
    <3>1. t = CASE move = "Left"     -> IF i > 0 THEN i - 1 ELSE i
                [] move = "Right"    -> AtMost(i + 1, n - 1)
                [] move = "Up"       -> IF i >= c THEN i - c ELSE i
                [] move = "Down"     -> AtMost(i + c, n - 1)
                [] move = "Home"     -> 0
                [] move = "End"      -> n - 1
                [] move = "PageUp"   -> IF i > p THEN i - p ELSE 0
                [] move = "PageDown" -> AtMost(i + p, n - 1)
      BY <2>1 DEF Target, RowUp, i, c, p
    <3> HIDE DEF t
    <3>2. CASE move \in {"Left", "Up", "PageUp"}
      BY <2>1, <3>1, <3>2
    <3>3. CASE move \in {"Right", "Down", "PageDown"}
      BY <2>4, <3>1, <3>3
    <3>4. CASE move \in {"Home", "End"}
      BY <2>1, <3>1, <3>4
    <3> QED
      BY <3>2, <3>3, <3>4 DEF Moves
  <2>6. Moved(k, move) = [k EXCEPT !.selectedIndex = t]
    BY <1>1, <1>3 DEF Moved
  <2> HIDE DEF t
  <2>7. t \in Nat
    BY <2>5
  <2> QED
    BY <1>1, <1>3, <2>5, <2>6, <2>7 DEF GridOf, Grids
<1> QED
  BY <1>2, <1>3

\* A key forward that the end of the list does not cut short, and the key back.
LEMMA MoveBack ==
  ASSUME NEW k, NEW n \in Nat, GridOf(k, n), NEW p \in Undo,
         k.itemCount > 0, ~CutShort(k, p[1])
  PROVE  Moved(Moved(k, p[1]), p[2]) = k
<1> DEFINE i == k.selectedIndex
           page == Page(k)
           c == k.columns
           go(j) == [k EXCEPT !.selectedIndex = j]
<1>1. /\ k \in Grids /\ n # 0 /\ k.itemCount = n /\ i \in 0 .. n - 1 /\ page \in Nat /\ c \in Nat
      /\ LastItem(k) = n - 1 /\ n - 1 \in Nat
  BY PageIsNat DEF GridOf, LastItem
<1>2. /\ \A j : go(j).selectedIndex = j /\ go(j).columns = c /\ go(j).visibleRows = k.visibleRows
               /\ go(j).itemCount = n
      /\ \A j, l : [go(j) EXCEPT !.selectedIndex = l] = go(l)
      /\ go(i) = k
  BY <1>1 DEF Grids
<1>3. \A j : Page(go(j)) = page
  BY <1>2 DEF Page
<1>4. \A move : Moved(k, move) = go(Target(k, move))
  BY <1>1 DEF Moved
<1> HIDE DEF go
<1>5. \A j, move : Moved(go(j), move) = go(Target(go(j), move))
  BY <1>1, <1>2 DEF Moved
<1> HIDE DEF i, page, c
<1>6. CASE p = <<"Right", "Left">>
  <2>1. i + 1 <= n - 1
    BY <1>1, <1>6 DEF CutShort, i
  <2>2. Target(k, "Right") = i + 1
    BY <1>1, <2>1 DEF Target, AtMost, i
  <2>3. Target(go(i + 1), "Left") = i
    BY <1>1, <1>2 DEF Target
  <2> QED
    BY <1>2, <1>4, <1>5, <1>6, <2>2, <2>3
<1>7. CASE p = <<"Down", "Up">>
  <2>1. i + c <= n - 1
    BY <1>1, <1>7 DEF CutShort, i, c
  <2>2. Target(k, "Down") = i + c
    BY <1>1, <2>1 DEF Target, AtMost, i, c
  <2>3. Target(go(i + c), "Up") = i
    BY <1>1, <1>2 DEF Target, RowUp
  <2> QED
    BY <1>2, <1>4, <1>5, <1>7, <2>2, <2>3
<1>8. CASE p = <<"PageDown", "PageUp">>
  <2>1. i + page <= n - 1
    BY <1>1, <1>8 DEF CutShort, i, page
  <2>2. Target(k, "PageDown") = i + page
    BY <1>1, <2>1 DEF Target, AtMost, i, page
  <2>3. Target(go(i + page), "PageUp") = i
    BY <1>1, <1>2, <1>3 DEF Target
  <2> QED
    BY <1>2, <1>4, <1>5, <1>8, <2>2, <2>3
<1> QED
  BY <1>6, <1>7, <1>8 DEF Undo

(***************************************************************************)
(* What the list and the panel may hold: emoji of the catalog.             *)
(***************************************************************************)

Cataloged == Range(SequencesOf(Catalog))

LEMMA CatalogFacts ==
  /\ Catalog \in Seq(Range(Catalog))
  /\ \A r \in Range(Catalog) : r.sequence \in Cataloged
  /\ Cataloged \subseteq Sequences
  /\ \A e : InCatalog(e) <=> e \in Cataloged
  /\ Len(Categories) \in Nat /\ FirstCategory \in 0 .. Len(Categories) - 1
<1> DEFINE R == [sequence : Sequences, category : Range(Categories), base : Sequences \cup {0}]
<1>1. Catalog \in Seq(R) /\ Categories \in Seq(Range(Categories))
      /\ FirstCategory \in 0 .. Len(Categories) - 1
  BY WindowAssumption DEF WindowAssumption
<1>2. \A r \in R : r.sequence \in Sequences
  OBVIOUS
<1> HIDE DEF R
<1>3. Catalog \in Seq(Range(Catalog)) /\ Range(Catalog) \subseteq R
  BY <1>1 DEF Range
<1>4. DOMAIN SequencesOf(Catalog) = DOMAIN Catalog
      /\ \A i \in DOMAIN Catalog : SequencesOf(Catalog)[i] = Catalog[i].sequence
  BY DEF SequencesOf
<1>5. \A r \in Range(Catalog) : r.sequence \in Cataloged
  BY <1>4 DEF Range, Cataloged
<1>6. Cataloged \subseteq Sequences
  BY <1>2, <1>3, <1>4 DEF Range, Cataloged
<1>7. \A e : InCatalog(e) <=> e \in Cataloged
  BY <1>4 DEF InCatalog, Range, Cataloged
<1> QED
  BY <1>1, <1>3, <1>5, <1>6, <1>7

LEMMA SequencesOfRecords ==
  ASSUME NEW S, NEW T, NEW q \in Seq(S), \A r \in S : r.sequence \in T
  PROVE  SequencesOf(q) \in Seq(T)
<1>1. Len(q) \in Nat /\ \A i \in 1 .. Len(q) : q[i] \in S
  OBVIOUS
<1>2. SequencesOf(q) = [i \in 1 .. Len(q) |-> q[i].sequence]
  BY DEF SequencesOf
<1> QED
  BY <1>1, <1>2

LEMMA RecordsOfCatalog ==
  ASSUME NEW T
  PROVE  SequencesOf(Only(Catalog, T)) \in Seq(Cataloged)
<1>1. Only(Catalog, T) \in Seq(Range(Catalog))
  BY CatalogFacts, OnlyLeaves
<1> QED
  BY <1>1, CatalogFacts, SequencesOfRecords

LEMMA VariantsAreCataloged == ASSUME NEW e PROVE VariantsOf(e) \in Seq(Cataloged)
<1> DEFINE base == IF InCatalog(BaseOf(e)) THEN <<BaseOf(e)>> ELSE <<>>
           derived == SequencesOf(Only(Catalog, {r \in Range(Catalog) : r.base = BaseOf(e)}))
<1>1. derived \in Seq(Cataloged)
  BY RecordsOfCatalog
<1>2. base \in Seq(Cataloged)
  BY CatalogFacts
<1>3. VariantsOf(e) = base \o derived
  BY DEF VariantsOf
<1> HIDE DEF base, derived
<1> QED
  BY <1>1, <1>2, <1>3

\* A window that may be asked to list, whatever it lists now.
Asked(w) ==
  /\ HasFields(w)
  /\ w.visible \in BOOLEAN /\ w.settings \in BOOLEAN /\ w.closes \in BOOLEAN
  /\ w.variants \in Seq(Cataloged)
  /\ w.category \in 0 .. Len(Categories) - 1 /\ w.query \in Queries
  /\ w.lists \in Lists(Entries)
  /\ Distinct(w.lists.favorites) /\ OneEach(w.lists.recents)
  /\ w.details \in ItemDetails

LEMMA KnownAreCataloged ==
  ASSUME NEW q \in Seq(Sequences)
  PROVE  KnownOnly(q) \in Seq(Cataloged)
<1>1. Only(q, Cataloged) \in Seq(Sequences \cap Cataloged)
  BY OnlyProperties
<1>2. Sequences \cap Cataloged = Cataloged
  BY CatalogFacts
<1> QED
  BY <1>1, <1>2 DEF KnownOnly, Cataloged

LEMMA ListingIsCataloged ==
  ASSUME NEW w, Asked(w)
  PROVE  Listing(w) \in Seq(Cataloged)
<1> DEFINE category == Categories[w.category + 1]
           favorites == w.lists.favorites
           recents == w.lists.recents
           ofCategory == SequencesOf(Only(Catalog, {r \in Range(Catalog) : r.category = category}))
<1>1. CASE w.query # NoQuery
  <2>1. Results \in [Queries \ {NoQuery} -> Seq(Cataloged)]
    BY WindowAssumption DEF WindowAssumption, Cataloged
  <2>2. w.query \in Queries \ {NoQuery}
    BY <1>1 DEF Asked
  <2>3. Listing(w) = Results[w.query]
    BY <1>1 DEF Listing, ListingOf
  <2> QED
    BY <2>1, <2>2, <2>3
<1>2. CASE w.query = NoQuery
  <2>1. favorites \in Seq(Sequences) /\ recents \in Seq(Entries)
    BY DEF Asked, Lists
  <2>2. \A r \in Entries : r.sequence \in Sequences
    BY DEF Entries
  <2>3. Listing(w) = CASE category = "RecentlyUsed" -> KnownOnly(SequencesOf(recents))
                       [] category = "Favorites"    -> KnownOnly(favorites)
                       [] OTHER -> ofCategory
    BY <1>2 DEF Listing, ListingOf
  <2> HIDE DEF category, favorites, recents
  <2>4. SequencesOf(recents) \in Seq(Sequences)
    BY <2>1, <2>2, SequencesOfRecords
  <2>5. KnownOnly(SequencesOf(recents)) \in Seq(Cataloged)
    BY <2>4, KnownAreCataloged
  <2>6. KnownOnly(favorites) \in Seq(Cataloged)
    BY <2>1, KnownAreCataloged
  <2>7. ofCategory \in Seq(Cataloged)
    BY RecordsOfCatalog
  <2> HIDE DEF ofCategory
  <2> QED
    BY <2>3, <2>5, <2>6, <2>7
<1> QED
  BY <1>1, <1>2

(***************************************************************************)
(* A whole window: typed, its selection and its current row in the list.   *)
(***************************************************************************)

Whole(w) ==
  /\ Asked(w) /\ w.listed \in Seq(Cataloged)
  /\ GridOf(w.keyboard, Len(w.listed))
  /\ w.keyboard.categoryIndex = w.category /\ w.keyboard.categoryCount = Len(Categories)
  /\ w.current \in (IF w.listed = <<>> THEN {NoRow} ELSE 0 .. Len(w.listed) - 1)

LEMMA ItemIsCataloged ==
  ASSUME NEW w, NEW row, w.listed \in Seq(Cataloged), row \in 0 .. Len(w.listed) - 1
  PROVE  ItemAt(w, row) \in Cataloged /\ ItemAt(w, row) \in Sequences
<1>1. row + 1 \in 1 .. Len(w.listed)
  OBVIOUS
<1>2. w.listed[row + 1] \in Cataloged
  BY <1>1
<1> QED
  BY <1>2, CatalogFacts DEF ItemAt

\* updateSelection with a grid that fits the list.
LEMMA SelectedIsWhole ==
  ASSUME NEW w, NEW k, Asked(w), w.listed \in Seq(Cataloged),
         GridOf(k, Len(w.listed)), k.categoryIndex = w.category,
         k.categoryCount = Len(Categories)
  PROVE  Whole(Selected(w, k))
<1> DEFINE i == k.selectedIndex
           u == [w EXCEPT !.keyboard = k]
           row == IF w.listed = <<>> THEN NoRow ELSE i
           details == IF w.listed = <<>> THEN Blank(w.details) ELSE DetailsOf(u, ItemAt(u, i))
           v == Selected(w, k)
<1>1. /\ HasFields(u) /\ u.keyboard = k /\ u.listed = w.listed
      /\ u.visible = w.visible /\ u.settings = w.settings /\ u.closes = w.closes
      /\ u.variants = w.variants /\ u.category = w.category /\ u.query = w.query
      /\ u.lists = w.lists /\ u.details = w.details
  BY DEF Asked, HasFields
<1>2. v = [u EXCEPT !.current = row, !.details = details]
  <2>1. v = UpdateSelection(u)
    BY DEF Selected
  <2> HIDE DEF u
  <2>2. CASE w.listed = <<>>
    BY <1>1, <2>1, <2>2 DEF UpdateSelection
  <2>3. CASE w.listed # <<>>
    BY <1>1, <2>1, <2>3 DEF UpdateSelection
  <2> QED
    BY <2>2, <2>3
<1>3. row \in (IF w.listed = <<>> THEN {NoRow} ELSE 0 .. Len(w.listed) - 1)
  BY DEF GridOf
<1>4. details \in ItemDetails
  <2>1. CASE w.listed = <<>>
    BY <2>1 DEF Asked, Blank, ItemDetails
  <2>2. CASE w.listed # <<>>
    <3> DEFINE e == ItemAt(u, i)
    <3>1. i \in 0 .. Len(w.listed) - 1
      BY <2>2 DEF GridOf
    <3>2. u.listed \in Seq(Cataloged) /\ i \in 0 .. Len(u.listed) - 1
      BY <1>1, <3>1
    <3> HIDE DEF u, i
    <3>3. e \in Sequences
      BY <3>2, ItemIsCataloged
    <3> HIDE DEF e
    <3>4. IsFavorite(u, e) \in BOOLEAN /\ (Len(VariantsOf(e)) > 1) \in BOOLEAN
      BY DEF IsFavorite, Contains
    <3>5. DetailsOf(u, e) \in ItemDetails
      BY <3>3, <3>4 DEF DetailsOf, ItemDetails
    <3> QED
      BY <2>2, <3>5 DEF e
  <2> QED
    BY <2>1, <2>2
<1> HIDE DEF u, row, details, v
<1>5. /\ HasFields(v) /\ v.keyboard = k /\ v.listed = w.listed
      /\ v.visible = w.visible /\ v.settings = w.settings /\ v.closes = w.closes
      /\ v.variants = w.variants /\ v.category = w.category /\ v.query = w.query
      /\ v.lists = w.lists /\ v.current = row /\ v.details = details
  BY <1>1, <1>2 DEF HasFields
<1>6. Asked(v)
  BY <1>4, <1>5 DEF Asked
<1>7. Whole(v)
  BY <1>3, <1>5, <1>6 DEF Whole
<1> QED
  BY <1>7 DEF v

LEMMA RefreshIsWhole ==
  ASSUME NEW w, NEW size \in Sizes, NEW reset \in BOOLEAN, Asked(w),
         w.listed \in Seq(Cataloged), reset \/ w.keyboard \in Grids
  PROVE  Whole(RefreshGrid(w, size, reset))
<1> DEFINE g == IF reset THEN NewGrid ELSE w.keyboard
           n == Len(w.listed)
           k == InCategory(Resized(g, n, size.columns, size.rows), w.category, Len(Categories))
<1>1. RefreshGrid(w, size, reset) = Selected(w, k)
  BY DEF RefreshGrid, Selected
<1>2. g \in Grids
  BY NewGridIsGrid
<1>3. n \in Nat /\ w.category \in Nat /\ Len(Categories) \in Nat /\ w.category < Len(Categories)
  BY CatalogFacts DEF Asked
<1> HIDE DEF g
<1>4. GridOf(k, n) /\ k.categoryIndex = w.category /\ k.categoryCount = Len(Categories)
  <2> HIDE DEF n
  <2> QED
    BY <1>2, <1>3, RefreshedGrid
<1> HIDE DEF k
<1> QED
  BY <1>1, <1>4, SelectedIsWhole

\* The model's resets keep the keyboard and list emoji of the catalog.
LEMMA RebuiltIsAsked ==
  ASSUME NEW w, Asked(w)
  PROVE  Asked(Rebuilt(w)) /\ Rebuilt(w).listed \in Seq(Cataloged)
         /\ Rebuilt(w).keyboard = w.keyboard
<1> DEFINE list == Listing(w)
           v == Rebuilt(w)
<1>1. list \in Seq(Cataloged)
  BY ListingIsCataloged
<1>2. v = [w EXCEPT !.listed = list, !.current = NoRow] /\ HasFields(w)
  BY DEF Rebuilt, Asked
<1> HIDE DEF list, v
<1>3. /\ HasFields(v) /\ v.keyboard = w.keyboard /\ v.listed = list
      /\ v.visible = w.visible /\ v.settings = w.settings /\ v.closes = w.closes
      /\ v.variants = w.variants /\ v.category = w.category /\ v.query = w.query
      /\ v.lists = w.lists /\ v.details = w.details
  BY <1>2 DEF HasFields
<1>4. Asked(v)
  BY <1>3 DEF Asked
<1> QED
  BY <1>1, <1>3, <1>4 DEF v

\* v differs from w in what it is asked for, which stays possible.
LEMMA AskedOtherwise ==
  ASSUME NEW w, NEW category, NEW query, NEW lists, Asked(w),
         category \in 0 .. Len(Categories) - 1, query \in Queries, lists \in Lists(Entries),
         Distinct(lists.favorites), OneEach(lists.recents)
  PROVE  LET v == [w EXCEPT !.category = category, !.query = query, !.lists = lists]
         IN /\ Asked(v) /\ v.keyboard = w.keyboard /\ v.listed = w.listed
<1> DEFINE v == [w EXCEPT !.category = category, !.query = query, !.lists = lists]
<1>1. v = [w EXCEPT !.category = category, !.query = query, !.lists = lists] /\ HasFields(w)
  BY DEF Asked
<1> HIDE DEF v
<1>2. /\ HasFields(v) /\ v.keyboard = w.keyboard /\ v.listed = w.listed
      /\ v.visible = w.visible /\ v.settings = w.settings /\ v.closes = w.closes
      /\ v.variants = w.variants /\ v.category = category /\ v.query = query
      /\ v.lists = lists /\ v.details = w.details
  BY <1>1 DEF HasFields
<1>3. Asked(v)
  BY <1>2 DEF Asked
<1> QED
  BY <1>2, <1>3 DEF v

LEMMA ViewIsSize == view \in Views \cup {Unlaid} => view \in Sizes
  BY WindowAssumption DEF WindowAssumption

LEMMA SetCategoryIsWhole ==
  ASSUME NEW w, NEW index \in 0 .. Len(Categories) - 1, Asked(w), w.listed \in Seq(Cataloged),
         view \in Sizes
  PROVE  Whole(SetCategory(w, index))
<1> DEFINE m == InModelCategory(w, index)
           v == [w EXCEPT !.category = index, !.query = w.query, !.lists = w.lists]
<1>1. Asked(m) /\ m.listed \in Seq(Cataloged)
  <2>1. CASE w.category = index /\ w.query = NoQuery
    BY <2>1 DEF InModelCategory
  <2>2. CASE ~(w.category = index /\ w.query = NoQuery)
    <3>1. v = [w EXCEPT !.category = index]
      BY DEF Asked, HasFields
    <3>2. m = Rebuilt(v)
      BY <2>2, <3>1 DEF InModelCategory
    <3>3. Asked(v)
      BY AskedOtherwise DEF Asked
    <3> HIDE DEF m, v
    <3> QED
      BY <3>2, <3>3, RebuiltIsAsked
  <2> QED
    BY <2>1, <2>2
<1> HIDE DEF m
<1>2. Whole(RefreshGrid(m, view, TRUE))
  BY <1>1, RefreshIsWhole
<1> QED
  BY <1>2 DEF SetCategory, m

LEMMA UpdateSearchIsWhole ==
  ASSUME NEW w, NEW query \in Queries, Asked(w), w.listed \in Seq(Cataloged), view \in Sizes
  PROVE  Whole(UpdateSearch(w, query))
<1> DEFINE m == WithSearch(w, query)
           v == [w EXCEPT !.category = w.category, !.query = query, !.lists = w.lists]
<1>1. Asked(m) /\ m.listed \in Seq(Cataloged)
  <2>1. CASE w.query = query
    BY <2>1 DEF WithSearch
  <2>2. CASE w.query # query
    <3>1. v = [w EXCEPT !.query = query]
      BY DEF Asked, HasFields
    <3>2. m = Rebuilt(v)
      BY <2>2, <3>1 DEF WithSearch
    <3>3. Asked(v)
      BY AskedOtherwise DEF Asked
    <3> HIDE DEF m, v
    <3> QED
      BY <3>2, <3>3, RebuiltIsAsked
  <2> QED
    BY <2>1, <2>2
<1> HIDE DEF m
<1>2. Whole(RefreshGrid(m, view, TRUE))
  BY <1>1, RefreshIsWhole
<1> QED
  BY <1>2 DEF UpdateSearch, m

\* New lists, shown with the grid there was.
LEMMA NewListsAreWhole ==
  ASSUME NEW w, NEW lists \in Lists(Entries), Distinct(lists.favorites),
         OneEach(lists.recents), Asked(w), w.keyboard \in Grids, view \in Sizes
  PROVE  Whole(RefreshGrid(Rebuilt([w EXCEPT !.lists = lists]), view, FALSE))
<1> DEFINE v == [w EXCEPT !.category = w.category, !.query = w.query, !.lists = lists]
           m == Rebuilt(v)
<1>1. v = [w EXCEPT !.lists = lists]
  BY DEF Asked, HasFields
<1>2. Asked(v) /\ v.keyboard = w.keyboard
  <2>1. w.category \in 0 .. Len(Categories) - 1 /\ w.query \in Queries
    BY DEF Asked
  <2>2. Asked(v)
    BY <2>1, AskedOtherwise, Zenon
  <2>3. v.keyboard = w.keyboard
    BY DEF Asked, HasFields
  <2> QED
    BY <2>2, <2>3
<1> HIDE DEF v
<1>3. Asked(m) /\ m.listed \in Seq(Cataloged) /\ m.keyboard \in Grids
  BY <1>2, RebuiltIsAsked
<1> HIDE DEF m
<1>4. Whole(RefreshGrid(m, view, FALSE))
  BY <1>3, RefreshIsWhole
<1> QED
  BY <1>1, <1>4 DEF m

LEMMA RememberedIsWhole ==
  ASSUME NEW w, NEW e \in Sequences, NEW now \in Times, Asked(w), w.keyboard \in Grids,
         view \in Sizes
  PROVE  Whole(Remembered(w, e, now)) /\ Remembered(w, e, now).visible = w.visible
<1> DEFINE lists == RecordUse(w.lists, e, now)
<1>1. Entries = EntriesOf(Nat \ {0}, Nat) /\ now \in Nat
  BY WindowAssumption DEF WindowAssumption, Entries, EntriesOf
<1>2. Countable(Nat \ {0}, Nat, Nat \ {0})
  BY DEF Countable
<1>3. w.lists \in Lists(EntriesOf(Nat \ {0}, Nat)) /\ OneEach(w.lists.recents)
  BY <1>1 DEF Asked
<1>4. /\ lists \in Lists(EntriesOf(Nat \ {0}, Nat)) /\ lists.favorites = w.lists.favorites
      /\ OneEach(lists.recents)
  BY <1>1, <1>2, <1>3, RecordUseProperties
<1>5. Remembered(w, e, now) = RefreshGrid(Rebuilt([w EXCEPT !.lists = lists]), view, FALSE)
  BY DEF Remembered
<1> HIDE DEF lists
<1>6. Whole(Remembered(w, e, now))
  BY <1>1, <1>4, <1>5, NewListsAreWhole DEF Asked
<1>7. SamePanels(Remembered(w, e, now), w)
  BY <1>5, NewListsAreSound DEF Asked
<1> QED
  BY <1>6, <1>7 DEF SamePanels

LEMMA ToggledIsWhole ==
  ASSUME NEW w, Whole(w), view \in Sizes
  PROVE  Whole(Toggled(w))
<1>1. CASE w.current = NoRow
  BY <1>1 DEF Toggled
<1>2. CASE w.current # NoRow
  <2> DEFINE e == ItemAt(w, w.current)
             lists == ToggleFavorite(w.lists, e)
  <2>1. e \in Sequences
    BY <1>2, ItemIsCataloged DEF Whole
  <2>2. w.lists \in Lists(Entries) /\ Distinct(w.lists.favorites) /\ OneEach(w.lists.recents)
        /\ w.keyboard \in Grids /\ Asked(w)
    BY DEF Whole, Asked, GridOf
  <2>3. Toggled(w) = RefreshGrid(Rebuilt([w EXCEPT !.lists = lists]), view, FALSE)
    BY <1>2 DEF Toggled
  <2> HIDE DEF e
  <2>4. lists \in Lists(Entries) /\ Distinct(lists.favorites) /\ lists.recents = w.lists.recents
    BY <2>1, <2>2, ToggleProperties
  <2> HIDE DEF lists
  <2> QED
    BY <2>2, <2>3, <2>4, NewListsAreWhole
<1> QED
  BY <1>1, <1>2

\* v differs from w in its panels, its visibility and where its current row is.
LEMMA OtherPanelsAreWhole ==
  ASSUME NEW w, Whole(w), NEW v, HasFields(v), SameContents(v, w),
         v.visible \in BOOLEAN, v.settings \in BOOLEAN, v.closes \in BOOLEAN,
         v.variants \in Seq(Cataloged),
         v.current \in (IF w.listed = <<>> THEN {NoRow} ELSE 0 .. Len(w.listed) - 1)
  PROVE  Whole(v)
<1>1. Asked(v)
  BY DEF Whole, Asked, SameContents, SameRequest
<1> QED
  BY <1>1 DEF Whole, SameContents, SameRequest

LEMMA HiddenIsWhole == ASSUME NEW w, Whole(w) PROVE Whole(Hidden(w))
<1> DEFINE v == Hidden(w)
<1>1. HasFields(w) /\ v = [w EXCEPT !.visible = FALSE, !.settings = FALSE, !.variants = <<>>]
  BY DEF Whole, Asked, Hidden
<1> HIDE DEF v
<1>2. /\ HasFields(v) /\ SameContents(v, w) /\ v.visible = FALSE /\ v.settings = FALSE
      /\ v.variants = <<>> /\ v.closes = w.closes /\ v.current = w.current
  BY <1>1 DEF HasFields, SameContents, SameRequest
<1>3. w.closes \in BOOLEAN
      /\ w.current \in (IF w.listed = <<>> THEN {NoRow} ELSE 0 .. Len(w.listed) - 1)
  BY DEF Whole, Asked
<1>4. v.visible \in BOOLEAN /\ v.settings \in BOOLEAN /\ v.closes \in BOOLEAN
  BY <1>2, <1>3, Zenon
<1>5. v.variants \in Seq(Cataloged)
  BY <1>2
<1>6. Whole(v)
  BY <1>2, <1>3, <1>4, <1>5, OtherPanelsAreWhole
<1> QED
  BY <1>6 DEF v

LEMMA ShowVariantsIsWhole == ASSUME NEW w, Whole(w) PROVE Whole(ShowVariants(w))
<1> DEFINE v == ShowVariants(w)
           variants == VariantsOf(ItemAt(w, w.current))
           panel == IF Len(variants) > 1 THEN variants ELSE <<>>
<1>1. CASE w.current = NoRow
  BY <1>1 DEF ShowVariants
<1>2. CASE w.current # NoRow
  <2>1. v = [w EXCEPT !.variants = panel] /\ HasFields(w)
    BY <1>2 DEF ShowVariants, Whole, Asked
  <2>2. panel \in Seq(Cataloged)
    BY VariantsAreCataloged
  <2> HIDE DEF v, panel
  <2>3. /\ HasFields(v) /\ SameContents(v, w) /\ v.visible = w.visible
        /\ v.settings = w.settings /\ v.variants = panel /\ v.closes = w.closes
        /\ v.current = w.current
    BY <2>1 DEF HasFields, SameContents, SameRequest
  <2>4. /\ w.closes \in BOOLEAN /\ w.visible \in BOOLEAN /\ w.settings \in BOOLEAN
        /\ w.current \in (IF w.listed = <<>> THEN {NoRow} ELSE 0 .. Len(w.listed) - 1)
    BY DEF Whole, Asked
  <2>5. Whole(v)
    BY <2>2, <2>3, <2>4, OtherPanelsAreWhole
  <2> QED
    BY <2>5 DEF v
<1> QED
  BY <1>1, <1>2

(***************************************************************************)
(* The window stays whole, and reports emoji of the catalog.               *)
(***************************************************************************)

Reports == {NoSignal, Cancellation} \cup {Selection(e) : e \in Cataloged}

WholeInv ==
  /\ Whole(window)
  /\ view \in Views \cup {Unlaid} /\ serving \in BOOLEAN
  /\ signal \in Reports /\ changes \in 0 .. MaxChanges

LEMMA WholeInit == Init => WholeInv
<1> SUFFICES ASSUME Init PROVE WholeInv
  OBVIOUS
<1>1. PICK lists \in StoredStates : window = NewWindow(lists)
  BY DEF Init
<1> DEFINE w == [visible |-> FALSE, settings |-> FALSE, variants |-> <<>>, closes |-> FALSE,
                 category |-> FirstCategory, query |-> NoQuery, lists |-> lists,
                 listed |-> <<>>, current |-> NoRow, details |-> NoDetails,
                 keyboard |-> NewGrid]
<1>2. window = RefreshGrid(Rebuilt(w), Unlaid, TRUE)
  BY <1>1 DEF NewWindow
<1>3. /\ HasFields(w) /\ w.visible = FALSE /\ w.settings = FALSE /\ w.variants = <<>>
      /\ w.closes = FALSE /\ w.category = FirstCategory /\ w.query = NoQuery
      /\ w.lists = lists /\ w.details = NoDetails
  BY DEF HasFields
<1> HIDE DEF w
<1>4. lists \in Lists(Entries) /\ Serializable(lists) /\ NoQuery \in Queries /\ Unlaid \in Sizes
      /\ 0 \in 0 .. MaxChanges
  BY WindowAssumption DEF WindowAssumption
<1>5. Distinct(lists.favorites) /\ OneEach(lists.recents)
  BY <1>4 DEF Serializable, Distinct, OneEach
<1>6. <<>> \in Seq(Cataloged) /\ FALSE \in BOOLEAN /\ NoDetails \in ItemDetails
  BY CatalogFacts DEF NoDetails, ItemDetails
<1>7. Asked(w)
  BY <1>3, <1>4, <1>5, <1>6, CatalogFacts DEF Asked
<1>8. Asked(Rebuilt(w)) /\ Rebuilt(w).listed \in Seq(Cataloged)
  BY <1>7, RebuiltIsAsked
<1>9. Whole(window)
  BY <1>2, <1>4, <1>8, RefreshIsWhole
<1>10. view = Unlaid /\ serving = FALSE /\ signal = NoSignal /\ changes = 0
  BY DEF Init
<1> QED
  BY <1>4, <1>9, <1>10 DEF WholeInv, Reports

LEMMA SelectedMoveIsWhole ==
  ASSUME Whole(window), NEW move \in Moves
  PROVE  Whole(Selected(window, Moved(window.keyboard, move)))
<1> DEFINE k == Moved(window.keyboard, move)
           n == Len(window.listed)
<1>1. Asked(window) /\ window.listed \in Seq(Cataloged) /\ GridOf(window.keyboard, n) /\ n \in Nat
      /\ window.keyboard.categoryIndex = window.category
      /\ window.keyboard.categoryCount = Len(Categories)
  BY DEF Whole
<1>2. /\ GridOf(k, n) /\ k.categoryIndex = window.category
      /\ k.categoryCount = Len(Categories)
  BY <1>1, MoveStays
<1> HIDE DEF k
<1> QED
  BY <1>1, <1>2, SelectedIsWhole DEF k

\* A choice, of whatever window may be asked.
LEMMA ChoiceIsWhole ==
  ASSUME WholeInv, NEW e \in Cataloged, NEW w, Asked(w), w.keyboard \in Grids, Choose(w, e)
  PROVE  WholeInv'
<1>1. view \in Sizes /\ e \in Sequences
  BY ViewIsSize, CatalogFacts DEF WholeInv
<1>2. PICK now \in Times :
        window' = IF w.closes THEN Hidden(Remembered(w, e, now)) ELSE Remembered(w, e, now)
  BY DEF Choose
<1>3. Whole(Remembered(w, e, now))
  BY <1>1, RememberedIsWhole
<1>4. Whole(window')
  BY <1>2, <1>3, HiddenIsWhole
<1>5. /\ view' = view /\ serving' = FALSE /\ signal' = Selection(e)
      /\ changes < MaxChanges /\ changes' = changes + 1
  BY DEF Choose
<1>6. signal' \in Reports
  BY <1>5 DEF Reports
<1>7. view' \in Views \cup {Unlaid} /\ serving' \in BOOLEAN
  BY <1>5 DEF WholeInv
<1>8. changes' \in 0 .. MaxChanges
  BY <1>5, WindowAssumption DEF WindowAssumption, WholeInv
<1> QED
  BY <1>4, <1>6, <1>7, <1>8 DEF WholeInv

\* A step that tells the session nothing and changes no list.
LEMMA SilentKeeps ==
  ASSUME WholeInv, Whole(window'), Silent, view' \in Views \cup {Unlaid},
         serving' \in BOOLEAN, changes' = changes
  PROVE  WholeInv'
BY DEF WholeInv, Silent, Reports

LEMMA WholeSessionStep ==
  ASSUME WholeInv,
         ShowPalette \/ HidePalette \/ CommandSearchText \/ CommandCancel
  PROVE  WholeInv'
<1>0. Whole(window) /\ Asked(window) /\ window.listed \in Seq(Cataloged) /\ view \in Sizes
  BY ViewIsSize DEF WholeInv, Whole
<1>1. CASE ShowPalette
  <2>1. PICK closes \in CloseSettings :
          window' = [(IF [window EXCEPT !.closes = closes].visible
                      THEN [window EXCEPT !.closes = closes]
                      ELSE UpdateSearch([window EXCEPT !.closes = closes], NoQuery))
                     EXCEPT !.visible = TRUE]
    BY <1>1 DEF ShowPalette
  <2> DEFINE w == [window EXCEPT !.closes = closes]
             u == IF w.visible THEN w ELSE UpdateSearch(w, NoQuery)
  <2>2. /\ HasFields(w) /\ SameContents(w, window) /\ w.visible = window.visible
        /\ w.settings = window.settings /\ w.variants = window.variants
        /\ w.current = window.current /\ w.closes = closes
    BY <1>0 DEF Asked, HasFields, SameContents, SameRequest
  <2>3. window' = [u EXCEPT !.visible = TRUE]
    BY <2>1
  <2> HIDE DEF w
  <2>4. closes \in BOOLEAN /\ NoQuery \in Queries /\ Views \subseteq Views \cup {Unlaid}
    BY WindowAssumption DEF WindowAssumption
  <2>5. Whole(w)
    <3>1. /\ window.visible \in BOOLEAN /\ window.settings \in BOOLEAN
          /\ window.variants \in Seq(Cataloged)
          /\ window.current \in (IF window.listed = <<>> THEN {NoRow}
                                 ELSE 0 .. Len(window.listed) - 1)
      BY <1>0 DEF Whole, Asked
    <3> QED
      BY <1>0, <2>2, <2>4, <3>1, OtherPanelsAreWhole
  <2>6. Whole(u)
    BY <1>0, <2>4, <2>5, UpdateSearchIsWhole DEF Whole
  <2> HIDE DEF u
  <2>7. /\ HasFields(window') /\ SameContents(window', u) /\ window'.visible = TRUE
        /\ window'.settings = u.settings /\ window'.variants = u.variants
        /\ window'.current = u.current /\ window'.closes = u.closes
    BY <2>3, <2>6 DEF Whole, Asked, HasFields, SameContents, SameRequest
  <2>8. Whole(window')
    <3>1. /\ u.settings \in BOOLEAN /\ u.closes \in BOOLEAN /\ u.variants \in Seq(Cataloged)
          /\ u.current \in (IF u.listed = <<>> THEN {NoRow} ELSE 0 .. Len(u.listed) - 1)
      BY <2>6 DEF Whole, Asked
    <3>2. window'.visible \in BOOLEAN
      BY <2>7, Zenon
    <3> QED
      BY <2>6, <2>7, <3>1, <3>2, OtherPanelsAreWhole
  <2>9. view' \in Views \cup {Unlaid} /\ serving' \in BOOLEAN /\ Silent /\ changes' = changes
    BY <1>1 DEF ShowPalette
  <2> QED
    BY <2>8, <2>9, SilentKeeps
<1>2. CASE HidePalette
  <2>1. Whole(window')
    BY <1>0, <1>2, HiddenIsWhole DEF HidePalette
  <2>2. view' \in Views \cup {Unlaid} /\ serving' \in BOOLEAN /\ Silent /\ changes' = changes
    BY <1>2 DEF HidePalette, WholeInv
  <2> QED
    BY <2>1, <2>2, SilentKeeps
<1>3. CASE CommandSearchText
  <2>1. PICK query \in Queries : window' = UpdateSearch(window, query)
    BY <1>3 DEF CommandSearchText
  <2>2. Whole(window')
    BY <1>0, <2>1, UpdateSearchIsWhole
  <2>3. view' \in Views \cup {Unlaid} /\ serving' \in BOOLEAN /\ Silent /\ changes' = changes
    BY <1>3 DEF CommandSearchText, OnlyWindow, WholeInv
  <2> QED
    BY <2>2, <2>3, SilentKeeps
<1>4. CASE CommandCancel
  <2>1. CASE window.settings
    <3>1. window' = [window EXCEPT !.settings = FALSE]
      BY <1>4, <2>1 DEF CommandCancel
    <3>2. /\ HasFields(window') /\ SameContents(window', window)
          /\ window'.visible = window.visible /\ window'.settings = FALSE
          /\ window'.variants = window.variants /\ window'.closes = window.closes
          /\ window'.current = window.current
      BY <1>0, <3>1 DEF Asked, HasFields, SameContents, SameRequest
    <3>3. /\ window.visible \in BOOLEAN /\ window.closes \in BOOLEAN
          /\ window.variants \in Seq(Cataloged)
          /\ window.current \in (IF window.listed = <<>> THEN {NoRow}
                                 ELSE 0 .. Len(window.listed) - 1)
      BY <1>0 DEF Whole, Asked
    <3>4. window'.settings \in BOOLEAN
      BY <3>2, Zenon
    <3>5. Whole(window')
      BY <1>0, <3>2, <3>3, <3>4, OtherPanelsAreWhole
    <3>6. view' \in Views \cup {Unlaid} /\ serving' \in BOOLEAN /\ Silent /\ changes' = changes
      BY <1>4, <2>1 DEF CommandCancel, OnlyWindow, WholeInv
    <3> QED
      BY <3>5, <3>6, SilentKeeps
  <2>2. CASE ~window.settings
    <3>1. /\ window' = Hidden(window) /\ serving' = FALSE /\ signal' = Cancellation
          /\ UNCHANGED <<view, changes>>
      BY <1>4, <2>2 DEF CommandCancel
    <3> QED
      BY <1>0, <3>1, HiddenIsWhole DEF WholeInv, Reports
  <2> QED
    BY <2>1, <2>2
<1> QED
  BY <1>1, <1>2, <1>3, <1>4

LEMMA ToggleIsWhole ==
  ASSUME WholeInv, ToggleCurrent
  PROVE  WholeInv'
<1>1. Whole(window') /\ signal' \in Reports
  BY ToggledIsWhole, ViewIsSize DEF WholeInv, ToggleCurrent, Silent, Reports
<1>2. UNCHANGED <<view, serving>> /\ changes < MaxChanges /\ changes' = changes + 1
  BY DEF ToggleCurrent
<1>3. changes' \in 0 .. MaxChanges
  BY <1>2, WindowAssumption DEF WindowAssumption, WholeInv
<1> QED
  BY <1>1, <1>2, <1>3 DEF WholeInv

LEMMA VariantsStepIsWhole ==
  ASSUME WholeInv, window' = ShowVariants(window), OnlyWindow
  PROVE  WholeInv'
<1>1. Whole(window')
  BY ShowVariantsIsWhole DEF WholeInv
<1>2. view' \in Views \cup {Unlaid} /\ serving' \in BOOLEAN /\ Silent /\ changes' = changes
  BY DEF OnlyWindow, WholeInv
<1> QED
  BY <1>1, <1>2, SilentKeeps

LEMMA TurnedIndex ==
  ASSUME NEW g \in Grids, NEW n \in Nat, g.categoryCount = n, n > 1, g.categoryIndex < n,
         NEW turn \in Turns
  PROVE  Turned(g, turn).categoryIndex \in 0 .. n - 1
<1> DEFINE step == IF turn = "NextCategory" THEN 1 ELSE n - 1
           index == (g.categoryIndex + step) % n
<1>1. g.categoryIndex \in Nat /\ step \in Nat
  BY DEF Grids
<1> HIDE DEF step
<1>2. index \in 0 .. n - 1
  BY <1>1
<1>3. Turned(g, turn) = [g EXCEPT !.selectedIndex = 0, !.categoryIndex = index]
  BY DEF Turned, step
<1> HIDE DEF index
<1>4. Turned(g, turn).categoryIndex = index
  BY <1>3 DEF Grids
<1> QED
  BY <1>2, <1>4

LEMMA WholeCommandStep ==
  ASSUME WholeInv,
         \/ CommandMove \/ CommandTurn \/ CommandSelect \/ CommandToggleFavorite
         \/ CommandShowVariants
  PROVE  WholeInv'
<1>0. Whole(window) /\ Asked(window) /\ window.listed \in Seq(Cataloged) /\ view \in Sizes
      /\ window.keyboard \in Grids
  BY ViewIsSize DEF WholeInv, Whole, GridOf
<1>1. CASE CommandMove
  <2>1. PICK move \in Moves :
          window' = IF Moved(window.keyboard, move) = window.keyboard THEN window
                    ELSE Selected(window, Moved(window.keyboard, move))
    BY <1>1 DEF CommandMove
  <2>2. Whole(window')
    BY <1>0, <2>1, SelectedMoveIsWhole
  <2>3. view' \in Views \cup {Unlaid} /\ serving' \in BOOLEAN /\ Silent /\ changes' = changes
    BY <1>1 DEF CommandMove, OnlyWindow, WholeInv
  <2> QED
    BY <2>2, <2>3, SilentKeeps
<1>2. CASE CommandTurn
  <2>1. PICK turn \in Turns :
          window' = IF window.keyboard.categoryCount <= 1 THEN window
                    ELSE SetCategory([window EXCEPT !.keyboard = Turned(window.keyboard, turn)],
                                     Turned(window.keyboard, turn).categoryIndex)
    BY <1>2 DEF CommandTurn
  <2> DEFINE k == Turned(window.keyboard, turn)
             w == [window EXCEPT !.keyboard = k]
             index == k.categoryIndex
  <2>2. Whole(window')
    <3>1. CASE window.keyboard.categoryCount <= 1
      BY <1>0, <2>1, <3>1
    <3>2. CASE ~(window.keyboard.categoryCount <= 1)
      <4>1. window' = SetCategory(w, index)
        BY <2>1, <3>2
      <4>2. /\ window.keyboard.categoryIndex = window.category
            /\ window.keyboard.categoryCount = Len(Categories) /\ Len(Categories) \in Nat
            /\ window.category \in 0 .. Len(Categories) - 1
        BY <1>0, CatalogFacts DEF Whole, Asked
      <4>3. index \in 0 .. Len(Categories) - 1
        BY <1>0, <3>2, <4>2, TurnedIndex
      <4>4. /\ HasFields(w) /\ w.listed = window.listed /\ w.visible = window.visible
            /\ w.settings = window.settings /\ w.closes = window.closes
            /\ w.variants = window.variants /\ w.category = window.category
            /\ w.query = window.query /\ w.lists = window.lists
            /\ w.details = window.details
        BY <1>0 DEF Asked, HasFields
      <4> HIDE DEF w, index
      <4>5. Asked(w) /\ w.listed \in Seq(Cataloged)
        BY <1>0, <4>4 DEF Asked
      <4> QED
        BY <1>0, <4>1, <4>3, <4>5, SetCategoryIsWhole
    <3> QED
      BY <3>1, <3>2
  <2>3. view' \in Views \cup {Unlaid} /\ serving' \in BOOLEAN /\ Silent /\ changes' = changes
    BY <1>2 DEF CommandTurn, OnlyWindow, WholeInv
  <2> QED
    BY <2>2, <2>3, SilentKeeps
<1>3. CASE CommandSelect
  <2>1. CASE window.keyboard.itemCount = 0 \/ window.current = NoRow
    <3>1. UNCHANGED window /\ OnlyWindow
      BY <1>3, <2>1 DEF CommandSelect
    <3>2. view' \in Views \cup {Unlaid} /\ serving' \in BOOLEAN /\ Silent /\ changes' = changes
      BY <3>1 DEF OnlyWindow, WholeInv
    <3> QED
      BY <1>0, <3>1, <3>2, SilentKeeps
  <2>2. CASE ~(window.keyboard.itemCount = 0 \/ window.current = NoRow)
    <3>1. Choose(window, ItemAt(window, window.current))
      BY <1>3, <2>2 DEF CommandSelect
    <3>2. window.current \in 0 .. Len(window.listed) - 1
      BY <1>0, <2>2 DEF Whole
    <3>3. ItemAt(window, window.current) \in Cataloged
      BY <1>0, <3>2, ItemIsCataloged
    <3> QED
      BY <1>0, <3>1, <3>3, ChoiceIsWhole
  <2> QED
    BY <2>1, <2>2
<1>4. CASE CommandToggleFavorite
  BY <1>4, ToggleIsWhole DEF CommandToggleFavorite
<1>5. CASE CommandShowVariants
  BY <1>5, VariantsStepIsWhole DEF CommandShowVariants
<1> QED
  BY <1>1, <1>2, <1>3, <1>4, <1>5

LEMMA WholeClickStep ==
  ASSUME WholeInv,
         \/ \E row \in Rows : ClickItem(row) \/ RightClickItem(row)
         \/ \E index \in 0 .. Len(Categories) - 1 : ClickCategory(index)
         \/ ClickVariant \/ ClickFavorite \/ ClickVariants \/ ClickSettings
         \/ ClickSize \/ LaidOut
  PROVE  WholeInv'
<1>0. Whole(window) /\ Asked(window) /\ window.listed \in Seq(Cataloged) /\ view \in Sizes
      /\ window.keyboard \in Grids /\ HasFields(window)
  BY ViewIsSize DEF WholeInv, Whole, GridOf, Asked
<1>1. ASSUME NEW row \in Rows, ClickItem(row)
      PROVE  WholeInv'
  <2> DEFINE w == [window EXCEPT !.current = row]
             item == ItemAt(window, row)
  <2>1. Choose(w, item) /\ row < Len(window.listed)
    BY <1>1 DEF ClickItem
  <2>2. /\ HasFields(w) /\ w.visible = window.visible
        /\ w.settings = window.settings /\ w.closes = window.closes
        /\ w.variants = window.variants /\ w.category = window.category
        /\ w.query = window.query /\ w.lists = window.lists /\ w.keyboard = window.keyboard
        /\ w.details = window.details
    BY <1>0 DEF HasFields
  <2>3. row \in 0 .. Len(window.listed) - 1
    BY <1>0, <2>1, CatalogFacts DEF Rows
  <2>4. item \in Cataloged
    BY <1>0, <2>3, ItemIsCataloged
  <2> HIDE DEF w, item
  <2>5. Asked(w) /\ w.keyboard \in Grids
    BY <1>0, <2>2 DEF Asked
  <2> QED
    BY <2>1, <2>4, <2>5, ChoiceIsWhole
<1>2. ASSUME NEW row \in Rows, RightClickItem(row)
      PROVE  WholeInv'
  <2> DEFINE w == [window EXCEPT !.current = row, !.settings = FALSE]
  <2>1. window' = ShowVariants(w) /\ row < Len(window.listed) /\ OnlyWindow
    BY <1>2 DEF RightClickItem
  <2>2. /\ HasFields(w) /\ SameContents(w, window) /\ w.visible = window.visible
        /\ w.settings = FALSE /\ w.variants = window.variants
        /\ w.closes = window.closes /\ w.current = row
    <3>1. w = [window EXCEPT !.current = row, !.settings = FALSE]
      OBVIOUS
    <3> HIDE DEF w
    <3> QED
      BY <1>0, <3>1 DEF HasFields, SameContents, SameRequest
  <2>3. row \in (IF window.listed = <<>> THEN {NoRow} ELSE 0 .. Len(window.listed) - 1)
    BY <1>0, <2>1, CatalogFacts DEF Rows
  <2>4. /\ window.visible \in BOOLEAN /\ window.closes \in BOOLEAN
        /\ window.variants \in Seq(Cataloged)
    BY <1>0 DEF Asked
  <2> HIDE DEF w
  <2>5. w.settings \in BOOLEAN
    BY <2>2, Zenon
  <2>6. Whole(w)
    BY <1>0, <2>2, <2>3, <2>4, <2>5, OtherPanelsAreWhole
  <2>7. Whole(window')
    BY <2>1, <2>6, ShowVariantsIsWhole
  <2>8. view' \in Views \cup {Unlaid} /\ serving' \in BOOLEAN /\ Silent /\ changes' = changes
    BY <2>1 DEF OnlyWindow, WholeInv
  <2> QED
    BY <2>7, <2>8, SilentKeeps
<1>3. ASSUME NEW index \in 0 .. Len(Categories) - 1, ClickCategory(index)
      PROVE  WholeInv'
  <2>1. Whole(window')
    BY <1>0, <1>3, SetCategoryIsWhole DEF ClickCategory
  <2>2. view' \in Views \cup {Unlaid} /\ serving' \in BOOLEAN /\ Silent /\ changes' = changes
    BY <1>3 DEF ClickCategory, OnlyWindow, WholeInv
  <2> QED
    BY <2>1, <2>2, SilentKeeps
<1>4. CASE ClickVariant
  <2>1. PICK i \in DOMAIN window.variants : Choose(window, window.variants[i])
    BY <1>4 DEF ClickVariant
  <2>2. window.variants \in Seq(Cataloged)
    BY <1>0 DEF Asked
  <2>3. window.variants[i] \in Cataloged
    BY <2>1, <2>2
  <2> QED
    BY <1>0, <2>1, <2>3, ChoiceIsWhole
<1>5. CASE ClickFavorite
  BY <1>5, ToggleIsWhole DEF ClickFavorite
<1>6. CASE ClickVariants
  BY <1>6, VariantsStepIsWhole DEF ClickVariants
<1>7. CASE ClickSettings
  <2> DEFINE settings == ~window.settings
  <2>1. window' = [window EXCEPT !.settings = settings] /\ OnlyWindow
    BY <1>7 DEF ClickSettings
  <2>2. settings \in BOOLEAN
    OBVIOUS
  <2> HIDE DEF settings
  <2>3. /\ HasFields(window') /\ SameContents(window', window)
        /\ window'.visible = window.visible /\ window'.settings = settings
        /\ window'.variants = window.variants /\ window'.closes = window.closes
        /\ window'.current = window.current
    BY <1>0, <2>1 DEF HasFields, SameContents, SameRequest
  <2>4. /\ window.visible \in BOOLEAN /\ window.closes \in BOOLEAN
        /\ window.variants \in Seq(Cataloged)
        /\ window.current \in (IF window.listed = <<>> THEN {NoRow}
                               ELSE 0 .. Len(window.listed) - 1)
    BY <1>0 DEF Whole, Asked
  <2>5. Whole(window')
    BY <1>0, <2>2, <2>3, <2>4, OtherPanelsAreWhole
  <2>6. view' \in Views \cup {Unlaid} /\ serving' \in BOOLEAN /\ Silent /\ changes' = changes
    BY <2>1 DEF OnlyWindow, WholeInv
  <2> QED
    BY <2>5, <2>6, SilentKeeps
<1>8. CASE ClickSize
  <2>1. window' = RefreshGrid(window, view', FALSE) /\ view' \in Views
        /\ Silent /\ UNCHANGED <<serving, changes>>
    BY <1>8 DEF ClickSize
  <2>2. view' \in Sizes /\ FALSE \in BOOLEAN
    BY <2>1, WindowAssumption DEF WindowAssumption
  <2>3. Whole(window')
    BY <1>0, <2>1, <2>2, RefreshIsWhole
  <2> QED
    BY <2>1, <2>3, SilentKeeps DEF WholeInv
<1>9. CASE LaidOut
  <2>1. view' \in Views /\ Silent /\ UNCHANGED <<window, serving, changes>>
    BY <1>9 DEF LaidOut
  <2> QED
    BY <1>0, <2>1, SilentKeeps DEF WholeInv
<1> QED
  BY <1>1, <1>2, <1>3, <1>4, <1>5, <1>6, <1>7, <1>8, <1>9

LEMMA WholeStep ==
  ASSUME WholeInv, [Next]_vars
  PROVE  WholeInv'
<1>1. CASE UNCHANGED vars
  BY <1>1 DEF vars, WholeInv
<1> QED
  BY <1>1, WholeSessionStep, WholeCommandStep, WholeClickStep DEF Next

LEMMA WholeInvariant == Spec => []WholeInv
  BY WholeInit, WholeStep, PTL DEF Spec

\* Every field of the window keeps its type.
THEOREM WindowTypeCorrect == Spec => []TypeOK
<1>1. ASSUME WholeInv PROVE TypeOK
  <2>1. Whole(window) /\ Asked(window) /\ Cataloged \subseteq Sequences
    BY <1>1, CatalogFacts DEF WholeInv, Whole
  <2>2. window.listed \in Seq(Sequences) /\ window.variants \in Seq(Sequences)
    BY <2>1, SeqMonotonic DEF Whole, Asked
  <2>3. window.current \in Nat \cup {NoRow}
    BY <2>1 DEF Whole
  <2>4. IsWindow(window)
    BY <2>1, <2>2, <2>3 DEF IsWindow, Whole, Asked, GridOf
  <2>5. signal \in {NoSignal, Cancellation} \cup {Selection(e) : e \in Sequences}
    BY <1>1, <2>1 DEF WholeInv, Reports
  <2> QED
    BY <1>1, <2>4, <2>5 DEF TypeOK, WholeInv
<1> QED
  BY <1>1, WholeInvariant, PTL

\* The keyboard counts the items and categories there are, and both selections are
\* among the items, whatever the lists, the searches and the grid's sizes are.
THEOREM GridStaysMatched == Spec => []GridMatchesList
<1>1. ASSUME WholeInv PROVE GridMatchesList
  <2>1. Whole(window) /\ Len(window.listed) \in Nat
        /\ (Len(window.listed) = 0 <=> window.listed = <<>>)
    BY <1>1 DEF WholeInv, Whole
  <2>2. CASE window.listed = <<>>
    BY <2>1, <2>2 DEF Whole, GridOf, GridMatchesList
  <2>3. CASE window.listed # <<>>
    BY <2>1, <2>3 DEF Whole, GridOf, GridMatchesList
  <2> QED
    BY <2>2, <2>3
<1> QED
  BY <1>1, WholeInvariant, PTL

\* A key forward and the key back lead to the same item, in every grid.
THEOREM KeysLeadBack == Spec => []BackAgain
<1>1. ASSUME WholeInv PROVE BackAgain
  <2>1. GridOf(window.keyboard, Len(window.listed)) /\ Len(window.listed) \in Nat
    BY <1>1 DEF WholeInv, Whole
  <2> QED
    BY <2>1, MoveBack DEF BackAgain
<1> QED
  BY <1>1, WholeInvariant, PTL

\* What the session is told to insert is in the catalog, whatever the stored lists name.
THEOREM OnlyCatalogIsReported == Spec => []ReportsCatalogEmoji
<1>1. ASSUME WholeInv, signal.kind = "selected" PROVE InCatalog(signal.sequence)
  <2>1. signal # NoSignal /\ signal # Cancellation
    BY <1>1 DEF NoSignal, Cancellation
  <2>2. PICK e \in Cataloged : signal = Selection(e)
    BY <1>1, <2>1 DEF WholeInv, Reports
  <2> QED
    BY <2>2, CatalogFacts DEF Selection
<1>2. WholeInv => ReportsCatalogEmoji
  BY <1>1 DEF ReportsCatalogEmoji
<1> QED
  BY <1>2, WholeInvariant, PTL
(***************************************************************************)
(* The window does for the session what SessionWindow says.                *)
(***************************************************************************)

\* v is to the session what w is.
SameSession(v, w) ==
  /\ v.visible = w.visible /\ v.settings = w.settings
  /\ v.closes = w.closes /\ v.query = w.query

LEMMA RebuiltForSession ==
  ASSUME NEW w, HasFields(w)
  PROVE  HasFields(Rebuilt(w)) /\ SameSession(Rebuilt(w), w)
<1> DEFINE list == Listing(w)
<1>1. Rebuilt(w) = [w EXCEPT !.listed = list, !.current = NoRow]
  BY DEF Rebuilt
<1> HIDE DEF list
<1> QED
  BY <1>1 DEF HasFields, SameSession

LEMMA SelectedForSession ==
  ASSUME NEW w, NEW k, HasFields(w)
  PROVE  HasFields(Selected(w, k)) /\ SameSession(Selected(w, k), w)
<1> DEFINE v == [w EXCEPT !.keyboard = k]
<1>1. HasFields(v) /\ SameSession(v, w)
  BY DEF HasFields, SameSession
<1>2. Selected(w, k) = UpdateSelection(v)
  BY DEF Selected
<1> HIDE DEF v
<1> QED
  BY <1>1, <1>2, UpdateMatches DEF SamePanels, SameRequest, SameSession

LEMMA RefreshForSession ==
  ASSUME NEW w, NEW size, NEW reset, HasFields(w)
  PROVE  /\ HasFields(RefreshGrid(w, size, reset))
         /\ SameSession(RefreshGrid(w, size, reset), w)
<1> DEFINE k == InCategory(Resized(IF reset THEN NewGrid ELSE w.keyboard, Len(w.listed),
                                   size.columns, size.rows),
                           w.category, Len(Categories))
<1>1. RefreshGrid(w, size, reset) = Selected(w, k)
  BY DEF RefreshGrid, Selected
<1> HIDE DEF k
<1> QED
  BY <1>1, SelectedForSession

LEMMA SetCategoryForSession ==
  ASSUME NEW w, NEW index, HasFields(w)
  PROVE  SameSession(SetCategory(w, index), w)
<1> DEFINE m == InModelCategory(w, index)
           v == [w EXCEPT !.category = index]
<1>1. HasFields(v) /\ SameSession(v, w)
  BY DEF HasFields, SameSession
<1>2. m = w \/ m = Rebuilt(v)
  BY DEF InModelCategory
<1> HIDE DEF m, v
<1>3. HasFields(m) /\ SameSession(m, w)
  BY <1>1, <1>2, RebuiltForSession DEF SameSession
<1>4. SameSession(RefreshGrid(m, view, TRUE), m)
  BY <1>3, RefreshForSession
<1> QED
  BY <1>3, <1>4 DEF SetCategory, SameSession, m

\* A search is what the session asked for, in the window as it was.
LEMMA UpdateSearchForSession ==
  ASSUME NEW w, NEW query, HasFields(w)
  PROVE  /\ HasFields(UpdateSearch(w, query))
         /\ SameSession(UpdateSearch(w, query), [w EXCEPT !.query = query])
<1> DEFINE m == WithSearch(w, query)
           v == [w EXCEPT !.query = query]
<1>1. HasFields(v) /\ (w.query = query => w = v)
  BY DEF HasFields
<1>2. m = (IF w.query = query THEN w ELSE Rebuilt(v))
  BY DEF WithSearch
<1>3. UpdateSearch(w, query) = RefreshGrid(m, view, TRUE)
  BY DEF UpdateSearch
<1> HIDE DEF m, v
<1>4. HasFields(m) /\ SameSession(m, v)
  BY <1>1, <1>2, RebuiltForSession DEF SameSession
<1>5. HasFields(RefreshGrid(m, view, TRUE)) /\ SameSession(RefreshGrid(m, view, TRUE), m)
  BY <1>4, RefreshForSession
<1> QED
  BY <1>3, <1>4, <1>5 DEF SameSession, v

LEMMA NewListsForSession ==
  ASSUME NEW w, NEW lists, HasFields(w)
  PROVE  LET v == RefreshGrid(Rebuilt([w EXCEPT !.lists = lists]), view, FALSE)
         IN HasFields(v) /\ SameSession(v, w)
<1> DEFINE u == [w EXCEPT !.lists = lists]
           m == Rebuilt(u)
<1>1. HasFields(u) /\ SameSession(u, w)
  BY DEF HasFields, SameSession
<1> HIDE DEF u
<1>2. HasFields(m) /\ SameSession(m, u)
  BY <1>1, RebuiltForSession
<1> HIDE DEF m
<1>3. HasFields(RefreshGrid(m, view, FALSE)) /\ SameSession(RefreshGrid(m, view, FALSE), m)
  BY <1>2, RefreshForSession
<1> QED
  BY <1>1, <1>2, <1>3 DEF SameSession, m, u

LEMMA ShowVariantsForSession ==
  ASSUME NEW w, HasFields(w)
  PROVE  SameSession(ShowVariants(w), w)
<1> DEFINE panel == IF Len(VariantsOf(ItemAt(w, w.current))) > 1
                    THEN VariantsOf(ItemAt(w, w.current)) ELSE <<>>
<1>1. ShowVariants(w) = w \/ ShowVariants(w) = [w EXCEPT !.variants = panel]
  BY DEF ShowVariants
<1> HIDE DEF panel
<1> QED
  BY <1>1 DEF HasFields, SameSession

LEMMA HiddenForSession ==
  ASSUME NEW w, HasFields(w)
  PROVE  /\ Hidden(w).visible = FALSE /\ Hidden(w).settings = FALSE
         /\ Hidden(w).closes = w.closes /\ Hidden(w).query = w.query
BY DEF HasFields, Hidden

LEMMA SessionInit == Init => Session!Init
<1> SUFFICES ASSUME Init PROVE Session!Init
  OBVIOUS
<1>1. PICK lists \in StoredStates : window = NewWindow(lists)
  BY DEF Init
<1> DEFINE w == [visible |-> FALSE, settings |-> FALSE, variants |-> <<>>, closes |-> FALSE,
                 category |-> FirstCategory, query |-> NoQuery, lists |-> lists,
                 listed |-> <<>>, current |-> NoRow, details |-> NoDetails,
                 keyboard |-> NewGrid]
<1>2. window = RefreshGrid(Rebuilt(w), Unlaid, TRUE)
  BY <1>1 DEF NewWindow
<1>3. /\ HasFields(w) /\ w.visible = FALSE /\ w.settings = FALSE /\ w.closes = FALSE
      /\ w.query = NoQuery
  BY DEF HasFields
<1> HIDE DEF w
<1>4. SameSession(window, Rebuilt(w)) /\ SameSession(Rebuilt(w), w)
  BY <1>2, <1>3, RebuiltForSession, RefreshForSession
<1>5. serving = FALSE
  BY DEF Init
<1> QED
  BY <1>3, <1>4, <1>5 DEF Session!Init, SameSession

\* A step that the session does not see.
LEMMA SessionStutters ==
  ASSUME SameSession(window', window), serving' = serving
  PROVE  UNCHANGED (Session!vars)
BY DEF Session!vars, SameSession

\* The window is what TypeOK and the invariant of its panels say.
SessionInv == TypeOK /\ WindowInv

LEMMA SessionParts ==
  ASSUME SessionInv
  PROVE  /\ HasFields(window) /\ Panels(window, serving)
         /\ window.visible \in BOOLEAN /\ window.settings \in BOOLEAN
         /\ window.closes \in BOOLEAN
BY DEF SessionInv, TypeOK, IsWindow, WindowInv, Sound

LEMMA ChooseForSession ==
  ASSUME SessionInv, NEW w, NEW e, HasFields(w), SameSession(w, window), Choose(w, e),
         serving \/ MayClick
  PROVE  Session!Choose
<1>1. PICK now \in Times :
        window' = IF w.closes THEN Hidden(Remembered(w, e, now)) ELSE Remembered(w, e, now)
  BY DEF Choose
<1> DEFINE lists == RecordUse(w.lists, e, now)
           chosen == RefreshGrid(Rebuilt([w EXCEPT !.lists = lists]), view, FALSE)
<1>2. window' = IF w.closes THEN Hidden(chosen) ELSE chosen
  BY <1>1 DEF Remembered
<1> HIDE DEF lists
<1>3. HasFields(chosen) /\ SameSession(chosen, w)
  BY NewListsForSession
<1> HIDE DEF chosen
<1>4. serving' = FALSE
  BY DEF Choose
<1>5. CASE w.closes
  BY <1>2, <1>3, <1>4, <1>5, HiddenForSession
     DEF SameSession, Session!Choose, Session!Withdraw, MayClick
<1>6. CASE ~w.closes
  BY <1>2, <1>3, <1>4, <1>6 DEF SameSession, Session!Choose, MayClick
<1> QED
  BY <1>5, <1>6

LEMMA SessionShows ==
  ASSUME SessionInv, ShowPalette
  PROVE  Session!Show
<1>1. PICK closes \in CloseSettings :
        window' = [(IF [window EXCEPT !.closes = closes].visible
                    THEN [window EXCEPT !.closes = closes]
                    ELSE UpdateSearch([window EXCEPT !.closes = closes], NoQuery))
                   EXCEPT !.visible = TRUE]
  BY DEF ShowPalette
<1> DEFINE w == [window EXCEPT !.closes = closes]
           v == [w EXCEPT !.query = NoQuery]
           u == IF w.visible THEN w ELSE UpdateSearch(w, NoQuery)
<1>2. window' = [u EXCEPT !.visible = TRUE]
  BY <1>1
<1>3. /\ HasFields(w) /\ w.visible = window.visible /\ w.settings = window.settings
      /\ w.closes = closes /\ w.query = window.query
  BY SessionParts DEF HasFields
<1> HIDE DEF w
<1>4. /\ HasFields(v) /\ v.visible = w.visible /\ v.settings = w.settings
      /\ v.closes = w.closes /\ v.query = NoQuery
  BY <1>3 DEF HasFields
<1>5. HasFields(UpdateSearch(w, NoQuery)) /\ SameSession(UpdateSearch(w, NoQuery), v)
  BY <1>3, UpdateSearchForSession
<1> HIDE DEF v
<1>6. /\ HasFields(u) /\ u.settings = window.settings /\ u.closes = closes
      /\ u.query = IF window.visible THEN window.query ELSE NoQuery
  BY <1>3, <1>4, <1>5 DEF SameSession
<1> HIDE DEF u
<1>7. /\ window'.visible = TRUE /\ window'.settings = u.settings
      /\ window'.closes = u.closes /\ window'.query = u.query
  BY <1>2, <1>6 DEF HasFields
<1>8. closes \in BOOLEAN /\ serving' = TRUE
  BY WindowAssumption DEF WindowAssumption, ShowPalette
<1> QED
  BY <1>6, <1>7, <1>8 DEF Session!Show

\* The calls of the session.
LEMMA SessionCalls ==
  ASSUME SessionInv, HidePalette \/ CommandSearchText \/ CommandCancel
  PROVE  Session!Withdraw \/ Session!Search \/ Session!Settings
<1>1. CASE HidePalette
  BY <1>1, SessionParts, HiddenForSession DEF HidePalette, Session!Withdraw
<1>2. CASE CommandSearchText
  <2>1. PICK query \in Queries : window' = UpdateSearch(window, query)
    BY <1>2 DEF CommandSearchText
  <2> DEFINE v == [window EXCEPT !.query = query]
  <2>2. /\ v.visible = window.visible /\ v.settings = window.settings
        /\ v.closes = window.closes /\ v.query = query
    BY SessionParts DEF HasFields
  <2>3. SameSession(window', v)
    BY <2>1, SessionParts, UpdateSearchForSession
  <2> HIDE DEF v
  <2>4. serving /\ serving' = serving
    BY <1>2 DEF CommandSearchText, OnlyWindow
  <2> QED
    BY <2>2, <2>3, <2>4 DEF Session!Search, SameSession
<1>3. CASE CommandCancel /\ window.settings
  <2>1. window' = [window EXCEPT !.settings = FALSE] /\ window.visible /\ serving' = serving
    BY <1>3, SessionParts DEF CommandCancel, OnlyWindow, Panels
  <2>2. /\ window'.visible = window.visible /\ window'.settings = FALSE
        /\ window'.closes = window.closes /\ window'.query = window.query
    BY <2>1, SessionParts DEF HasFields
  <2> QED
    BY <1>3, <2>1, <2>2 DEF Session!Settings
<1>4. CASE CommandCancel /\ ~window.settings
  BY <1>4, SessionParts, HiddenForSession DEF CommandCancel, Session!Withdraw
<1> QED
  BY <1>1, <1>2, <1>3, <1>4

\* The commands that move the selection, change the lists or choose.
LEMMA SessionCommands ==
  ASSUME SessionInv,
         \/ CommandMove \/ CommandTurn \/ CommandSelect \/ CommandToggleFavorite
         \/ CommandShowVariants
  PROVE  Session!Choose \/ UNCHANGED (Session!vars)
<1> USE DEF OnlyWindow
<1>0. HasFields(window) /\ SameSession(window, window)
  BY SessionParts DEF SameSession
<1>1. CASE CommandMove
  <2>1. PICK move \in Moves :
          window' = IF Moved(window.keyboard, move) = window.keyboard THEN window
                    ELSE Selected(window, Moved(window.keyboard, move))
    BY <1>1 DEF CommandMove
  <2> QED
    BY <1>0, <1>1, <2>1, SelectedForSession, SessionStutters DEF CommandMove
<1>2. CASE CommandTurn
  <2>1. PICK turn \in Turns :
          window' = IF window.keyboard.categoryCount <= 1 THEN window
                    ELSE SetCategory([window EXCEPT !.keyboard = Turned(window.keyboard, turn)],
                                     Turned(window.keyboard, turn).categoryIndex)
    BY <1>2 DEF CommandTurn
  <2> DEFINE w == [window EXCEPT !.keyboard = Turned(window.keyboard, turn)]
  <2>2. HasFields(w) /\ SameSession(w, window)
    BY <1>0 DEF HasFields, SameSession
  <2> HIDE DEF w
  <2>3. SameSession(SetCategory(w, Turned(window.keyboard, turn).categoryIndex), window)
    BY <2>2, SetCategoryForSession DEF SameSession
  <2>4. SameSession(window', window)
    BY <1>0, <2>1, <2>3 DEF w
  <2> QED
    BY <1>2, <2>4, SessionStutters DEF CommandTurn
<1>3. CASE CommandSelect
  <2>1. CASE window.keyboard.itemCount = 0 \/ window.current = NoRow
    BY <1>0, <1>3, <2>1, SessionStutters DEF CommandSelect
  <2>2. CASE ~(window.keyboard.itemCount = 0 \/ window.current = NoRow)
    <3>1. serving /\ Choose(window, ItemAt(window, window.current))
      BY <1>3, <2>2 DEF CommandSelect
    <3> QED
      BY <1>0, <3>1, ChooseForSession
  <2> QED
    BY <2>1, <2>2
<1>4. CASE CommandToggleFavorite
  <2>1. window' = Toggled(window) /\ serving' = serving
    BY <1>4 DEF CommandToggleFavorite, ToggleCurrent
  <2> QED
    BY <1>0, <2>1, NewListsForSession, SessionStutters DEF Toggled
<1>5. CASE CommandShowVariants
  BY <1>0, <1>5, ShowVariantsForSession, SessionStutters DEF CommandShowVariants
<1> QED
  BY <1>1, <1>2, <1>3, <1>4, <1>5

\* Clicks and the layout.
LEMMA SessionClicks ==
  ASSUME SessionInv,
         \/ \E row \in Rows : ClickItem(row) \/ RightClickItem(row)
         \/ \E index \in 0 .. Len(Categories) - 1 : ClickCategory(index)
         \/ ClickVariant \/ ClickFavorite \/ ClickVariants \/ ClickSettings
         \/ ClickSize \/ LaidOut
  PROVE  Session!Choose \/ Session!Settings \/ UNCHANGED (Session!vars)
<1> USE DEF OnlyWindow
<1>0. HasFields(window) /\ SameSession(window, window)
  BY SessionParts DEF SameSession
<1>1. ASSUME NEW row \in Rows, ClickItem(row)
      PROVE  Session!Choose
  <2> DEFINE w == [window EXCEPT !.current = row]
  <2>1. MayClick /\ Choose(w, ItemAt(window, row))
    BY <1>1 DEF ClickItem
  <2>2. HasFields(w) /\ SameSession(w, window)
    BY <1>0 DEF HasFields, SameSession
  <2> HIDE DEF w
  <2> QED
    BY <2>1, <2>2, ChooseForSession
<1>2. ASSUME NEW row \in Rows, RightClickItem(row)
      PROVE  Session!Settings \/ UNCHANGED (Session!vars)
  <2> DEFINE w == [window EXCEPT !.current = row, !.settings = FALSE]
  <2>1. window.visible /\ window' = ShowVariants(w) /\ serving' = serving
    BY <1>2 DEF RightClickItem
  <2> DEFINE u == [window EXCEPT !.current = row]
  <2>2. w = [u EXCEPT !.settings = FALSE] /\ HasFields(u) /\ SameSession(u, window)
    BY <1>0 DEF HasFields, SameSession
  <2> HIDE DEF w, u
  <2>3. HasFields(w)
    BY <2>2 DEF HasFields
  <2>4. /\ w.visible = window.visible /\ w.settings = FALSE
        /\ w.closes = window.closes /\ w.query = window.query
    BY <2>2 DEF HasFields, SameSession
  <2>5. SameSession(window', w)
    BY <2>1, <2>3, ShowVariantsForSession
  <2>6. CASE window.settings
    BY <2>1, <2>4, <2>5, <2>6 DEF Session!Settings, SameSession
  <2>7. CASE ~window.settings
    BY <2>1, <2>4, <2>5, <2>7, SessionParts, SessionStutters DEF SameSession
  <2> QED
    BY <2>6, <2>7
<1>3. ASSUME NEW index \in 0 .. Len(Categories) - 1, ClickCategory(index)
      PROVE  UNCHANGED (Session!vars)
  BY <1>0, <1>3, SetCategoryForSession, SessionStutters DEF ClickCategory
<1>4. CASE ClickVariant
  <2>1. MayClick /\ \E i \in DOMAIN window.variants : Choose(window, window.variants[i])
    BY <1>4 DEF ClickVariant
  <2> QED
    BY <1>0, <2>1, ChooseForSession
<1>5. CASE ClickFavorite
  <2>1. window' = Toggled(window) /\ serving' = serving
    BY <1>5 DEF ClickFavorite, ToggleCurrent
  <2> QED
    BY <1>0, <2>1, NewListsForSession, SessionStutters DEF Toggled
<1>6. CASE ClickVariants
  BY <1>0, <1>6, ShowVariantsForSession, SessionStutters DEF ClickVariants
<1>7. CASE ClickSettings
  <2> DEFINE settings == ~window.settings
  <2>1. window.visible /\ window' = [window EXCEPT !.settings = settings] /\ serving' = serving
    BY <1>7 DEF ClickSettings
  <2> HIDE DEF settings
  <2>2. /\ window'.visible = window.visible /\ window'.settings = settings
        /\ window'.closes = window.closes /\ window'.query = window.query
    BY <1>0, <2>1 DEF HasFields
  <2> QED
    BY <2>1, <2>2 DEF Session!Settings, settings
<1>8. CASE ClickSize
  <2>1. window' = RefreshGrid(window, view', FALSE) /\ serving' = serving
    BY <1>8 DEF ClickSize
  <2> QED
    BY <1>0, <2>1, RefreshForSession, SessionStutters
<1>9. CASE LaidOut
  BY <1>0, <1>9, SessionStutters DEF LaidOut
<1> QED
  BY <1>1, <1>2, <1>3, <1>4, <1>5, <1>6, <1>7, <1>8, <1>9

LEMMA SessionSteps ==
  ASSUME SessionInv, [Next]_vars
  PROVE  [Session!Next]_(Session!vars)
<1>1. CASE UNCHANGED vars
  BY <1>1 DEF vars, Session!vars
<1> QED
  BY <1>1, SessionShows, SessionCalls, SessionCommands, SessionClicks DEF Next, Session!Next

\* Whatever the lists, the keyboard and the panels do, to the session the window is what
\* SessionWindow says: what the protocol takes it for.
THEOREM WindowKeepsToSession == Spec => KeepsToSession
<1>1. SessionInv /\ [Next]_vars => [Session!Next]_(Session!vars)
  BY SessionSteps
<1>2. Spec => []SessionInv
  BY WindowTypeCorrect, WindowInvariant, PTL DEF SessionInv
<1> QED
  BY <1>1, <1>2, SessionInit, PTL DEF Spec, KeepsToSession, Session!Spec
=============================================================================
