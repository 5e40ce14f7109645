---------------------------- MODULE PopupPlacement ----------------------------
(* Where the palette window goes: placePopup (src/core/geometry.cpp) and its   *)
(* caller PaletteWindow::positionFor (src/ui/palette_window.cpp), which picks  *)
(* the screen and cuts the window down to it. A rectangle is a record of its   *)
(* left upper corner and its size; its right and lower edges lie outside.      *)
(* On Wayland a window without a caret is not placed by the program: it asks   *)
(* the compositor to hang it from the top edge of the active screen.           *)
EXTENDS Integers

CONSTANTS
  Layouts,     \* screen layouts: [primary |-> a screen, screens |-> a set of them]
  Carets,      \* caret rectangles a Show brings
  WindowSizes, \* window sizes the three cell sizes ask for
  Pointers,    \* positions of the mouse pointer, [x, y]
  TopMargin,   \* from the top of the screen when there is no caret, 24 pixels in the code
  Unplaced     \* the value of `spot` before the first placement

\* A screen has a geometry and within it the area panels leave available.
Rects   == [x : Int, y : Int, width : Int, height : Int]
Sizes   == [width : Nat, height : Nat]
Areas   == {r \in Rects : r.width >= 0 /\ r.height >= 0}
Points  == [x : Int, y : Int]

ASSUME PlacementAssumption ==
  /\ \A layout \in Layouts : /\ layout.primary \in layout.screens
                             /\ \A s \in layout.screens : s.available \in Areas
  /\ Carets \subseteq Rects /\ WindowSizes \subseteq Sizes /\ TopMargin \in Nat

VARIABLES
  wayland,   \* the platform the program runs on, which never changes
  layout,    \* the screens of the moment
  size,      \* of the window
  request,   \* the caret of the last Show
  visible,
  spot       \* the last placement, and what it was made for

vars == <<wayland, layout, size, request, visible, spot>>

NoCaret == [x |-> 0, y |-> 0, width |-> 0, height |-> 0]

Larger(a, b)  == IF a < b THEN b ELSE a
Smaller(a, b) == IF b < a THEN b ELSE a

\* A mutant of Clamp: the upper bound is forgotten.
ClampBelow(v, low, high) == IF v < low THEN low ELSE v

\* std::clamp
Clamp(v, low, high) == IF v < low THEN low ELSE IF v > high THEN high ELSE v

MaximumX(popup, area) == area.x + Larger(0, area.width - popup.width)
MaximumY(popup, area) == area.y + Larger(0, area.height - popup.height)

BelowCaret(caret)        == caret.y + Larger(0, caret.height)
AboveCaret(caret, popup) == caret.y - popup.height

FitsBelow(caret, popup, area) == BelowCaret(caret) + popup.height <= area.y + area.height
FitsAbove(caret, popup, area) == AboveCaret(caret, popup) >= area.y

\* A mutant of GoesBelow: below the caret whatever the room.
AlwaysBelow(caret, popup, area) == TRUE

\* Below the caret when there is room, or when there is none above either.
GoesBelow(caret, popup, area) ==
  FitsBelow(caret, popup, area) \/ ~FitsAbove(caret, popup, area)

\* placePopup: the left upper corner of the popup.
PlacePopup(caret, popup, area) ==
  [x |-> Clamp(caret.x, area.x, MaximumX(popup, area)),
   y |-> Clamp(IF GoesBelow(caret, popup, area) THEN BelowCaret(caret)
                                                ELSE AboveCaret(caret, popup),
               area.y, MaximumY(popup, area))]

\* positionFor shrinks a window that is larger than the area.
CutDown(window, area) ==
  [width |-> Smaller(window.width, area.width), height |-> Smaller(window.height, area.height)]

HasCaret(caret) == caret.x # 0 \/ caret.y # 0 \/ caret.width > 0 \/ caret.height > 0

Contains(r, p) == /\ r.x <= p.x /\ p.x < r.x + r.width
                  /\ r.y <= p.y /\ p.y < r.y + r.height

\* QGuiApplication::screenAt, and the primary screen when it knows none.
ScreensAt(screens, p) == {s \in screens : Contains(s.geometry, p)}

MayUse(layouts, p) == IF ScreensAt(layouts.screens, p) = {} THEN {layouts.primary}
                                                          ELSE ScreensAt(layouts.screens, p)

\* Without a caret the popup stands near the top of the screen, in the middle.
Anchor(caret, popup, area) ==
  IF HasCaret(caret) THEN caret
  ELSE [x |-> area.x + (area.width - popup.width) \div 2, y |-> area.y + TopMargin,
        width |-> 0, height |-> 0]

\* A window the program places: with move, or with the layer's margins, which are the
\* same place told from the corner of the screen.
Placed(caret, popup, area) ==
  LET anchor == Anchor(caret, popup, area)
  IN [hung |-> FALSE, cut |-> area, area |-> area, size |-> popup, caret |-> anchor,
      position |-> PlacePopup(anchor, popup, area)]

\* What a compositor makes of the top anchor and margin: in the middle of `area`, which
\* belongs to the screen of its choice. The window was cut to another screen, perhaps.
Hung(popup, cut, area) ==
  [hung |-> TRUE, cut |-> cut, area |-> area, size |-> popup, caret |-> NoCaret,
   position |-> [x |-> area.x + (area.width - popup.width) \div 2, y |-> area.y + TopMargin]]

\* positionFor. The pointer chooses the screen only when there is no caret.
Position(caret, window) ==
  \E pointer \in Pointers :
    \E screen \in MayUse(layout, IF HasCaret(caret) THEN [x |-> caret.x, y |-> caret.y]
                                                    ELSE pointer) :
      LET popup == CutDown(window, screen.available)
      IN /\ size' = popup
         /\ IF wayland /\ ~HasCaret(caret)
            THEN \E active \in layout.screens :
                   spot' = Hung(popup, screen.available, active.available)
            ELSE spot' = Placed(caret, popup, screen.available)

Init ==
  /\ wayland \in BOOLEAN
  /\ layout \in Layouts
  /\ size \in WindowSizes
  /\ request = NoCaret /\ visible = FALSE /\ spot = Unplaced

\* showPalette, also while the window is open already.
ShowPalette(caret) ==
  /\ request' = caret /\ visible' = TRUE
  /\ Position(caret, size)
  /\ UNCHANGED <<wayland, layout>>

HidePalette ==
  /\ visible /\ visible' = FALSE
  /\ UNCHANGED <<wayland, layout, size, request, spot>>

\* applyCellSize: the new size counts in full, then an open window is placed again.
ApplyCellSize(window) ==
  /\ IF visible THEN Position(request, window) ELSE size' = window /\ UNCHANGED spot
  /\ UNCHANGED <<wayland, layout, request, visible>>

\* Screens come and go, the window stays.
ScreensChange ==
  /\ layout' \in Layouts
  /\ UNCHANGED <<wayland, size, request, visible, spot>>

Next ==
  \/ \E caret \in Carets : ShowPalette(caret)
  \/ HidePalette
  \/ \E window \in WindowSizes : ApplyCellSize(window)
  \/ ScreensChange

Spec == Init /\ [][Next]_vars

(***************************************************************************)
(* Properties.                                                             *)
(***************************************************************************)

Spots == [hung : BOOLEAN, cut : Areas, area : Areas, size : Sizes, caret : Rects,
          position : Points]

TypeOK ==
  /\ wayland \in BOOLEAN /\ layout \in Layouts
  /\ size \in Sizes /\ request \in Rects /\ visible \in BOOLEAN
  /\ spot = Unplaced \/ spot \in Spots

\* By what a window may stand over the lower edge: one that is hung by the compositor
\* was cut to the height of the screen, and the margin comes on top of that.
Overhang(s) == IF s.hung THEN TopMargin ELSE 0

\* Wherever the caret is, off the screen included, and however much the screens change
\* between two placements, a window the program places lies inside the available area of
\* its screen. One the compositor hangs on the screen it was cut to stands over the lower
\* edge by the margin at most; on another screen nothing is promised.
InsideArea ==
  spot # Unplaced /\ spot.area = spot.cut =>
    /\ spot.area.x <= spot.position.x
    /\ spot.position.x + spot.size.width <= spot.area.x + spot.area.width
    /\ spot.area.y <= spot.position.y
    /\ spot.position.y + spot.size.height <= spot.area.y + spot.area.height + Overhang(spot)

\* A window the program places does not cover the caret's line if there is room for it
\* below or above, although the clamp moves it after the side was chosen.
BesideCaret ==
  spot # Unplaced /\ ~spot.hung
  /\ (FitsBelow(spot.caret, spot.size, spot.area) \/ FitsAbove(spot.caret, spot.size, spot.area))
    =>   \/ BelowCaret(spot.caret) <= spot.position.y
         \/ spot.position.y + spot.size.height <= spot.caret.y
=============================================================================
