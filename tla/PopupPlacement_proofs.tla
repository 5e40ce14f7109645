------------------------ MODULE PopupPlacement_proofs -------------------------
(* The placement is right for every screen, window and caret.                  *)
EXTENDS PopupPlacement, TLAPS

\* placePopup keeps a popup that fits inside the area.
LEMMA PlacedInside ==
  ASSUME NEW caret \in Rects, NEW popup \in Sizes, NEW area \in Areas,
         popup.width <= area.width, popup.height <= area.height
  PROVE  LET p == PlacePopup(caret, popup, area)
         IN /\ p \in Points
            /\ area.x <= p.x /\ p.x + popup.width <= area.x + area.width
            /\ area.y <= p.y /\ p.y + popup.height <= area.y + area.height
<1>1. /\ area.x \in Int /\ area.y \in Int /\ area.width \in Int /\ area.height \in Int
      /\ popup.width \in Int /\ popup.height \in Int
      /\ caret.x \in Int /\ caret.y \in Int /\ caret.height \in Int
  BY DEF Areas, Rects, Sizes
<1> DEFINE y == IF GoesBelow(caret, popup, area) THEN BelowCaret(caret)
                                                ELSE AboveCaret(caret, popup)
<1>2. y \in Int
  BY <1>1 DEF BelowCaret, AboveCaret, Larger
<1>3. \A v, low, high \in Int : low <= high => /\ Clamp(v, low, high) \in Int
                                               /\ low <= Clamp(v, low, high)
                                               /\ Clamp(v, low, high) <= high
  BY DEF Clamp
<1>4. /\ MaximumX(popup, area) = area.x + area.width - popup.width
      /\ MaximumY(popup, area) = area.y + area.height - popup.height
      /\ MaximumX(popup, area) \in Int /\ area.x <= MaximumX(popup, area)
      /\ MaximumY(popup, area) \in Int /\ area.y <= MaximumY(popup, area)
  BY <1>1 DEF MaximumX, MaximumY, Larger
<1> HIDE DEF y
<1> DEFINE px == Clamp(caret.x, area.x, MaximumX(popup, area))
           py == Clamp(y, area.y, MaximumY(popup, area))
<1>5. px \in Int /\ area.x <= px /\ px <= MaximumX(popup, area)
  BY <1>1, <1>3, <1>4
<1>6. py \in Int /\ area.y <= py /\ py <= MaximumY(popup, area)
  BY <1>1, <1>2, <1>3, <1>4
<1>7. PlacePopup(caret, popup, area) = [x |-> px, y |-> py]
  BY DEF PlacePopup, y
<1> HIDE DEF px, py
<1> QED
  BY <1>1, <1>4, <1>5, <1>6, <1>7 DEF Points

\* A popup that has room below or above the caret does not cover it.
LEMMA PlacedBeside ==
  ASSUME NEW caret \in Rects, NEW popup \in Sizes, NEW area \in Areas,
         popup.height <= area.height,
         FitsBelow(caret, popup, area) \/ FitsAbove(caret, popup, area)
  PROVE  LET p == PlacePopup(caret, popup, area)
         IN BelowCaret(caret) <= p.y \/ p.y + popup.height <= caret.y
<1>1. /\ area.y \in Int /\ area.height \in Int /\ popup.height \in Int
      /\ caret.y \in Int /\ caret.height \in Int
  BY DEF Areas, Rects, Sizes
<1>2. PlacePopup(caret, popup, area).y =
        Clamp(IF GoesBelow(caret, popup, area) THEN BelowCaret(caret)
                                               ELSE AboveCaret(caret, popup),
              area.y, MaximumY(popup, area))
  BY DEF PlacePopup
<1> QED
  BY <1>1, <1>2 DEF GoesBelow, FitsBelow, FitsAbove, BelowCaret, AboveCaret, MaximumY,
                    Larger, Clamp

PlacementInv == TypeOK /\ InsideArea /\ BesideCaret

\* What holds of a window the program has placed.
LEMMA PlacedRight ==
  ASSUME NEW caret \in Rects, NEW popup \in Sizes, NEW area \in Areas,
         popup.width <= area.width, popup.height <= area.height,
         spot' = Placed(caret, popup, area)
  PROVE  spot' \in Spots /\ InsideArea' /\ BesideCaret'
<1> DEFINE anchor == Anchor(caret, popup, area)
           place  == PlacePopup(anchor, popup, area)
<1>1. TopMargin \in Int
  BY PlacementAssumption DEF PlacementAssumption
<1>2. anchor \in Rects
  BY <1>1 DEF Anchor, Areas, Rects, Sizes
<1> HIDE DEF anchor
<1>3. /\ place \in Points
      /\ area.x <= place.x /\ place.x + popup.width <= area.x + area.width
      /\ area.y <= place.y /\ place.y + popup.height <= area.y + area.height
  BY <1>2, PlacedInside
<1>4. FitsBelow(anchor, popup, area) \/ FitsAbove(anchor, popup, area) =>
        BelowCaret(anchor) <= place.y \/ place.y + popup.height <= anchor.y
  BY <1>2, PlacedBeside
<1> HIDE DEF place
<1>5. spot' = [hung |-> FALSE, cut |-> area, area |-> area, size |-> popup,
               caret |-> anchor, position |-> place]
  BY DEF Placed, anchor, place
<1>6. spot' \in Spots
  BY <1>2, <1>3, <1>5 DEF Spots
<1>7. /\ spot'.area = area /\ spot'.size = popup /\ spot'.hung = FALSE
      /\ spot'.caret = anchor /\ spot'.position = place
  BY <1>5
<1>8. area.y + area.height \in Int
  BY DEF Areas, Rects
<1>9. InsideArea'
  BY <1>3, <1>7, <1>8 DEF InsideArea, Overhang
<1>10. BesideCaret'
  BY <1>4, <1>7 DEF BesideCaret
<1> QED
  BY <1>6, <1>9, <1>10

\* What holds of a window the compositor has hung from the top of a screen.
LEMMA HungRight ==
  ASSUME NEW popup \in Sizes, NEW cut \in Areas, NEW area \in Areas,
         popup.width <= cut.width, popup.height <= cut.height,
         spot' = Hung(popup, cut, area)
  PROVE  spot' \in Spots /\ InsideArea' /\ BesideCaret'
<1> DEFINE place == [x |-> area.x + (area.width - popup.width) \div 2,
                     y |-> area.y + TopMargin]
<1>1. TopMargin \in Nat
  BY PlacementAssumption DEF PlacementAssumption
<1>2. /\ area.x \in Int /\ area.y \in Int /\ area.width \in Int /\ area.height \in Int
      /\ popup.width \in Int /\ popup.height \in Int
  BY DEF Areas, Rects, Sizes
<1>3. place \in Points
  BY <1>1, <1>2 DEF Points
<1>4. place.x = area.x + (area.width - popup.width) \div 2 /\ place.y = area.y + TopMargin
  OBVIOUS
<1> HIDE DEF place
<1>5. area = cut => /\ area.x <= place.x
                    /\ place.x + popup.width <= area.x + area.width
                    /\ area.y <= place.y
                    /\ place.y + popup.height <= area.y + area.height + TopMargin
  BY <1>1, <1>2, <1>4
<1>6. spot' = [hung |-> TRUE, cut |-> cut, area |-> area, size |-> popup,
               caret |-> NoCaret, position |-> place]
  BY DEF Hung, place
<1>7. NoCaret \in Rects
  BY DEF NoCaret, Rects
<1>8. spot' \in Spots
  BY <1>3, <1>6, <1>7 DEF Spots
<1>9. /\ spot'.area = area /\ spot'.cut = cut /\ spot'.size = popup
      /\ spot'.hung = TRUE /\ spot'.position = place
  BY <1>6
<1> QED
  BY <1>5, <1>8, <1>9 DEF InsideArea, BesideCaret, Overhang

\* What a call of positionFor leaves behind.
LEMMA PositionRight ==
  ASSUME NEW caret \in Rects, NEW window \in Sizes, layout \in Layouts,
         Position(caret, window)
  PROVE  size' \in Sizes /\ spot' \in Spots /\ InsideArea' /\ BesideCaret'
<1>1. PICK screen \in layout.screens :
        LET popup == CutDown(window, screen.available)
        IN /\ size' = popup
           /\ IF wayland /\ ~HasCaret(caret)
              THEN \E active \in layout.screens :
                     spot' = Hung(popup, screen.available, active.available)
              ELSE spot' = Placed(caret, popup, screen.available)
  BY PlacementAssumption DEF Position, MayUse, ScreensAt, PlacementAssumption
<1> DEFINE area  == screen.available
           popup == CutDown(window, area)
<1>2. area \in Areas
  BY PlacementAssumption DEF PlacementAssumption
<1>3. popup \in Sizes /\ popup.width <= area.width /\ popup.height <= area.height
  BY <1>2 DEF CutDown, Smaller, Sizes, Areas, Rects
<1>4. size' = popup
  BY <1>1
<1>5. \/ spot' = Placed(caret, popup, area)
      \/ \E active \in layout.screens : spot' = Hung(popup, area, active.available)
  BY <1>1
<1> HIDE DEF popup, area
<1>6. CASE spot' = Placed(caret, popup, area)
  BY <1>2, <1>3, <1>4, <1>6, PlacedRight
<1>7. ASSUME NEW active \in layout.screens, spot' = Hung(popup, area, active.available)
      PROVE  spot' \in Spots /\ InsideArea' /\ BesideCaret'
  <2>1. active.available \in Areas
    BY PlacementAssumption DEF PlacementAssumption
  <2> QED
    BY <1>2, <1>3, <1>7, <2>1, HungRight
<1> QED
  BY <1>3, <1>4, <1>5, <1>6, <1>7

LEMMA PlacementStep ==
  ASSUME PlacementInv, [Next]_vars
  PROVE  PlacementInv'
<1>1. ASSUME NEW caret \in Carets, ShowPalette(caret) PROVE PlacementInv'
  <2>1. caret \in Rects
    BY PlacementAssumption DEF PlacementAssumption
  <2>2. size' \in Sizes /\ spot' \in Spots /\ InsideArea' /\ BesideCaret'
    BY <1>1, <2>1, PositionRight DEF ShowPalette, PlacementInv, TypeOK
  <2> QED
    BY <1>1, <2>1, <2>2 DEF ShowPalette, PlacementInv, TypeOK
<1>2. ASSUME NEW window \in WindowSizes, ApplyCellSize(window) PROVE PlacementInv'
  <2>1. window \in Sizes
    BY PlacementAssumption DEF PlacementAssumption
  <2>2. CASE visible
    <3>1. size' \in Sizes /\ spot' \in Spots /\ InsideArea' /\ BesideCaret'
      BY <1>2, <2>1, <2>2, PositionRight DEF ApplyCellSize, PlacementInv, TypeOK
    <3> QED
      BY <1>2, <3>1 DEF ApplyCellSize, PlacementInv, TypeOK
  <2>3. CASE ~visible
    BY <1>2, <2>1, <2>3 DEF ApplyCellSize, PlacementInv, TypeOK, InsideArea, BesideCaret
  <2> QED
    BY <2>2, <2>3
<1>3. CASE HidePalette \/ ScreensChange
  BY <1>3 DEF HidePalette, ScreensChange, PlacementInv, TypeOK, InsideArea, BesideCaret
<1>4. CASE UNCHANGED vars
  BY <1>4 DEF vars, PlacementInv, TypeOK, InsideArea, BesideCaret
<1> QED
  BY <1>1, <1>2, <1>3, <1>4 DEF Next

LEMMA PlacementInvariant == Spec => []PlacementInv
<1>1. Init => PlacementInv
  <2>1. NoCaret \in Rects
    BY DEF NoCaret, Rects
  <2>2. WindowSizes \subseteq Sizes
    BY PlacementAssumption DEF PlacementAssumption
  <2> QED
    BY <2>1, <2>2 DEF Init, PlacementInv, TypeOK, InsideArea, BesideCaret
<1>2. PlacementInv /\ [Next]_vars => PlacementInv'
  BY PlacementStep
<1> QED
  BY <1>1, <1>2, PTL DEF Spec

\* The types of the placement: the window's size stays a natural number when it is cut
\* to a screen smaller than it. Where the window stands, the next theorems say.
THEOREM PlacementTypeCorrect == Spec => []TypeOK
<1>1. PlacementInv => TypeOK
  BY DEF PlacementInv
<1> QED
  BY <1>1, PlacementInvariant, PTL

\* For every layout, caret, size and margin a window the program places lies inside the
\* available area of its screen, and one the compositor hangs on the screen it was cut to
\* stands over the lower edge by the margin at most.
THEOREM PlacedInsideArea == Spec => []InsideArea
<1>1. PlacementInv => InsideArea
  BY DEF PlacementInv
<1> QED
  BY <1>1, PlacementInvariant, PTL

\* A window the program places never covers the caret's line when there is room beside it.
THEOREM PlacedBesideCaret == Spec => []BesideCaret
<1>1. PlacementInv => BesideCaret
  BY DEF PlacementInv
<1> QED
  BY <1>1, PlacementInvariant, PTL
=============================================================================
