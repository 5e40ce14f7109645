\* Three window sizes on one or two screens, carets on and off the screens, both
\* platforms; the margin is scaled like the screens.
SPECIFICATION Spec
CONSTANTS
  Layouts <- MCLayouts
  Carets <- MCCarets
  WindowSizes <- MCWindowSizes
  Pointers <- MCPointers
  TopMargin = 1
  Unplaced = Unplaced
INVARIANTS
  InsideArea
  BesideCaret
