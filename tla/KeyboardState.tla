---------------------------- MODULE KeyboardState ----------------------------
(* The fields of KeyboardState (src/core/keyboard.cpp) as a record, and what   *)
(* its member functions make of them. Counts and indexes start at 0, as in the *)
(* code.                                                                       *)
EXTENDS Naturals

Moves      == {"Left", "Right", "Up", "Down", "Home", "End", "PageUp", "PageDown"}
Turns      == {"PreviousCategory", "NextCategory"}
Navigation == Moves \cup Turns \cup {"Select", "Cancel"}
Outcomes   == {"Unchanged", "Changed", "CategoryChanged", "Selected", "Cancelled"}

\* A mutant of AtLeastOne: a grid may have no columns.
AsGiven(n) == n

AtLeastOne(n)  == IF n = 0 THEN 1 ELSE n
AtMost(n, top) == IF n < top THEN n ELSE top

NewGrid ==
  [itemCount |-> 0, columns |-> 1, visibleRows |-> 1, selectedIndex |-> 0,
   categoryIndex |-> 0, categoryCount |-> 1]

\* setGrid: a selection beyond the last item moves to the last item.
Resized(g, items, columns, rows) ==
  [g EXCEPT !.itemCount = items, !.columns = AtLeastOne(columns),
            !.visibleRows = AtLeastOne(rows),
            !.selectedIndex = IF items = 0 THEN 0 ELSE AtMost(@, items - 1)]

\* setCategory.
InCategory(g, index, count) ==
  [g EXCEPT !.categoryCount = AtLeastOne(count),
            !.categoryIndex = AtMost(index, AtLeastOne(count) - 1)]

Page(g) == g.columns * g.visibleRows
LastItem(g) == g.itemCount - 1

\* A mutant of RowUp: off by one in the test.
RowUpShort(g) ==
  IF g.selectedIndex > g.columns THEN g.selectedIndex - g.columns ELSE g.selectedIndex

\* Up stays in the first row.
RowUp(g) ==
  IF g.selectedIndex >= g.columns THEN g.selectedIndex - g.columns ELSE g.selectedIndex

\* The index a move leads to in a grid that has items.
Target(g, move) ==
  LET i == g.selectedIndex
  IN CASE move = "Left"     -> IF i > 0 THEN i - 1 ELSE i
       [] move = "Right"    -> AtMost(i + 1, LastItem(g))
       [] move = "Up"       -> RowUp(g)
       [] move = "Down"     -> AtMost(i + g.columns, LastItem(g))
       [] move = "Home"     -> 0
       [] move = "End"      -> LastItem(g)
       [] move = "PageUp"   -> IF i > Page(g) THEN i - Page(g) ELSE 0
       [] move = "PageDown" -> AtMost(i + Page(g), LastItem(g))

\* A grid without items stays as it is.
Moved(g, move) ==
  IF g.itemCount = 0 THEN g ELSE [g EXCEPT !.selectedIndex = Target(g, move)]

\* A turn wraps around and starts at the first item.
Turned(g, turn) ==
  IF g.categoryCount <= 1 THEN g
  ELSE [g EXCEPT !.selectedIndex = 0,
                 !.categoryIndex = (@ + (IF turn = "NextCategory" THEN 1
                                         ELSE g.categoryCount - 1)) % g.categoryCount]

Grids == [itemCount : Nat, columns : Nat \ {0}, visibleRows : Nat \ {0},
          selectedIndex : Nat, categoryIndex : Nat, categoryCount : Nat \ {0}]
=============================================================================
