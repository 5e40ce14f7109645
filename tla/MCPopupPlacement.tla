--------------------------- MODULE MCPopupPlacement ---------------------------
(* A laptop screen with a panel on top, with and without a second, smaller     *)
(* screen at its left, which has negative coordinates.                         *)
EXTENDS PopupPlacement

Rectangle(x, y, width, height) == [x |-> x, y |-> y, width |-> width, height |-> height]

Laptop == [geometry |-> Rectangle(0, 0, 10, 8), available |-> Rectangle(0, 1, 10, 7)]
Second == [geometry |-> Rectangle(-6, 0, 6, 5), available |-> Rectangle(-6, 0, 6, 5)]

MCLayouts == {[primary |-> Laptop, screens |-> {Laptop}],
              [primary |-> Laptop, screens |-> {Laptop, Second}],
              [primary |-> Second, screens |-> {Laptop, Second}]}

\* On each screen, between them and off all of them; one without a height.
MCCarets == {NoCaret} \cup {Rectangle(x, y, 1, h) : x \in {-8, -3, 4, 9, 12},
                                                 y \in {-4, 0, 3, 6, 11}, h \in {-1, 0, 2}}

MCWindowSizes == {[width |-> 4, height |-> 3], [width |-> 7, height |-> 4],
                  [width |-> 12, height |-> 9]}

MCPointers == {[x |-> 1, y |-> 1], [x |-> -2, y |-> 2]}
=============================================================================
