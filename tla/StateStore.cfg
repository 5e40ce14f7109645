\* One favorite and two recents at most, three emoji, a clock that may go back.
\* The run ends when the changes and starts are used up: no deadlock check.
SPECIFICATION Spec
CONSTANTS
  Sequences = {1, 2, 3}
  MaximumFavorites = 1
  MaximumRecents = 3
  MaximumEntries = 2
  Times = {1, 2}
  MaxChanges = 3
  MaxStarts = 2
  MayBeTorn = {TRUE, FALSE}
INVARIANTS
  TypeOK
  FindsASavedState
  NoLitter
  RecentsInOrder
  OnlyFavoritesBlock
PROPERTIES
  UseDropsTheLast
CHECK_DEADLOCK FALSE
