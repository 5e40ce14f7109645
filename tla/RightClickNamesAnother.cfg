\* A right click on an item the keyboard has not selected.
SPECIFICATION Spec
CONSTANTS
  Sequences = {1, 2, 3, 4, 5, 6}
  MaximumFavorites = 3
  MaximumRecents = 3
  MaximumEntries = 2
  Catalog <- MCCatalog
  Categories <- MCCategories
  FirstCategory = 2
  Queries = {"", "cat", "xyz"}
  NoQuery = ""
  Results <- MCResults
  Views <- MCViews
  Unlaid <- MCUnlaid
  StoredStates <- MCStoredStates
  CloseSettings = {TRUE, FALSE}
  Times = {1, 2}
  MaxChanges = 2
INVARIANTS
  SelectedIsNamed
