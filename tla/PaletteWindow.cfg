\* Two changes of the lists between any number of commands and clicks.
SPECIFICATION Spec
CONSTANTS
  Sequences = {1, 2, 3, 4, 5, 6}
  MaximumFavorites = 3
  MaximumRecents = 3
  MaximumEntries = 2
  Catalog <- MCCatalog
  Categories <- MCCategories
  FirstCategory = 2
  Queries = {"", "cat", "xyz"}
  NoQuery = ""
  Results <- MCResults
  Views <- MCViews
  Unlaid <- MCUnlaid
  StoredStates <- MCStoredStates
  CloseSettings = {TRUE, FALSE}
  Times = {1, 2}
  MaxChanges = 2
INVARIANTS
  TypeOK
  ListIsCurrent
  GridMatchesList
  BackAgain
  DetailsAreCurrent
  PanelsGoWithWindow
  ReportsCatalogEmoji
PROPERTIES
  KeepsToSession
