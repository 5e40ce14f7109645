\* One ordinary key and the modifiers are held at a time; two bytes of search text.
SPECIFICATION MCSpec
CONSTANTS
  TransactionSize = 16
  MaximumFrameSize = 65536
  MaximumSearchSize = 2
  MaximumSelectionSize = 4
  Codes = {"Control", "Shift", "Z", "D", "V", "Escape", "BackSpace"}
  Modifiers = {"Control", "Shift"}
  Keymaps <- MCKeymaps
  Uppercase <- MCUppercase
  Latin = {"z", "d", "v"}
  Unicode <- MCUnicode
  Groups <- MCGroups
  Keyboards <- MCKeyboards
  Triggers <- MCTriggers
  Contexts = {c1, c2}
  NoContext = NoContext
  Documents <- MCDocuments
  Limit = 3
SYMMETRY ContextSymmetry
INVARIANTS
  ShortcutsFollowKeys
  StuckOnlyAcrossTrigger
  SearchIsReadable
  BackspaceUndoes
  SentIsRead
  ReadIsCanonical
  OnlyShortestForms
  NormalizeOnce
  FoundByName
  LabelNamesTheGap
PROPERTIES
  InputIsolated
