\* The palette stays open after a selection: it is left on the screen when the
\* addon has ended the transaction meanwhile.
\* The run ends when identifiers, keys and starts are used up: no deadlock check.
SPECIFICATION Spec
CONSTANTS
  Contexts = {c1}
  NoContext = NoContext
  MaxTxn = 2
  MaxCommand = 1
  MaxSearch = 1
  AddonStarts = 1
  HelperStarts = 1
  CloseSettings = {FALSE}
  SendOutcomes = {TRUE}
  AddonCatalog = {0, 1}
  HelperBuilds = {TRUE}
INVARIANTS
  NoOrphanPalette
CHECK_DEADLOCK FALSE
