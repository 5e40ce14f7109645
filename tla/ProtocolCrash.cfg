\* The palette closes after a selection; the helper dies at any moment and is
\* activated again; Fcitx5 restarts under it.
\* The run ends when identifiers, keys and starts are used up: no deadlock check.
SPECIFICATION Spec
CONSTANTS
  Contexts = {c1}
  NoContext = NoContext
  MaxTxn = 2
  MaxCommand = 2
  MaxSearch = 1
  AddonStarts = 2
  HelperStarts = 2
  CloseSettings = {TRUE}
  SendOutcomes = {TRUE}
  AddonCatalog = {0, 1}
  HelperBuilds = {TRUE}
INVARIANTS
  TypeOK
  CommitsTheChoice
  NoOrphanPalette
PROPERTIES
  LateMessagesHarmless
CHECK_DEADLOCK FALSE
