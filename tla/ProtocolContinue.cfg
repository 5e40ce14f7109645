\* Two contexts and a palette that may stay open for the next selection.
\* The run ends when identifiers, keys and starts are used up: no deadlock check.
SPECIFICATION Spec
CONSTANTS
  Contexts = {c1, c2}
  NoContext = NoContext
  MaxTxn = 3
  MaxCommand = 1
  MaxSearch = 0
  AddonStarts = 1
  HelperStarts = 1
  CloseSettings = {TRUE, FALSE}
  SendOutcomes = {TRUE}
  AddonCatalog = {0}
  HelperBuilds = {TRUE}
SYMMETRY ContextSymmetry
INVARIANTS
  OneCommitPerTransaction
  ActiveContextFocused
PROPERTIES
  CommitsUndisturbed
  KeepsPromise
CHECK_DEADLOCK FALSE
