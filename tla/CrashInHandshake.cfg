\* The helper dies while the Hello of a transaction is unanswered.
\* The run ends when identifiers, keys and starts are used up: no deadlock check.
SPECIFICATION FairSpec
CONSTANTS
  Contexts = {c1}
  NoContext = NoContext
  MaxTxn = 2
  MaxCommand = 1
  MaxSearch = 1
  AddonStarts = 1
  HelperStarts = 2
  CloseSettings = {TRUE}
  SendOutcomes = {TRUE}
  AddonCatalog = {0, 1}
  HelperBuilds = {TRUE}
PROPERTIES
  HandshakeEnds
CHECK_DEADLOCK FALSE
