\* Envelopes that cannot be sent, a helper that dies once, cannot be started or has
\* another version, an emoji the addon does not know; both sides keep running.
\* The run ends when identifiers, keys and starts are used up: no deadlock check.
SPECIFICATION FairSpec
CONSTANTS
  Contexts = {c1}
  NoContext = NoContext
  MaxTxn = 2
  MaxCommand = 1
  MaxSearch = 1
  AddonStarts = 1
  HelperStarts = 2
  CloseSettings = {TRUE, FALSE}
  SendOutcomes = {TRUE, FALSE}
  AddonCatalog = {0}
  HelperBuilds = {TRUE, FALSE}
INVARIANTS
  QuietAgreement
PROPERTIES
  KeepsPromise
  HelperLossEnds
  EscapeEndsShown
  HandshakeEndsAlive
CHECK_DEADLOCK FALSE
