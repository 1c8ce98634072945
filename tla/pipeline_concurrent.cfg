\* Two requests in flight at once, with reloads, cancellations and silent services.
SPECIFICATION FairSpec
CONSTANTS
  None = None
  Requests = {r1, r2}
  Inputs <- SmallInputs
  Configs <- MCConfigs
  Sites <- MCSites
  Blocks <- MCBlocks
  Program <- MCProgram
  HeaderNames <- MCHeaderNames
  AuthAnswers <- SmallAnswers
  BackendStatuses = {200}
  BadChars <- MCBadChars
  Owner <- MCOwner
  GuardsAbove <- MCGuardsAbove
  Lower <- MCLower
INVARIANTS
  ExactAccounting
PROPERTIES
  EveryRequestEnds
