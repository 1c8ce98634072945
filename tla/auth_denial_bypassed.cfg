\* A 401 whose body stalls past the deadline, under failure_mode open.
SPECIFICATION Spec
CONSTANTS
  None = None
  Requests = {r1}
  Inputs <- RichInputs
  Configs <- MCConfigs
  Sites <- MCSites
  Blocks <- MCBlocks
  Program <- MCProgram
  HeaderNames <- MCHeaderNames
  AuthAnswers <- RichAnswers
  BackendStatuses = {200, 500}
  BadChars <- MCBadChars
  Owner <- MCOwner
  GuardsAbove <- MCGuardsAbove
  Lower <- MCLower
INVARIANT ExplicitDenialNeverBypassed
