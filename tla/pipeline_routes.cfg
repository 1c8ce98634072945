\* One request, every kind of input, both configurations, reloads at any time.
SPECIFICATION Spec
CONSTANTS
  None = None
  Requests = {r1}
  Inputs <- RichInputs
  Configs <- MCConfigs
  Sites <- MCSites
  Blocks <- MCBlocks
  Program <- MCProgram
  HeaderNames <- MCHeaderNames
  AuthAnswers <- RichAnswers
  BackendStatuses = {200, 500}
  BadChars <- MCBadChars
  Owner <- MCOwner
  GuardsAbove <- MCGuardsAbove
  Lower <- MCLower
INVARIANTS
  TypeOK
  AuthorizedBeforeBackend
  NoSpoofedIdentity
  OnTrack
  SubrequestIsFiltered
  IdentityHasGrant
  AuthMetricsMatch
  OneRequestId
  OneConfigPerRequest
