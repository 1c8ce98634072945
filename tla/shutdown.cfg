\* The proxy server alone and beside the API server.
SPECIFICATION FairSpec
CONSTANTS
  None = None
INVARIANTS
  SignalWaitsForBoth
  FailureIsNotSuccess
PROPERTIES
  OneDownAllDown
\* The process ends.
CHECK_DEADLOCK FALSE
