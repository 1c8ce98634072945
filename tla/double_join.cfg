\* The API server ends first.
SPECIFICATION Spec
CONSTANTS
  None = None
INVARIANT WaitsForBoth
\* The process ends.
CHECK_DEADLOCK FALSE
