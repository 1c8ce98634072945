\* All templates of up to three pieces, plain and awkward header values.
SPECIFICATION Spec
CONSTANTS
  Inputs <- MCInputs
  Rank <- MCRank
  Generated <- MCGenerated
INVARIANTS
  SubstitutesAsWritten
PROPERTIES
  Terminates
\* The call returns.
CHECK_DEADLOCK FALSE
