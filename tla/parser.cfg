\* Every file of up to six lines in one of the vocabularies.
SPECIFICATION Spec
CONSTANTS
  None = None
  Vocabularies <- AllVocabularies
  MaxLines = 6
  AddressOf <- MCAddressOf
  UriOf <- MCUriOf
  DurationOf <- MCDurationOf
  Unsigned = {"200", "302"}
  Minus <- MCMinus
  HeaderNameOf <- MCHeaderNameOf
  U64 = 100000
INVARIANTS
  TypeOK
  StacksMatch
  ParsesAsWritten
  ValidationDecides
\* A file is read once.
CHECK_DEADLOCK FALSE
