\* A nested block inside a reverse_proxy block.
SPECIFICATION Spec
CONSTANTS
  None = None
  Vocabularies <- NestedUpstream
  MaxLines = 6
  AddressOf <- MCAddressOf
  UriOf <- MCUriOf
  DurationOf <- MCDurationOf
  Unsigned = {"200", "302"}
  Minus <- MCMinus
  HeaderNameOf <- MCHeaderNameOf
  U64 = 100000
INVARIANTS
  ReverseProxyHoldsSettingsOnly
\* A file is read once.
CHECK_DEADLOCK FALSE
