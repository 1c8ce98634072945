\* start_all on configurations it serves or fails on, in all orders of its
\* HashMap, and --addr; requests, reloads and API calls at any time.
SPECIFICATION SysSpec
CONSTANTS
  None = None
  Conns = {k1}
  Starts <- MCStarts
  MaxConcurrency = 1
  Taken <- MCTaken
  MaxReloads = 2
  Calls = {a1, a2}
  Hosts <- MCHosts
  Lower <- MCLower
SYMMETRY CallSymmetry
INVARIANTS
  EverySiteHasListener
  GetReadsBack
  RoutedToOwnScheme
PROPERTIES
  ReloadIsInForce
\* The proxy may stop: every listener can end with an error.
CHECK_DEADLOCK FALSE
