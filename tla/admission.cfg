\* Three clients, one of them too many, at a TLS, a plain and a redirect
\* listener, or at a TLS listener alone; nobody but the accept loops has to act.
SPECIFICATION FairSpec
CONSTANTS
  None = None
  Conns = {k1, k2, k3}
  Starts <- TlsAndPlain
  MaxConcurrency = 2
  Taken = {}
  MaxReloads = 1
INVARIANTS
  TypeOK
  PermitsConserved
  StartAllOutlivesListeners
PROPERTIES
  NobodyWaitsAtTheDoor
  ListenersImplementAdmission
\* The proxy may stop: every listener can end with an error.
CHECK_DEADLOCK FALSE
