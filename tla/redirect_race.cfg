\* A site on port 80 beside a TLS site on port 443.
SPECIFICATION Spec
CONSTANTS
  None = None
  Conns = {k1}
  Starts <- TlsAndPort80
  MaxConcurrency = 1
  Taken = {}
  MaxReloads = 0
INVARIANTS
  RedirectYieldsToSites
\* The proxy may stop: every listener can end with an error.
CHECK_DEADLOCK FALSE
