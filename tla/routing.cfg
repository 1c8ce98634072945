\* Every subset of eight addresses and every Host, with and without TLS; every
\* subset of ten addresses and every redirect of one of their TLS listeners.
SPECIFICATION Spec
CONSTANTS
  None = None
  Lower <- MCLower
  Position <- MCPosition
  Lookups <- MCLookups
  Redirects <- MCRedirects
INVARIANTS
  AnswersForHost
  SchemeIsKept
  RedirectReachesSite
  CertificateOfSite
\* One answer per question.
CHECK_DEADLOCK FALSE
