----------------------------- MODULE TlsRouting -----------------------------
(***************************************************************************)
(* What a TLS listener and its redirect listener answer: the certificate   *)
(* for a server name and the Location for a Host header.  A listener is    *)
(* given by its group, the TLS sites build_tls_acceptor was called with.   *)
(***************************************************************************)
EXTENDS SiteLookup

CONSTANTS
  None,
  Position            \* lower-case host names, with their place in the order of strings

\* Mutant: the first key of the HashMap is the default.
FirstByName_Unsorted(group) == group

\* hostnames.sort() and first(): the default certificate.
FirstByName(group) ==
  {s \in group : \A t \in group : Position[Lower(s.address.name)] <= Position[Lower(t.address.name)]}

(***************************************************************************)
(* SniCertResolver::resolve over the entries of build_tls_acceptor: the    *)
(* sites whose certificate may be presented.  It is one site unless two of *)
(* the group have the same name; of those the one inserted last is used.   *)
(***************************************************************************)
ResolveCert(group, sni) ==
  LET named == {s \in group : sni # None /\ Lower(s.address.name) = Lower(sni)}
  IN  IF named # {} THEN named ELSE FirstByName(group)

\* Mutant: the port of the Host header is kept.
RedirectLocation_KeepsPort(host, tls_port) ==
  [name |-> host.name, br |-> FALSE, port |-> IF tls_port = 443 THEN NoPort ELSE host.port]

\* listen_http_redirect: hostname_from_host_header drops the port and the
\* brackets, and the TLS port is written unless it is 443.
RedirectLocation(host, tls_port) ==
  [name |-> BareHostname(host).name, br |-> FALSE, port |-> IF tls_port = 443 THEN NoPort ELSE tls_port]

\* external: the Host header of a client that follows the Location; it sends
\* the name in lower case, as server name too.
FollowedHost(location) == [location EXCEPT !.name = Lower(@)]
=============================================================================
