---------------------------- MODULE MCListeners ----------------------------
(***************************************************************************)
(* Small sets of sites for the listeners.                                  *)
(***************************************************************************)
EXTENDS Listeners

Site(host, port, tls, ok) == [host |-> host, port |-> port, tls |-> tls, cert_ok |-> ok]

\* One TLS and one plain listener, and a redirect listener for the first; or
\* the TLS listener alone, with --addr.
TlsAndPlain ==
  {[addr |-> a,
    sites |-> {Site("example.com", 8443, TRUE, TRUE), Site("127.0.0.1", 9090, FALSE, TRUE)}] :
     a \in {None, [ip |-> "0.0.0.0", port |-> 8443]}}

\* A plain site where the redirect of the TLS site belongs.
TlsAndPort80 ==
  {[addr |-> None,
    sites |-> {Site("example.com", 443, TRUE, TRUE), Site("example.com", 80, FALSE, TRUE)}]}
=============================================================================
