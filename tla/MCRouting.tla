----------------------------- MODULE MCRouting -----------------------------
(***************************************************************************)
(* Small sets of questions for find_site and the redirects.                *)
(***************************************************************************)
EXTENDS Routing, TLC

MCLower(name) == IF name = "EXAMPLE.com" THEN "example.com" ELSE name
MCPosition == "127.0.0.1" :> 0 @@ "::1" :> 1 @@ "a.org" :> 2 @@ "example.com" :> 3 @@ "other.com" :> 4

Addr(name, br, port) == [name |-> name, br |-> br, port |-> port]

\* A site stored under its own address.  One without a port is only accepted
\* by POST /config and by Proxy::new; the text parser refuses it.
SiteAt(addr, secure) == [key |-> addr, address |-> addr, tls |-> secure]

\* validate_listen_sockets: one kind of sites per socket, and the names on a
\* TLS socket differ.  127.0.0.1:8443 is a plain one beside the TLS sites on
\* 0.0.0.0:8443 and [::1]:8443.
Secure(addr) == addr.port \in {443, 8443, 9443} /\ addr # Addr("127.0.0.1", FALSE, 8443)
SiteSets(addresses) == {{SiteAt(a, Secure(a)) : a \in as} : as \in SUBSET addresses}

Addresses1 == {Addr("example.com", FALSE, p) : p \in {NoPort, 0, 80, 443, 8443}}
              \cup {Addr("EXAMPLE.com", FALSE, 9443), Addr("::1", TRUE, 8443),
                    Addr("::1", FALSE, NoPort)}

\* What start_all serves: every address has a port.
Addresses2 == {Addr("example.com", FALSE, p) : p \in {80, 443, 8443}}
              \cup {Addr("a.org", FALSE, p) : p \in {443, 8443}}
              \cup {Addr("EXAMPLE.com", FALSE, 9443), Addr("other.com", FALSE, 443),
                    Addr("127.0.0.1", FALSE, 443), Addr("127.0.0.1", FALSE, 8443),
                    Addr("::1", TRUE, 8443)}

Hosts == {Addr("example.com", FALSE, p) : p \in {NoPort, 0, 80, 443, 8443, 9000}}
         \cup {Addr("EXAMPLE.com", FALSE, NoPort), Addr("other.com", FALSE, NoPort)}
         \cup {Addr("::1", TRUE, p) : p \in {NoPort, 8443, 9000}}
         \cup {Addr("127.0.0.1", FALSE, NoPort)}

\* The TLS listeners that start_all may open for them.
TlsSockets == {[ip |-> "0.0.0.0", port |-> 443], [ip |-> "0.0.0.0", port |-> 8443],
               [ip |-> "127.0.0.1", port |-> 443], [ip |-> "[::1]", port |-> 8443]}

MCLookups == [sites : SiteSets(Addresses1), host : Hosts, tls : BOOLEAN]
MCRedirects ==
  {q \in [sites : SiteSets(Addresses2), host : Hosts, socket : TlsSockets, sni : BOOLEAN] :
     SitesOf(q.sites, q.socket) # {}}
=============================================================================
