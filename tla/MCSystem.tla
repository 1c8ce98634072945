------------------------------ MODULE MCSystem ------------------------------
(***************************************************************************)
(* Small sets of sites for the listeners and the API.                      *)
(***************************************************************************)
EXTENDS System, TLC

Site(host, port, tls, ok) == [host |-> host, port |-> port, tls |-> tls, cert_ok |-> ok]
Host(name, port) == [name |-> name, br |-> FALSE, port |-> port]

MCLower(name) == name

\* Plain and TLS sites of the same name, and two plain sites on one port.
Served == {{Site("example.com", 443, TRUE, TRUE), Site("example.com", 81, FALSE, TRUE),
            Site("a.org", 443, TRUE, TRUE)},
           {Site("127.0.0.1", 80, FALSE, TRUE), Site("example.com", 80, FALSE, TRUE)}}

\* start_all on two TLS sockets that are taken, with their redirects on one
\* port, where one of the sites belongs; and on what it trips over: a socket
\* shared by both kinds of sites, a certificate that does not load, an address
\* without a port, no site.
Unserved ==
  {{Site("[::1]", 90, TRUE, TRUE), Site("[::1]", 80, TRUE, TRUE)},
   {Site("[::1]", 90, TRUE, TRUE), Site("a.org", 443, TRUE, TRUE),
    Site("b.org", 443, FALSE, TRUE)},
   {Site("[::1]", 90, TRUE, TRUE), Site("[::1]", 80, TRUE, FALSE)},
   {Site("example.com", NoPort, FALSE, TRUE)},
   {}}

\* Sites --addr matches or does not, and a bad certificate.
ForOneAddr ==
  {{Site("localhost", 90, TRUE, TRUE), Site("::1", 90, TRUE, TRUE)},
   {Site("::", 90, TRUE, TRUE)},
   {Site("0.0.0.0", 90, TRUE, FALSE)}}

MCStarts ==
  {[addr |-> None, sites |-> s] : s \in Served \cup Unserved}
  \cup {[addr |-> [ip |-> "0.0.0.0", port |-> 8443],
         sites |-> {Site("example.com", 8443, TRUE, TRUE)}]}
  \cup {[addr |-> [ip |-> ip, port |-> 90], sites |-> s] :
          ip \in {"0.0.0.0", "[::1]"}, s \in ForOneAddr}

\* Other processes hold these: no client comes to Unserved and ForOneAddr.
MCTaken == [ip : {"0.0.0.0", "[::1]"}, port : {90}] \cup [ip : V6, port : {80}]

\* API connections are alike.
CallSymmetry == Permutations(Calls)

MCHosts == {Host("example.com", NoPort), Host("example.com", 443), Host("example.com", 81),
            Host("a.org", 443), Host("a.org", NoPort)}
=============================================================================
