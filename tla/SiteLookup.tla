----------------------------- MODULE SiteLookup -----------------------------
(***************************************************************************)
(* find_site: the site of a configuration that answers for a Host header   *)
(* value.  A host or site address is a record: its name, whether the name  *)
(* is written in IPv6 brackets, and its port, NoPort when none is written. *)
(* A site has the key it is stored under in Config.sites, the address in   *)
(* its own body (equal to the key when the text parser built it, free when *)
(* the JSON API did), whether it has TLS, and its directive block.         *)
(***************************************************************************)
EXTENDS Integers, FiniteSets, Addresses

CONSTANT Lower(_)     \* to_ascii_lowercase on host names

\* The Host a request without a readable Host header is given.
Localhost == [name |-> "localhost", br |-> FALSE, port |-> NoPort]

\* Config.sites.get(host): the map holds at most one site for a key.
SitesAt(sites, host) == {s \in sites : s.key = host}

\* Mutant: the default ports are swapped.
WithDefaultPort_Swapped(host, tls) == [host EXCEPT !.port = IF tls THEN 80 ELSE 443]

\* Step 2 appends the default port of the scheme.
WithDefaultPort(host, tls) == [host EXCEPT !.port = IF tls THEN 443 ELSE 80]

\* Step 4 drops the port and, from an IPv6 host, the brackets.
BareHostname(host) == [name |-> host.name, br |-> FALSE, port |-> NoPort]

\* Mutant: any TLS site will do.
SniMatches_AnyName(sites, host) == {s \in sites : s.tls /\ ~host.br}

\* extract_hostname(&s.address) drops brackets and the raw host does not.
SniMatches(sites, host) ==
  {s \in sites : s.tls /\ ~host.br /\ Lower(s.address.name) = Lower(host.name)}

(***************************************************************************)
(* The four steps of find_site in their order: the exact key; with a port, *)
(* the bare hostname; without one, the default port of the scheme, then    *)
(* over TLS the TLS site of that hostname if there is exactly one.  The    *)
(* Option it returns is a set, {} for None and {site} for Some(site).      *)
(***************************************************************************)
FindSite(sites, host, tls) ==
  LET defaulted == SitesAt(sites, WithDefaultPort(host, tls))
      bysni     == SniMatches(sites, host)
  IN  IF SitesAt(sites, host) # {} THEN SitesAt(sites, host)
      ELSE IF host.port # NoPort THEN SitesAt(sites, BareHostname(host))
      ELSE IF defaulted # {} THEN defaulted
      ELSE IF tls /\ Cardinality(bysni) = 1 THEN bysni
      ELSE {}
=============================================================================
