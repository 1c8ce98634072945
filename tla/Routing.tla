------------------------------ MODULE Routing ------------------------------
(***************************************************************************)
(* The pure functions on the way of a request, each asked one question:    *)
(* find_site, and the redirect with the certificate and the site it leads  *)
(* to.                                                                     *)
(***************************************************************************)
EXTENDS TlsRouting

CONSTANTS
  Lookups,            \* questions to find_site: [sites, host, tls]
  Redirects           \* a client redirected to a TLS listener: [sites, host, socket, sni]

HostRecords == [name : STRING, br : BOOLEAN, port : Ports \cup {NoPort}]

\* Where start_all listens for a site: its host as it is written, with the
\* brackets, and what resolve_listen_addr makes of it.  Of the IPv6 addresses
\* the model knows one.
HostText(address) ==
  CASE ~address.br                         -> address.name
    [] address.br /\ address.name = "::1"  -> "[::1]"
    [] OTHER                               -> "[name]"
ListenSocket(address) == ResolveListenAddr([host |-> HostText(address), port |-> address.port])

\* The sites the text parser builds: finitely many, each under its own address.
StoredByAddress(sites) ==
  /\ IsFiniteSet(sites)
  /\ \A s \in sites :
       /\ s.address \in HostRecords /\ s.key = s.address /\ s.tls \in BOOLEAN
       /\ \A t \in sites : s.key = t.key => s = t

ASSUME LookupsAssumption ==
  \A q \in Lookups : StoredByAddress(q.sites) /\ q.host \in HostRecords /\ q.tls \in BOOLEAN

\* The group of a TLS listener: the sites that resolve to its socket.
SitesOf(sites, socket) == {s \in sites : ListenSocket(s.address) = socket}

\* What validate_listen_sockets has made sure of: every address has a port, and
\* the sites on the listener's socket have TLS and names that differ.  A name
\* is an IPv6 address, and in brackets, in the Host header if it is in the
\* site's address.
ASSUME RedirectsAssumption ==
  \A q \in Redirects :
    /\ StoredByAddress(q.sites) /\ q.host \in HostRecords /\ Lower(q.host.name) # None
    /\ q.socket \in [ip : STRING, port : Ports] /\ q.sni \in BOOLEAN
    /\ \A s \in q.sites :
         /\ s.address.port # NoPort
         /\ s.address.name = Lower(q.host.name) => s.address.br = q.host.br
    /\ \A s \in SitesOf(q.sites, q.socket) : s.tls
    /\ \A s, t \in SitesOf(q.sites, q.socket) :
         Lower(s.address.name) = Lower(t.address.name) => s = t

\* Strings are ordered, totally.
ASSUME PositionAssumption ==
  \A q \in Redirects : \A s, t \in q.sites :
    /\ Position[Lower(s.address.name)] \in Nat
    /\ Position[Lower(s.address.name)] = Position[Lower(t.address.name)] =>
         Lower(s.address.name) = Lower(t.address.name)

VARIABLES
  kind,               \* which function is asked
  question, answered,
  found,              \* the site find_site returned
  cert                \* the site whose certificate is presented

vars == <<kind, question, answered, found, cert>>

Init ==
  /\ \/ kind = "lookup" /\ question \in Lookups
     \/ kind = "redirect" /\ question \in Redirects
  /\ answered = FALSE /\ found = {} /\ cert = {}

Ask(k) == ~answered /\ kind = k /\ answered' = TRUE /\ UNCHANGED <<kind, question>>

Lookup ==
  /\ Ask("lookup")
  /\ found' = FindSite(question.sites, question.host, question.tls)
  /\ UNCHANGED cert

\* A client is redirected and follows, to the TLS listener of that redirect.
Group == SitesOf(question.sites, question.socket)

Follow ==
  /\ Ask("redirect")
  /\ LET host == FollowedHost(RedirectLocation(question.host, question.socket.port))
     IN  /\ found' = FindSite(question.sites, host, TRUE)
         /\ cert' = ResolveCert(Group, IF question.sni THEN host.name ELSE None)

Next == Lookup \/ Follow

Spec == Init /\ [][Next]_vars

-----------------------------------------------------------------------------
(* Properties                                                              *)

Answered(k) == answered /\ kind = k

\* A request is never given to another host's site, to a site with another
\* port than the one it names, or by guessing between two: find_site returns
\* at most one site, of the name in Host, whose port is the named one or none.
AnswersForHost ==
  Answered("lookup") =>
    LET host == question.host
    IN  /\ Cardinality(found) <= 1
        /\ \A s \in found :
             /\ Lower(s.address.name) = Lower(host.name)
             /\ host.port # NoPort => s.address.port \in {host.port, NoPort}

\* Port 443 is used for TLS and port 80 is not.
UsualPorts(sites) ==
  \A s \in sites : (s.address.port = 443 => s.tls) /\ (s.address.port = 80 => ~s.tls)

\* find_site does not mix the schemes where it has to guess: without a port in
\* Host, a request over plain HTTP gets no TLS site, and one over TLS gets a
\* plain site only if that is stored without a port, as long as 443 and 80 are
\* used as usual.
SchemeIsKept ==
  Answered("lookup") /\ question.host.port = NoPort /\ UsualPorts(question.sites) =>
    \A s \in found : s.tls # question.tls => s.address.port = NoPort

\* A client that follows the redirect of a TLS listener is shown the
\* certificate of the site it asked for and is answered by that site, if the
\* site is on that listener and its address is written in lower case, whatever
\* port the client had named and whatever else is configured.
RedirectReachesSite ==
  Answered("redirect") =>
    \A s \in Group : ~question.host.br /\ s.address.name = Lower(question.host.name) =>
      found = {s} /\ (question.sni => cert = {s})

\* The certificate a TLS listener shows is that of the site that answers,
\* for clients that send the server name; the others are shown one and the same.
CertificateOfSite ==
  Answered("redirect") =>
    /\ Cardinality(cert) <= 1
    /\ question.sni /\ found \cap Group # {} => cert = found
=============================================================================
