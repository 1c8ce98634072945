--------------------------- MODULE Routing_proofs ---------------------------
(***************************************************************************)
(* What find_site, the certificate resolver and the redirect answer, for   *)
(* any set of sites, any Host header and any listener.                     *)
(***************************************************************************)
EXTENDS Routing, FiniteSetTheorems, TLAPS

\* At most one site, as the Option that find_site returns.
AtMostOne(S) == S = {} \/ \E x : S = {x}

\* Its cardinality says the same.
LEMMA AtMostOneCard ==
  ASSUME NEW S, AtMostOne(S)
  PROVE  Cardinality(S) <= 1
<1>1. CASE S = {}
  <2>1. Cardinality(S) = 0
    BY <1>1, FS_EmptySet
  <2>. QED
    BY <2>1
<1>2. ASSUME NEW x, S = {x} PROVE Cardinality(S) <= 1
  <2>1. Cardinality(S) = 1
    BY <1>2, FS_Singleton
  <2>. QED
    BY <2>1
<1>. QED
  BY <1>1, <1>2 DEF AtMostOne

\* HashMap::get returns at most one site, and that has the key asked for.
LEMMA GetSite ==
  ASSUME NEW sites, StoredByAddress(sites), NEW host
  PROVE  /\ AtMostOne(SitesAt(sites, host))
         /\ \A s \in SitesAt(sites, host) : s \in sites /\ s.address = host
<1>1. \A s \in SitesAt(sites, host) : s \in sites /\ s.key = host /\ s.address = host
  BY DEF SitesAt, StoredByAddress
<1>2. \A s, t \in SitesAt(sites, host) : s = t
  BY <1>1 DEF StoredByAddress
<1>3. AtMostOne(SitesAt(sites, host))
  BY <1>2 DEF AtMostOne
<1>. QED
  BY <1>1, <1>3

\* The four steps of find_site, and what the site each one finds is like.
LEMMA FindSiteFacts ==
  ASSUME NEW sites, StoredByAddress(sites), NEW host, NEW tls \in BOOLEAN
  PROVE  /\ AtMostOne(FindSite(sites, host, tls))
         /\ \A s \in FindSite(sites, host, tls) :
              /\ s \in sites
              /\ \/ s.address = host
                 \/ host.port # NoPort /\ s.address = BareHostname(host)
                 \/ host.port = NoPort /\ s.address = WithDefaultPort(host, tls)
                 \/ /\ host.port = NoPort /\ tls /\ s.tls
                    /\ Lower(s.address.name) = Lower(host.name)
<1> DEFINE defaulted == SitesAt(sites, WithDefaultPort(host, tls))
           bysni     == SniMatches(sites, host)
<1>1. CASE FindSite(sites, host, tls) = SitesAt(sites, host)
  BY <1>1, GetSite
<1>2. CASE host.port # NoPort /\ FindSite(sites, host, tls) = SitesAt(sites, BareHostname(host))
  BY <1>2, GetSite
<1>3. CASE host.port = NoPort /\ FindSite(sites, host, tls) = defaulted
  BY <1>3, GetSite
<1>4. CASE /\ host.port = NoPort /\ tls /\ Cardinality(bysni) = 1
           /\ FindSite(sites, host, tls) = bysni
  <2>1. bysni \subseteq sites /\ \A s \in bysni : s.tls /\ Lower(s.address.name) = Lower(host.name)
    BY DEF SniMatches
  <2>2. IsFiniteSet(bysni)
    BY <2>1, FS_Subset DEF StoredByAddress
  <2>3. AtMostOne(bysni)
    BY <1>4, <2>2, FS_Singleton DEF AtMostOne
  <2>. QED
    BY <1>4, <2>1, <2>3
<1>5. CASE FindSite(sites, host, tls) = {}
  BY <1>5 DEF AtMostOne
<1>6. \/ FindSite(sites, host, tls) = SitesAt(sites, host)
      \/ host.port # NoPort /\ FindSite(sites, host, tls) = SitesAt(sites, BareHostname(host))
      \/ host.port = NoPort /\ FindSite(sites, host, tls) = defaulted
      \/ /\ host.port = NoPort /\ tls /\ Cardinality(bysni) = 1
         /\ FindSite(sites, host, tls) = bysni
      \/ FindSite(sites, host, tls) = {}
  <2>1. CASE SitesAt(sites, host) # {}
    BY <2>1, Zenon DEF FindSite
  <2>2. CASE SitesAt(sites, host) = {} /\ host.port # NoPort
    BY <2>2, Zenon DEF FindSite
  <2>3. CASE SitesAt(sites, host) = {} /\ host.port = NoPort /\ defaulted # {}
    BY <2>3, Zenon DEF FindSite
  <2>4. CASE /\ SitesAt(sites, host) = {} /\ host.port = NoPort /\ defaulted = {}
             /\ tls /\ Cardinality(bysni) = 1
    BY <2>4, Zenon DEF FindSite
  <2>5. CASE /\ SitesAt(sites, host) = {} /\ host.port = NoPort /\ defaulted = {}
             /\ tls /\ Cardinality(bysni) # 1
    BY <2>5, Zenon DEF FindSite
  <2>6. CASE /\ SitesAt(sites, host) = {} /\ host.port = NoPort /\ defaulted = {}
             /\ ~tls
    BY <2>6, Zenon DEF FindSite
  <2>. QED
    BY <2>1, <2>2, <2>3, <2>4, <2>5, <2>6, Zenon
<1>. QED
  BY <1>1, <1>2, <1>3, <1>4, <1>5, <1>6

\* The names and ports of the addresses find_site tries.
LEMMA TriedAddresses ==
  ASSUME NEW host \in HostRecords, NEW tls \in BOOLEAN
  PROVE  /\ BareHostname(host).name = host.name /\ BareHostname(host).port = NoPort
         /\ WithDefaultPort(host, tls).name = host.name
         /\ tls => WithDefaultPort(host, tls).port = 443
         /\ ~tls => WithDefaultPort(host, tls).port = 80
<1>1. BareHostname(host).name = host.name /\ BareHostname(host).port = NoPort
  BY DEF BareHostname
<1>2. \A p : [host EXCEPT !.port = p].name = host.name /\ [host EXCEPT !.port = p].port = p
  BY DEF HostRecords
<1>3. PICK p : WithDefaultPort(host, tls) = [host EXCEPT !.port = p] /\ (tls => p = 443) /\ (~tls => p = 80)
  <2>1. CASE tls
    BY <2>1, Zenon DEF WithDefaultPort
  <2>2. CASE ~tls
    BY <2>2, Zenon DEF WithDefaultPort
  <2>. QED
    BY <2>1, <2>2
<1>4. WithDefaultPort(host, tls).name = host.name /\ WithDefaultPort(host, tls).port = p
  <2>1. [host EXCEPT !.port = p].name = host.name /\ [host EXCEPT !.port = p].port = p
    BY <1>2
  <2>. QED
    BY <1>3, <2>1, Zenon
<1>. QED
  BY <1>1, <1>3, <1>4, Zenon

-----------------------------------------------------------------------------
(* find_site                                                               *)

\* What find_site answers, over all questions.
LookupOK ==
  /\ kind = "lookup" => question \in Lookups
  /\ Answered("lookup") => found = FindSite(question.sites, question.host, question.tls)

\* LookupOK is an invariant.
LEMMA LookupHolds == Spec => []LookupOK
<1>1. Init => LookupOK
  BY DEF Init, LookupOK, Answered
<1>2. LookupOK /\ [Next]_vars => LookupOK'
  <2> SUFFICES ASSUME LookupOK, [Next]_vars PROVE LookupOK'
    OBVIOUS
  <2>1. CASE Lookup
    BY <2>1 DEF LookupOK, Lookup, Ask, Answered
  <2>2. CASE Follow
    <3>1. kind' # "lookup"
      BY <2>2 DEF Follow, Ask
    <3>. QED
      BY <3>1 DEF LookupOK, Answered
  <2>3. CASE UNCHANGED vars
    BY <2>3 DEF LookupOK, Answered, vars
  <2>. QED
    BY <2>1, <2>2, <2>3 DEF Next
<1>. QED
  BY <1>1, <1>2, PTL DEF Spec

\* find_site never answers for another host: for any sites stored under their
\* own addresses and any Host header it returns at most one site, of that
\* name, with the port that was named or none.
THEOREM LookupSafe == Spec => []AnswersForHost
<1>1. LookupOK => AnswersForHost
  <2> SUFFICES ASSUME LookupOK, Answered("lookup")
               PROVE  LET host == question.host
                      IN  /\ Cardinality(found) <= 1
                          /\ \A s \in found :
                               /\ Lower(s.address.name) = Lower(host.name)
                               /\ host.port # NoPort => s.address.port \in {host.port, NoPort}
    BY DEF AnswersForHost
  <2>1. /\ StoredByAddress(question.sites) /\ question.host \in HostRecords
        /\ question.tls \in BOOLEAN
        /\ found = FindSite(question.sites, question.host, question.tls)
    BY LookupsAssumption DEF LookupOK, Answered
  <2>2. Cardinality(found) <= 1
    BY <2>1, FindSiteFacts, AtMostOneCard
  <2>3. ASSUME NEW s \in found
        PROVE  /\ Lower(s.address.name) = Lower(question.host.name)
               /\ question.host.port # NoPort => s.address.port \in {question.host.port, NoPort}
    <3>1. \/ s.address = question.host
          \/ question.host.port # NoPort /\ s.address = BareHostname(question.host)
          \/ question.host.port = NoPort /\ s.address = WithDefaultPort(question.host, question.tls)
          \/ /\ question.host.port = NoPort
             /\ Lower(s.address.name) = Lower(question.host.name)
      BY <2>1, <2>3, FindSiteFacts
    <3>. QED
      BY <2>1, <3>1, TriedAddresses
  <2>. QED
    BY <2>2, <2>3
<1>. QED
  BY <1>1, LookupHolds, PTL

\* Where find_site has to guess the port it guesses within the scheme: a plain
\* request without a port never lands on a TLS site, nor the other way round
\* except on a site stored without a port, for any sites that use 443 for TLS
\* only and 80 for plain HTTP only.
THEOREM SchemeSafe == Spec => []SchemeIsKept
<1>1. LookupOK => SchemeIsKept
  <2> SUFFICES ASSUME LookupOK, Answered("lookup"), question.host.port = NoPort,
                      UsualPorts(question.sites), NEW s \in found, s.tls # question.tls
               PROVE  s.address.port = NoPort
    BY DEF SchemeIsKept
  <2>1. /\ StoredByAddress(question.sites) /\ question.host \in HostRecords
        /\ question.tls \in BOOLEAN
        /\ found = FindSite(question.sites, question.host, question.tls)
    BY LookupsAssumption DEF LookupOK, Answered
  <2>2. /\ s \in question.sites
        /\ \/ s.address = question.host
           \/ s.address = WithDefaultPort(question.host, question.tls)
           \/ question.tls /\ s.tls
    BY <2>1, FindSiteFacts
  <2>3. s.tls \in BOOLEAN
    BY <2>1, <2>2 DEF StoredByAddress
  <2>4. s.address # WithDefaultPort(question.host, question.tls)
    <3> SUFFICES ASSUME s.address = WithDefaultPort(question.host, question.tls) PROVE FALSE
      OBVIOUS
    <3>1. CASE question.tls
      <4>1. s.address.port = 443
        <5>1. question.tls = TRUE
          BY <2>1, <3>1, Zenon
        <5>2. WithDefaultPort(question.host, TRUE).port = 443
          BY <2>1, TriedAddresses
        <5>3. s.address = WithDefaultPort(question.host, TRUE)
          BY <5>1, Zenon
        <5>. QED
          BY <5>2, <5>3
      <4>2. s.tls
        BY <2>1, <2>2, <4>1 DEF UsualPorts
      <4>. QED
        BY <2>1, <2>3, <3>1, <4>2, Zenon
    <3>2. CASE ~question.tls
      <4>1. s.address.port = 80
        <5>1. WithDefaultPort(question.host, question.tls).port = 80
          BY <2>1, <3>2, TriedAddresses
        <5>. QED
          BY <5>1
      <4>2. ~s.tls
        BY <2>1, <2>2, <4>1 DEF UsualPorts
      <4>. QED
        BY <2>1, <2>3, <3>2, <4>2, Zenon
    <3>. QED
      BY <3>1, <3>2
  <2>. QED
    BY <2>1, <2>2, <2>3, <2>4
<1>. QED
  BY <1>1, LookupHolds, PTL

-----------------------------------------------------------------------------
(* The redirect                                                            *)

\* The Host header of the client that follows the redirect.
Followed(q) == [name |-> Lower(q.host.name), br |-> FALSE,
                port |-> IF q.socket.port = 443 THEN NoPort ELSE q.socket.port]

\* The sites of the listener it connects to.
Served(q) == SitesOf(q.sites, q.socket)

\* The site and the certificate of a redirect that has been followed.
FollowOK ==
  /\ kind = "redirect" => question \in Redirects
  /\ Answered("redirect") =>
       /\ found = FindSite(question.sites, Followed(question), TRUE)
       /\ cert = ResolveCert(Served(question),
                             IF question.sni THEN Lower(question.host.name) ELSE None)

\* The client writes the name in lower case and keeps the rest.
LEMMA FollowedRecord ==
  ASSUME NEW n, NEW b, NEW p
  PROVE  FollowedHost([name |-> n, br |-> b, port |-> p]) = [name |-> Lower(n), br |-> b, port |-> p]
BY SMT DEF FollowedHost

\* Appending a port to a host.
LEMMA PortRecord ==
  ASSUME NEW n, NEW b, NEW p, NEW r, NEW h, h = [name |-> n, br |-> b, port |-> p]
  PROVE  [h EXCEPT !.port = r] = [name |-> n, br |-> b, port |-> r]
BY SMT

\* Location and the client between them drop the brackets and the old port.
LEMMA FollowsTo ==
  ASSUME NEW q
  PROVE  FollowedHost(RedirectLocation(q.host, q.socket.port)) = Followed(q)
<1>1. BareHostname(q.host).name = q.host.name
  BY DEF BareHostname
<1>2. PICK p : /\ p = IF q.socket.port = 443 THEN NoPort ELSE q.socket.port
               /\ RedirectLocation(q.host, q.socket.port) = [name |-> q.host.name, br |-> FALSE, port |-> p]
  BY <1>1, Zenon DEF RedirectLocation
<1>3. Followed(q) = [name |-> Lower(q.host.name), br |-> FALSE, port |-> p]
  BY <1>2, Zenon DEF Followed
<1>4. FollowedHost([name |-> q.host.name, br |-> FALSE, port |-> p])
        = [name |-> Lower(q.host.name), br |-> FALSE, port |-> p]
  BY FollowedRecord, Zenon
<1>. QED
  BY <1>2, <1>3, <1>4, Zenon

\* FollowOK is an invariant.
LEMMA FollowHolds == Spec => []FollowOK
<1>1. Init => FollowOK
  BY DEF Init, FollowOK, Answered
<1>2. FollowOK /\ [Next]_vars => FollowOK'
  <2> SUFFICES ASSUME FollowOK, [Next]_vars PROVE FollowOK'
    OBVIOUS
  <2>1. CASE Follow
    <3>1. kind = "redirect" /\ UNCHANGED <<kind, question>>
      BY <2>1 DEF Follow, Ask
    <3>2. FollowedHost(RedirectLocation(question.host, question.socket.port)) = Followed(question)
      BY FollowsTo
    <3>3. Followed(question).name = Lower(question.host.name) /\ Group = Served(question)
      BY DEF Followed, Group, Served
    <3>4. /\ found' = FindSite(question.sites, Followed(question), TRUE)
          /\ cert' = ResolveCert(Served(question),
                                 IF question.sni THEN Lower(question.host.name) ELSE None)
      BY <2>1, <3>2, <3>3, Zenon DEF Follow
    <3>5. question' = question /\ Followed(question)' = Followed(question)
          /\ Served(question)' = Served(question)
      BY <3>1 DEF Followed, Served
    <3>6. /\ found' = FindSite(question'.sites, Followed(question)', TRUE)
          /\ cert' = ResolveCert(Served(question)',
                                 IF question'.sni THEN Lower(question'.host.name) ELSE None)
      BY <3>4, <3>5, Zenon
    <3>. QED
      BY <3>1, <3>6 DEF FollowOK
  <2>2. CASE Lookup
    <3>1. kind' # "redirect"
      BY <2>2 DEF Lookup, Ask
    <3>. QED
      BY <3>1 DEF FollowOK, Answered
  <2>3. CASE UNCHANGED vars
    BY <2>3 DEF FollowOK, Answered, vars
  <2>. QED
    BY <2>1, <2>2, <2>3 DEF Next
<1>. QED
  BY <1>1, <1>2, PTL DEF Spec

\* A listener's certificate is that of the one site of the name it is asked
\* for, where there is one, and of one site in any case.
LEMMA CertificateFacts ==
  ASSUME NEW q \in Redirects, NEW sni
  PROVE  /\ AtMostOne(ResolveCert(Served(q), sni))
         /\ \A s \in Served(q) : sni # None /\ Lower(s.address.name) = Lower(sni) =>
              ResolveCert(Served(q), sni) = {s}
<1> DEFINE named == {s \in Served(q) : sni # None /\ Lower(s.address.name) = Lower(sni)}
<1>1. \A s, t \in Served(q) : Lower(s.address.name) = Lower(t.address.name) => s = t
  BY RedirectsAssumption DEF Served
<1>2. \A s, t \in named : s = t
  BY <1>1
<1>3. \A s, t \in FirstByName(Served(q)) : s = t
  <2> SUFFICES ASSUME NEW s \in FirstByName(Served(q)), NEW t \in FirstByName(Served(q))
               PROVE  s = t
    OBVIOUS
  <2>1. s \in Served(q) /\ t \in Served(q) /\ s \in q.sites /\ t \in q.sites
    BY DEF FirstByName, Served, SitesOf
  <2>2. /\ Position[Lower(s.address.name)] <= Position[Lower(t.address.name)]
        /\ Position[Lower(t.address.name)] <= Position[Lower(s.address.name)]
    BY <2>1 DEF FirstByName
  <2>3. Position[Lower(s.address.name)] \in Nat /\ Position[Lower(t.address.name)] \in Nat
    BY <2>1, PositionAssumption
  <2>4. Position[Lower(s.address.name)] = Position[Lower(t.address.name)]
    BY <2>2, <2>3
  <2>. QED
    BY <1>1, <2>1, <2>4, PositionAssumption
<1>4. CASE named = {}
  <2>1. ResolveCert(Served(q), sni) = FirstByName(Served(q))
    BY <1>4, Zenon DEF ResolveCert
  <2>. QED
    BY <1>3, <1>4, <2>1 DEF AtMostOne
<1>5. CASE named # {}
  <2>1. ResolveCert(Served(q), sni) = named
    BY <1>5, Zenon DEF ResolveCert
  <2>. QED
    BY <1>2, <2>1 DEF AtMostOne
<1>. QED
  BY <1>4, <1>5

\* find_site finds the site again by what the redirect made of its address.
LEMMA FollowedFinds ==
  ASSUME NEW q \in Redirects, NEW s \in Served(q),
         ~q.host.br, s.address.name = Lower(q.host.name)
  PROVE  FindSite(q.sites, Followed(q), TRUE) = {s}
<1>1. /\ StoredByAddress(q.sites) /\ s \in q.sites /\ s.address.port = q.socket.port
      /\ s.address.br = q.host.br /\ q.host \in HostRecords
      /\ \A t \in q.sites : t.address.port # NoPort
  <2>1. s \in q.sites /\ ListenSocket(s.address) = q.socket
    BY DEF Served, SitesOf
  <2>2. ListenSocket(s.address).port = s.address.port
    BY DEF ListenSocket, ResolveListenAddr
  <2>. QED
    BY <2>1, <2>2, RedirectsAssumption
<1>2. s.address \in HostRecords /\ s.key = s.address
  BY <1>1 DEF StoredByAddress
<1>3. q.host.br = FALSE
  <2>1. q.host.br \in BOOLEAN
    BY <1>1 DEF HostRecords
  <2>. QED
    BY <2>1, Zenon
<1>4. s.address = [name |-> Lower(q.host.name), br |-> FALSE, port |-> q.socket.port]
  <2>1. s.address = [name |-> s.address.name, br |-> s.address.br, port |-> s.address.port]
    BY <1>2 DEF HostRecords
  <2>. QED
    BY <1>1, <1>3, <2>1, Zenon
<1>5. SitesAt(q.sites, s.address) = {s}
  BY <1>1, <1>2 DEF StoredByAddress, SitesAt
<1>6. CASE q.socket.port # 443
  <2>1. Followed(q) = s.address
    BY <1>4, <1>6 DEF Followed
  <2>2. SitesAt(q.sites, Followed(q)) # {}
    BY <1>5, <2>1
  <2>3. FindSite(q.sites, Followed(q), TRUE) = SitesAt(q.sites, Followed(q))
    BY <2>2, Zenon DEF FindSite
  <2>. QED
    BY <1>5, <2>1, <2>3, Zenon
<1>7. CASE q.socket.port = 443
  <2>1. Followed(q) = [name |-> Lower(q.host.name), br |-> FALSE, port |-> NoPort]
    BY <1>7 DEF Followed
  <2>2. Followed(q).port = NoPort
    BY <2>1
  <2>3. SitesAt(q.sites, Followed(q)) = {}
    <3>1. \A t \in q.sites : t.key = t.address
      BY <1>1 DEF StoredByAddress
    <3>. QED
      BY <1>1, <2>2, <3>1 DEF SitesAt
  <2>4. WithDefaultPort(Followed(q), TRUE) = s.address
    <3>1. WithDefaultPort(Followed(q), TRUE) = [Followed(q) EXCEPT !.port = q.socket.port]
      BY <1>7 DEF WithDefaultPort
    <3>2. PICK h, n, b, p : /\ h = Followed(q) /\ n = Lower(q.host.name) /\ b = FALSE /\ p = NoPort
                            /\ h = [name |-> n, br |-> b, port |-> p]
      BY <2>1, Zenon
    <3>3. [h EXCEPT !.port = q.socket.port] = [name |-> n, br |-> b, port |-> q.socket.port]
      BY <3>2, PortRecord
    <3>. QED
      BY <1>4, <3>1, <3>2, <3>3, Zenon
  <2>5. SitesAt(q.sites, WithDefaultPort(Followed(q), TRUE)) = {s}
    BY <1>5, <2>4, Zenon
  <2>6. SitesAt(q.sites, WithDefaultPort(Followed(q), TRUE)) # {}
    BY <2>5
  <2>7. FindSite(q.sites, Followed(q), TRUE) = SitesAt(q.sites, WithDefaultPort(Followed(q), TRUE))
    BY <2>2, <2>3, <2>6, Zenon DEF FindSite
  <2>. QED
    BY <2>5, <2>7, Zenon
<1>. QED
  BY <1>6, <1>7

\* A client that follows the redirect reaches the site it asked for and is
\* shown that site's certificate: the name stays, the port is the listener's,
\* and where the Location leaves 443 out find_site puts it back, because no
\* site is stored without a port.
THEOREM RedirectSafe == Spec => []RedirectReachesSite
<1>1. FollowOK => RedirectReachesSite
  <2> SUFFICES ASSUME FollowOK, Answered("redirect"), NEW s \in Group,
                      ~question.host.br, s.address.name = Lower(question.host.name)
               PROVE  found = {s} /\ (question.sni => cert = {s})
    BY DEF RedirectReachesSite
  <2>1. question \in Redirects /\ s \in Served(question)
    BY DEF FollowOK, Answered, Group, Served
  <2>2. found = {s}
    BY <2>1, FollowedFinds DEF FollowOK
  <2>3. ASSUME question.sni PROVE cert = {s}
    <3>1. cert = ResolveCert(Served(question), Lower(question.host.name))
      BY <2>3, Zenon DEF FollowOK
    <3>2. Lower(question.host.name) # None
      BY <2>1, RedirectsAssumption
    <3>. QED
      BY <2>1, <3>1, <3>2, CertificateFacts
  <2>. QED
    BY <2>2, <2>3
<1>. QED
  BY <1>1, FollowHolds, PTL

\* A client that sends the server name is shown the certificate of the site
\* that answers it, and every client is shown one certificate: whatever step
\* of find_site found the site, its name is the name that was asked for, and
\* the names of a listener differ.
THEOREM CertificateSafe == Spec => []CertificateOfSite
<1>1. FollowOK => CertificateOfSite
  <2> SUFFICES ASSUME FollowOK, Answered("redirect")
               PROVE  /\ Cardinality(cert) <= 1
                      /\ question.sni /\ found \cap Group # {} => cert = found
    BY DEF CertificateOfSite
  <2>1. /\ question \in Redirects /\ StoredByAddress(question.sites)
        /\ Lower(question.host.name) # None
    BY RedirectsAssumption DEF FollowOK, Answered
  <2>2. Cardinality(cert) <= 1
    <3>1. AtMostOne(cert)
      <4>1. PICK sni : cert = ResolveCert(Served(question), sni)
        BY Zenon DEF FollowOK
      <4>. QED
        BY <2>1, <4>1, CertificateFacts
    <3>. QED
      BY <3>1, AtMostOneCard
  <2>3. ASSUME question.sni, NEW s \in found \cap Group
        PROVE  cert = found
    <3>1. found = FindSite(question.sites, Followed(question), TRUE)
      BY DEF FollowOK
    <3>2. /\ AtMostOne(found)
          /\ \/ s.address = Followed(question)
             \/ s.address = BareHostname(Followed(question))
             \/ s.address = WithDefaultPort(Followed(question), TRUE)
             \/ Lower(s.address.name) = Lower(Followed(question).name)
      <4>1. PICK h, t : h = Followed(question) /\ t = TRUE
        OBVIOUS
      <4>2. t \in BOOLEAN /\ found = FindSite(question.sites, h, t)
        BY <3>1, <4>1, Zenon
      <4>3. /\ AtMostOne(found)
            /\ \A u \in found :
                 \/ u.address = h \/ u.address = BareHostname(h)
                 \/ u.address = WithDefaultPort(h, t)
                 \/ Lower(u.address.name) = Lower(h.name)
        <5>1. /\ AtMostOne(FindSite(question.sites, h, t))
              /\ \A u \in FindSite(question.sites, h, t) :
                   \/ u.address = h \/ u.address = BareHostname(h)
                   \/ u.address = WithDefaultPort(h, t)
                   \/ Lower(u.address.name) = Lower(h.name)
          BY <2>1, <4>2, FindSiteFacts
        <5>. QED
          BY <4>2, <5>1, Zenon
      <4>. QED
        BY <2>3, <4>1, <4>3, Zenon
    <3>3. /\ Followed(question).name = Lower(question.host.name)
          /\ BareHostname(Followed(question)).name = Lower(question.host.name)
          /\ WithDefaultPort(Followed(question), TRUE).name = Lower(question.host.name)
      BY DEF Followed, BareHostname, WithDefaultPort
    <3>4. Lower(s.address.name) = Lower(Lower(question.host.name))
      BY <3>2, <3>3
    <3>5. cert = ResolveCert(Served(question), Lower(question.host.name))
      BY <2>3, Zenon DEF FollowOK
    <3>6. s \in Served(question)
      BY <2>3 DEF Group, Served
    <3>7. cert = {s}
      BY <2>1, <3>4, <3>5, <3>6, CertificateFacts
    <3>. QED
      BY <2>3, <3>2, <3>7 DEF AtMostOne
  <2>. QED
    BY <2>2, <2>3
<1>. QED
  BY <1>1, FollowHolds, PTL
=============================================================================
