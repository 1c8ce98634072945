----------------------------- MODULE Listeners -----------------------------
(***************************************************************************)
(* Proxy::start_all and Proxy::start_with_addr, the listener tasks they    *)
(* start (run_http_loop, listen_tls, listen_http_redirect), the semaphore  *)
(* the first two share, and the connections they serve.  Every listener    *)
(* and every connection is a tokio task of its own.  What proxy() does     *)
(* with a request is RequestPipeline; here a request only has the          *)
(* configuration snapshot it was started with.  tls_handshakes_total is    *)
(* only ever incremented and is left out.                                  *)
(***************************************************************************)
EXTENDS Integers, FiniteSets, Addresses

CONSTANTS
  None,
  Conns,              \* connections, reused when they are over
  Starts,             \* ways to start: --addr, an [ip, port] or None for start_all, and
                      \*   the sites, a set of [host, port, tls, cert_ok]
  MaxConcurrency,     \* permits of the semaphore
  Taken,              \* sockets other processes hold
  MaxReloads          \* bound: configurations installed after the first

VARIABLES
  addr,               \* --addr, or None
  sites,              \* the sites of the configuration that is started with
  starter,            \* where start_all / start_with_addr is
  todo,               \* listen sockets start_all still has to group
  redirects,          \* redirect listeners it still has to spawn
  handles,            \* http_handles: the spawned listeners it has not seen the end of
  state,              \* of every listener task
  owner,              \* who has bound a socket
  permits,            \* available permits
  conn,               \* connections: phase, listener, snapshot
  config              \* the ArcSwap: number of the installed configuration

vars == <<addr, sites, starter, todo, redirects, handles, state, owner, permits, conn, config>>

-----------------------------------------------------------------------------
(* Addresses                                                               *)

\* site_addr_matches: the host is the text before the last colon, so an IPv6
\* address is one without brackets; in brackets it does not parse and counts
\* as a name.
SiteAddrMatches(s, a) ==
  /\ s.port # NoPort /\ s.port = a.port
  /\ CASE s.host \in {"", "0.0.0.0", "::"} -> TRUE
       [] s.host = "localhost"             -> a.ip = "127.0.0.1"
       [] s.host \in V4 \ {"0.0.0.0"}      -> a.ip = s.host
       [] s.host = "::1"                   -> a.ip = "[::1]"
       [] OTHER                            -> TRUE

Http(a) == [kind |-> "http", addr |-> a, to |-> 0]
Tls(a) == [kind |-> "tls", addr |-> a, to |-> 0]
Redirect(a) ==
  [kind |-> "redirect", to |-> a.port,
   addr |-> [ip |-> a.ip, port |-> TlsRedirectPort(a.port)]]

\* external: whoever else holds a socket.
Stranger(a) == [kind |-> "stranger", addr |-> a, to |-> 0]

AllSites == UNION {start.sites : start \in Starts}
Sockets == {ResolveListenAddr(s) : s \in AllSites} \cup ({start.addr : start \in Starts} \ {None})
SiteListeners == {Http(a) : a \in Sockets} \cup {Tls(a) : a \in Sockets}
AllListeners == SiteListeners \cup {Redirect(a) : a \in Sockets}
Bindable == {l.addr : l \in AllListeners}

\* The socket groups of start_all.
SiteSockets == {ResolveListenAddr(s) : s \in sites}
SitesOn(a) == {s \in sites : ResolveListenAddr(s) = a}

NoConn == [phase |-> "none", via |-> None, snap |-> None]

\* The connections whose task holds a permit.
Holding == {c \in Conns : conn[c].phase \in {"handshake", "open", "busy"}
                          /\ conn[c].via.kind # "redirect"}

ASSUME LimitAssumption == MaxConcurrency \in Nat /\ MaxReloads \in Nat /\ IsFiniteSet(Conns)

\* --addr is a SocketAddr; a site has what its address parses to.
SocketAddrs == [ip : STRING, port : Ports]
SiteRecords == [host : STRING, port : Ports \cup {NoPort}, tls : BOOLEAN, cert_ok : BOOLEAN]

ASSUME StartsAssumption ==
  Starts \subseteq [addr : SocketAddrs \cup {None}, sites : SUBSET SiteRecords]

Init ==
  /\ \E start \in Starts : addr = start.addr /\ sites = start.sites
  /\ starter = "init"
  /\ todo = {} /\ redirects = {} /\ handles = {}
  /\ state = [l \in AllListeners |-> "none"]
  /\ owner = [a \in Bindable |-> IF a \in Taken THEN Stranger(a) ELSE None]
  /\ permits = MaxConcurrency
  /\ conn = [c \in Conns |-> NoConn]
  /\ config = 0

-----------------------------------------------------------------------------
(* Starting                                                                *)

Quiet == UNCHANGED <<addr, sites, owner, permits, conn, config>>

\* start_all groups the sites by socket, or fails on one that has none.
GroupSites ==
  /\ starter = "init" /\ addr = None
  /\ IF \E s \in sites : s.port = NoPort
       THEN starter' = "err" /\ UNCHANGED todo
       ELSE starter' = "spawning" /\ todo' = SiteSockets
  /\ UNCHANGED <<redirects, handles, state>> /\ Quiet

\* Mutant: a group with a plain site is served as plain HTTP.
SpawnListener_Plain(a) ==
  /\ starter = "spawning" /\ a \in todo
  /\ todo' = todo \ {a}
  /\ IF \E s \in SitesOn(a) : ~s.tls
       THEN /\ state' = [state EXCEPT ![Http(a)] = "spawned"]
            /\ handles' = handles \cup {Http(a)}
            /\ UNCHANGED redirects
       ELSE /\ state' = [state EXCEPT ![Tls(a)] = "spawned"]
            /\ handles' = handles \cup {Tls(a)}
            /\ redirects' = redirects \cup {Redirect(a)}
  /\ UNCHANGED starter /\ Quiet

\* One turn of start_all's loop, in the order of a HashMap.  A mixed group or
\* a certificate that does not load ends start_all; the listeners spawned
\* before stay.
SpawnListener(a) ==
  /\ starter = "spawning" /\ a \in todo
  /\ todo' = todo \ {a}
  /\ LET tls == {s \in SitesOn(a) : s.tls}
     IN  \/ /\ tls = {}
            /\ state' = [state EXCEPT ![Http(a)] = "spawned"]
            /\ handles' = handles \cup {Http(a)}
            /\ UNCHANGED <<starter, redirects>>
         \/ /\ tls = SitesOn(a) /\ \A s \in tls : s.cert_ok
            /\ state' = [state EXCEPT ![Tls(a)] = "spawned"]
            /\ handles' = handles \cup {Tls(a)}
            /\ redirects' = redirects \cup {Redirect(a)}
            /\ UNCHANGED starter
         \/ /\ tls # {} /\ (tls # SitesOn(a) \/ \E s \in tls : ~s.cert_ok)
            /\ starter' = "err"
            /\ UNCHANGED <<state, handles, redirects>>
  /\ Quiet

\* Mutant: the redirect listener is spawned and its handle dropped.
SpawnRedirect_Detached(l) ==
  /\ starter = "spawning" /\ todo = {} /\ l \in redirects
  /\ redirects' = redirects \ {l}
  /\ state' = [state EXCEPT ![l] = "spawned"]
  /\ UNCHANGED <<starter, todo, handles>> /\ Quiet

\* One turn of its second loop.
SpawnRedirect(l) ==
  /\ starter = "spawning" /\ todo = {} /\ l \in redirects
  /\ redirects' = redirects \ {l}
  /\ state' = [state EXCEPT ![l] = "spawned"]
  /\ handles' = handles \cup {l}
  /\ UNCHANGED <<starter, todo>> /\ Quiet

\* One turn of its last loop: handle.await returns when that task has ended.
\* In which order the handles are awaited does not matter to when it is over.
AwaitHandle(l) ==
  /\ starter = "spawning" /\ todo = {} /\ redirects = {}
  /\ l \in handles /\ state[l] = "ended"
  /\ handles' = handles \ {l}
  /\ UNCHANGED <<starter, todo, redirects, state>> /\ Quiet

\* It returns when no handle is left, or when there never was one.
StartAllReturns ==
  /\ starter = "spawning" /\ todo = {} /\ redirects = {} /\ handles = {}
  /\ starter' = "ok"
  /\ UNCHANGED <<todo, redirects, handles, state>> /\ Quiet

\* start_with_addr: one listener, run in place.
StartWithAddr ==
  /\ starter = "init" /\ addr # None
  /\ LET tls == {s \in sites : s.tls /\ SiteAddrMatches(s, addr)}
     IN  \/ /\ tls = {}
            /\ state' = [state EXCEPT ![Http(addr)] = "spawned"]
            /\ starter' = "serving"
         \/ /\ tls # {} /\ \A s \in tls : s.cert_ok
            /\ state' = [state EXCEPT ![Tls(addr)] = "spawned"]
            /\ starter' = "serving"
         \/ /\ \E s \in tls : ~s.cert_ok
            /\ starter' = "err"
            /\ UNCHANGED state
  /\ UNCHANGED <<todo, redirects, handles>> /\ Quiet

\* Its accept loop only ends with an error, which start_with_addr returns.
ServingEnds ==
  /\ starter = "serving"
  /\ \E l \in SiteListeners : state[l] = "ended"
  /\ starter' = "err"
  /\ UNCHANGED <<todo, redirects, handles, state>> /\ Quiet

-----------------------------------------------------------------------------
(* Listener tasks                                                          *)

\* external: Linux does not let two sockets listen on one port when their
\* addresses are the same or one of them is the wildcard of that family; for
\* port 0 it picks a port that is free.
Clash(a, b) ==
  /\ a.port = b.port /\ a.port # 0
  /\ a.ip = b.ip \/ ({a.ip, b.ip} \subseteq V4 /\ "0.0.0.0" \in {a.ip, b.ip})

Free(a) == \A b \in Bindable : Clash(a, b) => owner[b] = None

\* TcpListener::bind: the socket is free, or the task ends.
Bind(l) ==
  /\ state[l] = "spawned"
  /\ \/ /\ Free(l.addr)
        /\ owner' = [owner EXCEPT ![l.addr] = l]
        /\ state' = [state EXCEPT ![l] = "bound"]
     \/ /\ ~Free(l.addr)
        /\ state' = [state EXCEPT ![l] = "ended"]
        /\ UNCHANGED owner
  /\ UNCHANGED <<addr, sites, starter, todo, redirects, handles, permits, conn, config>>

\* accept() fails: the `?` ends the loop, and the kernel resets its backlog.
AcceptError(l) ==
  /\ state[l] = "bound"
  /\ state' = [state EXCEPT ![l] = "ended"]
  /\ owner' = [owner EXCEPT ![l.addr] = None]
  /\ conn' = [c \in Conns |->
                IF conn[c].phase = "queued" /\ conn[c].via = l THEN NoConn ELSE conn[c]]
  /\ UNCHANGED <<addr, sites, starter, todo, redirects, handles, permits, config>>

-----------------------------------------------------------------------------
(* Connections                                                             *)

Static == UNCHANGED <<addr, sites, starter, todo, redirects, handles, state, owner>>

Queued(c, kinds) == conn[c].phase = "queued" /\ conn[c].via.kind \in kinds

\* external: a client connects to a bound socket.
Connect(c, l) ==
  /\ conn[c] = NoConn /\ state[l] = "bound"
  /\ conn' = [conn EXCEPT ![c] = [phase |-> "queued", via |-> l, snap |-> None]]
  /\ UNCHANGED <<permits, config>> /\ Static

\* Mutant: the listener waits for a permit instead of turning the client away.
Reject_Wait(c) == FALSE /\ UNCHANGED vars

\* try_acquire_owned fails: the connection is dropped.
Reject(c) ==
  /\ Queued(c, {"http", "tls"}) /\ permits = 0
  /\ conn' = [conn EXCEPT ![c] = NoConn]
  /\ UNCHANGED <<permits, config>> /\ Static

\* Mutant: TLS connections are served without a permit.
Accept_TlsUnlimited(c) ==
  /\ Queued(c, {"http", "tls"}) /\ (permits > 0 \/ Queued(c, {"tls"}))
  /\ permits' = IF Queued(c, {"tls"}) THEN permits ELSE permits - 1
  /\ conn' = [conn EXCEPT ![c].phase =
                 IF conn[c].via.kind = "tls" THEN "handshake" ELSE "open"]
  /\ UNCHANGED <<config>> /\ Static

\* A permit is taken and the connection's task spawned: over plain HTTP it
\* serves at once, over TLS it shakes hands first.
Accept(c) ==
  /\ Queued(c, {"http", "tls"}) /\ permits > 0
  /\ permits' = permits - 1
  /\ conn' = [conn EXCEPT ![c].phase =
                 IF conn[c].via.kind = "tls" THEN "handshake" ELSE "open"]
  /\ UNCHANGED <<config>> /\ Static

\* The redirect listener takes no permit.
AcceptRedirect(c) ==
  /\ Queued(c, {"redirect"})
  /\ conn' = [conn EXCEPT ![c].phase = "open"]
  /\ UNCHANGED <<permits, config>> /\ Static

HandshakeDone(c) ==
  /\ conn[c].phase = "handshake"
  /\ conn' = [conn EXCEPT ![c].phase = "open"]
  /\ UNCHANGED <<permits, config>> /\ Static

\* Mutant: the early return of a failed handshake forgets the permit.
HandshakeFailed_Leaks(c) ==
  /\ conn[c].phase = "handshake"
  /\ conn' = [conn EXCEPT ![c] = NoConn]
  /\ UNCHANGED <<permits, config>> /\ Static

\* The task returns and its permit is dropped.
HandshakeFailed(c) ==
  /\ conn[c].phase = "handshake"
  /\ conn' = [conn EXCEPT ![c] = NoConn]
  /\ permits' = permits + 1
  /\ UNCHANGED <<config>> /\ Static

\* Mutant: the snapshot of the connection's first request is used again.
Request_Sticky(c) ==
  /\ conn[c].phase = "open" /\ conn[c].via.kind # "redirect"
  /\ conn' = [conn EXCEPT ![c].phase = "busy", ![c].snap = IF @ = None THEN config ELSE @]
  /\ UNCHANGED <<permits, config>> /\ Static

\* The service closure: every request loads its own snapshot.
Request(c) ==
  /\ conn[c].phase = "open" /\ conn[c].via.kind # "redirect"
  /\ conn' = [conn EXCEPT ![c].phase = "busy", ![c].snap = config]
  /\ UNCHANGED <<permits, config>> /\ Static

\* proxy() answered; the connection is kept alive for the next request.
Answered(c) ==
  /\ conn[c].phase = "busy"
  /\ conn' = [conn EXCEPT ![c].phase = "open"]
  /\ UNCHANGED <<permits, config>> /\ Static

\* Mutant: the permit is given back twice.
Close_Twice(c) ==
  /\ c \in Holding /\ conn[c].phase # "handshake"
  /\ conn' = [conn EXCEPT ![c] = NoConn]
  /\ permits' = permits + 2
  /\ UNCHANGED <<config>> /\ Static

\* serve_connection returns: the client is gone, or proxy() failed.
Close(c) ==
  /\ c \in Holding /\ conn[c].phase # "handshake"
  /\ conn' = [conn EXCEPT ![c] = NoConn]
  /\ permits' = permits + 1
  /\ UNCHANGED <<config>> /\ Static

\* The redirect listener answers 301 and closes, or the client is gone.
RedirectDone(c) ==
  /\ conn[c].phase = "open" /\ conn[c].via.kind = "redirect"
  /\ conn' = [conn EXCEPT ![c] = NoConn]
  /\ UNCHANGED <<permits, config>> /\ Static

\* Proxy::update_config, and POST /config through the shared ArcSwap.
UpdateConfig ==
  /\ config < MaxReloads
  /\ config' = config + 1
  /\ UNCHANGED <<permits, conn>> /\ Static

-----------------------------------------------------------------------------
StarterStep ==
  \/ GroupSites \/ StartAllReturns \/ StartWithAddr \/ ServingEnds
  \/ \E a \in Sockets : SpawnListener(a)
  \/ \E l \in AllListeners : SpawnRedirect(l) \/ AwaitHandle(l)

AcceptStep(c) == Accept(c) \/ Reject(c) \/ AcceptRedirect(c)

ConnStepButRequest(c) ==
  \/ \E l \in AllListeners : Connect(c, l)
  \/ HandshakeDone(c) \/ HandshakeFailed(c)
  \/ Answered(c) \/ Close(c) \/ RedirectDone(c)

ConnStep(c) == ConnStepButRequest(c) \/ Request(c)

Next ==
  \/ StarterStep \/ UpdateConfig
  \/ \E l \in AllListeners : Bind(l) \/ AcceptError(l)
  \/ \E c \in Conns : AcceptStep(c) \/ ConnStep(c)

Spec == Init /\ [][Next]_vars

\* tokio polls a listener whose socket has a connection waiting, and accept
\* takes connections in the order they came.  No client has to do anything.
FairSpec == Spec /\ \A c \in Conns : WF_vars(AcceptStep(c))

-----------------------------------------------------------------------------
(* Properties                                                              *)

\* Every variable keeps its type.
TypeOK ==
  /\ [addr |-> addr, sites |-> sites] \in Starts
  /\ starter \in {"init", "spawning", "serving", "ok", "err"}
  /\ todo \subseteq Sockets /\ redirects \subseteq AllListeners /\ handles \subseteq AllListeners
  /\ state \in [AllListeners -> {"none", "spawned", "bound", "ended"}]
  /\ owner \in [Bindable -> AllListeners \cup {Stranger(a) : a \in Bindable} \cup {None}]
  /\ permits \in 0 .. MaxConcurrency
  /\ conn \in [Conns -> [phase : {"none", "queued", "handshake", "open", "busy"},
                         via : AllListeners \cup {None},
                         snap : 0 .. MaxReloads \cup {None}]]
  /\ config \in 0 .. MaxReloads

\* No permit is lost or made up, however a connection ends: a failed handshake,
\* an aborted request, a client that goes away between requests.
PermitsConserved == permits + Cardinality(Holding) = MaxConcurrency

\* proxy.rs: "This method blocks until all listener tasks finish": no task of
\* its two spawn loops is still to bind or to serve when start_all returns Ok.
StartAllOutlivesListeners ==
  starter = "ok" => \A l \in AllListeners : state[l] \in {"none", "ended"}

\* start_all "starts a listener for each" address of the configuration: once
\* its spawn loops are over, whatever the order of the HashMap, every site's
\* socket has been given a listener of the site's own scheme and none of the
\* other, and a TLS site's also the redirect.
EverySiteHasListener ==
  addr = None /\ starter \in {"spawning", "ok"} /\ todo = {} /\ redirects = {} =>
    \A s \in sites :
      LET a == ResolveListenAddr(s)
      IN  /\ s.tls => /\ state[Tls(a)] # "none" /\ state[Http(a)] = "none"
                      /\ state[Redirect(a)] # "none"
          /\ ~s.tls => state[Http(a)] # "none" /\ state[Tls(a)] = "none"

\* A full house or a silent client never blocks an accept loop: a connection
\* that waits is accepted, turned away, or reset with its listener.
NobodyWaitsAtTheDoor ==
  \A c \in Conns : conn[c].phase = "queued" ~> conn[c].phase # "queued"

\* The listeners implement Admission: the permit-holders are inside.
Door == INSTANCE Admission WITH
  Clients <- Conns,
  Doors <- SiteListeners,
  Limit <- MaxConcurrency,
  open <- {l \in SiteListeners : state[l] = "bound"},
  asking <- [l \in SiteListeners |->
               {c \in Conns : conn[c].phase = "queued" /\ conn[c].via = l}],
  inside <- Holding

\* Over all listeners at once, at most max_concurrency connections are served,
\* one is refused only while that many are, and none is kept waiting.
ListenersImplementAdmission == Door!ASpec

\* proxy.rs: start_all "starts a listener for each" address of the
\* configuration, and "Redirect bind is best-effort".
RedirectYieldsToSites ==
  \A l \in AllListeners : state[l] = "bound" /\ l.kind = "redirect" =>
    l.addr \notin SiteSockets
=============================================================================
