-------------------------- MODULE Listeners_proofs --------------------------
(***************************************************************************)
(* Proofs about the listeners, for any sites, sockets, connections and     *)
(* number of permits: types, the conservation of permits, which listeners  *)
(* start_all gives its sites and that it outlives them, and the safety     *)
(* part of the refinement of Admission.                                    *)
(***************************************************************************)
EXTENDS Listeners, FiniteSetTheorems, TLAPS

-----------------------------------------------------------------------------
(* The inductive invariant                                                 *)

\* A connection is at, or was accepted by, a listener that has been started,
\* only TLS listeners shake hands and no redirect listener runs proxy().
ConnsPlaced ==
  \A c \in Conns :
    /\ conn[c].phase # "none" =>
         conn[c].via \in AllListeners /\ state[conn[c].via] # "none"
    /\ conn[c].phase = "handshake" => conn[c].via.kind = "tls"
    /\ conn[c].phase = "busy" => conn[c].via.kind # "redirect"

\* What start_all has grouped and spawned: only sockets of sites that all have
\* a port, each with a listener of the one kind its sites have, only redirect
\* listeners for the second loop, and none for a socket that is yet to come.
ListenersAsGrouped ==
  /\ redirects \subseteq {Redirect(a) : a \in Sockets}
  /\ starter = "init" => \A l \in AllListeners : state[l] = "none"
  /\ starter = "spawning" => \A a \in todo : state[Http(a)] = "none" /\ state[Tls(a)] = "none"
  /\ addr = None =>
       /\ starter # "serving"
       /\ starter = "spawning" =>
            todo \subseteq SiteSockets /\ \A s \in sites : s.port # NoPort
       /\ \A l \in SiteListeners : state[l] # "none" =>
            /\ l.addr \in SiteSockets
            /\ \A s \in SitesOn(l.addr) : s.tls <=> l.kind = "tls"
            /\ \A s \in sites : s.port # NoPort

\* start_all still has the handle of every listener it has spawned that is not
\* over; when it returns Ok it has none left.
HandlesKept ==
  /\ starter \in {"init", "spawning", "ok"} =>
       \A l \in AllListeners : state[l] \in {"spawned", "bound"} => l \in handles
  /\ starter = "ok" => handles = {}

\* The socket of a site is yet to be given a listener, or has been given one,
\* with a redirect that is spawned or yet to be if it is a TLS listener.
SocketsCovered ==
  addr = None /\ starter \in {"spawning", "ok"} =>
    \A a \in SiteSockets :
      \/ a \in todo
      \/ state[Http(a)] # "none"
      \/ state[Tls(a)] # "none" /\ (Redirect(a) \in redirects \/ state[Redirect(a)] # "none")

IInv == TypeOK /\ PermitsConserved /\ ConnsPlaced /\ ListenersAsGrouped /\ HandlesKept /\ SocketsCovered

-----------------------------------------------------------------------------
(* Listeners, sockets and sites                                            *)

\* The listeners of a socket: three kinds, all different.
LEMMA ListenerFacts ==
  /\ \A a \in Sockets : Http(a) \in SiteListeners /\ Tls(a) \in SiteListeners
                        /\ Redirect(a) \in AllListeners
  /\ \A a : Http(a).kind = "http" /\ Tls(a).kind = "tls" /\ Redirect(a).kind = "redirect"
            /\ Http(a).addr = a /\ Tls(a).addr = a
  /\ SiteListeners \subseteq AllListeners
  /\ \A l \in AllListeners :
       l.addr \in Bindable /\ l.kind \in {"http", "tls", "redirect"}
       /\ (l.kind # "redirect" <=> l \in SiteListeners)
  <1>1. \A a : Http(a).kind = "http" /\ Tls(a).kind = "tls" /\ Redirect(a).kind = "redirect"
               /\ Http(a).addr = a /\ Tls(a).addr = a
    BY DEF Http, Tls, Redirect
  <1>2. \A a \in Sockets : Http(a) \in SiteListeners /\ Tls(a) \in SiteListeners
                           /\ Redirect(a) \in AllListeners
    BY DEF SiteListeners, AllListeners
  <1>3. SiteListeners \subseteq AllListeners
    BY DEF AllListeners
  <1>4. ASSUME NEW l \in SiteListeners PROVE l.kind \in {"http", "tls"}
    BY <1>1 DEF SiteListeners
  <1>5. ASSUME NEW l \in AllListeners, l \notin SiteListeners PROVE l.kind = "redirect"
    BY <1>1, <1>5 DEF AllListeners
  <1>6. \A l \in AllListeners : l.addr \in Bindable
    BY DEF Bindable
  <1> QED
    BY <1>1, <1>2, <1>3, <1>4, <1>5, <1>6

\* The sites and the --addr of a start are among those the sockets come from.
LEMMA StartFacts ==
  ASSUME TypeOK
  PROVE  /\ SiteSockets \subseteq Sockets
         /\ addr # None => addr \in Sockets
         /\ \A s \in sites : ResolveListenAddr(s) \in SiteSockets
  <1> DEFINE start == [addr |-> addr, sites |-> sites]
  <1>1. start \in Starts
    BY DEF TypeOK
  <1>2. start.addr = addr /\ start.sites = sites
    OBVIOUS
  <1>3. sites \subseteq AllSites
    BY <1>1, <1>2 DEF AllSites
  <1>4. addr # None => addr \in Sockets
    BY <1>1, <1>2 DEF Sockets
  <1> QED
    BY <1>3, <1>4 DEF SiteSockets, Sockets

-----------------------------------------------------------------------------
(* The permits                                                             *)

\* The connections with a permit are finitely many.
LEMMA HoldingFinite == IsFiniteSet(Holding) /\ Cardinality(Holding) \in Nat
  <1>1. Holding \in SUBSET Conns
    BY DEF Holding
  <1>2. IsFiniteSet(Holding)
    BY <1>1, FS_Subset, LimitAssumption
  <1> QED
    BY <1>2, FS_CardinalityType

\* One permit is taken for a connection that had none.
LEMMA TakesPermit ==
  ASSUME PermitsConserved, permits \in 0 .. MaxConcurrency, permits > 0,
         NEW c \in Conns, c \notin Holding,
         Holding' = Holding \cup {c}, permits' = permits - 1
  PROVE  PermitsConserved' /\ permits' \in 0 .. MaxConcurrency
  <1>1. Cardinality(Holding') = Cardinality(Holding) + 1
    BY HoldingFinite, FS_AddElement
  <1> QED
    BY <1>1, HoldingFinite, LimitAssumption DEF PermitsConserved

\* One is given back by a connection that had one.
LEMMA ReturnsPermit ==
  ASSUME PermitsConserved, permits \in 0 .. MaxConcurrency,
         NEW c \in Holding,
         Holding' = Holding \ {c}, permits' = permits + 1
  PROVE  PermitsConserved' /\ permits' \in 0 .. MaxConcurrency
  <1>1. Cardinality(Holding') = Cardinality(Holding) - 1
    BY HoldingFinite, FS_RemoveElement
  <1>2. Cardinality(Holding) # 0
    BY HoldingFinite, FS_EmptySet
  <1> QED
    BY <1>1, <1>2, HoldingFinite, LimitAssumption DEF PermitsConserved

-----------------------------------------------------------------------------
(* The invariant holds                                                     *)

\* It holds before anything is started.
LEMMA InvInit == Init => IInv
  <1> SUFFICES ASSUME Init PROVE IInv
    OBVIOUS
  <1>1. PICK start \in Starts : addr = start.addr /\ sites = start.sites
    BY DEF Init
  <1>2. [addr |-> addr, sites |-> sites] = start
    BY <1>1, StartsAssumption
  <1>3. Holding = {}
    BY DEF Init, Holding, NoConn
  <1>4. PermitsConserved
    BY <1>3, FS_EmptySet, LimitAssumption DEF Init, PermitsConserved
  <1>5. TypeOK
    <2>1. owner \in [Bindable -> AllListeners \cup {Stranger(a) : a \in Bindable} \cup {None}]
      BY DEF Init
    <2> QED
      BY <1>2, <2>1, LimitAssumption DEF Init, TypeOK, NoConn
  <1>6. ConnsPlaced
    BY DEF Init, ConnsPlaced, NoConn
  <1>7. ListenersAsGrouped
    BY ListenerFacts DEF Init, ListenersAsGrouped
  <1>8. HandlesKept /\ SocketsCovered
    BY DEF Init, HandlesKept, SocketsCovered
  <1> QED
    BY <1>4, <1>5, <1>6, <1>7, <1>8 DEF IInv

\* A step of start_all or start_with_addr leaves the connections alone and only
\* starts listeners that were not started; those follow the grouping.
LEMMA StarterInv ==
  ASSUME IInv, StarterStep
  PROVE  IInv'
  <1> USE DEF IInv
  <1> Quiet
    BY DEF StarterStep, GroupSites, AwaitHandle, StartAllReturns, StartWithAddr, ServingEnds,
           SpawnListener, SpawnRedirect
  <1>1. PermitsConserved'
    BY DEF Quiet, PermitsConserved, Holding
  <1>2. ASSUME state' = state \/ \E l \in AllListeners : state' = [state EXCEPT ![l] = "spawned"]
        PROVE  ConnsPlaced'
    BY <1>2 DEF Quiet, ConnsPlaced, TypeOK
  <1>3. ASSUME starter' \in {"init", "spawning", "serving", "ok", "err"},
               todo' \subseteq Sockets, redirects' \subseteq AllListeners,
               handles' \subseteq AllListeners,
               state' \in [AllListeners -> {"none", "spawned", "bound", "ended"}]
        PROVE  TypeOK'
    BY <1>3 DEF Quiet, TypeOK, Sockets, AllSites
  <1>4. CASE GroupSites
    <2>1. todo' \subseteq Sockets
      BY <1>4, StartFacts DEF GroupSites, TypeOK
    <2>2. \A a \in Sockets : state[Http(a)] = "none" /\ state[Tls(a)] = "none"
      BY <1>4, ListenerFacts DEF GroupSites, ListenersAsGrouped
    <2>3. ListenersAsGrouped'
      BY <1>4, <2>1, <2>2 DEF GroupSites, Quiet, ListenersAsGrouped, SiteSockets, SitesOn
    <2>4. HandlesKept'
      BY <1>4 DEF GroupSites, HandlesKept
    <2>5. SocketsCovered'
      BY <1>4 DEF GroupSites, Quiet, SocketsCovered, SiteSockets
    <2> QED
      BY <1>1, <1>2, <1>3, <1>4, <2>1, <2>3, <2>4, <2>5 DEF GroupSites, TypeOK
  <1>5. CASE StartAllReturns
    <2>1. TypeOK' /\ ConnsPlaced'
      BY <1>2, <1>3, <1>5 DEF StartAllReturns, TypeOK
    <2>2. ListenersAsGrouped'
      BY <1>5 DEF StartAllReturns, Quiet, ListenersAsGrouped, SiteSockets, SitesOn
    <2>3. HandlesKept' /\ SocketsCovered'
      BY <1>5 DEF StartAllReturns, Quiet, HandlesKept, SocketsCovered, SiteSockets
    <2> QED
      BY <1>1, <2>1, <2>2, <2>3
  <1>6. CASE ServingEnds
    <2>1. TypeOK' /\ ConnsPlaced'
      BY <1>2, <1>3, <1>6 DEF ServingEnds, TypeOK
    <2>2. ListenersAsGrouped'
      BY <1>6 DEF ServingEnds, Quiet, ListenersAsGrouped, SiteSockets, SitesOn
    <2>3. HandlesKept' /\ SocketsCovered'
      BY <1>6 DEF ServingEnds, HandlesKept, SocketsCovered
    <2> QED
      BY <1>1, <2>1, <2>2, <2>3
  <1>7. CASE StartWithAddr
    <2>1. addr \in Sockets /\ Http(addr) \in AllListeners /\ Tls(addr) \in AllListeners
      BY <1>7, StartFacts, ListenerFacts DEF StartWithAddr
    <2>2. state' = state \/ \E l \in AllListeners : state' = [state EXCEPT ![l] = "spawned"]
      BY <1>7, <2>1 DEF StartWithAddr
    <2>3. ListenersAsGrouped'
      BY <1>7 DEF StartWithAddr, Quiet, ListenersAsGrouped
    <2>4. HandlesKept' /\ SocketsCovered'
      BY <1>7 DEF StartWithAddr, HandlesKept, SocketsCovered
    <2> QED
      BY <1>1, <1>2, <1>3, <1>7, <2>2, <2>3, <2>4 DEF StartWithAddr, TypeOK
  <1>8. ASSUME NEW l \in AllListeners, SpawnRedirect(l)
        PROVE  IInv'
    <2>1. \E a \in Sockets : l = Redirect(a)
      BY <1>8 DEF SpawnRedirect, ListenersAsGrouped
    <2>2. l \notin SiteListeners
      BY <2>1, ListenerFacts
    <2>3. ListenersAsGrouped'
      BY <1>8, <2>2, ListenerFacts
         DEF SpawnRedirect, Quiet, ListenersAsGrouped, TypeOK, SiteSockets, SitesOn
    <2>4. \A m \in AllListeners : state'[m] = IF m = l THEN "spawned" ELSE state[m]
      BY <1>8 DEF SpawnRedirect, TypeOK
    <2>5. HandlesKept'
      BY <1>8, <2>4 DEF SpawnRedirect, HandlesKept
    <2>6. SocketsCovered'
      <3> SUFFICES ASSUME addr = None, NEW a \in SiteSockets
                   PROVE  \/ a \in todo'
                          \/ state'[Http(a)] # "none"
                          \/ /\ state'[Tls(a)] # "none"
                             /\ Redirect(a) \in redirects' \/ state'[Redirect(a)] # "none"
        BY DEF Quiet, SocketsCovered, SiteSockets
      <3>1. Http(a) \in AllListeners /\ Tls(a) \in AllListeners /\ Redirect(a) \in AllListeners
        BY StartFacts, ListenerFacts
      <3> QED
        BY <1>8, <2>4, <3>1 DEF SpawnRedirect, SocketsCovered
    <2> QED
      BY <1>1, <1>2, <1>3, <1>8, <2>3, <2>5, <2>6 DEF SpawnRedirect, TypeOK
  <1>9. ASSUME NEW l \in AllListeners, AwaitHandle(l)
        PROVE  IInv'
    <2>1. TypeOK' /\ ConnsPlaced'
      BY <1>2, <1>3, <1>9 DEF AwaitHandle, TypeOK
    <2>2. ListenersAsGrouped'
      BY <1>9 DEF AwaitHandle, Quiet, ListenersAsGrouped, SiteSockets, SitesOn
    <2>3. HandlesKept'
      BY <1>9 DEF AwaitHandle, HandlesKept
    <2>4. SocketsCovered'
      BY <1>9 DEF AwaitHandle, Quiet, SocketsCovered, SiteSockets
    <2> QED
      BY <1>1, <2>1, <2>2, <2>3, <2>4
  <1>10. ASSUME NEW a \in Sockets, SpawnListener(a)
        PROVE  IInv'
    <2>1. Http(a) \in SiteListeners /\ Tls(a) \in SiteListeners /\ Redirect(a) \in AllListeners
      BY ListenerFacts
    <2>2. state' = state \/ \E l \in AllListeners : state' = [state EXCEPT ![l] = "spawned"]
      BY <1>10, <2>1, ListenerFacts DEF SpawnListener
    <2>3. redirects' \subseteq redirects \cup {Redirect(a)} /\ todo' \subseteq todo
          /\ handles' \subseteq handles \cup {Http(a), Tls(a)}
          /\ starter' \in {"spawning", "err"}
      BY <1>10 DEF SpawnListener
    <2>4. TypeOK'
      <3>1. redirects' \subseteq AllListeners /\ todo' \subseteq Sockets /\ handles' \subseteq AllListeners
        BY <2>1, <2>3, ListenerFacts DEF TypeOK
      <3>2. state' \in [AllListeners -> {"none", "spawned", "bound", "ended"}]
        BY <2>2 DEF TypeOK
      <3> QED
        BY <1>3, <2>3, <3>1, <3>2
    <2>5. ListenersAsGrouped'
      <3> USE DEF ListenersAsGrouped
      <3>1. redirects' \subseteq {Redirect(b) : b \in Sockets}
        BY <2>3
      <3>2. UNCHANGED <<addr, sites, SiteSockets>> /\ \A b : UNCHANGED SitesOn(b)
        BY DEF Quiet, SiteSockets, SitesOn
      <3>3. ASSUME addr = None, NEW l \in SiteListeners, state'[l] # "none", state[l] = "none"
            PROVE  l.addr = a /\ \A s \in SitesOn(a) : s.tls <=> l.kind = "tls"
        BY <1>10, <2>1, <3>3, ListenerFacts DEF SpawnListener, SitesOn, TypeOK
      <3>4. addr = None => todo \subseteq SiteSockets /\ a \in SiteSockets
                           /\ \A s \in sites : s.port # NoPort
        BY <1>10 DEF SpawnListener
      <3>5. ASSUME addr' = None, NEW l \in SiteListeners, state'[l] # "none"
            PROVE  /\ l.addr \in SiteSockets'
                   /\ \A s \in SitesOn(l.addr)' : s.tls <=> l.kind = "tls"
                   /\ \A s \in sites' : s.port # NoPort
        BY <3>2, <3>3, <3>4, <3>5
      <3>6. ASSUME NEW b \in todo' PROVE state'[Http(b)] = "none" /\ state'[Tls(b)] = "none"
        <4>1. b \in todo /\ b # a /\ b \in Sockets /\ starter = "spawning"
          BY <1>10, <3>6 DEF SpawnListener, TypeOK
        <4>2. Http(b) \notin {Http(a), Tls(a)} /\ Tls(b) \notin {Http(a), Tls(a)}
          BY <4>1, ListenerFacts
        <4>3. Http(b) \in AllListeners /\ Tls(b) \in AllListeners
          BY <4>1, ListenerFacts
        <4> QED
          BY <1>10, <4>1, <4>2, <4>3 DEF SpawnListener, TypeOK
      <3> QED
        BY <2>3, <3>1, <3>2, <3>4, <3>5, <3>6
    <2>6. \/ starter' = "err"
          \/ \E l \in {Http(a), Tls(a)} :
               /\ \A m \in AllListeners : state'[m] = IF m = l THEN "spawned" ELSE state[m]
               /\ handles' = handles \cup {l} /\ starter' = starter
               /\ l = Http(a) \/ Redirect(a) \in redirects'
               /\ redirects \subseteq redirects'
      BY <1>10, <2>1, ListenerFacts DEF SpawnListener, TypeOK
    <2>7. HandlesKept'
      BY <1>10, <2>3, <2>6 DEF SpawnListener, HandlesKept
    <2>8. SocketsCovered'
      <3> SUFFICES ASSUME addr = None, starter' = "spawning", NEW b \in SiteSockets, b \notin todo'
                   PROVE  \/ state'[Http(b)] # "none"
                          \/ /\ state'[Tls(b)] # "none"
                             /\ Redirect(b) \in redirects' \/ state'[Redirect(b)] # "none"
        BY <2>3 DEF Quiet, SocketsCovered, SiteSockets
      <3>1. /\ Http(b) \in AllListeners /\ Tls(b) \in AllListeners /\ Redirect(b) \in AllListeners
            /\ Http(a) \in AllListeners /\ Tls(a) \in AllListeners
        BY <2>1, StartFacts, ListenerFacts
      <3>2. PICK l \in {Http(a), Tls(a)} :
               /\ \A m \in AllListeners : state'[m] = IF m = l THEN "spawned" ELSE state[m]
               /\ l = Http(a) \/ Redirect(a) \in redirects'
               /\ redirects \subseteq redirects'
        BY <2>6
      <3>3. starter = "spawning" /\ todo' = todo \ {a}
        BY <1>10 DEF SpawnListener
      <3>4. CASE b = a
        BY <3>1, <3>2, <3>4
      <3>5. CASE b # a
        BY <3>1, <3>2, <3>3, <3>5 DEF SocketsCovered
      <3> QED
        BY <3>4, <3>5
    <2> QED
      BY <1>1, <1>2, <2>2, <2>4, <2>5, <2>7, <2>8
  <1> QED
    BY <1>4, <1>5, <1>6, <1>7, <1>8, <1>9, <1>10 DEF StarterStep

\* A listener task that has been spawned moves on, and start_all does not.
LEMMA TasksMoveOn ==
  ASSUME IInv, NEW l \in AllListeners, state[l] \in {"spawned", "bound"},
         \A m \in AllListeners : state'[m] = state[m] \/ (m = l /\ state'[m] \in {"bound", "ended"}),
         UNCHANGED <<addr, sites, starter, todo, redirects, handles>>
  PROVE  HandlesKept' /\ SocketsCovered'
  <1>1. HandlesKept'
    BY DEF IInv, HandlesKept
  <1>2. \A a \in SiteSockets : Http(a) \in AllListeners /\ Tls(a) \in AllListeners /\ Redirect(a) \in AllListeners
    BY StartFacts, ListenerFacts DEF IInv
  <1>3. SiteSockets' = SiteSockets
    BY DEF SiteSockets
  <1>4. \A m \in AllListeners : state[m] # "none" => state'[m] # "none"
    OBVIOUS
  <1>5. SocketsCovered'
    BY <1>2, <1>3, <1>4 DEF IInv, SocketsCovered
  <1> QED
    BY <1>1, <1>5

\* A listener task binds its socket or ends; connections keep their listener.
LEMMA BindInv ==
  ASSUME IInv, NEW l \in AllListeners, Bind(l)
  PROVE  IInv'
  <1> USE DEF IInv
  <1>1. \/ state' = [state EXCEPT ![l] = "bound"] \/ state' = [state EXCEPT ![l] = "ended"]
    BY DEF Bind
  <1>2. owner' = owner \/ owner' = [owner EXCEPT ![l.addr] = l]
    BY DEF Bind
  <1>3. UNCHANGED <<addr, sites, starter, todo, redirects, handles, permits, conn, config>>
    BY DEF Bind
  <1>4. TypeOK'
    BY <1>1, <1>2, <1>3, ListenerFacts DEF TypeOK
  <1>5. PermitsConserved'
    BY <1>3 DEF PermitsConserved, Holding
  <1>6. ConnsPlaced'
    BY <1>1, <1>3 DEF ConnsPlaced, TypeOK
  <1>7. ListenersAsGrouped'
    BY <1>1, <1>3, ListenerFacts
       DEF Bind, ListenersAsGrouped, TypeOK, SiteSockets, SitesOn
  <1>8. /\ state[l] = "spawned"
        /\ \A m \in AllListeners : state'[m] = state[m] \/ (m = l /\ state'[m] \in {"bound", "ended"})
    BY <1>1 DEF Bind, TypeOK
  <1>9. HandlesKept' /\ SocketsCovered'
    BY <1>3, <1>8, TasksMoveOn
  <1> QED
    BY <1>4, <1>5, <1>6, <1>7, <1>9

\* accept() fails: the connections that wait at the listener hold no permit.
LEMMA AcceptErrorInv ==
  ASSUME IInv, NEW l \in AllListeners, AcceptError(l)
  PROVE  IInv' /\ Holding' = Holding
  <1> USE DEF IInv
  <1>1. state' = [state EXCEPT ![l] = "ended"] /\ owner' = [owner EXCEPT ![l.addr] = None]
    BY DEF AcceptError
  <1>2. \A c \in Conns : conn'[c] = conn[c] \/ (conn[c].phase = "queued" /\ conn'[c] = NoConn)
    <2>1. conn' = [c \in Conns |->
                     IF conn[c].phase = "queued" /\ conn[c].via = l THEN NoConn ELSE conn[c]]
      BY DEF AcceptError
    <2> QED
      BY <2>1
  <1>3. UNCHANGED <<addr, sites, starter, todo, redirects, handles, permits, config>>
    BY DEF AcceptError
  <1>4. TypeOK'
    <2>1. conn' \in [Conns -> [phase : {"none", "queued", "handshake", "open", "busy"},
                               via : AllListeners \cup {None},
                               snap : 0 .. MaxReloads \cup {None}]]
      BY DEF AcceptError, TypeOK, NoConn
    <2> QED
      BY <1>1, <1>3, <2>1, ListenerFacts DEF TypeOK
  <1>5. Holding' = Holding
    BY <1>2 DEF Holding, NoConn
  <1>6. PermitsConserved'
    BY <1>3, <1>5 DEF PermitsConserved
  <1>7. ConnsPlaced'
    BY <1>1, <1>2 DEF ConnsPlaced, TypeOK, NoConn
  <1>8. ListenersAsGrouped'
    BY <1>1, <1>3, ListenerFacts
       DEF AcceptError, ListenersAsGrouped, TypeOK, SiteSockets, SitesOn
  <1>9. /\ state[l] = "bound"
        /\ \A m \in AllListeners : state'[m] = state[m] \/ (m = l /\ state'[m] \in {"bound", "ended"})
    BY <1>1 DEF AcceptError, TypeOK
  <1>10. HandlesKept' /\ SocketsCovered'
    BY <1>3, <1>9, TasksMoveOn
  <1> QED
    BY <1>4, <1>5, <1>6, <1>7, <1>8, <1>10

\* What is left to show when only connections, permits and the configuration
\* change.
LEMMA StaticInv ==
  ASSUME IInv, Static, config' \in 0 .. MaxReloads, permits' \in 0 .. MaxConcurrency,
         NEW c \in Conns,
         NEW r \in [phase : {"none", "queued", "handshake", "open", "busy"},
                    via : AllListeners \cup {None}, snap : 0 .. MaxReloads \cup {None}],
         conn' = [conn EXCEPT ![c] = r],
         r.phase # "none" => r.via \in AllListeners /\ state[r.via] # "none",
         r.phase = "handshake" => r.via.kind = "tls",
         r.phase = "busy" => r.via.kind # "redirect",
         PermitsConserved'
  PROVE  IInv'
  <1> USE DEF IInv
  <1>1. TypeOK'
    BY DEF Static, TypeOK
  <1>2. ConnsPlaced'
    BY DEF Static, ConnsPlaced, TypeOK
  <1>3. ListenersAsGrouped'
    BY DEF Static, ListenersAsGrouped, SiteSockets, SitesOn
  <1>4. HandlesKept' /\ SocketsCovered'
    BY DEF Static, HandlesKept, SocketsCovered, SiteSockets
  <1> QED
    BY <1>1, <1>2, <1>3, <1>4

\* A connection that only moves on inside its task keeps its permit, or goes on
\* having none.
LEMMA SamePermits ==
  ASSUME PermitsConserved, permits \in 0 .. MaxConcurrency, Holding' = Holding, permits' = permits
  PROVE  PermitsConserved' /\ permits' \in 0 .. MaxConcurrency
  BY DEF PermitsConserved

\* A client connects: it waits at the listener and holds nothing.
LEMMA ConnectInv ==
  ASSUME IInv, NEW c \in Conns, NEW l \in AllListeners, Connect(c, l)
  PROVE  IInv' /\ Holding' = Holding
  <1> USE DEF IInv
  <1> DEFINE r == [phase |-> "queued", via |-> l, snap |-> None]
  <1>1. conn' = [conn EXCEPT ![c] = r] /\ Static /\ UNCHANGED <<permits, config>>
    BY DEF Connect
  <1>2. Holding' = Holding
    BY <1>1 DEF Connect, Holding, NoConn, TypeOK
  <1>3. permits \in 0 .. MaxConcurrency /\ config \in 0 .. MaxReloads
    BY DEF TypeOK
  <1>4. PermitsConserved' /\ permits' \in 0 .. MaxConcurrency
    BY <1>1, <1>2, <1>3, SamePermits
  <1>5. state[l] # "none"
    BY DEF Connect
  <1> QED
    BY <1>1, <1>2, <1>3, <1>4, <1>5, StaticInv

\* A connection without a permit is over.
LEMMA DropInv ==
  ASSUME IInv, NEW c \in Conns, c \notin Holding, conn' = [conn EXCEPT ![c] = NoConn],
         Static, UNCHANGED <<permits, config>>
  PROVE  IInv' /\ Holding' = Holding
  <1> USE DEF IInv
  <1>1. Holding' = Holding
    BY DEF Holding, NoConn, TypeOK
  <1>2. permits \in 0 .. MaxConcurrency /\ config \in 0 .. MaxReloads
    BY DEF TypeOK
  <1>3. PermitsConserved' /\ permits' \in 0 .. MaxConcurrency
    BY <1>1, <1>2, SamePermits
  <1>4. NoConn \in [phase : {"none", "queued", "handshake", "open", "busy"},
                    via : AllListeners \cup {None}, snap : 0 .. MaxReloads \cup {None}]
        /\ NoConn.phase = "none"
    BY DEF NoConn
  <1> QED
    BY <1>1, <1>2, <1>3, <1>4, StaticInv

\* A connection with a permit is over and its permit dropped with its task.
LEMMA LeaveInv ==
  ASSUME IInv, NEW c \in Conns, c \in Holding, conn' = [conn EXCEPT ![c] = NoConn],
         Static, permits' = permits + 1, config' = config
  PROVE  IInv' /\ Holding' = Holding \ {c}
  <1> USE DEF IInv
  <1>1. Holding' = Holding \ {c}
    BY DEF Holding, NoConn, TypeOK
  <1>2. permits \in 0 .. MaxConcurrency /\ config \in 0 .. MaxReloads
    BY DEF TypeOK
  <1>3. PermitsConserved' /\ permits' \in 0 .. MaxConcurrency
    BY <1>1, <1>2, ReturnsPermit
  <1>4. NoConn \in [phase : {"none", "queued", "handshake", "open", "busy"},
                    via : AllListeners \cup {None}, snap : 0 .. MaxReloads \cup {None}]
        /\ NoConn.phase = "none"
    BY DEF NoConn
  <1> QED
    BY <1>1, <1>2, <1>3, <1>4, StaticInv

\* try_acquire_owned succeeds: one permit for a connection that waited.
LEMMA AcceptInv ==
  ASSUME IInv, NEW c \in Conns, Accept(c)
  PROVE  IInv' /\ Holding' = Holding \cup {c}
  <1> USE DEF IInv
  <1> DEFINE r == [conn[c] EXCEPT !.phase = IF conn[c].via.kind = "tls" THEN "handshake" ELSE "open"]
  <1>1. conn' = [conn EXCEPT ![c] = r] /\ Static /\ config' = config /\ permits' = permits - 1
        /\ permits > 0
    BY DEF Accept
  <1>2. conn[c].phase = "queued" /\ conn[c].via.kind \in {"http", "tls"}
    BY DEF Accept, Queued
  <1>3. r \in [phase : {"none", "queued", "handshake", "open", "busy"},
               via : AllListeners \cup {None}, snap : 0 .. MaxReloads \cup {None}]
        /\ r.via = conn[c].via /\ r.phase \in {"handshake", "open"}
        /\ (r.phase = "handshake" => r.via.kind = "tls")
    BY DEF TypeOK
  <1>4. r.via \in AllListeners /\ state[r.via] # "none"
    BY <1>2, <1>3 DEF ConnsPlaced
  <1> HIDE DEF r
  <1>5. c \notin Holding /\ Holding' = Holding \cup {c}
    BY <1>1, <1>2, <1>3 DEF Holding, TypeOK
  <1>6. permits \in 0 .. MaxConcurrency /\ config \in 0 .. MaxReloads
    BY DEF TypeOK
  <1>7. PermitsConserved' /\ permits' \in 0 .. MaxConcurrency
    BY <1>1, <1>5, <1>6, TakesPermit
  <1> QED
    BY <1>1, <1>3, <1>4, <1>5, <1>6, <1>7, StaticInv

\* The steps inside a connection's task, and the redirect listener's accept,
\* which takes no permit.
LEMMA TaskInv ==
  ASSUME IInv, NEW c \in Conns,
         AcceptRedirect(c) \/ HandshakeDone(c) \/ Request(c) \/ Answered(c)
  PROVE  IInv' /\ Holding' = Holding
  <1> USE DEF IInv
  <1> DEFINE Rec == [phase : {"none", "queued", "handshake", "open", "busy"},
                     via : AllListeners \cup {None}, snap : 0 .. MaxReloads \cup {None}]
  <1>1. \E r \in Rec :
          /\ conn' = [conn EXCEPT ![c] = r]
          /\ r.via = conn[c].via /\ r.phase \in {"open", "busy"}
          /\ (r.phase = "busy" => r.via.kind # "redirect")
    <2>0. conn[c] \in Rec /\ config \in 0 .. MaxReloads
      BY DEF TypeOK
    <2>1. CASE Request(c)
      <3> DEFINE r == [conn[c] EXCEPT !.phase = "busy", !.snap = config]
      <3>1. conn' = [conn EXCEPT ![c] = r]
        <4>1. \A R : \A f \in [Conns -> R] :
                [f EXCEPT ![c].phase = "busy", ![c].snap = config]
                  = [f EXCEPT ![c] = [f[c] EXCEPT !.phase = "busy", !.snap = config]]
          OBVIOUS
        <4>2. conn \in [Conns -> Rec]
          BY DEF TypeOK
        <4> HIDE DEF Rec
        <4> QED
          BY <2>1, <4>1, <4>2 DEF Request
      <3>2. r \in Rec /\ r.phase = "busy" /\ r.via = conn[c].via
        BY <2>0
      <3>3. conn[c].via.kind # "redirect"
        BY <2>1 DEF Request
      <3> HIDE DEF r
      <3> QED
        BY <3>1, <3>2, <3>3
    <2>2. CASE AcceptRedirect(c) \/ HandshakeDone(c) \/ Answered(c)
      <3> DEFINE r == [phase |-> "open", via |-> conn[c].via, snap |-> conn[c].snap]
      <3>1. conn' = [conn EXCEPT ![c] = r]
        BY <2>0, <2>2 DEF AcceptRedirect, HandshakeDone, Answered
      <3>2. r \in Rec
        BY <2>0
      <3> QED
        BY <3>1, <3>2
    <2> QED
      BY <2>1, <2>2
  <1>2. PICK r \in Rec :
          /\ conn' = [conn EXCEPT ![c] = r]
          /\ r.via = conn[c].via /\ r.phase \in {"open", "busy"}
          /\ (r.phase = "busy" => r.via.kind # "redirect")
    BY <1>1
  <1>3. /\ Static /\ UNCHANGED <<permits, config>> /\ conn[c].phase # "none"
        /\ conn[c].phase \in {"handshake", "open", "busy"} \/ conn[c].via.kind = "redirect"
    BY DEF AcceptRedirect, HandshakeDone, Request, Answered, Queued
  <1>4. r.via \in AllListeners /\ state[r.via] # "none"
    BY <1>2, <1>3 DEF ConnsPlaced
  <1>5. Holding' = Holding
    BY <1>2, <1>3 DEF Holding, TypeOK
  <1>6. permits \in 0 .. MaxConcurrency /\ config \in 0 .. MaxReloads
    BY DEF TypeOK
  <1>7. PermitsConserved' /\ permits' \in 0 .. MaxConcurrency
    BY <1>3, <1>5, <1>6, SamePermits
  <1> QED
    BY <1>2, <1>3, <1>4, <1>5, <1>6, <1>7, StaticInv

\* A connection ends: a failed handshake and an end of serve_connection give
\* back a permit, a rejected and a redirected connection have none.
LEMMA EndInv ==
  ASSUME IInv, NEW c \in Conns
  PROVE  /\ HandshakeFailed(c) \/ Close(c) => IInv' /\ c \in Holding /\ Holding' = Holding \ {c}
         /\ Reject(c) \/ RedirectDone(c) => IInv' /\ Holding' = Holding
  <1> USE DEF IInv
  <1>1. CASE HandshakeFailed(c) \/ Close(c)
    <2>1. c \in Holding
      BY <1>1 DEF HandshakeFailed, Close, Holding, ConnsPlaced
    <2>2. conn' = [conn EXCEPT ![c] = NoConn] /\ Static /\ permits' = permits + 1 /\ config' = config
      BY <1>1 DEF HandshakeFailed, Close
    <2>3. conn[c].phase # "queued" /\ ~(conn[c].phase = "open" /\ conn[c].via.kind = "redirect")
      BY <2>1 DEF Holding
    <2> QED
      BY <2>1, <2>2, <2>3, LeaveInv DEF Reject, RedirectDone, Queued
  <1>2. CASE Reject(c) \/ RedirectDone(c)
    <2>1. c \notin Holding
      BY <1>2 DEF Reject, RedirectDone, Queued, Holding
    <2>2. conn' = [conn EXCEPT ![c] = NoConn] /\ Static /\ UNCHANGED <<permits, config>>
      BY <1>2 DEF Reject, RedirectDone
    <2>3. ~(HandshakeFailed(c) \/ Close(c))
      BY <2>1 DEF HandshakeFailed, Close, Holding, ConnsPlaced
    <2> QED
      BY <2>1, <2>2, <2>3, DropInv
  <1> QED
    BY <1>1, <1>2

\* A reload changes what the next request will load, and nothing else.
LEMMA ReloadInv ==
  ASSUME IInv, UpdateConfig
  PROVE  IInv' /\ Holding' = Holding
  <1> USE DEF IInv
  <1>1. config' \in 0 .. MaxReloads /\ UNCHANGED <<permits, conn>> /\ Static
    BY LimitAssumption DEF UpdateConfig, TypeOK
  <1>2. Holding' = Holding
    BY <1>1 DEF Holding
  <1> QED
    BY <1>1, <1>2 DEF Static, TypeOK, PermitsConserved, ConnsPlaced, ListenersAsGrouped,
                      HandlesKept, SocketsCovered, SiteSockets, SitesOn

\* Every step keeps the invariant.
LEMMA InvStep == IInv /\ [Next]_vars => IInv'
  <1> SUFFICES ASSUME IInv, [Next]_vars PROVE IInv'
    OBVIOUS
  <1>1. CASE UNCHANGED vars
    BY <1>1 DEF vars, IInv, TypeOK, PermitsConserved, Holding, ConnsPlaced, ListenersAsGrouped,
                HandlesKept, SocketsCovered, SiteSockets, SitesOn
  <1>2. CASE \E c \in Conns : AcceptStep(c) \/ ConnStep(c)
    BY <1>2, AcceptInv, TaskInv, ConnectInv, EndInv DEF AcceptStep, ConnStep, ConnStepButRequest
  <1> QED
    BY <1>1, <1>2, StarterInv, BindInv, AcceptErrorInv, ReloadInv DEF Next

\* The inductive invariant of the listeners.
LEMMA InvHolds == Spec => []IInv
  BY InvInit, InvStep, PTL DEF Spec

-----------------------------------------------------------------------------
(* Theorems                                                                *)

\* Every variable of the listeners keeps its type, whatever the configuration,
\* the number of connections and the max_concurrency of the semaphore.
THEOREM ListenersTyped == Spec => []TypeOK
  <1>1. IInv => TypeOK
    BY DEF IInv
  <1> QED
    BY <1>1, InvHolds, PTL

\* No permit of the semaphore that run_http_loop and listen_tls share is lost
\* or made up, however their connections end.
THEOREM PermitsSafe == Spec => []PermitsConserved
  <1>1. IInv => PermitsConserved
    BY DEF IInv
  <1> QED
    BY <1>1, InvHolds, PTL

\* For any set of sites and any order in which the HashMap gives the groups,
\* start_all that comes through its spawn loops has given every site a listener
\* of its own scheme on its own socket, and every TLS listener its redirect.
THEOREM SitesServed == Spec => []EverySiteHasListener
  <1>1. IInv => EverySiteHasListener
    <2> SUFFICES ASSUME IInv, addr = None, starter \in {"spawning", "ok"}, todo = {}, redirects = {},
                        NEW s \in sites, NEW a, a = ResolveListenAddr(s)
                 PROVE  /\ s.tls => /\ state[Tls(a)] # "none" /\ state[Http(a)] = "none"
                                    /\ state[Redirect(a)] # "none"
                        /\ ~s.tls => state[Http(a)] # "none" /\ state[Tls(a)] = "none"
      BY DEF EverySiteHasListener
    <2>1. a \in SiteSockets /\ a \in Sockets
      BY StartFacts DEF IInv
    <2>2. /\ Http(a) \in SiteListeners /\ Http(a).kind = "http" /\ Http(a).addr = a
          /\ Tls(a) \in SiteListeners /\ Tls(a).kind = "tls" /\ Tls(a).addr = a
      BY <2>1, ListenerFacts
    <2>3. s \in SitesOn(a)
      BY DEF SitesOn
    <2>4. /\ state[Http(a)] # "none" => ~s.tls
          /\ state[Tls(a)] # "none" => s.tls
      BY <2>2, <2>3 DEF IInv, ListenersAsGrouped
    <2>5. \/ state[Http(a)] # "none"
          \/ state[Tls(a)] # "none" /\ state[Redirect(a)] # "none"
      BY <2>1 DEF IInv, SocketsCovered
    <2> QED
      BY <2>4, <2>5
  <1> QED
    BY <1>1, InvHolds, PTL

\* start_all returns Ok only when every listener task it has spawned, redirects
\* too, is over: it awaits each of the handles its two loops have pushed.
THEOREM StartAllSafe == Spec => []StartAllOutlivesListeners
  <1>1. IInv => StartAllOutlivesListeners
    <2> SUFFICES ASSUME IInv, starter = "ok", NEW l \in AllListeners
                 PROVE  state[l] \in {"none", "ended"}
      BY DEF StartAllOutlivesListeners
    <2>1. state[l] \in {"none", "spawned", "bound", "ended"}
      BY DEF IInv, TypeOK
    <2> QED
      BY <2>1 DEF IInv, HandlesKept
  <1> QED
    BY <1>1, InvHolds, PTL

-----------------------------------------------------------------------------
(* The refinement of Admission                                             *)

\* The refinement mapping: doors are the listeners with permits.
OpenNow == {l \in SiteListeners : state[l] = "bound"}
AskingNow == [l \in SiteListeners |-> {c \in Conns : conn[c].phase = "queued" /\ conn[c].via = l}]

\* A step that opens and closes no door, moves nobody who waits at one and
\* leaves the permits where they are is no step of Admission.
LEMMA DoorStutters ==
  ASSUME OpenNow' = OpenNow, AskingNow' = AskingNow, Holding' = Holding
  PROVE  UNCHANGED Door!avars
  BY DEF Door!avars, OpenNow, AskingNow

\* Only the connection whose record changes can come to or leave a door.
LEMMA AskingMoves ==
  ASSUME IInv, NEW c \in Conns, NEW r, conn' = [conn EXCEPT ![c] = r]
  PROVE  /\ r.phase # "queued" /\ conn[c].phase # "queued" => AskingNow' = AskingNow
         /\ r.phase # "queued" /\ conn[c].phase = "queued" /\ conn[c].via \in SiteListeners =>
              AskingNow' = [AskingNow EXCEPT ![conn[c].via] = @ \ {c}]
         /\ r.phase # "queued" /\ conn[c].via \notin SiteListeners => AskingNow' = AskingNow
         /\ r.phase = "queued" /\ conn[c].phase # "queued" /\ r.via \in SiteListeners =>
              AskingNow' = [AskingNow EXCEPT ![r.via] = @ \cup {c}]
         /\ r.phase = "queued" /\ conn[c].phase # "queued" /\ r.via \notin SiteListeners =>
              AskingNow' = AskingNow
  <1>1. \A d \in Conns : conn'[d] = IF d = c THEN r ELSE conn[d]
    BY DEF IInv, TypeOK
  <1>2. \A l \in SiteListeners : \A d :
          d \in AskingNow'[l] <=> d \in Conns /\ conn'[d].phase = "queued" /\ conn'[d].via = l
    BY DEF AskingNow
  <1>3. \A l \in SiteListeners : \A d :
          d \in AskingNow[l] <=> d \in Conns /\ conn[d].phase = "queued" /\ conn[d].via = l
    BY DEF AskingNow
  <1>4. AskingNow \in [SiteListeners -> SUBSET Conns] /\ AskingNow' \in [SiteListeners -> SUBSET Conns]
    BY DEF AskingNow
  <1> HIDE DEF AskingNow
  <1>5. CASE r.phase # "queued" /\ (conn[c].phase # "queued" \/ conn[c].via \notin SiteListeners)
    <2>1. \A l \in SiteListeners : AskingNow'[l] = AskingNow[l]
      <3> TAKE l \in SiteListeners
      <3>1. ASSUME NEW d PROVE d \in AskingNow'[l] <=> d \in AskingNow[l]
        BY <1>1, <1>2, <1>3, <1>5
      <3> QED
        BY <3>1
    <2>2. AskingNow' = AskingNow
      BY <1>4, <2>1
    <2> QED
      BY <1>5, <2>2
  <1>6. CASE r.phase # "queued" /\ conn[c].phase = "queued" /\ conn[c].via \in SiteListeners
    <2>1. \A l \in SiteListeners :
            AskingNow'[l] = IF l = conn[c].via THEN AskingNow[l] \ {c} ELSE AskingNow[l]
      <3> TAKE l \in SiteListeners
      <3>1. ASSUME NEW d PROVE d \in AskingNow'[l] <=> d \in (IF l = conn[c].via THEN AskingNow[l] \ {c} ELSE AskingNow[l])
        BY <1>1, <1>2, <1>3, <1>6
      <3> QED
        BY <3>1
    <2>2. AskingNow' = [AskingNow EXCEPT ![conn[c].via] = @ \ {c}]
      BY <1>4, <1>6, <2>1
    <2> QED
      BY <1>6, <2>2
  <1>7. CASE r.phase = "queued" /\ conn[c].phase # "queued"
    <2>1. \A l \in SiteListeners :
            AskingNow'[l] = IF l = r.via THEN AskingNow[l] \cup {c} ELSE AskingNow[l]
      <3> TAKE l \in SiteListeners
      <3>1. ASSUME NEW d PROVE d \in AskingNow'[l] <=> d \in (IF l = r.via THEN AskingNow[l] \cup {c} ELSE AskingNow[l])
        BY <1>1, <1>2, <1>3, <1>7
      <3> QED
        BY <3>1
    <2>2. r.via \in SiteListeners => AskingNow' = [AskingNow EXCEPT ![r.via] = @ \cup {c}]
      BY <1>4, <2>1
    <2>3. r.via \notin SiteListeners => AskingNow' = AskingNow
      BY <1>4, <2>1
    <2> QED
      BY <1>7, <2>2, <2>3
  <1> QED
    BY <1>5, <1>6, <1>7

\* At a door are those who wait there, and none of them is inside.
LEMMA AtDoorFacts ==
  ASSUME IInv, NEW c \in Conns
  PROVE  /\ conn[c].phase # "queued" => c \notin Door!AtDoors
         /\ conn[c].phase = "queued" /\ conn[c].via \in SiteListeners => c \in AskingNow[conn[c].via]
  BY DEF Door!AtDoors, AskingNow

\* start_all and start_with_addr bind nothing themselves: no door moves.
LEMMA StarterRefines ==
  ASSUME IInv, StarterStep
  PROVE  UNCHANGED Door!avars
  <1>1. UNCHANGED conn
    BY DEF StarterStep, GroupSites, AwaitHandle, StartAllReturns, StartWithAddr, ServingEnds,
           SpawnListener, SpawnRedirect, Quiet
  <1>2. AskingNow' = AskingNow /\ Holding' = Holding
    BY <1>1 DEF AskingNow, Holding
  <1>3. ASSUME NEW l \in AllListeners, state' = [state EXCEPT ![l] = "spawned"],
               l \in SiteListeners => state[l] # "bound"
        PROVE  OpenNow' = OpenNow
    BY <1>3, ListenerFacts DEF OpenNow, IInv, TypeOK
  <1>4. ASSUME state' = state PROVE OpenNow' = OpenNow
    BY <1>4 DEF OpenNow
  <1>5. CASE GroupSites \/ StartAllReturns \/ ServingEnds \/ \E l \in AllListeners : AwaitHandle(l)
    BY <1>2, <1>4, <1>5, DoorStutters DEF GroupSites, StartAllReturns, ServingEnds, AwaitHandle
  <1>6. CASE StartWithAddr
    <2>1. addr \in Sockets
      BY <1>6, StartFacts DEF StartWithAddr, IInv
    <2>2. /\ Http(addr) \in AllListeners /\ state[Http(addr)] = "none"
          /\ Tls(addr) \in AllListeners /\ state[Tls(addr)] = "none"
      BY <1>6, <2>1, ListenerFacts DEF StartWithAddr, IInv, ListenersAsGrouped
    <2> QED
      BY <1>2, <1>3, <1>4, <1>6, <2>2, DoorStutters DEF StartWithAddr
  <1>7. ASSUME NEW l \in AllListeners, SpawnRedirect(l)
        PROVE  UNCHANGED Door!avars
    <2>1. l.kind = "redirect"
      BY <1>7, ListenerFacts DEF SpawnRedirect, IInv, ListenersAsGrouped
    <2>2. l \notin SiteListeners
      BY <2>1, ListenerFacts
    <2> QED
      BY <1>2, <1>3, <1>7, <2>2, DoorStutters DEF SpawnRedirect
  <1>8. ASSUME NEW a \in Sockets, SpawnListener(a)
        PROVE  UNCHANGED Door!avars
    <2>1. /\ Http(a) \in AllListeners /\ state[Http(a)] = "none"
          /\ Tls(a) \in AllListeners /\ state[Tls(a)] = "none"
      BY <1>8, ListenerFacts DEF SpawnListener, IInv, ListenersAsGrouped
    <2> QED
      BY <1>2, <1>3, <1>4, <1>8, <2>1, DoorStutters DEF SpawnListener
  <1> QED
    BY <1>5, <1>6, <1>7, <1>8 DEF StarterStep

\* A listener with permits opens its door when it binds and closes it, on those
\* who wait there, when accept() fails; a redirect listener is no door.
LEMMA ListenerRefines ==
  ASSUME IInv, NEW l \in AllListeners, Bind(l) \/ AcceptError(l)
  PROVE  [Door!ANext]_(Door!avars)
  <1> USE DEF IInv
  <1>1. CASE Bind(l)
    <2>0. state \in [AllListeners -> {"none", "spawned", "bound", "ended"}]
      BY DEF TypeOK
    <2>1. AskingNow' = AskingNow /\ Holding' = Holding
      BY <1>1 DEF Bind, AskingNow, Holding
    <2>2. CASE l \in SiteListeners /\ Free(l.addr)
      <3>1. l \notin OpenNow /\ OpenNow' = OpenNow \cup {l}
        <4>1. state[l] = "spawned" /\ state' = [state EXCEPT ![l] = "bound"]
          BY <1>1, <2>2 DEF Bind
        <4>2. \A k \in SiteListeners : state'[k] = IF k = l THEN "bound" ELSE state[k]
          BY <2>0, <4>1, ListenerFacts
        <4> QED
          BY <2>2, <4>1, <4>2 DEF OpenNow
      <3>2. Door!OpenDoor(l)
        BY <2>1, <3>1 DEF Door!OpenDoor, OpenNow, AskingNow
      <3> QED
        BY <2>2, <3>2 DEF Door!ANext
    <2>3. CASE l \notin SiteListeners \/ ~Free(l.addr)
      <3>1. OpenNow' = OpenNow
        <4>1. state[l] = "spawned"
          BY <1>1 DEF Bind
        <4>2. \/ state' = [state EXCEPT ![l] = "bound"] /\ l \notin SiteListeners
              \/ state' = [state EXCEPT ![l] = "ended"]
          BY <1>1, <2>3 DEF Bind
        <4>3. \A k \in SiteListeners : state'[k] = "bound" <=> state[k] = "bound"
          BY <2>0, <4>1, <4>2, ListenerFacts
        <4> QED
          BY <4>3 DEF OpenNow
      <3> QED
        BY <2>1, <3>1, DoorStutters
    <2> QED
      BY <2>2, <2>3
  <1>2. CASE AcceptError(l)
    <2>1. Holding' = Holding
      BY <1>2, AcceptErrorInv
    <2>2. \A k \in SiteListeners : AskingNow'[k] = IF k = l THEN {} ELSE AskingNow[k]
      <3> TAKE k \in SiteListeners
      <3>1. \A d \in Conns : conn'[d] =
              IF conn[d].phase = "queued" /\ conn[d].via = l THEN NoConn ELSE conn[d]
        BY <1>2 DEF AcceptError
      <3>2. ASSUME NEW d
            PROVE  d \in AskingNow'[k] <=> d \in (IF k = l THEN {} ELSE AskingNow[k])
        BY <3>1 DEF AskingNow, NoConn
      <3> HIDE DEF AskingNow
      <3> QED
        BY <3>2
    <2>3. AskingNow \in [SiteListeners -> SUBSET Conns] /\ AskingNow' \in [SiteListeners -> SUBSET Conns]
      BY DEF AskingNow
    <2>4. CASE l \in SiteListeners
      <3>1. l \in OpenNow /\ OpenNow' = OpenNow \ {l}
        BY <1>2, <2>4 DEF AcceptError, OpenNow, TypeOK
      <3>2. AskingNow' = [AskingNow EXCEPT ![l] = {}]
        BY <2>2, <2>3, <2>4
      <3>3. Door!CloseDoor(l)
        BY <2>1, <3>1, <3>2 DEF Door!CloseDoor, OpenNow, AskingNow
      <3> QED
        BY <2>4, <3>3 DEF Door!ANext
    <2>5. CASE l \notin SiteListeners
      <3>1. OpenNow' = OpenNow
        BY <1>2, <2>5 DEF AcceptError, OpenNow, TypeOK
      <3>2. AskingNow' = AskingNow
        BY <2>2, <2>3, <2>5
      <3> QED
        BY <2>1, <3>1, <3>2, DoorStutters
    <2> QED
      BY <2>4, <2>5
  <1> QED
    BY <1>1, <1>2

\* Admission counts the clients as this module does.
LEMMA SameCardinality == ASSUME NEW S PROVE Door!Cardinality(S) = Cardinality(S)
  BY DEF Door!Cardinality, Cardinality

\* What happens to a connection is a client asking, being answered at the door
\* or leaving, or a step that Admission does not see.
LEMMA ConnRefines ==
  ASSUME IInv, NEW c \in Conns, AcceptStep(c) \/ ConnStep(c)
  PROVE  [Door!ANext]_(Door!avars)
  <1> USE DEF IInv
  <1>0. permits \in 0 .. MaxConcurrency /\ conn \in [Conns -> [phase : {"none", "queued", "handshake", "open", "busy"},
                         via : AllListeners \cup {None},
                         snap : 0 .. MaxReloads \cup {None}]]
    BY DEF TypeOK
  <1>1. Static
    BY DEF AcceptStep, ConnStep, ConnStepButRequest, Accept, Reject, AcceptRedirect, Connect,
           HandshakeDone, HandshakeFailed, Answered, Close, RedirectDone, Request
  <1>2. OpenNow' = OpenNow
    BY <1>1 DEF Static, OpenNow
  <1>3. NoConn.phase = "none"
    BY DEF NoConn
  <1>4. ASSUME NEW l \in AllListeners, Connect(c, l)
        PROVE  [Door!ANext]_(Door!avars)
    <2> DEFINE r == [phase |-> "queued", via |-> l, snap |-> None]
    <2>1. conn' = [conn EXCEPT ![c] = r] /\ conn[c].phase = "none" /\ state[l] = "bound"
      BY <1>3, <1>4 DEF Connect
    <2>2. r.phase = "queued" /\ r.via = l
      OBVIOUS
    <2> HIDE DEF r
    <2>3. Holding' = Holding
      BY <1>4, ConnectInv
    <2>4. CASE l \in SiteListeners
      <3>1. AskingNow' = [AskingNow EXCEPT ![l] = @ \cup {c}]
        BY <2>1, <2>2, <2>4, AskingMoves
      <3>2. c \notin Door!AtDoors \cup Holding /\ l \in OpenNow
        BY <2>1, <2>4, AtDoorFacts DEF Holding, OpenNow
      <3>3. Door!Ask(l, c)
        BY <1>2, <2>3, <3>1, <3>2 DEF Door!Ask, OpenNow, AskingNow
      <3> QED
        BY <2>4, <3>3 DEF Door!ANext
    <2>5. CASE l \notin SiteListeners
      <3>1. AskingNow' = AskingNow
        BY <2>1, <2>2, <2>5, AskingMoves
      <3> QED
        BY <1>2, <2>3, <3>1, DoorStutters
    <2> QED
      BY <2>4, <2>5
  <1>5. CASE Accept(c) \/ Reject(c)
    <2>1. PICK l \in SiteListeners : conn[c].phase = "queued" /\ l = conn[c].via
      BY <1>5, ListenerFacts DEF Accept, Reject, Queued, ConnsPlaced
    <2>2. c \in AskingNow[l]
      BY <2>1, AtDoorFacts
    <2>3. \E r : conn' = [conn EXCEPT ![c] = r] /\ r.phase # "queued"
      <3>1. CASE Reject(c)
        BY <1>3, <3>1 DEF Reject
      <3>2. CASE Accept(c)
        <4> DEFINE r == [conn[c] EXCEPT !.phase = IF conn[c].via.kind = "tls" THEN "handshake" ELSE "open"]
        <4>1. conn' = [conn EXCEPT ![c] = r]
          BY <3>2 DEF Accept
        <4>2. r.phase # "queued"
          BY <1>0
        <4> QED
          BY <4>1, <4>2
      <3> QED
        BY <1>5, <3>1, <3>2
    <2>4. AskingNow' = [AskingNow EXCEPT ![l] = @ \ {c}]
      BY <2>1, <2>3, AskingMoves
    <2>5. CASE Accept(c)
      <3>1. Holding' = Holding \cup {c}
        BY <2>5, AcceptInv
      <3>2. Cardinality(Holding) < MaxConcurrency
        BY <2>5, <1>0, HoldingFinite, LimitAssumption DEF Accept, PermitsConserved
      <3>3. Door!Admit(l, c)
        BY <1>2, <2>2, <2>4, <3>1, <3>2, SameCardinality DEF Door!Admit, OpenNow, AskingNow
      <3> QED
        BY <2>1, <3>3 DEF Door!ANext, Door!Answer
    <2>6. CASE Reject(c)
      <3>1. Holding' = Holding
        BY <2>6, EndInv
      <3>2. Cardinality(Holding) = MaxConcurrency
        BY <2>6, HoldingFinite, LimitAssumption DEF Reject, PermitsConserved
      <3>3. Door!TurnAway(l, c)
        BY <1>2, <2>2, <2>4, <3>1, <3>2, SameCardinality DEF Door!TurnAway, OpenNow, AskingNow
      <3> QED
        BY <2>1, <3>3 DEF Door!ANext, Door!Answer
    <2> QED
      BY <1>5, <2>5, <2>6
  <1>6. CASE HandshakeFailed(c) \/ Close(c)
    <2>1. c \in Holding /\ Holding' = Holding \ {c}
      BY <1>6, EndInv
    <2>2. conn' = [conn EXCEPT ![c] = NoConn] /\ conn[c].phase # "queued"
      BY <1>6, <2>1 DEF HandshakeFailed, Close, Holding
    <2>3. AskingNow' = AskingNow
      BY <1>3, <2>2, AskingMoves
    <2>4. Door!Leave(c)
      BY <1>2, <2>1, <2>3 DEF Door!Leave, OpenNow, AskingNow
    <2> QED
      BY <2>4 DEF Door!ANext
  <1>7. CASE RedirectDone(c)
    <2>1. Holding' = Holding
      BY <1>7, EndInv
    <2>2. conn' = [conn EXCEPT ![c] = NoConn] /\ conn[c].phase # "queued"
      BY <1>7 DEF RedirectDone
    <2>3. AskingNow' = AskingNow
      BY <1>3, <2>2, AskingMoves
    <2> QED
      BY <1>2, <2>1, <2>3, DoorStutters
  <1>8. CASE AcceptRedirect(c) \/ HandshakeDone(c) \/ Request(c) \/ Answered(c)
    <2>1. Holding' = Holding
      BY <1>8, TaskInv
    <2>2. conn[c].phase # "queued" \/ conn[c].via \notin SiteListeners
      BY <1>8, ListenerFacts
         DEF AcceptRedirect, HandshakeDone, Request, Answered, Queued, ConnsPlaced
    <2>3. \E r : conn' = [conn EXCEPT ![c] = r] /\ r.phase # "queued"
      <3>1. conn' = [conn EXCEPT ![c] = conn'[c]]
        BY <1>0, <1>8 DEF AcceptRedirect, HandshakeDone, Request, Answered
      <3>2. conn'[c].phase # "queued"
        BY <1>0, <1>8 DEF AcceptRedirect, HandshakeDone, Request, Answered
      <3> QED
        BY <3>1, <3>2
    <2>4. AskingNow' = AskingNow
      BY <2>2, <2>3, AskingMoves
    <2> QED
      BY <1>2, <2>1, <2>4, DoorStutters
  <1> QED
    BY <1>4, <1>5, <1>6, <1>7, <1>8 DEF AcceptStep, ConnStep, ConnStepButRequest

\* The listeners implement what Admission says of safety: over all doors at
\* most max_concurrency clients are inside, a client is let in only from an
\* open door's queue, and refused only while the house is full.
THEOREM ListenersAdmit == Spec => Door!ASafety
  <1>1. Init => Door!AInit
    <2> SUFFICES ASSUME Init PROVE Door!AInit
      OBVIOUS
    <2>1. OpenNow = {} /\ Holding = {}
      BY ListenerFacts DEF Init, OpenNow, Holding, NoConn
    <2>2. AskingNow = [l \in SiteListeners |-> {}]
      BY DEF Init, AskingNow, NoConn
    <2> QED
      BY <2>1, <2>2 DEF Door!AInit, OpenNow, AskingNow
  <1>2. IInv /\ [Next]_vars => [Door!ANext]_(Door!avars)
    <2> SUFFICES ASSUME IInv, [Next]_vars PROVE [Door!ANext]_(Door!avars)
      OBVIOUS
    <2>1. CASE UNCHANGED vars \/ UpdateConfig
      <3>1. UNCHANGED <<state, conn>>
        BY <2>1 DEF vars, UpdateConfig, Static
      <3>2. OpenNow' = OpenNow /\ AskingNow' = AskingNow /\ Holding' = Holding
        BY <3>1 DEF OpenNow, AskingNow, Holding
      <3> QED
        BY <3>2, DoorStutters
    <2> QED
      BY <2>1, StarterRefines, ListenerRefines, ConnRefines DEF Next
  <1> QED
    BY <1>1, <1>2, InvHolds, PTL DEF Spec, Door!ASafety
=============================================================================
