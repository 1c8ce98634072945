--------------------------- MODULE System_proofs ---------------------------
(***************************************************************************)
(* Proofs about the proxy beside its management API, for any sites, Host   *)
(* values, connections and API calls: the system implements Listeners, so  *)
(* what is proved there holds here; a confirmed configuration is in force; *)
(* and a request is routed to a site of its listener's own scheme.         *)
(***************************************************************************)
EXTENDS System, Listeners_proofs

-----------------------------------------------------------------------------
(* The system implements the listeners                                     *)

\* An API step stores a configuration or leaves the listeners alone.
LEMMA ApiRefines ==
  ASSUME NEW k \in Calls, ApiStep(k)
  PROVE  UpdateConfig \/ UNCHANGED vars
  <1>1. CASE HandlePostConfig(k)
    BY <1>1 DEF HandlePostConfig, ApiOnly, UpdateConfig, Static
  <1>2. CASE \/ \E kind \in {"get", "post", "other"} : Send(k, kind)
             \/ HandleGetConfig(k) \/ RejectPostConfig(k) \/ HandleOther(k)
             \/ ApiAnswered(k) \/ ApiClientGone(k)
    BY <1>2 DEF Send, HandleGetConfig, RejectPostConfig, HandleOther, ApiAnswered, ApiClientGone,
                ApiOnly, vars
  <1> QED
    BY <1>1, <1>2 DEF ApiStep

\* Every step of the system is one of the listeners, or none.
LEMMA SysStep == [SysNext]_sysVars => [Next]_vars
  <1> SUFFICES ASSUME [SysNext]_sysVars PROVE [Next]_vars
    OBVIOUS
  <1>1. CASE UNCHANGED sysVars
    BY <1>1 DEF sysVars, vars
  <1>2. CASE ListenerStep
    BY <1>2 DEF ListenerStep, Next, ConnStep
  <1>3. CASE UpdateConfigReturns
    BY <1>3 DEF UpdateConfigReturns, Next
  <1>4. CASE \E k \in Calls : ApiStep(k)
    BY <1>4, ApiRefines DEF Next
  <1>5. CASE \E c \in Conns, host \in Hosts : RouteRequest(c, host)
    BY <1>5 DEF RouteRequest, Next, ConnStep
  <1> QED
    BY <1>1, <1>2, <1>3, <1>4, <1>5 DEF SysNext

\* With the API server beside it, and POST /config at any time, the proxy does
\* what Listeners allows: the API only reloads.
THEOREM SysRefinesListeners == SysSpec => Spec
  <1>1. SysInit => Init
    BY DEF SysInit
  <1> QED
    BY <1>1, SysStep, PTL DEF SysSpec, Spec

-----------------------------------------------------------------------------
(* What the API confirms                                                   *)

\* The record of an API connection.
CallRecs == [phase : {"idle", "sent", "answering"}, kind : {"get", "post", "other"},
             ver : Nat \cup {None}, floor : Nat]

\* A confirmed configuration has been installed, a call carries no newer one,
\* a GET was sent when at most that one was confirmed, and it answers with
\* what it read later.
ApiInv ==
  /\ config \in Nat /\ confirmed \in 0 .. config
  /\ call \in [Calls -> CallRecs]
  /\ \A k \in Calls :
       /\ call[k].ver # None => call[k].ver <= config
       /\ call[k].floor <= confirmed
       /\ call[k].kind = "get" /\ call[k].phase = "answering" =>
            call[k].ver \in Nat /\ call[k].ver >= call[k].floor

\* The record of one call changes, and nothing gets older.
LEMMA CallChanges ==
  ASSUME ApiInv, NEW k \in Calls,
         NEW r \in CallRecs,
         call' = [call EXCEPT ![k] = r],
         config' \in Nat, config <= config', confirmed' \in 0 .. config', confirmed <= confirmed',
         r.ver # None => r.ver <= config', r.floor <= confirmed',
         r.kind = "get" /\ r.phase = "answering" => r.ver \in Nat /\ r.ver >= r.floor
  PROVE  ApiInv'
  <1>1. \A j \in Calls : call'[j] = IF j = k THEN r ELSE call[j]
    BY DEF ApiInv
  <1>2. \A j \in Calls : call[j].ver \in Nat \cup {None} /\ call[j].floor \in Nat
    BY DEF ApiInv, CallRecs
  <1>3. confirmed \in Nat /\ config \in Nat
    BY DEF ApiInv
  <1>4. ASSUME NEW j \in Calls
        PROVE  /\ call'[j].ver # None => call'[j].ver <= config'
               /\ call'[j].floor <= confirmed'
               /\ call'[j].kind = "get" /\ call'[j].phase = "answering" =>
                    call'[j].ver \in Nat /\ call'[j].ver >= call'[j].floor
    <2>1. CASE j = k
      BY <1>1, <2>1
    <2>2. CASE j # k
      <3>1. call'[j] = call[j]
        BY <1>1, <2>2
      <3>2. call[j].ver # None => call[j].ver <= config'
        BY <1>2, <1>3 DEF ApiInv
      <3>3. call[j].floor <= confirmed'
        BY <1>2, <1>3 DEF ApiInv
      <3> QED
        BY <3>1, <3>2, <3>3 DEF ApiInv
    <2> QED
      BY <2>1, <2>2
  <1>5. call' \in [Calls -> CallRecs]
    BY DEF ApiInv
  <1> QED
    BY <1>4, <1>5 DEF ApiInv

\* A call changes its phase, and perhaps the version it answers with.
LEMMA CallMoves ==
  ASSUME ApiInv, NEW k \in Calls, call[k].phase = "sent",
         \/ call' = [call EXCEPT ![k].phase = "answering"]
         \/ call' = [call EXCEPT ![k].phase = "answering", ![k].ver = config],
         UNCHANGED <<config, confirmed>>,
         call[k].kind = "get" => call' = [call EXCEPT ![k].phase = "answering", ![k].ver = config]
  PROVE  ApiInv'
  <1>1. /\ call \in [Calls -> CallRecs] /\ call[k] \in CallRecs
        /\ config \in Nat /\ confirmed \in 0 .. config
        /\ call[k].ver # None => call[k].ver <= config
        /\ call[k].floor <= confirmed
    BY DEF ApiInv
  <1>2. CASE call' = [call EXCEPT ![k].phase = "answering", ![k].ver = config]
    <2> DEFINE r == [call[k] EXCEPT !.phase = "answering", !.ver = config]
    <2>1. \A R : \A f \in [Calls -> R] :
            [f EXCEPT ![k].phase = "answering", ![k].ver = config]
              = [f EXCEPT ![k] = [f[k] EXCEPT !.phase = "answering", !.ver = config]]
      OBVIOUS
    <2>2. r \in CallRecs /\ r.ver = config /\ r.floor = call[k].floor
      BY <1>1 DEF CallRecs
    <2>3. call' = [call EXCEPT ![k] = r]
      BY <1>1, <1>2, <2>1
    <2> HIDE DEF r
    <2>4. call[k].floor \in Nat
      BY <1>1 DEF CallRecs
    <2>5. config' \in Nat /\ config <= config' /\ confirmed' \in 0 .. config' /\ confirmed <= confirmed'
      BY <1>1
    <2>6. /\ r.ver # None => r.ver <= config'
          /\ r.floor <= confirmed'
          /\ r.kind = "get" /\ r.phase = "answering" => r.ver \in Nat /\ r.ver >= r.floor
      BY <1>1, <2>2, <2>4, <2>5
    <2> QED
      BY <2>2, <2>3, <2>5, <2>6, CallChanges, Zenon
  <1>3. CASE call' = [call EXCEPT ![k].phase = "answering"] /\ call[k].kind # "get"
    <2> DEFINE r == [call[k] EXCEPT !.phase = "answering"]
    <2>1. r \in CallRecs /\ r.ver = call[k].ver /\ r.floor = call[k].floor /\ r.kind = call[k].kind
      BY <1>1 DEF CallRecs
    <2>2. call' = [call EXCEPT ![k] = r]
      BY <1>3
    <2> HIDE DEF r
    <2>3. config' \in Nat /\ config <= config' /\ confirmed' \in 0 .. config' /\ confirmed <= confirmed'
      BY <1>1
    <2>4. /\ r.ver # None => r.ver <= config'
          /\ r.floor <= confirmed'
          /\ r.kind = "get" /\ r.phase = "answering" => r.ver \in Nat /\ r.ver >= r.floor
      BY <1>1, <1>3, <2>1, <2>3
    <2> QED
      BY <2>1, <2>2, <2>3, <2>4, CallChanges, Zenon
  <1> QED
    BY <1>2, <1>3

\* The connection is free for its next request.
LEMMA CallEnds ==
  ASSUME ApiInv, NEW k \in Calls, call' = [call EXCEPT ![k] = Idle],
         config' = config, confirmed' \in 0 .. config, confirmed <= confirmed'
  PROVE  ApiInv'
  <1>1. Idle \in CallRecs /\ Idle.ver = None /\ Idle.floor = 0 /\ Idle.phase = "idle"
    BY DEF Idle, CallRecs
  <1>2. config' \in Nat /\ config <= config' /\ confirmed' \in 0 .. config'
    BY DEF ApiInv
  <1>3. /\ Idle.ver # None => Idle.ver <= config'
        /\ Idle.floor <= confirmed'
        /\ Idle.kind = "get" /\ Idle.phase = "answering" => Idle.ver \in Nat /\ Idle.ver >= Idle.floor
    BY <1>1, <1>2
  <1> QED
    BY <1>1, <1>2, <1>3, CallChanges, Zenon

\* Every step of the system keeps it.
LEMMA ApiInvStep == ApiInv /\ [SysNext]_sysVars => ApiInv'
  <1> SUFFICES ASSUME ApiInv, [SysNext]_sysVars PROVE ApiInv'
    OBVIOUS
  <1>1. config \in Nat /\ confirmed \in 0 .. config /\ call \in [Calls -> CallRecs]
    BY DEF ApiInv
  <1>2. CASE UNCHANGED <<config, confirmed, call>>
    BY <1>2 DEF ApiInv
  <1>3. CASE ListenerStep
    <2>1. UNCHANGED <<config, confirmed, call>>
      BY <1>3 DEF ListenerStep, apiVars, StarterStep, GroupSites, AwaitHandle, StartAllReturns, StartWithAddr,
                  ServingEnds, SpawnListener, SpawnRedirect, Quiet, Bind, AcceptError, AcceptStep,
                  Accept, Reject, AcceptRedirect, ConnStepButRequest, Connect, HandshakeDone,
                  HandshakeFailed, Answered, Close, RedirectDone
    <2> QED
      BY <1>2, <2>1
  <1>4. CASE UpdateConfigReturns
    <2>1. config' = config + 1 /\ confirmed' = config' /\ call' = call
      BY <1>4 DEF UpdateConfigReturns, UpdateConfig
    <2>2. \A j \in Calls : call[j].ver \in Nat \cup {None} /\ call[j].floor \in Nat
      BY <1>1 DEF CallRecs
    <2>3. ASSUME NEW j \in Calls
          PROVE  (call[j].ver # None => call[j].ver <= config') /\ call[j].floor <= confirmed'
      BY <1>1, <2>1, <2>2 DEF ApiInv
    <2> QED
      BY <1>1, <2>1, <2>3 DEF ApiInv
  <1>5. ASSUME NEW c \in Conns, NEW host \in Hosts, RouteRequest(c, host)
        PROVE  ApiInv'
    BY <1>2, <1>5 DEF RouteRequest, Request, apiVars
  <1>6. ASSUME NEW k \in Calls, ApiStep(k)
        PROVE  ApiInv'
    <2>1. ASSUME NEW kind \in {"get", "post", "other"}, Send(k, kind)
          PROVE  ApiInv'
      <3> DEFINE r == [phase |-> "sent", kind |-> kind, ver |-> None,
                       floor |-> IF kind = "get" THEN confirmed ELSE 0]
      <3>1. r \in CallRecs /\ r.ver = None /\ r.floor <= confirmed /\ r.phase = "sent"
        BY <1>1 DEF CallRecs
      <3>2. call' = [call EXCEPT ![k] = r] /\ UNCHANGED <<config, confirmed>>
        BY <2>1 DEF Send
      <3> HIDE DEF r
      <3>3. config' \in Nat /\ config <= config' /\ confirmed' \in 0 .. config' /\ confirmed <= confirmed'
        BY <1>1, <3>2
      <3>4. /\ r.ver # None => r.ver <= config'
            /\ r.floor <= confirmed'
            /\ r.kind = "get" /\ r.phase = "answering" => r.ver \in Nat /\ r.ver >= r.floor
        BY <1>1, <3>1, <3>2, <3>3
      <3> QED
        BY <3>1, <3>2, <3>3, <3>4, CallChanges, Zenon
    <2>2. CASE HandleGetConfig(k)
      BY <2>2, CallMoves DEF HandleGetConfig, Handling
    <2>3. CASE RejectPostConfig(k) \/ HandleOther(k)
      BY <2>3, CallMoves DEF RejectPostConfig, HandleOther, Handling
    <2>4. CASE HandlePostConfig(k)
      <3> DEFINE r == [call[k] EXCEPT !.phase = "answering", !.ver = config + 1]
      <3>1. \A R : \A f \in [Calls -> R] :
              [f EXCEPT ![k].phase = "answering", ![k].ver = config + 1]
                = [f EXCEPT ![k] = [f[k] EXCEPT !.phase = "answering", !.ver = config + 1]]
        OBVIOUS
      <3>2. call[k] \in CallRecs
        BY <1>1
      <3>0. config + 1 \in Nat
        BY <1>1
      <3>3. r \in CallRecs /\ r.ver = config + 1 /\ r.floor = call[k].floor /\ r.kind = call[k].kind
        BY <3>0, <3>2 DEF CallRecs
      <3>4. /\ call' = [call EXCEPT ![k].phase = "answering", ![k].ver = config + 1]
            /\ config' = config + 1 /\ confirmed' = confirmed /\ call[k].kind = "post"
        BY <2>4 DEF HandlePostConfig, Handling
      <3>5. call' = [call EXCEPT ![k] = r]
        BY <1>1, <3>1, <3>4
      <3>6. call[k].floor <= confirmed
        BY DEF ApiInv
      <3> HIDE DEF r
      <3>7. config' \in Nat /\ config <= config' /\ confirmed' \in 0 .. config' /\ confirmed <= confirmed'
        BY <1>1, <3>4
      <3>8. /\ r.ver # None => r.ver <= config'
            /\ r.floor <= confirmed'
            /\ r.kind = "get" /\ r.phase = "answering" => r.ver \in Nat /\ r.ver >= r.floor
        BY <1>1, <3>3, <3>4, <3>6, <3>7
      <3> QED
        BY <3>3, <3>5, <3>7, <3>8, CallChanges, Zenon
    <2>5. CASE ApiAnswered(k)
      <3>1. call[k].ver \in Nat \cup {None} /\ (call[k].ver # None => call[k].ver <= config)
        BY <1>1 DEF ApiInv, CallRecs
      <3>2. /\ call' = [call EXCEPT ![k] = Idle] /\ config' = config
            /\ confirmed' = IF call[k].kind = "post" /\ call[k].ver # None /\ call[k].ver > confirmed
                              THEN call[k].ver ELSE confirmed
        BY <2>5 DEF ApiAnswered
      <3>3. confirmed' \in 0 .. config /\ confirmed <= confirmed'
        BY <1>1, <3>1, <3>2
      <3> QED
        BY <3>2, <3>3, CallEnds
    <2>6. CASE ApiClientGone(k)
      <3>1. call' = [call EXCEPT ![k] = Idle] /\ UNCHANGED <<config, confirmed>>
        BY <2>6 DEF ApiClientGone
      <3>2. confirmed' \in 0 .. config /\ confirmed <= confirmed'
        BY <1>1, <3>1
      <3> QED
        BY <3>1, <3>2, CallEnds
    <2> QED
      BY <1>6, <2>1, <2>2, <2>3, <2>4, <2>5, <2>6 DEF ApiStep
  <1> QED
    BY <1>2, <1>3, <1>4, <1>5, <1>6 DEF SysNext, sysVars, vars, apiVars

\* It is an invariant.
LEMMA ApiInvHolds == SysSpec => []ApiInv
  <1>1. SysInit => ApiInv
    <2> SUFFICES ASSUME SysInit PROVE ApiInv
      OBVIOUS
    <2>1. config = 0 /\ confirmed = 0 /\ call = [k \in Calls |-> Idle]
      BY DEF SysInit, Init
    <2>2. /\ Idle \in CallRecs
          /\ Idle.ver = None /\ Idle.floor = 0 /\ Idle.phase = "idle"
      BY DEF Idle, CallRecs
    <2> QED
      BY <2>1, <2>2 DEF ApiInv
  <1> QED
    BY <1>1, ApiInvStep, PTL DEF SysSpec

\* GET /config reads back every configuration confirmed before it was sent,
\* for any number of API connections and reloads.
THEOREM GetSafe == SysSpec => []GetReadsBack
  <1>1. ApiInv => GetReadsBack
    BY DEF ApiInv, GetReadsBack
  <1> QED
    BY <1>1, ApiInvHolds, PTL

\* Only the start of a request makes its connection busy, and only the end of
\* it changes what a busy connection holds.
LEMMA BusyFacts ==
  ASSUME IInv, [SysNext]_sysVars, NEW c \in Conns, conn'[c].phase = "busy"
  PROVE  conn'[c] = conn[c] \/ \E host \in Hosts : RouteRequest(c, host)
  <1>1. conn \in [Conns -> [phase : {"none", "queued", "handshake", "open", "busy"},
                            via : AllListeners \cup {None}, snap : 0 .. MaxReloads \cup {None}]]
    BY DEF IInv, TypeOK
  <1>2. CASE conn' = conn
    BY <1>2
  <1>3. CASE ListenerStep
    <2>1. CASE StarterStep \/ \E l \in AllListeners : Bind(l)
      BY <1>2, <2>1 DEF StarterStep, GroupSites, AwaitHandle, StartAllReturns, StartWithAddr, ServingEnds,
                        SpawnListener, SpawnRedirect, Quiet, Bind
    <2>2. ASSUME NEW l \in AllListeners, AcceptError(l)
          PROVE  conn'[c] = conn[c]
      <3>1. conn' = [d \in Conns |->
                       IF conn[d].phase = "queued" /\ conn[d].via = l THEN NoConn ELSE conn[d]]
        BY <2>2 DEF AcceptError
      <3> QED
        BY <3>1 DEF NoConn
    <2>3. ASSUME NEW d \in Conns, AcceptStep(d) \/ ConnStepButRequest(d)
          PROVE  conn'[c] = conn[c]
      <3>1. \/ conn' = [conn EXCEPT ![d] = NoConn]
            \/ \E l \in AllListeners :
                 conn' = [conn EXCEPT ![d] = [phase |-> "queued", via |-> l, snap |-> None]]
            \/ \E p \in {"handshake", "open"} : conn' = [conn EXCEPT ![d].phase = p]
        BY <2>3 DEF AcceptStep, Accept, Reject, AcceptRedirect, ConnStepButRequest, Connect,
                    HandshakeDone, HandshakeFailed, Answered, Close, RedirectDone
      <3> QED
        BY <1>1, <3>1 DEF NoConn
    <2> QED
      BY <1>3, <2>1, <2>2, <2>3 DEF ListenerStep
  <1>4. ASSUME NEW d \in Conns, NEW host \in Hosts, RouteRequest(d, host), d # c
        PROVE  conn'[c] = conn[c]
    BY <1>1, <1>4 DEF RouteRequest, Request
  <1>5. CASE UpdateConfigReturns \/ \E k \in Calls : ApiStep(k)
    BY <1>2, <1>5, ApiRefines DEF UpdateConfigReturns, UpdateConfig, vars
  <1> QED
    BY <1>2, <1>3, <1>4, <1>5 DEF SysNext, sysVars, vars

\* A request runs under a configuration at least as new as the newest one
\* confirmed when it starts, however old its connection is.
THEOREM ReloadSafe == SysSpec => ReloadIsInForce
  <1>1. /\ ApiInv /\ IInv /\ [SysNext]_sysVars
        => [\A c \in Conns : conn[c].phase = "open" /\ conn'[c].phase = "busy" =>
              conn'[c].snap >= confirmed]_sysVars
    <2> SUFFICES ASSUME ApiInv, IInv, [SysNext]_sysVars, NEW c \in Conns,
                        conn[c].phase = "open", conn'[c].phase = "busy"
                 PROVE  conn'[c].snap >= confirmed
      OBVIOUS
    <2>1. conn \in [Conns -> [phase : {"none", "queued", "handshake", "open", "busy"},
                              via : AllListeners \cup {None}, snap : 0 .. MaxReloads \cup {None}]]
      BY DEF IInv, TypeOK
    <2>2. Request(c)
      BY BusyFacts DEF RouteRequest
    <2>3. conn'[c].snap = config
      BY <2>1, <2>2 DEF Request
    <2> QED
      BY <2>3 DEF ApiInv
  <1> QED
    BY <1>1, ApiInvHolds, SysRefinesListeners, InvHolds, PTL DEF SysSpec, ReloadIsInForce

-----------------------------------------------------------------------------
(* Routing                                                                 *)

\* find_site: a site it returns is one of the configuration, found under the
\* Host as it is, under the bare name when the Host has a port, under the
\* default port of the scheme when it has none, or as a TLS site over TLS.
LEMMA FindSiteFacts ==
  ASSUME NEW S, NEW host, NEW tls \in BOOLEAN, NEW s \in Lookup!FindSite(S, host, tls)
  PROVE  /\ s \in S
         /\ \/ s.key = host
            \/ host.port # NoPort /\ s.key = Lookup!BareHostname(host)
            \/ host.port = NoPort /\ s.key = Lookup!WithDefaultPort(host, tls)
            \/ tls /\ s.tls
  BY DEF Lookup!FindSite, Lookup!SitesAt, Lookup!SniMatches, Lookup!NoPort, NoPort

\* A busy connection has a site that find_site returned for its Host in the
\* configuration the proxy was started with, or none.
RoutedInv ==
  /\ routed = [c \in Conns |-> routed[c]]
  /\ \A c \in Conns : conn[c].phase = "busy" =>
       \/ routed[c].site = {}
       \/ /\ routed[c].host \in Hosts
          /\ routed[c].site =
               Lookup!FindSite({Stored(s) : s \in sites}, routed[c].host, conn[c].via.kind = "tls")

\* Every step of the system keeps it.
LEMMA RoutedStep == IInv /\ RoutedInv /\ [SysNext]_sysVars => RoutedInv'
  <1> SUFFICES ASSUME IInv, RoutedInv, [SysNext]_sysVars PROVE RoutedInv'
    OBVIOUS
  <1>1. UNCHANGED sites
    BY DEF SysNext, sysVars, vars, ListenerStep, StarterStep, GroupSites, AwaitHandle, StartAllReturns,
           StartWithAddr, ServingEnds, SpawnListener, SpawnRedirect, Quiet, Bind, AcceptError,
           AcceptStep, Accept, Reject, AcceptRedirect, ConnStepButRequest, Connect, HandshakeDone,
           HandshakeFailed, Answered, Close, RedirectDone, Static, UpdateConfigReturns, UpdateConfig,
           ApiStep, Send, HandleGetConfig, HandlePostConfig, RejectPostConfig, HandleOther,
           ApiAnswered, ApiClientGone, ApiOnly, RouteRequest, Request
  <1>2. conn \in [Conns -> [phase : {"none", "queued", "handshake", "open", "busy"},
                            via : AllListeners \cup {None}, snap : 0 .. MaxReloads \cup {None}]]
    BY DEF IInv, TypeOK
  <1>3. routed = [c \in Conns |-> routed[c]]
    BY DEF RoutedInv
  <1>4. ASSUME NEW c \in Conns, NEW host \in Hosts, RouteRequest(c, host)
        PROVE  /\ routed'[c].host = host /\ conn'[c].via = conn[c].via
               /\ \/ routed'[c].site = {}
                  \/ routed'[c].site =
                       Lookup!FindSite({Stored(s) : s \in sites}, host, conn[c].via.kind = "tls")
    <2>1. conn'[c].via = conn[c].via
      BY <1>2, <1>4 DEF RouteRequest, Request
    <2> DEFINE r == [host |-> host,
                     site |-> IF config = 0
                                THEN Lookup!FindSite({Stored(s) : s \in sites}, host,
                                                     conn[c].via.kind = "tls")
                                ELSE {}]
    <2>2. routed' = [routed EXCEPT ![c] = r]
      BY <1>4 DEF RouteRequest
    <2>3. routed'[c] = r
      BY <1>3, <2>2
    <2> QED
      BY <2>1, <2>3
  <1>5. ASSUME NEW c \in Conns, conn'[c].phase = "busy",
               ~ \E host \in Hosts : RouteRequest(c, host)
        PROVE  routed'[c] = routed[c]
    <2>1. CASE ListenerStep
      BY <1>5, <2>1 DEF ListenerStep
    <2>2. ASSUME NEW d \in Conns, NEW host \in Hosts, RouteRequest(d, host)
          PROVE  routed'[c] = routed[c]
      BY <1>3, <1>5, <2>2 DEF RouteRequest
    <2>3. CASE UNCHANGED routed
      BY <2>3
    <2> QED
      BY <2>1, <2>2, <2>3
         DEF SysNext, sysVars, UpdateConfigReturns, ApiStep, Send, HandleGetConfig,
             HandlePostConfig, RejectPostConfig, HandleOther, ApiAnswered, ApiClientGone, ApiOnly
  <1>6. routed' = [c \in Conns |-> routed'[c]]
    <2>1. CASE ListenerStep
      BY <2>1 DEF ListenerStep
    <2>2. ASSUME NEW d \in Conns, NEW host \in Hosts, RouteRequest(d, host)
          PROVE  routed' = [c \in Conns |-> routed'[c]]
      BY <1>3, <2>2 DEF RouteRequest
    <2>3. CASE UNCHANGED routed
      BY <1>3, <2>3
    <2> QED
      BY <2>1, <2>2, <2>3
         DEF SysNext, sysVars, UpdateConfigReturns, ApiStep, Send, HandleGetConfig,
             HandlePostConfig, RejectPostConfig, HandleOther, ApiAnswered, ApiClientGone, ApiOnly
  <1>7. ASSUME NEW c \in Conns, conn'[c].phase = "busy"
        PROVE  \/ routed'[c].site = {}
               \/ /\ routed'[c].host \in Hosts
                  /\ routed'[c].site =
                       Lookup!FindSite({Stored(s) : s \in sites}, routed'[c].host,
                                       conn'[c].via.kind = "tls")
    <2>1. CASE \E host \in Hosts : RouteRequest(c, host)
      BY <1>4, <2>1
    <2>2. CASE ~ \E host \in Hosts : RouteRequest(c, host)
      <3>1. conn'[c] = conn[c]
        BY <1>7, <2>2, BusyFacts
      <3>2. routed'[c] = routed[c]
        BY <1>5, <1>7, <2>2
      <3> QED
        BY <1>7, <3>1, <3>2 DEF RoutedInv
    <2> QED
      BY <2>1, <2>2
  <1>8. {Stored(s) : s \in sites}' = {Stored(s) : s \in sites}
    BY <1>1 DEF Stored, KeyOf
  <1> QED
    BY <1>6, <1>7, <1>8 DEF RoutedInv

\* find_site's second step looks for the default port of the scheme.
LEMMA DefaultPort ==
  ASSUME NEW host \in Hosts, NEW tls
  PROVE  Lookup!WithDefaultPort(host, tls).port = IF tls THEN 443 ELSE 80
  <1>1. host \in [name : STRING, br : BOOLEAN, port : Ports \cup {NoPort}]
    BY HostsAssumption
  <1> QED
    BY <1>1 DEF Lookup!WithDefaultPort

\* A listener of start_all serves sites of its own scheme: what find_site
\* returns for a Host with the listener's port, or with none on the scheme's
\* default port, has TLS exactly when the listener does.
LEMMA OwnScheme ==
  ASSUME IInv, RoutedInv
  PROVE  RoutedToOwnScheme
  <1> SUFFICES ASSUME NEW c \in Conns, conn[c].phase = "busy", addr = None,
                      \A a, b \in SiteSockets : a.port = b.port => a = b,
                      \/ routed[c].host.port = conn[c].via.addr.port
                      \/ /\ routed[c].host.port = NoPort
                         /\ conn[c].via.addr.port = (IF conn[c].via.kind = "tls" THEN 443 ELSE 80),
                      NEW s \in routed[c].site
               PROVE  s.tls <=> conn[c].via.kind = "tls"
    BY DEF RoutedToOwnScheme
  <1> DEFINE via == conn[c].via
             host == routed[c].host
             tls == via.kind = "tls"
  <1>1. via \in SiteListeners /\ state[via] # "none"
    BY ListenerFacts DEF IInv, ConnsPlaced
  <1>2. /\ via.addr \in SiteSockets
        /\ \A x \in SitesOn(via.addr) : x.tls <=> tls
        /\ \A x \in sites : x.port # NoPort
    BY <1>1 DEF IInv, ListenersAsGrouped
  <1>3. host \in Hosts /\ s \in Lookup!FindSite({Stored(x) : x \in sites}, host, tls)
    BY DEF RoutedInv
  <1>tls. tls \in BOOLEAN
    OBVIOUS
  <1>4. /\ s \in {Stored(x) : x \in sites}
        /\ \/ s.key = host
           \/ host.port # NoPort /\ s.key = Lookup!BareHostname(host)
           \/ host.port = NoPort /\ s.key = Lookup!WithDefaultPort(host, tls)
           \/ tls /\ s.tls
    <2> HIDE DEF host, tls
    <2> QED
      BY <1>tls, <1>3, FindSiteFacts
  <1>site. PICK x \in sites : s = Stored(x)
    BY <1>4
  <1>5. s.key.port = x.port /\ s.tls = x.tls
    BY <1>site DEF Stored, KeyOf
  <1>6. \A y : ResolveListenAddr(y).port = y.port
    BY DEF ResolveListenAddr
  <1>7. via.addr.port # NoPort
    BY <1>2, <1>6 DEF SiteSockets
  <1>8. ASSUME x.port = via.addr.port PROVE s.tls <=> tls
    <2>1. ResolveListenAddr(x) \in SiteSockets
      BY DEF SiteSockets
    <2>2. ResolveListenAddr(x) = via.addr
      BY <1>2, <1>6, <1>8, <2>1
    <2> QED
      BY <1>2, <1>5, <2>2 DEF SitesOn
  <1>9. CASE s.key = host
    BY <1>2, <1>5, <1>8, <1>9
  <1>10. CASE host.port # NoPort /\ s.key = Lookup!BareHostname(host)
    BY <1>2, <1>5, <1>10 DEF Lookup!BareHostname, Lookup!NoPort, NoPort
  <1>11. CASE host.port = NoPort /\ s.key = Lookup!WithDefaultPort(host, tls)
    <2>1. s.key.port = IF tls THEN 443 ELSE 80
      <3> HIDE DEF host, tls
      <3> QED
        BY <1>3, <1>11, DefaultPort
    <2> QED
      BY <1>5, <1>7, <1>8, <1>11, <2>1
  <1>12. CASE tls /\ s.tls
    BY <1>12
  <1> QED
    BY <1>4, <1>9, <1>10, <1>11, <1>12

\* For any sites that share no port across addresses, any Host that names the
\* port it came in on (or leaves out the default one), and any order
\* of reloads: proxy() never answers for a TLS site in plain text, nor for a
\* plain one over TLS, under the configuration start_all was started with.
THEOREM RoutingSafe == SysSpec => []RoutedToOwnScheme
  <1>1. SysInit => RoutedInv
    BY DEF SysInit, Init, RoutedInv, NoConn
  <1> QED
    BY <1>1, RoutedStep, OwnScheme, SysRefinesListeners, InvHolds, PTL DEF SysSpec
=============================================================================
