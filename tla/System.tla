------------------------------- MODULE System -------------------------------
(***************************************************************************)
(* The listeners beside the management API, which share the configuration  *)
(* through one ArcSwap.  A proxy request is routed with find_site under    *)
(* the snapshot it loaded; an API request reads or replaces what the next  *)
(* request will load.  An API connection stays open between requests and   *)
(* keeps nothing; accepting it has no limit and is left out.               *)
(***************************************************************************)
EXTENDS Listeners

CONSTANTS
  Calls,              \* API connections
  Hosts,              \* Host headers: [name, br, port]
  Lower(_)            \* to_ascii_lowercase

VARIABLES
  call,               \* the request each API connection is busy with
  confirmed,          \* history: newest configuration whose installation was confirmed
  routed              \* of each connection: the Host of its request and the site

apiVars == <<call, confirmed>>
sysVars == <<vars, apiVars, routed>>

Lookup == INSTANCE SiteLookup

\* A Host value as find_site takes it apart.
ASSUME HostsAssumption == Hosts \subseteq [name : STRING, br : BOOLEAN, port : Ports \cup {NoPort}]

Idle == [phase |-> "idle", kind |-> "other", ver |-> None, floor |-> 0]
Unrouted == [host |-> None, site |-> {}]

-----------------------------------------------------------------------------
(* Proxy requests                                                          *)

\* A site of the file the proxy was started with: stored under its address.
KeyOf(s) == [name |-> IF s.host = "[::1]" THEN "::1" ELSE s.host, br |-> s.host \in V6, port |-> s.port]
Stored(s) == [key |-> KeyOf(s), address |-> KeyOf(s), tls |-> s.tls]

\* proxy(): the snapshot is loaded and the site looked up in it.  The sites
\* that later configurations hold are left open.
RouteRequest(c, host) ==
  /\ Request(c)
  /\ routed' = [routed EXCEPT ![c] =
                 [host |-> host,
                  site |-> IF config = 0
                             THEN Lookup!FindSite({Stored(s) : s \in sites}, host, conn[c].via.kind = "tls")
                             ELSE {}]]
  /\ UNCHANGED apiVars

-----------------------------------------------------------------------------
(* The management API                                                      *)

ApiOnly ==
  UNCHANGED <<addr, sites, starter, todo, redirects, handles, state, owner, permits, conn, routed>>

\* external: a client of the API sends a request.
Send(k, kind) ==
  /\ call[k].phase = "idle"
  /\ call' = [call EXCEPT ![k] = [phase |-> "sent", kind |-> kind, ver |-> None, floor |-> IF kind = "get" THEN confirmed ELSE 0]]
  /\ UNCHANGED <<config, confirmed>> /\ ApiOnly

Handling(k, kind) == call[k].phase = "sent" /\ call[k].kind = kind

\* Mutant: the API server was given a copy of the configuration when it started.
HandleGetConfig_Copy(k) ==
  /\ Handling(k, "get")
  /\ call' = [call EXCEPT ![k].phase = "answering", ![k].ver = 0]
  /\ UNCHANGED <<config, confirmed>> /\ ApiOnly

HandleGetConfig(k) ==
  /\ Handling(k, "get")
  /\ call' = [call EXCEPT ![k].phase = "answering", ![k].ver = config]
  /\ UNCHANGED <<config, confirmed>> /\ ApiOnly

\* The body has been read and is a configuration: it is stored, unchecked.
HandlePostConfig(k) ==
  /\ Handling(k, "post")
  /\ config < MaxReloads
  /\ config' = config + 1
  /\ call' = [call EXCEPT ![k].phase = "answering", ![k].ver = config + 1]
  /\ UNCHANGED confirmed /\ ApiOnly

\* The body breaks off, is not UTF-8 or no configuration: 400.
RejectPostConfig(k) ==
  /\ Handling(k, "post")
  /\ call' = [call EXCEPT ![k].phase = "answering"]
  /\ UNCHANGED <<config, confirmed>> /\ ApiOnly

\* GET /health, and 404 for the rest.
HandleOther(k) ==
  /\ Handling(k, "other")
  /\ call' = [call EXCEPT ![k].phase = "answering"]
  /\ UNCHANGED <<config, confirmed>> /\ ApiOnly

\* The client has the answer.
ApiAnswered(k) ==
  /\ call[k].phase = "answering"
  /\ call' = [call EXCEPT ![k] = Idle]
  /\ confirmed' = IF call[k].kind = "post" /\ call[k].ver # None /\ call[k].ver > confirmed
                    THEN call[k].ver ELSE confirmed
  /\ UNCHANGED config /\ ApiOnly

\* The client goes away: the handler is dropped where it waits for the body,
\* and what it has stored stays.
ApiClientGone(k) ==
  /\ call[k].phase \in {"sent", "answering"}
  /\ call' = [call EXCEPT ![k] = Idle]
  /\ UNCHANGED <<config, confirmed>> /\ ApiOnly

\* Proxy::update_config, called by a program that embeds the proxy, returns
\* when the configuration is stored.
UpdateConfigReturns ==
  /\ UpdateConfig
  /\ confirmed' = config'
  /\ UNCHANGED <<call, routed>>

-----------------------------------------------------------------------------
SysInit ==
  /\ Init
  /\ call = [k \in Calls |-> Idle]
  /\ confirmed = 0
  /\ routed = [c \in Conns |-> Unrouted]

ApiStep(k) ==
  \/ \E kind \in {"get", "post", "other"} : Send(k, kind)
  \/ HandleGetConfig(k) \/ HandlePostConfig(k) \/ RejectPostConfig(k) \/ HandleOther(k)
  \/ ApiAnswered(k) \/ ApiClientGone(k)

\* The steps of Listeners other than a request and a reload.
ListenerStep ==
  /\ \/ StarterStep
     \/ \E l \in AllListeners : Bind(l) \/ AcceptError(l)
     \/ \E c \in Conns : AcceptStep(c) \/ ConnStepButRequest(c)
  /\ routed' = [c \in Conns |-> IF conn'[c].phase = "busy" THEN routed[c] ELSE Unrouted]
  /\ UNCHANGED apiVars

SysNext ==
  \/ ListenerStep \/ UpdateConfigReturns
  \/ \E k \in Calls : ApiStep(k)
  \/ \E c \in Conns, host \in Hosts : RouteRequest(c, host)

SysSpec == SysInit /\ [][SysNext]_sysVars

-----------------------------------------------------------------------------
(* Properties                                                              *)

\* Once POST /config has answered 200, or update_config returned, every request
\* that starts runs under that configuration or a newer one, on connections
\* opened before it too.
ReloadIsInForce ==
  [][\A c \in Conns : conn[c].phase = "open" /\ conn'[c].phase = "busy" =>
       conn'[c].snap >= confirmed]_sysVars

\* GET /config never answers with a configuration older than one a POST had
\* been confirmed for when the GET was sent, whichever connection they use.
GetReadsBack ==
  \A k \in Calls : call[k].kind = "get" /\ call[k].phase = "answering" =>
    call[k].ver >= call[k].floor

\* A request that names the port it came in on is routed to a site of the
\* listener's own scheme, under the configuration start_all was started with:
\* a TLS site is not answered for in plain text, nor a plain one over TLS.
\* Sites on one port with different addresses are the exception.
RoutedToOwnScheme ==
  \A c \in Conns :
    LET via == conn[c].via
        host == routed[c].host
    IN  /\ conn[c].phase = "busy" /\ addr = None
        /\ \A a, b \in SiteSockets : a.port = b.port => a = b
        /\ \/ host.port = via.addr.port
           \/ host.port = NoPort /\ via.addr.port = (IF via.kind = "tls" THEN 443 ELSE 80)
        => \A s \in routed[c].site : s.tls <=> via.kind = "tls"
=============================================================================
