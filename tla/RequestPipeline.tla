-------------------------- MODULE RequestPipeline --------------------------
(***************************************************************************)
(* One request through tiny-proxy, many at a time: proxy() and             *)
(* process_directives() of handler.rs, the forward-auth middleware, the    *)
(* directive handlers, the request-ID helpers, and the RAII guards of the  *)
(* access log and the metrics.  Each request is a tokio task step; tasks   *)
(* interleave freely with each other and with configuration hot-reloads,   *)
(* and are cancelled when their client goes away while they wait.          *)
(*                                                                         *)
(* A configuration is data: Sites[c] are its sites, and a directive list   *)
(* (a site's, or the body of a handle_path or method block) is a block b   *)
(* with Program[b] its sequence of directives.  Nested lists are tail      *)
(* calls in the code, so a cursor (block, index, path) is the whole        *)
(* control state and no stack is needed.                                   *)
(*                                                                         *)
(* A header value is abstracted to where it came from:                     *)
(*   "absent"   the header is not there                                    *)
(*   "client"   as the client sent it under this very name                 *)
(*   "copy"     text of the request under another name: copied by a        *)
(*              placeholder, or X-Forwarded-Host, X-Original-URI/-Method   *)
(*   "config"   text of the configuration or the environment               *)
(*   "uuid"     generated by ensure_request_id                             *)
(*   "uuid2"    generated by a directive's {uuid}                          *)
(*   "auth"     an identity header taken from an auth response             *)
(*   "proxy"    set by proxy() itself: Host, X-Forwarded-For and -Proto    *)
(* A byte of 0x80 or more makes a legal header value that to_str refuses   *)
(* to read: "client8", "copy8", "config8" and "auth8" are such values.     *)
(* Bodies, the query string and the backend's own response headers are not *)
(* modelled.                                                               *)
(***************************************************************************)
EXTENDS Integers, Sequences, FiniteSets, PathRewrite, SiteLookup

CONSTANTS
  None,           \* what is not there yet
  Requests,       \* request identifiers; each is one HTTP request
  Inputs,         \* what clients send: [host, tls, method, path, ascii, hdr]
  Configs,        \* configurations that may be installed
  Sites,          \* Sites[c]: the sites of configuration c
  Blocks,         \* directive lists of all configurations
  Program,        \* Program[b]: the directives of block b
  HeaderNames,
  AuthAnswers,    \* heads an auth service may send: [status, ident]
  BackendStatuses,
  BadChars,       \* characters the http crate rejects in a path
  Owner,          \* Owner[b]: the configuration block b belongs to
  GuardsAbove     \* GuardsAbove[b]: the forward_auth positions before block b

VARIABLES
  config,         \* the ArcSwap: the installed configuration
  pc,             \* where the request's future is
  input,          \* the request as the client sent it
  snap,           \* the Arc<Config> loaded for the request
  at,             \* cursor of process_directives: <<block, index>>
  path,           \* modified_path
  hdr,            \* the request's header map
  head,           \* the auth response head being drained
  up,             \* the outgoing request: next header_up entry, {remote_ip}
  reqid,          \* the request ID the access log and the response use
  resp,           \* the response handed to hyper
  log,            \* access-log lines written for the request
  counted,        \* statuses recorded in http_requests_total
  auths,          \* results recorded in auth_requests_total
  gauge,          \* http_active_requests
  contacted,      \* history: the request was sent to its backend
  heard           \* history: what auth services answered, per position

vars == <<config, pc, input, snap, at, path, hdr, head, up, reqid, resp, log,
          counted, auths, gauge, contacted, heard>>

-----------------------------------------------------------------------------
(* Vocabulary                                                              *)

NoCursor == <<None, 0>>
NoIdentity == [n \in HeaderNames |-> "absent"]
NoHead == [status |-> 0, ident |-> NoIdentity]
NoUpstream == [next |-> 0, ip |-> "proxy"]
NoResponse == [status |-> 0, id |-> "absent"]

\* The values HeaderValue::to_str can read, and those it cannot.
Readable == {"client", "copy", "config", "uuid", "uuid2", "auth", "proxy"}
Unreadable == {"client8", "copy8", "config8", "auth8"}

Origins == Readable \cup Unreadable \cup {"absent"}

\* What the client sent under the header's own name.
FromClient == {"client", "client8"}

\* An identity header of an auth response.
FromAuth == {"auth", "auth8"}

Ops == {"header", "uri_replace", "strip_prefix", "handle_path", "method",
        "redirect", "respond", "reverse_proxy", "forward_auth"}

Waiting == {"auth_wait", "auth_drain", "backend_wait"}
Final == {"responded", "aborted", "cancelled"}
PCs == {"idle", "routing", "directives", "header_up", "looping"} \cup Waiting \cup Final

\* The headers proxy() reads or writes by name.
SystemHeaders == {"host", "connection", "accept-encoding", "x-request-id",
                  "x-real-ip", "x-forwarded-for", "x-forwarded-host",
                  "x-forwarded-proto", "x-original-uri", "x-original-method"}

IsSuccess(status) == status \in 200 .. 299

\* Mutant: only 401 and 403 count as denials.
IsClientError_AuthOnly(status) == status \in {401, 403}

IsClientError(status) == status \in 400 .. 499

Directive(r) == Program[at[r][1]][at[r][2]]
AtEnd(r) == at[r][2] > Len(Program[at[r][1]])

\* The request is at a directive of this kind.
AtOp(r, op) == pc[r] = "directives" /\ ~AtEnd(r) /\ Directive(r).op = op

\* The forward_auth directives of block b before index i.
GuardsBefore(b, i) == {<<b, j>> : j \in {k \in 1 .. Len(Program[b]) :
                                    k < i /\ Program[b][k].op = "forward_auth"}}

\* The forward_auth directives the request has gone through.
GuardsPassed(r) == GuardsAbove[at[r][1]] \cup GuardsBefore(at[r][1], at[r][2])

GuardCfg(g) == Program[g[1]][g[2]]

(***************************************************************************)
(* Assumptions on the configurations, in the order they are used: inputs   *)
(* and directives are well formed, a block belongs to one configuration    *)
(* and is nested in one place, so its guards are those of the block around *)
(* it and those before it there.                                           *)
(***************************************************************************)
ASSUME InputsAssumption ==
  /\ SystemHeaders \subseteq HeaderNames
  /\ \A i \in Inputs : i.hdr \in [HeaderNames -> FromClient \cup {"absent"}]

ASSUME ProgramAssumption ==
  \A b \in Blocks : Len(Program[b]) \in Nat /\ \A i \in 1 .. Len(Program[b]) :
    LET d == Program[b][i]
    IN  /\ d.op \in Ops
        /\ d.op = "header" => d.name \in HeaderNames
        /\ d.op \in {"handle_path", "method"} => d.body \in Blocks
        /\ d.op \in {"redirect", "respond"} => d.status \in Nat
        /\ d.op = "forward_auth" => /\ d.request_headers \subseteq HeaderNames
                                    /\ d.response_headers \subseteq HeaderNames
                                    /\ d.failure_mode \in {"closed", "open"}
        /\ d.op = "reverse_proxy" =>
             Len(d.header_up) \in Nat
             /\ \A k \in 1 .. Len(d.header_up) : d.header_up[k].name \in HeaderNames

ASSUME AuthAnswersAssumption ==
  AuthAnswers \subseteq
    [status : 100 .. 999, ident : [HeaderNames -> FromAuth \cup {"absent"}]]

ASSUME BackendAssumption == BackendStatuses \subseteq 100 .. 999

ASSUME OwnerAssumption ==
  /\ \A c \in Configs : \A s \in Sites[c] : s.root \in Blocks /\ Owner[s.root] = c
  /\ \A b \in Blocks : \A i \in 1 .. Len(Program[b]) :
       Program[b][i].op \in {"handle_path", "method"} =>
         Owner[Program[b][i].body] = Owner[b]

ASSUME GuardsAssumption ==
  /\ \A c \in Configs : \A s \in Sites[c] : GuardsAbove[s.root] = {}
  /\ \A b \in Blocks : \A i \in 1 .. Len(Program[b]) :
       Program[b][i].op \in {"handle_path", "method"} =>
         GuardsAbove[Program[b][i].body] = GuardsAbove[b] \cup GuardsBefore(b, i)
  /\ \A b \in Blocks : \A g \in GuardsAbove[b] :
       /\ g[1] \in Blocks \ {b} /\ g[2] \in 1 .. Len(Program[g[1]])
       /\ GuardCfg(g).op = "forward_auth"

-----------------------------------------------------------------------------
(* Header maps                                                             *)

\* ensure_request_id: keep a readable X-Request-ID, else insert a new UUID.
EnsureRequestId(h) ==
  IF h["x-request-id"] \in Readable THEN h ELSE [h EXCEPT !["x-request-id"] = "uuid"]

\* Mutant: the ID a directive wrote is ignored.
FinalRequestId_Initial(h, fallback) == fallback

\* final_request_id: the header after the directives, else the fallback.
FinalRequestId(h, fallback) ==
  IF h["x-request-id"] \in Readable THEN h["x-request-id"] ELSE fallback

\* The value a template makes: one byte of 0x80 or more in it, or in an
\* environment variable it names, and to_str does not read the whole.
Text(origin, ascii) ==
  IF ascii THEN origin ELSE IF origin = "copy" THEN "copy8" ELSE "config8"

\* {header.Name} copies text that may hold placeholders of its own, and
\* process_header_substitution scans what it copied again.
Rescans(v, h) == v.kind = "header" /\ h[v.from] \in {"client", "copy", "config", "auth"}

\* The loops do not end when a placeholder leads back to itself: through
\* copied text, or, as the configuration has it, an environment variable.
MayLoop(v, h) == v.kind = "env_cycle" \/ Rescans(v, h)

\* process_header_substitution: what may come out of it.  "absent" is an
\* error, of an unclosed placeholder or of HeaderValue::from_str; the
\* placeholders of header_up are plain text here.
HeaderSubstitution(v, h) ==
  CASE v.kind = "invalid"                          -> {"absent"}
    [] v.kind = "env_cycle"                        -> {}
    [] Rescans(v, h)                               -> {"absent", "copy8", Text("copy", v.ascii)}
    [] v.kind = "header" /\ h[v.from] \in Readable -> {Text("copy", v.ascii)}
    [] v.kind = "uuid"                             -> {Text("uuid2", v.ascii)}
    [] OTHER                                       -> {Text("config", v.ascii)}

\* extract_remote_ip: client-supplied text wins over the socket peer.
RemoteIp(h) ==
  IF h["x-forwarded-for"] \in Readable \/ h["x-real-ip"] \in Readable THEN "copy" ELSE "proxy"

\* process_upstream_substitution; ascii: the request's path and query are.
UpstreamSubstitution(v, h, remoteIp, ascii) ==
  CASE v.kind = "remote_ip"     -> {Text(remoteIp, v.ascii)}
    [] v.kind = "upstream_host" -> {Text("proxy", v.ascii)}
    [] v.kind = "request_uri"   -> {Text("copy", v.ascii /\ ascii)}
    [] OTHER                    -> HeaderSubstitution(v, h)

\* handle_header and one turn of apply_header_up: remove, set, or, after an
\* error, only a log line.
ApplyHeader(h, d, value) ==
  CASE d.value.kind = "remove" -> [h EXCEPT ![d.name] = "absent"]
    [] value = "absent"        -> h
    [] OTHER                   -> [h EXCEPT ![d.name] = value]

\* Mutant: client-supplied identity headers survive.
ScrubIdentity_Kept(h, cfg) == h

\* scrub_identity_headers
ScrubIdentity(h, cfg) ==
  [n \in HeaderNames |-> IF n \in cfg.response_headers THEN "absent" ELSE h[n]]

\* apply_identity_headers: the configured headers the answer carries.
ApplyIdentity(h, cfg, ident) ==
  [n \in HeaderNames |->
     IF n \in cfg.response_headers /\ ident[n] # "absent" THEN ident[n] ELSE h[n]]

\* A header's value inserted under another name.
Moved(value) == IF value \in Readable THEN "copy" ELSE "copy8"

\* Mutant: the client's headers are copied after the system headers.
AuthSubrequest_ClientWins(h, cfg, ascii) ==
  [n \in HeaderNames |->
     IF n \in cfg.request_headers \/ n = "x-request-id" THEN h[n]
     ELSE IF n \in {"host", "x-forwarded-for", "x-forwarded-proto"} THEN "proxy" ELSE "absent"]

\* build_auth_request: whitelisted headers, then the system headers over
\* them.  X-Forwarded-Host is the request's own Host.
AuthSubrequest(h, cfg, ascii) ==
  [n \in HeaderNames |->
     CASE n \in {"host", "x-forwarded-for", "x-forwarded-proto"} -> "proxy"
       [] n = "x-original-uri"                                  -> Text("copy", ascii)
       [] n = "x-original-method"                               -> "copy"
       [] n = "x-forwarded-host" /\ h["host"] # "absent"        -> Moved(h["host"])
       [] n = "x-request-id" /\ h[n] # "absent"                 -> h[n]
       [] OTHER -> IF n \in cfg.request_headers THEN h[n] ELSE "absent"]

\* The headers proxy() rewrites before header_up: Host becomes the backend's,
\* X-Forwarded-Host the old Host if there was one.
Outbound(h) ==
  [h EXCEPT !["host"] = "proxy",
            !["x-forwarded-host"] = IF h["host"] = "absent" THEN @ ELSE Moved(h["host"]),
            !["x-forwarded-proto"] = "proxy",
            !["x-forwarded-for"] = "proxy",
            !["connection"] = "absent",
            !["accept-encoding"] = "absent"]

\* external: http::Uri accepts the backend URL and the path.
UriOk(d, p) == d.uri_ok /\ \A k \in 1 .. Len(p) : p[k] \notin BadChars

\* Mutant: the configured number is used unchecked.
StatusOr_Unchecked(status, default) == status

\* StatusCode::from_u16(status).unwrap_or(default)
StatusOr(status, default) == IF status \in 100 .. 999 THEN status ELSE default

-----------------------------------------------------------------------------
Init ==
  /\ config \in Configs
  /\ pc = [r \in Requests |-> "idle"]
  /\ input = [r \in Requests |-> None]
  /\ snap = [r \in Requests |-> None]
  /\ at = [r \in Requests |-> NoCursor]
  /\ path = [r \in Requests |-> << >>]
  /\ hdr = [r \in Requests |-> [n \in HeaderNames |-> "absent"]]
  /\ head = [r \in Requests |-> NoHead]
  /\ up = [r \in Requests |-> NoUpstream]
  /\ reqid = [r \in Requests |-> "absent"]
  /\ resp = [r \in Requests |-> NoResponse]
  /\ log = [r \in Requests |-> << >>]
  /\ counted = [r \in Requests |-> << >>]
  /\ auths = [r \in Requests |-> << >>]
  /\ gauge = 0
  /\ contacted = [r \in Requests |-> FALSE]
  /\ heard = [r \in Requests |-> {}]

-----------------------------------------------------------------------------
(* How a request's future ends.  Dropping it drops the AccessLogGuard,     *)
(* which writes one line, and the MetricsGuard, which lowers the gauge.    *)

\* A response: log_guard.finish(status) and metrics_guard.record(status).
Respond(r, status, id) ==
  /\ pc' = [pc EXCEPT ![r] = "responded"]
  /\ resp' = [resp EXCEPT ![r] = [status |-> status, id |-> id]]
  /\ log' = [log EXCEPT ![r] = Append(@, [status |-> status, id |-> id])]
  /\ counted' = [counted EXCEPT ![r] = Append(@, status)]
  /\ gauge' = gauge - 1

\* Mutant: a dropped future leaves the gauge up.
Abandon_NoDrop(r, how, id) ==
  /\ pc' = [pc EXCEPT ![r] = how]
  /\ log' = [log EXCEPT ![r] = Append(@, [status |-> 500, id |-> id])]
  /\ UNCHANGED <<resp, counted, gauge>>

\* No response: the guards drop unfinished, the log line says 500 and the
\* request counter is not touched.
Abandon(r, how, id) ==
  /\ pc' = [pc EXCEPT ![r] = how]
  /\ log' = [log EXCEPT ![r] = Append(@, [status |-> 500, id |-> id])]
  /\ gauge' = gauge - 1
  /\ UNCHANGED <<resp, counted>>

NotEnded == UNCHANGED <<resp, log, counted, gauge>>

-----------------------------------------------------------------------------
(* Configuration and arrival                                               *)

\* Proxy::update_config, and POST /config through the shared ArcSwap.
UpdateConfig(c) ==
  /\ config' = c
  /\ UNCHANGED <<pc, input, snap, at, path, hdr, head, up, reqid, resp, log,
                 counted, auths, gauge, contacted, heard>>

\* The service closure loads its snapshot and proxy() starts: the request ID
\* and the two guards.
Receive(r, i) ==
  /\ pc[r] = "idle"
  /\ pc' = [pc EXCEPT ![r] = "routing"]
  /\ input' = [input EXCEPT ![r] = i]
  /\ snap' = [snap EXCEPT ![r] = config]
  /\ hdr' = [hdr EXCEPT ![r] = EnsureRequestId(i.hdr)]
  /\ reqid' = [reqid EXCEPT ![r] = EnsureRequestId(i.hdr)["x-request-id"]]
  /\ gauge' = gauge + 1
  /\ UNCHANGED <<config, at, path, head, up, resp, log, counted, auths, contacted, heard>>

\* The Host value sites are looked up by, "localhost" if it cannot be read.
HostOf(r) == IF hdr[r]["host"] \in Readable THEN input[r].host ELSE Localhost

\* Mutant: routing reads the ArcSwap again.
SiteOf_Reload(r) == FindSite(Sites[config], HostOf(r), input[r].tls)

SiteOf(r) == FindSite(Sites[snap[r]], HostOf(r), input[r].tls)

\* find_site found nothing: 404.
NoSiteFound(r) ==
  /\ pc[r] = "routing"
  /\ SiteOf(r) = {}
  /\ Respond(r, 404, reqid[r])
  /\ UNCHANGED <<config, input, snap, at, path, hdr, head, up, reqid, auths, contacted, heard>>

EnterSite(r) ==
  /\ pc[r] = "routing"
  /\ \E s \in SiteOf(r) : at' = [at EXCEPT ![r] = <<s.root, 1>>]
  /\ path' = [path EXCEPT ![r] = input[r].path]
  /\ pc' = [pc EXCEPT ![r] = "directives"]
  /\ UNCHANGED <<config, input, snap, hdr, head, up, reqid, auths, contacted, heard>>
  /\ NotEnded

-----------------------------------------------------------------------------
(* process_directives, one directive at a time                             *)

Advance(r) == at' = [at EXCEPT ![r] = <<at[r][1], at[r][2] + 1>>]

\* Mutant: the first directive of a block is skipped.
Enter_Second(r, b) == at' = [at EXCEPT ![r] = <<b, 2>>]

\* The tail call into the body of a block.
Enter(r, b) == at' = [at EXCEPT ![r] = <<b, 1>>]

\* handle_header; process_directives logs its error and goes on.
HeaderDirective(r) ==
  /\ AtOp(r, "header")
  /\ \E value \in HeaderSubstitution(Directive(r).value, hdr[r]) :
       hdr' = [hdr EXCEPT ![r] = ApplyHeader(@, Directive(r), value)]
  /\ Advance(r)
  /\ UNCHANGED <<config, pc, input, snap, path, head, up, reqid, auths, contacted, heard>>
  /\ NotEnded

\* The substitution of a header or header_up directive never returns: no
\* await, so neither a timer nor the client's going away ends the task.
SubstitutionLoops(r) ==
  /\ \/ AtOp(r, "header") /\ MayLoop(Directive(r).value, hdr[r])
     \/ /\ pc[r] = "header_up" /\ up[r].next <= Len(Directive(r).header_up)
        /\ MayLoop(Directive(r).header_up[up[r].next].value, hdr[r])
  /\ pc' = [pc EXCEPT ![r] = "looping"]
  /\ UNCHANGED <<config, input, snap, at, path, hdr, head, up, reqid, auths, contacted, heard>>
  /\ NotEnded

UriReplaceDirective(r) ==
  /\ AtOp(r, "uri_replace")
  /\ path' = [path EXCEPT ![r] = UriReplace(Directive(r).find, Directive(r).replace, @)]
  /\ Advance(r)
  /\ UNCHANGED <<config, pc, input, snap, hdr, head, up, reqid, auths, contacted, heard>>
  /\ NotEnded

StripPrefixDirective(r) ==
  /\ AtOp(r, "strip_prefix")
  /\ path' = [path EXCEPT ![r] = StripPrefix(Directive(r).prefix, @)]
  /\ Advance(r)
  /\ UNCHANGED <<config, pc, input, snap, hdr, head, up, reqid, auths, contacted, heard>>
  /\ NotEnded

\* A block that matches takes the request over, for good, with the rest of
\* the path; one that does not is skipped.
HandlePathDirective(r) ==
  /\ AtOp(r, "handle_path")
  /\ LET rest == MatchPattern(Directive(r).pattern, path[r])
     IN  \/ /\ rest = {}
            /\ Advance(r)
            /\ UNCHANGED path
         \/ /\ \E p \in rest : path' = [path EXCEPT ![r] = p]
            /\ Enter(r, Directive(r).body)
  /\ UNCHANGED <<config, pc, input, snap, hdr, head, up, reqid, auths, contacted, heard>>
  /\ NotEnded

MethodDirective(r) ==
  /\ AtOp(r, "method")
  /\ IF input[r].method \in Directive(r).methods
       THEN Enter(r, Directive(r).body)
       ELSE Advance(r)
  /\ UNCHANGED <<config, pc, input, snap, path, hdr, head, up, reqid, auths, contacted, heard>>
  /\ NotEnded

\* A terminal directive, or none: the ID is read again and the action runs.
FinalId(r) == FinalRequestId(hdr[r], reqid[r])

\* A redirect whose URL is no header value ends in an error.
RedirectDirective(r) ==
  /\ AtOp(r, "redirect")
  /\ reqid' = [reqid EXCEPT ![r] = FinalId(r)]
  /\ IF Directive(r).url_ok
       THEN Respond(r, StatusOr(Directive(r).status, 302), FinalId(r))
       ELSE Abandon(r, "aborted", FinalId(r))
  /\ UNCHANGED <<config, input, snap, at, path, hdr, head, up, auths, contacted, heard>>

RespondDirective(r) ==
  /\ AtOp(r, "respond")
  /\ reqid' = [reqid EXCEPT ![r] = FinalId(r)]
  /\ Respond(r, StatusOr(Directive(r).status, 200), FinalId(r))
  /\ UNCHANGED <<config, input, snap, at, path, hdr, head, up, auths, contacted, heard>>

NoActionDirective(r) ==
  /\ pc[r] = "directives" /\ AtEnd(r)
  /\ reqid' = [reqid EXCEPT ![r] = FinalId(r)]
  /\ Respond(r, 500, FinalId(r))
  /\ UNCHANGED <<config, input, snap, at, path, hdr, head, up, auths, contacted, heard>>

-----------------------------------------------------------------------------
(* forward_auth                                                            *)

\* Scrub the identity headers, build the subrequest and start it.
ForwardAuthDirective(r) ==
  /\ AtOp(r, "forward_auth")
  /\ hdr' = [hdr EXCEPT ![r] = ScrubIdentity(@, Directive(r))]
  /\ pc' = [pc EXCEPT ![r] = "auth_wait"]
  /\ UNCHANGED <<config, input, snap, at, path, head, up, reqid, auths, contacted, heard>>
  /\ NotEnded

\* external: the auth service's response head reaches resolve_auth, which
\* keeps its status and goes on to drain the body.
AuthHead(r, a) ==
  /\ pc[r] = "auth_wait"
  /\ head' = [head EXCEPT ![r] = a]
  /\ heard' = [heard EXCEPT ![r] = @ \cup {<<at[r], a.status, "head">>}]
  /\ pc' = [pc EXCEPT ![r] = "auth_drain"]
  /\ UNCHANGED <<config, input, snap, at, path, hdr, up, reqid, auths, contacted>>
  /\ NotEnded

\* record_auth, once resolve_auth has an outcome.
RecordAuth(r, result) == auths' = [auths EXCEPT ![r] = Append(@, result)]

\* AuthResult::Allowed: take the identity over and go on.
AuthAllowed(r) ==
  /\ RecordAuth(r, "allowed")
  /\ hdr' = [hdr EXCEPT ![r] = ApplyIdentity(@, Directive(r), head[r].ident)]
  /\ Advance(r)
  /\ pc' = [pc EXCEPT ![r] = "directives"]
  /\ UNCHANGED reqid
  /\ NotEnded

\* ActionResult::AuthDenied: the backend is not contacted.
DenyAuth(r, status) ==
  /\ reqid' = [reqid EXCEPT ![r] = FinalId(r)]
  /\ Respond(r, status, FinalId(r))
  /\ UNCHANGED <<hdr, at>>

\* AuthResult::Denied: the auth service's own status is passed on.
AuthDenied(r) ==
  /\ RecordAuth(r, "denied")
  /\ DenyAuth(r, head[r].status)

\* AuthResult::Failed: failure_mode decides.
AuthFailed(r) ==
  /\ RecordAuth(r, "error")
  /\ \/ /\ Directive(r).failure_mode = "closed"
        /\ DenyAuth(r, 503)
     \/ /\ Directive(r).failure_mode = "open"
        /\ Advance(r)
        /\ pc' = [pc EXCEPT ![r] = "directives"]
        /\ UNCHANGED <<hdr, reqid>>
        /\ NotEnded

\* The body was drained: the whole answer is there and is classified.
AuthBodyDone(r) ==
  /\ pc[r] = "auth_drain"
  /\ heard' = [heard EXCEPT ![r] = @ \cup {<<at[r], head[r].status, "body">>}]
  /\ \/ IsSuccess(head[r].status) /\ AuthAllowed(r)
     \/ IsClientError(head[r].status) /\ AuthDenied(r)
     \/ ~IsSuccess(head[r].status) /\ ~IsClientError(head[r].status) /\ AuthFailed(r)
  /\ UNCHANGED <<config, input, snap, path, head, up, contacted>>

\* Mutant: a broken 2xx body is not noticed.
AuthBodyBroken_Ignored(r) ==
  /\ pc[r] = "auth_drain"
  /\ \/ IsSuccess(head[r].status) /\ AuthAllowed(r)
     \/ IsClientError(head[r].status) /\ AuthDenied(r)
     \/ ~IsSuccess(head[r].status) /\ ~IsClientError(head[r].status) /\ AuthFailed(r)
  /\ UNCHANGED <<config, input, snap, path, head, up, contacted, heard>>

\* The body broke: a 2xx is no decision any more, a 4xx still is.
AuthBodyBroken(r) ==
  /\ pc[r] = "auth_drain"
  /\ \/ IsClientError(head[r].status) /\ AuthDenied(r)
     \/ ~IsClientError(head[r].status) /\ AuthFailed(r)
  /\ UNCHANGED <<config, input, snap, path, head, up, contacted, heard>>

\* client.request failed before a response head: connect error or malformed.
AuthError(r) ==
  /\ pc[r] = "auth_wait"
  /\ AuthFailed(r)
  /\ UNCHANGED <<config, input, snap, path, head, up, contacted, heard>>

\* Mutant: the timeout ends with the response head.
AuthTimeout_HeadOnly(r) ==
  /\ pc[r] = "auth_wait"
  /\ AuthFailed(r)
  /\ UNCHANGED <<config, input, snap, path, head, up, contacted, heard>>

\* Mutant: a timed-out subrequest is not recorded.
AuthTimeout_Unrecorded(r) ==
  /\ pc[r] \in {"auth_wait", "auth_drain"}
  /\ \/ Directive(r).failure_mode = "closed" /\ DenyAuth(r, 503)
     \/ /\ Directive(r).failure_mode = "open" /\ Advance(r)
        /\ pc' = [pc EXCEPT ![r] = "directives"]
        /\ UNCHANGED <<hdr, reqid>> /\ NotEnded
  /\ UNCHANGED <<config, input, snap, path, head, up, auths, contacted, heard>>

\* The timeout covers the request and the draining of its body.
AuthTimeout(r) ==
  /\ pc[r] \in {"auth_wait", "auth_drain"}
  /\ AuthFailed(r)
  /\ UNCHANGED <<config, input, snap, path, head, up, contacted, heard>>

-----------------------------------------------------------------------------
(* reverse_proxy                                                           *)

\* The target URI is built; if it does not parse, proxy() returns an error
\* and hyper closes the connection.
ReverseProxyDirective(r) ==
  /\ AtOp(r, "reverse_proxy")
  /\ reqid' = [reqid EXCEPT ![r] = FinalId(r)]
  /\ IF UriOk(Directive(r), path[r])
       THEN /\ hdr' = [hdr EXCEPT ![r] = Outbound(@)]
            /\ up' = [up EXCEPT ![r] = [next |-> 1, ip |-> RemoteIp(hdr[r])]]
            /\ pc' = [pc EXCEPT ![r] = "header_up"]
            /\ NotEnded
       ELSE /\ Abandon(r, "aborted", FinalId(r))
            /\ UNCHANGED <<hdr, up>>
  /\ UNCHANGED <<config, input, snap, at, path, head, auths, contacted, heard>>

\* One entry of apply_header_up.
HeaderUp(r) ==
  /\ pc[r] = "header_up"
  /\ up[r].next <= Len(Directive(r).header_up)
  /\ LET d == Directive(r).header_up[up[r].next]
     IN  \E value \in UpstreamSubstitution(d.value, hdr[r], up[r].ip, input[r].ascii) :
           hdr' = [hdr EXCEPT ![r] = ApplyHeader(@, d, value)]
  /\ up' = [up EXCEPT ![r] = [next |-> up[r].next + 1, ip |-> up[r].ip]]
  /\ UNCHANGED <<config, pc, input, snap, at, path, head, reqid, auths, contacted, heard>>
  /\ NotEnded

\* client.request(send_req)
SendUpstream(r) ==
  /\ pc[r] = "header_up"
  /\ up[r].next > Len(Directive(r).header_up)
  /\ pc' = [pc EXCEPT ![r] = "backend_wait"]
  /\ contacted' = [contacted EXCEPT ![r] = TRUE]
  /\ UNCHANGED <<config, input, snap, at, path, hdr, head, up, reqid, auths, heard>>
  /\ NotEnded

\* external: the backend's response head; it is passed on.
BackendResponse(r, status) ==
  /\ pc[r] = "backend_wait"
  /\ Respond(r, status, reqid[r])
  /\ UNCHANGED <<config, input, snap, at, path, hdr, head, up, reqid, auths, contacted, heard>>

BackendError(r) ==
  /\ pc[r] = "backend_wait"
  /\ Respond(r, 502, reqid[r])
  /\ UNCHANGED <<config, input, snap, at, path, hdr, head, up, reqid, auths, contacted, heard>>

BackendTimeout(r) ==
  /\ pc[r] = "backend_wait"
  /\ Respond(r, 504, reqid[r])
  /\ UNCHANGED <<config, input, snap, at, path, hdr, head, up, reqid, auths, contacted, heard>>

-----------------------------------------------------------------------------
\* external: the client is gone and hyper drops the future where it waits.
ClientDisconnect(r) ==
  /\ pc[r] \in Waiting
  /\ Abandon(r, "cancelled", reqid[r])
  /\ UNCHANGED <<config, input, snap, at, path, hdr, head, up, reqid, auths, contacted, heard>>

\* What the request's own task does between two awaits.
TaskStep(r) ==
  \/ NoSiteFound(r) \/ EnterSite(r)
  \/ HeaderDirective(r) \/ UriReplaceDirective(r) \/ StripPrefixDirective(r)
  \/ HandlePathDirective(r) \/ MethodDirective(r)
  \/ RedirectDirective(r) \/ RespondDirective(r) \/ NoActionDirective(r)
  \/ ForwardAuthDirective(r) \/ ReverseProxyDirective(r)
  \/ HeaderUp(r) \/ SendUpstream(r) \/ SubstitutionLoops(r)

\* The runtime's timers.
Timer(r) == AuthTimeout(r) \/ BackendTimeout(r)

\* What clients, auth services and backends do, or fail to do.
Environment(r) ==
  \/ \E i \in Inputs : Receive(r, i)
  \/ \E a \in AuthAnswers : AuthHead(r, a)
  \/ AuthBodyDone(r) \/ AuthBodyBroken(r) \/ AuthError(r)
  \/ \E s \in BackendStatuses : BackendResponse(r, s)
  \/ BackendError(r) \/ ClientDisconnect(r)

Next ==
  \/ \E c \in Configs : UpdateConfig(c)
  \/ \E r \in Requests : TaskStep(r) \/ Timer(r) \/ Environment(r)

Spec == Init /\ [][Next]_vars

\* tokio polls every ready task and fires every timer; nothing outside the
\* proxy is assumed to answer.
Fairness == \A r \in Requests : WF_vars(TaskStep(r)) /\ WF_vars(Timer(r))

FairSpec == Spec /\ Fairness

-----------------------------------------------------------------------------
(* Properties                                                              *)

Walking == {"directives", "auth_wait", "auth_drain", "header_up", "backend_wait"}

Cursors == (Blocks \X Nat) \cup {NoCursor}
HeaderMaps == [HeaderNames -> Origins]
Heads == [status : 0 .. 999, ident : [HeaderNames -> FromAuth \cup {"absent"}]]
Upstreams == [next : Nat, ip : {"copy", "proxy"}]
LogLines == [status : 0 .. 999, id : Origins]
Logs == Seq(LogLines)
Counts == Seq(0 .. 999)
AuthResults == {"allowed", "denied", "error"}
AuthCounts == Seq(AuthResults)
Answered == SUBSET ((Blocks \X Nat) \X (0 .. 999) \X {"head", "body"})

\* Every variable keeps its type.
TypeOK ==
  /\ config \in Configs
  /\ pc \in [Requests -> PCs]
  /\ input \in [Requests -> Inputs \cup {None}]
  /\ snap \in [Requests -> Configs \cup {None}]
  /\ at \in [Requests -> Cursors]
  /\ DOMAIN path = Requests
  /\ hdr \in [Requests -> HeaderMaps]
  /\ head \in [Requests -> Heads]
  /\ up \in [Requests -> Upstreams]
  /\ reqid \in [Requests -> Origins]
  /\ resp \in [Requests -> LogLines]
  /\ log \in [Requests -> Logs]
  /\ counted \in [Requests -> Counts]
  /\ auths \in [Requests -> AuthCounts]
  /\ gauge \in Int
  /\ contacted \in [Requests -> BOOLEAN]
  /\ heard \in [Requests -> Answered]

\* Where a request's task is fits where its cursor is: part of every inductive
\* argument below.
CursorOK(r) ==
  /\ pc[r] = "idle" => heard[r] = {}
  /\ pc[r] = "routing" => heard[r] = {}
  /\ pc[r] # "idle" => input[r] \in Inputs /\ snap[r] \in Configs
  /\ pc[r] \in Walking => at[r][1] \in Blocks /\ at[r][2] \in Nat \ {0}
  /\ pc[r] \in {"auth_wait", "auth_drain"} => ~AtEnd(r) /\ Directive(r).op = "forward_auth"
  /\ pc[r] \in {"header_up", "backend_wait"} => ~AtEnd(r) /\ Directive(r).op = "reverse_proxy"
  /\ pc[r] = "header_up" => up[r].next \in Nat \ {0}
  /\ contacted[r] => pc[r] \in Final \cup {"backend_wait"}

\* The auth service of guard g let request r through: a complete 2xx.
Granted(r, g) == \E s \in 200 .. 299 : <<g, s, "body">> \in heard[r]

\* The auth service of guard g turned request r down: a complete 4xx.
Refused(r, g) == \E s \in 400 .. 499 : <<g, s, "body">> \in heard[r]

Authorized(r, g) ==
  Granted(r, g) \/ (GuardCfg(g).failure_mode = "open" /\ ~Refused(r, g))

\* handler.rs: "all must allow the request before a terminal directive is
\* reached".  Whatever block the request ended up in, whatever was reloaded
\* and however the auth services answered or failed, a request that reached a
\* backend was granted by every forward_auth on its way, or, where that one
\* fails open, at least not refused by a complete answer.
AuthorizedBeforeBackend ==
  \A r \in Requests : contacted[r] =>
    \A g \in GuardsPassed(r) : Authorized(r, g)

\* forward_auth.rs: "spoofed values can never reach the backend".  No identity
\* header of any forward_auth on the way is what the client sent under that
\* name, also after an open failure, after later directives and header_up.
NoSpoofedIdentity ==
  \A r \in Requests : contacted[r] =>
    \A g \in GuardsPassed(r) : \A n \in GuardCfg(g).response_headers :
      hdr[r][n] \notin FromClient

\* What makes AuthorizedBeforeBackend inductive: it holds all along the way,
\* and a complete answer is only ever about a guard already passed, so the
\* next guard starts with a clean slate.
AuthorizedSoFar(r) ==
  /\ pc[r] \in Walking \/ contacted[r] => \A g \in GuardsPassed(r) : Authorized(r, g)
  /\ pc[r] \in Walking => \A e \in heard[r] : e[3] = "body" => e[1] \in GuardsPassed(r)

\* What makes NoSpoofedIdentity inductive: it holds all along the way, also for
\* the guard being asked.
CleanSoFar(r) ==
  /\ pc[r] \in Walking \/ contacted[r] =>
       \A g \in GuardsPassed(r) : \A n \in GuardCfg(g).response_headers :
         hdr[r][n] \notin FromClient
  /\ pc[r] \in {"auth_wait", "auth_drain"} =>
       \A n \in Directive(r).response_headers : hdr[r][n] \notin FromClient

OwnOK(r) == CursorOK(r) /\ AuthorizedSoFar(r) /\ CleanSoFar(r)

\* The inductive invariant behind the two properties above: at every point of
\* process_directives the cursor fits the task, every forward_auth behind the
\* request has authorized it, and its identity headers are clean.
OnTrack == \A r \in Requests : OwnOK(r)

\* The subrequest tells the auth service only what the configuration lets the
\* client say.  Text of the request arrives under a whitelisted name, as the
\* request ID, or as X-Forwarded-Host and X-Original-URI/-Method, which
\* describe the request; never as Host, X-Forwarded-For or X-Forwarded-Proto,
\* also when the configuration whitelists them.  And what the client sent
\* under the name of an identity header, of this or an earlier forward_auth,
\* does not arrive under that name.
SubrequestIsFiltered ==
  \A r \in Requests : pc[r] \in {"auth_wait", "auth_drain"} =>
    \A n \in HeaderNames :
      LET told == AuthSubrequest(hdr[r], Directive(r), input[r].ascii)[n]
      IN  /\ told \in FromClient \cup {"copy", "copy8"} =>
               /\ n \in Directive(r).request_headers \cup
                        {"x-request-id", "x-forwarded-host", "x-original-uri", "x-original-method"}
               /\ n \notin {"host", "x-forwarded-for", "x-forwarded-proto"}
          /\ told \in FromClient =>
               \A g \in GuardsPassed(r) \cup {at[r]} : n \notin GuardCfg(g).response_headers

\* An identity the backend may trust comes from a complete 2xx of a
\* forward_auth that is configured to hand it on: never from a broken 2xx, a
\* refusal, or a guard of another block.
IdentityHasGrant ==
  \A r \in Requests : contacted[r] => \A n \in HeaderNames :
    hdr[r][n] \in FromAuth =>
      \E g \in GuardsPassed(r) : n \in GuardCfg(g).response_headers /\ Granted(r, g)

\* The guards account for every request once.  The gauge counts exactly the
\* requests in flight; an ended request has one access-log line, with the
\* status its client got, or 500 when the future died without a response,
\* and only a response is counted in http_requests_total.
ExactAccounting ==
  /\ gauge = Cardinality({r \in Requests : pc[r] \notin Final \cup {"idle"}})
  /\ \A r \in Requests :
       /\ pc[r] = "responded" => /\ log[r] = <<resp[r]>>
                                 /\ counted[r] = <<resp[r].status>>
       /\ pc[r] \in {"aborted", "cancelled"} => /\ Len(log[r]) = 1
                                                /\ log[r][1].status = 500
                                                /\ counted[r] = << >>
       /\ pc[r] \notin Final => log[r] = << >> /\ counted[r] = << >>

\* auth_requests_total has one entry per subrequest that was resolved, and a
\* request with a "denied" entry never reaches a backend.
AuthMetricsMatch ==
  \A r \in Requests :
    /\ pc[r] \in Walking => Len(auths[r]) = Cardinality(GuardsPassed(r))
    /\ contacted[r] => \A k \in 1 .. Len(auths[r]) : auths[r][k] # "denied"

\* access_log.rs: the ID a directive wrote replaces the initial one.  The ID
\* in the response is the one the log line has, and the one the backend got
\* unless the configuration removed the header, header_up rewrote it, or a
\* directive or an auth service wrote one that to_str cannot read: then the
\* backend alone gets that one.  An unreadable ID of the client's never
\* travels on.
OneRequestId ==
  \A r \in Requests : contacted[r] =>
    \/ hdr[r]["x-request-id"] \in {"absent", reqid[r]} \cup (Unreadable \ {"client8"})
    \/ \E k \in 1 .. Len(Directive(r).header_up) :
         Directive(r).header_up[k].name = "x-request-id"

\* Hot reload never mixes configurations in one request: the block being run
\* belongs to the snapshot the request started with.
OneConfigPerRequest ==
  \A r \in Requests : pc[r] \in Walking => Owner[at[r][1]] = snap[r]

\* Every request ends, although neither auth services nor backends have to
\* answer: the timeouts cover every wait.  The condition is on the whole
\* behaviour: a substitution that loops never leaves its worker thread, so it
\* keeps its own request and may keep the tasks queued behind it.
EveryRequestEnds ==
  [](\A r \in Requests : pc[r] # "looping") =>
    \A r \in Requests : pc[r] # "idle" ~> pc[r] \in Final

\* models.rs: "Explicit 401/403 decisions are never bypassed by Open".
ExplicitDenialNeverBypassed ==
  \A r \in Requests : contacted[r] =>
    ~ \E g \in GuardsPassed(r), s \in {401, 403} : <<g, s, "head">> \in heard[r]
=============================================================================
