# tiny-proxy in TLA+

A model of tiny-proxy (`src/src/`, Rust, tokio and hyper): its request pipeline,
its listeners, its configuration parser, its management API and the life of its
process, with TLC runs and TLAPS proofs.
`PROJECT.json` maps every definition to the source lines it stands for.

## The system

| Component | State it keeps | Operations | Hard parts |
|---|---|---|---|
| Request handler (`proxy/handler.rs`) | per request: snapshot, header map, rewritten path, request ID, log and metrics guards | `proxy`, `process_directives`, `find_site`, `match_pattern` | awaits in the middle of a directive list; hot reload; clients that disconnect; `?` after the guards exist |
| forward_auth (`proxy/forward_auth.rs`) | the subrequest in flight | scrub, build, send, drain, classify, apply identity | one timeout for head and body; failure modes; spoofed identity headers |
| Directive handlers (`proxy/directives.rs`, `auth/headers.rs`) | none | set and remove headers, substitute placeholders, rewrite paths | order of directives; text that is scanned again |
| Request ID, access log, metrics (`proxy/access_log.rs`, `metrics/recorder.rs`) | drop guards; counters and a gauge | ensure and re-read the ID, finish, drop | cancellation: only `Drop` runs |
| Proxy and listeners (`proxy/proxy.rs`, `proxy/tls.rs`, `config/address.rs`) | ArcSwap of the configuration, a semaphore, listener and connection tasks | `start`, `start_all`, accept loops, handshakes, redirect listener, `update_config` | one semaphore over many tasks; bind races; half-finished startup |
| Process (`main.rs`) | two server tasks, a broadcast channel, JoinHandles | `run_proxy_only`, `run_with_api` | which branch of `select!` wins; waiting with timeouts |
| Configuration parser (`config/parser.rs`) | two stacks (directive lists, open blocks), current site; maps of sockets | `from_str`, `parse_duration`, `build_forward_auth`, `validate_listen_sockets` | unbalanced and misplaced blocks, state left over from one site to the next, overflow, the order of a HashMap |
| Management API (`api/`) | shares the ArcSwap | GET and POST `/config`, `/health` | POSTs, GETs and requests at once; clients that go away; installs configurations the parser would refuse |
| Metrics server, CLI, errors, token validator, API middleware | none of their own | I/O, declarations, functions nobody calls | - |

The listeners spawn one task per connection. For every request on it a closure
loads the configuration from the ArcSwap and calls `proxy()`, which finds the
site, walks its directives, may await auth services and a backend, and returns
a response to hyper. `POST /config` and `update_config` swap the configuration at
any time. `main` runs the proxy and the API server as two tasks and stops both
through a broadcast channel.

What makes each part correct:

- pipeline: no backend is reached without authorization, no identity is spoofed,
  one configuration per request, one log line and one count per request, one
  request ID, every request ends unless a substitution loops;
- listeners: at most `max_concurrency` connections in total, refusal only at the
  limit, no permit lost, nobody kept waiting; a listener of the right scheme for
  every site, and a startup that does not return before its listeners;
- site lookup, certificates and redirects: the host, port and scheme asked for,
  the certificate of the site that answers, redirects that arrive;
- parser: the sites the text spells, or an error; sockets that can be served;
- substitution: it ends, with what the template says;
- management API: a confirmed configuration is in force from then on;
- process: when one server ends or a signal arrives everything ends, both
  servers are waited for, and a failure does not end in success.

## Modules

| Module | Models |
|---|---|
| `Addresses` | `resolve_listen_addr`, `tls_redirect_port` |
| `PathRewrite` | `match_pattern`, `strip_prefix`, `uri_replace` on paths as sequences of characters, since the code compares raw prefixes; `str::replace` |
| `SiteLookup` | `find_site`. Extends `Addresses` |
| `RequestPipeline` | the request: `proxy()`, `process_directives()`, forward_auth, header handling, the guards. Extends `PathRewrite` and `SiteLookup` |
| `Listeners` | startup, accept loops, permits, connections, redirect listeners, reload. Extends `Addresses` |
| `Admission` | the abstract policy `Listeners` implements |
| `System` | `Listeners` composed with the management API and, as an instance, with `SiteLookup` |
| `TlsRouting` | the certificate for a server name and the Location of a redirect. Extends `SiteLookup` |
| `ConfigParser` | `Config::from_str` and `validate_listen_sockets`. Extends `Addresses` |
| `Substitution` | the placeholder loops of `auth/headers.rs`. Extends `PathRewrite` |
| `Shutdown` | `main.rs` |
| `Routing` | one question at a time to `find_site` and to a redirect that is followed. Extends `TlsRouting` |
| `MCRequestPipeline`, `MCListeners`, `MCSystem`, `MCRouting`, `MCConfigParser`, `MCSubstitution` | small instances for TLC |
| `Text_proofs` | what `FlattenSeq` and `StrReplace` compute, for texts of any length |
| `RequestPipeline_proofs`, `Listeners_proofs`, `System_proofs`, `Shutdown_proofs`, `ConfigParser_proofs`, `Routing_proofs`, `Substitution_proofs` | the proofs; those about the parser and the substitution extend `Text_proofs` |

### RequestPipeline

An action is what a request's task does between two awaits, or one directive of
a list: nothing else touches the request's own state, so the finer grain only
adds interleavings with reloads and other requests. `pc` says where the future
is; `at` is a cursor (block, index) because nested blocks are tail calls and need
no stack; `snap` is the `Arc<Config>`; `hdr`, `path`, `reqid` are the locals of the
same names. `log`, `counted`, `auths` and `gauge` are what the guards and
recorders wrote. `contacted` and `heard` are history: whether the backend was
contacted, and which auth responses arrived, as heads or complete.

A header value is abstracted to where it came from (the client under that name,
other text of the request, configuration, generated, auth service, proxy) and to
whether `to_str` reads it: `HeaderValue` takes bytes of 0x80 and more, `to_str` does
not, so that a client, a template or an auth service can put such a value under
any name. That is all that decides the control flow and all the properties speak
of. `X-Forwarded-Host` is the client's `Host` (`Moved`), in the subrequest and in the
request to the backend, and `X-Original-URI` and `-Method` are text of the request too.

`HeaderSubstitution` is what may come out of the placeholder loops. They scan text
they have inserted again, so a copied value may make the substitution fail, may
bring in other text, or may lead back to the placeholder it came from; then the
loop never ends, and `SubstitutionLoops` takes the request to `"looping"` for good.
There is no await in the loop: no timer fires and no disconnect is noticed, and the
worker thread is gone with it. An environment variable that names itself
(`"env_cycle"`) always does this.

Abstracted are the bodies and the query string, which nothing in the pipeline
branches on, and the backend's response headers, to which the code adds its own
`X-Request-ID` without removing one that is there. `UriOk` is what the `http` crate in
`Cargo.lock` (1.3.1) accepts as a path: it rejects certain characters and takes a
path without a leading slash.

Timeouts are actions that may happen at any point of a wait. Cancellation
(`ClientDisconnect`) can only happen at an await, where hyper drops the future.

Configurations are constants. The assumptions on them say that directives are
well formed, that a block belongs to one configuration and is nested in one
place, and which forward_auth positions lie before each block (`GuardsAbove`);
they are what a tree of directives gives by construction, and TLC evaluates them
in every run.

### Listeners and Admission

`state` and `owner` follow every listener task from spawn over bind to its end,
`permits` is the semaphore, `conn` the connections. `Accept` and `Reject` stand
for `try_acquire_owned` succeeding and failing in both accept loops. `todo` and
`redirects` are what the two spawn loops of `start_all` still have to do, `handles` the
JoinHandles it has collected; its last loop awaits them one at a time
(`AwaitHandle`), and it returns when none is left (`StartAllReturns`). Listeners that
are already spawned live on when it returns an error. A reload is a number;
a request records the number it loaded. `Admission` knows only open doors, those
asking and those inside; the refinement mapping takes the bound listeners of
sites as doors and the permit holders as inside. `Clash` is Linux's rule about
sockets on one port, modelled from outside the repository: `0.0.0.0` excludes every
IPv4 address, `[::1]` stands beside it, and port 0 is always free. A missing port
(`NoPort`) is not port 0: the code refuses the one and binds the other.

### System

`System` adds the API connections to the listeners and routes every proxy request
with `find_site` under the snapshot it loaded. Configurations are numbers in the
order they are stored. The one `start_all` was called with has its sites; those of
later ones are left open, because a reload opens and closes no listener. A POST
first waits for its body (`"sent"`), during which anything may happen and its
client may go away, then parses and stores it in one step without an await, and
then answers; `confirmed` is history, the newest configuration some caller knows
to be installed. `floor` is what `confirmed` was when a GET was sent.

### TlsRouting and Routing

`TlsRouting` has operators only: `ResolveCert` is `SniCertResolver::resolve` over the entries
`build_tls_acceptor` makes of a socket's sites, both of whose callers pass no
default name, and `RedirectLocation` what `listen_http_redirect` writes.
`Routing` asks them and `FindSite` one question per behaviour. The sites a TLS
listener has certificates for are those that resolve to its socket (`SitesOf`), so
`127.0.0.1:443` and `example.com:443` are two groups. Its assumptions say which
questions the program can be asked: sites stored once, under their own addresses,
and for a redirect the sites `validate_listen_sockets` has let through.

### ConfigParser

One action per kind of line, in the order of the code's tests: blank, opening
brace (site or block), closing brace (block, site, nothing), setting of a
`forward_auth` or `reverse_proxy` block, `tls`, directive. A line is a shape, a
word and further words; what the standard library and the `http` crate make of a
word (addresses, URIs, header names, numbers, durations) are constant functions.
`?` ends the parse: `result` becomes `"err"`. `text` is history, for the properties.
`validate_listen_sockets` then visits the sites in any order. `U64` is 2^64 scaled
down: a release build wraps around in `parse_duration`, a debug build panics
(`OverflowPanics`).

The reference in the second half of the module reads the same text without
stacks: the depth of a line is the number of braces open before it, a block's
body are the lines one deeper up to the brace that closes it, and `Written` is the
directive such a block spells.

### Substitution

A string is a sequence of atoms (braces, the keywords `header.` and `env.`, names,
other text), so that a placeholder can come out of a value, or come together from
a brace that was there and a keyword that a removal moves beside it. A turn of a
loop is an action, and so is each of the `replace` calls after the loops.

### Shutdown

`server` is a server's result, `taken` says that its JoinHandle has given that result
to the `select!`; polling it again is tokio's panic (`AwaitAgain`). `main` ends in
`"ok"`, `"err"` or `"panicked"`. When it returns or panics the runtime ends and every
task with it (`DropTasks`). Listeners and connections are tasks of their own that
nobody here waits for, and have no state in this module.

## Runs

| Run | Checks | Bounds and why they are enough |
|---|---|---|
| `pipeline_routes` | `TypeOK`, `AuthorizedBeforeBackend`, `NoSpoofedIdentity`, `OnTrack`, `SubrequestIsFiltered`, `IdentityHasGrant`, `AuthMetricsMatch`, `OneRequestId`, `OneConfigPerRequest` | one request, 48 inputs with readable and unreadable headers and paths, two configurations in which every directive occurs, chained guards with both failure modes, guards above nested blocks, auth answers of every class. These properties are about one request at a time; a second one only interleaves |
| `pipeline_concurrent` | `ExactAccounting`, `EveryRequestEnds` | two requests share the gauge and the configuration; fewer inputs; substitutions that may loop are among the directives |
| `admission` | `TypeOK`, `PermitsConserved`, `StartAllOutlivesListeners`, `NobodyWaitsAtTheDoor`, `ListenersImplementAdmission` | three connections for two permits, listeners of all three kinds or one TLS listener (`--addr`), one reload |
| `system` | `EverySiteHasListener`, `GetReadsBack`, `RoutedToOwnScheme`, `ReloadIsInForce` | `start_all`, in every order of its HashMap, on two configurations with the same names in both schemes and on five that serve nobody (TLS sockets in use with their redirects on one port; a mixed socket, a bad certificate, no port, no site); `--addr` on one socket that serves and, for three sets of sites, on two that are in use; one connection that is reused, two symmetric API connections, two reloads (`MaxReloads`): enough for a POST to overtake another and for a connection to outlive both |
| `shutdown` | `SignalWaitsForBoth`, `FailureIsNotSuccess`, `OneDownAllDown` | with and without API; no bound is needed |
| `routing` | `AnswersForHost`, `SchemeIsKept`, `RedirectReachesSite`, `CertificateOfSite` | all subsets of eight addresses, twelve hosts, both schemes; redirects to four TLS sockets, two of them on one port, over all subsets of ten addresses, with and without server name |
| `parser` | `TypeOK`, `StacksMatch`, `ParsesAsWritten`, `ValidationDecides` | all files of up to six lines (`MaxLines`) in each of eight vocabularies of up to nine lines: two sites, or a site with blocks nested three deep, closed or not; every directive and setting, right and wrong; durations below and above `U64` = 100000 |
| `substitution` | `SubstitutesAsWritten`, `Terminates` | templates of up to three pieces, values with placeholders, halves of placeholders and braces, both callers |

Four runs show where the code and what is written about it disagree:

| Run | Written | What happens |
|---|---|---|
| `auth_denial_bypassed` | an explicit 401/403 is never bypassed by `failure_mode open` | a 401 whose body stalls past the deadline is a timeout, and the request goes on |
| `redirect_race` | a listener for each address; redirects are best-effort | the redirect may take a site's port first; with TLS sites on 8443 and 8080 that port is a TLS site's |
| `double_join` | wait for both servers to finish | the finished JoinHandle is polled again and `main` panics |
| `reverse_proxy_block` | a `reverse_proxy` block allows three settings only | a block nested in it is accepted and dropped |

Three more disagreements are plain from one line and have no run: the comment of
`find_site` (`handler.rs:641-643`) says that a Host without a port gets 404 on a
TLS listener on `:8443`, while step 3 of the function, and its test, find the site
by name; `handler.rs:39` says that hop-by-hop headers should not be proxied, while
of a request's only `Connection` is removed (453-455); and `proxy.rs:574-575` says
that in-flight connections keep their snapshot, while every request loads a new
one (471), as the repository's README says.

Where a property has a condition, the code does something else outside it:

- `SubstitutesAsWritten`: a value with a brace in it is scanned again, so a placeholder a
  client sends in a header, or in the path before `{remote_ip}`, is replaced as well
  (`NoStrayBraces` excludes it);
- `EveryRequestEnds`: of behaviours in which no substitution loops; a request whose
  substitution does never ends, and its worker thread may keep others waiting. The
  repository's README (517) has a configuration, `header X-Forwarded-For
  {header.X-Forwarded-For}`, in which a header of the client's can lead back to its own
  placeholder;
- `OneRequestId`: an ID with bytes of 0x80 or more, written by a directive or taken
  from an auth response, is sent to the backend, while log and response fall back to
  the initial one;
- `NoSpoofedIdentity`: a client's value that the configuration copies to another name
  before the forward_auth and back after it is text of the configuration's making;
- `Terminates`: a header or variable whose value leads back to its own placeholder
  keeps the loop running for ever (`RankAssumption` excludes it);
- `SchemeIsKept`: `find_site` guesses 443 for TLS and 80 without; a plain site on
  443 or a TLS site on 80 is found by that guess from the other scheme
  (`UsualPorts` excludes them);
- `RedirectReachesSite`: the Location of an IPv6 host has lost its brackets, and a
  site whose address has capitals is not found under a Host with a port, which
  `find_site` compares exactly, while its certificate is;
- `RoutedToOwnScheme`: a Host that names another listener's port is answered by
  that listener's site, and so are sites of both kinds on one port with
  different IP addresses;
- `ParsesAsWritten`: directives and `tls` lines outside of every site end up in
  the next site, a stray closing brace is ignored, and blocks in `reverse_proxy`
  are lost (`reverse_proxy_block`);
- `ValidationDecides` is about text: a JSON configuration is not validated, and
  `start_all` is not called again for it.

`AuthorizedBeforeBackend` is the part of the promise that does hold: a *complete*
refusal is never bypassed, and failing closed needs a complete 2xx.

Deadlock is checked in the pipeline runs, where a reload is always possible; the
listeners and the process may really stop, a file is read once, a call of a
function returns.

## Fairness

- `RequestPipeline`: weak fairness of a request's own steps and of its timers.
  tokio polls every task that is ready and fires timers; the code has a timer
  around every wait. Auth services, backends and clients have no fairness. The
  placeholder substitution is one step here, or one that never ends, which fairness
  does not exclude: `EveryRequestEnds` has it as a condition. `Substitution` shows
  when it ends.
- `Substitution`: weak fairness of the next step of a synchronous function.
- `Listeners`: weak fairness of accepting per connection: accept loops never
  block between two accepts, and the kernel hands out connections in order.
- `Shutdown`: weak fairness of `main` and of a server that has received its
  message. No server has to end by itself, and no signal has to come.

## Proofs

TLAPS checks the following for every value of the constants that satisfies the
named assumptions: any number of requests, connections, sites, API calls and
reloads, any configuration, files, texts and templates of any length. Every
invariant and every action property of a passing run is stated by a theorem.

| Module | Theorem | States |
|---|---|---|
| `RequestPipeline_proofs` | `TypeCorrect`, `OnTrackAlways` | `TypeOK`, `OnTrack` |
| | `AuthorizationSafe`, `IdentitySafe`, `SubrequestSafe` | `AuthorizedBeforeBackend`, `NoSpoofedIdentity`, `SubrequestIsFiltered` |
| | `SnapshotSafe`, `GrantSafe` | `OneConfigPerRequest`, `IdentityHasGrant` |
| | `AuthMetricsSafe`, `RequestIdSafe`, `AccountingSafe` | `AuthMetricsMatch`, `OneRequestId`, `ExactAccounting` |
| `Listeners_proofs` | `ListenersTyped`, `PermitsSafe`, `StartAllSafe`, `SitesServed` | `TypeOK`, `PermitsConserved`, `StartAllOutlivesListeners`, `EverySiteHasListener` |
| | `ListenersAdmit` | `Spec => Door!ASafety`, the safety part of the refinement of `Admission` |
| `System_proofs` | `SysRefinesListeners` | `SysSpec => Spec` of `Listeners` |
| | `GetSafe`, `ReloadSafe`, `RoutingSafe` | `GetReadsBack`, `ReloadIsInForce`, `RoutedToOwnScheme` |
| `Shutdown_proofs` | `SignalSafe`, `FailureSafe` | `SignalWaitsForBoth`, `FailureIsNotSuccess` |
| `ConfigParser_proofs` | `ParserTyped`, `StacksSafe`, `ValidationSafe` | `TypeOK`, `StacksMatch`, `ValidationDecides` |
| | `ParsesSafe` | `ParsesAsWritten` |
| `Routing_proofs` | `LookupSafe`, `SchemeSafe`, `RedirectSafe`, `CertificateSafe` | `AnswersForHost`, `SchemeIsKept`, `RedirectReachesSite`, `CertificateOfSite` |
| `Substitution_proofs` | `SubstitutionSafe` | `SubstitutesAsWritten` |

### The pipeline

`AuthorizedBeforeBackend` and `NoSpoofedIdentity` are not inductive: they speak of
requests that have reached their backend, and what makes them true happens long
before. The inductive invariant is `TypeOK /\ OnTrack`, where `OnTrack` says of
every request

- `CursorOK`: the cursor fits the task (a waiting subrequest stands on its
  forward_auth, an outgoing request on its reverse_proxy; nothing was heard
  before routing);
- `AuthorizedSoFar`: all guards behind the cursor have authorized the request, and
  complete answers are only about those guards, so that the next guard starts
  with a clean slate when it fails open;
- `CleanSoFar`: the identity headers of the guards behind the cursor, and of the
  one being asked, do not hold what the client sent.

The proof goes in three layers. The first proves that every step keeps the types,
given `CursorOK`. In the second, `Frame` and `OtherRequests` show that a step of one
request leaves the others alone, and the `Own...` lemmas for each group of actions
that a request keeps its own part, from two lemmas on how the set of guards passed
grows (`Passed...`) and from the fact that a header step is harmless: it leaves a
header or replaces it by something the client did not send under that name
(`Harmless`). A request whose substitution loops has left the way and is in none of
the claims but those on types and records.

The third layer adds to that invariant what a request's records say while it
is on its way (`RecordOK`), each clause for one theorem:

- `OwnerOK`: the block under the cursor belongs to the snapshot (`SnapshotSafe`);
- `GrantOK`: an identity in the header map comes from a guard passed that was heard
  to answer a complete 2xx (`GrantSafe`);
- `MetricsOK`: there is one counter entry for each guard passed, and none of a request
  that goes on is a denial (`AuthMetricsSafe`);
- `IdOK`: until it is read for the last time the ID in the header map is not an
  unreadable one of the client's; after that it is the request's own, removed, one
  that a directive or an auth service made unreadable, or renamed by a `header_up`
  (`RequestIdSafe`);
- `LogOK` and, over all requests, `GaugeOK`: no log line and no count before the end,
  and the gauge is the number of requests between `proxy()` and their end
  (`AccountingSafe`).

`StepKinds` sorts the many actions into six kinds by what they do to the records
(arriving, entering a site, going further without passing a guard, passing one,
being lost in a substitution, finishing), so that each clause has six cases.
The assumptions used are those on inputs, programs, answers, owners and guards in
`RequestPipeline`.

### Listeners, Admission and System

The inductive invariant of `Listeners` has `TypeOK`, `PermitsConserved` and four clauses
more. `ConnsPlaced` says that a connection belongs to a listener that was spawned, of
a kind that fits its phase: without it a finished connection could return a permit
nobody took. `ListenersAsGrouped` says what `start_all` has spawned so far: one
listener per socket, of the one kind its sites have, none for the sockets still to
come. `SocketsCovered` says the converse, that the socket of a site is still to come or
has its listener, and a TLS one its redirect, spawned or still to be; at the end of
the loops the two give `EverySiteHasListener`. `HandlesKept` says that every task not
over is one whose handle `start_all` holds, through both spawn loops and the awaits,
in whatever order tasks end; hence `StartAllSafe`. `StartsAssumption` says that a site
has what an address parses to.

`ListenersAdmit` follows the refinement mapping of the run `admission`: the bound
listeners of sites are the open doors, permit holders are inside. Each action is
shown to be a step of `Admission` or to leave doors, queues and permits alone; that
a client is refused only when the house is full is `PermitsConserved`.

`SysRefinesListeners` shows every step of `System` to be one of `Listeners` or a
stutter: a POST is a reload there. `GetSafe` and the action property `ReloadSafe`
rest on `ApiInv`: a confirmed configuration was installed, the configuration only
gets newer, and a call carries none that is newer than it. `RoutingSafe` combines
`ListenersAsGrouped` with what `find_site` can return (`RoutedInv`); it uses
`HostsAssumption`, that a Host parses to a name and a port.

### The process

`SignalInv` follows `main` from the `select!` through the two waits: as long as no
server's end has won the `select!`, neither JoinHandle has been used up. This is just
what fails on the other two branches (`double_join`), and `FailureInv` says so: there
`main` holds a handle it has used up and is going to poll again, so it cannot reach
its `Ok(())`, although the code only logs the error. `Shape` is what both need of the
variables' types.

### The parser

`StackInv` says that the stacks are sequences, that the lower list is always there,
that open blocks are blocks that were written, and `StacksMatch`. `ValidationInv` says
that the two maps hold what the sites visited so far put there, no more and no
less, and that those sites can be served together; since this speaks of the set of
sites visited, it holds for every order. `MaxLines` is any number here.

`ParsesAsWritten` compares two readings of a file that have little in common: the
parser keeps two stacks, the reference counts braces and looks ahead to the line that
closes a block. What links them is `o`, the lines of the text whose braces are
still open, outermost first (`Opened`). `Spelled(o)` says that the parser holds
what it has read, level by level:

- `sites` are the sites whose closing brace has been read (`SpelledSites`);
- `SiteSpelled`: the address and the `tls` setting are those of line `o[1]`;
- `ListsSpelled`: list number `k` of `directive_stack` holds the lines in the block of
  `o[k]` that are complete, in their order, without the `tls` line of a site and
  without settings (`Members`, `ListAt`);
- `BlocksSpelled`: entry `k - 1` of `block_stack` has the words of line `o[k]`, and in a block
  of settings the last value of each setting and all headers read so far
  (`BlockFits`).

The inductive invariant `ParseInv` says, together with `StackInv`, that there is such
an `o`. It is not about the parser alone: reading a line also changes what the
text means, since a closing brace ends the blocks that were open to the end of the
text. Most lemmas are therefore about a text `u` that is a text `t` and one line `ln`
more (`Longer`), without the parser: how the depth grows (`DepthNext`), which blocks are
open (`OpenedPlain` and the lemmas next to it), that a closed block is over
(`ClosedKept`) and spells what it spelt (`WrittenKept`), and that the new line is a
directive of the innermost open block or of none (`MemberNew`). `Written`
is a recursive function and `InOrder` picks lines by their rank; that such a function
exists, that a line which is complete keeps its meaning and that every rank is taken
by one line is proved with `Induct`. Then there is one lemma per action (`ParseBlank`, `ParseOpenSite`, ...).

`NoneAssumption` says that None is not a word and not a pair of words, and
`DurationAssumption` that a duration is a natural number and one of the five units.

### Lookups, redirects and certificates

The behaviours of `Routing` have one step, so the work is in the operators.
`FindSiteFacts` gives the four ways `find_site` can answer and that each gives at
most one site; `FollowedFinds` that a site is found again under what the redirect
made of its name: by the exact key, or, where the Location leaves 443 out, by the
default port, because no site is stored without a port. The sites of a listener are
those of its socket: their names differ there, and nothing is needed of other sockets
with the same port. `CertificateFacts` says
that the resolver shows one certificate, for which the names on a listener must
differ and the order of names must be total. `LookupsAssumption`,
`RedirectsAssumption` and `PositionAssumption` are what the parser and
`validate_listen_sockets` guarantee.

### Texts

`FlattenSeq` and `StrReplace` are recursive functions, and nothing about them follows
from one step. `Text_proofs` derives induction over the natural numbers, for a property
given as the set of numbers that have it (`Induct`, from the well-foundedness of `<` in
the library), and with it that the functions their recursions describe exist and are
unique (`FlattenIs`, `StrReplaceIs`). From there on the proofs use equations:
`FlattenConcat`, and `ReplacesBoth`, which says that two texts that are replaced
independently of what follows them can be put together.

### Substitution

`SubstInv` says that at every point of the call the text is the template with some of
its pieces replaced, and `Progress` which: some of the headers in the first loop, all
of them and some variables in the second, and after each pass all of its kind. For a
turn of a loop the invariant needs that `find` hits the first piece not replaced yet,
and that the next closing brace is that piece's own (`FirstLeft`). This is where a loop
over a changing text could go wrong: a placeholder might start in a value, or half in
one piece and half in the next. `Sealed` excludes both: after every opening brace of a
piece there is another atom of the same piece, and it is not the keyword. For the
passes `PassSubstitutes` uses that what `str::replace` finds lies in one piece. The condition
`NoStrayBraces` extends to the generated values too, since the path of a request is
inserted before `{remote_ip}` is looked for. `InputsAssumption` and `GeneratedAssumption` say
what templates and values are made of, and that a name holds no brace.

### Only model-checked

- `EveryRequestEnds`, `NobodyWaitsAtTheDoor`, `OneDownAllDown`, `Terminates` and the
  fairness part of `ListenersImplementAdmission`: liveness under fairness is out of
  the prover's reach;
- the four runs that show a disagreement: they are counterexamples.

## Not modelled

Reading certificate and key files (a flag per site); JSON (a body is accepted or
refused) and the sites of later configurations; how lines are cut into words; text
of responses, logs and redirect pages; histograms; the metrics server, the command
line, the error types; the token validator and the API middleware, which nothing
calls; `set_max_concurrency`, which needs exclusive access and is called before
start; the accept loop of the API server, which has no limit and no state.
`System` routes requests and does not run them through `RequestPipeline`: what the
pipeline does with a request depends on the listener only through the scheme and
the snapshot, which are inputs there, and the product of the two state spaces is
beyond TLC.

## Plan

1. *Done:* `PathRewrite`, `SiteLookup`, `RequestPipeline`, `Listeners` with
   `Admission`, `Shutdown`, and the first three theorems.
2. *Done:* `ConfigParser`, `Substitution`, `System` with the management API,
   `TlsRouting` and reference definitions for the pure functions.
3. *Done:* proofs of the safety properties that need no induction over data, of the
   safety part of the refinement of `Admission`, and that `System` implements `Listeners`.
4. *Done:* induction over texts, and with it the proofs about the substitution of
   placeholders.
5. *Done:* the parser against the text it reads (`ParsesSafe`).
6. *Done:* header values that cannot be read and substitutions that loop in the pipeline,
   the handles of `start_all`, groups by socket, and the results of the servers. What is
   left to TLC is liveness.
