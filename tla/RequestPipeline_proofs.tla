----------------------- MODULE RequestPipeline_proofs -----------------------
(***************************************************************************)
(* The safety theorems of the request pipeline, for any set of requests,   *)
(* any configurations and any behaviour of clients, auth services and      *)
(* backends, in three layers.                                              *)
(*                                                                         *)
(* Types: each operator on header maps, each way a request can end and     *)
(* each outcome of a subrequest keeps the types, so every step does.       *)
(*                                                                         *)
(* Requests: the inductive invariant is TypeOK together with OwnOK of      *)
(* every request.  A step belongs to one request r: OtherRequests shows    *)
(* that it leaves alone everything OwnOK of another request reads, and     *)
(* the lemmas named after what a step does to r (Ends, StaysAt, GoesOn,    *)
(* PassesGuard) that OwnOK(r) is kept.                                     *)
(*                                                                         *)
(* Records: the configuration a request ran under, where its identity      *)
(* headers come from, its request ID, the auth counters, its log line, its *)
(* entry in http_requests_total and its share of the gauge.  StepKinds     *)
(* sorts the actions by what they do to these: a request arrives, enters   *)
(* its site, goes on with the same guards behind it, passes a guard, gets  *)
(* stuck in a substitution, or ends.  Each clause of the inductive         *)
(* invariant RInv is then shown for these six kinds of step, on top of     *)
(* IInv.                                                                   *)
(***************************************************************************)
EXTENDS RequestPipeline, FiniteSetTheorems, TLAPS

-----------------------------------------------------------------------------
(* Types.  That a task has its cursor on the directive it works on         *)
(* (CursorOK) is shown with the rest of the inductive invariant.           *)

\* ensure_request_id returns a header map with a request ID in it.
LEMMA EnsureType ==
  ASSUME NEW h \in HeaderMaps
  PROVE  EnsureRequestId(h) \in HeaderMaps /\ EnsureRequestId(h)["x-request-id"] \in Origins
BY InputsAssumption DEF HeaderMaps, EnsureRequestId, SystemHeaders, Origins, Readable, Unreadable

\* final_request_id returns a value.
LEMMA FinalType ==
  ASSUME NEW h \in HeaderMaps, NEW f \in Origins
  PROVE  FinalRequestId(h, f) \in Origins
BY InputsAssumption DEF HeaderMaps, FinalRequestId, Origins

\* What a directive may write: text of the configuration or copied out, or,
\* as "absent", nothing.
Written == {"absent", "copy", "copy8", "config", "config8", "uuid2", "proxy"}

\* What a directive writes is a header value, neither as the client sent it
\* nor an identity.
LEMMA WrittenFacts ==
  Written \subseteq Origins /\ Written \cap FromClient = {} /\ Written \cap FromAuth = {}
BY DEF Written, Origins, Readable, Unreadable, FromClient, FromAuth

\* process_header_substitution never yields a header value as the client
\* sent it, only text built from the configuration or copied out.
LEMMA SubstType ==
  ASSUME NEW v, NEW h
  PROVE  HeaderSubstitution(v, h) \subseteq Written
BY DEF HeaderSubstitution, Text, Written

\* The same for process_upstream_substitution.
LEMMA UpSubstType ==
  ASSUME NEW v, NEW h, NEW ip \in {"copy", "proxy"}, NEW ascii
  PROVE  UpstreamSubstitution(v, h, ip, ascii) \subseteq Written
BY SubstType DEF UpstreamSubstitution, Text, Written

\* handle_header and apply_header_up keep the header map's type.
LEMMA ApplyType ==
  ASSUME NEW h \in HeaderMaps, NEW d, d.name \in HeaderNames, NEW v \in Origins
  PROVE  ApplyHeader(h, d, v) \in HeaderMaps
BY DEF HeaderMaps, ApplyHeader, Origins

\* The rewriting before header_up keeps the header map's type.
LEMMA OutboundType ==
  ASSUME NEW h \in HeaderMaps
  PROVE  Outbound(h) \in HeaderMaps
BY DEF HeaderMaps, Outbound, Moved, Origins, Readable, Unreadable

\* scrub_identity_headers keeps the header map's type.
LEMMA ScrubType ==
  ASSUME NEW h \in HeaderMaps, NEW cfg
  PROVE  ScrubIdentity(h, cfg) \in HeaderMaps
BY DEF HeaderMaps, ScrubIdentity, Origins

\* apply_identity_headers keeps the header map's type.
LEMMA IdentityType ==
  ASSUME NEW h \in HeaderMaps, NEW cfg, NEW ident \in [HeaderNames -> FromAuth \cup {"absent"}]
  PROVE  ApplyIdentity(h, cfg, ident) \in HeaderMaps
BY DEF HeaderMaps, ApplyIdentity, Origins, Readable, Unreadable, FromAuth

\* What a step does to the variables that end a request, typewise.
EndTyped ==
  /\ pc' \in [Requests -> PCs]
  /\ resp' \in [Requests -> LogLines]
  /\ log' \in [Requests -> Logs]
  /\ counted' \in [Requests -> Counts]
  /\ gauge' \in Int

\* Ending a request keeps the types of everything the guards write.
LEMMA RespondType ==
  ASSUME TypeOK, NEW r \in Requests, NEW s \in 0 .. 999, NEW id \in Origins,
         Respond(r, s, id)
  PROVE  EndTyped
<1>1. [status |-> s, id |-> id] \in LogLines
  BY DEF LogLines
<1>2. Append(log[r], [status |-> s, id |-> id]) \in Logs
  BY <1>1 DEF TypeOK, Logs
<1>3. Append(counted[r], s) \in Counts
  BY DEF TypeOK, Counts
<1>. QED
  BY <1>1, <1>2, <1>3 DEF TypeOK, Respond, PCs, Final, EndTyped

\* The same for a future dropped without a response.
LEMMA AbandonType ==
  ASSUME TypeOK, NEW r \in Requests, NEW how \in Final, NEW id \in Origins,
         Abandon(r, how, id)
  PROVE  EndTyped
<1>1. [status |-> 500, id |-> id] \in LogLines
  BY DEF LogLines
<1>2. Append(log[r], [status |-> 500, id |-> id]) \in Logs
  BY <1>1 DEF TypeOK, Logs
<1>. QED
  BY <1>1, <1>2 DEF TypeOK, Abandon, PCs, Final, EndTyped

\* A task at a directive has its cursor on it.
LEMMA AtOpFacts ==
  ASSUME NEW r \in Requests, CursorOK(r), NEW op, AtOp(r, op)
  PROVE  /\ at[r][1] \in Blocks /\ at[r][2] \in 1 .. Len(Program[at[r][1]])
         /\ Directive(r).op = op
<1>1. at[r][1] \in Blocks /\ at[r][2] \in Nat \ {0}
  BY DEF AtOp, CursorOK, Walking
<1>2. Len(Program[at[r][1]]) \in Nat
  BY <1>1, ProgramAssumption
<1>. QED
  BY <1>1, <1>2 DEF AtOp, AtEnd

\* The same for a task that waits for an auth service or sends upstream.
LEMMA WaitFacts ==
  ASSUME NEW r \in Requests, CursorOK(r),
         pc[r] \in {"auth_wait", "auth_drain", "header_up", "backend_wait"}
  PROVE  /\ at[r][1] \in Blocks /\ at[r][2] \in 1 .. Len(Program[at[r][1]])
         /\ pc[r] \in {"auth_wait", "auth_drain"} => Directive(r).op = "forward_auth"
         /\ pc[r] \in {"header_up", "backend_wait"} => Directive(r).op = "reverse_proxy"
<1>1. at[r][1] \in Blocks /\ at[r][2] \in Nat \ {0}
  BY DEF CursorOK, Walking
<1>2. Len(Program[at[r][1]]) \in Nat
  BY <1>1, ProgramAssumption
<1>. QED
  BY <1>1, <1>2 DEF CursorOK, AtEnd

\* The next directive of a block is a cursor.
LEMMA AdvanceType ==
  ASSUME TypeOK, NEW r \in Requests, at[r][1] \in Blocks, at[r][2] \in Nat, Advance(r)
  PROVE  at' \in [Requests -> Cursors]
BY DEF TypeOK, Advance, Cursors

\* The first directive of a block is a cursor.
LEMMA EnterType ==
  ASSUME TypeOK, NEW r \in Requests, NEW b \in Blocks, Enter(r, b)
  PROVE  at' \in [Requests -> Cursors]
BY DEF TypeOK, Enter, Cursors

\* The request ID read after the directives is a value.
LEMMA FinalIdType ==
  ASSUME TypeOK, NEW r \in Requests
  PROVE  FinalId(r) \in Origins
BY FinalType DEF TypeOK, FinalId

\* What any outcome of an auth subrequest leaves behind, typewise.
OutcomeTyped ==
  /\ EndTyped
  /\ at' \in [Requests -> Cursors]
  /\ hdr' \in [Requests -> HeaderMaps]
  /\ reqid' \in [Requests -> Origins]

\* Every status an answer can carry.
Statuses == 0 .. 999

\* A denied request ends well typed.
LEMMA DenyType ==
  ASSUME TypeOK, NEW r \in Requests, NEW s \in Statuses, DenyAuth(r, s)
  PROVE  OutcomeTyped
<1>1. FinalId(r) \in Origins
  BY FinalIdType
<1>2. Respond(r, s, FinalId(r))
  BY DEF DenyAuth
<1>3. EndTyped
  BY <1>1, <1>2, RespondType DEF Statuses
<1>4. reqid' \in [Requests -> Origins]
  BY <1>1 DEF DenyAuth, TypeOK
<1>5. at' \in [Requests -> Cursors] /\ hdr' \in [Requests -> HeaderMaps]
  BY DEF DenyAuth, TypeOK
<1>. QED
  BY <1>3, <1>4, <1>5 DEF OutcomeTyped

\* Going on to the next directive after an outcome.
LEMMA GoOnType ==
  ASSUME TypeOK, NEW r \in Requests, at[r][1] \in Blocks, at[r][2] \in Nat, Advance(r),
         pc' = [pc EXCEPT ![r] = "directives"], NotEnded, reqid' = reqid,
         hdr' \in [Requests -> HeaderMaps]
  PROVE  OutcomeTyped
<1>1. at' \in [Requests -> Cursors]
  BY AdvanceType
<1>2. EndTyped
  BY DEF TypeOK, NotEnded, EndTyped, PCs
<1>3. reqid' \in [Requests -> Origins]
  BY DEF TypeOK
<1>. QED
  BY <1>1, <1>2, <1>3 DEF OutcomeTyped

\* record_auth keeps the type of the counters.
LEMMA RecordType ==
  ASSUME TypeOK, NEW r \in Requests, NEW x \in AuthResults, RecordAuth(r, x)
  PROVE  auths' \in [Requests -> AuthCounts]
<1>1. Append(auths[r], x) \in AuthCounts
  BY DEF TypeOK, AuthCounts
<1>. QED
  BY <1>1 DEF TypeOK, RecordAuth

\* Every outcome of resolve_auth keeps the types of what it writes.
LEMMA AuthOutcomeType ==
  ASSUME TypeOK, NEW r \in Requests, CursorOK(r), pc[r] \in {"auth_wait", "auth_drain"},
         AuthAllowed(r) \/ AuthDenied(r) \/ AuthFailed(r)
  PROVE  OutcomeTyped /\ auths' \in [Requests -> AuthCounts]
<1>1. at[r][1] \in Blocks /\ at[r][2] \in Nat
  BY WaitFacts
<1>2. /\ hdr \in [Requests -> HeaderMaps] /\ head[r].status \in 0 .. 999
      /\ head[r].ident \in [HeaderNames -> FromAuth \cup {"absent"}]
  BY DEF TypeOK, Heads
<1>3. auths' \in [Requests -> AuthCounts]
  <2>1. \E x \in AuthResults : RecordAuth(r, x)
    BY DEF AuthAllowed, AuthDenied, AuthFailed, AuthResults
  <2>. QED
    BY <2>1, RecordType
<1>4. CASE AuthAllowed(r)
  <2>1. ApplyIdentity(hdr[r], Directive(r), head[r].ident) \in HeaderMaps
    BY <1>2, IdentityType
  <2>2. hdr' \in [Requests -> HeaderMaps]
    BY <1>2, <1>4, <2>1 DEF AuthAllowed
  <2>3. Advance(r) /\ pc' = [pc EXCEPT ![r] = "directives"] /\ NotEnded /\ reqid' = reqid
    BY <1>4 DEF AuthAllowed
  <2>. QED
    BY <1>1, <1>3, <2>2, <2>3, GoOnType
<1>5. CASE AuthDenied(r)
  <2>1. head[r].status \in Statuses
    BY <1>2 DEF Statuses
  <2>2. DenyAuth(r, head[r].status)
    BY <1>5 DEF AuthDenied
  <2>3. OutcomeTyped
    BY <2>1, <2>2, DenyType, Zenon
  <2>. QED
    BY <1>3, <2>3
<1>6. CASE AuthFailed(r)
  <2>1. CASE DenyAuth(r, 503)
    <3>1. 503 \in Statuses
      BY DEF Statuses
    <3>. QED
      BY <1>3, <2>1, <3>1, DenyType
  <2>2. CASE ~DenyAuth(r, 503)
    <3>1. Advance(r) /\ pc' = [pc EXCEPT ![r] = "directives"] /\ NotEnded /\ reqid' = reqid
          /\ hdr' = hdr
      BY <1>6, <2>2 DEF AuthFailed
    <3>. QED
      BY <1>1, <1>2, <1>3, <3>1, GoOnType
  <2>. QED
    BY <2>1, <2>2
<1>. QED
  BY <1>4, <1>5, <1>6

\* Every step keeps TypeOK, given that cursors fit the tasks.
LEMMA TypeNext ==
  ASSUME TypeOK, \A q \in Requests : CursorOK(q), [Next]_vars
  PROVE  TypeOK'
<1>1. CASE UNCHANGED vars
  BY <1>1 DEF TypeOK, vars
<1>2. ASSUME NEW c \in Configs, UpdateConfig(c) PROVE TypeOK'
  BY <1>2 DEF TypeOK, UpdateConfig
<1>3. ASSUME NEW r \in Requests, NEW i \in Inputs, Receive(r, i) PROVE TypeOK'
  <2>1. i.hdr \in HeaderMaps
    BY InputsAssumption DEF HeaderMaps, Origins, Readable, Unreadable, FromClient
  <2>2. EnsureRequestId(i.hdr) \in HeaderMaps /\ EnsureRequestId(i.hdr)["x-request-id"] \in Origins
    BY <2>1, EnsureType
  <2>. QED
    BY <1>3, <2>2 DEF TypeOK, Receive, PCs
<1>4. ASSUME NEW r \in Requests, NoSiteFound(r) PROVE TypeOK'
  <2>1. Respond(r, 404, reqid[r]) /\ reqid[r] \in Origins /\ 404 \in 0 .. 999
    BY <1>4 DEF NoSiteFound, TypeOK
  <2>2. EndTyped
    BY <2>1, RespondType
  <2>. QED
    BY <1>4, <2>2 DEF TypeOK, NoSiteFound, EndTyped
<1>5. ASSUME NEW r \in Requests, EnterSite(r) PROVE TypeOK'
  <2>1. PICK s \in SiteOf(r) : at' = [at EXCEPT ![r] = <<s.root, 1>>]
    BY <1>5 DEF EnterSite
  <2>2. snap[r] \in Configs
    BY <1>5 DEF EnterSite, CursorOK
  <2>3. s \in Sites[snap[r]]
    BY <2>1 DEF SiteOf, FindSite, SitesAt, SniMatches
  <2>4. s.root \in Blocks
    BY <2>2, <2>3, OwnerAssumption
  <2>. QED
    BY <1>5, <2>1, <2>4 DEF TypeOK, EnterSite, NotEnded, PCs, Cursors
<1>6. ASSUME NEW r \in Requests, HeaderDirective(r) PROVE TypeOK'
  <2>1. AtOp(r, "header")
    BY <1>6 DEF HeaderDirective
  <2>2. /\ at[r][1] \in Blocks /\ at[r][2] \in 1 .. Len(Program[at[r][1]])
        /\ Directive(r).op = "header"
    BY <2>1, AtOpFacts
  <2>3. Directive(r).name \in HeaderNames
    BY <2>2, ProgramAssumption DEF Directive
  <2>4. PICK value \in Written : hdr' = [hdr EXCEPT ![r] = ApplyHeader(@, Directive(r), value)]
    BY <1>6, SubstType DEF HeaderDirective
  <2>5. ApplyHeader(hdr[r], Directive(r), value) \in HeaderMaps
    BY <2>3, WrittenFacts, ApplyType DEF TypeOK
  <2>6. at' \in [Requests -> Cursors]
    BY <1>6, <2>2, AdvanceType DEF HeaderDirective
  <2>. QED
    BY <1>6, <2>4, <2>5, <2>6 DEF TypeOK, HeaderDirective, NotEnded
<1>7. ASSUME NEW r \in Requests, UriReplaceDirective(r) \/ StripPrefixDirective(r) PROVE TypeOK'
  <2>1. \E op : AtOp(r, op)
    BY <1>7 DEF UriReplaceDirective, StripPrefixDirective
  <2>2. at[r][1] \in Blocks /\ at[r][2] \in Nat
    BY <2>1, AtOpFacts
  <2>3. at' \in [Requests -> Cursors]
    BY <1>7, <2>2, AdvanceType DEF UriReplaceDirective, StripPrefixDirective
  <2>4. DOMAIN path' = Requests
    BY <1>7 DEF TypeOK, UriReplaceDirective, StripPrefixDirective
  <2>. QED
    BY <1>7, <2>3, <2>4 DEF TypeOK, UriReplaceDirective, StripPrefixDirective, NotEnded
<1>8. ASSUME NEW r \in Requests, HandlePathDirective(r) \/ MethodDirective(r) PROVE TypeOK'
  <2>1. PICK op \in {"handle_path", "method"} : AtOp(r, op)
    BY <1>8 DEF HandlePathDirective, MethodDirective
  <2>2. /\ at[r][1] \in Blocks /\ at[r][2] \in 1 .. Len(Program[at[r][1]])
        /\ Directive(r).op \in {"handle_path", "method"}
    BY <2>1, AtOpFacts
  <2>3. Directive(r).body \in Blocks
    BY <2>2, ProgramAssumption DEF Directive
  <2>4. Advance(r) \/ Enter(r, Directive(r).body)
    BY <1>8 DEF HandlePathDirective, MethodDirective
  <2>5. at' \in [Requests -> Cursors]
    BY <2>2, <2>3, <2>4, AdvanceType, EnterType
  <2>6. DOMAIN path' = Requests
    BY <1>8 DEF TypeOK, HandlePathDirective, MethodDirective
  <2>. QED
    BY <1>8, <2>5, <2>6 DEF TypeOK, HandlePathDirective, MethodDirective, NotEnded
<1>9. ASSUME NEW r \in Requests,
             RedirectDirective(r) \/ RespondDirective(r) \/ NoActionDirective(r)
      PROVE  TypeOK'
  <2>1. FinalId(r) \in Origins
    BY FinalIdType
  <2>2. /\ StatusOr(Directive(r).status, 302) \in 0 .. 999
        /\ StatusOr(Directive(r).status, 200) \in 0 .. 999
        /\ 500 \in 0 .. 999
    BY DEF StatusOr
  <2>3. \/ \E s \in 0 .. 999 : Respond(r, s, FinalId(r))
        \/ Abandon(r, "aborted", FinalId(r))
    <3>1. CASE RedirectDirective(r)
      BY <3>1, <2>2 DEF RedirectDirective
    <3>2. CASE RespondDirective(r)
      BY <3>2, <2>2 DEF RespondDirective
    <3>3. CASE NoActionDirective(r)
      BY <3>3, <2>2 DEF NoActionDirective
    <3>. QED
      BY <1>9, <3>1, <3>2, <3>3, Zenon
  <2>4. "aborted" \in Final
    BY DEF Final
  <2>5. EndTyped
    BY <2>1, <2>3, <2>4, RespondType, AbandonType
  <2>6. reqid' \in [Requests -> Origins]
    BY <1>9, <2>1 DEF TypeOK, RedirectDirective, RespondDirective, NoActionDirective
  <2>. QED
    BY <1>9, <2>5, <2>6
       DEF TypeOK, RedirectDirective, RespondDirective, NoActionDirective, EndTyped
<1>10. ASSUME NEW r \in Requests, ForwardAuthDirective(r) PROVE TypeOK'
  <2>1. ScrubIdentity(hdr[r], Directive(r)) \in HeaderMaps
    BY ScrubType DEF TypeOK
  <2>. QED
    BY <1>10, <2>1 DEF TypeOK, ForwardAuthDirective, NotEnded, PCs, Waiting
<1>11. ASSUME NEW r \in Requests, NEW a \in AuthAnswers, AuthHead(r, a) PROVE TypeOK'
  <2>1. at[r] \in Blocks \X Nat
    <3>1. at[r][1] \in Blocks /\ at[r][2] \in Nat \ {0}
      BY <1>11 DEF AuthHead, CursorOK, Walking
    <3>. QED
      BY <3>1 DEF TypeOK, NoCursor, Cursors
  <2>2. a \in Heads /\ a.status \in 0 .. 999
    BY AuthAnswersAssumption DEF Heads
  <2>3. heard' \in [Requests -> Answered]
    BY <1>11, <2>1, <2>2 DEF TypeOK, AuthHead, Answered
  <2>. QED
    BY <1>11, <2>2, <2>3 DEF TypeOK, AuthHead, NotEnded, PCs, Waiting
<1>12. ASSUME NEW r \in Requests,
              AuthBodyDone(r) \/ AuthBodyBroken(r) \/ AuthError(r) \/ AuthTimeout(r)
       PROVE  TypeOK'
  <2>1. /\ pc[r] \in {"auth_wait", "auth_drain"}
        /\ AuthAllowed(r) \/ AuthDenied(r) \/ AuthFailed(r)
    BY <1>12 DEF AuthBodyDone, AuthBodyBroken, AuthError, AuthTimeout
  <2>2. OutcomeTyped /\ auths' \in [Requests -> AuthCounts]
    BY <2>1, AuthOutcomeType
  <2>3. at[r] \in Blocks \X Nat
    <3>1. at[r][1] \in Blocks /\ at[r][2] \in Nat \ {0}
      BY <2>1 DEF CursorOK, Walking
    <3>. QED
      BY <3>1 DEF TypeOK, NoCursor, Cursors
  <2>4. head[r].status \in 0 .. 999
    BY DEF TypeOK, Heads
  <2>5. heard' \in [Requests -> Answered]
    BY <1>12, <2>3, <2>4 DEF TypeOK, AuthBodyDone, AuthBodyBroken, AuthError, AuthTimeout, Answered
  <2>6. UNCHANGED <<config, input, snap, path, head, up, contacted>>
    BY <1>12 DEF AuthBodyDone, AuthBodyBroken, AuthError, AuthTimeout
  <2>. QED
    BY <2>2, <2>5, <2>6 DEF TypeOK, OutcomeTyped, EndTyped
<1>13. ASSUME NEW r \in Requests, ReverseProxyDirective(r) PROVE TypeOK'
  <2>1. FinalId(r) \in Origins
    BY FinalIdType
  <2>2. reqid' \in [Requests -> Origins]
    BY <1>13, <2>1 DEF TypeOK, ReverseProxyDirective
  <2>3. CASE UriOk(Directive(r), path[r])
    <3>1. Outbound(hdr[r]) \in HeaderMaps
      BY OutboundType DEF TypeOK
    <3>2. [next |-> 1, ip |-> RemoteIp(hdr[r])] \in Upstreams
      BY DEF Upstreams, RemoteIp
    <3>. QED
      BY <1>13, <2>2, <2>3, <3>1, <3>2 DEF TypeOK, ReverseProxyDirective, NotEnded, PCs
  <2>4. CASE ~UriOk(Directive(r), path[r])
    <3>1. "aborted" \in Final
      BY DEF Final
    <3>2. Abandon(r, "aborted", FinalId(r))
      BY <1>13, <2>4 DEF ReverseProxyDirective
    <3>3. EndTyped
      BY <2>1, <3>1, <3>2, AbandonType
    <3>. QED
      BY <1>13, <2>2, <2>4, <3>3 DEF TypeOK, ReverseProxyDirective, EndTyped
  <2>. QED
    BY <2>3, <2>4
<1>14. ASSUME NEW r \in Requests, HeaderUp(r) PROVE TypeOK'
  <2> DEFINE d == Directive(r).header_up[up[r].next]
  <2>1. d.name \in HeaderNames
    <3>1. /\ at[r][1] \in Blocks /\ at[r][2] \in 1 .. Len(Program[at[r][1]])
          /\ Directive(r).op = "reverse_proxy"
      BY <1>14, WaitFacts DEF HeaderUp
    <3>2. up[r].next \in Nat \ {0} /\ up[r].next <= Len(Directive(r).header_up)
      BY <1>14 DEF HeaderUp, CursorOK
    <3>3. /\ Len(Directive(r).header_up) \in Nat
          /\ \A k \in 1 .. Len(Directive(r).header_up) :
               Directive(r).header_up[k].name \in HeaderNames
      BY <3>1, ProgramAssumption DEF Directive
    <3>. QED
      BY <3>2, <3>3
  <2>2. up[r].ip \in {"copy", "proxy"} /\ up[r].next \in Nat
    BY DEF TypeOK, Upstreams
  <2>3. PICK v \in Written : hdr' = [hdr EXCEPT ![r] = ApplyHeader(@, d, v)]
    BY <1>14, <2>2, UpSubstType DEF HeaderUp
  <2>4. ApplyHeader(hdr[r], d, v) \in HeaderMaps
    BY <2>1, WrittenFacts, ApplyType DEF TypeOK
  <2>5. [next |-> up[r].next + 1, ip |-> up[r].ip] \in Upstreams
    BY <2>2 DEF Upstreams
  <2>6. UNCHANGED <<config, pc, input, snap, at, path, head, reqid, auths, contacted, heard>>
        /\ NotEnded /\ up' = [up EXCEPT ![r] = [next |-> up[r].next + 1, ip |-> up[r].ip]]
    BY <1>14 DEF HeaderUp
  <2> HIDE DEF d
  <2>. QED
    BY <2>3, <2>4, <2>5, <2>6 DEF TypeOK, NotEnded
<1>15. ASSUME NEW r \in Requests, SendUpstream(r) PROVE TypeOK'
  BY <1>15 DEF TypeOK, SendUpstream, NotEnded, PCs, Waiting
<1>16. ASSUME NEW r \in Requests, NEW s \in 0 .. 999,
              BackendResponse(r, s) \/ BackendError(r) \/ BackendTimeout(r)
       PROVE  TypeOK'
  <2>1. \E x \in 0 .. 999 : Respond(r, x, reqid[r])
    BY <1>16 DEF BackendResponse, BackendError, BackendTimeout
  <2>2. reqid[r] \in Origins
    BY DEF TypeOK
  <2>3. EndTyped
    BY <2>1, <2>2, RespondType
  <2>. QED
    BY <1>16, <2>3 DEF TypeOK, BackendResponse, BackendError, BackendTimeout, EndTyped
<1>17. ASSUME NEW r \in Requests, ClientDisconnect(r) PROVE TypeOK'
  <2>1. "cancelled" \in Final /\ Abandon(r, "cancelled", reqid[r])
    BY <1>17 DEF Final, ClientDisconnect
  <2>2. reqid[r] \in Origins
    BY DEF TypeOK
  <2>3. EndTyped
    BY <2>1, <2>2, AbandonType
  <2>. QED
    BY <1>17, <2>3 DEF TypeOK, ClientDisconnect, EndTyped
<1>18. ASSUME NEW r \in Requests, SubstitutionLoops(r) PROVE TypeOK'
  BY <1>18 DEF TypeOK, SubstitutionLoops, NotEnded, PCs
<1>19. BackendStatuses \subseteq 0 .. 999 /\ 0 \in 0 .. 999
  BY BackendAssumption
<1>. QED
  BY <1>1, <1>2, <1>3, <1>4, <1>5, <1>6, <1>7, <1>8, <1>9, <1>10, <1>11, <1>12,
     <1>13, <1>14, <1>15, <1>16, <1>17, <1>18, <1>19
     DEF Next, TaskStep, Timer, Environment

-----------------------------------------------------------------------------
(* Requests                                                                *)

\* Everything OwnOK reads of request q is left alone.
Same(q) ==
  /\ pc'[q] = pc[q] /\ input'[q] = input[q] /\ snap'[q] = snap[q] /\ at'[q] = at[q]
  /\ hdr'[q] = hdr[q] /\ up'[q] = up[q]
  /\ contacted'[q] = contacted[q] /\ heard'[q] = heard[q]

\* A step that leaves alone what OwnOK reads of q keeps OwnOK(q).
LEMMA Frame ==
  ASSUME NEW q \in Requests, OwnOK(q), Same(q)
  PROVE  OwnOK(q)'
<1>1. CursorOK(q)'
  BY DEF OwnOK, Same, CursorOK, AtEnd, Directive
<1>2. AuthorizedSoFar(q)'
  <2>1. GuardsPassed(q)' = GuardsPassed(q)
    BY DEF Same, GuardsPassed
  <2>2. \A g : Authorized(q, g)' <=> Authorized(q, g)
    BY DEF Same, Authorized, Granted, Refused
  <2>. QED
    BY <2>1, <2>2 DEF OwnOK, Same, AuthorizedSoFar
<1>3. CleanSoFar(q)'
  BY DEF OwnOK, Same, CleanSoFar, GuardsPassed, Directive
<1>. QED
  BY <1>1, <1>2, <1>3 DEF OwnOK

\* What the task of r does between two awaits does not touch q.
LEMMA OtherTaskSteps ==
  ASSUME TypeOK, NEW r \in Requests, NEW q \in Requests, q # r, TaskStep(r)
  PROVE  Same(q)
<1> USE DEF Same, TypeOK, Respond, Abandon, NotEnded, Advance, Enter
<1>1. ASSUME NoSiteFound(r) \/ EnterSite(r) PROVE Same(q)
  BY <1>1 DEF NoSiteFound, EnterSite
<1>2. ASSUME HeaderDirective(r) \/ UriReplaceDirective(r) \/ StripPrefixDirective(r)
      PROVE Same(q)
  BY <1>2 DEF HeaderDirective, UriReplaceDirective, StripPrefixDirective
<1>3. ASSUME HandlePathDirective(r) \/ MethodDirective(r) PROVE Same(q)
  BY <1>3 DEF HandlePathDirective, MethodDirective
<1>4. ASSUME RedirectDirective(r) \/ RespondDirective(r) \/ NoActionDirective(r)
      PROVE Same(q)
  BY <1>4 DEF RedirectDirective, RespondDirective, NoActionDirective
<1>5. ASSUME ForwardAuthDirective(r) PROVE Same(q)
  BY <1>5 DEF ForwardAuthDirective
<1>6. ASSUME ReverseProxyDirective(r) PROVE Same(q)
  BY <1>6 DEF ReverseProxyDirective
<1>7. ASSUME HeaderUp(r) \/ SendUpstream(r) PROVE Same(q)
  BY <1>7 DEF HeaderUp, SendUpstream
<1>8. ASSUME SubstitutionLoops(r) PROVE Same(q)
  BY <1>8 DEF SubstitutionLoops
<1> HIDE DEF Same, TypeOK, Respond, Abandon, NotEnded, Advance, Enter
<1>. QED
  BY <1>1, <1>2, <1>3, <1>4, <1>5, <1>6, <1>7, <1>8 DEF TaskStep

\* Resolving a subrequest of r (resolve_auth) does not touch q.
LEMMA OtherOutcomes ==
  ASSUME TypeOK, NEW r \in Requests, NEW q \in Requests, q # r,
         AuthBodyDone(r) \/ AuthBodyBroken(r) \/ AuthError(r) \/ AuthTimeout(r)
  PROVE  Same(q)
<1>1. AuthAllowed(r) \/ AuthDenied(r) \/ AuthFailed(r)
  BY DEF AuthBodyDone, AuthBodyBroken, AuthError, AuthTimeout
<1>2. pc'[q] = pc[q] /\ at'[q] = at[q] /\ hdr'[q] = hdr[q]
  BY <1>1 DEF AuthAllowed, AuthDenied, AuthFailed, DenyAuth, Respond, Advance, TypeOK
<1>3. heard'[q] = heard[q]
  BY DEF AuthBodyDone, AuthBodyBroken, AuthError, AuthTimeout, TypeOK
<1>4. UNCHANGED <<input, snap, up, contacted>>
  BY DEF AuthBodyDone, AuthBodyBroken, AuthError, AuthTimeout
<1>. QED
  BY <1>2, <1>3, <1>4 DEF Same

\* A step of one request touches no other request's state.
LEMMA OtherRequests ==
  ASSUME TypeOK, NEW r \in Requests, NEW q \in Requests, q # r,
         TaskStep(r) \/ Timer(r) \/ Environment(r)
  PROVE  Same(q)
<1>1. ASSUME NEW i \in Inputs, Receive(r, i) PROVE Same(q)
  BY <1>1 DEF Same, TypeOK, Receive
<1>2. ASSUME NEW a \in AuthAnswers, AuthHead(r, a) PROVE Same(q)
  BY <1>2 DEF Same, TypeOK, AuthHead, NotEnded
<1>3. ASSUME NEW s, BackendResponse(r, s) PROVE Same(q)
  BY <1>3 DEF Same, TypeOK, BackendResponse, Respond
<1>4. ASSUME BackendError(r) \/ BackendTimeout(r) PROVE Same(q)
  BY <1>4 DEF Same, TypeOK, BackendError, BackendTimeout, Respond
<1>5. ASSUME ClientDisconnect(r) PROVE Same(q)
  BY <1>5 DEF Same, TypeOK, ClientDisconnect, Abandon
<1>. QED
  BY <1>1, <1>2, <1>3, <1>4, <1>5, OtherTaskSteps, OtherOutcomes DEF Timer, Environment

-----------------------------------------------------------------------------
(* The guards on the way to a position.                                    *)

Passed(b, i) == GuardsAbove[b] \cup GuardsBefore(b, i)

\* A guard passed is a forward_auth directive, and not the position itself.
LEMMA PassedFacts ==
  ASSUME NEW b \in Blocks, NEW i \in Nat, NEW g \in Passed(b, i)
  PROVE  /\ GuardCfg(g).response_headers \subseteq HeaderNames
         /\ \A c : c[1] = b /\ c[2] = i => g # c
<1>1. CASE g \in GuardsAbove[b]
  <2>1. g[1] \in Blocks \ {b} /\ g[2] \in 1 .. Len(Program[g[1]])
        /\ GuardCfg(g).op = "forward_auth"
    BY <1>1, GuardsAssumption
  <2>. QED
    BY <2>1, ProgramAssumption DEF GuardCfg
<1>2. CASE g \in GuardsBefore(b, i)
  <2>1. PICK k \in 1 .. Len(Program[b]) :
          k < i /\ Program[b][k].op = "forward_auth" /\ g = <<b, k>>
    BY <1>2 DEF GuardsBefore
  <2>2. g[1] = b /\ g[2] = k
    BY <2>1
  <2>3. Program[b][k].response_headers \subseteq HeaderNames
    BY <2>1, ProgramAssumption
  <2>. QED
    BY <2>1, <2>2, <2>3 DEF GuardCfg
<1>. QED
  BY <1>1, <1>2 DEF Passed

\* Going one directive further adds that directive if it is a forward_auth.
LEMMA PassedNext ==
  ASSUME NEW b \in Blocks, NEW i \in 1 .. Len(Program[b])
  PROVE  Passed(b, i + 1) = Passed(b, i) \cup
           (IF Program[b][i].op = "forward_auth" THEN {<<b, i>>} ELSE {})
<1>1. Len(Program[b]) \in Nat
  BY ProgramAssumption
<1>2. {k \in 1 .. Len(Program[b]) : k < i + 1 /\ Program[b][k].op = "forward_auth"}
        = {k \in 1 .. Len(Program[b]) : k < i /\ Program[b][k].op = "forward_auth"}
          \cup (IF Program[b][i].op = "forward_auth" THEN {i} ELSE {})
  BY <1>1
<1>3. GuardsBefore(b, i + 1) = GuardsBefore(b, i) \cup
        (IF Program[b][i].op = "forward_auth" THEN {<<b, i>>} ELSE {})
  BY <1>2 DEF GuardsBefore
<1>. QED
  BY <1>3 DEF Passed

\* The first directive of a block has the guards of the block.
LEMMA PassedFirst ==
  ASSUME NEW b \in Blocks
  PROVE  Passed(b, 1) = GuardsAbove[b]
<1>1. GuardsBefore(b, 1) = {}
  BY ProgramAssumption DEF GuardsBefore
<1>. QED
  BY <1>1 DEF Passed

-----------------------------------------------------------------------------
(* What the header operations may not do: bring a client's value back.     *)

Harmless(old, new) ==
  \A n \in HeaderNames : new[n] \in FromClient => old[n] \in FromClient

\* handle_header and apply_header_up write no client value.
LEMMA ApplyHarmless ==
  ASSUME NEW h \in HeaderMaps, NEW d, NEW v, v \notin FromClient
  PROVE  Harmless(h, ApplyHeader(h, d, v))
BY DEF Harmless, ApplyHeader, HeaderMaps, FromClient

\* The rewriting of Host and X-Forwarded-* writes no client value.
LEMMA OutboundHarmless ==
  ASSUME NEW h \in HeaderMaps
  PROVE  Harmless(h, Outbound(h))
BY DEF Harmless, Outbound, Moved, HeaderMaps, FromClient

\* scrub_identity_headers leaves none of the guard's identity headers.
LEMMA ScrubHarmless ==
  ASSUME NEW h \in HeaderMaps, NEW cfg
  PROVE  /\ Harmless(h, ScrubIdentity(h, cfg))
         /\ \A n \in cfg.response_headers \cap HeaderNames :
              ScrubIdentity(h, cfg)[n] \notin FromClient
BY DEF Harmless, ScrubIdentity, FromClient

\* apply_identity_headers writes no client value.
LEMMA IdentityHarmless ==
  ASSUME NEW h \in HeaderMaps, NEW cfg, NEW ident \in [HeaderNames -> FromAuth \cup {"absent"}]
  PROVE  Harmless(h, ApplyIdentity(h, cfg, ident))
BY DEF Harmless, ApplyIdentity, FromClient, FromAuth

-----------------------------------------------------------------------------
(* The kinds of steps a request takes.                                     *)

\* The future ends.
LEMMA Ends ==
  ASSUME NEW r \in Requests, OwnOK(r), pc[r] # "idle", pc'[r] \in Final,
         input'[r] = input[r], snap'[r] = snap[r], at'[r] = at[r], hdr'[r] = hdr[r],
         contacted'[r] = contacted[r],
         heard'[r] = heard[r] \/ pc[r] \in {"auth_wait", "auth_drain"}
  PROVE  OwnOK(r)'
<1>1. pc'[r] \notin Walking /\ pc'[r] \notin {"idle", "routing"}
  BY DEF Final, Walking
<1>2. CursorOK(r)'
  BY <1>1 DEF OwnOK, CursorOK, Walking
<1>3. contacted[r] => heard'[r] = heard[r]
  BY DEF OwnOK, CursorOK, Final
<1>4. GuardsPassed(r)' = GuardsPassed(r)
  BY DEF GuardsPassed
<1>5. AuthorizedSoFar(r)'
  <2>1. contacted[r] => \A g : Authorized(r, g)' <=> Authorized(r, g)
    BY <1>3 DEF Authorized, Granted, Refused
  <2>. QED
    BY <1>1, <1>4, <2>1 DEF OwnOK, AuthorizedSoFar
<1>6. CleanSoFar(r)'
  BY <1>1, <1>4 DEF OwnOK, CleanSoFar, Walking
<1>. QED
  BY <1>2, <1>5, <1>6 DEF OwnOK

\* The task goes on with the same guards behind it.
LEMMA GoesOn ==
  ASSUME NEW r \in Requests, OwnOK(r), pc[r] \in Walking,
         pc'[r] \in {"directives", "header_up", "backend_wait"},
         input'[r] = input[r], snap'[r] = snap[r], heard'[r] = heard[r],
         at[r][1] \in Blocks, at[r][2] \in Nat,
         at'[r][1] \in Blocks, at'[r][2] \in Nat \ {0},
         GuardsPassed(r)' = GuardsPassed(r),
         pc'[r] \in {"header_up", "backend_wait"} =>
           (~AtEnd(r) /\ Directive(r).op = "reverse_proxy")',
         pc'[r] = "header_up" => up'[r].next \in Nat \ {0},
         contacted'[r] => pc'[r] = "backend_wait",
         Harmless(hdr[r], hdr'[r])
  PROVE  OwnOK(r)'
<1>1. CursorOK(r)'
  BY DEF OwnOK, CursorOK, Walking
<1>2. AuthorizedSoFar(r)'
  <2>1. \A g : Authorized(r, g)' <=> Authorized(r, g)
    BY DEF Authorized, Granted, Refused
  <2>. QED
    BY <2>1 DEF OwnOK, AuthorizedSoFar
<1>3. CleanSoFar(r)'
  <2>1. \A g \in GuardsPassed(r) : GuardCfg(g).response_headers \subseteq HeaderNames
    BY PassedFacts DEF GuardsPassed, Passed
  <2>2. \A g \in GuardsPassed(r) : \A n \in GuardCfg(g).response_headers :
          hdr'[r][n] \notin FromClient
    BY <2>1 DEF OwnOK, CleanSoFar, Harmless, FromClient
  <2>. QED
    BY <2>2 DEF CleanSoFar, FromClient
<1>. QED
  BY <1>1, <1>2, <1>3 DEF OwnOK

\* What a guard's service has answered is read off its complete answers.
LEMMA SameAnswers ==
  ASSUME NEW r, NEW g,
         \A x : <<g, x, "body">> \in heard'[r] <=> <<g, x, "body">> \in heard[r]
  PROVE  (Granted(r, g)' <=> Granted(r, g)) /\ (Refused(r, g)' <=> Refused(r, g))
<1>1. Granted(r, g)' <=> Granted(r, g)
  BY SMT DEF Granted
<1>2. Refused(r, g)' <=> Refused(r, g)
  BY SMT DEF Refused
<1>. QED
  BY <1>1, <1>2

\* A guard lets the request through: it is added to those behind it.
LEMMA PassesGuard ==
  ASSUME NEW r \in Requests, OwnOK(r), pc[r] \in {"auth_wait", "auth_drain"},
         pc'[r] = "directives",
         input'[r] = input[r], snap'[r] = snap[r], contacted'[r] = contacted[r],
         at[r] \in Blocks \X Nat, at'[r] = <<at[r][1], at[r][2] + 1>>,
         heard[r] \subseteq heard'[r], \A e \in heard'[r] : e \in heard[r] \/ e[1] = at[r],
         \A g : g = at[r] => Authorized(r, g)',
         Harmless(hdr[r], hdr'[r])
  PROVE  OwnOK(r)'
<1>1. /\ at[r][1] \in Blocks /\ at[r][2] \in 1 .. Len(Program[at[r][1]])
      /\ Directive(r).op = "forward_auth"
  BY WaitFacts DEF OwnOK
<1>2. at'[r][1] = at[r][1] /\ at'[r][2] = at[r][2] + 1 /\ at[r] = <<at[r][1], at[r][2]>>
  OBVIOUS
<1>3. CursorOK(r)'
  BY <1>1, <1>2 DEF OwnOK, CursorOK, Walking, Final
<1>4. GuardsPassed(r)' = GuardsPassed(r) \cup {at[r]}
  <2>1. Passed(at[r][1], at[r][2] + 1) = Passed(at[r][1], at[r][2]) \cup {at[r]}
    BY <1>1, <1>2, PassedNext DEF Directive
  <2>. QED
    BY <1>2, <2>1 DEF GuardsPassed, Passed
<1>5. \A g \in GuardsPassed(r) :
        g # at[r] /\ GuardCfg(g).response_headers \subseteq HeaderNames
  BY <1>1, PassedFacts DEF GuardsPassed, Passed
<1>6. AuthorizedSoFar(r)'
  <2>1. ASSUME NEW g \in GuardsPassed(r) PROVE Authorized(r, g)' <=> Authorized(r, g)
    <3>1. \A x : <<g, x, "body">> \in heard'[r] <=> <<g, x, "body">> \in heard[r]
      BY <1>5
    <3>2. (Granted(r, g)' <=> Granted(r, g)) /\ (Refused(r, g)' <=> Refused(r, g))
      BY <3>1, SameAnswers, Zenon
    <3>. QED
      BY <3>2 DEF Authorized
  <2>2. \A g \in GuardsPassed(r) : Authorized(r, g)
    BY DEF OwnOK, AuthorizedSoFar, Walking
  <2>3. \A e \in heard[r] : e[3] = "body" => e[1] \in GuardsPassed(r)
    BY DEF OwnOK, AuthorizedSoFar, Walking
  <2>4. \A e \in heard'[r] : e[3] = "body" => e[1] \in GuardsPassed(r)'
    BY <1>4, <2>3
  <2>5. \A g \in GuardsPassed(r)' : Authorized(r, g)'
    BY <1>4, <2>1, <2>2
  <2>. QED
    BY <2>4, <2>5 DEF AuthorizedSoFar
<1>7. CleanSoFar(r)'
  <2>1. GuardCfg(at[r]).response_headers \subseteq HeaderNames
    BY <1>1, ProgramAssumption DEF Directive, GuardCfg
  <2>2. \A n \in GuardCfg(at[r]).response_headers : hdr[r][n] \notin FromClient
    BY DEF OwnOK, CleanSoFar, GuardCfg, Directive, FromClient
  <2>3. \A g \in GuardsPassed(r) : \A n \in GuardCfg(g).response_headers :
          hdr[r][n] \notin FromClient
    BY DEF OwnOK, CleanSoFar, FromClient, Walking
  <2>4. \A g \in GuardsPassed(r)' : \A n \in GuardCfg(g).response_headers :
          hdr'[r][n] \notin FromClient
    BY <1>4, <1>5, <2>1, <2>2, <2>3 DEF Harmless
  <2>. QED
    BY <2>4 DEF CleanSoFar, FromClient
<1>. QED
  BY <1>3, <1>6, <1>7 DEF OwnOK

-----------------------------------------------------------------------------
(* Every action keeps OwnOK of the request it belongs to.                  *)

\* A request arrives, and finds its site.
LEMMA OwnArrival ==
  ASSUME TypeOK, NEW r \in Requests, OwnOK(r),
         (\E i \in Inputs : Receive(r, i)) \/ EnterSite(r)
  PROVE  OwnOK(r)'
<1>1. ASSUME NEW i \in Inputs, Receive(r, i) PROVE OwnOK(r)'
  <2>1. /\ pc'[r] = "routing" /\ input'[r] = i /\ snap'[r] \in Configs
        /\ heard'[r] = {} /\ ~contacted'[r]
    BY <1>1 DEF TypeOK, Receive, OwnOK, CursorOK, Final
  <2>. QED
    BY <2>1 DEF OwnOK, CursorOK, AuthorizedSoFar, CleanSoFar, Walking
<1>2. ASSUME EnterSite(r) PROVE OwnOK(r)'
  <2>1. PICK site \in SiteOf(r) : at' = [at EXCEPT ![r] = <<site.root, 1>>]
    BY <1>2 DEF EnterSite
  <2>2. snap[r] \in Configs /\ heard[r] = {} /\ ~contacted[r]
    BY <1>2 DEF EnterSite, OwnOK, CursorOK, Final
  <2>3. site \in Sites[snap[r]]
    BY <2>1 DEF SiteOf, FindSite, SitesAt, SniMatches
  <2>4. site.root \in Blocks /\ GuardsAbove[site.root] = {}
    BY <2>2, <2>3, OwnerAssumption, GuardsAssumption
  <2>5. at'[r][1] = site.root /\ at'[r][2] = 1
    BY <2>1 DEF TypeOK
  <2>6. GuardsPassed(r)' = {}
    <3>1. Passed(site.root, 1) = {}
      BY <2>4, PassedFirst
    <3>. QED
      BY <2>5, <3>1 DEF GuardsPassed, Passed
  <2>7. /\ pc'[r] = "directives" /\ input'[r] \in Inputs /\ snap'[r] \in Configs
        /\ heard'[r] = {} /\ ~contacted'[r]
    BY <1>2, <2>2 DEF EnterSite, TypeOK, OwnOK, CursorOK
  <2>8. CursorOK(r)'
    BY <2>4, <2>5, <2>7 DEF CursorOK
  <2>9. AuthorizedSoFar(r)' /\ CleanSoFar(r)'
    BY <2>6, <2>7 DEF AuthorizedSoFar, CleanSoFar
  <2>. QED
    BY <2>8, <2>9 DEF OwnOK
<1>. QED
  BY <1>1, <1>2

\* A response is returned, or the future is dropped.
LEMMA OwnEnd ==
  ASSUME TypeOK, NEW r \in Requests, OwnOK(r), NEW s,
         \/ NoSiteFound(r) \/ RedirectDirective(r) \/ RespondDirective(r)
         \/ NoActionDirective(r) \/ BackendResponse(r, s) \/ BackendError(r)
         \/ BackendTimeout(r) \/ ClientDisconnect(r)
  PROVE  OwnOK(r)'
<1>1. pc[r] # "idle" /\ UNCHANGED <<input, snap, at, hdr, contacted, heard>>
  BY DEF NoSiteFound, RedirectDirective, RespondDirective, NoActionDirective, AtOp,
         BackendResponse, BackendError, BackendTimeout, ClientDisconnect, Waiting
<1>2. \E how \in Final : pc' = [pc EXCEPT ![r] = how]
  BY DEF NoSiteFound, RedirectDirective, RespondDirective, NoActionDirective,
         BackendResponse, BackendError, BackendTimeout, ClientDisconnect,
         Respond, Abandon, Final
<1>3. pc'[r] \in Final
  BY <1>2 DEF TypeOK
<1>. QED
  BY <1>1, <1>3, Ends

\* A directive that is no forward_auth and goes on with the next one.
LEMMA NextDirective ==
  ASSUME TypeOK, NEW r \in Requests, OwnOK(r), NEW op, op # "forward_auth", AtOp(r, op),
         Advance(r), pc' = pc, UNCHANGED <<input, snap, contacted, heard>>,
         Harmless(hdr[r], hdr'[r])
  PROVE  OwnOK(r)'
<1>1. /\ at[r][1] \in Blocks /\ at[r][2] \in 1 .. Len(Program[at[r][1]])
      /\ Directive(r).op = op
  BY AtOpFacts DEF OwnOK
<1>2. at'[r][1] = at[r][1] /\ at'[r][2] = at[r][2] + 1
  BY DEF TypeOK, Advance
<1>3. GuardsPassed(r)' = GuardsPassed(r)
  <2>1. Program[at[r][1]][at[r][2]].op # "forward_auth"
    BY <1>1 DEF Directive
  <2>2. Passed(at[r][1], at[r][2] + 1) = Passed(at[r][1], at[r][2]) \cup {}
    BY <1>1, <2>1, PassedNext
  <2>. QED
    BY <1>2, <2>2 DEF GuardsPassed, Passed
<1>4. pc[r] = "directives" /\ ~contacted[r]
  BY DEF AtOp, OwnOK, CursorOK, Final
<1>5. pc[r] \in Walking /\ at[r][2] \in Nat /\ at'[r][1] \in Blocks /\ at'[r][2] \in Nat \ {0}
  BY <1>1, <1>2, <1>4 DEF Walking
<1>. QED
  BY <1>1, <1>3, <1>4, <1>5, GoesOn

\* A block that takes the request over.
LEMMA NextBlock ==
  ASSUME TypeOK, NEW r \in Requests, OwnOK(r), NEW op \in {"handle_path", "method"},
         AtOp(r, op), Enter(r, Directive(r).body),
         pc' = pc, UNCHANGED <<input, snap, hdr, contacted, heard>>
  PROVE  OwnOK(r)'
<1>1. /\ at[r][1] \in Blocks /\ at[r][2] \in 1 .. Len(Program[at[r][1]])
      /\ Directive(r).op = op
  BY AtOpFacts DEF OwnOK
<1> DEFINE body == Directive(r).body
<1>2. /\ body \in Blocks
      /\ GuardsAbove[body] = GuardsAbove[at[r][1]] \cup GuardsBefore(at[r][1], at[r][2])
  BY <1>1, ProgramAssumption, GuardsAssumption DEF Directive
<1>3. at'[r][1] = body /\ at'[r][2] = 1
  BY DEF TypeOK, Enter
<1> HIDE DEF body
<1>4. GuardsPassed(r)' = GuardsPassed(r)
  <2>1. Passed(body, 1) = GuardsAbove[body]
    BY <1>2, PassedFirst
  <2>. QED
    BY <1>2, <1>3, <2>1 DEF GuardsPassed, Passed
<1>5. pc[r] = "directives" /\ ~contacted[r]
  BY DEF AtOp, OwnOK, CursorOK, Final
<1>6. pc[r] \in Walking /\ at[r][2] \in Nat /\ at'[r][1] \in Blocks /\ at'[r][2] \in Nat \ {0}
  BY <1>1, <1>2, <1>3, <1>5 DEF Walking
<1>7. Harmless(hdr[r], hdr'[r])
  BY DEF Harmless
<1>. QED
  BY <1>1, <1>4, <1>5, <1>6, <1>7, GoesOn

\* One turn of the loop in process_directives over a directive that neither
\* ends the request nor waits.
LEMMA OwnDirective ==
  ASSUME TypeOK, NEW r \in Requests, OwnOK(r),
         \/ HeaderDirective(r) \/ UriReplaceDirective(r) \/ StripPrefixDirective(r)
         \/ HandlePathDirective(r) \/ MethodDirective(r)
  PROVE  OwnOK(r)'
<1>1. CASE HeaderDirective(r)
  <2>1. PICK value \in Written : hdr' = [hdr EXCEPT ![r] = ApplyHeader(@, Directive(r), value)]
    BY <1>1, SubstType DEF HeaderDirective
  <2>2. hdr[r] \in HeaderMaps /\ value \notin FromClient
    BY WrittenFacts DEF TypeOK
  <2>3. hdr'[r] = ApplyHeader(hdr[r], Directive(r), value)
    BY <2>1 DEF TypeOK
  <2>4. Harmless(hdr[r], hdr'[r])
    BY <2>2, <2>3, ApplyHarmless
  <2>5. /\ AtOp(r, "header") /\ Advance(r) /\ pc' = pc
        /\ UNCHANGED <<input, snap, contacted, heard>>
    BY <1>1 DEF HeaderDirective
  <2>. QED
    BY <2>4, <2>5, NextDirective
<1>2. CASE UriReplaceDirective(r) \/ StripPrefixDirective(r)
  <2>1. \E op \in {"uri_replace", "strip_prefix"} : AtOp(r, op)
    BY <1>2 DEF UriReplaceDirective, StripPrefixDirective
  <2>2. Advance(r) /\ pc' = pc /\ UNCHANGED <<input, snap, hdr, contacted, heard>>
    BY <1>2 DEF UriReplaceDirective, StripPrefixDirective
  <2>3. Harmless(hdr[r], hdr'[r])
    BY <2>2 DEF Harmless
  <2>. QED
    BY <2>1, <2>2, <2>3, NextDirective
<1>3. CASE HandlePathDirective(r) \/ MethodDirective(r)
  <2>1. PICK op \in {"handle_path", "method"} : AtOp(r, op)
    BY <1>3 DEF HandlePathDirective, MethodDirective
  <2>2. /\ Advance(r) \/ Enter(r, Directive(r).body)
        /\ pc' = pc /\ UNCHANGED <<input, snap, hdr, contacted, heard>>
    BY <1>3 DEF HandlePathDirective, MethodDirective
  <2>3. Harmless(hdr[r], hdr'[r])
    BY <2>2 DEF Harmless
  <2>4. op # "forward_auth"
    OBVIOUS
  <2>. QED
    BY <2>1, <2>2, <2>3, <2>4, NextDirective, NextBlock
<1>. QED
  BY <1>1, <1>2, <1>3

\* The subrequest starts, and its response head arrives.
LEMMA OwnAsk ==
  ASSUME TypeOK, NEW r \in Requests, OwnOK(r),
         ForwardAuthDirective(r) \/ \E a \in AuthAnswers : AuthHead(r, a)
  PROVE  OwnOK(r)'
<1>1. CASE ForwardAuthDirective(r)
  <2>1. /\ at[r][1] \in Blocks /\ at[r][2] \in 1 .. Len(Program[at[r][1]])
        /\ Directive(r).op = "forward_auth" /\ pc[r] = "directives" /\ ~AtEnd(r)
    BY <1>1, AtOpFacts DEF ForwardAuthDirective, AtOp, OwnOK
  <2>2. /\ pc'[r] = "auth_wait" /\ hdr'[r] = ScrubIdentity(hdr[r], Directive(r))
        /\ UNCHANGED <<input, snap, at, contacted, heard>>
    BY <1>1 DEF ForwardAuthDirective, TypeOK
  <2>3. /\ Harmless(hdr[r], hdr'[r])
        /\ \A n \in Directive(r).response_headers \cap HeaderNames : hdr'[r][n] \notin FromClient
    BY <2>2, ScrubHarmless DEF TypeOK
  <2>4. Directive(r).response_headers \subseteq HeaderNames
    BY <2>1, ProgramAssumption DEF Directive
  <2>5. \A g \in GuardsPassed(r) : GuardCfg(g).response_headers \subseteq HeaderNames
    BY <2>1, PassedFacts DEF GuardsPassed, Passed
  <2>6. GuardsPassed(r)' = GuardsPassed(r) /\ Directive(r)' = Directive(r) /\ AtEnd(r)' = AtEnd(r)
    BY <2>2 DEF GuardsPassed, Directive, AtEnd
  <2>7. ~contacted[r]
    BY <2>1 DEF OwnOK, CursorOK, Final
  <2>8. CursorOK(r)'
    BY <2>1, <2>2, <2>6, <2>7 DEF OwnOK, CursorOK, Walking
  <2>9. AuthorizedSoFar(r)'
    <3>1. \A g : Authorized(r, g)' <=> Authorized(r, g)
      BY <2>2 DEF Authorized, Granted, Refused
    <3>. QED
      BY <2>1, <2>2, <2>6, <3>1 DEF OwnOK, AuthorizedSoFar, Walking
  <2>10. CleanSoFar(r)'
    <3>1. \A g \in GuardsPassed(r) : \A n \in GuardCfg(g).response_headers :
            hdr[r][n] \notin FromClient
      BY <2>1 DEF OwnOK, CleanSoFar, Walking, FromClient
    <3>. QED
      BY <2>2, <2>3, <2>4, <2>5, <2>6, <3>1 DEF CleanSoFar, Harmless, FromClient
  <2>. QED
    BY <2>8, <2>9, <2>10 DEF OwnOK
<1>2. ASSUME NEW a \in AuthAnswers, AuthHead(r, a) PROVE OwnOK(r)'
  <2>1. /\ pc[r] = "auth_wait" /\ pc'[r] = "auth_drain"
        /\ heard'[r] = heard[r] \cup {<<at[r], a.status, "head">>}
        /\ UNCHANGED <<input, snap, at, hdr, contacted>>
    BY <1>2 DEF AuthHead, TypeOK
  <2>2. GuardsPassed(r)' = GuardsPassed(r) /\ Directive(r)' = Directive(r) /\ AtEnd(r)' = AtEnd(r)
    BY <2>1 DEF GuardsPassed, Directive, AtEnd
  <2>3. CursorOK(r)'
    BY <2>1, <2>2 DEF OwnOK, CursorOK, Walking, Final
  <2>4. AuthorizedSoFar(r)'
    <3>1. ASSUME NEW g PROVE Authorized(r, g)' <=> Authorized(r, g)
      <4>1. \A x : <<g, x, "body">> \in heard'[r] <=> <<g, x, "body">> \in heard[r]
        BY <2>1
      <4>2. (Granted(r, g)' <=> Granted(r, g)) /\ (Refused(r, g)' <=> Refused(r, g))
        BY <4>1, SameAnswers, Zenon
      <4>. QED
        BY <4>2 DEF Authorized
    <3>2. \A g \in GuardsPassed(r)' : Authorized(r, g)'
      BY <2>1, <2>2, <3>1 DEF OwnOK, AuthorizedSoFar, Walking
    <3>3. \A e \in heard'[r] : e[3] = "body" => e[1] \in GuardsPassed(r)'
      BY <2>1, <2>2 DEF OwnOK, AuthorizedSoFar, Walking
    <3>. QED
      BY <3>2, <3>3 DEF AuthorizedSoFar
  <2>5. CleanSoFar(r)'
    BY <2>1, <2>2 DEF OwnOK, CleanSoFar, Walking
  <2>. QED
    BY <2>3, <2>4, <2>5 DEF OwnOK
<1>. QED
  BY <1>1, <1>2

\* A subrequest is resolved.
LEMMA OwnOutcome ==
  ASSUME TypeOK, NEW r \in Requests, OwnOK(r),
         AuthBodyDone(r) \/ AuthBodyBroken(r) \/ AuthError(r) \/ AuthTimeout(r)
  PROVE  OwnOK(r)'
<1> DEFINE here == at[r]
           s == head[r].status
<1>1. /\ pc[r] \in {"auth_wait", "auth_drain"}
      /\ UNCHANGED <<input, snap, contacted>>
      /\ heard'[r] \in {heard[r], heard[r] \cup {<<here, s, "body">>}}
  BY DEF AuthBodyDone, AuthBodyBroken, AuthError, AuthTimeout, TypeOK
<1>2. heard[r] \subseteq heard'[r] /\ \A e \in heard'[r] : e \in heard[r] \/ e[1] = here
  BY <1>1
<1>3. here[1] \in Blocks /\ here[2] \in Nat \ {0}
  BY <1>1 DEF OwnOK, CursorOK, Walking
<1>4. here \in Blocks \X Nat
  BY <1>3 DEF TypeOK, NoCursor, Cursors
<1>5. \/ AuthAllowed(r) /\ IsSuccess(s) /\ <<here, s, "body">> \in heard'[r]
      \/ AuthDenied(r)
      \/ /\ AuthFailed(r)
         /\ heard'[r] = heard[r] \/ ~IsClientError(s)
  BY DEF AuthBodyDone, AuthBodyBroken, AuthError, AuthTimeout, TypeOK
<1>6. ASSUME \E t : DenyAuth(r, t) PROVE OwnOK(r)'
  <2>1. pc'[r] \in Final /\ UNCHANGED <<hdr, at>>
    BY <1>6 DEF DenyAuth, Respond, Final, TypeOK
  <2>. QED
    BY <1>1, <2>1, Ends
<1>7. CASE AuthAllowed(r) /\ IsSuccess(s) /\ <<here, s, "body">> \in heard'[r]
  <2>1. pc'[r] = "directives" /\ at'[r] = <<at[r][1], at[r][2] + 1>>
    BY <1>7 DEF AuthAllowed, Advance, TypeOK
  <2>2. Harmless(hdr[r], hdr'[r])
    <3>1. hdr'[r] = ApplyIdentity(hdr[r], Directive(r), head[r].ident)
      BY <1>7 DEF AuthAllowed, TypeOK
    <3>. QED
      BY <3>1, IdentityHarmless DEF TypeOK, Heads
  <2>3. \A g : g = here => Authorized(r, g)'
    BY <1>7 DEF Authorized, Granted, IsSuccess
  <2> HIDE DEF s
  <2>. QED
    BY <1>1, <1>4, <1>2, <2>1, <2>2, <2>3, PassesGuard
<1>8. CASE AuthDenied(r)
  BY <1>6, <1>8 DEF AuthDenied
<1>9. CASE AuthFailed(r) /\ (heard'[r] = heard[r] \/ ~IsClientError(s))
  <2>1. CASE \E t : DenyAuth(r, t)
    BY <1>6, <2>1
  <2>2. CASE ~ \E t : DenyAuth(r, t)
    <3>1. /\ pc'[r] = "directives" /\ hdr' = hdr
          /\ at'[r] = <<at[r][1], at[r][2] + 1>>
          /\ Directive(r).failure_mode = "open"
      BY <1>9, <2>2 DEF AuthFailed, Advance, TypeOK
    <3>2. Harmless(hdr[r], hdr'[r])
      BY <3>1 DEF Harmless
    <3>3. \A e \in heard[r] : e[3] = "body" => e[1] # here
      <4>1. \A g \in GuardsPassed(r) : g # here
        BY <1>3, PassedFacts DEF GuardsPassed, Passed
      <4>. QED
        BY <1>1, <4>1 DEF OwnOK, AuthorizedSoFar, Walking
    <3>4. \A t \in 400 .. 499 : <<here, t, "body">> \notin heard'[r]
      <4>1. \A t : <<here, t, "body">> \notin heard[r]
        BY <3>3
      <4>. QED
        BY <1>1, <1>9, <4>1 DEF IsClientError
    <3>5. \A g : g = here => Authorized(r, g)'
      BY <3>1, <3>4 DEF Authorized, Refused, GuardCfg, Directive
    <3> HIDE DEF s
    <3>. QED
      BY <1>1, <1>4, <1>2, <3>1, <3>2, <3>5, PassesGuard
  <2>. QED
    BY <2>1, <2>2
<1>. QED
  BY <1>5, <1>7, <1>8, <1>9

\* The request is made ready for its backend and sent.
LEMMA OwnUpstream ==
  ASSUME TypeOK, NEW r \in Requests, OwnOK(r),
         ReverseProxyDirective(r) \/ HeaderUp(r) \/ SendUpstream(r)
  PROVE  OwnOK(r)'
<1>1. ASSUME ReverseProxyDirective(r), ~UriOk(Directive(r), path[r]) PROVE OwnOK(r)'
  <2>1. pc[r] # "idle" /\ pc'[r] \in Final /\ UNCHANGED <<input, snap, at, hdr, contacted, heard>>
    BY <1>1 DEF ReverseProxyDirective, AtOp, Abandon, Final, TypeOK
  <2>. QED
    BY <2>1, Ends
<1>2. ASSUME (ReverseProxyDirective(r) /\ UriOk(Directive(r), path[r])) \/ HeaderUp(r) \/ SendUpstream(r)
      PROVE  OwnOK(r)'
  <2>1. /\ at[r][1] \in Blocks /\ at[r][2] \in 1 .. Len(Program[at[r][1]])
        /\ Directive(r).op = "reverse_proxy" /\ pc[r] \in {"directives", "header_up"}
        /\ ~AtEnd(r)
    BY <1>2, AtOpFacts, WaitFacts
       DEF ReverseProxyDirective, HeaderUp, SendUpstream, AtOp, OwnOK, CursorOK
  <2>2. UNCHANGED <<input, snap, at, heard>>
    BY <1>2 DEF ReverseProxyDirective, HeaderUp, SendUpstream
  <2>3. ~contacted[r]
    BY <2>1 DEF OwnOK, CursorOK, Final
  <2>4. /\ pc'[r] \in {"header_up", "backend_wait"}
        /\ contacted'[r] => pc'[r] = "backend_wait"
        /\ pc'[r] = "header_up" => up'[r].next \in Nat \ {0}
    <3>1. up[r].next \in Nat
      BY DEF TypeOK, Upstreams
    <3>. QED
      BY <1>2, <2>3, <3>1 DEF ReverseProxyDirective, HeaderUp, SendUpstream, TypeOK
  <2>5. Harmless(hdr[r], hdr'[r])
    <3>1. CASE hdr'[r] = Outbound(hdr[r])
      BY <3>1, OutboundHarmless DEF TypeOK
    <3>2. CASE HeaderUp(r)
      <4> DEFINE d == Directive(r).header_up[up[r].next]
      <4>1. up[r].ip \in {"copy", "proxy"}
        BY DEF TypeOK, Upstreams
      <4>2. PICK v \in Written : hdr' = [hdr EXCEPT ![r] = ApplyHeader(@, d, v)]
        BY <3>2, <4>1, UpSubstType DEF HeaderUp
      <4>3. hdr'[r] = ApplyHeader(hdr[r], d, v) /\ v \notin FromClient
        BY <4>2, WrittenFacts DEF TypeOK
      <4> HIDE DEF d
      <4>. QED
        BY <4>3, ApplyHarmless DEF TypeOK
    <3>3. CASE hdr' = hdr
      BY <3>3 DEF Harmless
    <3>. QED
      BY <1>2, <3>1, <3>2, <3>3 DEF ReverseProxyDirective, SendUpstream, TypeOK
  <2>6. GuardsPassed(r)' = GuardsPassed(r) /\ (~AtEnd(r) /\ Directive(r).op = "reverse_proxy")'
    BY <2>1, <2>2 DEF GuardsPassed, AtEnd, Directive
  <2>7. pc[r] \in Walking /\ at[r][2] \in Nat /\ at'[r][1] \in Blocks /\ at'[r][2] \in Nat \ {0}
    BY <2>1, <2>2 DEF Walking
  <2>. QED
    BY <2>1, <2>2, <2>4, <2>5, <2>6, <2>7, GoesOn
<1>. QED
  BY <1>1, <1>2

\* A substitution that never returns takes the task off the walk.
LEMMA OwnLoop ==
  ASSUME TypeOK, NEW r \in Requests, OwnOK(r), SubstitutionLoops(r)
  PROVE  OwnOK(r)'
<1>1. /\ pc[r] \in {"directives", "header_up"} /\ pc'[r] = "looping"
      /\ UNCHANGED <<input, snap, at, hdr, contacted, heard>>
  BY DEF SubstitutionLoops, AtOp, TypeOK
<1>2. ~contacted'[r] /\ pc'[r] \notin Walking
  BY <1>1 DEF OwnOK, CursorOK, Final, Walking
<1>3. CursorOK(r)'
  BY <1>1, <1>2 DEF OwnOK, CursorOK, Walking
<1>. QED
  BY <1>1, <1>2, <1>3 DEF OwnOK, AuthorizedSoFar, CleanSoFar

-----------------------------------------------------------------------------
(* The theorems                                                            *)

\* Every step of a request keeps its own OwnOK.
LEMMA OwnStep ==
  ASSUME TypeOK, NEW r \in Requests, OwnOK(r), TaskStep(r) \/ Timer(r) \/ Environment(r)
  PROVE  OwnOK(r)'
BY OwnArrival, OwnEnd, OwnDirective, OwnAsk, OwnOutcome, OwnUpstream, OwnLoop
   DEF TaskStep, Timer, Environment

\* The inductive invariant.
IInv == TypeOK /\ OnTrack

\* The inductive invariant holds at the start.
LEMMA InvInit == Init => IInv
<1> SUFFICES ASSUME Init PROVE IInv
  OBVIOUS
<1>1. TypeOK
  <2>1. NoCursor \in Cursors /\ NoHead \in Heads /\ NoUpstream \in Upstreams
        /\ NoResponse \in LogLines /\ [n \in HeaderNames |-> "absent"] \in HeaderMaps
        /\ "absent" \in Origins /\ "idle" \in PCs /\ {} \in Answered
    BY DEF Cursors, NoHead, NoIdentity, Heads, NoUpstream, Upstreams, NoResponse, LogLines,
           Origins, HeaderMaps, PCs, Answered
  <2>2. << >> \in Logs /\ << >> \in Counts /\ << >> \in AuthCounts
    BY DEF Logs, Counts, AuthCounts
  <2>. QED
    BY <2>1, <2>2 DEF Init, TypeOK
<1>2. ASSUME NEW r \in Requests PROVE OwnOK(r)
  BY DEF Init, OwnOK, CursorOK, AuthorizedSoFar, CleanSoFar, Walking
<1>. QED
  BY <1>1, <1>2 DEF IInv, OnTrack

\* Every step keeps the inductive invariant.
LEMMA InvStep == IInv /\ [Next]_vars => IInv'
<1> SUFFICES ASSUME IInv, [Next]_vars PROVE IInv'
  OBVIOUS
<1>1. TypeOK'
  BY TypeNext DEF IInv, OnTrack, OwnOK
<1>2. ASSUME NEW q \in Requests PROVE OwnOK(q)'
  <2>1. CASE UNCHANGED vars
    <3>1. Same(q)
      BY <2>1 DEF vars, Same
    <3>. QED
      BY <3>1, Frame DEF IInv, OnTrack
  <2>2. ASSUME NEW c \in Configs, UpdateConfig(c) PROVE OwnOK(q)'
    <3>1. Same(q)
      BY <2>2 DEF UpdateConfig, Same
    <3>. QED
      BY <3>1, Frame DEF IInv, OnTrack
  <2>3. ASSUME NEW r \in Requests, TaskStep(r) \/ Timer(r) \/ Environment(r)
        PROVE  OwnOK(q)'
    <3>1. CASE q = r
      BY <2>3, <3>1, OwnStep DEF IInv, OnTrack
    <3>2. CASE q # r
      <4>1. Same(q)
        BY <2>3, <3>2, OtherRequests DEF IInv, OnTrack
      <4>. QED
        BY <4>1, Frame DEF IInv, OnTrack
    <3>. QED
      BY <3>1, <3>2
  <2>. QED
    BY <2>1, <2>2, <2>3 DEF Next
<1>. QED
  BY <1>1, <1>2 DEF IInv, OnTrack

\* IInv is an invariant of the pipeline.
LEMMA InvHolds == Spec => []IInv
BY InvInit, InvStep, PTL DEF Spec

\* Every variable of the pipeline keeps its type, whatever the configuration,
\* however many requests are in flight and whatever the outside does.
THEOREM TypeCorrect == Spec => []TypeOK
<1>1. IInv => TypeOK
  BY DEF IInv, OnTrack
<1>. QED
  BY <1>1, InvHolds, PTL

\* forward_auth cannot be got round: with any nesting of blocks, any reloads
\* and any answers, failures and timeouts of the auth services, a request that
\* process_directives sent to a backend was authorized by every forward_auth
\* it went through.
THEOREM AuthorizationSafe == Spec => []AuthorizedBeforeBackend
<1>1. IInv => AuthorizedBeforeBackend
  BY DEF IInv, OnTrack, OwnOK, AuthorizedSoFar, AuthorizedBeforeBackend
<1>. QED
  BY <1>1, InvHolds, PTL

\* No client can spoof an identity header of a forward_auth on its way to a
\* backend, whatever scrub_identity_headers, later directives and header_up
\* do to the header map in between.
THEOREM IdentitySafe == Spec => []NoSpoofedIdentity
<1>1. IInv => NoSpoofedIdentity
  BY DEF IInv, OnTrack, OwnOK, CleanSoFar, NoSpoofedIdentity
<1>. QED
  BY <1>1, InvHolds, PTL

\* At every point of process_directives the cursor fits the task, every
\* forward_auth behind the request has authorized it and the identity headers
\* are clean: not only when a backend is contacted.
THEOREM OnTrackAlways == Spec => []OnTrack
<1>1. IInv => OnTrack
  BY DEF IInv
<1>. QED
  BY <1>1, InvHolds, PTL

\* build_auth_request copies only what the whitelist admits, writes the system
\* headers over it, and reads a header map from which the identity headers of
\* this guard and of every earlier one have been scrubbed.
LEMMA SubrequestFiltered == IInv => SubrequestIsFiltered
<1> DEFINE told(r, n) == AuthSubrequest(hdr[r], Directive(r), input[r].ascii)[n]
<1>1. ASSUME NEW r \in Requests, NEW n \in HeaderNames,
             told(r, n) \in FromClient \cup {"copy", "copy8"}
      PROVE  /\ n \in Directive(r).request_headers \cup
                      {"x-request-id", "x-forwarded-host", "x-original-uri", "x-original-method"}
             /\ n \notin {"host", "x-forwarded-for", "x-forwarded-proto"}
  BY <1>1 DEF AuthSubrequest, FromClient
<1>2. ASSUME IInv, NEW r \in Requests, pc[r] \in {"auth_wait", "auth_drain"},
             NEW n \in HeaderNames, told(r, n) \in FromClient
      PROVE  \A g \in GuardsPassed(r) \cup {at[r]} : n \notin GuardCfg(g).response_headers
  <2>1. hdr[r][n] \in FromClient
    BY <1>2 DEF AuthSubrequest, Text, Moved, FromClient
  <2>2. CleanSoFar(r)
    BY <1>2 DEF IInv, OnTrack, OwnOK
  <2>3. \A g \in GuardsPassed(r) : n \notin GuardCfg(g).response_headers
    BY <1>2, <2>1, <2>2 DEF CleanSoFar, Walking
  <2>4. n \notin GuardCfg(at[r]).response_headers
    BY <1>2, <2>1, <2>2 DEF CleanSoFar, GuardCfg, Directive
  <2>. QED
    BY <2>3, <2>4
<1> HIDE DEF told
<1>. QED
  BY <1>1, <1>2 DEF SubrequestIsFiltered, told

\* At any guard of any configuration the auth service is told text of the
\* request only where the configuration or the subrequest's own description
\* of it allows, and no client's value under the name of an identity header
\* that a forward_auth vouches for.
THEOREM SubrequestSafe == Spec => []SubrequestIsFiltered
BY SubrequestFiltered, InvHolds, PTL

-----------------------------------------------------------------------------
(* Records: the inductive invariant                                        *)

\* The block a request is in belongs to its snapshot.
OwnerOK(r) == pc[r] \in Walking => Owner[at[r][1]] = snap[r]

\* An identity in the header map was granted by a guard already passed.
GrantOK(r) ==
  /\ pc[r] = "routing" => \A n \in HeaderNames : hdr[r][n] \notin FromAuth
  /\ pc[r] \in Walking \/ contacted[r] => \A n \in HeaderNames :
       hdr[r][n] \in FromAuth =>
         \E g \in GuardsPassed(r) : n \in GuardCfg(g).response_headers /\ Granted(r, g)

\* One counter entry per guard passed, none of them a denial.
MetricsOK(r) ==
  /\ pc[r] \in {"idle", "routing"} => auths[r] = << >>
  /\ pc[r] \in Walking => /\ IsFiniteSet(GuardsPassed(r))
                          /\ Len(auths[r]) = Cardinality(GuardsPassed(r))
  /\ pc[r] \in Walking \/ contacted[r] =>
       \A k \in 1 .. Len(auths[r]) : auths[r][k] # "denied"

Renamed(r) == \E k \in 1 .. Len(Directive(r).header_up) :
                Directive(r).header_up[k].name = "x-request-id"

\* Until the ID is read for the last time it is not an unreadable one of the
\* client's; after that the header has the ID that was read, or none, or one
\* that could not be read, unless header_up is configured to change it.
IdOK(r) ==
  /\ pc[r] \in {"routing", "directives", "auth_wait", "auth_drain"} =>
       hdr[r]["x-request-id"] # "client8"
  /\ pc[r] \in {"header_up", "backend_wait"} \/ contacted[r] =>
       \/ hdr[r]["x-request-id"] \in {"absent", reqid[r]} \cup (Unreadable \ {"client8"})
       \/ Renamed(r)

\* The records of the two guards, by how far the request is.
LogOK(r) ==
  /\ pc[r] = "responded" => log[r] = <<resp[r]>> /\ counted[r] = <<resp[r].status>>
  /\ pc[r] \in {"aborted", "cancelled"} =>
       Len(log[r]) = 1 /\ log[r][1].status = 500 /\ counted[r] = << >>
  /\ pc[r] \notin Final => log[r] = << >> /\ counted[r] = << >>

InFlight == {r \in Requests : pc[r] \notin Final \cup {"idle"}}

\* Only finitely many requests have arrived, and the gauge counts them.
GaugeOK == IsFiniteSet(InFlight) /\ gauge = Cardinality(InFlight)

RecordOK(r) == OwnerOK(r) /\ GrantOK(r) /\ MetricsOK(r) /\ IdOK(r) /\ LogOK(r)

RInv == IInv /\ GaugeOK /\ \A r \in Requests : RecordOK(r)

-----------------------------------------------------------------------------
(* The six kinds of step.                                                  *)

\* The guards of r have not been dropped.
Quiet(r) ==
  resp'[r] = resp[r] /\ log'[r] = log[r] /\ counted'[r] = counted[r] /\ gauge' = gauge

Arrives(r) ==
  /\ pc[r] = "idle" /\ pc'[r] = "routing"
  /\ resp'[r] = resp[r] /\ log'[r] = log[r] /\ counted'[r] = counted[r] /\ gauge' = gauge + 1
  /\ auths'[r] = auths[r] /\ contacted'[r] = contacted[r]
  /\ \A n \in HeaderNames : hdr'[r][n] \notin FromAuth
  /\ hdr'[r]["x-request-id"] # "client8"

EntersSite(r) ==
  /\ pc[r] = "routing" /\ pc'[r] = "directives"
  /\ Quiet(r)
  /\ hdr'[r] = hdr[r] /\ auths'[r] = auths[r] /\ contacted'[r] = contacted[r]
  /\ Owner[at'[r][1]] = snap'[r]
  /\ GuardsPassed(r)' = {}

\* The three ways a request ID may change on the way.
IdKept(r) ==
  \/ /\ pc[r] \in {"directives", "auth_wait"} /\ pc'[r] \in {"directives", "auth_wait", "auth_drain"}
     /\ hdr'[r]["x-request-id"] = "client8" => hdr[r]["x-request-id"] = "client8"
  \/ /\ pc[r] = "directives" /\ pc'[r] = "header_up"
     /\ hdr'[r]["x-request-id"] = hdr[r]["x-request-id"] /\ reqid'[r] = FinalId(r)
  \/ /\ pc[r] = "header_up" /\ pc'[r] \in {"header_up", "backend_wait"}
     /\ at'[r] = at[r] /\ reqid'[r] = reqid[r]
     /\ hdr'[r]["x-request-id"] = hdr[r]["x-request-id"] \/ Renamed(r)

GoesFurther(r) ==
  /\ pc[r] \in Walking /\ pc'[r] \in Walking
  /\ Quiet(r)
  /\ snap'[r] = snap[r] /\ auths'[r] = auths[r]
  /\ Owner[at'[r][1]] = Owner[at[r][1]]
  /\ GuardsPassed(r)' = GuardsPassed(r) /\ heard[r] \subseteq heard'[r]
  /\ \A n \in HeaderNames : hdr'[r][n] \in FromAuth => hdr[r][n] \in FromAuth
  /\ IdKept(r)

PassesOne(r) ==
  /\ pc[r] \in {"auth_wait", "auth_drain"} /\ pc'[r] = "directives"
  /\ Quiet(r)
  /\ snap'[r] = snap[r] /\ at'[r][1] = at[r][1] /\ contacted'[r] = contacted[r]
  /\ at[r] \notin GuardsPassed(r) /\ GuardsPassed(r)' = GuardsPassed(r) \cup {at[r]}
  /\ heard[r] \subseteq heard'[r]
  /\ \E x \in {"allowed", "error"} : auths'[r] = Append(auths[r], x)
  /\ \A n \in HeaderNames : hdr'[r][n] \in FromAuth =>
       \/ hdr[r][n] \in FromAuth
       \/ n \in GuardCfg(at[r]).response_headers /\ \E s \in 200 .. 299 : <<at[r], s, "body">> \in heard'[r]
  /\ hdr'[r]["x-request-id"] = "client8" => hdr[r]["x-request-id"] = "client8"

\* How the two guards record the end.
Recorded(r) ==
  \E rec : /\ log'[r] = Append(log[r], rec)
           /\ \/ /\ pc'[r] = "responded" /\ resp'[r] = rec
                 /\ counted'[r] = Append(counted[r], rec.status)
              \/ /\ pc'[r] \in {"aborted", "cancelled"} /\ rec.status = 500
                 /\ counted'[r] = counted[r]

Finishes(r) ==
  /\ pc[r] \notin Final \cup {"idle"} /\ pc'[r] \in Final
  /\ gauge' = gauge - 1
  /\ at'[r] = at[r] /\ hdr'[r] = hdr[r] /\ contacted'[r] = contacted[r]
  /\ contacted[r] => reqid'[r] = reqid[r] /\ auths'[r] = auths[r] /\ heard'[r] = heard[r]
  /\ Recorded(r)

\* The task is stuck in a substitution.
Sticks(r) ==
  /\ pc[r] \in {"directives", "header_up"} /\ pc'[r] = "looping"
  /\ Quiet(r)
  /\ ~contacted'[r]

\* A response is recorded as it is sent.
LEMMA RespondRecords ==
  ASSUME TypeOK, NEW r \in Requests, NEW s, NEW id, Respond(r, s, id)
  PROVE  Recorded(r) /\ pc'[r] \in Final /\ gauge' = gauge - 1
<1> DEFINE rec == [status |-> s, id |-> id]
<1>1. /\ log'[r] = Append(log[r], rec) /\ resp'[r] = rec /\ pc'[r] = "responded"
      /\ counted'[r] = Append(counted[r], s) /\ gauge' = gauge - 1
  BY DEF TypeOK, Respond
<1>2. rec.status = s
  OBVIOUS
<1> HIDE DEF rec
<1>. QED
  BY <1>1, <1>2 DEF Recorded, Final

\* A future dropped without a response is logged as 500 and not counted.
LEMMA AbandonRecords ==
  ASSUME TypeOK, NEW r \in Requests, NEW how \in {"aborted", "cancelled"}, NEW id,
         Abandon(r, how, id)
  PROVE  Recorded(r) /\ pc'[r] \in Final /\ gauge' = gauge - 1
<1> DEFINE rec == [status |-> 500, id |-> id]
<1>1. /\ log'[r] = Append(log[r], rec) /\ pc'[r] = how
      /\ counted'[r] = counted[r] /\ gauge' = gauge - 1
  BY DEF TypeOK, Abandon
<1>2. rec.status = 500
  OBVIOUS
<1> HIDE DEF rec
<1>. QED
  BY <1>1, <1>2 DEF Recorded, Final

\* ensure_request_id leaves a readable ID and invents no identity.
LEMMA ArrivesFacts ==
  ASSUME TypeOK, NEW r \in Requests, NEW i \in Inputs, Receive(r, i)
  PROVE  Arrives(r)
<1>1. i.hdr \in [HeaderNames -> FromClient \cup {"absent"}] /\ "x-request-id" \in HeaderNames
  BY InputsAssumption DEF SystemHeaders
<1>2. /\ \A n \in HeaderNames : EnsureRequestId(i.hdr)[n] \notin FromAuth
      /\ EnsureRequestId(i.hdr)["x-request-id"] # "client8"
  BY <1>1 DEF EnsureRequestId, Readable, FromClient, FromAuth
<1>3. hdr'[r] = EnsureRequestId(i.hdr) /\ pc[r] = "idle" /\ pc'[r] = "routing"
      /\ gauge' = gauge + 1 /\ UNCHANGED <<resp, log, counted, auths, contacted>>
  BY DEF TypeOK, Receive
<1>. QED
  BY <1>2, <1>3 DEF Arrives

\* find_site returns a site of the snapshot, whose block has no guard above it.
LEMMA EntersFacts ==
  ASSUME TypeOK, NEW r \in Requests, OwnOK(r), EnterSite(r)
  PROVE  EntersSite(r)
<1>1. PICK site \in SiteOf(r) : at' = [at EXCEPT ![r] = <<site.root, 1>>]
  BY DEF EnterSite
<1>2. snap[r] \in Configs /\ pc[r] = "routing"
  BY DEF EnterSite, OwnOK, CursorOK
<1>3. site \in Sites[snap[r]]
  BY <1>1 DEF SiteOf, FindSite, SitesAt, SniMatches
<1>4. site.root \in Blocks /\ GuardsAbove[site.root] = {} /\ Owner[site.root] = snap[r]
  BY <1>2, <1>3, OwnerAssumption, GuardsAssumption
<1>5. at'[r][1] = site.root /\ at'[r][2] = 1
  BY <1>1 DEF TypeOK
<1>6. GuardsPassed(r)' = {}
  BY <1>4, <1>5, PassedFirst DEF GuardsPassed, Passed
<1>7. /\ pc'[r] = "directives"
      /\ UNCHANGED <<snap, hdr, auths, contacted, resp, log, counted, gauge>>
  BY DEF EnterSite, NotEnded, TypeOK
<1>. QED
  BY <1>2, <1>4, <1>5, <1>6, <1>7 DEF EntersSite, Quiet

\* No identity and no unreadable request ID that was not there before.
Tame(old, new) ==
  /\ \A n \in HeaderNames : new[n] \in FromAuth => old[n] \in FromAuth
  /\ new["x-request-id"] = "client8" => old["x-request-id"] = "client8"

\* handle_header and apply_header_up neither invent an identity nor bring an
\* unreadable request ID of the client's back, and change no other header than
\* the one named.
LEMMA ApplyTame ==
  ASSUME NEW h \in HeaderMaps, NEW d, NEW v \in Written
  PROVE  /\ Tame(h, ApplyHeader(h, d, v))
         /\ ApplyHeader(h, d, v)["x-request-id"] = h["x-request-id"] \/ d.name = "x-request-id"
BY InputsAssumption DEF Tame, ApplyHeader, HeaderMaps, SystemHeaders, Written, FromAuth

\* A directive that neither ends the request nor waits.
LEMMA DirectiveGoes ==
  ASSUME TypeOK, NEW r \in Requests, OwnOK(r),
         \/ HeaderDirective(r) \/ UriReplaceDirective(r) \/ StripPrefixDirective(r)
         \/ HandlePathDirective(r) \/ MethodDirective(r)
  PROVE  GoesFurther(r)
<1>1. PICK op \in Ops \ {"forward_auth"} : AtOp(r, op)
  BY DEF HeaderDirective, UriReplaceDirective, StripPrefixDirective,
         HandlePathDirective, MethodDirective, Ops
<1>2. /\ at[r][1] \in Blocks /\ at[r][2] \in 1 .. Len(Program[at[r][1]])
      /\ Directive(r).op = op /\ pc[r] = "directives"
  BY <1>1, AtOpFacts DEF AtOp, OwnOK
<1>3. /\ UNCHANGED <<pc, snap, auths, heard, resp, log, counted, gauge>>
  BY DEF HeaderDirective, UriReplaceDirective, StripPrefixDirective,
         HandlePathDirective, MethodDirective, NotEnded
<1>4. Owner[at'[r][1]] = Owner[at[r][1]] /\ GuardsPassed(r)' = GuardsPassed(r)
  <2>1. CASE Advance(r)
    <3>1. at'[r][1] = at[r][1] /\ at'[r][2] = at[r][2] + 1
      BY <2>1 DEF Advance, TypeOK
    <3>2. Program[at[r][1]][at[r][2]].op # "forward_auth"
      BY <1>1, <1>2 DEF Directive
    <3>3. Passed(at[r][1], at[r][2] + 1) = Passed(at[r][1], at[r][2]) \cup {}
      BY <1>2, <3>2, PassedNext
    <3>. QED
      BY <3>1, <3>3 DEF GuardsPassed, Passed
  <2>2. CASE ~Advance(r)
    <3>1. Directive(r).op \in {"handle_path", "method"} /\ Enter(r, Directive(r).body)
      BY <1>2, <2>2 DEF HeaderDirective, UriReplaceDirective, StripPrefixDirective,
                      HandlePathDirective, MethodDirective, AtOp
    <3> DEFINE body == Directive(r).body
    <3>2. /\ body \in Blocks /\ Owner[body] = Owner[at[r][1]]
          /\ GuardsAbove[body] = GuardsAbove[at[r][1]] \cup GuardsBefore(at[r][1], at[r][2])
      <4>1. Program[at[r][1]][at[r][2]].op \in {"handle_path", "method"}
        BY <3>1 DEF Directive
      <4>2. body \in Blocks
        BY <1>2, <4>1, ProgramAssumption DEF Directive
      <4>3. Owner[body] = Owner[at[r][1]]
        BY <1>2, <4>1, OwnerAssumption DEF Directive
      <4>4. GuardsAbove[body] = GuardsAbove[at[r][1]] \cup GuardsBefore(at[r][1], at[r][2])
        BY <1>2, <4>1, GuardsAssumption DEF Directive
      <4>. QED
        BY <4>2, <4>3, <4>4
    <3>3. at'[r][1] = body /\ at'[r][2] = 1
      BY <3>1 DEF Enter, TypeOK
    <3> HIDE DEF body
    <3>4. Passed(body, 1) = GuardsAbove[body]
      BY <3>2, PassedFirst
    <3>. QED
      BY <3>2, <3>3, <3>4 DEF GuardsPassed, Passed
  <2>. QED
    BY <2>1, <2>2
<1>5. Tame(hdr[r], hdr'[r])
  <2>1. CASE hdr' = hdr
    BY <2>1 DEF Tame
  <2>2. CASE hdr' # hdr
    <3>1. HeaderDirective(r)
      BY <2>2 DEF UriReplaceDirective, StripPrefixDirective, HandlePathDirective, MethodDirective
    <3>2. PICK v \in Written : hdr' = [hdr EXCEPT ![r] = ApplyHeader(@, Directive(r), v)]
      BY <3>1, SubstType DEF HeaderDirective
    <3>3. hdr'[r] = ApplyHeader(hdr[r], Directive(r), v) /\ hdr[r] \in HeaderMaps
      BY <3>2 DEF TypeOK
    <3>. QED
      BY <3>3, ApplyTame, Zenon
  <2>. QED
    BY <2>1, <2>2
<1>. QED
  BY <1>2, <1>3, <1>4, <1>5 DEF GoesFurther, Quiet, IdKept, Walking, Tame

\* The subrequest starts, and its response head arrives.
LEMMA AskGoes ==
  ASSUME TypeOK, NEW r \in Requests, OwnOK(r),
         ForwardAuthDirective(r) \/ \E a \in AuthAnswers : AuthHead(r, a)
  PROVE  GoesFurther(r)
<1>1. /\ UNCHANGED <<snap, at, auths, resp, log, counted, gauge>>
      /\ heard[r] \subseteq heard'[r]
      /\ \/ pc[r] = "directives" /\ pc'[r] = "auth_wait"
         \/ pc[r] = "auth_wait" /\ pc'[r] = "auth_drain"
      /\ hdr'[r] \in {hdr[r], ScrubIdentity(hdr[r], Directive(r))}
  BY DEF ForwardAuthDirective, AuthHead, AtOp, NotEnded, TypeOK
<1>2. Tame(hdr[r], hdr'[r])
  BY <1>1, InputsAssumption DEF Tame, ScrubIdentity, SystemHeaders, FromAuth
<1>3. GuardsPassed(r)' = GuardsPassed(r)
  BY <1>1 DEF GuardsPassed
<1>. QED
  BY <1>1, <1>2, <1>3 DEF GoesFurther, Quiet, IdKept, Walking, Tame

\* The request is made ready for its backend and sent.
LEMMA UpstreamGoes ==
  ASSUME TypeOK, NEW r \in Requests, OwnOK(r),
         \/ ReverseProxyDirective(r) /\ UriOk(Directive(r), path[r])
         \/ HeaderUp(r) \/ SendUpstream(r)
  PROVE  GoesFurther(r)
<1>1. /\ UNCHANGED <<snap, at, auths, heard, resp, log, counted, gauge>>
      /\ pc[r] \in {"directives", "header_up"}
      /\ pc'[r] \in {"header_up", "backend_wait"}
  BY DEF ReverseProxyDirective, HeaderUp, SendUpstream, AtOp, NotEnded, TypeOK
<1>2. GuardsPassed(r)' = GuardsPassed(r)
  BY <1>1 DEF GuardsPassed
<1>3. hdr[r] \in HeaderMaps /\ "x-request-id" \in HeaderNames
  BY InputsAssumption DEF TypeOK, SystemHeaders
<1>4. Tame(hdr[r], hdr'[r]) /\ IdKept(r)
  <2>1. CASE ReverseProxyDirective(r) /\ UriOk(Directive(r), path[r])
    <3>1. /\ hdr'[r] = Outbound(hdr[r]) /\ reqid'[r] = FinalId(r)
          /\ pc[r] = "directives" /\ pc'[r] = "header_up"
      BY <2>1 DEF ReverseProxyDirective, AtOp, TypeOK
    <3>2. Outbound(hdr[r])["x-request-id"] = hdr[r]["x-request-id"]
      BY <1>3 DEF Outbound, HeaderMaps
    <3>3. \A n \in HeaderNames : Outbound(hdr[r])[n] \in FromAuth => hdr[r][n] \in FromAuth
      BY <1>3 DEF Outbound, Moved, HeaderMaps, FromAuth
    <3>. QED
      BY <3>1, <3>2, <3>3 DEF Tame, IdKept
  <2>2. CASE HeaderUp(r)
    <3> DEFINE d == Directive(r).header_up[up[r].next]
    <3>1. /\ pc[r] = "header_up" /\ pc' = pc /\ UNCHANGED <<at, reqid>>
      BY <2>2 DEF HeaderUp, TypeOK
    <3>2. up[r].next \in 1 .. Len(Directive(r).header_up)
      <4>1. up[r].next \in Nat \ {0} /\ up[r].next <= Len(Directive(r).header_up)
        BY <2>2 DEF HeaderUp, OwnOK, CursorOK
      <4>2. Len(Directive(r).header_up) \in Nat
        BY <3>1, WaitFacts, ProgramAssumption DEF Directive, OwnOK
      <4>. QED
        BY <4>1, <4>2
    <3>3. d.name = "x-request-id" => Renamed(r)
      BY <3>2 DEF Renamed
    <3>4. PICK v \in Written : hdr'[r] = ApplyHeader(hdr[r], d, v)
      <4>1. up[r].ip \in {"copy", "proxy"}
        BY DEF TypeOK, Upstreams
      <4>. QED
        BY <2>2, <4>1, UpSubstType DEF HeaderUp, TypeOK
    <3> HIDE DEF d
    <3>5. /\ Tame(hdr[r], ApplyHeader(hdr[r], d, v))
          /\ \/ ApplyHeader(hdr[r], d, v)["x-request-id"] = hdr[r]["x-request-id"]
             \/ d.name = "x-request-id"
      BY <1>3, <3>4, ApplyTame, Zenon
    <3>. QED
      BY <3>1, <3>3, <3>4, <3>5 DEF IdKept
  <2>3. CASE SendUpstream(r)
    <3>1. /\ pc[r] = "header_up" /\ pc'[r] = "backend_wait" /\ UNCHANGED <<at, reqid, hdr>>
      BY <2>3 DEF SendUpstream, TypeOK
    <3>. QED
      BY <3>1 DEF IdKept, Tame
  <2>. QED
    BY <2>1, <2>2, <2>3
<1>. QED
  BY <1>1, <1>2, <1>4 DEF GoesFurther, Quiet, Walking, Tame

\* A subrequest is resolved: the request passes the guard or ends.
LEMMA OutcomeKinds ==
  ASSUME TypeOK, NEW r \in Requests, OwnOK(r),
         AuthBodyDone(r) \/ AuthBodyBroken(r) \/ AuthError(r) \/ AuthTimeout(r)
  PROVE  PassesOne(r) \/ Finishes(r)
<1> DEFINE here == at[r]
           s == head[r].status
<1>1. /\ pc[r] \in {"auth_wait", "auth_drain"}
      /\ UNCHANGED <<snap, contacted>>
      /\ heard'[r] \in {heard[r], heard[r] \cup {<<here, s, "body">>}}
  BY DEF AuthBodyDone, AuthBodyBroken, AuthError, AuthTimeout, TypeOK
<1>2. ~contacted[r]
  BY <1>1 DEF OwnOK, CursorOK, Final
<1>3. \/ AuthAllowed(r) /\ IsSuccess(s) /\ <<here, s, "body">> \in heard'[r]
      \/ AuthDenied(r) \/ AuthFailed(r)
  BY DEF AuthBodyDone, AuthBodyBroken, AuthError, AuthTimeout, TypeOK
<1>4. ASSUME NEW t, DenyAuth(r, t) PROVE Finishes(r)
  <2>1. Respond(r, t, FinalId(r)) /\ UNCHANGED <<hdr, at>>
    BY <1>4 DEF DenyAuth
  <2>2. Recorded(r) /\ pc'[r] \in Final /\ gauge' = gauge - 1
    BY <2>1, RespondRecords
  <2>. QED
    BY <1>1, <1>2, <2>1, <2>2 DEF Finishes, Final
<1>5. ASSUME Advance(r), pc' = [pc EXCEPT ![r] = "directives"], NotEnded,
             NEW x \in {"allowed", "error"}, RecordAuth(r, x),
             \A n \in HeaderNames : hdr'[r][n] \in FromAuth =>
               \/ hdr[r][n] \in FromAuth
               \/ /\ n \in GuardCfg(at[r]).response_headers
                  /\ \E z \in 200 .. 299 : <<at[r], z, "body">> \in heard'[r],
             hdr'[r]["x-request-id"] = "client8" => hdr[r]["x-request-id"] = "client8"
      PROVE  PassesOne(r)
  <2>1. /\ at[r][1] \in Blocks /\ at[r][2] \in 1 .. Len(Program[at[r][1]])
        /\ Directive(r).op = "forward_auth"
    BY <1>1, WaitFacts DEF OwnOK
  <2>2. at[r] = <<at[r][1], at[r][2]>>
    BY <2>1 DEF TypeOK, Cursors, NoCursor
  <2>3. at'[r][1] = at[r][1] /\ at'[r][2] = at[r][2] + 1
    BY <1>5 DEF Advance, TypeOK
  <2>4. Passed(at[r][1], at[r][2] + 1) = Passed(at[r][1], at[r][2]) \cup {at[r]}
    BY <2>1, <2>2, PassedNext DEF Directive
  <2>5. GuardsPassed(r)' = GuardsPassed(r) \cup {at[r]}
    BY <2>3, <2>4 DEF GuardsPassed, Passed
  <2>6. at[r] \notin GuardsPassed(r)
    BY <2>1, PassedFacts DEF GuardsPassed, Passed
  <2>7. pc'[r] = "directives" /\ auths'[r] = Append(auths[r], x)
        /\ UNCHANGED <<resp, log, counted, gauge>>
    BY <1>5 DEF RecordAuth, NotEnded, TypeOK
  <2>8. heard[r] \subseteq heard'[r]
    BY <1>1
  <2>. QED
    BY <1>1, <1>5, <2>3, <2>5, <2>6, <2>7, <2>8 DEF PassesOne, Quiet
<1>6. CASE AuthAllowed(r) /\ IsSuccess(s) /\ <<here, s, "body">> \in heard'[r]
  <2>1. hdr'[r] = ApplyIdentity(hdr[r], Directive(r), head[r].ident)
    BY <1>6 DEF AuthAllowed, TypeOK
  <2>2. \E z \in 200 .. 299 : <<at[r], z, "body">> \in heard'[r]
    BY <1>6 DEF IsSuccess
  <2>3. /\ \A n \in HeaderNames : hdr'[r][n] \in FromAuth =>
             hdr[r][n] \in FromAuth \/ n \in GuardCfg(at[r]).response_headers
        /\ hdr'[r]["x-request-id"] = "client8" => hdr[r]["x-request-id"] = "client8"
    <3>1. head[r].ident \in [HeaderNames -> FromAuth \cup {"absent"}]
      BY DEF TypeOK, Heads
    <3>2. "x-request-id" \in HeaderNames
      BY InputsAssumption DEF SystemHeaders
    <3>. QED
      BY <2>1, <3>1, <3>2 DEF ApplyIdentity, GuardCfg, Directive, FromAuth
  <2>4. Advance(r) /\ pc' = [pc EXCEPT ![r] = "directives"] /\ NotEnded
        /\ RecordAuth(r, "allowed")
    BY <1>6 DEF AuthAllowed
  <2>. QED
    BY <1>5, <2>2, <2>3, <2>4
<1>7. CASE AuthDenied(r)
  BY <1>4, <1>7 DEF AuthDenied
<1>8. CASE AuthFailed(r)
  <2>1. CASE DenyAuth(r, 503)
    BY <1>4, <2>1
  <2>2. CASE ~DenyAuth(r, 503)
    <3>1. Advance(r) /\ pc' = [pc EXCEPT ![r] = "directives"] /\ NotEnded
          /\ RecordAuth(r, "error") /\ hdr' = hdr
      BY <1>8, <2>2 DEF AuthFailed
    <3>. QED
      BY <1>5, <3>1
  <2>. QED
    BY <2>1, <2>2
<1>. QED
  BY <1>3, <1>6, <1>7, <1>8

\* A terminal directive, the backend's answer or the client's disappearance
\* ends the request.
LEMMA EndKinds ==
  ASSUME TypeOK, NEW r \in Requests, OwnOK(r),
         \/ NoSiteFound(r) \/ RedirectDirective(r) \/ RespondDirective(r) \/ NoActionDirective(r)
         \/ ReverseProxyDirective(r) /\ ~UriOk(Directive(r), path[r])
         \/ (\E s \in BackendStatuses : BackendResponse(r, s))
         \/ BackendError(r) \/ BackendTimeout(r) \/ ClientDisconnect(r)
  PROVE  Finishes(r)
<1>1. /\ UNCHANGED <<at, hdr, auths, contacted, heard>>
      /\ pc[r] \in {"routing", "directives"} \cup Waiting
      /\ pc[r] \in Waiting => UNCHANGED reqid
  <2>1. CASE \/ NoSiteFound(r) \/ RedirectDirective(r) \/ RespondDirective(r)
             \/ NoActionDirective(r)
             \/ ReverseProxyDirective(r) /\ ~UriOk(Directive(r), path[r])
    BY <2>1 DEF NoSiteFound, RedirectDirective, RespondDirective, NoActionDirective,
                ReverseProxyDirective, AtOp, Waiting
  <2>2. CASE \/ (\E s \in BackendStatuses : BackendResponse(r, s))
             \/ BackendError(r) \/ BackendTimeout(r) \/ ClientDisconnect(r)
    BY <2>2 DEF BackendResponse, BackendError, BackendTimeout, ClientDisconnect, Waiting
  <2>. QED
    BY <2>1, <2>2
<1>2. contacted[r] => pc[r] \in Waiting
  BY <1>1 DEF OwnOK, CursorOK, Final
<1>3. \/ \E t, id : Respond(r, t, id)
      \/ \E how \in {"aborted", "cancelled"} : \E id : Abandon(r, how, id)
  BY DEF NoSiteFound, RedirectDirective, RespondDirective, NoActionDirective,
         ReverseProxyDirective, BackendResponse, BackendError, BackendTimeout, ClientDisconnect
<1>4. Recorded(r) /\ pc'[r] \in Final /\ gauge' = gauge - 1
  BY <1>3, RespondRecords, AbandonRecords
<1>5. pc[r] \notin Final \cup {"idle"}
  BY <1>1 DEF Final, Waiting
<1>. QED
  BY <1>1, <1>2, <1>4, <1>5 DEF Finishes

\* A substitution that never returns.
LEMMA LoopSticks ==
  ASSUME TypeOK, NEW r \in Requests, OwnOK(r), SubstitutionLoops(r)
  PROVE  Sticks(r)
<1>1. /\ pc[r] \in {"directives", "header_up"} /\ pc'[r] = "looping"
      /\ UNCHANGED <<contacted, resp, log, counted, gauge>>
  BY DEF SubstitutionLoops, AtOp, NotEnded, TypeOK
<1>2. ~contacted[r]
  BY <1>1 DEF OwnOK, CursorOK, Final
<1>. QED
  BY <1>1, <1>2 DEF Sticks, Quiet

\* Every step of a request is of one of the six kinds.
LEMMA StepKinds ==
  ASSUME TypeOK, NEW r \in Requests, OwnOK(r), TaskStep(r) \/ Timer(r) \/ Environment(r)
  PROVE  Arrives(r) \/ EntersSite(r) \/ GoesFurther(r) \/ PassesOne(r) \/ Sticks(r)
         \/ Finishes(r)
BY ArrivesFacts, EntersFacts, DirectiveGoes, AskGoes, UpstreamGoes, OutcomeKinds, EndKinds,
   LoopSticks
   DEF TaskStep, Timer, Environment

-----------------------------------------------------------------------------
(* A step of r and the records of another request.                         *)

\* Everything RecordOK reads of request q is left alone.
SameRecords(q) ==
  /\ Same(q) /\ reqid'[q] = reqid[q] /\ resp'[q] = resp[q] /\ log'[q] = log[q]
  /\ counted'[q] = counted[q] /\ auths'[q] = auths[q]

\* The records of a request are its own: each task has its own guards.
LEMMA OtherRecords ==
  ASSUME TypeOK, NEW r \in Requests, NEW q \in Requests, q # r,
         TaskStep(r) \/ Timer(r) \/ Environment(r)
  PROVE  SameRecords(q)
<1> DEFINE Kept == /\ reqid'[q] = reqid[q] /\ resp'[q] = resp[q] /\ log'[q] = log[q]
                   /\ counted'[q] = counted[q] /\ auths'[q] = auths[q]
<1> SUFFICES Kept
  BY OtherRequests DEF SameRecords
<1>1. ASSUME NEW s, NEW id, Respond(r, s, id)
      PROVE  resp'[q] = resp[q] /\ log'[q] = log[q] /\ counted'[q] = counted[q]
  BY <1>1 DEF Respond, TypeOK
<1>2. ASSUME NEW how, NEW id, Abandon(r, how, id)
      PROVE  resp'[q] = resp[q] /\ log'[q] = log[q] /\ counted'[q] = counted[q]
  BY <1>2 DEF Abandon, TypeOK
<1>3. NotEnded => resp'[q] = resp[q] /\ log'[q] = log[q] /\ counted'[q] = counted[q]
  BY DEF NotEnded
<1>4. ASSUME NEW i \in Inputs, Receive(r, i) PROVE Kept
  BY <1>4 DEF Receive, TypeOK
<1>5. ASSUME \/ EnterSite(r) \/ ForwardAuthDirective(r) \/ HeaderUp(r) \/ SendUpstream(r)
             \/ SubstitutionLoops(r)
      PROVE  Kept
  BY <1>5, <1>3 DEF EnterSite, ForwardAuthDirective, HeaderUp, SendUpstream, SubstitutionLoops
<1>6. ASSUME NEW a \in AuthAnswers, AuthHead(r, a) PROVE Kept
  BY <1>6, <1>3 DEF AuthHead
<1>7. ASSUME \/ HeaderDirective(r) \/ UriReplaceDirective(r) \/ StripPrefixDirective(r)
             \/ HandlePathDirective(r) \/ MethodDirective(r)
      PROVE  Kept
  BY <1>7, <1>3 DEF HeaderDirective, UriReplaceDirective, StripPrefixDirective,
                    HandlePathDirective, MethodDirective
<1>8. ASSUME NoSiteFound(r) \/ RedirectDirective(r) \/ RespondDirective(r) \/ NoActionDirective(r)
      PROVE  Kept
  BY <1>8, <1>1, <1>2
     DEF NoSiteFound, RedirectDirective, RespondDirective, NoActionDirective, TypeOK
<1>9. ASSUME ReverseProxyDirective(r) PROVE Kept
  BY <1>9, <1>2, <1>3 DEF ReverseProxyDirective, TypeOK
<1>10. ASSUME \/ (\E s \in BackendStatuses : BackendResponse(r, s))
              \/ BackendError(r) \/ BackendTimeout(r) \/ ClientDisconnect(r)
       PROVE  Kept
  BY <1>10, <1>1, <1>2 DEF BackendResponse, BackendError, BackendTimeout, ClientDisconnect
<1>11. ASSUME AuthBodyDone(r) \/ AuthBodyBroken(r) \/ AuthError(r) \/ AuthTimeout(r)
       PROVE  Kept
  <2>1. AuthAllowed(r) \/ AuthDenied(r) \/ AuthFailed(r)
    BY <1>11 DEF AuthBodyDone, AuthBodyBroken, AuthError, AuthTimeout
  <2>2. auths'[q] = auths[q]
    BY <2>1 DEF AuthAllowed, AuthDenied, AuthFailed, RecordAuth, TypeOK
  <2>3. ASSUME NEW t, DenyAuth(r, t) PROVE Kept
    BY <2>2, <2>3, <1>1 DEF DenyAuth, TypeOK
  <2>. QED
    BY <2>1, <2>2, <2>3, <1>3 DEF AuthAllowed, AuthDenied, AuthFailed
<1> HIDE DEF Kept
<1>. QED
  BY <1>4, <1>5, <1>6, <1>7, <1>8, <1>9, <1>10, <1>11 DEF TaskStep, Timer, Environment

\* A step that leaves alone what RecordOK reads of q keeps RecordOK(q).
LEMMA RecordFrame ==
  ASSUME NEW q \in Requests, RecordOK(q), SameRecords(q)
  PROVE  RecordOK(q)'
<1>1. GuardsPassed(q)' = GuardsPassed(q) /\ Directive(q)' = Directive(q)
  BY DEF SameRecords, Same, GuardsPassed, Directive
<1>2. OwnerOK(q)'
  BY DEF RecordOK, OwnerOK, SameRecords, Same
<1>3. GrantOK(q)'
  <2>1. \A g : Granted(q, g)' <=> Granted(q, g)
    BY DEF SameRecords, Same, Granted
  <2>. QED
    BY <1>1, <2>1 DEF RecordOK, GrantOK, SameRecords, Same
<1>4. MetricsOK(q)'
  BY <1>1 DEF RecordOK, MetricsOK, SameRecords, Same
<1>5. IdOK(q)'
  BY <1>1 DEF RecordOK, IdOK, Renamed, SameRecords, Same
<1>6. LogOK(q)'
  BY DEF RecordOK, LogOK, SameRecords, Same
<1>. QED
  BY <1>2, <1>3, <1>4, <1>5, <1>6 DEF RecordOK

-----------------------------------------------------------------------------
(* Each clause of RecordOK, for each kind of step.                         *)

\* Hot reloads do not reach a request: nested blocks belong to the same
\* configuration, and the snapshot stays.
LEMMA OwnerStep ==
  ASSUME NEW r \in Requests, OwnerOK(r),
         Arrives(r) \/ EntersSite(r) \/ GoesFurther(r) \/ PassesOne(r) \/ Sticks(r)
         \/ Finishes(r)
  PROVE  OwnerOK(r)'
<1>1. CASE Arrives(r) \/ Sticks(r) \/ Finishes(r)
  BY <1>1 DEF OwnerOK, Arrives, Sticks, Finishes, Walking, Final
<1>2. CASE EntersSite(r)
  BY <1>2 DEF OwnerOK, EntersSite
<1>3. CASE GoesFurther(r)
  BY <1>3 DEF OwnerOK, GoesFurther
<1>4. CASE PassesOne(r)
  BY <1>4 DEF OwnerOK, PassesOne, Walking
<1>. QED
  BY <1>1, <1>2, <1>3, <1>4

\* An identity stays granted: a guard passed stays passed, an answer heard
\* stays heard, and only a complete 2xx brings a new identity.
LEMMA GrantStep ==
  ASSUME NEW r \in Requests, OwnOK(r), GrantOK(r),
         Arrives(r) \/ EntersSite(r) \/ GoesFurther(r) \/ PassesOne(r) \/ Sticks(r)
         \/ Finishes(r)
  PROVE  GrantOK(r)'
<1>1. ASSUME heard[r] \subseteq heard'[r], NEW g, Granted(r, g) PROVE Granted(r, g)'
  BY <1>1 DEF Granted
<1>2. CASE Arrives(r)
  BY <1>2 DEF GrantOK, Arrives, Walking, OwnOK, CursorOK, Final
<1>3. CASE EntersSite(r)
  BY <1>3 DEF GrantOK, EntersSite, Walking, OwnOK, CursorOK, Final
<1>4. CASE GoesFurther(r)
  <2>1. \A n \in HeaderNames : hdr'[r][n] \in FromAuth =>
          \E g \in GuardsPassed(r)' : n \in GuardCfg(g).response_headers /\ Granted(r, g)'
    BY <1>1, <1>4 DEF GrantOK, GoesFurther
  <2>2. pc'[r] # "routing"
    BY <1>4 DEF GoesFurther, Walking
  <2>. QED
    BY <2>1, <2>2 DEF GrantOK
<1>5. CASE PassesOne(r)
  <2>1. \A n \in HeaderNames : hdr[r][n] \in FromAuth =>
          \E g \in GuardsPassed(r)' : n \in GuardCfg(g).response_headers /\ Granted(r, g)'
    BY <1>1, <1>5 DEF GrantOK, PassesOne, Walking
  <2>2. (\E s \in 200 .. 299 : <<at[r], s, "body">> \in heard'[r]) =>
          \E g \in GuardsPassed(r)' : g = at[r] /\ Granted(r, g)'
    BY <1>5 DEF PassesOne, Granted
  <2>3. \A n \in HeaderNames : hdr'[r][n] \in FromAuth =>
          \E g \in GuardsPassed(r)' : n \in GuardCfg(g).response_headers /\ Granted(r, g)'
    BY <1>5, <2>1, <2>2 DEF PassesOne
  <2>4. pc'[r] # "routing"
    BY <1>5 DEF PassesOne
  <2>. QED
    BY <2>3, <2>4 DEF GrantOK
<1>6. CASE Finishes(r)
  <2>1. contacted[r] => \A g : Granted(r, g)' <=> Granted(r, g)
    BY <1>6 DEF Finishes, Granted
  <2>2. GuardsPassed(r)' = GuardsPassed(r)
    BY <1>6 DEF Finishes, GuardsPassed
  <2>3. pc'[r] \notin Walking /\ pc'[r] # "routing" /\ hdr'[r] = hdr[r]
        /\ contacted'[r] = contacted[r]
    BY <1>6 DEF Finishes, Final, Walking
  <2>. QED
    BY <2>1, <2>2, <2>3 DEF GrantOK
<1>7. CASE Sticks(r)
  BY <1>7 DEF GrantOK, Sticks, Walking
<1>. QED
  BY <1>2, <1>3, <1>4, <1>5, <1>6, <1>7

\* Each guard passed adds one entry that is no denial.
LEMMA MetricsStep ==
  ASSUME TypeOK, NEW r \in Requests, OwnOK(r), MetricsOK(r),
         Arrives(r) \/ EntersSite(r) \/ GoesFurther(r) \/ PassesOne(r) \/ Sticks(r)
         \/ Finishes(r)
  PROVE  MetricsOK(r)'
<1>1. CASE Arrives(r)
  BY <1>1 DEF MetricsOK, Arrives, Walking, OwnOK, CursorOK, Final
<1>2. CASE EntersSite(r)
  <2>1. auths'[r] = << >> /\ GuardsPassed(r)' = {} /\ pc'[r] = "directives"
    BY <1>2 DEF EntersSite, MetricsOK
  <2>2. Len(<< >>) = 0 /\ IsFiniteSet({}) /\ Cardinality({}) = 0
    BY FS_EmptySet
  <2>. QED
    BY <2>1, <2>2 DEF MetricsOK
<1>3. CASE GoesFurther(r)
  BY <1>3 DEF MetricsOK, GoesFurther, Walking
<1>4. CASE PassesOne(r)
  <2>1. PICK x \in {"allowed", "error"} : auths'[r] = Append(auths[r], x)
    BY <1>4 DEF PassesOne
  <2>2. auths[r] \in Seq(AuthResults)
    BY DEF TypeOK, AuthCounts
  <2>3. /\ IsFiniteSet(GuardsPassed(r)) /\ Len(auths[r]) = Cardinality(GuardsPassed(r))
        /\ \A k \in 1 .. Len(auths[r]) : auths[r][k] # "denied"
    BY <1>4 DEF MetricsOK, PassesOne, Walking
  <2>4. /\ IsFiniteSet(GuardsPassed(r) \cup {at[r]})
        /\ Cardinality(GuardsPassed(r) \cup {at[r]}) = Cardinality(GuardsPassed(r)) + 1
    BY <1>4, <2>3, FS_AddElement DEF PassesOne
  <2>5. /\ Len(auths'[r]) = Len(auths[r]) + 1
        /\ \A k \in 1 .. Len(auths'[r]) : auths'[r][k] # "denied"
    BY <2>1, <2>2, <2>3
  <2>6. GuardsPassed(r)' = GuardsPassed(r) \cup {at[r]} /\ pc'[r] = "directives"
    BY <1>4 DEF PassesOne
  <2>. QED
    BY <2>3, <2>4, <2>5, <2>6 DEF MetricsOK
<1>5. CASE Finishes(r)
  BY <1>5 DEF MetricsOK, Finishes, Walking, Final
<1>6. CASE Sticks(r)
  BY <1>6 DEF MetricsOK, Sticks, Walking
<1>. QED
  BY <1>1, <1>2, <1>3, <1>4, <1>5, <1>6

\* The request ID is read once the directives are done, and kept from then on.
LEMMA IdStep ==
  ASSUME TypeOK, NEW r \in Requests, OwnOK(r), OwnOK(r)', IdOK(r),
         Arrives(r) \/ EntersSite(r) \/ GoesFurther(r) \/ PassesOne(r) \/ Sticks(r)
         \/ Finishes(r)
  PROVE  IdOK(r)'
<1>1. CASE Arrives(r)
  BY <1>1 DEF IdOK, Arrives, OwnOK, CursorOK, Final
<1>2. CASE EntersSite(r)
  BY <1>2 DEF IdOK, EntersSite, OwnOK, CursorOK, Final
<1>3. CASE GoesFurther(r)
  <2>1. contacted'[r] => pc'[r] = "backend_wait"
    BY <1>3 DEF GoesFurther, OwnOK, CursorOK, Walking, Final
  <2>2. IdKept(r)
    BY <1>3 DEF GoesFurther
  <2>3. CASE pc[r] = "directives" /\ pc'[r] = "header_up"
    <3>1. hdr[r]["x-request-id"] \in Origins \ {"client8"}
      BY <2>3, InputsAssumption DEF IdOK, TypeOK, HeaderMaps, SystemHeaders
    <3>2. hdr'[r]["x-request-id"] \in {"absent", reqid'[r]} \cup (Unreadable \ {"client8"})
      BY <2>2, <2>3, <3>1 DEF IdKept, FinalId, FinalRequestId, Origins
    <3>. QED
      BY <2>3, <3>2 DEF IdOK
  <2>4. CASE pc[r] = "header_up" /\ pc'[r] \in {"header_up", "backend_wait"}
    <3>1. /\ at'[r] = at[r] /\ reqid'[r] = reqid[r]
          /\ hdr'[r]["x-request-id"] = hdr[r]["x-request-id"] \/ Renamed(r)
      BY <2>2, <2>4 DEF IdKept
    <3>2. Renamed(r)' <=> Renamed(r)
      BY <3>1 DEF Renamed, Directive
    <3>. QED
      BY <2>4, <3>1, <3>2 DEF IdOK
  <2>5. CASE /\ pc[r] \in {"directives", "auth_wait"}
             /\ pc'[r] \in {"directives", "auth_wait", "auth_drain"}
             /\ hdr'[r]["x-request-id"] = "client8" => hdr[r]["x-request-id"] = "client8"
    BY <2>1, <2>5 DEF IdOK
  <2>. QED
    BY <2>2, <2>3, <2>4, <2>5 DEF IdKept
<1>4. CASE PassesOne(r)
  BY <1>4 DEF IdOK, PassesOne, OwnOK, CursorOK, Final
<1>5. CASE Finishes(r)
  <2>1. Renamed(r)' <=> Renamed(r)
    BY <1>5 DEF Finishes, Renamed, Directive
  <2>. QED
    BY <1>5, <2>1 DEF IdOK, Finishes, Final
<1>6. CASE Sticks(r)
  BY <1>6 DEF IdOK, Sticks
<1>. QED
  BY <1>1, <1>2, <1>3, <1>4, <1>5, <1>6

\* A request is logged and counted when it ends, and only then.
LEMMA LogStep ==
  ASSUME TypeOK, NEW r \in Requests, LogOK(r),
         Arrives(r) \/ EntersSite(r) \/ GoesFurther(r) \/ PassesOne(r) \/ Sticks(r)
         \/ Finishes(r)
  PROVE  LogOK(r)'
<1>1. CASE Arrives(r) \/ EntersSite(r) \/ GoesFurther(r) \/ PassesOne(r) \/ Sticks(r)
  <2>1. /\ pc[r] \notin Final /\ pc'[r] \notin Final
        /\ log'[r] = log[r] /\ counted'[r] = counted[r]
    BY <1>1 DEF Arrives, EntersSite, GoesFurther, PassesOne, Sticks, Quiet, Final, Walking
  <2>. QED
    BY <2>1 DEF LogOK, Final
<1>2. CASE Finishes(r)
  <2>1. log[r] = << >> /\ counted[r] = << >> /\ Recorded(r) /\ pc'[r] \in Final
    BY <1>2 DEF LogOK, Finishes
  <2>2. PICK rec : /\ log'[r] = Append(<< >>, rec)
                   /\ \/ /\ pc'[r] = "responded" /\ resp'[r] = rec
                         /\ counted'[r] = Append(<< >>, rec.status)
                      \/ /\ pc'[r] \in {"aborted", "cancelled"} /\ rec.status = 500
                         /\ counted'[r] = << >>
    BY <2>1 DEF Recorded
  <2>3. \A x : Append(<< >>, x) = <<x>> /\ Len(<<x>>) = 1 /\ <<x>>[1] = x
    OBVIOUS
  <2>. QED
    BY <2>1, <2>2, <2>3 DEF LogOK
<1>. QED
  BY <1>1, <1>2

\* The gauge goes up and down with the requests in flight.
LEMMA GaugeStep ==
  ASSUME TypeOK, NEW r \in Requests, GaugeOK, \A q \in Requests \ {r} : pc'[q] = pc[q],
         Arrives(r) \/ EntersSite(r) \/ GoesFurther(r) \/ PassesOne(r) \/ Sticks(r)
         \/ Finishes(r)
  PROVE  GaugeOK'
<1>1. \A q \in Requests : q \in InFlight' <=> pc'[q] \notin Final \cup {"idle"}
  BY DEF InFlight
<1>2. \A q \in Requests : q \in InFlight <=> pc[q] \notin Final \cup {"idle"}
  BY DEF InFlight
<1>3. InFlight \subseteq Requests /\ InFlight' \subseteq Requests
  BY DEF InFlight
<1>4. CASE Arrives(r)
  <2>1. r \notin InFlight /\ r \in InFlight' /\ gauge' = gauge + 1
    BY <1>1, <1>2, <1>4 DEF Arrives, Final
  <2>2. InFlight' = InFlight \cup {r}
    BY <1>1, <1>2, <1>3, <2>1
  <2>3. IsFiniteSet(InFlight \cup {r}) /\ Cardinality(InFlight \cup {r}) = Cardinality(InFlight) + 1
    BY <2>1, FS_AddElement DEF GaugeOK
  <2>. QED
    BY <2>1, <2>2, <2>3 DEF GaugeOK
<1>5. CASE Finishes(r)
  <2>1. r \in InFlight /\ r \notin InFlight' /\ gauge' = gauge - 1
    BY <1>1, <1>2, <1>5 DEF Finishes, Final
  <2>2. InFlight' = InFlight \ {r}
    BY <1>1, <1>2, <1>3, <2>1
  <2>3. IsFiniteSet(InFlight \ {r}) /\ Cardinality(InFlight \ {r}) = Cardinality(InFlight) - 1
    BY <2>1, FS_RemoveElement DEF GaugeOK
  <2>. QED
    BY <2>1, <2>2, <2>3 DEF GaugeOK
<1>6. CASE EntersSite(r) \/ GoesFurther(r) \/ PassesOne(r) \/ Sticks(r)
  <2>1. r \in InFlight /\ r \in InFlight' /\ gauge' = gauge
    BY <1>1, <1>2, <1>6 DEF EntersSite, GoesFurther, PassesOne, Sticks, Quiet, Walking, Final
  <2>2. InFlight' = InFlight
    BY <1>1, <1>2, <1>3, <2>1
  <2>. QED
    BY <2>1, <2>2 DEF GaugeOK
<1>. QED
  BY <1>4, <1>5, <1>6

-----------------------------------------------------------------------------
(* The theorems                                                            *)

\* The records are right at the start.
LEMMA RecordsInit == Init => RInv
<1> SUFFICES ASSUME Init PROVE RInv
  OBVIOUS
<1>1. IInv
  BY InvInit
<1>2. GaugeOK
  <2>1. InFlight = {}
    BY DEF Init, InFlight
  <2>. QED
    BY <2>1, FS_EmptySet DEF Init, GaugeOK
<1>3. ASSUME NEW r \in Requests PROVE RecordOK(r)
  BY DEF Init, RecordOK, OwnerOK, GrantOK, MetricsOK, IdOK, LogOK, Walking, Final
<1>. QED
  BY <1>1, <1>2, <1>3 DEF RInv

\* Every step keeps the records right.
LEMMA RecordsStep == RInv /\ [Next]_vars => RInv'
<1> SUFFICES ASSUME RInv, [Next]_vars PROVE RInv'
  OBVIOUS
<1>1. IInv'
  BY InvStep DEF RInv
<1>2. TypeOK /\ (\A q \in Requests : OwnOK(q)) /\ (\A q \in Requests : OwnOK(q)')
  BY <1>1 DEF RInv, IInv, OnTrack
<1>3. GaugeOK /\ \A q \in Requests : RecordOK(q)
  BY DEF RInv
<1>4. ASSUME NEW r \in Requests, TaskStep(r) \/ Timer(r) \/ Environment(r)
      PROVE  GaugeOK' /\ \A q \in Requests : RecordOK(q)'
  <2>1. Arrives(r) \/ EntersSite(r) \/ GoesFurther(r) \/ PassesOne(r) \/ Sticks(r)
         \/ Finishes(r)
    BY <1>2, <1>4, StepKinds
  <2>2. RecordOK(r)'
    <3>1. OwnerOK(r)'
      BY <1>3, <2>1, OwnerStep DEF RecordOK
    <3>2. GrantOK(r)'
      BY <1>2, <1>3, <2>1, GrantStep DEF RecordOK
    <3>3. MetricsOK(r)'
      BY <1>2, <1>3, <2>1, MetricsStep DEF RecordOK
    <3>4. IdOK(r)'
      BY <1>2, <1>3, <2>1, IdStep DEF RecordOK
    <3>5. LogOK(r)'
      BY <1>2, <1>3, <2>1, LogStep DEF RecordOK
    <3>. QED
      BY <3>1, <3>2, <3>3, <3>4, <3>5 DEF RecordOK
  <2>3. ASSUME NEW q \in Requests \ {r} PROVE SameRecords(q)
    BY <1>2, <1>4, OtherRecords
  <2>4. \A q \in Requests \ {r} : RecordOK(q)'
    BY <1>3, <2>3, RecordFrame
  <2>5. GaugeOK'
    <3>1. \A q \in Requests \ {r} : pc'[q] = pc[q]
      BY <2>3 DEF SameRecords, Same
    <3>. QED
      BY <1>2, <1>3, <2>1, <3>1, GaugeStep
  <2>. QED
    BY <2>2, <2>4, <2>5
<1>5. CASE UNCHANGED vars \/ \E c \in Configs : UpdateConfig(c)
  <2>1. UNCHANGED <<pc, input, snap, at, hdr, up, reqid, resp, log, counted, auths, gauge,
                    contacted, heard>>
    BY <1>5 DEF vars, UpdateConfig
  <2>2. ASSUME NEW q \in Requests PROVE RecordOK(q)'
    <3>1. SameRecords(q)
      BY <2>1 DEF SameRecords, Same
    <3>. QED
      BY <1>3, <3>1, RecordFrame
  <2>3. GaugeOK'
    BY <1>3, <2>1 DEF GaugeOK, InFlight
  <2>. QED
    BY <1>1, <2>2, <2>3 DEF RInv
<1>. QED
  BY <1>1, <1>4, <1>5 DEF Next, RInv

\* RInv is an invariant of the pipeline.
LEMMA RecordsHold == Spec => []RInv
BY RecordsInit, RecordsStep, PTL DEF Spec

\* Whatever is reloaded while a request is in flight, however deep the blocks
\* nest: process_directives runs blocks of one configuration only, that of
\* the snapshot proxy() was called with.
THEOREM SnapshotSafe == Spec => []OneConfigPerRequest
<1>1. RInv => OneConfigPerRequest
  BY DEF RInv, RecordOK, OwnerOK, OneConfigPerRequest
<1>. QED
  BY <1>1, RecordsHold, PTL

\* An identity header that reaches a backend was handed out by a forward_auth
\* on the request's way whose auth service answered with a complete 2xx.
THEOREM GrantSafe == Spec => []IdentityHasGrant
<1>1. RInv => IdentityHasGrant
  BY DEF RInv, RecordOK, GrantOK, IdentityHasGrant
<1>. QED
  BY <1>1, RecordsHold, PTL

\* auth_requests_total has exactly one entry per forward_auth a request has
\* gone through, and no request recorded as denied reaches a backend.
THEOREM AuthMetricsSafe == Spec => []AuthMetricsMatch
<1>1. RInv => AuthMetricsMatch
  BY DEF RInv, RecordOK, MetricsOK, AuthMetricsMatch
<1>. QED
  BY <1>1, RecordsHold, PTL

\* The backend gets the request ID that the log line and the response have,
\* unless the configuration removed or rewrote the header, or a directive or
\* an auth service wrote an ID that to_str cannot read; an unreadable ID of
\* the client's is always replaced.
THEOREM RequestIdSafe == Spec => []OneRequestId
<1>1. RInv => OneRequestId
  BY DEF RInv, RecordOK, IdOK, Renamed, OneRequestId
<1>. QED
  BY <1>1, RecordsHold, PTL

\* http_active_requests is the number of requests in flight, however many and
\* however they end; a request that ended is logged once and counted once if
\* it had a response, one in flight neither.
THEOREM AccountingSafe == Spec => []ExactAccounting
<1>1. RInv => ExactAccounting
  BY DEF RInv, GaugeOK, InFlight, RecordOK, LogOK, ExactAccounting
<1>. QED
  BY <1>1, RecordsHold, PTL
=============================================================================
