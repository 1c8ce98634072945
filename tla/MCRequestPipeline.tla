------------------------- MODULE MCRequestPipeline -------------------------
(***************************************************************************)
(* Two configurations small enough for TLC in which every directive and    *)
(* every outcome of it occurs:                                             *)
(*                                                                         *)
(* c1   example.com:80    { header X-Copy {header.X-User}                  *)
(*                          handle_path /a/... { the block ma }            *)
(*                          method GET { header X-Request-ID {uuid}        *)
(*                                       redirect 302 ... }                *)
(*                          uri_replace b <                                *)
(*                          reverse_proxy ..., with a header_up }          *)
(*      example.com:8443  { handle_path /a { respond 1000 }                *)
(*                          forward_auth open                              *)
(*                          method POST { header X-User {header.X-Copy}    *)
(*                                        header X-Request-ID, not ASCII   *)
(*                                        header_up, reverse_proxy } }     *)
(* c2   example.com:80    { header -X-Request-ID; forward_auth open;       *)
(*                          strip_prefix /a; reverse_proxy ... }           *)
(*      example.com       { handle_path /b { header X-Copy, from an        *)
(*                                           environment variable that     *)
(*                                           names itself }                *)
(*                          redirect, to no valid URL }                    *)
(*                                                                         *)
(* In ma a request meets two forward_auth directives, one failing closed   *)
(* and one failing open, before its backend.                               *)
(***************************************************************************)
EXTENDS RequestPipeline

MCLower(name) == IF name = "EXAMPLE.com" THEN "example.com" ELSE name

Set(name, value) == [op |-> "header", name |-> name, value |-> value]
Val(kind) == [kind |-> kind, from |-> "host", ascii |-> TRUE]
FromHeader(name) == [kind |-> "header", from |-> name, ascii |-> TRUE]
NonAscii(value) == [value EXCEPT !.ascii = FALSE]
Guard(mode, names) ==
  [op |-> "forward_auth", failure_mode |-> mode, response_headers |-> names,
   request_headers |-> {"x-user", "x-copy", "x-forwarded-for"}]
Upstream(ups) == [op |-> "reverse_proxy", uri_ok |-> TRUE, header_up |-> ups]

MCHeaderNames == SystemHeaders \cup {"x-user", "x-copy"}
HopHeaderNames == MCHeaderNames \cup {"te"}

MCProgram == [
  m  |-> << Set("x-copy", FromHeader("x-user")),
            [op |-> "handle_path", pattern |-> <<"/", "a", "/", "*">>, body |-> "ma"],
            [op |-> "method", methods |-> {"GET"}, body |-> "mg"],
            [op |-> "uri_replace", find |-> <<"b">>, replace |-> <<"<">>],
            Upstream(<<Set("x-real-ip", FromHeader("x-copy"))>>) >>,
  ma |-> << Guard("closed", {"x-user"}),
            [op |-> "strip_prefix", prefix |-> <<"/", "b">>],
            Guard("open", {"x-copy"}),
            Upstream(<<Set("x-request-id", Val("uuid")), Set("x-user", Val("invalid"))>>) >>,
  mg |-> << Set("x-request-id", Val("uuid")),
            [op |-> "redirect", status |-> 302, url_ok |-> TRUE] >>,
  t  |-> << [op |-> "handle_path", pattern |-> <<"/", "a">>, body |-> "ta"],
            Guard("open", {"x-user"}),
            [op |-> "method", methods |-> {"POST"}, body |-> "tp"] >>,
  ta |-> << [op |-> "respond", status |-> 1000] >>,
  tp |-> << Set("x-user", FromHeader("x-copy")),
            Set("x-request-id", NonAscii(Val("config"))),
            Upstream(<<Set("x-copy", Val("remote_ip")), Set("host", Val("upstream_host")),
                       Set("x-real-ip", Val("request_uri"))>>) >>,
  n  |-> << Set("x-request-id", Val("remove")),
            Guard("open", {"x-user", "x-request-id"}),
            [op |-> "strip_prefix", prefix |-> <<"/", "a">>],
            Upstream(<< >>) >>,
  nb |-> << [op |-> "handle_path", pattern |-> <<"/", "b">>, body |-> "nl"],
            [op |-> "redirect", status |-> 301, url_ok |-> FALSE] >>,
  nl |-> << Set("x-copy", Val("env_cycle")) >> ]

MCBlocks == DOMAIN MCProgram

Addr(name, port) == [name |-> name, br |-> FALSE, port |-> port]
Site(name, port, tls, root) ==
  [key |-> Addr(name, port), address |-> Addr(name, port), tls |-> tls, root |-> root]

MCSites == [
  c1 |-> {Site("example.com", 80, FALSE, "m"), Site("example.com", 8443, TRUE, "t")},
  c2 |-> {Site("example.com", 80, FALSE, "n"), Site("example.com", NoPort, FALSE, "nb")} ]

MCConfigs == DOMAIN MCSites

MCOwner == [b \in MCBlocks |-> IF b \in {"n", "nb", "nl"} THEN "c2" ELSE "c1"]

MCGuardsAbove == [b \in MCBlocks |-> IF b = "tp" THEN {<<"t", 2>>} ELSE {}]

\* Header maps of clients: everything, as little as possible, unreadable IDs.
Full  == [n \in HeaderNames |-> "client"]
Bare  == [n \in HeaderNames |-> "absent"]
Murky == [n \in HeaderNames |-> CASE n = "host" -> "client"
                                  [] n = "x-copy" -> "absent"
                                  [] OTHER -> "client8"]

Request(host, tls, method, p, h) ==
  [host |-> host, tls |-> tls, method |-> method, path |-> p, ascii |-> TRUE, hdr |-> h]

A == <<"/", "a">>
AB == <<"/", "a", "/", "b">>
Abb == <<"/", "a", "b", "b">>
B == <<"/", "b">>
C == <<"/", "c">>

RichInputs ==
  {Request(Addr("example.com", NoPort), tls, method, p, h) :
     tls \in BOOLEAN, method \in {"GET", "POST"}, p \in {A, AB, Abb, B, C}, h \in {Full, Murky}}
  \cup {Request(Addr("example.com", 80), FALSE, "POST", p, h) : p \in {A, C}, h \in {Full, Murky}}
  \cup {Request(Addr("example.com", 80), FALSE, "POST", A, Bare),
        Request(Addr("example.com", 90), FALSE, "POST", A, Full),
        Request(Addr("EXAMPLE.com", NoPort), TRUE, "POST", A, Full),
        [Request(Addr("example.com", NoPort), TRUE, "POST", C, Full) EXCEPT !.ascii = FALSE]}

SmallInputs ==
  {Request(Addr("example.com", 80), FALSE, "POST", AB, Full),
   Request(Addr("example.com", NoPort), TRUE, "POST", AB, Murky)}

Answer(status, names) ==
  [status |-> status, ident |-> [n \in HeaderNames |-> IF n \in names THEN "auth" ELSE "absent"]]
MurkyAnswer == [status |-> 200, ident |-> [NoIdentity EXCEPT !["x-request-id"] = "auth8"]]
RichAnswers == {Answer(200, {"x-user", "x-request-id"}), MurkyAnswer, Answer(204, {}),
                Answer(302, {"x-user"}), Answer(401, {"x-user"}), Answer(404, {}),
                Answer(500, {"x-user"})}
SmallAnswers == {Answer(200, {"x-user"}), Answer(403, {}), Answer(500, {})}

MCBadChars == {"<"}
=============================================================================
