--------------------------- MODULE MCConfigParser ---------------------------
(***************************************************************************)
(* Small vocabularies for the configuration parser.  Each is a handful of  *)
(* lines that can go wrong together, so that files may be longer.          *)
(***************************************************************************)
EXTENDS ConfigParser, TLC

Open(word, args) == [shape |-> "open", word |-> word, args |-> args]
Plain(word, args) == [shape |-> "plain", word |-> word, args |-> args]
Close == [shape |-> "close", word |-> "}", args |-> << >>]
Blank == [shape |-> "blank", word |-> "", args |-> << >>]

MCAddressOf ==
  "a.org:443" :> [host |-> "a.org", port |-> 443, sni |-> "a.org"]
  @@ "A.org:443" :> [host |-> "A.org", port |-> 443, sni |-> "a.org"]
  @@ "b.org:443" :> [host |-> "b.org", port |-> 443, sni |-> "b.org"]
  @@ "a.org:80" :> [host |-> "a.org", port |-> 80, sni |-> "a.org"]
  @@ "a.org:0" :> [host |-> "a.org", port |-> 0, sni |-> "a.org"]

MCUriOf ==
  "http://auth" :> [scheme |-> "http", authority |-> "auth", path |-> None]
  @@ "auth" :> [scheme |-> None, authority |-> "auth", path |-> None]

MCDurationOf ==
  "30" :> [value |-> 30, unit |-> "none"] @@ "2h" :> [value |-> 2, unit |-> "h"]
  @@ "2d" :> [value |-> 2, unit |-> "d"]

MCHeaderNameOf == "X-User" :> "x-user" @@ "cookie" :> "cookie"

MCMinus == "-" :> "" @@ "-x" :> "x"

A80 == Open("a.org:80", << >>)

\* Blocks in blocks, and the other one-line directives.
Nesting == {A80, Open("b.org:443", << >>), Open("handle_path", <<"/a/*">>), Open("method", <<"GET", "PUT">>),
            Plain("strip_prefix", <<"/a">>), Plain("respond", <<"200">>), Close}

\* Two sites that may share a socket and a host name.
Sockets == {Open("a.org:443", << >>), Open("A.org:443", << >>), Open("b.org:443", << >>),
            Plain("tls", <<"c", "k">>), Plain("redirect", <<"/b">>), Close}

\* forward_auth blocks and what may be wrong in them.
Auth == {A80, Open("forward_auth", << >>), Plain("to", <<"http://auth">>), Plain("to", <<"auth">>),
         Plain("failure_mode", <<"open">>), Plain("response_headers", <<"X-User">>), Close}
AuthErrors == {A80, Open("forward_auth", << >>), Plain("to", <<"http://auth">>), Plain("timeout", <<"30">>),
               Plain("failure_mode", <<"ajar">>), Plain("request_headers", <<"@">>),
               Plain("request_headers", << >>), Open("method", << >>), Close}

\* reverse_proxy blocks, with and without settings.
Upstream == {A80, Open("reverse_proxy", <<"http://b">>), Plain("connect_timeout", <<"2h">>),
             Plain("read_timeout", <<"2d">>), Plain("header_up", <<"x", "y", "z">>),
             Plain("header_up", <<"-x">>), Close}
UpstreamBlocks == {A80, Open("reverse_proxy", << >>), Open("handle_path", << >>),
                   Plain("reverse_proxy", <<"http://b">>), Plain("header_up", <<"x", "y">>), Close}

\* Lines with words too many or too few, unknown ones and blank ones, and a
\* site on port 0, which is a port.
Headers == {A80, Plain("tls", <<"c">>), Plain("header", <<"x", "y", "z">>), Plain("header", <<"-">>),
            Plain("header", <<"-x">>), Close}
Oddities == {Open("a.org:0", << >>), Open("nothing", << >>), Plain("uri_replace", <<"/a", "/b">>),
             Plain("redirect", <<"302", "/a", "b">>), Plain("nothing", << >>), Blank, Close}

NestedUpstream == {UpstreamBlocks}
AllVocabularies == {Nesting, Sockets, Auth, AuthErrors, Upstream, UpstreamBlocks, Headers, Oddities}
=============================================================================
