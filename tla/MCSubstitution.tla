--------------------------- MODULE MCSubstitution ---------------------------
(***************************************************************************)
(* Templates of up to three pieces over two headers and two variables.     *)
(***************************************************************************)
EXTENDS Substitution, TLC

Text(s) == [kind |-> "text", text |-> s]
Named(keyword, n) == [kind |-> keyword, name |-> n]
Bare(keyword) == [kind |-> keyword]

\* Text with a stray closing brace, an opening one, half a placeholder, and
\* every kind of placeholder; header b may be missing.
Pieces ==
  {Text(<<"t", "}">>), Text(<<"{">>), Text(<<"header.", "a", "}">>),
   Named("header.", "a"), Named("header.", "b"), Named("env.", "x"),
   Bare("uuid"), Bare("upstream_host"), Bare("request.uri"), Bare("remote_ip")}

Templates == UNION {[1 .. n -> Pieces] : n \in 1 .. 3}

MCRank == "a" :> 2 @@ "b" :> 1 @@ "x" :> 2 @@ "y" :> 1

\* Plain values, a closing brace, a placeholder for the other name, an
\* opening brace alone and an unclosed placeholder.
HeaderMaps ==
  {"a" :> <<"v">>, "a" :> <<"v", "}">> @@ "b" :> <<"w">>,
   "a" :> <<"{", "header.", "b", "}">> @@ "b" :> <<"{">>,
   "a" :> <<"{", "header.">> @@ "b" :> <<"{", "env.", "x", "}">>}
EnvMaps == {"x" :> <<"e">>, "x" :> <<"{", "env.", "y", "}", "{", "env.">>}

MCInputs == [pieces : Templates, headers : HeaderMaps, env : EnvMaps]

MCGenerated == "uuid" :> <<"u">> @@ "upstream_host" :> <<"h">> @@ "request.uri" :> <<"/", "p">>
               @@ "remote_ip" :> <<"i">>
=============================================================================
