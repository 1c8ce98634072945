---------------------------- MODULE Substitution ----------------------------
(***************************************************************************)
(* process_header_substitution and process_upstream_substitution: the two  *)
(* loops that replace the first placeholder they find until there is none, *)
(* and the one-pass replacements after them.                               *)
(*                                                                         *)
(* A string is a sequence of atoms: "{", "}", the keywords that follow a   *)
(* brace, names and other text.  The loops scan the text they have just    *)
(* inserted again, so a placeholder may come out of a value, or be put     *)
(* together from a brace and a keyword that a removal brings side by side. *)
(***************************************************************************)
EXTENDS Integers, PathRewrite

CONSTANTS
  Inputs,             \* [pieces, headers, env]: the template and the two maps
  Rank,               \* names of headers and variables, with a number
  Generated           \* uuid, upstream_host, request.uri, remote_ip, with their texts

VARIABLES input, call, pc, result

vars == <<input, call, pc, result>>

\* A piece of a template is literal text, a placeholder with a name, or one
\* without.
Keywords == {"header.", "env."}
TextOf(piece) ==
  CASE piece.kind = "text"    -> piece.text
    [] piece.kind \in Keywords -> <<"{", piece.kind, piece.name, "}">>
    [] OTHER                  -> <<"{", piece.kind, "}">>

\* The placeholders without a name, in the order they are replaced after the
\* loops; process_header_substitution ends with the first.
Stages == <<"uuid", "upstream_host", "request.uri", "remote_ip">>

MapOf(keyword) == IF keyword = "header." THEN input.headers ELSE input.env

\* A name is one atom and no brace; a value is any text.
ASSUME InputsAssumption ==
  \A in \in Inputs :
    /\ in.pieces \in Seq([kind : {"text"}, text : Seq(STRING)]
                         \cup [kind : Keywords, name : STRING \ {"{", "}"}]
                         \cup [kind : ToSet(Stages)])
    /\ Range(in.headers) \cup Range(in.env) \subseteq Seq(STRING)

ASSUME GeneratedAssumption == Generated \in [ToSet(Stages) -> Seq(STRING)]

\* The values of a map that name a name of the same map name one of lower
\* rank.  Where a value leads back to its own name, the loop has no end.
ASSUME RankAssumption ==
  \A in \in Inputs : \A map \in {in.headers, in.env} :
    \A n \in DOMAIN map : \A i \in DOMAIN map[n] :
      map[n][i] \in DOMAIN map => Rank[map[n][i]] < Rank[n]

Init ==
  /\ input \in Inputs /\ call \in {"header", "upstream"}
  /\ result = FlattenSeq([i \in DOMAIN input.pieces |-> TextOf(input.pieces[i])])
  /\ pc = "header."

\* get(name): nothing for a name that is not there or cannot be a name.
Lookup(map, name) ==
  IF Len(name) = 1 /\ name[1] \in DOMAIN map THEN map[name[1]] ELSE << >>

\* find("{header.") and find("{env.")
Starts(keyword) == {i \in 1 .. Len(result) - 1 : result[i] = "{" /\ result[i + 1] = keyword}

\* Mutant: a placeholder without a value is left in the text.
Turn_Keeps(keyword) ==
  /\ pc = keyword
  /\ Starts(keyword) # {}
  /\ LET start == Min(Starts(keyword))
         ends == {i \in start .. Len(result) : result[i] = "}"}
         name == SubSeq(result, start + 2, Min(ends) - 1)
     IN  IF ends = {} THEN pc' = "err" /\ UNCHANGED result
         ELSE /\ result' = IF Lookup(MapOf(keyword), name) = << >> THEN result
                           ELSE SubSeq(result, 1, start - 1) \o Lookup(MapOf(keyword), name)
                                \o SubSeq(result, Min(ends) + 1, Len(result))
              /\ UNCHANGED pc
  /\ UNCHANGED <<input, call>>

\* One turn of a loop: the first placeholder is replaced by its value, removed
\* if it has none, or unclosed, which is an error.
Turn(keyword) ==
  /\ pc = keyword
  /\ Starts(keyword) # {}
  /\ LET start == Min(Starts(keyword))
         ends == {i \in start .. Len(result) : result[i] = "}"}
     IN  IF ends = {} THEN pc' = "err" /\ UNCHANGED result
         ELSE /\ result' = SubSeq(result, 1, start - 1)
                           \o Lookup(MapOf(keyword), SubSeq(result, start + 2, Min(ends) - 1))
                           \o SubSeq(result, Min(ends) + 1, Len(result))
              /\ UNCHANGED pc
  /\ UNCHANGED <<input, call>>

LoopEnds(keyword, next) ==
  /\ pc = keyword /\ Starts(keyword) = {}
  /\ pc' = next
  /\ UNCHANGED <<input, call, result>>

Placeholder(keyword) == <<"{", keyword, "}">>

\* Mutant: {request.uri} is not replaced.
NextStage_Skips(k) ==
  CASE call = "header" \/ k = 4 -> "ok"
    [] call = "upstream" /\ k = 1 -> Stages[2]
    [] OTHER -> Stages[4]

NextStage(k) == IF call = "header" \/ k = Len(Stages) THEN "ok" ELSE Stages[k + 1]

Replace(k) ==
  /\ pc = Stages[k]
  /\ result' = StrReplace(Placeholder(Stages[k]), Generated[Stages[k]], result)
  /\ pc' = NextStage(k)
  /\ UNCHANGED <<input, call>>

Next ==
  \/ Turn("header.") \/ LoopEnds("header.", "env.")
  \/ Turn("env.") \/ LoopEnds("env.", "uuid")
  \/ \E k \in DOMAIN Stages : Replace(k)

\* The function is a synchronous call: it runs on.
Spec == Init /\ [][Next]_vars /\ WF_vars(Next)

-----------------------------------------------------------------------------
(* Properties                                                              *)

\* Where no value leads back to its own name, the call returns: the loops end
\* although they scan what they insert, with placeholders in values, halves
\* of placeholders and braces that match nothing.
Terminates == <>(pc \in {"ok", "err"})

\* Neither the text of the template nor a text that is inserted opens a brace;
\* the path and query of a request may, and are scanned for {remote_ip}.
NoStrayBraces ==
  LET texts == {TextOf(p) : p \in {q \in ToSet(input.pieces) : q.kind = "text"}}
               \cup Range(input.headers) \cup Range(input.env) \cup Range(Generated)
  IN  \A t \in texts : "{" \notin ToSet(t)

\* What a piece stands for.
ValueOf(piece) ==
  CASE piece.kind \in Keywords -> Lookup(MapOf(piece.kind), <<piece.name>>)
    [] piece.kind \in DOMAIN Generated /\ (piece.kind = "uuid" \/ call = "upstream") ->
         Generated[piece.kind]
    [] OTHER                   -> TextOf(piece)

\* Replacing the first placeholder again and again gives what replacing all
\* of them at once would, and is no error: values do not spill into their
\* neighbours, and a placeholder of upstream requests stays as it is written
\* where only process_header_substitution is called.
SubstitutesAsWritten ==
  NoStrayBraces =>
    /\ pc # "err"
    /\ pc = "ok" => result = FlattenSeq([i \in DOMAIN input.pieces |-> ValueOf(input.pieces[i])])
=============================================================================
