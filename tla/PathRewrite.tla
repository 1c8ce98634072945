---------------------------- MODULE PathRewrite ----------------------------
(***************************************************************************)
(* The path operations of the directive pipeline: the pattern of a         *)
(* handle_path block, strip_prefix and uri_replace.  A path is a sequence  *)
(* of one-character strings, because all three work on raw string          *)
(* prefixes and not on path segments: "/a/*" also takes "/ab", and leaves  *)
(* "b" without a leading slash.                                            *)
(***************************************************************************)
EXTENDS Integers, SequencesExt

Root == <<"/">>

\* str::strip_prefix once the prefix is known to be there.
DropPrefix(prefix, path) == SubSeq(path, Len(prefix) + 1, Len(path))

\* pattern.strip_suffix("/*") succeeds.
IsWildcard(pattern) ==
  Len(pattern) >= 2 /\ SubSeq(pattern, Len(pattern) - 1, Len(pattern)) = <<"/", "*">>

(***************************************************************************)
(* match_pattern: the Option it returns is a set, {} for None and {rest}   *)
(* for Some(rest).  An exact pattern that matches leaves "/".              *)
(***************************************************************************)
MatchPattern(pattern, path) ==
  IF IsWildcard(pattern)
    THEN LET prefix == SubSeq(pattern, 1, Len(pattern) - 2)
         IN  IF IsPrefix(prefix, path) THEN {DropPrefix(prefix, path)} ELSE {}
    ELSE IF pattern = path THEN {Root} ELSE {}

(***************************************************************************)
(* handle_strip_prefix: the rest of the path, made to start with a slash;  *)
(* a path without the prefix is left alone.                                *)
(***************************************************************************)
StripPrefix(prefix, path) ==
  IF IsPrefix(prefix, path)
    THEN LET rest == DropPrefix(prefix, path)
         IN  IF IsPrefix(Root, rest) THEN rest ELSE Root \o rest
    ELSE path

\* The text to find is at position i of s.
Occurs(find, s, i) ==
  i + Len(find) - 1 <= Len(s) /\ SubSeq(s, i, i + Len(find) - 1) = find

(***************************************************************************)
(* external: str::replace of the standard library.  Every occurrence, from *)
(* the left, without overlaps, and the text it inserts is not scanned      *)
(* again.  An empty text to find matches before every character and at the *)
(* end.                                                                    *)
(***************************************************************************)
StrReplace(find, replacement, s) ==
  LET from[i \in 1 .. Len(s) + 1] ==
        CASE i = Len(s) + 1               -> IF find = << >> THEN replacement ELSE << >>
          [] i <= Len(s) /\ find = << >> -> replacement \o <<s[i]>> \o from[i + 1]
          [] i <= Len(s) /\ find # << >> /\ Occurs(find, s, i) ->
               replacement \o from[i + Len(find)]
          [] OTHER                        -> <<s[i]>> \o from[i + 1]
  IN  from[1]

\* handle_uri_replace
UriReplace(find, replacement, path) == StrReplace(find, replacement, path)
=============================================================================
