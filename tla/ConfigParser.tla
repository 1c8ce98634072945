---------------------------- MODULE ConfigParser ----------------------------
(***************************************************************************)
(* Config::from_str: the configuration file is read line by line onto two  *)
(* stacks, one of directive lists and one of the blocks that are open, and *)
(* the sites it yields are then checked against each other.                *)
(*                                                                         *)
(* A line is a record: its shape ("open" when it ends with a brace,        *)
(* "close" for a lone closing brace, "plain", or "blank" for an empty line *)
(* or a comment), its first word and the other words.  What the parsing    *)
(* functions of the standard library make of a word is given by constant   *)
(* functions; a word outside their domain does not parse.                  *)
(***************************************************************************)
EXTENDS Integers, SequencesExt, Addresses

CONSTANTS
  None,
  Vocabularies,       \* bound: the sets of lines a file is written with
  MaxLines,           \* bound: lines of a file
  AddressOf,          \* word -> [host, port, sni], sni being the lower-cased host
  UriOf,              \* word -> [scheme, authority, path]
  DurationOf,         \* word -> [value, unit]
  Unsigned,           \* words that parse as u16
  Minus,              \* words that start with "-", with what follows it
  HeaderNameOf,       \* word -> header name, in lower case
  U64                 \* 2^64, scaled down

ASSUME BoundsAssumption == MaxLines \in Nat /\ U64 \in Nat \ {0}

\* None is no word, and no pair of words.
ASSUME NoneAssumption ==
  \A lines \in Vocabularies : \A ln \in lines :
    ln.word # None /\ (Len(ln.args) >= 2 => <<ln.args[1], ln.args[2]>> # None)

VARIABLES
  vocabulary,         \* the lines this file uses
  text,               \* history: the lines read so far
  current_site_address, current_site_tls,
  directive_stack, block_stack,
  sites,              \* the HashMap: [address, directives, tls]
  todo,               \* sites validate_listen_sockets has still to visit
  socket_tls,         \* its maps, as sets of pairs: socket and kind,
  socket_sni,         \*   socket and host name
  result              \* "reading", "validating", "ok", "err", "conflict", "panic"

siteVars == <<current_site_address, current_site_tls, sites>>
validation == <<todo, socket_tls, socket_sni>>
vars == <<vocabulary, text, siteVars, directive_stack, block_stack, validation, result>>

-----------------------------------------------------------------------------
(* Words: an operator that parses returns a set, {} for Err                *)

Multiplier == [none |-> 1, s |-> 1, m |-> 60, h |-> 3600, d |-> 86400]

\* What parse::<u64> gives is a number, and the unit one of the match.
ASSUME DurationAssumption ==
  \A word \in DOMAIN DurationOf : DurationOf[word] \in [value : Nat, unit : DOMAIN Multiplier]

Product(word) == DurationOf[word].value * Multiplier[DurationOf[word].unit]

\* A release build multiplies without a check.
ParseDuration(word) ==
  IF word \in DOMAIN DurationOf /\ DurationOf[word].value < U64 THEN {Product(word) % U64} ELSE {}

\* normalize_auth_endpoint: absolute, http or https, an empty path becomes "/".
NormalizeAuthEndpoint(uri) ==
  IF uri.scheme \in {"http", "https"} /\ uri.authority # None
    THEN {IF uri.path = None THEN [uri EXCEPT !.path = "/"] ELSE uri}
    ELSE {}

AuthSettings == {"to", "request_headers", "response_headers", "failure_mode", "timeout"}
ProxySettings == {"connect_timeout", "read_timeout"}
NoSettings == [s \in AuthSettings \cup ProxySettings |-> None]

\* The value of a setting line; only the first word counts, except in a list
\* of header names.
SettingValue(name, args) ==
  CASE args = << >>                                     -> {}
    [] args # << >> /\ name = "to"                      -> {args[1]}
    [] args # << >> /\ name = "failure_mode"            -> {args[1]} \cap {"open", "closed"}
    [] args # << >> /\ name \in {"request_headers", "response_headers"} -> {args}
    [] args # << >> /\ name \in ProxySettings \cup {"timeout"} -> ParseDuration(args[1])

\* `header -Name` and `header_up -Name` remove a header.
Removal(args) == IF Minus[args[1]] = "" THEN {} ELSE {<<Minus[args[1]], None>>}

\* header_up keeps all words of the value.
HeaderUp(args) ==
  IF args = << >> THEN {}
  ELSE IF args[1] \in DOMAIN Minus THEN Removal(args)
  ELSE IF Len(args) = 1 THEN {} ELSE {args}

\* The words of a one-line directive.
DirectiveArgs(name, args) ==
  CASE name = "reverse_proxy" /\ Len(args) >= 1 -> {<<args[1]>>}
    [] name = "strip_prefix" /\ Len(args) >= 1  -> {<<args[1]>>}
    [] name = "uri_replace" /\ Len(args) >= 2   -> {<<args[1], args[2]>>}
    [] name = "header" /\ Len(args) >= 1        ->
         IF args[1] \in DOMAIN Minus THEN Removal(args)
         ELSE IF Len(args) = 1 THEN {} ELSE {<<args[1], args[2]>>}
    [] name = "respond" /\ Len(args) >= 1       ->
         IF args[1] \notin Unsigned THEN {}
         ELSE {<<args[1], IF Len(args) = 1 THEN "" ELSE args[2]>>}
    [] name = "redirect" /\ Len(args) = 1       -> {<<"301", args[1]>>}
    [] name = "redirect" /\ Len(args) >= 2      -> IF args[1] \in Unsigned THEN {args} ELSE {}
    [] OTHER                                    -> {}

Directive(op, args, set, header_up, directives) ==
  [op |-> op, args |-> args, set |-> set, header_up |-> header_up, directives |-> directives]

Simple(op, args) == Directive(op, args, NoSettings, << >>, << >>)

Block(name, args) == [directive_type |-> name, args |-> args, set |-> NoSettings, header_up |-> << >>]

FirstOrEmpty(args) == IF args = << >> THEN "" ELSE args[1]

\* build_forward_auth: `to` is required and checked, the others have defaults.
BuildForwardAuth(set) ==
  LET given(setting) == IF set[setting] = None THEN << >> ELSE set[setting]
      names(setting) == [i \in DOMAIN given(setting) |-> HeaderNameOf[given(setting)[i]]]
  IN  IF \/ set["to"] \notin DOMAIN UriOf
         \/ \E setting \in {"request_headers", "response_headers"} :
              \E i \in DOMAIN given(setting) : given(setting)[i] \notin DOMAIN HeaderNameOf
        THEN {}
        ELSE {[set EXCEPT !["to"] = uri,
                          !["request_headers"] = IF @ = None THEN <<"authorization", "cookie">>
                                                             ELSE names("request_headers"),
                          !["response_headers"] = names("response_headers"),
                          !["failure_mode"] = IF @ = None THEN "closed" ELSE @,
                          !["timeout"] = IF @ = None THEN 5 ELSE @] :
                uri \in NormalizeAuthEndpoint(UriOf[set["to"]])}

\* What a closing brace makes of a block and the directives in it.  A
\* reverse_proxy block does not look at the directives.
CompleteBlock(block, finished) ==
  CASE block.directive_type = "handle_path" ->
         {Directive("handle_path", <<FirstOrEmpty(block.args)>>, NoSettings, << >>, finished)}
    [] block.directive_type = "method" ->
         {Directive("method", block.args, NoSettings, << >>, finished)}
    [] block.directive_type = "reverse_proxy" ->
         {Directive("reverse_proxy", <<FirstOrEmpty(block.args)>>, block.set, block.header_up, << >>)}
    [] block.directive_type = "forward_auth" ->
         IF finished # << >> THEN {}
         ELSE {Directive("forward_auth", << >>, set, << >>, << >>) : set \in BuildForwardAuth(block.set)}
    [] OTHER -> {}

\* A setting line inside a forward_auth or reverse_proxy block.
WithSetting(block, ln) ==
  CASE \/ block.directive_type = "forward_auth" /\ ln.word \in AuthSettings
       \/ block.directive_type = "reverse_proxy" /\ ln.word \in ProxySettings ->
         {[block EXCEPT !.set[ln.word] = v] : v \in SettingValue(ln.word, ln.args)}
    [] block.directive_type = "reverse_proxy" /\ ln.word = "header_up" ->
         {[block EXCEPT !.header_up = Append(@, h)] : h \in HeaderUp(ln.args)}
    [] OTHER -> {}

-----------------------------------------------------------------------------
Init ==
  /\ vocabulary \in Vocabularies
  /\ text = << >>
  /\ current_site_address = None /\ current_site_tls = None
  /\ directive_stack = << << >> >> /\ block_stack = << >>
  /\ sites = {} /\ todo = {} /\ socket_tls = {} /\ socket_sni = {}
  /\ result = "reading"

\* The next line of the file.
Read(ln, shape) ==
  /\ result = "reading" /\ Len(text) < MaxLines
  /\ ln.shape = shape
  /\ text' = Append(text, ln)
  /\ UNCHANGED <<vocabulary, validation>>

\* `?` and return Err: nothing of what was read is used.
Fail(outcome) ==
  /\ result' = outcome
  /\ UNCHANGED <<siteVars, directive_stack, block_stack>>

\* last_mut().push(directive)
PushTo(stack, directive) == Front(stack) \o <<Append(Last(stack), directive)>>

BlankLine(ln) ==
  /\ Read(ln, "blank")
  /\ UNCHANGED <<siteVars, directive_stack, block_stack, result>>

\* Whatever opens at the top level is a site, also `handle_path /a {`.
OpenSite(ln) ==
  /\ Read(ln, "open")
  /\ Len(directive_stack) = 1 /\ current_site_address = None
  /\ current_site_address' = ln.word
  /\ UNCHANGED <<current_site_tls, sites, directive_stack, block_stack, result>>

\* Mutant: a forward_auth block has no directives, so no list is pushed for it.
OpenBlock_NoList(ln) ==
  /\ Read(ln, "open")
  /\ Len(directive_stack) > 1 \/ current_site_address # None
  /\ block_stack' = Append(block_stack, Block(ln.word, ln.args))
  /\ directive_stack' = IF ln.word = "forward_auth" THEN directive_stack
                                                    ELSE Append(directive_stack, << >>)
  /\ UNCHANGED <<siteVars, result>>

\* Any word is taken here; the closing brace knows the types of blocks.
OpenBlock(ln) ==
  /\ Read(ln, "open")
  /\ Len(directive_stack) > 1 \/ current_site_address # None
  /\ block_stack' = Append(block_stack, Block(ln.word, ln.args))
  /\ directive_stack' = Append(directive_stack, << >>)
  /\ UNCHANGED <<siteVars, result>>

CloseBlock(ln) ==
  /\ Read(ln, "close")
  /\ Len(directive_stack) > 1
  /\ LET completed == CompleteBlock(Last(block_stack), Last(directive_stack))
     IN  \/ \E directive \in completed :
              /\ directive_stack' = PushTo(Front(directive_stack), directive)
              /\ block_stack' = Front(block_stack)
              /\ UNCHANGED <<siteVars, result>>
         \/ completed = {} /\ Fail("err")

SiteHere == [address |-> current_site_address, directives |-> Last(directive_stack),
             tls |-> current_site_tls]

\* Mutant: the tls setting is copied into the site and not taken.
CloseSite_KeepsTls(ln) ==
  /\ Read(ln, "close")
  /\ Len(directive_stack) = 1 /\ current_site_address # None
  /\ IF \E s \in sites : s.address = current_site_address
       THEN Fail("err")
       ELSE /\ sites' = sites \cup {SiteHere}
            /\ current_site_address' = None
            /\ directive_stack' = << << >> >>
            /\ UNCHANGED <<current_site_tls, block_stack, result>>

\* Mutant: no list is pushed for the next site.
CloseSite_NoFreshList(ln) ==
  /\ Read(ln, "close")
  /\ Len(directive_stack) = 1 /\ current_site_address # None
  /\ IF \E s \in sites : s.address = current_site_address
       THEN Fail("err")
       ELSE /\ sites' = sites \cup {SiteHere}
            /\ current_site_address' = None /\ current_site_tls' = None
            /\ directive_stack' = << >>
            /\ UNCHANGED <<block_stack, result>>

CloseSite(ln) ==
  /\ Read(ln, "close")
  /\ Len(directive_stack) = 1 /\ current_site_address # None
  /\ IF \E s \in sites : s.address = current_site_address
       THEN Fail("err")
       ELSE /\ sites' = sites \cup {SiteHere}
            /\ current_site_address' = None /\ current_site_tls' = None
            /\ directive_stack' = << << >> >>
            /\ UNCHANGED <<block_stack, result>>

\* A brace that closes nothing is ignored.
CloseNothing(ln) ==
  /\ Read(ln, "close")
  /\ Len(directive_stack) = 1 /\ current_site_address = None
  /\ UNCHANGED <<siteVars, directive_stack, block_stack, result>>

InSettings == block_stack # << >> /\ Last(block_stack).directive_type \in {"forward_auth", "reverse_proxy"}

SettingLine(ln) ==
  /\ Read(ln, "plain") /\ InSettings
  /\ LET updated == WithSetting(Last(block_stack), ln)
     IN  \/ \E block \in updated :
              /\ block_stack' = Append(Front(block_stack), block)
              /\ UNCHANGED <<siteVars, directive_stack, result>>
         \/ updated = {} /\ Fail("err")

\* A build with overflow checks panics where ParseDuration wraps around.
OverflowPanics(ln) ==
  /\ Read(ln, "plain") /\ InSettings
  /\ WithSetting(Last(block_stack), ln) # {}
  /\ ln.word \in ProxySettings \cup {"timeout"} /\ Product(ln.args[1]) >= U64
  /\ Fail("panic")

\* `tls` outside every block, inside a site or not.
TlsLine(ln) ==
  /\ Read(ln, "plain")
  /\ ln.word = "tls" /\ block_stack = << >>
  /\ IF Len(ln.args) < 2 \/ current_site_tls # None
       THEN Fail("err")
       ELSE /\ current_site_tls' = <<ln.args[1], ln.args[2]>>
            /\ UNCHANGED <<current_site_address, sites, directive_stack, block_stack, result>>

\* Every other line is a directive of the innermost list, inside a site or not.
DirectiveLine(ln) ==
  /\ Read(ln, "plain") /\ ~InSettings
  /\ ln.word # "tls" \/ block_stack # << >>
  /\ LET parsed == DirectiveArgs(ln.word, ln.args)
     IN  \/ \E args \in parsed :
              /\ directive_stack' = PushTo(directive_stack, Simple(ln.word, args))
              /\ UNCHANGED <<siteVars, block_stack, result>>
         \/ parsed = {} /\ Fail("err")

\* The end of the file, wherever it comes: what is still open is dropped.
EndOfFile ==
  /\ result = "reading"
  /\ result' = "validating" /\ todo' = sites
  /\ UNCHANGED <<vocabulary, text, siteVars, directive_stack, block_stack, socket_tls, socket_sni>>

-----------------------------------------------------------------------------
(* validate_listen_sockets: one turn per site, in the order of a HashMap   *)

Address(word) ==
  IF word \in DOMAIN AddressOf THEN AddressOf[word] ELSE [host |-> word, port |-> NoPort, sni |-> word]

Socket(site) == ResolveListenAddr(Address(site.address))
IsTls(site) == site.tls # None
SniOn(site) == <<Socket(site), Address(site.address).sni>>

\* Mutant: the kind of a socket is only remembered for TLS sites.
ValidateSite_TlsOnly(site) ==
  /\ result = "validating" /\ site \in todo
  /\ todo' = todo \ {site}
  /\ IF \/ Address(site.address).port = NoPort
        \/ <<Socket(site), ~IsTls(site)>> \in socket_tls
        \/ IsTls(site) /\ SniOn(site) \in socket_sni
       THEN result' = "conflict" /\ UNCHANGED <<socket_tls, socket_sni>>
       ELSE /\ socket_tls' = socket_tls \cup IF IsTls(site) THEN {<<Socket(site), TRUE>>} ELSE {}
            /\ socket_sni' = socket_sni \cup IF IsTls(site) THEN {SniOn(site)} ELSE {}
            /\ UNCHANGED result
  /\ UNCHANGED <<vocabulary, text, siteVars, directive_stack, block_stack>>

ValidateSite(site) ==
  /\ result = "validating" /\ site \in todo
  /\ todo' = todo \ {site}
  /\ IF \/ Address(site.address).port = NoPort
        \/ <<Socket(site), ~IsTls(site)>> \in socket_tls
        \/ IsTls(site) /\ SniOn(site) \in socket_sni
       THEN result' = "conflict" /\ UNCHANGED <<socket_tls, socket_sni>>
       ELSE /\ socket_tls' = socket_tls \cup {<<Socket(site), IsTls(site)>>}
            /\ socket_sni' = socket_sni \cup IF IsTls(site) THEN {SniOn(site)} ELSE {}
            /\ UNCHANGED result
  /\ UNCHANGED <<vocabulary, text, siteVars, directive_stack, block_stack>>

Accept ==
  /\ result = "validating" /\ todo = {}
  /\ result' = "ok"
  /\ UNCHANGED <<vocabulary, text, siteVars, directive_stack, block_stack, validation>>

-----------------------------------------------------------------------------
ReadLine(ln) ==
  \/ BlankLine(ln) \/ OpenSite(ln) \/ OpenBlock(ln)
  \/ CloseBlock(ln) \/ CloseSite(ln) \/ CloseNothing(ln)
  \/ SettingLine(ln) \/ OverflowPanics(ln) \/ TlsLine(ln) \/ DirectiveLine(ln)

Next ==
  \/ \E ln \in vocabulary : ReadLine(ln)
  \/ EndOfFile \/ Accept
  \/ \E site \in todo : ValidateSite(site)

Spec == Init /\ [][Next]_vars

-----------------------------------------------------------------------------
(* What a text t means, from the depth of its braces alone                 *)

Opens(t, i) == t[i].shape = "open"
Closes(t, i) == t[i].shape = "close"

\* Braces open before line i.
Depth(t, i) ==
  Cardinality({j \in 1 .. i - 1 : Opens(t, j)}) - Cardinality({j \in 1 .. i - 1 : Closes(t, j)})

\* The line that closes the block opened at line i, if it is there.
ClosersOf(t, i) ==
  {k \in i + 1 .. Len(t) : /\ Closes(t, k) /\ Depth(t, k) = Depth(t, i) + 1
                           /\ \A j \in i + 1 .. k - 1 : Depth(t, j) > Depth(t, i)}

\* The lines directly inside the block opened at line i.
Inside(t, i) ==
  {j \in i + 1 .. Len(t) : /\ t[j].shape \in {"open", "plain"}
                           /\ Depth(t, j) = Depth(t, i) + 1
                           /\ \A k \in ClosersOf(t, i) : j < k}

InOrder(lines) ==
  [k \in 1 .. Cardinality(lines) |-> CHOOSE i \in lines : Cardinality({j \in lines : j < i}) = k - 1]

SettingsBlocks == {"reverse_proxy", "forward_auth"}

\* No brace closes nothing, only sites stand outside of sites, and the two
\* blocks of settings hold no blocks.  The text may end anywhere.
WellNested(t) ==
  \A i \in DOMAIN t :
    /\ Depth(t, i) >= (IF Closes(t, i) THEN 1 ELSE 0)
    /\ Depth(t, i) = 0 => t[i].shape \in {"open", "blank"}
    /\ Opens(t, i) /\ Depth(t, i) > 0 /\ t[i].word \in SettingsBlocks =>
         \A j \in Inside(t, i) : ~Opens(t, j)

\* No duration is longer than 2^64 seconds.
DurationsFit(t) == \A word \in DOMAIN DurationOf : \A i \in DOMAIN t :
  t[i].args # << >> /\ t[i].args[1] = word => Product(word) < U64

\* The last value a block gives to a setting, None without one.
LastSetting(t, i, name) ==
  LET lines == {j \in Inside(t, i) : t[j].word = name}
      args == t[Max(lines)].args
  IN  IF lines = {} THEN None
      ELSE IF name \in ProxySettings \cup {"timeout"} THEN Product(args[1])
      ELSE CHOOSE v \in SettingValue(name, args) : TRUE

\* All settings of a block, and the headers of a reverse_proxy block.
WrittenSettings(t, i) ==
  [s \in AuthSettings \cup ProxySettings |->
     IF s \in AuthSettings <=> t[i].word = "forward_auth" THEN LastSetting(t, i, s) ELSE None]
WrittenHeaders(t, i) ==
  LET lines == InOrder({j \in Inside(t, i) : t[j].word = "header_up"})
  IN  [k \in DOMAIN lines |-> CHOOSE h \in HeaderUp(t[lines[k]].args) : TRUE]

\* What some lines spell, each of which spells w of it.
Listed(w, lines) == [k \in DOMAIN InOrder(lines) |-> w[InOrder(lines)[k]]]

\* The directive written at line i, with all that is in it.
WrittenAt(t, w, i) ==
  LET ln == t[i]
  IN  CASE ln.shape = "plain" -> Simple(ln.word, CHOOSE a \in DirectiveArgs(ln.word, ln.args) : TRUE)
        [] Opens(t, i) /\ ln.word = "handle_path" ->
             Directive(ln.word, <<FirstOrEmpty(ln.args)>>, NoSettings, << >>, Listed(w, Inside(t, i)))
        [] Opens(t, i) /\ ln.word = "method" ->
             Directive(ln.word, ln.args, NoSettings, << >>, Listed(w, Inside(t, i)))
        [] Opens(t, i) /\ ln.word = "reverse_proxy" ->
             Directive(ln.word, <<FirstOrEmpty(ln.args)>>, WrittenSettings(t, i), WrittenHeaders(t, i), << >>)
        [] Opens(t, i) /\ ln.word = "forward_auth" ->
             Directive(ln.word, << >>, CHOOSE s \in BuildForwardAuth(WrittenSettings(t, i)) : TRUE, << >>, << >>)
        [] OTHER -> None

Written(t) == LET written[i \in 1 .. Len(t)] == WrittenAt(t, written, i) IN written

\* The site block opened at line i.
TlsLines(t, i) == {j \in Inside(t, i) : t[j].shape = "plain" /\ t[j].word = "tls"}
WrittenTls(t, i) ==
  IF TlsLines(t, i) = {} THEN None
  ELSE LET args == t[CHOOSE j \in TlsLines(t, i) : TRUE].args IN <<args[1], args[2]>>
WrittenSite(t, i) ==
  [address |-> t[i].word, directives |-> Listed(Written(t), Inside(t, i) \ TlsLines(t, i)),
   tls |-> WrittenTls(t, i)]

-----------------------------------------------------------------------------
(* Properties                                                              *)

\* Every variable keeps its type; a list of directives is any sequence.
TypeOK ==
  LET words == {ln.word : ln \in vocabulary}
      blocks == {Block(ln.word, ln.args) : ln \in vocabulary}
  IN  /\ vocabulary \in Vocabularies /\ text \in Seq(vocabulary)
      /\ current_site_address \in words \cup {None}
      /\ Len(directive_stack) >= 1
      /\ \A i \in DOMAIN block_stack :
           /\ [block_stack[i] EXCEPT !.set = NoSettings, !.header_up = << >>] \in blocks
           /\ DOMAIN block_stack[i].set = AuthSettings \cup ProxySettings
      /\ todo \subseteq sites
      /\ \A p \in socket_tls : p[2] \in BOOLEAN
      /\ result \in {"reading", "validating", "ok", "err", "conflict", "panic"}

\* from_str's five `expect`s on the stacks never fire: while it reads, there
\* is one list more than there are open blocks, and no block is open outside
\* of a site.
StacksMatch ==
  result = "reading" =>
    /\ Len(directive_stack) = Len(block_stack) + 1
    /\ block_stack # << >> => current_site_address # None

\* An accepted text yields the sites it spells, with every directive in the
\* block its braces put it in, in its order, with the last value of each
\* setting, and the TLS setting of its own site; a text that ends inside a
\* site loses that site and nothing else.
ParsesAsWritten ==
  result = "ok" /\ WellNested(text) /\ DurationsFit(text) =>
    sites = {WrittenSite(text, i) :
               i \in {j \in DOMAIN text : Opens(text, j) /\ Depth(text, j) = 0 /\ ClosersOf(text, j) # {}}}

\* What start_all needs of the sites: each has a socket, a socket is all TLS
\* or all plain, and no two TLS sites on it answer to the same SNI.
Servable ==
  \A s \in sites :
    /\ Address(s.address).port # NoPort
    /\ \A t \in sites : Socket(s) = Socket(t) =>
         /\ IsTls(s) <=> IsTls(t)
         /\ IsTls(s) /\ SniOn(s) = SniOn(t) => s = t

\* validate_listen_sockets accepts exactly the configurations start_all can
\* serve, in whatever order the HashMap hands the sites out.
ValidationDecides == (result = "ok" => Servable) /\ (result = "conflict" => ~Servable)

\* parser.rs: "Unexpected directive inside reverse_proxy block. Allowed:
\* connect_timeout, read_timeout, header_up."
ReverseProxyHoldsSettingsOnly ==
  result = "ok" /\ Depth(text, Len(text) + 1) = 0 =>
    \A i \in DOMAIN text :
      Opens(text, i) /\ Depth(text, i) > 0 /\ text[i].word = "reverse_proxy" =>
        \A j \in Inside(text, i) : text[j].word \in ProxySettings \cup {"header_up"}
=============================================================================
