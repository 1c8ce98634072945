------------------------ MODULE ConfigParser_proofs ------------------------
(***************************************************************************)
(* Config::from_str on files of any length and any vocabulary, and any     *)
(* meaning of its words: the two stacks stay in step, so that none of the  *)
(* parser's `expect`s fires; validate_listen_sockets decides exactly what  *)
(* start_all needs, in every order the HashMap hands the sites out; and an *)
(* accepted text yields the sites it spells.                               *)
(***************************************************************************)
EXTENDS ConfigParser, Text_proofs, FiniteSetTheorems

-----------------------------------------------------------------------------
(* Sequences whose elements have no set of their own: a directive holds    *)
(* lists of directives.                                                    *)

IsSeq(s) == s \in Seq(ToSet(s))

\* Every sequence is one.
LEMMA IsSeqOf ==
  ASSUME NEW S, NEW s \in Seq(S)
  PROVE  IsSeq(s)
<1>1. Len(s) \in Nat /\ s \in [1 .. Len(s) -> S]
  OBVIOUS
<1>2. s \in [1 .. Len(s) -> ToSet(s)]
  BY <1>1 DEF ToSet
<1>. QED
  BY <1>1, <1>2, SeqDef DEF IsSeq

\* Vec::push
LEMMA AppendFacts ==
  ASSUME NEW s, IsSeq(s), NEW e
  PROVE  /\ IsSeq(Append(s, e)) /\ Len(Append(s, e)) = Len(s) + 1 /\ Len(s) \in Nat
         /\ DOMAIN Append(s, e) = 1 .. Len(s) + 1 /\ DOMAIN s = 1 .. Len(s)
         /\ Append(s, e)[Len(s) + 1] = e
         /\ \A i \in 1 .. Len(s) : Append(s, e)[i] = s[i]
<1> DEFINE S == ToSet(s) \cup {e}
<1>1. s \in Seq(S) /\ e \in S
  BY SeqMonotonic DEF IsSeq
<1> HIDE DEF S
<1>2. Append(s, e) \in Seq(S)
  BY <1>1
<1>3. IsSeq(Append(s, e))
  BY <1>2, IsSeqOf
<1>. QED
  BY <1>1, <1>2, <1>3

\* Vec::pop
LEMMA FrontFacts ==
  ASSUME NEW s, IsSeq(s), Len(s) >= 1
  PROVE  /\ IsSeq(Front(s)) /\ Len(Front(s)) = Len(s) - 1 /\ Len(s) \in Nat
         /\ DOMAIN Front(s) = 1 .. Len(s) - 1 /\ DOMAIN s = 1 .. Len(s)
         /\ \A i \in 1 .. Len(s) - 1 : Front(s)[i] = s[i]
<1> DEFINE S == ToSet(s)
<1>1. s \in Seq(S)
  BY DEF IsSeq
<1> HIDE DEF S
<1>2. Len(s) \in Nat /\ DOMAIN s = 1 .. Len(s) /\ \A i \in 1 .. Len(s) - 1 : s[i] \in S
  BY <1>1
<1>3. /\ Front(s) \in Seq(S) /\ Len(Front(s)) = Len(s) - 1
      /\ \A i \in 1 .. Len(s) - 1 : Front(s)[i] = s[i]
  BY <1>1, <1>2 DEF Front
<1>4. IsSeq(Front(s))
  BY <1>3, IsSeqOf
<1>. QED
  BY <1>2, <1>3, <1>4

\* last_mut().push(directive)
LEMMA PushFacts ==
  ASSUME NEW s, IsSeq(s), Len(s) >= 1, NEW d
  PROVE  IsSeq(PushTo(s, d)) /\ Len(PushTo(s, d)) = Len(s)
<1> DEFINE e == Append(Last(s), d)
           S == ToSet(Front(s)) \cup {e}
<1>1. IsSeq(Front(s)) /\ Len(Front(s)) = Len(s) - 1 /\ Len(s) \in Nat
  BY FrontFacts
<1>2. Front(s) \in Seq(S) /\ <<e>> \in Seq(S)
  BY <1>1, SeqMonotonic DEF IsSeq
<1>3. PushTo(s, d) = Front(s) \o <<e>>
  BY DEF PushTo
<1> HIDE DEF S, e
<1>4. Front(s) \o <<e>> \in Seq(S) /\ Len(Front(s) \o <<e>>) = Len(Front(s)) + 1
  BY <1>2
<1>5. IsSeq(Front(s) \o <<e>>)
  BY <1>4, IsSeqOf
<1>6. Len(Front(s) \o <<e>>) = Len(s)
  BY <1>1, <1>4
<1>. QED
  BY <1>3, <1>5, <1>6

-----------------------------------------------------------------------------
(* The stacks                                                              *)

\* A block of the vocabulary, whatever settings it has been given since.
OpenBlockOf(V, b) ==
  /\ [b EXCEPT !.set = NoSettings, !.header_up = << >>] \in {Block(ln.word, ln.args) : ln \in V}
  /\ DOMAIN b.set = AuthSettings \cup ProxySettings

\* What is read and what comes of it, apart from the stacks.
ReadingOK ==
  /\ vocabulary \in Vocabularies /\ text \in Seq(vocabulary)
  /\ current_site_address \in {ln.word : ln \in vocabulary} \cup {None}
  /\ todo \subseteq sites
  /\ \A p \in socket_tls : p[2] \in BOOLEAN
  /\ result \in {"reading", "validating", "ok", "err", "conflict", "panic"}

\* The stacks are Vecs, and the lower one is never empty.
StacksOK ==
  /\ IsSeq(directive_stack) /\ Len(directive_stack) >= 1
  /\ IsSeq(block_stack)
  /\ \A i \in 1 .. Len(block_stack) : OpenBlockOf(vocabulary, block_stack[i])

\* The inductive invariant of the reading half.
StackInv == ReadingOK /\ StacksOK /\ StacksMatch

\* A freshly opened block.
LEMMA FreshBlock ==
  ASSUME NEW V, NEW ln \in V
  PROVE  OpenBlockOf(V, Block(ln.word, ln.args))
<1>1. [Block(ln.word, ln.args) EXCEPT !.set = NoSettings, !.header_up = << >>]
        = Block(ln.word, ln.args)
  <2> DEFINE B == Block(ln.word, ln.args)
  <2>1. B.set = NoSettings /\ B.header_up = << >> /\ B = [x \in DOMAIN B |-> B[x]]
    BY DEF Block
  <2> HIDE DEF B
  <2>2. [B EXCEPT !.set = NoSettings, !.header_up = << >>] = B
    BY <2>1
  <2>. QED
    BY <2>2 DEF B
<1>2. DOMAIN Block(ln.word, ln.args).set = AuthSettings \cup ProxySettings
  BY DEF Block, NoSettings
<1>. QED
  BY <1>1, <1>2 DEF OpenBlockOf

\* A setting line leaves the block the block it was.
LEMMA SettingKeepsBlock ==
  ASSUME NEW V, NEW b, OpenBlockOf(V, b), NEW ln, NEW c \in WithSetting(b, ln)
  PROVE  OpenBlockOf(V, c)
<1>1. PICK l \in V : [b EXCEPT !.set = NoSettings, !.header_up = << >>] = Block(l.word, l.args)
  BY DEF OpenBlockOf
<1>2. DOMAIN b = {"directive_type", "args", "set", "header_up"}
  <2>1. DOMAIN [b EXCEPT !.set = NoSettings, !.header_up = << >>] = DOMAIN b
    OBVIOUS
  <2>2. DOMAIN Block(l.word, l.args) = {"directive_type", "args", "set", "header_up"}
    BY DEF Block
  <2>. QED
    BY <1>1, <2>1, <2>2
<1>3. CASE \E v : c = [b EXCEPT !.set[ln.word] = v]
  <2>1. PICK v : c = [b EXCEPT !.set[ln.word] = v]
    BY <1>3
  <2>2. DOMAIN c = DOMAIN b /\ c.args = b.args /\ c.directive_type = b.directive_type
    BY <1>2, <2>1
  <2>3. DOMAIN c.set = DOMAIN b.set
    BY <1>2, <2>1
  <2>4. [c EXCEPT !.set = NoSettings, !.header_up = << >>]
          = [b EXCEPT !.set = NoSettings, !.header_up = << >>]
    BY <1>2, <2>2
  <2>. QED
    BY <2>3, <2>4 DEF OpenBlockOf
<1>4. CASE \E h : c = [b EXCEPT !.header_up = Append(@, h)]
  <2>1. PICK h : c = [b EXCEPT !.header_up = Append(@, h)]
    BY <1>4
  <2>2. DOMAIN c = DOMAIN b /\ c.args = b.args /\ c.directive_type = b.directive_type
        /\ c.set = b.set
    BY <1>2, <2>1
  <2>3. [c EXCEPT !.set = NoSettings, !.header_up = << >>]
          = [b EXCEPT !.set = NoSettings, !.header_up = << >>]
    BY <1>2, <2>2
  <2>. QED
    BY <2>2, <2>3 DEF OpenBlockOf
<1>. QED
  BY <1>3, <1>4 DEF WithSetting

\* The empty stack is the only one of length 0.
LEMMA EmptyStack ==
  ASSUME NEW s, IsSeq(s)
  PROVE  Len(s) \in Nat /\ (s = << >> <=> Len(s) = 0)
BY DEF IsSeq

\* `?` leaves the stacks alone, and they are not looked at again.
LEMMA FailKeeps ==
  ASSUME StackInv, NEW ln \in vocabulary, NEW shape, Read(ln, shape),
         NEW outcome \in {"err", "panic"}, Fail(outcome)
  PROVE  StackInv'
BY DEF StackInv, ReadingOK, StacksOK, StacksMatch, Read, Fail, validation, siteVars

\* A line that only touches the stacks.
LEMMA LineKeeps ==
  ASSUME StackInv, NEW ln \in vocabulary, NEW shape, Read(ln, shape),
         UNCHANGED <<siteVars, result>>, StacksOK',
         Len(directive_stack)' = Len(block_stack)' + 1,
         (block_stack # << >>)' => current_site_address # None
  PROVE  StackInv'
<1>1. ReadingOK'
  BY DEF StackInv, ReadingOK, Read, validation, siteVars
<1>. QED
  BY <1>1 DEF StackInv, StacksMatch, siteVars

\* The facts about the stacks that hold while a line is read.
LEMMA WhileReading ==
  ASSUME StackInv, result = "reading"
  PROVE  /\ Len(directive_stack) \in Nat /\ Len(block_stack) \in Nat
         /\ Len(directive_stack) = Len(block_stack) + 1
         /\ block_stack = << >> <=> Len(block_stack) = 0
         /\ block_stack # << >> => current_site_address # None
BY EmptyStack DEF StackInv, StacksOK, StacksMatch

\* A line that is skipped.
LEMMA SkipKeeps ==
  ASSUME StackInv, NEW ln \in vocabulary, NEW shape, Read(ln, shape),
         UNCHANGED <<siteVars, directive_stack, block_stack, result>>
  PROVE  StackInv'
<1>1. StacksOK'
  BY DEF StackInv, StacksOK, Read
<1>2. /\ Len(directive_stack) = Len(block_stack) + 1
      /\ block_stack # << >> => current_site_address # None
  BY WhileReading DEF Read
<1>. QED
  BY <1>1, <1>2, LineKeeps

\* An opening brace.
LEMMA OpenKeeps ==
  ASSUME StackInv, NEW ln \in vocabulary, OpenSite(ln) \/ OpenBlock(ln)
  PROVE  StackInv'
<1>1. CASE OpenSite(ln)
  <2>1. result = "reading" /\ Len(directive_stack) = 1 /\ Read(ln, "open")
        /\ current_site_address' = ln.word
        /\ UNCHANGED <<current_site_tls, sites, directive_stack, block_stack, result>>
    BY <1>1 DEF OpenSite, Read
  <2>2. Len(block_stack) = 0 /\ block_stack = << >>
    BY <2>1, WhileReading
  <2>3. StacksOK'
    BY <2>1 DEF StackInv, StacksOK, Read
  <2>4. ReadingOK'
    BY <2>1 DEF StackInv, ReadingOK, Read, validation
  <2>. QED
    BY <2>1, <2>2, <2>3, <2>4 DEF StackInv, StacksMatch
<1>2. CASE OpenBlock(ln)
  <2> DEFINE b == Block(ln.word, ln.args)
  <2>1. /\ Read(ln, "open") /\ result = "reading" /\ vocabulary' = vocabulary
        /\ Len(directive_stack) > 1 \/ current_site_address # None
        /\ block_stack' = Append(block_stack, b)
        /\ directive_stack' = Append(directive_stack, << >>)
        /\ UNCHANGED <<siteVars, result>>
    BY <1>2 DEF OpenBlock, Read
  <2>2. OpenBlockOf(vocabulary, b)
    BY FreshBlock
  <2> HIDE DEF b
  <2>3. current_site_address # None
    BY <2>1, WhileReading
  <2>4. IsSeq(directive_stack) /\ IsSeq(block_stack)
        /\ \A i \in 1 .. Len(block_stack) : OpenBlockOf(vocabulary, block_stack[i])
    BY DEF StackInv, StacksOK
  <2>5. /\ IsSeq(directive_stack') /\ Len(directive_stack') = Len(directive_stack) + 1
        /\ IsSeq(block_stack') /\ Len(block_stack') = Len(block_stack) + 1
        /\ block_stack'[Len(block_stack) + 1] = b
        /\ \A i \in 1 .. Len(block_stack) : block_stack'[i] = block_stack[i]
    BY <2>1, <2>4, AppendFacts
  <2>6. /\ Len(directive_stack) \in Nat /\ Len(block_stack) \in Nat
        /\ Len(directive_stack) = Len(block_stack) + 1
    BY <2>1, WhileReading
  <2>7. \A i \in 1 .. Len(block_stack') : OpenBlockOf(vocabulary, block_stack'[i])
    BY <2>2, <2>4, <2>5, <2>6
  <2>8. StacksOK'
    BY <2>1, <2>5, <2>6, <2>7 DEF StacksOK
  <2>. QED
    BY <2>1, <2>3, <2>5, <2>6, <2>8, LineKeeps
<1>. QED
  BY <1>1, <1>2

\* A closing brace: one list and one block are taken off together.
LEMMA CloseKeeps ==
  ASSUME StackInv, NEW ln \in vocabulary, CloseBlock(ln) \/ CloseSite(ln) \/ CloseNothing(ln)
  PROVE  StackInv'
<1>1. CASE CloseBlock(ln)
  <2>1. /\ Read(ln, "close") /\ result = "reading" /\ vocabulary' = vocabulary
        /\ Len(directive_stack) > 1
    BY <1>1 DEF CloseBlock, Read
  <2>2. CASE Fail("err")
    BY <2>1, <2>2, FailKeeps
  <2>3. CASE ~Fail("err")
    <3>1. PICK directive : /\ directive_stack' = PushTo(Front(directive_stack), directive)
                           /\ block_stack' = Front(block_stack)
                           /\ UNCHANGED <<siteVars, result>>
      BY <1>1, <2>3 DEF CloseBlock
    <3>2. /\ Len(directive_stack) \in Nat /\ Len(block_stack) \in Nat
          /\ Len(directive_stack) = Len(block_stack) + 1 /\ Len(block_stack) >= 1
          /\ current_site_address # None
      BY <2>1, WhileReading
    <3>3. IsSeq(directive_stack) /\ IsSeq(block_stack)
          /\ \A i \in 1 .. Len(block_stack) : OpenBlockOf(vocabulary, block_stack[i])
      BY DEF StackInv, StacksOK
    <3>4. IsSeq(Front(directive_stack)) /\ Len(Front(directive_stack)) = Len(directive_stack) - 1
      BY <3>2, <3>3, FrontFacts
    <3>5. IsSeq(directive_stack') /\ Len(directive_stack') = Len(directive_stack) - 1
      <4>1. Len(Front(directive_stack)) >= 1
        BY <3>2, <3>4
      <4>. QED
        BY <3>1, <3>4, <4>1, PushFacts
    <3>6. /\ IsSeq(block_stack') /\ Len(block_stack') = Len(block_stack) - 1
          /\ \A i \in 1 .. Len(block_stack) - 1 : block_stack'[i] = block_stack[i]
      BY <3>1, <3>2, <3>3, FrontFacts
    <3>7. \A i \in 1 .. Len(block_stack') : OpenBlockOf(vocabulary, block_stack'[i])
      BY <3>2, <3>3, <3>6
    <3>8. StacksOK'
      BY <2>1, <3>2, <3>5, <3>6, <3>7 DEF StacksOK
    <3>. QED
      BY <2>1, <3>1, <3>2, <3>5, <3>6, <3>8, LineKeeps
  <2>. QED
    BY <2>2, <2>3
<1>2. CASE CloseSite(ln)
  <2>1. /\ Read(ln, "close") /\ result = "reading" /\ Len(directive_stack) = 1
    BY <1>2 DEF CloseSite, Read
  <2>2. CASE Fail("err")
    BY <2>1, <2>2, FailKeeps
  <2>3. CASE ~Fail("err")
    <3>1. /\ sites' = sites \cup {SiteHere} /\ current_site_address' = None
          /\ directive_stack' = << << >> >> /\ UNCHANGED <<block_stack, result>>
      BY <1>2, <2>3 DEF CloseSite
    <3>2. Len(block_stack) = 0 /\ block_stack = << >>
      BY <2>1, WhileReading
    <3>3. IsSeq(<< << >> >>) /\ Len(<< << >> >>) = 1
      <4>1. << << >> >> \in Seq({<< >>})
        OBVIOUS
      <4>. QED
        BY <4>1, IsSeqOf
    <3>4. StacksOK'
      BY <2>1, <3>1, <3>3 DEF StackInv, StacksOK, Read
    <3>5. ReadingOK'
      BY <2>1, <3>1 DEF StackInv, ReadingOK, Read, validation
    <3>. QED
      BY <3>1, <3>2, <3>3, <3>4, <3>5 DEF StackInv, StacksMatch
  <2>. QED
    BY <2>2, <2>3
<1>3. CASE CloseNothing(ln)
  BY <1>3, SkipKeeps DEF CloseNothing
<1>. QED
  BY <1>1, <1>2, <1>3

\* A line without a brace.
LEMMA PlainKeeps ==
  ASSUME StackInv, NEW ln \in vocabulary,
         SettingLine(ln) \/ OverflowPanics(ln) \/ TlsLine(ln) \/ DirectiveLine(ln)
  PROVE  StackInv'
<1>1. Read(ln, "plain") /\ result = "reading" /\ vocabulary' = vocabulary
  BY DEF SettingLine, OverflowPanics, TlsLine, DirectiveLine, Read
<1>2. /\ Len(directive_stack) \in Nat /\ Len(block_stack) \in Nat
      /\ Len(directive_stack) = Len(block_stack) + 1
      /\ block_stack = << >> <=> Len(block_stack) = 0
      /\ block_stack # << >> => current_site_address # None
  BY <1>1, WhileReading
<1>3. /\ IsSeq(directive_stack) /\ IsSeq(block_stack) /\ Len(directive_stack) >= 1
      /\ \A i \in 1 .. Len(block_stack) : OpenBlockOf(vocabulary, block_stack[i])
  BY DEF StackInv, StacksOK
<1>4. CASE Fail("err") \/ Fail("panic")
  BY <1>1, <1>4, FailKeeps
<1>5. CASE SettingLine(ln) /\ ~Fail("err")
  <2>1. PICK block \in WithSetting(Last(block_stack), ln) :
          /\ block_stack' = Append(Front(block_stack), block)
          /\ UNCHANGED <<siteVars, directive_stack, result>>
    BY <1>5 DEF SettingLine
  <2>2. block_stack # << >> /\ Len(block_stack) >= 1
    BY <1>2, <1>5 DEF SettingLine, InSettings
  <2>3. OpenBlockOf(vocabulary, Last(block_stack))
    BY <1>2, <1>3, <2>2 DEF Last
  <2>4. OpenBlockOf(vocabulary, block)
    BY <2>1, <2>3, SettingKeepsBlock
  <2>5. /\ IsSeq(Front(block_stack)) /\ Len(Front(block_stack)) = Len(block_stack) - 1
        /\ \A i \in 1 .. Len(block_stack) - 1 : Front(block_stack)[i] = block_stack[i]
    BY <1>3, <2>2, FrontFacts
  <2>6. /\ IsSeq(block_stack') /\ Len(block_stack') = Len(Front(block_stack)) + 1
        /\ block_stack'[Len(Front(block_stack)) + 1] = block
        /\ \A i \in 1 .. Len(Front(block_stack)) : block_stack'[i] = Front(block_stack)[i]
    BY <2>1, <2>5, AppendFacts
  <2>7. Len(block_stack') = Len(block_stack)
    BY <1>2, <2>5, <2>6
  <2>8. \A i \in 1 .. Len(block_stack') : OpenBlockOf(vocabulary, block_stack'[i])
    BY <1>2, <1>3, <2>4, <2>5, <2>6, <2>7
  <2>9. StacksOK'
    BY <1>1, <1>3, <2>1, <2>6, <2>8 DEF StacksOK
  <2>. QED
    BY <1>1, <1>2, <2>1, <2>2, <2>7, <2>9, LineKeeps
<1>6. CASE TlsLine(ln) /\ ~Fail("err")
  <2>1. UNCHANGED <<current_site_address, sites, directive_stack, block_stack, result>>
    BY <1>6 DEF TlsLine
  <2>2. StacksOK'
    BY <1>1, <1>3, <2>1 DEF StacksOK
  <2>3. ReadingOK'
    BY <1>1, <2>1 DEF StackInv, ReadingOK, Read, validation
  <2>. QED
    BY <1>2, <2>1, <2>2, <2>3 DEF StackInv, StacksMatch
<1>7. CASE DirectiveLine(ln) /\ ~Fail("err")
  <2>1. PICK d : directive_stack' = PushTo(directive_stack, d)
                 /\ UNCHANGED <<siteVars, block_stack, result>>
    BY <1>7 DEF DirectiveLine
  <2>2. IsSeq(directive_stack') /\ Len(directive_stack') = Len(directive_stack)
    BY <1>3, <2>1, PushFacts
  <2>3. StacksOK'
    BY <1>1, <1>3, <2>1, <2>2 DEF StacksOK
  <2>. QED
    BY <1>1, <1>2, <2>1, <2>2, <2>3, LineKeeps
<1>. QED
  BY <1>4, <1>5, <1>6, <1>7 DEF OverflowPanics

\* validate_listen_sockets leaves the stacks alone.
LEMMA ValidationKeeps ==
  ASSUME StackInv, EndOfFile \/ Accept \/ \E site \in todo : ValidateSite(site)
  PROVE  StackInv'
<1>1. /\ UNCHANGED <<vocabulary, text, siteVars, directive_stack, block_stack>>
      /\ result' \in {"validating", "ok", "conflict"}
  BY DEF EndOfFile, Accept, ValidateSite
<1>2. StacksOK'
  BY <1>1 DEF StackInv, StacksOK
<1>3. todo' \subseteq sites /\ \A p \in socket_tls' : p[2] \in BOOLEAN
  <2>1. todo \subseteq sites /\ \A p \in socket_tls : p[2] \in BOOLEAN
    BY DEF StackInv, ReadingOK
  <2>2. CASE EndOfFile \/ Accept
    BY <2>1, <2>2 DEF EndOfFile, Accept, validation
  <2>3. ASSUME NEW site \in todo, ValidateSite(site)
        PROVE  todo' \subseteq sites /\ \A p \in socket_tls' : p[2] \in BOOLEAN
    <3>1. /\ todo' = todo \ {site}
          /\ \/ socket_tls' = socket_tls
             \/ socket_tls' = socket_tls \cup {<<Socket(site), IsTls(site)>>}
      BY <2>3 DEF ValidateSite
    <3>2. IsTls(site) \in BOOLEAN
      BY DEF IsTls
    <3>. QED
      BY <2>1, <3>1, <3>2
  <2>. QED
    BY <2>2, <2>3
<1>4. ReadingOK'
  BY <1>1, <1>3 DEF StackInv, ReadingOK, siteVars
<1>. QED
  BY <1>1, <1>2, <1>4 DEF StackInv, StacksMatch

\* The stacks start with one empty list for the directives of a site.
LEMMA StackInit == Init => StackInv
<1> SUFFICES ASSUME Init PROVE StackInv
  OBVIOUS
<1>1. << << >> >> \in Seq({<< >>}) /\ << >> \in Seq({}) /\ << >> \in Seq(vocabulary)
  OBVIOUS
<1>2. IsSeq(<< << >> >>) /\ IsSeq(<< >>) /\ Len(<< << >> >>) = 1 /\ Len(<< >>) = 0
  BY <1>1, IsSeqOf
<1>3. StacksOK /\ StacksMatch
  BY <1>2 DEF Init, StacksOK, StacksMatch
<1>4. ReadingOK
  BY <1>1 DEF Init, ReadingOK
<1>. QED
  BY <1>3, <1>4 DEF StackInv

\* Every line, and every turn of the validation, keeps StackInv.
LEMMA StackStep == StackInv /\ [Next]_vars => StackInv'
<1> SUFFICES ASSUME StackInv, [Next]_vars PROVE StackInv'
  OBVIOUS
<1>1. ASSUME NEW ln \in vocabulary, ReadLine(ln) PROVE StackInv'
  <2>1. CASE BlankLine(ln)
    BY <2>1, SkipKeeps DEF BlankLine
  <2>. QED
    BY <1>1, <2>1, OpenKeeps, CloseKeeps, PlainKeeps DEF ReadLine
<1>2. CASE UNCHANGED vars
  BY <1>2 DEF vars, siteVars, validation, StackInv, ReadingOK, StacksOK, StacksMatch
<1>. QED
  BY <1>1, <1>2, ValidationKeeps DEF Next

\* StackInv is an invariant of the parser.
LEMMA StackHolds == Spec => []StackInv
BY StackInit, StackStep, PTL DEF Spec

\* Every variable of the parser keeps its type, for files of any length in any
\* vocabulary: an open block is one that was written, whatever its settings.
THEOREM ParserTyped == Spec => []TypeOK
<1>1. StackInv => TypeOK
  <2> SUFFICES ASSUME StackInv PROVE TypeOK
    OBVIOUS
  <2>1. DOMAIN block_stack = 1 .. Len(block_stack)
    BY DEF StackInv, StacksOK, IsSeq
  <2>. QED
    BY <2>1 DEF StackInv, ReadingOK, StacksOK, TypeOK, OpenBlockOf
<1>. QED
  BY <1>1, StackHolds, PTL

\* None of the `expect`s on the two stacks can fire, on any file: a list is
\* pushed for every open block and popped with it, and nothing is open outside
\* of a site.
THEOREM StacksSafe == Spec => []StacksMatch
<1>1. StackInv => StacksMatch
  BY DEF StackInv
<1>. QED
  BY <1>1, StackHolds, PTL

-----------------------------------------------------------------------------
(* validate_listen_sockets                                                 *)

\* Two sites that start_all can serve side by side.
Compatible(s, t) ==
  Socket(s) = Socket(t) => /\ IsTls(s) <=> IsTls(t)
                           /\ IsTls(s) /\ SniOn(s) = SniOn(t) => s = t

Visited == sites \ todo

\* The two maps hold what the sites visited so far have put there.
MapsOK ==
  /\ \A p \in socket_tls : \E s \in Visited : p = <<Socket(s), IsTls(s)>>
  /\ \A s \in Visited : <<Socket(s), IsTls(s)>> \in socket_tls
  /\ \A p \in socket_sni : \E s \in Visited : IsTls(s) /\ p = SniOn(s)
  /\ \A s \in Visited : IsTls(s) => SniOn(s) \in socket_sni

\* The sites visited so far can be served.
VisitedOK ==
  \A s \in Visited : /\ Address(s.address).port # NoPort
                     /\ \A t \in Visited : Compatible(s, t)

\* The inductive invariant of the validating half.
ValidationInv ==
  /\ result = "reading" => todo = {} /\ socket_tls = {} /\ socket_sni = {}
  /\ result \in {"validating", "ok"} => todo \subseteq sites /\ MapsOK /\ VisitedOK
  /\ result = "ok" => todo = {}
  /\ result = "conflict" => ~Servable

\* Servable, with Compatible for its inner part.
LEMMA ServableAs ==
  Servable <=> \A s \in sites : /\ Address(s.address).port # NoPort
                                /\ \A t \in sites : Compatible(s, t)
BY DEF Servable, Compatible

\* The order of the two sites does not matter.
LEMMA CompatibleSym ==
  ASSUME NEW s, NEW t, Compatible(s, t)
  PROVE  Compatible(t, s)
BY DEF Compatible

\* One turn refuses the site if one already visited is in its way, and only
\* then.
LEMMA ValidateStep ==
  ASSUME ValidationInv, NEW site \in todo, ValidateSite(site)
  PROVE  ValidationInv'
<1>1. /\ todo \subseteq sites /\ MapsOK /\ VisitedOK /\ result = "validating"
      /\ todo' = todo \ {site} /\ sites' = sites
  BY DEF ValidationInv, ValidateSite, siteVars
<1> DEFINE Bad == \/ Address(site.address).port = NoPort
                  \/ <<Socket(site), ~IsTls(site)>> \in socket_tls
                  \/ IsTls(site) /\ SniOn(site) \in socket_sni
<1>2. site \in sites /\ site \notin Visited
  BY <1>1 DEF Visited
<1>3. CASE Bad
  <2>1. result' = "conflict"
    BY <1>3 DEF ValidateSite
  <2>2. ~Servable
    <3>1. CASE Address(site.address).port = NoPort
      BY <1>2, <3>1 DEF Servable
    <3>2. CASE <<Socket(site), ~IsTls(site)>> \in socket_tls
      <4>1. PICK t \in Visited : <<Socket(site), ~IsTls(site)>> = <<Socket(t), IsTls(t)>>
        BY <1>1, <3>2 DEF MapsOK
      <4>2. Socket(site) = Socket(t) /\ (~IsTls(site)) = IsTls(t)
        BY <4>1
      <4>3. t \in sites /\ ~Compatible(site, t)
        BY <4>2 DEF Compatible, Visited, IsTls
      <4>. QED
        BY <1>2, <4>3, ServableAs
    <3>3. CASE IsTls(site) /\ SniOn(site) \in socket_sni
      <4>1. PICK t \in Visited : IsTls(t) /\ SniOn(site) = SniOn(t)
        BY <1>1, <3>3 DEF MapsOK
      <4>2. Socket(site) = Socket(t) /\ t # site /\ t \in sites
        BY <1>2, <4>1 DEF SniOn, Visited
      <4>3. ~Compatible(site, t)
        BY <3>3, <4>1, <4>2 DEF Compatible
      <4>. QED
        BY <1>2, <4>2, <4>3, ServableAs
    <3>. QED
      BY <1>3, <3>1, <3>2, <3>3
  <2>3. Servable' <=> Servable
    BY <1>1 DEF Servable
  <2>. QED
    BY <2>1, <2>2, <2>3 DEF ValidationInv
<1>4. CASE ~Bad
  <2>1. /\ socket_tls' = socket_tls \cup {<<Socket(site), IsTls(site)>>}
        /\ socket_sni' = socket_sni \cup (IF IsTls(site) THEN {SniOn(site)} ELSE {})
        /\ result' = "validating"
    BY <1>1, <1>4 DEF ValidateSite
  <2>2. \A s : s \in Visited' <=> s \in Visited \/ s = site
    BY <1>1, <1>2 DEF Visited
  <2>3. MapsOK'
    <3>1. \A p \in socket_tls' : \E s \in Visited' : p = <<Socket(s), IsTls(s)>>
      BY <1>1, <2>1, <2>2 DEF MapsOK
    <3>2. \A s \in Visited' : <<Socket(s), IsTls(s)>> \in socket_tls'
      BY <1>1, <2>1, <2>2 DEF MapsOK
    <3>3. \A p \in socket_sni' : \E s \in Visited' : IsTls(s) /\ p = SniOn(s)
      BY <1>1, <2>1, <2>2 DEF MapsOK
    <3>4. \A s \in Visited' : IsTls(s) => SniOn(s) \in socket_sni'
      BY <1>1, <2>1, <2>2 DEF MapsOK
    <3>. QED
      BY <3>1, <3>2, <3>3, <3>4 DEF MapsOK
  <2>4. ASSUME NEW t \in Visited PROVE Compatible(site, t)
    <3>1. ASSUME Socket(site) = Socket(t) PROVE IsTls(site) <=> IsTls(t)
      <4>1. <<Socket(site), IsTls(t)>> \in socket_tls
        BY <1>1, <2>4, <3>1 DEF MapsOK
      <4>2. <<Socket(site), ~IsTls(site)>> \notin socket_tls
        BY <1>4
      <4>3. IsTls(t) # ~IsTls(site)
        BY <4>1, <4>2
      <4>. QED
        BY <4>3 DEF IsTls
    <3>2. ASSUME IsTls(site), IsTls(t) PROVE SniOn(site) # SniOn(t)
      <4>1. SniOn(t) \in socket_sni
        BY <1>1, <2>4, <3>2 DEF MapsOK
      <4>. QED
        BY <1>4, <3>2, <4>1
    <3>. QED
      BY <3>1, <3>2 DEF Compatible
  <2>5. Compatible(site, site) /\ Address(site.address).port # NoPort
    BY <1>4 DEF Compatible
  <2>6. VisitedOK'
    BY <1>1, <2>2, <2>4, <2>5, CompatibleSym DEF VisitedOK
  <2>. QED
    BY <1>1, <2>1, <2>3, <2>6 DEF ValidationInv
<1>. QED
  BY <1>3, <1>4

\* Every step keeps ValidationInv.
LEMMA ValidationStep == ValidationInv /\ [Next]_vars => ValidationInv'
<1> SUFFICES ASSUME ValidationInv, [Next]_vars PROVE ValidationInv'
  OBVIOUS
<1>1. ASSUME NEW ln \in vocabulary, ReadLine(ln) PROVE ValidationInv'
  <2>1. result = "reading" /\ UNCHANGED validation
    BY <1>1 DEF ReadLine, Read, BlankLine, OpenSite, OpenBlock, CloseBlock, CloseSite,
                CloseNothing, SettingLine, OverflowPanics, TlsLine, DirectiveLine
  <2>2. result' \in {"reading", "err", "panic"}
    BY <1>1, <2>1 DEF ReadLine, BlankLine, OpenSite, OpenBlock, CloseBlock, CloseSite,
                      CloseNothing, SettingLine, OverflowPanics, TlsLine, DirectiveLine, Fail
  <2>. QED
    BY <2>1, <2>2 DEF ValidationInv, validation
<1>2. CASE EndOfFile
  <2>1. /\ result' = "validating" /\ todo' = sites /\ sites' = sites
        /\ socket_tls' = {} /\ socket_sni' = {}
    BY <1>2 DEF EndOfFile, ValidationInv, siteVars
  <2>2. Visited' = {}
    BY <2>1 DEF Visited
  <2>. QED
    BY <2>1, <2>2 DEF ValidationInv, MapsOK, VisitedOK
<1>3. CASE Accept
  <2>1. /\ result = "validating" /\ todo = {} /\ result' = "ok"
        /\ UNCHANGED <<sites, todo, socket_tls, socket_sni>>
    BY <1>3 DEF Accept, siteVars, validation
  <2>2. Visited' = Visited
    BY <2>1 DEF Visited
  <2>3. MapsOK' /\ VisitedOK'
    BY <2>1, <2>2 DEF ValidationInv, MapsOK, VisitedOK
  <2>. QED
    BY <2>1, <2>3 DEF ValidationInv
<1>4. CASE UNCHANGED vars
  BY <1>4 DEF vars, siteVars, validation, ValidationInv, MapsOK, VisitedOK, Visited, Servable
<1>. QED
  BY <1>1, <1>2, <1>3, <1>4, ValidateStep DEF Next

\* A configuration is accepted if, and refused for its sockets only if, every
\* site has a socket, no socket is both plain and TLS and no two TLS sites on
\* one socket answer to the same name: for any number of sites and every order
\* in which the HashMap hands them out.
THEOREM ValidationSafe == Spec => []ValidationDecides
<1>1. Init => ValidationInv
  BY DEF Init, ValidationInv
<1>2. ValidationInv => ValidationDecides
  <2> SUFFICES ASSUME ValidationInv, result = "ok" PROVE Servable
    BY DEF ValidationInv, ValidationDecides
  <2>1. VisitedOK /\ Visited = sites
    BY DEF ValidationInv, Visited
  <2>. QED
    BY <2>1, ServableAs DEF VisitedOK
<1>. QED
  BY <1>1, <1>2, ValidationStep, PTL DEF Spec

-----------------------------------------------------------------------------
(* Lines in order                                                          *)

\* The lines of S before line i.
Below(S, i) == {j \in S : j < i}

\* Sets of lines are finite.
LEMMA LinesFinite ==
  ASSUME NEW n \in Nat, NEW S \in SUBSET (1 .. n)
  PROVE  IsFiniteSet(S) /\ Cardinality(S) \in Nat
<1>1. IsFiniteSet(1 .. n)
  BY FS_Interval
<1>2. IsFiniteSet(S)
  BY <1>1, FS_Subset
<1> QED BY <1>2, FS_CardinalityType

\* T is S with a later line.
Extends(T, S, m) ==
  /\ Cardinality(T) = Cardinality(S) + 1
  /\ Below(T, m) = S
  /\ \A i \in S : Below(T, i) = Below(S, i)

\* It is, if the line is later.
LEMMA LaterLine ==
  ASSUME NEW n \in Nat, NEW S \in SUBSET (1 .. n), NEW m \in Nat, m > n
  PROVE  Extends(S \cup {m}, S, m)
<1>1. m \notin S
  OBVIOUS
<1>2. IsFiniteSet(S)
  BY LinesFinite
<1>3. Cardinality(S \cup {m}) = Cardinality(S) + 1
  BY <1>1, <1>2, FS_AddElement
<1>4. Below(S \cup {m}, m) = S
  <2>1. \A j \in S : j < m
    OBVIOUS
  <2>2. ~(m < m)
    OBVIOUS
  <2> QED BY <2>1, <2>2, Zenon DEF Below
<1>5. \A i \in S : Below(S \cup {m}, i) = Below(S, i)
  <2>1. \A i \in S : ~(m < i)
    OBVIOUS
  <2> QED BY <2>1, Zenon DEF Below
<1> QED BY <1>3, <1>4, <1>5 DEF Extends

\* Two lines with as many lines before them are one.
LEMMA RankUnique ==
  ASSUME NEW n \in Nat, NEW S \in SUBSET (1 .. n), NEW i \in S, NEW j \in S,
         Cardinality(Below(S, i)) = Cardinality(Below(S, j))
  PROVE  i = j
<1>1. ASSUME NEW a \in S, NEW b \in S, a < b PROVE Cardinality(Below(S, a)) < Cardinality(Below(S, b))
  <2>1. Below(S, a) \subseteq Below(S, b) /\ a \in Below(S, b) /\ a \notin Below(S, a) /\ Below(S, b) \in SUBSET (1 .. n)
    <3>1. (\A x \in S : x < a => x < b) /\ ~(a < a)
      BY <1>1
    <3> QED BY <1>1, <3>1, Zenon DEF Below
  <2>2. IsFiniteSet(Below(S, b))
    BY <2>1, LinesFinite
  <2>3. Cardinality(Below(S, a)) <= Cardinality(Below(S, b))
        /\ (Cardinality(Below(S, a)) = Cardinality(Below(S, b)) => Below(S, a) = Below(S, b))
        /\ Cardinality(Below(S, a)) \in Nat /\ Cardinality(Below(S, b)) \in Nat
    BY <2>1, <2>2, FS_Subset, FS_CardinalityType
  <2> QED BY <2>1, <2>3
<1>2. Cardinality(Below(S, i)) \in Nat
  <2>1. Below(S, i) \in SUBSET (1 .. n)
    BY DEF Below
  <2> QED BY <2>1, LinesFinite
<1>3. ~(i < j) /\ ~(j < i)
  BY <1>1, <1>2
<1> QED BY <1>3

\* There is a line of every rank.
LEMMA RankExists ==
  ASSUME NEW n \in Nat, NEW S \in SUBSET (1 .. n), NEW k \in 1 .. Cardinality(S)
  PROVE  \E i \in S : Cardinality(Below(S, i)) = k - 1
<1> DEFINE R(T) == \A r \in 1 .. Cardinality(T) : \E i \in T : Cardinality(Below(T, i)) = r - 1
           N == {m \in Nat : \A T \in SUBSET (1 .. m) : R(T)}
<1>1. 0 \in N
  <2>1. ASSUME NEW T \in SUBSET (1 .. 0) PROVE R(T)
    <3>1. T = {}
      OBVIOUS
    <3>2. Cardinality(T) = 0
      BY <3>1, FS_EmptySet
    <3> QED BY <3>2
  <2> QED BY <2>1
<1>2. ASSUME NEW m \in Nat, m \in N, NEW T \in SUBSET (1 .. m + 1) PROVE R(T)
  <2>1. CASE m + 1 \notin T
    <3>1. T \in SUBSET (1 .. m)
      BY <2>1
    <3> QED BY <1>2, <3>1, Zenon
  <2>2. CASE m + 1 \in T
    <3> DEFINE U == T \ {m + 1}
    <3>1. U \in SUBSET (1 .. m) /\ U \cup {m + 1} = T
      BY <2>2
    <3>2. R(U)
      BY <1>2, <3>1, Zenon
    <3> HIDE DEF U
    <3>3. /\ Cardinality(T) = Cardinality(U) + 1 /\ Below(T, m + 1) = U
          /\ \A i \in U : Below(T, i) = Below(U, i)
      <4>1. m + 1 \in Nat /\ m + 1 > m
        OBVIOUS
      <4>2. Extends(U \cup {m + 1}, U, m + 1)
        BY <3>1, <4>1, LaterLine, Zenon
      <4> QED BY <3>1, <4>2, Zenon DEF Extends
    <3>4. Cardinality(U) \in Nat
      BY <3>1, LinesFinite
    <3>5. ASSUME NEW r \in 1 .. Cardinality(T) PROVE \E i \in T : Cardinality(Below(T, i)) = r - 1
      <4>1. CASE r = Cardinality(U) + 1
        BY <2>2, <3>3, <3>4, <4>1
      <4>2. CASE r # Cardinality(U) + 1
        <5>1. r \in 1 .. Cardinality(U)
          BY <3>3, <3>4, <4>2
        <5>2. PICK i \in U : Cardinality(Below(U, i)) = r - 1
          BY <3>2, <5>1, Zenon
        <5> QED BY <3>1, <3>3, <5>2, Zenon
      <4> QED BY <4>1, <4>2
    <3> QED BY <3>5, Zenon
  <2> QED BY <2>1, <2>2
<1>3. \A m \in Nat : m \in N => m + 1 \in N
  <2>1. \A m \in Nat : m + 1 \in Nat
    OBVIOUS
  <2> HIDE DEF R
  <2> QED BY <1>2, <2>1, Zenon
<1>4. n \in N
  <2> HIDE DEF N
  <2> QED BY <1>1, <1>3, Induct
<1>5. R(S)
  <2> HIDE DEF R
  <2> QED BY <1>4, Zenon
<1> QED BY <1>5, Zenon

\* InOrder lists them by rank.
LEMMA InOrderIs ==
  ASSUME NEW n \in Nat, NEW S \in SUBSET (1 .. n)
  PROVE  /\ DOMAIN InOrder(S) = 1 .. Cardinality(S) /\ Cardinality(S) \in Nat
         /\ \A k \in 1 .. Cardinality(S) :
              InOrder(S)[k] \in S /\ Cardinality(Below(S, InOrder(S)[k])) = k - 1
<1>1. DOMAIN InOrder(S) = 1 .. Cardinality(S) /\ Cardinality(S) \in Nat
  BY LinesFinite DEF InOrder
<1>2. ASSUME NEW k \in 1 .. Cardinality(S)
      PROVE  InOrder(S)[k] \in S /\ Cardinality(Below(S, InOrder(S)[k])) = k - 1
  <2>1. \E i \in S : Cardinality({j \in S : j < i}) = k - 1
    BY RankExists DEF Below
  <2>2. InOrder(S)[k] = CHOOSE i \in S : Cardinality({j \in S : j < i}) = k - 1
    BY Zenon DEF InOrder
  <2> QED BY <2>1, <2>2, Zenon DEF Below
<1> QED BY <1>1, <1>2

\* T in order is S in order, and then m.
ComesLast(T, S, m) ==
  /\ Cardinality(T) = Cardinality(S) + 1
  /\ \A k \in 1 .. Cardinality(S) : InOrder(T)[k] = InOrder(S)[k]
  /\ InOrder(T)[Cardinality(S) + 1] = m

\* A later line comes last.
LEMMA InOrderLater ==
  ASSUME NEW n \in Nat, NEW S \in SUBSET (1 .. n), NEW m \in Nat, m > n
  PROVE  ComesLast(S \cup {m}, S, m)
<1> DEFINE T == S \cup {m}
           c == Cardinality(S)
<1>1. /\ Cardinality(T) = c + 1 /\ Below(T, m) = S /\ \A i \in S : Below(T, i) = Below(S, i)
  <2>1. Extends(T, S, m)
    BY LaterLine, Zenon
  <2> QED BY <2>1, Zenon DEF Extends
<1>2. T \in SUBSET (1 .. m)
  OBVIOUS
<1>3. c \in Nat /\ \A k \in 1 .. c : InOrder(S)[k] \in S /\ Cardinality(Below(S, InOrder(S)[k])) = k - 1
  BY InOrderIs
<1>4. \A k \in 1 .. Cardinality(T) : InOrder(T)[k] \in T /\ Cardinality(Below(T, InOrder(T)[k])) = k - 1
  BY <1>2, InOrderIs
<1>5. S \subseteq T /\ m \in T
  OBVIOUS
<1> HIDE DEF T, c
<1>6. ASSUME NEW k \in 1 .. c PROVE InOrder(T)[k] = InOrder(S)[k]
  <2>1. k \in 1 .. Cardinality(T)
    BY <1>1, <1>3
  <2>2. InOrder(S)[k] \in T /\ Cardinality(Below(T, InOrder(S)[k])) = k - 1
    BY <1>1, <1>3, <1>5, Zenon
  <2> QED BY <1>2, <1>4, <2>1, <2>2, RankUnique
<1>7. InOrder(T)[c + 1] = m
  <2>1. c + 1 \in 1 .. Cardinality(T) /\ (c + 1) - 1 = c
    BY <1>1, <1>3
  <2>2. Cardinality(Below(T, m)) = c
    BY <1>1, Zenon DEF c
  <2> QED BY <1>2, <1>4, <1>5, <2>1, <2>2, RankUnique
<1> QED BY <1>1, <1>6, <1>7 DEF T, c, ComesLast

-----------------------------------------------------------------------------
(* Depth                                                                   *)

\* What a line adds to the depth.
Turns(ln) == IF ln.shape = "open" THEN 1 ELSE IF ln.shape = "close" THEN -1 ELSE 0

\* Counting up to the next line.
LEMMA CountNext ==
  ASSUME NEW P, NEW i \in Nat
  PROVE  /\ Cardinality({j \in 1 .. i : j \in P}) \in Nat
         /\ i > 0 => Cardinality({j \in 1 .. i : j \in P})
                       = Cardinality({j \in 1 .. i - 1 : j \in P}) + (IF i \in P THEN 1 ELSE 0)
<1> DEFINE A == {j \in 1 .. i : j \in P}
           B == {j \in 1 .. i - 1 : j \in P}
<1>1. A \in SUBSET (1 .. i)
  OBVIOUS
<1>2. Cardinality(A) \in Nat
  BY <1>1, LinesFinite
<1>3. ASSUME i > 0 PROVE Cardinality(A) = Cardinality(B) + (IF i \in P THEN 1 ELSE 0)
  <2>1. B \in SUBSET (1 .. i - 1) /\ i - 1 \in Nat /\ i > i - 1
    BY <1>3
  <2>2. CASE i \in P
    <3>1. A = B \cup {i}
      BY <1>3, <2>2
    <3>2. Extends(B \cup {i}, B, i)
      <4> HIDE DEF B
      <4> QED BY <2>1, LaterLine, Zenon
    <3>3. Cardinality(A) = Cardinality(B) + 1
      BY <3>1, <3>2, Zenon DEF Extends
    <3> QED BY <2>2, <3>3
  <2>3. CASE i \notin P
    <3>1. A = B
      BY <1>3, <2>3
    <3>2. Cardinality(B) \in Nat
      BY <1>2, <3>1, Zenon
    <3>3. Cardinality(A) = Cardinality(B) + 0
      <4> HIDE DEF A, B
      <4> QED BY <3>1, <3>2
    <3> QED BY <2>3, <3>3, Zenon
  <2> QED BY <2>2, <2>3
<1> QED BY <1>2, <1>3

\* The depth of the first line, and of the next one.
LEMMA DepthNext ==
  ASSUME NEW t
  PROVE  /\ Depth(t, 1) = 0
         /\ \A i \in Nat \ {0} : Depth(t, i) \in Int /\ Depth(t, i + 1) = Depth(t, i) + Turns(t[i])
<1> DEFINE O == {j \in Nat : Opens(t, j)}
           C == {j \in Nat : Closes(t, j)}
           co(i) == Cardinality({j \in 1 .. i : j \in O})
           cc(i) == Cardinality({j \in 1 .. i : j \in C})
<1>1. ASSUME NEW i \in Nat \ {0} PROVE Depth(t, i) = co(i - 1) - cc(i - 1)
  <2>1. /\ {j \in 1 .. i - 1 : Opens(t, j)} = {j \in 1 .. i - 1 : j \in O}
        /\ {j \in 1 .. i - 1 : Closes(t, j)} = {j \in 1 .. i - 1 : j \in C}
    <3>1. \A j \in 1 .. i - 1 : j \in Nat
      OBVIOUS
    <3> QED BY <3>1, Zenon
  <2> QED BY <2>1, Zenon DEF Depth
<1>2. co(0) = 0 /\ cc(0) = 0
  <2>1. {j \in 1 .. 0 : j \in O} = {} /\ {j \in 1 .. 0 : j \in C} = {}
    OBVIOUS
  <2> QED BY <2>1, FS_EmptySet, Zenon
<1>3. ASSUME NEW i \in Nat PROVE co(i) \in Nat /\ cc(i) \in Nat
  BY CountNext, Zenon
<1>4. ASSUME NEW i \in Nat \ {0}
      PROVE  /\ co(i) = co(i - 1) + (IF i \in O THEN 1 ELSE 0)
             /\ cc(i) = cc(i - 1) + (IF i \in C THEN 1 ELSE 0)
  <2>1. i \in Nat /\ i > 0
    OBVIOUS
  <2> HIDE DEF O, C
  <2> QED BY <2>1, CountNext
<1> HIDE DEF co, cc
<1>5. Depth(t, 1) = 0
  <2>1. Depth(t, 1) = co(1 - 1) - cc(1 - 1)
    BY <1>1
  <2> QED BY <1>2, <2>1
<1>6. ASSUME NEW i \in Nat \ {0}
      PROVE  Depth(t, i) \in Int /\ Depth(t, i + 1) = Depth(t, i) + Turns(t[i])
  <2>1. /\ i - 1 \in Nat /\ i \in Nat /\ i + 1 \in Nat \ {0} /\ (i + 1) - 1 = i
    OBVIOUS
  <2>2. co(i - 1) \in Nat /\ cc(i - 1) \in Nat /\ co(i) \in Nat /\ cc(i) \in Nat
    BY <1>3, <2>1, Zenon
  <2>3. Depth(t, i) = co(i - 1) - cc(i - 1)
    BY <1>1, Zenon
  <2>4. Depth(t, i + 1) = co(i) - cc(i)
    <3>1. Depth(t, i + 1) = co((i + 1) - 1) - cc((i + 1) - 1)
      BY <1>1, <2>1, Zenon
    <3> QED BY <2>1, <3>1, Zenon
  <2>5. (i \in O <=> t[i].shape = "open") /\ (i \in C <=> t[i].shape = "close")
    BY <2>1, Zenon DEF Opens, Closes
  <2>6. co(i) - cc(i) = co(i - 1) - cc(i - 1) + Turns(t[i])
    <3>1. CASE t[i].shape = "open"
      <4>1. i \in O /\ i \notin C /\ Turns(t[i]) = 1
        BY <2>5, <3>1, Zenon DEF Turns
      <4>2. co(i) = co(i - 1) + 1 /\ cc(i) = cc(i - 1) + 0
        BY <1>4, <4>1, Zenon
      <4> QED BY <2>2, <4>1, <4>2
    <3>2. CASE t[i].shape = "close"
      <4>1. i \notin O /\ i \in C /\ Turns(t[i]) = -1
        BY <2>5, <3>2, Zenon DEF Turns
      <4>2. co(i) = co(i - 1) + 0 /\ cc(i) = cc(i - 1) + 1
        BY <1>4, <4>1, Zenon
      <4> QED BY <2>2, <4>1, <4>2
    <3>3. CASE t[i].shape # "open" /\ t[i].shape # "close"
      <4>1. i \notin O /\ i \notin C /\ Turns(t[i]) = 0
        BY <2>5, <3>3, Zenon DEF Turns
      <4>2. co(i) = co(i - 1) + 0 /\ cc(i) = cc(i - 1) + 0
        BY <1>4, <4>1, Zenon
      <4> QED BY <2>2, <4>1, <4>2
    <3> QED BY <3>1, <3>2, <3>3, Zenon
  <2>7. Depth(t, i) \in Int
    BY <2>2, <2>3
  <2> QED BY <2>3, <2>4, <2>6, <2>7, Zenon
<1> QED BY <1>5, <1>6

\* A text with a line more.
Longer(u, t, ln) ==
  /\ Len(t) \in Nat /\ DOMAIN t = 1 .. Len(t) /\ DOMAIN u = 1 .. Len(t) + 1
  /\ Len(u) = Len(t) + 1 /\ u[Len(t) + 1] = ln
  /\ \A i \in 1 .. Len(t) : u[i] = t[i]

\* Append makes one.
LEMMA LongerIs ==
  ASSUME NEW V, NEW t \in Seq(V), NEW ln \in V
  PROVE  Longer(Append(t, ln), t, ln)
BY DEF Longer

\* Its lines are as deep as they were.
LEMMA DepthKept ==
  ASSUME NEW t, NEW u, NEW ln, Longer(u, t, ln)
  PROVE  \A i \in 1 .. Len(t) + 1 : Depth(u, i) = Depth(t, i)
<1> SUFFICES ASSUME NEW i \in 1 .. Len(t) + 1 PROVE Depth(u, i) = Depth(t, i)
  OBVIOUS
<1>1. \A j \in 1 .. i - 1 : j \in 1 .. Len(t)
  BY DEF Longer
<1>2. /\ {j \in 1 .. i - 1 : Opens(u, j)} = {j \in 1 .. i - 1 : Opens(t, j)}
      /\ {j \in 1 .. i - 1 : Closes(u, j)} = {j \in 1 .. i - 1 : Closes(t, j)}
  <2>1. \A j \in 1 .. i - 1 : u[j] = t[j]
    BY <1>1, Zenon DEF Longer
  <2> QED BY <2>1, Zenon DEF Opens, Closes
<1> QED BY <1>2, Zenon DEF Depth

-----------------------------------------------------------------------------
(* The open lines                                                          *)

\* Line i opens block number k from the outside, and the block is still open.
OpenAt(t, i, k) ==
  /\ i \in 1 .. Len(t) /\ Opens(t, i) /\ Depth(t, i) = k - 1
  /\ \A j \in i + 1 .. Len(t) + 1 : Depth(t, j) >= k

\* o are the lines of the open blocks, from the outside; all others are closed.
Opened(t, o) ==
  /\ Len(t) \in Nat /\ o \in Seq(Nat)
  /\ Len(o) = Depth(t, Len(t) + 1)
  /\ \A k \in 1 .. Len(o) : OpenAt(t, o[k], k)
  /\ \A i \in 1 .. Len(t) : Opens(t, i) /\ (\A k \in 1 .. Len(o) : o[k] # i) => ClosersOf(t, i) # {}

\* An open block has no closing line.
LEMMA Unclosed ==
  ASSUME NEW t, Len(t) \in Nat, NEW i, NEW k \in Nat, OpenAt(t, i, k)
  PROVE  ClosersOf(t, i) = {}
<1> SUFFICES ASSUME NEW c \in ClosersOf(t, i) PROVE FALSE
  OBVIOUS
<1>1. i \in 1 .. Len(t) /\ Depth(t, i) = k - 1
  BY DEF OpenAt
<1>2. c \in i + 1 .. Len(t) /\ t[c].shape = "close" /\ Depth(t, c) = Depth(t, i) + 1
  BY Zenon DEF ClosersOf, Closes
<1>3. c \in Nat \ {0} /\ c + 1 \in i + 1 .. Len(t) + 1
  BY <1>1, <1>2
<1>4. Depth(t, c + 1) = Depth(t, c) + Turns(t[c])
  BY <1>3, DepthNext, Zenon
<1>5. Turns(t[c]) = -1
  BY <1>2 DEF Turns
<1>6. Depth(t, c + 1) >= k
  BY <1>3, Zenon DEF OpenAt
<1> QED BY <1>1, <1>2, <1>4, <1>5, <1>6

\* All blocks in a closed block are closed.
LEMMA ClosedInside ==
  ASSUME NEW t, NEW o, Opened(t, o), NEW i \in 1 .. Len(t), NEW c \in ClosersOf(t, i),
         NEW j \in Inside(t, i), Opens(t, j)
  PROVE  ClosersOf(t, j) # {}
<1> SUFFICES ASSUME ClosersOf(t, j) = {} PROVE FALSE
  OBVIOUS
<1>1. /\ j \in i + 1 .. Len(t) /\ Depth(t, j) = Depth(t, i) + 1 /\ j < c
      /\ c \in i + 1 .. Len(t) /\ Depth(t, c) = Depth(t, i) + 1 /\ Len(t) \in Nat
  BY Zenon DEF Inside, ClosersOf, Opened
<1>2. j \in 1 .. Len(t)
  BY <1>1
<1>3. PICK k \in 1 .. Len(o) : o[k] = j
  BY <1>2, Zenon DEF Opened
<1>4. OpenAt(t, j, k)
  BY <1>3, Zenon DEF Opened
<1>5. c \in j + 1 .. Len(t) + 1
  BY <1>1
<1>6. Depth(t, j) = k - 1 /\ Depth(t, c) >= k
  BY <1>4, <1>5, Zenon DEF OpenAt
<1>7. k \in Nat /\ Depth(t, j) = Depth(t, c)
  <2>1. Len(o) \in Nat
    BY DEF Opened
  <2> QED BY <1>1, <2>1
<1> QED BY <1>6, <1>7

\* A closed block does not change.
LEMMA ClosedKept ==
  ASSUME NEW t, NEW u, NEW ln, Longer(u, t, ln), NEW i \in 1 .. Len(t), ClosersOf(t, i) # {}
  PROVE  ClosersOf(u, i) # {} /\ Inside(u, i) = Inside(t, i)
<1> DEFINE n == Len(t)
<1>1. n \in Nat /\ Len(u) = n + 1 /\ \A j \in 1 .. n : u[j] = t[j]
  BY DEF Longer
<1>2. \A j \in 1 .. n + 1 : Depth(u, j) = Depth(t, j)
  BY DepthKept, Zenon
<1>3. /\ i \in 1 .. n + 1 /\ \A k \in i + 1 .. n : k \in 1 .. n /\ k \in 1 .. n + 1 /\ k \in i + 1 .. n + 1
      /\ \A k \in i + 1 .. n : \A j \in i + 1 .. k - 1 : j \in 1 .. n + 1
  BY <1>1
<1>4. ASSUME NEW k \in i + 1 .. n PROVE k \in ClosersOf(t, i) <=> k \in ClosersOf(u, i)
  <2>1. Closes(u, k) <=> Closes(t, k)
    BY <1>1, <1>3, Zenon DEF Closes
  <2>2. \A j \in i + 1 .. k - 1 : Depth(u, j) = Depth(t, j)
    BY <1>2, <1>3, Zenon
  <2>3. Depth(u, k) = Depth(t, k) /\ Depth(u, i) = Depth(t, i) /\ k \in i + 1 .. Len(u)
    BY <1>1, <1>2, <1>3, Zenon
  <2> QED BY <2>1, <2>2, <2>3, Zenon DEF ClosersOf
<1>5. PICK c \in ClosersOf(t, i) : c \in i + 1 .. n
  BY Zenon DEF ClosersOf
<1>6. c \in ClosersOf(u, i)
  BY <1>4, <1>5, Zenon
<1>7. ASSUME NEW j \in i + 1 .. n PROVE j \in Inside(t, i) <=> j \in Inside(u, i)
  <2>1. u[j] = t[j] /\ Depth(u, j) = Depth(t, j) /\ Depth(u, i) = Depth(t, i) /\ j \in i + 1 .. Len(u)
    BY <1>1, <1>2, <1>3, Zenon
  <2>2. (\A k \in ClosersOf(t, i) : j < k) <=> (\A k \in ClosersOf(u, i) : j < k)
    <3>1. ASSUME NEW k \in ClosersOf(u, i), k \notin i + 1 .. n PROVE j < k
      <4>1. k \in i + 1 .. n + 1
        BY <1>1, Zenon DEF ClosersOf
      <4> QED BY <1>1, <3>1, <4>1
    <3>2. \A k \in ClosersOf(t, i) : k \in i + 1 .. n
      BY Zenon DEF ClosersOf
    <3> QED BY <1>4, <3>1, <3>2, Zenon
  <2> QED BY <2>1, <2>2, Zenon DEF Inside
<1>8. ASSUME NEW j \in Inside(u, i) PROVE j \in i + 1 .. n
  <2>1. j \in i + 1 .. n + 1 /\ j < c
    BY <1>1, <1>6, Zenon DEF Inside
  <2> QED BY <1>1, <1>5, <2>1
<1>9. \A j \in Inside(t, i) : j \in i + 1 .. n
  BY Zenon DEF Inside
<1> QED BY <1>6, <1>7, <1>8, <1>9, Zenon

\* An open block is closed by the next closing line, if it is the innermost,
\* and the next other line belongs to it.
Receives(u, t, ln, o, k) ==
  /\ ClosersOf(u, o[k]) # {} <=> (ln.shape = "close" /\ k = Len(o))
  /\ Inside(u, o[k]) = Inside(t, o[k]) \cup
       (IF ln.shape \in {"open", "plain"} /\ k = Len(o) THEN {Len(t) + 1} ELSE {})

\* It always is.
LEMMA OpenKept ==
  ASSUME NEW t, NEW u, NEW ln, Longer(u, t, ln), NEW o, Opened(t, o), NEW k \in 1 .. Len(o)
  PROVE  Receives(u, t, ln, o, k)
<1> DEFINE n == Len(t)
           d == Len(o)
<1>1. n \in Nat /\ Len(u) = n + 1 /\ u[n + 1] = ln /\ (\A j \in 1 .. n : u[j] = t[j]) /\ d \in Nat /\ Depth(t, n + 1) = d
  BY DEF Longer, Opened
<1>2. \A j \in 1 .. n + 1 : Depth(u, j) = Depth(t, j)
  BY DepthKept, Zenon
<1>3. PICK i : i = o[k] /\ OpenAt(t, i, k)
  BY Zenon DEF Opened
<1>4. i \in 1 .. n /\ Depth(t, i) = k - 1 /\ \A j \in i + 1 .. n + 1 : Depth(t, j) >= k
  BY <1>3, Zenon DEF OpenAt
<1>5. ClosersOf(t, i) = {}
  <2>1. k \in Nat
    BY <1>1
  <2> QED BY <1>1, <1>3, <2>1, Unclosed, Zenon
<1>6. /\ i \in 1 .. n + 1 /\ n + 1 \in 1 .. n + 1 /\ n + 1 \in i + 1 .. n + 1
      /\ (k - 1) + 1 = k
      /\ \A j \in i + 1 .. n : j \in 1 .. n /\ j \in 1 .. n + 1 /\ j \in i + 1 .. n + 1
      /\ \A j \in i + 1 .. n + 1 : j = n + 1 \/ j \in i + 1 .. n
      /\ \A j \in i + 1 .. (n + 1) - 1 : j \in i + 1 .. n + 1 /\ j \in 1 .. n + 1
  BY <1>1, <1>4
<1>7. Depth(u, i) = k - 1 /\ Depth(u, n + 1) = d
  BY <1>1, <1>2, <1>4, <1>6, Zenon
<1>8. ASSUME NEW c \in i + 1 .. n PROVE c \notin ClosersOf(u, i)
  <2>1. u[c] = t[c] /\ Depth(u, c) = Depth(t, c)
    BY <1>1, <1>2, <1>6, Zenon
  <2>2. \A j \in i + 1 .. c - 1 : j \in 1 .. n + 1
    BY <1>1, <1>4
  <2>3. \A j \in i + 1 .. c - 1 : Depth(u, j) = Depth(t, j)
    BY <1>2, <2>2, Zenon
  <2>4. c \notin ClosersOf(t, i)
    BY <1>5, Zenon
  <2> QED BY <1>4, <1>7, <2>1, <2>3, <2>4, Zenon DEF ClosersOf, Closes
<1>9. n + 1 \in ClosersOf(u, i) <=> (ln.shape = "close" /\ k = d)
  <2>1. ASSUME NEW j \in i + 1 .. (n + 1) - 1 PROVE Depth(u, j) > Depth(u, i)
    <3>1. Depth(u, j) >= k
      BY <1>2, <1>4, <1>6, Zenon
    <3>2. Depth(u, j) \in Int
      <4>1. j \in Nat \ {0}
        BY <1>1, <1>4
      <4> QED BY <4>1, DepthNext, Zenon
    <3> QED BY <1>1, <1>7, <3>1, <3>2
  <2>2. Depth(u, n + 1) = Depth(u, i) + 1 <=> k = d
    BY <1>1, <1>7
  <2> QED BY <1>1, <1>6, <2>1, <2>2, Zenon DEF ClosersOf, Closes
<1>10. \A c \in ClosersOf(u, i) : c = n + 1
  <2>1. \A c \in ClosersOf(u, i) : c \in i + 1 .. n + 1
    BY <1>1, Zenon DEF ClosersOf
  <2> QED BY <1>6, <1>8, <2>1, Zenon
<1>11. ClosersOf(u, i) # {} <=> (ln.shape = "close" /\ k = d)
  BY <1>9, <1>10, Zenon
<1>12. ASSUME NEW j \in i + 1 .. n PROVE j \in Inside(u, i) <=> j \in Inside(t, i)
  <2>1. u[j] = t[j] /\ Depth(u, j) = Depth(t, j) /\ Depth(u, i) = Depth(t, i)
    BY <1>1, <1>2, <1>6, Zenon
  <2>2. j < n + 1
    BY <1>1
  <2>3. \A c \in ClosersOf(u, i) : j < c
    BY <1>10, <2>2, Zenon
  <2> QED BY <1>1, <1>5, <1>6, <2>1, <2>3, Zenon DEF Inside
<1>13. n + 1 \in Inside(u, i) <=> (ln.shape \in {"open", "plain"} /\ k = d)
  <2>1. ASSUME ln.shape \in {"open", "plain"} PROVE ClosersOf(u, i) = {}
    <3>1. ln.shape # "close"
      BY <2>1, Zenon
    <3> QED BY <1>11, <3>1, Zenon
  <2>2. Depth(u, n + 1) = Depth(u, i) + 1 <=> k = d
    BY <1>1, <1>7
  <2> QED BY <1>1, <1>6, <2>1, <2>2, Zenon DEF Inside
<1>14. Inside(u, i) = Inside(t, i) \cup (IF ln.shape \in {"open", "plain"} /\ k = d THEN {n + 1} ELSE {})
  <2>1. \A j \in Inside(u, i) : j = n + 1 \/ j \in i + 1 .. n
    BY <1>1, <1>6, Zenon DEF Inside
  <2>2. \A j \in Inside(t, i) : j \in i + 1 .. n
    BY Zenon DEF Inside
  <2> QED BY <1>12, <1>13, <2>1, <2>2, Zenon
<1> QED BY <1>3, <1>11, <1>14, Zenon DEF Receives

\* A line that has just been read has nothing in it.
LEMMA NothingYet ==
  ASSUME NEW t, NEW u, NEW ln, Longer(u, t, ln)
  PROVE  ClosersOf(u, Len(t) + 1) = {} /\ Inside(u, Len(t) + 1) = {}
<1>1. (Len(t) + 1) + 1 .. Len(u) = {}
  BY DEF Longer
<1> QED BY <1>1, Zenon DEF ClosersOf, Inside

\* Blocks that stay open, when the depth is not below them.
LEMMA StaysOpen ==
  ASSUME NEW t, NEW u, NEW ln, Longer(u, t, ln), NEW i, NEW k \in Nat, OpenAt(t, i, k),
         Depth(u, Len(u) + 1) >= k
  PROVE  OpenAt(u, i, k)
<1>1. Len(t) \in Nat /\ Len(u) = Len(t) + 1 /\ i \in 1 .. Len(t) /\ u[i] = t[i]
  BY DEF Longer, OpenAt
<1>2. \A j \in 1 .. Len(t) + 1 : Depth(u, j) = Depth(t, j)
  BY DepthKept, Zenon
<1>3. /\ i \in 1 .. Len(t) + 1 /\ i \in 1 .. Len(u)
      /\ \A j \in i + 1 .. Len(u) + 1 : j = Len(u) + 1 \/ (j \in i + 1 .. Len(t) + 1 /\ j \in 1 .. Len(t) + 1)
  BY <1>1
<1> QED BY <1>1, <1>2, <1>3, Zenon DEF OpenAt, Opens

\* How deep a text goes with another line.
LEMMA DepthAfter ==
  ASSUME NEW t, NEW u, NEW ln, Longer(u, t, ln)
  PROVE  /\ Depth(t, Len(t) + 1) \in Int
         /\ Depth(u, Len(t) + 1) = Depth(t, Len(t) + 1)
         /\ Depth(u, Len(u) + 1) = Depth(t, Len(t) + 1) + Turns(ln)
<1>1. Len(t) \in Nat /\ Len(u) = Len(t) + 1 /\ u[Len(t) + 1] = ln
  BY DEF Longer
<1>2. Len(t) + 1 \in Nat \ {0} /\ Len(t) + 1 \in 1 .. Len(t) + 1
  BY <1>1
<1>3. Depth(u, Len(t) + 1) = Depth(t, Len(t) + 1)
  BY <1>2, DepthKept, Zenon
<1>4. Depth(t, Len(t) + 1) \in Int /\ Depth(u, (Len(t) + 1) + 1) = Depth(u, Len(t) + 1) + Turns(u[Len(t) + 1])
  BY <1>2, DepthNext, Zenon
<1> QED BY <1>1, <1>3, <1>4, Zenon

\* A line that neither opens nor closes.
LEMMA OpenedPlain ==
  ASSUME NEW t, NEW u, NEW ln, Longer(u, t, ln), NEW o, Opened(t, o),
         ln.shape # "open", ln.shape # "close"
  PROVE  Opened(u, o)
<1>1. /\ Len(t) \in Nat /\ Len(u) = Len(t) + 1 /\ o \in Seq(Nat) /\ u[Len(t) + 1] = ln
      /\ \A i \in 1 .. Len(t) : u[i] = t[i]
  BY DEF Opened, Longer
<1>2. Len(o) \in Nat /\ Depth(t, Len(t) + 1) = Len(o) /\ Turns(ln) = 0
  BY DEF Opened, Turns
<1>3. Depth(u, Len(u) + 1) = Len(o)
  BY <1>2, DepthAfter
<1>4. ASSUME NEW k \in 1 .. Len(o) PROVE OpenAt(u, o[k], k)
  <2>1. k \in Nat /\ Depth(u, Len(u) + 1) >= k
    BY <1>2, <1>3
  <2>2. OpenAt(t, o[k], k)
    BY Zenon DEF Opened
  <2> QED BY <2>1, <2>2, StaysOpen, Zenon
<1>5. ASSUME NEW i \in 1 .. Len(u), Opens(u, i), \A k \in 1 .. Len(o) : o[k] # i
      PROVE  ClosersOf(u, i) # {}
  <2>1. i \in 1 .. Len(t)
    <3>1. i # Len(t) + 1
      BY <1>1, <1>5, Zenon DEF Opens
    <3> QED BY <1>1, <3>1
  <2>2. ClosersOf(t, i) # {}
    BY <1>1, <1>5, <2>1, Zenon DEF Opens, Opened
  <2> QED BY <2>1, <2>2, ClosedKept, Zenon
<1>6. Len(u) \in Nat
  BY <1>1
<1> QED BY <1>1, <1>3, <1>4, <1>5, <1>6, Zenon DEF Opened

\* A line that opens.
LEMMA OpenedMore ==
  ASSUME NEW t, NEW u, NEW ln, Longer(u, t, ln), NEW o, Opened(t, o), ln.shape = "open"
  PROVE  Opened(u, Append(o, Len(t) + 1))
<1> DEFINE n == Len(t)
           p == Append(o, n + 1)
<1>1. /\ n \in Nat /\ Len(u) = n + 1 /\ o \in Seq(Nat) /\ u[n + 1] = ln
      /\ \A i \in 1 .. n : u[i] = t[i]
  BY DEF Opened, Longer
<1>2. Len(o) \in Nat /\ Depth(t, n + 1) = Len(o) /\ Turns(ln) = 1
  BY DEF Opened, Turns
<1>3. Depth(u, n + 1) = Len(o) /\ Depth(u, Len(u) + 1) = Len(o) + 1
  BY <1>2, DepthAfter
<1>4. /\ p \in Seq(Nat) /\ Len(p) = Len(o) + 1 /\ p[Len(o) + 1] = n + 1
      /\ \A k \in 1 .. Len(o) : p[k] = o[k] /\ k \in 1 .. Len(p)
      /\ \A k \in 1 .. Len(p) : k \in 1 .. Len(o) \/ k = Len(o) + 1
  BY <1>1
<1> HIDE DEF p
<1>5. ASSUME NEW k \in 1 .. Len(p) PROVE OpenAt(u, p[k], k)
  <2>1. CASE k \in 1 .. Len(o)
    <3>1. k \in Nat /\ Depth(u, Len(u) + 1) >= k
      BY <1>2, <1>3, <2>1
    <3>2. OpenAt(t, o[k], k)
      BY <2>1, Zenon DEF Opened
    <3>3. OpenAt(u, o[k], k)
      BY <3>1, <3>2, StaysOpen, Zenon
    <3> QED BY <1>4, <2>1, <3>3, Zenon
  <2>2. CASE k = Len(o) + 1
    <3>1. /\ n + 1 \in 1 .. Len(u) /\ (Len(o) + 1) - 1 = Len(o) /\ Len(o) + 1 >= Len(o) + 1
          /\ \A j \in (n + 1) + 1 .. Len(u) + 1 : j = Len(u) + 1
      BY <1>1, <1>2
    <3>2. OpenAt(u, n + 1, Len(o) + 1)
      BY <1>1, <1>3, <3>1, Zenon DEF OpenAt, Opens
    <3> QED BY <1>4, <2>2, <3>2, Zenon
  <2> QED BY <1>4, <2>1, <2>2, Zenon
<1>6. ASSUME NEW i \in 1 .. Len(u), Opens(u, i), \A k \in 1 .. Len(p) : p[k] # i
      PROVE  ClosersOf(u, i) # {}
  <2>1. i # n + 1
    <3>1. Len(o) + 1 \in 1 .. Len(p)
      BY <1>2, <1>4
    <3> QED BY <1>4, <1>6, <3>1, Zenon
  <2>2. i \in 1 .. n
    BY <1>1, <2>1
  <2>3. \A k \in 1 .. Len(o) : o[k] # i
    BY <1>4, <1>6, Zenon
  <2>4. ClosersOf(t, i) # {}
    BY <1>1, <1>6, <2>2, <2>3, Zenon DEF Opens, Opened
  <2> QED BY <2>2, <2>4, ClosedKept, Zenon
<1>7. Len(u) \in Nat
  BY <1>1
<1>8. Opened(u, p)
  BY <1>3, <1>4, <1>5, <1>6, <1>7, Zenon DEF Opened
<1> QED BY <1>8 DEF p

\* A line that closes a block.
LEMMA OpenedLess ==
  ASSUME NEW t, NEW u, NEW ln, Longer(u, t, ln), NEW o, Opened(t, o), ln.shape = "close", Len(o) >= 1
  PROVE  Opened(u, SubSeq(o, 1, Len(o) - 1))
<1> DEFINE n == Len(t)
           d == Len(o)
           p == SubSeq(o, 1, d - 1)
<1>1. /\ n \in Nat /\ Len(u) = n + 1 /\ o \in Seq(Nat) /\ u[n + 1] = ln
      /\ \A i \in 1 .. n : u[i] = t[i]
  BY DEF Opened, Longer
<1>2. d \in Nat /\ Depth(t, n + 1) = d /\ Turns(ln) = -1
  BY DEF Opened, Turns
<1>3. Depth(u, Len(u) + 1) = d - 1
  BY <1>2, DepthAfter
<1>4. /\ p \in Seq(Nat) /\ Len(p) = d - 1 /\ d \in 1 .. d
      /\ \A k \in 1 .. d - 1 : p[k] = o[k] /\ k \in 1 .. d
      /\ \A k \in 1 .. d : k \in 1 .. d - 1 \/ k = d
  BY <1>1, <1>2
<1> HIDE DEF p
<1>5. ASSUME NEW k \in 1 .. Len(p) PROVE OpenAt(u, p[k], k)
  <2>1. k \in Nat /\ Depth(u, Len(u) + 1) >= k /\ k \in 1 .. d - 1
    BY <1>2, <1>3, <1>4
  <2>2. OpenAt(t, o[k], k)
    BY <1>4, <2>1, Zenon DEF Opened
  <2>3. OpenAt(u, o[k], k)
    BY <2>1, <2>2, StaysOpen, Zenon
  <2> QED BY <1>4, <2>1, <2>3, Zenon
<1>6. ASSUME NEW i \in 1 .. Len(u), Opens(u, i), \A k \in 1 .. Len(p) : p[k] # i
      PROVE  ClosersOf(u, i) # {}
  <2>1. i \in 1 .. n
    <3>1. i # n + 1
      BY <1>1, <1>6, Zenon DEF Opens
    <3> QED BY <1>1, <3>1
  <2>2. CASE i = o[d]
    <3>1. Receives(u, t, ln, o, d)
      BY <1>4, OpenKept, Zenon
    <3> QED BY <2>2, <3>1, Zenon DEF Receives
  <2>3. CASE i # o[d]
    <3>1. \A k \in 1 .. d : o[k] # i
      BY <1>4, <1>6, <2>3, Zenon
    <3>2. ClosersOf(t, i) # {}
      BY <1>1, <1>6, <2>1, <3>1, Zenon DEF Opens, Opened
    <3> QED BY <2>1, <3>2, ClosedKept, Zenon
  <2> QED BY <2>2, <2>3
<1>7. Len(u) \in Nat
  BY <1>1
<1>8. Opened(u, p)
  BY <1>3, <1>4, <1>5, <1>6, <1>7, Zenon DEF Opened
<1> QED BY <1>8 DEF p

-----------------------------------------------------------------------------
(* What a text spells                                                      *)

\* The lines in a block come after the line that opens it.
LEMMA InsideLater ==
  ASSUME NEW t, Len(t) \in Nat, NEW i \in 1 .. Len(t)
  PROVE  Inside(t, i) \in SUBSET (1 .. Len(t)) /\ \A j \in Inside(t, i) : j \in 1 .. Len(t) /\ i < j
<1>1. \A j \in Inside(t, i) : j \in i + 1 .. Len(t)
  BY Zenon DEF Inside
<1>2. \A j \in i + 1 .. Len(t) : j \in 1 .. Len(t) /\ i < j
  OBVIOUS
<1> QED BY <1>1, <1>2, Zenon

\* The last of some lines.
LEMMA MaxLine ==
  ASSUME NEW n \in Nat, NEW S \in SUBSET (1 .. n), S # {}
  PROVE  Max(S) \in S /\ \A j \in S : j <= Max(S)
<1> DEFINE D == {n - j : j \in S}
<1>1. D \subseteq Nat /\ D # {}
  <2>1. \A j \in S : j \in 1 .. n
    OBVIOUS
  <2>2. \A j \in 1 .. n : n - j \in Nat
    OBVIOUS
  <2> QED BY <2>1, <2>2, Zenon
<1>2. PICK d \in D : \A e \in D : d <= e
  <2> HIDE DEF D
  <2> QED BY <1>1, LeastNat
<1>3. PICK m \in S : d = n - m
  BY <1>2
<1>4. \A j \in S : m >= j
  <2>1. ASSUME NEW j \in S PROVE m >= j
    <3>1. n - m <= n - j
      BY <1>2, <1>3
    <3>2. m \in 1 .. n /\ j \in 1 .. n
      OBVIOUS
    <3> QED BY <3>1, <3>2
  <2> QED BY <2>1
<1>5. Max(S) \in S /\ \A j \in S : Max(S) >= j
  BY <1>3, <1>4, Zenon DEF Max
<1> QED BY <1>5

\* It is the one no other is after.
LEMMA MaxIs ==
  ASSUME NEW n \in Nat, NEW S \in SUBSET (1 .. n), NEW m \in S, \A j \in S : j <= m
  PROVE  Max(S) = m
<1>1. S # {}
  OBVIOUS
<1>2. Max(S) \in S /\ \A j \in S : j <= Max(S)
  BY <1>1, MaxLine, Zenon
<1>3. Max(S) <= m /\ m <= Max(S) /\ Max(S) \in 1 .. n /\ m \in 1 .. n
  BY <1>2, Zenon
<1> QED BY <1>3

\* Lists of the same directives.
LEMMA ListedSame ==
  ASSUME NEW n \in Nat, NEW S \in SUBSET (1 .. n), NEW f, NEW g, \A j \in S : f[j] = g[j]
  PROVE  Listed(f, S) = Listed(g, S)
<1>1. \A k \in DOMAIN InOrder(S) : InOrder(S)[k] \in S
  BY InOrderIs
<1>2. \A k \in DOMAIN InOrder(S) : f[InOrder(S)[k]] = g[InOrder(S)[k]]
  BY <1>1, Zenon
<1> QED BY <1>2, Zenon DEF Listed

\* A list of directives with another.
LEMMA ListedLater ==
  ASSUME NEW n \in Nat, NEW S \in SUBSET (1 .. n), NEW m \in Nat, m > n, NEW f
  PROVE  Listed(f, S \cup {m}) = Append(Listed(f, S), f[m])
<1> DEFINE T == S \cup {m}
           c == Cardinality(S)
           L == Listed(f, S)
<1>1. DOMAIN InOrder(S) = 1 .. c /\ c \in Nat
  BY InOrderIs
<1>2. DOMAIN InOrder(T) = 1 .. Cardinality(T)
  <2>1. T \in SUBSET (1 .. m)
    OBVIOUS
  <2> HIDE DEF T
  <2> QED BY <2>1, InOrderIs, Zenon
<1>3. ComesLast(T, S, m)
  BY InOrderLater, Zenon
<1>4. /\ Cardinality(T) = c + 1 /\ \A k \in 1 .. c : InOrder(T)[k] = InOrder(S)[k]
      /\ InOrder(T)[c + 1] = m
  BY <1>3, Zenon DEF ComesLast
<1> HIDE DEF T, c
<1>5. Listed(f, T) = [k \in 1 .. c + 1 |-> f[InOrder(T)[k]]] /\ L = [k \in 1 .. c |-> f[InOrder(S)[k]]]
  BY <1>1, <1>2, <1>4, Zenon DEF Listed
<1>6. PICK A : L \in Seq(A) /\ f[m] \in A
  <2> DEFINE A == {f[InOrder(S)[k]] : k \in 1 .. c} \cup {f[m]}
  <2>1. L \in [1 .. c -> A] /\ f[m] \in A
    BY <1>5
  <2> HIDE DEF A
  <2>2. L \in Seq(A)
    BY <1>1, <2>1
  <2> QED BY <2>1, <2>2
<1>7. Len(L) = c
  BY <1>1, <1>5
<1>8. Append(L, f[m]) = [k \in 1 .. c + 1 |-> IF k = c + 1 THEN f[m] ELSE L[k]]
  <2> HIDE DEF L
  <2> QED BY <1>1, <1>6, <1>7
<1>9. ASSUME NEW k \in 1 .. c + 1 PROVE f[InOrder(T)[k]] = IF k = c + 1 THEN f[m] ELSE L[k]
  <2>1. CASE k = c + 1
    BY <1>4, <2>1, Zenon
  <2>2. CASE k # c + 1
    <3>1. k \in 1 .. c
      BY <1>1, <2>2
    <3>2. L[k] = f[InOrder(S)[k]]
      BY <1>5, <3>1, Zenon
    <3> QED BY <1>4, <2>2, <3>1, <3>2, Zenon
  <2> QED BY <2>1, <2>2
<1>10. Listed(f, T) = Append(L, f[m])
  <2> HIDE DEF L
  <2> QED BY <1>5, <1>8, <1>9, Zenon
<1> QED BY <1>10 DEF T

\* What a line spells depends on the lines in its block.
LEMMA WrittenAtSame ==
  ASSUME NEW t, Len(t) \in Nat, NEW i \in 1 .. Len(t), NEW f, NEW g, \A j \in Inside(t, i) : f[j] = g[j]
  PROVE  WrittenAt(t, f, i) = WrittenAt(t, g, i)
<1>1. Listed(f, Inside(t, i)) = Listed(g, Inside(t, i))
  <2>1. PICK S : S = Inside(t, i)
    BY Zenon
  <2>2. S \in SUBSET (1 .. Len(t))
    BY <2>1, InsideLater, Zenon
  <2>3. \A j \in S : f[j] = g[j]
    BY <2>1, Zenon
  <2>4. Listed(f, S) = Listed(g, S)
    BY <2>2, <2>3, ListedSame
  <2> QED BY <2>1, <2>4, Zenon
<1> QED BY <1>1, Zenon DEF WrittenAt

\* There is a function that gives for each line what it spells.
LEMMA WrittenExists ==
  ASSUME NEW t, Len(t) \in Nat
  PROVE  \E f : f = [i \in 1 .. Len(t) |-> WrittenAt(t, f, i)]
<1> DEFINE n == Len(t)
           P(f, k) == /\ f = [i \in 1 .. n |-> f[i]]
                      /\ \A i \in 1 .. n : i + k > n => f[i] = WrittenAt(t, f, i)
           S == {k \in Nat : \E f : P(f, k)}
<1>1. 0 \in S
  <2>1. P([i \in 1 .. n |-> 0], 0)
    <3>1. \A i \in 1 .. n : ~(i + 0 > n)
      OBVIOUS
    <3> QED BY <3>1, Zenon
  <2> HIDE DEF P
  <2> QED BY <2>1
<1>2. ASSUME NEW k \in Nat, NEW f, P(f, k) PROVE \E g : P(g, k + 1)
  <2> DEFINE g == [i \in 1 .. n |-> IF i + k = n THEN WrittenAt(t, f, i) ELSE f[i]]
  <2>1. g = [i \in 1 .. n |-> g[i]]
    BY Zenon
  <2>2. ASSUME NEW i \in 1 .. n, i + (k + 1) > n PROVE g[i] = WrittenAt(t, g, i)
    <3>1. \A j \in Inside(t, i) : j \in 1 .. n /\ i < j
      BY InsideLater, Zenon
    <3>2. ASSUME NEW j \in Inside(t, i) PROVE f[j] = g[j]
      <4>1. j \in 1 .. n /\ i < j
        BY <3>1, Zenon
      <4>2. j + k # n
        BY <2>2, <4>1
      <4> QED BY <4>1, <4>2, Zenon
    <3>3. WrittenAt(t, f, i) = WrittenAt(t, g, i)
      <4> HIDE DEF g
      <4> QED BY <3>2, WrittenAtSame
    <3>4. CASE i + k = n
      BY <3>3, <3>4, Zenon
    <3>5. CASE i + k # n
      <4>1. i + k > n
        BY <2>2, <3>5
      <4> QED BY <1>2, <3>3, <3>5, <4>1, Zenon
    <3> QED BY <3>4, <3>5
  <2>3. P(g, k + 1)
    <3> HIDE DEF g
    <3> QED BY <2>1, <2>2, Zenon
  <2> HIDE DEF P, g
  <2> QED BY <2>3
<1>3. \A k \in Nat : k \in S => k + 1 \in S
  <2>1. \A k \in Nat : k + 1 \in Nat
    OBVIOUS
  <2> HIDE DEF P
  <2> QED BY <1>2, <2>1, Zenon
<1>4. n \in S
  <2> HIDE DEF S
  <2> QED BY <1>1, <1>3, Induct
<1>5. PICK f : P(f, n)
  <2> HIDE DEF P
  <2> QED BY <1>4, Zenon
<1>6. \A i \in 1 .. n : i + n > n
  OBVIOUS
<1>7. \A i \in 1 .. n : f[i] = WrittenAt(t, f, i)
  BY <1>5, <1>6, Zenon
<1>8. f = [i \in 1 .. n |-> WrittenAt(t, f, i)]
  <2>1. f = [i \in 1 .. n |-> f[i]]
    BY <1>5, Zenon
  <2> QED BY <1>7, <2>1, Zenon
<1> QED BY <1>8

\* Written is that function.
LEMMA WrittenIs ==
  ASSUME NEW t, Len(t) \in Nat
  PROVE  \A i \in 1 .. Len(t) : Written(t)[i] = WrittenAt(t, Written(t), i)
<1>1. Written(t) = CHOOSE f : f = [i \in 1 .. Len(t) |-> WrittenAt(t, f, i)]
  BY Zenon DEF Written
<1>2. Written(t) = [i \in 1 .. Len(t) |-> WrittenAt(t, Written(t), i)]
  BY <1>1, WrittenExists, Zenon
<1> QED BY <1>2, Zenon

\* Settings, headers and the tls line depend on the lines in the block only.
BlockKept(u, t, i) ==
  /\ WrittenSettings(u, i) = WrittenSettings(t, i) /\ WrittenHeaders(u, i) = WrittenHeaders(t, i)
  /\ TlsLines(u, i) = TlsLines(t, i) /\ WrittenTls(u, i) = WrittenTls(t, i)

\* LastSetting of a block with these lines for it, whose last has these words.
SettingOf(name, lines, args) ==
  IF lines = {} THEN None
  ELSE IF name \in ProxySettings \cup {"timeout"} THEN Product(args[1])
  ELSE CHOOSE v \in SettingValue(name, args) : TRUE

\* The lines of a block that begin with a word.
Naming(t, i, name) == {j \in Inside(t, i) : t[j].word = name}

\* The parts of LastSetting.
LEMMA LastSettingIs ==
  ASSUME NEW t, NEW i, NEW name
  PROVE  LastSetting(t, i, name) = SettingOf(name, Naming(t, i, name), t[Max(Naming(t, i, name))].args)
BY Zenon DEF LastSetting, SettingOf, Naming

\* The value of a header_up line.
HeaderOf(args) == CHOOSE h \in HeaderUp(args) : TRUE

\* The parts of WrittenHeaders.
LEMMA WrittenHeadersIs ==
  ASSUME NEW t, NEW i
  PROVE  WrittenHeaders(t, i) = [k \in DOMAIN InOrder(Naming(t, i, "header_up")) |->
                                   HeaderOf(t[InOrder(Naming(t, i, "header_up"))[k]].args)]
BY Zenon DEF WrittenHeaders, HeaderOf, Naming

\* They stay what they are when the lines of the block do.
LEMMA SettingsKept ==
  ASSUME NEW t, NEW u, NEW ln, Longer(u, t, ln), NEW i \in 1 .. Len(t), Inside(u, i) = Inside(t, i)
  PROVE  BlockKept(u, t, i)
<1> DEFINE n == Len(t)
           S == Inside(t, i)
<1>1. n \in Nat /\ \A j \in 1 .. n : u[j] = t[j]
  BY DEF Longer
<1>2. S \in SUBSET (1 .. n)
  BY <1>1, InsideLater, Zenon
<1>3. \A j \in S : u[j] = t[j]
  BY <1>1, <1>2, Zenon
<1>4. u[i] = t[i]
  BY <1>1, Zenon
<1>5. ASSUME NEW name PROVE {j \in S : u[j].word = name} = {j \in S : t[j].word = name}
  BY <1>3, Zenon
<1> HIDE DEF S
<1>6. ASSUME NEW name PROVE LastSetting(u, i, name) = LastSetting(t, i, name)
  <2>1. Naming(u, i, name) = Naming(t, i, name)
    BY <1>5, Zenon DEF Naming, S
  <2>2. PICK L : L = Naming(t, i, name)
    BY Zenon
  <2>3. L \in SUBSET (1 .. n)
    BY <1>2, <2>2, Zenon DEF Naming, S
  <2>4. LastSetting(u, i, name) = SettingOf(name, L, u[Max(L)].args)
    BY <2>1, <2>2, LastSettingIs
  <2>5. LastSetting(t, i, name) = SettingOf(name, L, t[Max(L)].args)
    BY <2>2, LastSettingIs
  <2>6. CASE L = {}
    BY <2>4, <2>5, <2>6, Zenon DEF SettingOf
  <2>7. CASE L # {}
    <3>1. Max(L) \in L
      BY <1>1, <2>3, <2>7, MaxLine, Zenon
    <3>2. u[Max(L)] = t[Max(L)]
      BY <1>1, <2>3, <3>1, Zenon
    <3> QED BY <2>4, <2>5, <3>2, Zenon
  <2> QED BY <2>6, <2>7
<1>7. WrittenSettings(u, i) = WrittenSettings(t, i)
  BY <1>4, <1>6, Zenon DEF WrittenSettings
<1>8. WrittenHeaders(u, i) = WrittenHeaders(t, i)
  <2>1. Naming(u, i, "header_up") = Naming(t, i, "header_up")
    BY <1>5, Zenon DEF Naming, S
  <2>2. PICK H : H = Naming(t, i, "header_up")
    BY Zenon
  <2>3. H \in SUBSET (1 .. n)
    BY <1>2, <2>2, Zenon DEF Naming, S
  <2>4. \A k \in DOMAIN InOrder(H) : InOrder(H)[k] \in 1 .. n
    BY <1>1, <2>3, InOrderIs
  <2>5. \A k \in DOMAIN InOrder(H) : u[InOrder(H)[k]] = t[InOrder(H)[k]]
    BY <1>1, <2>4, Zenon
  <2>6. WrittenHeaders(u, i) = [k \in DOMAIN InOrder(H) |-> HeaderOf(u[InOrder(H)[k]].args)]
    BY <2>1, <2>2, WrittenHeadersIs
  <2>7. WrittenHeaders(t, i) = [k \in DOMAIN InOrder(H) |-> HeaderOf(t[InOrder(H)[k]].args)]
    BY <2>2, WrittenHeadersIs
  <2> QED BY <2>5, <2>6, <2>7, Zenon
<1>9. TlsLines(u, i) = TlsLines(t, i)
  BY <1>3, Zenon DEF TlsLines, S
<1>10. WrittenTls(u, i) = WrittenTls(t, i)
  <2>1. CASE TlsLines(t, i) = {}
    BY <1>9, <2>1, Zenon DEF WrittenTls
  <2>2. CASE TlsLines(t, i) # {}
    <3>1. PICK j : j = CHOOSE x \in TlsLines(t, i) : TRUE
      BY Zenon
    <3>2. j \in TlsLines(t, i)
      BY <2>2, <3>1, Zenon
    <3>3. u[j] = t[j]
      BY <1>3, <3>2, Zenon DEF TlsLines, S
    <3>4. WrittenTls(u, i) = <<u[j].args[1], u[j].args[2]>> /\ WrittenTls(t, i) = <<t[j].args[1], t[j].args[2]>>
      BY <1>9, <2>2, <3>1 DEF WrittenTls
    <3> QED BY <3>3, <3>4, Zenon
  <2> QED BY <2>1, <2>2
<1> QED BY <1>7, <1>8, <1>9, <1>10, Zenon DEF BlockKept

\* A directive that is complete: a line, or a block with its closing brace.
Settled(t, i) == i \in 1 .. Len(t) /\ (Opens(t, i) => ClosersOf(t, i) # {})

\* It spells what it spelt.
LEMMA WrittenKept ==
  ASSUME NEW t, NEW u, NEW ln, Longer(u, t, ln), NEW o, Opened(t, o)
  PROVE  \A i : Settled(t, i) => Written(u)[i] = Written(t)[i]
<1> DEFINE n == Len(t)
           S == {k \in Nat : \A i : Settled(t, i) /\ i + k > n => Written(u)[i] = Written(t)[i]}
<1>1. n \in Nat /\ Len(u) = n + 1 /\ (\A j \in 1 .. n : u[j] = t[j])
  BY DEF Longer
<1>2. Len(u) \in Nat /\ \A j \in 1 .. n : j \in 1 .. Len(u)
  BY <1>1
<1>3. 0 \in S
  <2>1. \A i : Settled(t, i) => ~(i + 0 > n)
    <3>1. \A i : Settled(t, i) => i \in 1 .. n
      BY Zenon DEF Settled
    <3> QED BY <1>1, <3>1
  <2> QED BY <2>1
<1>4. ASSUME NEW k \in Nat, k \in S, NEW i, Settled(t, i), i + (k + 1) > n PROVE Written(u)[i] = Written(t)[i]
  <2>1. i \in 1 .. n /\ i \in 1 .. Len(u)
    BY <1>2, <1>4, Zenon DEF Settled
  <2>2. Written(u)[i] = WrittenAt(u, Written(u), i) /\ Written(t)[i] = WrittenAt(t, Written(t), i)
    BY <1>1, <1>2, <2>1, WrittenIs, Zenon
  <2>3. u[i] = t[i]
    BY <1>1, <2>1, Zenon
  <2>4. CASE ~Opens(t, i)
    BY <2>2, <2>3, <2>4, Zenon DEF WrittenAt, Opens
  <2>5. CASE Opens(t, i)
    <3>1. ClosersOf(t, i) # {}
      BY <1>4, <2>5, Zenon DEF Settled
    <3>2. Inside(u, i) = Inside(t, i)
      BY <2>1, <3>1, ClosedKept, Zenon
    <3>3. BlockKept(u, t, i)
      BY <2>1, <3>2, SettingsKept, Zenon
    <3>4. ASSUME NEW j \in Inside(t, i) PROVE Written(u)[j] = Written(t)[j]
      <4>1. j \in 1 .. n /\ i < j
        BY <1>1, <2>1, InsideLater, Zenon
      <4>2. Settled(t, j)
        BY <2>1, <3>1, <4>1, ClosedInside, Zenon DEF Settled
      <4>3. j + k > n
        BY <1>1, <1>4, <2>1, <4>1
      <4> QED BY <1>4, <4>2, <4>3, Zenon
    <3>5. WrittenAt(u, Written(u), i) = WrittenAt(t, Written(u), i)
      BY <2>3, <3>2, <3>3, Zenon DEF WrittenAt, Opens, BlockKept
    <3>6. WrittenAt(t, Written(u), i) = WrittenAt(t, Written(t), i)
      BY <1>1, <2>1, <3>4, WrittenAtSame
    <3> QED BY <2>2, <3>5, <3>6, Zenon
  <2> QED BY <2>4, <2>5
<1>5. \A k \in Nat : k \in S => k + 1 \in S
  <2>1. \A k \in Nat : k + 1 \in Nat
    OBVIOUS
  <2> QED BY <1>4, <2>1, Zenon
<1>6. n \in S
  <2> HIDE DEF S
  <2> QED BY <1>1, <1>3, <1>5, Induct
<1>7. \A i : Settled(t, i) => i + n > n
  <2>1. \A i : Settled(t, i) => i \in 1 .. n
    BY Zenon DEF Settled
  <2> QED BY <1>1, <2>1
<1> QED BY <1>6, <1>7, Zenon

-----------------------------------------------------------------------------
(* One line more of a well nested text                                     *)

\* A well nested text was well nested before its last line.
LEMMA NestedBefore ==
  ASSUME NEW t, NEW u, NEW ln, Longer(u, t, ln), WellNested(u)
  PROVE  WellNested(t)
<1> DEFINE n == Len(t)
<1>1. n \in Nat /\ Len(u) = n + 1 /\ DOMAIN t = 1 .. n /\ DOMAIN u = 1 .. n + 1 /\ \A j \in 1 .. n : u[j] = t[j]
  BY DEF Longer
<1>2. \A j \in 1 .. n + 1 : Depth(u, j) = Depth(t, j)
  BY DepthKept, Zenon
<1>3. \A j \in 1 .. n : j \in 1 .. n + 1
  BY <1>1
<1>4. ASSUME NEW i \in 1 .. n, NEW j \in Inside(t, i) PROVE j \in Inside(u, i)
  <2>1. j \in i + 1 .. n
    BY Zenon DEF Inside
  <2>2. j \in i + 1 .. n + 1 /\ j \in 1 .. n /\ j < n + 1
    BY <1>1, <2>1
  <2>3. ASSUME NEW k \in ClosersOf(u, i) PROVE j < k
    <3>1. k \in i + 1 .. n + 1
      BY <1>1, Zenon DEF ClosersOf
    <3>2. CASE k = n + 1
      BY <2>2, <3>2, Zenon
    <3>3. CASE k # n + 1
      <4>1. k \in i + 1 .. n /\ k \in 1 .. n /\ \A x \in i + 1 .. k - 1 : x \in 1 .. n
        BY <1>1, <3>1, <3>3
      <4>2. Closes(t, k) /\ Depth(t, k) = Depth(t, i) + 1
        BY <1>1, <1>2, <1>3, <4>1, Zenon DEF ClosersOf, Closes
      <4>3. \A x \in i + 1 .. k - 1 : Depth(t, x) > Depth(t, i)
        BY <1>2, <1>3, <4>1, Zenon DEF ClosersOf
      <4>4. k \in ClosersOf(t, i)
        BY <4>1, <4>2, <4>3, Zenon DEF ClosersOf
      <4> QED BY <4>4, Zenon DEF Inside
    <3> QED BY <3>2, <3>3
  <2>4. u[j] = t[j] /\ Depth(u, j) = Depth(t, j) /\ Depth(u, i) = Depth(t, i)
    BY <1>1, <1>2, <1>3, <2>2, Zenon
  <2> QED BY <1>1, <2>2, <2>3, <2>4, Zenon DEF Inside
<1>5. ASSUME NEW i \in 1 .. n
      PROVE  /\ Depth(t, i) >= (IF Closes(t, i) THEN 1 ELSE 0)
             /\ Depth(t, i) = 0 => t[i].shape \in {"open", "blank"}
             /\ Opens(t, i) /\ Depth(t, i) > 0 /\ t[i].word \in SettingsBlocks =>
                  \A j \in Inside(t, i) : ~Opens(t, j)
  <2>1. i \in DOMAIN u /\ u[i] = t[i] /\ Depth(u, i) = Depth(t, i)
    BY <1>1, <1>2, <1>3, Zenon
  <2>2. (Closes(u, i) <=> Closes(t, i)) /\ (Opens(u, i) <=> Opens(t, i))
    BY <2>1, Zenon DEF Closes, Opens
  <2>3. Depth(t, i) >= (IF Closes(t, i) THEN 1 ELSE 0)
    <3>1. Depth(u, i) >= (IF Closes(u, i) THEN 1 ELSE 0)
      BY <2>1, Zenon DEF WellNested
    <3>2. CASE Closes(t, i)
      BY <2>1, <2>2, <3>1, <3>2, Zenon
    <3>3. CASE ~Closes(t, i)
      BY <2>1, <2>2, <3>1, <3>3, Zenon
    <3> QED BY <3>2, <3>3
  <2>4. Depth(t, i) = 0 => t[i].shape \in {"open", "blank"}
    BY <2>1, Zenon DEF WellNested
  <2>5. ASSUME Opens(t, i), Depth(t, i) > 0, t[i].word \in SettingsBlocks, NEW j \in Inside(t, i)
        PROVE  ~Opens(t, j)
    <3>1. ~Opens(u, j)
      BY <1>4, <2>1, <2>2, <2>5, Zenon DEF WellNested
    <3>2. j \in 1 .. n
      BY <1>1, InsideLater, Zenon
    <3> QED BY <1>1, <3>1, <3>2, Zenon DEF Opens
  <2> QED BY <2>3, <2>4, <2>5, Zenon
<1> QED BY <1>1, <1>5, Zenon DEF WellNested

\* So were its durations small enough.
LEMMA FitBefore ==
  ASSUME NEW t, NEW u, NEW ln, Longer(u, t, ln), DurationsFit(u)
  PROVE  DurationsFit(t)
<1>1. DOMAIN t = 1 .. Len(t) /\ \A i \in 1 .. Len(t) : i \in DOMAIN u /\ u[i] = t[i]
  BY DEF Longer
<1> QED BY <1>1, Zenon DEF DurationsFit

\* What it says of its last line.
LEMMA NestedLast ==
  ASSUME NEW t, NEW u, NEW ln, Longer(u, t, ln), WellNested(u), NEW o, Opened(t, o)
  PROVE  /\ ln.shape = "close" => Len(o) >= 1
         /\ Len(o) = 0 => ln.shape \in {"open", "blank"}
         /\ ln.shape = "open" /\ Len(o) >= 2 => t[o[Len(o)]].word \notin SettingsBlocks
<1> DEFINE n == Len(t)
           d == Len(o)
<1>1. /\ n \in Nat /\ Len(u) = n + 1 /\ DOMAIN u = 1 .. n + 1 /\ u[n + 1] = ln /\ d \in Nat /\ Depth(t, n + 1) = d
      /\ \A j \in 1 .. n : u[j] = t[j]
  BY DEF Longer, Opened
<1>2. n + 1 \in DOMAIN u /\ n + 1 \in 1 .. n + 1
  BY <1>1
<1>3. \A j \in 1 .. n + 1 : Depth(u, j) = Depth(t, j)
  BY DepthKept, Zenon
<1>4. Depth(u, n + 1) = d
  BY <1>1, <1>2, <1>3, Zenon
<1>5. ASSUME ln.shape = "close" PROVE d >= 1
  <2>1. Depth(u, n + 1) >= (IF Closes(u, n + 1) THEN 1 ELSE 0)
    BY <1>2, Zenon DEF WellNested
  <2>2. Closes(u, n + 1)
    BY <1>1, <1>5, Zenon DEF Closes
  <2> QED BY <1>4, <2>1, <2>2, Zenon
<1>6. ASSUME d = 0 PROVE ln.shape \in {"open", "blank"}
  BY <1>1, <1>2, <1>4, <1>6, Zenon DEF WellNested
<1>7. ASSUME ln.shape = "open", d >= 2 PROVE t[o[d]].word \notin SettingsBlocks
  <2>1. d \in 1 .. d /\ d - 1 > 0
    BY <1>1, <1>7
  <2>2. Receives(u, t, ln, o, d)
    BY <2>1, OpenKept, Zenon
  <2>3. n + 1 \in Inside(u, o[d])
    BY <1>7, <2>2, Zenon DEF Receives
  <2>4. OpenAt(t, o[d], d)
    BY <2>1, Zenon DEF Opened
  <2>5. o[d] \in 1 .. n /\ Opens(t, o[d]) /\ Depth(t, o[d]) = d - 1
    BY <2>4, Zenon DEF OpenAt
  <2>6. o[d] \in 1 .. n + 1
    BY <1>1, <2>5
  <2>7. o[d] \in DOMAIN u /\ u[o[d]] = t[o[d]] /\ Opens(u, o[d]) /\ Depth(u, o[d]) > 0 /\ Opens(u, n + 1)
    BY <1>1, <1>3, <1>7, <2>1, <2>5, <2>6, Zenon DEF Opens
  <2> QED BY <2>3, <2>7, Zenon DEF WellNested
<1> QED BY <1>5, <1>6, <1>7

\* The blocks that are open hold one another.
LEMMA OpenedOrder ==
  ASSUME NEW t, NEW o, Opened(t, o), NEW k \in 1 .. Len(o), k >= 2
  PROVE  /\ o[k] \in Inside(t, o[k - 1])
         /\ \A j \in Inside(t, o[k - 1]) : j <= o[k]
<1>1. k - 1 \in 1 .. Len(o) /\ k \in Nat /\ k - 1 \in Nat /\ Len(t) \in Nat /\ ((k - 1) - 1) + 1 = k - 1
  BY DEF Opened
<1>2. OpenAt(t, o[k], k) /\ OpenAt(t, o[k - 1], k - 1)
  BY <1>1, Zenon DEF Opened
<1>3. PICK a, b : a = o[k - 1] /\ b = o[k]
  BY Zenon
<1>4. /\ a \in 1 .. Len(t) /\ Depth(t, a) = (k - 1) - 1 /\ Opens(t, b)
      /\ b \in 1 .. Len(t) /\ Depth(t, b) = k - 1 /\ \A j \in b + 1 .. Len(t) + 1 : Depth(t, j) >= k
  BY <1>2, <1>3, Zenon DEF OpenAt
<1>5. a < b
  <2>1. a \notin b + 1 .. Len(t) + 1
    <3>1. ~((k - 1) - 1 >= k)
      BY <1>1
    <3> QED BY <1>4, <3>1, Zenon
  <2>2. a # b
    <3>1. (k - 1) - 1 # k - 1
      BY <1>1
    <3> QED BY <1>4, <3>1, Zenon
  <2> QED BY <1>1, <1>4, <2>1, <2>2
<1>6. b \in a + 1 .. Len(t)
  BY <1>4, <1>5
<1>7. ClosersOf(t, a) = {}
  BY <1>1, <1>2, <1>3, Unclosed, Zenon
<1>8. b \in Inside(t, a)
  <2>1. t[b].shape = "open"
    BY <1>4, Zenon DEF Opens
  <2> QED BY <1>1, <1>4, <1>6, <1>7, <2>1, Zenon DEF Inside
<1>9. ASSUME NEW j \in Inside(t, a) PROVE j <= b
  <2>1. j \in a + 1 .. Len(t) /\ Depth(t, j) = Depth(t, a) + 1
    BY Zenon DEF Inside
  <2>2. Depth(t, j) = k - 1
    BY <1>1, <1>4, <2>1, Zenon
  <2>3. ~(k - 1 >= k)
    BY <1>1
  <2>4. j \notin b + 1 .. Len(t) + 1
    BY <1>4, <2>2, <2>3, Zenon
  <2> QED BY <1>1, <1>4, <2>1, <2>4
<1> QED BY <1>3, <1>8, <1>9, Zenon

\* Which directives are complete with another line.
LEMMA SettledNext ==
  ASSUME NEW t, NEW u, NEW ln, Longer(u, t, ln), NEW o, Opened(t, o), NEW j \in 1 .. Len(t)
  PROVE  Settled(u, j) <=> Settled(t, j) \/ (ln.shape = "close" /\ Len(o) >= 1 /\ j = o[Len(o)])
<1>1. /\ Len(t) \in Nat /\ Len(u) = Len(t) + 1 /\ u[j] = t[j] /\ Len(o) \in Nat
  BY DEF Longer, Opened
<1>2. j \in 1 .. Len(u) /\ (Len(o) >= 1 => Len(o) \in 1 .. Len(o))
  BY <1>1
<1>3. Opens(u, j) <=> Opens(t, j)
  BY <1>1, Zenon DEF Opens
<1>4. CASE ~Opens(t, j)
  BY <1>2, <1>3, <1>4, Zenon DEF Settled
<1>5. CASE Opens(t, j) /\ ClosersOf(t, j) # {}
  BY <1>2, <1>5, ClosedKept, Zenon DEF Settled
<1>6. CASE Opens(t, j) /\ ClosersOf(t, j) = {}
  <2>1. PICK k \in 1 .. Len(o) : o[k] = j
    BY <1>6, Zenon DEF Opened
  <2>2. Receives(u, t, ln, o, k)
    BY OpenKept, Zenon
  <2>3. ClosersOf(u, j) # {} <=> (ln.shape = "close" /\ k = Len(o))
    BY <2>1, <2>2, Zenon DEF Receives
  <2>4. Len(o) >= 1
    BY <1>1
  <2>5. ASSUME j = o[Len(o)] PROVE k = Len(o)
    <3>1. OpenAt(t, j, k) /\ OpenAt(t, j, Len(o))
      BY <1>2, <2>1, <2>4, <2>5, Zenon DEF Opened
    <3>2. k - 1 = Len(o) - 1
      BY <3>1, Zenon DEF OpenAt
    <3> QED BY <1>1, <3>2
  <2> QED BY <1>2, <1>3, <1>6, <2>1, <2>3, <2>4, <2>5, Zenon DEF Settled
<1> QED BY <1>4, <1>5, <1>6

\* Everything in the innermost block is complete.
LEMMA InnermostSettled ==
  ASSUME NEW t, NEW o, Opened(t, o), Len(o) >= 1, NEW j \in Inside(t, o[Len(o)])
  PROVE  Settled(t, j)
<1>1. Len(t) \in Nat /\ Len(o) \in Nat
  BY DEF Opened
<1>2. Len(o) \in 1 .. Len(o)
  BY <1>1
<1>3. OpenAt(t, o[Len(o)], Len(o))
  BY <1>2, Zenon DEF Opened
<1>4. o[Len(o)] \in 1 .. Len(t) /\ Depth(t, o[Len(o)]) = Len(o) - 1
  BY <1>3, Zenon DEF OpenAt
<1>5. j \in 1 .. Len(t)
  BY <1>1, <1>4, InsideLater, Zenon
<1>6. Depth(t, j) = Len(o)
  <2>1. Depth(t, j) = Depth(t, o[Len(o)]) + 1
    BY Zenon DEF Inside
  <2> QED BY <1>1, <1>4, <2>1
<1>7. ASSUME NEW k \in 1 .. Len(o) PROVE o[k] # j
  <2>1. Depth(t, o[k]) = k - 1
    BY Zenon DEF Opened, OpenAt
  <2>2. k - 1 # Len(o)
    BY <1>1
  <2> QED BY <1>6, <2>1, <2>2, Zenon
<1> QED BY <1>5, <1>7, Zenon DEF Settled, Opened

-----------------------------------------------------------------------------
(* The list of an open block                                               *)

\* The directives that are complete in the block that line i opens at level k.
\* The tls line of a site is none, and a block of settings has none.
Members(t, i, k) ==
  {j \in Inside(t, i) : /\ Settled(t, j)
                        /\ k = 1 => j \notin TlsLines(t, i)
                        /\ k >= 2 => t[i].word \notin SettingsBlocks}

\* They are lines of the text, and complete.
LEMMA MembersAre ==
  ASSUME NEW t, NEW o, Opened(t, o), NEW k \in 1 .. Len(o)
  PROVE  Members(t, o[k], k) \in SUBSET (1 .. Len(t)) /\ \A j \in Members(t, o[k], k) : Settled(t, j)
<1>1. Len(t) \in Nat /\ o[k] \in 1 .. Len(t)
  BY Zenon DEF Opened, OpenAt
<1>2. Inside(t, o[k]) \in SUBSET (1 .. Len(t))
  BY <1>1, InsideLater, Zenon
<1> QED BY <1>2, Zenon DEF Members

\* A line that has been read is a member where it was, except for the block
\* that the new line closes.
LEMMA MemberKept ==
  ASSUME NEW t, NEW u, NEW ln, Longer(u, t, ln), NEW o, Opened(t, o), WellNested(t),
         NEW k \in 1 .. Len(o), NEW j \in 1 .. Len(t)
  PROVE  j \in Members(u, o[k], k) <=>
           \/ j \in Members(t, o[k], k)
           \/ ln.shape = "close" /\ k + 1 = Len(o) /\ j = o[Len(o)]
<1> DEFINE n == Len(t)
           d == Len(o)
<1>1. n \in Nat /\ d \in Nat /\ (\A x \in 1 .. n : u[x] = t[x]) /\ DOMAIN t = 1 .. n
  BY DEF Longer, Opened
<1>2. PICK i : i = o[k] /\ OpenAt(t, i, k)
  BY Zenon DEF Opened
<1>3. i \in 1 .. n /\ Opens(t, i) /\ Depth(t, i) = k - 1
  BY <1>2, Zenon DEF OpenAt
<1>4. j \in Inside(u, i) <=> j \in Inside(t, i)
  <2>1. Receives(u, t, ln, o, k)
    BY OpenKept, Zenon
  <2>2. j # n + 1
    BY <1>1
  <2> QED BY <1>2, <2>1, <2>2, Zenon DEF Receives
<1>5. Settled(u, j) <=> Settled(t, j) \/ (ln.shape = "close" /\ d >= 1 /\ j = o[d])
  BY SettledNext, Zenon
<1>6. u[j] = t[j] /\ u[i] = t[i] /\ (j \in TlsLines(u, i) <=> j \in TlsLines(t, i))
  BY <1>1, <1>3, <1>4, Zenon DEF TlsLines
<1>7. d >= 1 /\ d \in 1 .. d
  BY <1>1
<1>8. OpenAt(t, o[d], d)
  BY <1>7, Zenon DEF Opened
<1>9. o[d] \in 1 .. n /\ Opens(t, o[d]) /\ Depth(t, o[d]) = d - 1
  BY <1>8, Zenon DEF OpenAt
<1>10. ASSUME j \in Inside(t, i), j = o[d] PROVE k + 1 = d
  <2>1. d - 1 = (k - 1) + 1
    BY <1>3, <1>9, <1>10, Zenon DEF Inside
  <2> QED BY <1>1, <2>1
<1>11. ASSUME k + 1 = d, j = o[d]
       PROVE  /\ j \in Inside(t, i) /\ j \notin TlsLines(t, i)
              /\ k >= 2 => t[i].word \notin SettingsBlocks
  <2>1. d >= 2 /\ d - 1 = k
    BY <1>1, <1>11
  <2>2. o[d] \in Inside(t, o[d - 1])
    BY <1>7, <2>1, OpenedOrder, Zenon
  <2>3. j \in Inside(t, i)
    BY <1>2, <1>11, <2>1, <2>2, Zenon
  <2>4. j \notin TlsLines(t, i)
    <3>1. t[j].shape # "plain"
      BY <1>9, <1>11 DEF Opens
    <3> QED BY <3>1, Zenon DEF TlsLines
  <2>5. ASSUME k >= 2 PROVE t[i].word \notin SettingsBlocks
    <3>1. k - 1 > 0
      BY <2>5
    <3> QED BY <1>1, <1>3, <1>9, <1>11, <2>3, <3>1, Zenon DEF WellNested
  <2> QED BY <2>3, <2>4, <2>5
<1>12. j \in Members(u, i, k) <=> j \in Members(t, i, k) \/ (ln.shape = "close" /\ k + 1 = d /\ j = o[d])
  <2>1. CASE ln.shape = "close" /\ k + 1 = d /\ j = o[d]
    <3>1. j \in Members(u, i, k)
      BY <1>4, <1>5, <1>6, <1>7, <1>11, <2>1, Zenon DEF Members
    <3> QED BY <2>1, <3>1, Zenon
  <2>2. CASE ~(ln.shape = "close" /\ k + 1 = d /\ j = o[d])
    <3>1. j \in Inside(t, i) => (Settled(u, j) <=> Settled(t, j))
      BY <1>5, <1>10, <2>2, Zenon
    <3> QED BY <1>4, <1>6, <2>2, <3>1, Zenon DEF Members
  <2> QED BY <2>1, <2>2
<1> QED BY <1>2, <1>12, Zenon

\* The new line is one of the innermost block, if it is a directive.
LEMMA MemberNew ==
  ASSUME NEW t, NEW u, NEW ln, Longer(u, t, ln), NEW o, Opened(t, o), NEW k \in 1 .. Len(o)
  PROVE  Len(t) + 1 \in Members(u, o[k], k) <=>
           /\ ln.shape = "plain" /\ k = Len(o)
           /\ k = 1 => ln.word # "tls"
           /\ k >= 2 => t[o[k]].word \notin SettingsBlocks
<1> DEFINE n == Len(t)
<1>1. n \in Nat /\ Len(u) = n + 1 /\ u[n + 1] = ln /\ (\A x \in 1 .. n : u[x] = t[x])
  BY DEF Longer, Opened
<1>2. n + 1 \in 1 .. Len(u) /\ n + 1 \notin 1 .. n
  BY <1>1
<1>3. PICK i : i = o[k] /\ i \in 1 .. n
  BY Zenon DEF Opened, OpenAt
<1>4. Receives(u, t, ln, o, k)
  BY OpenKept, Zenon
<1>5. n + 1 \notin Inside(t, i)
  BY <1>1, <1>2, <1>3, InsideLater, Zenon
<1>6. n + 1 \in Inside(u, i) <=> (ln.shape \in {"open", "plain"} /\ k = Len(o))
  BY <1>3, <1>4, <1>5, Zenon DEF Receives
<1>7. Settled(u, n + 1) <=> ln.shape # "open"
  <2>1. ClosersOf(u, n + 1) = {}
    BY NothingYet, Zenon
  <2> QED BY <1>1, <1>2, <2>1, Zenon DEF Settled, Opens
<1>8. "plain" # "open"
  OBVIOUS
<1>9. n + 1 \in TlsLines(u, i) <=> n + 1 \in Inside(u, i) /\ ln.shape = "plain" /\ ln.word = "tls"
  BY <1>1, Zenon DEF TlsLines
<1>10. u[i] = t[i]
  BY <1>1, <1>3, Zenon
<1> QED BY <1>3, <1>6, <1>7, <1>8, <1>9, <1>10, Zenon DEF Members

\* The list of directives of a block.
ListAt(t, i, k) == Listed(Written(t), Members(t, i, k))

\* A block whose members stay has the list it had.
LEMMA ListKept ==
  ASSUME NEW t, NEW u, NEW ln, Longer(u, t, ln), NEW o, Opened(t, o), WellNested(t), NEW k \in 1 .. Len(o),
         ln.shape = "close" => k + 1 # Len(o),
         Len(t) + 1 \notin Members(u, o[k], k)
  PROVE  ListAt(u, o[k], k) = ListAt(t, o[k], k)
<1>1. PICK i, M : i = o[k] /\ M = Members(t, i, k)
  BY Zenon
<1>2. M \in SUBSET (1 .. Len(t)) /\ Len(t) \in Nat /\ \A j \in M : Settled(t, j)
  BY <1>1, MembersAre, Zenon DEF Opened
<1>3. \A j \in 1 .. Len(t) : j \in Members(u, i, k) <=> j \in M
  <2> SUFFICES ASSUME NEW j \in 1 .. Len(t) PROVE j \in Members(u, i, k) <=> j \in M
    OBVIOUS
  <2>1. j \in Members(u, o[k], k) <=>
          \/ j \in Members(t, o[k], k)
          \/ ln.shape = "close" /\ k + 1 = Len(o) /\ j = o[Len(o)]
    BY MemberKept
  <2> QED BY <1>1, <2>1, Zenon
<1>4. \A j \in Members(u, i, k) : j \in 1 .. Len(t)
  <2>1. Len(u) = Len(t) + 1 /\ i \in 1 .. Len(t)
    BY <1>1, Zenon DEF Longer, Opened, OpenAt
  <2>2. i \in 1 .. Len(u) /\ Len(u) \in Nat
    BY <1>2, <2>1
  <2>3. Inside(u, i) \in SUBSET (1 .. Len(u))
    BY <2>2, InsideLater, Zenon
  <2>4. \A j \in Members(u, i, k) : j \in 1 .. Len(u) /\ j # Len(t) + 1
    BY <1>1, <2>3, Zenon DEF Members
  <2>5. \A j \in 1 .. Len(u) : j # Len(t) + 1 => j \in 1 .. Len(t)
    BY <1>2, <2>1
  <2> QED BY <2>4, <2>5, Zenon
<1>5. Members(u, i, k) = M
  BY <1>2, <1>3, <1>4, Zenon
<1>6. \A j \in M : Written(u)[j] = Written(t)[j]
  BY <1>2, WrittenKept, Zenon
<1>7. PICK f, g : f = Written(u) /\ g = Written(t)
  BY Zenon
<1>8. Listed(f, M) = Listed(g, M)
  BY <1>2, <1>6, <1>7, ListedSame
<1> QED BY <1>1, <1>5, <1>7, <1>8, Zenon DEF ListAt

\* A list with a directive more.
ListGains(u, t, i, k, j) == ListAt(u, i, k) = Append(ListAt(t, i, k), Written(u)[j])

\* The innermost block, when the new line is one of its directives.
LEMMA ListTakes ==
  ASSUME NEW t, NEW u, NEW ln, Longer(u, t, ln), NEW o, Opened(t, o), WellNested(t), Len(o) >= 1,
         Len(t) + 1 \in Members(u, o[Len(o)], Len(o)), ln.shape # "close"
  PROVE  ListGains(u, t, o[Len(o)], Len(o), Len(t) + 1)
<1>1. PICK k, i, M, m : k = Len(o) /\ i = o[k] /\ M = Members(t, i, k) /\ m = Len(t) + 1
  BY Zenon
<1>2. k \in 1 .. Len(o)
  BY <1>1 DEF Opened
<1>3. M \in SUBSET (1 .. Len(t)) /\ Len(t) \in Nat /\ \A j \in M : Settled(t, j)
  BY <1>1, <1>2, MembersAre, Zenon DEF Opened
<1>4. m \in Nat /\ m > Len(t)
  BY <1>1, <1>3
<1>5. \A j \in 1 .. Len(t) : j \in Members(u, i, k) <=> j \in M
  BY <1>1, <1>2, MemberKept, Zenon
<1>6. \A j \in Members(u, i, k) : j \in 1 .. Len(t) \/ j = m
  <2>1. Len(u) = Len(t) + 1 /\ i \in 1 .. Len(t)
    BY <1>1, <1>2, Zenon DEF Longer, Opened, OpenAt
  <2>2. i \in 1 .. Len(u) /\ Len(u) \in Nat
    BY <1>3, <2>1
  <2>3. Inside(u, i) \in SUBSET (1 .. Len(u))
    BY <2>2, InsideLater, Zenon
  <2>4. \A j \in Members(u, i, k) : j \in 1 .. Len(u)
    BY <2>3, Zenon DEF Members
  <2>5. \A j \in 1 .. Len(u) : j = m \/ j \in 1 .. Len(t)
    BY <1>1, <1>3, <2>1
  <2> QED BY <2>4, <2>5, Zenon
<1>7. Members(u, i, k) = M \cup {m}
  BY <1>1, <1>3, <1>5, <1>6, Zenon
<1>8. \A j \in M : Written(u)[j] = Written(t)[j]
  BY <1>3, WrittenKept, Zenon
<1>9. PICK f, g : f = Written(u) /\ g = Written(t)
  BY Zenon
<1>10. Listed(f, M) = Listed(g, M)
  BY <1>3, <1>8, <1>9, ListedSame
<1>11. Listed(f, M \cup {m}) = Append(Listed(f, M), f[m])
  BY <1>3, <1>4, ListedLater
<1> QED BY <1>1, <1>7, <1>9, <1>10, <1>11, Zenon DEF ListAt, ListGains

\* The block around the innermost one, when that one is closed.
LEMMA ListCloses ==
  ASSUME NEW t, NEW u, NEW ln, Longer(u, t, ln), NEW o, Opened(t, o), WellNested(t), Len(o) >= 2,
         ln.shape = "close"
  PROVE  ListGains(u, t, o[Len(o) - 1], Len(o) - 1, o[Len(o)])
<1>1. PICK d, k, i, M, m : d = Len(o) /\ k = d - 1 /\ i = o[k] /\ M = Members(t, i, k) /\ m = o[d]
  BY Zenon
<1>2. d \in 1 .. Len(o) /\ k \in 1 .. Len(o) /\ k + 1 = Len(o) /\ Len(t) \in Nat /\ d \in Nat
  BY <1>1 DEF Opened
<1>3. M \in SUBSET (1 .. Len(t)) /\ \A j \in M : Settled(t, j)
  BY <1>1, <1>2, MembersAre, Zenon
<1>4. OpenAt(t, m, d)
  BY <1>1, <1>2, Zenon DEF Opened
<1>5. m \in 1 .. Len(t) /\ ClosersOf(t, m) = {} /\ Opens(t, m)
  BY <1>2, <1>4, Unclosed, Zenon DEF OpenAt
<1>6. m \notin M
  BY <1>3, <1>5, Zenon DEF Settled
<1>7. \A j \in M : j <= m
  <2>1. \A j \in Inside(t, o[d - 1]) : j <= o[d]
    BY <1>1, <1>2, OpenedOrder, Zenon
  <2> QED BY <1>1, <2>1, Zenon DEF Members
<1>8. M \in SUBSET (1 .. m - 1) /\ m - 1 \in Nat /\ m \in Nat /\ m > m - 1
  BY <1>3, <1>5, <1>6, <1>7
<1>9. \A j \in 1 .. Len(t) : j \in Members(u, i, k) <=> j \in M \/ j = m
  <2>1. \A j \in 1 .. Len(t) : j \in Members(u, o[k], k) <=>
          \/ j \in Members(t, o[k], k)
          \/ ln.shape = "close" /\ k + 1 = Len(o) /\ j = o[Len(o)]
    BY <1>2, MemberKept
  <2> QED BY <1>1, <1>2, <2>1, Zenon
<1>10. \A j \in Members(u, i, k) : j \in 1 .. Len(t)
  <2>1. Len(u) = Len(t) + 1 /\ i \in 1 .. Len(t)
    BY <1>1, <1>2, Zenon DEF Longer, Opened, OpenAt
  <2>2. i \in 1 .. Len(u) /\ Len(u) \in Nat
    BY <1>2, <2>1
  <2>3. Inside(u, i) \in SUBSET (1 .. Len(u))
    BY <2>2, InsideLater, Zenon
  <2>4. "close" # "plain"
    OBVIOUS
  <2>5. Len(t) + 1 \notin Members(u, i, k)
    <3>1. Len(t) + 1 \in Members(u, o[k], k) => ln.shape = "plain"
      BY <1>2, MemberNew, Zenon
    <3> QED BY <1>1, <2>4, <3>1, Zenon
  <2>6. \A j \in Members(u, i, k) : j \in 1 .. Len(u) /\ j # Len(t) + 1
    BY <2>3, <2>5, Zenon DEF Members
  <2>7. \A j \in 1 .. Len(u) : j # Len(t) + 1 => j \in 1 .. Len(t)
    BY <1>2, <2>1
  <2> QED BY <2>6, <2>7, Zenon
<1>11. Members(u, i, k) = M \cup {m}
  BY <1>3, <1>5, <1>9, <1>10, Zenon
<1>12. \A j \in M : Written(u)[j] = Written(t)[j]
  BY <1>3, WrittenKept, Zenon
<1>13. PICK f, g : f = Written(u) /\ g = Written(t)
  BY Zenon
<1>14. Listed(f, M) = Listed(g, M)
  BY <1>2, <1>3, <1>12, <1>13, ListedSame
<1>15. Listed(f, M \cup {m}) = Append(Listed(f, M), f[m])
  BY <1>8, ListedLater
<1> QED BY <1>1, <1>11, <1>13, <1>14, <1>15, Zenon DEF ListAt, ListGains

\* A block that has just been opened has an empty list.
LEMMA ListFresh ==
  ASSUME NEW t, NEW u, NEW ln, Longer(u, t, ln), NEW k
  PROVE  ListAt(u, Len(t) + 1, k) = << >>
<1>1. Members(u, Len(t) + 1, k) = {}
  BY NothingYet, Zenon DEF Members
<1>2. DOMAIN InOrder({}) = {}
  <2>1. {} \in SUBSET (1 .. 0) /\ 0 \in Nat
    OBVIOUS
  <2>2. Cardinality({}) = 0
    BY FS_EmptySet
  <2> QED BY <2>1, <2>2, InOrderIs
<1>3. Listed(Written(u), {}) = << >>
  BY <1>2 DEF Listed
<1> QED BY <1>1, <1>3, Zenon DEF ListAt

-----------------------------------------------------------------------------
(* Settings                                                                *)

\* A word is parsed in one way.
LEMMA HeaderUpOne ==
  ASSUME NEW args, NEW g \in HeaderUp(args), NEW h \in HeaderUp(args)
  PROVE  g = h
<1>1. CASE args = << >>
  BY <1>1, Zenon DEF HeaderUp
<1>2. CASE args # << >> /\ args[1] \in DOMAIN Minus
  BY <1>2, Zenon DEF HeaderUp, Removal
<1>3. CASE args # << >> /\ args[1] \notin DOMAIN Minus
  BY <1>3, Zenon DEF HeaderUp
<1> QED BY <1>1, <1>2, <1>3

\* HeaderOf is that way.
LEMMA HeaderOfIs ==
  ASSUME NEW args, NEW h \in HeaderUp(args)
  PROVE  HeaderOf(args) = h
<1>1. HeaderOf(args) \in HeaderUp(args)
  BY Zenon DEF HeaderOf
<1> QED BY <1>1, HeaderUpOne

\* The settings of the two kinds of block are different.
LEMMA SettingNames ==
  /\ \A s \in AuthSettings : s \notin ProxySettings /\ s # "header_up"
  /\ \A s \in ProxySettings : s \notin AuthSettings /\ s # "header_up"
BY DEF AuthSettings, ProxySettings

\* Settings that are no durations.
LEMMA SettingValueOne ==
  ASSUME NEW name \in AuthSettings, name # "timeout", NEW args, NEW v \in SettingValue(name, args),
         NEW w \in SettingValue(name, args)
  PROVE  v = w
<1>1. args # << >>
  <2>1. CASE args = << >>
    <3>1. SettingValue(name, args) = {}
      BY <2>1, Zenon DEF SettingValue
    <3> QED BY <3>1
  <2> QED BY <2>1
<1>2. CASE name = "to"
  <2>1. SettingValue("to", args) = {args[1]}
    BY <1>1 DEF SettingValue, ProxySettings
  <2> QED BY <1>2, <2>1, Zenon
<1>3. CASE name = "failure_mode"
  <2>1. SettingValue("failure_mode", args) = {args[1]} \cap {"open", "closed"}
    BY <1>1 DEF SettingValue, ProxySettings
  <2> QED BY <1>3, <2>1, Zenon
<1>4. CASE name = "request_headers"
  <2>1. SettingValue("request_headers", args) = {args}
    BY <1>1 DEF SettingValue, ProxySettings
  <2> QED BY <1>4, <2>1, Zenon
<1>5. CASE name = "response_headers"
  <2>1. SettingValue("response_headers", args) = {args}
    BY <1>1 DEF SettingValue, ProxySettings
  <2> QED BY <1>5, <2>1, Zenon
<1> QED BY <1>2, <1>3, <1>4, <1>5 DEF AuthSettings

\* Durations, where the product is not too large.
LEMMA DurationValue ==
  ASSUME NEW name \in ProxySettings \cup {"timeout"}, NEW args, NEW v \in SettingValue(name, args),
         \A word \in DOMAIN DurationOf : args # << >> /\ args[1] = word => Product(word) < U64
  PROVE  v = Product(args[1])
<1>1. args # << >>
  <2>1. CASE args = << >>
    <3>1. SettingValue(name, args) = {}
      BY <2>1, Zenon DEF SettingValue
    <3> QED BY <3>1
  <2> QED BY <2>1
<1>2. name \notin {"to", "failure_mode", "request_headers", "response_headers"}
  BY DEF ProxySettings
<1>3. SettingValue(name, args) = ParseDuration(args[1])
  BY <1>1, <1>2 DEF SettingValue
<1>4. PICK word : word = args[1]
  BY Zenon
<1>5. word \in DOMAIN DurationOf /\ v = Product(word) % U64
  <2>1. CASE word \in DOMAIN DurationOf /\ DurationOf[word].value < U64
    BY <1>3, <1>4, <2>1, Zenon DEF ParseDuration
  <2>2. CASE ~(word \in DOMAIN DurationOf /\ DurationOf[word].value < U64)
    BY <1>3, <1>4, <2>2, Zenon DEF ParseDuration
  <2> QED BY <2>1, <2>2
<1>6. Product(word) \in Nat
  <2>1. DurationOf[word] \in [value : Nat, unit : DOMAIN Multiplier]
    BY <1>5, DurationAssumption, Zenon
  <2>2. PICK x, y : x = DurationOf[word].value /\ y = DurationOf[word].unit
    BY Zenon
  <2>3. x \in Nat /\ y \in DOMAIN Multiplier
    BY <2>1, <2>2
  <2>4. Multiplier[y] \in Nat
    BY <2>3 DEF Multiplier
  <2>5. Product(word) = x * Multiplier[y]
    BY <2>2, Zenon DEF Product
  <2> QED BY <2>3, <2>4, <2>5
<1>7. Product(word) < U64
  BY <1>1, <1>4, <1>5, Zenon
<1>8. v = Product(word)
  <2>1. U64 \in Nat \ {0}
    BY BoundsAssumption
  <2>2. PICK p : p = Product(word)
    BY Zenon
  <2>3. p \in Nat /\ p < U64
    BY <1>6, <1>7, <2>2, Zenon
  <2>4. p % U64 = p
    BY <2>1, <2>3
  <2> QED BY <1>5, <2>2, <2>4, Zenon
<1> QED BY <1>4, <1>8, Zenon

\* The value of a setting line is the one LastSetting takes from it.
LEMMA SettingOfIs ==
  ASSUME NEW name \in AuthSettings \cup ProxySettings, NEW args, NEW v \in SettingValue(name, args),
         \A word \in DOMAIN DurationOf : args # << >> /\ args[1] = word => Product(word) < U64,
         NEW lines, lines # {}
  PROVE  SettingOf(name, lines, args) = v
<1>1. CASE name \in ProxySettings \cup {"timeout"}
  <2>1. v = Product(args[1])
    BY <1>1, DurationValue
  <2> QED BY <1>1, <2>1, Zenon DEF SettingOf
<1>2. CASE name \notin ProxySettings \cup {"timeout"}
  <2>1. SettingOf(name, lines, args) = CHOOSE w \in SettingValue(name, args) : TRUE
    BY <1>2, Zenon DEF SettingOf
  <2>2. SettingOf(name, lines, args) \in SettingValue(name, args)
    BY <2>1, Zenon
  <2>3. name \in AuthSettings /\ name # "timeout"
    BY <1>2, Zenon
  <2> QED BY <2>2, <2>3, SettingValueOne
<1> QED BY <1>1, <1>2

\* What another line ln, of number m, does to the lines with a name.
NamingGains(u, t, i, name, ln, m) ==
  /\ ln.word # name => Naming(u, i, name) = Naming(t, i, name)
  /\ ln.word = name => Naming(u, i, name) = Naming(t, i, name) \cup {m}
  /\ Naming(t, i, name) \in SUBSET (1 .. Len(t))

\* The lines with a name, with another line in the innermost block.
LEMMA NamingNext ==
  ASSUME NEW t, NEW u, NEW ln, Longer(u, t, ln), NEW o, Opened(t, o), Len(o) >= 1, ln.shape = "plain", NEW name
  PROVE  NamingGains(u, t, o[Len(o)], name, ln, Len(t) + 1)
<1>1. PICK i : i = o[Len(o)]
  BY Zenon
<1>2. Len(o) \in 1 .. Len(o) /\ Len(t) \in Nat
  BY DEF Opened
<1>3. i \in 1 .. Len(t)
  BY <1>1, <1>2, Zenon DEF Opened, OpenAt
<1>4. Receives(u, t, ln, o, Len(o))
  BY <1>2, OpenKept, Zenon
<1>5. Inside(u, i) = Inside(t, i) \cup {Len(t) + 1}
  BY <1>1, <1>4, Zenon DEF Receives
<1>6. Inside(t, i) \in SUBSET (1 .. Len(t))
  BY <1>2, <1>3, InsideLater, Zenon
<1>7. u[Len(t) + 1] = ln /\ \A j \in Inside(t, i) : u[j] = t[j]
  BY <1>6, Zenon DEF Longer
<1>8. ln.word # name => Naming(u, i, name) = Naming(t, i, name)
  BY <1>5, <1>7, Zenon DEF Naming
<1>9. ln.word = name => Naming(u, i, name) = Naming(t, i, name) \cup {Len(t) + 1}
  BY <1>5, <1>7, Zenon DEF Naming
<1>10. Naming(t, i, name) \in SUBSET (1 .. Len(t))
  BY <1>6, Zenon DEF Naming
<1> QED BY <1>1, <1>8, <1>9, <1>10, Zenon DEF NamingGains

\* A setting that the line does not name, and one that it does.
LEMMA LastSettingNext ==
  ASSUME NEW t, NEW u, NEW ln, Longer(u, t, ln), NEW o, Opened(t, o), Len(o) >= 1, ln.shape = "plain", NEW name
  PROVE  /\ ln.word # name => LastSetting(u, o[Len(o)], name) = LastSetting(t, o[Len(o)], name)
         /\ ln.word = name =>
              \E lines : lines # {} /\ LastSetting(u, o[Len(o)], name) = SettingOf(name, lines, ln.args)
<1>1. PICK i, L, K, m : i = o[Len(o)] /\ L = Naming(t, i, name) /\ K = Naming(u, i, name) /\ m = Len(t) + 1
  BY Zenon
<1>2. /\ ln.word # name => K = L
      /\ ln.word = name => K = L \cup {m}
      /\ L \in SUBSET (1 .. Len(t))
  <2>1. NamingGains(u, t, o[Len(o)], name, ln, Len(t) + 1)
    BY NamingNext, Zenon
  <2> QED BY <1>1, <2>1, Zenon DEF NamingGains
<1>3. Len(t) \in Nat /\ u[m] = ln /\ \A j \in 1 .. Len(t) : u[j] = t[j]
  BY <1>1, Zenon DEF Longer
<1>4. LastSetting(u, i, name) = SettingOf(name, K, u[Max(K)].args)
  BY <1>1, LastSettingIs
<1>5. LastSetting(t, i, name) = SettingOf(name, L, t[Max(L)].args)
  BY <1>1, LastSettingIs
<1>6. ASSUME ln.word # name PROVE LastSetting(u, i, name) = LastSetting(t, i, name)
  <2>1. CASE L = {}
    BY <1>2, <1>4, <1>5, <1>6, <2>1, Zenon DEF SettingOf
  <2>2. CASE L # {}
    <3>1. Max(L) \in L
      BY <1>2, <1>3, <2>2, MaxLine, Zenon
    <3>2. u[Max(L)] = t[Max(L)]
      BY <1>2, <1>3, <3>1, Zenon
    <3> QED BY <1>2, <1>4, <1>5, <1>6, <3>2, Zenon
  <2> QED BY <2>1, <2>2
<1>7. ASSUME ln.word = name PROVE LastSetting(u, i, name) = SettingOf(name, K, ln.args) /\ K # {}
  <2>1. K = L \cup {m}
    BY <1>2, <1>7, Zenon
  <2>2. K \in SUBSET (1 .. m) /\ m \in Nat /\ m \in K /\ \A j \in K : j <= m
    BY <1>1, <1>2, <1>3, <2>1
  <2>3. Max(K) = m
    BY <2>2, MaxIs
  <2> QED BY <1>3, <1>4, <2>2, <2>3, Zenon
<1> QED BY <1>1, <1>6, <1>7, Zenon

\* The headers of a block with another line in it.
LEMMA HeadersNext ==
  ASSUME NEW t, NEW u, NEW ln, Longer(u, t, ln), NEW o, Opened(t, o), Len(o) >= 1, ln.shape = "plain"
  PROVE  /\ ln.word # "header_up" => WrittenHeaders(u, o[Len(o)]) = WrittenHeaders(t, o[Len(o)])
         /\ ln.word = "header_up" =>
              WrittenHeaders(u, o[Len(o)]) = Append(WrittenHeaders(t, o[Len(o)]), HeaderOf(ln.args))
<1>1. PICK i, H, K, m : i = o[Len(o)] /\ H = Naming(t, i, "header_up") /\ K = Naming(u, i, "header_up") /\ m = Len(t) + 1
  BY Zenon
<1>2. /\ ln.word # "header_up" => K = H
      /\ ln.word = "header_up" => K = H \cup {m}
      /\ H \in SUBSET (1 .. Len(t))
  <2>1. NamingGains(u, t, o[Len(o)], "header_up", ln, Len(t) + 1)
    BY NamingNext, Zenon
  <2> QED BY <1>1, <2>1, Zenon DEF NamingGains
<1>3. Len(t) \in Nat /\ u[m] = ln /\ \A j \in 1 .. Len(t) : u[j] = t[j]
  BY <1>1, Zenon DEF Longer
<1>4. m \in Nat /\ m > Len(t) /\ (\A j \in 1 .. Len(t) : j \in 1 .. m) /\ m \in 1 .. m
  BY <1>1, <1>3
<1>5. PICK f : f = [j \in 1 .. m |-> HeaderOf(u[j].args)]
  BY Zenon
<1>6. \A k \in DOMAIN InOrder(H) : InOrder(H)[k] \in H
  BY <1>2, <1>3, InOrderIs
<1>7. WrittenHeaders(t, i) = Listed(f, H)
  <2>1. WrittenHeaders(t, i) = [k \in DOMAIN InOrder(H) |-> HeaderOf(t[InOrder(H)[k]].args)]
    BY <1>1, WrittenHeadersIs
  <2>2. ASSUME NEW k \in DOMAIN InOrder(H) PROVE HeaderOf(t[InOrder(H)[k]].args) = f[InOrder(H)[k]]
    <3>1. PICK j : j = InOrder(H)[k] /\ j \in 1 .. Len(t) /\ j \in 1 .. m
      BY <1>2, <1>4, <1>6, Zenon
    <3>2. u[j] = t[j] /\ f[j] = HeaderOf(u[j].args)
      BY <1>3, <1>5, <3>1, Zenon
    <3> QED BY <3>1, <3>2, Zenon
  <2>3. Listed(f, H) = [k \in DOMAIN InOrder(H) |-> f[InOrder(H)[k]]]
    BY Zenon DEF Listed
  <2> QED BY <2>1, <2>2, <2>3, Zenon
<1>8. WrittenHeaders(u, i) = Listed(f, K)
  <2>1. WrittenHeaders(u, i) = [k \in DOMAIN InOrder(K) |-> HeaderOf(u[InOrder(K)[k]].args)]
    BY <1>1, WrittenHeadersIs
  <2>2. K \in SUBSET (1 .. m)
    BY <1>2, <1>4, Zenon
  <2>3. \A k \in DOMAIN InOrder(K) : InOrder(K)[k] \in 1 .. m
    BY <1>4, <2>2, InOrderIs
  <2>4. \A k \in DOMAIN InOrder(K) : HeaderOf(u[InOrder(K)[k]].args) = f[InOrder(K)[k]]
    BY <1>5, <2>3, Zenon
  <2>5. Listed(f, K) = [k \in DOMAIN InOrder(K) |-> f[InOrder(K)[k]]]
    BY Zenon DEF Listed
  <2> QED BY <2>1, <2>4, <2>5, Zenon
<1>9. ASSUME ln.word # "header_up" PROVE WrittenHeaders(u, i) = WrittenHeaders(t, i)
  BY <1>2, <1>7, <1>8, <1>9, Zenon
<1>10. ASSUME ln.word = "header_up" PROVE WrittenHeaders(u, i) = Append(WrittenHeaders(t, i), HeaderOf(ln.args))
  <2>1. Listed(f, H \cup {m}) = Append(Listed(f, H), f[m])
    BY <1>2, <1>3, <1>4, ListedLater
  <2>2. f[m] = HeaderOf(ln.args)
    BY <1>3, <1>4, <1>5, Zenon
  <2> QED BY <1>2, <1>7, <1>8, <1>10, <2>1, <2>2, Zenon
<1> QED BY <1>1, <1>9, <1>10, Zenon

\* An entry of the stack of blocks stands for the block that line i opens.
BlockFits(t, i, b) ==
  /\ b.directive_type = t[i].word /\ b.args = t[i].args
  /\ t[i].word \in SettingsBlocks =>
       b.set = WrittenSettings(t, i) /\ b.header_up = WrittenHeaders(t, i)

\* A block without another line in it.
LEMMA BlockStays ==
  ASSUME NEW t, NEW u, NEW ln, Longer(u, t, ln), NEW i \in 1 .. Len(t), NEW b, BlockFits(t, i, b),
         Inside(u, i) = Inside(t, i) \/ t[i].word \notin SettingsBlocks
  PROVE  BlockFits(u, i, b)
<1>1. u[i] = t[i]
  BY Zenon DEF Longer
<1>2. CASE t[i].word \notin SettingsBlocks
  BY <1>1, <1>2, Zenon DEF BlockFits
<1>3. CASE Inside(u, i) = Inside(t, i)
  <2>1. BlockKept(u, t, i)
    BY <1>3, SettingsKept, Zenon
  <2>2. WrittenSettings(u, i) = WrittenSettings(t, i) /\ WrittenHeaders(u, i) = WrittenHeaders(t, i)
    BY <2>1, Zenon DEF BlockKept
  <2> QED BY <1>1, <2>2, Zenon DEF BlockFits
<1> QED BY <1>2, <1>3

\* A block that has just been opened.
LEMMA BlockFresh ==
  ASSUME NEW t, NEW u, NEW ln, Longer(u, t, ln)
  PROVE  BlockFits(u, Len(t) + 1, Block(ln.word, ln.args))
<1>1. PICK m : m = Len(t) + 1 /\ u[m] = ln
  BY Zenon DEF Longer
<1>2. Inside(u, m) = {}
  BY <1>1, NothingYet, Zenon
<1>3. \A name : Naming(u, m, name) = {}
  BY <1>2, Zenon DEF Naming
<1>4. ASSUME NEW name PROVE LastSetting(u, m, name) = None
  BY <1>2, Zenon DEF LastSetting
<1>5. WrittenSettings(u, m) = NoSettings
  BY <1>4, Zenon DEF WrittenSettings, NoSettings
<1>6. WrittenHeaders(u, m) = << >>
  <2>1. DOMAIN InOrder({}) = {}
    <3>1. {} \in SUBSET (1 .. 0) /\ 0 \in Nat
      OBVIOUS
    <3>2. Cardinality({}) = 0
      BY FS_EmptySet
    <3> QED BY <3>1, <3>2, InOrderIs
  <2>2. PICK K : K = Naming(u, m, "header_up") /\ K = {}
    BY <1>3, Zenon
  <2>3. WrittenHeaders(u, m) = [k \in DOMAIN InOrder(K) |-> HeaderOf(u[InOrder(K)[k]].args)]
    BY <2>2, WrittenHeadersIs
  <2>4. DOMAIN InOrder(K) = {}
    BY <2>1, <2>2, Zenon
  <2> QED BY <2>3, <2>4
<1>7. /\ Block(ln.word, ln.args).directive_type = ln.word /\ Block(ln.word, ln.args).args = ln.args
      /\ Block(ln.word, ln.args).set = NoSettings /\ Block(ln.word, ln.args).header_up = << >>
  BY DEF Block
<1> QED BY <1>1, <1>5, <1>6, <1>7, Zenon DEF BlockFits

\* The fields of a block.
LEMMA BlockFields ==
  ASSUME NEW V, NEW b, OpenBlockOf(V, b)
  PROVE  DOMAIN b = {"directive_type", "args", "set", "header_up"} /\ DOMAIN b.set = AuthSettings \cup ProxySettings
<1>1. PICK l \in V : [b EXCEPT !.set = NoSettings, !.header_up = << >>] = Block(l.word, l.args)
  BY DEF OpenBlockOf
<1>2. DOMAIN [b EXCEPT !.set = NoSettings, !.header_up = << >>] = DOMAIN b
  OBVIOUS
<1>3. DOMAIN Block(l.word, l.args) = {"directive_type", "args", "set", "header_up"}
  BY DEF Block
<1>4. DOMAIN b.set = AuthSettings \cup ProxySettings
  BY Zenon DEF OpenBlockOf
<1> QED BY <1>1, <1>2, <1>3, <1>4

\* A setting line gives the block what the text says.
LEMMA BlockSet ==
  ASSUME NEW t, NEW u, NEW ln, Longer(u, t, ln), NEW o, Opened(t, o), Len(o) >= 1, ln.shape = "plain",
         DurationsFit(u), NEW V, NEW b, OpenBlockOf(V, b), BlockFits(t, o[Len(o)], b),
         b.directive_type \in SettingsBlocks, NEW c \in WithSetting(b, ln)
  PROVE  BlockFits(u, o[Len(o)], c)
<1>1. PICK i : i = o[Len(o)]
  BY Zenon
<1>2. i \in 1 .. Len(t)
  <2>1. Len(o) \in 1 .. Len(o)
    BY DEF Opened
  <2> QED BY <1>1, <2>1, Zenon DEF Opened, OpenAt
<1>3. u[i] = t[i] /\ u[Len(t) + 1] = ln /\ Len(t) + 1 \in DOMAIN u
  BY <1>2 DEF Longer
<1>4. /\ b.directive_type = t[i].word /\ b.args = t[i].args
      /\ b.set = WrittenSettings(t, i) /\ b.header_up = WrittenHeaders(t, i)
  BY <1>1, Zenon DEF BlockFits
<1>5. DOMAIN b = {"directive_type", "args", "set", "header_up"} /\ DOMAIN b.set = AuthSettings \cup ProxySettings
  BY BlockFields
<1>6. /\ ln.word # "header_up" => WrittenHeaders(u, i) = WrittenHeaders(t, i)
      /\ ln.word = "header_up" => WrittenHeaders(u, i) = Append(WrittenHeaders(t, i), HeaderOf(ln.args))
  BY <1>1, HeadersNext
<1>7. \A name : ln.word # name => LastSetting(u, i, name) = LastSetting(t, i, name)
  BY <1>1, LastSettingNext
<1>8. \A word \in DOMAIN DurationOf : ln.args # << >> /\ ln.args[1] = word => Product(word) < U64
  BY <1>3, Zenon DEF DurationsFit
<1>9. CASE \/ b.directive_type = "forward_auth" /\ ln.word \in AuthSettings
           \/ b.directive_type = "reverse_proxy" /\ ln.word \in ProxySettings
  <2>1. WithSetting(b, ln) = {[b EXCEPT !.set[ln.word] = v] : v \in SettingValue(ln.word, ln.args)}
    <3>1. ln.word # "header_up"
      BY <1>9, SettingNames, Zenon
    <3> QED BY <1>9, <3>1, Zenon DEF WithSetting
  <2>2. PICK v \in SettingValue(ln.word, ln.args) : c = [b EXCEPT !.set[ln.word] = v]
    BY <2>1, Zenon
  <2>3. ln.word \in AuthSettings \cup ProxySettings /\ ln.word # "header_up"
    BY <1>9, SettingNames, Zenon
  <2>4. /\ c.directive_type = b.directive_type /\ c.args = b.args /\ c.header_up = b.header_up
        /\ c.set = [b.set EXCEPT ![ln.word] = v]
    BY <1>5, <2>2
  <2>5. LastSetting(u, i, ln.word) = v
    <3>1. PICK lines : lines # {} /\ LastSetting(u, i, ln.word) = SettingOf(ln.word, lines, ln.args)
      BY <1>1, LastSettingNext
    <3>2. SettingOf(ln.word, lines, ln.args) = v
      BY <1>8, <2>3, <3>1, SettingOfIs
    <3> QED BY <3>1, <3>2, Zenon
  <2>6. ln.word \in AuthSettings <=> u[i].word = "forward_auth"
    <3>1. "forward_auth" # "reverse_proxy"
      OBVIOUS
    <3> QED BY <1>3, <1>4, <1>9, <3>1, SettingNames, Zenon
  <2>7. WrittenSettings(u, i) = c.set
    <3>1. c.set = [s \in AuthSettings \cup ProxySettings |-> IF s = ln.word THEN v ELSE b.set[s]]
      BY <1>5, <2>4, Zenon
    <3>2. ASSUME NEW s \in AuthSettings \cup ProxySettings
          PROVE  (IF s \in AuthSettings <=> u[i].word = "forward_auth" THEN LastSetting(u, i, s) ELSE None)
                   = (IF s = ln.word THEN v ELSE b.set[s])
      <4>1. CASE s = ln.word
        BY <2>5, <2>6, <4>1, Zenon
      <4>2. CASE s # ln.word
        <5>1. LastSetting(u, i, s) = LastSetting(t, i, s)
          BY <1>7, <4>2, Zenon
        <5>2. b.set[s] = IF s \in AuthSettings <=> t[i].word = "forward_auth" THEN LastSetting(t, i, s) ELSE None
          BY <1>4, Zenon DEF WrittenSettings
        <5>3. CASE s \in AuthSettings <=> t[i].word = "forward_auth"
          BY <1>3, <4>2, <5>1, <5>2, <5>3, Zenon
        <5>4. CASE ~(s \in AuthSettings <=> t[i].word = "forward_auth")
          BY <1>3, <4>2, <5>1, <5>2, <5>4, Zenon
        <5> QED BY <5>3, <5>4, Zenon
      <4> QED BY <4>1, <4>2
    <3> QED BY <3>1, <3>2, Zenon DEF WrittenSettings
  <2> QED BY <1>1, <1>3, <1>4, <1>6, <2>3, <2>4, <2>7, Zenon DEF BlockFits
<1>10. CASE b.directive_type = "reverse_proxy" /\ ln.word = "header_up"
  <2>1. ln.word \notin AuthSettings /\ ln.word \notin ProxySettings
    BY <1>10, SettingNames, Zenon
  <2>2. WithSetting(b, ln) = {[b EXCEPT !.header_up = Append(@, h)] : h \in HeaderUp(ln.args)}
    BY <1>10, <2>1, Zenon DEF WithSetting
  <2>3. PICK h \in HeaderUp(ln.args) : c = [b EXCEPT !.header_up = Append(@, h)]
    BY <2>2, Zenon
  <2>4. /\ c.directive_type = b.directive_type /\ c.args = b.args /\ c.set = b.set
        /\ c.header_up = Append(b.header_up, h)
    BY <1>5, <2>3
  <2>5. HeaderOf(ln.args) = h
    BY HeaderOfIs
  <2>6. \A s \in AuthSettings \cup ProxySettings : LastSetting(u, i, s) = LastSetting(t, i, s)
    BY <1>7, <1>10, SettingNames, Zenon
  <2>7. WrittenSettings(u, i) = WrittenSettings(t, i)
    BY <1>3, <2>6, Zenon DEF WrittenSettings
  <2> QED BY <1>1, <1>3, <1>4, <1>6, <1>10, <2>4, <2>5, <2>7, Zenon DEF BlockFits
<1>11. CASE ~(\/ b.directive_type = "forward_auth" /\ ln.word \in AuthSettings
              \/ b.directive_type = "reverse_proxy" /\ ln.word \in ProxySettings)
            /\ ~(b.directive_type = "reverse_proxy" /\ ln.word = "header_up")
  <2>1. WithSetting(b, ln) = {}
    BY <1>11, Zenon DEF WithSetting
  <2> QED BY <2>1, Zenon
<1> QED BY <1>9, <1>10, <1>11, Zenon

-----------------------------------------------------------------------------
(* Closing braces                                                          *)

\* build_forward_auth makes one directive of the settings.
LEMMA BuildOne ==
  ASSUME NEW set, NEW x \in BuildForwardAuth(set), NEW y \in BuildForwardAuth(set)
  PROVE  x = y
<1>1. PICK N : N = NormalizeAuthEndpoint(UriOf[set["to"]])
  BY Zenon
<1>2. N = {} \/ \E e : N = {e}
  BY <1>1, Zenon DEF NormalizeAuthEndpoint
<1>3. CASE N = {}
  BY <1>1, <1>3, Zenon DEF BuildForwardAuth
<1>4. ASSUME NEW e, N = {e} PROVE x = y
  <2> DEFINE given(setting) == IF set[setting] = None THEN << >> ELSE set[setting]
             names(setting) == [i \in DOMAIN given(setting) |-> HeaderNameOf[given(setting)[i]]]
             C == \/ set["to"] \notin DOMAIN UriOf
                  \/ \E setting \in {"request_headers", "response_headers"} :
                       \E i \in DOMAIN given(setting) : given(setting)[i] \notin DOMAIN HeaderNameOf
             F(uri) == [set EXCEPT !["to"] = uri,
                          !["request_headers"] = IF @ = None THEN <<"authorization", "cookie">>
                                                             ELSE names("request_headers"),
                          !["response_headers"] = names("response_headers"),
                          !["failure_mode"] = IF @ = None THEN "closed" ELSE @,
                          !["timeout"] = IF @ = None THEN 5 ELSE @]
  <2>1. BuildForwardAuth(set) = IF C THEN {} ELSE {F(uri) : uri \in NormalizeAuthEndpoint(UriOf[set["to"]])}
    BY Zenon DEF BuildForwardAuth
  <2> HIDE DEF C, F, given, names
  <2>2. CASE C
    BY <2>1, <2>2, Zenon
  <2>3. CASE ~C
    <3>1. BuildForwardAuth(set) = {F(uri) : uri \in N}
      BY <1>1, <2>1, <2>3, Zenon
    <3>2. (\E a \in N : x = F(a)) /\ (\E a \in N : y = F(a))
      BY <3>1, Zenon
    <3>3. \A a \in N : a = e
      BY <1>4, Zenon
    <3> QED BY <3>2, <3>3, Zenon
  <2> QED BY <2>2, <2>3
<1> QED BY <1>2, <1>3, <1>4, Zenon

\* The list of the innermost block holds all that is in it.
LEMMA InnermostList ==
  ASSUME NEW t, NEW u, NEW ln, Longer(u, t, ln), NEW o, Opened(t, o), Len(o) >= 1, ln.shape = "close",
         NEW S, S = {j \in Inside(t, o[Len(o)]) : Len(o) = 1 => j \notin TlsLines(t, o[Len(o)])},
         Len(o) >= 2 => t[o[Len(o)]].word \notin SettingsBlocks
  PROVE  ListAt(t, o[Len(o)], Len(o)) = Listed(Written(u), S)
<1>1. PICK i, k : i = o[k] /\ k = Len(o)
  BY Zenon
<1>2. k \in 1 .. Len(o) /\ Len(t) \in Nat
  BY <1>1 DEF Opened
<1>3. i \in 1 .. Len(t)
  BY <1>1, <1>2, Zenon DEF Opened, OpenAt
<1>4. \A j \in Inside(t, i) : Settled(t, j)
  BY <1>1, InnermostSettled, Zenon
<1>5. Members(t, i, k) = S
  BY <1>1, <1>4, Zenon DEF Members
<1>6. S \in SUBSET (1 .. Len(t)) /\ \A j \in S : Settled(t, j)
  <2>1. Inside(t, i) \in SUBSET (1 .. Len(t))
    BY <1>2, <1>3, InsideLater, Zenon
  <2> QED BY <1>1, <1>4, <2>1, Zenon
<1>7. PICK f, g : f = Written(u) /\ g = Written(t)
  BY Zenon
<1>8. \A j \in S : f[j] = g[j]
  <2>1. \A j : Settled(t, j) => Written(u)[j] = Written(t)[j]
    BY WrittenKept
  <2> QED BY <1>6, <1>7, <2>1, Zenon
<1>9. Listed(f, S) = Listed(g, S)
  BY <1>2, <1>6, <1>8, ListedSame
<1> QED BY <1>1, <1>5, <1>7, <1>9, Zenon DEF ListAt

\* What a closing brace makes of a block is what the block spells.
LEMMA CompleteIs ==
  ASSUME NEW t, NEW u, NEW ln, Longer(u, t, ln), NEW o, Opened(t, o), Len(o) >= 2, ln.shape = "close",
         NEW b, BlockFits(t, o[Len(o)], b),
         NEW directive \in CompleteBlock(b, ListAt(t, o[Len(o)], Len(o)))
  PROVE  directive = Written(u)[o[Len(o)]]
<1>1. PICK i, k, finished : i = o[k] /\ k = Len(o) /\ finished = ListAt(t, i, k)
  BY Zenon
<1>2. k \in 1 .. Len(o) /\ Len(t) \in Nat /\ Len(o) >= 1 /\ Len(o) # 1
  BY <1>1 DEF Opened
<1>3. i \in 1 .. Len(t) /\ Opens(t, i)
  BY <1>1, <1>2, Zenon DEF Opened, OpenAt
<1>4. u[i] = t[i] /\ Opens(u, i) /\ Len(u) = Len(t) + 1
  BY <1>3, Zenon DEF Longer, Opens
<1>5. i \in 1 .. Len(u) /\ Len(u) \in Nat
  BY <1>2, <1>3, <1>4
<1>6. Inside(u, i) = Inside(t, i)
  <2>1. Receives(u, t, ln, o, k)
    BY <1>2, OpenKept, Zenon
  <2>2. "close" \notin {"open", "plain"}
    OBVIOUS
  <2> QED BY <1>1, <2>1, <2>2, Zenon DEF Receives
<1>7. BlockFits(u, i, b)
  BY <1>1, <1>3, <1>6, BlockStays, Zenon
<1>8. b.directive_type = u[i].word /\ b.args = u[i].args
  BY <1>7, Zenon DEF BlockFits
<1>9. Written(u)[i] = WrittenAt(u, Written(u), i)
  BY <1>5, WrittenIs, Zenon
<1>10. u[i].shape = "open" /\ u[i].shape # "plain"
  BY <1>4 DEF Opens
<1>11. directive \in CompleteBlock(b, finished)
  BY <1>1, Zenon
<1>12. u[i].word \notin SettingsBlocks => finished = Listed(Written(u), Inside(u, i))
  <2>1. ASSUME u[i].word \notin SettingsBlocks PROVE finished = Listed(Written(u), Inside(u, i))
    <3>1. PICK S : S = {j \in Inside(t, o[Len(o)]) : Len(o) = 1 => j \notin TlsLines(t, o[Len(o)])}
      BY Zenon
    <3>2. S = Inside(u, i)
      BY <1>1, <1>2, <1>6, <3>1, Zenon
    <3>3. t[o[Len(o)]].word \notin SettingsBlocks
      BY <1>1, <1>4, <2>1, Zenon
    <3>4. ListAt(t, o[Len(o)], Len(o)) = Listed(Written(u), S)
      BY <1>2, <3>1, <3>3, InnermostList
    <3> QED BY <1>1, <3>2, <3>4, Zenon
  <2> QED BY <2>1
<1>13. CASE u[i].word = "handle_path"
  <2>1. u[i].word \notin SettingsBlocks
    BY <1>13 DEF SettingsBlocks
  <2>2. CompleteBlock(b, finished) = {Directive("handle_path", <<FirstOrEmpty(b.args)>>, NoSettings, << >>, finished)}
    <3>1. b.directive_type = "handle_path"
      BY <1>8, <1>13, Zenon
    <3> QED BY <3>1 DEF CompleteBlock
  <2>3. WrittenAt(u, Written(u), i)
          = Directive("handle_path", <<FirstOrEmpty(u[i].args)>>, NoSettings, << >>, Listed(Written(u), Inside(u, i)))
    BY <1>4, <1>10, <1>13 DEF WrittenAt
  <2> QED BY <1>1, <1>8, <1>9, <1>11, <1>12, <2>1, <2>2, <2>3, Zenon
<1>14. CASE u[i].word = "method"
  <2>1. u[i].word \notin SettingsBlocks
    BY <1>14 DEF SettingsBlocks
  <2>2. CompleteBlock(b, finished) = {Directive("method", b.args, NoSettings, << >>, finished)}
    <3>1. b.directive_type = "method"
      BY <1>8, <1>14, Zenon
    <3> QED BY <3>1 DEF CompleteBlock
  <2>3. WrittenAt(u, Written(u), i)
          = Directive("method", u[i].args, NoSettings, << >>, Listed(Written(u), Inside(u, i)))
    BY <1>4, <1>10, <1>14 DEF WrittenAt
  <2> QED BY <1>1, <1>8, <1>9, <1>11, <1>12, <2>1, <2>2, <2>3, Zenon
<1>15. CASE u[i].word = "reverse_proxy"
  <2>1. b.set = WrittenSettings(u, i) /\ b.header_up = WrittenHeaders(u, i)
    <3>1. u[i].word \in SettingsBlocks
      BY <1>15 DEF SettingsBlocks
    <3> QED BY <1>7, <3>1, Zenon DEF BlockFits
  <2>2. CompleteBlock(b, finished) = {Directive("reverse_proxy", <<FirstOrEmpty(b.args)>>, b.set, b.header_up, << >>)}
    <3>1. b.directive_type = "reverse_proxy"
      BY <1>8, <1>15, Zenon
    <3> QED BY <3>1 DEF CompleteBlock
  <2>3. WrittenAt(u, Written(u), i)
          = Directive("reverse_proxy", <<FirstOrEmpty(u[i].args)>>, WrittenSettings(u, i), WrittenHeaders(u, i), << >>)
    BY <1>4, <1>10, <1>15 DEF WrittenAt
  <2> QED BY <1>1, <1>8, <1>9, <1>11, <2>1, <2>2, <2>3, Zenon
<1>16. CASE u[i].word = "forward_auth"
  <2>1. b.set = WrittenSettings(u, i)
    <3>1. u[i].word \in SettingsBlocks
      BY <1>16 DEF SettingsBlocks
    <3> QED BY <1>7, <3>1, Zenon DEF BlockFits
  <2>2. b.directive_type = "forward_auth"
    BY <1>8, <1>16, Zenon
  <2>3. PICK set \in BuildForwardAuth(b.set) : directive = Directive("forward_auth", << >>, set, << >>, << >>)
    <3>1. CompleteBlock(b, finished) =
            IF finished # << >> THEN {}
            ELSE {Directive("forward_auth", << >>, set, << >>, << >>) : set \in BuildForwardAuth(b.set)}
      BY <2>2 DEF CompleteBlock
    <3>2. CASE finished # << >>
      BY <1>11, <3>1, <3>2, Zenon
    <3>3. CASE finished = << >>
      BY <1>11, <3>1, <3>3, Zenon
    <3> QED BY <3>2, <3>3
  <2>4. PICK s : s = CHOOSE x \in BuildForwardAuth(WrittenSettings(u, i)) : TRUE
    BY Zenon
  <2>5. s \in BuildForwardAuth(b.set)
    BY <2>1, <2>3, <2>4, Zenon
  <2>6. s = set
    BY <2>3, <2>5, BuildOne
  <2>7. WrittenAt(u, Written(u), i) = Directive("forward_auth", << >>, s, << >>, << >>)
    BY <1>4, <1>10, <1>16, <2>4 DEF WrittenAt
  <2> QED BY <1>1, <1>9, <2>3, <2>6, <2>7, Zenon
<1>17. CASE u[i].word \notin {"handle_path", "method", "reverse_proxy", "forward_auth"}
  <2>1. CompleteBlock(b, finished) = {}
    BY <1>8, <1>17, Zenon DEF CompleteBlock
  <2> QED BY <1>11, <2>1, Zenon
<1> QED BY <1>13, <1>14, <1>15, <1>16, <1>17, Zenon

\* What another line does to the tls lines of the open site.
TlsGains(u, t, o, ln) ==
  /\ TlsLines(u, o[1]) = TlsLines(t, o[1]) \cup
       (IF Len(o) = 1 /\ ln.shape = "plain" /\ ln.word = "tls" THEN {Len(t) + 1} ELSE {})
  /\ TlsLines(t, o[1]) \in SUBSET (1 .. Len(t))

\* It adds the tls line that it is, outside of the blocks of the site.
LEMMA TlsNext ==
  ASSUME NEW t, NEW u, NEW ln, Longer(u, t, ln), NEW o, Opened(t, o), Len(o) >= 1
  PROVE  TlsGains(u, t, o, ln)
<1>1. PICK i : i = o[1]
  BY Zenon
<1>2. 1 \in 1 .. Len(o) /\ Len(t) \in Nat
  BY DEF Opened
<1>3. i \in 1 .. Len(t)
  BY <1>1, <1>2, Zenon DEF Opened, OpenAt
<1>4. Receives(u, t, ln, o, 1)
  BY <1>2, OpenKept, Zenon
<1>5. Inside(t, i) \in SUBSET (1 .. Len(t))
  BY <1>2, <1>3, InsideLater, Zenon
<1>6. u[Len(t) + 1] = ln /\ \A j \in Inside(t, i) : u[j] = t[j]
  BY <1>5, Zenon DEF Longer
<1>7. Inside(u, i) = Inside(t, i) \cup (IF ln.shape \in {"open", "plain"} /\ 1 = Len(o) THEN {Len(t) + 1} ELSE {})
  BY <1>1, <1>4, Zenon DEF Receives
<1>8. TlsLines(u, i) = TlsLines(t, i) \cup
        (IF Len(o) = 1 /\ ln.shape = "plain" /\ ln.word = "tls" THEN {Len(t) + 1} ELSE {})
  <2>1. CASE Len(o) = 1 /\ ln.shape = "plain"
    <3>1. Inside(u, i) = Inside(t, i) \cup {Len(t) + 1}
      BY <1>7, <2>1, Zenon
    <3> QED BY <1>6, <2>1, <3>1, Zenon DEF TlsLines
  <2>2. CASE ~(Len(o) = 1 /\ ln.shape = "plain")
    BY <1>6, <1>7, <2>2, Zenon DEF TlsLines
  <2> QED BY <2>1, <2>2
<1>9. TlsLines(t, i) \in SUBSET (1 .. Len(t))
  BY <1>5, Zenon DEF TlsLines
<1> QED BY <1>1, <1>8, <1>9, Zenon DEF TlsGains

\* The tls setting is that of its lines.
LEMMA TlsKept ==
  ASSUME NEW t, NEW u, NEW ln, Longer(u, t, ln), NEW i, TlsLines(u, i) = TlsLines(t, i),
         TlsLines(t, i) \in SUBSET (1 .. Len(t))
  PROVE  WrittenTls(u, i) = WrittenTls(t, i)
<1>1. CASE TlsLines(t, i) = {}
  BY <1>1, Zenon DEF WrittenTls
<1>2. CASE TlsLines(t, i) # {}
  <2>1. PICK j : j = CHOOSE x \in TlsLines(t, i) : TRUE
    BY Zenon
  <2>2. j \in TlsLines(t, i)
    BY <1>2, <2>1, Zenon
  <2>3. u[j] = t[j]
    BY <2>2, Zenon DEF Longer
  <2>4. WrittenTls(u, i) = <<u[j].args[1], u[j].args[2]>> /\ WrittenTls(t, i) = <<t[j].args[1], t[j].args[2]>>
    BY <1>2, <2>1 DEF WrittenTls
  <2> QED BY <2>3, <2>4, Zenon
<1> QED BY <1>1, <1>2

-----------------------------------------------------------------------------
(* The sites of a text                                                     *)

\* The lines that open a site which is closed.
ClosedSites(t) == {j \in DOMAIN t : Opens(t, j) /\ Depth(t, j) = 0 /\ ClosersOf(t, j) # {}}

\* The sites a text spells.
SpelledSites(t) == {WrittenSite(t, i) : i \in ClosedSites(t)}

\* A closed site stays as it is.
LEMMA SiteStays ==
  ASSUME NEW t, NEW u, NEW ln, Longer(u, t, ln), NEW o, Opened(t, o), NEW i \in 1 .. Len(t), ClosersOf(t, i) # {}
  PROVE  WrittenSite(u, i) = WrittenSite(t, i)
<1>1. Len(t) \in Nat /\ u[i] = t[i]
  BY Zenon DEF Longer
<1>2. Inside(u, i) = Inside(t, i)
  BY ClosedKept, Zenon
<1>3. BlockKept(u, t, i)
  BY <1>2, SettingsKept, Zenon
<1>4. TlsLines(u, i) = TlsLines(t, i) /\ WrittenTls(u, i) = WrittenTls(t, i)
  BY <1>3, Zenon DEF BlockKept
<1>5. PICK S : S = Inside(t, i) \ TlsLines(t, i)
  BY Zenon
<1>6. Inside(t, i) \in SUBSET (1 .. Len(t))
  BY <1>1, InsideLater, Zenon
<1>7. \A j \in Inside(t, i) : Settled(t, j)
  BY <1>6, ClosedInside, Zenon DEF Settled
<1>8. PICK f, g : f = Written(u) /\ g = Written(t)
  BY Zenon
<1>9. S \in SUBSET (1 .. Len(t)) /\ \A j \in S : f[j] = g[j]
  BY <1>5, <1>6, <1>7, <1>8, WrittenKept, Zenon
<1>10. Listed(f, S) = Listed(g, S)
  BY <1>1, <1>9, ListedSame
<1>11. WrittenSite(u, i) = [address |-> u[i].word, directives |-> Listed(f, S), tls |-> WrittenTls(u, i)]
  BY <1>2, <1>4, <1>5, <1>8, Zenon DEF WrittenSite
<1>12. WrittenSite(t, i) = [address |-> t[i].word, directives |-> Listed(g, S), tls |-> WrittenTls(t, i)]
  BY <1>5, <1>8, Zenon DEF WrittenSite
<1> QED BY <1>1, <1>4, <1>10, <1>11, <1>12, Zenon

\* The sites that are closed after another line.
LEMMA ClosedSitesNext ==
  ASSUME NEW t, NEW u, NEW ln, Longer(u, t, ln), NEW o, Opened(t, o)
  PROVE  ClosedSites(u) = ClosedSites(t) \cup (IF ln.shape = "close" /\ Len(o) = 1 THEN {o[1]} ELSE {})
<1>1. /\ Len(t) \in Nat /\ DOMAIN t = 1 .. Len(t) /\ DOMAIN u = 1 .. Len(t) + 1 /\ Len(u) = Len(t) + 1
      /\ (\A j \in 1 .. Len(t) : u[j] = t[j]) /\ Len(o) \in Nat
  BY DEF Longer, Opened
<1>2. Len(t) + 1 \notin ClosedSites(u)
  <2>1. ClosersOf(u, Len(t) + 1) = {}
    BY NothingYet, Zenon
  <2> QED BY <2>1, Zenon DEF ClosedSites
<1>3. \A j \in 1 .. Len(t) + 1 : j \in 1 .. Len(t) \/ j = Len(t) + 1
  BY <1>1
<1>4. \A j \in 1 .. Len(t) : j \in 1 .. Len(t) + 1
  BY <1>1
<1>5. ASSUME NEW j \in 1 .. Len(t)
      PROVE  j \in ClosedSites(u) <=> j \in ClosedSites(t) \/ (ln.shape = "close" /\ Len(o) = 1 /\ j = o[1])
  <2>1. Opens(u, j) <=> Opens(t, j)
    BY <1>1, Zenon DEF Opens
  <2>2. Depth(u, j) = Depth(t, j)
    BY <1>4, DepthKept, Zenon
  <2>3. Settled(u, j) <=> Settled(t, j) \/ (ln.shape = "close" /\ Len(o) >= 1 /\ j = o[Len(o)])
    BY SettledNext, Zenon
  <2>4. j \in 1 .. Len(u)
    BY <1>1, <1>4, Zenon
  <2>5. j \in ClosedSites(u) <=> Opens(t, j) /\ Depth(t, j) = 0 /\ Settled(u, j)
    BY <1>1, <1>4, <2>1, <2>2, <2>4, Zenon DEF ClosedSites, Settled
  <2>6. j \in ClosedSites(t) <=> Opens(t, j) /\ Depth(t, j) = 0 /\ Settled(t, j)
    BY <1>1, Zenon DEF ClosedSites, Settled
  <2>7. ASSUME Len(o) >= 1, j = o[Len(o)] PROVE Opens(t, j) /\ Depth(t, j) = Len(o) - 1
    <3>1. Len(o) \in 1 .. Len(o)
      BY <1>1, <2>7
    <3> QED BY <2>7, <3>1, Zenon DEF Opened, OpenAt
  <2>8. Len(o) >= 1 => (Len(o) - 1 = 0 <=> Len(o) = 1)
    BY <1>1
  <2>9. Len(o) = 1 => Len(o) >= 1
    BY <1>1
  <2> QED BY <2>3, <2>5, <2>6, <2>7, <2>8, <2>9, Zenon
<1>6. \A j \in ClosedSites(u) : j \in 1 .. Len(t)
  BY <1>1, <1>2, <1>3, Zenon DEF ClosedSites
<1>7. \A j \in ClosedSites(t) : j \in 1 .. Len(t)
  BY <1>1, Zenon DEF ClosedSites
<1>8. Len(o) = 1 => o[1] \in 1 .. Len(t)
  <2>1. Len(o) = 1 => 1 \in 1 .. Len(o)
    BY <1>1
  <2> QED BY <2>1, Zenon DEF Opened, OpenAt
<1> QED BY <1>5, <1>6, <1>7, <1>8, Zenon

\* The sites do not change without a closing brace for one.
LEMMA SitesStay ==
  ASSUME NEW t, NEW u, NEW ln, Longer(u, t, ln), NEW o, Opened(t, o), ~(ln.shape = "close" /\ Len(o) = 1)
  PROVE  SpelledSites(u) = SpelledSites(t)
<1>1. ClosedSites(u) = ClosedSites(t)
  BY ClosedSitesNext
<1>2. \A i \in ClosedSites(t) : WrittenSite(u, i) = WrittenSite(t, i)
  <2>1. \A i \in ClosedSites(t) : i \in 1 .. Len(t) /\ ClosersOf(t, i) # {}
    BY Zenon DEF ClosedSites, Longer
  <2> QED BY <2>1, SiteStays
<1> QED BY <1>1, <1>2, Zenon DEF SpelledSites

\* With one, the site it closes is added.
LEMMA SitesGain ==
  ASSUME NEW t, NEW u, NEW ln, Longer(u, t, ln), NEW o, Opened(t, o), ln.shape = "close", Len(o) = 1
  PROVE  SpelledSites(u) = SpelledSites(t) \cup
           {[address |-> t[o[1]].word, directives |-> ListAt(t, o[1], 1), tls |-> WrittenTls(t, o[1])]}
<1>1. ClosedSites(u) = ClosedSites(t) \cup {o[1]}
  BY ClosedSitesNext
<1>2. \A i \in ClosedSites(t) : WrittenSite(u, i) = WrittenSite(t, i)
  <2>1. \A i \in ClosedSites(t) : i \in 1 .. Len(t) /\ ClosersOf(t, i) # {}
    BY Zenon DEF ClosedSites, Longer
  <2> QED BY <2>1, SiteStays
<1>3. PICK i : i = o[1]
  BY Zenon
<1>4. 1 \in 1 .. Len(o) /\ Len(o) >= 1 /\ ~(Len(o) >= 2)
  OBVIOUS
<1>5. i \in 1 .. Len(t) /\ u[i] = t[i]
  BY <1>3, <1>4, Zenon DEF Opened, OpenAt, Longer
<1>6. Inside(u, i) = Inside(t, i)
  <2>1. Receives(u, t, ln, o, 1)
    BY <1>4, OpenKept, Zenon
  <2>2. "close" \notin {"open", "plain"}
    OBVIOUS
  <2> QED BY <1>3, <2>1, <2>2, Zenon DEF Receives
<1>7. BlockKept(u, t, i)
  BY <1>5, <1>6, SettingsKept, Zenon
<1>8. TlsLines(u, i) = TlsLines(t, i) /\ WrittenTls(u, i) = WrittenTls(t, i)
  BY <1>7, Zenon DEF BlockKept
<1>9. PICK S : S = {j \in Inside(t, o[Len(o)]) : Len(o) = 1 => j \notin TlsLines(t, o[Len(o)])}
  BY Zenon
<1>10. ListAt(t, o[Len(o)], Len(o)) = Listed(Written(u), S)
  BY <1>4, <1>9, InnermostList
<1>11. S = Inside(u, i) \ TlsLines(u, i)
  BY <1>3, <1>6, <1>8, <1>9, Zenon
<1>12. ListAt(t, i, 1) = Listed(Written(u), Inside(u, i) \ TlsLines(u, i))
  BY <1>3, <1>10, <1>11, Zenon
<1>13. WrittenSite(u, i) = [address |-> t[i].word, directives |-> ListAt(t, i, 1), tls |-> WrittenTls(t, i)]
  BY <1>5, <1>8, <1>12, Zenon DEF WrittenSite
<1>14. SpelledSites(u) = SpelledSites(t) \cup {WrittenSite(u, i)}
  <2>1. ClosedSites(u) = ClosedSites(t) \cup {i}
    BY <1>1, <1>3, Zenon
  <2>2. SpelledSites(u) = {WrittenSite(u, j) : j \in ClosedSites(t)} \cup {WrittenSite(u, i)}
    BY <2>1, Zenon DEF SpelledSites
  <2>3. {WrittenSite(u, j) : j \in ClosedSites(t)} = SpelledSites(t)
    BY <1>2, Zenon DEF SpelledSites
  <2> QED BY <2>2, <2>3, Zenon
<1> QED BY <1>3, <1>13, <1>14, Zenon

-----------------------------------------------------------------------------
(* The stacks and the text                                                 *)

\* The site that is open: its address, and its tls setting.
SiteSpelled(t, o, addr, tls) ==
  /\ Len(o) = 0 => addr = None /\ tls = None
  /\ Len(o) >= 1 => /\ addr = t[o[1]].word /\ tls = WrittenTls(t, o[1])
                    /\ tls = None <=> TlsLines(t, o[1]) = {}

\* The stack of lists.
ListsSpelled(t, o, ds) ==
  /\ Len(o) = 0 => ds = << << >> >>
  /\ Len(o) >= 1 => Len(ds) = Len(o)
  /\ \A k \in 1 .. Len(o) : ds[k] = ListAt(t, o[k], k)

\* The stack of blocks, which a site has no entry on.
BlocksSpelled(t, o, bs) ==
  /\ Len(o) = 0 => Len(bs) = 0
  /\ Len(o) >= 1 => Len(bs) = Len(o) - 1
  /\ \A k \in 2 .. Len(o) : BlockFits(t, o[k], bs[k - 1])

\* PushTo adds to the last list.
LEMMA PushAt ==
  ASSUME NEW s, IsSeq(s), Len(s) >= 1, NEW d
  PROVE  /\ Len(PushTo(s, d)) = Len(s) /\ Len(s) \in Nat
         /\ PushTo(s, d)[Len(s)] = Append(s[Len(s)], d)
         /\ \A i \in 1 .. Len(s) - 1 : PushTo(s, d)[i] = s[i]
<1>1. PICK e : e = Append(Last(s), d) /\ Last(s) = s[Len(s)]
  BY DEF Last
<1>2. PICK f : f = Front(s)
  BY Zenon
<1>3. IsSeq(f) /\ Len(f) = Len(s) - 1 /\ Len(s) \in Nat /\ \A i \in 1 .. Len(s) - 1 : f[i] = s[i]
  BY <1>2, FrontFacts
<1>4. PICK S : f \in Seq(S) /\ e \in S
  <2>1. f \in Seq(ToSet(f) \cup {e})
    BY <1>3, SeqMonotonic DEF IsSeq
  <2> QED BY <2>1
<1>5. PushTo(s, d) = f \o <<e>>
  BY <1>1, <1>2, Zenon DEF PushTo
<1>6. /\ Len(f \o <<e>>) = Len(f) + 1 /\ (f \o <<e>>)[Len(f) + 1] = e
      /\ \A i \in 1 .. Len(f) : (f \o <<e>>)[i] = f[i]
  BY <1>4
<1>7. Len(f) + 1 = Len(s)
  BY <1>3
<1>8. (f \o <<e>>)[Len(s)] = e /\ Len(f \o <<e>>) = Len(s)
  BY <1>6, <1>7, Zenon
<1>9. \A i \in 1 .. Len(s) - 1 : (f \o <<e>>)[i] = s[i]
  BY <1>3, <1>6, Zenon
<1> QED BY <1>1, <1>3, <1>5, <1>8, <1>9, Zenon

\* A line that is none of the directives of the innermost block.
LEMMA ListsStay ==
  ASSUME NEW t, NEW u, NEW ln, Longer(u, t, ln), NEW o, Opened(t, o), WellNested(t), ln.shape # "close",
         Len(o) >= 1 => Len(t) + 1 \notin Members(u, o[Len(o)], Len(o)), NEW ds, ListsSpelled(t, o, ds)
  PROVE  ListsSpelled(u, o, ds)
<1>1. ASSUME NEW k \in 1 .. Len(o) PROVE ds[k] = ListAt(u, o[k], k)
  <2>1. ds[k] = ListAt(t, o[k], k)
    BY Zenon DEF ListsSpelled
  <2>2. Len(o) >= 1
    BY DEF Opened
  <2>3. Len(t) + 1 \notin Members(u, o[k], k)
    <3>1. CASE k = Len(o)
      BY <2>2, <3>1, Zenon
    <3>2. CASE k # Len(o)
      BY <3>2, MemberNew, Zenon
    <3> QED BY <3>1, <3>2
  <2>4. ListAt(u, o[k], k) = ListAt(t, o[k], k)
    BY <2>3, ListKept
  <2> QED BY <2>1, <2>4, Zenon
<1> QED BY <1>1, Zenon DEF ListsSpelled

\* A directive of the innermost block.
LEMMA ListsTake ==
  ASSUME NEW t, NEW u, NEW ln, Longer(u, t, ln), NEW o, Opened(t, o), WellNested(t), ln.shape # "close",
         Len(o) >= 1, Len(t) + 1 \in Members(u, o[Len(o)], Len(o)),
         NEW ds, IsSeq(ds), ListsSpelled(t, o, ds)
  PROVE  ListsSpelled(u, o, PushTo(ds, Written(u)[Len(t) + 1]))
<1>1. PICK e, x, d : e = PushTo(ds, x) /\ x = Written(u)[Len(t) + 1] /\ d = Len(o)
  BY Zenon
<1>2. Len(ds) = d /\ d \in Nat /\ d >= 1 /\ d \in 1 .. d /\ d # 0
  BY <1>1 DEF ListsSpelled, Opened
<1>3. Len(e) = d /\ e[d] = Append(ds[d], x) /\ \A k \in 1 .. d - 1 : e[k] = ds[k]
  <2>1. /\ Len(PushTo(ds, x)) = Len(ds) /\ PushTo(ds, x)[Len(ds)] = Append(ds[Len(ds)], x)
        /\ \A i \in 1 .. Len(ds) - 1 : PushTo(ds, x)[i] = ds[i]
    BY <1>2, PushAt
  <2> QED BY <1>1, <1>2, <2>1, Zenon
<1>4. \A k \in 1 .. d : ds[k] = ListAt(t, o[k], k)
  BY <1>1, Zenon DEF ListsSpelled
<1>5. ASSUME NEW k \in 1 .. d PROVE e[k] = ListAt(u, o[k], k)
  <2>1. CASE k = d
    <3>1. ListGains(u, t, o[Len(o)], Len(o), Len(t) + 1)
      BY ListTakes, Zenon
    <3>2. ListAt(u, o[d], d) = Append(ListAt(t, o[d], d), x)
      BY <1>1, <3>1, Zenon DEF ListGains
    <3> QED BY <1>2, <1>3, <1>4, <2>1, <3>2, Zenon
  <2>2. CASE k # d
    <3>1. k \in 1 .. d - 1
      BY <1>2, <2>2
    <3>2. k \in 1 .. Len(o)
      BY <1>1, Zenon
    <3>3. Len(t) + 1 \notin Members(u, o[k], k)
      <4>1. Len(t) + 1 \in Members(u, o[k], k) <=>
              /\ ln.shape = "plain" /\ k = Len(o)
              /\ k = 1 => ln.word # "tls"
              /\ k >= 2 => t[o[k]].word \notin SettingsBlocks
        BY <3>2, MemberNew
      <4> QED BY <1>1, <2>2, <4>1, Zenon
    <3>4. ListAt(u, o[k], k) = ListAt(t, o[k], k)
      BY <3>2, <3>3, ListKept
    <3> QED BY <1>3, <1>4, <3>1, <3>4, Zenon
  <2> QED BY <2>1, <2>2
<1>6. ListsSpelled(u, o, e)
  BY <1>1, <1>2, <1>3, <1>5, Zenon DEF ListsSpelled
<1> QED BY <1>1, <1>6, Zenon

\* A line that opens a block.
LEMMA ListsOpen ==
  ASSUME NEW t, NEW u, NEW ln, Longer(u, t, ln), NEW o, Opened(t, o), WellNested(t), ln.shape = "open",
         NEW ds, IsSeq(ds), ListsSpelled(t, o, ds), NEW e, e = IF Len(o) = 0 THEN ds ELSE Append(ds, << >>)
  PROVE  ListsSpelled(u, Append(o, Len(t) + 1), e)
<1>1. PICK p, m, d : p = Append(o, m) /\ m = Len(t) + 1 /\ d = Len(o)
  BY Zenon
<1>2. o \in Seq(Nat) /\ m \in Nat /\ d \in Nat
  BY <1>1 DEF Opened
<1>3. /\ Len(p) = d + 1 /\ p[d + 1] = m /\ (\A k \in 1 .. d : p[k] = o[k]) /\ Len(p) # 0
      /\ \A k \in 1 .. Len(p) : k \in 1 .. d \/ k = d + 1
  BY <1>1, <1>2
<1>4. ListAt(u, m, d + 1) = << >>
  BY <1>1, ListFresh, Zenon
<1>5. ASSUME NEW k \in 1 .. d PROVE ListAt(u, o[k], k) = ds[k]
  <2>1. k \in 1 .. Len(o)
    BY <1>1, Zenon
  <2>2. Len(t) + 1 \notin Members(u, o[k], k)
    <3>1. ln.shape # "plain"
      OBVIOUS
    <3> QED BY <2>1, <3>1, MemberNew, Zenon
  <2>3. ln.shape # "close"
    OBVIOUS
  <2>4. ListAt(u, o[k], k) = ListAt(t, o[k], k)
    BY <2>1, <2>2, <2>3, ListKept
  <2> QED BY <2>1, <2>4, Zenon DEF ListsSpelled
<1>6. Len(e) = d + 1 /\ e[d + 1] = << >> /\ \A k \in 1 .. d : e[k] = ds[k]
  <2>1. CASE d = 0
    <3>1. e = << << >> >>
      BY <1>1, <2>1, Zenon DEF ListsSpelled
    <3> QED BY <2>1, <3>1
  <2>2. CASE d # 0
    <3>1. d >= 1
      BY <1>2, <2>2
    <3>2. Len(ds) = d
      BY <1>1, <3>1, Zenon DEF ListsSpelled
    <3>3. e = Append(ds, << >>)
      BY <1>1, <2>2, Zenon
    <3>4. /\ Len(Append(ds, << >>)) = Len(ds) + 1 /\ Append(ds, << >>)[Len(ds) + 1] = << >>
          /\ \A i \in 1 .. Len(ds) : Append(ds, << >>)[i] = ds[i]
      BY AppendFacts
    <3> QED BY <3>2, <3>3, <3>4, Zenon
  <2> QED BY <2>1, <2>2
<1>7. \A k \in 1 .. Len(p) : e[k] = ListAt(u, p[k], k)
  BY <1>3, <1>4, <1>5, <1>6, Zenon
<1>8. ListsSpelled(u, p, e)
  BY <1>3, <1>6, <1>7, Zenon DEF ListsSpelled
<1> QED BY <1>1, <1>8, Zenon

\* A line that closes a block of a site.
LEMMA ListsClose ==
  ASSUME NEW t, NEW u, NEW ln, Longer(u, t, ln), NEW o, Opened(t, o), WellNested(t), ln.shape = "close",
         Len(o) >= 2, NEW ds, IsSeq(ds), ListsSpelled(t, o, ds)
  PROVE  ListsSpelled(u, SubSeq(o, 1, Len(o) - 1), PushTo(Front(ds), Written(u)[o[Len(o)]]))
<1>1. PICK p, d, f, x, e : p = SubSeq(o, 1, d - 1) /\ d = Len(o) /\ f = Front(ds) /\ x = Written(u)[o[d]] /\ e = PushTo(f, x)
  BY Zenon
<1>2. o \in Seq(Nat) /\ d \in Nat /\ d >= 2 /\ Len(ds) = d /\ d >= 1
  BY <1>1 DEF Opened, ListsSpelled
<1>3. /\ Len(p) = d - 1 /\ (\A k \in 1 .. d - 1 : p[k] = o[k] /\ k \in 1 .. d) /\ Len(p) # 0
      /\ d - 1 \in 1 .. d - 1 /\ (d - 1) + 1 = d
  BY <1>1, <1>2
<1>4. IsSeq(f) /\ Len(f) = d - 1 /\ \A k \in 1 .. d - 1 : f[k] = ds[k]
  BY <1>1, <1>2, FrontFacts
<1>5. Len(e) = d - 1 /\ e[d - 1] = Append(f[d - 1], x) /\ \A k \in 1 .. (d - 1) - 1 : e[k] = f[k]
  <2>1. Len(f) >= 1
    BY <1>2, <1>4
  <2>2. /\ Len(PushTo(f, x)) = Len(f) /\ PushTo(f, x)[Len(f)] = Append(f[Len(f)], x)
        /\ \A i \in 1 .. Len(f) - 1 : PushTo(f, x)[i] = f[i]
    BY <1>4, <2>1, PushAt
  <2> QED BY <1>1, <1>4, <2>2, Zenon
<1>6. \A k \in 1 .. d : ds[k] = ListAt(t, o[k], k)
  BY <1>1, Zenon DEF ListsSpelled
<1>7. ASSUME NEW k \in 1 .. d - 1 PROVE e[k] = ListAt(u, o[k], k)
  <2>1. CASE k = d - 1
    <3>1. ListGains(u, t, o[Len(o) - 1], Len(o) - 1, o[Len(o)])
      BY ListCloses, Zenon
    <3>2. ListAt(u, o[d - 1], d - 1) = Append(ListAt(t, o[d - 1], d - 1), x)
      BY <1>1, <3>1, Zenon DEF ListGains
    <3> QED BY <1>3, <1>4, <1>5, <1>6, <2>1, <3>2, Zenon
  <2>2. CASE k # d - 1
    <3>1. k \in 1 .. (d - 1) - 1 /\ k + 1 # d
      BY <1>2, <2>2
    <3>2. k \in 1 .. Len(o) /\ k + 1 # Len(o)
      BY <1>1, <1>3, <3>1, Zenon
    <3>3. Len(t) + 1 \notin Members(u, o[k], k)
      <4>1. ln.shape # "plain"
        OBVIOUS
      <4> QED BY <3>2, <4>1, MemberNew, Zenon
    <3>4. ListAt(u, o[k], k) = ListAt(t, o[k], k)
      BY <3>2, <3>3, ListKept
    <3> QED BY <1>3, <1>4, <1>5, <1>6, <3>1, <3>4, Zenon
  <2> QED BY <2>1, <2>2
<1>8. ListsSpelled(u, p, e)
  BY <1>3, <1>5, <1>7, Zenon DEF ListsSpelled
<1> QED BY <1>1, <1>8, Zenon

\* A block that gets no line, or needs none.
LEMMA BlockAtLevel ==
  ASSUME NEW t, NEW u, NEW ln, Longer(u, t, ln), NEW o, Opened(t, o), NEW k \in 1 .. Len(o), NEW b,
         BlockFits(t, o[k], b),
         \/ ln.shape \notin {"open", "plain"} \/ k # Len(o)
         \/ t[o[k]].word \notin SettingsBlocks
  PROVE  BlockFits(u, o[k], b)
<1>1. PICK i : i = o[k] /\ i \in 1 .. Len(t)
  BY Zenon DEF Opened, OpenAt
<1>2. Receives(u, t, ln, o, k)
  BY OpenKept, Zenon
<1>3. Inside(u, i) = Inside(t, i) \/ t[i].word \notin SettingsBlocks
  <2>1. CASE ln.shape \notin {"open", "plain"} \/ k # Len(o)
    <3>1. Inside(u, i) = Inside(t, i) \cup {}
      BY <1>1, <1>2, <2>1, Zenon DEF Receives
    <3> QED BY <3>1, Zenon
  <2>2. CASE t[o[k]].word \notin SettingsBlocks
    BY <1>1, <2>2, Zenon
  <2> QED BY <2>1, <2>2, Zenon
<1>4. BlockFits(u, i, b)
  BY <1>1, <1>3, BlockStays, Zenon
<1> QED BY <1>1, <1>4, Zenon

\* A line that opens and closes nothing, outside of the blocks of settings.
LEMMA BlocksStay ==
  ASSUME NEW t, NEW u, NEW ln, Longer(u, t, ln), NEW o, Opened(t, o), NEW bs, BlocksSpelled(t, o, bs),
         ln.shape \notin {"open", "plain"} \/ (Len(o) >= 2 => t[o[Len(o)]].word \notin SettingsBlocks)
  PROVE  BlocksSpelled(u, o, bs)
<1>1. ASSUME NEW k \in 2 .. Len(o) PROVE BlockFits(u, o[k], bs[k - 1])
  <2>1. k \in 1 .. Len(o) /\ Len(o) >= 2
    BY DEF Opened
  <2>2. BlockFits(t, o[k], bs[k - 1])
    BY Zenon DEF BlocksSpelled
  <2>3. ln.shape \notin {"open", "plain"} \/ k # Len(o) \/ t[o[k]].word \notin SettingsBlocks
    BY <2>1, Zenon
  <2> QED BY <2>1, <2>2, <2>3, BlockAtLevel, Zenon
<1> QED BY <1>1, Zenon DEF BlocksSpelled

\* A line that opens a block in a site.
LEMMA BlocksOpen ==
  ASSUME NEW t, NEW u, NEW ln, Longer(u, t, ln), NEW o, Opened(t, o), ln.shape = "open", Len(o) >= 1,
         Len(o) >= 2 => t[o[Len(o)]].word \notin SettingsBlocks,
         NEW bs, IsSeq(bs), BlocksSpelled(t, o, bs)
  PROVE  BlocksSpelled(u, Append(o, Len(t) + 1), Append(bs, Block(ln.word, ln.args)))
<1>1. PICK p, m, d, b, e : p = Append(o, m) /\ m = Len(t) + 1 /\ d = Len(o) /\ b = Block(ln.word, ln.args) /\ e = Append(bs, b)
  BY Zenon
<1>2. o \in Seq(Nat) /\ m \in Nat /\ d \in Nat /\ d >= 1 /\ Len(bs) = d - 1
  BY <1>1 DEF Opened, BlocksSpelled
<1>3. /\ Len(p) = d + 1 /\ p[d + 1] = m /\ (\A k \in 1 .. d : p[k] = o[k]) /\ Len(p) # 0
      /\ (\A k \in 2 .. Len(p) : k \in 2 .. d \/ k = d + 1) /\ (\A k \in 2 .. d : k \in 1 .. d)
      /\ (d - 1) + 1 = d /\ (d + 1) - 1 = d
  BY <1>1, <1>2
<1>4. Len(e) = d /\ e[d] = b /\ \A k \in 1 .. d - 1 : e[k] = bs[k]
  <2>1. /\ Len(Append(bs, b)) = Len(bs) + 1 /\ Append(bs, b)[Len(bs) + 1] = b
        /\ \A i \in 1 .. Len(bs) : Append(bs, b)[i] = bs[i]
    BY AppendFacts
  <2> QED BY <1>1, <1>2, <1>3, <2>1, Zenon
<1>5. ASSUME NEW k \in 2 .. Len(p) PROVE BlockFits(u, p[k], e[k - 1])
  <2>1. CASE k = d + 1
    <3>1. BlockFits(u, m, b)
      BY <1>1, BlockFresh, Zenon
    <3> QED BY <1>3, <1>4, <2>1, <3>1, Zenon
  <2>2. CASE k \in 2 .. d
    <3>1. k \in 1 .. Len(o) /\ k \in 2 .. Len(o)
      BY <1>1, <1>3, <2>2, Zenon
    <3>2. BlockFits(t, o[k], bs[k - 1])
      BY <3>1, Zenon DEF BlocksSpelled
    <3>3. k # Len(o) \/ t[o[k]].word \notin SettingsBlocks
      <4>1. k = Len(o) => Len(o) >= 2
        BY <2>2
      <4> QED BY <4>1, Zenon
    <3>4. BlockFits(u, o[k], bs[k - 1])
      BY <3>1, <3>2, <3>3, BlockAtLevel, Zenon
    <3>5. k - 1 \in 1 .. d - 1
      BY <1>2, <2>2
    <3> QED BY <1>3, <1>4, <2>2, <3>4, <3>5, Zenon
  <2> QED BY <1>3, <2>1, <2>2, Zenon
<1>6. BlocksSpelled(u, p, e)
  BY <1>3, <1>4, <1>5, Zenon DEF BlocksSpelled
<1> QED BY <1>1, <1>6, Zenon

\* A line that closes a block of a site.
LEMMA BlocksClose ==
  ASSUME NEW t, NEW u, NEW ln, Longer(u, t, ln), NEW o, Opened(t, o), ln.shape = "close", Len(o) >= 2,
         NEW bs, IsSeq(bs), BlocksSpelled(t, o, bs)
  PROVE  BlocksSpelled(u, SubSeq(o, 1, Len(o) - 1), Front(bs))
<1>1. PICK p, d, e : p = SubSeq(o, 1, d - 1) /\ d = Len(o) /\ e = Front(bs)
  BY Zenon
<1>2. o \in Seq(Nat) /\ d \in Nat /\ d >= 2 /\ Len(bs) = d - 1
  BY <1>1 DEF Opened, BlocksSpelled
<1>3. /\ Len(p) = d - 1 /\ (\A k \in 1 .. d - 1 : p[k] = o[k]) /\ Len(p) # 0 /\ Len(bs) >= 1
      /\ \A k \in 2 .. d - 1 : k \in 1 .. d - 1 /\ k \in 1 .. d /\ k \in 2 .. d /\ k - 1 \in 1 .. (d - 1) - 1
  <2>1. Len(p) = d - 1 /\ \A k \in 1 .. d - 1 : p[k] = o[k]
    BY <1>1, <1>2
  <2>2. d - 1 # 0 /\ d - 1 >= 1
    BY <1>2
  <2>3. \A k \in 2 .. d - 1 : k \in 1 .. d - 1 /\ k \in 1 .. d /\ k \in 2 .. d /\ k - 1 \in 1 .. (d - 1) - 1
    BY <1>2
  <2> QED BY <1>2, <2>1, <2>2, <2>3, Zenon
<1>4. Len(e) = (d - 1) - 1 /\ \A k \in 1 .. (d - 1) - 1 : e[k] = bs[k]
  BY <1>1, <1>2, <1>3, FrontFacts
<1>5. ASSUME NEW k \in 2 .. d - 1 PROVE BlockFits(u, p[k], e[k - 1])
  <2>1. k \in 1 .. Len(o) /\ k \in 2 .. Len(o)
    BY <1>1, <1>3, Zenon
  <2>2. BlockFits(t, o[k], bs[k - 1])
    BY <2>1, Zenon DEF BlocksSpelled
  <2>3. ln.shape \notin {"open", "plain"}
    OBVIOUS
  <2>4. BlockFits(u, o[k], bs[k - 1])
    BY <2>1, <2>2, <2>3, BlockAtLevel, Zenon
  <2> QED BY <1>3, <1>4, <2>4, Zenon
<1>6. BlocksSpelled(u, p, e)
  BY <1>3, <1>4, <1>5, Zenon DEF BlocksSpelled
<1> QED BY <1>1, <1>6, Zenon

\* A line in a block of settings.
LEMMA BlocksSet ==
  ASSUME NEW t, NEW u, NEW ln, Longer(u, t, ln), NEW o, Opened(t, o), ln.shape = "plain", Len(o) >= 2,
         DurationsFit(u), NEW V, NEW bs, IsSeq(bs), BlocksSpelled(t, o, bs),
         OpenBlockOf(V, bs[Len(bs)]), bs[Len(bs)].directive_type \in SettingsBlocks,
         NEW c \in WithSetting(bs[Len(bs)], ln)
  PROVE  BlocksSpelled(u, o, Append(Front(bs), c))
<1>1. PICK d, f, e : d = Len(o) /\ f = Front(bs) /\ e = Append(f, c)
  BY Zenon
<1>2. o \in Seq(Nat) /\ d \in Nat /\ d >= 2 /\ d >= 1 /\ Len(bs) = d - 1 /\ Len(bs) >= 1 /\ d # 0
  BY <1>1 DEF Opened, BlocksSpelled
<1>3. /\ d \in 2 .. d /\ ((d - 1) - 1) + 1 = d - 1
      /\ \A k \in 2 .. d : k # d => k - 1 \in 1 .. (d - 1) - 1 /\ k \in 1 .. d
  BY <1>2
<1>4. IsSeq(f) /\ Len(f) = (d - 1) - 1 /\ \A k \in 1 .. (d - 1) - 1 : f[k] = bs[k]
  BY <1>1, <1>2, FrontFacts
<1>5. Len(e) = d - 1 /\ e[d - 1] = c /\ \A k \in 1 .. (d - 1) - 1 : e[k] = f[k]
  <2>1. /\ Len(Append(f, c)) = Len(f) + 1 /\ Append(f, c)[Len(f) + 1] = c
        /\ \A i \in 1 .. Len(f) : Append(f, c)[i] = f[i]
    BY <1>4, AppendFacts
  <2> QED BY <1>1, <1>3, <1>4, <2>1, Zenon
<1>6. BlockFits(u, o[d], c)
  <2>1. PICK b : b = bs[Len(bs)]
    BY Zenon
  <2>2. BlockFits(t, o[Len(o)], b)
    <3>1. Len(o) \in 2 .. Len(o) /\ Len(bs) = Len(o) - 1
      BY <1>1, <1>2, <1>3, Zenon
    <3> QED BY <2>1, <3>1, Zenon DEF BlocksSpelled
  <2>3. Len(o) >= 1
    BY <1>1, <1>2, Zenon
  <2>4. BlockFits(u, o[Len(o)], c)
    BY <2>1, <2>2, <2>3, BlockSet, Zenon
  <2> QED BY <1>1, <2>4, Zenon
<1>7. ASSUME NEW k \in 2 .. d PROVE BlockFits(u, o[k], e[k - 1])
  <2>1. CASE k = d
    BY <1>5, <1>6, <2>1, Zenon
  <2>2. CASE k # d
    <3>1. k \in 1 .. Len(o) /\ k \in 2 .. Len(o) /\ k # Len(o)
      BY <1>1, <1>3, <2>2, Zenon
    <3>2. BlockFits(t, o[k], bs[k - 1])
      BY <3>1, Zenon DEF BlocksSpelled
    <3>3. BlockFits(u, o[k], bs[k - 1])
      BY <3>1, <3>2, BlockAtLevel, Zenon
    <3> QED BY <1>3, <1>4, <1>5, <2>2, <3>3, Zenon
  <2> QED BY <2>1, <2>2
<1>8. BlocksSpelled(u, o, e)
  BY <1>1, <1>2, <1>5, <1>7, Zenon DEF BlocksSpelled
<1> QED BY <1>1, <1>8, Zenon

\* The open site, with a line that is not its tls line.
LEMMA SiteOpenStays ==
  ASSUME NEW t, NEW u, NEW ln, Longer(u, t, ln), NEW o, Opened(t, o), Len(o) >= 1, NEW addr, NEW tls,
         SiteSpelled(t, o, addr, tls), ~(Len(o) = 1 /\ ln.shape = "plain" /\ ln.word = "tls"),
         NEW p, Len(p) >= 1, p[1] = o[1]
  PROVE  SiteSpelled(u, p, addr, tls)
<1>1. PICK i : i = o[1] /\ i \in 1 .. Len(t)
  <2>1. 1 \in 1 .. Len(o)
    BY DEF Opened
  <2> QED BY <2>1, Zenon DEF Opened, OpenAt
<1>2. u[i] = t[i]
  BY <1>1, Zenon DEF Longer
<1>3. TlsLines(u, i) = TlsLines(t, i) /\ TlsLines(t, i) \in SUBSET (1 .. Len(t))
  <2>1. TlsGains(u, t, o, ln)
    BY TlsNext, Zenon
  <2> QED BY <1>1, <2>1, Zenon DEF TlsGains
<1>4. WrittenTls(u, i) = WrittenTls(t, i)
  BY <1>3, TlsKept
<1>5. addr = t[i].word /\ tls = WrittenTls(t, i) /\ (tls = None <=> TlsLines(t, i) = {})
  BY <1>1, Zenon DEF SiteSpelled
<1>6. Len(p) # 0
  OBVIOUS
<1> QED BY <1>1, <1>2, <1>3, <1>4, <1>5, <1>6, Zenon DEF SiteSpelled

\* The tls line.
LEMMA SiteTls ==
  ASSUME NEW t, NEW u, NEW ln, Longer(u, t, ln), NEW o, Opened(t, o), Len(o) = 1, NEW addr,
         SiteSpelled(t, o, addr, None), ln.shape = "plain", ln.word = "tls",
         <<ln.args[1], ln.args[2]>> # None
  PROVE  SiteSpelled(u, o, addr, <<ln.args[1], ln.args[2]>>)
<1>1. PICK i : i = o[1] /\ i \in 1 .. Len(t)
  <2>1. 1 \in 1 .. Len(o)
    OBVIOUS
  <2> QED BY <2>1, Zenon DEF Opened, OpenAt
<1>2. u[i] = t[i] /\ u[Len(t) + 1] = ln
  BY <1>1, Zenon DEF Longer
<1>3. Len(o) >= 1 /\ Len(o) # 0
  OBVIOUS
<1>4. TlsLines(t, i) = {} /\ addr = t[i].word
  BY <1>1, <1>3, Zenon DEF SiteSpelled
<1>5. TlsLines(u, i) = {Len(t) + 1}
  <2>1. TlsLines(u, i) = TlsLines(t, i) \cup {Len(t) + 1}
    <3>1. TlsGains(u, t, o, ln)
      BY <1>3, TlsNext, Zenon
    <3> QED BY <1>1, <3>1, Zenon DEF TlsGains
  <2> QED BY <1>4, <2>1, Zenon
<1>6. (CHOOSE j \in TlsLines(u, i) : TRUE) = Len(t) + 1
  BY <1>5, Zenon
<1>7. WrittenTls(u, i) = <<ln.args[1], ln.args[2]>>
  BY <1>2, <1>5, <1>6, Zenon DEF WrittenTls
<1>8. TlsLines(u, i) # {}
  BY <1>5, Zenon
<1> QED BY <1>1, <1>2, <1>3, <1>4, <1>7, <1>8, Zenon DEF SiteSpelled

\* A line that opens a site.
LEMMA SiteOpens ==
  ASSUME NEW t, NEW u, NEW ln, Longer(u, t, ln), NEW p, Len(p) = 1, p[1] = Len(t) + 1
  PROVE  SiteSpelled(u, p, ln.word, None)
<1>1. u[Len(t) + 1] = ln
  BY Zenon DEF Longer
<1>2. Inside(u, Len(t) + 1) = {}
  BY NothingYet, Zenon
<1>3. TlsLines(u, Len(t) + 1) = {}
  BY <1>2, Zenon DEF TlsLines
<1>4. WrittenTls(u, Len(t) + 1) = None
  BY <1>3, Zenon DEF WrittenTls
<1>5. Len(p) # 0
  OBVIOUS
<1> QED BY <1>1, <1>3, <1>4, <1>5, Zenon DEF SiteSpelled

\* A directive of one line is parsed in one way.
LEMMA DirectiveArgsOne ==
  ASSUME NEW name, NEW args, NEW x \in DirectiveArgs(name, args), NEW y \in DirectiveArgs(name, args)
  PROVE  x = y
<1> SUFFICES DirectiveArgs(name, args) = {} \/ \E e : DirectiveArgs(name, args) = {e}
  <2>1. DirectiveArgs(name, args) # {}
    BY Zenon
  <2>2. ASSUME NEW e, DirectiveArgs(name, args) = {e} PROVE x = e /\ y = e
    BY <2>2, Zenon
  <2> QED BY <2>1, <2>2, Zenon
<1>1. CASE name = "reverse_proxy"
  <2>1. CASE Len(args) >= 1
    <3>1. DirectiveArgs("reverse_proxy", args) = {<<args[1]>>}
      BY <2>1 DEF DirectiveArgs
    <3> QED BY <1>1, <3>1, Zenon
  <2>2. CASE ~(Len(args) >= 1)
    <3>1. DirectiveArgs("reverse_proxy", args) = {}
      BY <2>2 DEF DirectiveArgs
    <3> QED BY <1>1, <3>1, Zenon
  <2> QED BY <2>1, <2>2
<1>2. CASE name = "strip_prefix"
  <2>1. CASE Len(args) >= 1
    <3>1. DirectiveArgs("strip_prefix", args) = {<<args[1]>>}
      BY <2>1 DEF DirectiveArgs
    <3> QED BY <1>2, <3>1, Zenon
  <2>2. CASE ~(Len(args) >= 1)
    <3>1. DirectiveArgs("strip_prefix", args) = {}
      BY <2>2 DEF DirectiveArgs
    <3> QED BY <1>2, <3>1, Zenon
  <2> QED BY <2>1, <2>2
<1>3. CASE name = "uri_replace"
  <2>1. CASE Len(args) >= 2
    <3>1. DirectiveArgs("uri_replace", args) = {<<args[1], args[2]>>}
      BY <2>1 DEF DirectiveArgs
    <3> QED BY <1>3, <3>1, Zenon
  <2>2. CASE ~(Len(args) >= 2)
    <3>1. DirectiveArgs("uri_replace", args) = {}
      BY <2>2 DEF DirectiveArgs
    <3> QED BY <1>3, <3>1, Zenon
  <2> QED BY <2>1, <2>2
<1>4. CASE name = "header"
  <2>1. CASE Len(args) >= 1
    <3>1. DirectiveArgs("header", args) = IF args[1] \in DOMAIN Minus THEN Removal(args)
                                          ELSE IF Len(args) = 1 THEN {} ELSE {<<args[1], args[2]>>}
      BY <2>1 DEF DirectiveArgs
    <3>2. Removal(args) = {} \/ \E e : Removal(args) = {e}
      BY Zenon DEF Removal
    <3>3. CASE args[1] \in DOMAIN Minus
      BY <1>4, <3>1, <3>2, <3>3, Zenon
    <3>4. CASE args[1] \notin DOMAIN Minus /\ Len(args) = 1
      BY <1>4, <3>1, <3>4, Zenon
    <3>5. CASE args[1] \notin DOMAIN Minus /\ Len(args) # 1
      BY <1>4, <3>1, <3>5, Zenon
    <3> QED BY <3>3, <3>4, <3>5
  <2>2. CASE ~(Len(args) >= 1)
    <3>1. DirectiveArgs("header", args) = {}
      BY <2>2 DEF DirectiveArgs
    <3> QED BY <1>4, <3>1, Zenon
  <2> QED BY <2>1, <2>2
<1>5. CASE name = "respond"
  <2>1. CASE Len(args) >= 1
    <3>1. DirectiveArgs("respond", args) = IF args[1] \notin Unsigned THEN {}
                                           ELSE {<<args[1], IF Len(args) = 1 THEN "" ELSE args[2]>>}
      BY <2>1 DEF DirectiveArgs
    <3>2. CASE args[1] \notin Unsigned
      BY <1>5, <3>1, <3>2, Zenon
    <3>3. CASE args[1] \in Unsigned
      BY <1>5, <3>1, <3>3, Zenon
    <3> QED BY <3>2, <3>3
  <2>2. CASE ~(Len(args) >= 1)
    <3>1. DirectiveArgs("respond", args) = {}
      BY <2>2 DEF DirectiveArgs
    <3> QED BY <1>5, <3>1, Zenon
  <2> QED BY <2>1, <2>2
<1>6. CASE name = "redirect"
  <2>1. CASE Len(args) = 1
    <3>1. ~(Len(args) >= 2)
      BY <2>1
    <3>2. DirectiveArgs("redirect", args) = {<<"301", args[1]>>}
      BY <2>1, <3>1, Zenon DEF DirectiveArgs
    <3> QED BY <1>6, <3>2, Zenon
  <2>2. CASE Len(args) # 1 /\ Len(args) >= 2
    <3>1. DirectiveArgs("redirect", args) = IF args[1] \in Unsigned THEN {args} ELSE {}
      BY <2>2, Zenon DEF DirectiveArgs
    <3> QED BY <1>6, <3>1, Zenon
  <2>3. CASE Len(args) # 1 /\ ~(Len(args) >= 2)
    <3>1. DirectiveArgs("redirect", args) = {}
      BY <2>3 DEF DirectiveArgs
    <3> QED BY <1>6, <3>1, Zenon
  <2> QED BY <2>1, <2>2, <2>3
<1>7. CASE name \notin {"reverse_proxy", "strip_prefix", "uri_replace", "header", "respond", "redirect"}
  BY <1>7, Zenon DEF DirectiveArgs
<1> QED BY <1>1, <1>2, <1>3, <1>4, <1>5, <1>6, <1>7, Zenon

\* What a directive of one line spells.
LEMMA WrittenLine ==
  ASSUME NEW t, NEW u, NEW ln, Longer(u, t, ln), ln.shape = "plain",
         NEW args \in DirectiveArgs(ln.word, ln.args)
  PROVE  Written(u)[Len(t) + 1] = Simple(ln.word, args)
<1>1. PICK m : m = Len(t) + 1
  BY Zenon
<1>2. u[m] = ln /\ m \in 1 .. Len(u) /\ Len(u) \in Nat
  BY <1>1 DEF Longer
<1>3. Written(u)[m] = WrittenAt(u, Written(u), m)
  BY <1>2, WrittenIs, Zenon
<1>4. PICK a : a = CHOOSE x \in DirectiveArgs(ln.word, ln.args) : TRUE
  BY Zenon
<1>5. a = args
  <2>1. a \in DirectiveArgs(ln.word, ln.args)
    BY <1>4, Zenon
  <2> QED BY <2>1, DirectiveArgsOne
<1>6. ~Opens(u, m)
  BY <1>2 DEF Opens
<1>7. WrittenAt(u, Written(u), m) = Simple(ln.word, a)
  BY <1>2, <1>4, <1>6, Zenon DEF WrittenAt
<1> QED BY <1>1, <1>3, <1>5, <1>7, Zenon

-----------------------------------------------------------------------------
(* The parser builds what the text spells                                  *)

\* What the parser holds is what it has read, o being the open lines.
Spelled(o) ==
  /\ Opened(text, o) /\ sites = SpelledSites(text)
  /\ SiteSpelled(text, o, current_site_address, current_site_tls)
  /\ ListsSpelled(text, o, directive_stack)
  /\ BlocksSpelled(text, o, block_stack)

\* The inductive invariant.
ParseInv ==
  result \in {"reading", "validating", "ok"} /\ WellNested(text) /\ DurationsFit(text) => \E o : Spelled(o)

\* The parser has d open braces, by its variables.
AtLevel(d) ==
  /\ d \in Nat /\ (current_site_address = None <=> d = 0)
  /\ d = 0 => Len(directive_stack) = 1 /\ Len(block_stack) = 0
  /\ d >= 1 => Len(directive_stack) = d /\ Len(block_stack) = d - 1
  /\ block_stack = << >> <=> Len(block_stack) = 0

\* It has as many as the text.
LEMMA Levels ==
  ASSUME StackInv, result = "reading", NEW o, Spelled(o)
  PROVE  AtLevel(Len(o))
<1>1. Len(o) \in Nat
  BY DEF Spelled, Opened
<1>2. CASE Len(o) = 0
  <2>1. current_site_address = None /\ directive_stack = << << >> >> /\ Len(block_stack) = 0
    BY <1>2, Zenon DEF Spelled, SiteSpelled, ListsSpelled, BlocksSpelled
  <2>2. Len(directive_stack) = 1
    BY <2>1
  <2>3. ~(Len(o) >= 1)
    BY <1>2
  <2> QED BY <1>1, <1>2, <2>1, <2>2, <2>3, WhileReading, Zenon DEF AtLevel
<1>3. CASE Len(o) # 0
  <2>1. Len(o) >= 1 /\ 1 \in 1 .. Len(o)
    BY <1>1, <1>3
  <2>2. Len(directive_stack) = Len(o) /\ Len(block_stack) = Len(o) - 1 /\ current_site_address = text[o[1]].word
    BY <2>1, Zenon DEF Spelled, SiteSpelled, ListsSpelled, BlocksSpelled
  <2>3. o[1] \in 1 .. Len(text)
    BY <2>1, Zenon DEF Spelled, Opened, OpenAt
  <2>4. vocabulary \in Vocabularies /\ text[o[1]] \in vocabulary
    BY <2>3 DEF StackInv, ReadingOK
  <2>5. text[o[1]].word # None
    BY <2>4, NoneAssumption, Zenon
  <2> QED BY <1>1, <1>3, <2>2, <2>5, WhileReading, Zenon DEF AtLevel
<1> QED BY <1>2, <1>3

\* The text before and after a line.
LEMMA LineRead ==
  ASSUME StackInv, ParseInv, NEW ln \in vocabulary, NEW shape, Read(ln, shape),
         WellNested(text'), DurationsFit(text')
  PROVE  /\ Longer(text', text, ln) /\ ln.shape = shape /\ result = "reading" /\ WellNested(text)
         /\ IsSeq(directive_stack) /\ IsSeq(block_stack)
         /\ \E o : Spelled(o)
<1>1. text \in Seq(vocabulary) /\ text' = Append(text, ln) /\ ln.shape = shape /\ result = "reading"
  BY DEF StackInv, ReadingOK, Read
<1>2. Longer(text', text, ln)
  BY <1>1, LongerIs
<1>3. WellNested(text) /\ DurationsFit(text)
  BY <1>2, NestedBefore, FitBefore, Zenon
<1>4. \E o : Spelled(o)
  BY <1>1, <1>3, Zenon DEF ParseInv
<1> QED BY <1>1, <1>2, <1>3, <1>4 DEF StackInv, StacksOK

\* A line that is skipped.
LEMMA ParseBlank ==
  ASSUME StackInv, ParseInv, NEW ln \in vocabulary, BlankLine(ln)
  PROVE  ParseInv'
<1> SUFFICES ASSUME WellNested(text'), DurationsFit(text') PROVE \E p : Spelled(p)'
  BY Zenon DEF ParseInv
<1>1. Read(ln, "blank") /\ UNCHANGED <<siteVars, directive_stack, block_stack>>
  BY DEF BlankLine
<1>2. /\ Longer(text', text, ln) /\ ln.shape = "blank" /\ result = "reading" /\ WellNested(text)
      /\ \E o : Spelled(o)
  BY <1>1, LineRead, Zenon
<1>3. PICK o : Spelled(o)
  BY <1>2, Zenon
<1>4. PICK t, u : t = text /\ u = text'
  BY Zenon
<1>5. /\ Longer(u, t, ln) /\ Opened(t, o) /\ WellNested(t) /\ sites = SpelledSites(t)
      /\ SiteSpelled(t, o, current_site_address, current_site_tls)
      /\ ListsSpelled(t, o, directive_stack) /\ BlocksSpelled(t, o, block_stack)
  BY <1>2, <1>3, <1>4, Zenon DEF Spelled
<1>6. ln.shape # "open" /\ ln.shape # "close" /\ ln.shape # "plain" /\ ln.shape \notin {"open", "plain"}
  BY <1>2
<1>7. Opened(u, o)
  BY <1>5, <1>6, OpenedPlain, Zenon
<1>8. SpelledSites(u) = SpelledSites(t)
  BY <1>5, <1>6, SitesStay
<1>9. SiteSpelled(u, o, current_site_address, current_site_tls)
  <2>1. CASE Len(o) = 0
    <3>1. ~(Len(o) >= 1)
      BY <2>1
    <3> QED BY <1>5, <2>1, <3>1, Zenon DEF SiteSpelled
  <2>2. CASE Len(o) # 0
    <3>1. Len(o) >= 1
      BY <1>5, <2>2 DEF Opened
    <3> QED BY <1>5, <1>6, <3>1, SiteOpenStays, Zenon
  <2> QED BY <2>1, <2>2
<1>10. ListsSpelled(u, o, directive_stack)
  <2>1. ASSUME Len(o) >= 1 PROVE Len(t) + 1 \notin Members(u, o[Len(o)], Len(o))
    <3>1. Len(o) \in 1 .. Len(o)
      BY <1>5, <2>1 DEF Opened
    <3> QED BY <1>5, <1>6, <3>1, MemberNew, Zenon
  <2> QED BY <1>5, <1>6, <2>1, ListsStay, Zenon
<1>11. BlocksSpelled(u, o, block_stack)
  BY <1>5, <1>6, BlocksStay, Zenon
<1>12. Spelled(o)'
  BY <1>1, <1>4, <1>5, <1>7, <1>8, <1>9, <1>10, <1>11 DEF Spelled, siteVars
<1> QED BY <1>12

\* A line that opens a site.
LEMMA ParseOpenSite ==
  ASSUME StackInv, ParseInv, NEW ln \in vocabulary, OpenSite(ln)
  PROVE  ParseInv'
<1> SUFFICES ASSUME WellNested(text'), DurationsFit(text') PROVE \E p : Spelled(p)'
  BY Zenon DEF ParseInv
<1>1. /\ Read(ln, "open") /\ current_site_address = None /\ current_site_address' = ln.word
      /\ UNCHANGED <<current_site_tls, sites, directive_stack, block_stack>>
  BY DEF OpenSite
<1>2. /\ Longer(text', text, ln) /\ ln.shape = "open" /\ result = "reading" /\ WellNested(text)
      /\ IsSeq(directive_stack) /\ \E o : Spelled(o)
  BY <1>1, LineRead, Zenon
<1>3. PICK o : Spelled(o)
  BY <1>2, Zenon
<1>4. PICK t, u : t = text /\ u = text'
  BY Zenon
<1>5. /\ Longer(u, t, ln) /\ Opened(t, o) /\ WellNested(t) /\ sites = SpelledSites(t)
      /\ SiteSpelled(t, o, current_site_address, current_site_tls)
      /\ ListsSpelled(t, o, directive_stack) /\ BlocksSpelled(t, o, block_stack)
  BY <1>2, <1>3, <1>4, Zenon DEF Spelled
<1>6. Len(o) = 0 /\ Len(block_stack) = 0
  BY <1>1, <1>2, <1>3, Levels, Zenon DEF AtLevel
<1>7. PICK p : p = Append(o, Len(t) + 1)
  BY Zenon
<1>8. Len(p) = 1 /\ p[1] = Len(t) + 1
  <2>1. o \in Seq(Nat) /\ Len(t) + 1 \in Nat
    BY <1>5 DEF Opened
  <2> QED BY <1>6, <1>7, <2>1
<1>9. Opened(u, p)
  BY <1>2, <1>5, <1>7, OpenedMore, Zenon
<1>10. SpelledSites(u) = SpelledSites(t)
  <2>1. ln.shape # "close"
    BY <1>2
  <2> QED BY <1>5, <2>1, SitesStay
<1>11. SiteSpelled(u, p, ln.word, None) /\ current_site_tls = None
  <2>1. SiteSpelled(u, p, ln.word, None)
    BY <1>5, <1>8, SiteOpens, Zenon
  <2>2. current_site_tls = None
    BY <1>5, <1>6, Zenon DEF SiteSpelled
  <2> QED BY <2>1, <2>2
<1>12. ListsSpelled(u, p, directive_stack)
  <2>1. directive_stack = IF Len(o) = 0 THEN directive_stack ELSE Append(directive_stack, << >>)
    BY <1>6, Zenon
  <2> QED BY <1>2, <1>5, <1>7, <2>1, ListsOpen, Zenon
<1>13. BlocksSpelled(u, p, block_stack)
  <2>1. Len(p) # 0 /\ Len(block_stack) = Len(p) - 1 /\ 2 .. Len(p) = {}
    BY <1>6, <1>8
  <2> QED BY <2>1, Zenon DEF BlocksSpelled
<1>14. Spelled(p)'
  BY <1>1, <1>4, <1>5, <1>9, <1>10, <1>11, <1>12, <1>13 DEF Spelled
<1> QED BY <1>14

\* A line that opens a block.
LEMMA ParseOpenBlock ==
  ASSUME StackInv, ParseInv, NEW ln \in vocabulary, OpenBlock(ln)
  PROVE  ParseInv'
<1> SUFFICES ASSUME WellNested(text'), DurationsFit(text') PROVE \E p : Spelled(p)'
  BY Zenon DEF ParseInv
<1>1. /\ Read(ln, "open") /\ (Len(directive_stack) > 1 \/ current_site_address # None)
      /\ block_stack' = Append(block_stack, Block(ln.word, ln.args))
      /\ directive_stack' = Append(directive_stack, << >>)
      /\ UNCHANGED siteVars
  BY DEF OpenBlock
<1>2. /\ Longer(text', text, ln) /\ ln.shape = "open" /\ result = "reading" /\ WellNested(text)
      /\ IsSeq(directive_stack) /\ IsSeq(block_stack) /\ \E o : Spelled(o)
  BY <1>1, LineRead, Zenon
<1>3. PICK o : Spelled(o)
  BY <1>2, Zenon
<1>4. PICK t, u : t = text /\ u = text'
  BY Zenon
<1>5. /\ Longer(u, t, ln) /\ Opened(t, o) /\ WellNested(t) /\ WellNested(u) /\ sites = SpelledSites(t)
      /\ SiteSpelled(t, o, current_site_address, current_site_tls)
      /\ ListsSpelled(t, o, directive_stack) /\ BlocksSpelled(t, o, block_stack)
  BY <1>2, <1>3, <1>4, Zenon DEF Spelled
<1>6. Len(o) \in Nat /\ Len(o) # 0 /\ Len(o) >= 1
  <2>1. Len(o) \in Nat /\ (current_site_address = None <=> Len(o) = 0) /\ (Len(o) = 0 => Len(directive_stack) = 1)
    BY <1>2, <1>3, Levels, Zenon DEF AtLevel
  <2>2. ~(1 > 1)
    OBVIOUS
  <2>3. Len(o) \in Nat /\ Len(o) # 0
    BY <1>1, <2>1, <2>2, Zenon
  <2>4. Len(o) >= 1
    BY <2>3
  <2> QED BY <2>3, <2>4
<1>7. PICK p : p = Append(o, Len(t) + 1)
  BY Zenon
<1>8. Len(p) >= 1 /\ p[1] = o[1]
  <2>1. o \in Seq(Nat) /\ Len(t) + 1 \in Nat
    BY <1>5 DEF Opened
  <2> QED BY <1>6, <1>7, <2>1
<1>9. Opened(u, p)
  BY <1>2, <1>5, <1>7, OpenedMore, Zenon
<1>10. ln.shape # "close" /\ ln.shape # "plain"
  BY <1>2
<1>11. SpelledSites(u) = SpelledSites(t)
  BY <1>5, <1>10, SitesStay
<1>12. SiteSpelled(u, p, current_site_address, current_site_tls)
  BY <1>5, <1>6, <1>8, <1>10, SiteOpenStays, Zenon
<1>13. ListsSpelled(u, p, directive_stack')
  <2>1. directive_stack' = IF Len(o) = 0 THEN directive_stack ELSE Append(directive_stack, << >>)
    BY <1>1, <1>6, Zenon
  <2> QED BY <1>2, <1>5, <1>7, <2>1, ListsOpen, Zenon
<1>14. BlocksSpelled(u, p, block_stack')
  <2>1. Len(o) >= 2 => t[o[Len(o)]].word \notin SettingsBlocks
    BY <1>2, <1>5, NestedLast, Zenon
  <2> QED BY <1>1, <1>2, <1>5, <1>6, <1>7, <2>1, BlocksOpen, Zenon
<1>15. Spelled(p)'
  BY <1>1, <1>4, <1>5, <1>9, <1>11, <1>12, <1>13, <1>14 DEF Spelled, siteVars
<1> QED BY <1>15

\* A line that closes a block.
LEMMA ParseCloseBlock ==
  ASSUME StackInv, ParseInv, NEW ln \in vocabulary, CloseBlock(ln)
  PROVE  ParseInv'
<1>1. CASE Fail("err")
  <2>1. result' \notin {"reading", "validating", "ok"}
    BY <1>1 DEF Fail
  <2> QED BY <2>1, Zenon DEF ParseInv
<1>2. CASE ~Fail("err")
  <2> SUFFICES ASSUME WellNested(text'), DurationsFit(text') PROVE \E p : Spelled(p)'
    BY Zenon DEF ParseInv
  <2>1. PICK directive \in CompleteBlock(Last(block_stack), Last(directive_stack)) :
          /\ Read(ln, "close") /\ Len(directive_stack) > 1
          /\ directive_stack' = PushTo(Front(directive_stack), directive)
          /\ block_stack' = Front(block_stack)
          /\ UNCHANGED siteVars
    BY <1>2 DEF CloseBlock
  <2>2. /\ Longer(text', text, ln) /\ ln.shape = "close" /\ result = "reading" /\ WellNested(text)
        /\ IsSeq(directive_stack) /\ IsSeq(block_stack) /\ \E o : Spelled(o)
    BY <2>1, LineRead, Zenon
  <2>3. PICK o : Spelled(o)
    BY <2>2, Zenon
  <2>4. PICK t, u : t = text /\ u = text'
    BY Zenon
  <2>5. /\ Longer(u, t, ln) /\ Opened(t, o) /\ WellNested(t) /\ sites = SpelledSites(t)
        /\ SiteSpelled(t, o, current_site_address, current_site_tls)
        /\ ListsSpelled(t, o, directive_stack) /\ BlocksSpelled(t, o, block_stack)
    BY <2>2, <2>3, <2>4, Zenon DEF Spelled
  <2>6. /\ Len(o) \in Nat /\ Len(o) >= 2 /\ Len(o) >= 1 /\ Len(directive_stack) = Len(o)
        /\ Len(block_stack) = Len(o) - 1
    <3>1. /\ Len(o) \in Nat /\ (Len(o) = 0 => Len(directive_stack) = 1)
          /\ (Len(o) >= 1 => Len(directive_stack) = Len(o) /\ Len(block_stack) = Len(o) - 1)
      BY <2>2, <2>3, Levels, Zenon DEF AtLevel
    <3>2. Len(directive_stack) > 1
      BY <2>1, Zenon
    <3>3. PICK d, a, b : d = Len(o) /\ a = Len(directive_stack) /\ b = Len(block_stack)
      BY Zenon
    <3>4. d \in Nat /\ (d = 0 => a = 1) /\ (d >= 1 => a = d /\ b = d - 1) /\ a > 1
      BY <3>1, <3>2, <3>3, Zenon
    <3>5. d >= 2 /\ d >= 1 /\ a = d /\ b = d - 1
      BY <3>4
    <3> QED BY <3>3, <3>4, <3>5, Zenon
  <2>7. PICK p : p = SubSeq(o, 1, Len(o) - 1)
    BY Zenon
  <2>8. Len(p) >= 1 /\ p[1] = o[1]
    <3>1. o \in Seq(Nat)
      BY <2>5 DEF Opened
    <3> QED BY <2>6, <2>7, <3>1
  <2>9. Opened(u, p)
    BY <2>2, <2>5, <2>6, <2>7, OpenedLess, Zenon
  <2>10. SpelledSites(u) = SpelledSites(t)
    <3>1. Len(o) # 1
      BY <2>6
    <3> QED BY <2>5, <3>1, SitesStay
  <2>11. SiteSpelled(u, p, current_site_address, current_site_tls)
    <3>1. Len(o) # 1
      BY <2>6
    <3> QED BY <2>5, <2>6, <2>8, <3>1, SiteOpenStays, Zenon
  <2>12. directive = Written(u)[o[Len(o)]]
    <3>1. Last(directive_stack) = directive_stack[Len(o)] /\ Last(block_stack) = block_stack[Len(o) - 1]
      BY <2>6, Zenon DEF Last
    <3>2. Len(o) \in 1 .. Len(o) /\ Len(o) \in 2 .. Len(o)
      BY <2>6
    <3>3. Last(directive_stack) = ListAt(t, o[Len(o)], Len(o)) /\ BlockFits(t, o[Len(o)], Last(block_stack))
      BY <2>5, <3>1, <3>2, Zenon DEF ListsSpelled, BlocksSpelled
    <3>4. PICK b : b = Last(block_stack)
      BY Zenon
    <3>5. BlockFits(t, o[Len(o)], b) /\ directive \in CompleteBlock(b, ListAt(t, o[Len(o)], Len(o)))
      BY <2>1, <3>3, <3>4, Zenon
    <3> QED BY <2>2, <2>5, <2>6, <3>5, CompleteIs
  <2>13. ListsSpelled(u, p, directive_stack')
    <3>1. ListsSpelled(u, SubSeq(o, 1, Len(o) - 1), PushTo(Front(directive_stack), Written(u)[o[Len(o)]]))
      BY <2>2, <2>5, <2>6, ListsClose, Zenon
    <3> QED BY <2>1, <2>7, <2>12, <3>1, Zenon
  <2>14. BlocksSpelled(u, p, block_stack')
    <3>1. BlocksSpelled(u, SubSeq(o, 1, Len(o) - 1), Front(block_stack))
      BY <2>2, <2>5, <2>6, BlocksClose, Zenon
    <3> QED BY <2>1, <2>7, <3>1, Zenon
  <2>15. Spelled(p)'
    BY <2>1, <2>4, <2>5, <2>9, <2>10, <2>11, <2>13, <2>14 DEF Spelled, siteVars
  <2> QED BY <2>15
<1> QED BY <1>1, <1>2

\* A line that closes a site.
LEMMA ParseCloseSite ==
  ASSUME StackInv, ParseInv, NEW ln \in vocabulary, CloseSite(ln)
  PROVE  ParseInv'
<1>1. CASE Fail("err")
  <2>1. result' \notin {"reading", "validating", "ok"}
    BY <1>1 DEF Fail
  <2> QED BY <2>1, Zenon DEF ParseInv
<1>2. CASE ~Fail("err")
  <2> SUFFICES ASSUME WellNested(text'), DurationsFit(text') PROVE \E p : Spelled(p)'
    BY Zenon DEF ParseInv
  <2>1. /\ Read(ln, "close") /\ Len(directive_stack) = 1 /\ current_site_address # None
        /\ sites' = sites \cup {SiteHere}
        /\ current_site_address' = None /\ current_site_tls' = None
        /\ directive_stack' = << << >> >> /\ block_stack' = block_stack
    BY <1>2 DEF CloseSite
  <2>2. /\ Longer(text', text, ln) /\ ln.shape = "close" /\ result = "reading" /\ \E o : Spelled(o)
    BY <2>1, LineRead, Zenon
  <2>3. PICK o : Spelled(o)
    BY <2>2, Zenon
  <2>4. PICK t, u : t = text /\ u = text'
    BY Zenon
  <2>5. /\ Longer(u, t, ln) /\ Opened(t, o) /\ sites = SpelledSites(t)
        /\ SiteSpelled(t, o, current_site_address, current_site_tls)
        /\ ListsSpelled(t, o, directive_stack)
    BY <2>2, <2>3, <2>4, Zenon DEF Spelled
  <2>6. Len(o) = 1 /\ Len(block_stack) = 0
    <3>1. /\ Len(o) \in Nat /\ (current_site_address = None <=> Len(o) = 0)
          /\ (Len(o) >= 1 => Len(directive_stack) = Len(o) /\ Len(block_stack) = Len(o) - 1)
      BY <2>2, <2>3, Levels, Zenon DEF AtLevel
    <3>2. Len(o) \in Nat /\ Len(o) # 0 /\ Len(directive_stack) = 1
      BY <2>1, <3>1, Zenon
    <3>3. PICK d, a, b : d = Len(o) /\ a = Len(directive_stack) /\ b = Len(block_stack)
      BY Zenon
    <3>4. d \in Nat /\ d # 0 /\ a = 1 /\ (d >= 1 => a = d /\ b = d - 1)
      BY <3>1, <3>2, <3>3, Zenon
    <3>5. d = 1 /\ b = 0
      BY <3>4
    <3> QED BY <3>3, <3>5, Zenon
  <2>7. PICK p : p = SubSeq(o, 1, Len(o) - 1)
    BY Zenon
  <2>8. Len(p) = 0 /\ Len(o) >= 1 /\ 1 \in 1 .. Len(o) /\ ~(0 >= 1) /\ 1 .. 0 = {} /\ 2 .. 0 = {}
    <3>1. o \in Seq(Nat)
      BY <2>5 DEF Opened
    <3> QED BY <2>6, <2>7, <3>1
  <2>9. Opened(u, p)
    BY <2>2, <2>5, <2>7, <2>8, OpenedLess, Zenon
  <2>10. SiteHere = [address |-> t[o[1]].word, directives |-> ListAt(t, o[1], 1), tls |-> WrittenTls(t, o[1])]
    <3>1. Last(directive_stack) = directive_stack[1]
      BY <2>1, Zenon DEF Last
    <3>2. Last(directive_stack) = ListAt(t, o[1], 1)
      BY <2>5, <2>8, <3>1, Zenon DEF ListsSpelled
    <3>3. current_site_address = t[o[1]].word /\ current_site_tls = WrittenTls(t, o[1])
      BY <2>5, <2>8, Zenon DEF SiteSpelled
    <3> QED BY <3>2, <3>3, Zenon DEF SiteHere
  <2>11. SpelledSites(u) = sites \cup {SiteHere}
    <3>1. SpelledSites(u) = SpelledSites(t) \cup
            {[address |-> t[o[1]].word, directives |-> ListAt(t, o[1], 1), tls |-> WrittenTls(t, o[1])]}
      BY <2>2, <2>5, <2>6, SitesGain
    <3> QED BY <2>5, <2>10, <3>1, Zenon
  <2>12. SiteSpelled(u, p, None, None)
    BY <2>8, Zenon DEF SiteSpelled
  <2>13. ListsSpelled(u, p, << << >> >>)
    BY <2>8, Zenon DEF ListsSpelled
  <2>14. BlocksSpelled(u, p, block_stack)
    BY <2>6, <2>8, Zenon DEF BlocksSpelled
  <2>15. Spelled(p)'
    BY <2>1, <2>4, <2>9, <2>11, <2>12, <2>13, <2>14 DEF Spelled
  <2> QED BY <2>15
<1> QED BY <1>1, <1>2

\* A brace that closes nothing is in no well nested text.
LEMMA ParseCloseNothing ==
  ASSUME StackInv, ParseInv, NEW ln \in vocabulary, CloseNothing(ln)
  PROVE  ParseInv'
<1> SUFFICES ASSUME WellNested(text'), DurationsFit(text') PROVE FALSE
  BY Zenon DEF ParseInv
<1>1. Read(ln, "close") /\ current_site_address = None
  BY DEF CloseNothing
<1>2. Longer(text', text, ln) /\ ln.shape = "close" /\ result = "reading" /\ \E o : Spelled(o)
  BY <1>1, LineRead, Zenon
<1>3. PICK o : Spelled(o)
  BY <1>2, Zenon
<1>4. Len(o) = 0
  BY <1>1, <1>2, <1>3, Levels, Zenon DEF AtLevel
<1>5. Opened(text, o)
  BY <1>3, Zenon DEF Spelled
<1>6. Len(o) >= 1
  BY <1>2, <1>5, NestedLast, Zenon
<1> QED BY <1>4, <1>6

\* A setting.
LEMMA ParseSetting ==
  ASSUME StackInv, ParseInv, NEW ln \in vocabulary, SettingLine(ln)
  PROVE  ParseInv'
<1>1. CASE Fail("err")
  <2>1. result' \notin {"reading", "validating", "ok"}
    BY <1>1 DEF Fail
  <2> QED BY <2>1, Zenon DEF ParseInv
<1>2. CASE ~Fail("err")
  <2> SUFFICES ASSUME WellNested(text'), DurationsFit(text') PROVE \E p : Spelled(p)'
    BY Zenon DEF ParseInv
  <2>1. PICK c \in WithSetting(Last(block_stack), ln) :
          /\ Read(ln, "plain") /\ InSettings
          /\ block_stack' = Append(Front(block_stack), c)
          /\ UNCHANGED <<siteVars, directive_stack>>
    BY <1>2 DEF SettingLine
  <2>2. /\ Longer(text', text, ln) /\ ln.shape = "plain" /\ result = "reading" /\ WellNested(text)
        /\ IsSeq(block_stack) /\ \E o : Spelled(o)
    BY <2>1, LineRead, Zenon
  <2>3. PICK o : Spelled(o)
    BY <2>2, Zenon
  <2>4. PICK t, u : t = text /\ u = text'
    BY Zenon
  <2>5. /\ Longer(u, t, ln) /\ Opened(t, o) /\ WellNested(t) /\ DurationsFit(u) /\ sites = SpelledSites(t)
        /\ SiteSpelled(t, o, current_site_address, current_site_tls)
        /\ ListsSpelled(t, o, directive_stack) /\ BlocksSpelled(t, o, block_stack)
    BY <2>2, <2>3, <2>4, Zenon DEF Spelled
  <2>6. Len(o) \in Nat /\ Len(o) >= 2 /\ Len(o) >= 1 /\ Len(block_stack) = Len(o) - 1 /\ Len(block_stack) \in 1 .. Len(block_stack)
    <3>1. PICK d, b : d = Len(o) /\ b = Len(block_stack)
      BY Zenon
    <3>2. d \in Nat /\ (d = 0 => b = 0) /\ (d >= 1 => b = d - 1) /\ b # 0
      BY <2>1, <2>2, <2>3, <3>1, Levels, Zenon DEF AtLevel, InSettings
    <3>3. d >= 2 /\ d >= 1 /\ b = d - 1 /\ b \in 1 .. b
      BY <3>2
    <3> QED BY <3>1, <3>2, <3>3, Zenon
  <2>7. PICK b : b = block_stack[Len(block_stack)]
    BY Zenon
  <2>8. b = Last(block_stack) /\ b.directive_type \in SettingsBlocks
    <3>1. Last(block_stack) = block_stack[Len(block_stack)]
      BY Zenon DEF Last
    <3> QED BY <2>1, <2>7, <3>1, Zenon DEF InSettings, SettingsBlocks
  <2>9. OpenBlockOf(vocabulary, b)
    BY <2>6, <2>7, Zenon DEF StackInv, StacksOK
  <2>10. BlockFits(t, o[Len(o)], b) /\ Len(o) \in 1 .. Len(o)
    <3>1. Len(o) \in 2 .. Len(o) /\ Len(o) \in 1 .. Len(o)
      BY <2>6
    <3> QED BY <2>5, <2>6, <2>7, <3>1, Zenon DEF BlocksSpelled
  <2>11. t[o[Len(o)]].word \in SettingsBlocks
    BY <2>8, <2>10, Zenon DEF BlockFits
  <2>12. ln.shape # "open" /\ ln.shape # "close" /\ Len(o) # 1
    BY <2>2, <2>6
  <2>13. Opened(u, o)
    BY <2>5, <2>12, OpenedPlain, Zenon
  <2>14. SpelledSites(u) = SpelledSites(t)
    BY <2>5, <2>12, SitesStay
  <2>15. SiteSpelled(u, o, current_site_address, current_site_tls)
    BY <2>5, <2>6, <2>12, SiteOpenStays, Zenon
  <2>16. ListsSpelled(u, o, directive_stack)
    <3>1. Len(t) + 1 \notin Members(u, o[Len(o)], Len(o))
      BY <2>5, <2>6, <2>10, <2>11, MemberNew, Zenon
    <3> QED BY <2>5, <2>12, <3>1, ListsStay, Zenon
  <2>17. BlocksSpelled(u, o, block_stack')
    <3>1. c \in WithSetting(block_stack[Len(block_stack)], ln) /\ OpenBlockOf(vocabulary, block_stack[Len(block_stack)])
          /\ block_stack[Len(block_stack)].directive_type \in SettingsBlocks
      BY <2>1, <2>7, <2>8, <2>9, Zenon
    <3>2. BlocksSpelled(u, o, Append(Front(block_stack), c))
      BY <2>2, <2>5, <2>6, <3>1, BlocksSet, Zenon
    <3> QED BY <2>1, <3>2, Zenon
  <2>18. Spelled(o)'
    BY <2>1, <2>4, <2>5, <2>13, <2>14, <2>15, <2>16, <2>17 DEF Spelled, siteVars
  <2> QED BY <2>18
<1> QED BY <1>1, <1>2

\* What it takes for one more line to be a directive of the innermost open block.
JoinsInnermost(u, t, ln, o) ==
  Len(t) + 1 \in Members(u, o[Len(o)], Len(o)) <=>
    /\ ln.shape = "plain"
    /\ Len(o) = 1 => ln.word # "tls"
    /\ Len(o) >= 2 => t[o[Len(o)]].word \notin SettingsBlocks

\* MemberNew at the innermost open block.
LEMMA MemberInnermost ==
  ASSUME NEW t, NEW u, NEW ln, Longer(u, t, ln), NEW o, Opened(t, o), Len(o) \in 1 .. Len(o)
  PROVE  JoinsInnermost(u, t, ln, o)
<1>1. PICK k \in 1 .. Len(o) : k = Len(o)
  BY Zenon
<1>2. Len(t) + 1 \in Members(u, o[k], k) <=>
        /\ ln.shape = "plain" /\ k = Len(o)
        /\ k = 1 => ln.word # "tls"
        /\ k >= 2 => t[o[k]].word \notin SettingsBlocks
  BY MemberNew
<1> QED BY <1>1, <1>2, Zenon DEF JoinsInnermost

\* The tls setting of a site.
LEMMA ParseTls ==
  ASSUME StackInv, ParseInv, NEW ln \in vocabulary, TlsLine(ln)
  PROVE  ParseInv'
<1>1. CASE Fail("err")
  <2>1. result' \notin {"reading", "validating", "ok"}
    BY <1>1 DEF Fail
  <2> QED BY <2>1, Zenon DEF ParseInv
<1>2. CASE ~Fail("err")
  <2> SUFFICES ASSUME WellNested(text'), DurationsFit(text') PROVE \E p : Spelled(p)'
    BY Zenon DEF ParseInv
  <2>1. /\ Read(ln, "plain") /\ ln.word = "tls" /\ block_stack = << >>
        /\ ~(Len(ln.args) < 2) /\ current_site_tls = None
        /\ current_site_tls' = <<ln.args[1], ln.args[2]>>
        /\ UNCHANGED <<current_site_address, sites, directive_stack, block_stack>>
    BY <1>2 DEF TlsLine
  <2>2. /\ Longer(text', text, ln) /\ ln.shape = "plain" /\ result = "reading" /\ WellNested(text)
        /\ \E o : Spelled(o)
    BY <2>1, LineRead, Zenon
  <2>3. PICK o : Spelled(o)
    BY <2>2, Zenon
  <2>4. PICK t, u : t = text /\ u = text'
    BY Zenon
  <2>5. /\ Longer(u, t, ln) /\ Opened(t, o) /\ WellNested(t) /\ WellNested(u) /\ sites = SpelledSites(t)
        /\ SiteSpelled(t, o, current_site_address, None)
        /\ ListsSpelled(t, o, directive_stack) /\ BlocksSpelled(t, o, block_stack)
    BY <2>1, <2>2, <2>3, <2>4, Zenon DEF Spelled
  <2>6. Len(o) = 1
    <3>1. Len(o) = 0 => ln.shape \in {"open", "blank"}
      BY <2>5, NestedLast, Zenon
    <3>2. ln.shape \notin {"open", "blank"}
      BY <2>2
    <3>3. PICK d, b : d = Len(o) /\ b = Len(block_stack)
      BY Zenon
    <3>4. d \in Nat /\ d # 0 /\ (d >= 1 => b = d - 1) /\ b = 0
      BY <2>1, <2>2, <2>3, <3>1, <3>2, <3>3, Levels, Zenon DEF AtLevel
    <3>5. d = 1
      BY <3>4
    <3> QED BY <3>3, <3>5, Zenon
  <2>7. Len(o) \in 1 .. Len(o) /\ Len(o) >= 1 /\ ~(Len(o) >= 2)
    BY <2>6
  <2>8. ln.shape # "open" /\ ln.shape # "close"
    BY <2>2
  <2>9. Opened(u, o)
    BY <2>5, <2>8, OpenedPlain, Zenon
  <2>10. SpelledSites(u) = SpelledSites(t)
    BY <2>5, <2>8, SitesStay
  <2>11. <<ln.args[1], ln.args[2]>> # None
    <3>1. vocabulary \in Vocabularies
      BY DEF StackInv, ReadingOK
    <3>2. Len(ln.args) >= 2
      <4>1. Len(ln.args) \in Int
        BY <3>1, NoneAssumption
      <4> QED BY <2>1, <4>1
    <3> QED BY <3>1, <3>2, NoneAssumption, Zenon
  <2>12. SiteSpelled(u, o, current_site_address, <<ln.args[1], ln.args[2]>>)
    BY <2>1, <2>2, <2>5, <2>6, <2>11, SiteTls, Zenon
  <2>13. ListsSpelled(u, o, directive_stack)
    <3>1. Len(t) + 1 \notin Members(u, o[Len(o)], Len(o))
      <4>1. JoinsInnermost(u, t, ln, o)
        BY <2>5, <2>7, MemberInnermost, Zenon
      <4> QED BY <2>1, <2>6, <4>1, Zenon DEF JoinsInnermost
    <3> QED BY <2>5, <2>8, <3>1, ListsStay, Zenon
  <2>14. BlocksSpelled(u, o, block_stack)
    BY <2>5, <2>7, BlocksStay, Zenon
  <2>15. Spelled(o)'
    BY <2>1, <2>4, <2>5, <2>9, <2>10, <2>12, <2>13, <2>14 DEF Spelled
  <2> QED BY <2>15
<1> QED BY <1>1, <1>2

\* A directive of one line.
LEMMA ParseDirective ==
  ASSUME StackInv, ParseInv, NEW ln \in vocabulary, DirectiveLine(ln)
  PROVE  ParseInv'
<1>1. CASE Fail("err")
  <2>1. result' \notin {"reading", "validating", "ok"}
    BY <1>1 DEF Fail
  <2> QED BY <2>1, Zenon DEF ParseInv
<1>2. CASE ~Fail("err")
  <2> SUFFICES ASSUME WellNested(text'), DurationsFit(text') PROVE \E p : Spelled(p)'
    BY Zenon DEF ParseInv
  <2>1. PICK args \in DirectiveArgs(ln.word, ln.args) :
          /\ Read(ln, "plain") /\ ~InSettings /\ (ln.word # "tls" \/ block_stack # << >>)
          /\ directive_stack' = PushTo(directive_stack, Simple(ln.word, args))
          /\ UNCHANGED <<siteVars, block_stack>>
    BY <1>2 DEF DirectiveLine
  <2>2. /\ Longer(text', text, ln) /\ ln.shape = "plain" /\ result = "reading" /\ WellNested(text)
        /\ IsSeq(directive_stack) /\ \E o : Spelled(o)
    BY <2>1, LineRead, Zenon
  <2>3. PICK o : Spelled(o)
    BY <2>2, Zenon
  <2>4. PICK t, u : t = text /\ u = text'
    BY Zenon
  <2>5. /\ Longer(u, t, ln) /\ Opened(t, o) /\ WellNested(t) /\ WellNested(u) /\ sites = SpelledSites(t)
        /\ SiteSpelled(t, o, current_site_address, current_site_tls)
        /\ ListsSpelled(t, o, directive_stack) /\ BlocksSpelled(t, o, block_stack)
    BY <2>2, <2>3, <2>4, Zenon DEF Spelled
  <2>6. /\ Len(o) \in Nat /\ Len(o) >= 1 /\ Len(block_stack) = Len(o) - 1
        /\ block_stack = << >> <=> Len(block_stack) = 0
    <3>1. Len(o) = 0 => ln.shape \in {"open", "blank"}
      BY <2>5, NestedLast, Zenon
    <3>2. ln.shape \notin {"open", "blank"}
      BY <2>2
    <3>3. AtLevel(Len(o)) /\ Len(o) # 0
      BY <2>2, <2>3, <3>1, <3>2, Levels, Zenon
    <3>4. Len(o) \in Nat
      BY <3>3, Zenon DEF AtLevel
    <3>5. Len(o) >= 1
      BY <3>3, <3>4
    <3> QED BY <3>3, <3>4, <3>5, Zenon DEF AtLevel
  <2>7. ln.shape # "open" /\ ln.shape # "close"
    BY <2>2
  <2>8. Len(o) = 1 => ln.word # "tls"
    <3>1. Len(o) = 1 => Len(o) - 1 = 0
      BY <2>6
    <3> QED BY <2>1, <2>6, <3>1, Zenon
  <2>9. Len(o) >= 2 => t[o[Len(o)]].word \notin SettingsBlocks
    <3> SUFFICES ASSUME Len(o) >= 2 PROVE t[o[Len(o)]].word \notin SettingsBlocks
      OBVIOUS
    <3>1. Len(o) \in 2 .. Len(o) /\ Len(o) - 1 # 0
      BY <2>6
    <3>2. BlockFits(t, o[Len(o)], block_stack[Len(o) - 1])
      BY <2>5, <3>1, Zenon DEF BlocksSpelled
    <3>3. block_stack # << >> /\ Last(block_stack) = block_stack[Len(o) - 1]
      BY <2>6, <3>1, Zenon DEF Last
    <3>4. Last(block_stack).directive_type \notin {"forward_auth", "reverse_proxy"}
      BY <2>1, <3>3, Zenon DEF InSettings
    <3> QED BY <3>2, <3>3, <3>4, Zenon DEF BlockFits, SettingsBlocks
  <2>10. Opened(u, o)
    BY <2>5, <2>7, OpenedPlain, Zenon
  <2>11. SpelledSites(u) = SpelledSites(t)
    BY <2>5, <2>7, SitesStay
  <2>12. SiteSpelled(u, o, current_site_address, current_site_tls)
    BY <2>5, <2>6, <2>8, SiteOpenStays, Zenon
  <2>13. ListsSpelled(u, o, directive_stack')
    <3>1. Len(o) \in 1 .. Len(o)
      BY <2>6
    <3>2. Len(t) + 1 \in Members(u, o[Len(o)], Len(o))
      <4>1. JoinsInnermost(u, t, ln, o)
        BY <2>5, <3>1, MemberInnermost, Zenon
      <4> QED BY <2>2, <2>8, <2>9, <4>1, Zenon DEF JoinsInnermost
    <3>3. ListsSpelled(u, o, PushTo(directive_stack, Written(u)[Len(t) + 1]))
      BY <2>2, <2>5, <2>6, <2>7, <3>2, ListsTake, Zenon
    <3>4. Written(u)[Len(t) + 1] = Simple(ln.word, args)
      BY <2>2, <2>5, WrittenLine
    <3> QED BY <2>1, <3>3, <3>4, Zenon
  <2>14. BlocksSpelled(u, o, block_stack)
    BY <2>5, <2>9, BlocksStay, Zenon
  <2>15. Spelled(o)'
    BY <2>1, <2>4, <2>5, <2>10, <2>11, <2>12, <2>13, <2>14 DEF Spelled, siteVars
  <2> QED BY <2>15
<1> QED BY <1>1, <1>2

\* Nothing is open in the empty text.
LEMMA ParseInit == Init => ParseInv
<1> SUFFICES ASSUME Init PROVE \E o : Spelled(o)
  BY Zenon DEF ParseInv
<1>1. /\ text = << >> /\ current_site_address = None /\ current_site_tls = None
      /\ directive_stack = << << >> >> /\ block_stack = << >> /\ sites = {}
  BY DEF Init
<1>2. PICK o : o = << >>
  BY Zenon
<1>3. Len(o) = 0 /\ o \in Seq(Nat) /\ 1 .. 0 = {} /\ 2 .. 0 = {} /\ ~(0 >= 1) /\ 0 + 1 = 1 /\ 0 \in Nat
  BY <1>2
<1>4. Len(text) = 0 /\ DOMAIN text = {} /\ Len(block_stack) = 0
  BY <1>1
<1>5. Depth(text, 1) = 0
  BY DepthNext, Zenon
<1>6. Opened(text, o)
  BY <1>3, <1>4, <1>5, Zenon DEF Opened
<1>7. SpelledSites(text) = {}
  BY <1>4, Zenon DEF SpelledSites, ClosedSites
<1>8. SiteSpelled(text, o, None, None) /\ ListsSpelled(text, o, << << >> >>) /\ BlocksSpelled(text, o, block_stack)
  BY <1>3, <1>4, Zenon DEF SiteSpelled, ListsSpelled, BlocksSpelled
<1>9. Spelled(o)
  BY <1>1, <1>6, <1>7, <1>8, Zenon DEF Spelled
<1> QED BY <1>9

\* Every step keeps it.
LEMMA ParseStep == StackInv /\ ParseInv /\ [Next]_vars => ParseInv'
<1> SUFFICES ASSUME StackInv, ParseInv, [Next]_vars PROVE ParseInv'
  OBVIOUS
<1>1. ASSUME NEW ln \in vocabulary, ReadLine(ln) PROVE ParseInv'
  <2>1. CASE OverflowPanics(ln)
    <3>1. result' \notin {"reading", "validating", "ok"}
      BY <2>1 DEF OverflowPanics, Fail
    <3> QED BY <3>1, Zenon DEF ParseInv
  <2> QED BY <1>1, <2>1, ParseBlank, ParseOpenSite, ParseOpenBlock, ParseCloseBlock, ParseCloseSite,
             ParseCloseNothing, ParseSetting, ParseTls, ParseDirective, Zenon DEF ReadLine
<1>2. ASSUME UNCHANGED <<text, siteVars, directive_stack, block_stack>>,
             result' \in {"reading", "validating", "ok"} => result \in {"reading", "validating", "ok"}
      PROVE  ParseInv'
  BY <1>2 DEF ParseInv, Spelled, siteVars
<1>3. CASE EndOfFile
  BY <1>2, <1>3 DEF EndOfFile
<1>4. CASE Accept
  BY <1>2, <1>4 DEF Accept
<1>5. ASSUME NEW site \in todo, ValidateSite(site) PROVE ParseInv'
  BY <1>2, <1>5 DEF ValidateSite
<1>6. CASE UNCHANGED vars
  BY <1>2, <1>6 DEF vars
<1> QED BY <1>1, <1>3, <1>4, <1>5, <1>6 DEF Next

\* An accepted text yields the sites it spells, whatever its length, its
\* nesting and its words: every directive in the block its braces put it in
\* and in its order, the last value of each setting, the tls setting with its
\* own site, and nothing of what the end of the file leaves open.
THEOREM ParsesSafe == Spec => []ParsesAsWritten
<1>1. ParseInv => ParsesAsWritten
  <2>1. ASSUME NEW o, Spelled(o)
        PROVE  sites = {WrittenSite(text, i) : i \in {j \in DOMAIN text :
                          Opens(text, j) /\ Depth(text, j) = 0 /\ ClosersOf(text, j) # {}}}
    BY <2>1, Zenon DEF Spelled, SpelledSites, ClosedSites
  <2> QED BY <2>1, Zenon DEF ParseInv, ParsesAsWritten
<1> QED BY <1>1, ParseInit, ParseStep, StackHolds, PTL DEF Spec
=============================================================================
