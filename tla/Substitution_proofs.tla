------------------------ MODULE Substitution_proofs -------------------------
(***************************************************************************)
(* The loops of process_header_substitution and                            *)
(* process_upstream_substitution replace the first placeholder they find,  *)
(* again and again, in a text they have already changed.  These proofs     *)
(* show that, where no text opens a brace, this is the same as replacing   *)
(* every placeholder of the template at once: at each point of the call    *)
(* the text is the template with some of its pieces replaced (SubstInv),   *)
(* and no placeholder starts in the replaced ones, or across two pieces    *)
(* (Sealed).                                                               *)
(*                                                                         *)
(* The braces are named Open and Close, and hidden from the SMT solver,    *)
(* which does not take a string with a brace in it.                        *)
(***************************************************************************)
EXTENDS Substitution, Text_proofs

-----------------------------------------------------------------------------
(* Texts and the first placeholder in them                                 *)

\* A text put together from parts, around one of them.
LEMMA FlattenAround ==
  ASSUME NEW A, NEW t \in Seq(Seq(A)), NEW d \in 0 .. Len(t) - 1
  PROVE  /\ SubSeq(t, 1, d) \in Seq(Seq(A)) /\ After(t, d + 1) \in Seq(Seq(A))
         /\ FlattenSeq(t) = FlattenSeq(SubSeq(t, 1, d)) \o (t[d + 1] \o FlattenSeq(After(t, d + 1)))
<1>1. SubSeq(t, 1, d) \in Seq(Seq(A)) /\ 0 \in 0 .. Len(t) /\ d \in 0 .. Len(t) /\ d + 1 \in 0 .. Len(t) /\ 0 + 1 = 1
  OBVIOUS
<1>2. After(t, d + 1) \in Seq(Seq(A)) /\ After(t, d) \in Seq(Seq(A))
  BY <1>1, AfterType, Zenon
<1>3. t = SubSeq(t, 1, d) \o After(t, d)
  <2>1. After(t, 0) = t
    BY <1>1, SubSeqFull DEF After
  <2>2. SubSeq(t, 0 + 1, d) \o After(t, d) = After(t, 0)
    BY <1>1, AfterSplit
  <2> QED BY <1>1, <2>1, <2>2, Zenon
<1>4. FlattenSeq(SubSeq(t, 1, d) \o After(t, d)) = FlattenSeq(SubSeq(t, 1, d)) \o FlattenSeq(After(t, d))
  BY <1>1, <1>2, FlattenConcat
<1>5. FlattenSeq(After(t, d)) = t[d + 1] \o FlattenSeq(After(t, d + 1))
  BY FlattenAfterOne
<1> QED BY <1>1, <1>2, <1>3, <1>4, <1>5, Zenon

\* No placeholder with this keyword starts in t, whatever follows t.
Sealed(open, keyword, t) ==
  \A i \in 1 .. Len(t) : t[i] = open => i < Len(t) /\ t[i + 1] # keyword

\* One sealed text after the other.
LEMMA SealedBoth ==
  ASSUME NEW A, NEW open, NEW keyword, NEW a \in Seq(A), NEW b \in Seq(A), Sealed(open, keyword, a), Sealed(open, keyword, b)
  PROVE  Sealed(open, keyword, a \o b)
<1>1. Len(a) \in Nat /\ Len(b) \in Nat /\ Len(a \o b) = Len(a) + Len(b)
  OBVIOUS
<1>2. /\ \A i \in 1 .. Len(a) : (a \o b)[i] = a[i]
      /\ \A i \in 1 .. Len(b) : (a \o b)[Len(a) + i] = b[i]
  OBVIOUS
<1> SUFFICES ASSUME NEW i \in 1 .. Len(a \o b), (a \o b)[i] = open
             PROVE  i < Len(a \o b) /\ (a \o b)[i + 1] # keyword
  BY Zenon DEF Sealed
<1>3. CASE i <= Len(a)
  <2>1. i \in 1 .. Len(a)
    BY <1>1, <1>3
  <2>2. a[i] = open
    BY <1>2, <2>1, Zenon
  <2>3. i < Len(a) /\ a[i + 1] # keyword
    BY <2>1, <2>2, Zenon DEF Sealed
  <2>4. i + 1 \in 1 .. Len(a) /\ i < Len(a \o b)
    BY <1>1, <2>1, <2>3
  <2>5. (a \o b)[i + 1] = a[i + 1]
    BY <1>2, <2>4, Zenon
  <2> QED BY <2>3, <2>4, <2>5, Zenon
<1>4. CASE i > Len(a)
  <2>1. PICK j \in 1 .. Len(b) : i = Len(a) + j
    <3>1. i - Len(a) \in 1 .. Len(b) /\ i = Len(a) + (i - Len(a))
      BY <1>1, <1>4
    <3> QED BY <3>1
  <2>2. b[j] = open
    BY <1>2, <2>1, Zenon
  <2>3. j < Len(b) /\ b[j + 1] # keyword
    BY <2>2, Zenon DEF Sealed
  <2>4. j + 1 \in 1 .. Len(b) /\ i < Len(a \o b) /\ i + 1 = Len(a) + (j + 1)
    BY <1>1, <2>1, <2>3
  <2>5. (a \o b)[Len(a) + (j + 1)] = b[j + 1]
    BY <1>2, <2>4, Zenon
  <2> QED BY <2>3, <2>4, <2>5, Zenon
<1> QED BY <1>1, <1>3, <1>4

\* All of them.
LEMMA SealedAll ==
  ASSUME NEW A, NEW open, NEW keyword, NEW t \in Seq(Seq(A)), \A i \in 1 .. Len(t) : Sealed(open, keyword, t[i])
  PROVE  Sealed(open, keyword, FlattenSeq(t))
<1> DEFINE n == Len(t)
           R(d) == Sealed(open, keyword, FlattenSeq(After(t, d)))
           S == {k \in Nat : \A d \in 0 .. n : d + k = n => R(d)}
<1>1. n \in Nat
  OBVIOUS
<1>2. 0 \in S
  <2>1. After(t, n) = << >>
    BY <1>1 DEF After
  <2>2. \A d \in 0 .. n : d + 0 = n => d = n
    BY <1>1
  <2>3. Sealed(open, keyword, << >>)
    BY DEF Sealed
  <2>4. R(n)
    BY <2>1, <2>3, FlattenEmpty, Zenon
  <2> HIDE DEF R
  <2> QED BY <2>2, <2>4
<1>3. ASSUME NEW k \in Nat, k \in S, NEW d \in 0 .. n, d + (k + 1) = n PROVE R(d)
  <2>1. d + 1 \in 0 .. n /\ (d + 1) + k = n /\ d + 1 \in 1 .. n /\ d \in 0 .. Len(t) - 1
    BY <1>1, <1>3
  <2>2. R(d + 1)
    BY <1>3, <2>1, Zenon
  <2>3. FlattenSeq(After(t, d)) = t[d + 1] \o FlattenSeq(After(t, d + 1))
    BY <2>1, FlattenAfterOne
  <2>4. After(t, d + 1) \in Seq(Seq(A))
    BY <2>1, AfterType, Zenon
  <2>5. FlattenSeq(After(t, d + 1)) \in Seq(A)
    BY <2>4, FlattenType, Zenon
  <2>6. t[d + 1] \in Seq(A)
    BY <2>1
  <2>7. Sealed(open, keyword, t[d + 1] \o FlattenSeq(After(t, d + 1)))
    BY <2>1, <2>2, <2>5, <2>6, SealedBoth, Zenon
  <2> QED BY <2>3, <2>7, Zenon
<1>4. \A k \in Nat : k \in S => k + 1 \in S
  <2>1. \A k \in Nat : k + 1 \in Nat
    OBVIOUS
  <2> HIDE DEF R
  <2> QED BY <1>3, <2>1, Zenon
<1>5. n \in S
  <2> HIDE DEF S
  <2> QED BY <1>1, <1>2, <1>4, Induct
<1>6. 0 \in 0 .. n /\ 0 + n = n
  BY <1>1
<1>7. R(0)
  <2> HIDE DEF R
  <2> QED BY <1>5, <1>6, Zenon
<1>8. After(t, 0) = t
  <2>1. 0 + 1 = 1
    OBVIOUS
  <2> QED BY <2>1, SubSeqFull DEF After
<1> QED BY <1>7, <1>8, Zenon

\* The smallest element of a set of numbers.
LEMMA MinIs ==
  ASSUME NEW S, S \subseteq Int, NEW x \in S, \A y \in S : x <= y
  PROVE  Min(S) = x
<1>1. Min(S) \in S /\ \A y \in S : Min(S) <= y
  BY Zenon DEF Min
<1>2. Min(S) <= x /\ x <= Min(S) /\ Min(S) \in Int /\ x \in Int
  BY <1>1
<1> QED BY <1>2

\* Where the search for a placeholder gets to.
Splits(s, open, keyword, close, before, name, rest) ==
  LET starts == {i \in 1 .. Len(s) - 1 : s[i] = open /\ s[i + 1] = keyword}
      ends == {i \in Min(starts) .. Len(s) : s[i] = close}
  IN  /\ starts # {} /\ ends # {}
      /\ SubSeq(s, 1, Min(starts) - 1) = before
      /\ SubSeq(s, Min(starts) + 2, Min(ends) - 1) = <<name>>
      /\ SubSeq(s, Min(ends) + 1, Len(s)) = rest

\* In a text whose first part has no placeholder it finds the one that follows.
LEMMA FirstPlaceholder ==
  ASSUME NEW A, NEW before \in Seq(A), NEW rest \in Seq(A),
         NEW open \in A, NEW keyword \in A, NEW name \in A, NEW close \in A,
         Sealed(open, keyword, before), open # close, keyword # close, name # close, NEW s,
         s = before \o (<<open, keyword, name, close>> \o rest)
  PROVE  Splits(s, open, keyword, close, before, name, rest)
<1> DEFINE m == Len(before)
           starts == {i \in 1 .. Len(s) - 1 : s[i] = open /\ s[i + 1] = keyword}
           ends == {i \in Min(starts) .. Len(s) : s[i] = close}
<1>1. /\ m \in Nat /\ Len(rest) \in Nat /\ s \in Seq(A) /\ Len(s) = m + 4 + Len(rest)
      /\ s[m + 1] = open /\ s[m + 2] = keyword /\ s[m + 3] = name /\ s[m + 4] = close
      /\ \A i \in 1 .. m : s[i] = before[i]
      /\ \A i \in 1 .. Len(rest) : s[m + 4 + i] = rest[i]
  OBVIOUS
<1>2. m + 1 \in starts
  BY <1>1
<1>3. ASSUME NEW i \in starts PROVE m + 1 <= i
  <2>1. i \in 1 .. Len(s) - 1 /\ s[i] = open /\ s[i + 1] = keyword
    BY <1>3
  <2>2. CASE i \in 1 .. m
    <3>1. before[i] = open
      BY <1>1, <2>1, <2>2, Zenon
    <3>2. i < m /\ before[i + 1] # keyword
      BY <2>2, <3>1, Zenon DEF Sealed
    <3>3. i + 1 \in 1 .. m
      BY <1>1, <2>2, <3>2
    <3>4. s[i + 1] = before[i + 1]
      BY <1>1, <3>3, Zenon
    <3> QED BY <2>1, <3>2, <3>4, Zenon
  <2>3. CASE i \notin 1 .. m
    BY <1>1, <2>1, <2>3
  <2> QED BY <2>2, <2>3
<1>4. Min(starts) = m + 1
  <2>1. starts \subseteq Int
    BY <1>1
  <2> HIDE DEF starts
  <2> QED BY <1>2, <1>3, <2>1, MinIs
<1> HIDE DEF starts
<1>5. m + 4 \in ends
  BY <1>1, <1>4
<1>6. ASSUME NEW i \in ends PROVE m + 4 <= i
  <2>1. i \in m + 1 .. Len(s) /\ s[i] = close
    BY <1>4, <1>6
  <2>2. i # m + 1 /\ i # m + 2 /\ i # m + 3
    BY <1>1, <2>1
  <2> QED BY <1>1, <2>1, <2>2
<1>7. Min(ends) = m + 4
  <2>1. ends \subseteq Int
    BY <1>1, <1>4
  <2> HIDE DEF ends
  <2> QED BY <1>5, <1>6, <2>1, MinIs
<1> HIDE DEF ends
<1>8. (m + 1) - 1 = m /\ (m + 1) + 2 = m + 3 /\ (m + 4) - 1 = m + 3
  BY <1>1
<1>9. SubSeq(s, 1, m) = before
  BY <1>1
<1>10. SubSeq(s, m + 3, m + 3) = <<name>>
  <2>1. /\ SubSeq(s, m + 3, m + 3) \in Seq(A) /\ Len(SubSeq(s, m + 3, m + 3)) = 1
        /\ SubSeq(s, m + 3, m + 3)[1] = name
    BY <1>1
  <2>2. \A t \in Seq(A) : Len(t) = 1 /\ t[1] = name => t = <<name>>
    OBVIOUS
  <2> QED BY <2>1, <2>2, Zenon
<1>11. SubSeq(s, (m + 4) + 1, Len(s)) = rest
  BY <1>1
<1>12. starts # {} /\ ends # {}
  BY <1>2, <1>5
<1> QED BY <1>4, <1>7, <1>8, <1>9, <1>10, <1>11, <1>12, Zenon DEF Splits, starts, ends

\* A text in which no brace opens.
Free(open, t) == \A i \in 1 .. Len(t) : t[i] # open

\* No placeholder starts in it.
LEMMA SealedFree ==
  ASSUME NEW open, NEW keyword, NEW t, Free(open, t)
  PROVE  Sealed(open, keyword, t)
BY Zenon DEF Free, Sealed

\* Nor in a placeholder with another keyword, with a name or without.
LEMMA SealedOther ==
  ASSUME NEW A, NEW open \in A, NEW close \in A, NEW other \in A, NEW name \in A, NEW keyword,
         open # close, other # open, name # open, other # keyword
  PROVE  /\ Sealed(open, keyword, <<open, other, name, close>>)
         /\ Sealed(open, keyword, <<open, other, close>>)
BY DEF Sealed

\* Replacing one placeholder leaves another as it is.
LEMMA ReplacesOther ==
  ASSUME NEW A, NEW open \in A, NEW close \in A, NEW keyword \in A, NEW other \in A,
         open # close, other # open, other # keyword, NEW replacement \in Seq(A)
  PROVE  Replaces(A, <<open, keyword, close>>, replacement, <<open, other, close>>, <<open, other, close>>)
<1> DEFINE find == <<open, keyword, close>>
           p == <<open, other, close>>
           tail == <<other, close>>
<1>1. /\ find \in Seq(A) /\ Len(find) = 3 /\ find[1] = open /\ find[2] = keyword /\ find # << >>
      /\ p \in Seq(A) /\ tail \in Seq(A) /\ Len(tail) = 2 /\ tail[1] = other /\ tail[2] = close
      /\ p = <<open>> \o tail /\ <<open>> \in Seq(A)
  OBVIOUS
<1> HIDE DEF find, p, tail
<1>2. \A i \in 1 .. Len(tail) : tail[i] # find[1]
  BY <1>1
<1>3. Replaces(A, find, replacement, tail, tail)
  BY <1>1, <1>2, ReplaceKeeps, Zenon
<1>4. ASSUME NEW b \in Seq(A) PROVE ReplacesBefore(find, replacement, p, p, b)
  <2>1. PICK c \in Seq(A) : c = tail \o b /\ c[1] = other /\ Len(c) >= 2
    <3>1. tail \o b \in Seq(A) /\ (tail \o b)[1] = other /\ Len(tail \o b) >= 2
      BY <1>1
    <3> QED BY <3>1
  <2>2. <<open>> \o c \in Seq(A) /\ (<<open>> \o c)[2] = other
    BY <1>1, <2>1
  <2>3. Occurs(find, <<open>> \o c, 1) => \A i \in 1 .. Len(find) : (<<open>> \o c)[i] = find[i]
    BY <1>1, <2>2, OccursFirst, Zenon
  <2>4. 2 \in 1 .. Len(find)
    BY <1>1
  <2>5. ~Occurs(find, <<open>> \o c, 1)
    BY <1>1, <2>2, <2>3, <2>4, Zenon
  <2>6. ReplacesBefore(find, replacement, <<open>>, <<open>>, c)
    BY <1>1, <2>5, ReplaceKeepsOne, Zenon
  <2>7. ReplacesBefore(find, replacement, tail, tail, b)
    BY <1>3, Zenon DEF Replaces
  <2>8. StrReplace(find, replacement, <<open>> \o c) = <<open>> \o (tail \o StrReplace(find, replacement, b))
    BY <2>1, <2>6, <2>7, Zenon DEF ReplacesBefore
  <2>9. StrReplace(find, replacement, b) \in Seq(A)
    BY <1>1, ReplaceType, Zenon
  <2>10. Associates(<<open>>, tail, b) /\ Associates(<<open>>, tail, StrReplace(find, replacement, b))
    BY <1>1, <2>9, Associative, Zenon
  <2> QED BY <1>1, <2>1, <2>8, <2>10, Zenon DEF Associates, ReplacesBefore
<1>5. Replaces(A, find, replacement, p, p)
  BY <1>4, Zenon DEF Replaces
<1> QED BY <1>5 DEF find, p

-----------------------------------------------------------------------------
(* The pieces of a template                                                *)

\* The braces, and the atoms texts are made of.
Open == "{"
Close == "}"
Atoms == STRING \cup {Open, Close} \cup Keywords \cup ToSet(Stages)

\* The atoms braces are made of, and the others.
LEMMA AtomFacts ==
  /\ Open # Close /\ Open \in Atoms /\ Close \in Atoms /\ STRING \subseteq Atoms
  /\ \A k \in Keywords \cup ToSet(Stages) : k \in Atoms /\ k # Open /\ k # Close
  /\ Seq(STRING) \subseteq Seq(Atoms)
<1>1. Open # Close /\ Open \in Atoms /\ Close \in Atoms /\ STRING \subseteq Atoms
  BY Zenon DEF Open, Close, Atoms
<1>2. ToSet(Stages) = {"uuid", "upstream_host", "request.uri", "remote_ip"}
  BY DEF ToSet, Stages
<1>3. \A k \in Keywords \cup ToSet(Stages) : k \in Atoms
  BY Zenon DEF Atoms
<1>4. ASSUME NEW k \in Keywords \cup ToSet(Stages) PROVE k # Open /\ k # Close
  BY <1>2, Zenon DEF Keywords, Open, Close
<1>5. Seq(STRING) \subseteq Seq(Atoms)
  BY <1>1, SeqMonotonic, Zenon
<1> QED BY <1>1, <1>3, <1>4, <1>5, Zenon

\* The kinds of pieces differ.
LEMMA KindFacts ==
  /\ "text" \notin Keywords /\ "text" \notin ToSet(Stages) /\ Keywords \cap ToSet(Stages) = {}
  /\ ToSet(Stages) = {"uuid", "upstream_host", "request.uri", "remote_ip"}
  /\ DOMAIN Generated = ToSet(Stages)
BY GeneratedAssumption DEF ToSet, Stages, Keywords

\* What is known of a piece and of what it stands for, where no text opens a
\* brace.
Understood(p) ==
  /\ p.kind \in {"text"} \cup Keywords \cup ToSet(Stages)
  /\ p.kind = "text" => TextOf(p) \in Seq(Atoms) /\ Free(Open, TextOf(p)) /\ ValueOf(p) = TextOf(p)
  /\ p.kind \in Keywords =>
       /\ p.name \in Atoms /\ p.name # Open /\ p.name # Close
       /\ TextOf(p) = <<Open, p.kind, p.name, Close>>
       /\ ValueOf(p) = Lookup(MapOf(p.kind), <<p.name>>)
       /\ ValueOf(p) \in Seq(Atoms) /\ Free(Open, ValueOf(p))
  /\ p.kind \in ToSet(Stages) =>
       /\ TextOf(p) = <<Open, p.kind, Close>>
       /\ Generated[p.kind] \in Seq(Atoms) /\ Free(Open, Generated[p.kind])
       /\ ValueOf(p) = IF p.kind = "uuid" \/ call = "upstream" THEN Generated[p.kind] ELSE TextOf(p)

\* Every piece of a template is.
LEMMA PieceFacts ==
  ASSUME input \in Inputs, NoStrayBraces, NEW i \in DOMAIN input.pieces
  PROVE  Understood(input.pieces[i])
<1> DEFINE p == input.pieces[i]
           texts == {TextOf(q) : q \in {r \in ToSet(input.pieces) : r.kind = "text"}}
                    \cup Range(input.headers) \cup Range(input.env) \cup Range(Generated)
<1>1. p \in ToSet(input.pieces)
  BY Zenon DEF ToSet
<1>2. ASSUME NEW t \in texts, t \in Seq(STRING) PROVE t \in Seq(Atoms) /\ Free(Open, t)
  <2>1. Open \notin ToSet(t)
    BY <1>2, Zenon DEF NoStrayBraces, Open
  <2>2. DOMAIN t = 1 .. Len(t)
    BY <1>2
  <2> QED BY <1>2, <2>1, <2>2, AtomFacts, Zenon DEF Free, ToSet
<1>3. /\ p \in [kind : {"text"}, text : Seq(STRING)]
               \cup [kind : Keywords, name : STRING \ {"{", "}"}] \cup [kind : ToSet(Stages)]
      /\ Range(input.headers) \cup Range(input.env) \subseteq Seq(STRING)
  <2>1. PICK P : P = [kind : {"text"}, text : Seq(STRING)]
                     \cup [kind : Keywords, name : STRING \ {"{", "}"}] \cup [kind : ToSet(Stages)]
    BY Zenon
  <2>2. input.pieces \in Seq(P) /\ Range(input.headers) \cup Range(input.env) \subseteq Seq(STRING)
    BY <2>1, InputsAssumption, Zenon
  <2>3. p \in P
    BY <2>2
  <2> QED BY <2>1, <2>2, <2>3, Zenon
<1>4. CASE p \in [kind : {"text"}, text : Seq(STRING)]
  <2>1. p.kind = "text" /\ p.text \in Seq(STRING)
    BY <1>4, Zenon
  <2>2. TextOf(p) = p.text /\ TextOf(p) \in texts
    <3>1. TextOf(p) = p.text
      BY <2>1, KindFacts, Zenon DEF TextOf
    <3>2. TextOf(p) \in texts
      BY <1>1, <2>1, Zenon
    <3> QED BY <3>1, <3>2
  <2>3. ValueOf(p) = TextOf(p)
    BY <2>1, KindFacts, Zenon DEF ValueOf
  <2> QED BY <1>2, <2>1, <2>2, <2>3, KindFacts, Zenon DEF Understood
<1>5. CASE p \in [kind : Keywords, name : STRING \ {"{", "}"}]
  <2>1. p.kind \in Keywords /\ p.name \in STRING \ {"{", "}"}
    BY <1>5, Zenon
  <2>2. p.name \in Atoms /\ p.name # Open /\ p.name # Close
    BY <2>1, Zenon DEF Atoms, Open, Close
  <2>3. TextOf(p) = <<Open, p.kind, p.name, Close>>
    BY <2>1, KindFacts, Zenon DEF TextOf, Open, Close
  <2>4. ValueOf(p) = Lookup(MapOf(p.kind), <<p.name>>)
    BY <2>1, KindFacts, Zenon DEF ValueOf
  <2>5. MapOf(p.kind) = input.headers \/ MapOf(p.kind) = input.env
    BY Zenon DEF MapOf
  <2>6. ValueOf(p) = << >> \/ ValueOf(p) \in Range(input.headers) \cup Range(input.env)
    <3>1. PICK map : map = MapOf(p.kind)
      BY Zenon
    <3>2. ValueOf(p) = << >> \/ \E x \in DOMAIN map : ValueOf(p) = map[x]
      BY <2>4, <3>1, Zenon DEF Lookup
    <3> QED BY <2>5, <3>1, <3>2, Zenon DEF Range
  <2>7. ValueOf(p) \in Seq(Atoms) /\ Free(Open, ValueOf(p))
    <3>1. CASE ValueOf(p) = << >>
      <4>1. << >> \in Seq(Atoms) /\ \A j \in 1 .. Len(<< >>) : FALSE
        OBVIOUS
      <4> QED BY <3>1, <4>1, Zenon DEF Free
    <3>2. CASE ValueOf(p) \in Range(input.headers) \cup Range(input.env)
      BY <1>2, <1>3, <3>2, Zenon
    <3> QED BY <2>6, <3>1, <3>2, Zenon
  <2> QED BY <2>1, <2>2, <2>3, <2>4, <2>7, KindFacts, Zenon DEF Understood
<1>6. CASE p \in [kind : ToSet(Stages)]
  <2>1. p.kind \in ToSet(Stages)
    BY <1>6, Zenon
  <2>2. TextOf(p) = <<Open, p.kind, Close>>
    BY <2>1, KindFacts, Zenon DEF TextOf, Open, Close
  <2>3. Generated[p.kind] \in Range(Generated) /\ Generated[p.kind] \in Seq(STRING)
    BY <2>1, GeneratedAssumption, KindFacts, Zenon DEF Range
  <2>4. Generated[p.kind] \in Seq(Atoms) /\ Free(Open, Generated[p.kind])
    BY <1>2, <2>3, Zenon
  <2>5. ValueOf(p) = IF p.kind = "uuid" \/ call = "upstream" THEN Generated[p.kind] ELSE TextOf(p)
    BY <2>1, KindFacts, Zenon DEF ValueOf
  <2> QED BY <2>1, <2>2, <2>4, <2>5, KindFacts, Zenon DEF Understood
<1> QED BY <1>3, <1>4, <1>5, <1>6, Zenon

-----------------------------------------------------------------------------
(* A template some of whose pieces are replaced                            *)

\* The texts of the pieces, those in done replaced.
Substituted(done) ==
  [i \in DOMAIN input.pieces |->
     IF i \in done THEN ValueOf(input.pieces[i]) ELSE TextOf(input.pieces[i])]

\* The pieces of some kinds.
OfKinds(kinds) == {i \in DOMAIN input.pieces : input.pieces[i].kind \in kinds}

\* It is a sequence of texts, one for each piece.
LEMMA SubstitutedType ==
  ASSUME input \in Inputs, NoStrayBraces, NEW done
  PROVE  /\ DOMAIN input.pieces = 1 .. Len(input.pieces) /\ Len(input.pieces) \in Nat
         /\ Substituted(done) \in Seq(Seq(Atoms)) /\ Len(Substituted(done)) = Len(input.pieces)
         /\ \A i \in 1 .. Len(input.pieces) :
              /\ i \in done => Substituted(done)[i] = ValueOf(input.pieces[i])
              /\ i \notin done => Substituted(done)[i] = TextOf(input.pieces[i])
<1> DEFINE n == Len(input.pieces)
<1>1. DOMAIN input.pieces = 1 .. n /\ n \in Nat
  <2>1. PICK P : input.pieces \in Seq(P)
    BY InputsAssumption, Zenon
  <2> QED BY <2>1
<1>2. \A a, b, c \in Atoms : <<a, b, c>> \in Seq(Atoms) /\ \A d \in Atoms : <<a, b, c, d>> \in Seq(Atoms)
  OBVIOUS
<1>3. ASSUME NEW i \in DOMAIN input.pieces
      PROVE  TextOf(input.pieces[i]) \in Seq(Atoms) /\ ValueOf(input.pieces[i]) \in Seq(Atoms)
  <2> DEFINE p == input.pieces[i]
  <2>1. Understood(p)
    BY PieceFacts, Zenon
  <2> HIDE DEF p
  <2>2. ASSUME p.kind = "text" PROVE TextOf(p) \in Seq(Atoms) /\ ValueOf(p) \in Seq(Atoms)
    BY <2>1, <2>2, Zenon DEF Understood
  <2>3. ASSUME p.kind \in Keywords PROVE TextOf(p) \in Seq(Atoms) /\ ValueOf(p) \in Seq(Atoms)
    <3>1. p.kind \in Atoms /\ Open \in Atoms /\ Close \in Atoms
      BY <2>3, AtomFacts, Zenon
    <3>2. <<Open, p.kind, p.name, Close>> \in Seq(Atoms)
      BY <1>2, <2>1, <2>3, <3>1, Zenon DEF Understood
    <3> QED BY <2>1, <2>3, <3>2, Zenon DEF Understood
  <2>4. ASSUME p.kind \in ToSet(Stages) PROVE TextOf(p) \in Seq(Atoms) /\ ValueOf(p) \in Seq(Atoms)
    <3>1. p.kind \in Atoms /\ Open \in Atoms /\ Close \in Atoms
      BY <2>4, AtomFacts, Zenon
    <3>2. <<Open, p.kind, Close>> \in Seq(Atoms)
      BY <1>2, <3>1, Zenon
    <3> QED BY <2>1, <2>4, <3>2, Zenon DEF Understood
  <2>5. TextOf(p) \in Seq(Atoms) /\ ValueOf(p) \in Seq(Atoms)
    BY <2>1, <2>2, <2>3, <2>4, Zenon DEF Understood
  <2> QED BY <2>5, Zenon DEF p
<1>4. Substituted(done) \in [1 .. n -> Seq(Atoms)]
  BY <1>1, <1>3, Zenon DEF Substituted
<1>5. \A t \in [1 .. n -> Seq(Atoms)] : t \in Seq(Seq(Atoms)) /\ Len(t) = n
  BY <1>1
<1>6. \A i \in 1 .. n : /\ i \in done => Substituted(done)[i] = ValueOf(input.pieces[i])
                        /\ i \notin done => Substituted(done)[i] = TextOf(input.pieces[i])
  BY <1>1, Zenon DEF Substituted
<1> QED BY <1>1, <1>4, <1>5, <1>6, Zenon

\* A piece that is replaced, or of another keyword, has no placeholder with
\* this one.
LEMMA PieceSealed ==
  ASSUME input \in Inputs, NoStrayBraces, NEW keyword \in Keywords, NEW done,
         NEW i \in 1 .. Len(input.pieces),
         i \in done => input.pieces[i].kind \in Keywords,
         i \notin done => input.pieces[i].kind # keyword
  PROVE  Sealed(Open, keyword, Substituted(done)[i])
<1> DEFINE p == input.pieces[i]
           t == Substituted(done)[i]
<1>1. DOMAIN input.pieces = 1 .. Len(input.pieces) /\ (i \in done => t = ValueOf(p)) /\ (i \notin done => t = TextOf(p))
  BY SubstitutedType, Zenon
<1>2. Understood(p)
  BY <1>1, PieceFacts, Zenon
<1>3. (i \in done => p.kind \in Keywords) /\ (i \notin done => p.kind # keyword)
  OBVIOUS
<1> HIDE DEF p, t
<1>4. CASE i \in done \/ p.kind = "text"
  <2>1. Free(Open, t)
    BY <1>1, <1>2, <1>3, <1>4, Zenon DEF Understood
  <2>2. Sealed(Open, keyword, t)
    BY <2>1, SealedFree, Zenon
  <2> QED BY <2>2 DEF t
<1>5. CASE i \notin done /\ p.kind \in Keywords
  <2>1. /\ Open \in Atoms /\ Close \in Atoms /\ p.kind \in Atoms /\ Open # Close /\ p.kind # Open
        /\ p.name \in Atoms /\ p.name # Open /\ p.kind # keyword
    BY <1>2, <1>3, <1>5, AtomFacts, Zenon DEF Understood
  <2>2. Sealed(Open, keyword, <<Open, p.kind, p.name, Close>>)
    BY <2>1, SealedOther, Zenon
  <2>3. t = <<Open, p.kind, p.name, Close>>
    BY <1>1, <1>2, <1>5, Zenon DEF Understood
  <2> QED BY <2>2, <2>3, Zenon DEF t
<1>6. CASE i \notin done /\ p.kind \in ToSet(Stages)
  <2>1. /\ Open \in Atoms /\ Close \in Atoms /\ p.kind \in Atoms /\ Open # Close /\ p.kind # Open /\ p.kind # keyword
    BY <1>3, <1>6, AtomFacts, Zenon
  <2>2. Sealed(Open, keyword, <<Open, p.kind, Close>>)
    BY <2>1, SealedOther, Zenon
  <2>3. t = <<Open, p.kind, Close>>
    BY <1>1, <1>2, <1>6, Zenon DEF Understood
  <2> QED BY <2>2, <2>3, Zenon DEF t
<1> QED BY <1>2, <1>4, <1>5, <1>6, Zenon DEF Understood

\* A loop ends when every placeholder with its keyword is replaced.
LEMMA NoneStarts ==
  ASSUME input \in Inputs, NoStrayBraces, NEW keyword \in Keywords, NEW done,
         \A i \in done : i \in OfKinds(Keywords), OfKinds({keyword}) \subseteq done,
         result = FlattenSeq(Substituted(done))
  PROVE  Starts(keyword) = {}
<1>1. /\ DOMAIN input.pieces = 1 .. Len(input.pieces)
      /\ Substituted(done) \in Seq(Seq(Atoms)) /\ Len(Substituted(done)) = Len(input.pieces)
  BY SubstitutedType, Zenon
<1>2. ASSUME NEW i \in 1 .. Len(input.pieces) PROVE Sealed(Open, keyword, Substituted(done)[i])
  <2>1. i \in done => input.pieces[i].kind \in Keywords
    BY Zenon DEF OfKinds
  <2>2. i \notin done => input.pieces[i].kind # keyword
    BY <1>1, Zenon DEF OfKinds
  <2> QED BY <2>1, <2>2, PieceSealed, Zenon
<1>3. \A i \in 1 .. Len(Substituted(done)) : Sealed(Open, keyword, Substituted(done)[i])
  BY <1>1, <1>2, Zenon
<1>4. Sealed(Open, keyword, result)
  BY <1>1, <1>3, SealedAll, Zenon
<1>5. FlattenSeq(Substituted(done)) \in Seq(Atoms)
  BY <1>1, FlattenType, Zenon
<1>6. PICK n : n = Len(result)
  BY Zenon
<1>7. n \in Nat
  <2>1. \A t \in Seq(Atoms) : Len(t) \in Nat
    OBVIOUS
  <2> QED BY <1>5, <1>6, <2>1, Zenon
<1>8. \A i \in 1 .. n - 1 : i \in 1 .. n
  BY <1>7
<1> QED BY <1>4, <1>6, <1>8, Zenon DEF Sealed, Starts, Open

\* Replacing one more piece changes the template there and nowhere else.
LEMMA OneMore ==
  ASSUME input \in Inputs, NoStrayBraces, NEW done, NEW d \in 0 .. Len(input.pieces) - 1
  PROVE  /\ SubSeq(Substituted(done \cup {d + 1}), 1, d) = SubSeq(Substituted(done), 1, d)
         /\ After(Substituted(done \cup {d + 1}), d + 1) = After(Substituted(done), d + 1)
         /\ Substituted(done \cup {d + 1})[d + 1] = ValueOf(input.pieces[d + 1])
<1> DEFINE n == Len(input.pieces)
           C == Substituted(done)
           D == Substituted(done \cup {d + 1})
<1>1. /\ n \in Nat /\ C \in Seq(Seq(Atoms)) /\ Len(C) = n /\ D \in Seq(Seq(Atoms)) /\ Len(D) = n
      /\ \A i \in 1 .. n : /\ i \in done => C[i] = ValueOf(input.pieces[i])
                           /\ i \notin done => C[i] = TextOf(input.pieces[i])
      /\ \A i \in 1 .. n : /\ i \in done \cup {d + 1} => D[i] = ValueOf(input.pieces[i])
                           /\ i \notin done \cup {d + 1} => D[i] = TextOf(input.pieces[i])
  BY SubstitutedType, Zenon
<1> HIDE DEF C, D
<1>2. ASSUME NEW i \in 1 .. n, i # d + 1 PROVE D[i] = C[i]
  BY <1>1, <1>2, Zenon
<1>3. D[d + 1] = ValueOf(input.pieces[d + 1])
  <2>1. d + 1 \in 1 .. n
    BY <1>1
  <2> QED BY <1>1, <2>1, Zenon
<1>4. SubSeq(D, 1, d) = SubSeq(C, 1, d)
  <2>1. \A i \in 1 .. d : i \in 1 .. n /\ i # d + 1
    BY <1>1
  <2>2. \A i \in 1 .. d : D[i] = C[i]
    BY <1>2, <2>1, Zenon
  <2> QED BY <1>1, <2>2
<1>5. After(D, d + 1) = After(C, d + 1)
  <2>1. \A i \in (d + 1) + 1 .. n : i \in 1 .. n /\ i # d + 1
    BY <1>1
  <2>2. \A i \in (d + 1) + 1 .. n : D[i] = C[i]
    BY <1>2, <2>1, Zenon
  <2>3. d + 1 \in 0 .. Len(D)
    BY <1>1
  <2> QED BY <1>1, <2>2, <2>3, AfterEqual
<1> QED BY <1>3, <1>4, <1>5, Zenon DEF C, D

\* The search for a keyword finds the first placeholder with it that is not
\* replaced yet, and its closing brace.
LEMMA FirstLeft ==
  ASSUME input \in Inputs, NoStrayBraces, NEW keyword \in Keywords, NEW done,
         \A i \in done : i \in OfKinds(Keywords),
         result = FlattenSeq(Substituted(done)),
         NEW x \in OfKinds({keyword}), x \notin done
  PROVE  \E d \in 0 .. Len(input.pieces) - 1 :
           /\ d + 1 \in OfKinds({keyword}) /\ d + 1 \notin done
           /\ Splits(result, Open, keyword, Close, FlattenSeq(SubSeq(Substituted(done), 1, d)),
                     input.pieces[d + 1].name, FlattenSeq(After(Substituted(done), d + 1)))
<1> DEFINE n == Len(input.pieces)
           C == Substituted(done)
           left == {i \in 1 .. n : i \in OfKinds({keyword}) /\ i \notin done}
<1>1. /\ DOMAIN input.pieces = 1 .. n /\ n \in Nat /\ C \in Seq(Seq(Atoms)) /\ Len(C) = n
      /\ \A i \in 1 .. n : i \notin done => C[i] = TextOf(input.pieces[i])
  BY SubstitutedType, Zenon
<1>2. left # {}
  BY <1>1, Zenon DEF OfKinds
<1>3. PICK d \in 0 .. n - 1 : d + 1 \in left /\ \A i \in 1 .. d : i \notin left
  <2>1. left \subseteq Nat
    BY <1>1
  <2>2. PICK j \in left : \A i \in left : j <= i
    <3> HIDE DEF left
    <3> QED BY <1>2, <2>1, LeastNat, Zenon
  <2>3. j \in 1 .. n
    BY <2>2
  <2> HIDE DEF left
  <2>4. /\ j - 1 \in 0 .. n - 1 /\ (j - 1) + 1 = j
        /\ \A i \in 1 .. j - 1 : i \notin left
    BY <1>1, <2>2, <2>3
  <2> QED BY <2>2, <2>4, Zenon
<1> DEFINE p == input.pieces[d + 1]
           before == FlattenSeq(SubSeq(C, 1, d))
           rest == FlattenSeq(After(C, d + 1))
<1>4. d + 1 \in 1 .. n /\ d + 1 \notin done /\ p.kind = keyword
  BY <1>3, Zenon DEF OfKinds
<1>5. Understood(p)
  BY <1>1, <1>4, PieceFacts, Zenon
<1>6. C[d + 1] = <<Open, keyword, p.name, Close>>
  BY <1>1, <1>4, <1>5, Zenon DEF Understood
<1>7. /\ SubSeq(C, 1, d) \in Seq(Seq(Atoms)) /\ After(C, d + 1) \in Seq(Seq(Atoms))
      /\ FlattenSeq(C) = before \o (C[d + 1] \o rest)
  <2>1. d \in 0 .. Len(C) - 1
    BY <1>1, Zenon
  <2> HIDE DEF C
  <2> QED BY <1>1, <2>1, FlattenAround
<1>8. before \in Seq(Atoms) /\ rest \in Seq(Atoms)
  BY <1>7, FlattenType, Zenon
<1>9. Sealed(Open, keyword, before)
  <2>1. ASSUME NEW i \in 1 .. d PROVE Sealed(Open, keyword, C[i])
    <3>1. i \in 1 .. n
      BY <1>1
    <3>2. i \in done => input.pieces[i].kind \in Keywords
      BY Zenon DEF OfKinds
    <3>3. i \notin done => input.pieces[i].kind # keyword
      BY <1>1, <1>3, <3>1, Zenon DEF OfKinds
    <3> QED BY <3>1, <3>2, <3>3, PieceSealed, Zenon
  <2>2. Len(SubSeq(C, 1, d)) = d /\ \A i \in 1 .. d : SubSeq(C, 1, d)[i] = C[i]
    <3> HIDE DEF C
    <3> QED BY <1>1
  <2>3. \A i \in 1 .. Len(SubSeq(C, 1, d)) : Sealed(Open, keyword, SubSeq(C, 1, d)[i])
    BY <2>1, <2>2, Zenon
  <2> QED BY <1>7, <2>3, SealedAll, Zenon
<1>10. /\ Open \in Atoms /\ Close \in Atoms /\ keyword \in Atoms /\ p.name \in Atoms
       /\ Open # Close /\ keyword # Close /\ p.name # Close
  BY <1>4, <1>5, AtomFacts, Zenon DEF Understood
<1>11. result = before \o (<<Open, keyword, p.name, Close>> \o rest)
  BY <1>6, <1>7, Zenon
<1>12. Splits(result, Open, keyword, Close, before, p.name, rest)
  <2> HIDE DEF before, rest, p
  <2> QED BY <1>8, <1>9, <1>10, <1>11, FirstPlaceholder, Zenon
<1>13. d + 1 \in OfKinds({keyword}) /\ d + 1 \notin done
  BY <1>3, Zenon
<1> QED BY <1>12, <1>13, Zenon

\* A loop that finds no placeholder has none left to replace.
LEMMA SomeStarts ==
  ASSUME input \in Inputs, NoStrayBraces, NEW keyword \in Keywords, NEW done,
         \A i \in done : i \in OfKinds(Keywords),
         result = FlattenSeq(Substituted(done)),
         NEW x \in OfKinds({keyword}), x \notin done
  PROVE  Starts(keyword) # {}
<1>1. PICK before, name, rest : Splits(result, Open, keyword, Close, before, name, rest)
  BY FirstLeft, Zenon
<1>2. {i \in 1 .. Len(result) - 1 : result[i] = Open /\ result[i + 1] = keyword} # {}
  BY <1>1, Zenon DEF Splits
<1> QED BY <1>2, Zenon DEF Starts, Open

\* One turn of a loop replaces one more placeholder of its keyword, and finds
\* its closing brace.
LEMMA TurnSubstitutes ==
  ASSUME input \in Inputs, NoStrayBraces, NEW keyword \in Keywords, NEW done,
         \A i \in done : i \in OfKinds(Keywords),
         result = FlattenSeq(Substituted(done)), Turn(keyword)
  PROVE  /\ UNCHANGED <<input, call, pc>>
         /\ \E j \in OfKinds({keyword}) \ done : result' = FlattenSeq(Substituted(done \cup {j}))
<1> DEFINE n == Len(input.pieces)
           C == Substituted(done)
<1>1. DOMAIN input.pieces = 1 .. n /\ n \in Nat /\ C \in Seq(Seq(Atoms)) /\ Len(C) = n
  BY SubstitutedType, Zenon
<1>2. PICK x \in OfKinds({keyword}) : x \notin done
  <2>1. Starts(keyword) # {}
    BY Zenon DEF Turn
  <2>2. ~(OfKinds({keyword}) \subseteq done)
    BY <2>1, NoneStarts, Zenon
  <2> QED BY <2>2, Zenon
<1>3. PICK d \in 0 .. n - 1 :
        /\ d + 1 \in OfKinds({keyword}) /\ d + 1 \notin done
        /\ Splits(result, Open, keyword, Close, FlattenSeq(SubSeq(C, 1, d)),
                  input.pieces[d + 1].name, FlattenSeq(After(C, d + 1)))
  BY <1>2, FirstLeft, Zenon
<1> DEFINE p == input.pieces[d + 1]
           D == Substituted(done \cup {d + 1})
           before == FlattenSeq(SubSeq(C, 1, d))
           rest == FlattenSeq(After(C, d + 1))
           starts == {i \in 1 .. Len(result) - 1 : result[i] = Open /\ result[i + 1] = keyword}
           ends == {i \in Min(starts) .. Len(result) : result[i] = Close}
<1>4. d + 1 \in DOMAIN input.pieces /\ p.kind = keyword
  BY <1>3, Zenon DEF OfKinds
<1>5. Understood(p)
  BY <1>4, PieceFacts, Zenon
<1>7. SubSeq(C, 1, d) \in Seq(Seq(Atoms)) /\ After(C, d + 1) \in Seq(Seq(Atoms))
  <2>1. d \in 0 .. Len(C) - 1
    BY <1>1, Zenon
  <2> HIDE DEF C
  <2> QED BY <1>1, <2>1, FlattenAround
<1>8. before \in Seq(Atoms) /\ rest \in Seq(Atoms)
  BY <1>7, FlattenType, Zenon
<1>12. /\ starts # {} /\ ends # {}
       /\ SubSeq(result, 1, Min(starts) - 1) = before
       /\ SubSeq(result, Min(starts) + 2, Min(ends) - 1) = <<p.name>>
       /\ SubSeq(result, Min(ends) + 1, Len(result)) = rest
  BY <1>3, Zenon DEF Splits
<1>13. /\ UNCHANGED <<input, call, pc>>
       /\ result' = (SubSeq(result, 1, Min(starts) - 1)
                     \o Lookup(MapOf(keyword), SubSeq(result, Min(starts) + 2, Min(ends) - 1)))
                    \o SubSeq(result, Min(ends) + 1, Len(result))
  <2>1. starts = Starts(keyword)
    BY Zenon DEF Starts, Open
  <2>2. ends = {i \in Min(Starts(keyword)) .. Len(result) : result[i] = "}"}
    BY <2>1, Zenon DEF Close
  <2>3. ends # {}
    BY <1>12, Zenon
  <2> HIDE DEF starts, ends
  <2> QED BY <2>1, <2>2, <2>3, Zenon DEF Turn
<1>14. result' = (before \o ValueOf(p)) \o rest
  <2>1. ValueOf(p) = Lookup(MapOf(keyword), <<p.name>>)
    BY <1>4, <1>5, Zenon DEF Understood
  <2> HIDE DEF starts, ends, before, rest, p
  <2> QED BY <1>12, <1>13, <2>1, Zenon
<1>15. /\ D \in Seq(Seq(Atoms)) /\ Len(D) = n
  BY SubstitutedType, Zenon
<1>16. FlattenSeq(D) = before \o (ValueOf(p) \o rest)
  <2>1. FlattenSeq(D) = FlattenSeq(SubSeq(D, 1, d)) \o (D[d + 1] \o FlattenSeq(After(D, d + 1)))
    <3>1. d \in 0 .. Len(D) - 1
      BY <1>15, Zenon
    <3> HIDE DEF D
    <3> QED BY <1>15, <3>1, FlattenAround
  <2>2. SubSeq(D, 1, d) = SubSeq(C, 1, d) /\ After(D, d + 1) = After(C, d + 1) /\ D[d + 1] = ValueOf(p)
    BY OneMore, Zenon
  <2> QED BY <2>1, <2>2, Zenon
<1>17. ValueOf(p) \in Seq(Atoms)
  BY <1>4, <1>5, Zenon DEF Understood
<1>18. Associates(before, ValueOf(p), rest)
  BY <1>8, <1>17, Associative, Zenon
<1>19. result' = FlattenSeq(D)
  <2> HIDE DEF before, rest, p, D
  <2> QED BY <1>14, <1>16, <1>18, Zenon DEF Associates
<1>20. d + 1 \in OfKinds({keyword}) \ done
  BY <1>3, Zenon
<1> QED BY <1>13, <1>19, <1>20, Zenon

\* One of the passes after the loops replaces all placeholders of its kind.
LEMMA PassSubstitutes ==
  ASSUME input \in Inputs, NoStrayBraces, NEW stage \in ToSet(Stages), NEW done,
         \A i \in done : input.pieces[i].kind = "text" \/ Free(Open, ValueOf(input.pieces[i])),
         \A i \in done : input.pieces[i].kind # stage,
         OfKinds(Keywords) \subseteq done,
         stage = "uuid" \/ call = "upstream"
  PROVE  StrReplace(Placeholder(stage), Generated[stage], FlattenSeq(Substituted(done)))
           = FlattenSeq(Substituted(done \cup OfKinds({stage})))
<1> DEFINE n == Len(input.pieces)
           C == Substituted(done)
           D == Substituted(done \cup OfKinds({stage}))
           find == <<Open, stage, Close>>
<1>1. /\ DOMAIN input.pieces = 1 .. n /\ n \in Nat
      /\ C \in Seq(Seq(Atoms)) /\ Len(C) = n /\ D \in Seq(Seq(Atoms)) /\ Len(D) = n
      /\ \A i \in 1 .. n : /\ i \in done => C[i] = ValueOf(input.pieces[i])
                           /\ i \notin done => C[i] = TextOf(input.pieces[i])
      /\ \A i \in 1 .. n : /\ i \in done \cup OfKinds({stage}) => D[i] = ValueOf(input.pieces[i])
                           /\ i \notin done \cup OfKinds({stage}) => D[i] = TextOf(input.pieces[i])
  BY SubstitutedType, Zenon
<1>2. Placeholder(stage) = find
  BY Zenon DEF Placeholder, Open, Close
<1>3. stage \in Atoms /\ Open \in Atoms /\ Close \in Atoms /\ Open # Close
  BY AtomFacts, Zenon
<1>4. find \in Seq(Atoms) /\ find # << >> /\ find[1] = Open
  BY <1>3
<1>5. Generated[stage] \in Seq(Atoms)
  BY GeneratedAssumption, AtomFacts, Zenon
<1> HIDE DEF C, D, find
<1>6. ASSUME NEW i \in 1 .. n PROVE Replaces(Atoms, find, Generated[stage], C[i], D[i])
  <2> DEFINE p == input.pieces[i]
  <2>1. Understood(p)
    BY <1>1, PieceFacts, Zenon
  <2>2. ASSUME NEW t \in Seq(Atoms), Free(Open, t)
        PROVE  Replaces(Atoms, find, Generated[stage], t, t)
    <3>1. \A j \in 1 .. Len(t) : t[j] # find[1]
      BY <1>4, <2>2, Zenon DEF Free
    <3> QED BY <1>4, <1>5, <3>1, ReplaceKeeps, Zenon
  <2>3. C[i] \in Seq(Atoms)
    BY <1>1
  <2>4. CASE i \in done
    <3>1. p.kind # stage /\ i \notin OfKinds({stage}) /\ C[i] = ValueOf(p) /\ D[i] = C[i]
      BY <1>1, <2>4, Zenon DEF OfKinds
    <3>2. Free(Open, C[i])
      BY <2>1, <2>4, <3>1, Zenon DEF Understood
    <3> QED BY <2>2, <2>3, <3>1, <3>2, Zenon
  <2>5. CASE i \notin done /\ p.kind = stage
    <3>1. i \in OfKinds({stage})
      BY <1>1, <2>5, Zenon DEF OfKinds
    <3>2. C[i] = find
      BY <1>1, <2>1, <2>5, Zenon DEF Understood, find
    <3>3. D[i] = Generated[stage]
      BY <1>1, <2>1, <2>5, <3>1, Zenon DEF Understood
    <3>4. Replaces(Atoms, find, Generated[stage], find, Generated[stage])
      BY <1>4, <1>5, ReplaceFound, Zenon
    <3> QED BY <3>2, <3>3, <3>4, Zenon
  <2>6. CASE i \notin done /\ p.kind # stage
    <3>1. i \notin OfKinds({stage}) /\ C[i] = TextOf(p) /\ D[i] = C[i]
      BY <1>1, <2>6, Zenon DEF OfKinds
    <3>2. p.kind \notin Keywords
      BY <1>1, <2>6, Zenon DEF OfKinds
    <3>3. CASE p.kind = "text"
      BY <2>1, <2>2, <2>3, <3>1, <3>3, Zenon DEF Understood
    <3>4. CASE p.kind \in ToSet(Stages)
      <4>1. p.kind \in Atoms /\ p.kind # Open
        BY <3>4, AtomFacts, Zenon
      <4>2. C[i] = <<Open, p.kind, Close>>
        BY <2>1, <3>1, <3>4, Zenon DEF Understood
      <4>3. Replaces(Atoms, <<Open, stage, Close>>, Generated[stage], <<Open, p.kind, Close>>, <<Open, p.kind, Close>>)
        BY <1>3, <1>5, <2>6, <4>1, ReplacesOther, Zenon
      <4> QED BY <3>1, <4>2, <4>3, Zenon DEF find
    <3> QED BY <2>1, <3>2, <3>3, <3>4, Zenon DEF Understood
  <2> QED BY <2>4, <2>5, <2>6, Zenon
<1>7. \A i \in 1 .. Len(C) : Replaces(Atoms, find, Generated[stage], C[i], D[i])
  BY <1>1, <1>6, Zenon
<1>8. Len(C) = Len(D)
  BY <1>1, Zenon
<1>9. StrReplace(find, Generated[stage], FlattenSeq(C)) = FlattenSeq(D)
  BY <1>1, <1>4, <1>5, <1>7, <1>8, ReplacesEach
<1> QED BY <1>2, <1>9, Zenon DEF C, D

-----------------------------------------------------------------------------
(* The whole call                                                          *)

\* The kinds that are replaced after k of the passes.
Passed(k) == Keywords \cup {Stages[j] : j \in 1 .. k}

\* How many passes a call makes.
Passes == IF call = "header" THEN 1 ELSE 4

\* Which pieces are replaced, at each point of the call.
Progress(done) ==
  \/ pc = "header." /\ done \subseteq OfKinds({"header."})
  \/ pc = "env." /\ OfKinds({"header."}) \subseteq done /\ done \subseteq OfKinds(Keywords)
  \/ \E k \in 0 .. 3 : pc = Stages[k + 1] /\ k < Passes /\ done = OfKinds(Passed(k))
  \/ pc = "ok" /\ done = OfKinds(Passed(Passes))

\* The text is the template with those pieces replaced.
SubstInv ==
  /\ input \in Inputs /\ call \in {"header", "upstream"}
  /\ NoStrayBraces => \E done : Progress(done) /\ result = FlattenSeq(Substituted(done))

\* The template and its values do not change during a call.
LEMMA Steady ==
  ASSUME input' = input, call' = call
  PROVE  /\ NoStrayBraces' <=> NoStrayBraces
         /\ Passes' = Passes
         /\ \A done : Substituted(done)' = Substituted(done)
         /\ \A kinds : OfKinds(kinds)' = OfKinds(kinds)
<1>1. NoStrayBraces' <=> NoStrayBraces
  BY Zenon DEF NoStrayBraces
<1>2. Passes' = Passes
  BY Zenon DEF Passes
<1>3. ASSUME NEW p PROVE ValueOf(p)' = ValueOf(p)
  BY Zenon DEF ValueOf, MapOf
<1>4. ASSUME NEW done PROVE Substituted(done)' = Substituted(done)
  BY <1>3, Zenon DEF Substituted
<1>5. ASSUME NEW kinds PROVE OfKinds(kinds)' = OfKinds(kinds)
  BY Zenon DEF OfKinds
<1> QED BY <1>1, <1>2, <1>4, <1>5, Zenon

\* The kinds after each pass.
LEMMA PassedFacts ==
  /\ Passed(0) = Keywords
  /\ \A k \in 0 .. 3 : /\ Stages[k + 1] \in ToSet(Stages) /\ Stages[k + 1] \notin Passed(k)
                       /\ Passed(k + 1) = Passed(k) \cup {Stages[k + 1]}
                       /\ Passed(k) \subseteq Keywords \cup ToSet(Stages)
                       /\ k # 0 => Stages[k + 1] # "uuid"
                       /\ k = 0 => Stages[k + 1] = "uuid"
                       /\ Stages[k + 1] \notin {"header.", "env.", "ok", "err"}
  /\ "uuid" \in Passed(1) /\ Passed(4) = Keywords \cup ToSet(Stages)
<1>1. ToSet(Stages) = {"uuid", "upstream_host", "request.uri", "remote_ip"}
  BY KindFacts, Zenon
<1>2. Stages[1] = "uuid" /\ Stages[2] = "upstream_host" /\ Stages[3] = "request.uri" /\ Stages[4] = "remote_ip"
  BY DEF Stages
<1>3. 1 .. 0 = {} /\ 1 .. 1 = {1} /\ 1 .. 2 = {1, 2} /\ 1 .. 3 = {1, 2, 3} /\ 1 .. 4 = {1, 2, 3, 4}
  OBVIOUS
<1>4. /\ Passed(0) = Keywords /\ Passed(1) = Keywords \cup {"uuid"}
      /\ Passed(2) = Keywords \cup {"uuid", "upstream_host"}
      /\ Passed(3) = Keywords \cup {"uuid", "upstream_host", "request.uri"}
      /\ Passed(4) = Keywords \cup ToSet(Stages)
  BY <1>1, <1>2, <1>3 DEF Passed
<1>5. ASSUME NEW k \in 0 .. 3
      PROVE  /\ Stages[k + 1] \in ToSet(Stages) /\ Stages[k + 1] \notin Passed(k)
             /\ Passed(k + 1) = Passed(k) \cup {Stages[k + 1]}
             /\ Passed(k) \subseteq Keywords \cup ToSet(Stages)
             /\ k # 0 => Stages[k + 1] # "uuid"
             /\ k = 0 => Stages[k + 1] = "uuid"
             /\ Stages[k + 1] \notin {"header.", "env.", "ok", "err"}
  <2>1. k = 0 \/ k = 1 \/ k = 2 \/ k = 3
    OBVIOUS
  <2>2. CASE k = 0
    BY <1>1, <1>2, <1>4, <2>2 DEF Keywords
  <2>3. CASE k = 1
    BY <1>1, <1>2, <1>4, <2>3 DEF Keywords
  <2>4. CASE k = 2
    BY <1>1, <1>2, <1>4, <2>4 DEF Keywords
  <2>5. CASE k = 3
    BY <1>1, <1>2, <1>4, <2>5 DEF Keywords
  <2> QED BY <2>1, <2>2, <2>3, <2>4, <2>5
<1> QED BY <1>4, <1>5, Zenon

\* Which case of Progress holds where.
LEMMA ProgressAt ==
  ASSUME NEW done, Progress(done)
  PROVE  /\ pc # "err"
         /\ pc = "header." => done \subseteq OfKinds({"header."})
         /\ pc = "env." => OfKinds({"header."}) \subseteq done /\ done \subseteq OfKinds(Keywords)
         /\ pc = "ok" => done = OfKinds(Passed(Passes))
         /\ \A k \in 0 .. 3 : pc = Stages[k + 1] => k < Passes /\ done = OfKinds(Passed(k))
<1>1. \A k, m \in 0 .. 3 : Stages[k + 1] = Stages[m + 1] => k = m
  <2>1. Stages[1] = "uuid" /\ Stages[2] = "upstream_host" /\ Stages[3] = "request.uri" /\ Stages[4] = "remote_ip"
    BY DEF Stages
  <2>2. \A k \in 0 .. 3 : k = 0 \/ k = 1 \/ k = 2 \/ k = 3
    OBVIOUS
  <2> QED BY <2>1, <2>2
<1>2. \A k \in 0 .. 3 : /\ Stages[k + 1] # "header." /\ Stages[k + 1] # "env."
                        /\ Stages[k + 1] # "ok" /\ Stages[k + 1] # "err"
  BY PassedFacts, Zenon
<1> QED BY <1>1, <1>2, Zenon DEF Progress

\* At the start nothing is replaced.
LEMMA SubstInit == Init => SubstInv
<1> SUFFICES ASSUME Init PROVE SubstInv
  OBVIOUS
<1>1. Substituted({}) = [i \in DOMAIN input.pieces |-> TextOf(input.pieces[i])]
  BY Zenon DEF Substituted
<1>2. Progress({}) /\ result = FlattenSeq(Substituted({}))
  BY <1>1, Zenon DEF Init, Progress
<1> QED BY <1>2, Zenon DEF Init, SubstInv

\* A turn of either loop.
LEMMA SubstTurn ==
  ASSUME SubstInv, NEW keyword \in Keywords, Turn(keyword)
  PROVE  SubstInv'
<1>1. input' = input /\ call' = call /\ pc = keyword
  BY Zenon DEF Turn
<1>2. input' \in Inputs /\ call' \in {"header", "upstream"}
  BY <1>1, Zenon DEF SubstInv
<1>3. ASSUME NoStrayBraces PROVE \E done : Progress(done)' /\ result' = FlattenSeq(Substituted(done))
  <2>1. PICK done : Progress(done) /\ result = FlattenSeq(Substituted(done))
    BY <1>3, Zenon DEF SubstInv
  <2>2. CASE keyword = "header."
    <3>1. done \subseteq OfKinds({"header."})
      BY <1>1, <2>1, <2>2, ProgressAt, Zenon
    <3>2. \A i \in done : i \in OfKinds(Keywords)
      BY <3>1, Zenon DEF OfKinds, Keywords
    <3>3. PICK j \in OfKinds({keyword}) \ done : result' = FlattenSeq(Substituted(done \cup {j})) /\ pc' = pc
      BY <1>3, <2>1, <3>2, TurnSubstitutes, Zenon DEF SubstInv
    <3>4. OfKinds({"header."})' = OfKinds({"header."})
      BY <1>1, Steady, Zenon
    <3>5. Progress(done \cup {j})'
      BY <1>1, <2>2, <3>1, <3>3, <3>4, Zenon DEF Progress
    <3> QED BY <3>3, <3>5, Zenon
  <2>3. CASE keyword = "env."
    <3>1. OfKinds({"header."}) \subseteq done /\ done \subseteq OfKinds(Keywords)
      BY <1>1, <2>1, <2>3, ProgressAt, Zenon
    <3>2. \A i \in done : i \in OfKinds(Keywords)
      BY <3>1, Zenon
    <3>3. PICK j \in OfKinds({keyword}) \ done : result' = FlattenSeq(Substituted(done \cup {j})) /\ pc' = pc
      BY <1>3, <2>1, <3>2, TurnSubstitutes, Zenon DEF SubstInv
    <3>4. OfKinds({"header."})' = OfKinds({"header."}) /\ OfKinds(Keywords)' = OfKinds(Keywords)
      BY <1>1, Steady, Zenon
    <3>5. j \in OfKinds(Keywords)
      BY <3>3, Zenon DEF OfKinds
    <3>6. Progress(done \cup {j})'
      BY <1>1, <2>3, <3>1, <3>3, <3>4, <3>5, Zenon DEF Progress
    <3> QED BY <3>3, <3>6, Zenon
  <2> QED BY <2>2, <2>3, Zenon DEF Keywords
<1>4. NoStrayBraces' <=> NoStrayBraces
  BY <1>1, Steady, Zenon
<1>5. \A done : Substituted(done)' = Substituted(done)
  BY <1>1, Steady, Zenon
<1> QED BY <1>2, <1>3, <1>4, <1>5, Zenon DEF SubstInv

\* The end of either loop: all its placeholders are replaced.
LEMMA SubstLoopEnds ==
  ASSUME SubstInv, LoopEnds("header.", "env.") \/ LoopEnds("env.", "uuid")
  PROVE  SubstInv'
<1>1. input' = input /\ call' = call /\ result' = result
  BY Zenon DEF LoopEnds
<1>2. input' \in Inputs /\ call' \in {"header", "upstream"}
  BY <1>1, Zenon DEF SubstInv
<1>3. /\ NoStrayBraces' <=> NoStrayBraces
      /\ Passes' = Passes
      /\ \A done : Substituted(done)' = Substituted(done)
      /\ \A kinds : OfKinds(kinds)' = OfKinds(kinds)
  BY <1>1, Steady, Zenon
<1>4. ASSUME NEW keyword \in Keywords, NEW done, NoStrayBraces, Starts(keyword) = {},
             \A i \in done : i \in OfKinds(Keywords), result = FlattenSeq(Substituted(done))
      PROVE  OfKinds({keyword}) \subseteq done
  <2> SUFFICES ASSUME NEW x \in OfKinds({keyword}), x \notin done PROVE FALSE
    BY Zenon
  <2>1. Starts(keyword) # {}
    BY <1>4, SomeStarts, Zenon DEF SubstInv
  <2> QED BY <1>4, <2>1, Zenon
<1>5. ASSUME NoStrayBraces PROVE \E done : Progress(done)' /\ result = FlattenSeq(Substituted(done))
  <2>1. PICK done : Progress(done) /\ result = FlattenSeq(Substituted(done))
    BY <1>5, Zenon DEF SubstInv
  <2>2. CASE LoopEnds("header.", "env.")
    <3>1. done \subseteq OfKinds({"header."}) /\ pc' = "env."
      BY <2>1, <2>2, ProgressAt, Zenon DEF LoopEnds
    <3>2. done \subseteq OfKinds(Keywords)
      BY <3>1, Zenon DEF OfKinds, Keywords
    <3>3. OfKinds({"header."}) \subseteq done
      BY <1>4, <1>5, <2>1, <2>2, <3>2, Zenon DEF LoopEnds, Keywords
    <3>4. Progress(done)'
      BY <1>3, <3>1, <3>2, <3>3, Zenon DEF Progress
    <3> QED BY <2>1, <3>4, Zenon
  <2>3. CASE LoopEnds("env.", "uuid")
    <3>1. OfKinds({"header."}) \subseteq done /\ done \subseteq OfKinds(Keywords) /\ pc' = "uuid"
      BY <2>1, <2>3, ProgressAt, Zenon DEF LoopEnds
    <3>2. OfKinds({"env."}) \subseteq done
      BY <1>4, <1>5, <2>1, <2>3, <3>1, Zenon DEF LoopEnds, Keywords
    <3>3. OfKinds(Keywords) \subseteq done
      BY <3>1, <3>2, Zenon DEF OfKinds, Keywords
    <3>4. done = OfKinds(Passed(0))
      BY <3>1, <3>3, PassedFacts, Zenon
    <3>5. 0 \in 0 .. 3 /\ 0 + 1 = 1 /\ Stages[0 + 1] = "uuid"
      BY DEF Stages
    <3>6. 0 < Passes
      <4>1. 0 < 1 /\ 0 < 4
        OBVIOUS
      <4> QED BY <4>1, Zenon DEF Passes
    <3>7. Progress(done)'
      BY <1>3, <3>1, <3>4, <3>5, <3>6, Zenon DEF Progress
    <3> QED BY <2>1, <3>7, Zenon
  <2> QED BY <2>2, <2>3, Zenon
<1> QED BY <1>1, <1>2, <1>3, <1>5, Zenon DEF SubstInv

\* A pass after the loops.
LEMMA SubstReplace ==
  ASSUME SubstInv, NEW m \in DOMAIN Stages, Replace(m)
  PROVE  SubstInv'
<1>1. PICK k \in 0 .. 3 : m = k + 1 /\ (k + 1 = 4 <=> k = 3)
  <2>1. DOMAIN Stages = 1 .. 4
    BY DEF Stages
  <2>2. m - 1 \in 0 .. 3 /\ m = (m - 1) + 1 /\ ((m - 1) + 1 = 4 <=> m - 1 = 3)
    BY <2>1
  <2> QED BY <2>2
<1>2. /\ input' = input /\ call' = call /\ pc = Stages[k + 1] /\ pc' = NextStage(k + 1)
      /\ result' = StrReplace(Placeholder(Stages[k + 1]), Generated[Stages[k + 1]], result)
  BY <1>1, Zenon DEF Replace
<1>3. input' \in Inputs /\ call' \in {"header", "upstream"}
  BY <1>2, Zenon DEF SubstInv
<1>4. /\ NoStrayBraces' <=> NoStrayBraces
      /\ Passes' = Passes
      /\ \A done : Substituted(done)' = Substituted(done)
      /\ \A kinds : OfKinds(kinds)' = OfKinds(kinds)
  BY <1>2, Steady, Zenon
<1>5. ASSUME NoStrayBraces PROVE \E done : Progress(done)' /\ result' = FlattenSeq(Substituted(done))
  <2>1. PICK done : Progress(done) /\ result = FlattenSeq(Substituted(done))
    BY <1>5, Zenon DEF SubstInv
  <2>2. k < Passes /\ done = OfKinds(Passed(k))
    BY <1>2, <2>1, ProgressAt, Zenon
  <2> DEFINE stage == Stages[k + 1]
  <2>3. /\ stage \in ToSet(Stages) /\ stage \notin Passed(k)
        /\ Passed(k + 1) = Passed(k) \cup {stage}
        /\ Passed(k) \subseteq Keywords \cup ToSet(Stages)
        /\ Keywords \subseteq Passed(k)
    BY PassedFacts, Zenon DEF Passed
  <2>4. k # 0 => call = "upstream"
    <3>1. k # 0 => ~(k < 1)
      OBVIOUS
    <3> QED BY <2>2, <3>1, Zenon DEF Passes, SubstInv
  <2>5. stage = "uuid" \/ call = "upstream"
    <3>1. k = 0 => stage = "uuid"
      BY PassedFacts, Zenon
    <3> QED BY <2>4, <3>1, Zenon
  <2>6. ASSUME NEW i \in done
        PROVE  /\ input.pieces[i].kind # stage
               /\ input.pieces[i].kind = "text" \/ Free(Open, ValueOf(input.pieces[i]))
    <3>1. i \in DOMAIN input.pieces /\ input.pieces[i].kind \in Passed(k)
      BY <2>2, <2>6, Zenon DEF OfKinds
    <3>2. Understood(input.pieces[i])
      BY <1>5, <3>1, PieceFacts, Zenon DEF SubstInv
    <3>3. CASE input.pieces[i].kind \in Keywords
      BY <2>3, <3>1, <3>2, <3>3, Zenon DEF Understood
    <3>4. CASE input.pieces[i].kind \in ToSet(Stages)
      <4>1. input.pieces[i].kind = "uuid" \/ call = "upstream"
        <5>1. CASE k = 0
          BY <3>1, <3>4, <5>1, PassedFacts, KindFacts, Zenon
        <5> QED BY <2>4, <5>1, Zenon
      <4> QED BY <2>3, <3>1, <3>2, <3>4, <4>1, Zenon DEF Understood
    <3> QED BY <2>3, <3>1, <3>3, <3>4, Zenon
  <2>7. OfKinds(Keywords) \subseteq done
    BY <2>2, <2>3, Zenon DEF OfKinds
  <2>8. result' = FlattenSeq(Substituted(done \cup OfKinds({stage})))
    <3> HIDE DEF stage
    <3>1. \A i \in done : input.pieces[i].kind # stage
      BY <2>6, Zenon
    <3>2. \A i \in done : input.pieces[i].kind = "text" \/ Free(Open, ValueOf(input.pieces[i]))
      BY <2>6, Zenon
    <3>3. StrReplace(Placeholder(stage), Generated[stage], FlattenSeq(Substituted(done)))
            = FlattenSeq(Substituted(done \cup OfKinds({stage})))
      BY <1>5, <2>3, <2>5, <2>7, <3>1, <3>2, PassSubstitutes, Zenon DEF SubstInv
    <3>4. result' = StrReplace(Placeholder(stage), Generated[stage], result)
      BY <1>2, Zenon DEF stage
    <3> QED BY <2>1, <3>3, <3>4, Zenon
  <2>9. done \cup OfKinds({stage}) = OfKinds(Passed(k + 1))
    BY <2>2, <2>3, Zenon DEF OfKinds
  <2>10. Progress(OfKinds(Passed(k + 1)))'
    <3>1. CASE call = "header"
      <4>1. Passes = 1 /\ pc' = "ok"
        BY <1>2, <3>1, Zenon DEF Passes, NextStage
      <4>2. k + 1 = 1
        BY <2>2, <4>1
      <4> QED BY <1>4, <4>1, <4>2, Zenon DEF Progress
    <3>2. CASE call = "upstream"
      <4>1. Passes = 4 /\ Len(Stages) = 4
        <5>1. Passes = 4
          BY <3>2, Zenon DEF Passes
        <5>2. Len(Stages) = 4
          BY DEF Stages
        <5> QED BY <5>1, <5>2
      <4>2. CASE k = 3
        <5>1. k + 1 = 4 /\ pc' = "ok"
          BY <1>1, <1>2, <4>1, <4>2, Zenon DEF NextStage
        <5> QED BY <1>4, <4>1, <5>1, Zenon DEF Progress
      <4>3. CASE k # 3
        <5>1. k + 1 # 4 /\ k + 1 \in 0 .. 3 /\ k + 1 < 4
          BY <4>3
        <5>2. pc' = Stages[(k + 1) + 1]
          BY <1>2, <3>2, <4>1, <5>1, Zenon DEF NextStage
        <5> QED BY <1>4, <4>1, <5>1, <5>2, Zenon DEF Progress
      <4> QED BY <4>2, <4>3
    <3> QED BY <3>1, <3>2, Zenon DEF SubstInv
  <2> QED BY <2>8, <2>9, <2>10, <1>4, Zenon
<1> QED BY <1>3, <1>4, <1>5, Zenon DEF SubstInv

\* SubstInv is an invariant.
LEMMA SubstHolds == Spec => []SubstInv
<1>1. SubstInv /\ [Next]_vars => SubstInv'
  <2> SUFFICES ASSUME SubstInv, [Next]_vars PROVE SubstInv'
    OBVIOUS
  <2>1. CASE Turn("header.") \/ Turn("env.")
    BY <2>1, SubstTurn, Zenon DEF Keywords
  <2>2. CASE LoopEnds("header.", "env.") \/ LoopEnds("env.", "uuid")
    BY <2>2, SubstLoopEnds, Zenon
  <2>3. CASE \E k \in DOMAIN Stages : Replace(k)
    BY <2>3, SubstReplace, Zenon
  <2>4. CASE UNCHANGED vars
    <3>1. input' = input /\ call' = call /\ pc' = pc /\ result' = result
      BY <2>4, Zenon DEF vars
    <3>2. /\ NoStrayBraces' <=> NoStrayBraces
          /\ Passes' = Passes
          /\ \A done : Substituted(done)' = Substituted(done)
          /\ \A kinds : OfKinds(kinds)' = OfKinds(kinds)
      BY <3>1, Steady, Zenon
    <3>3. ASSUME NEW done, Progress(done) PROVE Progress(done)'
      BY <3>1, <3>2, <3>3, Zenon DEF Progress
    <3> QED BY <3>1, <3>2, <3>3, Zenon DEF SubstInv
  <2> QED BY <2>1, <2>2, <2>3, <2>4, Zenon DEF Next
<1> QED BY <1>1, SubstInit, PTL DEF Spec

\* Replacing the first placeholder again and again gives what replacing all of
\* them at once would, and is no error, for any template and any values that
\* open no brace: a loop only ever finds placeholders of the template, because
\* what it inserts cannot start one, alone or together with its neighbours.
THEOREM SubstitutionSafe == Spec => []SubstitutesAsWritten
<1>1. SubstInv => SubstitutesAsWritten
  <2> SUFFICES ASSUME SubstInv, NoStrayBraces
               PROVE  /\ pc # "err"
                      /\ pc = "ok" => result = FlattenSeq([i \in DOMAIN input.pieces |-> ValueOf(input.pieces[i])])
    BY Zenon DEF SubstitutesAsWritten
  <2>1. PICK done : Progress(done) /\ result = FlattenSeq(Substituted(done))
    BY Zenon DEF SubstInv
  <2>2. pc # "err" /\ (pc = "ok" => done = OfKinds(Passed(Passes)))
    BY <2>1, ProgressAt, Zenon
  <2>3. ASSUME pc = "ok", NEW i \in DOMAIN input.pieces
        PROVE  (IF i \in done THEN ValueOf(input.pieces[i]) ELSE TextOf(input.pieces[i])) = ValueOf(input.pieces[i])
    <3>1. CASE i \in done
      BY <3>1, Zenon
    <3>2. CASE i \notin done
      <4>1. Understood(input.pieces[i])
        BY PieceFacts, Zenon DEF SubstInv
      <4>2. input.pieces[i].kind \notin Passed(Passes)
        BY <2>2, <2>3, <3>2, Zenon DEF OfKinds
      <4>3. input.pieces[i].kind \notin Keywords
        BY <4>2, Zenon DEF Passed
      <4>4. ASSUME input.pieces[i].kind \in ToSet(Stages)
            PROVE  ~(input.pieces[i].kind = "uuid" \/ call = "upstream")
        <5>1. CASE call = "header"
          BY <4>2, <5>1, PassedFacts, Zenon DEF Passes
        <5>2. CASE call = "upstream"
          BY <4>2, <4>4, <5>2, PassedFacts, Zenon DEF Passes
        <5> QED BY <5>1, <5>2, Zenon DEF SubstInv
      <4>5. ValueOf(input.pieces[i]) = TextOf(input.pieces[i])
        BY <4>1, <4>3, <4>4, Zenon DEF Understood
      <4> QED BY <3>2, <4>5, Zenon
    <3> QED BY <3>1, <3>2
  <2>4. pc = "ok" => Substituted(done) = [i \in DOMAIN input.pieces |-> ValueOf(input.pieces[i])]
    BY <2>3, Zenon DEF Substituted
  <2> QED BY <2>1, <2>2, <2>4, Zenon
<1> QED BY <1>1, SubstHolds, PTL
=============================================================================
