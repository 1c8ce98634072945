---------------------------- MODULE Text_proofs ----------------------------
(***************************************************************************)
(* What the recursive functions on texts compute, for texts of any length: *)
(* FlattenSeq, which puts a text together from its parts, and StrReplace,  *)
(* the scan of str::replace.  Each is shown to be the one function that    *)
(* satisfies its recursion, and that function exists.                      *)
(*                                                                         *)
(* The induction is over a set of numbers, the ones that have the property *)
(* in question: its rule follows from the well-foundedness of < on Nat.    *)
(***************************************************************************)
EXTENDS PathRewrite, SequenceTheorems, WellFoundedInduction, TLAPS

\* Every nonempty set of numbers has a least one.
LEMMA LeastNat == ASSUME NEW S, S \subseteq Nat, S # {} PROVE \E n \in S : \A m \in S : n <= m
<1> DEFINE R == {ss \in Nat \X Nat : ss[1] < ss[2]}
<1>1. IsWellFoundedOn(R, Nat)
  BY NatLessThanWellFounded DEF OpToRel
<1>2. PICK n \in S : \A m \in S : ~(<<m, n>> \in R)
  BY <1>1, WFMin, Zenon
<1>3. ASSUME NEW m \in S PROVE n <= m
  <2>1. m \in Nat /\ n \in Nat /\ ~(<<m, n>> \in R)
    BY <1>2
  <2>2. m < n => <<m, n>> \in R
    BY <2>1
  <2> QED BY <2>1, <2>2
<1> QED BY <1>3

\* Induction, for a property given as the set of numbers that have it.
LEMMA Induct == ASSUME NEW S, 0 \in S, \A n \in Nat : n \in S => n + 1 \in S PROVE Nat \subseteq S
<1> SUFFICES ASSUME Nat \ S # {} PROVE FALSE
  OBVIOUS
<1>1. PICK n \in Nat \ S : \A m \in Nat \ S : n <= m
  BY LeastNat
<1>2. n # 0 /\ n - 1 \in Nat
  BY <1>1
<1>3. n - 1 \in S
  BY <1>1, <1>2
<1> QED BY <1>1, <1>2, <1>3

\* Two ways to put three texts together.
Associates(a, b, c) == (a \o b) \o c = a \o (b \o c)

\* For sequences it always does.
LEMMA Associative ==
  ASSUME NEW A, NEW a \in Seq(A), NEW b \in Seq(A), NEW c \in Seq(A)
  PROVE  Associates(a, b, c)
BY SMT DEF Associates

-----------------------------------------------------------------------------
(* FlattenSeq                                                              *)

\* What has been put together after each of the sequences of s.
Partials(A, s, f) ==
  /\ f \in [0 .. Len(s) -> Seq(A)] /\ f[0] = << >>
  /\ \A i \in 0 .. Len(s) - 1 : f[i + 1] = f[i] \o s[i + 1]

\* It exists.
LEMMA PartialsExist ==
  ASSUME NEW A, NEW s \in Seq(Seq(A))
  PROVE  \E f : Partials(A, s, f)
<1> DEFINE P(n, f) == /\ f \in [0 .. n -> Seq(A)] /\ f[0] = << >>
                      /\ \A i \in 0 .. n - 1 : f[i + 1] = f[i] \o s[i + 1]
           S == {n \in Nat : n <= Len(s) => \E f : P(n, f)}
<1>1. 0 \in S
  <2>1. P(0, [i \in 0 .. 0 |-> << >>])
    OBVIOUS
  <2> HIDE DEF P
  <2> QED BY <2>1
<1>2. ASSUME NEW n \in Nat, n \in S, n + 1 <= Len(s) PROVE \E f : P(n + 1, f)
  <2>1. PICK f : P(n, f)
    <3>1. n <= Len(s)
      BY <1>2
    <3> HIDE DEF P
    <3> QED BY <1>2, <3>1, Zenon
  <2> DEFINE g == [i \in 0 .. n + 1 |-> IF i = n + 1 THEN f[n] \o s[n + 1] ELSE f[i]]
  <2>2. f[n] \in Seq(A) /\ s[n + 1] \in Seq(A)
    BY <1>2, <2>1
  <2>3. f[n] \o s[n + 1] \in Seq(A)
    BY <2>2
  <2>4. g \in [0 .. n + 1 -> Seq(A)]
    BY <2>1, <2>3
  <2>5. g[n + 1] = f[n] \o s[n + 1] /\ \A i \in 0 .. n : g[i] = f[i]
    <3>1. n + 1 \in 0 .. n + 1 /\ \A i \in 0 .. n : i \in 0 .. n + 1 /\ i # n + 1
      OBVIOUS
    <3> QED BY <3>1, Zenon
  <2> HIDE DEF g
  <2>6. ASSUME NEW i \in 0 .. n PROVE g[i + 1] = g[i] \o s[i + 1]
    <3>1. CASE i = n
      BY <2>5, <3>1
    <3>2. CASE i # n
      <4>1. i \in 0 .. n - 1 /\ i + 1 \in 0 .. n
        BY <3>2
      <4>2. f[i + 1] = f[i] \o s[i + 1]
        BY <2>1, <4>1, Zenon
      <4> QED BY <2>5, <4>1, <4>2
    <3> QED BY <3>1, <3>2
  <2>7. g[0] = << >>
    BY <2>1, <2>5
  <2>8. (n + 1) - 1 = n
    OBVIOUS
  <2>9. P(n + 1, g)
    BY <2>4, <2>6, <2>7, <2>8, Zenon
  <2> HIDE DEF P
  <2> QED BY <2>9
<1>3. \A n \in Nat : n \in S => n + 1 \in S
  <2>1. \A n \in Nat : n + 1 \in Nat
    OBVIOUS
  <2> HIDE DEF P
  <2> QED BY <1>2, <2>1, Zenon
<1>4. Len(s) \in S
  <2> HIDE DEF S
  <2>1. Len(s) \in Nat
    OBVIOUS
  <2> QED BY <1>1, <1>3, <2>1, Induct
<1>5. PICK f : P(Len(s), f)
  <2> HIDE DEF P
  <2> QED BY <1>4
<1> QED BY <1>5, Zenon DEF Partials

\* The recursive function of FlattenSeq computes it.
LEMMA FlattenIs ==
  ASSUME NEW A, NEW s \in Seq(Seq(A)), NEW f, Partials(A, s, f)
  PROVE  FlattenSeq(s) = f[Len(s)]
<1>1. CASE s = << >>
  <2>1. Len(s) = 0 /\ FlattenSeq(s) = << >>
    BY <1>1 DEF FlattenSeq
  <2> QED BY <2>1 DEF Partials
<1>2. CASE s # << >>
  <2> DEFINE G(g) == [i \in 1 .. Len(s) |-> IF i = 1 THEN s[i] ELSE g[i - 1] \o s[i]]
             g == CHOOSE g : g = G(g)
             f1 == [i \in 1 .. Len(s) |-> f[i]]
             h == [i \in 0 .. Len(s) |-> IF i = 0 THEN << >> ELSE g[i]]
  <2>1. Len(s) \in Nat \ {0}
    BY <1>2, EmptySeq, Zenon
  <2>2. f1 = G(f1)
    <3>1. ASSUME NEW i \in 1 .. Len(s) PROVE f[i] = IF i = 1 THEN s[i] ELSE f1[i - 1] \o s[i]
      <4>1. PICK j \in 0 .. Len(s) - 1 : i = j + 1
        BY <2>1
      <4>2. f[i] = f[j] \o s[i] /\ j = i - 1
        <5>1. f[j + 1] = f[j] \o s[j + 1]
          BY <4>1, Zenon DEF Partials
        <5> QED BY <4>1, <5>1
      <4>3. CASE i = 1
        <5>1. f[j] = << >> /\ s[i] \in Seq(A)
          BY <4>2, <4>3 DEF Partials
        <5>2. f[i] = s[i]
          BY <4>2, <5>1
        <5> QED BY <4>3, <5>2
      <4>4. CASE i # 1
        <5>1. f1[j] = f[j]
          BY <4>1, <4>2, <4>4
        <5> QED BY <4>2, <4>4, <5>1, Zenon
      <4> QED BY <4>3, <4>4
    <3> QED BY <3>1, Zenon
  <2>3. g = G(g)
    BY <2>2, Zenon
  <2>4. FlattenSeq(s) = g[Len(s)]
    BY <2>1, Zenon DEF FlattenSeq
  <2> HIDE DEF g
  <2>5. \A i \in 1 .. Len(s) : g[i] = IF i = 1 THEN s[i] ELSE g[i - 1] \o s[i]
    BY <2>3, Zenon
  <2> DEFINE S == {n \in Nat : n + 1 <= Len(s) => g[n + 1] = f[n + 1]}
  <2>6. 0 \in S
    <3>1. 1 \in 1 .. Len(s) /\ 0 \in 0 .. Len(s) - 1 /\ 0 + 1 = 1
      BY <2>1
    <3>2. g[1] = s[1] /\ f[1] = << >> \o s[1] /\ s[1] \in Seq(A)
      <4>1. g[1] = s[1]
        BY <2>5, <3>1, Zenon
      <4>2. f[0 + 1] = f[0] \o s[0 + 1] /\ f[0] = << >>
        BY <3>1, Zenon DEF Partials
      <4>3. s[1] \in Seq(A)
        BY <3>1
      <4> QED BY <3>1, <4>1, <4>2, <4>3, Zenon
    <3>3. g[0 + 1] = f[0 + 1]
      BY <3>1, <3>2
    <3> QED BY <3>3
  <2>7. ASSUME NEW n \in Nat, n \in S, n + 2 <= Len(s) PROVE g[n + 2] = f[n + 2]
    <3>1. /\ n + 2 \in 1 .. Len(s) /\ n + 1 \in 0 .. Len(s) - 1 /\ n + 2 # 1
          /\ (n + 2) - 1 = n + 1 /\ (n + 1) + 1 = n + 2
      BY <2>7
    <3>2. g[n + 2] = g[n + 1] \o s[n + 2]
      <4>1. g[n + 2] = IF n + 2 = 1 THEN s[n + 2] ELSE g[(n + 2) - 1] \o s[n + 2]
        BY <2>5, <3>1, Zenon
      <4> QED BY <3>1, <4>1, Zenon
    <3>3. f[n + 2] = f[n + 1] \o s[n + 2]
      <4>1. f[(n + 1) + 1] = f[n + 1] \o s[(n + 1) + 1]
        BY <3>1, Zenon DEF Partials
      <4> QED BY <3>1, <4>1, Zenon
    <3>4. g[n + 1] = f[n + 1]
      BY <2>7
    <3> QED BY <3>2, <3>3, <3>4, Zenon
  <2>8. \A n \in Nat : n \in S => n + 1 \in S
    BY <2>7
  <2>9. Len(s) - 1 \in S
    <3> HIDE DEF S
    <3>1. Len(s) - 1 \in Nat
      BY <2>1
    <3> QED BY <2>6, <2>8, <3>1, Induct
  <2> QED BY <2>1, <2>4, <2>9
<1> QED BY <1>1, <1>2

\* The parts of a text make a text.
LEMMA FlattenType ==
  ASSUME NEW A, NEW s \in Seq(Seq(A))
  PROVE  FlattenSeq(s) \in Seq(A)
<1>1. PICK f : Partials(A, s, f)
  BY PartialsExist, Zenon
<1>2. FlattenSeq(s) = f[Len(s)]
  BY <1>1, FlattenIs, Zenon
<1> QED BY <1>1, <1>2 DEF Partials

\* No parts.
LEMMA FlattenEmpty == FlattenSeq(<< >>) = << >>
BY DEF FlattenSeq

\* Flattening a concatenation.
LEMMA FlattenConcat ==
  ASSUME NEW A, NEW s \in Seq(Seq(A)), NEW t \in Seq(Seq(A))
  PROVE  FlattenSeq(s \o t) = FlattenSeq(s) \o FlattenSeq(t)
<1>1. PICK f : Partials(A, s, f)
  BY PartialsExist, Zenon
<1>2. PICK g : Partials(A, t, g)
  BY PartialsExist, Zenon
<1> DEFINE m == Len(s)
           n == Len(t)
           h == [i \in 0 .. m + n |-> IF i <= m THEN f[i] ELSE f[m] \o g[i - m]]
<1>3. /\ m \in Nat /\ n \in Nat /\ s \o t \in Seq(Seq(A)) /\ Len(s \o t) = m + n
      /\ \A i \in 1 .. m : (s \o t)[i] = s[i] /\ s[i] \in Seq(A)
      /\ \A i \in 1 .. n : (s \o t)[i + m] = t[i] /\ t[i] \in Seq(A)
  OBVIOUS
<1>4. /\ \A i \in 0 .. m : f[i] \in Seq(A) /\ f[0] = << >>
      /\ \A i \in 0 .. n : g[i] \in Seq(A) /\ g[0] = << >>
  BY <1>1, <1>2 DEF Partials
<1>5. \A i \in 0 .. n : f[m] \o g[i] \in Seq(A)
  BY <1>3, <1>4
<1>6. h \in [0 .. m + n -> Seq(A)]
  <2>1. \A i \in 0 .. m + n : i > m => i - m \in 0 .. n
    BY <1>3
  <2>2. \A i \in 0 .. m + n : i <= m => i \in 0 .. m
    BY <1>3
  <2>3. ASSUME NEW i \in 0 .. m + n PROVE (IF i <= m THEN f[i] ELSE f[m] \o g[i - m]) \in Seq(A)
    <3>1. CASE i <= m
      BY <1>4, <2>2, <3>1
    <3>2. CASE ~(i <= m)
      <4>1. i - m \in 0 .. n
        BY <1>3, <2>1, <3>2
      <4> QED BY <1>5, <3>2, <4>1
    <3> QED BY <3>1, <3>2
  <2> QED BY <2>3, Zenon
<1>7. /\ \A i \in 0 .. m : h[i] = f[i]
      /\ \A i \in 0 .. n : h[i + m] = f[m] \o g[i]
  <2>1. ASSUME NEW i \in 0 .. m PROVE h[i] = f[i]
    BY <1>3
  <2>2. ASSUME NEW i \in 0 .. n PROVE h[i + m] = f[m] \o g[i]
    <3>1. CASE i = 0
      <4>1. h[i + m] = f[m]
        BY <1>3, <3>1
      <4>2. f[m] \in Seq(A) /\ g[i] = << >>
        BY <1>3, <1>4, <3>1
      <4> QED BY <4>1, <4>2
    <3>2. CASE i # 0
      <4>1. i + m \in 0 .. m + n /\ ~(i + m <= m) /\ (i + m) - m = i
        BY <1>3, <3>2
      <4>2. h[i + m] = f[m] \o g[(i + m) - m]
        BY <4>1, Zenon
      <4> QED BY <4>1, <4>2, Zenon
    <3> QED BY <3>1, <3>2
  <2> QED BY <2>1, <2>2
<1> HIDE DEF h
<1>8. ASSUME NEW i \in 0 .. (m + n) - 1 PROVE h[i + 1] = h[i] \o (s \o t)[i + 1]
  <2>1. CASE i < m
    <3>1. i \in 0 .. m /\ i + 1 \in 0 .. m /\ i \in 0 .. m - 1 /\ i + 1 \in 1 .. m
      BY <1>3, <2>1
    <3>2. f[i + 1] = f[i] \o s[i + 1]
      BY <1>1, <3>1, Zenon DEF Partials
    <3>3. h[i + 1] = f[i + 1] /\ h[i] = f[i] /\ (s \o t)[i + 1] = s[i + 1]
      BY <1>3, <1>7, <3>1
    <3> QED BY <3>2, <3>3, Zenon
  <2>2. CASE ~(i < m)
    <3>1. PICK j \in 0 .. n - 1 : i = j + m /\ j \in 0 .. n /\ j + 1 \in 0 .. n /\ j + 1 \in 1 .. n /\ i + 1 = (j + 1) + m
      <4>1. i - m \in 0 .. n - 1 /\ i = (i - m) + m
        BY <1>3, <2>2
      <4>2. \A j \in 0 .. n - 1 : i = j + m => j \in 0 .. n /\ j + 1 \in 0 .. n /\ j + 1 \in 1 .. n /\ i + 1 = (j + 1) + m
        BY <1>3
      <4> QED BY <4>1, <4>2
    <3>2. g[j + 1] = g[j] \o t[j + 1]
      BY <1>2, <3>1, Zenon DEF Partials
    <3>3. h[(j + 1) + m] = f[m] \o g[j + 1] /\ h[j + m] = f[m] \o g[j] /\ (s \o t)[(j + 1) + m] = t[j + 1]
      BY <1>3, <1>7, <3>1, Zenon
    <3>4. f[m] \in Seq(A) /\ g[j] \in Seq(A) /\ t[j + 1] \in Seq(A)
      BY <1>3, <1>4, <3>1
    <3>5. (f[m] \o g[j]) \o t[j + 1] = f[m] \o (g[j] \o t[j + 1])
      <4>1. Associates(f[m], g[j], t[j + 1])
        BY <3>4, Associative, Zenon
      <4> QED BY <4>1, Zenon DEF Associates
    <3> QED BY <3>1, <3>2, <3>3, <3>5, Zenon
  <2> QED BY <2>1, <2>2
<1>9. Partials(A, s \o t, h)
  <2>1. h[0] = << >>
    BY <1>3, <1>4, <1>7
  <2> QED BY <1>3, <1>6, <1>8, <2>1, Zenon DEF Partials
<1>10. FlattenSeq(s \o t) = h[m + n]
  BY <1>3, <1>9, FlattenIs, Zenon
<1>11. FlattenSeq(s) = f[m] /\ FlattenSeq(t) = g[n]
  BY <1>1, <1>2, FlattenIs, Zenon
<1>12. n \in 0 .. n /\ n + m = m + n
  BY <1>3
<1>13. h[n + m] = f[m] \o g[n]
  BY <1>7, <1>12, Zenon
<1> QED BY <1>10, <1>11, <1>12, <1>13, Zenon

\* One part.
LEMMA FlattenOne ==
  ASSUME NEW A, NEW x \in Seq(A)
  PROVE  FlattenSeq(<<x>>) = x
<1> DEFINE f == [i \in 0 .. 1 |-> IF i = 0 THEN << >> ELSE x]
<1>1. <<x>> \in Seq(Seq(A)) /\ Len(<<x>>) = 1 /\ <<x>>[1] = x
  OBVIOUS
<1>2. f \in [0 .. 1 -> Seq(A)] /\ f[0] = << >> /\ f[1] = x
  OBVIOUS
<1> HIDE DEF f
<1>3. \A i \in 0 .. 0 : f[i + 1] = f[i] \o <<x>>[i + 1]
  <2>1. f[0 + 1] = f[0] \o <<x>>[0 + 1]
    BY <1>1, <1>2
  <2> QED BY <2>1
<1>4. Partials(A, <<x>>, f)
  BY <1>1, <1>2, <1>3 DEF Partials
<1> QED BY <1>1, <1>2, <1>4, FlattenIs, Zenon

\* A part and those that follow it.
LEMMA FlattenCons ==
  ASSUME NEW A, NEW s \in Seq(Seq(A)), NEW x \in Seq(A)
  PROVE  FlattenSeq(<<x>> \o s) = x \o FlattenSeq(s)
<1>1. <<x>> \in Seq(Seq(A))
  OBVIOUS
<1>2. FlattenSeq(<<x>>) = x
  BY FlattenOne, Zenon
<1>3. FlattenSeq(<<x>> \o s) = FlattenSeq(<<x>>) \o FlattenSeq(s)
  BY <1>1, FlattenConcat, Zenon
<1> QED BY <1>2, <1>3, Zenon

\* What is left of t after d of its elements.
After(t, d) == SubSeq(t, d + 1, Len(t))

\* It is a sequence, as long as it should be.
LEMMA AfterType ==
  ASSUME NEW B, NEW t \in Seq(B), NEW d \in 0 .. Len(t)
  PROVE  /\ After(t, d) \in Seq(B) /\ Len(After(t, d)) = Len(t) - d
         /\ \A i \in 1 .. Len(t) - d : After(t, d)[i] = t[d + i]
BY DEF After

\* Flattening it takes the next sequence first.
LEMMA FlattenAfterOne ==
  ASSUME NEW A, NEW t \in Seq(Seq(A)), NEW d \in 0 .. Len(t) - 1
  PROVE  FlattenSeq(After(t, d)) = t[d + 1] \o FlattenSeq(After(t, d + 1))
<1>1. d + 1 \in 1 .. Len(t) /\ d + 1 \in 0 .. Len(t) /\ t[d + 1] \in Seq(A)
  OBVIOUS
<1>2. After(t, d + 1) \in Seq(Seq(A))
  BY <1>1, AfterType, Zenon
<1>3. After(t, d) = <<t[d + 1]>> \o After(t, d + 1)
  BY DEF After
<1> QED BY <1>1, <1>2, <1>3, FlattenCons

\* What is left comes in two parts.
LEMMA AfterSplit ==
  ASSUME NEW B, NEW t \in Seq(B), NEW d \in 0 .. Len(t), NEW e \in d .. Len(t)
  PROVE  SubSeq(t, d + 1, e) \o After(t, e) = After(t, d)
<1>1. /\ d + 1 \in 1 .. Len(t) + 1 /\ e \in (d + 1) - 1 .. Len(t) /\ Len(t) \in e .. Len(t)
  OBVIOUS
<1> QED BY <1>1, ConcatAdjacentSubSeq DEF After

\* Only the elements that are left count.
LEMMA AfterEqual ==
  ASSUME NEW B, NEW t \in Seq(B), NEW u \in Seq(B), Len(t) = Len(u), NEW d \in 0 .. Len(t),
         \A j \in d + 1 .. Len(t) : t[j] = u[j]
  PROVE  After(t, d) = After(u, d)
BY DEF After

-----------------------------------------------------------------------------
(* StrReplace                                                              *)

\* What the scan does at position i, f being its results from each position on.
ScanStep(find, replacement, s, f, i) ==
  /\ Occurs(find, s, i) => f[i] = replacement \o f[i + Len(find)]
  /\ ~Occurs(find, s, i) => f[i] = <<s[i]>> \o f[i + 1]

Scan(A, find, replacement, s, f) ==
  /\ f \in [1 .. Len(s) + 1 -> Seq(A)] /\ f[Len(s) + 1] = << >>
  /\ \A i \in 1 .. Len(s) : ScanStep(find, replacement, s, f, i)

\* A text that is found has a place in s, and room for it.
LEMMA OccursFits ==
  ASSUME NEW A, NEW find \in Seq(A), find # << >>, NEW s \in Seq(A), NEW i \in 1 .. Len(s)
  PROVE  /\ Len(find) \in Nat \ {0} /\ Len(s) \in Nat
         /\ i + 1 \in 1 .. Len(s) + 1
         /\ Occurs(find, s, i) => i + Len(find) \in 1 .. Len(s) + 1 /\ i + Len(find) > i
<1>1. Len(find) \in Nat \ {0} /\ Len(s) \in Nat
  <2>1. Len(find) \in Nat /\ Len(s) \in Nat
    OBVIOUS
  <2>2. Len(find) # 0
    BY EmptySeq
  <2> QED BY <2>1, <2>2
<1>2. Occurs(find, s, i) => i + Len(find) - 1 <= Len(s)
  BY Zenon DEF Occurs
<1> QED BY <1>1, <1>2

\* The results exist.
LEMMA ScanExists ==
  ASSUME NEW A, NEW find \in Seq(A), find # << >>, NEW replacement \in Seq(A), NEW s \in Seq(A)
  PROVE  \E f : Scan(A, find, replacement, s, f)
<1> DEFINE n == Len(s)
           P(k, f) == /\ f \in [1 .. n + 1 -> Seq(A)] /\ f[n + 1] = << >>
                      /\ \A i \in 1 .. n : i + k > n => ScanStep(find, replacement, s, f, i)
           S == {k \in Nat : k <= n => \E f : P(k, f)}
<1>1. n \in Nat
  OBVIOUS
<1>2. 0 \in S
  <2>1. P(0, [i \in 1 .. n + 1 |-> << >>])
    BY <1>1
  <2> HIDE DEF P
  <2> QED BY <2>1
<1>3. ASSUME NEW k \in Nat, k \in S, k + 1 <= n PROVE \E f : P(k + 1, f)
  <2>1. PICK f : P(k, f)
    <3>1. k <= n
      BY <1>1, <1>3
    <3> HIDE DEF P
    <3> QED BY <1>3, <3>1, Zenon
  <2>2. PICK i0 \in 1 .. n : i0 + k = n
    <3>1. n - k \in 1 .. n /\ (n - k) + k = n
      BY <1>1, <1>3
    <3> QED BY <3>1
  <2> DEFINE v == IF Occurs(find, s, i0) THEN replacement \o f[i0 + Len(find)] ELSE <<s[i0]>> \o f[i0 + 1]
             g == [f EXCEPT ![i0] = v]
  <2>3. v \in Seq(A)
    <3>1. CASE Occurs(find, s, i0)
      <4>1. f[i0 + Len(find)] \in Seq(A)
        BY <2>1, <3>1, OccursFits, Zenon
      <4>2. replacement \o f[i0 + Len(find)] \in Seq(A)
        BY <4>1
      <4> QED BY <3>1, <4>2, Zenon
    <3>2. CASE ~Occurs(find, s, i0)
      <4>1. f[i0 + 1] \in Seq(A)
        BY <2>1, OccursFits, Zenon
      <4>3. s[i0] \in A
        OBVIOUS
      <4>2. <<s[i0]>> \o f[i0 + 1] \in Seq(A)
        BY <4>1, <4>3
      <4> QED BY <3>2, <4>2, Zenon
    <3> QED BY <3>1, <3>2, Zenon
  <2>4. g \in [1 .. n + 1 -> Seq(A)] /\ g[n + 1] = << >>
    <3>1. i0 # n + 1 /\ i0 \in 1 .. n + 1 /\ n + 1 \in 1 .. n + 1
      BY <1>1
    <3> HIDE DEF v
    <3> QED BY <2>1, <2>3, <3>1, Zenon
  <2>5. g[i0] = v /\ \A j \in 1 .. n + 1 : j # i0 => g[j] = f[j]
    <3>1. i0 \in 1 .. n + 1
      BY <1>1
    <3> HIDE DEF v
    <3> QED BY <2>1, <3>1, Zenon
  <2> HIDE DEF g
  <2>6. ASSUME NEW i \in 1 .. n, i + (k + 1) > n PROVE ScanStep(find, replacement, s, g, i)
    <3>1. /\ i + 1 \in 1 .. n + 1
          /\ Occurs(find, s, i) => i + Len(find) \in 1 .. n + 1 /\ i + Len(find) > i
          /\ Len(find) \in Nat
      BY OccursFits, Zenon
    <3>2. i >= i0
      BY <1>1, <2>2, <2>6
    <3>3. i + 1 # i0 /\ (Occurs(find, s, i) => i + Len(find) # i0)
      BY <3>1, <3>2
    <3>4. g[i + 1] = f[i + 1] /\ (Occurs(find, s, i) => g[i + Len(find)] = f[i + Len(find)])
      BY <2>5, <3>1, <3>3, Zenon
    <3>5. CASE i = i0
      BY <2>5, <3>4, <3>5, Zenon DEF ScanStep
    <3>6. CASE i # i0
      <4>1. i + k > n /\ i \in 1 .. n + 1
        BY <1>1, <2>2, <3>2, <3>6
      <4>2. g[i] = f[i] /\ ScanStep(find, replacement, s, f, i)
        BY <2>1, <2>5, <3>6, <4>1, Zenon
      <4> QED BY <3>4, <4>2, Zenon DEF ScanStep
    <3> QED BY <3>5, <3>6
  <2>7. P(k + 1, g)
    BY <2>4, <2>6, Zenon
  <2> HIDE DEF P
  <2> QED BY <2>7
<1>4. \A k \in Nat : k \in S => k + 1 \in S
  <2>1. \A k \in Nat : k + 1 \in Nat
    OBVIOUS
  <2> HIDE DEF P
  <2> QED BY <1>3, <2>1, Zenon
<1>5. n \in S
  <2> HIDE DEF S
  <2> QED BY <1>1, <1>2, <1>4, Induct
<1>6. PICK f : P(n, f)
  <2> HIDE DEF P
  <2> QED BY <1>1, <1>5
<1>7. \A i \in 1 .. n : i + n > n
  BY <1>1
<1> QED BY <1>6, <1>7, Zenon DEF Scan

\* And they are determined.
LEMMA ScanUnique ==
  ASSUME NEW A, NEW find \in Seq(A), find # << >>, NEW replacement \in Seq(A), NEW s \in Seq(A),
         NEW f, NEW g, Scan(A, find, replacement, s, f), Scan(A, find, replacement, s, g)
  PROVE  f[1] = g[1]
<1> DEFINE n == Len(s)
           S == {k \in Nat : k <= n => \A i \in 1 .. n + 1 : i + k > n => f[i] = g[i]}
<1>1. n \in Nat
  OBVIOUS
<1>2. 0 \in S
  <2>1. \A i \in 1 .. n + 1 : i + 0 > n => i = n + 1
    BY <1>1
  <2> QED BY <2>1 DEF Scan
<1>3. ASSUME NEW k \in Nat, k \in S, k + 1 <= n, NEW i \in 1 .. n + 1, i + (k + 1) > n PROVE f[i] = g[i]
  <2>1. \A j \in 1 .. n + 1 : j + k > n => f[j] = g[j]
    BY <1>1, <1>3
  <2>2. CASE i + k > n
    BY <2>1, <2>2
  <2>3. CASE ~(i + k > n)
    <3>1. i \in 1 .. n /\ i + k = n
      BY <1>1, <1>3, <2>3
    <3>2. ScanStep(find, replacement, s, f, i) /\ ScanStep(find, replacement, s, g, i)
      BY <3>1, Zenon DEF Scan
    <3>3. /\ i + 1 \in 1 .. n + 1 /\ Len(find) \in Nat
          /\ Occurs(find, s, i) => i + Len(find) \in 1 .. n + 1 /\ i + Len(find) > i
      BY <3>1, OccursFits, Zenon
    <3>4. (i + 1) + k > n /\ (Occurs(find, s, i) => (i + Len(find)) + k > n)
      BY <1>1, <3>1, <3>3
    <3>5. f[i + 1] = g[i + 1] /\ (Occurs(find, s, i) => f[i + Len(find)] = g[i + Len(find)])
      BY <2>1, <3>3, <3>4, Zenon
    <3> QED BY <3>2, <3>5, Zenon DEF ScanStep
  <2> QED BY <2>2, <2>3
<1>4. \A k \in Nat : k \in S => k + 1 \in S
  <2>1. \A k \in Nat : k + 1 \in Nat
    OBVIOUS
  <2> QED BY <1>3, <2>1, Zenon
<1>5. n \in S
  <2> HIDE DEF S
  <2> QED BY <1>1, <1>2, <1>4, Induct
<1>6. 1 \in 1 .. n + 1 /\ 1 + n > n /\ n <= n
  BY <1>1
<1> QED BY <1>5, <1>6, Zenon

\* StrReplace computes them.
LEMMA StrReplaceIs ==
  ASSUME NEW A, NEW find \in Seq(A), find # << >>, NEW replacement \in Seq(A), NEW s \in Seq(A),
         NEW f, Scan(A, find, replacement, s, f)
  PROVE  StrReplace(find, replacement, s) = f[1]
<1> DEFINE n == Len(s)
           C(g, i) == CASE i = n + 1                -> IF find = << >> THEN replacement ELSE << >>
                        [] i <= n /\ find = << >>  -> replacement \o <<s[i]>> \o g[i + 1]
                        [] i <= n /\ find # << >> /\ Occurs(find, s, i) ->
                             replacement \o g[i + Len(find)]
                        [] OTHER                    -> <<s[i]>> \o g[i + 1]
           G(g) == [i \in 1 .. n + 1 |-> C(g, i)]
           from == CHOOSE g : g = G(g)
<1>1. n \in Nat
  OBVIOUS
<1>2. ASSUME NEW g PROVE C(g, n + 1) = << >>
  <2>1. ~(n + 1 <= n)
    BY <1>1
  <2> QED BY <2>1, Zenon
<1>3. ASSUME NEW g, NEW i \in 1 .. n
      PROVE  C(g, i) = IF Occurs(find, s, i) THEN replacement \o g[i + Len(find)] ELSE <<s[i]>> \o g[i + 1]
  <2>1. i # n + 1 /\ i <= n
    BY <1>1
  <2> QED BY <2>1, Zenon
<1>4. StrReplace(find, replacement, s) = from[1]
  BY Zenon DEF StrReplace
<1> HIDE DEF C
<1>5. f = G(f)
  <2>1. ASSUME NEW i \in 1 .. n + 1 PROVE f[i] = C(f, i)
    <3>1. CASE i = n + 1
      BY <1>2, <3>1, Zenon DEF Scan
    <3>2. CASE i # n + 1
      <4>1. i \in 1 .. n
        BY <1>1, <3>2
      <4>2. ScanStep(find, replacement, s, f, i)
        BY <4>1, Zenon DEF Scan
      <4> QED BY <1>3, <4>1, <4>2, Zenon DEF ScanStep
    <3> QED BY <3>1, <3>2
  <2> QED BY <2>1, Zenon DEF Scan
<1>6. from = G(from)
  BY <1>5, Zenon
<1> HIDE DEF from
<1>7. \A i \in 1 .. n + 1 : from[i] = C(from, i)
  BY <1>6, Zenon
<1>8. from[n + 1] = << >>
  <2>1. n + 1 \in 1 .. n + 1
    BY <1>1
  <2> QED BY <1>2, <1>7, <2>1, Zenon
<1>9. ASSUME NEW i \in 1 .. n PROVE ScanStep(find, replacement, s, from, i)
  <2>1. i \in 1 .. n + 1
    BY <1>1
  <2> QED BY <1>3, <1>7, <2>1, Zenon DEF ScanStep
<1> HIDE DEF G
<1> DEFINE S == {k \in Nat : k <= n => \A i \in 1 .. n + 1 : i + k > n => from[i] \in Seq(A)}
<1>10. 0 \in S
  <2>1. \A i \in 1 .. n + 1 : i + 0 > n => i = n + 1
    BY <1>1
  <2>2. << >> \in Seq(A)
    OBVIOUS
  <2> QED BY <1>8, <2>1, <2>2
<1>11. ASSUME NEW k \in Nat, k \in S, k + 1 <= n, NEW i \in 1 .. n + 1, i + (k + 1) > n PROVE from[i] \in Seq(A)
  <2>1. \A j \in 1 .. n + 1 : j + k > n => from[j] \in Seq(A)
    BY <1>1, <1>11
  <2>2. CASE i + k > n
    BY <2>1, <2>2
  <2>3. CASE ~(i + k > n)
    <3>1. i \in 1 .. n /\ i + k = n
      BY <1>1, <1>11, <2>3
    <3>2. ScanStep(find, replacement, s, from, i) /\ s[i] \in A
      BY <1>9, <3>1
    <3>3. /\ i + 1 \in 1 .. n + 1 /\ Len(find) \in Nat
          /\ Occurs(find, s, i) => i + Len(find) \in 1 .. n + 1 /\ i + Len(find) > i
      BY <3>1, OccursFits, Zenon
    <3>4. (i + 1) + k > n /\ (Occurs(find, s, i) => (i + Len(find)) + k > n)
      BY <1>1, <3>1, <3>3
    <3>5. from[i + 1] \in Seq(A) /\ (Occurs(find, s, i) => from[i + Len(find)] \in Seq(A))
      BY <2>1, <3>3, <3>4, Zenon
    <3>6. <<s[i]>> \o from[i + 1] \in Seq(A)
      BY <3>2, <3>5
    <3>7. Occurs(find, s, i) => replacement \o from[i + Len(find)] \in Seq(A)
      BY <3>5
    <3> QED BY <3>2, <3>6, <3>7, Zenon DEF ScanStep
  <2> QED BY <2>2, <2>3
<1>12. \A k \in Nat : k \in S => k + 1 \in S
  <2>1. \A k \in Nat : k + 1 \in Nat
    OBVIOUS
  <2> QED BY <1>11, <2>1, Zenon
<1>13. n \in S
  <2> HIDE DEF S
  <2> QED BY <1>1, <1>10, <1>12, Induct
<1>14. \A i \in 1 .. n + 1 : i + n > n
  BY <1>1
<1>15. \A i \in 1 .. n + 1 : from[i] \in Seq(A)
  BY <1>1, <1>13, <1>14
<1>16. from \in [1 .. n + 1 -> Seq(A)]
  BY <1>6, <1>15, Zenon DEF G
<1>17. Scan(A, find, replacement, s, from)
  BY <1>8, <1>9, <1>16, Zenon DEF Scan
<1>18. from[1] = f[1]
  BY <1>17, ScanUnique
<1> QED BY <1>4, <1>18, Zenon

\* Whether a text is found in b does not depend on what stands before b.
LEMMA OccursShift ==
  ASSUME NEW A, NEW find \in Seq(A), find # << >>, NEW a \in Seq(A), NEW b \in Seq(A),
         NEW i \in 1 .. Len(b)
  PROVE  Occurs(find, a \o b, Len(a) + i) <=> Occurs(find, b, i)
<1>1. Len(find) \in Nat \ {0} /\ Len(a) \in Nat /\ Len(b) \in Nat
  BY OccursFits, LenProperties
<1>2. Len(a \o b) = Len(a) + Len(b)
  OBVIOUS
<1> DEFINE j == Len(a) + i
<1>3. j + Len(find) - 1 <= Len(a \o b) <=> i + Len(find) - 1 <= Len(b)
  BY <1>1, <1>2
<1>4. ASSUME i + Len(find) - 1 <= Len(b)
      PROVE  SubSeq(a \o b, j, j + Len(find) - 1) = SubSeq(b, i, i + Len(find) - 1)
  <2>1. /\ j \in Len(a) + 1 .. Len(a) + Len(b)
        /\ j + Len(find) - 1 \in Len(a) + 1 .. Len(a) + Len(b)
        /\ j - Len(a) = i /\ (j + Len(find) - 1) - Len(a) = i + Len(find) - 1
    BY <1>1, <1>4
  <2>2. SubSeq(a \o b, j, j + Len(find) - 1) = SubSeq(b, j - Len(a), (j + Len(find) - 1) - Len(a))
    BY <2>1, SubSeqOfConcat2
  <2> QED BY <2>1, <2>2, Zenon
<1> QED BY <1>3, <1>4, Zenon DEF Occurs

\* Nor does what the scan makes of b.
LEMMA ScanShift ==
  ASSUME NEW A, NEW find \in Seq(A), find # << >>, NEW replacement \in Seq(A),
         NEW a \in Seq(A), NEW b \in Seq(A), NEW f, Scan(A, find, replacement, a \o b, f)
  PROVE  StrReplace(find, replacement, b) = f[Len(a) + 1]
<1> DEFINE g == [i \in 1 .. Len(b) + 1 |-> f[Len(a) + i]]
<1>1. Len(a) \in Nat /\ Len(b) \in Nat /\ Len(a \o b) = Len(a) + Len(b)
  OBVIOUS
<1>2. \A i \in 1 .. Len(b) + 1 : Len(a) + i \in 1 .. Len(a \o b) + 1
  BY <1>1
<1>3. g \in [1 .. Len(b) + 1 -> Seq(A)]
  BY <1>2, Zenon DEF Scan
<1>4. g[Len(b) + 1] = << >>
  <2>1. Len(b) + 1 \in 1 .. Len(b) + 1 /\ Len(a) + (Len(b) + 1) = Len(a \o b) + 1
    BY <1>1
  <2> QED BY <2>1, Zenon DEF Scan
<1>5. \A i \in 1 .. Len(b) + 1 : g[i] = f[Len(a) + i]
  BY Zenon
<1> HIDE DEF g
<1>6. ASSUME NEW i \in 1 .. Len(b) PROVE ScanStep(find, replacement, b, g, i)
  <2>1. Len(a) + i \in 1 .. Len(a \o b) /\ (a \o b)[Len(a) + i] = b[i]
    BY <1>1
  <2>2. /\ i + 1 \in 1 .. Len(b) + 1 /\ i \in 1 .. Len(b) + 1
        /\ Occurs(find, b, i) => i + Len(find) \in 1 .. Len(b) + 1
    BY <1>1, OccursFits
  <2>3. Len(a) + (i + 1) = (Len(a) + i) + 1 /\ Len(a) + (i + Len(find)) = (Len(a) + i) + Len(find)
    BY <1>1
  <2>4. Occurs(find, a \o b, Len(a) + i) <=> Occurs(find, b, i)
    BY OccursShift
  <2>5. ScanStep(find, replacement, a \o b, f, Len(a) + i)
    BY <2>1, Zenon DEF Scan
  <2>6. g[i] = f[Len(a) + i] /\ g[i + 1] = f[(Len(a) + i) + 1]
    <3>1. g[i] = f[Len(a) + i]
      BY <1>5, <2>2, Zenon
    <3>2. g[i + 1] = f[Len(a) + (i + 1)]
      BY <1>5, <2>2, Zenon
    <3> QED BY <2>3, <3>1, <3>2, Zenon
  <2>7. Occurs(find, b, i) => g[i + Len(find)] = f[(Len(a) + i) + Len(find)]
    BY <1>5, <2>2, <2>3, Zenon
  <2> QED BY <2>1, <2>4, <2>5, <2>6, <2>7, Zenon DEF ScanStep
<1>7. Scan(A, find, replacement, b, g)
  BY <1>3, <1>4, <1>6, Zenon DEF Scan
<1>8. StrReplace(find, replacement, b) = g[1]
  BY <1>7, StrReplaceIs
<1>9. 1 \in 1 .. Len(b) + 1
  BY <1>1
<1> QED BY <1>5, <1>8, <1>9, Zenon

\* Text at the start is replaced by q, and the rest as if it stood alone.
ReplacesBefore(find, replacement, p, q, b) ==
  StrReplace(find, replacement, p \o b) = q \o StrReplace(find, replacement, b)

Replaces(A, find, replacement, p, q) ==
  \A b \in Seq(A) : ReplacesBefore(find, replacement, p, q, b)

\* The result is a text.
LEMMA ReplaceType ==
  ASSUME NEW A, NEW find \in Seq(A), find # << >>, NEW replacement \in Seq(A), NEW s \in Seq(A)
  PROVE  StrReplace(find, replacement, s) \in Seq(A)
<1>1. PICK f : Scan(A, find, replacement, s, f)
  BY ScanExists, Zenon
<1>2. StrReplace(find, replacement, s) = f[1]
  BY <1>1, StrReplaceIs
<1>3. 1 \in 1 .. Len(s) + 1
  OBVIOUS
<1> QED BY <1>1, <1>2, <1>3, Zenon DEF Scan

\* Nothing comes of nothing.
LEMMA ReplaceNothing ==
  ASSUME NEW A, NEW find \in Seq(A), find # << >>, NEW replacement \in Seq(A)
  PROVE  StrReplace(find, replacement, << >>) = << >>
<1>1. PICK s \in Seq(A) : s = << >> /\ Len(s) + 1 = 1
  <2>1. << >> \in Seq(A) /\ Len(<< >>) + 1 = 1
    OBVIOUS
  <2> QED BY <2>1, Zenon
<1>2. PICK f : Scan(A, find, replacement, s, f)
  BY ScanExists, Zenon
<1>3. StrReplace(find, replacement, s) = f[1]
  BY <1>2, StrReplaceIs
<1>4. f[1] = << >>
  BY <1>1, <1>2, Zenon DEF Scan
<1> QED BY <1>1, <1>3, <1>4, Zenon

\* The text to find is replaced.
LEMMA ReplaceFound ==
  ASSUME NEW A, NEW find \in Seq(A), find # << >>, NEW replacement \in Seq(A)
  PROVE  Replaces(A, find, replacement, find, replacement)
<1> SUFFICES ASSUME NEW b \in Seq(A)
             PROVE  StrReplace(find, replacement, find \o b) = replacement \o StrReplace(find, replacement, b)
  BY Zenon DEF Replaces, ReplacesBefore
<1>1. find \o b \in Seq(A) /\ Len(find \o b) = Len(find) + Len(b) /\ Len(find) \in Nat /\ Len(b) \in Nat
  OBVIOUS
<1>2. Len(find) # 0
  BY EmptySeq
<1>3. PICK f : Scan(A, find, replacement, find \o b, f)
  BY <1>1, ScanExists, Zenon
<1>4. StrReplace(find, replacement, find \o b) = f[1]
  BY <1>1, <1>3, StrReplaceIs
<1>5. StrReplace(find, replacement, b) = f[Len(find) + 1]
  BY <1>3, ScanShift
<1>6. 1 \in 1 .. Len(find \o b) /\ 1 + Len(find) - 1 <= Len(find \o b) /\ 1 + Len(find) - 1 = Len(find) /\ 1 + Len(find) = Len(find) + 1
  BY <1>1, <1>2
<1>7. SubSeq(find \o b, 1, Len(find)) = find
  <2>1. 1 \in 1 .. Len(find) /\ Len(find) \in 1 .. Len(find)
    BY <1>1, <1>2
  <2>2. SubSeq(find \o b, 1, Len(find)) = SubSeq(find, 1, Len(find))
    BY <2>1, SubSeqOfConcat1
  <2> QED BY <2>2, SubSeqFull
<1>8. Occurs(find, find \o b, 1)
  BY <1>6, <1>7, Zenon DEF Occurs
<1>9. f[1] = replacement \o f[1 + Len(find)]
  BY <1>3, <1>6, <1>8, Zenon DEF Scan, ScanStep
<1> QED BY <1>4, <1>5, <1>6, <1>9, Zenon

\* A character that does not start the text to find is kept.
LEMMA ReplaceKeepsOne ==
  ASSUME NEW A, NEW find \in Seq(A), find # << >>, NEW replacement \in Seq(A),
         NEW x \in A, NEW b \in Seq(A), ~Occurs(find, <<x>> \o b, 1)
  PROVE  ReplacesBefore(find, replacement, <<x>>, <<x>>, b)
<1>1. <<x>> \in Seq(A) /\ Len(<<x>>) = 1 /\ <<x>> \o b \in Seq(A) /\ (<<x>> \o b)[1] = x /\ 1 \in 1 .. Len(<<x>> \o b)
  OBVIOUS
<1>2. PICK f : Scan(A, find, replacement, <<x>> \o b, f)
  BY <1>1, ScanExists, Zenon
<1>3. StrReplace(find, replacement, <<x>> \o b) = f[1]
  <2>1. PICK c \in Seq(A) : c = <<x>> \o b
    BY <1>1
  <2>2. Scan(A, find, replacement, c, f)
    BY <1>2, <2>1, Zenon
  <2>3. StrReplace(find, replacement, c) = f[1]
    BY <2>2, StrReplaceIs
  <2> QED BY <2>1, <2>3, Zenon
<1>4. StrReplace(find, replacement, b) = f[Len(<<x>>) + 1]
  <2>1. PICK a \in Seq(A) : a = <<x>>
    BY <1>1
  <2>2. Scan(A, find, replacement, a \o b, f)
    BY <1>2, <2>1, Zenon
  <2>3. StrReplace(find, replacement, b) = f[Len(a) + 1]
    BY <2>2, ScanShift
  <2> QED BY <2>1, <2>3, Zenon
<1>5. f[1] = <<(<<x>> \o b)[1]>> \o f[1 + 1]
  BY <1>1, <1>2, Zenon DEF Scan, ScanStep
<1> QED BY <1>1, <1>3, <1>4, <1>5, Zenon DEF ReplacesBefore

\* Two texts, one after the other.
LEMMA ReplacesBoth ==
  ASSUME NEW A, NEW find \in Seq(A), find # << >>, NEW replacement \in Seq(A),
         NEW p1 \in Seq(A), NEW p2 \in Seq(A), NEW q1 \in Seq(A), NEW q2 \in Seq(A),
         Replaces(A, find, replacement, p1, q1), Replaces(A, find, replacement, p2, q2)
  PROVE  Replaces(A, find, replacement, p1 \o p2, q1 \o q2)
<1> SUFFICES ASSUME NEW b \in Seq(A)
             PROVE  StrReplace(find, replacement, (p1 \o p2) \o b) = (q1 \o q2) \o StrReplace(find, replacement, b)
  BY Zenon DEF Replaces, ReplacesBefore
<1> DEFINE r == StrReplace(find, replacement, b)
<1>1. r \in Seq(A)
  BY ReplaceType, Zenon
<1>2. p2 \o b \in Seq(A)
  OBVIOUS
<1>3. StrReplace(find, replacement, p2 \o b) = q2 \o r
  BY Zenon DEF Replaces, ReplacesBefore
<1>4. StrReplace(find, replacement, p1 \o (p2 \o b)) = q1 \o StrReplace(find, replacement, p2 \o b)
  BY <1>2, Zenon DEF Replaces, ReplacesBefore
<1> HIDE DEF r
<1>5. Associates(p1, p2, b) /\ Associates(q1, q2, r)
  BY <1>1, Associative, Zenon
<1>6. (p1 \o p2) \o b = p1 \o (p2 \o b) /\ (q1 \o q2) \o r = q1 \o (q2 \o r)
  BY <1>5, Zenon DEF Associates
<1> QED BY <1>3, <1>4, <1>6, Zenon DEF r

\* No text.
LEMMA ReplacesNothing ==
  ASSUME NEW A, NEW find \in Seq(A), find # << >>, NEW replacement \in Seq(A)
  PROVE  Replaces(A, find, replacement, << >>, << >>)
<1> SUFFICES ASSUME NEW b \in Seq(A)
             PROVE  StrReplace(find, replacement, << >> \o b) = << >> \o StrReplace(find, replacement, b)
  BY Zenon DEF Replaces, ReplacesBefore
<1>1. StrReplace(find, replacement, b) \in Seq(A)
  BY ReplaceType, Zenon
<1>2. << >> \o b = b /\ \A r \in Seq(A) : << >> \o r = r
  OBVIOUS
<1> QED BY <1>1, <1>2, Zenon

\* An occurrence starts with the first character of the text to find.
LEMMA OccursFirst ==
  ASSUME NEW A, NEW find \in Seq(A), find # << >>, NEW s \in Seq(A), Occurs(find, s, 1)
  PROVE  Len(find) <= Len(s) /\ \A i \in 1 .. Len(find) : s[i] = find[i]
<1>1. Len(find) \in Nat /\ Len(s) \in Nat /\ 1 + Len(find) - 1 = Len(find)
  OBVIOUS
<1>2. Len(find) <= Len(s) /\ SubSeq(s, 1, Len(find)) = find
  BY <1>1, Zenon DEF Occurs
<1>3. \A i \in 1 .. Len(find) : SubSeq(s, 1, Len(find))[i] = s[i]
  BY <1>1, <1>2
<1> QED BY <1>2, <1>3, Zenon

\* Another character is kept.
LEMMA ReplacesOne ==
  ASSUME NEW A, NEW find \in Seq(A), find # << >>, NEW replacement \in Seq(A),
         NEW x \in A, x # find[1]
  PROVE  Replaces(A, find, replacement, <<x>>, <<x>>)
<1>1. 1 \in 1 .. Len(find)
  <2>1. Len(find) \in Nat /\ Len(find) # 0
    BY EmptySeq
  <2> QED BY <2>1
<1>2. ASSUME NEW b \in Seq(A) PROVE ~Occurs(find, <<x>> \o b, 1)
  <2>1. <<x>> \o b \in Seq(A) /\ (<<x>> \o b)[1] = x
    OBVIOUS
  <2>2. Occurs(find, <<x>> \o b, 1) => (<<x>> \o b)[1] = find[1]
    BY <1>1, <2>1, OccursFirst, Zenon
  <2> QED BY <2>1, <2>2, Zenon
<1>3. ASSUME NEW b \in Seq(A) PROVE ReplacesBefore(find, replacement, <<x>>, <<x>>, b)
  BY <1>2, ReplaceKeepsOne, Zenon
<1> QED BY <1>3, Zenon DEF Replaces, ReplacesBefore

\* A text without that character is kept.
LEMMA ReplaceKeeps ==
  ASSUME NEW A, NEW find \in Seq(A), find # << >>, NEW replacement \in Seq(A),
         NEW a \in Seq(A), \A i \in 1 .. Len(a) : a[i] # find[1]
  PROVE  Replaces(A, find, replacement, a, a)
<1> DEFINE n == Len(a)
           S == {k \in Nat : \A d \in 0 .. n : d + k = n => Replaces(A, find, replacement, After(a, d), After(a, d))}
<1>1. n \in Nat
  OBVIOUS
<1>2. 0 \in S
  <2>1. After(a, n) = << >>
    BY <1>1 DEF After
  <2>2. \A d \in 0 .. n : d + 0 = n => d = n
    BY <1>1
  <2>3. Replaces(A, find, replacement, After(a, n), After(a, n))
    BY <2>1, ReplacesNothing, Zenon
  <2>4. \A d \in 0 .. n : d + 0 = n => Replaces(A, find, replacement, After(a, d), After(a, d))
    BY <2>2, <2>3, Zenon
  <2> QED BY <2>4
<1>3. ASSUME NEW x \in A, x # find[1] PROVE Replaces(A, find, replacement, <<x>>, <<x>>)
  BY <1>3, ReplacesOne, Zenon
<1>4. ASSUME NEW k \in Nat, k \in S, NEW d \in 0 .. n, d + (k + 1) = n
      PROVE  Replaces(A, find, replacement, After(a, d), After(a, d))
  <2>1. d + 1 \in 0 .. n /\ (d + 1) + k = n /\ d + 1 \in 1 .. n /\ d \in 0 .. n - 1
    BY <1>1, <1>4
  <2>2. Replaces(A, find, replacement, After(a, d + 1), After(a, d + 1))
    BY <1>4, <2>1, Zenon
  <2>3. a[d + 1] \in A /\ a[d + 1] # find[1]
    BY <2>1
  <2>4. Replaces(A, find, replacement, <<a[d + 1]>>, <<a[d + 1]>>)
    BY <1>3, <2>3, Zenon
  <2>5. After(a, d + 1) \in Seq(A)
    BY <2>1, AfterType, Zenon
  <2>6. <<a[d + 1]>> \in Seq(A)
    BY <2>3
  <2>7. Replaces(A, find, replacement, <<a[d + 1]>> \o After(a, d + 1), <<a[d + 1]>> \o After(a, d + 1))
    BY <2>2, <2>4, <2>5, <2>6, ReplacesBoth, Zenon
  <2>8. After(a, d) = <<a[d + 1]>> \o After(a, d + 1)
    BY <2>1 DEF After
  <2> QED BY <2>7, <2>8, Zenon
<1>5. \A k \in Nat : k \in S => k + 1 \in S
  <2>1. \A k \in Nat : k + 1 \in Nat
    OBVIOUS
  <2> QED BY <1>4, <2>1, Zenon
<1>6. n \in S
  <2> HIDE DEF S
  <2> QED BY <1>1, <1>2, <1>5, Induct
<1>7. 0 \in 0 .. n /\ 0 + n = n
  BY <1>1
<1>8. After(a, 0) = a
  <2>1. 0 + 1 = 1
    OBVIOUS
  <2> QED BY <2>1, SubSeqFull DEF After
<1> QED BY <1>6, <1>7, <1>8, Zenon

\* A text put together from parts is replaced part by part.
LEMMA ReplacesEach ==
  ASSUME NEW A, NEW find \in Seq(A), find # << >>, NEW replacement \in Seq(A),
         NEW p \in Seq(Seq(A)), NEW q \in Seq(Seq(A)), Len(p) = Len(q),
         \A i \in 1 .. Len(p) : Replaces(A, find, replacement, p[i], q[i])
  PROVE  StrReplace(find, replacement, FlattenSeq(p)) = FlattenSeq(q)
<1> DEFINE n == Len(p)
           R(d) == Replaces(A, find, replacement, FlattenSeq(After(p, d)), FlattenSeq(After(q, d)))
           S == {k \in Nat : \A d \in 0 .. n : d + k = n => R(d)}
<1>1. n \in Nat
  OBVIOUS
<1>2. 0 \in S
  <2>1. After(p, n) = << >> /\ After(q, n) = << >>
    BY <1>1 DEF After
  <2>2. \A d \in 0 .. n : d + 0 = n => d = n
    BY <1>1
  <2>3. R(n)
    BY <2>1, FlattenEmpty, ReplacesNothing, Zenon
  <2> HIDE DEF R
  <2> QED BY <2>2, <2>3
<1>3. ASSUME NEW k \in Nat, k \in S, NEW d \in 0 .. n, d + (k + 1) = n PROVE R(d)
  <2>1. d + 1 \in 0 .. n /\ (d + 1) + k = n /\ d + 1 \in 1 .. n /\ d \in 0 .. Len(p) - 1 /\ d \in 0 .. Len(q) - 1 /\ d + 1 \in 0 .. Len(q)
    BY <1>1, <1>3
  <2>2. R(d + 1)
    BY <1>3, <2>1, Zenon
  <2>3. FlattenSeq(After(p, d)) = p[d + 1] \o FlattenSeq(After(p, d + 1))
    BY <2>1, FlattenAfterOne
  <2>4. FlattenSeq(After(q, d)) = q[d + 1] \o FlattenSeq(After(q, d + 1))
    BY <2>1, FlattenAfterOne
  <2>5. After(p, d + 1) \in Seq(Seq(A)) /\ After(q, d + 1) \in Seq(Seq(A))
    BY <2>1, AfterType, Zenon
  <2>6. FlattenSeq(After(p, d + 1)) \in Seq(A) /\ FlattenSeq(After(q, d + 1)) \in Seq(A)
    BY <2>5, FlattenType, Zenon
  <2>7. p[d + 1] \in Seq(A) /\ q[d + 1] \in Seq(A)
    BY <2>1
  <2>8. Replaces(A, find, replacement, p[d + 1], q[d + 1])
    BY <2>1, Zenon
  <2>9. Replaces(A, find, replacement, p[d + 1] \o FlattenSeq(After(p, d + 1)), q[d + 1] \o FlattenSeq(After(q, d + 1)))
    BY <2>2, <2>6, <2>7, <2>8, ReplacesBoth, Zenon
  <2> QED BY <2>3, <2>4, <2>9, Zenon
<1>4. \A k \in Nat : k \in S => k + 1 \in S
  <2>1. \A k \in Nat : k + 1 \in Nat
    OBVIOUS
  <2> HIDE DEF R
  <2> QED BY <1>3, <2>1, Zenon
<1>5. n \in S
  <2> HIDE DEF S
  <2> QED BY <1>1, <1>2, <1>4, Induct
<1>6. 0 \in 0 .. n /\ 0 + n = n
  BY <1>1
<1>7. R(0)
  <2> HIDE DEF R
  <2> QED BY <1>5, <1>6, Zenon
<1>8. After(p, 0) = p /\ After(q, 0) = q
  <2>1. 0 + 1 = 1
    OBVIOUS
  <2> QED BY <2>1, SubSeqFull DEF After
<1>9. << >> \in Seq(A)
  OBVIOUS
<1>10. StrReplace(find, replacement, FlattenSeq(p) \o << >>) = FlattenSeq(q) \o StrReplace(find, replacement, << >>)
  BY <1>7, <1>8, <1>9, Zenon DEF Replaces, ReplacesBefore
<1>11. StrReplace(find, replacement, << >>) = << >>
  BY ReplaceNothing, Zenon
<1>12. FlattenSeq(p) \in Seq(A) /\ FlattenSeq(q) \in Seq(A)
  BY FlattenType, Zenon
<1>13. \A t \in Seq(A) : t \o << >> = t
  OBVIOUS
<1> QED BY <1>10, <1>11, <1>12, <1>13, Zenon
=============================================================================
