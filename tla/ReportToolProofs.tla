-------------------------- MODULE ReportToolProofs --------------------------
(***************************************************************************)
(* Proofs about module ReportTool, for any programs, profiles, PTX and     *)
(* command lines: that the records are read back as the emulator wrote     *)
(* them and to which launch they are attributed, how the tool ends, what   *)
(* the page's two grids mark, that the counts of the report are what the   *)
(* records add up to, and that the tables and grids of the page are too.   *)
(*                                                                         *)
(* What the loops of the two programs compute (flush, ProfilingMetrics,    *)
(* parse_profiling, sorted, aggregate, parse_ptx, the panels of a section) *)
(* are recursive functions and FlattenSeq.  Lemmas say what each does when *)
(* its sequence grows by an element, by induction over the length; after   *)
(* them no proof looks at a loop.                                          *)
(***************************************************************************)
EXTENDS ReportTool, SequenceTheorems, FiniteSetTheorems, WellFoundedInduction, TLAPS

-----------------------------------------------------------------------------
\* Sequences, whatever their elements are.
Listed(s) == \E S : s \in Seq(S)

LEMMA ListedLen ==
  ASSUME NEW s, Listed(s)
  PROVE  Len(s) \in Nat /\ DOMAIN s = 1..Len(s) /\ s = [i \in 1..Len(s) |-> s[i]]
BY DEF Listed

\* A function on 1..n is a sequence, whatever its values.
LEMMA FunctionListed ==
  ASSUME NEW n \in Nat, NEW s, s = [i \in 1..n |-> s[i]]
  PROVE  Listed(s) /\ Len(s) = n
<1> DEFINE S == {s[i] : i \in 1..n}
<1>1. s \in [1..n -> S]
  OBVIOUS
<1>2. s \in Seq(S) /\ Len(s) = n
  BY <1>1
<1> QED
  BY <1>2, Zenon DEF Listed

LEMMA Tuples ==
  ASSUME NEW a, NEW b, NEW c, NEW d
  PROVE  Listed(<<>>) /\ Listed(<<a>>) /\ Listed(<<a, b, c>>) /\ Listed(<<a, b, c, d>>)
<1> DEFINE S == {a, b, c, d}
<1>1. <<>> \in Seq(S) /\ <<a>> \in Seq(S) /\ <<a, b, c>> \in Seq(S) /\ <<a, b, c, d>> \in Seq(S)
  OBVIOUS
<1> QED
  BY <1>1, Zenon DEF Listed

LEMMA ListedPair ==
  ASSUME NEW s, NEW t, Listed(s), Listed(t)
  PROVE  \E S : s \in Seq(S) /\ t \in Seq(S)
<1>1. PICK A, B : s \in Seq(A) /\ t \in Seq(B)
  BY DEF Listed
<1>2. s \in Seq(A \cup B) /\ t \in Seq(A \cup B)
  BY <1>1, SeqMonotonic
<1> QED
  BY <1>2

LEMMA ConcatListed ==
  ASSUME NEW s, NEW t, Listed(s), Listed(t)
  PROVE  /\ Listed(s \o t)
         /\ Len(s \o t) = Len(s) + Len(t)
         /\ \A i \in 1..Len(s) : (s \o t)[i] = s[i]
         /\ \A i \in 1..Len(t) : (s \o t)[Len(s) + i] = t[i]
<1>1. PICK S : s \in Seq(S) /\ t \in Seq(S)
  BY ListedPair
<1> QED
  BY <1>1, ConcatProperties DEF Listed

LEMMA ConcatEmpty ==
  ASSUME NEW s, Listed(s)
  PROVE  s \o <<>> = s /\ <<>> \o s = s
BY ConcatEmptySeq DEF Listed

LEMMA AppendListed ==
  ASSUME NEW s, NEW x, Listed(s)
  PROVE  /\ Listed(Append(s, x))
         /\ Len(Append(s, x)) = Len(s) + 1
         /\ \A i \in 1..Len(s) : Append(s, x)[i] = s[i]
         /\ Append(s, x)[Len(s) + 1] = x
<1>1. PICK S : s \in Seq(S)
  BY DEF Listed
<1>2. s \in Seq(S \cup {x}) /\ x \in S \cup {x}
  BY <1>1
<1> QED
  BY <1>2, AppendProperties DEF Listed

\* Appending is concatenating one element.
LEMMA AppendConcat ==
  ASSUME NEW s, NEW x, Listed(s)
  PROVE  Append(s, x) = s \o <<x>>
<1>1. PICK S : s \in Seq(S)
  BY DEF Listed
<1>2. s \in Seq(S \cup {x}) /\ x \in S \cup {x}
  BY <1>1
<1> QED
  BY <1>2

\* Two sequences are the same that have the same elements.
LEMMA ListedEqual ==
  ASSUME NEW s, NEW t, Listed(s), Listed(t), Len(s) = Len(t), \A i \in 1..Len(s) : s[i] = t[i]
  PROVE  s = t
BY ListedPair, SeqEqual

LEMMA ConcatAssoc ==
  ASSUME NEW s, NEW t, NEW u, Listed(s), Listed(t), Listed(u)
  PROVE  (s \o t) \o u = s \o (t \o u)
<1>1. PICK S, T, U : s \in Seq(S) /\ t \in Seq(T) /\ u \in Seq(U)
  BY DEF Listed
<1> DEFINE A == S \cup T \cup U
<1>2. s \in Seq(A) /\ t \in Seq(A) /\ u \in Seq(A)
  BY <1>1, SeqMonotonic
<1> QED
  BY <1>2, ConcatAssociative

\* Induction over numbers, with a set for what is proved of them.
Smaller == {p \in Nat \X Nat : p[1] < p[2]}

LEMMA SmallerWellFounded == IsWellFoundedOn(Smaller, Nat)
  BY NatLessThanWellFounded, Zenon DEF Smaller, OpToRel

\* A set of numbers with 0 and every successor of a member has them all.
LEMMA NatSet ==
  ASSUME NEW S, 0 \in S, \A n \in Nat : n \in S => n + 1 \in S
  PROVE  Nat \subseteq S
<1> DEFINE T == Nat \ S
<1> SUFFICES ASSUME T # {} PROVE FALSE
  OBVIOUS
<1>1. PICK k \in T : \A y \in T : ~(<<y, k>> \in Smaller)
  <2> HIDE DEF T
  <2>1. T \subseteq Nat
    BY DEF T
  <2> QED
    BY <2>1, SmallerWellFounded, WFMin, Zenon
<1>2. k \in Nat /\ k # 0 /\ k \notin S
  OBVIOUS
<1>3. k - 1 \in Nat /\ k - 1 + 1 = k
  BY <1>2
<1>4. k - 1 \in T
  BY <1>2, <1>3
<1>5. <<k - 1, k>> \in Smaller
  BY <1>2, <1>3 DEF Smaller
<1> QED
  BY <1>1, <1>4, <1>5

\* Sets of numbers up to n have a greatest and a least element.
LEMMA MaxIn ==
  ASSUME NEW n \in Nat, NEW S \in SUBSET (0..n), S # {}
  PROVE  Max(S) \in S /\ \A y \in S : Max(S) >= y
<1> DEFINE T == {k \in Nat : \A A \in SUBSET (0..k) : A # {} => \E x \in A : \A y \in A : x >= y}
<1>1. 0 \in T
  <2>1. ASSUME NEW A \in SUBSET (0..0), A # {} PROVE \E x \in A : \A y \in A : x >= y
    <3>1. \A y \in A : y = 0
      OBVIOUS
    <3>2. 0 \in A
      BY <2>1, <3>1, Zenon
    <3> QED
      BY <3>1, <3>2
  <2> QED
    BY <2>1
<1>2. ASSUME NEW k \in Nat, k \in T PROVE k + 1 \in T
  <2>1. ASSUME NEW A \in SUBSET (0..k + 1), A # {} PROVE \E x \in A : \A y \in A : x >= y
    <3>1. CASE k + 1 \in A
      BY <3>1
    <3>2. CASE k + 1 \notin A
      <4>1. A \in SUBSET (0..k)
        BY <3>2
      <4> QED
        BY <1>2, <2>1, <4>1
    <3> QED
      BY <3>1, <3>2
  <2> QED
    BY <2>1
<1> HIDE DEF T
<1>3. Nat \subseteq T
  BY <1>1, <1>2, NatSet
<1>4. \E x \in S : \A y \in S : x >= y
  BY <1>3, Zenon DEF T
<1> QED
  BY <1>4, Zenon DEF Max

LEMMA MinIn ==
  ASSUME NEW S \in SUBSET Nat, S # {}
  PROVE  Min(S) \in S /\ \A y \in S : Min(S) <= y
<1>1. PICK k \in S : \A y \in S : ~(<<y, k>> \in Smaller)
  BY SmallerWellFounded, WFMin, Zenon
<1>2. ASSUME NEW y \in S PROVE k <= y
  <2>1. <<y, k>> \in Nat \X Nat /\ ~(<<y, k>> \in Smaller)
    BY <1>1
  <2>2. ~(y < k)
    BY <2>1 DEF Smaller
  <2> QED
    BY <2>1, <2>2
<1> QED
  BY <1>1, <1>2, Zenon DEF Min

-----------------------------------------------------------------------------
\* g lists what FlattenSeq makes of the first 1..n sequences; there is one such
\* function, and FlattenSeq is its last value.
IsFlat(g, seqs, n) == g = [i \in 1..n |-> IF i = 1 THEN seqs[i] ELSE g[i - 1] \o seqs[i]]

LEMMA FlatExists ==
  ASSUME NEW seqs, NEW n \in Nat
  PROVE  \E g : IsFlat(g, seqs, n)
<1> DEFINE S == {k \in Nat : \E g : IsFlat(g, seqs, k)}
<1>1. 0 \in S
  <2>1. IsFlat([i \in 1..0 |-> 0], seqs, 0)
    BY DEF IsFlat
  <2> QED
    BY <2>1
<1>2. ASSUME NEW k \in Nat, k \in S PROVE k + 1 \in S
  <2>1. PICK g : IsFlat(g, seqs, k)
    BY <1>2
  <2> DEFINE h == [i \in 1..k + 1 |-> IF i <= k THEN g[i]
                                      ELSE IF i = 1 THEN seqs[i] ELSE g[i - 1] \o seqs[i]]
  <2>2. \A i \in 1..k : g[i] = IF i = 1 THEN seqs[i] ELSE g[i - 1] \o seqs[i]
    BY <2>1, Zenon DEF IsFlat
  <2>3. ASSUME NEW i \in 1..k + 1
        PROVE  h[i] = IF i = 1 THEN seqs[i] ELSE h[i - 1] \o seqs[i]
    <3>1. i # 1 => i - 1 \in 1..k /\ h[i - 1] = g[i - 1]
      OBVIOUS
    <3>2. h[i] = IF i = 1 THEN seqs[i] ELSE g[i - 1] \o seqs[i]
      BY <2>2
    <3> QED
      BY <3>1, <3>2
  <2>4. IsFlat(h, seqs, k + 1)
    <3>1. h = [i \in 1..k + 1 |-> h[i]]
      OBVIOUS
    <3> HIDE DEF h
    <3> QED
      BY <2>3, <3>1, Zenon DEF IsFlat
  <2> QED
    BY <2>4
<1> HIDE DEF S
<1>3. Nat \subseteq S
  BY <1>1, <1>2, NatSet
<1> QED
  BY <1>3 DEF S

LEMMA FlatUnique ==
  ASSUME NEW g, NEW s, NEW n \in Nat, NEW h, NEW t, NEW m \in Nat, IsFlat(g, s, n), IsFlat(h, t, m),
         n <= m, \A i \in 1..n : s[i] = t[i], NEW j \in 1..n
  PROVE  g[j] = h[j]
<1> DEFINE S == {k \in Nat : k \in 1..n => g[k] = h[k]}
<1>0. /\ \A i \in 1..n : g[i] = IF i = 1 THEN s[i] ELSE g[i - 1] \o s[i]
      /\ \A i \in 1..m : h[i] = IF i = 1 THEN t[i] ELSE h[i - 1] \o t[i]
  BY Zenon DEF IsFlat
<1>1. 0 \in S
  OBVIOUS
<1>2. ASSUME NEW k \in Nat, k \in S PROVE k + 1 \in S
  <2>1. CASE k + 1 \in 1..n
    <3>1. k + 1 \in 1..m /\ k + 1 - 1 = k
      BY <2>1
    <3>2. k = 0 \/ k \in 1..n
      BY <2>1
    <3> QED
      BY <1>0, <1>2, <2>1, <3>1, <3>2
  <2> QED
    BY <2>1
<1> HIDE DEF S
<1>3. Nat \subseteq S
  BY <1>1, <1>2, NatSet
<1> QED
  BY <1>3 DEF S

LEMMA FlattenIs ==
  ASSUME NEW s, Len(s) \in Nat, Len(s) # 0
  PROVE  \E g : IsFlat(g, s, Len(s)) /\ FlattenSeq(s) = g[Len(s)]
<1> DEFINE flat == CHOOSE g : IsFlat(g, s, Len(s))
<1>1. IsFlat(flat, s, Len(s))
  BY FlatExists, Zenon
<1>2. FlattenSeq(s) = flat[Len(s)]
  BY DEF FlattenSeq, IsFlat
<1> QED
  BY <1>1, <1>2, Zenon

LEMMA FlattenEmpty == FlattenSeq(<<>>) = <<>>
  BY DEF FlattenSeq

\* Flattening one sequence more concatenates it.
LEMMA FlattenAppend ==
  ASSUME NEW s, Listed(s), NEW x, Listed(x)
  PROVE  FlattenSeq(Append(s, x)) = FlattenSeq(s) \o x
<1> DEFINE n == Len(s)
           t == Append(s, x)
<1>1. /\ n \in Nat /\ Len(t) = n + 1 /\ t[n + 1] = x
      /\ \A i \in 1..n : t[i] = s[i]
  BY AppendListed, ListedLen
<1> HIDE DEF t
<1>2. PICK h : IsFlat(h, t, n + 1) /\ FlattenSeq(t) = h[n + 1]
  <2>1. Len(t) \in Nat /\ Len(t) # 0
    BY <1>1
  <2> QED
    BY <1>1, <2>1, FlattenIs
<1>3. h[n + 1] = IF n + 1 = 1 THEN x ELSE h[n] \o x
  <2>1. n + 1 \in 1..n + 1 /\ n + 1 - 1 = n
    BY <1>1
  <2>2. \A i \in 1..n + 1 : h[i] = IF i = 1 THEN t[i] ELSE h[i - 1] \o t[i]
    <3> HIDE DEF n
    <3> QED
      BY <1>2, Zenon DEF IsFlat
  <2> QED
    BY <1>1, <2>1, <2>2
<1>4. CASE n = 0
  <2>1. s = <<>>
    BY <1>4 DEF Listed
  <2>2. h[n + 1] = x
    BY <1>3, <1>4
  <2>3. FlattenSeq(s) \o x = x
    BY <2>1, FlattenEmpty, ConcatEmpty, Zenon
  <2> QED
    BY <1>2, <2>2, <2>3 DEF t
<1>5. CASE n # 0
  <2>1. PICK g : IsFlat(g, s, n) /\ FlattenSeq(s) = g[n]
    BY <1>1, <1>5, FlattenIs
  <2>2. n \in 1..n
    BY <1>1, <1>5
  <2>3. g[n] = h[n]
    BY <1>1, <1>2, <2>1, <2>2, FlatUnique
  <2> QED
    BY <1>1, <1>2, <1>3, <1>5, <2>1, <2>3 DEF t
<1> QED
  BY <1>4, <1>5

-----------------------------------------------------------------------------
\* The loop of parse_profiling, line by line.
IsRead(g, st, lines, n) ==
  g = [i \in 0..n |-> IF i = 0 THEN st ELSE ReadLine(g[i - 1], lines[i])]

LEMMA ReadExists ==
  ASSUME NEW st, NEW lines, NEW n \in Nat
  PROVE  \E g : IsRead(g, st, lines, n)
<1> DEFINE S == {k \in Nat : \E g : IsRead(g, st, lines, k)}
<1>1. 0 \in S
  <2> DEFINE g == [i \in 0..0 |-> st]
  <2>1. g = [i \in 0..0 |-> IF i = 0 THEN st ELSE ReadLine(g[i - 1], lines[i])]
    OBVIOUS
  <2> QED
    BY <2>1, Zenon DEF IsRead
<1>2. ASSUME NEW k \in Nat, k \in S PROVE k + 1 \in S
  <2>1. PICK g : IsRead(g, st, lines, k)
    BY <1>2
  <2> DEFINE h == [i \in 0..k + 1 |-> IF i <= k THEN g[i] ELSE ReadLine(g[i - 1], lines[i])]
  <2>2. \A i \in 0..k : g[i] = IF i = 0 THEN st ELSE ReadLine(g[i - 1], lines[i])
    BY <2>1 DEF IsRead
  <2>3. ASSUME NEW i \in 0..k + 1
        PROVE  h[i] = IF i = 0 THEN st ELSE ReadLine(h[i - 1], lines[i])
    <3>1. i # 0 => i - 1 \in 0..k /\ h[i - 1] = g[i - 1]
      OBVIOUS
    <3>2. h[i] = IF i = 0 THEN st ELSE ReadLine(g[i - 1], lines[i])
      BY <2>2
    <3> QED
      BY <3>1, <3>2
  <2>4. IsRead(h, st, lines, k + 1)
    <3>1. h = [i \in 0..k + 1 |-> h[i]]
      OBVIOUS
    <3> HIDE DEF h
    <3> QED
      BY <2>3, <3>1, Zenon DEF IsRead
  <2> QED
    BY <2>4
<1> HIDE DEF S
<1>3. Nat \subseteq S
  BY <1>1, <1>2, NatSet
<1> QED
  BY <1>3 DEF S

LEMMA ReadUnique ==
  ASSUME NEW st, NEW g, NEW s, NEW n \in Nat, NEW h, NEW t, NEW m \in Nat,
         IsRead(g, st, s, n), IsRead(h, st, t, m), n <= m, \A i \in 1..n : s[i] = t[i]
  PROVE  g[n] = h[n]
<1> DEFINE S == {k \in Nat : k <= n => g[k] = h[k]}
<1>0. /\ \A i \in 0..n : g[i] = IF i = 0 THEN st ELSE ReadLine(g[i - 1], s[i])
      /\ \A i \in 0..m : h[i] = IF i = 0 THEN st ELSE ReadLine(h[i - 1], t[i])
  BY DEF IsRead
<1>1. 0 \in S
  BY <1>0
<1>2. ASSUME NEW k \in Nat, k \in S PROVE k + 1 \in S
  <2>1. CASE k + 1 <= n
    <3>1. k + 1 \in 0..n /\ k + 1 \in 0..m /\ k + 1 \in 1..n /\ k + 1 - 1 = k /\ k + 1 # 0
      BY <2>1
    <3>2. g[k] = h[k]
      BY <1>2, <2>1
    <3>3. g[k + 1] = ReadLine(g[k], s[k + 1]) /\ h[k + 1] = ReadLine(h[k], t[k + 1])
      BY <1>0, <3>1
    <3> QED
      BY <3>1, <3>2, <3>3
  <2> QED
    BY <2>1
<1> HIDE DEF S
<1>3. Nat \subseteq S
  BY <1>1, <1>2, NatSet
<1> QED
  BY <1>3 DEF S

LEMMA ReadAllIs ==
  ASSUME NEW st, NEW s, Len(s) \in Nat
  PROVE  \E g : IsRead(g, st, s, Len(s)) /\ ReadAll(st, s) = g[Len(s)]
<1> DEFINE g == CHOOSE g : IsRead(g, st, s, Len(s))
<1>1. IsRead(g, st, s, Len(s))
  BY ReadExists
<1>2. ReadAll(st, s) = g[Len(s)]
  BY DEF ReadAll, IsRead
<1> QED
  BY <1>1, <1>2, Zenon

LEMMA ReadAllEmpty ==
  ASSUME NEW st
  PROVE  ReadAll(st, <<>>) = st
<1>1. Len(<<>>) = 0
  OBVIOUS
<1>2. PICK g : IsRead(g, st, <<>>, 0) /\ ReadAll(st, <<>>) = g[0]
  BY <1>1, ReadAllIs
<1> QED
  BY <1>2 DEF IsRead

\* One line more is one step of ReadLine more.
LEMMA ReadAllAppend ==
  ASSUME NEW st, NEW s, Listed(s), NEW x
  PROVE  ReadAll(st, Append(s, x)) = ReadLine(ReadAll(st, s), x)
<1> DEFINE n == Len(s)
           t == Append(s, x)
<1>1. /\ n \in Nat /\ Len(t) = n + 1 /\ t[n + 1] = x
      /\ \A i \in 1..n : s[i] = t[i]
  BY AppendListed, ListedLen
<1> HIDE DEF n, t
<1>2. PICK h : IsRead(h, st, t, n + 1) /\ ReadAll(st, t) = h[n + 1]
  <2>1. Len(t) \in Nat
    BY <1>1
  <2> QED
    BY <1>1, <2>1, ReadAllIs
<1>3. PICK g : IsRead(g, st, s, n) /\ ReadAll(st, s) = g[n]
  BY <1>1, ReadAllIs DEF n
<1>4. h[n + 1] = ReadLine(h[n], x)
  <2>1. n + 1 \in 0..n + 1 /\ n + 1 - 1 = n /\ n + 1 # 0
    BY <1>1
  <2>2. \A i \in 0..n + 1 : h[i] = IF i = 0 THEN st ELSE ReadLine(h[i - 1], t[i])
    BY <1>2, Zenon DEF IsRead
  <2> QED
    BY <1>1, <2>1, <2>2
<1>5. g[n] = h[n]
  <2>1. n + 1 \in Nat /\ n <= n + 1
    BY <1>1
  <2> QED
    BY <1>1, <1>2, <1>3, <2>1, ReadUnique
<1> QED
  BY <1>2, <1>3, <1>4, <1>5 DEF t

\* The first k elements.
FirstOf(t, k) == [i \in 1..k |-> t[i]]

LEMMA FirstListed ==
  ASSUME NEW t, NEW k \in Nat
  PROVE  Listed(FirstOf(t, k)) /\ Len(FirstOf(t, k)) = k /\ FirstOf(t, 0) = <<>>
<1>1. FirstOf(t, k) = [i \in 1..k |-> FirstOf(t, k)[i]] /\ FirstOf(t, 0) = <<>>
  BY DEF FirstOf
<1> QED
  BY <1>1, FunctionListed

LEMMA FirstNext ==
  ASSUME NEW t, NEW k \in Nat
  PROVE  FirstOf(t, k + 1) = Append(FirstOf(t, k), t[k + 1])
<1> DEFINE a == FirstOf(t, k)
           b == FirstOf(t, k + 1)
           c == Append(a, t[k + 1])
<1>1. /\ Listed(a) /\ Len(a) = k /\ Listed(b) /\ Len(b) = k + 1
      /\ \A i \in 1..k : a[i] = t[i]
      /\ \A i \in 1..k + 1 : b[i] = t[i]
  BY FirstListed DEF FirstOf
<1> HIDE DEF a, b
<1>2. /\ Listed(c) /\ Len(c) = k + 1 /\ c[k + 1] = t[k + 1]
      /\ \A i \in 1..k : c[i] = a[i]
  <2>1. PICK x : x = t[k + 1]
    OBVIOUS
  <2>2. /\ Listed(Append(a, x)) /\ Len(Append(a, x)) = Len(a) + 1
        /\ Append(a, x)[Len(a) + 1] = x
        /\ \A i \in 1..Len(a) : Append(a, x)[i] = a[i]
    <3>1. Listed(a)
      BY <1>1
    <3> QED
      BY <3>1, AppendListed
  <2> QED
    BY <1>1, <2>1, <2>2
<1> HIDE DEF c
<1>3. \A i \in 1..k + 1 : b[i] = c[i]
  BY <1>1, <1>2
<1>4. b = c
  BY <1>1, <1>2, <1>3, ListedEqual
<1> QED
  BY <1>4 DEF a, b, c

LEMMA FirstAll ==
  ASSUME NEW t, Listed(t)
  PROVE  FirstOf(t, Len(t)) = t
BY ListedLen DEF FirstOf

LEMMA Single ==
  ASSUME NEW x
  PROVE  Listed(<<x>>) /\ Len(<<x>>) = 1 /\ <<x>>[1] = x
<1>1. <<x>> \in Seq({x}) /\ Len(<<x>>) = 1 /\ <<x>>[1] = x
  OBVIOUS
<1> QED
  BY <1>1, Zenon DEF Listed

LEMMA ConcatAppend ==
  ASSUME NEW s, Listed(s), NEW t, Listed(t), NEW x
  PROVE  s \o Append(t, x) = Append(s \o t, x)
<1>1. Listed(<<x>>) /\ Listed(s \o t)
  BY Single, ConcatListed
<1>2. Append(t, x) = t \o <<x>> /\ Append(s \o t, x) = (s \o t) \o <<x>>
  BY <1>1, AppendConcat
<1> QED
  BY <1>1, <1>2, ConcatAssoc

\* Two parts of a profile are read one after the other.
LEMMA ReadAllConcat ==
  ASSUME NEW st, NEW s, Listed(s), NEW t, Listed(t)
  PROVE  ReadAll(st, s \o t) = ReadAll(ReadAll(st, s), t)
<1> DEFINE S == {k \in Nat : ReadAll(st, s \o FirstOf(t, k)) = ReadAll(ReadAll(st, s), FirstOf(t, k))}
<1>1. 0 \in S
  BY FirstListed, ReadAllEmpty, ConcatEmpty, Zenon
<1>2. ASSUME NEW k \in Nat, k \in S PROVE k + 1 \in S
  <2>1. PICK a : a = FirstOf(t, k)
    OBVIOUS
  <2>2. PICK x : x = t[k + 1]
    OBVIOUS
  <2>3. Listed(a) /\ FirstOf(t, k + 1) = Append(a, x)
    BY <2>1, <2>2, FirstListed, FirstNext, Zenon
  <2>4. Listed(s \o a) /\ s \o Append(a, x) = Append(s \o a, x)
    BY <2>3, ConcatListed, ConcatAppend
  <2>5. ReadAll(st, Append(s \o a, x)) = ReadLine(ReadAll(st, s \o a), x)
    BY <2>4, ReadAllAppend
  <2>6. PICK e : e = ReadAll(st, s)
    OBVIOUS
  <2>7. ReadAll(e, Append(a, x)) = ReadLine(ReadAll(e, a), x)
    BY <2>3, ReadAllAppend
  <2>8. ReadAll(st, s \o a) = ReadAll(e, a)
    BY <1>2, <2>1, <2>6
  <2>9. ReadAll(st, s \o FirstOf(t, k + 1)) = ReadAll(e, FirstOf(t, k + 1))
    BY <2>3, <2>4, <2>5, <2>7, <2>8, Zenon
  <2> QED
    BY <2>6, <2>9
<1> HIDE DEF S
<1>3. Nat \subseteq S
  BY <1>1, <1>2, NatSet
<1>4. Len(t) \in S
  BY <1>3, ListedLen
<1> QED
  BY <1>4, FirstAll DEF S

\* A state of the loop.
At(launch, function, bb, rows) ==
  [launch |-> launch, function |-> function, bb |-> bb, records |-> rows]
State(st) == Listed(st.records) /\ st = At(st.launch, st.function, st.bb, st.records)

\* What it makes of a record that comes after the headers of a launch, a
\* function and a block.
Row(launch, function, bb, r) ==
  [launch_id |-> launch, function_name |-> function, basic_block |-> bb,
   instr_name |-> r.instr_name, pc |-> r.pc, active_threads |-> r.lanes,
   metrics |-> Dict(r.metrics)]

\* The four kinds of lines.
LEMMA LaunchRead ==
  ASSUME NEW launch, NEW function, NEW bb, NEW rows, NEW n, NEW x
  PROVE  ReadLine(At(launch, function, bb, rows), [kind |-> "Launch", id |-> n, name |-> x])
           = At(n, None, None, rows)
BY Zenon DEF ReadLine, At

LEMMA FunctionRead ==
  ASSUME NEW launch, NEW function, NEW bb, NEW rows, NEW x
  PROVE  ReadLine(At(launch, function, bb, rows), [kind |-> "Function", name |-> x])
           = At(launch, x, None, rows)
BY Zenon DEF ReadLine, At

LEMMA BlockRead ==
  ASSUME NEW launch, NEW function, NEW bb, NEW rows, NEW x
  PROVE  ReadLine(At(launch, function, bb, rows), [kind |-> "Basic Block", name |-> x])
           = At(launch, function, x, rows)
BY DEF ReadLine, At

LEMMA RecordRead ==
  ASSUME NEW launch, NEW function, NEW bb, NEW rows, NEW x
  PROVE  ReadLine(At(launch, function, bb, rows), [kind |-> "Record", rec |-> x])
           = At(launch, function, bb, Append(rows, Row(launch, function, bb, x)))
BY Zenon DEF ReadLine, At, Row

\* Reading a single line.
LEMMA OneRead ==
  ASSUME NEW st, NEW x
  PROVE  ReadAll(st, <<x>>) = ReadLine(st, x)
<1>1. Append(<<>>, x) = <<x>> /\ <<>> \in Seq({})
  OBVIOUS
<1>2. ReadAll(st, Append(<<>>, x)) = ReadLine(ReadAll(st, <<>>), x)
  BY <1>1, ReadAllAppend, Zenon DEF Listed
<1> QED
  BY <1>1, <1>2, ReadAllEmpty

\* A record and the header before it, if any.
LEMMA RecordLinesRead ==
  ASSUME NEW launch, NEW function, NEW bb, NEW rows, NEW r
  PROVE  /\ Listed(RecordLines(bb, r))
         /\ \A i \in DOMAIN RecordLines(bb, r) : RecordLines(bb, r)[i].kind # "Launch"
         /\ ReadAll(At(launch, function, bb, rows), RecordLines(bb, r))
              = At(launch, function, r.basic_block,
                   Append(rows, Row(launch, function, r.basic_block, r)))
<1>1. PICK header : header = [kind |-> "Basic Block", name |-> r.basic_block]
  BY Zenon
<1>2. PICK line : line = [kind |-> "Record", rec |-> r]
  BY Zenon
<1>3. header.kind # "Launch" /\ line.kind # "Launch"
  BY <1>1, <1>2, Zenon
<1>4. PICK st : st = At(launch, function, bb, rows)
  OBVIOUS
<1>5. PICK end : end = At(launch, function, r.basic_block,
                          Append(rows, Row(launch, function, r.basic_block, r)))
  OBVIOUS
<1>6. RecordLines(bb, r) = (IF r.basic_block = bb THEN <<>> ELSE <<header>>) \o <<line>>
  BY <1>1, <1>2, Zenon DEF RecordLines
<1>7. CASE r.basic_block = bb
  <2>1. RecordLines(bb, r) = <<line>>
    BY <1>6, <1>7
  <2>2. ReadLine(st, line) = end
    BY <1>2, <1>4, <1>5, <1>7, RecordRead, Zenon
  <2>3. Listed(<<line>>) /\ ReadAll(st, <<line>>) = end
    BY <2>2, Single, OneRead
  <2>4. \A i \in DOMAIN <<line>> : <<line>>[i].kind # "Launch"
    BY <1>3
  <2> QED
    BY <1>4, <1>5, <2>1, <2>3, <2>4
<1>8. CASE r.basic_block # bb
  <2>1. RecordLines(bb, r) = <<header>> \o <<line>>
    BY <1>6, <1>8, Zenon
  <2>2. PICK s, t : s = <<header>> /\ t = <<line>>
    BY Zenon
  <2>3. Listed(s) /\ Listed(t) /\ Len(s) = 1 /\ Len(t) = 1 /\ s[1] = header /\ t[1] = line
    BY <2>2, Single
  <2>4. /\ Listed(s \o t) /\ Len(s \o t) = 2
        /\ (s \o t)[1] = header /\ (s \o t)[2] = line
    <3>1. /\ Listed(s \o t) /\ Len(s \o t) = Len(s) + Len(t)
          /\ \A i \in 1..Len(s) : (s \o t)[i] = s[i]
          /\ \A i \in 1..Len(t) : (s \o t)[Len(s) + i] = t[i]
      <4>1. Listed(s) /\ Listed(t)
        BY <2>3
      <4> QED
        BY <4>1, ConcatListed
    <3>2. 1 \in 1..Len(s) /\ 1 \in 1..Len(t) /\ Len(s) + 1 = 2 /\ Len(s) + Len(t) = 2
      BY <2>3
    <3> QED
      BY <2>3, <3>1, <3>2
  <2>5. \A i \in DOMAIN (s \o t) : (s \o t)[i].kind # "Launch"
    <3>1. DOMAIN (s \o t) = 1..2
      BY <2>4, ListedLen
    <3>2. \A i \in 1..2 : i = 1 \/ i = 2
      OBVIOUS
    <3> QED
      BY ONLY <1>3, <2>4, <3>1, <3>2
  <2>6. ReadLine(st, header) = At(launch, function, r.basic_block, rows)
    <3>1. PICK x : x = r.basic_block
      OBVIOUS
    <3>2. ReadLine(At(launch, function, bb, rows), [kind |-> "Basic Block", name |-> x])
            = At(launch, function, x, rows)
      BY DEF ReadLine, At
    <3> QED
      BY ONLY <1>1, <1>4, <3>1, <3>2, Zenon
  <2>7. ReadLine(At(launch, function, r.basic_block, rows), line) = end
    BY <1>2, <1>5, RecordRead, Zenon
  <2>8. ReadAll(st, s \o t) = ReadAll(ReadAll(st, s), t)
    <3>1. Listed(s) /\ Listed(t)
      BY <2>3
    <3> QED
      BY <3>1, ReadAllConcat
  <2>9. ReadAll(st, s \o t) = end
    BY <2>2, <2>6, <2>7, <2>8, OneRead, Zenon
  <2> QED
    BY <1>4, <1>5, <2>1, <2>2, <2>4, <2>5, <2>9
<1> QED
  BY <1>7, <1>8

\* The lines of a buffer's records, from the first on.
BlockBefore(buf, n) == IF n = 1 THEN None ELSE buf[n - 1].basic_block
RowsOfBuffer(launch, function, buf, k) ==
  [i \in 1..k |-> Row(launch, function, buf[i].basic_block, buf[i])]
NoLaunch(lines) == \A i \in 1..Len(lines) : lines[i].kind # "Launch"

LEMMA BlocksRead ==
  ASSUME NEW buf, Listed(buf), NEW launch, NEW function, NEW rows, Listed(rows)
  PROVE  \A k \in 0..Len(buf) :
           LET lines == FlattenSeq([n \in 1..k |-> RecordLines(BlockBefore(buf, n), buf[n])])
           IN  /\ Listed(lines) /\ NoLaunch(lines)
               /\ ReadAll(At(launch, function, None, rows), lines)
                    = At(launch, function, IF k = 0 THEN None ELSE buf[k].basic_block,
                         rows \o RowsOfBuffer(launch, function, buf, k))
<1> DEFINE all == [n \in 1..Len(buf) |-> RecordLines(BlockBefore(buf, n), buf[n])]
           lines(k) == FlattenSeq(FirstOf(all, k))
           first == At(launch, function, None, rows)
           P(k) == /\ Listed(lines(k)) /\ NoLaunch(lines(k))
                   /\ ReadAll(first, lines(k))
                        = At(launch, function, IF k = 0 THEN None ELSE buf[k].basic_block,
                             rows \o RowsOfBuffer(launch, function, buf, k))
           S == {k \in Nat : k <= Len(buf) => P(k)}
<1>0. Len(buf) \in Nat
  BY ListedLen
<1>1. 0 \in S
  <2>1. lines(0) = <<>>
    BY FirstListed, FlattenEmpty
  <2>2. Listed(<<>>) /\ NoLaunch(<<>>)
    BY EmptySeq DEF Listed, NoLaunch
  <2>3. RowsOfBuffer(launch, function, buf, 0) = <<>>
    BY DEF RowsOfBuffer
  <2>4. rows \o <<>> = rows
    BY <2>2, ConcatEmpty
  <2> HIDE DEF lines, first
  <2>5. P(0)
    BY <2>1, <2>2, <2>3, <2>4, ReadAllEmpty, Zenon DEF first
  <2> QED
    BY <2>5
<1>2. ASSUME NEW k \in Nat, k \in S PROVE k + 1 \in S
  <2> SUFFICES ASSUME k + 1 <= Len(buf) PROVE P(k + 1)
    OBVIOUS
  <2>1. k <= Len(buf) /\ k + 1 \in 1..Len(buf) /\ k + 1 # 0
    BY <1>0
  <2>2. P(k)
    BY <1>2, <2>1
  <2>3. PICK a : a = lines(k)
    BY Zenon
  <2>4. PICK bb : bb = IF k = 0 THEN None ELSE buf[k].basic_block
    OBVIOUS
  <2>5. PICK r : r = buf[k + 1]
    OBVIOUS
  <2>6. bb = BlockBefore(buf, k + 1)
    BY <2>4 DEF BlockBefore
  <2>7. PICK x : x = RecordLines(bb, r)
    OBVIOUS
  <2>8. all[k + 1] = x
    BY <2>1, <2>5, <2>6, <2>7
  <2>9. PICK old : old = RowsOfBuffer(launch, function, buf, k)
    OBVIOUS
  <2>10. PICK row : row = Row(launch, function, r.basic_block, r)
    OBVIOUS
  <2>11. /\ Listed(x) /\ \A i \in DOMAIN x : x[i].kind # "Launch"
         /\ ReadAll(At(launch, function, bb, rows \o old), x)
              = At(launch, function, r.basic_block, Append(rows \o old, row))
    BY <2>7, <2>10, RecordLinesRead
  <2>12. lines(k + 1) = a \o x
    <3> HIDE DEF all
    <3>1. FirstOf(all, k + 1) = Append(FirstOf(all, k), x) /\ Listed(FirstOf(all, k))
      BY <2>8, FirstNext, FirstListed, Zenon
    <3> QED
      BY <2>3, <2>11, <3>1, FlattenAppend, Zenon
  <2>13. /\ Listed(a) /\ NoLaunch(a)
         /\ ReadAll(first, a) = At(launch, function, bb, rows \o old)
    BY <2>2, <2>3, <2>4, <2>9
  <2>14. RowsOfBuffer(launch, function, buf, k + 1) = Append(old, row) /\ Listed(old)
    <3> DEFINE t == [i \in 1..Len(buf) |-> Row(launch, function, buf[i].basic_block, buf[i])]
    <3>1. /\ RowsOfBuffer(launch, function, buf, k) = FirstOf(t, k)
          /\ RowsOfBuffer(launch, function, buf, k + 1) = FirstOf(t, k + 1)
      BY <1>0, <2>1 DEF RowsOfBuffer, FirstOf
    <3>2. t[k + 1] = row
      BY <2>1, <2>5, <2>10
    <3> HIDE DEF t
    <3> QED
      BY <2>9, <3>1, <3>2, FirstNext, FirstListed, Zenon
  <2>15. rows \o Append(old, row) = Append(rows \o old, row)
    BY <2>14, ConcatAppend
  <2>16. NoLaunch(a \o x) /\ Listed(a \o x)
    <3>1. /\ Listed(a \o x) /\ Len(a \o x) = Len(a) + Len(x)
          /\ \A i \in 1..Len(a) : (a \o x)[i] = a[i]
          /\ \A i \in 1..Len(x) : (a \o x)[Len(a) + i] = x[i]
      BY <2>11, <2>13, ConcatListed
    <3>2. Len(a) \in Nat /\ Len(x) \in Nat /\ DOMAIN x = 1..Len(x)
      BY <2>11, <2>13, ListedLen
    <3>3. ASSUME NEW i \in 1..Len(a \o x) PROVE (a \o x)[i].kind # "Launch"
      <4>1. CASE i \in 1..Len(a)
        BY <2>13, <3>1, <4>1 DEF NoLaunch
      <4>2. CASE i \notin 1..Len(a)
        <5>1. i - Len(a) \in 1..Len(x) /\ Len(a) + (i - Len(a)) = i
          BY <3>1, <3>2, <4>2
        <5> QED
          BY <2>11, <3>1, <3>2, <5>1
      <4> QED
        BY <4>1, <4>2
    <3> QED
      BY <3>1, <3>3 DEF NoLaunch
  <2>17. ReadAll(first, a \o x) = ReadAll(ReadAll(first, a), x)
    BY <2>11, <2>13, ReadAllConcat
  <2> HIDE DEF lines, first
  <2> QED
    BY <2>1, <2>5, <2>11, <2>12, <2>13, <2>14, <2>15, <2>16, <2>17, Zenon
<1> HIDE DEF S, P
<1>3. Nat \subseteq S
  BY <1>1, <1>2, NatSet
<1>4. ASSUME NEW k \in 0..Len(buf)
      PROVE  P(k) /\ [n \in 1..k |-> RecordLines(BlockBefore(buf, n), buf[n])] = FirstOf(all, k)
  <2>1. k \in S
    BY <1>0, <1>3
  <2>2. k \in Nat /\ k <= Len(buf) /\ \A n \in 1..k : n \in 1..Len(buf)
    BY <1>0
  <2> QED
    BY <2>1, <2>2 DEF S, FirstOf
<1> QED
  BY <1>4, Zenon DEF P

\* What Profiler::flush writes of a buffer is read as one row for each record,
\* in the order of the buffer, with the function and the block it stood in.
LEMMA LinesRead ==
  ASSUME NEW buf, Listed(buf), NEW f, NEW st, State(st)
  PROVE  /\ Listed(Lines(f, buf)) /\ NoLaunch(Lines(f, buf))
         /\ ReadAll(st, Lines(f, buf))
              = IF buf = <<>> THEN st
                ELSE At(st.launch, f, buf[Len(buf)].basic_block,
                        st.records \o RowsOfBuffer(st.launch, f, buf, Len(buf)))
<1>1. CASE buf = <<>>
  <2>1. Lines(f, buf) = <<>>
    BY <1>1 DEF Lines
  <2>2. Listed(<<>>) /\ NoLaunch(<<>>)
    <3>1. <<>> \in Seq({}) /\ Len(<<>>) = 0
      OBVIOUS
    <3> QED
      BY <3>1 DEF Listed, NoLaunch
  <2>3. ReadAll(st, <<>>) = st
    BY ReadAllEmpty
  <2> QED
    BY <1>1, <2>1, <2>2, <2>3
<1>2. CASE buf # <<>>
  <2>1. PICK head : head = [kind |-> "Function", name |-> f]
    BY Zenon
  <2>2. PICK s : s = <<head>>
    BY Zenon
  <2>3. PICK t : t = FlattenSeq([n \in 1..Len(buf) |-> RecordLines(BlockBefore(buf, n), buf[n])])
    BY Zenon
  <2>4. DOMAIN buf = 1..Len(buf) /\ Len(buf) \in Nat /\ Len(buf) # 0
    BY <1>2, ListedLen DEF Listed
  <2>5. Lines(f, buf) = s \o t
    BY <1>2, <2>1, <2>2, <2>3, <2>4, Zenon DEF Lines, BlockBefore
  <2>6. PICK first : first = At(st.launch, f, None, st.records)
    OBVIOUS
  <2>7. PICK end : end = At(st.launch, f, buf[Len(buf)].basic_block,
                            st.records \o RowsOfBuffer(st.launch, f, buf, Len(buf)))
    OBVIOUS
  <2>8. Listed(t) /\ NoLaunch(t) /\ ReadAll(first, t) = end
    <3>1. Len(buf) \in 0..Len(buf) /\ Len(buf) # 0 /\ Listed(st.records)
      BY <2>4 DEF State
    <3>2. /\ Listed(t) /\ NoLaunch(t)
          /\ ReadAll(At(st.launch, f, None, st.records), t)
               = At(st.launch, f, IF Len(buf) = 0 THEN None ELSE buf[Len(buf)].basic_block,
                    st.records \o RowsOfBuffer(st.launch, f, buf, Len(buf)))
      BY <2>3, <3>1, BlocksRead
    <3>3. PICK bb : bb = IF Len(buf) = 0 THEN None ELSE buf[Len(buf)].basic_block
      OBVIOUS
    <3>4. bb = buf[Len(buf)].basic_block
      BY ONLY <3>1, <3>3
    <3>5. end = At(st.launch, f, bb, st.records \o RowsOfBuffer(st.launch, f, buf, Len(buf)))
      BY ONLY <2>7, <3>4
    <3>6. ReadAll(first, t) = end
      BY ONLY <2>6, <3>2, <3>3, <3>5
    <3> QED
      BY ONLY <3>2, <3>6
  <2>9. ReadAll(st, s) = first
    <3>1. PICK l, g, b, rows : l = st.launch /\ g = st.function /\ b = st.bb /\ rows = st.records
      OBVIOUS
    <3>2. ReadLine(At(l, g, b, rows), head) = At(l, f, None, rows)
      BY <2>1, FunctionRead
    <3>3. st = At(l, g, b, rows)
      BY <3>1 DEF State
    <3> QED
      BY <2>2, <2>6, <3>1, <3>2, <3>3, OneRead
  <2>10. Listed(s) /\ Len(s) = 1 /\ s[1] = head /\ head.kind # "Launch"
    BY <2>1, <2>2, Single
  <2>11. ReadAll(st, s \o t) = end
    BY <2>8, <2>9, <2>10, ReadAllConcat
  <2>12. /\ Listed(s \o t) /\ Len(s \o t) = Len(s) + Len(t)
         /\ \A i \in 1..Len(s) : (s \o t)[i] = s[i]
         /\ \A i \in 1..Len(t) : (s \o t)[Len(s) + i] = t[i]
    <3>1. Listed(s) /\ Listed(t)
      BY <2>8, <2>10
    <3> QED
      BY <3>1, ConcatListed
  <2>13. ASSUME NEW i \in 1..Len(s \o t) PROVE (s \o t)[i].kind # "Launch"
    <3>1. Len(t) \in Nat
      BY <2>8, ListedLen
    <3>2. CASE i = 1
      BY <2>10, <2>12, <3>2
    <3>3. CASE i # 1
      <4>1. i - 1 \in 1..Len(t) /\ Len(s) + (i - 1) = i
        BY <2>10, <2>12, <3>1, <3>3
      <4>2. t[i - 1].kind # "Launch" /\ (s \o t)[Len(s) + (i - 1)] = t[i - 1]
        BY <2>8, <2>12, <4>1 DEF NoLaunch
      <4> QED
        BY <4>1, <4>2
    <3> QED
      BY <3>2, <3>3
  <2> QED
    BY <1>2, <2>5, <2>7, <2>11, <2>12, <2>13 DEF NoLaunch
<1> QED
  BY <1>1, <1>2

\* In particular they are a sequence, without a header of a launch.
LEMMA LinesListed ==
  ASSUME NEW buf, Listed(buf), NEW f
  PROVE  Listed(Lines(f, buf)) /\ NoLaunch(Lines(f, buf))
<1>1. Listed(<<>>)
  <2>1. <<>> \in Seq({})
    OBVIOUS
  <2> QED
    BY <2>1 DEF Listed
<1>2. State(At(0, None, None, <<>>))
  BY <1>1 DEF State, At
<1> QED
  BY <1>2, LinesRead, Zenon

-----------------------------------------------------------------------------
\* The elements that are kept are those of the whole from each place in keep,
\* once.
LEMMA KeptFrom ==
  ASSUME NEW s, Listed(s), NEW keep
  PROVE  /\ Listed(Kept(s, keep))
         /\ \E p \in [1..Len(Kept(s, keep)) -> keep \cap DOMAIN s] :
              /\ \A i \in 1..Len(Kept(s, keep)) : Kept(s, keep)[i] = s[p[i]]
              /\ \A i, j \in 1..Len(Kept(s, keep)) : p[i] = p[j] => i = j
              /\ \A x \in keep \cap DOMAIN s : \E i \in 1..Len(Kept(s, keep)) : p[i] = x
<1> DEFINE One(i) == IF i \in keep THEN <<s[i]>> ELSE <<>>
           all == [i \in 1..Len(s) |-> One(i)]
           some(k) == FlattenSeq(FirstOf(all, k))
           P(k, q) == /\ Listed(q)
                      /\ \E p \in [1..Len(q) -> keep \cap 1..k] :
                           /\ \A i \in 1..Len(q) : q[i] = s[p[i]]
                           /\ \A i, j \in 1..Len(q) : p[i] = p[j] => i = j
                           /\ \A x \in keep \cap 1..k : \E i \in 1..Len(q) : p[i] = x
           S == {k \in Nat : k <= Len(s) => P(k, some(k))}
<1>0. Len(s) \in Nat /\ DOMAIN s = 1..Len(s)
  BY ListedLen
<1>1. 0 \in S
  <2>1. some(0) = <<>> /\ Len(<<>>) = 0 /\ <<>> \in Seq({})
    BY FirstListed, FlattenEmpty
  <2>2. P(0, <<>>)
    <3>1. [i \in {} |-> 0] \in [1..0 -> keep \cap 1..0]
      OBVIOUS
    <3> QED
      BY <2>1, <3>1, Zenon DEF Listed
  <2> HIDE DEF P, some
  <2> QED
    BY <2>1, <2>2
<1>2. ASSUME NEW k \in Nat, k \in S PROVE k + 1 \in S
  <2>0. (k + 1 <= Len(s) => P(k + 1, some(k + 1))) => k + 1 \in S
    <3> HIDE DEF P, some
    <3> QED
      OBVIOUS
  <2> SUFFICES ASSUME k + 1 <= Len(s) PROVE P(k + 1, some(k + 1))
    BY <2>0, Zenon
  <2>1. k <= Len(s) /\ k + 1 \in 1..Len(s)
    BY <1>0
  <2>2. PICK q : q = some(k)
    BY Zenon
  <2>3. P(k, q)
    BY <1>2, <2>1, <2>2, Zenon
  <2>4. PICK x : x = One(k + 1)
    BY Zenon
  <2>5. Listed(x)
    <3>1. <<>> \in Seq({})
      OBVIOUS
    <3> QED
      BY <2>4, <3>1, Single DEF Listed
  <2>6. some(k + 1) = q \o x
    <3>1. all[k + 1] = x
      BY <2>1, <2>4
    <3> HIDE DEF all
    <3>2. FirstOf(all, k + 1) = Append(FirstOf(all, k), x) /\ Listed(FirstOf(all, k))
      BY <3>1, FirstNext, FirstListed, Zenon
    <3> QED
      BY <2>2, <2>5, <3>2, FlattenAppend, Zenon
  <2>7. PICK p \in [1..Len(q) -> keep \cap 1..k] :
          /\ \A i \in 1..Len(q) : q[i] = s[p[i]]
          /\ \A i, j \in 1..Len(q) : p[i] = p[j] => i = j
          /\ \A y \in keep \cap 1..k : \E i \in 1..Len(q) : p[i] = y
    BY <2>3
  <2>8. Listed(q) /\ Len(q) \in Nat
    BY <2>3, ListedLen
  <2>9. CASE k + 1 \in keep
    <3>1. q \o x = Append(q, s[k + 1])
      BY <2>4, <2>8, <2>9, AppendConcat
    <3>2. PICK r : r = Append(q, s[k + 1])
      BY Zenon
    <3>3. PICK n : n = Len(q)
      OBVIOUS
    <3>4. /\ Listed(r) /\ Len(r) = n + 1 /\ r[n + 1] = s[k + 1] /\ n \in Nat
          /\ \A i \in 1..n : r[i] = q[i]
      <4>1. PICK y : y = s[k + 1]
        OBVIOUS
      <4>2. /\ Listed(Append(q, y)) /\ Len(Append(q, y)) = Len(q) + 1
            /\ Append(q, y)[Len(q) + 1] = y
            /\ \A i \in 1..Len(q) : Append(q, y)[i] = q[i]
        BY <2>8, AppendListed
      <4> QED
        BY <2>8, <3>2, <3>3, <4>1, <4>2
    <3> DEFINE o == [i \in 1..n + 1 |-> IF i = n + 1 THEN k + 1 ELSE p[i]]
    <3>5. o \in [1..Len(r) -> keep \cap 1..k + 1]
      BY <2>7, <2>9, <3>3, <3>4
    <3>6. \A i \in 1..Len(r) : r[i] = s[o[i]]
      BY <2>7, <3>3, <3>4
    <3>7. \A i, j \in 1..Len(r) : o[i] = o[j] => i = j
      <4>1. o[n + 1] = k + 1 /\ \A i \in 1..n : o[i] = p[i] /\ o[i] \in 1..k
        BY <2>7, <3>3, <3>4
      <4>2. \A i \in 1..Len(r) : i = n + 1 \/ i \in 1..n
        BY <3>4
      <4> HIDE DEF o
      <4> QED
        BY <2>7, <3>3, <4>1, <4>2
    <3>8. ASSUME NEW y \in keep \cap 1..k + 1 PROVE \E i \in 1..Len(r) : o[i] = y
      <4>1. CASE y = k + 1
        <5>1. n + 1 \in 1..Len(r) /\ o[n + 1] = k + 1
          BY <3>4
        <5> QED
          BY <4>1, <5>1
      <4>2. CASE y # k + 1
        <5>1. PICK i \in 1..n : p[i] = y
          BY <2>7, <3>3, <4>2
        <5>2. i \in 1..Len(r) /\ o[i] = p[i]
          BY <3>4
        <5> QED
          BY <5>1, <5>2, Zenon
      <4> QED
        BY <4>1, <4>2
    <3> HIDE DEF o
    <3>9. P(k + 1, r)
      BY <3>4, <3>5, <3>6, <3>7, <3>8, Zenon
    <3> HIDE DEF P, some
    <3> QED
      BY <2>6, <3>1, <3>2, <3>9, Zenon
  <2>10. CASE k + 1 \notin keep
    <3>1. q \o x = q
      BY <2>4, <2>8, <2>10, ConcatEmpty
    <3>2. p \in [1..Len(q) -> keep \cap 1..k + 1]
      BY <2>7
    <3>3. \A y \in keep \cap 1..k + 1 : y \in keep \cap 1..k
      BY <2>10
    <3>4. P(k + 1, q)
      BY <2>7, <2>8, <3>2, <3>3
    <3> HIDE DEF P, some
    <3> QED
      BY <2>6, <3>1, <3>4
  <2> QED
    BY <2>9, <2>10, Zenon
<1> HIDE DEF S, P
<1>3. Nat \subseteq S
  BY <1>1, <1>2, NatSet
<1>4. P(Len(s), some(Len(s)))
  BY <1>0, <1>3 DEF S
<1>5. some(Len(s)) = Kept(s, keep)
  <2>1. FirstOf(all, Len(s)) = [i \in DOMAIN s |-> One(i)]
    BY <1>0 DEF FirstOf
  <2> QED
    BY <2>1 DEF Kept
<1> HIDE DEF some
<1> QED
  BY <1>0, <1>4, <1>5 DEF P

-----------------------------------------------------------------------------
\* The lines of a body up to its first brace.
LEMMA ContentListed ==
  ASSUME NEW body, Listed(body)
  PROVE  /\ Listed(Content(body))
         /\ \A i \in 1..Len(Content(body)) : \E k \in DOMAIN body : Content(body)[i] = body[k]
<1> DEFINE braces == {i \in DOMAIN body : body[i].kind = "brace"}
<1>1. DOMAIN body = 1..Len(body) /\ Len(body) \in Nat
  BY ListedLen
<1>2. CASE braces = {}
  BY <1>1, <1>2 DEF Content
<1>3. CASE braces # {}
  <2>1. PICK b : b = Min(braces)
    OBVIOUS
  <2>6. b \in 1..Len(body)
    <3>1. braces \in SUBSET Nat /\ braces \subseteq 1..Len(body)
      BY <1>1
    <3> HIDE DEF braces
    <3> QED
      BY <1>3, <2>1, <3>1, MinIn, Zenon
  <2>2. PICK k \in Nat : k = b - 1 /\ k <= Len(body)
    BY ONLY <1>1, <2>6
  <2>3. Content(body) = SubSeq(body, 1, k)
    BY <1>3, <2>1, <2>2, Zenon DEF Content
  <2>4. PICK S : body \in Seq(S)
    BY DEF Listed
  <2>5. /\ SubSeq(body, 1, k) \in Seq(S) /\ Len(SubSeq(body, 1, k)) = k
        /\ \A i \in 1..k : SubSeq(body, 1, k)[i] = body[i]
    <3>1. \A i \in 1..k : body[i] \in S
      BY <1>1, <2>2, <2>4, ElementOfSeq
    <3> QED
      BY <2>2, <2>4, <3>1, SubSeqProperties
  <2>7. PICK q : q = SubSeq(body, 1, k)
    BY Zenon
  <2>8. \A i \in 1..Len(q) : i \in DOMAIN body /\ q[i] = body[i]
    BY <1>1, <2>2, <2>5, <2>7
  <2> QED
    BY <2>3, <2>5, <2>7, <2>8 DEF Listed
<1> QED
  BY <1>2, <1>3

\* The loop of Module::Make, function by function: it numbers the instructions.
IsMade(g, text, n) ==
  g = [i \in 0..n |-> IF i = 0 THEN [instructions |-> <<>>, functions |-> Empty]
                      ELSE AddFunction(g[i - 1], text, i)]

LEMMA MadeExists ==
  ASSUME NEW text, NEW n \in Nat
  PROVE  \E g : IsMade(g, text, n)
<1> DEFINE none == [instructions |-> <<>>, functions |-> Empty]
           S == {k \in Nat : \E g : IsMade(g, text, k)}
<1>1. 0 \in S
  <2>1. IsMade([i \in 0..0 |-> none], text, 0)
    BY DEF IsMade
  <2> QED
    BY <2>1
<1>2. ASSUME NEW k \in Nat, k \in S PROVE k + 1 \in S
  <2>1. PICK g : IsMade(g, text, k)
    BY <1>2
  <2> DEFINE h == [i \in 0..k + 1 |-> IF i <= k THEN g[i] ELSE AddFunction(g[k], text, k + 1)]
  <2>2. \A i \in 0..k : g[i] = IF i = 0 THEN none ELSE AddFunction(g[i - 1], text, i)
    BY <2>1 DEF IsMade
  <2>3. \A i \in 0..k + 1 : h[i] = IF i = 0 THEN none ELSE AddFunction(h[i - 1], text, i)
    BY <2>2
  <2>4. IsMade(h, text, k + 1)
    BY <2>3 DEF IsMade
  <2> QED
    BY <2>4
<1> HIDE DEF S
<1>3. Nat \subseteq S
  BY <1>1, <1>2, NatSet
<1> QED
  BY <1>3 DEF S

LEMMA MakeNumbers ==
  ASSUME NEW text, IsText(text), NEW f \in DOMAIN Make(text).functions
  PROVE  Make(text).functions[f].pc \in Nat
<1> DEFINE Numbers(m) == /\ Listed(m.instructions)
                         /\ \A x \in DOMAIN m.functions : m.functions[x].pc \in Nat
           N == Len(text)
           g == CHOOSE g : IsMade(g, text, N)
           S == {k \in Nat : k <= N => Numbers(g[k])}
<1>0. N \in Nat /\ DOMAIN text = 1..N
  BY DEF IsText, IsList
<1>1. IsMade(g, text, N)
  BY <1>0, MadeExists
<1>2. Make(text) = g[N]
  BY DEF Make, IsMade
<1> HIDE DEF g
<1>3. \A i \in 0..N : g[i] = IF i = 0 THEN [instructions |-> <<>>, functions |-> Empty]
                             ELSE AddFunction(g[i - 1], text, i)
  BY <1>1 DEF IsMade
<1>4. 0 \in S
  <2>1. g[0].instructions = <<>> /\ g[0].functions = Empty
    BY <1>0, <1>3
  <2> QED
    BY <2>1, Tuples, Zenon DEF Empty
<1>5. ASSUME NEW k \in Nat, k \in S PROVE k + 1 \in S
  <2> SUFFICES ASSUME k + 1 <= N PROVE Numbers(g[k + 1])
    OBVIOUS
  <2>1. PICK m, b : m = g[k] /\ b = g[k + 1]
    OBVIOUS
  <2>2. Numbers(m) /\ k + 1 \in DOMAIN text
    BY <1>0, <1>5, <2>1
  <2>3. b = AddFunction(m, text, k + 1)
    BY <1>0, <1>3, <2>1
  <2>4. CASE text[k + 1].kind # "func" \/ ~text[k + 1].params
    BY <2>1, <2>2, <2>3, <2>4 DEF AddFunction
  <2>5. CASE ~(text[k + 1].kind # "func" \/ ~text[k + 1].params)
    <3>1. PICK item : item = text[k + 1]
      OBVIOUS
    <3>2. PICK body : body = Content(item.body)
      OBVIOUS
    <3>3. Listed(body)
      <4>1. item.body \in Seq(Range(item.body))
        BY <2>2, <2>5, <3>1 DEF IsText, IsList
      <4>2. Listed(item.body)
        BY <4>1 DEF Listed
      <4> QED
        BY <3>2, <4>2, ContentListed
    <3>4. PICK made : made = FunctionMake(Len(m.instructions), item, k + 1)
      OBVIOUS
    <3>5. PICK all : all = [i \in DOMAIN body |-> [line |-> body[i], at |-> <<k + 1, i>>]]
      BY Zenon
    <3>6. Listed(all)
      <4>1. DOMAIN body = 1..Len(body) /\ Len(body) \in Nat
        BY <3>3, ListedLen
      <4>2. all = [i \in 1..Len(body) |-> all[i]]
        BY <3>5, <4>1
      <4> QED
        BY <4>1, <4>2, FunctionListed
    <3>7. PICK numbered : numbered = {i \in DOMAIN body : Numbered(body[i])}
      BY Zenon
    <3>8. made.pc = Len(m.instructions) /\ made.instrs = Kept(all, numbered)
      BY <3>2, <3>4, <3>5, <3>7 DEF FunctionMake
    <3>9. Listed(made.instrs) /\ made.pc \in Nat
      BY <2>2, <3>6, <3>8, KeptFrom, ListedLen
    <3>10. PICK v : v = [pc |-> made.pc, basic_blocks |-> made.basic_blocks]
      BY Zenon
    <3>11. /\ b.instructions = m.instructions \o made.instrs
           /\ b.functions = Put(m.functions, item.name, v)
      BY <2>3, <2>5, <3>1, <3>4, <3>10, Zenon DEF AddFunction
    <3>12. Listed(b.instructions)
      <4>1. PICK s, u : s = m.instructions /\ u = made.instrs
        OBVIOUS
      <4>2. Listed(s) /\ Listed(u) /\ b.instructions = s \o u
        BY <2>2, <3>9, <3>11, <4>1
      <4> QED
        BY <4>2, ConcatListed
    <3>13. ASSUME NEW x \in DOMAIN b.functions PROVE b.functions[x].pc \in Nat
      <4>1. v.pc \in Nat
        BY <3>9, <3>10
      <4>2. \/ b.functions[x] = v
            \/ x \in DOMAIN m.functions /\ b.functions[x] = m.functions[x]
        <5>1. PICK old, name : old = m.functions /\ name = item.name
          OBVIOUS
        <5>2. PICK fs : fs = Put(old, name, v)
          OBVIOUS
        <5>3. /\ DOMAIN fs = DOMAIN old \cup {name} /\ fs[name] = v
              /\ \A y \in DOMAIN old : y # name => fs[y] = old[y]
          BY ONLY <5>2 DEF Put
        <5>4. b.functions = fs
          BY <3>11, <5>1, <5>2
        <5>5. x = name \/ x \in DOMAIN old
          BY <3>13, <5>3, <5>4
        <5> QED
          BY <5>1, <5>3, <5>4, <5>5
      <4> QED
        BY <2>2, <4>1, <4>2
    <3> QED
      BY <2>1, <3>12, <3>13
  <2> QED
    BY <2>4, <2>5
<1> HIDE DEF S, Numbers
<1>6. Nat \subseteq S
  BY <1>4, <1>5, NatSet
<1>7. Numbers(Make(text))
  BY <1>0, <1>2, <1>6 DEF S
<1> QED
  BY <1>7 DEF Numbers

\* A record names each metric once, is of an instruction and counts in numbers.
Keyed(r) == /\ "metrics" \in DOMAIN r /\ Listed(r.metrics)
            /\ \A i, j \in DOMAIN r.metrics : r.metrics[i][1] = r.metrics[j][1] => i = j
Numeric(r) == /\ {"pc", "lanes", "instr_name"} \subseteq DOMAIN r
              /\ r.pc \in Nat /\ r.lanes \in Nat /\ r.instr_name \notin _DIRECTIVE_NAMES
              /\ \A i \in DOMAIN r.metrics : r.metrics[i][2] \in Nat
Proper(r) == Keyed(r) /\ Numeric(r)
AllProper(buf) == Listed(buf) /\ \A i \in 1..Len(buf) : Proper(buf[i])

\* ProfilingMetrics lists no metric twice, so the dictionary that the parser
\* makes of the pairs loses none.
LEMMA MetricsOnce ==
  ASSUME NEW name
  PROVE  /\ Listed(ProfilingMetrics(name))
         /\ \A i \in DOMAIN ProfilingMetrics(name) : ProfilingMetrics(name)[i] \in KnownMetrics
         /\ \A i, j \in DOMAIN ProfilingMetrics(name) :
              ProfilingMetrics(name)[i] = ProfilingMetrics(name)[j] => i = j
<1> DEFINE all == DefaultMetrics \o SpecificMetrics(name)
           first == {i \in DOMAIN all : \A j \in 1..i-1 : all[j] # all[i]}
           keep == {i \in first : all[i] \in KnownMetrics}
           kept == Kept(all, keep)
<1>1. Listed(all)
  <2>1. Listed(DefaultMetrics)
    BY Tuples, Zenon DEF DefaultMetrics
  <2>2. Listed(SpecificMetrics(name))
    <3>1. CASE name = "ld"
      BY <3>1, Tuples, Zenon DEF SpecificMetrics
    <3>2. CASE name = "st"
      BY <3>2, Tuples, Zenon DEF SpecificMetrics
    <3>3. CASE name \notin {"ld", "st"}
      BY <3>3, Tuples, Zenon DEF SpecificMetrics
    <3> QED
      BY <3>1, <3>2, <3>3
  <2> HIDE DEF all
  <2>3. Listed(DefaultMetrics \o SpecificMetrics(name))
    BY <2>1, <2>2, ConcatListed
  <2> QED
    BY <2>3 DEF all
<1>2. CASE name \notin Instructions
  <2>1. ProfilingMetrics(name) = <<>> /\ <<>> \in Seq({}) /\ Len(<<>>) = 0
    BY <1>2 DEF ProfilingMetrics
  <2> QED
    BY <2>1 DEF Listed
<1>3. CASE name \in Instructions
  <2>1. ProfilingMetrics(name) = kept
    BY <1>3, Zenon DEF ProfilingMetrics
  <2>2. ASSUME NEW i \in keep, NEW j \in keep, all[i] = all[j] PROVE i = j
    <3>1. i \in Nat \ {0} /\ j \in Nat \ {0}
      BY <1>1, ListedLen
    <3>2. i \notin 1..j-1 /\ j \notin 1..i-1
      BY <2>2, Zenon
    <3> QED
      BY <3>1, <3>2
  <2>3. PICK p \in [1..Len(kept) -> keep \cap DOMAIN all] :
          /\ \A i \in 1..Len(kept) : kept[i] = all[p[i]]
          /\ \A i, j \in 1..Len(kept) : p[i] = p[j] => i = j
    <3> HIDE DEF all, keep
    <3> QED
      BY <1>1, KeptFrom
  <2>4. Listed(kept) /\ DOMAIN kept = 1..Len(kept)
    <3> HIDE DEF all, keep
    <3> QED
      BY <1>1, KeptFrom, ListedLen
  <2> HIDE DEF all, keep, kept
  <2>5. ASSUME NEW i \in 1..Len(kept), NEW j \in 1..Len(kept), kept[i] = kept[j] PROVE i = j
    <3>1. p[i] \in keep /\ p[j] \in keep /\ all[p[i]] = all[p[j]]
      BY <2>3, <2>5
    <3>2. p[i] = p[j]
      BY <2>2, <3>1
    <3> QED
      BY <2>3, <3>2
  <2>6. ASSUME NEW i \in 1..Len(kept) PROVE kept[i] \in KnownMetrics
    <3>1. p[i] \in keep /\ kept[i] = all[p[i]]
      BY <2>3
    <3> QED
      BY <3>1 DEF keep
  <2> QED
    BY <2>1, <2>4, <2>5, <2>6
<1> QED
  BY <1>2, <1>3

\* No directive is an instruction.
LEMMA InstructionNames == Instructions \cap _DIRECTIVE_NAMES = {}
<1>1. DOMAIN ISA = {"reg", "pragma", "ret", "bra", "add", "ld", "st", "cvt", "shfl", "atom", "red",
                     "nanosleep", "lop3"}
  BY DEF ISA
<1>2. ISA["reg"].kind = "directive" /\ ISA["pragma"].kind = "directive"
  BY DEF ISA, regInstruction, pragmaInstruction, Entry
<1> HIDE DEF ISA
<1> QED
  BY <1>1, <1>2 DEF Instructions, _DIRECTIVE_NAMES

\* So no record names a metric twice, nor does one of a buffer.
Steps == [at : Nat, lanes : Nat, values : [KnownMetrics -> Nat]]

LEMMA RecordedProper ==
  ASSUME NEW m, NEW f, m.functions[f].pc \in Nat, NEW step \in Steps,
         Recorded(m, f, step).instr_name \in Instructions
  PROVE  Proper(Recorded(m, f, step))
<1>1. PICK pc : pc = m.functions[f].pc + step.at
  OBVIOUS
<1>2. PICK name : name = InstrName(GetInstruction(m, pc).line)
  OBVIOUS
<1>3. PICK names : names = ProfilingMetrics(name)
  OBVIOUS
<1>4. PICK values \in [KnownMetrics -> Nat] : values = step.values
  BY DEF Steps
<1>5. PICK metrics : metrics = [i \in DOMAIN names |-> <<names[i], values[names[i]]>>]
  BY Zenon
<1>6. PICK r : r = Recorded(m, f, step)
  OBVIOUS
<1>7. /\ {"metrics", "pc", "lanes", "instr_name"} \subseteq DOMAIN r
      /\ r.metrics = metrics /\ r.pc = pc /\ r.lanes = step.lanes /\ r.instr_name = name
  BY <1>1, <1>2, <1>3, <1>4, <1>5, <1>6, Zenon DEF Recorded
<1>8. pc \in Nat /\ step.lanes \in Nat
  BY <1>1 DEF Steps
<1>9. name \notin _DIRECTIVE_NAMES
  BY <1>6, <1>7, InstructionNames
<1>10. /\ Listed(names) /\ \A i \in DOMAIN names : names[i] \in KnownMetrics
       /\ \A i, j \in DOMAIN names : names[i] = names[j] => i = j
  BY <1>3, MetricsOnce
<1>11. DOMAIN names = 1..Len(names) /\ Len(names) \in Nat
  BY <1>10, ListedLen
<1>12. /\ DOMAIN metrics = DOMAIN names
       /\ \A i \in DOMAIN names : metrics[i][1] = names[i] /\ metrics[i][2] = values[names[i]]
       /\ metrics = [i \in 1..Len(names) |-> metrics[i]]
  BY <1>5, <1>11
<1>13. Listed(metrics)
  BY <1>11, <1>12, FunctionListed
<1>14. ASSUME NEW i \in DOMAIN metrics, NEW j \in DOMAIN metrics, metrics[i][1] = metrics[j][1]
       PROVE  i = j
  BY <1>10, <1>12, <1>14, Zenon
<1>15. ASSUME NEW i \in DOMAIN metrics PROVE metrics[i][2] \in Nat
  <2>1. PICK k \in KnownMetrics : k = names[i]
    BY <1>10, <1>12
  <2>2. values[k] \in Nat
    BY <1>4
  <2> QED
    BY <1>12, <2>1, <2>2, Zenon
<1>16. Keyed(r)
  BY <1>7, <1>13, <1>14 DEF Keyed
<1>17. Numeric(r)
  BY <1>7, <1>8, <1>9, <1>15 DEF Numeric
<1> QED
  BY <1>6, <1>16, <1>17 DEF Proper

LEMMA BufferProper ==
  ASSUME NEW m, NEW f, m.functions[f].pc \in Nat, NEW path \in Seq(Steps)
  PROVE  AllProper(Buffer(m, f, path))
<1>1. PICK all : all = [i \in DOMAIN path |-> Recorded(m, f, path[i])]
  BY Zenon
<1>2. PICK keep : keep = {i \in DOMAIN all : all[i].instr_name \in Instructions}
  BY Zenon
<1>3. PICK buf : buf = Kept(all, keep)
  OBVIOUS
<1>4. Buffer(m, f, path) = buf
  BY <1>1, <1>2, <1>3 DEF Buffer
<1>5. /\ DOMAIN path = 1..Len(path) /\ Len(path) \in Nat
      /\ all = [i \in 1..Len(path) |-> all[i]]
  BY <1>1
<1>6. Listed(all)
  BY <1>5, FunctionListed
<1>7. ASSUME NEW i \in keep PROVE Proper(all[i])
  <2>1. i \in DOMAIN path /\ path[i] \in Steps
    BY <1>1, <1>2
  <2>2. all[i] = Recorded(m, f, path[i]) /\ all[i].instr_name \in Instructions
    BY <1>1, <1>2, <2>1
  <2> QED
    BY <2>1, <2>2, RecordedProper
<1>8. Listed(buf) /\ \A i \in 1..Len(buf) : \E k \in keep : buf[i] = all[k]
  BY <1>3, <1>6, KeptFrom
<1> QED
  BY <1>4, <1>7, <1>8 DEF AllProper

\* What is left of a buffer whose writing was cut off.
LEMMA CutKeyed ==
  ASSUME NEW r, Keyed(r), NEW c \in Cut(r)
  PROVE  Keyed(c)
<1>1. Len(r.metrics) \in Nat /\ DOMAIN r.metrics = 1..Len(r.metrics)
  BY ListedLen DEF Keyed
<1>2. ASSUME NEW n \in 0..Len(r.metrics) - 1, c = [r EXCEPT !.metrics = SubSeq(@, 1, n)]
      PROVE  Keyed(c)
  <2>1. PICK s : s = r.metrics
    OBVIOUS
  <2>2. PICK S : s \in Seq(S)
    BY <2>1 DEF Keyed, Listed
  <2>3. "metrics" \in DOMAIN c /\ c.metrics = SubSeq(s, 1, n)
    BY <1>2, <2>1 DEF Keyed
  <2>4. n \in Nat /\ \A i \in 1..n : i \in 1..Len(s) /\ s[i] \in S
    BY <1>1, <2>1, <2>2, ElementOfSeq
  <2>5. /\ SubSeq(s, 1, n) \in Seq(S)
        /\ Len(SubSeq(s, 1, n)) = IF 1 <= n THEN n - 1 + 1 ELSE 0
        /\ \A i \in 1..n - 1 + 1 : SubSeq(s, 1, n)[i] = s[1 + i - 1]
    BY <2>4, SubSeqProperties
  <2>6. PICK t : t = SubSeq(s, 1, n)
    BY Zenon
  <2>7. Listed(t) /\ DOMAIN t = 1..n /\ \A i \in 1..n : t[i] = s[i]
    <3>1. t \in Seq(S) /\ Len(t) = n
      BY <2>4, <2>5, <2>6
    <3>2. DOMAIN t = 1..n
      BY <3>1, LenProperties
    <3>3. \A i \in 1..n : 1 + i - 1 = i
      BY <2>4
    <3>4. \A i \in 1..n : t[i] = s[i]
      BY <2>4, <2>5, <2>6, <3>3
    <3> QED
      BY <3>1, <3>2, <3>4 DEF Listed
  <2>8. "metrics" \in DOMAIN c /\ c.metrics = t
    BY <2>3, <2>6
  <2>9. ASSUME NEW i \in 1..n, NEW j \in 1..n, t[i][1] = t[j][1] PROVE i = j
    <3>1. s[i][1] = s[j][1] /\ i \in DOMAIN s /\ j \in DOMAIN s
      BY <1>1, <2>1, <2>4, <2>7, <2>9, Zenon
    <3> QED
      BY <2>1, <3>1 DEF Keyed
  <2> QED
    BY <2>7, <2>8, <2>9 DEF Keyed
<1>3. ASSUME c = [r EXCEPT !.metrics = <<>>, !.instr_name = "cut"]
      PROVE  Keyed(c)
  <2>1. <<>> \in Seq({}) /\ DOMAIN <<>> = {}
    OBVIOUS
  <2> QED
    BY <1>3, <2>1 DEF Keyed, Listed
<1> QED
  BY <1>2, <1>3 DEF Cut

LEMMA CutProper ==
  ASSUME NEW r, Proper(r), NEW c \in Cut(r)
  PROVE  Proper(c)
<1>1. Keyed(c)
  BY CutKeyed DEF Proper
<1>2. Listed(r.metrics) /\ "metrics" \in DOMAIN r
  BY DEF Proper, Keyed
<1>3. Len(r.metrics) \in Nat /\ DOMAIN r.metrics = 1..Len(r.metrics)
  BY <1>2, ListedLen
<1>4. ASSUME NEW n \in 0..Len(r.metrics) - 1, c = [r EXCEPT !.metrics = SubSeq(@, 1, n)]
      PROVE  Numeric(c)
  <2>1. PICK s : s = r.metrics
    OBVIOUS
  <2>2. c = [r EXCEPT !.metrics = SubSeq(s, 1, n)]
    BY <1>4, <2>1
  <2>3. PICK k \in Nat : k = n /\ k <= Len(s)
    BY <1>3, <2>1
  <2>4. SubSeq(s, 1, k) = [i \in 1..k |-> s[i]]
    <3>1. PICK S : s \in Seq(S)
      BY <1>2, <2>1 DEF Listed
    <3> QED
      BY <2>3, <3>1
  <2>5. c.metrics = [i \in 1..k |-> s[i]] /\ c.pc = r.pc /\ c.lanes = r.lanes
        /\ c.instr_name = r.instr_name /\ DOMAIN c = DOMAIN r
    <3>1. PICK z : z = [i \in 1..k |-> s[i]]
      BY Zenon
    <3>2. c = [r EXCEPT !.metrics = z]
      BY <2>2, <2>3, <2>4, <3>1, Zenon
    <3> QED
      BY <1>2, <3>1, <3>2 DEF Proper, Numeric
  <2>6. \A i \in 1..k : i \in DOMAIN s
    BY <1>3, <2>1, <2>3
  <2>7. \A i \in DOMAIN s : s[i][2] \in Nat
    BY <2>1 DEF Proper, Numeric
  <2> QED
    BY <2>5, <2>6, <2>7 DEF Proper, Numeric
<1>5. ASSUME c = [r EXCEPT !.metrics = <<>>, !.instr_name = "cut"]
      PROVE  Numeric(c)
  <2>1. c.metrics = <<>> /\ c.pc = r.pc /\ c.lanes = r.lanes
        /\ c.instr_name = "cut" /\ DOMAIN c = DOMAIN r
    BY <1>2, <1>5 DEF Proper, Numeric
  <2>2. DOMAIN <<>> = {} /\ "cut" \notin _DIRECTIVE_NAMES
    BY DEF _DIRECTIVE_NAMES
  <2> QED
    BY <2>1, <2>2 DEF Proper, Numeric
<1>6. Numeric(c)
  BY <1>4, <1>5 DEF Cut
<1> QED
  BY <1>1, <1>6 DEF Proper

LEMMA TornProper ==
  ASSUME NEW buf, AllProper(buf), NEW n \in DOMAIN buf, NEW r \in Cut(buf[n])
  PROVE  AllProper(Append(SubSeq(buf, 1, n - 1), r))
<1>1. PICK S : buf \in Seq(S)
  BY DEF AllProper, Listed
<1>2. DOMAIN buf = 1..Len(buf) /\ Len(buf) \in Nat
  BY <1>1, LenProperties
<1>3. n - 1 \in Nat /\ \A i \in 1..n - 1 : i \in 1..Len(buf) /\ buf[i] \in S
  BY <1>1, <1>2, ElementOfSeq
<1>4. PICK k \in Nat : k = n - 1
  BY <1>3
<1>5. PICK s : s = SubSeq(buf, 1, k)
  BY Zenon
<1>6. /\ s \in Seq(S)
      /\ Len(s) = k
      /\ \A i \in 1..k : s[i] = buf[i]
  <2>1. /\ SubSeq(buf, 1, k) \in Seq(S)
        /\ Len(SubSeq(buf, 1, k)) = IF 1 <= k THEN k - 1 + 1 ELSE 0
        /\ \A i \in 1..k - 1 + 1 : SubSeq(buf, 1, k)[i] = buf[1 + i - 1]
    BY <1>3, <1>4, SubSeqProperties
  <2> QED
    BY <1>4, <1>5, <2>1
<1>7. Proper(r)
  BY <1>2, CutProper DEF AllProper
<1>8. Listed(s)
  BY <1>6 DEF Listed
<1>9. /\ Listed(Append(s, r)) /\ Len(Append(s, r)) = Len(s) + 1
      /\ Append(s, r)[Len(s) + 1] = r
      /\ \A i \in 1..Len(s) : Append(s, r)[i] = s[i]
  BY <1>8, AppendListed
<1>10. \A i \in 1..Len(Append(s, r)) : i = Len(s) + 1 \/ i \in 1..Len(s)
  BY <1>6, <1>9
<1>11. ASSUME NEW i \in 1..Len(s) PROVE Proper(Append(s, r)[i])
  BY <1>3, <1>4, <1>6, <1>9 DEF AllProper
<1> QED
  BY <1>4, <1>5, <1>7, <1>9, <1>10, <1>11 DEF AllProper

\* A row of the reader tells of a record x that was flushed: all of it, and a
\* launch number that is not another one's.
Tells(row, x, over) ==
  /\ Proper(x.rec)
  /\ <<row.function_name, row.basic_block, row.instr_name, row.pc, row.active_threads>>
       = <<x.function, x.rec.basic_block, x.rec.instr_name, x.rec.pc, x.rec.lanes>>
  /\ DOMAIN row.metrics = {x.rec.metrics[k][1] : k \in DOMAIN x.rec.metrics}
  /\ \A k \in DOMAIN x.rec.metrics :
       row.metrics[x.rec.metrics[k][1]] = x.rec.metrics[k][2]
  /\ row.launch_id = x.launch \/ {row.launch_id, x.launch} \subseteq over
\* Rows tell of records one by one, in their order.
Told(rows, xs, over) ==
  /\ Listed(rows) /\ Listed(xs) /\ Len(rows) = Len(xs)
  /\ \A i \in 1..Len(xs) : Tells(rows[i], xs[i], over)

LEMMA ToldMore ==
  ASSUME NEW rows, NEW xs, NEW a, NEW b, Told(rows, xs, a), a \subseteq b
  PROVE  Told(rows, xs, b)
BY Zenon DEF Told, Tells

LEMMA ToldConcat ==
  ASSUME NEW r1, NEW x1, NEW r2, NEW x2, NEW over, Told(r1, x1, over), Told(r2, x2, over)
  PROVE  Told(r1 \o r2, x1 \o x2, over)
<1>1. Listed(r1) /\ Listed(r2) /\ Listed(x1) /\ Listed(x2) /\ Len(r1) = Len(x1) /\ Len(r2) = Len(x2)
  BY DEF Told
<1>2. PICK r, x : r = r1 \o r2 /\ x = x1 \o x2
  BY Zenon
<1>3. /\ Listed(r) /\ Len(r) = Len(r1) + Len(r2)
      /\ \A i \in 1..Len(r1) : r[i] = r1[i]
      /\ \A i \in 1..Len(r2) : r[Len(r1) + i] = r2[i]
  <2>1. Listed(r1) /\ Listed(r2)
    BY <1>1
  <2> QED
    BY <1>2, <2>1, ConcatListed
<1>4. /\ Listed(x) /\ Len(x) = Len(x1) + Len(x2)
      /\ \A i \in 1..Len(x1) : x[i] = x1[i]
      /\ \A i \in 1..Len(x2) : x[Len(x1) + i] = x2[i]
  <2>1. Listed(x1) /\ Listed(x2)
    BY <1>1
  <2> QED
    BY <1>2, <2>1, ConcatListed
<1>5. Len(x1) \in Nat /\ Len(x2) \in Nat
  BY <1>1, ListedLen
<1>6. ASSUME NEW i \in 1..Len(x) PROVE Tells(r[i], x[i], over)
  <2>1. CASE i \in 1..Len(x1)
    BY <1>1, <1>3, <1>4, <2>1 DEF Told
  <2>2. CASE i \notin 1..Len(x1)
    <3>1. i - Len(x1) \in 1..Len(x2) /\ Len(x1) + (i - Len(x1)) = i
      BY <1>4, <1>5, <2>2
    <3>2. x[i] = x2[i - Len(x1)] /\ r[i] = r2[i - Len(x1)]
      BY <1>1, <1>3, <1>4, <3>1
    <3> QED
      BY <3>1, <3>2, Zenon DEF Told
  <2> QED
    BY <2>1, <2>2
<1> QED
  BY <1>1, <1>2, <1>3, <1>4, <1>6, Zenon DEF Told

\* The dictionary of pairs with different keys has their keys and values.
LEMMA DictOf ==
  ASSUME NEW pairs, Listed(pairs),
         \A i, j \in DOMAIN pairs : pairs[i][1] = pairs[j][1] => i = j
  PROVE  /\ DOMAIN Dict(pairs) = {pairs[i][1] : i \in DOMAIN pairs}
         /\ \A k \in DOMAIN pairs : Dict(pairs)[pairs[k][1]] = pairs[k][2]
<1>1. ASSUME NEW k \in DOMAIN pairs
      PROVE  Dict(pairs)[pairs[k][1]] = pairs[k][2]
  <2>1. {i \in DOMAIN pairs : pairs[i][1] = pairs[k][1]} = {k}
    OBVIOUS
  <2>2. k \in Int
    BY ListedLen
  <2>3. Max({k}) = k
    BY <2>2 DEF Max
  <2>4. Dict(pairs)[pairs[k][1]]
          = pairs[Max({i \in DOMAIN pairs : pairs[i][1] = pairs[k][1]})][2]
    BY Zenon DEF Dict
  <2> QED
    BY <2>1, <2>3, <2>4
<1>2. DOMAIN Dict(pairs) = {pairs[i][1] : i \in DOMAIN pairs}
  BY DEF Dict
<1> QED
  BY <1>1, <1>2

\* The rows of a buffer that is flushed, when the last header of a launch is the
\* one of its own or they overlap.
LEMMA BufferTold ==
  ASSUME NEW buf, AllProper(buf), NEW launch, NEW by, NEW over,
         launch = by.nth \/ {launch, by.nth} \subseteq over
  PROVE  Told(RowsOfBuffer(launch, by.function, buf, Len(buf)), Of(by, buf), over)
<1> DEFINE rows == RowsOfBuffer(launch, by.function, buf, Len(buf))
           xs == Of(by, buf)
<1>1. Listed(buf) /\ Len(buf) \in Nat /\ DOMAIN buf = 1..Len(buf)
  BY ListedLen DEF AllProper
<1>2. rows = [i \in 1..Len(buf) |-> rows[i]] /\ xs = [i \in 1..Len(buf) |-> xs[i]]
  BY <1>1 DEF RowsOfBuffer, Of
<1>3. Listed(rows) /\ Listed(xs) /\ Len(rows) = Len(buf) /\ Len(xs) = Len(buf)
  <2> HIDE DEF rows, xs
  <2> QED
    BY <1>1, <1>2, FunctionListed, Zenon
<1>4. ASSUME NEW i \in 1..Len(buf) PROVE Tells(rows[i], xs[i], over)
  <2>1. PICK r : r = buf[i]
    OBVIOUS
  <2>2. PICK d : d = Dict(r.metrics)
    OBVIOUS
  <2>3. Keyed(r) /\ Proper(r)
    BY <2>1 DEF AllProper, Proper
  <2>4. /\ DOMAIN d = {r.metrics[k][1] : k \in DOMAIN r.metrics}
        /\ \A k \in DOMAIN r.metrics : d[r.metrics[k][1]] = r.metrics[k][2]
    BY <2>2, <2>3, DictOf, Zenon DEF Keyed
  <2>5. xs[i] = [launch |-> by.nth, function |-> by.function, rec |-> r]
    BY <1>1, <2>1 DEF Of
  <2>6. rows[i] = [launch_id |-> launch, function_name |-> by.function,
                   basic_block |-> r.basic_block, instr_name |-> r.instr_name, pc |-> r.pc,
                   active_threads |-> r.lanes, metrics |-> d]
    BY <2>1, <2>2 DEF RowsOfBuffer, Row
  <2> HIDE DEF rows, xs
  <2>7. PICK row, x : row = rows[i] /\ x = xs[i]
    OBVIOUS
  <2>8. x.launch = by.nth /\ x.function = by.function /\ x.rec = r
    BY <2>5, <2>7
  <2>9. /\ row.launch_id = launch /\ row.function_name = by.function
        /\ row.basic_block = r.basic_block /\ row.instr_name = r.instr_name /\ row.pc = r.pc
        /\ row.active_threads = r.lanes /\ row.metrics = d
    BY <2>6, <2>7
  <2>10. Tells(row, x, over)
    BY <2>3, <2>4, <2>8, <2>9 DEF Tells
  <2> QED
    BY <2>7, <2>10
<1> QED
  BY <1>3, <1>4 DEF Told

-----------------------------------------------------------------------------
\* A profile is read as rows, whatever has been read before it, and if it is
\* not empty it ends in the launch of the number given.
Reads(lines, rows, launch) ==
  \A st : State(st) =>
    /\ State(ReadAll(st, lines))
    /\ ReadAll(st, lines).records = st.records \o rows
    /\ lines # <<>> => ReadAll(st, lines).launch = launch
PartRead(lines, xs, over, launch) ==
  /\ Listed(lines)
  /\ \E rows : Told(rows, xs, over) /\ Reads(lines, rows, launch)

\* How a profile grows: it begins empty, BeginLaunch writes a header, and
\* EndLaunch writes a buffer.
LEMMA EmptyPart ==
  ASSUME NEW over, NEW launch
  PROVE  PartRead(<<>>, <<>>, over, launch)
<1>1. Listed(<<>>) /\ Len(<<>>) = 0
  BY Tuples, Zenon
<1>2. Told(<<>>, <<>>, over)
  BY <1>1 DEF Told
<1>3. ASSUME NEW st, State(st) PROVE ReadAll(st, <<>>) = st /\ st.records \o <<>> = st.records
  BY <1>3, ReadAllEmpty, ConcatEmpty DEF State
<1>4. Reads(<<>>, <<>>, launch)
  BY <1>3 DEF Reads
<1> QED
  BY <1>1, <1>2, <1>4 DEF PartRead

LEMMA LaunchPart ==
  ASSUME NEW lines, NEW xs, NEW over, NEW launch, PartRead(lines, xs, over, launch),
         NEW n, NEW f, NEW more, over \subseteq more
  PROVE  PartRead(Append(lines, [kind |-> "Launch", id |-> n, name |-> f]), xs, more, n)
<1>1. PICK rows : Told(rows, xs, over) /\ Reads(lines, rows, launch)
  BY DEF PartRead
<1>2. PICK l : l = [kind |-> "Launch", id |-> n, name |-> f]
  BY Zenon
<1>3. Listed(lines) /\ Listed(Append(lines, l))
  BY AppendListed DEF PartRead
<1>4. ASSUME NEW st, State(st)
      PROVE  /\ State(ReadAll(st, Append(lines, l)))
             /\ ReadAll(st, Append(lines, l)).records = st.records \o rows
             /\ ReadAll(st, Append(lines, l)).launch = n
  <2>1. PICK mid : mid = ReadAll(st, lines)
    OBVIOUS
  <2>2. State(mid) /\ mid.records = st.records \o rows
    BY <1>1, <1>4, <2>1, Zenon DEF Reads
  <2>3. PICK a, b, c, d : mid = At(a, b, c, d) /\ Listed(d) /\ d = st.records \o rows
    BY <2>2, Zenon DEF State
  <2>4. ReadLine(mid, l) = At(n, None, None, d)
    BY <1>2, <2>3, LaunchRead
  <2>5. ReadAll(st, Append(lines, l)) = At(n, None, None, d)
    BY <1>3, <2>1, <2>4, ReadAllAppend
  <2>6. State(At(n, None, None, d)) /\ At(n, None, None, d).launch = n
        /\ At(n, None, None, d).records = d
    BY <2>3 DEF At, State
  <2> QED
    BY <2>3, <2>5, <2>6
<1>5. Reads(Append(lines, l), rows, n)
  BY <1>4 DEF Reads
<1>6. Told(rows, xs, more)
  BY <1>1, ToldMore
<1> QED
  BY <1>2, <1>3, <1>5, <1>6 DEF PartRead

LEMMA FlushPart ==
  ASSUME NEW lines, NEW xs, NEW over, NEW launch, PartRead(lines, xs, over, launch),
         lines # <<>>, NEW buf, AllProper(buf), NEW by,
         launch = by.nth \/ {launch, by.nth} \subseteq over
  PROVE  PartRead(lines \o Lines(by.function, buf), xs \o Of(by, buf), over, launch)
<1>1. PICK rows : Told(rows, xs, over) /\ Reads(lines, rows, launch)
  BY DEF PartRead
<1>2. PICK t : t = Lines(by.function, buf)
  OBVIOUS
<1>3. PICK more : more = RowsOfBuffer(launch, by.function, buf, Len(buf))
  OBVIOUS
<1>4. Told(more, Of(by, buf), over)
  BY <1>3, BufferTold, Zenon
<1>5. Told(rows \o more, xs \o Of(by, buf), over)
  BY <1>1, <1>4, ToldConcat
<1>6. Listed(lines) /\ Listed(buf) /\ Listed(rows) /\ Listed(more)
  BY <1>1, <1>4 DEF PartRead, AllProper, Told
<1>7. ASSUME NEW st, State(st)
      PROVE  /\ Listed(t)
             /\ State(ReadAll(st, lines \o t))
             /\ ReadAll(st, lines \o t).records = st.records \o (rows \o more)
             /\ ReadAll(st, lines \o t).launch = launch
  <2>1. PICK mid : mid = ReadAll(st, lines)
    OBVIOUS
  <2>2. State(mid) /\ mid.records = st.records \o rows /\ mid.launch = launch
    BY <1>1, <1>7, <2>1, Zenon DEF Reads
  <2>3. /\ Listed(t)
        /\ ReadAll(mid, t) = IF buf = <<>> THEN mid
             ELSE At(mid.launch, by.function, buf[Len(buf)].basic_block,
                     mid.records \o RowsOfBuffer(mid.launch, by.function, buf, Len(buf)))
    BY <1>2, <1>6, <2>2, LinesRead, Zenon
  <2>4. ReadAll(st, lines \o t) = ReadAll(mid, t)
    BY <1>6, <2>1, <2>3, ReadAllConcat
  <2>5. Listed(st.records) /\ Listed(mid.records)
    BY <1>7, <2>2 DEF State
  <2>6. (st.records \o rows) \o more = st.records \o (rows \o more)
    <3>1. PICK z : z = st.records
      OBVIOUS
    <3>2. (z \o rows) \o more = z \o (rows \o more)
      <4>1. Listed(z) /\ Listed(rows) /\ Listed(more)
        BY <1>6, <2>5, <3>1
      <4> QED
        BY <4>1, ConcatAssoc
    <3> QED
      BY <3>1, <3>2
  <2>7. CASE buf = <<>>
    <3>1. more = <<>>
      <4>1. Len(buf) = 0
        BY <2>7
      <4> QED
        BY <1>3, <4>1 DEF RowsOfBuffer
    <3>2. mid.records \o <<>> = mid.records
      BY <2>5, ConcatEmpty
    <3>3. ReadAll(st, lines \o t) = mid
      BY <2>3, <2>4, <2>7
    <3> QED
      BY <2>2, <2>3, <2>6, <3>1, <3>2, <3>3
  <2>8. CASE buf # <<>>
    <3>1. PICK all : all = mid.records \o more
      BY Zenon
    <3>2. ReadAll(st, lines \o t) = At(launch, by.function, buf[Len(buf)].basic_block, all)
      BY <1>3, <2>2, <2>3, <2>4, <2>8, <3>1
    <3>3. Listed(all)
      BY <1>6, <2>5, <3>1, ConcatListed
    <3>4. all = st.records \o (rows \o more)
      BY <2>2, <2>6, <3>1, Zenon
    <3>5. PICK bb : bb = buf[Len(buf)].basic_block
      OBVIOUS
    <3>6. PICK f : f = by.function
      OBVIOUS
    <3>7. PICK end : end = At(launch, f, bb, all)
      OBVIOUS
    <3>8. State(end) /\ end.launch = launch /\ end.records = all
      BY <3>3, <3>7 DEF At, State
    <3>9. ReadAll(st, lines \o t) = end
      BY <3>2, <3>5, <3>6, <3>7
    <3> QED
      BY <2>3, <3>4, <3>8, <3>9, Zenon
  <2> QED
    BY <2>7, <2>8, Zenon
<1>8. Listed(t)
  BY <1>2, <1>6, LinesListed
<1>9. Listed(lines \o t)
  BY <1>6, <1>8, ConcatListed
<1>10. Reads(lines \o t, rows \o more, launch)
  BY <1>7, Zenon DEF Reads
<1> QED
  BY <1>2, <1>5, <1>9, <1>10 DEF PartRead

-----------------------------------------------------------------------------
\* Sums.  IsSum(g, s, n): g is the running sum of the first n numbers of s.
IsSum(g, s, n) == g = [i \in 0..n |-> IF i = 0 THEN 0 ELSE g[i - 1] + s[i]]

LEMMA SumExists ==
  ASSUME NEW s, NEW n \in Nat
  PROVE  \E g : IsSum(g, s, n)
<1> DEFINE S == {k \in Nat : \E g : IsSum(g, s, k)}
<1>1. 0 \in S
  <2>1. IsSum([i \in 0..0 |-> 0], s, 0)
    BY DEF IsSum
  <2> QED
    BY <2>1
<1>2. ASSUME NEW k \in Nat, k \in S PROVE k + 1 \in S
  <2>1. PICK g : IsSum(g, s, k)
    BY <1>2
  <2> DEFINE h == [i \in 0..k + 1 |-> IF i <= k THEN g[i] ELSE g[k] + s[k + 1]]
  <2>2. \A i \in 0..k : g[i] = IF i = 0 THEN 0 ELSE g[i - 1] + s[i]
    BY <2>1 DEF IsSum
  <2>3. \A i \in 0..k + 1 : h[i] = IF i = 0 THEN 0 ELSE h[i - 1] + s[i]
    BY <2>2
  <2>4. IsSum(h, s, k + 1)
    BY <2>3 DEF IsSum
  <2> QED
    BY <2>4
<1> HIDE DEF S
<1>3. Nat \subseteq S
  BY <1>1, <1>2, NatSet
<1> QED
  BY <1>3 DEF S

LEMMA SumUnique ==
  ASSUME NEW g, NEW s, NEW n \in Nat, NEW h, NEW t, NEW m \in Nat,
         IsSum(g, s, n), IsSum(h, t, m), n <= m, \A i \in 1..n : s[i] = t[i]
  PROVE  g[n] = h[n]
<1> DEFINE S == {k \in Nat : k <= n => g[k] = h[k]}
<1>0. /\ \A i \in 0..n : g[i] = IF i = 0 THEN 0 ELSE g[i - 1] + s[i]
      /\ \A i \in 0..m : h[i] = IF i = 0 THEN 0 ELSE h[i - 1] + t[i]
  BY DEF IsSum
<1>1. 0 \in S
  BY <1>0
<1>2. ASSUME NEW k \in Nat, k \in S PROVE k + 1 \in S
  <2>1. CASE k + 1 <= n
    <3>1. k + 1 \in 0..n /\ k + 1 \in 0..m /\ k + 1 \in 1..n /\ k + 1 - 1 = k /\ k + 1 # 0
      BY <2>1
    <3>2. g[k] = h[k]
      BY <1>2, <2>1
    <3>3. g[k + 1] = g[k] + s[k + 1] /\ h[k + 1] = h[k] + t[k + 1]
      BY <1>0, <3>1
    <3> QED
      BY <3>1, <3>2, <3>3
  <2> QED
    BY <2>1
<1> HIDE DEF S
<1>3. Nat \subseteq S
  BY <1>1, <1>2, NatSet
<1> QED
  BY <1>3 DEF S

LEMMA TotalIs ==
  ASSUME NEW s, Len(s) \in Nat
  PROVE  \E g : IsSum(g, s, Len(s)) /\ Total(s) = g[Len(s)]
<1> DEFINE g == CHOOSE g : IsSum(g, s, Len(s))
<1>1. IsSum(g, s, Len(s))
  BY SumExists
<1>2. Total(s) = g[Len(s)]
  BY DEF Total, IsSum
<1> QED
  BY <1>1, <1>2, Zenon

LEMMA TotalEmpty == Total(<<>>) = 0
<1>1. Len(<<>>) = 0
  OBVIOUS
<1>2. PICK g : IsSum(g, <<>>, 0) /\ Total(<<>>) = g[0]
  BY <1>1, TotalIs
<1> QED
  BY <1>2 DEF IsSum

LEMMA TotalAppend ==
  ASSUME NEW s, NEW x, Listed(s)
  PROVE  Total(Append(s, x)) = Total(s) + x
<1>1. PICK t : t = Append(s, x)
  BY Zenon
<1>2. PICK n \in Nat : n = Len(s)
  BY ListedLen
<1>3. Len(t) = n + 1 /\ t[n + 1] = x /\ \A i \in 1..n : t[i] = s[i]
  BY <1>1, <1>2, AppendListed
<1>4. PICK g : IsSum(g, s, n) /\ Total(s) = g[n]
  BY <1>2, TotalIs
<1>5. PICK h : IsSum(h, t, n + 1) /\ Total(t) = h[n + 1]
  BY <1>2, <1>3, TotalIs
<1>6. h[n + 1] = h[n] + t[n + 1]
  <2>1. n + 1 \in 0..n + 1 /\ n + 1 # 0 /\ n + 1 - 1 = n
    OBVIOUS
  <2>2. \A i \in 0..n + 1 : h[i] = IF i = 0 THEN 0 ELSE h[i - 1] + t[i]
    BY <1>5 DEF IsSum
  <2> QED
    BY <2>1, <2>2
<1>7. g[n] = h[n]
  BY <1>3, <1>4, <1>5, SumUnique
<1> QED
  BY <1>1, <1>3, <1>4, <1>5, <1>6, <1>7

LEMMA TotalNext ==
  ASSUME NEW s, NEW k \in Nat
  PROVE  Total(FirstOf(s, k + 1)) = Total(FirstOf(s, k)) + s[k + 1]
<1>1. PICK t, x : t = FirstOf(s, k) /\ x = s[k + 1]
  OBVIOUS
<1>2. Listed(t) /\ FirstOf(s, k + 1) = Append(t, x)
  BY <1>1, FirstListed, FirstNext, Zenon
<1> QED
  BY <1>1, <1>2, TotalAppend, Zenon

\* Sequences of numbers.
Numbers(s) == Listed(s) /\ \A i \in 1..Len(s) : s[i] \in Nat

LEMMA TotalNat ==
  ASSUME NEW s, Numbers(s)
  PROVE  /\ Total(s) \in Nat
         /\ \A k \in 0..Len(s) : Total(FirstOf(s, k)) \in Nat
<1> DEFINE S == {k \in Nat : k <= Len(s) => Total(FirstOf(s, k)) \in Nat}
<1>0. Len(s) \in Nat
  BY ListedLen DEF Numbers
<1>1. 0 \in S
  BY FirstListed, TotalEmpty
<1>2. ASSUME NEW k \in Nat, k \in S PROVE k + 1 \in S
  <2>1. k + 1 <= Len(s) => s[k + 1] \in Nat
    BY <1>0 DEF Numbers
  <2>2. Total(FirstOf(s, k + 1)) = Total(FirstOf(s, k)) + s[k + 1]
    BY TotalNext
  <2> QED
    BY <1>0, <1>2, <2>1, <2>2
<1> HIDE DEF S
<1>3. Nat \subseteq S
  BY <1>1, <1>2, NatSet
<1>4. \A k \in 0..Len(s) : Total(FirstOf(s, k)) \in Nat
  BY <1>0, <1>3 DEF S
<1> QED
  BY <1>0, <1>4, FirstAll DEF Numbers

\* A sum of sums is the sum of the sums.
LEMMA TotalPlus ==
  ASSUME NEW s, NEW t, NEW u, Numbers(s), Numbers(t), Listed(u),
         Len(t) = Len(s), Len(u) = Len(s), \A i \in 1..Len(s) : u[i] = s[i] + t[i]
  PROVE  Total(u) = Total(s) + Total(t)
<1> DEFINE S == {k \in Nat : k <= Len(s) =>
                   Total(FirstOf(u, k)) = Total(FirstOf(s, k)) + Total(FirstOf(t, k))}
<1>0. Len(s) \in Nat
  BY ListedLen DEF Numbers
<1>1. 0 \in S
  BY FirstListed, TotalEmpty
<1>2. ASSUME NEW k \in Nat, k \in S PROVE k + 1 \in S
  <2> SUFFICES ASSUME k + 1 <= Len(s)
               PROVE  Total(FirstOf(u, k + 1)) = Total(FirstOf(s, k + 1)) + Total(FirstOf(t, k + 1))
    OBVIOUS
  <2>1. k \in 0..Len(s) /\ k + 1 \in 1..Len(s)
    BY <1>0
  <2>2. PICK a, b \in Nat : a = s[k + 1] /\ b = t[k + 1] /\ u[k + 1] = a + b
    BY <2>1 DEF Numbers
  <2>3. PICK p, q \in Nat : p = Total(FirstOf(s, k)) /\ q = Total(FirstOf(t, k))
    BY <2>1, TotalNat, Zenon
  <2>4. Total(FirstOf(u, k)) = p + q
    BY <1>2, <2>1, <2>3
  <2>5. Total(FirstOf(s, k + 1)) = p + a
    BY ONLY <2>2, <2>3, TotalNext
  <2>6. Total(FirstOf(t, k + 1)) = q + b
    BY ONLY <2>2, <2>3, TotalNext
  <2>7. Total(FirstOf(u, k + 1)) = (p + q) + (a + b)
    BY ONLY <2>2, <2>4, TotalNext
  <2>8. (p + q) + (a + b) = (p + a) + (q + b)
    OBVIOUS
  <2> QED
    BY ONLY <2>5, <2>6, <2>7, <2>8
<1> HIDE DEF S
<1>3. Nat \subseteq S
  BY <1>1, <1>2, NatSet, Zenon
<1>4. Len(s) \in S
  BY <1>0, <1>3
<1>5. FirstOf(s, Len(s)) = s /\ FirstOf(t, Len(s)) = t /\ FirstOf(u, Len(s)) = u
  BY FirstAll DEF Numbers
<1> QED
  BY <1>0, <1>4, <1>5 DEF S

\* All but one place are zero.
LEMMA TotalOne ==
  ASSUME NEW s, Numbers(s), NEW j \in Nat, \A i \in 1..Len(s) : i # j => s[i] = 0
  PROVE  Total(s) = IF j \in 1..Len(s) THEN s[j] ELSE 0
<1> DEFINE S == {k \in Nat : k <= Len(s) =>
                   Total(FirstOf(s, k)) = IF j \in 1..k THEN s[j] ELSE 0}
<1>0. Len(s) \in Nat
  BY ListedLen DEF Numbers
<1>1. 0 \in S
  BY FirstListed, TotalEmpty
<1>2. ASSUME NEW k \in Nat, k \in S PROVE k + 1 \in S
  <2> SUFFICES ASSUME k + 1 <= Len(s)
               PROVE  Total(FirstOf(s, k + 1)) = IF j \in 1..k + 1 THEN s[j] ELSE 0
    OBVIOUS
  <2>1. k + 1 \in 1..Len(s) /\ s[k + 1] \in Nat
    BY <1>0 DEF Numbers
  <2>2. Total(FirstOf(s, k)) = IF j \in 1..k THEN s[j] ELSE 0
    BY <1>0, <1>2
  <2>3. Total(FirstOf(s, k + 1)) = Total(FirstOf(s, k)) + s[k + 1]
    BY TotalNext
  <2>4. CASE j = k + 1
    BY <2>1, <2>2, <2>3, <2>4
  <2>5. CASE j # k + 1
    <3>1. s[k + 1] = 0 /\ (j \in 1..k + 1 <=> j \in 1..k)
      BY <2>1, <2>5
    <3>2. j \in 1..k => s[j] \in Nat
      BY <1>0, <2>1 DEF Numbers
    <3> QED
      BY <2>2, <2>3, <3>1, <3>2
  <2> QED
    BY <2>4, <2>5
<1> HIDE DEF S
<1>3. Nat \subseteq S
  BY <1>1, <1>2, NatSet
<1>4. Total(FirstOf(s, Len(s))) = IF j \in 1..Len(s) THEN s[j] ELSE 0
  BY <1>0, <1>3 DEF S
<1> QED
  BY <1>4, FirstAll DEF Numbers

LEMMA TotalConcat ==
  ASSUME NEW s, NEW t, Numbers(s), Numbers(t)
  PROVE  Total(s \o t) = Total(s) + Total(t)
<1> DEFINE S == {k \in Nat : k <= Len(t) =>
                   Total(s \o FirstOf(t, k)) = Total(s) + Total(FirstOf(t, k))}
<1>0. Len(t) \in Nat /\ Listed(s) /\ Listed(t)
  BY ListedLen DEF Numbers
<1>1. 0 \in S
  <2>1. PICK e : e = FirstOf(t, 0)
    OBVIOUS
  <2>2. s \o e = s /\ Total(e) = 0
    <3>1. e = <<>>
      BY <2>1, FirstListed
    <3> QED
      BY <1>0, <3>1, ConcatEmpty, TotalEmpty
  <2>3. Total(s) \in Nat
    BY TotalNat
  <2>4. Total(s \o e) = Total(s) + Total(e)
    <3>1. PICK a : a = s \o e
      BY Zenon
    <3>2. a = s /\ Total(s) = Total(s) + 0
      BY <2>2, <2>3, <3>1
    <3> QED
      BY <2>2, <3>1, <3>2
  <2> QED
    BY <2>1, <2>4
<1>2. ASSUME NEW k \in Nat, k \in S PROVE k + 1 \in S
  <2> SUFFICES ASSUME k + 1 <= Len(t)
               PROVE  Total(s \o FirstOf(t, k + 1)) = Total(s) + Total(FirstOf(t, k + 1))
    OBVIOUS
  <2>1. PICK a, x : a = FirstOf(t, k) /\ x = t[k + 1]
    OBVIOUS
  <2>2. Listed(a) /\ FirstOf(t, k + 1) = Append(a, x)
    BY <2>1, FirstListed, FirstNext, Zenon
  <2>3. s \o Append(a, x) = Append(s \o a, x) /\ Listed(s \o a)
    BY <1>0, <2>2, ConcatAppend, ConcatListed
  <2>4. Total(Append(s \o a, x)) = Total(s \o a) + x /\ Total(Append(a, x)) = Total(a) + x
    BY <2>2, <2>3, TotalAppend
  <2>5. k \in 0..Len(t) /\ k + 1 \in 1..Len(t)
    BY <1>0
  <2>6. PICK p, q \in Nat : p = Total(s) /\ q = Total(a)
    BY <2>1, <2>5, TotalNat
  <2>7. x \in Nat
    BY <2>1, <2>5 DEF Numbers
  <2>8. Total(s \o a) = p + q
    BY <1>2, <2>1, <2>5, <2>6
  <2>9. Total(s \o FirstOf(t, k + 1)) = (p + q) + x
    BY <2>2, <2>3, <2>4, <2>8, Zenon
  <2>10. Total(FirstOf(t, k + 1)) = q + x
    BY <2>2, <2>4, <2>6, Zenon
  <2> QED
    BY <2>6, <2>7, <2>9, <2>10
<1> HIDE DEF S
<1>3. Nat \subseteq S
  BY <1>1, <1>2, NatSet
<1>4. Total(s \o FirstOf(t, Len(t))) = Total(s) + Total(FirstOf(t, Len(t)))
  BY <1>0, <1>3 DEF S
<1> QED
  BY <1>0, <1>4, FirstAll

-----------------------------------------------------------------------------
\* Sums of sums.
LEMMA NumbersMade ==
  ASSUME NEW n \in Nat, NEW s \in [1..n -> Nat]
  PROVE  Numbers(s) /\ Len(s) = n
<1>1. s = [i \in 1..n |-> s[i]] /\ \A i \in 1..n : s[i] \in Nat
  OBVIOUS
<1>2. Listed(s) /\ Len(s) = n
  BY <1>1, FunctionListed
<1> QED
  BY <1>1, <1>2 DEF Numbers

LEMMA TotalZero ==
  ASSUME NEW s, Numbers(s), \A i \in 1..Len(s) : s[i] = 0
  PROVE  Total(s) = 0
<1>1. 0 \notin 1..Len(s)
  OBVIOUS
<1>2. Total(s) = IF 0 \in 1..Len(s) THEN s[0] ELSE 0
  BY TotalOne
<1> QED
  BY <1>1, <1>2

\* What is left of a sum without one place.
Without(s, j) == [i \in 1..Len(s) |-> IF i = j THEN 0 ELSE s[i]]

LEMMA TotalSplit ==
  ASSUME NEW s, Numbers(s), NEW j \in 1..Len(s)
  PROVE  /\ Numbers(Without(s, j)) /\ Len(Without(s, j)) = Len(s)
         /\ Total(s) = s[j] + Total(Without(s, j))
<1>1. PICK n \in Nat : n = Len(s) /\ Listed(s)
  BY ListedLen DEF Numbers
<1>2. PICK rest, one : rest = Without(s, j) /\ one = [i \in 1..n |-> IF i = j THEN s[j] ELSE 0]
  BY Zenon
<1>3. \A i \in 1..n : s[i] \in Nat
  BY <1>1 DEF Numbers
<1>4. rest \in [1..n -> Nat] /\ one \in [1..n -> Nat]
  BY <1>1, <1>2, <1>3 DEF Without
<1>5. Numbers(rest) /\ Len(rest) = n /\ Numbers(one) /\ Len(one) = n
  BY <1>4, NumbersMade, Zenon
<1>6. \A i \in 1..n : s[i] = one[i] + rest[i]
  BY <1>1, <1>2, <1>3 DEF Without
<1>7. Total(s) = Total(one) + Total(rest)
  BY <1>1, <1>5, <1>6, TotalPlus
<1>8. Total(one) = s[j]
  <2>1. \A i \in 1..Len(one) : i # j => one[i] = 0
    BY <1>2, <1>5
  <2>2. Total(one) = IF j \in 1..Len(one) THEN one[j] ELSE 0
    BY <1>1, <1>5, <2>1, TotalOne
  <2> QED
    BY <1>1, <1>2, <1>5, <2>2
<1> QED
  BY <1>1, <1>2, <1>5, <1>7, <1>8

LEMMA TotalAtLeast ==
  ASSUME NEW s, Numbers(s), NEW j \in 1..Len(s)
  PROVE  s[j] <= Total(s)
<1>1. PICK a, b \in Nat : a = s[j] /\ b = Total(Without(s, j))
  BY TotalSplit, TotalNat, Zenon DEF Numbers
<1>2. Total(s) = a + b
  BY <1>1, TotalSplit
<1> QED
  BY <1>1, <1>2

LEMMA TotalTwo ==
  ASSUME NEW s, Numbers(s), NEW i \in 1..Len(s), NEW j \in 1..Len(s), i # j
  PROVE  s[i] + s[j] <= Total(s)
<1>1. PICK t : t = Without(s, j)
  OBVIOUS
<1>2. Numbers(t) /\ Len(t) = Len(s) /\ Total(s) = s[j] + Total(t)
  BY <1>1, TotalSplit
<1>3. t[i] = s[i]
  BY <1>1 DEF Without
<1>4. t[i] <= Total(t) /\ t[i] \in Nat /\ Total(t) \in Nat /\ s[j] \in Nat
  BY <1>2, TotalAtLeast, TotalNat DEF Numbers
<1> QED
  BY <1>2, <1>3, <1>4

\* A count of 1 is of one place.
LEMMA TotalUnique ==
  ASSUME NEW s, Numbers(s), \A i \in 1..Len(s) : s[i] \in {0, 1}, Total(s) = 1
  PROVE  \E j \in 1..Len(s) : s[j] = 1 /\ \A i \in 1..Len(s) : s[i] = 1 => i = j
<1>1. PICK j \in 1..Len(s) : s[j] = 1
  <2>1. CASE \A i \in 1..Len(s) : s[i] = 0
    BY <2>1, TotalZero
  <2> QED
    BY <2>1
<1>2. ASSUME NEW i \in 1..Len(s), s[i] = 1 PROVE i = j
  <2>1. CASE i # j
    <3>1. s[i] + s[j] <= Total(s)
      BY <2>1, TotalTwo
    <3> QED
      BY <1>1, <1>2, <3>1
  <2> QED
    BY <2>1
<1> QED
  BY <1>1, <1>2

LEMMA TotalOnes ==
  ASSUME NEW n \in Nat, NEW s, s = [i \in 1..n |-> 1]
  PROVE  Total(s) = n
<1> DEFINE S == {k \in Nat : k <= n => Total(FirstOf(s, k)) = k}
<1>1. 0 \in S
  BY FirstListed, TotalEmpty
<1>2. ASSUME NEW k \in Nat, k \in S PROVE k + 1 \in S
  <2>1. CASE k + 1 <= n
    <3>1. Total(FirstOf(s, k)) = k /\ s[k + 1] = 1
      BY <1>2, <2>1
    <3>2. Total(FirstOf(s, k + 1)) = Total(FirstOf(s, k)) + s[k + 1]
      BY TotalNext
    <3> QED
      BY <3>1, <3>2
  <2> QED
    BY <2>1
<1> HIDE DEF S
<1>3. Nat \subseteq S
  BY <1>1, <1>2, NatSet
<1>4. Total(FirstOf(s, n)) = n
  BY <1>3 DEF S
<1>5. FirstOf(s, n) = s
  BY DEF FirstOf
<1> QED
  BY <1>4, <1>5

\* Rows and columns of a table add up to the same.
LEMMA TotalSwap ==
  ASSUME NEW m \in Nat, NEW n \in Nat, NEW v \in [1..m -> [1..n -> Nat]]
  PROVE  Total([a \in 1..m |-> Total(v[a])])
           = Total([b \in 1..n |-> Total([a \in 1..m |-> v[a][b]])])
<1>1. PICK R : R = [a \in 1..m |-> Total(v[a])]
  BY Zenon
<1>2. PICK C : C = [b \in 1..n |-> [a \in 1..m |-> v[a][b]]]
  BY Zenon
<1> DEFINE Part(k) == [b \in 1..n |-> Total(FirstOf(C[b], k))]
           S == {k \in Nat : k <= m => Total(FirstOf(R, k)) = Total(Part(k))}
<1>3. \A a \in 1..m : Numbers(v[a]) /\ Len(v[a]) = n
  BY NumbersMade, Zenon
<1>4. R \in [1..m -> Nat] /\ Numbers(R) /\ Len(R) = m
  <2>1. R \in [1..m -> Nat]
    BY <1>1, <1>3, TotalNat
  <2> QED
    BY <2>1, NumbersMade, Zenon
<1>5. \A b \in 1..n : Numbers(C[b]) /\ Len(C[b]) = m
  <2> SUFFICES ASSUME NEW b \in 1..n PROVE Numbers(C[b]) /\ Len(C[b]) = m
    OBVIOUS
  <2>1. C[b] \in [1..m -> Nat]
    BY <1>2
  <2> QED
    BY <2>1, NumbersMade
<1>6. ASSUME NEW k \in 0..m
      PROVE  Part(k) \in [1..n -> Nat] /\ Numbers(Part(k)) /\ Len(Part(k)) = n
  <2>1. Part(k) \in [1..n -> Nat]
    BY <1>5, TotalNat, Zenon
  <2> HIDE DEF Part
  <2> QED
    BY <2>1, NumbersMade
<1>7. 0 \in S
  <2>1. Total(FirstOf(R, 0)) = 0
    BY FirstListed, TotalEmpty
  <2>2. \A b \in 1..n : Part(0)[b] = 0
    BY FirstListed, TotalEmpty
  <2>3. Numbers(Part(0)) /\ Len(Part(0)) = n
    BY <1>6
  <2> HIDE DEF Part
  <2>4. Total(Part(0)) = 0
    BY <2>2, <2>3, TotalZero
  <2> QED
    BY <2>1, <2>4
<1>8. ASSUME NEW k \in Nat, k \in S PROVE k + 1 \in S
  <2> SUFFICES ASSUME k + 1 <= m PROVE Total(FirstOf(R, k + 1)) = Total(Part(k + 1))
    OBVIOUS
  <2>1. k \in 0..m /\ k + 1 \in 0..m /\ k + 1 \in 1..m
    OBVIOUS
  <2>2. PICK x, y, z : x = Part(k) /\ y = v[k + 1] /\ z = Part(k + 1)
    BY Zenon
  <2>3. /\ Numbers(x) /\ Len(x) = n /\ Numbers(y) /\ Len(y) = n
        /\ Numbers(z) /\ Len(z) = n
    BY <1>3, <1>6, <2>1, <2>2
  <2>4. \A b \in 1..n : z[b] = x[b] + y[b]
    <3> SUFFICES ASSUME NEW b \in 1..n PROVE z[b] = x[b] + y[b]
      OBVIOUS
    <3>1. z[b] = Total(FirstOf(C[b], k + 1)) /\ x[b] = Total(FirstOf(C[b], k))
      BY <2>2
    <3>2. C[b][k + 1] = y[b]
      BY <1>2, <2>1, <2>2
    <3> QED
      BY <3>1, <3>2, TotalNext, Zenon
  <2>5. Total(z) = Total(x) + Total(y)
    BY <2>3, <2>4, TotalPlus, Zenon DEF Numbers
  <2>6. Total(FirstOf(R, k)) = Total(x)
    BY <1>8, <2>1, <2>2
  <2>7. R[k + 1] = Total(y)
    BY <1>1, <2>1, <2>2
  <2> QED
    BY <2>2, <2>5, <2>6, <2>7, TotalNext
<1> HIDE DEF S
<1>9. Nat \subseteq S
  BY <1>7, <1>8, NatSet, Zenon
<1>10. Total(FirstOf(R, m)) = Total(Part(m))
  BY <1>9 DEF S
<1>11. FirstOf(R, m) = R
  BY <1>4, FirstAll DEF Numbers
<1>12. \A b \in 1..n : FirstOf(C[b], m) = [a \in 1..m |-> v[a][b]]
  BY <1>2 DEF FirstOf
<1>13. Part(m) = [b \in 1..n |-> Total([a \in 1..m |-> v[a][b]])]
  BY <1>12, Zenon
<1> HIDE DEF Part
<1> QED
  BY <1>1, <1>10, <1>11, <1>13

\* Where each column has at most one place that is not zero, the table adds up
\* to those places.
Sums(v, m) == [a \in 1..m |-> Total(v[a])]
OnlyAt(v, m, b, x, j) == /\ \A a \in 1..m : a # j => v[a][b] = 0
                         /\ x = IF j \in 1..m THEN v[j][b] ELSE 0
Scattered(v, m, u, n) == \A b \in 1..n : \E j \in Nat : OnlyAt(v, m, b, u[b], j)

LEMMA TotalScatter ==
  ASSUME NEW m \in Nat, NEW n \in Nat, NEW v \in [1..m -> [1..n -> Nat]],
         NEW u \in [1..n -> Nat], Scattered(v, m, u, n)
  PROVE  Total(Sums(v, m)) = Total(u)
<1>1. ASSUME NEW b \in 1..n PROVE Total([a \in 1..m |-> v[a][b]]) = u[b]
  <2>1. PICK c : c = [a \in 1..m |-> v[a][b]]
    BY Zenon
  <2>2. c \in [1..m -> Nat]
    BY <2>1
  <2>3. Numbers(c) /\ Len(c) = m
    BY <2>2, NumbersMade, Zenon
  <2>4. PICK j \in Nat : /\ \A a \in 1..m : a # j => v[a][b] = 0
                         /\ u[b] = IF j \in 1..m THEN v[j][b] ELSE 0
    BY Zenon DEF Scattered, OnlyAt
  <2>5. \A a \in 1..Len(c) : a # j => c[a] = 0
    BY <2>1, <2>3, <2>4
  <2>6. Total(c) = IF j \in 1..Len(c) THEN c[j] ELSE 0
    BY <2>3, <2>5, TotalOne, Zenon
  <2> QED
    BY <2>1, <2>3, <2>4, <2>6
<1>2. [b \in 1..n |-> Total([a \in 1..m |-> v[a][b]])] = u
  BY <1>1
<1> QED
  BY <1>2, TotalSwap, Zenon DEF Sums

-----------------------------------------------------------------------------
\* Sorting loses nothing: what w says of the elements has the same sum.
Values(w, s) == [k \in 1..Len(s) |-> w[s[k]]]

LEMMA ValuesNumbers ==
  ASSUME NEW S, NEW w \in [S -> Nat], NEW s \in Seq(S)
  PROVE  Numbers(Values(w, s)) /\ Len(Values(w, s)) = Len(s)
<1>1. Len(s) \in Nat /\ \A k \in 1..Len(s) : s[k] \in S
  BY ElementOfSeq
<1>2. PICK v : v = Values(w, s)
  OBVIOUS
<1>3. v = [k \in 1..Len(s) |-> v[k]] /\ \A k \in 1..Len(s) : v[k] \in Nat
  BY <1>1, <1>2 DEF Values
<1>4. Listed(v) /\ Len(v) = Len(s)
  BY <1>1, <1>3, FunctionListed, Zenon
<1> QED
  BY <1>2, <1>3, <1>4 DEF Numbers

LEMMA ValuesConcat ==
  ASSUME NEW S, NEW w \in [S -> Nat], NEW s \in Seq(S), NEW t \in Seq(S)
  PROVE  Total(Values(w, s \o t)) = Total(Values(w, s)) + Total(Values(w, t))
<1>1. PICK u : u = s \o t
  BY Zenon
<1>2. /\ u \in Seq(S) /\ Len(u) = Len(s) + Len(t) /\ Len(s) \in Nat /\ Len(t) \in Nat
      /\ \A i \in 1..Len(u) : u[i] = IF i <= Len(s) THEN s[i] ELSE t[i - Len(s)]
  BY <1>1, ConcatProperties
<1>3. PICK a, b, c : a = Values(w, s) /\ b = Values(w, t) /\ c = Values(w, u)
  OBVIOUS
<1>4. /\ Numbers(a) /\ Len(a) = Len(s) /\ Numbers(b) /\ Len(b) = Len(t)
      /\ Numbers(c) /\ Len(c) = Len(u)
  BY <1>2, <1>3, ValuesNumbers
<1>5. PICK d : d = a \o b
  BY Zenon
<1>6. /\ Listed(d) /\ Len(d) = Len(s) + Len(t)
      /\ \A i \in 1..Len(s) : d[i] = a[i]
      /\ \A i \in 1..Len(t) : d[Len(s) + i] = b[i]
  <2>1. Listed(a) /\ Listed(b)
    BY <1>4 DEF Numbers
  <2>2. /\ Listed(a \o b) /\ Len(a \o b) = Len(a) + Len(b)
        /\ \A i \in 1..Len(a) : (a \o b)[i] = a[i]
        /\ \A i \in 1..Len(b) : (a \o b)[Len(a) + i] = b[i]
    BY <2>1, ConcatListed
  <2> QED
    BY ONLY <1>4, <1>5, <2>2, Zenon
<1>7. ASSUME NEW i \in 1..Len(u) PROVE c[i] = d[i]
  <2>1. CASE i <= Len(s)
    <3>1. i \in 1..Len(s) /\ u[i] = s[i]
      BY <1>2, <2>1
    <3>2. c[i] = w[s[i]] /\ a[i] = w[s[i]]
      BY <1>3, <3>1 DEF Values
    <3> QED
      BY <1>6, <3>1, <3>2
  <2>2. CASE ~(i <= Len(s))
    <3>1. PICK j \in 1..Len(t) : j = i - Len(s) /\ i = Len(s) + j
      BY <1>2, <2>2
    <3>2. u[i] = t[j]
      BY <1>2, <2>2, <3>1
    <3>3. c[i] = w[t[j]] /\ b[j] = w[t[j]]
      BY <1>3, <3>1, <3>2 DEF Values
    <3> QED
      BY <1>6, <3>1, <3>3
  <2> QED
    BY <2>1, <2>2
<1>8. c = d
  BY <1>2, <1>4, <1>6, <1>7, ListedEqual, Zenon DEF Numbers
<1> QED
  BY <1>1, <1>3, <1>4, <1>5, <1>8, TotalConcat

LEMMA InsertIs ==
  ASSUME NEW S, NEW s \in Seq(S), NEW x \in S, NEW p \in 1..Len(s) + 1
  PROVE  \E a, b \in Seq(S) :
           /\ s = a \o b /\ InsertAt(s, p, x) = (a \o <<x>>) \o b
           /\ Len(a) + Len(b) = Len(s)
<1>0. Len(s) \in Nat
  OBVIOUS
<1>1. PICK k \in Nat : k = p - 1 /\ k <= Len(s) /\ p = k + 1
  BY <1>0
<1>2. PICK a, b : a = SubSeq(s, 1, k) /\ b = SubSeq(s, p, Len(s))
  BY Zenon
<1>3. a \in Seq(S) /\ Len(a) = k /\ \A i \in 1..k : a[i] = s[i]
  <2>1. \A i \in 1..k : s[i] \in S
    BY <1>0, <1>1, ElementOfSeq
  <2>2. /\ SubSeq(s, 1, k) \in Seq(S)
        /\ Len(SubSeq(s, 1, k)) = IF 1 <= k THEN k - 1 + 1 ELSE 0
        /\ \A i \in 1..k - 1 + 1 : SubSeq(s, 1, k)[i] = s[1 + i - 1]
    BY <1>1, <2>1, SubSeqProperties
  <2> QED
    BY <1>1, <1>2, <2>2
<1>4. b \in Seq(S) /\ Len(b) = Len(s) - k /\ \A i \in 1..Len(s) - k : b[i] = s[k + i]
  <2>1. \A i \in p..Len(s) : s[i] \in S
    BY <1>0, <1>1, ElementOfSeq
  <2>2. PICK n \in Nat : n = Len(s)
    BY <1>0
  <2>3. /\ SubSeq(s, p, n) \in Seq(S)
        /\ Len(SubSeq(s, p, n)) = IF p <= n THEN n - p + 1 ELSE 0
        /\ \A i \in 1..n - p + 1 : SubSeq(s, p, n)[i] = s[p + i - 1]
    BY <1>1, <2>1, <2>2, SubSeqProperties
  <2>4. Len(b) = n - k
    BY <1>1, <1>2, <2>2, <2>3
  <2>5. \A i \in 1..n - k : b[i] = s[k + i]
    <3>1. ASSUME NEW i \in 1..n - k PROVE i \in 1..n - p + 1 /\ p + i - 1 = k + i
      BY <1>1, <2>2
    <3> QED
      BY <1>2, <2>2, <2>3, <3>1, Zenon
  <2> QED
    BY <1>2, <2>2, <2>3, <2>4, <2>5, Zenon
<1>5. s = a \o b
  <2>1. PICK u : u = a \o b
    BY Zenon
  <2>2. /\ u \in Seq(S) /\ Len(u) = Len(a) + Len(b)
        /\ \A i \in 1..Len(u) : u[i] = IF i <= Len(a) THEN a[i] ELSE b[i - Len(a)]
    BY <1>3, <1>4, <2>1, ConcatProperties
  <2>3. Len(u) = Len(s)
    <3>1. PICK n \in Nat : n = Len(s)
      BY <1>0
    <3>2. Len(a) = k /\ Len(b) = n - k /\ k \in Nat
      BY <1>1, <1>3, <1>4, <3>1
    <3> QED
      BY ONLY <2>2, <3>1, <3>2
  <2>4. ASSUME NEW i \in 1..Len(s) PROVE u[i] = s[i]
    <3>1. CASE i <= k
      <4>1. i \in 1..k
        BY <1>0, <1>1, <3>1
      <4> QED
        BY <1>3, <2>2, <2>3, <3>1, <4>1
    <3>2. CASE ~(i <= k)
      <4>1. PICK j \in 1..Len(s) - k : j = i - k /\ i = k + j
        BY <1>0, <1>1, <3>2
      <4>2. u[i] = b[j]
        BY <1>3, <2>2, <2>3, <3>2, <4>1, Zenon
      <4> QED
        BY <1>4, <4>1, <4>2, Zenon
    <3> QED
      BY <3>1, <3>2
  <2>5. u = s
    BY <2>2, <2>3, <2>4, SeqEqual
  <2> QED
    BY <2>1, <2>5
<1>6. InsertAt(s, p, x) = (a \o <<x>>) \o b
  BY <1>1, <1>2, Zenon DEF InsertAt
<1>7. Len(a) + Len(b) = Len(s)
  <2>1. PICK n \in Nat : n = Len(s)
    BY <1>0
  <2>2. Len(a) = k /\ Len(b) = n - k
    BY <1>3, <1>4, <2>1
  <2>3. k + (n - k) = n
    BY <1>1
  <2> QED
    BY ONLY <2>1, <2>2, <2>3
<1>8. a \in Seq(S) /\ b \in Seq(S)
  BY <1>3, <1>4
<1> QED
  BY ONLY <1>5, <1>6, <1>7, <1>8, Zenon

LEMMA InsertTotal ==
  ASSUME NEW S, NEW w \in [S -> Nat], NEW s \in Seq(S), NEW x \in S, NEW p \in 1..Len(s) + 1
  PROVE  /\ InsertAt(s, p, x) \in Seq(S) /\ Len(InsertAt(s, p, x)) = Len(s) + 1
         /\ Total(Values(w, InsertAt(s, p, x))) = Total(Values(w, s)) + w[x]
<1>1. PICK a, b \in Seq(S) : /\ s = a \o b /\ InsertAt(s, p, x) = (a \o <<x>>) \o b
                             /\ Len(a) + Len(b) = Len(s)
  BY ONLY InsertIs, s \in Seq(S), x \in S, p \in 1..Len(s) + 1, Zenon
<1>2. PICK e : e = <<x>>
  BY Zenon
<1>3. e \in Seq(S) /\ Len(e) = 1 /\ e[1] = x
  BY <1>2
<1>4. PICK c : c = a \o e
  BY Zenon
<1>5. c \in Seq(S) /\ Len(c) = Len(a) + 1
  <2>1. a \o e \in Seq(S) /\ Len(a \o e) = Len(a) + Len(e)
    BY <1>3, ConcatProperties, Zenon
  <2> QED
    BY ONLY <1>3, <1>4, <2>1
<1>6. PICK d : d = c \o b
  BY Zenon
<1>7. d \in Seq(S) /\ Len(d) = Len(a) + 1 + Len(b)
  <2>1. c \o b \in Seq(S) /\ Len(c \o b) = Len(c) + Len(b)
    BY <1>5, ConcatProperties, Zenon
  <2> QED
    BY ONLY <1>5, <1>6, <2>1
<1>8. InsertAt(s, p, x) = d
  BY <1>1, <1>2, <1>4, <1>6
<1>9. Total(Values(w, e)) = w[x]
  <2>1. PICK v : v = Values(w, e)
    OBVIOUS
  <2>2. Numbers(v) /\ Len(v) = 1
    BY <1>3, <2>1, ValuesNumbers, Zenon
  <2>3. v[1] = w[x]
    BY <1>3, <2>1 DEF Values
  <2>4. \A i \in 1..Len(v) : i # 1 => v[i] = 0
    BY <2>2
  <2>5. Total(v) = IF 1 \in 1..Len(v) THEN v[1] ELSE 0
    BY <2>2, <2>4, TotalOne, Zenon
  <2> QED
    BY <2>1, <2>2, <2>3, <2>5
<1>10. /\ Total(Values(w, a)) \in Nat /\ Total(Values(w, b)) \in Nat
       /\ w[x] \in Nat
  BY ValuesNumbers, TotalNat, Zenon
<1>11. Total(Values(w, a \o b)) = Total(Values(w, a)) + Total(Values(w, b))
  BY ValuesConcat, Zenon
<1>12. Total(Values(w, a \o e)) = Total(Values(w, a)) + Total(Values(w, e))
  BY <1>3, ValuesConcat, Zenon
<1>13. Total(Values(w, c \o b)) = Total(Values(w, c)) + Total(Values(w, b))
  BY <1>5, ValuesConcat, Zenon
<1>14. PICK n, m, q \in Nat : n = Total(Values(w, a)) /\ m = Total(Values(w, b)) /\ q = w[x]
  BY <1>10
<1>15. Total(Values(w, s)) = n + m
  BY <1>1, <1>11, <1>14
<1>16. Total(Values(w, d)) = n + q + m
  BY <1>4, <1>6, <1>9, <1>12, <1>13, <1>14
<1>17. Len(d) = Len(s) + 1
  <2>1. Len(a) \in Nat /\ Len(b) \in Nat
    OBVIOUS
  <2> QED
    BY <1>1, <1>7, <2>1
<1>18. /\ d \in Seq(S) /\ Len(d) = Len(s) + 1
       /\ Total(Values(w, d)) = Total(Values(w, s)) + w[x]
  <2>1. n + q + m = n + m + q
    OBVIOUS
  <2>2. w[x] = q
    BY <1>14
  <2> QED
    BY ONLY <1>7, <1>15, <1>16, <1>17, <2>1, <2>2, Zenon
<1> QED
  BY ONLY <1>8, <1>18

\* The loop of sorted().
Insert(acc, x, n) ==
  InsertAt(acc, 1 + Max({0} \cup {k \in 1..n - 1 : ~ByLaunch(x, acc[k])}), x)
IsSorting(g, s, n) == g = [i \in 0..n |-> IF i = 0 THEN <<>> ELSE Insert(g[i - 1], s[i], i)]

LEMMA SortedExists ==
  ASSUME NEW s, NEW n \in Nat
  PROVE  \E g : IsSorting(g, s, n)
<1> DEFINE S == {k \in Nat : \E g : IsSorting(g, s, k)}
<1>1. 0 \in S
  <2>1. IsSorting([i \in 0..0 |-> <<>>], s, 0)
    BY DEF IsSorting
  <2> QED
    BY <2>1
<1>2. ASSUME NEW k \in Nat, k \in S PROVE k + 1 \in S
  <2>1. PICK g : IsSorting(g, s, k)
    BY <1>2
  <2> DEFINE h == [i \in 0..k + 1 |-> IF i <= k THEN g[i] ELSE Insert(g[k], s[k + 1], k + 1)]
  <2>2. \A i \in 0..k : g[i] = IF i = 0 THEN <<>> ELSE Insert(g[i - 1], s[i], i)
    BY <2>1 DEF IsSorting
  <2>3. \A i \in 0..k + 1 : h[i] = IF i = 0 THEN <<>> ELSE Insert(h[i - 1], s[i], i)
    BY <2>2
  <2>4. IsSorting(h, s, k + 1)
    BY <2>3 DEF IsSorting
  <2> QED
    BY <2>4
<1> HIDE DEF S
<1>3. Nat \subseteq S
  BY <1>1, <1>2, NatSet
<1> QED
  BY <1>3 DEF S

LEMMA SortedTotal ==
  ASSUME NEW S, NEW w \in [S -> Nat], NEW s \in Seq(S)
  PROVE  /\ Sorted(s, ByLaunch) \in Seq(S)
         /\ Total(Values(w, Sorted(s, ByLaunch))) = Total(Values(w, s))
<1> DEFINE N == Len(s)
           g == CHOOSE g : IsSorting(g, s, N)
           T == {k \in Nat : k <= N =>
                   /\ g[k] \in Seq(S) /\ Len(g[k]) = k
                   /\ Total(Values(w, g[k])) = Total(FirstOf(Values(w, s), k))}
<1>0. N \in Nat
  OBVIOUS
<1>1. IsSorting(g, s, N)
  BY <1>0, SortedExists, Zenon
<1>2. Sorted(s, ByLaunch) = g[N]
  BY DEF Sorted, IsSorting, Insert
<1> HIDE DEF g
<1>3. \A i \in 0..N : g[i] = IF i = 0 THEN <<>> ELSE Insert(g[i - 1], s[i], i)
  BY <1>1, Zenon DEF IsSorting
<1>4. PICK v : v = Values(w, s)
  OBVIOUS
<1>5. Numbers(v) /\ Len(v) = N
  BY <1>4, ValuesNumbers
<1>6. 0 \in T
  <2>1. PICK e : e = g[0]
    OBVIOUS
  <2>2. e = <<>> /\ e \in Seq(S) /\ Len(e) = 0
    <3>1. 0 \in 0..N
      BY <1>0
    <3> HIDE DEF N
    <3>2. g[0] = <<>>
      BY <1>3, <3>1
    <3> QED
      BY <2>1, <3>2
  <2>3. Values(w, e) = <<>>
    BY <2>2 DEF Values
  <2>4. Total(Values(w, e)) = 0 /\ Total(FirstOf(v, 0)) = 0
    BY <2>3, FirstListed, TotalEmpty
  <2> QED
    BY <1>4, <2>1, <2>2, <2>4, Zenon
<1>7. ASSUME NEW k \in Nat, k \in T PROVE k + 1 \in T
  <2> SUFFICES ASSUME k + 1 <= N
               PROVE  /\ g[k + 1] \in Seq(S) /\ Len(g[k + 1]) = k + 1
                      /\ Total(Values(w, g[k + 1])) = Total(FirstOf(Values(w, s), k + 1))
    OBVIOUS
  <2>1. PICK a, x : a = g[k] /\ x = s[k + 1]
    OBVIOUS
  <2>2. /\ a \in Seq(S) /\ Len(a) = k /\ x \in S
        /\ Total(Values(w, a)) = Total(FirstOf(v, k))
    <3>1. k <= N /\ k + 1 \in 1..N
      BY <1>0
    <3> QED
      BY <1>4, <1>7, <2>1, <3>1, ElementOfSeq
  <2>3. PICK p : p = 1 + Max({0} \cup {j \in 1..k + 1 - 1 : ~ByLaunch(x, a[j])})
    BY Zenon
  <2>4. p \in 1..k + 1
    <3>1. {0} \cup {j \in 1..k + 1 - 1 : ~ByLaunch(x, a[j])} \in SUBSET (0..k)
      OBVIOUS
    <3>2. {0} \cup {j \in 1..k + 1 - 1 : ~ByLaunch(x, a[j])} # {}
      OBVIOUS
    <3>3. PICK m : m = Max({0} \cup {j \in 1..k + 1 - 1 : ~ByLaunch(x, a[j])})
      BY Zenon
    <3>4. m \in 0..k
      BY <3>1, <3>2, <3>3, MaxIn, Zenon
    <3> QED
      BY <2>3, <3>3, <3>4
  <2>5. g[k + 1] = InsertAt(a, p, x)
    <3>1. k + 1 \in 0..N /\ k + 1 # 0 /\ k + 1 - 1 = k
      BY <1>0
    <3>2. g[k + 1] = Insert(g[k], s[k + 1], k + 1)
      BY <1>3, <3>1
    <3> QED
      BY <2>1, <2>3, <3>2 DEF Insert
  <2>6. /\ g[k + 1] \in Seq(S) /\ Len(g[k + 1]) = k + 1
        /\ Total(Values(w, g[k + 1])) = Total(Values(w, a)) + w[x]
    <3>1. p \in 1..Len(a) + 1
      BY <2>2, <2>4
    <3>2. PICK r : r = InsertAt(a, p, x)
      OBVIOUS
    <3>3. r \in Seq(S) /\ Len(r) = Len(a) + 1 /\ Total(Values(w, r)) = Total(Values(w, a)) + w[x]
      <4>1. w \in [S -> Nat] /\ a \in Seq(S) /\ x \in S
        BY <2>2
      <4> QED
        BY ONLY <3>1, <3>2, <4>1, InsertTotal
    <3> QED
      BY <2>2, <2>5, <3>2, <3>3
  <2>7. Total(FirstOf(v, k + 1)) = Total(FirstOf(v, k)) + w[x]
    <3>1. v[k + 1] = w[x]
      <4>1. k + 1 \in 1..N
        BY <1>0
      <4> QED
        BY <1>4, <2>1, <4>1 DEF Values
    <3> QED
      BY <3>1, TotalNext, Zenon
  <2> QED
    BY <1>4, <2>2, <2>6, <2>7
<1> HIDE DEF T
<1>8. Nat \subseteq T
  BY <1>6, <1>7, NatSet, Zenon
<1>9. g[N] \in Seq(S) /\ Total(Values(w, g[N])) = Total(FirstOf(v, N))
  BY <1>0, <1>4, <1>8 DEF T
<1>10. FirstOf(v, N) = v
  BY <1>5, FirstAll DEF Numbers
<1> QED
  BY <1>2, <1>4, <1>9, <1>10

-----------------------------------------------------------------------------
\* Counters of a row, and what a record adds to them.
Counters == {"issue_count", "exec_count"} \cup KnownMetrics
Reading(row, c) == IF c \in KnownMetrics THEN row.sums[c] ELSE row[c]
Share(rec, c) ==
  IF c \in KnownMetrics THEN Get(rec.metrics, c, 0)
  ELSE IF c = "exec_count" THEN rec.active_threads ELSE 1

\* A line of a source file, or none.
LineOrNone == Nat \cup {NoLine}

IsRow(row, pc) ==
  /\ {"pc", "exec_count", "issue_count", "sums", "ptx_line", "source_file", "source_line"}
       \subseteq DOMAIN row
  /\ row.pc = pc /\ row.source_line \in LineOrNone
  /\ \A c \in Counters : Reading(row, c) \in Nat
Countable(rec) ==
  /\ rec.instr_name \notin _DIRECTIVE_NAMES /\ rec.pc \in Nat
  /\ \A c \in Counters : Share(rec, c) \in Nat

LEMMA NewRow ==
  ASSUME NEW pc, NEW f, NEW bb, NEW name
  PROVE  /\ IsRow(NewStats(pc, f, bb, name), pc)
         /\ \A c \in Counters : Reading(NewStats(pc, f, bb, name), c) = 0
<1>1. PICK row : row = NewStats(pc, f, bb, name)
  OBVIOUS
<1>2. /\ {"pc", "exec_count", "issue_count", "sums", "ptx_line", "source_file", "source_line"}
           \subseteq DOMAIN row
      /\ row.pc = pc /\ row.exec_count = 0 /\ row.issue_count = 0 /\ row.sums = NoSums
      /\ row.source_line \in LineOrNone
  BY <1>1 DEF NewStats, LineOrNone
<1>3. \A c \in Counters : Reading(row, c) = 0
  BY <1>2 DEF Counters, Reading, NoSums
<1> QED
  BY <1>1, <1>2, <1>3 DEF IsRow

LEMMA CountedRow ==
  ASSUME NEW row, NEW pc, IsRow(row, pc), NEW rec, Countable(rec)
  PROVE  /\ IsRow(Counted(row, rec), pc)
         /\ \A c \in Counters : Reading(Counted(row, rec), c) = Reading(row, c) + Share(rec, c)
<1>1. PICK s : s = [m \in KnownMetrics |-> row.sums[m] + Get(rec.metrics, m, 0)]
  BY Zenon
<1>2. PICK new : new = Counted(row, rec)
  OBVIOUS
<1>3. new = [row EXCEPT !.exec_count = @ + rec.active_threads, !.issue_count = @ + 1, !.sums = s]
  BY <1>1, <1>2 DEF Counted, Countable
<1>4. /\ DOMAIN new = DOMAIN row /\ new.pc = row.pc /\ new.sums = s
      /\ new.source_line = row.source_line
      /\ new.exec_count = row.exec_count + rec.active_threads
      /\ new.issue_count = row.issue_count + 1
  BY ONLY IsRow(row, pc), <1>3 DEF IsRow
<1>5. ASSUME NEW c \in Counters PROVE Reading(new, c) = Reading(row, c) + Share(rec, c)
  <2>1. CASE c \in KnownMetrics
    BY <1>1, <1>4, <2>1 DEF Reading, Share
  <2>2. CASE c \notin KnownMetrics
    <3>1. CASE c = "exec_count"
      BY <1>4, <2>2, <3>1 DEF Reading, Share
    <3>2. CASE c = "issue_count"
      BY <1>4, <2>2, <3>2 DEF Reading, Share
    <3> QED
      BY <2>2, <3>1, <3>2 DEF Counters
  <2> QED
    BY <2>1, <2>2
<1>6. \A c \in Counters : Reading(new, c) \in Nat
  BY <1>5 DEF IsRow, Countable
<1> QED
  BY <1>2, <1>4, <1>5, <1>6 DEF IsRow

\* What a table has counted at a key and a pc.
Cell(t, key, pc, c) ==
  IF key \in DOMAIN t.rows /\ pc \in DOMAIN t.rows[key] THEN Reading(t.rows[key][pc], c) ELSE 0
IsTable(t) ==
  /\ Listed(t.keys)
  /\ DOMAIN t.rows = {t.keys[i] : i \in 1..Len(t.keys)}
  /\ \A i, j \in 1..Len(t.keys) : t.keys[i] = t.keys[j] => i = j
  /\ \A key \in DOMAIN t.rows :
       /\ key = <<key[1], key[2]>>
       /\ DOMAIN t.rows[key] # {}
       /\ \A pc \in DOMAIN t.rows[key] : IsRow(t.rows[key][pc], pc)
Bounded(t, n) == \A key \in DOMAIN t.rows : DOMAIN t.rows[key] \subseteq 0..n
Mark(rec, key, pc, c) == IF Key(rec) = key /\ rec.pc = pc THEN Share(rec, c) ELSE 0

LEMMA CellNat ==
  ASSUME NEW t, IsTable(t), NEW key, NEW pc, NEW c \in Counters
  PROVE  Cell(t, key, pc, c) \in Nat
<1>1. CASE key \in DOMAIN t.rows /\ pc \in DOMAIN t.rows[key]
  <2>1. IsRow(t.rows[key][pc], pc)
    BY <1>1 DEF IsTable
  <2> QED
    BY <1>1, <2>1 DEF Cell, IsRow
<1>2. CASE ~(key \in DOMAIN t.rows /\ pc \in DOMAIN t.rows[key])
  BY <1>2 DEF Cell
<1> QED
  BY <1>1, <1>2

\* A record changes one row, of its key and its pc.
LEMMA RowsPut ==
  ASSUME NEW t, NEW rec
  PROVE  LET new == CountRecord(t, rec)
             key == Key(rec)
             pcs == Get(t.rows, key, Empty)
             row == Get(pcs, rec.pc, NewStats(rec.pc, rec.function_name, rec.basic_block,
                                              rec.instr_name))
         IN  /\ new.keys = IF key \in DOMAIN t.rows THEN t.keys ELSE Append(t.keys, key)
             /\ DOMAIN new.rows = DOMAIN t.rows \cup {key}
             /\ DOMAIN new.rows[key] = DOMAIN pcs \cup {rec.pc}
             /\ new.rows[key][rec.pc] = Counted(row, rec)
             /\ \A pc \in DOMAIN pcs : pc # rec.pc => new.rows[key][pc] = pcs[pc]
             /\ \A k \in DOMAIN t.rows : k # key => new.rows[k] = t.rows[k]
<1>1. PICK key : key = Key(rec)
  OBVIOUS
<1>2. PICK pcs : pcs = Get(t.rows, key, Empty)
  OBVIOUS
<1>3. PICK row : row = Get(pcs, rec.pc, NewStats(rec.pc, rec.function_name, rec.basic_block,
                                                 rec.instr_name))
  OBVIOUS
<1>4. PICK pc, counted : pc = rec.pc /\ counted = Counted(row, rec)
  OBVIOUS
<1>5. PICK inner : inner = Put(pcs, pc, counted)
  OBVIOUS
<1>6. PICK old, outer : old = t.rows /\ outer = Put(old, key, inner)
  OBVIOUS
<1>7. PICK new : new = CountRecord(t, rec)
  OBVIOUS
<1>8. PICK keys : keys = IF key \in DOMAIN t.rows THEN t.keys ELSE Append(t.keys, key)
  BY Zenon
<1>9. new = [keys |-> keys, rows |-> outer]
  BY <1>1, <1>2, <1>3, <1>4, <1>5, <1>6, <1>7, <1>8 DEF CountRecord
<1>10. /\ DOMAIN inner = DOMAIN pcs \cup {pc} /\ inner[pc] = counted
       /\ \A y \in DOMAIN pcs : y # pc => inner[y] = pcs[y]
  BY ONLY <1>5 DEF Put
<1>11. /\ DOMAIN outer = DOMAIN old \cup {key} /\ outer[key] = inner
       /\ \A y \in DOMAIN old : y # key => outer[y] = old[y]
  BY ONLY <1>6 DEF Put
<1>12. new.keys = keys /\ new.rows = outer
  BY <1>9
<1> QED
  BY ONLY <1>1, <1>2, <1>3, <1>4, <1>6, <1>7, <1>8, <1>10, <1>11, <1>12

LEMMA CellStep ==
  ASSUME NEW t, IsTable(t), NEW rec, Countable(rec)
  PROVE  /\ \A key \in DOMAIN CountRecord(t, rec).rows :
              /\ key = <<key[1], key[2]>>
              /\ DOMAIN CountRecord(t, rec).rows[key] # {}
              /\ \A pc \in DOMAIN CountRecord(t, rec).rows[key] :
                   IsRow(CountRecord(t, rec).rows[key][pc], pc)
         /\ \A n : Bounded(t, n) /\ rec.pc \in 0..n => Bounded(CountRecord(t, rec), n)
         /\ \A key, pc : \A c \in Counters :
              Cell(CountRecord(t, rec), key, pc, c) = Cell(t, key, pc, c) + Mark(rec, key, pc, c)
<1>1. PICK new, k, p : new = CountRecord(t, rec) /\ k = Key(rec) /\ p = rec.pc
  OBVIOUS
<1>2. PICK pcs : pcs = Get(t.rows, k, Empty)
  OBVIOUS
<1>3. PICK row : row = Get(pcs, p, NewStats(p, rec.function_name, rec.basic_block, rec.instr_name))
  OBVIOUS
<1>4. /\ DOMAIN new.rows = DOMAIN t.rows \cup {k}
      /\ DOMAIN new.rows[k] = DOMAIN pcs \cup {p}
      /\ new.rows[k][p] = Counted(row, rec)
      /\ \A pc \in DOMAIN pcs : pc # p => new.rows[k][pc] = pcs[pc]
      /\ \A key \in DOMAIN t.rows : key # k => new.rows[key] = t.rows[key]
  BY <1>1, <1>2, <1>3, RowsPut
<1>5. \/ k \in DOMAIN t.rows /\ pcs = t.rows[k]
      \/ k \notin DOMAIN t.rows /\ DOMAIN pcs = {}
  BY <1>2 DEF Get, Empty
<1>6. \A pc \in DOMAIN pcs : IsRow(pcs[pc], pc)
  BY <1>5 DEF IsTable
<1>7. /\ IsRow(row, p)
      /\ \A c \in Counters : Reading(row, c) = Cell(t, k, p, c)
  <2>1. CASE p \in DOMAIN pcs
    <3>1. row = pcs[p] /\ k \in DOMAIN t.rows /\ pcs = t.rows[k]
      BY <1>3, <1>5, <2>1 DEF Get
    <3> QED
      BY <1>6, <2>1, <3>1 DEF Cell
  <2>2. CASE p \notin DOMAIN pcs
    <3>1. row = NewStats(p, rec.function_name, rec.basic_block, rec.instr_name)
      BY <1>3, <2>2 DEF Get
    <3>2. \A c \in Counters : Cell(t, k, p, c) = 0
      BY <1>5, <2>2 DEF Cell
    <3> QED
      BY <3>1, <3>2, NewRow
  <2> QED
    BY <2>1, <2>2
<1>8. /\ IsRow(new.rows[k][p], p)
      /\ \A c \in Counters : Reading(new.rows[k][p], c) = Reading(row, c) + Share(rec, c)
  BY <1>4, <1>7, CountedRow
<1>9. ASSUME NEW key \in DOMAIN new.rows
      PROVE  /\ key = <<key[1], key[2]>> /\ DOMAIN new.rows[key] # {}
             /\ \A pc \in DOMAIN new.rows[key] : IsRow(new.rows[key][pc], pc)
  <2>1. CASE key = k
    <3>1. k = <<k[1], k[2]>>
      BY <1>1 DEF Key
    <3> QED
      BY <1>4, <1>6, <1>8, <2>1, <3>1
  <2>2. CASE key # k
    BY <1>4, <2>2, Zenon DEF IsTable
  <2> QED
    BY <2>1, <2>2
<1>10. ASSUME NEW n, Bounded(t, n), p \in 0..n PROVE Bounded(new, n)
  BY <1>4, <1>5, <1>10 DEF Bounded
<1>11. ASSUME NEW key, NEW pc, NEW c \in Counters
       PROVE  Cell(new, key, pc, c) = Cell(t, key, pc, c) + Mark(rec, key, pc, c)
  <2>0. Cell(t, key, pc, c) \in Nat
    BY CellNat
  <2>1. CASE key = k /\ pc = p
    <3>1. Mark(rec, key, pc, c) = Share(rec, c)
      BY <1>1, <2>1 DEF Mark
    <3>2. Cell(new, k, p, c) = Reading(new.rows[k][p], c)
      BY <1>4 DEF Cell
    <3>3. Cell(new, key, pc, c) = Cell(t, key, pc, c) + Share(rec, c)
      BY <1>7, <1>8, <2>1, <3>2
    <3> QED
      BY <3>1, <3>3
  <2>2. CASE ~(key = k /\ pc = p)
    <3>1. Mark(rec, key, pc, c) = 0
      BY <1>1, <2>2 DEF Mark
    <3>2. Cell(new, key, pc, c) = Cell(t, key, pc, c)
      <4>1. CASE key # k
        BY <1>4, <4>1 DEF Cell
      <4>2. CASE key = k /\ pc # p
        BY <1>4, <1>5, <4>2 DEF Cell
      <4> QED
        BY <2>2, <4>1, <4>2
    <3> QED
      BY <2>0, <3>1, <3>2
  <2> QED
    BY <2>1, <2>2
<1> QED
  BY <1>1, <1>9, <1>10, <1>11

\* The issues that a table has counted at a pc, section by section.
OfFunction(t, f, pc) ==
  [i \in 1..Len(t.keys) |-> IF t.keys[i][2] = f THEN Cell(t, t.keys[i], pc, "issue_count") ELSE 0]

LEMMA OfFunctionNumbers ==
  ASSUME NEW t, IsTable(t), NEW f, NEW pc
  PROVE  /\ Numbers(OfFunction(t, f, pc)) /\ Len(OfFunction(t, f, pc)) = Len(t.keys)
         /\ Len(t.keys) \in Nat
<1>1. PICK s, n : s = OfFunction(t, f, pc) /\ n = Len(t.keys)
  BY Zenon
<1>2. n \in Nat
  <2>1. Listed(t.keys)
    BY DEF IsTable
  <2> QED
    BY <1>1, <2>1, ListedLen
<1>3. \A i \in 1..n : Cell(t, t.keys[i], pc, "issue_count") \in Nat
  BY CellNat DEF Counters
<1>4. s = [i \in 1..n |-> s[i]] /\ \A i \in 1..n : s[i] \in Nat
  BY <1>1, <1>3 DEF OfFunction
<1>5. Listed(s) /\ Len(s) = n
  BY <1>2, <1>4, FunctionListed
<1> QED
  BY <1>1, <1>2, <1>4, <1>5, Zenon DEF Numbers

LEMMA TableStep ==
  ASSUME NEW t, IsTable(t), NEW rec, Countable(rec)
  PROVE  IsTable(CountRecord(t, rec))
<1>1. PICK new, k : new = CountRecord(t, rec) /\ k = Key(rec)
  OBVIOUS
<1>2. /\ new.keys = IF k \in DOMAIN t.rows THEN t.keys ELSE Append(t.keys, k)
      /\ DOMAIN new.rows = DOMAIN t.rows \cup {k}
  BY <1>1, RowsPut
<1>3. \A key \in DOMAIN new.rows :
        /\ key = <<key[1], key[2]>> /\ DOMAIN new.rows[key] # {}
        /\ \A pc \in DOMAIN new.rows[key] : IsRow(new.rows[key][pc], pc)
  BY <1>1, CellStep
<1>4. PICK keys : keys = t.keys
  OBVIOUS
<1>5. Listed(keys) /\ Len(keys) \in Nat /\ DOMAIN t.rows = {keys[i] : i \in 1..Len(keys)}
      /\ \A i, j \in 1..Len(keys) : keys[i] = keys[j] => i = j
  <2>1. Listed(keys)
    BY <1>4 DEF IsTable
  <2> QED
    BY <1>4, <2>1, ListedLen DEF IsTable
<1>6. PICK nk : nk = new.keys
  OBVIOUS
<1>7. CASE k \in DOMAIN t.rows
  <2>1. nk = keys /\ DOMAIN new.rows = DOMAIN t.rows
    BY <1>2, <1>4, <1>6, <1>7
  <2> QED
    BY <1>1, <1>3, <1>5, <1>6, <2>1 DEF IsTable
<1>8. CASE k \notin DOMAIN t.rows
  <2>1. nk = Append(keys, k)
    BY <1>2, <1>4, <1>6, <1>8
  <2>2. /\ Listed(nk) /\ Len(nk) = Len(keys) + 1 /\ nk[Len(keys) + 1] = k
        /\ \A i \in 1..Len(keys) : nk[i] = keys[i]
    BY <1>5, <2>1, AppendListed
  <2>3. \A i \in 1..Len(nk) : i \in 1..Len(keys) \/ i = Len(keys) + 1
    BY <1>5, <2>2
  <2>4. DOMAIN new.rows = {nk[i] : i \in 1..Len(nk)}
    <3>1. \A i \in 1..Len(keys) : i \in 1..Len(nk)
      BY <1>5, <2>2
    <3>2. Len(keys) + 1 \in 1..Len(nk)
      BY <1>5, <2>2
    <3> QED
      BY <1>2, <1>5, <2>2, <2>3, <3>1, <3>2
  <2>5. ASSUME NEW i \in 1..Len(nk), NEW j \in 1..Len(nk), nk[i] = nk[j] PROVE i = j
    <3>1. \A m \in 1..Len(keys) : nk[m] # k
      BY <1>5, <1>8, <2>2
    <3> QED
      BY <1>5, <2>2, <2>3, <2>5, <3>1
  <2> QED
    BY <1>1, <1>3, <1>6, <2>2, <2>4, <2>5 DEF IsTable
<1> QED
  BY <1>7, <1>8

LEMMA OfFunctionStep ==
  ASSUME NEW t, IsTable(t), NEW rec, Countable(rec), NEW f, NEW pc
  PROVE  Total(OfFunction(CountRecord(t, rec), f, pc))
           = Total(OfFunction(t, f, pc))
               + (IF rec.function_name = f /\ rec.pc = pc THEN 1 ELSE 0)
<1>1. PICK new, k, d : /\ new = CountRecord(t, rec) /\ k = Key(rec)
                       /\ d = IF rec.function_name = f /\ rec.pc = pc THEN 1 ELSE 0
  OBVIOUS
<1>2. PICK keys, nk : keys = t.keys /\ nk = new.keys
  OBVIOUS
<1>3. PICK s, u : s = OfFunction(t, f, pc) /\ u = OfFunction(new, f, pc)
  OBVIOUS
<1>4. IsTable(new)
  BY <1>1, TableStep
<1>5. /\ Numbers(s) /\ Len(s) = Len(keys) /\ Numbers(u) /\ Len(u) = Len(nk)
      /\ Len(keys) \in Nat /\ Len(nk) \in Nat
  BY <1>2, <1>3, <1>4, OfFunctionNumbers
<1>6. /\ nk = IF k \in DOMAIN t.rows THEN keys ELSE Append(keys, k)
  BY <1>1, <1>2, RowsPut
<1>7. /\ \A i \in 1..Len(keys) :
           s[i] = IF keys[i][2] = f THEN Cell(t, keys[i], pc, "issue_count") ELSE 0
      /\ \A i \in 1..Len(nk) :
           u[i] = IF nk[i][2] = f THEN Cell(new, nk[i], pc, "issue_count") ELSE 0
  BY <1>2, <1>3 DEF OfFunction
<1>8. k[2] = rec.function_name
  BY <1>1 DEF Key
<1>9. "issue_count" \in Counters /\ Share(rec, "issue_count") = 1
  BY DEF Counters, Share, KnownMetrics
<1>10. ASSUME NEW key
       PROVE  Cell(new, key, pc, "issue_count")
                = Cell(t, key, pc, "issue_count") + (IF key = k /\ rec.pc = pc THEN 1 ELSE 0)
  <2>1. Cell(new, key, pc, "issue_count")
          = Cell(t, key, pc, "issue_count") + Mark(rec, key, pc, "issue_count")
    BY <1>1, <1>9, CellStep
  <2> QED
    BY <1>1, <1>9, <2>1 DEF Mark
<1>11. \A i \in 1..Len(keys) : Cell(t, keys[i], pc, "issue_count") \in Nat
  BY <1>9, CellNat
<1>12. Listed(keys)
  BY <1>2 DEF IsTable
<1>13. CASE k \in DOMAIN t.rows
  <2>1. nk = keys
    BY <1>6, <1>13
  <2>2. PICK j \in 1..Len(keys) : k = keys[j]
    BY <1>2, <1>13 DEF IsTable
  <2>3. PICK z : z = [i \in 1..Len(keys) |-> IF i = j THEN d ELSE 0]
    BY Zenon
  <2>4. d \in Nat
    BY <1>1
  <2>5. Numbers(z) /\ Len(z) = Len(keys) /\ z[j] = d /\ \A i \in 1..Len(z) : i # j => z[i] = 0
    <3>1. z = [i \in 1..Len(keys) |-> z[i]] /\ \A i \in 1..Len(keys) : z[i] \in Nat
      BY <2>3, <2>4
    <3>2. Listed(z) /\ Len(z) = Len(keys)
      BY <1>5, <3>1, FunctionListed
    <3> QED
      BY <2>3, <3>1, <3>2 DEF Numbers
  <2>6. ASSUME NEW i \in 1..Len(keys) PROVE u[i] = s[i] + z[i]
    <3>1. CASE i = j
      <4>1. z[i] = d /\ keys[i] = k
        BY <2>2, <2>5, <3>1
      <4>2. CASE k[2] = f
        <5>1. d = IF rec.pc = pc THEN 1 ELSE 0
          BY <1>1, <1>8, <4>2
        <5>2. /\ u[i] = Cell(new, k, pc, "issue_count")
              /\ s[i] = Cell(t, k, pc, "issue_count")
          BY <1>7, <2>1, <4>1, <4>2
        <5>3. Cell(new, k, pc, "issue_count")
                = Cell(t, k, pc, "issue_count") + (IF rec.pc = pc THEN 1 ELSE 0)
          BY <1>10
        <5> QED
          BY <4>1, <5>1, <5>2, <5>3
      <4>3. CASE k[2] # f
        <5>1. d = 0 /\ u[i] = 0 /\ s[i] = 0
          BY <1>1, <1>7, <1>8, <2>1, <4>1, <4>3
        <5> QED
          BY <4>1, <5>1
      <4> QED
        BY <4>2, <4>3
    <3>2. CASE i # j
      <4>1. keys[i] # k
        BY <1>2, <2>2, <3>2 DEF IsTable
      <4>2. Cell(new, keys[i], pc, "issue_count") = Cell(t, keys[i], pc, "issue_count")
        <5>1. PICK x : x = keys[i]
          OBVIOUS
        <5>2. Cell(t, x, pc, "issue_count") \in Nat
          BY <1>11, <5>1
        <5>3. Cell(new, x, pc, "issue_count") = Cell(t, x, pc, "issue_count") + 0
          BY <1>10, <4>1, <5>1
        <5> QED
          BY <5>1, <5>2, <5>3
      <4>3. u[i] = s[i] /\ s[i] \in Nat /\ z[i] = 0
        BY <1>5, <1>7, <2>1, <2>5, <3>2, <4>2 DEF Numbers
      <4> QED
        BY <4>3
    <3> QED
      BY <3>1, <3>2
  <2>7. Total(z) = d
    <3>1. Total(z) = IF j \in 1..Len(z) THEN z[j] ELSE 0
      BY <2>5, TotalOne
    <3> QED
      BY <2>5, <3>1
  <2>8. Total(u) = Total(s) + Total(z)
    <3>1. Listed(u) /\ Len(u) = Len(s) /\ Len(z) = Len(s) /\ \A i \in 1..Len(s) : u[i] = s[i] + z[i]
      BY <1>5, <2>1, <2>5, <2>6 DEF Numbers
    <3> QED
      BY <1>5, <2>5, <3>1, TotalPlus
  <2> QED
    BY <1>1, <1>3, <2>7, <2>8
<1>14. CASE k \notin DOMAIN t.rows
  <2>1. /\ Len(nk) = Len(keys) + 1 /\ nk[Len(keys) + 1] = k
        /\ \A i \in 1..Len(keys) : nk[i] = keys[i]
    <3>1. nk = Append(keys, k)
      BY <1>6, <1>14
    <3> QED
      BY <1>12, <3>1, AppendListed
  <2>2. \A i \in 1..Len(keys) : keys[i] # k
    BY <1>2, <1>14 DEF IsTable
  <2>3. u[Len(keys) + 1] = d
    <3>1. Len(keys) + 1 \in 1..Len(nk)
      BY <1>5, <2>1
    <3>2. u[Len(keys) + 1] = IF k[2] = f THEN Cell(new, k, pc, "issue_count") ELSE 0
      BY <1>7, <2>1, <3>1
    <3>3. Cell(t, k, pc, "issue_count") = 0
      BY <1>14 DEF Cell
    <3>4. Cell(new, k, pc, "issue_count") = 0 + (IF rec.pc = pc THEN 1 ELSE 0)
      BY <1>10, <3>3
    <3> QED
      BY <1>1, <1>8, <3>2, <3>4
  <2>4. ASSUME NEW i \in 1..Len(keys) PROVE u[i] = s[i]
    <3>1. i \in 1..Len(nk) /\ nk[i] = keys[i] /\ keys[i] # k
      BY <1>5, <2>1, <2>2
    <3>2. PICK x : x = keys[i]
      OBVIOUS
    <3>3. Cell(t, x, pc, "issue_count") \in Nat
      BY <1>11, <3>2
    <3>4. Cell(new, x, pc, "issue_count") = Cell(t, x, pc, "issue_count") + 0
      BY <1>10, <3>1, <3>2
    <3>5. Cell(new, x, pc, "issue_count") = Cell(t, x, pc, "issue_count")
      BY <3>3, <3>4
    <3> QED
      BY <1>7, <3>1, <3>2, <3>5
  <2>5. PICK v : v = Append(s, d)
    BY Zenon
  <2>6. /\ Listed(v) /\ Len(v) = Len(s) + 1 /\ v[Len(s) + 1] = d
        /\ \A i \in 1..Len(s) : v[i] = s[i]
    <3>1. Listed(s)
      BY <1>5 DEF Numbers
    <3> QED
      BY <2>5, <3>1, AppendListed
  <2>7. ASSUME NEW i \in 1..Len(u) PROVE u[i] = v[i]
    <3>1. i \in 1..Len(keys) \/ i = Len(keys) + 1
      BY <1>5, <2>1
    <3> QED
      BY <1>5, <2>3, <2>4, <2>6, <3>1
  <2>8. u = v
    <3>1. Listed(u) /\ Len(u) = Len(v)
      BY <1>5, <2>1, <2>6 DEF Numbers
    <3> QED
      BY <2>6, <2>7, <3>1, ListedEqual
  <2>9. Total(v) = Total(s) + d
    <3>1. Listed(s)
      BY <1>5 DEF Numbers
    <3> QED
      BY <2>5, <3>1, TotalAppend
  <2> QED
    BY <1>1, <1>3, <2>8, <2>9
<1> QED
  BY <1>13, <1>14

-----------------------------------------------------------------------------
\* The loop of aggregate over the records.
NoTable == [keys |-> <<>>, rows |-> Empty]
IsCount(g, recs, n) ==
  g = [i \in 0..n |-> IF i = 0 THEN NoTable ELSE CountRecord(g[i - 1], recs[i])]

LEMMA CountExists ==
  ASSUME NEW recs, NEW n \in Nat
  PROVE  \E g : IsCount(g, recs, n)
<1> DEFINE S == {k \in Nat : \E g : IsCount(g, recs, k)}
<1>1. 0 \in S
  <2>1. IsCount([i \in 0..0 |-> NoTable], recs, 0)
    BY DEF IsCount
  <2> QED
    BY <2>1
<1>2. ASSUME NEW k \in Nat, k \in S PROVE k + 1 \in S
  <2>1. PICK g : IsCount(g, recs, k)
    BY <1>2
  <2> DEFINE h == [i \in 0..k + 1 |-> IF i <= k THEN g[i] ELSE CountRecord(g[k], recs[k + 1])]
  <2>2. \A i \in 0..k : g[i] = IF i = 0 THEN NoTable ELSE CountRecord(g[i - 1], recs[i])
    BY <2>1 DEF IsCount
  <2>3. \A i \in 0..k + 1 : h[i] = IF i = 0 THEN NoTable ELSE CountRecord(h[i - 1], recs[i])
    BY <2>2
  <2>4. IsCount(h, recs, k + 1)
    BY <2>3 DEF IsCount
  <2> QED
    BY <2>4
<1> HIDE DEF S
<1>3. Nat \subseteq S
  BY <1>1, <1>2, NatSet
<1> QED
  BY <1>3 DEF S

\* What the table has counted is what the records add up to, row by row, and
\* over the sections of a function.
Marks(recs, key, pc, c) == [i \in 1..Len(recs) |-> Mark(recs[i], key, pc, c)]
Hits(recs, f, pc) ==
  [i \in 1..Len(recs) |-> IF recs[i].function_name = f /\ recs[i].pc = pc THEN 1 ELSE 0]

LEMMA NoTableCounts ==
  /\ IsTable(NoTable) /\ Bounded(NoTable, 0)
  /\ \A key, pc : \A c \in Counters : Cell(NoTable, key, pc, c) = 0
  /\ \A f, pc : Total(OfFunction(NoTable, f, pc)) = 0
<1>1. NoTable.keys = <<>> /\ DOMAIN NoTable.rows = {}
  BY DEF NoTable, Empty
<1>2. Listed(<<>>) /\ Len(<<>>) = 0
  BY Tuples, Zenon
<1>3. IsTable(NoTable)
  BY <1>1, <1>2 DEF IsTable
<1>4. \A key, pc : \A c \in Counters : Cell(NoTable, key, pc, c) = 0
  BY <1>1 DEF Cell
<1>5. ASSUME NEW f, NEW pc PROVE Total(OfFunction(NoTable, f, pc)) = 0
  <2>1. PICK s : s = OfFunction(NoTable, f, pc)
    OBVIOUS
  <2>2. s = <<>>
    BY <1>1, <1>2, <2>1 DEF OfFunction
  <2> QED
    BY <2>1, <2>2, TotalEmpty
<1> QED
  BY <1>1, <1>3, <1>4, <1>5 DEF Bounded

LEMMA Counts ==
  ASSUME NEW recs, Listed(recs), \A i \in 1..Len(recs) : Countable(recs[i])
  PROVE  /\ IsTable(Count(recs)) /\ \E n \in Nat : Bounded(Count(recs), n)
         /\ \A key, pc : \A c \in Counters :
              Cell(Count(recs), key, pc, c) = Total(Marks(recs, key, pc, c))
         /\ \A f, pc : Total(OfFunction(Count(recs), f, pc)) = Total(Hits(recs, f, pc))
<1> DEFINE N == Len(recs)
           g == CHOOSE g : IsCount(g, recs, N)
           P(t, k) == /\ IsTable(t) /\ \E n \in Nat : Bounded(t, n)
                      /\ \A key, pc : \A c \in Counters :
                           Cell(t, key, pc, c) = Total(FirstOf(Marks(recs, key, pc, c), k))
                      /\ \A f, pc :
                           Total(OfFunction(t, f, pc)) = Total(FirstOf(Hits(recs, f, pc), k))
           S == {k \in Nat : k <= N => P(g[k], k)}
<1>0. N \in Nat
  BY ListedLen
<1>1. IsCount(g, recs, N)
  BY <1>0, CountExists
<1>2. Count(recs) = g[N]
  BY DEF Count, IsCount, NoTable
<1> HIDE DEF g
<1>3. \A i \in 0..N : g[i] = IF i = 0 THEN NoTable ELSE CountRecord(g[i - 1], recs[i])
  BY <1>1 DEF IsCount
<1>4. 0 \in S
  <2>1. g[0] = NoTable
    <3>1. 0 \in 0..N
      BY <1>0
    <3> QED
      BY <1>3, <3>1
  <2>2. \A s : Total(FirstOf(s, 0)) = 0
    BY FirstListed, TotalEmpty
  <2>3. P(NoTable, 0)
    BY <2>2, NoTableCounts
  <2> HIDE DEF P
  <2> QED
    BY <2>1, <2>3
<1>5. ASSUME NEW k \in Nat, k \in S PROVE k + 1 \in S
  <2>0. (k + 1 <= N => P(g[k + 1], k + 1)) => k + 1 \in S
    <3> HIDE DEF P
    <3> QED
      OBVIOUS
  <2> SUFFICES ASSUME k + 1 <= N PROVE P(g[k + 1], k + 1)
    BY <2>0
  <2>1. PICK t, new, rec : t = g[k] /\ new = g[k + 1] /\ rec = recs[k + 1]
    OBVIOUS
  <2>2. k <= N /\ k + 1 \in 1..N /\ k + 1 \in 0..N /\ k + 1 # 0 /\ k + 1 - 1 = k
    BY <1>0
  <2>3. P(t, k) /\ Countable(rec)
    BY <1>5, <2>1, <2>2
  <2>4. new = CountRecord(t, rec)
    BY <1>3, <2>1, <2>2
  <2>5. IsTable(new)
    BY <2>3, <2>4, TableStep
  <2>6. \E n \in Nat : Bounded(new, n)
    <3>1. PICK n \in Nat : Bounded(t, n)
      BY <2>3
    <3>2. PICK m \in Nat : 0..n \subseteq 0..m /\ rec.pc \in 0..m
      <4>1. rec.pc \in Nat
        BY <2>3 DEF Countable
      <4>2. 0..n \subseteq 0..n + rec.pc /\ rec.pc \in 0..n + rec.pc /\ n + rec.pc \in Nat
        BY <4>1
      <4> QED
        BY <4>2
    <3>3. Bounded(t, m)
      BY <3>1, <3>2, Zenon DEF Bounded
    <3>4. Bounded(new, m)
      BY <2>3, <2>4, <3>2, <3>3, CellStep
    <3> QED
      BY <3>4
  <2>7. ASSUME NEW key, NEW pc, NEW c \in Counters
        PROVE  Cell(new, key, pc, c) = Total(FirstOf(Marks(recs, key, pc, c), k + 1))
    <3>1. PICK s : s = Marks(recs, key, pc, c)
      OBVIOUS
    <3>2. s[k + 1] = Mark(rec, key, pc, c)
      BY <2>1, <2>2, <3>1 DEF Marks
    <3>3. Total(FirstOf(s, k + 1)) = Total(FirstOf(s, k)) + s[k + 1]
      BY TotalNext
    <3>4. Cell(t, key, pc, c) = Total(FirstOf(s, k))
      BY <2>3, <3>1
    <3>5. Cell(new, key, pc, c) = Cell(t, key, pc, c) + Mark(rec, key, pc, c)
      BY <2>3, <2>4, CellStep
    <3> QED
      BY <3>1, <3>2, <3>3, <3>4, <3>5
  <2>8. ASSUME NEW f, NEW pc
        PROVE  Total(OfFunction(new, f, pc)) = Total(FirstOf(Hits(recs, f, pc), k + 1))
    <3>1. PICK s : s = Hits(recs, f, pc)
      OBVIOUS
    <3>2. s[k + 1] = IF rec.function_name = f /\ rec.pc = pc THEN 1 ELSE 0
      BY <2>1, <2>2, <3>1 DEF Hits
    <3>3. Total(FirstOf(s, k + 1)) = Total(FirstOf(s, k)) + s[k + 1]
      BY TotalNext
    <3>4. Total(OfFunction(t, f, pc)) = Total(FirstOf(s, k))
      BY <2>3, <3>1
    <3>5. Total(OfFunction(new, f, pc))
            = Total(OfFunction(t, f, pc)) + (IF rec.function_name = f /\ rec.pc = pc THEN 1 ELSE 0)
      BY <2>3, <2>4, OfFunctionStep
    <3> QED
      BY <3>1, <3>2, <3>3, <3>4, <3>5
  <2>9. P(new, k + 1)
    BY <2>5, <2>6, <2>7, <2>8
  <2> HIDE DEF P
  <2> QED
    BY <2>1, <2>9
<1> HIDE DEF S, P
<1>6. Nat \subseteq S
  BY <1>4, <1>5, NatSet
<1>7. P(Count(recs), N)
  BY <1>0, <1>2, <1>6 DEF S
<1>8. ASSUME NEW key, NEW pc, NEW c
      PROVE  FirstOf(Marks(recs, key, pc, c), N) = Marks(recs, key, pc, c)
  BY DEF FirstOf, Marks
<1>9. ASSUME NEW f, NEW pc PROVE FirstOf(Hits(recs, f, pc), N) = Hits(recs, f, pc)
  BY DEF FirstOf, Hits
<1> QED
  BY <1>7, <1>8, <1>9 DEF P

-----------------------------------------------------------------------------
\* The numbers of a set in their order, each once.
LEMMA AscendingIs ==
  ASSUME NEW n \in Nat, NEW S \in SUBSET (0..n), S # {}
  PROVE  /\ Listed(Ascending(S))
         /\ \A i \in 1..Len(Ascending(S)) : Ascending(S)[i] \in S
         /\ \A i, j \in 1..Len(Ascending(S)) : Ascending(S)[i] = Ascending(S)[j] => i = j
         /\ \A x \in S : \E i \in 1..Len(Ascending(S)) : Ascending(S)[i] = x
<1>1. PICK m \in Nat : m = Max(S) /\ \A x \in S : x <= m
  <2>1. PICK m : m = Max(S)
    OBVIOUS
  <2>2. m \in S /\ \A y \in S : m >= y
    BY <2>1, MaxIn, Zenon
  <2>3. m \in Nat /\ \A y \in S : y <= m
    BY <2>2
  <2> QED
    BY ONLY <2>1, <2>3
<1>2. PICK all : all = [k \in 1..m + 1 |-> k - 1]
  BY Zenon
<1>3. PICK keep : keep = {k \in 1..m + 1 : k - 1 \in S}
  BY Zenon
<1>4. PICK q : q = Kept(all, keep)
  OBVIOUS
<1>5. Ascending(S) = q
  BY <1>1, <1>2, <1>3, <1>4 DEF Ascending
<1>6. Listed(all) /\ DOMAIN all = 1..m + 1
  <2>1. all = [k \in 1..m + 1 |-> all[k]] /\ m + 1 \in Nat
    BY <1>2
  <2> QED
    BY <1>2, <2>1, FunctionListed
<1>7. Listed(q)
  BY <1>4, <1>6, KeptFrom
<1>8. PICK p \in [1..Len(q) -> keep \cap DOMAIN all] :
        /\ \A i \in 1..Len(q) : q[i] = all[p[i]]
        /\ \A i, j \in 1..Len(q) : p[i] = p[j] => i = j
        /\ \A x \in keep \cap DOMAIN all : \E i \in 1..Len(q) : p[i] = x
  BY <1>4, <1>6, KeptFrom
<1>9. ASSUME NEW i \in 1..Len(q) PROVE p[i] \in 1..m + 1 /\ q[i] = p[i] - 1 /\ q[i] \in S
  <2>1. p[i] \in keep /\ p[i] \in 1..m + 1
    BY <1>6, <1>8
  <2> QED
    BY <1>2, <1>3, <1>8, <2>1, Zenon
<1>10. ASSUME NEW i \in 1..Len(q), NEW j \in 1..Len(q), q[i] = q[j] PROVE i = j
  <2>1. p[i] = p[j]
    BY <1>9, <1>10
  <2> QED
    BY <1>8, <2>1
<1>11. ASSUME NEW x \in S PROVE \E i \in 1..Len(q) : q[i] = x
  <2>1. x + 1 \in 1..m + 1 /\ x + 1 - 1 = x
    BY <1>1
  <2>2. x + 1 \in keep \cap DOMAIN all
    BY <1>3, <1>6, <2>1
  <2>3. PICK i \in 1..Len(q) : p[i] = x + 1
    BY <1>8, <2>2
  <2>4. q[i] = x + 1 - 1
    BY <1>9, <2>3
  <2> QED
    BY ONLY <2>1, <2>4
<1> QED
  BY <1>5, <1>7, <1>9, <1>10, <1>11

-----------------------------------------------------------------------------
\* A module of PTX that numbers its instructions up to some number, with their
\* lines, and has the lines of its sources.
HasLine(i) == "source_line" \in DOMAIN i /\ i.source_line \in LineOrNone
NumbersPtx(ptx) ==
  /\ {"instructions", "by_func_pc", "source_files"} \subseteq DOMAIN ptx
  /\ Listed(ptx.instructions) /\ \A i \in 1..Len(ptx.instructions) : HasLine(ptx.instructions[i])
  /\ \A k \in DOMAIN ptx.by_func_pc : ptx.by_func_pc[k] \in 1..Len(ptx.instructions)
  /\ \E n \in Nat : \A k \in DOMAIN ptx.by_func_pc : k[2] \in 0..n
  /\ \A p \in DOMAIN ptx.source_files : Listed(ptx.source_files[p])

\* The rows of one section.
AreRows(pcs) ==
  /\ DOMAIN pcs # {} /\ \E n \in Nat : DOMAIN pcs \subseteq 0..n
  /\ \A pc \in DOMAIN pcs : IsRow(pcs[pc], pc)
ReadingAt(pcs, pc, c) == IF pc \in DOMAIN pcs THEN Reading(pcs[pc], c) ELSE 0

LEMMA AnnotateRow ==
  ASSUME NEW row, NEW pc, IsRow(row, pc), NEW i, HasLine(i)
  PROVE  /\ IsRow(Annotate(row, i), pc)
         /\ \A c \in Counters : Reading(Annotate(row, i), c) = Reading(row, c)
<1>1. PICK new : new = Annotate(row, i)
  OBVIOUS
<1>2. PICK x, y, z : x = i.raw_line /\ y = i.source_file /\ z = i.source_line
  OBVIOUS
<1>3. new = [row EXCEPT !.ptx_line = x, !.source_file = y, !.source_line = z]
  BY <1>1, <1>2 DEF Annotate
<1>4. /\ DOMAIN new = DOMAIN row /\ new.pc = row.pc /\ new.sums = row.sums
      /\ new.exec_count = row.exec_count /\ new.issue_count = row.issue_count
      /\ new.source_line = z
  BY <1>3 DEF IsRow
<1>5. \A c \in Counters : Reading(new, c) = Reading(row, c)
  BY <1>4 DEF Counters, Reading
<1>6. z \in LineOrNone
  BY <1>2 DEF HasLine
<1> QED
  BY <1>1, <1>4, <1>5, <1>6 DEF IsRow

\* Annotating adds rows for directives, which have counted nothing, and changes
\* no counter.
LEMMA AnnotateAllRows ==
  ASSUME NEW fn, NEW pcs, AreRows(pcs), NEW ptx, NumbersPtx(ptx)
  PROVE  /\ AreRows(AnnotateAll(fn, pcs, ptx))
         /\ DOMAIN pcs \subseteq DOMAIN AnnotateAll(fn, pcs, ptx)
         /\ \A pc : \A c \in Counters :
              ReadingAt(AnnotateAll(fn, pcs, ptx), pc, c) = ReadingAt(pcs, pc, c)
<1> DEFINE Instr(pc) == ptx.instructions[ptx.by_func_pc[<<fn, pc>>]]
           directives == {k[2] : k \in {k \in DOMAIN ptx.by_func_pc :
                            k[1] = fn /\ Instr(k[2]).instr_name \in _DIRECTIVE_NAMES}} \ DOMAIN pcs
           Old(pc) == IF pc \in DOMAIN pcs THEN pcs[pc]
                      ELSE NewStats(pc, fn, Instr(pc).basic_block, Instr(pc).instr_name)
           New(pc) == IF <<fn, pc>> \in DOMAIN ptx.by_func_pc THEN Annotate(Old(pc), Instr(pc))
                      ELSE Old(pc)
<1>1. PICK rows : rows = AnnotateAll(fn, pcs, ptx)
  OBVIOUS
<1>2. rows = [pc \in DOMAIN pcs \cup directives |-> New(pc)]
  BY <1>1 DEF AnnotateAll
<1>3. ASSUME NEW pc
      PROVE  IsRow(Old(pc), pc) /\ \A c \in Counters : Reading(Old(pc), c) = ReadingAt(pcs, pc, c)
  <2>1. CASE pc \in DOMAIN pcs
    BY <2>1 DEF AreRows, ReadingAt
  <2>2. CASE pc \notin DOMAIN pcs
    <3>1. PICK bb, name : bb = Instr(pc).basic_block /\ name = Instr(pc).instr_name
      BY Zenon
    <3>2. Old(pc) = NewStats(pc, fn, bb, name)
      BY <2>2, <3>1
    <3> HIDE DEF Old
    <3> QED
      BY <2>2, <3>2, NewRow DEF ReadingAt
  <2> QED
    BY <2>1, <2>2
<1>4. ASSUME NEW pc
      PROVE  IsRow(New(pc), pc) /\ \A c \in Counters : Reading(New(pc), c) = ReadingAt(pcs, pc, c)
  <2>1. PICK i, old : i = Instr(pc) /\ old = Old(pc)
    OBVIOUS
  <2>2. IsRow(old, pc) /\ \A c \in Counters : Reading(old, c) = ReadingAt(pcs, pc, c)
    BY <1>3, <2>1
  <2>3. (New(pc) = Annotate(old, i) /\ HasLine(i)) \/ New(pc) = old
    BY <2>1 DEF NumbersPtx
  <2> HIDE DEF New
  <2> QED
    BY <2>2, <2>3, AnnotateRow
<1> HIDE DEF New, Old
<1>5. DOMAIN rows = DOMAIN pcs \cup directives /\ \A pc \in DOMAIN rows : rows[pc] = New(pc)
  BY <1>2, Zenon
<1>6. \E n \in Nat : DOMAIN rows \subseteq 0..n
  <2>1. PICK n \in Nat : DOMAIN pcs \subseteq 0..n
    BY DEF AreRows
  <2>2. PICK m \in Nat : \A k \in DOMAIN ptx.by_func_pc : k[2] \in 0..m
    BY Zenon DEF NumbersPtx
  <2>3. directives \subseteq 0..m
    BY <2>2, Zenon
  <2>4. 0..n \subseteq 0..n + m /\ 0..m \subseteq 0..n + m /\ n + m \in Nat
    OBVIOUS
  <2> HIDE DEF directives
  <2> QED
    BY <1>5, <2>1, <2>3, <2>4, Zenon
<1>7. AreRows(rows)
  <2>1. DOMAIN rows # {}
    BY <1>5 DEF AreRows
  <2> QED
    BY <1>4, <1>5, <1>6, <2>1, Zenon DEF AreRows
<1>8. ASSUME NEW pc, NEW c \in Counters PROVE ReadingAt(rows, pc, c) = ReadingAt(pcs, pc, c)
  BY <1>4, <1>5, Zenon DEF ReadingAt
<1> QED
  BY <1>1, <1>5, <1>7, <1>8

\* The issues of a section at a pc.
IssuesIn(instructions, pc) ==
  [k \in 1..Len(instructions) |->
     IF instructions[k].pc = pc THEN instructions[k].issue_count ELSE 0]

TellsRows(fn, key, pcs, ptx) ==
  /\ fn.name = key[2] /\ fn.launch_id = key[1] /\ Listed(fn.instructions)
  /\ \A k \in 1..Len(fn.instructions) :
       /\ IsRow(fn.instructions[k], fn.instructions[k].pc)
       /\ \A c \in Counters : Reading(fn.instructions[k], c)
                                = ReadingAt(pcs, fn.instructions[k].pc, c)
  /\ \A pc : Total(IssuesIn(fn.instructions, pc)) = ReadingAt(pcs, pc, "issue_count")
  /\ \A i, j \in 1..Len(fn.instructions) :
       fn.instructions[i].pc = fn.instructions[j].pc => i = j
  /\ \A pc \in DOMAIN pcs : \E k \in 1..Len(fn.instructions) : fn.instructions[k].pc = pc
  /\ fn.total_exec_count = Issues(fn.instructions)
  /\ fn.source_lines = SourceLines(fn.instructions, ptx)

LEMMA SectionRows ==
  ASSUME NEW key, NEW pcs, AreRows(pcs), NEW ptx, NumbersPtx(ptx),
         NEW fn, fn = FunctionReport(key, pcs, ptx)
  PROVE  TellsRows(fn, key, pcs, ptx)
<1>1. PICK rows : rows = AnnotateAll(key[2], pcs, ptx)
  OBVIOUS
<1>2. /\ AreRows(rows) /\ DOMAIN pcs \subseteq DOMAIN rows
      /\ \A pc : \A c \in Counters : ReadingAt(rows, pc, c) = ReadingAt(pcs, pc, c)
  BY <1>1, AnnotateAllRows
<1>3. PICK p : p = Ascending(DOMAIN rows)
  OBVIOUS
<1>4. PICK list : list = [n \in DOMAIN p |-> rows[p[n]]]
  BY Zenon
<1>5. /\ fn.name = key[2] /\ fn.launch_id = key[1] /\ fn.instructions = list
      /\ fn.total_exec_count = Issues(list) /\ fn.source_lines = SourceLines(list, ptx)
  BY <1>1, <1>3, <1>4 DEF FunctionReport
<1>6. /\ Listed(p)
      /\ \A i \in 1..Len(p) : p[i] \in DOMAIN rows
      /\ \A i, j \in 1..Len(p) : p[i] = p[j] => i = j
      /\ \A x \in DOMAIN rows : \E i \in 1..Len(p) : p[i] = x
  <2>1. PICK n \in Nat : DOMAIN rows \subseteq 0..n
    BY <1>2 DEF AreRows
  <2>2. PICK S : S = DOMAIN rows
    OBVIOUS
  <2>3. S \in SUBSET (0..n) /\ S # {} /\ p = Ascending(S)
    BY <1>2, <1>3, <2>1, <2>2 DEF AreRows
  <2>4. /\ Listed(Ascending(S))
        /\ \A i \in 1..Len(Ascending(S)) : Ascending(S)[i] \in S
        /\ \A i, j \in 1..Len(Ascending(S)) : Ascending(S)[i] = Ascending(S)[j] => i = j
        /\ \A x \in S : \E i \in 1..Len(Ascending(S)) : Ascending(S)[i] = x
    BY <2>3, AscendingIs, Zenon
  <2> QED
    BY ONLY <2>2, <2>3, <2>4
<1>7. DOMAIN p = 1..Len(p) /\ Len(p) \in Nat
  BY <1>6, ListedLen
<1>8. Listed(list) /\ Len(list) = Len(p) /\ \A k \in 1..Len(p) : list[k] = rows[p[k]]
  <2>1. list = [k \in 1..Len(p) |-> list[k]] /\ \A k \in 1..Len(p) : list[k] = rows[p[k]]
    BY <1>4, <1>7
  <2> QED
    BY <1>7, <2>1, FunctionListed
<1>9. ASSUME NEW k \in 1..Len(p)
       PROVE  /\ list[k].pc = p[k] /\ IsRow(list[k], p[k])
              /\ \A c \in Counters : Reading(list[k], c) = ReadingAt(pcs, p[k], c)
  <2>1. p[k] \in DOMAIN rows /\ list[k] = rows[p[k]]
    BY <1>6, <1>8
  <2>2. IsRow(list[k], p[k])
    BY <1>2, <2>1 DEF AreRows
  <2>3. \A c \in Counters : Reading(list[k], c) = ReadingAt(rows, p[k], c)
    BY <2>1 DEF ReadingAt
  <2> QED
    BY <1>2, <2>2, <2>3 DEF IsRow
<1>10. "issue_count" \in Counters /\ \A row : Reading(row, "issue_count") = row["issue_count"]
  BY DEF Counters, Reading, KnownMetrics
<1>11. ASSUME NEW pc PROVE Total(IssuesIn(list, pc)) = ReadingAt(pcs, pc, "issue_count")
  <2>1. PICK s : s = IssuesIn(list, pc)
    OBVIOUS
  <2>2. \A k \in 1..Len(p) : s[k] = IF p[k] = pc THEN ReadingAt(pcs, p[k], "issue_count") ELSE 0
    <3>1. ASSUME NEW k \in 1..Len(p) PROVE list[k].issue_count = ReadingAt(pcs, p[k], "issue_count")
      <4>1. Reading(list[k], "issue_count") = ReadingAt(pcs, p[k], "issue_count")
        BY <1>9, <1>10
      <4> QED
        BY <1>10, <4>1
    <3> QED
      BY <1>8, <1>9, <2>1, <3>1 DEF IssuesIn
  <2>3. ReadingAt(pcs, pc, "issue_count") \in Nat
    BY <1>10 DEF ReadingAt, AreRows, IsRow
  <2>4. Numbers(s) /\ Len(s) = Len(p)
    <3>1. s = [k \in 1..Len(p) |-> s[k]]
      BY <1>8, <2>1 DEF IssuesIn
    <3>2. Listed(s) /\ Len(s) = Len(p)
      BY <1>7, <3>1, FunctionListed
    <3> QED
      BY <2>2, <2>3, <3>2 DEF Numbers
  <2>5. CASE pc \in DOMAIN rows
    <3>1. PICK j \in 1..Len(p) : p[j] = pc
      BY <1>6, <2>5
    <3>2. \A i \in 1..Len(s) : i # j => s[i] = 0
      BY <1>6, <2>2, <2>4, <3>1
    <3>3. Total(s) = IF j \in 1..Len(s) THEN s[j] ELSE 0
      BY <1>7, <2>4, <3>2, TotalOne
    <3> QED
      BY <2>1, <2>2, <2>4, <3>1, <3>3
  <2>6. CASE pc \notin DOMAIN rows
    <3>1. \A i \in 1..Len(s) : i # 0 => s[i] = 0
      BY <1>6, <2>2, <2>4, <2>6
    <3>2. Total(s) = IF 0 \in 1..Len(s) THEN s[0] ELSE 0
      BY <2>4, <3>1, TotalOne
    <3>3. ReadingAt(pcs, pc, "issue_count") = 0
      BY <1>2, <1>10, <2>6 DEF ReadingAt
    <3> QED
      BY <2>1, <3>2, <3>3
  <2> QED
    BY <2>5, <2>6
<1>12. \A i, j \in 1..Len(list) : list[i].pc = list[j].pc => i = j
  BY <1>6, <1>8, <1>9
<1>13. ASSUME NEW pc \in DOMAIN pcs PROVE \E k \in 1..Len(list) : list[k].pc = pc
  <2>1. PICK k \in 1..Len(p) : p[k] = pc
    BY <1>2, <1>6
  <2> QED
    BY <1>8, <1>9, <2>1
<1> QED
  BY <1>5, <1>8, <1>9, <1>11, <1>12, <1>13 DEF TellsRows

\* The sections of a report: each row has counted what the records of its launch,
\* function and pc add up to, and the sections of a function together all issues.
RowsCount(fn, recs) ==
  /\ Listed(fn.instructions)
  /\ \A k \in 1..Len(fn.instructions) :
       /\ IsRow(fn.instructions[k], fn.instructions[k].pc)
       /\ \A c \in Counters :
            Reading(fn.instructions[k], c)
              = Total(Marks(recs, <<fn.launch_id, fn.name>>, fn.instructions[k].pc, c))
IssuesOf(fn, f, pc) == IF fn.name = f THEN Total(IssuesIn(fn.instructions, pc)) ELSE 0

\* Each row of a section is of another instruction, and each record of the section
\* has one.
SectionMade(fn, recs, ptx) ==
  /\ RowsCount(fn, recs)
  /\ \A i, j \in 1..Len(fn.instructions) : fn.instructions[i].pc = fn.instructions[j].pc => i = j
  /\ \A i \in 1..Len(recs) : Key(recs[i]) = <<fn.launch_id, fn.name>> =>
       \E k \in 1..Len(fn.instructions) : fn.instructions[k].pc = recs[i].pc
  /\ fn.total_exec_count = Issues(fn.instructions)
  /\ fn.source_lines = SourceLines(fn.instructions, ptx)

\* A record is counted in a row of its section.
LEMMA RecordCounted ==
  ASSUME NEW recs, Listed(recs), \A i \in 1..Len(recs) : Countable(recs[i]),
         NEW i \in 1..Len(recs)
  PROVE  /\ Key(recs[i]) \in DOMAIN Count(recs).rows
         /\ recs[i].pc \in DOMAIN Count(recs).rows[Key(recs[i])]
<1>1. PICK t, key, pc : t = Count(recs) /\ key = Key(recs[i]) /\ pc = recs[i].pc
  OBVIOUS
<1>2. PICK s : s = Marks(recs, key, pc, "issue_count")
  OBVIOUS
<1>3. "issue_count" \in Counters \ KnownMetrics
  BY DEF Counters, KnownMetrics
<1>4. Len(recs) \in Nat
  BY ListedLen
<1>5. s \in [1..Len(recs) -> Nat] /\ s[i] = 1
  <2>1. \A k \in 1..Len(recs) : Mark(recs[k], key, pc, "issue_count") \in {0, 1}
    BY <1>3 DEF Mark, Share
  <2>2. Mark(recs[i], key, pc, "issue_count") = 1
    BY <1>1, <1>3 DEF Mark, Share
  <2> QED
    BY <1>2, <2>1, <2>2 DEF Marks
<1>6. Numbers(s) /\ Len(s) = Len(recs)
  BY <1>4, <1>5, NumbersMade
<1>7. 1 <= Total(s)
  BY <1>5, <1>6, TotalAtLeast
<1>8. Cell(t, key, pc, "issue_count") = Total(s)
  BY <1>1, <1>2, <1>3, Counts
<1> QED
  BY <1>1, <1>7, <1>8 DEF Cell

\* The sections before they are sorted: one for each key of the table.
ReportsOf(t, ptx) == [n \in DOMAIN t.keys |-> FunctionReport(t.keys[n], t.rows[t.keys[n]], ptx)]

LEMMA SectionsMade ==
  ASSUME NEW recs, Listed(recs), \A i \in 1..Len(recs) : Countable(recs[i]),
         NEW ptx, NumbersPtx(ptx)
  PROVE  LET t == Count(recs)
             reports == ReportsOf(t, ptx)
         IN  /\ Listed(reports) /\ Len(reports) = Len(t.keys)
             /\ \A n \in 1..Len(t.keys) :
                  /\ <<reports[n].launch_id, reports[n].name>> = t.keys[n]
                  /\ SectionMade(reports[n], recs, ptx)
                  /\ \A f, pc : IssuesOf(reports[n], f, pc) = OfFunction(t, f, pc)[n]
<1>1. PICK t : t = Count(recs)
  OBVIOUS
<1>2. PICK keys : keys = t.keys
  OBVIOUS
<1>3. /\ IsTable(t) /\ \E n \in Nat : Bounded(t, n)
      /\ \A key, pc : \A c \in Counters : Cell(t, key, pc, c) = Total(Marks(recs, key, pc, c))
  BY <1>1, Counts
<1>4. PICK reports : reports = ReportsOf(t, ptx)
  OBVIOUS
<1>5. Listed(keys) /\ DOMAIN keys = 1..Len(keys) /\ Len(keys) \in Nat
  <2>1. Listed(keys)
    BY <1>2, <1>3 DEF IsTable
  <2> QED
    BY <2>1, ListedLen
<1>6. /\ reports = [n \in 1..Len(keys) |-> reports[n]]
      /\ \A n \in 1..Len(keys) : reports[n] = FunctionReport(keys[n], t.rows[keys[n]], ptx)
  BY <1>2, <1>4, <1>5 DEF ReportsOf
<1>7. Listed(reports) /\ Len(reports) = Len(keys)
  BY <1>5, <1>6, FunctionListed
<1>8. ASSUME NEW n \in 1..Len(keys)
      PROVE  /\ <<reports[n].launch_id, reports[n].name>> = keys[n]
             /\ SectionMade(reports[n], recs, ptx)
             /\ \A f, pc : IssuesOf(reports[n], f, pc) = OfFunction(t, f, pc)[n]
  <2>1. PICK key, pcs : key = keys[n] /\ pcs = t.rows[key]
    OBVIOUS
  <2>2. key \in DOMAIN t.rows /\ key = <<key[1], key[2]>>
    BY <1>2, <1>3, <2>1 DEF IsTable
  <2>3. AreRows(pcs)
    BY <1>3, <2>1, <2>2, Zenon DEF IsTable, Bounded, AreRows
  <2>4. \A pc, c : ReadingAt(pcs, pc, c) = Cell(t, key, pc, c)
    BY <2>1, <2>2 DEF ReadingAt, Cell
  <2>5. PICK fn : fn = FunctionReport(key, pcs, ptx)
    OBVIOUS
  <2>6. reports[n] = fn
    BY <1>6, <2>1, <2>5
  <2>7. PICK list : list = fn.instructions
    OBVIOUS
  <2> HIDE DEF ReportsOf
  <2>8. TellsRows(fn, key, pcs, ptx)
    BY ONLY <2>3, <2>5, NumbersPtx(ptx), SectionRows
  <2>9. /\ fn.name = key[2] /\ fn.launch_id = key[1] /\ Listed(list)
        /\ \A k \in 1..Len(list) :
             /\ IsRow(list[k], list[k].pc)
             /\ \A c \in Counters : Reading(list[k], c) = ReadingAt(pcs, list[k].pc, c)
        /\ \A pc : Total(IssuesIn(list, pc)) = ReadingAt(pcs, pc, "issue_count")
        /\ \A i, j \in 1..Len(list) : list[i].pc = list[j].pc => i = j
        /\ \A pc \in DOMAIN pcs : \E k \in 1..Len(list) : list[k].pc = pc
        /\ fn.total_exec_count = Issues(list)
        /\ fn.source_lines = SourceLines(list, ptx)
    BY ONLY <2>7, <2>8 DEF TellsRows
  <2>10. <<fn.launch_id, fn.name>> = key
    BY <2>2, <2>9
  <2>11. RowsCount(fn, recs)
    <3>1. ASSUME NEW k \in 1..Len(list), NEW c \in Counters
          PROVE  Reading(list[k], c) = Total(Marks(recs, key, list[k].pc, c))
      BY <1>3, <2>4, <2>9
    <3> QED
      BY <2>7, <2>9, <2>10, <3>1 DEF RowsCount
  <2>12. ASSUME NEW f, NEW pc PROVE IssuesOf(fn, f, pc) = OfFunction(t, f, pc)[n]
    <3>1. OfFunction(t, f, pc)[n] = IF key[2] = f THEN Cell(t, key, pc, "issue_count") ELSE 0
      BY <1>2, <2>1 DEF OfFunction
    <3>2. Total(IssuesIn(list, pc)) = Cell(t, key, pc, "issue_count")
      BY <2>4, <2>9
    <3> QED
      BY <2>7, <2>9, <3>1, <3>2 DEF IssuesOf
  <2>13. ASSUME NEW i \in 1..Len(recs), Key(recs[i]) = key
         PROVE  \E k \in 1..Len(list) : list[k].pc = recs[i].pc
    <3>1. recs[i].pc \in DOMAIN pcs
      BY <1>1, <2>1, <2>13, RecordCounted
    <3> QED
      BY <2>9, <3>1
  <2>14. SectionMade(fn, recs, ptx)
    BY ONLY <2>7, <2>9, <2>10, <2>11, <2>13 DEF SectionMade
  <2> QED
    BY <2>1, <2>6, <2>10, <2>12, <2>14
<1> QED
  BY ONLY <1>1, <1>2, <1>4, <1>7, <1>8

\* The sections of a report are those of the table in some order: no two have the
\* same key, and a sum over all of them is the sum over the table's.
LEMMA SectionsSorted ==
  ASSUME NEW recs, Listed(recs), \A i \in 1..Len(recs) : Countable(recs[i]),
         NEW ptx, NumbersPtx(ptx),
         NEW reports, reports = ReportsOf(Count(recs), ptx),
         NEW S, S = Range(reports),
         NEW fns, fns = aggregate(recs, ptx).functions
  PROVE  /\ Listed(fns) /\ \A n \in 1..Len(fns) : fns[n] \in S
         /\ \A w \in [S -> Nat] : Total(Values(w, fns)) = Total(Values(w, reports))
         /\ \A m, n \in 1..Len(fns) :
              <<fns[m].launch_id, fns[m].name>> = <<fns[n].launch_id, fns[n].name>> => m = n
<1>1. PICK t : t = Count(recs)
  OBVIOUS
<1>2. fns = Sorted(reports, ByLaunch)
  BY DEF aggregate, ReportsOf
<1>3. IsTable(t)
  BY <1>1, Counts
<1>4. /\ Listed(reports) /\ Len(reports) = Len(t.keys)
      /\ \A n \in 1..Len(t.keys) : <<reports[n].launch_id, reports[n].name>> = t.keys[n]
  BY <1>1, SectionsMade
<1>5. PICK N \in Nat : N = Len(reports) /\ reports = [n \in 1..N |-> reports[n]]
  BY <1>4, ListedLen
<1>6. S = {reports[n] : n \in 1..N}
  BY <1>5 DEF Range
<1>7. reports \in Seq(S)
  <2>1. reports \in [1..N -> S]
    BY <1>5, <1>6
  <2> QED
    BY <1>5, <2>1
<1>8. ASSUME NEW w \in [S -> Nat]
      PROVE  fns \in Seq(S) /\ Total(Values(w, fns)) = Total(Values(w, reports))
  BY ONLY <1>2, <1>7, w \in [S -> Nat], SortedTotal
<1>9. fns \in Seq(S)
  <2>1. [r \in S |-> 0] \in [S -> Nat]
    OBVIOUS
  <2> QED
    BY <1>8, <2>1, Zenon
<1>10. Listed(fns) /\ \A n \in 1..Len(fns) : fns[n] \in S
  BY <1>9, ElementOfSeq DEF Listed
<1> DEFINE Id(r) == <<r.launch_id, r.name>>
<1>11. ASSUME NEW m \in 1..Len(fns), NEW n \in 1..Len(fns), Id(fns[m]) = Id(fns[n]), m # n
       PROVE  FALSE
  <2>1. PICK id : id = Id(fns[m])
    BY Zenon
  <2>2. PICK w : w = [r \in S |-> IF Id(r) = id THEN 1 ELSE 0]
    BY Zenon
  <2>3. w \in [S -> Nat]
    BY <2>2
  <2>4. PICK p, q : p = Values(w, fns) /\ q = Values(w, reports)
    OBVIOUS
  <2>5. Numbers(p) /\ Len(p) = Len(fns) /\ Numbers(q) /\ Len(q) = N
    BY ONLY <1>5, <1>7, <1>9, <2>3, <2>4, ValuesNumbers, Zenon
  <2>6. p[m] = 1 /\ p[n] = 1
    BY <1>10, <1>11, <2>1, <2>2, <2>4 DEF Values
  <2>7. 2 <= Total(p)
    <3>1. p[m] + p[n] <= Total(p)
      BY <1>11, <2>5, TotalTwo
    <3> QED
      BY <2>6, <3>1
  <2>8. PICK k \in 1..N : reports[k] = fns[m]
    BY <1>6, <1>10, Zenon
  <2>9. \A i \in 1..Len(q) : i # k => q[i] = 0
    <3> SUFFICES ASSUME NEW i \in 1..N, i # k PROVE q[i] = 0
      BY <2>5
    <3>1. Id(reports[i]) # id
      <4>1. t.keys[i] # t.keys[k]
        BY <1>3, <1>4, <1>5 DEF IsTable
      <4>2. Id(reports[i]) = t.keys[i] /\ Id(reports[k]) = t.keys[k]
        BY <1>4, <1>5, Zenon
      <4>3. Id(reports[k]) = id
        BY <2>1, <2>8
      <4> HIDE DEF Id
      <4> QED
        BY ONLY <4>1, <4>2, <4>3
    <3>2. q[i] = w[reports[i]] /\ reports[i] \in S
      BY <1>5, <1>6, <2>4, Zenon DEF Values
    <3> QED
      BY <2>2, <3>1, <3>2
  <2>10. q[k] = 1
    <3>1. q[k] = w[reports[k]] /\ reports[k] \in S
      BY <1>5, <1>6, <2>4, Zenon DEF Values
    <3> QED
      BY <2>1, <2>2, <2>8, <3>1
  <2>11. Total(q) = IF k \in 1..Len(q) THEN q[k] ELSE 0
    BY <1>5, <2>5, <2>9, TotalOne
  <2>12. Total(q) = 1
    BY <2>5, <2>10, <2>11
  <2>13. Total(p) = Total(q)
    BY <1>8, <2>3, <2>4
  <2> QED
    BY <2>7, <2>12, <2>13
<1> QED
  BY <1>8, <1>10, <1>11

LEMMA AggregateCounts ==
  ASSUME NEW recs, Listed(recs), \A i \in 1..Len(recs) : Countable(recs[i]),
         NEW ptx, NumbersPtx(ptx)
  PROVE  LET fns == aggregate(recs, ptx).functions
         IN  /\ Listed(fns) /\ \A n \in 1..Len(fns) : SectionMade(fns[n], recs, ptx)
             /\ \A f, pc : Total([n \in 1..Len(fns) |-> IssuesOf(fns[n], f, pc)])
                             = Total(Hits(recs, f, pc))
<1>1. PICK t, reports, fns : t = Count(recs) /\ reports = ReportsOf(t, ptx)
                             /\ fns = aggregate(recs, ptx).functions
  OBVIOUS
<1>2. PICK keys : keys = t.keys
  OBVIOUS
<1>3. IsTable(t) /\ \A f, pc : Total(OfFunction(t, f, pc)) = Total(Hits(recs, f, pc))
  BY <1>1, Counts
<1>4. /\ Listed(reports) /\ Len(reports) = Len(keys)
      /\ \A n \in 1..Len(keys) :
           /\ SectionMade(reports[n], recs, ptx)
           /\ \A f, pc : IssuesOf(reports[n], f, pc) = OfFunction(t, f, pc)[n]
  BY <1>1, <1>2, SectionsMade
<1>5. PICK S : S = Range(reports)
  OBVIOUS
<1>6. /\ Listed(fns) /\ \A n \in 1..Len(fns) : fns[n] \in S
      /\ \A w \in [S -> Nat] : Total(Values(w, fns)) = Total(Values(w, reports))
  BY ONLY <1>1, <1>5, Listed(recs), \A i \in 1..Len(recs) : Countable(recs[i]), NumbersPtx(ptx),
          SectionsSorted
<1>7. S = {reports[n] : n \in 1..Len(keys)}
  BY <1>4, <1>5, ListedLen DEF Range
<1>8. \A r \in S : SectionMade(r, recs, ptx)
  BY <1>4, <1>7
<1>9. ASSUME NEW f, NEW pc
      PROVE  Total([n \in 1..Len(fns) |-> IssuesOf(fns[n], f, pc)]) = Total(Hits(recs, f, pc))
  <2>1. PICK w : w = [r \in S |-> IssuesOf(r, f, pc)]
    BY Zenon
  <2>2. PICK u : u = OfFunction(t, f, pc)
    OBVIOUS
  <2>3. Numbers(u) /\ Len(u) = Len(keys)
    BY <1>2, <1>3, <2>2, OfFunctionNumbers
  <2>4. w \in [S -> Nat]
    <3>1. \A n \in 1..Len(keys) : IssuesOf(reports[n], f, pc) \in Nat
      BY <1>4, <2>2, <2>3 DEF Numbers
    <3> QED
      BY <1>7, <2>1, <3>1
  <2>5. Values(w, reports) = u
    <3>1. \A n \in 1..Len(keys) : w[reports[n]] = u[n]
      BY <1>4, <1>7, <2>1, <2>2
    <3>2. u = [n \in 1..Len(keys) |-> u[n]]
      BY <2>3, ListedLen DEF Numbers
    <3> QED
      BY <1>4, <3>1, <3>2 DEF Values
  <2>6. Values(w, fns) = [n \in 1..Len(fns) |-> IssuesOf(fns[n], f, pc)]
    <3>1. \A n \in 1..Len(fns) : w[fns[n]] = IssuesOf(fns[n], f, pc)
      BY <1>6, <2>1
    <3> QED
      BY <3>1 DEF Values
  <2> QED
    BY <1>3, <1>6, <2>2, <2>4, <2>5, <2>6
<1> QED
  BY <1>1, <1>6, <1>8, <1>9

\* The issues of a section are the records of its key.
LEMMA SectionIssues ==
  ASSUME NEW recs, Listed(recs), \A i \in 1..Len(recs) : Countable(recs[i]),
         NEW ptx, NEW fn, SectionMade(fn, recs, ptx), NEW key, key = <<fn.launch_id, fn.name>>,
         NEW u, u = [i \in 1..Len(recs) |-> IF Key(recs[i]) = key THEN 1 ELSE 0]
  PROVE  Issues(fn.instructions) = Total(u)
<1>1. PICK list : list = fn.instructions
  OBVIOUS
<1>2. PICK m, N \in Nat : m = Len(list) /\ N = Len(recs) /\ DOMAIN list = 1..m
  BY <1>1, ListedLen DEF SectionMade, RowsCount
<1>3. PICK v : v = [k \in 1..m |-> Marks(recs, key, list[k].pc, "issue_count")]
  BY Zenon
<1>4. u = [i \in 1..N |-> IF Key(recs[i]) = key THEN 1 ELSE 0]
  BY <1>2
<1>5. "issue_count" \in Counters \ KnownMetrics
  BY DEF Counters, KnownMetrics
<1>6. \A k \in 1..m : \A i \in 1..N :
        v[k][i] = IF Key(recs[i]) = key /\ recs[i].pc = list[k].pc THEN 1 ELSE 0
  BY <1>2, <1>3, <1>5 DEF Marks, Mark, Share
<1>7. v \in [1..m -> [1..N -> Nat]] /\ u \in [1..N -> Nat]
  <2>1. \A k \in 1..m : v[k] = [i \in 1..N |-> v[k][i]]
    BY <1>2, <1>3 DEF Marks
  <2>2. ASSUME NEW k \in 1..m PROVE v[k] \in [1..N -> Nat]
    <3>1. v[k] = [i \in 1..N |-> v[k][i]]
      BY <2>1
    <3>2. \A i \in 1..N : v[k][i] \in Nat
      BY <1>6
    <3> QED
      BY ONLY <3>1, <3>2
  <2>3. v \in [1..m -> [1..N -> Nat]]
    BY <1>3, <2>2, Zenon
  <2>4. u \in [1..N -> Nat]
    BY ONLY <1>4
  <2> QED
    BY <2>3, <2>4, Zenon
<1>8. ASSUME NEW i \in 1..N
      PROVE  \E j \in Nat : OnlyAt(v, m, i, u[i], j)
  <2>1. CASE Key(recs[i]) = key
    <3>1. PICK j \in 1..m : list[j].pc = recs[i].pc
      BY <1>1, <1>2, <2>1, Zenon DEF SectionMade
    <3>2. \A k \in 1..m : k # j => list[k].pc # recs[i].pc
      BY <1>1, <1>2, <3>1 DEF SectionMade
    <3>3. u[i] = 1 /\ v[j][i] = 1 /\ \A k \in 1..m : k # j => v[k][i] = 0
      BY <1>4, <1>6, <2>1, <3>1, <3>2
    <3>4. OnlyAt(v, m, i, u[i], j)
      BY <3>3 DEF OnlyAt
    <3>5. j \in Nat
      OBVIOUS
    <3> QED
      BY ONLY <3>4, <3>5
  <2>2. CASE Key(recs[i]) # key
    <3>1. u[i] = 0 /\ \A k \in 1..m : v[k][i] = 0
      BY <1>4, <1>6, <2>2
    <3>2. OnlyAt(v, m, i, u[i], 0)
      BY <3>1 DEF OnlyAt
    <3> QED
      BY <3>2, Zenon
  <2> QED
    BY <2>1, <2>2
<1>9. Total(Sums(v, m)) = Total(u)
  <2>1. Scattered(v, m, u, N)
    BY <1>8 DEF Scattered
  <2> QED
    BY ONLY m \in Nat, N \in Nat, <1>7, <2>1, TotalScatter, Zenon
<1>10. ASSUME NEW k \in 1..m PROVE list[k].issue_count = Total(v[k])
  <2>1. Reading(list[k], "issue_count") = Total(Marks(recs, key, list[k].pc, "issue_count"))
    BY <1>1, <1>2, <1>5, Zenon DEF SectionMade, RowsCount
  <2> QED
    BY <1>3, <1>5, <2>1 DEF Reading
<1>11. [k \in DOMAIN list |-> list[k].issue_count] = Sums(v, m)
  BY <1>2, <1>10 DEF Sums
<1>12. Issues(list) = Total([k \in DOMAIN list |-> list[k].issue_count])
  BY DEF Issues, SumOver
<1> QED
  BY <1>1, <1>2, <1>4, <1>9, <1>11, <1>12

\* Every record is an issue of one section.
LEMMA AggregateTotal ==
  ASSUME NEW recs, Listed(recs), \A i \in 1..Len(recs) : Countable(recs[i]),
         NEW ptx, NumbersPtx(ptx), NEW fns, fns = aggregate(recs, ptx).functions
  PROVE  Total([n \in 1..Len(fns) |-> Issues(fns[n].instructions)]) = Len(recs)
<1>1. PICK t, reports : t = Count(recs) /\ reports = ReportsOf(t, ptx)
  OBVIOUS
<1>2. PICK keys : keys = t.keys
  OBVIOUS
<1>3. IsTable(t)
  BY <1>1, Counts
<1>4. PICK m, N \in Nat : m = Len(keys) /\ N = Len(recs)
  BY <1>2, <1>3, ListedLen DEF IsTable
<1>5. /\ Listed(reports) /\ Len(reports) = m
      /\ \A n \in 1..m : /\ <<reports[n].launch_id, reports[n].name>> = keys[n]
                         /\ SectionMade(reports[n], recs, ptx)
  BY <1>1, <1>2, <1>4, SectionsMade
<1>6. PICK S : S = Range(reports)
  OBVIOUS
<1>7. /\ Listed(fns) /\ \A n \in 1..Len(fns) : fns[n] \in S
      /\ \A w \in [S -> Nat] : Total(Values(w, fns)) = Total(Values(w, reports))
  BY ONLY <1>1, <1>6, Listed(recs), \A i \in 1..Len(recs) : Countable(recs[i]), NumbersPtx(ptx),
          fns = aggregate(recs, ptx).functions, SectionsSorted
<1>8. S = {reports[n] : n \in 1..m}
  BY <1>5, <1>6, ListedLen DEF Range
<1>9. PICK v : v = [n \in 1..m |-> [i \in 1..N |-> IF Key(recs[i]) = keys[n] THEN 1 ELSE 0]]
  BY Zenon
<1>10. PICK u : u = [i \in 1..N |-> 1]
  BY Zenon
<1>11. v \in [1..m -> [1..N -> Nat]] /\ u \in [1..N -> Nat]
  BY <1>9, <1>10
<1>12. ASSUME NEW i \in 1..N
       PROVE  \E j \in Nat : OnlyAt(v, m, i, u[i], j)
  <2>1. Key(recs[i]) \in DOMAIN t.rows
    BY <1>1, <1>4, RecordCounted
  <2>2. PICK j \in 1..m : keys[j] = Key(recs[i])
    BY <1>2, <1>3, <1>4, <2>1 DEF IsTable
  <2>3. \A n \in 1..m : n # j => keys[n] # keys[j]
    BY <1>2, <1>3, <1>4 DEF IsTable
  <2>4. OnlyAt(v, m, i, u[i], j)
    BY <1>9, <1>10, <2>2, <2>3 DEF OnlyAt
  <2> QED
    BY <2>4
<1>13. Total(Sums(v, m)) = N
  <2>1. Scattered(v, m, u, N)
    BY <1>12 DEF Scattered
  <2>2. Total(Sums(v, m)) = Total(u)
    BY ONLY m \in Nat, N \in Nat, <1>11, <2>1, TotalScatter, Zenon
  <2> QED
    BY <1>10, <2>2, TotalOnes
<1>14. ASSUME NEW n \in 1..m PROVE Issues(reports[n].instructions) = Total(v[n])
  <2>1. PICK fn, key : fn = reports[n] /\ key = keys[n]
    OBVIOUS
  <2>2. SectionMade(fn, recs, ptx) /\ key = <<fn.launch_id, fn.name>>
    BY <1>5, <2>1
  <2>3. v[n] = [i \in 1..Len(recs) |-> IF Key(recs[i]) = key THEN 1 ELSE 0]
    BY <1>4, <1>9, <2>1
  <2>4. Issues(fn.instructions) = Total(v[n])
    <3>1. SectionMade(fn, recs, ptx) /\ key = <<fn.launch_id, fn.name>> /\ Listed(recs)
      BY <2>2
    <3> QED
      BY ONLY <2>3, <3>1, Listed(recs), \A i \in 1..Len(recs) : Countable(recs[i]), SectionIssues
  <2> QED
    BY <2>1, <2>4
<1>15. PICK w : w = [r \in S |-> Issues(r.instructions)]
  BY Zenon
<1>16. w \in [S -> Nat]
  <2>1. \A n \in 1..m : Total(v[n]) \in Nat
    BY <1>4, <1>11, NumbersMade, TotalNat, Zenon
  <2> QED
    BY <1>8, <1>14, <1>15, <2>1
<1>17. Values(w, reports) = Sums(v, m)
  BY <1>5, <1>8, <1>14, <1>15 DEF Values, Sums
<1>18. Values(w, fns) = [n \in 1..Len(fns) |-> Issues(fns[n].instructions)]
  <2>1. \A n \in 1..Len(fns) : w[fns[n]] = Issues(fns[n].instructions)
    BY <1>7, <1>15
  <2> QED
    BY <2>1 DEF Values
<1> QED
  BY <1>4, <1>7, <1>13, <1>16, <1>17, <1>18
-----------------------------------------------------------------------------
\* The report's parser numbers the instructions of a text, up to some number.
UpTo(list, n) == \A i \in 1..Len(list) : list[i].pc \in 0..n /\ HasLine(list[i])
Numbering(s) ==
  /\ {"pc", "instructions"} \subseteq DOMAIN s
  /\ s.pc \in Nat /\ Listed(s.instructions) /\ \E n \in Nat : UpTo(s.instructions, n)

LEMMA UpToConcat ==
  ASSUME NEW a, NEW b, Listed(a), Listed(b),
         \E n \in Nat : UpTo(a, n), \E n \in Nat : UpTo(b, n)
  PROVE  Listed(a \o b) /\ \E n \in Nat : UpTo(a \o b, n)
<1>1. PICK n \in Nat : UpTo(a, n)
  OBVIOUS
<1>2. PICK m \in Nat : UpTo(b, m)
  OBVIOUS
<1>3. PICK c : c = a \o b
  BY Zenon
<1>4. /\ Listed(a \o b) /\ Len(a \o b) = Len(a) + Len(b)
      /\ \A i \in 1..Len(a) : (a \o b)[i] = a[i]
      /\ \A i \in 1..Len(b) : (a \o b)[Len(a) + i] = b[i]
  BY ConcatListed
<1>5. Len(a) \in Nat /\ Len(b) \in Nat
  BY ListedLen
<1>6. ASSUME NEW i \in 1..Len(c) PROVE c[i].pc \in 0..n + m /\ HasLine(c[i])
  <2>1. CASE i \in 1..Len(a)
    <3>1. c[i] = a[i]
      BY <1>3, <1>4, <2>1
    <3>2. a[i].pc \in 0..n /\ HasLine(a[i])
      BY <1>1, <2>1 DEF UpTo
    <3> QED
      BY <3>1, <3>2
  <2>2. CASE i \notin 1..Len(a)
    <3>1. PICK j \in 1..Len(b) : i = Len(a) + j
      <4>1. i - Len(a) \in 1..Len(b) /\ i = Len(a) + (i - Len(a))
        BY <1>3, <1>4, <1>5, <2>2
      <4> QED
        BY <4>1, Zenon
    <3>2. c[i] = b[j]
      BY <1>3, <1>4, <3>1
    <3>3. b[j].pc \in 0..m /\ HasLine(b[j])
      BY <1>2 DEF UpTo
    <3> QED
      BY <3>2, <3>3
  <2> QED
    BY <2>1, <2>2
<1>7. UpTo(c, n + m) /\ n + m \in Nat
  BY <1>6 DEF UpTo
<1> QED
  BY <1>3, <1>4, <1>7

\* Within a function, at a line.
NumberingLine(s) == Numbering(s) /\ "line" \in DOMAIN s /\ s.line \in LineOrNone

LEMMA LineNumbers ==
  ASSUME NEW s, NumberingLine(s), NEW line, line.kind = "loc" => line.line \in Nat,
         NEW fn, NEW files
  PROVE  NumberingLine(ParseLine(s, line, fn, files))
<1>1. PICK new : new = ParseLine(s, line, fn, files)
  OBVIOUS
<1>2. CASE line.kind = "label"
  <2>1. new = [s EXCEPT !.bb = line.name]
    BY <1>1, <1>2 DEF ParseLine, Numbered
  <2>2. DOMAIN new = DOMAIN s /\ new.pc = s.pc /\ new.instructions = s.instructions /\ new.line = s.line
    BY <2>1 DEF NumberingLine, Numbering
  <2> QED
    BY <1>1, <2>2 DEF NumberingLine, Numbering
<1>3. CASE line.kind = "loc"
  <2>1. PICK x, y : x = Get(files, line.file, None) /\ y = line.line
    OBVIOUS
  <2>2. new = [s EXCEPT !.file = x, !.line = y]
    BY <1>1, <1>3, <2>1 DEF ParseLine, Numbered
  <2>3. DOMAIN new = DOMAIN s /\ new.pc = s.pc /\ new.instructions = s.instructions /\ new.line = y
    BY <2>2 DEF NumberingLine, Numbering
  <2>4. y \in LineOrNone
    BY <1>3, <2>1 DEF LineOrNone
  <2> QED
    BY <1>1, <2>3, <2>4 DEF NumberingLine, Numbering
<1>4. CASE Numbered(line)
  <2>1. PICK x : x = [pc |-> s.pc, function_name |-> fn, basic_block |-> s.bb,
                      instr_name |-> InstrName(line), raw_line |-> line,
                      source_file |-> s.file, source_line |-> s.line,
                      dst_reg_prefix |-> dst_reg_prefix(line)]
    BY Zenon
  <2>2. PICK r : r = IF line.kind = "reg"
                     THEN Put(s.regs, line.prefix, [count |-> line.count, type |-> line.type])
                     ELSE s.regs
    OBVIOUS
  <2>3. PICK list : list = s.instructions
    OBVIOUS
  <2>4. PICK more : more = Append(list, x)
    BY Zenon
  <2>5. new = [s EXCEPT !.pc = @ + 1, !.instructions = more, !.regs = r]
    BY <1>1, <1>4, <2>1, <2>2, <2>3, <2>4 DEF ParseLine, Numbered
  <2>6. DOMAIN new = DOMAIN s /\ new.pc = s.pc + 1 /\ new.instructions = more /\ new.line = s.line
    BY <2>5 DEF NumberingLine, Numbering
  <2>7. Listed(list) /\ (\E n \in Nat : UpTo(list, n)) /\ s.pc \in Nat
    BY <2>3 DEF NumberingLine, Numbering
  <2>8. PICK one : one = <<x>>
    BY Zenon
  <2>9. Listed(one) /\ Len(one) = 1 /\ one[1] = x /\ more = list \o one
    BY <2>4, <2>7, <2>8, Single, AppendConcat
  <2>10. UpTo(one, s.pc)
    <3>1. x.pc = s.pc /\ HasLine(x)
      BY <2>1 DEF NumberingLine, HasLine
    <3>2. \A i \in 1..Len(one) : one[i].pc = s.pc /\ HasLine(one[i])
      BY <2>9, <3>1
    <3> QED
      BY <2>7, <3>2 DEF UpTo
  <2>11. Listed(list \o one) /\ \E n \in Nat : UpTo(list \o one, n)
    <3>1. \E n \in Nat : UpTo(one, n)
      BY <2>7, <2>10
    <3> QED
      BY <2>7, <2>9, <3>1, UpToConcat
  <2>12. s.pc + 1 \in Nat
    BY <2>7
  <2> QED
    BY <1>1, <2>6, <2>9, <2>11, <2>12 DEF NumberingLine, Numbering
<1>5. CASE ~(line.kind = "label" \/ line.kind = "loc" \/ Numbered(line))
  <2>1. new = s
    BY <1>1, <1>5 DEF ParseLine
  <2> QED
    BY <1>1, <2>1
<1> QED
  BY <1>2, <1>3, <1>4, <1>5

FirstLine(pc) == [pc |-> pc, bb |-> "entry", file |-> None, line |-> NoLine,
                  regs |-> Empty, instructions |-> <<>>]
IsBody(g, body, pc, fn, files, n) ==
  g = [i \in 0..n |-> IF i = 0 THEN FirstLine(pc) ELSE ParseLine(g[i - 1], body[i], fn, files)]

LEMMA BodyExists ==
  ASSUME NEW body, NEW pc, NEW fn, NEW files, NEW n \in Nat
  PROVE  \E g : IsBody(g, body, pc, fn, files, n)
<1> DEFINE S == {k \in Nat : \E g : IsBody(g, body, pc, fn, files, k)}
<1>1. 0 \in S
  <2>1. IsBody([i \in 0..0 |-> FirstLine(pc)], body, pc, fn, files, 0)
    BY DEF IsBody
  <2> QED
    BY <2>1
<1>2. ASSUME NEW k \in Nat, k \in S PROVE k + 1 \in S
  <2>1. PICK g : IsBody(g, body, pc, fn, files, k)
    BY <1>2
  <2> DEFINE h == [i \in 0..k + 1 |-> IF i <= k THEN g[i] ELSE ParseLine(g[k], body[k + 1], fn, files)]
  <2>2. \A i \in 0..k : g[i] = IF i = 0 THEN FirstLine(pc) ELSE ParseLine(g[i - 1], body[i], fn, files)
    BY <2>1 DEF IsBody
  <2>3. \A i \in 0..k + 1 : h[i] = IF i = 0 THEN FirstLine(pc) ELSE ParseLine(h[i - 1], body[i], fn, files)
    BY <2>2
  <2>4. IsBody(h, body, pc, fn, files, k + 1)
    BY <2>3 DEF IsBody
  <2> QED
    BY <2>4
<1> HIDE DEF S
<1>3. Nat \subseteq S
  BY <1>1, <1>2, NatSet
<1> QED
  BY <1>3 DEF S

LEMMA BodyNumbers ==
  ASSUME NEW pc \in Nat, NEW item, Listed(item.body), NEW files,
         \A k \in DOMAIN item.body : item.body[k].kind = "loc" => item.body[k].line \in Nat
  PROVE  Numbering(ParseBody(pc, item, files))
<1>1. PICK body, fn : body = Content(item.body) /\ fn = item.name
  OBVIOUS
<1>2. PICK n \in Nat : n = Len(body)
  BY <1>1, ContentListed, ListedLen
<1>0. \A i \in 1..n : body[i].kind = "loc" => body[i].line \in Nat
  <2>1. \A i \in 1..n : \E k \in DOMAIN item.body : body[i] = item.body[k]
    BY <1>1, <1>2, ContentListed
  <2> QED
    BY <2>1
<1> DEFINE g == CHOOSE g : IsBody(g, body, pc, fn, files, n)
           S == {k \in Nat : k <= n => NumberingLine(g[k])}
<1>3. IsBody(g, body, pc, fn, files, n)
  BY BodyExists
<1>4. ParseBody(pc, item, files) = g[n]
  BY <1>1, <1>2 DEF ParseBody, IsBody, FirstLine
<1> HIDE DEF g
<1>5. \A i \in 0..n : g[i] = IF i = 0 THEN FirstLine(pc) ELSE ParseLine(g[i - 1], body[i], fn, files)
  BY <1>3 DEF IsBody
<1>6. 0 \in S
  <2>1. g[0] = FirstLine(pc)
    BY <1>5
  <2>2. Listed(<<>>) /\ Len(<<>>) = 0
    BY Tuples, Zenon
  <2>3. UpTo(<<>>, 0)
    BY <2>2 DEF UpTo
  <2>4. NumberingLine(FirstLine(pc))
    BY <2>2, <2>3 DEF NumberingLine, Numbering, FirstLine, LineOrNone
  <2> QED
    BY <2>1, <2>4
<1>7. ASSUME NEW k \in Nat, k \in S PROVE k + 1 \in S
  <2> SUFFICES ASSUME k + 1 <= n PROVE NumberingLine(g[k + 1])
    OBVIOUS
  <2>1. g[k + 1] = ParseLine(g[k], body[k + 1], fn, files) /\ NumberingLine(g[k])
    BY <1>5, <1>7
  <2>2. PICK a, line : a = g[k] /\ line = body[k + 1]
    OBVIOUS
  <2>3. line.kind = "loc" => line.line \in Nat
    BY <1>0, <2>2
  <2> QED
    BY <2>1, <2>2, <2>3, LineNumbers
<1> HIDE DEF S
<1>8. Nat \subseteq S
  BY <1>6, <1>7, NatSet
<1> QED
  BY <1>4, <1>8 DEF S, NumberingLine

LEMMA FunctionNumbers ==
  ASSUME NEW m, Numbering(m), NEW item, NEW files,
         item.kind = "func" =>
           /\ Listed(item.body)
           /\ \A k \in DOMAIN item.body : item.body[k].kind = "loc" => item.body[k].line \in Nat
  PROVE  Numbering(ParseFunction(m, item, files))
<1>1. CASE item.kind # "func"
  BY <1>1 DEF ParseFunction
<1>2. CASE item.kind = "func"
  <2>1. PICK s : s = ParseBody(m.pc, item, files)
    OBVIOUS
  <2>2. Numbering(s)
    BY <1>2, <2>1, BodyNumbers DEF Numbering
  <2>3. PICK new : new = ParseFunction(m, item, files)
    OBVIOUS
  <2>4. PICK a, b, c : a = m.instructions /\ b = s.instructions /\ c = a \o b
    BY Zenon
  <2>5. {"pc", "instructions"} \subseteq DOMAIN new /\ new.pc = s.pc /\ new.instructions = c
    BY <1>2, <2>1, <2>3, <2>4, Zenon DEF ParseFunction
  <2>6. /\ Listed(a) /\ (\E n \in Nat : UpTo(a, n)) /\ s.pc \in Nat
        /\ Listed(b) /\ (\E n \in Nat : UpTo(b, n))
    BY <2>2, <2>4 DEF Numbering
  <2>7. Listed(a \o b) /\ \E n \in Nat : UpTo(a \o b, n)
    BY <2>6, UpToConcat
  <2> QED
    BY <2>3, <2>4, <2>5, <2>6, <2>7 DEF Numbering
<1> QED
  BY <1>1, <1>2

\* parse_ptx, function by function.
NoFunction == [pc |-> 0, instructions |-> <<>>, func_regs |-> Empty]
IsParsed(g, text, files, n) ==
  g = [i \in 0..n |-> IF i = 0 THEN NoFunction ELSE ParseFunction(g[i - 1], text[i], files)]

LEMMA ParsedExists ==
  ASSUME NEW text, NEW files, NEW n \in Nat
  PROVE  \E g : IsParsed(g, text, files, n)
<1> DEFINE S == {k \in Nat : \E g : IsParsed(g, text, files, k)}
<1>1. 0 \in S
  <2>1. IsParsed([i \in 0..0 |-> NoFunction], text, files, 0)
    BY DEF IsParsed
  <2> QED
    BY <2>1
<1>2. ASSUME NEW k \in Nat, k \in S PROVE k + 1 \in S
  <2>1. PICK g : IsParsed(g, text, files, k)
    BY <1>2
  <2> DEFINE h == [i \in 0..k + 1 |-> IF i <= k THEN g[i] ELSE ParseFunction(g[k], text[k + 1], files)]
  <2>2. \A i \in 0..k : g[i] = IF i = 0 THEN NoFunction ELSE ParseFunction(g[i - 1], text[i], files)
    BY <2>1 DEF IsParsed
  <2>3. \A i \in 0..k + 1 : h[i] = IF i = 0 THEN NoFunction ELSE ParseFunction(h[i - 1], text[i], files)
    BY <2>2
  <2>4. IsParsed(h, text, files, k + 1)
    BY <2>3 DEF IsParsed
  <2> QED
    BY <2>4
<1> HIDE DEF S
<1>3. Nat \subseteq S
  BY <1>1, <1>2, NatSet
<1> QED
  BY <1>3 DEF S

LEMMA ParsedNumbers ==
  ASSUME NEW text, IsText(text)
  PROVE  NumbersPtx(parse_ptx(text))
<1> DEFINE named == SelectSeq(text, LAMBDA item : item.kind = "file")
           files == Dict([i \in DOMAIN named |-> <<named[i].id, named[i].path>>])
           n == Len(text)
           g == CHOOSE g : IsParsed(g, text, files, n)
           m == g[n]
           S == {k \in Nat : k <= n => Numbering(g[k])}
<1>1. n \in Nat /\ DOMAIN text = 1..n
  BY DEF IsText, IsList
<1> HIDE DEF files
<1>2. IsParsed(g, text, files, n)
  <2> HIDE DEF n
  <2> QED
    BY <1>1, ParsedExists
<1>3. PICK ptx : ptx = parse_ptx(text)
  OBVIOUS
<1>4. ptx = [instructions |-> m.instructions,
             by_func_pc |-> Dict([i \in DOMAIN m.instructions |->
                              << <<m.instructions[i].function_name, m.instructions[i].pc>>, i>>]),
             source_files |-> Empty, func_reg_declarations |-> m.func_regs]
  BY <1>3, Zenon DEF parse_ptx, IsParsed, NoFunction, files
<1> HIDE DEF g
<1>5. \A i \in 0..n : g[i] = IF i = 0 THEN NoFunction ELSE ParseFunction(g[i - 1], text[i], files)
  <2> HIDE DEF n
  <2> QED
    BY <1>2, Zenon DEF IsParsed
<1>6. 0 \in S
  <2>1. g[0] = NoFunction
    BY <1>1, <1>5
  <2>2. Listed(<<>>) /\ Len(<<>>) = 0
    BY Tuples, Zenon
  <2>3. UpTo(<<>>, 0)
    BY <2>2 DEF UpTo
  <2>4. Numbering(NoFunction)
    BY <2>2, <2>3 DEF Numbering, NoFunction
  <2> QED
    BY <2>1, <2>4
<1>7. ASSUME NEW k \in Nat, k \in S PROVE k + 1 \in S
  <2> SUFFICES ASSUME k + 1 <= n PROVE Numbering(g[k + 1])
    OBVIOUS
  <2>1. k \in 0..n /\ k + 1 \in 0..n /\ k + 1 \in DOMAIN text /\ k + 1 # 0 /\ k + 1 - 1 = k /\ k <= n
    BY <1>1
  <2>2. g[k + 1] = ParseFunction(g[k], text[k + 1], files) /\ Numbering(g[k])
    BY <1>5, <1>7, <2>1
  <2>4. PICK a, item : a = g[k] /\ item = text[k + 1]
    OBVIOUS
  <2>3. item.kind = "func" =>
          /\ Listed(item.body)
          /\ \A j \in DOMAIN item.body : item.body[j].kind = "loc" => item.body[j].line \in Nat
    BY <2>1, <2>4 DEF IsText, IsList, Listed
  <2>5. Numbering(ParseFunction(a, item, files))
    BY <2>2, <2>3, <2>4, FunctionNumbers
  <2> QED
    BY <2>2, <2>4, <2>5
<1> HIDE DEF S
<1>8. Nat \subseteq S
  BY <1>6, <1>7, NatSet
<1>9. Numbering(m)
  BY <1>1, <1>8 DEF S
<1> HIDE DEF m
<1>10. PICK list : list = m.instructions
  OBVIOUS
<1>11. PICK top \in Nat : UpTo(list, top)
  BY <1>9, <1>10 DEF Numbering
<1>12. DOMAIN list = 1..Len(list)
  BY <1>9, <1>10, ListedLen DEF Numbering
<1>13. PICK pairs : pairs = [i \in DOMAIN list |-> << <<list[i].function_name, list[i].pc>>, i>>]
  BY Zenon
<1>14. /\ {"instructions", "by_func_pc", "source_files"} \subseteq DOMAIN ptx
       /\ ptx.instructions = list /\ ptx.by_func_pc = Dict(pairs) /\ DOMAIN ptx.source_files = {}
  BY <1>4, <1>10, <1>13 DEF Empty
<1>15. DOMAIN Dict(pairs) = {pairs[i][1] : i \in DOMAIN pairs}
  BY DEF Dict
<1>16. \A i \in DOMAIN pairs : i \in 1..Len(list) /\ pairs[i][1][2] = list[i].pc
  BY <1>12, <1>13
<1>17. \A k \in DOMAIN ptx.by_func_pc : k[2] \in 0..top
  BY <1>11, <1>14, <1>15, <1>16 DEF UpTo
<1>18. ASSUME NEW k \in DOMAIN ptx.by_func_pc PROVE ptx.by_func_pc[k] \in 1..Len(list)
  <2>1. PICK is : is = {i \in DOMAIN pairs : pairs[i][1] = k}
    BY Zenon
  <2>2. PICK j : j = Max(is)
    OBVIOUS
  <2>3. ptx.by_func_pc[k] = pairs[j][2]
    BY <1>14, <1>15, <2>1, <2>2 DEF Dict
  <2>4. is \in SUBSET (1..Len(list)) /\ is # {}
    BY <1>12, <1>13, <1>14, <1>15, <2>1
  <2>5. j \in 1..Len(list)
    <3>1. PICK c \in Nat : c = Len(list)
      BY <1>9, <1>10, ListedLen DEF Numbering
    <3>2. is \in SUBSET (0..c) /\ is # {}
      BY <2>4, <3>1
    <3>3. j \in is
      BY <2>2, <3>2, MaxIn
    <3> QED
      BY <2>4, <3>3
  <2> QED
    BY <1>12, <1>13, <2>3, <2>5
<1>19. Listed(list) /\ \A i \in 1..Len(list) : HasLine(list[i])
  BY <1>9, <1>10, <1>11 DEF Numbering, UpTo
<1> QED
  BY <1>3, <1>14, <1>17, <1>18, <1>19, Zenon DEF NumbersPtx

\* merge_ptx and load_sources keep the numbers.
LEMMA MergedTwo ==
  ASSUME NEW a, NumbersPtx(a), NEW m, NumbersPtx(m)
  PROVE  NumbersPtx(MergeModule(a, m))
<1>1. PICK p \in Nat : \A k \in DOMAIN a.by_func_pc : k[2] \in 0..p
  BY Zenon DEF NumbersPtx
<1>2. PICK q \in Nat : \A k \in DOMAIN m.by_func_pc : k[2] \in 0..q
  BY Zenon DEF NumbersPtx
<1>3. PICK f, h : /\ f = a.by_func_pc
                  /\ h = [k \in DOMAIN m.by_func_pc |-> m.by_func_pc[k] + Len(a.instructions)]
  BY Zenon
<1>4. PICK new : new = MergeModule(a, m)
  OBVIOUS
<1>5. PICK x, y, list : x = a.instructions /\ y = m.instructions /\ list = x \o y
  BY Zenon
<1>6. /\ {"instructions", "by_func_pc", "source_files"} \subseteq DOMAIN new
      /\ new.instructions = list /\ new.by_func_pc = Update(f, h)
      /\ new.source_files = Update(a.source_files, m.source_files)
  BY <1>3, <1>4, <1>5, Zenon DEF MergeModule
<1>7. /\ Listed(x) /\ Len(x) \in Nat /\ \A i \in 1..Len(x) : HasLine(x[i])
      /\ Listed(y) /\ Len(y) \in Nat /\ \A i \in 1..Len(y) : HasLine(y[i])
  BY <1>5, ListedLen DEF NumbersPtx
<1>8. /\ Listed(list) /\ Len(list) = Len(x) + Len(y)
      /\ \A i \in 1..Len(x) : list[i] = x[i]
      /\ \A i \in 1..Len(y) : list[Len(x) + i] = y[i]
  <2>1. /\ Listed(x \o y) /\ Len(x \o y) = Len(x) + Len(y)
        /\ \A i \in 1..Len(x) : (x \o y)[i] = x[i]
        /\ \A i \in 1..Len(y) : (x \o y)[Len(x) + i] = y[i]
    BY <1>7, ConcatListed
  <2> QED
    BY ONLY <1>5, <2>1, Zenon
<1>9. ASSUME NEW i \in 1..Len(list) PROVE HasLine(list[i])
  <2>1. CASE i \in 1..Len(x)
    BY <1>7, <1>8, <2>1
  <2>2. CASE i \notin 1..Len(x)
    <3>1. PICK j \in 1..Len(y) : i = Len(x) + j
      <4>1. i - Len(x) \in 1..Len(y) /\ i = Len(x) + (i - Len(x))
        BY <1>7, <1>8, <2>2
      <4> QED
        BY <4>1, Zenon
    <3> QED
      BY <1>7, <1>8, <3>1
  <2> QED
    BY <2>1, <2>2
<1>10. /\ DOMAIN new.by_func_pc = DOMAIN f \cup DOMAIN m.by_func_pc
       /\ \A k \in DOMAIN new.by_func_pc :
            new.by_func_pc[k] = IF k \in DOMAIN m.by_func_pc THEN h[k] ELSE f[k]
  BY <1>3, <1>6 DEF Update
<1>11. ASSUME NEW k \in DOMAIN new.by_func_pc PROVE new.by_func_pc[k] \in 1..Len(list)
  <2>1. CASE k \in DOMAIN m.by_func_pc
    <3>1. PICK j : j = m.by_func_pc[k]
      OBVIOUS
    <3>2. j \in 1..Len(y)
      BY <1>5, <2>1, <3>1 DEF NumbersPtx
    <3>3. new.by_func_pc[k] = j + Len(x)
      BY <1>3, <1>5, <1>10, <2>1, <3>1
    <3> QED
      BY <1>7, <1>8, <3>2, <3>3
  <2>2. CASE k \notin DOMAIN m.by_func_pc
    <3>1. new.by_func_pc[k] = f[k] /\ f[k] \in 1..Len(x)
      BY <1>3, <1>5, <1>10, <2>2 DEF NumbersPtx
    <3> QED
      BY <1>7, <1>8, <3>1
  <2> QED
    BY <2>1, <2>2
<1>12. \A k \in DOMAIN new.by_func_pc : k[2] \in 0..p + q
  <2>1. 0..p \subseteq 0..p + q /\ 0..q \subseteq 0..p + q
    OBVIOUS
  <2> QED
    BY <1>1, <1>2, <1>3, <1>10, <2>1
<1>13. \A k \in DOMAIN new.source_files : Listed(new.source_files[k])
  BY <1>6 DEF Update, NumbersPtx
<1>14. p + q \in Nat
  OBVIOUS
<1> QED
  BY <1>4, <1>6, <1>8, <1>9, <1>11, <1>12, <1>13, <1>14, Zenon DEF NumbersPtx

IsMerged(g, modules, n) ==
  g = [i \in 0..n |-> IF i = 0 THEN NoModule ELSE MergeModule(g[i - 1], modules[i])]

LEMMA MergedExists ==
  ASSUME NEW modules, NEW n \in Nat
  PROVE  \E g : IsMerged(g, modules, n)
<1> DEFINE S == {k \in Nat : \E g : IsMerged(g, modules, k)}
<1>1. 0 \in S
  <2>1. IsMerged([i \in 0..0 |-> NoModule], modules, 0)
    BY DEF IsMerged
  <2> QED
    BY <2>1
<1>2. ASSUME NEW k \in Nat, k \in S PROVE k + 1 \in S
  <2>1. PICK g : IsMerged(g, modules, k)
    BY <1>2
  <2> DEFINE h == [i \in 0..k + 1 |-> IF i <= k THEN g[i] ELSE MergeModule(g[k], modules[k + 1])]
  <2>2. \A i \in 0..k : g[i] = IF i = 0 THEN NoModule ELSE MergeModule(g[i - 1], modules[i])
    BY <2>1 DEF IsMerged
  <2>3. \A i \in 0..k + 1 : h[i] = IF i = 0 THEN NoModule ELSE MergeModule(h[i - 1], modules[i])
    BY <2>2
  <2>4. IsMerged(h, modules, k + 1)
    BY <2>3 DEF IsMerged
  <2> QED
    BY <2>4
<1> HIDE DEF S
<1>3. Nat \subseteq S
  BY <1>1, <1>2, NatSet
<1> QED
  BY <1>3 DEF S

LEMMA MergedNumbers ==
  ASSUME NEW modules, Listed(modules), \A i \in 1..Len(modules) : NumbersPtx(modules[i])
  PROVE  NumbersPtx(merge_ptx(modules))
<1> DEFINE n == Len(modules)
           g == CHOOSE g : IsMerged(g, modules, n)
           S == {k \in Nat : k <= n => NumbersPtx(g[k])}
<1>1. n \in Nat
  BY ListedLen
<1>2. IsMerged(g, modules, n)
  <2> HIDE DEF n
  <2> QED
    BY <1>1, MergedExists
<1>3. merge_ptx(modules) = g[n]
  BY DEF merge_ptx, IsMerged
<1> HIDE DEF g
<1>4. \A i \in 0..n : g[i] = IF i = 0 THEN NoModule ELSE MergeModule(g[i - 1], modules[i])
  <2> HIDE DEF n
  <2> QED
    BY <1>2, Zenon DEF IsMerged
<1>5. 0 \in S
  <2>1. g[0] = NoModule
    BY <1>1, <1>4
  <2>2. /\ {"instructions", "by_func_pc", "source_files"} \subseteq DOMAIN NoModule
        /\ NoModule.instructions = <<>>
        /\ DOMAIN NoModule.by_func_pc = {} /\ DOMAIN NoModule.source_files = {}
    BY DEF NoModule, Empty
  <2>4. Listed(<<>>) /\ Len(<<>>) = 0
    BY Tuples, Zenon
  <2>3. NumbersPtx(NoModule)
    BY <2>2, <2>4 DEF NumbersPtx
  <2> QED
    BY <2>1, <2>3
<1>6. ASSUME NEW k \in Nat, k \in S PROVE k + 1 \in S
  <2> SUFFICES ASSUME k + 1 <= n PROVE NumbersPtx(g[k + 1])
    OBVIOUS
  <2>1. k + 1 \in 0..n /\ k + 1 \in 1..n /\ k + 1 # 0 /\ k + 1 - 1 = k /\ k <= n
    BY <1>1
  <2>2. g[k + 1] = MergeModule(g[k], modules[k + 1]) /\ NumbersPtx(g[k])
    BY <1>4, <1>6, <2>1
  <2>3. NumbersPtx(modules[k + 1])
    BY <2>1
  <2> QED
    BY <2>2, <2>3, MergedTwo
<1> HIDE DEF S
<1>7. Nat \subseteq S
  BY <1>5, <1>6, NatSet
<1> QED
  BY <1>1, <1>3, <1>7 DEF S

\* Reading a source file changes the file of an instruction and never its line.
LEMMA ReferencedNumbers ==
  ASSUME NEW m, NumbersPtx(m), NEW candidates, NEW pick
  PROVE  NumbersPtx(ReadReferenced(m, candidates, Disk, BaseName, pick))
<1> DEFINE By(name) == {p \in candidates : BaseName[p] = name}
           Resolved(path) == IF path \in DOMAIN Disk THEN path
                             ELSE IF By(BaseName[path]) # {} THEN pick[BaseName[path]] ELSE None
           referenced == {m.instructions[i].source_file : i \in DOMAIN m.instructions} \ {None}
           found == {path \in referenced : Resolved(path) \in DOMAIN Disk}
           read == [p \in found |-> Disk[Resolved(p)]]
<1>1. PICK new : new = ReadReferenced(m, candidates, Disk, BaseName, pick)
  OBVIOUS
<1>2. \A p \in DOMAIN read : Listed(read[p])
  BY ReportAssumption DEF IsList, Listed
<1>3. PICK files : files = Update(m.source_files, read)
  BY Zenon
<1>4. new = [m EXCEPT !.source_files = files]
  BY <1>1, <1>3 DEF ReadReferenced
<1> HIDE DEF read
<1>5. \A p \in DOMAIN files : Listed(files[p])
  BY <1>2, <1>3 DEF Update, NumbersPtx
<1>6. /\ DOMAIN new = DOMAIN m /\ new.instructions = m.instructions
      /\ new.by_func_pc = m.by_func_pc /\ new.source_files = files
  BY <1>4 DEF NumbersPtx
<1> QED
  BY <1>1, <1>5, <1>6 DEF NumbersPtx

LEMMA ProvidedNumbers ==
  ASSUME NEW m, NumbersPtx(m), NEW p
  PROVE  NumbersPtx(ReadProvided(m, p, Disk, BaseName))
<1>1. PICK new : new = ReadProvided(m, p, Disk, BaseName)
  OBVIOUS
<1>2. CASE p \in DOMAIN m.source_files \/ p \notin DOMAIN Disk
  BY <1>2 DEF ReadProvided
<1>3. CASE ~(p \in DOMAIN m.source_files \/ p \notin DOMAIN Disk)
  <2>1. PICK old : old = m.instructions
    OBVIOUS
  <2>2. PICK list : list = [i \in DOMAIN old |->
                              IF old[i].source_file # None /\ BaseName[old[i].source_file] = BaseName[p]
                              THEN [old[i] EXCEPT !.source_file = p] ELSE old[i]]
    BY Zenon
  <2>3. PICK files : files = Put(m.source_files, p, Disk[p])
    OBVIOUS
  <2>4. new = [m EXCEPT !.source_files = files, !.instructions = list]
    BY <1>1, <1>3, <2>1, <2>2, <2>3 DEF ReadProvided
  <2>5. /\ DOMAIN new = DOMAIN m /\ new.instructions = list
        /\ new.by_func_pc = m.by_func_pc /\ new.source_files = files
    BY <2>4 DEF NumbersPtx
  <2>6. \A q \in DOMAIN files : Listed(files[q])
    BY <1>3, <2>3, ReportAssumption DEF Put, NumbersPtx, IsList, Listed
  <2>7. DOMAIN old = 1..Len(old) /\ Len(old) \in Nat /\ \A i \in 1..Len(old) : HasLine(old[i])
    BY <2>1, ListedLen DEF NumbersPtx
  <2>8. Listed(list) /\ Len(list) = Len(old)
    <3>1. list = [i \in 1..Len(old) |-> list[i]]
      BY <2>2, <2>7
    <3> QED
      BY <2>7, <3>1, FunctionListed
  <2>9. ASSUME NEW i \in 1..Len(list) PROVE HasLine(list[i])
    <3>1. PICK x : x = old[i]
      OBVIOUS
    <3>2. HasLine(x)
      BY <2>7, <2>8, <3>1
    <3>3. list[i] = x \/ list[i] = [x EXCEPT !.source_file = p]
      BY <2>2, <2>7, <2>8, <3>1
    <3> QED
      BY <3>2, <3>3 DEF HasLine
  <2> QED
    BY <1>1, <2>1, <2>5, <2>6, <2>8, <2>9, Zenon DEF NumbersPtx
<1> QED
  BY <1>2, <1>3

IsLoaded(g, m, order, pick, n) ==
  g = [i \in 0..n |-> IF i = 0 THEN ReadReferenced(m, Range(order), Disk, BaseName, pick)
                      ELSE ReadProvided(g[i - 1], order[i], Disk, BaseName)]

LEMMA LoadedExists ==
  ASSUME NEW m, NEW order, NEW pick, NEW n \in Nat
  PROVE  \E g : IsLoaded(g, m, order, pick, n)
<1> DEFINE S == {k \in Nat : \E g : IsLoaded(g, m, order, pick, k)}
<1>1. 0 \in S
  <2>1. IsLoaded([i \in 0..0 |-> ReadReferenced(m, Range(order), Disk, BaseName, pick)], m, order, pick, 0)
    BY DEF IsLoaded
  <2> QED
    BY <2>1
<1>2. ASSUME NEW k \in Nat, k \in S PROVE k + 1 \in S
  <2>1. PICK g : IsLoaded(g, m, order, pick, k)
    BY <1>2
  <2> DEFINE h == [i \in 0..k + 1 |-> IF i <= k THEN g[i] ELSE ReadProvided(g[k], order[k + 1], Disk, BaseName)]
  <2>2. \A i \in 0..k : g[i] = IF i = 0 THEN ReadReferenced(m, Range(order), Disk, BaseName, pick) ELSE ReadProvided(g[i - 1], order[i], Disk, BaseName)
    BY <2>1 DEF IsLoaded
  <2>3. \A i \in 0..k + 1 : h[i] = IF i = 0 THEN ReadReferenced(m, Range(order), Disk, BaseName, pick) ELSE ReadProvided(h[i - 1], order[i], Disk, BaseName)
    BY <2>2
  <2>4. IsLoaded(h, m, order, pick, k + 1)
    BY <2>3 DEF IsLoaded
  <2> QED
    BY <2>4
<1> HIDE DEF S
<1>3. Nat \subseteq S
  BY <1>1, <1>2, NatSet
<1> QED
  BY <1>3 DEF S

LEMMA LoadedNumbers ==
  ASSUME NEW m, NumbersPtx(m), NEW order, Listed(order), NEW pick
  PROVE  NumbersPtx(load_sources(m, order, pick, Disk, BaseName))
<1> DEFINE n == Len(order)
           g == CHOOSE g : IsLoaded(g, m, order, pick, n)
           S == {k \in Nat : k <= n => NumbersPtx(g[k])}
<1>1. n \in Nat
  BY ListedLen
<1>2. IsLoaded(g, m, order, pick, n)
  <2> HIDE DEF n
  <2> QED
    BY <1>1, LoadedExists
<1>3. load_sources(m, order, pick, Disk, BaseName) = g[n]
  BY DEF load_sources, IsLoaded
<1> HIDE DEF g
<1>4. \A i \in 0..n : g[i] = IF i = 0 THEN ReadReferenced(m, Range(order), Disk, BaseName, pick)
                             ELSE ReadProvided(g[i - 1], order[i], Disk, BaseName)
  <2> HIDE DEF n
  <2> QED
    BY <1>2, Zenon DEF IsLoaded
<1>5. 0 \in S
  <2>1. g[0] = ReadReferenced(m, Range(order), Disk, BaseName, pick)
    BY <1>1, <1>4
  <2> QED
    BY <2>1, ReferencedNumbers
<1>6. ASSUME NEW k \in Nat, k \in S PROVE k + 1 \in S
  <2> SUFFICES ASSUME k + 1 <= n PROVE NumbersPtx(g[k + 1])
    OBVIOUS
  <2>1. k + 1 \in 0..n /\ k + 1 # 0 /\ k + 1 - 1 = k /\ k <= n
    BY <1>1
  <2>2. PICK a, p : a = g[k] /\ p = order[k + 1]
    OBVIOUS
  <2>3. g[k + 1] = ReadProvided(a, p, Disk, BaseName) /\ NumbersPtx(a)
    BY <1>4, <1>6, <2>1, <2>2
  <2> QED
    BY <2>3, ProvidedNumbers
<1> HIDE DEF S
<1>7. Nat \subseteq S
  BY <1>5, <1>6, NatSet
<1> QED
  BY <1>1, <1>3, <1>7 DEF S

USE ReportAssumption

-----------------------------------------------------------------------------
\* How the tool ends.

\* The runs in the report are those of the first k binaries, in their order.
Done(k) ==
  /\ \E S : ran \in Seq(S)
  /\ Len(ran) = k
  /\ \A r \in 1..k : ran[r].binary = args.binaries[r]

Reported ==
  [r \in DOMAIN ran |-> ran[r].binary]
    = IF args.profiling # None THEN <<args.profiling>> ELSE args.binaries

\* A temporary profile exists while the emulator writes it, and the runs that
\* have been read are those that main has come to.
Progress ==
  /\ temp = IF phase = "emulator" THEN {next} ELSE {}
  /\ phase \in {"user", "args", "find"} => args \in Args /\ ran = <<>>
  /\ phase = "find" => args.profiling = None /\ next = 1
  /\ phase \in {"binary", "emulator"} =>
       /\ args \in Args /\ args.profiling = None
       /\ next \in 1..Len(args.binaries) + 1
       /\ Done(next - 1)
  /\ phase = "emulator" => next <= Len(args.binaries)
  /\ phase \in {"extract", "written"} => Reported
  /\ phase = "written" => exit = 0

LEMMA InitProgress == Init => Progress
  BY DEF Init, Progress

\* A part that is added comes last.
LEMMA AddPartDone ==
  ASSUME NEW k \in Nat, Done(k), args' = args, AddPart(args.binaries[k + 1])
  PROVE  Done(k + 1)'
<1>1. PICK S : ran \in Seq(S)
  BY DEF Done
<1>2. PICK x : x.binary = args.binaries[k + 1] /\ ran' = Append(ran, x)
  BY DEF AddPart
<1>3. /\ ran \in Seq(S \cup {x}) /\ x \in S \cup {x}
  BY <1>1
<1>4. /\ ran' \in Seq(S \cup {x})
      /\ Len(ran') = Len(ran) + 1
      /\ \A i \in 1..Len(ran) : ran'[i] = ran[i]
      /\ ran'[Len(ran) + 1] = x
  BY <1>2, <1>3, AppendProperties
<1>5. \A r \in 1..k + 1 : r \in 1..k \/ r = k + 1
  OBVIOUS
<1> QED
  BY <1>2, <1>4, <1>5 DEF Done

\* After the last binary the report is of all of them.
LEMMA DoneReported ==
  ASSUME args \in Args, args.profiling = None, Done(Len(args.binaries))
  PROVE  Reported
<1>1. args.binaries \in Seq(Binaries)
  OBVIOUS
<1>2. DOMAIN ran = 1..Len(args.binaries)
  BY DEF Done
<1>3. args.binaries = [r \in 1..Len(args.binaries) |-> args.binaries[r]]
  BY <1>1
<1>4. [r \in DOMAIN ran |-> ran[r].binary] = [r \in 1..Len(args.binaries) |-> args.binaries[r]]
  BY <1>2 DEF Done
<1> QED
  BY <1>3, <1>4, Zenon DEF Reported

LEMMA StepProgress == Progress /\ [Next]_vars => Progress'
<1> SUFFICES ASSUME Progress, [Next]_vars PROVE Progress'
  OBVIOUS
<1> USE DEF Goto, Return
<1>1. CASE RunByUser
  BY <1>1 DEF RunByUser, Progress
<1>2. CASE ReadProfile
  <2>0. phase = "args" /\ args' = args /\ temp' = temp
    BY <1>2 DEF ReadProfile
  <2>1. CASE args.profiling = None
    <3>1. UNCHANGED ran /\ (phase' = "exit" \/ (phase' = "find" /\ next' = 1))
      BY <1>2, <2>1 DEF ReadProfile
    <3> QED
      BY <2>0, <2>1, <3>1 DEF Progress
  <2>2. CASE phase' = "exit"
    BY <2>0, <2>2 DEF Progress
  <2>3. CASE args.profiling # None /\ AddPart(args.profiling) /\ phase' = "extract"
    <3>1. PICK x : x.binary = args.profiling /\ ran' = Append(<<>>, x)
      BY <2>0, <2>3 DEF AddPart, Progress
    <3>2. Append(<<>>, x) = <<x>>
      OBVIOUS
    <3>3. DOMAIN ran' = {1} /\ ran'[1] = x
      BY <3>1, <3>2
    <3>4. [r \in DOMAIN ran' |-> ran'[r].binary] = <<args.profiling>>
      BY <3>1, <3>3
    <3> QED
      BY <2>0, <2>3, <3>4 DEF Progress, Reported
  <2> QED
    BY <1>2, <2>1, <2>2, <2>3 DEF ReadProfile
<1>3. CASE FindCuemu
  <2>0. phase = "find" /\ UNCHANGED <<args, ran, temp>>
    BY <1>3 DEF FindCuemu
  <2>1. CASE phase' = "exit"
    BY <2>0, <2>1 DEF Progress
  <2>2. CASE phase' = "binary" /\ next' = 1
    <3>1. args \in Args /\ ran = <<>> /\ Len(args.binaries) \in Nat
      BY <2>0 DEF Progress
    <3>2. Done(0)'
      <4>1. ran' \in Seq({}) /\ Len(ran') = 0
        BY <2>0, <3>1
      <4> QED
        BY <4>1 DEF Done
    <3> QED
      BY <2>0, <2>2, <3>1, <3>2 DEF Progress
  <2> QED
    BY <1>3, <2>1, <2>2 DEF FindCuemu
<1>4. CASE RunEmulator
  <2>0. phase = "binary" /\ UNCHANGED <<args, ran, next>> /\ next <= Len(args.binaries)
    BY <1>4 DEF RunEmulator
  <2>1. CASE phase' = "exit" /\ temp' = temp
    BY <2>0, <2>1 DEF Progress
  <2>2. CASE phase' = "emulator" /\ temp' = temp \cup {next}
    BY <2>0, <2>2 DEF Progress, Done
  <2> QED
    BY <1>4, <2>1, <2>2 DEF RunEmulator
<1>5. CASE EmulatorReturned
  <2>0. /\ phase = "emulator" /\ UNCHANGED <<args>> /\ temp' = temp \ {next}
        /\ args \in Args /\ args.profiling = None
        /\ next \in 1..Len(args.binaries) + 1 /\ next <= Len(args.binaries)
        /\ Done(next - 1) /\ temp = {next}
    BY <1>5 DEF EmulatorReturned, Progress
  <2>1. CASE phase' = "exit"
    BY <2>0, <2>1 DEF Progress
  <2>2. CASE AddPart(args.binaries[next]) /\ phase' = "binary" /\ next' = next + 1
    <3>1. PICK k \in Nat : k = next - 1
      BY <2>0
    <3>2. next = k + 1 /\ next' - 1 = k + 1 /\ next' \in 1..Len(args.binaries) + 1
      BY <2>0, <2>2, <3>1
    <3>3. Done(k) /\ AddPart(args.binaries[k + 1])
      BY <2>0, <2>2, <3>1, <3>2
    <3>4. Done(k + 1)'
      BY <2>0, <3>3, AddPartDone
    <3>5. Done(next - 1)'
      BY <3>2, <3>4, Zenon DEF Done
    <3> QED
      BY <2>0, <2>2, <3>2, <3>5 DEF Progress
  <2> QED
    BY <1>5, <2>1, <2>2 DEF EmulatorReturned
<1>6. CASE AllBinariesRun
  <2>0. /\ phase = "binary" /\ phase' = "extract" /\ UNCHANGED <<args, ran, temp>>
        /\ args \in Args /\ args.profiling = None
        /\ next \in 1..Len(args.binaries) + 1 /\ next > Len(args.binaries)
        /\ Done(next - 1) /\ temp = {}
    BY <1>6 DEF AllBinariesRun, Progress
  <2>1. Len(args.binaries) \in Nat
    BY <2>0
  <2>2. next - 1 = Len(args.binaries)
    BY <2>0, <2>1
  <2>3. Reported
    BY <2>0, <2>2, DoneReported
  <2> QED
    BY <2>0, <2>3 DEF Progress, Reported
<1>7. CASE ExtractNext
  BY <1>7 DEF ExtractNext, Progress, Reported
<1>8. CASE WriteReport
  BY <1>8 DEF WriteReport, Progress, Reported
<1>9. CASE Open
  BY <1>9 DEF Open, Progress
<1>10. CASE Emulate \/ Browse \/ UNCHANGED vars
  <2>1. UNCHANGED <<args, phase, next, temp, exit, ran>>
    BY <1>10 DEF Emulate, Browse, vars, main_state
  <2> QED
    BY <2>1 DEF Progress, Done, Reported
<1> QED
  BY <1>1, <1>2, <1>3, <1>4, <1>5, <1>6, <1>7, <1>8, <1>9, <1>10 DEF Next

\* The tool leaves no temporary profile behind, and reports, with exit code 0,
\* on the binaries it was given and no others, in their order.
THEOREM SpecOutcome == Spec => []Outcome
<1>1. Progress => Outcome
  BY DEF Progress, Outcome, Written, Reported
<1> QED
  BY <1>1, InitProgress, StepProgress, PTL DEF Spec

-----------------------------------------------------------------------------
\* What the page's two grids mark.

\* The sids that a row of section s has, or null.
SidsOf(s) == {null} \cup {page[s].asm[n] : n \in DOMAIN page[s].asm}
                    \cup {page[s].src[n] : n \in DOMAIN page[s].src}

\* The grids of a section are what _doHl made of them: for the pinned sid, or
\* for the one under the mouse.
Painted(s) ==
  \E pinned, sid, cls :
    /\ grids[s] = _doHl(s, pinned, sid, cls)
    /\ pinned # null => sid = pinned /\ cls = "pinned"
    /\ pinned = null => sid \in SidsOf(s) /\ (sid # null => cls = "hl")

Paint ==
  /\ DOMAIN grids = DOMAIN page
  /\ \A s \in DOMAIN page : grids[s] = <<>> \/ Painted(s)

LEMMA InitPaint == PageInit => Paint
  BY DEF PageInit, Paint

LEMMA LoadPaint ==
  ASSUME NEW p, load(p)
  PROVE  Paint'
BY DEF load, Paint

\* A step that keeps the page and the grids of a section keeps what they show.
LEMMA PaintedStays ==
  ASSUME NEW t, Painted(t), page' = page, grids'[t] = grids[t]
  PROVE  Painted(t)'
<1>1. PICK pinned, sid, cls :
        /\ grids[t] = _doHl(t, pinned, sid, cls)
        /\ pinned # null => sid = pinned /\ cls = "pinned"
        /\ pinned = null => sid \in SidsOf(t) /\ (sid # null => cls = "hl")
  BY DEF Painted
<1>2. _doHl(t, pinned, sid, cls)' = _doHl(t, pinned, sid, cls)
  BY DEF _doHl
<1>3. SidsOf(t)' = SidsOf(t)
  BY DEF SidsOf
<1>4. /\ grids'[t] = _doHl(t, pinned, sid, cls)'
      /\ pinned # null => sid = pinned /\ cls = "pinned"
      /\ pinned = null => sid \in SidsOf(t)' /\ (sid # null => cls = "hl")
  BY <1>1, <1>2, <1>3
<1> QED
  BY <1>4 DEF Painted

\* A step that paints the grids of one section and keeps the page.
LEMMA RepaintPaint ==
  ASSUME Paint, NEW s \in DOMAIN page, NEW pinned, NEW sid, NEW cls, page' = page,
         grids' = [grids EXCEPT ![s] = _doHl(s, pinned, sid, cls)],
         pinned # null => sid = pinned /\ cls = "pinned",
         pinned = null => sid \in SidsOf(s) /\ (sid # null => cls = "hl")
  PROVE  Paint'
<1>1. DOMAIN grids' = DOMAIN page'
  BY DEF Paint
<1>2. Painted(s)'
  <2>1. grids'[s] = _doHl(s, pinned, sid, cls)
    BY DEF Paint
  <2>2. _doHl(s, pinned, sid, cls)' = _doHl(s, pinned, sid, cls) /\ SidsOf(s)' = SidsOf(s)
    BY DEF _doHl, SidsOf
  <2> QED
    BY <2>1, <2>2, Zenon DEF Painted, _doHl, SidsOf
<1>3. ASSUME NEW t \in DOMAIN page, t # s PROVE grids'[t] = <<>> \/ Painted(t)'
  <2>1. grids'[t] = grids[t]
    BY <1>3 DEF Paint
  <2>2. ASSUME Painted(t) PROVE Painted(t)'
    BY <2>1, <2>2, PaintedStays
  <2> QED
    BY <2>1, <2>2 DEF Paint
<1> QED
  BY <1>1, <1>2, <1>3 DEF Paint

LEMMA KeepPaint ==
  ASSUME Paint, page' = page, grids' = grids
  PROVE  Paint'
<1>1. \A t : Painted(t) => Painted(t)'
  BY PaintedStays
<1> QED
  BY <1>1 DEF Paint

LEMMA BrowsePaint ==
  ASSUME Paint, PageNext
  PROVE  Paint'
<1> USE DEF Sections
<1>1. CASE UNCHANGED <<page, grids>>
  BY <1>1, KeepPaint
<1>2. ASSUME NEW s \in Sections, _saInitGrids(s) PROVE Paint'
  <2>1. CASE HasSplit(s)
    BY <1>2, <2>1, RepaintPaint, Zenon DEF _saInitGrids, SidsOf
  <2> QED
    BY <1>2, <2>1, KeepPaint DEF _saInitGrids
<1>3. ASSUME NEW s \in Sections, onCellMouseLeave(s) PROVE Paint'
  BY <1>3, RepaintPaint, Zenon DEF onCellMouseLeave, SidsOf
<1>4. ASSUME NEW s \in Sections, NEW panel \in Panels, NEW n \in DOMAIN page[s][panel]
      PROVE  page[s][panel][n] \in SidsOf(s)
  BY <1>4 DEF Panels, SidsOf
<1>5. ASSUME NEW s \in Sections, NEW panel \in Panels, NEW n \in DOMAIN page[s][panel],
             onCellMouseOver(s, panel, n)
      PROVE  Paint'
  BY <1>4, <1>5, RepaintPaint, Zenon DEF onCellMouseOver
<1>6. ASSUME NEW s \in Sections, NEW panel \in Panels, NEW n \in DOMAIN page[s][panel],
             onRowClicked(s, panel, n)
      PROVE  Paint'
  <2>1. CASE page[s][panel][n] = grids[s][1].pinned
    <3>1. grids' = [grids EXCEPT ![s] = _doHl(s, null, null, "null")] /\ page' = page
      BY <1>6, <2>1 DEF onRowClicked
    <3> QED
      BY <3>1, RepaintPaint, Zenon DEF SidsOf
  <2>2. CASE page[s][panel][n] # grids[s][1].pinned
    <3> DEFINE sid == page[s][panel][n]
    <3>1. /\ grids' = [grids EXCEPT ![s] = _doHl(s, sid, sid, "pinned")] /\ page' = page
          /\ sid # null
      BY <1>6, <2>2 DEF onRowClicked
    <3> HIDE DEF sid
    <3> QED
      BY <3>1, RepaintPaint, Zenon
  <2> QED
    BY <2>1, <2>2
<1>7. ASSUME NEW s \in Sections, showKernel(s) PROVE UNCHANGED <<page, grids>>
  BY <1>7 DEF showKernel
<1>8. ASSUME NEW s \in Sections, NEW t, switchTab(s, t) PROVE UNCHANGED <<page, grids>>
  BY <1>8 DEF switchTab
<1>9. showSummary => UNCHANGED <<page, grids>>
  BY DEF showSummary
<1> QED
  BY <1>1, <1>2, <1>3, <1>5, <1>6, <1>7, <1>8, <1>9 DEF PageNext

LEMMA StepPaint == Paint /\ [Next]_vars => Paint'
<1> SUFFICES ASSUME Paint, [Next]_vars PROVE Paint'
  OBVIOUS
<1>1. CASE UNCHANGED ui
  BY <1>1, KeepPaint DEF ui
<1>2. CASE Open
  BY <1>2, LoadPaint DEF Open
<1>3. CASE Browse
  BY <1>3, BrowsePaint DEF Browse
<1>4. ASSUME RunByUser \/ ReadProfile \/ FindCuemu \/ RunEmulator \/ EmulatorReturned
               \/ AllBinariesRun \/ ExtractNext \/ WriteReport \/ Emulate
      PROVE  UNCHANGED ui
  BY <1>4 DEF RunByUser, ReadProfile, FindCuemu, RunEmulator, EmulatorReturned,
              AllBinariesRun, ExtractNext, WriteReport, Emulate
<1> QED
  BY <1>1, <1>2, <1>3, <1>4 DEF Next, vars

\* What _doHl marks are the rows of its sid, in both panels.
LEMMA PaintedCorresponds ==
  ASSUME Paint, NEW s \in DOMAIN page, grids[s] # <<>>
  PROVE  LET pinned == grids[s][1].pinned
         IN  IF pinned # null
             THEN \A panel \in Panels :
                    Marked(s, panel, "pinned") = RowsOf(s, panel, pinned)
                    /\ Marked(s, panel, "hl") = {}
             ELSE \E sid \in SidsOf(s) : \A panel \in Panels :
                    /\ Marked(s, panel, "pinned") = {}
                    /\ Marked(s, panel, "hl") = IF sid = null THEN {} ELSE RowsOf(s, panel, sid)
<1>1. PICK pinned, sid, cls :
        /\ grids[s] = _doHl(s, pinned, sid, cls)
        /\ pinned # null => sid = pinned /\ cls = "pinned"
        /\ pinned = null => sid \in SidsOf(s) /\ (sid # null => cls = "hl")
  BY DEF Paint, Painted
<1>2. /\ grids[s][1].pinned = pinned
      /\ grids[s][1]["src"] = _setHl(page[s]["src"], sid, cls)
      /\ grids[s][1]["asm"] = _setHl(page[s]["asm"], sid, cls)
  BY <1>1 DEF _doHl
<1>3. \A panel \in Panels : grids[s][1][panel] = _setHl(page[s][panel], sid, cls)
  BY <1>2 DEF Panels
<1>4. ASSUME NEW panel \in Panels, NEW n \in DOMAIN page[s][panel]
      PROVE  grids[s][1][panel][n] = IF sid # null /\ page[s][panel][n] = sid THEN cls ELSE "null"
  BY <1>3, <1>4, Zenon DEF _setHl
<1>5. CASE pinned # null
  BY <1>1, <1>2, <1>4, <1>5 DEF Marked, RowsOf
<1>6. CASE pinned = null
  BY <1>1, <1>2, <1>4, <1>6 DEF Marked, RowsOf
<1> QED
  BY <1>5, <1>6

\* Whatever the mouse does, both grids mark all rows of one line or none, and
\* those of a pinned line stay pinned.
THEOREM SpecCorrespondence == Spec => []Correspondence
<1>1. Paint => Correspondence
  BY PaintedCorresponds, Zenon DEF Correspondence, Sections, SidsOf
<1>2. Init => Paint
  BY InitPaint DEF Init
<1> QED
  BY <1>1, <1>2, StepPaint, PTL DEF Spec

\* The launch headers of a profile, by which launch_counter numbers them.
LaunchLines(lines) == {i \in DOMAIN lines : lines[i].kind = "Launch"}

LEMMA LaunchLinesFinite ==
  ASSUME NEW lines, Listed(lines)
  PROVE  IsFiniteSet(LaunchLines(lines))
<1>1. Len(lines) \in Nat /\ LaunchLines(lines) \subseteq 1..Len(lines)
  BY ListedLen DEF LaunchLines
<1>2. IsFiniteSet(1..Len(lines))
  BY <1>1, FS_Interval
<1> QED
  BY <1>1, <1>2, FS_Subset

\* A header makes one more; a buffer makes none.
LEMMA CountLaunch ==
  ASSUME NEW lines, Listed(lines), NEW l, l.kind = "Launch"
  PROVE  Cardinality(LaunchLines(Append(lines, l))) = Cardinality(LaunchLines(lines)) + 1
<1>1. PICK t : t = Append(lines, l)
  BY Zenon
<1>2. PICK n \in Nat : n = Len(lines)
  BY ListedLen
<1>3. /\ Listed(t) /\ Len(t) = n + 1 /\ t[n + 1] = l
      /\ \A i \in 1..n : t[i] = lines[i]
  BY <1>1, <1>2, AppendListed
<1>4. DOMAIN t = 1..n + 1 /\ DOMAIN lines = 1..n
  BY <1>2, <1>3, ListedLen
<1>5. LaunchLines(t) = LaunchLines(lines) \cup {n + 1}
  <2>1. ASSUME NEW i \in 1..n + 1 PROVE i \in 1..n \/ i = n + 1
    OBVIOUS
  <2> QED
    BY <1>3, <1>4, <2>1 DEF LaunchLines
<1>6. n + 1 \notin LaunchLines(lines)
  BY <1>4 DEF LaunchLines
<1> QED
  BY <1>1, <1>5, <1>6, LaunchLinesFinite, FS_AddElement, Zenon

LEMMA CountNoLaunch ==
  ASSUME NEW lines, Listed(lines), NEW t, Listed(t), NoLaunch(t)
  PROVE  LaunchLines(lines \o t) = LaunchLines(lines)
<1>1. PICK s : s = lines \o t
  BY Zenon
<1>2. /\ Listed(s) /\ Len(s) = Len(lines) + Len(t)
      /\ \A i \in 1..Len(lines) : s[i] = lines[i]
      /\ \A i \in 1..Len(t) : s[Len(lines) + i] = t[i]
  BY <1>1, ConcatListed
<1>3. Len(lines) \in Nat /\ Len(t) \in Nat
  BY ListedLen
<1>4. DOMAIN s = 1..Len(s) /\ DOMAIN lines = 1..Len(lines)
  BY <1>2, ListedLen
<1>5. ASSUME NEW i \in 1..Len(s), i \notin 1..Len(lines) PROVE s[i].kind # "Launch"
  <2>1. i - Len(lines) \in 1..Len(t) /\ Len(lines) + (i - Len(lines)) = i
    BY <1>2, <1>3, <1>5
  <2> QED
    BY <1>2, <2>1, Zenon DEF NoLaunch
<1>6. \A i \in 1..Len(lines) : i \in 1..Len(s)
  BY <1>2, <1>3
<1> QED
  BY <1>1, <1>2, <1>4, <1>5, <1>6 DEF LaunchLines

-----------------------------------------------------------------------------
\* The profile of the run so far, and the launches that are in progress.
Recording ==
  /\ program \in Binaries \cup {None}
  /\ DOMAIN running = Hosts
  /\ launch_counter = Launched /\ launch_counter \in Nat
  /\ PartRead(output, flushed, overlapped, launch_counter - 1)
  /\ \A h \in Busy :
       /\ program # None /\ output # <<>>
       /\ running[h].function \in DOMAIN Paths[program]
       /\ \/ launch_counter - 1 = running[h].nth
          \/ {launch_counter - 1, running[h].nth} \subseteq overlapped

LEMMA EmptyLaunched ==
  ASSUME output = <<>>
  PROVE  Launched = 0
<1>1. DOMAIN output = {}
  BY ListedLen
<1>2. {i \in DOMAIN output : output[i].kind = "Launch"} = {}
  BY <1>1
<1> QED
  BY <1>2, FS_EmptySet DEF Launched

LEMMA InitRecording == EmulatorInit => Recording
<1> SUFFICES ASSUME EmulatorInit PROVE Recording
  OBVIOUS
<1>1. Busy = {} /\ DOMAIN running = Hosts
  BY DEF EmulatorInit, Busy
<1>2. Launched = 0
  BY EmptyLaunched DEF EmulatorInit
<1>3. PartRead(output, flushed, overlapped, launch_counter - 1)
  BY EmptyPart DEF EmulatorInit
<1> QED
  BY <1>1, <1>2, <1>3 DEF EmulatorInit, Recording

\* An empty profile, when nothing runs.
LEMMA EmptyRecording ==
  ASSUME Recording, program = None, running' = running, program' \in Binaries \cup {None},
         output' = <<>>, launch_counter' = 0, flushed' = <<>>
  PROVE  Recording'
<1>1. Busy = {}
  BY DEF Recording
<1>2. Busy' = {}
  BY <1>1 DEF Busy
<1>3. Launched' = 0
  <2>1. DOMAIN output' = {}
    OBVIOUS
  <2>2. {i \in DOMAIN output' : output'[i].kind = "Launch"} = {}
    BY <2>1
  <2> QED
    BY <2>2, FS_EmptySet DEF Launched
<1>4. PartRead(output', flushed', overlapped', launch_counter' - 1)
  BY EmptyPart
<1>5. PartRead(output, flushed, overlapped, launch_counter - 1)'
  BY <1>4 DEF PartRead, Reads
<1> QED
  BY <1>2, <1>3, <1>5 DEF Recording

LEMMA KeepRecording ==
  ASSUME Recording, UNCHANGED <<program, output, launch_counter, running, flushed, overlapped>>
  PROVE  Recording'
<1>1. Busy' = Busy /\ Launched' = Launched
  BY DEF Busy, Launched
<1>2. PartRead(output, flushed, overlapped, launch_counter - 1)'
  BY DEF Recording, PartRead, Reads
<1> QED
  BY <1>1, <1>2 DEF Recording

\* One lemma for each step of the emulator.
LEMMA LaunchRecording ==
  ASSUME Recording, NEW h \in Hosts, NEW f \in DOMAIN Paths[program], BeginLaunch(h, f)
  PROVE  Recording'
<1>1. PICK l : l = [kind |-> "Launch", id |-> launch_counter, name |-> f]
  BY Zenon
<1>2. /\ program # None /\ program' = program /\ flushed' = flushed
      /\ output' = Append(output, l)
      /\ launch_counter' = launch_counter + 1
      /\ running' = [running EXCEPT ![h] = [nth |-> Launched, function |-> f]]
      /\ overlapped' = Overlap
  BY <1>1 DEF BeginLaunch
<1>3. Listed(output) /\ launch_counter = Launched /\ launch_counter \in Nat
  BY DEF Recording, PartRead
<1>4. overlapped \subseteq overlapped'
  BY <1>2 DEF Overlap
<1>5. PartRead(output, flushed, overlapped, launch_counter - 1)'
  <2>1. PartRead(output', flushed', overlapped', launch_counter)
    BY <1>1, <1>2, <1>4, LaunchPart DEF Recording
  <2>2. launch_counter' - 1 = launch_counter
    BY <1>2, <1>3
  <2>3. PartRead(output', flushed', overlapped', launch_counter' - 1)
    BY <2>1, <2>2
  <2> QED
    BY <2>3 DEF PartRead, Reads
<1>6. Launched' = Launched + 1
  <2>1. Launched = Cardinality(LaunchLines(output)) /\ Launched' = Cardinality(LaunchLines(output'))
    BY DEF Launched, LaunchLines
  <2>2. l.kind = "Launch"
    BY <1>1
  <2> QED
    BY <1>2, <1>3, <2>1, <2>2, CountLaunch
<1>7. output' # <<>>
  <2>1. Len(output') = Len(output) + 1 /\ Len(output) \in Nat
    BY <1>2, <1>3, AppendListed, ListedLen
  <2>2. Len(<<>>) = 0
    OBVIOUS
  <2> QED
    BY <2>1, <2>2
<1>8. DOMAIN running' = Hosts /\ \A g \in Hosts :
        running'[g] = IF g = h THEN [nth |-> Launched, function |-> f] ELSE running[g]
  BY <1>2 DEF Recording
<1>9. ASSUME NEW g \in Busy'
      PROVE  /\ running'[g].function \in DOMAIN Paths[program]
             /\ \/ launch_counter' - 1 = running'[g].nth
                \/ {launch_counter' - 1, running'[g].nth} \subseteq overlapped'
  <2>1. g \in Hosts /\ launch_counter' - 1 = Launched
    BY <1>2, <1>3, <1>9 DEF Busy
  <2>2. CASE g = h
    BY <1>8, <2>1, <2>2
  <2>3. CASE g # h
    <3>1. running'[g] = running[g] /\ g \in Busy
      BY <1>8, <1>9, <2>1, <2>3 DEF Busy
    <3>2. {Launched, running[g].nth} \subseteq overlapped'
      BY <1>2, <3>1 DEF Overlap
    <3> QED
      BY <2>1, <3>1, <3>2 DEF Recording
  <2> QED
    BY <2>2, <2>3
<1> QED
  BY <1>2, <1>3, <1>5, <1>6, <1>7, <1>8, <1>9 DEF Recording

\* What a busy host flushes are records of a function of the program.
LEMMA BusyBuffer ==
  ASSUME Recording, NEW h \in Busy, NEW path \in Paths[program][running[h].function]
  PROVE  AllProper(Buffer(Modules[program], running[h].function, path))
<1>1. PICK f : f = running[h].function
  OBVIOUS
<1>2. program \in Binaries /\ f \in DOMAIN Paths[program]
  BY <1>1 DEF Recording
<1>3. PICK text : text = Printed[program]
  OBVIOUS
<1>4. IsText(text) /\ f \in DOMAIN Make(text).functions
  BY <1>2, <1>3, ProfileAssumption
<1>5. PICK m : m = Make(text)
  OBVIOUS
<1>6. Modules[program] = m
  BY <1>2, <1>3, <1>5 DEF Modules
<1>7. m.functions[f].pc \in Nat
  BY <1>4, <1>5, MakeNumbers
<1>8. path \in Seq(Steps)
  BY <1>1, <1>2, ProfileAssumption, Zenon DEF Steps
<1> QED
  BY <1>1, <1>6, <1>7, <1>8, BufferProper

\* What a busy host writes of a buffer.
LEMMA WriteRecording ==
  ASSUME Recording, NEW h \in Busy, NEW buf, AllProper(buf),
         output' = output \o Lines(running[h].function, buf),
         flushed' = flushed \o Of(running[h], buf),
         UNCHANGED <<launch_counter, overlapped>>
  PROVE  /\ PartRead(output, flushed, overlapped, launch_counter - 1)'
         /\ Launched' = Launched
         /\ output' # <<>>
<1>1. PICK t : t = Lines(running[h].function, buf)
  OBVIOUS
<1>2. /\ Listed(output) /\ output # <<>>
      /\ PartRead(output, flushed, overlapped, launch_counter - 1)
      /\ \/ launch_counter - 1 = running[h].nth
         \/ {launch_counter - 1, running[h].nth} \subseteq overlapped
  BY DEF Recording, PartRead
<1>3. Listed(t) /\ NoLaunch(t)
  BY <1>1, LinesListed DEF AllProper
<1>4. PartRead(output', flushed', overlapped', launch_counter' - 1)
  <2>1. PICK by : by = running[h]
    OBVIOUS
  <2>2. PartRead(output \o Lines(by.function, buf), flushed \o Of(by, buf), overlapped,
                 launch_counter - 1)
    BY <1>2, <2>1, FlushPart
  <2> QED
    BY <2>1, <2>2
<1>5. Launched' = Launched
  <2>1. LaunchLines(output') = LaunchLines(output)
    BY <1>1, <1>2, <1>3, CountNoLaunch
  <2> QED
    BY <2>1, Zenon DEF Launched, LaunchLines
<1>6. output' # <<>>
  <2>1. Len(output') = Len(output) + Len(t) /\ Len(output) \in Nat /\ Len(t) \in Nat
    BY <1>1, <1>2, <1>3, ConcatListed, ListedLen
  <2>2. Len(output) # 0 /\ Len(<<>>) = 0
    BY <1>2 DEF Listed
  <2> QED
    BY <2>1, <2>2
<1>7. PartRead(output, flushed, overlapped, launch_counter - 1)'
  BY <1>4, Zenon DEF PartRead, Reads
<1> QED
  BY <1>5, <1>6, <1>7

LEMMA FlushRecording ==
  ASSUME Recording, NEW h \in Busy, NEW path \in Paths[program][running[h].function],
         Flush(h, path)
  PROVE  Recording'
<1>1. PICK buf : buf = Buffer(Modules[program], running[h].function, path)
  OBVIOUS
<1>2. /\ output' = output \o Lines(running[h].function, buf)
      /\ flushed' = flushed \o Of(running[h], buf)
      /\ UNCHANGED <<program, status, launch_counter, running, overlapped>>
  BY <1>1 DEF Flush
<1>3. AllProper(buf)
  BY <1>1, BusyBuffer
<1>4. /\ PartRead(output, flushed, overlapped, launch_counter - 1)'
      /\ Launched' = Launched /\ output' # <<>>
  BY <1>2, <1>3, WriteRecording, Zenon
<1>5. Busy' = Busy
  BY <1>2 DEF Busy
<1> QED
  BY <1>2, <1>4, <1>5 DEF Recording

LEMMA TornRecording ==
  ASSUME Recording, NEW h \in Busy, NEW path \in Paths[program][running[h].function],
         NEW signal, Torn(h, path, signal)
  PROVE  Recording'
<1>1. PICK buf : buf = Buffer(Modules[program], running[h].function, path)
  OBVIOUS
<1>2. PICK n \in DOMAIN buf : \E r \in Cut(buf[n]) :
        LET left == Append(SubSeq(buf, 1, n - 1), r)
        IN  /\ output' = output \o Lines(running[h].function, left)
            /\ flushed' = flushed \o Of(running[h], left)
  BY <1>1, Zenon DEF Torn
<1>8. PICK r \in Cut(buf[n]) :
        LET left == Append(SubSeq(buf, 1, n - 1), r)
        IN  /\ output' = output \o Lines(running[h].function, left)
            /\ flushed' = flushed \o Of(running[h], left)
  BY <1>2, Zenon
<1>3. /\ program' = None /\ running' = [g \in Hosts |-> Idle]
      /\ UNCHANGED <<launch_counter, overlapped>>
  BY DEF Torn
<1>4. PICK left : left = Append(SubSeq(buf, 1, n - 1), r)
  BY Zenon
<1>5. AllProper(left)
  <2>1. AllProper(buf)
    BY <1>1, BusyBuffer
  <2> QED
    BY <1>4, <2>1, TornProper
<1>6. /\ PartRead(output, flushed, overlapped, launch_counter - 1)'
      /\ Launched' = Launched
  BY <1>3, <1>4, <1>5, <1>8, WriteRecording, Zenon
<1>7. Busy' = {} /\ DOMAIN running' = Hosts
  BY <1>3 DEF Busy
<1> QED
  BY <1>3, <1>6, <1>7 DEF Recording

LEMMA EndRecording ==
  ASSUME Recording, NEW h \in Hosts, EndLaunch(h)
  PROVE  Recording'
<1>1. /\ running' = [running EXCEPT ![h] = Idle]
      /\ UNCHANGED <<program, output, launch_counter, flushed, overlapped>>
  BY DEF EndLaunch
<1>2. Launched' = Launched /\ PartRead(output, flushed, overlapped, launch_counter - 1)'
  BY <1>1 DEF Launched, Recording, PartRead, Reads
<1>3. DOMAIN running' = Hosts /\ \A g \in Busy' : g \in Busy /\ running'[g] = running[g]
  BY <1>1 DEF Busy, Recording
<1> QED
  BY <1>1, <1>2, <1>3 DEF Recording

LEMMA ExitRecording ==
  ASSUME Recording, NEW code, Exit(code)
  PROVE  Recording'
<1>1. /\ Busy = {} /\ program' = None
      /\ UNCHANGED <<output, launch_counter, running, flushed, overlapped>>
  BY DEF Exit
<1>2. Launched' = Launched /\ PartRead(output, flushed, overlapped, launch_counter - 1)'
  BY <1>1, Zenon DEF Launched, Recording, PartRead, Reads
<1>3. Busy' = {}
  BY <1>1 DEF Busy
<1> QED
  BY <1>1, <1>2, <1>3 DEF Recording

LEMMA EmulatorRecording ==
  ASSUME Recording, EmulatorNext
  PROVE  Recording'
<1>1. ASSUME NEW h \in Hosts, NEW f \in DOMAIN Paths[program], BeginLaunch(h, f)
      PROVE  Recording'
  BY <1>1, LaunchRecording
<1>2. ASSUME NEW h \in Hosts, running[h] # Idle, NEW path \in Paths[program][running[h].function],
             Flush(h, path) \/ Torn(h, path, 9)
      PROVE  Recording'
  <2>1. h \in Busy
    BY <1>2 DEF Busy
  <2> QED
    BY <1>2, <2>1, FlushRecording, TornRecording, Zenon
<1> QED
  BY <1>1, <1>2, EndRecording, ExitRecording DEF EmulatorNext

LEMMA StartRecording ==
  ASSUME Recording, NEW b \in Binaries, Start(b)
  PROVE  Recording'
<1>1. /\ program = None /\ running' = running /\ program' \in Binaries \cup {None}
      /\ output' = <<>> /\ launch_counter' = 0 /\ flushed' = <<>>
  BY DEF Start
<1> QED
  BY <1>1, EmptyRecording

\* Each part is the profile of its run; nothing runs where main has read the
\* last profile or has none yet, and what the user runs is a program.
AllRead ==
  /\ Listed(parts) /\ Listed(ran) /\ Len(parts) = Len(ran)
  /\ \A r \in 1..Len(ran) :
       \E launch : PartRead(parts[r], ran[r].flushed, ran[r].overlapped, launch)
Stopped ==
  /\ phase \in {"find", "binary", "extract", "written"} => program = None
  /\ phase = "user" => args.profiling # None
ReadInv == Recording /\ AllRead /\ Stopped

\* Before the first profile is read there are no rows.
LEMMA NothingRead ==
  ASSUME NEW p, NEW r, p = <<>>, r = <<>>
  PROVE  Listed(p) /\ Listed(r) /\ Len(p) = 0 /\ Len(r) = 0
<1>1. <<>> \in Seq({}) /\ Len(<<>>) = 0
  OBVIOUS
<1> QED
  BY <1>1 DEF Listed

LEMMA InitRead == Init => ReadInv
<1> SUFFICES ASSUME Init PROVE ReadInv
  OBVIOUS
<1>1. /\ EmulatorInit /\ parts = <<>> /\ ran = <<>> /\ program = None
      /\ phase = "user" => args.profiling # None
  BY DEF Init, EmulatorInit
<1>2. AllRead
  BY <1>1, NothingRead DEF AllRead
<1>3. Recording
  BY <1>1, InitRecording
<1>4. Stopped
  BY <1>1 DEF Stopped
<1> QED
  BY ONLY <1>2, <1>3, <1>4, Zenon DEF ReadInv

LEMMA KeepAllRead ==
  ASSUME AllRead, UNCHANGED <<parts, ran>>
  PROVE  AllRead'
<1>1. parts' = parts /\ ran' = ran
  OBVIOUS
<1>2. \A r \in 1..Len(ran) :
        \E launch : PartRead(parts[r], ran[r].flushed, ran[r].overlapped, launch)
  BY DEF AllRead
<1>3. \A r \in 1..Len(ran') :
        \E launch : PartRead(parts'[r], ran'[r].flushed, ran'[r].overlapped, launch)
  BY ONLY <1>1, <1>2
<1>4. Listed(parts') /\ Listed(ran') /\ Len(parts') = Len(ran')
  BY <1>1 DEF AllRead
<1> QED
  BY ONLY <1>3, <1>4 DEF AllRead

\* The profile of a run becomes a part when main reads it.
LEMMA AddPartRead ==
  ASSUME AllRead, Recording, NEW b, AddPart(b)
  PROVE  AllRead'
<1>1. PICK x : x = [binary |-> b, failed |-> status # 0, flushed |-> flushed,
                    overlapped |-> overlapped]
  BY Zenon
<1>2. parts' = Append(parts, output) /\ ran' = Append(ran, x)
  BY <1>1 DEF AddPart
<1>3. x.flushed = flushed /\ x.overlapped = overlapped
  BY <1>1
<1>4. PICK n \in Nat : n = Len(parts) /\ n = Len(ran)
  BY ListedLen DEF AllRead
<1>5. /\ Listed(parts') /\ Len(parts') = n + 1 /\ parts'[n + 1] = output
      /\ \A i \in 1..n : parts'[i] = parts[i]
  BY <1>2, <1>4, AppendListed DEF AllRead
<1>6. /\ Listed(ran') /\ Len(ran') = n + 1 /\ ran'[n + 1] = x
      /\ \A i \in 1..n : ran'[i] = ran[i]
  BY <1>2, <1>4, AppendListed DEF AllRead
<1>7. ASSUME NEW r \in 1..n + 1
      PROVE  \E launch : PartRead(parts'[r], ran'[r].flushed, ran'[r].overlapped, launch)
  <2>1. CASE r = n + 1
    BY <1>3, <1>5, <1>6, <2>1 DEF Recording
  <2>2. CASE r # n + 1
    <3>1. r \in 1..n
      BY <2>2
    <3> QED
      BY <1>4, <1>5, <1>6, <3>1 DEF AllRead
  <2> QED
    BY <2>1, <2>2
<1> QED
  BY <1>5, <1>6, <1>7, Zenon DEF AllRead, PartRead, Reads

LEMMA StepRead ==
  ASSUME ReadInv, Progress, [Next]_vars
  PROVE  ReadInv'
<1> USE DEF ReadInv, Goto, Return
<1>0. (UNCHANGED emulator => Recording') /\ (UNCHANGED <<parts, ran>> => AllRead')
  BY KeepRecording, KeepAllRead DEF emulator
<1>1. CASE RunByUser
  <2>1. args \in Args /\ args.profiling # None
    BY <1>1 DEF RunByUser, Progress, Stopped
  <2>2. args.profiling \in Binaries
    BY <2>1, ReportAssumption
  <2>3. Start(args.profiling) /\ phase' = "args" /\ UNCHANGED <<parts, ran>>
    BY <1>1 DEF RunByUser
  <2> QED
    BY <1>0, <2>2, <2>3, StartRecording DEF Stopped
<1>2. CASE ReadProfile
  <2>1. program = None /\ UNCHANGED emulator /\ phase' # "user"
    BY <1>2 DEF ReadProfile
  <2>2. AllRead'
    BY <1>0, <1>2, AddPartRead DEF ReadProfile
  <2> QED
    BY <1>0, <2>1, <2>2 DEF Stopped, emulator
<1>3. CASE FindCuemu
  <2>1. program = None /\ UNCHANGED emulator /\ UNCHANGED <<parts, ran>> /\ phase' # "user"
    BY <1>3 DEF FindCuemu, Stopped
  <2> QED
    BY <1>0, <2>1 DEF Stopped, emulator
<1>4. CASE RunEmulator
  <2>1. UNCHANGED <<parts, ran>> /\ phase' \in {"exit", "emulator"}
    BY <1>4 DEF RunEmulator
  <2>2. UNCHANGED emulator \/ Start(args.binaries[next])
    BY <1>4 DEF RunEmulator
  <2>3. args.binaries[next] \in Binaries
    <3>1. args \in Args /\ next \in 1..Len(args.binaries) + 1 /\ next <= Len(args.binaries)
      BY <1>4 DEF RunEmulator, Progress
    <3>2. args.binaries \in Seq(Binaries)
      BY <3>1, ReportAssumption
    <3>3. next \in 1..Len(args.binaries)
      BY <3>1, <3>2
    <3> QED
      BY <3>2, <3>3, ElementOfSeq
  <2>4. Recording'
    BY <1>0, <2>2, <2>3, StartRecording
  <2> QED
    BY <1>0, <2>1, <2>4 DEF Stopped
<1>5. CASE EmulatorReturned
  <2>1. program = None /\ UNCHANGED emulator /\ phase' # "user"
    BY <1>5 DEF EmulatorReturned
  <2>2. AllRead'
    BY <1>0, <1>5, AddPartRead DEF EmulatorReturned
  <2> QED
    BY <1>0, <2>1, <2>2 DEF Stopped, emulator
<1>6. CASE AllBinariesRun
  <2>1. program = None /\ UNCHANGED emulator /\ UNCHANGED <<parts, ran>> /\ phase' # "user"
    BY <1>6 DEF AllBinariesRun, Stopped
  <2> QED
    BY <1>0, <2>1 DEF Stopped, emulator
<1>7. CASE ExtractNext
  <2>1. program = None /\ UNCHANGED emulator /\ UNCHANGED <<parts, ran>> /\ phase' # "user"
    BY <1>7 DEF ExtractNext, Stopped
  <2> QED
    BY <1>0, <2>1 DEF Stopped, emulator
<1>8. CASE WriteReport
  <2>1. program = None /\ UNCHANGED emulator /\ UNCHANGED <<parts, ran>> /\ phase' # "user"
    BY <1>8 DEF WriteReport, Stopped
  <2> QED
    BY <1>0, <2>1 DEF Stopped, emulator
<1>9. CASE Open
  <2>1. /\ program = None /\ UNCHANGED <<program, running>> /\ phase' = "page"
        /\ parts' = <<>> /\ ran' = <<>>
        /\ output' = <<>> /\ launch_counter' = 0 /\ flushed' = <<>>
    BY <1>9 DEF Open, Stopped
  <2>2. AllRead'
    BY <2>1, NothingRead DEF AllRead
  <2>3. Recording'
    BY <2>1, EmptyRecording
  <2> QED
    BY <2>1, <2>2, <2>3 DEF Stopped
<1>10. CASE Emulate
  <2>1. EmulatorNext /\ UNCHANGED <<parts, ran, phase, args>>
    BY <1>10 DEF Emulate, main_state
  <2>2. program' = program \/ program' = None
    BY <2>1, Zenon DEF EmulatorNext, BeginLaunch, Flush, Torn, EndLaunch, Exit
  <2> QED
    BY <1>0, <2>1, <2>2, EmulatorRecording DEF Stopped
<1>11. CASE Browse \/ UNCHANGED vars
  <2>1. UNCHANGED emulator /\ UNCHANGED <<parts, ran, phase, args>>
    BY <1>11 DEF Browse, vars, main_state
  <2> QED
    BY <1>0, <2>1 DEF Stopped, emulator
<1> QED
  BY <1>1, <1>2, <1>3, <1>4, <1>5, <1>6, <1>7, <1>8, <1>9, <1>10, <1>11 DEF Next

-----------------------------------------------------------------------------
\* The runs one after the other.  FlushedBy(r) are the records of run r.
FlushedBy(r) ==
  [i \in DOMAIN ran[r].flushed |->
     [run |-> r, launch |-> ran[r].flushed[i].launch,
      function |-> ran[r].flushed[i].function, rec |-> ran[r].flushed[i].rec]]
\* A row tells of a record of its run.
RowFits(row, x) == x.run \in DOMAIN ran /\ Tells(row, x, ran[x.run].overlapped)
RowsFit(rows, xs) ==
  /\ Listed(rows) /\ Listed(xs) /\ Len(rows) = Len(xs)
  /\ \A i \in 1..Len(xs) : RowFits(rows[i], xs[i])
ReadAs(lines, rows) ==
  \A st : State(st) => State(ReadAll(st, lines)) /\ ReadAll(st, lines).records = st.records \o rows

LEMMA RowsFitConcat ==
  ASSUME NEW r1, NEW x1, NEW r2, NEW x2, RowsFit(r1, x1), RowsFit(r2, x2)
  PROVE  RowsFit(r1 \o r2, x1 \o x2)
<1>1. Listed(r1) /\ Listed(r2) /\ Listed(x1) /\ Listed(x2) /\ Len(r1) = Len(x1) /\ Len(r2) = Len(x2)
  BY DEF RowsFit
<1>2. PICK r, x : r = r1 \o r2 /\ x = x1 \o x2
  BY Zenon
<1>3. /\ Listed(r) /\ Len(r) = Len(r1) + Len(r2)
      /\ \A i \in 1..Len(r1) : r[i] = r1[i]
      /\ \A i \in 1..Len(r2) : r[Len(r1) + i] = r2[i]
  <2>1. Listed(r1) /\ Listed(r2)
    BY <1>1
  <2> QED
    BY <1>2, <2>1, ConcatListed
<1>4. /\ Listed(x) /\ Len(x) = Len(x1) + Len(x2)
      /\ \A i \in 1..Len(x1) : x[i] = x1[i]
      /\ \A i \in 1..Len(x2) : x[Len(x1) + i] = x2[i]
  <2>1. Listed(x1) /\ Listed(x2)
    BY <1>1
  <2> QED
    BY <1>2, <2>1, ConcatListed
<1>5. Len(x1) \in Nat /\ Len(x2) \in Nat
  BY <1>1, ListedLen
<1>6. ASSUME NEW i \in 1..Len(x) PROVE RowFits(r[i], x[i])
  <2>1. CASE i \in 1..Len(x1)
    BY <1>1, <1>3, <1>4, <2>1 DEF RowsFit
  <2>2. CASE i \notin 1..Len(x1)
    <3>1. i - Len(x1) \in 1..Len(x2) /\ Len(x1) + (i - Len(x1)) = i
      BY <1>4, <1>5, <2>2
    <3>2. x[i] = x2[i - Len(x1)] /\ r[i] = r2[i - Len(x1)]
      BY <1>1, <1>3, <1>4, <3>1
    <3> QED
      BY <3>1, <3>2, Zenon DEF RowsFit
  <2> QED
    BY <2>1, <2>2
<1> QED
  BY <1>1, <1>2, <1>3, <1>4, <1>6 DEF RowsFit

\* What tells of a record does not depend on the run it is given with it.
LEMMA TellsSame ==
  ASSUME NEW row, NEW x, NEW y, NEW over, Tells(row, x, over),
         y.launch = x.launch, y.function = x.function, y.rec = x.rec
  PROVE  Tells(row, y, over)
<1>1. PICK rec : rec = x.rec
  OBVIOUS
<1>2. x.rec = rec /\ y.rec = rec
  BY <1>1
<1> QED
  BY <1>2 DEF Tells

\* One run.
LEMMA RunRead ==
  ASSUME AllRead, NEW r \in 1..Len(ran)
  PROVE  \E rows : RowsFit(rows, FlushedBy(r)) /\ ReadAs(parts[r], rows) /\ Listed(parts[r])
<1>1. PICK launch : PartRead(parts[r], ran[r].flushed, ran[r].overlapped, launch)
  BY DEF AllRead
<1>2. PICK rows : /\ Told(rows, ran[r].flushed, ran[r].overlapped)
                  /\ Reads(parts[r], rows, launch)
  BY <1>1 DEF PartRead
<1>3. PICK xs : xs = ran[r].flushed
  OBVIOUS
<1>4. PICK ys : ys = FlushedBy(r)
  OBVIOUS
<1>5. /\ Listed(rows) /\ Listed(xs) /\ Len(rows) = Len(xs) /\ Len(xs) \in Nat
      /\ DOMAIN xs = 1..Len(xs)
      /\ \A i \in 1..Len(xs) : Tells(rows[i], xs[i], ran[r].overlapped)
  BY <1>2, <1>3, ListedLen DEF Told
<1>6. /\ ys = [i \in 1..Len(xs) |-> ys[i]]
      /\ \A i \in 1..Len(xs) :
           ys[i] = [run |-> r, launch |-> xs[i].launch, function |-> xs[i].function,
                    rec |-> xs[i].rec]
  BY <1>3, <1>4, <1>5 DEF FlushedBy
<1>7. Listed(ys) /\ Len(ys) = Len(xs)
  BY <1>5, <1>6, FunctionListed
<1>8. ASSUME NEW i \in 1..Len(xs) PROVE RowFits(rows[i], ys[i])
  <2>1. PICK x, y : x = xs[i] /\ y = ys[i]
    OBVIOUS
  <2>2. y.run = r /\ y.launch = x.launch /\ y.function = x.function /\ y.rec = x.rec
    BY <1>6, <2>1
  <2>3. Tells(rows[i], x, ran[r].overlapped)
    BY <1>5, <2>1
  <2>4. Tells(rows[i], y, ran[r].overlapped)
    BY <2>2, <2>3, TellsSame
  <2>5. r \in DOMAIN ran
    BY ListedLen DEF AllRead
  <2> QED
    BY <2>1, <2>2, <2>4, <2>5 DEF RowFits
<1>9. RowsFit(rows, ys)
  BY <1>5, <1>7, <1>8 DEF RowsFit
<1>10. ReadAs(parts[r], rows) /\ Listed(parts[r])
  BY <1>1, <1>2 DEF ReadAs, Reads, PartRead
<1> QED
  BY <1>4, <1>9, <1>10

\* All runs: their parts, one behind the other, are read as their rows, one behind
\* the other, although each part starts in the state that the last one left.
LEMMA RunsRead ==
  ASSUME AllRead
  PROVE  \E rows : RowsFit(rows, Flushed) /\ ReadAs(FlattenSeq(parts), rows)
<1> DEFINE all == [r \in 1..Len(ran) |-> FlushedBy(r)]
           P(lines, xs) == \E rows : RowsFit(rows, xs) /\ ReadAs(lines, rows) /\ Listed(lines)
           S == {k \in Nat :
                   k <= Len(ran) =>
                     P(FlattenSeq(FirstOf(parts, k)), FlattenSeq(FirstOf(all, k)))}
<1>0. /\ Len(ran) \in Nat /\ Len(parts) = Len(ran) /\ Listed(parts)
      /\ DOMAIN ran = 1..Len(ran)
  BY ListedLen DEF AllRead
<1>1. 0 \in S
  <2>1. FlattenSeq(FirstOf(parts, 0)) = <<>> /\ FlattenSeq(FirstOf(all, 0)) = <<>>
    BY FirstListed, FlattenEmpty
  <2>2. Listed(<<>>) /\ Len(<<>>) = 0
    BY Tuples, Zenon
  <2>3. RowsFit(<<>>, <<>>)
    BY <2>2 DEF RowsFit
  <2>4. ASSUME NEW st, State(st) PROVE ReadAll(st, <<>>) = st /\ st.records \o <<>> = st.records
    BY <2>4, ReadAllEmpty, ConcatEmpty DEF State
  <2>5. ReadAs(<<>>, <<>>)
    BY <2>4 DEF ReadAs
  <2>6. P(<<>>, <<>>)
    BY <2>2, <2>3, <2>5
  <2> HIDE DEF P
  <2> QED
    BY <2>1, <2>6
<1>2. ASSUME NEW k \in Nat, k \in S PROVE k + 1 \in S
  <2>0. (k + 1 <= Len(ran) => P(FlattenSeq(FirstOf(parts, k + 1)), FlattenSeq(FirstOf(all, k + 1))))
          => k + 1 \in S
    <3> HIDE DEF P, all
    <3> QED
      OBVIOUS
  <2> SUFFICES ASSUME k + 1 <= Len(ran)
               PROVE  P(FlattenSeq(FirstOf(parts, k + 1)), FlattenSeq(FirstOf(all, k + 1)))
    BY <2>0
  <2>1. k <= Len(ran) /\ k + 1 \in 1..Len(ran)
    BY <1>0
  <2>2. PICK a, x : a = FlattenSeq(FirstOf(parts, k)) /\ x = FlattenSeq(FirstOf(all, k))
    BY Zenon
  <2>3. P(a, x)
    BY <1>2, <2>1, <2>2
  <2>4. PICK b, y : b = parts[k + 1] /\ y = FlushedBy(k + 1)
    OBVIOUS
  <2>5. P(b, y)
    BY <2>1, <2>4, RunRead
  <2>6. PICK r1 : RowsFit(r1, x) /\ ReadAs(a, r1) /\ Listed(a)
    BY <2>3
  <2>7. PICK r2 : RowsFit(r2, y) /\ ReadAs(b, r2) /\ Listed(b)
    BY <2>5
  <2>8. RowsFit(r1 \o r2, x \o y)
    BY <2>6, <2>7, RowsFitConcat
  <2>9. Listed(a \o b) /\ Listed(y) /\ Listed(r1) /\ Listed(r2)
    BY <2>6, <2>7, ConcatListed DEF RowsFit
  <2>10. ASSUME NEW st, State(st)
         PROVE  /\ State(ReadAll(st, a \o b))
                /\ ReadAll(st, a \o b).records = st.records \o (r1 \o r2)
    <3>1. PICK mid : mid = ReadAll(st, a)
      OBVIOUS
    <3>2. State(mid) /\ mid.records = st.records \o r1
      BY <2>6, <2>10, <3>1, Zenon DEF ReadAs
    <3>3. State(ReadAll(mid, b)) /\ ReadAll(mid, b).records = mid.records \o r2
      BY <2>7, <3>2, Zenon DEF ReadAs
    <3>4. ReadAll(st, a \o b) = ReadAll(mid, b)
      BY <2>6, <2>7, <3>1, ReadAllConcat
    <3>5. (st.records \o r1) \o r2 = st.records \o (r1 \o r2)
      <4>1. PICK z : z = st.records
        OBVIOUS
      <4>2. Listed(z) /\ Listed(r1) /\ Listed(r2)
        BY <2>9, <2>10, <4>1 DEF State
      <4>3. (z \o r1) \o r2 = z \o (r1 \o r2)
        BY ONLY <4>2, ConcatAssoc
      <4> QED
        BY <4>1, <4>3
    <3> QED
      BY <3>2, <3>3, <3>4, <3>5, Zenon
  <2>11. ReadAs(a \o b, r1 \o r2)
    BY <2>10, Zenon DEF ReadAs
  <2>12. P(a \o b, x \o y)
    BY <2>8, <2>9, <2>11
  <2>13. FlattenSeq(FirstOf(parts, k + 1)) = a \o b
    <3>1. FirstOf(parts, k + 1) = Append(FirstOf(parts, k), b) /\ Listed(FirstOf(parts, k))
      BY <2>4, FirstNext, FirstListed, Zenon
    <3> QED
      BY <2>2, <2>7, <3>1, FlattenAppend, Zenon
  <2>14. FlattenSeq(FirstOf(all, k + 1)) = x \o y
    <3>1. all[k + 1] = y
      BY <2>1, <2>4
    <3> HIDE DEF all
    <3>2. FirstOf(all, k + 1) = Append(FirstOf(all, k), y) /\ Listed(FirstOf(all, k))
      BY <3>1, FirstNext, FirstListed, Zenon
    <3> QED
      BY <2>2, <2>9, <3>2, FlattenAppend, Zenon
  <2> HIDE DEF P, all
  <2> QED
    BY <2>12, <2>13, <2>14, Zenon
<1> HIDE DEF S, P
<1>3. Nat \subseteq S
  BY <1>1, <1>2, NatSet
<1>4. P(FlattenSeq(FirstOf(parts, Len(ran))), FlattenSeq(FirstOf(all, Len(ran))))
  BY <1>0, <1>3 DEF S
<1>5. FirstOf(parts, Len(ran)) = parts
  BY <1>0, FirstAll
<1>6. FlattenSeq(FirstOf(all, Len(ran))) = Flushed
  BY <1>0, Zenon DEF FirstOf, Flushed, FlushedBy
<1> HIDE DEF all
<1> QED
  BY <1>4, <1>5, <1>6 DEF P

\* So the records of the report tell of the records of all runs.
LEMMA RecordsFit ==
  ASSUME AllRead
  PROVE  RowsFit(records, Flushed)
<1>1. PICK rows : RowsFit(rows, Flushed) /\ ReadAs(FlattenSeq(parts), rows)
  BY RunsRead
<1>2. PICK st : st = At(0, None, None, <<>>)
  OBVIOUS
<1>3. State(st) /\ st.records = <<>>
  BY <1>2, Tuples, Zenon DEF State, At
<1>4. records = <<>> \o rows
  BY <1>1, <1>2, <1>3, Zenon DEF records, parse_profiling, ReadAs, At
<1> QED
  BY <1>1, <1>4, ConcatEmpty DEF RowsFit

\* The report reads back exactly the records that Profiler::flush wrote to the
\* profiles: as many, in their order, each with its function, its basic block
\* and all its metrics, however launches overlap, runs follow one another, or a
\* killed program tore the last record of a file.
THEOREM SpecRecordsReadBack == Spec => []RecordsReadBack
<1>1. AllRead => RecordsReadBack
  <2> SUFFICES ASSUME AllRead PROVE RecordsReadBack
    OBVIOUS
  <2>1. PICK rows, xs : rows = records /\ xs = Flushed
    OBVIOUS
  <2>2. RowsFit(rows, xs)
    BY <2>1, RecordsFit
  <2>3. DOMAIN rows = 1..Len(xs) /\ DOMAIN xs = 1..Len(xs)
    BY <2>2, ListedLen DEF RowsFit
  <2>4. \A i \in 1..Len(xs) : Tells(rows[i], xs[i], ran[xs[i].run].overlapped)
    BY <2>2 DEF RowsFit, RowFits
  <2>5. ASSUME NEW i \in 1..Len(xs)
        PROVE  LET row == rows[i]
                   sent == xs[i].rec.metrics
               IN  /\ <<row.function_name, row.basic_block, row.instr_name, row.pc,
                         row.active_threads>>
                        = <<xs[i].function, xs[i].rec.basic_block, xs[i].rec.instr_name,
                            xs[i].rec.pc, xs[i].rec.lanes>>
                   /\ DOMAIN row.metrics = {sent[k][1] : k \in DOMAIN sent}
                   /\ \A k \in DOMAIN sent : row.metrics[sent[k][1]] = sent[k][2]
    <3>1. Tells(rows[i], xs[i], ran[xs[i].run].overlapped)
      BY <2>4
    <3> QED
      BY ONLY <3>1 DEF Tells
  <2>6. [i \in DOMAIN rows |-> <<rows[i].function_name, rows[i].basic_block,
                                 rows[i].instr_name, rows[i].pc, rows[i].active_threads>>]
          = [i \in DOMAIN xs |-> <<xs[i].function, xs[i].rec.basic_block,
                                  xs[i].rec.instr_name, xs[i].rec.pc, xs[i].rec.lanes>>]
    BY ONLY <2>3, <2>5
  <2> QED
    BY <2>1, <2>3, <2>5, <2>6 DEF RecordsReadBack
<1>2. Init => Progress /\ ReadInv
  BY InitProgress, InitRead
<1>3. Progress /\ ReadInv /\ [Next]_vars => (Progress /\ ReadInv)'
  BY StepProgress, StepRead
<1> QED
  BY <1>1, <1>2, <1>3, PTL DEF Spec, ReadInv

\* A record that no other launch overlapped is attributed to the number of its
\* launch, and one of an overlapped launch to one of the overlapped launches of
\* its run, although a profile says which launch a record belongs to only by the
\* last header before it.
THEOREM SpecAttribution == Spec => []Attribution
<1>1. AllRead => Attribution
  <2> SUFFICES ASSUME AllRead PROVE Attribution
    OBVIOUS
  <2>1. PICK rows, xs : rows = records /\ xs = Flushed
    OBVIOUS
  <2>2. RowsFit(rows, xs)
    BY <2>1, RecordsFit
  <2>3. DOMAIN rows = 1..Len(xs) /\ DOMAIN xs = 1..Len(xs)
    BY <2>2, ListedLen DEF RowsFit
  <2>4. \A i \in 1..Len(xs) : Tells(rows[i], xs[i], ran[xs[i].run].overlapped)
    BY <2>2 DEF RowsFit, RowFits
  <2> QED
    BY <2>1, <2>3, <2>4 DEF Attribution, Tells
<1>2. Init => Progress /\ ReadInv
  BY InitProgress, InitRead
<1>3. Progress /\ ReadInv /\ [Next]_vars => (Progress /\ ReadInv)'
  BY StepProgress, StepRead
<1> QED
  BY <1>1, <1>2, <1>3, PTL DEF Spec, ReadInv

HIDE ReportAssumption

-----------------------------------------------------------------------------
\* What the report is made of.

LEMMA ListedRange ==
  ASSUME NEW s, Listed(s)
  PROVE  s \in Seq(Range(s))
<1>1. Len(s) \in Nat /\ DOMAIN s = 1..Len(s) /\ s = [i \in 1..Len(s) |-> s[i]]
  BY ListedLen
<1>2. PICK n, S : n = Len(s) /\ S = Range(s)
  BY Zenon
<1>3. \A i \in 1..n : s[i] \in S
  BY <1>1, <1>2 DEF Range
<1>4. s \in [1..n -> S]
  BY <1>1, <1>2, <1>3
<1> QED
  BY <1>1, <1>2, <1>4

\* What cuobjdump's output is cut down to is again a text.
LEMMA ExtractedText ==
  ASSUME NEW raw, IsText(raw)
  PROVE  IsText(ExtractPtx(raw))
<1>1. PICK keep : ExtractPtx(raw) = Kept(raw, keep)
  BY DEF ExtractPtx
<1>2. PICK q : q = Kept(raw, keep)
  OBVIOUS
<1>3. Listed(raw) /\ DOMAIN raw = 1..Len(raw)
  BY ListedLen DEF IsText, IsList, Listed
<1>4. Listed(q) /\ DOMAIN q = 1..Len(q)
  BY <1>2, <1>3, KeptFrom, ListedLen
<1>5. \A i \in 1..Len(q) : \E k \in DOMAIN raw : q[i] = raw[k]
  BY <1>2, <1>3, KeptFrom
<1>6. q \in Seq(Range(q))
  BY <1>4, ListedRange
<1>7. ASSUME NEW i \in DOMAIN q, q[i].kind = "func"
      PROVE  LET body == q[i].body
             IN  /\ body \in Seq(Range(body))
                 /\ \A k \in DOMAIN body : body[k].kind = "loc" => body[k].line \in Nat
  <2>1. PICK k \in DOMAIN raw : q[i] = raw[k]
    BY <1>4, <1>5
  <2> QED
    BY <1>7, <2>1 DEF IsText, IsList
<1> QED
  BY <1>1, <1>2, <1>6, <1>7 DEF IsText, IsList

\* Whatever order the sources are walked in, the module numbers its rows.
LEMMA MadeNumbers ==
  ASSUME args \in Args, Listed(texts), \A n \in 1..Len(texts) : IsText(texts[n].text),
         NEW ptx \in IF texts = <<>> THEN {merge_ptx(<<>>)} ELSE Loaded
  PROVE  NumbersPtx(ptx)
<1>1. ASSUME NEW modules, Listed(modules), \A i \in 1..Len(modules) : NumbersPtx(modules[i])
      PROVE  NumbersPtx(merge_ptx(modules))
  BY <1>1, MergedNumbers
<1>2. CASE texts = <<>>
  <2>1. Listed(<<>>) /\ Len(<<>>) = 0
    BY Tuples, Zenon
  <2> QED
    BY <1>1, <1>2, <2>1
<1>3. CASE texts # <<>>
  <2>1. PICK modules : modules = [n \in DOMAIN texts |-> parse_ptx(texts[n].text)]
    BY Zenon
  <2>2. DOMAIN texts = 1..Len(texts) /\ Len(texts) \in Nat
    BY ListedLen
  <2>3. Listed(modules) /\ Len(modules) = Len(texts)
    <3>1. modules = [n \in 1..Len(texts) |-> modules[n]]
      BY <2>1, <2>2
    <3> QED
      BY <2>2, <3>1, FunctionListed
  <2>4. \A i \in 1..Len(modules) : NumbersPtx(modules[i])
    BY <2>1, <2>2, <2>3, ParsedNumbers
  <2>5. PICK m : m = merge_ptx(modules) /\ NumbersPtx(m)
    BY <1>1, <2>3, <2>4
  <2>6. PICK S : S = args.sources
    OBVIOUS
  <2>7. PICK orders : orders = {o \in [1..Cardinality(S) -> S] : Range(o) = S}
    BY Zenon
  <2>8. PICK names : names = {BaseName[p] : p \in S}
    BY Zenon
  <2>9. PICK picks : picks = {f \in [names -> S] : \A n \in names : BaseName[f[n]] = n}
    BY Zenon
  <2>10. Loaded = {load_sources(m, order, pick, Disk, BaseName) : order \in orders, pick \in picks}
    BY ONLY <2>1, <2>5, <2>6, <2>7, <2>8, <2>9 DEF Loaded
  <2>11. PICK order \in orders, pick \in picks : ptx = load_sources(m, order, pick, Disk, BaseName)
    BY <1>3, <2>10
  <2>12. Cardinality(S) \in Nat
    <3>1. S \subseteq DOMAIN BaseName
      BY <2>6, ReportAssumption
    <3> QED
      BY <3>1, ReportAssumption, FS_Subset, FS_CardinalityType
  <2>13. Listed(order)
    <3>1. order = [i \in 1..Cardinality(S) |-> order[i]]
      BY <2>7
    <3> QED
      BY <2>12, <3>1, FunctionListed
  <2> QED
    BY <2>5, <2>13, <2>11, LoadedNumbers
<1> QED
  BY <1>2, <1>3

\* The texts that have been read, and the report once it is written.
TextsRead ==
  /\ Listed(texts) /\ \A n \in 1..Len(texts) : IsText(texts[n].text)
  /\ phase \in {"user", "args", "find", "binary", "emulator", "extract"} => args \in Args
  /\ phase = "extract" => next \in Nat \ {0}
ReportMade == Written => \E ptx : NumbersPtx(ptx) /\ report = aggregate(records, ptx)

LEMMA InitMade == Init => TextsRead /\ ReportMade
<1> SUFFICES ASSUME Init PROVE TextsRead /\ ReportMade
  OBVIOUS
<1>1. Listed(<<>>) /\ Len(<<>>) = 0
  BY Tuples, Zenon
<1> QED
  BY <1>1 DEF Init, TextsRead, ReportMade, Written

\* The next text is one.
LEMMA NextText ==
  ASSUME args \in Args, next \in Nat \ {0}, next <= Len(Inputs)
  PROVE  IsText(Text(Inputs[next]))
<1>1. args.binaries \in Seq(Binaries) /\ args.ptx_files \in Seq(DOMAIN PtxFiles)
  BY ReportAssumption
<1>2. CASE args.binaries # <<>>
  <2>1. PICK s : s = args.binaries
    OBVIOUS
  <2>2. s[next] \in Binaries
    <3>1. Inputs = s /\ s \in Seq(Binaries)
      BY <1>1, <1>2, <2>1 DEF Inputs
    <3>2. next \in 1..Len(s)
      BY <3>1
    <3> QED
      BY <3>1, <3>2, ElementOfSeq
  <2>3. IsText(Printed[s[next]])
    BY <2>2, ProfileAssumption
  <2> QED
    BY <1>2, <2>1, <2>3, ExtractedText DEF Text, Inputs
<1>3. CASE args.binaries = <<>>
  <2>1. PICK s : s = args.ptx_files
    OBVIOUS
  <2>2. s[next] \in DOMAIN PtxFiles
    <3>1. Inputs = s /\ s \in Seq(DOMAIN PtxFiles)
      BY <1>1, <1>3, <2>1 DEF Inputs
    <3>2. next \in 1..Len(s)
      BY <3>1
    <3> QED
      BY <3>1, <3>2, ElementOfSeq
  <2>3. IsText(PtxFiles[s[next]])
    BY <2>2, ReportAssumption
  <2> QED
    BY <1>3, <2>1, <2>3 DEF Text, Inputs
<1> QED
  BY <1>2, <1>3

LEMMA StepMade ==
  ASSUME TextsRead, ReportMade, [Next]_vars
  PROVE  (TextsRead /\ ReportMade)'
<1> USE DEF Goto, Return
<1>1. ASSUME phase' # "written" PROVE ReportMade'
  BY <1>1 DEF ReportMade, Written
<1>2. CASE RunByUser \/ ReadProfile \/ FindCuemu \/ RunEmulator \/ EmulatorReturned \/ AllBinariesRun
  <2>1. /\ UNCHANGED <<args, texts>>
        /\ phase \in {"user", "args", "find", "binary", "emulator"}
        /\ phase' \in {"args", "find", "extract", "binary", "emulator", "exit"}
        /\ phase' = "extract" => next' = 1
    BY <1>2 DEF RunByUser, ReadProfile, FindCuemu, RunEmulator, EmulatorReturned, AllBinariesRun
  <2> QED
    BY <1>1, <2>1 DEF TextsRead
<1>3. CASE ExtractNext
  <2>1. /\ phase = "extract" /\ UNCHANGED <<args, phase>> /\ next' = next + 1
        /\ next <= Len(Inputs) /\ args \in Args /\ next \in Nat \ {0}
    BY <1>3 DEF ExtractNext, TextsRead
  <2>2. CASE texts' = texts
    BY <1>1, <2>1, <2>2 DEF TextsRead
  <2>3. ASSUME texts' = Append(texts, [of |-> Inputs[next], text |-> Text(Inputs[next])])
        PROVE  TextsRead'
    <3>1. PICK x : x = [of |-> Inputs[next], text |-> Text(Inputs[next])]
      BY Zenon
    <3>2. IsText(x.text)
      BY <2>1, <3>1, NextText
    <3>3. PICK t, n : t = Append(texts, x) /\ n = Len(texts)
      BY Zenon
    <3>4. /\ Listed(t) /\ Len(t) = n + 1 /\ t[n + 1] = x
          /\ \A i \in 1..n : t[i] = texts[i]
      BY <3>3, AppendListed DEF TextsRead
    <3>5. n \in Nat /\ \A i \in 1..n + 1 : i \in 1..n \/ i = n + 1
      BY <3>3, ListedLen DEF TextsRead
    <3>6. \A i \in 1..Len(t) : IsText(t[i].text)
      BY <3>2, <3>3, <3>4, <3>5 DEF TextsRead
    <3>7. texts' = t
      BY <2>3, <3>1, <3>3
    <3> QED
      BY <2>1, <3>4, <3>6, <3>7 DEF TextsRead
  <2> QED
    BY <1>1, <1>3, <2>1, <2>2, <2>3 DEF ExtractNext
<1>4. CASE WriteReport
  <2>1. /\ phase = "extract" /\ UNCHANGED <<args, texts, parts>>
        /\ phase' \in {"written", "exit"} /\ args \in Args
    BY <1>4 DEF WriteReport, TextsRead
  <2>2. TextsRead'
    BY <2>1 DEF TextsRead
  <2>3. CASE phase' = "exit"
    BY <1>1, <2>2, <2>3
  <2>4. ASSUME NEW ptx \in IF texts = <<>> THEN {merge_ptx(<<>>)} ELSE Loaded,
               report' = aggregate(records, ptx)
        PROVE  ReportMade'
    <3>1. NumbersPtx(ptx)
      BY <2>1, <2>4, MadeNumbers DEF TextsRead
    <3>2. records' = records
      BY <2>1 DEF records
    <3> QED
      BY <2>4, <3>1, <3>2 DEF ReportMade
  <2> QED
    BY <1>4, <2>2, <2>3, <2>4 DEF WriteReport
<1>5. CASE Open
  <2>1. phase' = "page" /\ texts' = <<>>
    BY <1>5 DEF Open
  <2>2. Listed(<<>>) /\ Len(<<>>) = 0
    BY Tuples, Zenon
  <2> QED
    BY <1>1, <2>1, <2>2 DEF TextsRead
<1>6. CASE Emulate \/ Browse \/ UNCHANGED vars
  <2>1. UNCHANGED <<args, phase, next, texts, parts, report>>
    BY <1>6 DEF Emulate, Browse, vars, main_state
  <2>2. records' = records
    BY <2>1 DEF records
  <2> QED
    BY <2>1, <2>2 DEF TextsRead, ReportMade, Written
<1> QED
  BY <1>2, <1>3, <1>4, <1>5, <1>6 DEF Next

-----------------------------------------------------------------------------
\* What a row tells of a record adds to each counter what the record says.
Metric(x, m) == SumOver(x.rec.metrics, LAMBDA kv : IF kv[1] = m THEN kv[2] ELSE 0)
Given(x, c) ==
  IF c \in KnownMetrics THEN Metric(x, c) ELSE IF c = "exec_count" THEN x.rec.lanes ELSE 1

LEMMA MetricTold ==
  ASSUME NEW row, NEW x, NEW over, Tells(row, x, over), NEW m
  PROVE  Metric(x, m) = Get(row.metrics, m, 0) /\ Get(row.metrics, m, 0) \in Nat
<1>1. PICK ms : ms = x.rec.metrics
  OBVIOUS
<1>2. PICK d : d = row.metrics
  OBVIOUS
<1>3. /\ Listed(ms)
      /\ \A i, j \in DOMAIN ms : ms[i][1] = ms[j][1] => i = j
      /\ \A i \in DOMAIN ms : ms[i][2] \in Nat
  BY <1>1 DEF Tells, Proper, Keyed, Numeric
<1>4. DOMAIN d = {ms[k][1] : k \in DOMAIN ms} /\ \A k \in DOMAIN ms : d[ms[k][1]] = ms[k][2]
  BY ONLY Tells(row, x, over), <1>1, <1>2 DEF Tells
<1>5. Len(ms) \in Nat /\ DOMAIN ms = 1..Len(ms)
  BY <1>3, ListedLen
<1>6. PICK s : s = [k \in DOMAIN ms |-> IF ms[k][1] = m THEN ms[k][2] ELSE 0]
  BY Zenon
<1>7. Metric(x, m) = Total(s)
  BY <1>1, <1>6 DEF Metric, SumOver
<1>8. Listed(s) /\ Len(s) = Len(ms)
  <2>1. s = [k \in 1..Len(ms) |-> s[k]]
    BY <1>5, <1>6
  <2> QED
    BY <1>5, <2>1, FunctionListed
<1>9. Numbers(s)
  BY <1>3, <1>5, <1>6, <1>8 DEF Numbers
<1>10. CASE m \in DOMAIN d
  <2>1. PICK j \in DOMAIN ms : ms[j][1] = m
    BY <1>4, <1>10
  <2>2. j \in Nat /\ j \in 1..Len(s)
    BY <1>5, <1>8, <2>1
  <2>3. \A i \in 1..Len(s) : i # j => s[i] = 0
    BY <1>3, <1>5, <1>6, <1>8, <2>1
  <2>4. Total(s) = s[j]
    BY <1>9, <2>2, <2>3, TotalOne
  <2>5. s[j] = ms[j][2] /\ d[m] = ms[j][2] /\ ms[j][2] \in Nat
    BY <1>3, <1>4, <1>6, <2>1
  <2> QED
    BY <1>2, <1>7, <1>10, <2>4, <2>5 DEF Get
<1>11. CASE m \notin DOMAIN d
  <2>1. \A i \in 1..Len(s) : s[i] = 0
    BY <1>4, <1>5, <1>6, <1>8, <1>11
  <2>2. 0 \in Nat /\ 0 \notin 1..Len(s)
    OBVIOUS
  <2>3. Total(s) = 0
    BY <1>9, <2>1, <2>2, TotalOne
  <2> QED
    BY <1>2, <1>7, <1>11, <2>3 DEF Get
<1> QED
  BY <1>10, <1>11

LEMMA ShareTold ==
  ASSUME NEW row, NEW x, NEW over, Tells(row, x, over)
  PROVE  /\ Countable(row)
         /\ row.function_name = x.function /\ row.pc = x.rec.pc
         /\ \A c \in Counters : Share(row, c) = Given(x, c)
<1>1. /\ row.function_name = x.function /\ row.instr_name = x.rec.instr_name
      /\ row.pc = x.rec.pc /\ row.active_threads = x.rec.lanes
  BY ONLY Tells(row, x, over) DEF Tells
<1>2. x.rec.pc \in Nat /\ x.rec.lanes \in Nat /\ x.rec.instr_name \notin _DIRECTIVE_NAMES
  BY DEF Tells, Proper, Numeric
<1>3. ASSUME NEW c \in Counters PROVE Share(row, c) = Given(x, c) /\ Share(row, c) \in Nat
  <2>1. CASE c \in KnownMetrics
    BY <2>1, MetricTold DEF Share, Given
  <2>2. CASE c \notin KnownMetrics
    BY <1>1, <1>2, <2>2 DEF Share, Given
  <2> QED
    BY <2>1, <2>2
<1> QED
  BY <1>1, <1>2, <1>3 DEF Countable

\* So the sums over the records of the report are those over the records of the
\* runs: of a launch that overlapped in no run, and of a function.
Sent(xs, l, f, pc, c) ==
  [i \in DOMAIN xs |->
     IF xs[i].launch = l /\ xs[i].function = f /\ xs[i].rec.pc = pc THEN Given(xs[i], c) ELSE 0]

LEMMA SentMarks ==
  ASSUME NEW rows, NEW xs, RowsFit(rows, xs), NEW l, Alone(l), NEW f, NEW pc, NEW c \in Counters
  PROVE  Marks(rows, <<l, f>>, pc, c) = Sent(xs, l, f, pc, c)
<1>1. Len(rows) = Len(xs) /\ DOMAIN xs = 1..Len(xs)
  BY ListedLen DEF RowsFit
<1>2. ASSUME NEW i \in 1..Len(xs)
      PROVE  Mark(rows[i], <<l, f>>, pc, c)
               = IF xs[i].launch = l /\ xs[i].function = f /\ xs[i].rec.pc = pc
                 THEN Given(xs[i], c) ELSE 0
  <2>1. PICK row, x : row = rows[i] /\ x = xs[i]
    OBVIOUS
  <2>2. x.run \in DOMAIN ran /\ Tells(row, x, ran[x.run].overlapped)
    BY <2>1 DEF RowsFit, RowFits
  <2>3. /\ row.function_name = x.function /\ row.pc = x.rec.pc
        /\ Share(row, c) = Given(x, c)
    BY <2>2, ShareTold
  <2>4. row.launch_id = l <=> x.launch = l
    <3>1. l \notin ran[x.run].overlapped
      BY <2>2 DEF Alone
    <3> QED
      BY <2>2, <3>1 DEF Tells
  <2>5. Key(row) = <<l, f>> <=> (x.launch = l /\ x.function = f)
    BY <2>3, <2>4 DEF Key
  <2>6. Mark(row, <<l, f>>, pc, c)
          = IF x.launch = l /\ x.function = f /\ x.rec.pc = pc THEN Given(x, c) ELSE 0
    BY <2>3, <2>5 DEF Mark
  <2> QED
    BY <2>1, <2>6
<1> QED
  BY <1>1, <1>2 DEF Marks, Sent

LEMMA SentHits ==
  ASSUME NEW rows, NEW xs, RowsFit(rows, xs), NEW f, NEW pc
  PROVE  Hits(rows, f, pc)
           = [i \in DOMAIN xs |-> IF xs[i].function = f /\ xs[i].rec.pc = pc THEN 1 ELSE 0]
<1>1. Len(rows) = Len(xs) /\ DOMAIN xs = 1..Len(xs)
  BY ListedLen DEF RowsFit
<1>2. \A i \in 1..Len(xs) : rows[i].function_name = xs[i].function /\ rows[i].pc = xs[i].rec.pc
  BY ShareTold DEF RowsFit, RowFits
<1> QED
  BY <1>1, <1>2 DEF Hits

LEMMA RowsFitCountable ==
  ASSUME NEW rows, NEW xs, RowsFit(rows, xs)
  PROVE  Listed(rows) /\ \A i \in 1..Len(rows) : Countable(rows[i])
BY ShareTold DEF RowsFit, RowFits

-----------------------------------------------------------------------------
\* The two parts of RowsRight.
RowsAdd(xs, fns) ==
  \A n \in DOMAIN fns : Alone(fns[n].launch_id) =>
    \A k \in DOMAIN fns[n].instructions : \A c \in Counters :
      Reading(fns[n].instructions[k], c)
        = Total(Sent(xs, fns[n].launch_id, fns[n].name, fns[n].instructions[k].pc, c))
IssuesAdd(xs, fns) ==
  \A f, pc :
    Total([i \in DOMAIN xs |-> IF xs[i].function = f /\ xs[i].rec.pc = pc THEN 1 ELSE 0])
      = Total([n \in DOMAIN fns |-> IssuesOf(fns[n], f, pc)])

ReportRight(xs, fns) ==
  LET MetricIn(x, m) == SumOver(x.rec.metrics, LAMBDA kv : IF kv[1] = m THEN kv[2] ELSE 0)
  IN  /\ \A n \in DOMAIN fns : Alone(fns[n].launch_id) =>
           \A k \in DOMAIN fns[n].instructions :
             LET i == fns[n].instructions[k]
                 Mine(x) == /\ x.launch = fns[n].launch_id /\ x.function = fns[n].name
                            /\ x.rec.pc = i.pc
             IN  /\ i.issue_count = SumOver(xs, LAMBDA x : IF Mine(x) THEN 1 ELSE 0)
                 /\ i.exec_count = SumOver(xs, LAMBDA x : IF Mine(x) THEN x.rec.lanes ELSE 0)
                 /\ \A m \in KnownMetrics :
                        i.sums[m] = SumOver(xs, LAMBDA x : IF Mine(x) THEN MetricIn(x, m) ELSE 0)
      /\ \A j \in DOMAIN xs :
           LET f == xs[j].function
               pc == xs[j].rec.pc
               IssuesAt(fn) == SumOver(fn.instructions, LAMBDA i : IF i.pc = pc THEN i.issue_count ELSE 0)
           IN  SumOver(xs, LAMBDA x : IF x.function = f /\ x.rec.pc = pc THEN 1 ELSE 0)
                 = SumOver(fns, LAMBDA fn : IF fn.name = f THEN IssuesAt(fn) ELSE 0)

LEMMA MadeRight ==
  ASSUME AllRead, NEW ptx, NumbersPtx(ptx)
  PROVE  LET fns == aggregate(records, ptx).functions
         IN  RowsAdd(Flushed, fns) /\ IssuesAdd(Flushed, fns)
             /\ \A n \in DOMAIN fns : Listed(fns[n].instructions)
<1>1. PICK rows, xs, fns : rows = records /\ xs = Flushed /\ fns = aggregate(rows, ptx).functions
  OBVIOUS
<1>2. RowsFit(rows, xs)
  BY <1>1, RecordsFit
<1>3. Listed(rows) /\ \A i \in 1..Len(rows) : Countable(rows[i])
  BY <1>2, RowsFitCountable
<1>4. /\ Listed(fns) /\ \A n \in 1..Len(fns) : RowsCount(fns[n], rows)
      /\ \A f, pc : Total([n \in 1..Len(fns) |-> IssuesOf(fns[n], f, pc)]) = Total(Hits(rows, f, pc))
  <2>1. /\ Listed(fns) /\ \A n \in 1..Len(fns) : SectionMade(fns[n], rows, ptx)
        /\ \A f, pc : Total([n \in 1..Len(fns) |-> IssuesOf(fns[n], f, pc)]) = Total(Hits(rows, f, pc))
    BY <1>1, <1>3, AggregateCounts
  <2> QED
    BY <2>1 DEF SectionMade
<1>5. DOMAIN fns = 1..Len(fns)
  BY <1>4, ListedLen
<1>6. ASSUME NEW n \in DOMAIN fns, Alone(fns[n].launch_id),
             NEW k \in DOMAIN fns[n].instructions, NEW c \in Counters
      PROVE  Reading(fns[n].instructions[k], c)
               = Total(Sent(xs, fns[n].launch_id, fns[n].name, fns[n].instructions[k].pc, c))
  <2>1. PICK fn : fn = fns[n] /\ RowsCount(fn, rows)
    BY <1>4, <1>5
  <2>2. k \in 1..Len(fn.instructions)
    BY <1>6, <2>1, ListedLen DEF RowsCount
  <2>3. PICK pc : pc = fn.instructions[k].pc
    OBVIOUS
  <2>4. Reading(fn.instructions[k], c) = Total(Marks(rows, <<fn.launch_id, fn.name>>, pc, c))
    BY <2>1, <2>2, <2>3 DEF RowsCount
  <2>5. PICK l, f : l = fn.launch_id /\ f = fn.name
    OBVIOUS
  <2>6. Marks(rows, <<l, f>>, pc, c) = Sent(xs, l, f, pc, c)
    BY <1>2, <1>6, <2>1, <2>5, SentMarks
  <2> QED
    BY <2>1, <2>3, <2>4, <2>5, <2>6
<1>7. RowsAdd(xs, fns)
  BY <1>6 DEF RowsAdd
<1>8. IssuesAdd(xs, fns)
  <2>1. ASSUME NEW f, NEW pc
        PROVE  Total([i \in DOMAIN xs |-> IF xs[i].function = f /\ xs[i].rec.pc = pc THEN 1 ELSE 0])
                 = Total([n \in DOMAIN fns |-> IssuesOf(fns[n], f, pc)])
    <3>1. PICK h : h = [i \in DOMAIN xs |->
                          IF xs[i].function = f /\ xs[i].rec.pc = pc THEN 1 ELSE 0]
      BY Zenon
    <3>2. Hits(rows, f, pc) = h
      BY <1>2, <3>1, SentHits
    <3>3. Total([n \in DOMAIN fns |-> IssuesOf(fns[n], f, pc)]) = Total(h)
      BY <1>4, <1>5, <3>2
    <3> QED
      BY ONLY <3>1, <3>3
  <2> QED
    BY ONLY <2>1 DEF IssuesAdd
<1>9. \A n \in DOMAIN fns : Listed(fns[n].instructions)
  BY <1>4, <1>5, Zenon DEF RowsCount
<1> QED
  BY <1>1, <1>7, <1>8, <1>9

LEMMA MadeRowsRight ==
  ASSUME AllRead, ReportMade
  PROVE  RowsRight
<1> SUFFICES ASSUME Written PROVE RowsRight
  BY Zenon DEF RowsRight
<1>1. PICK ptx : NumbersPtx(ptx) /\ report = aggregate(records, ptx)
  BY DEF ReportMade
<1>2. PICK xs, fns : xs = Flushed /\ fns = report.functions
  OBVIOUS
<1>3. RowsAdd(xs, fns) /\ IssuesAdd(xs, fns) /\ \A n \in DOMAIN fns : Listed(fns[n].instructions)
  BY <1>1, <1>2, MadeRight
<1>4. ASSUME NEW n \in DOMAIN fns, Alone(fns[n].launch_id), NEW k \in DOMAIN fns[n].instructions
      PROVE  LET i == fns[n].instructions[k]
                 Mine(x) == /\ x.launch = fns[n].launch_id /\ x.function = fns[n].name
                            /\ x.rec.pc = i.pc
             IN  /\ i.issue_count = Total([j \in DOMAIN xs |-> IF Mine(xs[j]) THEN 1 ELSE 0])
                 /\ i.exec_count = Total([j \in DOMAIN xs |-> IF Mine(xs[j]) THEN xs[j].rec.lanes ELSE 0])
                 /\ \A m \in KnownMetrics :
                      i.sums[m] = Total([j \in DOMAIN xs |-> IF Mine(xs[j]) THEN Metric(xs[j], m) ELSE 0])
  <2>1. PICK i, l, f, pc : i = fns[n].instructions[k] /\ l = fns[n].launch_id
                           /\ f = fns[n].name /\ pc = i.pc
    OBVIOUS
  <2>2. \A c \in Counters : Reading(i, c) = Total(Sent(xs, l, f, pc, c))
    BY <1>3, <1>4, <2>1 DEF RowsAdd
  <2>3. "issue_count" \in Counters \ KnownMetrics /\ "exec_count" \in Counters \ KnownMetrics
    BY DEF Counters, KnownMetrics
  <2>4. i.issue_count = Total([j \in DOMAIN xs |->
           IF xs[j].launch = l /\ xs[j].function = f /\ xs[j].rec.pc = pc THEN 1 ELSE 0])
    BY <2>2, <2>3 DEF Reading, Sent, Given
  <2>5. i.exec_count = Total([j \in DOMAIN xs |->
           IF xs[j].launch = l /\ xs[j].function = f /\ xs[j].rec.pc = pc THEN xs[j].rec.lanes ELSE 0])
    BY <2>2, <2>3 DEF Reading, Sent, Given
  <2>6. ASSUME NEW m \in KnownMetrics
        PROVE  i.sums[m] = Total([j \in DOMAIN xs |->
                 IF xs[j].launch = l /\ xs[j].function = f /\ xs[j].rec.pc = pc
                 THEN Metric(xs[j], m) ELSE 0])
    <3>1. m \in Counters
      BY DEF Counters
    <3> QED
      BY <2>2, <3>1 DEF Reading, Sent, Given
  <2> QED
    BY ONLY <2>1, <2>4, <2>5, <2>6
<1>5. ASSUME NEW j \in DOMAIN xs
      PROVE  LET f == xs[j].function
                 pc == xs[j].rec.pc
             IN  Total([i \in DOMAIN xs |-> IF xs[i].function = f /\ xs[i].rec.pc = pc THEN 1 ELSE 0])
                   = Total([n \in DOMAIN fns |->
                       IF fns[n].name = f THEN Total(IssuesIn(fns[n].instructions, pc)) ELSE 0])
  BY <1>3, Zenon DEF IssuesAdd, IssuesOf
<1>6. \A n \in DOMAIN fns : \A pc :
        IssuesIn(fns[n].instructions, pc)
          = [k \in DOMAIN fns[n].instructions |->
               IF fns[n].instructions[k].pc = pc THEN fns[n].instructions[k].issue_count ELSE 0]
  <2>1. \A n \in DOMAIN fns : DOMAIN fns[n].instructions = 1..Len(fns[n].instructions)
    BY <1>3, ListedLen
  <2> QED
    BY <2>1 DEF IssuesIn
<1>7. ASSUME NEW j \in DOMAIN xs
      PROVE  LET f == xs[j].function
                 pc == xs[j].rec.pc
                 IssuesAt(fn) ==
                   Total([k \in DOMAIN fn.instructions |->
                            IF fn.instructions[k].pc = pc THEN fn.instructions[k].issue_count ELSE 0])
             IN  Total([i \in DOMAIN xs |-> IF xs[i].function = f /\ xs[i].rec.pc = pc THEN 1 ELSE 0])
                   = Total([n \in DOMAIN fns |-> IF fns[n].name = f THEN IssuesAt(fns[n]) ELSE 0])
  <2>1. PICK f, pc : f = xs[j].function /\ pc = xs[j].rec.pc
    OBVIOUS
  <2> DEFINE IssuesAt(fn) ==
               Total([k \in DOMAIN fn.instructions |->
                        IF fn.instructions[k].pc = pc THEN fn.instructions[k].issue_count ELSE 0])
  <2>2. \A n \in DOMAIN fns : IssuesAt(fns[n]) = Total(IssuesIn(fns[n].instructions, pc))
    BY <1>6
  <2> HIDE DEF IssuesAt
  <2>3. [n \in DOMAIN fns |-> IF fns[n].name = f THEN IssuesAt(fns[n]) ELSE 0]
          = [n \in DOMAIN fns |->
               IF fns[n].name = f THEN Total(IssuesIn(fns[n].instructions, pc)) ELSE 0]
    BY ONLY <2>2
  <2>4. Total([i \in DOMAIN xs |-> IF xs[i].function = f /\ xs[i].rec.pc = pc THEN 1 ELSE 0])
          = Total([n \in DOMAIN fns |-> IF fns[n].name = f THEN IssuesAt(fns[n]) ELSE 0])
    BY ONLY <1>5, <2>1, <2>3
  <2> QED
    BY ONLY <2>1, <2>4 DEF IssuesAt
<1>8. ReportRight(xs, fns)
  BY ONLY <1>4, <1>7, Zenon DEF ReportRight, SumOver, Metric
<1>9. ReportRight(Flushed, report.functions)
  BY ONLY <1>2, <1>8
<1> QED
  BY ONLY <1>9, Zenon DEF RowsRight, ReportRight

\* For a launch that overlapped in no run, every row of the report is what the
\* warps recorded at its pc, issue by issue, lane by lane and metric by metric,
\* whatever runs the profile is made of; and over the launches no issue is lost
\* or counted twice.
THEOREM SpecRowsRight == Spec => []RowsRight
<1>1. ReadInv /\ ReportMade => RowsRight
  BY MadeRowsRight DEF ReadInv
<1>2. Init => Progress /\ ReadInv /\ TextsRead /\ ReportMade
  BY InitProgress, InitRead, InitMade
<1>3. (Progress /\ ReadInv /\ TextsRead /\ ReportMade) /\ [Next]_vars
        => (Progress /\ ReadInv /\ TextsRead /\ ReportMade)'
  BY StepProgress, StepRead, StepMade
<1> QED
  BY <1>1, <1>2, <1>3, PTL DEF Spec
-----------------------------------------------------------------------------
\* The elements of a set in some order, each once.
LEMMA SetToSeqIs ==
  ASSUME NEW S, IsFiniteSet(S), NEW s, s = SetToSeq(S)
  PROVE  /\ Listed(s) /\ \A i \in 1..Len(s) : s[i] \in S
         /\ \A i, j \in 1..Len(s) : s[i] = s[j] => i = j
         /\ \A x \in S : \E i \in 1..Len(s) : s[i] = x
<1>1. PICK c \in Nat : c = Cardinality(S) /\ ExistsBijection(1..c, S)
  BY FS_CardinalityType
<1>2. \E f \in [1..c -> S] : IsInjective(f)
  BY <1>1 DEF ExistsBijection, Bijection, Injection
<1>3. s \in [1..c -> S] /\ IsInjective(s)
  BY <1>1, <1>2 DEF SetToSeq
<1>4. s \in Injection(1..c, S)
  BY <1>3 DEF Injection
<1>5. Cardinality(1..c) = c
  BY <1>1, FS_Interval
<1>6. s \in Surjection(1..c, S)
  BY <1>1, <1>4, <1>5, FS_Injection
<1>7. s = [i \in 1..c |-> s[i]] /\ DOMAIN s = 1..c
  BY <1>3
<1>8. Listed(s) /\ Len(s) = c
  BY <1>7, FunctionListed
<1>9. \A i \in 1..c : s[i] \in S
  BY <1>3
<1>10. \A i, j \in 1..c : s[i] = s[j] => i = j
  BY <1>3, <1>7 DEF IsInjective
<1>11. \A x \in S : \E i \in 1..c : s[i] = x
  BY <1>6 DEF Surjection
<1> QED
  BY <1>8, <1>9, <1>10, <1>11

\* What w says of the elements of a list of lists adds up list by list.
ListsOf(S, s, m) == Listed(s) /\ Len(s) = m /\ \A n \in 1..m : s[n] \in Seq(S)
ValueLists(w, s, m) == [n \in 1..m |-> Values(w, s[n])]

LEMMA FlattenTotal ==
  ASSUME NEW S, NEW w \in [S -> Nat], NEW m \in Nat, NEW s, ListsOf(S, s, m),
         NEW v, v = ValueLists(w, s, m)
  PROVE  /\ FlattenSeq(s) \in Seq(S)
         /\ Total(Values(w, FlattenSeq(s))) = Total(Sums(v, m))
<1> USE DEF ListsOf, ValueLists
<1>1. PICK R : R = Sums(v, m)
  BY Zenon
<1> DEFINE P(k) == /\ FlattenSeq(FirstOf(s, k)) \in Seq(S)
                   /\ Total(Values(w, FlattenSeq(FirstOf(s, k)))) = Total(FirstOf(R, k))
           T == {k \in Nat : k <= m => P(k)}
<1>2. P(0)
  <2>1. PICK e : e = FlattenSeq(FirstOf(s, 0))
    OBVIOUS
  <2>2. e = <<>>
    BY <2>1, FirstListed, FlattenEmpty
  <2>3. e \in Seq(S) /\ Len(e) = 0
    BY <2>2
  <2>4. Values(w, e) = <<>>
    BY <2>3 DEF Values
  <2>5. Total(Values(w, e)) = 0 /\ Total(FirstOf(R, 0)) = 0
    BY <2>4, FirstListed, TotalEmpty
  <2> QED
    BY <2>1, <2>3, <2>5
<1>3. ASSUME NEW k \in Nat, k \in T, k + 1 <= m PROVE P(k + 1)
  <2>1. PICK x, y : x = FlattenSeq(FirstOf(s, k)) /\ y = s[k + 1]
    OBVIOUS
  <2>2. k + 1 \in 1..m
    BY <1>3
  <2>3. x \in Seq(S) /\ Total(Values(w, x)) = Total(FirstOf(R, k)) /\ y \in Seq(S)
    BY <1>3, <2>1, <2>2
  <2>4. FlattenSeq(FirstOf(s, k + 1)) = x \o y
    <3>1. PICK f : f = FirstOf(s, k)
      OBVIOUS
    <3>2. Listed(f) /\ Listed(y) /\ FirstOf(s, k + 1) = Append(f, y)
      BY <2>1, <2>3, <3>1, FirstListed, FirstNext, Zenon DEF Listed
    <3> QED
      BY <2>1, <3>1, <3>2, FlattenAppend, Zenon
  <2>5. x \o y \in Seq(S)
    BY <2>3
  <2>6. Total(Values(w, x \o y)) = Total(Values(w, x)) + Total(Values(w, y))
    BY ONLY w \in [S -> Nat], <2>3, ValuesConcat, Zenon
  <2>7. R[k + 1] = Total(Values(w, y))
    BY <1>1, <2>1, <2>2 DEF Sums
  <2>8. Total(FirstOf(R, k + 1)) = Total(FirstOf(R, k)) + R[k + 1]
    BY TotalNext
  <2> QED
    BY <2>3, <2>4, <2>5, <2>6, <2>7, <2>8, Zenon
<1>4. 0 \in T
  BY <1>2
<1>5. ASSUME NEW k \in Nat, k \in T PROVE k + 1 \in T
  <2> HIDE DEF P
  <2> QED
    BY <1>3, <1>5
<1> HIDE DEF T, P
<1>6. Nat \subseteq T
  BY <1>4, <1>5, NatSet, Zenon
<1>7. P(m)
  BY <1>6 DEF T
<1>8. FirstOf(s, m) = s
  BY FirstAll
<1>9. FirstOf(R, m) = R
  BY <1>1 DEF Sums, FirstOf
<1> QED
  BY <1>1, <1>7, <1>8, <1>9 DEF P

-----------------------------------------------------------------------------
\* The source panel.  What its rows need to know of a section:
Placed(fn, ptx) ==
  /\ Listed(fn.instructions)
  /\ \A k \in 1..Len(fn.instructions) : /\ fn.instructions[k].issue_count \in Nat
                                        /\ fn.instructions[k].source_line \in LineOrNone
  /\ fn.source_lines = SourceLines(fn.instructions, ptx)

LEMMA MadePlaced ==
  ASSUME NEW fn, NEW recs, NEW ptx, SectionMade(fn, recs, ptx)
  PROVE  Placed(fn, ptx)
<1>1. "issue_count" \in Counters \ KnownMetrics
  BY DEF Counters, KnownMetrics
<1>2. ASSUME NEW i, NEW pc, IsRow(i, pc)
      PROVE  i.issue_count \in Nat /\ i.source_line \in LineOrNone
  <2>1. Reading(i, "issue_count") \in Nat
    BY <1>1, <1>2 DEF IsRow
  <2> QED
    BY <1>1, <1>2, <2>1 DEF IsRow, Reading
<1> QED
  BY <1>2 DEF SectionMade, RowsCount, Placed

\* The issues of the instructions of one place.
IssuesOn(list, at) ==
  [k \in 1..Len(list) |-> IF HasSid(list[k]) /\ Sid(list[k]) = at THEN list[k].issue_count ELSE 0]

LEMMA SourceLinesAre ==
  ASSUME NEW fn, NEW ptx, Placed(fn, ptx), NEW list, list = fn.instructions
  PROVE  /\ DOMAIN fn.source_lines = {Sid(list[k]) : k \in {k \in 1..Len(list) : HasSid(list[k])}}
         /\ \A at \in DOMAIN fn.source_lines :
              fn.source_lines[at].issue_count = Total(IssuesOn(list, at))
<1>1. PICK N \in Nat : N = Len(list) /\ DOMAIN list = 1..N
  BY ListedLen DEF Placed
<1> DEFINE Located == {i \in Range(list) : i.source_file # None /\ i.source_line # NoLine}
           Place(i) == <<i.source_file, i.source_line>>
<1>2. PICK sl : sl = SourceLines(list, ptx)
  OBVIOUS
<1>3. fn.source_lines = sl
  BY <1>2 DEF Placed
<1>4. \A k \in 1..N : list[k] \in Located <=> HasSid(list[k])
  BY <1>1 DEF Range, HasSid
<1>5. \A k \in 1..N : HasSid(list[k]) => Sid(list[k]) = Place(list[k])
  BY DEF Sid
<1>6. DOMAIN sl = {Place(i) : i \in Located}
  BY <1>2, Zenon DEF SourceLines
<1>7. DOMAIN sl = {Sid(list[k]) : k \in {k \in 1..N : HasSid(list[k])}}
  <2>1. \A i \in Located : \E k \in 1..N : i = list[k]
    BY <1>1 DEF Range
  <2> HIDE DEF Located, Place
  <2> QED
    BY <1>4, <1>5, <1>6, <2>1
<1>8. ASSUME NEW at \in DOMAIN sl
      PROVE  sl[at].issue_count = Total(IssuesOn(list, at))
  <2>1. sl[at].issue_count
          = Total([k \in DOMAIN list |->
                     IF list[k] \in Located /\ Place(list[k]) = at THEN list[k].issue_count ELSE 0])
    BY <1>2, <1>6 DEF SourceLines, SumOver
  <2>2. \A k \in 1..N : (list[k] \in Located /\ Place(list[k]) = at)
                          <=> (HasSid(list[k]) /\ Sid(list[k]) = at)
    BY <1>4, <1>5
  <2>3. [k \in DOMAIN list |->
           IF list[k] \in Located /\ Place(list[k]) = at THEN list[k].issue_count ELSE 0]
          = IssuesOn(list, at)
    <3> HIDE DEF Located, Place
    <3> QED
      BY <1>1, <2>2 DEF IssuesOn
  <2> QED
    BY <2>1, <2>3
<1> QED
  BY <1>1, <1>3, <1>7, <1>8

\* Line numbers of the places are bounded.
LEMMA PlacesBounded ==
  ASSUME NEW fn, NEW ptx, Placed(fn, ptx)
  PROVE  \E n \in Nat : \A at \in DOMAIN fn.source_lines :
           at = <<at[1], at[2]>> /\ at[1] # None /\ at[2] \in 0..n
<1>1. PICK list : list = fn.instructions
  OBVIOUS
<1>2. PICK N \in Nat : N = Len(list)
  BY <1>1, ListedLen DEF Placed
<1>3. PICK s : s = [k \in 1..N |-> IF HasSid(list[k]) THEN list[k].source_line ELSE 0]
  BY Zenon
<1>4. \A k \in 1..N : HasSid(list[k]) => list[k].source_line \in Nat
  BY <1>1, <1>2 DEF Placed, LineOrNone, HasSid
<1>5. s \in [1..N -> Nat]
  BY <1>3, <1>4
<1>6. Numbers(s) /\ Len(s) = N
  BY <1>5, NumbersMade
<1>7. Total(s) \in Nat /\ \A k \in 1..N : s[k] \in 0..Total(s)
  <2>1. Total(s) \in Nat
    BY <1>6, TotalNat
  <2>2. \A k \in 1..N : s[k] <= Total(s)
    BY <1>6, TotalAtLeast
  <2> QED
    BY <1>5, <2>1, <2>2
<1>8. ASSUME NEW at \in DOMAIN fn.source_lines
      PROVE  at = <<at[1], at[2]>> /\ at[1] # None /\ at[2] \in 0..Total(s)
  <2>1. PICK k \in 1..N : HasSid(list[k]) /\ at = Sid(list[k])
    BY <1>1, <1>2, SourceLinesAre
  <2>2. at = <<list[k].source_file, list[k].source_line>>
    BY <2>1 DEF Sid
  <2>3. at[2] = s[k]
    BY <1>3, <2>1, <2>2
  <2> QED
    BY <1>7, <2>1, <2>2, <2>3 DEF HasSid
<1> QED
  BY <1>7, <1>8

\* A file's lines in the panel: each once, none of them 0, and all that have
\* instructions but for a line 0.
LEMMA LinesShownAre ==
  ASSUME NEW fn, NEW ptx, Placed(fn, ptx), NEW sf,
         \E at \in DOMAIN fn.source_lines : at[1] = sf,
         NEW full_src, Listed(full_src), NEW lns, lns = LinesShown(fn, sf, full_src)
  PROVE  /\ lns # {} /\ \E n \in Nat : lns \in SUBSET (1..n)
         /\ \A at \in DOMAIN fn.source_lines : at[1] = sf /\ at[2] # 0 => at[2] \in lns
<1>1. PICK b \in Nat : \A at \in DOMAIN fn.source_lines :
                         at = <<at[1], at[2]>> /\ at[1] # None /\ at[2] \in 0..b
  BY PlacesBounded
<1>2. PICK lines : lines = {at[2] : at \in {a \in DOMAIN fn.source_lines : a[1] = sf}}
  BY Zenon
<1>3. lines \in SUBSET (0..b) /\ lines # {}
  BY <1>1, <1>2
<1>4. \A at \in DOMAIN fn.source_lines : at[1] = sf => at[2] \in lines
  BY <1>2
<1>5. lns = IF full_src # <<>> THEN 1..Max({Max(lines), Len(full_src)})
              ELSE {l \in UNION {ln - 3..ln + 3 : ln \in lines} : l >= 1}
  BY <1>2 DEF LinesShown
<1>6. CASE full_src # <<>>
  <2>1. PICK m : m = Max(lines)
    OBVIOUS
  <2>2. m \in lines /\ \A y \in lines : m >= y
    BY <1>3, <2>1, MaxIn
  <2>3. PICK k \in Nat : k = Len(full_src) /\ k # 0
    <3>1. Len(full_src) \in Nat /\ full_src = [i \in 1..Len(full_src) |-> full_src[i]]
      BY ListedLen
    <3>2. CASE Len(full_src) = 0
      <4>1. full_src = <<>>
        BY <3>1, <3>2
      <4> QED
        BY <1>6, <4>1
    <3> QED
      BY <3>1, <3>2
  <2>4. PICK M : M = Max({m, k})
    OBVIOUS
  <2>5. M \in {m, k} /\ \A y \in {m, k} : M >= y
    <3>1. {m, k} \in SUBSET (0..b + k) /\ {m, k} # {} /\ b + k \in Nat
      BY <1>3, <2>2, <2>3
    <3>2. PICK T : T = {m, k}
      BY Zenon
    <3>3. Max(T) \in T /\ \A y \in T : Max(T) >= y
      BY <3>1, <3>2, MaxIn
    <3> QED
      BY <2>4, <3>2, <3>3
  <2>6. lns = 1..M
    BY <1>5, <1>6, <2>1, <2>3, <2>4
  <2>7. M \in Nat /\ M >= k /\ M >= m /\ m \in Nat
    BY <1>3, <2>2, <2>3, <2>5
  <2>8. lns # {}
    BY <2>3, <2>6, <2>7
  <2>9. ASSUME NEW at \in DOMAIN fn.source_lines, at[1] = sf, at[2] # 0 PROVE at[2] \in lns
    BY <1>1, <1>4, <2>2, <2>6, <2>7, <2>9
  <2> QED
    BY <2>6, <2>7, <2>8, <2>9, Zenon
<1>7. CASE full_src = <<>>
  <2>1. lns = {l \in UNION {ln - 3..ln + 3 : ln \in lines} : l >= 1}
    BY <1>5, <1>7
  <2>2. \A l : l \in lns <=> l >= 1 /\ \E ln \in lines : l \in ln - 3..ln + 3
    BY <2>1
  <2>3. \A ln \in lines : ln \in 0..b
    BY <1>3
  <2>4. ASSUME NEW l \in lns PROVE l \in 1..b + 3
    <3>1. PICK ln \in lines : l \in ln - 3..ln + 3 /\ l >= 1
      BY <2>2
    <3>2. ln \in 0..b
      BY <2>3
    <3> QED
      BY <3>1, <3>2
  <2>5. lns # {}
    <3>1. PICK ln \in lines : ln \in 0..b
      BY <1>3, Zenon
    <3>2. ln + 3 \in ln - 3..ln + 3 /\ ln + 3 >= 1
      BY <3>1
    <3> QED
      BY <2>2, <3>2
  <2>6. ASSUME NEW at \in DOMAIN fn.source_lines, at[1] = sf, at[2] # 0 PROVE at[2] \in lns
    <3>1. PICK ln \in lines : ln = at[2] /\ ln \in 0..b /\ ln # 0
      BY <1>4, <2>3, <2>6
    <3>2. ln \in ln - 3..ln + 3 /\ ln >= 1
      BY <3>1
    <3> QED
      BY <2>2, <3>1, <3>2
  <2>7. b + 3 \in Nat /\ lns \in SUBSET (1..b + 3)
    BY <2>4
  <2> QED
    BY <2>5, <2>6, <2>7
<1> QED
  BY <1>6, <1>7

LEMMA PanelLines ==
  ASSUME NEW fn, NEW ptx, Placed(fn, ptx), NEW sf,
         \E at \in DOMAIN fn.source_lines : at[1] = sf,
         NEW full_src, Listed(full_src), NEW s, s = Ascending(LinesShown(fn, sf, full_src))
  PROVE  /\ Listed(s) /\ \A k \in 1..Len(s) : s[k] \in Nat \ {0}
         /\ \A i, j \in 1..Len(s) : s[i] = s[j] => i = j
         /\ \A at \in DOMAIN fn.source_lines : at[1] = sf /\ at[2] # 0 =>
              \E k \in 1..Len(s) : s[k] = at[2]
<1>1. PICK lns : lns = LinesShown(fn, sf, full_src)
  OBVIOUS
<1>2. /\ lns # {} /\ \E n \in Nat : lns \in SUBSET (1..n)
      /\ \A at \in DOMAIN fn.source_lines : at[1] = sf /\ at[2] # 0 => at[2] \in lns
  BY <1>1, LinesShownAre, Zenon
<1>3. PICK n \in Nat : lns \in SUBSET (1..n) /\ lns \in SUBSET (0..n)
  BY <1>2
<1>4. /\ Listed(s)
      /\ \A i \in 1..Len(s) : s[i] \in lns
      /\ \A i, j \in 1..Len(s) : s[i] = s[j] => i = j
      /\ \A x \in lns : \E i \in 1..Len(s) : s[i] = x
  <2>1. s = Ascending(lns)
    BY <1>1
  <2>2. n \in Nat /\ lns \in SUBSET (0..n) /\ lns # {}
    BY <1>2, <1>3
  <2>3. /\ Listed(Ascending(lns))
        /\ \A i \in 1..Len(Ascending(lns)) : Ascending(lns)[i] \in lns
        /\ \A i, j \in 1..Len(Ascending(lns)) : Ascending(lns)[i] = Ascending(lns)[j] => i = j
        /\ \A x \in lns : \E i \in 1..Len(Ascending(lns)) : Ascending(lns)[i] = x
    BY ONLY <2>2, AscendingIs, Zenon
  <2> QED
    BY ONLY <2>1, <2>3
<1>5. \A k \in 1..Len(s) : s[k] \in Nat \ {0}
  <2>1. \A x \in lns : x \in Nat \ {0}
    BY <1>3
  <2> QED
    BY <1>4, <2>1
<1> QED
  BY <1>2, <1>4, <1>5, Zenon

\* A row of the panel shows its place's issues and how many instructions it has.
InstrsOn(list, at) == {n \in DOMAIN list : Sid(list[n]) = at}

LEMMA IssuesOnNumbers ==
  ASSUME NEW fn, NEW ptx, Placed(fn, ptx), NEW at
  PROVE  LET s == IssuesOn(fn.instructions, at)
         IN  /\ s \in [1..Len(fn.instructions) -> Nat] /\ Numbers(s)
             /\ Len(s) = Len(fn.instructions) /\ Total(s) \in Nat
<1>1. PICK list, N : list = fn.instructions /\ N = Len(list)
  BY Zenon
<1>2. N \in Nat /\ \A k \in 1..N : list[k].issue_count \in Nat
  BY <1>1, ListedLen DEF Placed
<1>3. PICK s : s = IssuesOn(list, at)
  OBVIOUS
<1>4. s \in [1..N -> Nat]
  BY <1>1, <1>2, <1>3 DEF IssuesOn
<1>5. Numbers(s) /\ Len(s) = N /\ Total(s) \in Nat
  BY <1>2, <1>4, NumbersMade, TotalNat
<1> QED
  BY <1>1, <1>3, <1>4, <1>5

LEMMA SrcRowIs ==
  ASSUME NEW fn, NEW ptx, Placed(fn, ptx), NEW sf, NEW full_src, NEW ln,
         NEW at, at = <<sf, ln>>, NEW r, r = SrcRow(fn, sf, full_src, ln)
  PROVE  /\ r.n_ptx = Cardinality(InstrsOn(fn.instructions, at))
         /\ r.sid = IF Cardinality(InstrsOn(fn.instructions, at)) > 0 THEN at ELSE NoSid
         /\ r.exec = Total(IssuesOn(fn.instructions, at))
<1>1. PICK list : list = fn.instructions
  OBVIOUS
<1>2. PICK n : n = Cardinality(InstrsOn(list, at))
  OBVIOUS
<1>3. /\ r.n_ptx = n /\ r.sid = IF n > 0 THEN at ELSE NoSid
      /\ r.exec = IF at \in DOMAIN fn.source_lines THEN fn.source_lines[at].issue_count ELSE 0
  BY <1>1, <1>2 DEF SrcRow, InstrsOn
<1>4. CASE at \in DOMAIN fn.source_lines
  <2>1. fn.source_lines[at].issue_count = Total(IssuesOn(list, at))
    BY <1>1, <1>4, SourceLinesAre
  <2> QED
    BY <1>1, <1>2, <1>3, <1>4, <2>1
<1>5. CASE at \notin DOMAIN fn.source_lines
  <2>1. PICK s : s = IssuesOn(list, at)
    OBVIOUS
  <2>2. Numbers(s) /\ Len(s) = Len(list)
    BY <1>1, <2>1, IssuesOnNumbers, Zenon
  <2>3. \A k \in 1..Len(list) : ~(HasSid(list[k]) /\ Sid(list[k]) = at)
    BY <1>1, <1>5, SourceLinesAre
  <2>4. \A k \in 1..Len(s) : s[k] = 0
    BY <2>1, <2>2, <2>3 DEF IssuesOn
  <2>5. Total(s) = 0
    BY <2>2, <2>4, TotalZero
  <2> QED
    BY <1>1, <1>2, <1>3, <1>5, <2>1, <2>5
<1> QED
  BY <1>4, <1>5

\* The files of the panel, each once, and the lines of each.
IsPanel(fn, F, lines, m) ==
  /\ \A n \in 1..m : /\ Listed(lines[n]) /\ \A k \in 1..Len(lines[n]) : lines[n][k] \in Nat \ {0}
                     /\ \A i, j \in 1..Len(lines[n]) : lines[n][i] = lines[n][j] => i = j
                     /\ \A i \in 1..m : F[i] = F[n] => i = n
  /\ \A at \in DOMAIN fn.source_lines : at[2] # 0 =>
       \E n \in 1..m : F[n] = at[1] /\ \E k \in 1..Len(lines[n]) : lines[n][k] = at[2]
Block(fn, files, sf, lines) ==
  [k \in 1..Len(lines) |-> SrcRow(fn, sf, Get(files, sf, <<>>), lines[k])]
Blocks(fn, files, F, lines, m) == [n \in 1..m |-> Block(fn, files, F[n], lines[n])]

LEMMA PanelIs ==
  ASSUME NEW fn, NEW ptx, Placed(fn, ptx),
         NEW files, \A p \in DOMAIN files : Listed(files[p])
  PROVE  \E m \in Nat : \E F, lines :
           /\ IsPanel(fn, F, lines, m)
           /\ Listed(Blocks(fn, files, F, lines, m)) /\ Len(Blocks(fn, files, F, lines, m)) = m
           /\ src_rows(fn, files) = FlattenSeq(Blocks(fn, files, F, lines, m))
<1>1. PICK list : list = fn.instructions
  OBVIOUS
<1>2. PICK S : S = {at[1] : at \in DOMAIN fn.source_lines}
  BY Zenon
<1>3. IsFiniteSet(S)
  <2>1. PICK N \in Nat : N = Len(list)
    BY <1>1, ListedLen DEF Placed
  <2>2. PICK K : K = {k \in 1..N : HasSid(list[k])}
    BY Zenon
  <2>3. IsFiniteSet(K)
    <3>1. IsFiniteSet(1..N) /\ K \in SUBSET (1..N)
      BY <2>2, FS_Interval
    <3> QED
      BY <3>1, FS_Subset, Zenon
  <2>4. PICK f : f = [k \in K |-> Sid(list[k])[1]]
    BY Zenon
  <2>5. DOMAIN fn.source_lines = {Sid(list[k]) : k \in K}
    BY <1>1, <2>1, <2>2, SourceLinesAre
  <2>6. f \in Surjection(K, S)
    <3>1. f \in [K -> S]
      BY <1>2, <2>4, <2>5
    <3>2. \A x \in S : \E k \in K : f[k] = x
      BY <1>2, <2>4, <2>5
    <3> QED
      BY ONLY <3>1, <3>2 DEF Surjection
  <2> QED
    BY ONLY <2>3, <2>6, FS_Surjection
<1>4. PICK F : F = Files(fn)
  OBVIOUS
<1>5. /\ Listed(F) /\ \A i \in 1..Len(F) : F[i] \in S
      /\ \A i, j \in 1..Len(F) : F[i] = F[j] => i = j
      /\ \A x \in S : \E i \in 1..Len(F) : F[i] = x
  <2>1. F = SetToSeq(S)
    BY <1>2, <1>4 DEF Files
  <2> QED
    BY ONLY <1>3, <2>1, SetToSeqIs
<1>6. PICK m \in Nat : m = Len(F) /\ DOMAIN F = 1..m
  BY <1>5, ListedLen
<1> DEFINE Full(sf) == Get(files, sf, <<>>)
           Shows(sf) == Ascending(LinesShown(fn, sf, Full(sf)))
<1>7. PICK lines : lines = [n \in 1..m |-> Shows(F[n])]
  BY Zenon
<1>8. ASSUME NEW n \in 1..m
      PROVE  /\ Listed(lines[n]) /\ \A k \in 1..Len(lines[n]) : lines[n][k] \in Nat \ {0}
             /\ \A i, j \in 1..Len(lines[n]) : lines[n][i] = lines[n][j] => i = j
             /\ \A at \in DOMAIN fn.source_lines : at[1] = F[n] /\ at[2] # 0 =>
                  \E k \in 1..Len(lines[n]) : lines[n][k] = at[2]
  <2>1. PICK sf, full, s : sf = F[n] /\ full = Full(sf) /\ s = Ascending(LinesShown(fn, sf, full))
    OBVIOUS
  <2>2. Listed(full)
    <3>1. Listed(<<>>)
      BY Tuples, Zenon
    <3> QED
      BY <2>1, <3>1 DEF Get
  <2>3. \E at \in DOMAIN fn.source_lines : at[1] = sf
    BY <1>2, <1>5, <1>6, <2>1
  <2>4. lines[n] = s
    BY <1>7, <2>1
  <2>5. /\ Listed(s) /\ \A k \in 1..Len(s) : s[k] \in Nat \ {0}
        /\ \A i, j \in 1..Len(s) : s[i] = s[j] => i = j
        /\ \A at \in DOMAIN fn.source_lines : at[1] = sf /\ at[2] # 0 =>
             \E k \in 1..Len(s) : s[k] = at[2]
    <3>1. s = Ascending(LinesShown(fn, sf, full))
      BY <2>1
    <3> QED
      BY ONLY Placed(fn, ptx), <2>2, <2>3, <3>1, PanelLines
  <2> QED
    BY ONLY <2>1, <2>4, <2>5
<1>9. IsPanel(fn, F, lines, m)
  <2>1. ASSUME NEW at \in DOMAIN fn.source_lines, at[2] # 0
        PROVE  \E n \in 1..m : F[n] = at[1] /\ \E k \in 1..Len(lines[n]) : lines[n][k] = at[2]
    <3>1. at[1] \in S
      BY <1>2
    <3>2. PICK n \in 1..m : F[n] = at[1]
      BY <1>5, <1>6, <3>1
    <3>3. \E k \in 1..Len(lines[n]) : lines[n][k] = at[2]
      BY <1>8, <2>1, <3>2
    <3> QED
      BY <3>2, <3>3
  <2>2. \A n, i \in 1..m : F[i] = F[n] => i = n
    BY <1>5, <1>6
  <2> QED
    BY ONLY <1>8, <2>1, <2>2, Zenon DEF IsPanel
<1>10. PICK B : B = Blocks(fn, files, F, lines, m)
  OBVIOUS
<1>11. Listed(B) /\ Len(B) = m
  <2>1. B = [n \in 1..m |-> B[n]]
    BY <1>10 DEF Blocks
  <2> QED
    BY <2>1, FunctionListed
<1>12. src_rows(fn, files) = FlattenSeq(B)
  <2>1. ASSUME NEW n \in 1..m
        PROVE  [k \in DOMAIN lines[n] |-> SrcRow(fn, F[n], Full(F[n]), lines[n][k])] = B[n]
    <3>1. DOMAIN lines[n] = 1..Len(lines[n])
      BY <1>8, ListedLen
    <3> QED
      BY <1>10, <3>1 DEF Blocks, Block
  <2>2. [n \in DOMAIN F |-> [k \in DOMAIN Shows(F[n]) |->
           SrcRow(fn, F[n], Full(F[n]), Shows(F[n])[k])]] = B
    <3>1. B = [n \in 1..m |-> B[n]]
      BY <1>10 DEF Blocks
    <3>2. \A n \in 1..m : lines[n] = Shows(F[n])
      BY <1>7
    <3> HIDE DEF Full, Shows
    <3> QED
      BY <1>6, <2>1, <3>1, <3>2
  <2> QED
    BY <1>4, <2>2 DEF src_rows
<1> QED
  BY ONLY <1>9, <1>10, <1>11, <1>12, m \in Nat

\* What is known of the panel of a section.
PanelOf(fn, files, F, lines, m) ==
  /\ IsPanel(fn, F, lines, m)
  /\ Listed(Blocks(fn, files, F, lines, m)) /\ Len(Blocks(fn, files, F, lines, m)) = m
  /\ src_rows(fn, files) = FlattenSeq(Blocks(fn, files, F, lines, m))

\* Its rows, block by block, and sums over them.
RowsOfBlock(B, lines, n) == {B[n][k] : k \in 1..Len(lines[n])}
RowsOfBlocks(B, lines, m) == UNION {RowsOfBlock(B, lines, n) : n \in 1..m}

LEMMA RowsOfBlocksAre ==
  ASSUME NEW B, NEW lines, NEW m, NEW r
  PROVE  r \in RowsOfBlocks(B, lines, m)
           <=> \E n \in 1..m : \E k \in 1..Len(lines[n]) : r = B[n][k]
<1>1. r \in RowsOfBlocks(B, lines, m) <=> \E n \in 1..m : r \in RowsOfBlock(B, lines, n)
  BY DEF RowsOfBlocks
<1> QED
  BY <1>1 DEF RowsOfBlock

BlockValues(w, B, lines, n) == [k \in 1..Len(lines[n]) |-> w[B[n][k]]]

LEMMA BlocksTotal ==
  ASSUME NEW fn, NEW files, NEW F, NEW lines, NEW m \in Nat, PanelOf(fn, files, F, lines, m),
         NEW src, src = src_rows(fn, files), NEW B, B = Blocks(fn, files, F, lines, m),
         NEW S, S = RowsOfBlocks(B, lines, m), NEW w \in [S -> Nat],
         NEW v, v = ValueLists(w, B, m)
  PROVE  /\ src \in Seq(S)
         /\ Total(Values(w, src)) = Total(Sums(v, m))
         /\ \A n \in 1..m : v[n] = BlockValues(w, B, lines, n)
         /\ \A n \in 1..m : \A k \in 1..Len(lines[n]) : w[B[n][k]] \in Nat
<1>1. \A n \in 1..m : \A k \in 1..Len(lines[n]) : B[n][k] \in S
  BY RowsOfBlocksAre
<1>2. ASSUME NEW n \in 1..m PROVE B[n] \in Seq(S) /\ Len(B[n]) = Len(lines[n])
  <2>1. PICK c, b : c = Len(lines[n]) /\ b = B[n]
    BY Zenon
  <2>2. c \in Nat
    BY <2>1, ListedLen DEF PanelOf, IsPanel
  <2>3. b = [k \in 1..c |-> b[k]]
    BY <2>1 DEF Blocks, Block
  <2>4. \A k \in 1..c : b[k] \in S
    BY <1>1, <2>1
  <2>5. b \in [1..c -> S]
    BY ONLY <2>3, <2>4
  <2>6. b \in Seq(S) /\ Len(b) = c
    BY ONLY <2>2, <2>5
  <2> QED
    BY <2>1, <2>6
<1>3. FlattenSeq(B) \in Seq(S) /\ Total(Values(w, FlattenSeq(B))) = Total(Sums(v, m))
  <2>1. ListsOf(S, B, m)
    BY <1>2 DEF ListsOf, PanelOf
  <2> QED
    BY ONLY m \in Nat, w \in [S -> Nat], v = ValueLists(w, B, m), <2>1, FlattenTotal
<1>4. \A n \in 1..m : v[n] = BlockValues(w, B, lines, n)
  BY <1>2 DEF Values, ValueLists, BlockValues
<1>5. src = FlattenSeq(B)
  BY DEF PanelOf
<1>6. \A n \in 1..m : \A k \in 1..Len(lines[n]) : w[B[n][k]] \in Nat
  BY <1>1
<1> QED
  BY <1>3, <1>4, <1>5, <1>6

\* Instructions that the page links to a line.
LinkedTo(i) == HasSid(i) /\ Sid(i)[2] # 0
LinkedIn(list) == {i \in 1..Len(list) : LinkedTo(list[i])}
LinkedInFile(list, f) == {i \in 1..Len(list) : LinkedTo(list[i]) /\ Sid(list[i])[1] = f}
IssuesIf(list, which) ==
  [k \in 1..Len(list) |-> IF k \in which THEN list[k].issue_count ELSE 0]

LEMMA IssuesIfNumbers ==
  ASSUME NEW fn, NEW ptx, Placed(fn, ptx), NEW which, NEW N, N = Len(fn.instructions),
         NEW s, s = IssuesIf(fn.instructions, which)
  PROVE  N \in Nat /\ s \in [1..N -> Nat] /\ Numbers(s) /\ Len(s) = N /\ Total(s) \in Nat
<1>1. PICK list : list = fn.instructions
  OBVIOUS
<1>2. N \in Nat /\ \A k \in 1..N : list[k].issue_count \in Nat
  BY <1>1, ListedLen DEF Placed
<1>3. s \in [1..N -> Nat]
  BY <1>1, <1>2 DEF IssuesIf
<1> QED
  BY <1>2, <1>3, NumbersMade, TotalNat, Zenon

\* A file's rows show the issues of its linked instructions.
LineIssues(list, f, lns) == [k \in 1..Len(lns) |-> Total(IssuesOn(list, <<f, lns[k]>>))]

LEMMA FileIssues ==
  ASSUME NEW fn, NEW ptx, Placed(fn, ptx), NEW F, NEW lines, NEW m \in Nat,
         IsPanel(fn, F, lines, m), NEW n \in 1..m,
         NEW list, list = fn.instructions,
         NEW s, s = LineIssues(list, F[n], lines[n])
  PROVE  Total(s) = Total(IssuesIf(list, LinkedInFile(list, F[n])))
<1>1. PICK N : N = Len(list)
  BY Zenon
<1>2. PICK c \in Nat : c = Len(lines[n])
  BY ListedLen DEF IsPanel
<1>3. PICK which : /\ which = {i \in 1..N : LinkedTo(list[i]) /\ Sid(list[i])[1] = F[n]}
                   /\ which = LinkedInFile(list, F[n])
  BY <1>1, Zenon DEF LinkedInFile
<1>4. PICK u : u = IssuesIf(list, which)
  OBVIOUS
<1>5. N \in Nat /\ u \in [1..N -> Nat]
  BY <1>1, <1>4, IssuesIfNumbers, Zenon
<1>6. PICK q : q = [k \in 1..c |-> IssuesOn(list, <<F[n], lines[n][k]>>)]
  BY Zenon
<1>7. q \in [1..c -> [1..N -> Nat]]
  <2>1. \A k \in 1..c : q[k] \in [1..N -> Nat]
    BY <1>1, <1>6, IssuesOnNumbers, Zenon
  <2> QED
    BY <1>6, <2>1
<1>8. ASSUME NEW i \in 1..N PROVE \E j \in Nat : OnlyAt(q, c, i, u[i], j)
  <2>1. \A k \in 1..c : q[k][i] = IF HasSid(list[i]) /\ Sid(list[i]) = <<F[n], lines[n][k]>>
                                  THEN list[i].issue_count ELSE 0
    BY <1>1, <1>6 DEF IssuesOn
  <2>2. u[i] = IF i \in which THEN list[i].issue_count ELSE 0
    BY <1>1, <1>4 DEF IssuesIf
  <2>3. CASE i \in which
    <3>1. PICK at : at = Sid(list[i])
      OBVIOUS
    <3>2. HasSid(list[i]) /\ at[2] # 0 /\ at[1] = F[n]
      BY <1>3, <2>3, <3>1 DEF LinkedTo
    <3>3. at \in DOMAIN fn.source_lines
      BY <1>1, <3>1, <3>2, SourceLinesAre
    <3>4. PICK p \in 1..m : F[p] = at[1] /\ \E k \in 1..Len(lines[p]) : lines[p][k] = at[2]
      BY <3>2, <3>3 DEF IsPanel
    <3>5. p = n
      BY <3>2, <3>4 DEF IsPanel
    <3>6. PICK j \in 1..c : lines[n][j] = at[2]
      BY <1>2, <3>4, <3>5
    <3>7. at = <<F[n], lines[n][j]>>
      <4>1. at = <<at[1], at[2]>>
        BY <3>3, PlacesBounded
      <4> QED
        BY <3>2, <3>6, <4>1
    <3>8. q[j][i] = u[i]
      BY <2>1, <2>2, <2>3, <3>1, <3>2, <3>7
    <3>9. ASSUME NEW k \in 1..c, k # j PROVE q[k][i] = 0
      <4>1. lines[n][k] # lines[n][j]
        BY <1>2, <3>9 DEF IsPanel
      <4>2. <<F[n], lines[n][k]>> # at
        BY ONLY <3>7, <4>1
      <4> QED
        BY <2>1, <3>1, <4>2
    <3>10. OnlyAt(q, c, i, u[i], j)
      BY <3>8, <3>9 DEF OnlyAt
    <3>11. j \in Nat
      OBVIOUS
    <3> QED
      BY ONLY <3>10, <3>11
  <2>4. CASE i \notin which
    <3>1. ASSUME NEW k \in 1..c PROVE q[k][i] = 0
      <4>1. PICK l : l = lines[n][k]
        OBVIOUS
      <4>2. l \in Nat \ {0}
        BY <1>2, <4>1 DEF IsPanel
      <4>3. <<F[n], l>>[1] = F[n] /\ <<F[n], l>>[2] = l
        OBVIOUS
      <4>4. ~(HasSid(list[i]) /\ Sid(list[i]) = <<F[n], l>>)
        BY <1>3, <2>4, <4>2, <4>3 DEF LinkedTo
      <4> QED
        BY <2>1, <4>1, <4>4
    <3>2. u[i] = 0
      BY <2>2, <2>4
    <3>3. OnlyAt(q, c, i, u[i], 0)
      BY <3>1, <3>2 DEF OnlyAt
    <3> QED
      BY <3>3
  <2> QED
    BY <2>3, <2>4
<1>9. Scattered(q, c, u, N)
  BY <1>8 DEF Scattered
<1>10. Total(Sums(q, c)) = Total(u)
  BY ONLY c \in Nat, <1>5, <1>7, <1>9, TotalScatter, Zenon
<1>11. s = Sums(q, c)
  BY <1>2, <1>6 DEF Sums, LineIssues
<1> QED
  BY <1>1, <1>3, <1>4, <1>10, <1>11

\* A row of the panel.
LEMMA BlockRow ==
  ASSUME NEW fn, NEW ptx, Placed(fn, ptx), NEW files, NEW F, NEW lines, NEW m \in Nat,
         NEW n \in 1..m, NEW k \in 1..Len(lines[n]),
         NEW r, r = Blocks(fn, files, F, lines, m)[n][k], NEW at, at = <<F[n], lines[n][k]>>
  PROVE  /\ r.n_ptx = Cardinality(InstrsOn(fn.instructions, at))
         /\ r.sid = IF Cardinality(InstrsOn(fn.instructions, at)) > 0 THEN at ELSE NoSid
         /\ r.exec = Total(IssuesOn(fn.instructions, at))
<1>1. PICK sf, ln, full : sf = F[n] /\ ln = lines[n][k] /\ full = Get(files, sf, <<>>)
  OBVIOUS
<1>2. r = SrcRow(fn, sf, full, ln)
  BY <1>1 DEF Blocks, Block
<1> QED
  BY <1>1, <1>2, SrcRowIs

\* The source panel shows the issues of the linked instructions.
LEMMA FilesIssues ==
  ASSUME NEW fn, NEW ptx, Placed(fn, ptx), NEW F, NEW lines, NEW m \in Nat,
         IsPanel(fn, F, lines, m), NEW list, list = fn.instructions,
         NEW v, v = [n \in 1..m |-> IssuesIf(list, LinkedInFile(list, F[n]))]
  PROVE  Total(Sums(v, m)) = Total(IssuesIf(list, LinkedIn(list)))
<1>1. PICK N : N = Len(list)
  BY Zenon
<1>2. PICK u : u = IssuesIf(list, LinkedIn(list))
  OBVIOUS
<1>3. N \in Nat /\ u \in [1..N -> Nat]
  BY <1>1, <1>2, IssuesIfNumbers, Zenon
<1>4. v \in [1..m -> [1..N -> Nat]]
  <2>1. ASSUME NEW n \in 1..m PROVE v[n] \in [1..N -> Nat]
    <3>1. PICK which : which = LinkedInFile(list, F[n])
      OBVIOUS
    <3>2. v[n] = IssuesIf(list, which)
      BY <3>1
    <3> QED
      BY <1>1, <3>2, IssuesIfNumbers, Zenon
  <2> QED
    BY <2>1
<1>5. ASSUME NEW i \in 1..N PROVE \E j \in Nat : OnlyAt(v, m, i, u[i], j)
  <2>1. \A n \in 1..m : v[n][i] = IF LinkedTo(list[i]) /\ Sid(list[i])[1] = F[n]
                                  THEN list[i].issue_count ELSE 0
    BY <1>1 DEF IssuesIf, LinkedInFile
  <2>2. u[i] = IF LinkedTo(list[i]) THEN list[i].issue_count ELSE 0
    BY <1>1, <1>2 DEF IssuesIf, LinkedIn
  <2>3. CASE LinkedTo(list[i])
    <3>1. PICK at : at = Sid(list[i])
      OBVIOUS
    <3>2. HasSid(list[i]) /\ at[2] # 0
      BY <2>3, <3>1 DEF LinkedTo
    <3>3. at \in DOMAIN fn.source_lines
      BY <1>1, <3>1, <3>2, SourceLinesAre
    <3>4. PICK n \in 1..m : F[n] = at[1]
      BY <3>2, <3>3 DEF IsPanel
    <3>5. v[n][i] = u[i]
      BY <2>1, <2>2, <2>3, <3>1, <3>4
    <3>6. ASSUME NEW a \in 1..m, a # n PROVE v[a][i] = 0
      <4>1. F[a] # at[1]
        BY <3>4, <3>6 DEF IsPanel
      <4> QED
        BY <2>1, <3>1, <4>1
    <3>7. OnlyAt(v, m, i, u[i], n)
      BY <3>5, <3>6 DEF OnlyAt
    <3> QED
      BY ONLY m \in Nat, n \in 1..m, <3>7
  <2>4. CASE ~LinkedTo(list[i])
    <3>1. OnlyAt(v, m, i, u[i], 0)
      BY <2>1, <2>2, <2>4 DEF OnlyAt
    <3> QED
      BY <3>1
  <2> QED
    BY <2>3, <2>4
<1>6. Scattered(v, m, u, N)
  BY <1>5 DEF Scattered
<1> QED
  BY ONLY m \in Nat, <1>2, <1>3, <1>4, <1>6, TotalScatter, Zenon

LEMMA SourceIssues ==
  ASSUME NEW fn, NEW ptx, Placed(fn, ptx), NEW files, NEW F, NEW lines, NEW m \in Nat,
         PanelOf(fn, files, F, lines, m), NEW src, src = src_rows(fn, files),
         NEW list, list = fn.instructions
  PROVE  /\ Listed(src)
         /\ Total([k \in DOMAIN src |-> src[k].exec]) = Total(IssuesIf(list, LinkedIn(list)))
<1>1. PICK B : B = Blocks(fn, files, F, lines, m)
  OBVIOUS
<1>2. IsPanel(fn, F, lines, m) /\ \A n \in 1..m : Listed(lines[n])
  BY DEF PanelOf, IsPanel
<1>3. ASSUME NEW n \in 1..m, NEW k \in 1..Len(lines[n])
      PROVE  /\ B[n][k].exec = Total(IssuesOn(list, <<F[n], lines[n][k]>>))
             /\ B[n][k].exec \in Nat
  <2>1. PICK r, at : r = B[n][k] /\ at = <<F[n], lines[n][k]>>
    BY Zenon
  <2>2. r.exec = Total(IssuesOn(list, at))
    BY <1>1, <2>1, BlockRow
  <2>3. Total(IssuesOn(list, at)) \in Nat
    BY IssuesOnNumbers
  <2> QED
    BY <2>1, <2>2, <2>3
<1>4. PICK S : S = RowsOfBlocks(B, lines, m)
  OBVIOUS
<1>5. PICK w : w = [r \in S |-> r.exec]
  BY Zenon
<1>6. w \in [S -> Nat]
  <2>1. ASSUME NEW r \in S PROVE r.exec \in Nat
    <3>1. PICK n \in 1..m : \E k \in 1..Len(lines[n]) : r = B[n][k]
      BY <1>4, RowsOfBlocksAre
    <3> QED
      BY <1>3, <3>1, Zenon
  <2> QED
    BY <1>5, <2>1
<1>7. PICK v : v = ValueLists(w, B, m)
  OBVIOUS
<1>8. /\ src \in Seq(S) /\ Total(Values(w, src)) = Total(Sums(v, m))
      /\ \A n \in 1..m : v[n] = BlockValues(w, B, lines, n)
      /\ \A n \in 1..m : \A k \in 1..Len(lines[n]) : w[B[n][k]] \in Nat
  BY ONLY PanelOf(fn, files, F, lines, m), src = src_rows(fn, files), m \in Nat,
          <1>1, <1>4, <1>6, <1>7, BlocksTotal
<1>9. PICK q : q = [n \in 1..m |-> IssuesIf(list, LinkedInFile(list, F[n]))]
  BY Zenon
<1>10. ASSUME NEW n \in 1..m PROVE Total(v[n]) = Total(q[n])
  <2>1. PICK s : s = LineIssues(list, F[n], lines[n])
    OBVIOUS
  <2>2. \A k \in 1..Len(lines[n]) : w[B[n][k]] = Total(IssuesOn(list, <<F[n], lines[n][k]>>))
    BY <1>3, <1>4, <1>5, RowsOfBlocksAre, Zenon
  <2>3. v[n] = s
    BY <1>8, <2>1, <2>2, Zenon DEF LineIssues, BlockValues
  <2>4. Total(s) = Total(IssuesIf(list, LinkedInFile(list, F[n])))
    BY <1>2, <2>1, FileIssues
  <2> QED
    BY <1>9, <2>3, <2>4
<1>11. Sums(v, m) = Sums(q, m)
  BY <1>10 DEF Sums
<1>12. Total(Sums(q, m)) = Total(IssuesIf(list, LinkedIn(list)))
  BY <1>2, <1>9, FilesIssues
<1>13. Values(w, src) = [k \in DOMAIN src |-> src[k].exec]
  <2>1. DOMAIN src = 1..Len(src) /\ \A k \in 1..Len(src) : src[k] \in S
    BY <1>8
  <2> QED
    BY <1>5, <2>1 DEF Values
<1>14. Listed(src)
  BY <1>8 DEF Listed
<1> QED
  BY <1>8, <1>11, <1>12, <1>13, <1>14

\* Each line with instructions has one row, which counts them.
LEMMA OneSourceRow ==
  ASSUME NEW fn, NEW ptx, Placed(fn, ptx), NEW files, NEW F, NEW lines, NEW m \in Nat,
         PanelOf(fn, files, F, lines, m), NEW src, src = src_rows(fn, files),
         NEW list, list = fn.instructions, NEW i \in LinkedIn(list),
         NEW at, at = Sid(list[i])
  PROVE  \E k \in RowsOfSid(src, at) :
           RowsOfSid(src, at) = {k} /\ src[k].n_ptx = Cardinality(InstrsOn(list, at))
<1>1. PICK B : B = Blocks(fn, files, F, lines, m)
  OBVIOUS
<1>2. IsPanel(fn, F, lines, m) /\ \A n \in 1..m : Listed(lines[n])
  BY DEF PanelOf, IsPanel
<1>3. PICK S : S = RowsOfBlocks(B, lines, m)
  OBVIOUS
<1>4. PICK w : w = [r \in S |-> IF r.sid = at THEN 1 ELSE 0]
  BY Zenon
<1>5. w \in [S -> Nat]
  BY <1>4
<1>6. PICK v : v = ValueLists(w, B, m)
  OBVIOUS
<1>7. /\ src \in Seq(S) /\ Total(Values(w, src)) = Total(Sums(v, m))
      /\ \A n \in 1..m : v[n] = BlockValues(w, B, lines, n)
      /\ \A n \in 1..m : \A k \in 1..Len(lines[n]) : w[B[n][k]] \in Nat
  BY ONLY PanelOf(fn, files, F, lines, m), src = src_rows(fn, files), m \in Nat,
          <1>1, <1>3, <1>5, <1>6, BlocksTotal
<1>8. /\ HasSid(list[i]) /\ at[2] # 0 /\ i \in 1..Len(list) /\ at \in DOMAIN fn.source_lines
      /\ at = <<at[1], at[2]>> /\ at # NoSid
  <2>1. HasSid(list[i]) /\ at[2] # 0 /\ i \in 1..Len(list)
    BY DEF LinkedIn, LinkedTo
  <2>2. at \in DOMAIN fn.source_lines
    BY <2>1, SourceLinesAre
  <2>3. at = <<at[1], at[2]>> /\ at[1] # None
    BY <2>2, PlacesBounded
  <2> QED
    BY <2>1, <2>2, <2>3 DEF NoSid
<1>9. PICK c : c = Cardinality(InstrsOn(list, at))
  OBVIOUS
<1>10. c \in Nat \ {0}
  <2>1. DOMAIN list = 1..Len(list) /\ Len(list) \in Nat
    BY ListedLen DEF Placed
  <2>2. InstrsOn(list, at) \subseteq 1..Len(list) /\ i \in InstrsOn(list, at)
    BY <1>8, <2>1 DEF InstrsOn
  <2>3. IsFiniteSet(InstrsOn(list, at))
    <3>1. ASSUME NEW n \in Nat PROVE IsFiniteSet(1..n)
      BY FS_Interval
    <3> QED
      BY <2>2, <3>1, FS_Subset
  <2> QED
    BY <1>9, <2>2, <2>3, FS_CardinalityType, FS_EmptySet
<1>11. ASSUME NEW n \in 1..m, NEW k \in 1..Len(lines[n])
       PROVE  /\ B[n][k].sid = at <=> F[n] = at[1] /\ lines[n][k] = at[2]
              /\ B[n][k].sid = at => B[n][k].n_ptx = c
  <2>1. PICK r, here : r = B[n][k] /\ here = <<F[n], lines[n][k]>>
    BY Zenon
  <2>2. /\ r.n_ptx = Cardinality(InstrsOn(list, here))
        /\ r.sid = IF Cardinality(InstrsOn(list, here)) > 0 THEN here ELSE NoSid
    BY <1>1, <2>1, BlockRow
  <2>3. r.sid = at <=> here = at
    BY <1>8, <1>9, <1>10, <2>2
  <2>4. here = at <=> F[n] = at[1] /\ lines[n][k] = at[2]
    BY <1>8, <2>1
  <2> QED
    BY <1>9, <2>1, <2>2, <2>3, <2>4
<1>12. PICK n \in 1..m : F[n] = at[1] /\ \E k \in 1..Len(lines[n]) : lines[n][k] = at[2]
  BY <1>2, <1>8 DEF IsPanel
<1>13. PICK k \in 1..Len(lines[n]) : lines[n][k] = at[2]
  BY <1>12
<1>14. ASSUME NEW a \in 1..m
       PROVE  Numbers(v[a]) /\ Total(v[a]) = IF a = n THEN 1 ELSE 0
  <2>1. PICK d \in Nat : d = Len(lines[a])
    BY <1>2, ListedLen, Zenon
  <2>2. v[a] = [b \in 1..d |-> w[B[a][b]]] /\ \A b \in 1..d : w[B[a][b]] \in Nat
    BY ONLY <1>7, <2>1, Zenon DEF BlockValues
  <2>3. v[a] \in [1..d -> Nat]
    BY ONLY <2>2
  <2>4. \A b \in 1..d : v[a][b] = IF F[a] = at[1] /\ lines[a][b] = at[2] THEN 1 ELSE 0
    <3>1. ASSUME NEW b \in 1..d
          PROVE  w[B[a][b]] = IF F[a] = at[1] /\ lines[a][b] = at[2] THEN 1 ELSE 0
      <4>1. b \in 1..Len(lines[a]) /\ B[a][b] \in S
        BY <1>3, <2>1, RowsOfBlocksAre, Zenon
      <4> QED
        BY <1>4, <1>11, <4>1
    <3> QED
      BY ONLY <2>2, <3>1
  <2>5. Numbers(v[a]) /\ Len(v[a]) = d
    BY <2>3, NumbersMade, Zenon
  <2>6. CASE a = n
    <3>1. \A b \in 1..d : b # k => v[a][b] = 0
      BY <1>2, <1>13, <2>1, <2>4, <2>6 DEF IsPanel
    <3>2. k \in Nat /\ k \in 1..d /\ v[a][k] = 1
      BY <1>12, <1>13, <2>1, <2>4, <2>6
    <3> QED
      BY <2>5, <2>6, <3>1, <3>2, TotalOne, Zenon
  <2>7. CASE a # n
    <3>1. F[a] # at[1]
      BY <1>2, <1>12, <2>7 DEF IsPanel
    <3> QED
      BY <2>4, <2>5, <2>7, <3>1, TotalZero
  <2> QED
    BY <2>5, <2>6, <2>7
<1>15. Total(Sums(v, m)) = 1
  <2>1. PICK t : t = Sums(v, m)
    OBVIOUS
  <2>2. \A a \in 1..m : t[a] = IF a = n THEN 1 ELSE 0
    BY <1>14, <2>1 DEF Sums
  <2>3. t \in [1..m -> Nat]
    <3>1. \A a \in 1..m : Total(v[a]) \in Nat
      BY <1>14
    <3> QED
      BY <2>1, <3>1 DEF Sums
  <2>4. Numbers(t) /\ Len(t) = m
    BY <2>3, NumbersMade
  <2> QED
    BY <1>12, <2>1, <2>2, <2>4, TotalOne
<1>16. PICK p \in 1..Len(src) :
         src[p].sid = at /\ \A j \in 1..Len(src) : src[j].sid = at => j = p
  <2>1. \A j \in 1..Len(src) : Values(w, src)[j] = IF src[j].sid = at THEN 1 ELSE 0
    BY <1>4, <1>7 DEF Values
  <2>2. Numbers(Values(w, src)) /\ Len(Values(w, src)) = Len(src)
    BY <1>5, <1>7, ValuesNumbers
  <2>3. \E p \in 1..Len(src) : Values(w, src)[p] = 1
                               /\ \A j \in 1..Len(src) : Values(w, src)[j] = 1 => j = p
    BY <1>7, <1>15, <2>1, <2>2, TotalUnique
  <2>4. PICK p \in 1..Len(src) : Values(w, src)[p] = 1
                                /\ \A j \in 1..Len(src) : Values(w, src)[j] = 1 => j = p
    BY <2>3
  <2>5. src[p].sid = at /\ \A j \in 1..Len(src) : src[j].sid = at => j = p
    BY <2>1, <2>4
  <2> QED
    BY <2>5
<1>17. src[p].n_ptx = c
  <2>1. src[p] \in S
    BY <1>7
  <2>2. PICK a \in 1..m : \E d \in 1..Len(lines[a]) : src[p] = B[a][d]
    BY ONLY <1>3, <2>1, RowsOfBlocksAre
  <2>3. PICK d \in 1..Len(lines[a]) : src[p] = B[a][d]
    BY <2>2
  <2> QED
    BY ONLY <1>11, <1>16, <2>3
<1>18. DOMAIN src = 1..Len(src)
  BY <1>7
<1>19. RowsOfSid(src, at) = {p}
  BY <1>16, <1>18 DEF RowsOfSid
<1> QED
  BY <1>9, <1>17, <1>19

-----------------------------------------------------------------------------
\* The assembly panel.  IsGrid(g, list, n): g is the running result of its loop.
NoGrid == [rows |-> <<>>, prev |-> NoSid]
IsGrid(g, list, n) ==
  g = [i \in 0..n |-> IF i = 0 THEN NoGrid ELSE AddAsmRow(g[i - 1], list[i])]

LEMMA GridExists ==
  ASSUME NEW list, NEW n \in Nat
  PROVE  \E g : IsGrid(g, list, n)
<1> DEFINE S == {k \in Nat : \E g : IsGrid(g, list, k)}
<1>1. 0 \in S
  <2>1. IsGrid([i \in 0..0 |-> NoGrid], list, 0)
    BY DEF IsGrid
  <2> QED
    BY <2>1
<1>2. ASSUME NEW k \in Nat, k \in S PROVE k + 1 \in S
  <2>1. PICK g : IsGrid(g, list, k)
    BY <1>2
  <2> DEFINE h == [i \in 0..k + 1 |-> IF i <= k THEN g[i] ELSE AddAsmRow(g[k], list[k + 1])]
  <2>2. \A i \in 0..k : g[i] = IF i = 0 THEN NoGrid ELSE AddAsmRow(g[i - 1], list[i])
    BY <2>1 DEF IsGrid
  <2>3. \A i \in 0..k + 1 : h[i] = IF i = 0 THEN NoGrid ELSE AddAsmRow(h[i - 1], list[i])
    BY <2>2
  <2>4. IsGrid(h, list, k + 1)
    BY <2>3 DEF IsGrid
  <2> QED
    BY <2>4
<1> HIDE DEF S
<1>3. Nat \subseteq S
  BY <1>1, <1>2, NatSet
<1> QED
  BY <1>3 DEF S

\* What the rows of the panel are after k instructions: the place that the last
\* separator names, what the unlinked rows add up to, and how many rows a place has.
LastSeparator(rows, n, at) ==
  \E p \in 1..n : /\ rows[p].is_sep /\ rows[p].sep_label = at
                  /\ \A q \in 1..n : rows[q].is_sep => q <= p
ShownExec(r) == IF r.is_sep \/ (r.sid # NoSid /\ r.sid[2] # 0) THEN 0 ELSE r.exec
UnlinkedExec(rows) == [n \in 1..Len(rows) |-> ShownExec(rows[n])]
UnlinkedIn(list) == {i \in 1..Len(list) : ~LinkedTo(list[i])}
InstrsUpTo(list, k, at) == {i \in 1..k : Sid(list[i]) = at}

GridRows(rows, prev, list, k) ==
  /\ Listed(rows)
  /\ \A n \in 1..Len(rows) : /\ rows[n].is_sep => rows[n].sid = NoSid
                             /\ ~rows[n].is_sep => \E i \in 1..k : rows[n].sid = Sid(list[i])
                             /\ rows[n].sid # NoSid => LastSeparator(rows, n, rows[n].sid)
  /\ prev # NoSid => LastSeparator(rows, Len(rows), prev)
GridSums(rows, list, k) ==
  /\ Total(UnlinkedExec(rows)) \in Nat
  /\ Total(UnlinkedExec(rows)) = Total(FirstOf(IssuesIf(list, UnlinkedIn(list)), k))
  /\ \A at : at # NoSid => Cardinality(RowsOfSid(rows, at)) = Cardinality(InstrsUpTo(list, k, at))

\* One more row.
LEMMA SeparatorsStay ==
  ASSUME NEW rows, Listed(rows), NEW r, NEW all, all = Append(rows, r),
         NEW n \in 1..Len(rows), NEW at, LastSeparator(rows, n, at)
  PROVE  LastSeparator(all, n, at)
<1>1. PICK N \in Nat : N = Len(rows)
  BY ListedLen
<1>2. \A i \in 1..N : all[i] = rows[i]
  BY <1>1, AppendListed
<1>3. PICK p \in 1..n : /\ rows[p].is_sep /\ rows[p].sep_label = at
                        /\ \A q \in 1..n : rows[q].is_sep => q <= p
  BY DEF LastSeparator
<1>4. \A q \in 1..n : all[q] = rows[q]
  BY <1>1, <1>2
<1>5. /\ all[p].is_sep /\ all[p].sep_label = at
      /\ \A q \in 1..n : all[q].is_sep => q <= p
  BY <1>3, <1>4
<1> QED
  BY <1>5, Zenon DEF LastSeparator

LEMMA UnlinkedAppend ==
  ASSUME NEW rows, Listed(rows), NEW r
  PROVE  Total(UnlinkedExec(Append(rows, r))) = Total(UnlinkedExec(rows)) + ShownExec(r)
<1>1. PICK all, N : all = Append(rows, r) /\ N = Len(rows)
  BY Zenon
<1>2. N \in Nat /\ Listed(all) /\ Len(all) = N + 1 /\ all[N + 1] = r /\ \A i \in 1..N : all[i] = rows[i]
  BY <1>1, ListedLen, AppendListed
<1>3. PICK s, t : s = UnlinkedExec(rows) /\ t = UnlinkedExec(all)
  OBVIOUS
<1>4. Listed(s) /\ Len(s) = N
  <2>1. s = [n \in 1..N |-> s[n]]
    BY <1>1, <1>3 DEF UnlinkedExec
  <2> QED
    BY <1>2, <2>1, FunctionListed
<1>5. Listed(t) /\ Len(t) = N + 1
  <2>1. t = [n \in 1..N + 1 |-> t[n]]
    BY <1>2, <1>3 DEF UnlinkedExec
  <2>2. N + 1 \in Nat
    BY <1>2
  <2> QED
    BY <2>1, <2>2, FunctionListed
<1>6. PICK u : u = Append(s, ShownExec(r))
  BY Zenon
<1>7. Listed(u) /\ Len(u) = N + 1 /\ u[N + 1] = ShownExec(r) /\ \A i \in 1..N : u[i] = s[i]
  BY <1>4, <1>6, AppendListed
<1>8. \A i \in 1..N + 1 : t[i] = u[i]
  <2>1. t[N + 1] = ShownExec(r)
    BY <1>2, <1>3 DEF UnlinkedExec
  <2>2. \A i \in 1..N : t[i] = s[i]
    BY <1>1, <1>2, <1>3 DEF UnlinkedExec
  <2>3. \A i \in 1..N + 1 : i \in 1..N \/ i = N + 1
    BY <1>2
  <2> QED
    BY <1>7, <2>1, <2>2, <2>3
<1>9. t = u
  BY <1>5, <1>7, <1>8, ListedEqual
<1>10. Total(u) = Total(s) + ShownExec(r)
  BY <1>4, <1>6, TotalAppend
<1> QED
  BY <1>1, <1>3, <1>9, <1>10

LEMMA RowsOfSidAppend ==
  ASSUME NEW rows, Listed(rows), NEW r, NEW at
  PROVE  /\ IsFiniteSet(RowsOfSid(rows, at)) /\ Len(rows) + 1 \notin RowsOfSid(rows, at)
         /\ RowsOfSid(Append(rows, r), at) = IF r.sid = at THEN RowsOfSid(rows, at) \cup {Len(rows) + 1}
                                             ELSE RowsOfSid(rows, at)
<1>1. PICK all, N : all = Append(rows, r) /\ N = Len(rows)
  BY Zenon
<1>2. N \in Nat /\ Listed(all) /\ Len(all) = N + 1 /\ all[N + 1] = r /\ \A i \in 1..N : all[i] = rows[i]
  BY <1>1, ListedLen, AppendListed
<1>3. DOMAIN rows = 1..N /\ DOMAIN all = 1..N + 1
  BY <1>1, <1>2, ListedLen
<1>4. PICK R : R = RowsOfSid(rows, at)
  OBVIOUS
<1>5. \A k : k \in R <=> k \in 1..N /\ rows[k].sid = at
  BY <1>3, <1>4 DEF RowsOfSid
<1>6. IsFiniteSet(R)
  <2>1. IsFiniteSet(1..N)
    BY <1>2, FS_Interval
  <2> QED
    BY <1>5, <2>1, FS_Subset, Zenon
<1>7. N + 1 \notin R
  BY <1>2, <1>5
<1>8. \A k : k \in RowsOfSid(all, at) <=> k \in 1..N + 1 /\ all[k].sid = at
  BY <1>3 DEF RowsOfSid
<1>9. \A k : k \in 1..N + 1 <=> k \in 1..N \/ k = N + 1
  BY <1>2
<1>10. RowsOfSid(all, at) = IF r.sid = at THEN R \cup {N + 1} ELSE R
  BY <1>2, <1>5, <1>8, <1>9, Zenon
<1> QED
  BY <1>1, <1>4, <1>6, <1>7, <1>10

LEMMA SeparatorRow ==
  ASSUME NEW rows, NEW prev, NEW list, NEW k \in Nat, NEW at, at # NoSid,
         GridRows(rows, prev, list, k), GridSums(rows, list, k),
         NEW all, all = Append(rows, Separator(at))
  PROVE  GridRows(all, at, list, k) /\ GridSums(all, list, k)
<1>1. PICK r, N : r = Separator(at) /\ N = Len(rows)
  OBVIOUS
<1>2. r.is_sep /\ r.sep_label = at /\ r.sid = NoSid /\ ShownExec(r) = 0
  BY <1>1 DEF Separator, ShownExec
<1>3. /\ Listed(rows) /\ N \in Nat /\ Listed(all) /\ Len(all) = N + 1 /\ all[N + 1] = r
      /\ \A i \in 1..N : all[i] = rows[i]
  BY <1>1, ListedLen, AppendListed DEF GridRows
<1>4. \A i \in 1..N + 1 : i \in 1..N \/ i = N + 1
  BY <1>3
<1>5. LastSeparator(all, N + 1, at)
  <2>1. N + 1 \in 1..N + 1 /\ \A q \in 1..N + 1 : q <= N + 1
    BY <1>3
  <2> QED
    BY <1>2, <1>3, <2>1 DEF LastSeparator
<1>6. ASSUME NEW n \in 1..Len(all)
      PROVE  /\ all[n].is_sep => all[n].sid = NoSid
             /\ ~all[n].is_sep => \E i \in 1..k : all[n].sid = Sid(list[i])
             /\ all[n].sid # NoSid => LastSeparator(all, n, all[n].sid)
  <2>1. CASE n = N + 1
    BY <1>2, <1>3, <2>1
  <2>2. CASE n \in 1..N
    <3>1. PICK s : s = all[n].sid
      OBVIOUS
    <3>2. s # NoSid => LastSeparator(rows, n, s)
      BY <1>1, <1>3, <2>2, <3>1 DEF GridRows
    <3>3. s # NoSid => LastSeparator(all, n, s)
      BY <1>1, <1>3, <2>2, <3>2, SeparatorsStay, Zenon
    <3> QED
      BY <1>1, <1>3, <2>2, <3>1, <3>3 DEF GridRows
  <2> QED
    BY <1>3, <1>4, <2>1, <2>2
<1>7. GridRows(all, at, list, k)
  BY <1>3, <1>5, <1>6 DEF GridRows
<1>8. Total(UnlinkedExec(all)) = Total(UnlinkedExec(rows)) + 0
  BY <1>1, <1>2, <1>3, UnlinkedAppend
<1>9. \A a : a # NoSid => RowsOfSid(all, a) = RowsOfSid(rows, a)
  BY <1>1, <1>2, <1>3, RowsOfSidAppend
<1>10. GridSums(all, list, k)
  BY ONLY GridSums(rows, list, k), <1>8, <1>9 DEF GridSums
<1> QED
  BY <1>7, <1>10

LEMMA InstrRow ==
  ASSUME NEW fn, NEW ptx, Placed(fn, ptx), NEW list, list = fn.instructions,
         NEW rows, NEW prev, NEW k \in Nat, k + 1 <= Len(list),
         GridRows(rows, prev, list, k), GridSums(rows, list, k),
         HasSid(list[k + 1]) => prev = Sid(list[k + 1]),
         NEW all, all = Append(rows, AsmRow(list[k + 1]))
  PROVE  GridRows(all, prev, list, k + 1) /\ GridSums(all, list, k + 1)
<1>1. PICK i, r, N : i = list[k + 1] /\ r = AsmRow(i) /\ N = Len(rows)
  OBVIOUS
<1>2. ~r.is_sep /\ r.sid = Sid(i) /\ r.exec = i.issue_count /\ (r.sid # NoSid => HasSid(i))
  BY <1>1 DEF AsmRow, Sid
<1>3. /\ Listed(rows) /\ N \in Nat /\ Listed(all) /\ Len(all) = N + 1 /\ all[N + 1] = r
      /\ all = Append(rows, r) /\ \A n \in 1..N : all[n] = rows[n]
  BY <1>1, ListedLen, AppendListed DEF GridRows
<1>4. /\ \A n \in 1..N + 1 : n \in 1..N \/ n = N + 1
      /\ \A n \in 1..k + 1 : n \in 1..k \/ n = k + 1
      /\ \A n \in 1..N : n \in 1..N + 1
      /\ \A n \in 1..k : n \in 1..k + 1
      /\ k + 1 \in 1..k + 1
  BY <1>3
<1>5. prev # NoSid => LastSeparator(all, N + 1, prev)
  <2>1. SUFFICES ASSUME prev # NoSid PROVE LastSeparator(all, N + 1, prev)
    OBVIOUS
  <2>2. PICK p \in 1..N : /\ rows[p].is_sep /\ rows[p].sep_label = prev
                          /\ \A q \in 1..N : rows[q].is_sep => q <= p
    BY <1>1, <2>1 DEF GridRows, LastSeparator
  <2>3. \A q \in 1..N + 1 : all[q].is_sep => q <= p
    BY <1>2, <1>3, <1>4, <2>2, Zenon
  <2> QED
    BY <1>3, <1>4, <2>2, <2>3 DEF LastSeparator
<1>6. ASSUME NEW n \in 1..Len(all)
      PROVE  /\ all[n].is_sep => all[n].sid = NoSid
             /\ ~all[n].is_sep => \E j \in 1..k + 1 : all[n].sid = Sid(list[j])
             /\ all[n].sid # NoSid => LastSeparator(all, n, all[n].sid)
  <2>1. CASE n = N + 1
    BY <1>1, <1>2, <1>3, <1>4, <1>5, <2>1
  <2>2. CASE n \in 1..N
    <3>1. PICK s : s = all[n].sid
      OBVIOUS
    <3>2. s # NoSid => LastSeparator(rows, n, s)
      BY <1>1, <1>3, <2>2, <3>1 DEF GridRows
    <3>3. s # NoSid => LastSeparator(all, n, s)
      BY ONLY <1>1, <1>3, <2>2, <3>2, SeparatorsStay, Zenon
    <3> QED
      BY <1>1, <1>3, <1>4, <2>2, <3>1, <3>3 DEF GridRows
  <2> QED
    BY <1>3, <1>4, <2>1, <2>2
<1>7. GridRows(all, prev, list, k + 1)
  BY <1>3, <1>5, <1>6 DEF GridRows
<1>8. PICK u : u = IssuesIf(list, UnlinkedIn(list))
  OBVIOUS
<1>9. k + 1 \in 1..Len(list)
  BY ListedLen DEF Placed
<1>10. ShownExec(r) = u[k + 1]
  <2>1. u[k + 1] = IF LinkedTo(i) THEN 0 ELSE i.issue_count
    BY <1>1, <1>8, <1>9 DEF IssuesIf, UnlinkedIn
  <2>2. LinkedTo(i) <=> r.sid # NoSid /\ r.sid[2] # 0
    BY <1>2 DEF LinkedTo, Sid, NoSid, HasSid
  <2> QED
    BY <1>2, <2>1, <2>2 DEF ShownExec
<1>11. Total(UnlinkedExec(all)) = Total(FirstOf(u, k + 1))
  <2>1. Total(UnlinkedExec(all)) = Total(UnlinkedExec(rows)) + ShownExec(r)
    BY <1>1, <1>3, UnlinkedAppend
  <2>2. Total(FirstOf(u, k + 1)) = Total(FirstOf(u, k)) + u[k + 1]
    BY TotalNext, Zenon
  <2> QED
    BY <1>8, <1>10, <2>1, <2>2 DEF GridSums
<1>12. Total(UnlinkedExec(all)) \in Nat
  <2>1. i.issue_count \in Nat
    BY <1>1, <1>9 DEF Placed
  <2>2. ShownExec(r) \in Nat
    BY <1>2, <2>1 DEF ShownExec
  <2>3. Total(UnlinkedExec(all)) = Total(UnlinkedExec(rows)) + ShownExec(r)
    BY ONLY <1>1, <1>3, UnlinkedAppend
  <2> QED
    BY <2>2, <2>3 DEF GridSums
<1>13. ASSUME NEW at, at # NoSid
       PROVE  Cardinality(RowsOfSid(all, at)) = Cardinality(InstrsUpTo(list, k + 1, at))
  <2>1. PICK R, I : R = RowsOfSid(rows, at) /\ I = InstrsUpTo(list, k, at)
    OBVIOUS
  <2>2. IsFiniteSet(R) /\ N + 1 \notin R
        /\ RowsOfSid(all, at) = IF r.sid = at THEN R \cup {N + 1} ELSE R
    <3>1. /\ IsFiniteSet(RowsOfSid(rows, at)) /\ Len(rows) + 1 \notin RowsOfSid(rows, at)
          /\ RowsOfSid(Append(rows, r), at) = IF r.sid = at THEN RowsOfSid(rows, at) \cup {Len(rows) + 1}
                                              ELSE RowsOfSid(rows, at)
      BY ONLY <1>3, RowsOfSidAppend
    <3> QED
      BY ONLY <1>1, <1>3, <2>1, <3>1
  <2>3. Cardinality(R) = Cardinality(I)
    BY <1>13, <2>1 DEF GridSums
  <2>4. /\ IsFiniteSet(I) /\ k + 1 \notin I
        /\ InstrsUpTo(list, k + 1, at) = IF r.sid = at THEN I \cup {k + 1} ELSE I
    <3>1. IsFiniteSet(1..k)
      BY FS_Interval
    <3>2. I \subseteq 1..k
      BY <2>1 DEF InstrsUpTo
    <3>3. k + 1 \notin 1..k
      OBVIOUS
    <3>4. \A n : n \in 1..k + 1 <=> n \in 1..k \/ n = k + 1
      OBVIOUS
    <3>5. IsFiniteSet(I) /\ k + 1 \notin I
      BY <3>1, <3>2, <3>3, FS_Subset, Zenon
    <3>6. \A n : n \in InstrsUpTo(list, k + 1, at) <=> n \in I \/ (n = k + 1 /\ r.sid = at)
      BY <1>1, <1>2, <2>1, <3>4 DEF InstrsUpTo
    <3> QED
      BY <3>5, <3>6, Zenon
  <2>5. Cardinality(R \cup {N + 1}) = Cardinality(R) + 1
        /\ Cardinality(I \cup {k + 1}) = Cardinality(I) + 1
    BY <2>2, <2>4, FS_AddElement, Zenon
  <2> QED
    BY <2>2, <2>3, <2>4, <2>5
<1> QED
  BY <1>7, <1>8, <1>11, <1>12, <1>13 DEF GridSums

\* The whole panel.
LEMMA GridIs ==
  ASSUME NEW fn, NEW ptx, Placed(fn, ptx), NEW list, list = fn.instructions
  PROVE  LET asm == asm_rows(fn)
         IN  (\E prev : GridRows(asm, prev, list, Len(list))) /\ GridSums(asm, list, Len(list))
<1>1. PICK N \in Nat : N = Len(list)
  BY ListedLen DEF Placed
<1> DEFINE g == CHOOSE g : IsGrid(g, list, N)
<1>2. IsGrid(g, list, N)
  BY GridExists
<1>3. asm_rows(fn) = g[N].rows
  BY <1>1 DEF asm_rows, IsGrid, NoGrid
<1> HIDE DEF g
<1>4. \A i \in 0..N : g[i] = IF i = 0 THEN NoGrid ELSE AddAsmRow(g[i - 1], list[i])
  BY <1>2 DEF IsGrid
<1> DEFINE P(k) == /\ GridRows(g[k].rows, g[k].prev, list, k) /\ GridSums(g[k].rows, list, k)
                   /\ DOMAIN g[k] = {"rows", "prev"}
           T == {k \in Nat : k <= N => P(k)}
<1>5. P(0)
  <2>1. g[0].rows = <<>> /\ g[0].prev = NoSid /\ DOMAIN g[0] = {"rows", "prev"}
    BY <1>4 DEF NoGrid
  <2>2. Listed(<<>>) /\ Len(<<>>) = 0 /\ DOMAIN <<>> = {}
    <3>1. Len(<<>>) = 0 /\ DOMAIN <<>> = {}
      OBVIOUS
    <3> QED
      BY <3>1, Tuples, Zenon
  <2>3. GridRows(<<>>, NoSid, list, 0)
    BY <2>2 DEF GridRows
  <2>4. GridSums(<<>>, list, 0)
    <3>1. UnlinkedExec(<<>>) = <<>>
      BY <2>2 DEF UnlinkedExec
    <3>2. FirstOf(IssuesIf(list, UnlinkedIn(list)), 0) = <<>>
      BY FirstListed
    <3>3. \A at : RowsOfSid(<<>>, at) = {} /\ InstrsUpTo(list, 0, at) = {}
      BY <2>2 DEF RowsOfSid, InstrsUpTo
    <3>4. Total(UnlinkedExec(<<>>)) \in Nat
      BY <3>1, TotalEmpty
    <3>5. Total(UnlinkedExec(<<>>)) = Total(FirstOf(IssuesIf(list, UnlinkedIn(list)), 0))
      BY ONLY <3>1, <3>2
    <3> QED
      BY ONLY <3>3, <3>4, <3>5, Zenon DEF GridSums
  <2> QED
    BY <2>1, <2>3, <2>4
<1>6. ASSUME NEW k \in Nat, k + 1 <= N, P(k) PROVE P(k + 1)
  <2>1. PICK rows, prev, i : rows = g[k].rows /\ prev = g[k].prev /\ i = list[k + 1]
    OBVIOUS
  <2>2. g[k + 1] = AddAsmRow(g[k], i)
    <3>1. k + 1 \in 0..N /\ k + 1 # 0 /\ k + 1 - 1 = k
      BY <1>6
    <3> QED
      BY <1>4, <2>1, <3>1
  <2>3. GridRows(rows, prev, list, k) /\ GridSums(rows, list, k) /\ Listed(rows)
    BY <1>6, <2>1 DEF GridRows
  <2>4. CASE HasSid(i) /\ Sid(i) # prev
    <3>1. PICK at, most, all : /\ at = Sid(i) /\ most = Append(rows, Separator(at))
                               /\ all = Append(most, AsmRow(i))
      BY Zenon
    <3>2. at # NoSid
      BY <2>4, <3>1 DEF Sid, HasSid, NoSid
    <3>3. GridRows(most, at, list, k) /\ GridSums(most, list, k)
      BY ONLY k \in Nat, <2>3, <3>1, <3>2, SeparatorRow, Zenon
    <3>4. GridRows(all, at, list, k + 1) /\ GridSums(all, list, k + 1)
      BY <1>1, <1>6, <2>1, <3>1, <3>3, InstrRow, Zenon
    <3>5. g[k + 1] = [rows |-> rows \o <<Separator(at), AsmRow(i)>>, prev |-> at]
      BY <2>1, <2>2, <2>4, <3>1 DEF AddAsmRow
    <3>6. rows \o <<Separator(at), AsmRow(i)>> = all
      <4>1. PICK x, y : x = Separator(at) /\ y = AsmRow(i)
        OBVIOUS
      <4>2. PICK S : rows \in Seq(S)
        BY <2>3 DEF Listed
      <4>3. rows \in Seq(S \cup {x, y}) /\ x \in S \cup {x, y} /\ y \in S \cup {x, y}
        BY <4>2
      <4>4. rows \o <<x, y>> = Append(Append(rows, x), y)
        BY <4>3
      <4> QED
        BY <3>1, <4>1, <4>4
    <3>7. g[k + 1].rows = all /\ g[k + 1].prev = at /\ DOMAIN g[k + 1] = {"rows", "prev"}
      BY ONLY <3>5, <3>6
    <3> QED
      BY <3>4, <3>7
  <2>5. CASE ~(HasSid(i) /\ Sid(i) # prev)
    <3>1. PICK all : all = Append(rows, AsmRow(i))
      BY Zenon
    <3>2. GridRows(all, prev, list, k + 1) /\ GridSums(all, list, k + 1)
      BY <1>1, <1>6, <2>1, <2>3, <2>5, <3>1, InstrRow, Zenon
    <3>3. g[k + 1] = [g[k] EXCEPT !.rows = Append(@, AsmRow(i))]
      BY <2>1, <2>2, <2>5 DEF AddAsmRow
    <3>4. g[k + 1].rows = all /\ g[k + 1].prev = prev /\ DOMAIN g[k + 1] = {"rows", "prev"}
      BY <1>6, <2>1, <3>1, <3>3
    <3> QED
      BY <3>2, <3>4
  <2> QED
    BY <2>4, <2>5
<1> HIDE DEF P
<1>7. 0 \in T
  BY <1>5
<1>8. ASSUME NEW k \in Nat, k \in T PROVE k + 1 \in T
  BY <1>6, <1>8
<1> HIDE DEF T
<1>9. Nat \subseteq T
  BY <1>7, <1>8, NatSet
<1>10. P(N)
  BY <1>9 DEF T
<1> QED
  BY <1>1, <1>3, <1>10 DEF P

-----------------------------------------------------------------------------
\* The cells of the assembly table and their headings.
LEMMA HeadingsConcat ==
  ASSUME NEW a, NEW b, Listed(a), Listed(b)
  PROVE  /\ Headings(a \o b) = Headings(a) \o Headings(b)
         /\ Listed(a \o b) /\ Listed(Headings(a)) /\ Len(Headings(a)) = Len(a)
<1>1. PICK m, n : m = Len(a) /\ n = Len(b)
  BY Zenon
<1>2. m \in Nat /\ n \in Nat /\ DOMAIN a = 1..m /\ DOMAIN b = 1..n
  BY <1>1, ListedLen
<1>3. PICK c : c = a \o b
  BY Zenon
<1>4. /\ Listed(c) /\ Len(c) = m + n
      /\ \A i \in 1..m : c[i] = a[i]
      /\ \A i \in 1..n : c[m + i] = b[i]
  BY <1>1, <1>3, ConcatListed
<1>5. DOMAIN c = 1..m + n
  BY <1>4, ListedLen
<1>6. PICK x, y, z : x = Headings(a) /\ y = Headings(b) /\ z = Headings(c)
  OBVIOUS
<1>7. /\ x = [i \in 1..m |-> a[i][1]] /\ y = [i \in 1..n |-> b[i][1]]
      /\ z = [i \in 1..m + n |-> c[i][1]]
  BY <1>2, <1>5, <1>6 DEF Headings
<1>8. m + n \in Nat
  BY <1>2
<1>9. Listed(x) /\ Len(x) = m /\ Listed(y) /\ Len(y) = n /\ Listed(z) /\ Len(z) = m + n
  <2>1. /\ x = [i \in 1..m |-> x[i]] /\ y = [i \in 1..n |-> y[i]]
        /\ z = [i \in 1..m + n |-> z[i]]
    BY <1>7
  <2> QED
    BY <1>2, <1>8, <2>1, FunctionListed
<1>10. /\ Listed(x \o y) /\ Len(x \o y) = m + n
       /\ \A i \in 1..m : (x \o y)[i] = x[i]
       /\ \A i \in 1..n : (x \o y)[m + i] = y[i]
  BY ONLY <1>9, ConcatListed
<1>11. ASSUME NEW i \in 1..m + n PROVE z[i] = (x \o y)[i]
  <2>1. CASE i \in 1..m
    BY <1>4, <1>7, <1>10, <2>1, Zenon
  <2>2. CASE i \notin 1..m
    <3>1. PICK j \in 1..n : i = m + j
      <4>1. i - m \in 1..n /\ i = m + (i - m)
        BY <1>2, <2>2
      <4> QED
        BY <4>1
    <3>2. z[i] = b[j][1] /\ (x \o y)[i] = b[j][1]
      BY <1>4, <1>7, <1>10, <3>1, Zenon
    <3> QED
      BY <3>2
  <2> QED
    BY <2>1, <2>2, Zenon
<1>12. z = x \o y
  BY <1>9, <1>10, <1>11, ListedEqual, Zenon
<1> QED
  BY <1>1, <1>3, <1>4, <1>6, <1>9, <1>12

LEMMA HeadingsOne ==
  ASSUME NEW a
  PROVE  /\ Headings(<<>>) = <<>> /\ Listed(<<>>)
         /\ Headings(<<a>>) = <<a[1]>> /\ Listed(<<a>>)
<1>1. Headings(<<>>) = <<>> /\ Headings(<<a>>) = <<a[1]>>
  BY DEF Headings
<1> QED
  BY <1>1, Tuples, Zenon

LEMMA HeadingsTwo ==
  ASSUME NEW a, NEW b
  PROVE  Headings(<<a, b>>) = <<a[1], b[1]>> /\ Listed(<<a, b>>)
<1>1. \A x, y : <<x, y>> \in Seq({x, y})
  OBVIOUS
<1>2. \E S : <<a, b>> \in Seq(S)
  BY ONLY <1>1, Zenon
<1>3. Headings(<<a, b>>) = <<a[1], b[1]>>
  BY DEF Headings
<1>4. Listed(<<a, b>>)
  BY ONLY <1>2, Zenon DEF Listed
<1> QED
  BY <1>3, <1>4

LEMMA HeadingsFive ==
  ASSUME NEW a, NEW b, NEW c, NEW d, NEW e
  PROVE  /\ Headings(<<a, b, c, d, e>>) = <<a[1], b[1], c[1], d[1], e[1]>>
         /\ Listed(<<a, b, c, d, e>>)
<1>1. <<a, b, c, d, e>> \in Seq({a, b, c, d, e})
  OBVIOUS
<1>2. Headings(<<a, b, c, d, e>>) = <<a[1], b[1], c[1], d[1], e[1]>>
  BY DEF Headings
<1>3. Listed(<<a, b, c, d, e>>)
  BY <1>1, Zenon DEF Listed
<1> QED
  BY <1>2, <1>3

LEMMA ColumnHeadings ==
  ASSUME NEW shows, NEW x, Listed(x)
  PROVE  Headings(Column(shows, x)) = Column(shows, Headings(x)) /\ Listed(Column(shows, x))
<1>1. CASE shows
  <2>1. Column(shows, x) = x /\ Column(shows, Headings(x)) = Headings(x)
    BY <1>1 DEF Column
  <2> QED
    BY <2>1
<1>2. CASE ~shows
  <2>1. Column(shows, x) = <<>> /\ Column(shows, Headings(x)) = <<>>
    BY <1>2 DEF Column
  <2> QED
    BY <2>1, HeadingsOne, Zenon
<1> QED
  BY <1>1, <1>2

\* A row of eight cells, some of which it has only where its column is shown.
RowOf(c1, c2, c3, c4, c5, c6, c7, c8, bc, co) ==
  <<c1, c2, c3, c4, c5>> \o Column(bc, <<c6>>) \o Column(co, <<c7, c8>>)

LEMMA CellHeadings ==
  ASSUME NEW c1, NEW c2, NEW c3, NEW c4, NEW c5, NEW c6, NEW c7, NEW c8,
         NEW bc, NEW co,
         NEW row, row = RowOf(c1, c2, c3, c4, c5, c6, c7, c8, bc, co)
  PROVE  Headings(row) = RowOf(c1[1], c2[1], c3[1], c4[1], c5[1], c6[1], c7[1], c8[1], bc, co)
<1>1. PICK a : a = <<c1, c2, c3, c4, c5>>
  BY Zenon
<1>2. PICK b : b = Column(bc, <<c6>>)
  OBVIOUS
<1>3. PICK c : c = Column(co, <<c7, c8>>)
  OBVIOUS
<1>4. Headings(a) = <<c1[1], c2[1], c3[1], c4[1], c5[1]>> /\ Listed(a)
  BY ONLY <1>1, HeadingsFive
<1>5. Headings(b) = Column(bc, <<c6[1]>>) /\ Listed(b)
  BY <1>2, HeadingsOne, ColumnHeadings
<1>6. Headings(c) = Column(co, <<c7[1], c8[1]>>) /\ Listed(c)
  <2>1. PICK x : x = <<c7, c8>>
    BY Zenon
  <2>2. Headings(x) = <<c7[1], c8[1]>> /\ Listed(x)
    BY ONLY <2>1, HeadingsTwo
  <2>3. Headings(Column(co, x)) = Column(co, Headings(x)) /\ Listed(Column(co, x))
    BY ONLY <2>2, ColumnHeadings
  <2> QED
    BY ONLY <1>3, <2>1, <2>2, <2>3
<1>7. Headings(a \o b) = Headings(a) \o Headings(b) /\ Listed(a \o b)
  BY ONLY <1>4, <1>5, HeadingsConcat, Zenon
<1>8. PICK d : d = a \o b
  BY Zenon
<1>9. Headings(d \o c) = Headings(d) \o Headings(c)
  BY ONLY <1>6, <1>7, <1>8, HeadingsConcat, Zenon
<1>10. row = d \o c
  BY <1>1, <1>2, <1>3, <1>8 DEF RowOf
<1> QED
  BY ONLY <1>4, <1>5, <1>6, <1>7, <1>8, <1>9, <1>10, Zenon DEF RowOf

LEMMA TableFits ==
  ASSUME NEW fn, NEW i
  PROVE  Headings(AsmTableRow(fn, i).cells) = _render_asm_table(fn).cols
<1> DEFINE eff == avg_branch_efficiency(i)
           Shows(value) == IF i.is_directive THEN Dash ELSE value
           ShowsMemory(value) == IF i.is_directive \/ ~UsesGlobalMemory(i) THEN Dash ELSE value
           v2 == IF i.is_directive THEN None ELSE i.basic_block
           v4 == Shows(<<i.issue_count, _bar(Fraction(i.issue_count, 1), MaxIssues(fn), 70)>>)
           v5 == Shows(<<eff, _bar(eff, 1, 60)>>)
           v6 == Shows(i.sums["bank_conflicts"])
           v7 == ShowsMemory(i.sums["global_mem_transactions"])
           v8 == ShowsMemory(<<avg_global_coalescing(i), _bar(avg_global_coalescing(i), 1, 50)>>)
           bc == has_bank_conflicts(fn)
           co == has_coalescing(fn)
<1>1. AsmTableRow(fn, i).cells
        = << <<"PC", i.pc>>, <<"Basic Block", v2>>, <<"PTX Instruction", Shown(i)>>,
             <<"Exec Count", v4>>, <<"Branch Eff", v5>> >>
          \o Column(bc, << <<"Bank Conflicts", v6>> >>)
          \o Column(co, << <<"Mem Trans", v7>>, <<"Avg Coalescing", v8>> >>)
  BY Zenon DEF AsmTableRow
<1>2. _render_asm_table(fn).cols
        = <<"PC", "Basic Block", "PTX Instruction", "Exec Count", "Branch Eff">>
          \o Column(bc, <<"Bank Conflicts">>) \o Column(co, <<"Mem Trans", "Avg Coalescing">>)
  BY Zenon DEF _render_asm_table
<1> HIDE DEF v2, v4, v5, v6, v7, v8, bc, co
<1>3. PICK row : row = AsmTableRow(fn, i).cells
  OBVIOUS
<1>4. \A h, v : \E c : c = <<h, v>> /\ c[1] = h
  <2>1. \A h, v : <<h, v>>[1] = h
    OBVIOUS
  <2> QED
    BY ONLY <2>1, Zenon
<1>5. PICK c1 : c1 = <<"PC", i.pc>> /\ c1[1] = "PC"
  BY ONLY <1>4, Zenon
<1>6. PICK c2 : c2 = <<"Basic Block", v2>> /\ c2[1] = "Basic Block"
  BY ONLY <1>4, Zenon
<1>7. PICK c3 : c3 = <<"PTX Instruction", Shown(i)>> /\ c3[1] = "PTX Instruction"
  BY ONLY <1>4, Zenon
<1>8. PICK c4 : c4 = <<"Exec Count", v4>> /\ c4[1] = "Exec Count"
  BY ONLY <1>4, Zenon
<1>9. PICK c5 : c5 = <<"Branch Eff", v5>> /\ c5[1] = "Branch Eff"
  BY ONLY <1>4, Zenon
<1>10. PICK c6 : c6 = <<"Bank Conflicts", v6>> /\ c6[1] = "Bank Conflicts"
  BY ONLY <1>4, Zenon
<1>11. PICK c7 : c7 = <<"Mem Trans", v7>> /\ c7[1] = "Mem Trans"
  BY ONLY <1>4, Zenon
<1>12. PICK c8 : c8 = <<"Avg Coalescing", v8>> /\ c8[1] = "Avg Coalescing"
  BY ONLY <1>4, Zenon
<1>13. row = RowOf(c1, c2, c3, c4, c5, c6, c7, c8, bc, co)
  BY ONLY <1>1, <1>3, <1>5, <1>6, <1>7, <1>8, <1>9, <1>10, <1>11, <1>12, Zenon DEF RowOf
<1>14. Headings(row) = RowOf(c1[1], c2[1], c3[1], c4[1], c5[1], c6[1], c7[1], c8[1], bc, co)
  BY ONLY <1>13, CellHeadings
<1>15. Headings(row) = _render_asm_table(fn).cols
  BY ONLY <1>2, <1>5, <1>6, <1>7, <1>8, <1>9, <1>10, <1>11, <1>12, <1>14, Zenon DEF RowOf
<1> QED
  BY ONLY <1>3, <1>15

-----------------------------------------------------------------------------
\* The three parts of PageRight that are about one section.
Linked(r) == r.sid # NoSid /\ r.sid[2] # 0
ExecSum(src) == Total([k \in DOMAIN src |-> src[k].exec])
UnlinkedSum(asm) ==
  Total([n \in DOMAIN asm |-> IF asm[n].is_sep \/ Linked(asm[n]) THEN 0 ELSE asm[n].exec])
SectionAdds(section, total) ==
  section.tabs[2] = "split" => ExecSum(section.split.src) + UnlinkedSum(section.split.asm) = total
RowLinks(src, asm, n) ==
  /\ \E k \in RowsOfSid(src, asm[n].sid) :
       /\ RowsOfSid(src, asm[n].sid) = {k}
       /\ src[k].n_ptx = Cardinality(RowsOfSid(asm, asm[n].sid))
  /\ asm[Max({k \in 1..n : asm[k].is_sep})].sep_label = asm[n].sid
SectionLinks(section) ==
  \A n \in DOMAIN section.split.asm :
    Linked(section.split.asm[n]) => RowLinks(section.split.src, section.split.asm, n)
SectionFits(section) ==
  \A n \in DOMAIN section.table.rows :
    Headings(section.table.rows[n].cells) = section.table.cols

\* The same, of an instance of IssuesIf.
LEMMA IssuesIfLen ==
  ASSUME NEW fn, NEW ptx, Placed(fn, ptx), NEW which
  PROVE  /\ Numbers(IssuesIf(fn.instructions, which))
         /\ Len(IssuesIf(fn.instructions, which)) = Len(fn.instructions)
         /\ Total(IssuesIf(fn.instructions, which)) \in Nat
<1>1. PICK N : N = Len(fn.instructions)
  BY Zenon
<1>2. PICK s : s = IssuesIf(fn.instructions, which)
  OBVIOUS
<1>3. Numbers(s)
  BY <1>1, <1>2, IssuesIfNumbers
<1>4. Len(s) = N
  <2>1. N \in Nat /\ s \in [1..N -> Nat]
    BY <1>1, <1>2, IssuesIfNumbers, Zenon
  <2> QED
    BY <2>1, NumbersMade
<1>5. Total(s) \in Nat
  BY <1>1, <1>2, IssuesIfNumbers, Zenon
<1> QED
  BY <1>1, <1>2, <1>3, <1>4, <1>5

\* The rows of the two panels show every issue once.
LEMMA PanelsAdd ==
  ASSUME NEW fn, NEW ptx, Placed(fn, ptx), NEW files, \A p \in DOMAIN files : Listed(files[p]),
         NEW src, src = src_rows(fn, files), NEW asm, asm = asm_rows(fn)
  PROVE  ExecSum(src) + UnlinkedSum(asm) = Issues(fn.instructions)
<1>1. PICK list : list = fn.instructions
  OBVIOUS
<1>2. PICK N \in Nat : N = Len(list) /\ DOMAIN list = 1..N
  BY <1>1, ListedLen DEF Placed
<1>3. PICK x, y : x = IssuesIf(list, LinkedIn(list)) /\ y = IssuesIf(list, UnlinkedIn(list))
  OBVIOUS
<1>4. /\ Numbers(x) /\ Len(x) = N /\ Total(x) \in Nat
      /\ Numbers(y) /\ Len(y) = N /\ Total(y) \in Nat
  <2>1. Numbers(x) /\ Len(x) = N /\ Total(x) \in Nat
    <3>1. PICK which : which = LinkedIn(list)
      OBVIOUS
    <3>2. N = Len(fn.instructions) /\ x = IssuesIf(fn.instructions, which)
      BY ONLY <1>1, <1>2, <1>3, <3>1
    <3>3. Numbers(x) /\ Len(x) = N /\ Total(x) \in Nat
      BY ONLY Placed(fn, ptx), <3>2, IssuesIfLen
    <3> QED
      BY ONLY <3>3
  <2>2. Numbers(y) /\ Len(y) = N /\ Total(y) \in Nat
    <3>1. PICK which : which = UnlinkedIn(list)
      OBVIOUS
    <3>2. N = Len(fn.instructions) /\ y = IssuesIf(fn.instructions, which)
      BY ONLY <1>1, <1>2, <1>3, <3>1
    <3>3. Numbers(y) /\ Len(y) = N /\ Total(y) \in Nat
      BY ONLY Placed(fn, ptx), <3>2, IssuesIfLen
    <3> QED
      BY ONLY <3>3
  <2> QED
    BY <2>1, <2>2
<1>5. ExecSum(src) = Total(x)
  <2>1. PICK m \in Nat : \E F, lines : PanelOf(fn, files, F, lines, m)
    BY PanelIs DEF PanelOf
  <2>2. PICK F, lines : PanelOf(fn, files, F, lines, m)
    BY <2>1
  <2>3. Total([k \in DOMAIN src |-> src[k].exec]) = Total(IssuesIf(list, LinkedIn(list)))
    BY ONLY Placed(fn, ptx), m \in Nat, <1>1, <2>2, src = src_rows(fn, files), SourceIssues
  <2> QED
    BY <1>3, <2>3 DEF ExecSum
<1>6. UnlinkedSum(asm) = Total(y)
  <2>1. (\E prev : GridRows(asm, prev, list, N)) /\ GridSums(asm, list, N)
    BY <1>1, <1>2, GridIs
  <2>2. DOMAIN asm = 1..Len(asm)
    BY <2>1, ListedLen DEF GridRows
  <2>3. Total(UnlinkedExec(asm)) = Total(FirstOf(y, N))
    BY <1>3, <2>1 DEF GridSums
  <2>4. FirstOf(y, N) = y
    BY <1>4, FirstAll DEF Numbers
  <2>5. UnlinkedExec(asm)
          = [n \in DOMAIN asm |-> IF asm[n].is_sep \/ Linked(asm[n]) THEN 0 ELSE asm[n].exec]
    BY <2>2 DEF UnlinkedExec, ShownExec, Linked
  <2> QED
    BY <2>3, <2>4, <2>5 DEF UnlinkedSum
<1>7. PICK z : z = [n \in DOMAIN list |-> list[n].issue_count]
  BY Zenon
<1>8. Issues(list) = Total(z)
  BY <1>7 DEF Issues, SumOver
<1>9. Listed(z) /\ Len(z) = N
  <2>1. z = [n \in 1..N |-> z[n]]
    BY <1>2, <1>7
  <2> QED
    BY <2>1, FunctionListed
<1>10. \A n \in 1..N : z[n] = x[n] + y[n]
  <2>1. ASSUME NEW n \in 1..N PROVE z[n] = x[n] + y[n]
    <3>1. z[n] = list[n].issue_count /\ list[n].issue_count \in Nat
      BY <1>1, <1>2, <1>7 DEF Placed
    <3>2. x[n] = IF LinkedTo(list[n]) THEN list[n].issue_count ELSE 0
      BY <1>2, <1>3 DEF IssuesIf, LinkedIn
    <3>3. y[n] = IF LinkedTo(list[n]) THEN 0 ELSE list[n].issue_count
      BY <1>2, <1>3 DEF IssuesIf, UnlinkedIn
    <3> QED
      BY <3>1, <3>2, <3>3
  <2> QED
    BY <2>1
<1>11. Total(z) = Total(x) + Total(y)
  BY <1>4, <1>9, <1>10, TotalPlus
<1> QED
  BY <1>1, <1>5, <1>6, <1>8, <1>11

\* A linked row finds the row of its line, and is below its line's separator.
LEMMA PanelsLink ==
  ASSUME NEW fn, NEW ptx, Placed(fn, ptx), NEW files, \A p \in DOMAIN files : Listed(files[p]),
         NEW src, src = src_rows(fn, files), NEW asm, asm = asm_rows(fn),
         NEW n \in DOMAIN asm, Linked(asm[n])
  PROVE  RowLinks(src, asm, n)
<1>1. PICK list : list = fn.instructions
  OBVIOUS
<1>2. PICK N \in Nat : N = Len(list) /\ DOMAIN list = 1..N
  BY <1>1, ListedLen DEF Placed
<1>3. (\E prev : GridRows(asm, prev, list, N)) /\ GridSums(asm, list, N)
  BY <1>1, <1>2, GridIs
<1>4. DOMAIN asm = 1..Len(asm) /\ Len(asm) \in Nat
  BY <1>3, ListedLen DEF GridRows
<1>5. PICK at : at = asm[n].sid
  OBVIOUS
<1>6. at # NoSid /\ at[2] # 0
  BY <1>5 DEF Linked
<1>7. (\E i \in 1..N : at = Sid(list[i])) /\ LastSeparator(asm, n, at)
  BY <1>3, <1>4, <1>5, <1>6 DEF GridRows
<1>8. PICK i \in 1..N : at = Sid(list[i])
  BY <1>7
<1>9. i \in LinkedIn(list)
  BY <1>2, <1>6, <1>8 DEF LinkedIn, LinkedTo, Sid
<1>10. \E k \in RowsOfSid(src, at) :
         RowsOfSid(src, at) = {k} /\ src[k].n_ptx = Cardinality(InstrsOn(list, at))
  <2>1. PICK m \in Nat : \E F, lines : PanelOf(fn, files, F, lines, m)
    BY PanelIs DEF PanelOf
  <2>2. PICK F, lines : PanelOf(fn, files, F, lines, m)
    BY <2>1
  <2> QED
    BY ONLY Placed(fn, ptx), m \in Nat, <1>1, <1>8, <1>9, <2>2, src = src_rows(fn, files), OneSourceRow
<1>11. InstrsOn(list, at) = InstrsUpTo(list, N, at)
  BY <1>2 DEF InstrsOn, InstrsUpTo
<1>12. Cardinality(RowsOfSid(asm, at)) = Cardinality(InstrsOn(list, at))
  BY <1>3, <1>6, <1>11 DEF GridSums
<1>13. asm[Max({k \in 1..n : asm[k].is_sep})].sep_label = at
  <2>1. PICK p \in 1..n : /\ asm[p].is_sep /\ asm[p].sep_label = at
                          /\ \A q \in 1..n : asm[q].is_sep => q <= p
    BY <1>7 DEF LastSeparator
  <2>2. PICK seps : seps = {k \in 1..n : asm[k].is_sep}
    BY Zenon
  <2>3. seps \in SUBSET (0..n) /\ seps # {} /\ n \in Nat
    BY <1>4, <2>1, <2>2
  <2>4. Max(seps) \in seps /\ \A s \in seps : Max(seps) >= s
    BY <2>3, MaxIn, Zenon
  <2>5. Max(seps) = p
    <3>1. Max(seps) >= p /\ Max(seps) <= p
      BY <2>1, <2>2, <2>4
    <3>2. Max(seps) \in 0..n
      BY ONLY <2>3, <2>4, Zenon
    <3>3. p \in 1..n
      OBVIOUS
    <3> QED
      BY ONLY <2>3, <3>1, <3>2, <3>3
  <2> QED
    BY <2>1, <2>2, <2>5
<1> QED
  BY <1>5, <1>10, <1>12, <1>13 DEF RowLinks

LEMMA SectionRight ==
  ASSUME NEW fn, NEW recs, NEW ptx, SectionMade(fn, recs, ptx),
         NEW files, \A p \in DOMAIN files : Listed(files[p]),
         NEW section, section = _render_kernel_section(fn, files)
  PROVE  /\ section.kid = <<fn.launch_id, fn.name>>
         /\ SectionAdds(section, Issues(fn.instructions))
         /\ SectionLinks(section) /\ SectionFits(section)
<1>1. Placed(fn, ptx)
  BY MadePlaced
<1>2. /\ section.kid = _kernel_id(fn)
      /\ section.tabs = <<"stats", IF has_source(fn) THEN "split" ELSE "asm", "hot">>
      /\ section.split = IF has_source(fn) THEN _render_split_view(fn, files)
                         ELSE [src |-> <<>>, asm |-> <<>>]
      /\ section.table = IF has_source(fn) THEN [cols |-> <<>>, rows |-> <<>>]
                         ELSE _render_asm_table(fn)
  BY DEF _render_kernel_section
<1>3. CASE has_source(fn)
  <2>1. PICK src, asm : src = src_rows(fn, files) /\ asm = asm_rows(fn)
    OBVIOUS
  <2>2. section.split.src = src /\ section.split.asm = asm /\ section.table.rows = <<>>
    BY <1>2, <1>3, <2>1 DEF _render_split_view
  <2>3. ExecSum(src) + UnlinkedSum(asm) = Issues(fn.instructions)
    BY <1>1, <2>1, PanelsAdd
  <2>4. \A n \in DOMAIN asm : Linked(asm[n]) => RowLinks(src, asm, n)
    BY <1>1, <2>1, PanelsLink
  <2>5. DOMAIN section.table.rows = {}
    BY <2>2
  <2>6. SectionAdds(section, Issues(fn.instructions))
    BY ONLY <2>2, <2>3 DEF SectionAdds
  <2>7. SectionLinks(section)
    BY ONLY <2>2, <2>4 DEF SectionLinks
  <2>8. SectionFits(section)
    BY ONLY <2>5 DEF SectionFits
  <2> QED
    BY <1>2, <2>6, <2>7, <2>8 DEF _kernel_id
<1>4. CASE ~has_source(fn)
  <2>1. section.tabs[2] # "split" /\ section.split.asm = <<>> /\ section.table = _render_asm_table(fn)
    BY <1>2, <1>4
  <2>2. DOMAIN section.split.asm = {}
    BY <2>1
  <2>3. \A n \in DOMAIN section.table.rows :
          Headings(section.table.rows[n].cells) = section.table.cols
    <3>1. section.table.cols = _render_asm_table(fn).cols
      BY ONLY <2>1
    <3>2. section.table.rows = [n \in DOMAIN fn.instructions |-> AsmTableRow(fn, fn.instructions[n])]
      <4>1. _render_asm_table(fn).rows
              = [n \in DOMAIN fn.instructions |-> AsmTableRow(fn, fn.instructions[n])]
        BY ONLY Zenon DEF _render_asm_table
      <4> QED
        BY ONLY <2>1, <4>1
    <3> QED
      BY ONLY <3>1, <3>2, TableFits
  <2>4. SectionAdds(section, Issues(fn.instructions))
    BY ONLY <2>1 DEF SectionAdds
  <2>5. SectionLinks(section)
    BY ONLY <2>2 DEF SectionLinks
  <2>6. SectionFits(section)
    BY ONLY <2>3 DEF SectionFits
  <2> QED
    BY <1>2, <2>4, <2>5, <2>6 DEF _kernel_id
<1> QED
  BY <1>3, <1>4

-----------------------------------------------------------------------------
\* The page is the report's, and stays so until it is opened.
PageMade == Written => html_out = render_html(report)

LEMMA InitPageMade == Init => PageMade
BY DEF Init, PageMade, Written

LEMMA StepPageMade ==
  ASSUME PageMade, [Next]_vars
  PROVE  PageMade'
<1> USE DEF Goto, Return
<1>1. ASSUME phase' # "written" PROVE PageMade'
  BY <1>1 DEF PageMade, Written
<1>2. CASE RunByUser \/ ReadProfile \/ FindCuemu \/ RunEmulator \/ EmulatorReturned \/ AllBinariesRun
  <2>1. phase' \in {"args", "find", "extract", "binary", "emulator", "exit"}
    BY <1>2 DEF RunByUser, ReadProfile, FindCuemu, RunEmulator, EmulatorReturned, AllBinariesRun
  <2> QED
    BY <1>1, <2>1
<1>3. CASE WriteReport
  <2>1. html_out' = render_html(report)' \/ phase' = "exit"
    BY <1>3 DEF WriteReport
  <2> QED
    BY <1>1, <2>1 DEF PageMade
<1>4. CASE Open
  BY <1>1, <1>4 DEF Open
<1>5. CASE ExtractNext \/ Emulate \/ Browse \/ UNCHANGED vars
  <2>1. UNCHANGED <<phase, report, html_out>>
    BY <1>5 DEF ExtractNext, Emulate, Browse, vars, main_state
  <2> QED
    BY <2>1 DEF PageMade, Written
<1> QED
  BY <1>2, <1>3, <1>4, <1>5 DEF Next

\* What PageRight says of a page and the records.
PageAdds(html, recs) ==
  LET ids == [s \in DOMAIN html.sections |-> html.sections[s].kid]
      counted == Cardinality({i \in DOMAIN recs : recs[i].instr_name \notin _DIRECTIVE_NAMES})
  IN  /\ IsInjective(ids)
      /\ [s \in DOMAIN html.summary |-> html.summary[s].onclick] = ids
      /\ html.n_records = counted /\ SumOver(html.summary, LAMBDA row : row.total) = counted
SectionsAgree(html) ==
  \A s \in DOMAIN html.sections :
    /\ SectionAdds(html.sections[s], html.summary[s].total)
    /\ SectionLinks(html.sections[s]) /\ SectionFits(html.sections[s])

\* No record is of a directive, so every one is counted.
LEMMA AllCounted ==
  ASSUME NEW recs, Listed(recs), \A i \in 1..Len(recs) : Countable(recs[i])
  PROVE  Cardinality({i \in DOMAIN recs : recs[i].instr_name \notin _DIRECTIVE_NAMES}) = Len(recs)
<1>1. PICK n \in Nat : n = Len(recs) /\ DOMAIN recs = 1..n
  BY ListedLen
<1>2. {i \in DOMAIN recs : recs[i].instr_name \notin _DIRECTIVE_NAMES} = 1..n
  BY <1>1 DEF Countable
<1>3. Cardinality(1..n) = n
  BY FS_Interval
<1> QED
  BY <1>1, <1>2, <1>3, Zenon

\* The page of the sections of a report.
IsPageOf(html, fns, files, any) ==
  /\ html.sections = [n \in DOMAIN fns |-> _render_kernel_section(fns[n], files)]
  /\ html.summary = [n \in DOMAIN fns |-> SummaryRow(fns[n], any)]
AreSections(fns, recs, ptx) ==
  Listed(fns) /\ \A n \in 1..Len(fns) : SectionMade(fns[n], recs, ptx)

LEMMA PageOfSections ==
  ASSUME NEW recs, NEW ptx, NumbersPtx(ptx),
         NEW fns, AreSections(fns, recs, ptx),
         NEW html, NEW any, IsPageOf(html, fns, ptx.source_files, any)
  PROVE  SectionsAgree(html)
<1>1. PICK files : files = ptx.source_files /\ \A p \in DOMAIN files : Listed(files[p])
  BY DEF NumbersPtx
<1>2. ASSUME NEW s \in DOMAIN fns
      PROVE  /\ SectionAdds(html.sections[s], html.summary[s].total)
             /\ SectionLinks(html.sections[s]) /\ SectionFits(html.sections[s])
  <2>1. PICK fn : fn = fns[s] /\ SectionMade(fn, recs, ptx)
    BY ListedLen DEF AreSections
  <2>2. PICK section : section = _render_kernel_section(fn, files)
    OBVIOUS
  <2>3. SectionAdds(section, Issues(fn.instructions)) /\ SectionLinks(section) /\ SectionFits(section)
    BY ONLY <1>1, <2>1, <2>2, SectionRight
  <2>4. html.sections[s] = section
    BY ONLY <1>1, <1>2, <2>1, <2>2, IsPageOf(html, fns, ptx.source_files, any) DEF IsPageOf
  <2>5. html.summary[s].total = fn.total_exec_count
    BY ONLY <1>2, <2>1, IsPageOf(html, fns, ptx.source_files, any) DEF IsPageOf, SummaryRow
  <2>6. fn.total_exec_count = Issues(fn.instructions)
    BY <2>1 DEF SectionMade
  <2> QED
    BY ONLY <2>3, <2>4, <2>5, <2>6
<1>3. DOMAIN html.sections = DOMAIN fns
  BY DEF IsPageOf
<1> QED
  BY ONLY <1>2, <1>3 DEF SectionsAgree

\* The page of a report adds up to its records.
LEMMA PageOfReport ==
  ASSUME NEW recs, Listed(recs), \A i \in 1..Len(recs) : Countable(recs[i]),
         NEW ptx, NumbersPtx(ptx), NEW html, html = render_html(aggregate(recs, ptx))
  PROVE  PageAdds(html, recs) /\ SectionsAgree(html)
<1>1. PICK fns : fns = aggregate(recs, ptx).functions
  OBVIOUS
<1>2. aggregate(recs, ptx).source_files = ptx.source_files
  BY DEF aggregate
<1>3. /\ Listed(fns) /\ \A n \in 1..Len(fns) : SectionMade(fns[n], recs, ptx)
  BY <1>1, AggregateCounts
<1>4. PICK N : N = Len(fns) /\ DOMAIN fns = 1..N
  BY <1>3, ListedLen
<1>5. PICK any : html.summary = [n \in DOMAIN fns |-> SummaryRow(fns[n], any)]
  BY <1>1, Zenon DEF render_html, _render_summary
<1>6. html.sections = [n \in DOMAIN fns |-> _render_kernel_section(fns[n], ptx.source_files)]
  BY <1>1, <1>2 DEF render_html
<1>7. html.n_records = Total([n \in DOMAIN fns |-> Issues(fns[n].instructions)])
  BY <1>1 DEF render_html, SumOver
<1>8. Total([n \in DOMAIN fns |-> Issues(fns[n].instructions)]) = Len(recs)
  BY <1>1, <1>4, AggregateTotal, Zenon
<1>9. SectionsAgree(html)
  <2>1. AreSections(fns, recs, ptx) /\ IsPageOf(html, fns, ptx.source_files, any)
    BY ONLY <1>3, <1>5, <1>6 DEF AreSections, IsPageOf
  <2> QED
    BY ONLY NumbersPtx(ptx), <2>1, PageOfSections, Zenon
<1>10. \A m, n \in 1..N : <<fns[m].launch_id, fns[m].name>> = <<fns[n].launch_id, fns[n].name>> => m = n
  <2>1. PICK reports : reports = ReportsOf(Count(recs), ptx)
    OBVIOUS
  <2>2. PICK S : S = Range(reports)
    OBVIOUS
  <2> QED
    BY <1>1, <1>4, <2>1, <2>2, SectionsSorted
<1>11. \A n \in 1..N : html.sections[n].kid = <<fns[n].launch_id, fns[n].name>>
  BY <1>4, <1>6 DEF _render_kernel_section, _kernel_id
<1>12. \A n \in 1..N : html.summary[n].onclick = <<fns[n].launch_id, fns[n].name>>
  BY <1>4, <1>5 DEF SummaryRow, _kernel_id
<1>13. \A n \in 1..N : html.summary[n].total = Issues(fns[n].instructions)
  BY <1>3, <1>4, <1>5 DEF SummaryRow, SectionMade
<1>14. DOMAIN html.sections = 1..N /\ DOMAIN html.summary = 1..N
  BY <1>4, <1>5, <1>6
<1>15. [s \in DOMAIN html.sections |-> html.sections[s].kid]
         = [s \in 1..N |-> <<fns[s].launch_id, fns[s].name>>]
  BY ONLY <1>11, <1>14
<1>16. [s \in DOMAIN html.summary |-> html.summary[s].onclick]
         = [s \in 1..N |-> <<fns[s].launch_id, fns[s].name>>]
  BY ONLY <1>12, <1>14
<1>17. IsInjective([s \in 1..N |-> <<fns[s].launch_id, fns[s].name>>])
  BY ONLY <1>10 DEF IsInjective
<1>18. [s \in DOMAIN html.summary |-> html.summary[s].total]
         = [n \in DOMAIN fns |-> Issues(fns[n].instructions)]
  BY ONLY <1>4, <1>13, <1>14
<1>19. Cardinality({i \in DOMAIN recs : recs[i].instr_name \notin _DIRECTIVE_NAMES}) = Len(recs)
  BY AllCounted
<1>20. PageAdds(html, recs)
  BY ONLY <1>7, <1>8, <1>15, <1>16, <1>17, <1>18, <1>19, Zenon DEF PageAdds, SumOver
<1> QED
  BY <1>9, <1>20

LEMMA MadePage ==
  ASSUME AllRead, ReportMade, PageMade, Written
  PROVE  PageAdds(html_out, records) /\ SectionsAgree(html_out)
<1>1. PICK ptx : NumbersPtx(ptx) /\ report = aggregate(records, ptx)
  BY DEF ReportMade
<1>2. RowsFit(records, Flushed)
  BY RecordsFit
<1>3. Listed(records) /\ \A i \in 1..Len(records) : Countable(records[i])
  BY <1>2, RowsFitCountable
<1>4. html_out = render_html(aggregate(records, ptx))
  BY <1>1 DEF PageMade
<1>5. PICK recs, html : recs = records /\ html = html_out
  OBVIOUS
<1>6. PageAdds(html, recs) /\ SectionsAgree(html)
  BY ONLY <1>1, <1>3, <1>4, <1>5, PageOfReport
<1> QED
  BY ONLY <1>5, <1>6

LEMMA MadePageRight ==
  ASSUME AllRead, ReportMade, PageMade
  PROVE  PageRight
<1>1. Written => PageAdds(html_out, records) /\ SectionsAgree(html_out)
  BY MadePage
<1> QED
  BY ONLY <1>1, Zenon DEF PageRight, PageAdds, SectionsAgree, SectionAdds, SectionLinks,
       SectionFits, ExecSum, UnlinkedSum, RowLinks, Linked, SumOver

\* The page agrees with the records, whatever runs, PTX and sources it is made
\* of: header, summary, tables and grids add up to the records that were read,
\* a summary row opens the section of its launch and function and no two open
\* the same, and a row of the assembly grid finds the one row of its source line.
THEOREM SpecPageRight == Spec => []PageRight
<1>1. ReadInv /\ ReportMade /\ PageMade => PageRight
  BY MadePageRight DEF ReadInv
<1>2. Init => Progress /\ ReadInv /\ TextsRead /\ ReportMade /\ PageMade
  BY InitProgress, InitRead, InitMade, InitPageMade
<1>3. (Progress /\ ReadInv /\ TextsRead /\ ReportMade /\ PageMade) /\ [Next]_vars
        => (Progress /\ ReadInv /\ TextsRead /\ ReportMade /\ PageMade)'
  BY StepProgress, StepRead, StepMade, StepPageMade
<1> QED
  BY <1>1, <1>2, <1>3, PTL DEF Spec
=============================================================================
