------------------------- MODULE MetricSamplesProofs -------------------------
(***************************************************************************)
(* Definitions and samples, for any databases, labels, definitions and     *)
(* results.                                                                *)
(***************************************************************************)
EXTENDS MetricSamples, SequenceTheorems, WellFoundedInduction, TLAPS

-----------------------------------------------------------------------------
(* Sequences                                                               *)

\* Induction, for what can be said with a set of numbers.
LEMMA SetInduction ==
  ASSUME NEW P \in SUBSET Nat, 0 \in P, \A n \in P : n + 1 \in P
  PROVE  P = Nat
<1> DEFINE R == OpToRel(<, Nat)
           T == Nat \ P
<1>1. IsWellFoundedOn(R, Nat)
  BY NatLessThanWellFounded
<1>2. SUFFICES ASSUME T # {} PROVE FALSE
  OBVIOUS
<1>3. PICK least \in T : \A n \in T : <<n, least>> \notin R
  <2> HIDE DEF R, T
  <2>1. T \subseteq Nat
    BY DEF T
  <2> QED
    BY <1>1, <1>2, <2>1, WFMin
<1>4. \A n \in T : ~(n < least)
  BY <1>3 DEF OpToRel
<1>5. least - 1 \in P
  BY <1>4
<1> QED
  BY <1>5

\* The last of a set of positions.
LEMMA LastExists ==
  ASSUME NEW n \in Nat, NEW S \in SUBSET (1 .. n), S # {}
  PROVE  Max(S) \in S /\ \A x \in S : x <= Max(S)
<1> DEFINE P == {k \in Nat : S \cap (1 .. k) = {} \/ \E m \in S : \A x \in S \cap (1 .. k) : x <= m}
<1>1. 0 \in P
  OBVIOUS
<1>2. \A k \in P : k + 1 \in P
  <2> TAKE k \in P
  <2>1. CASE k + 1 \in S
    BY <2>1
  <2>2. CASE k + 1 \notin S
    BY <2>2
  <2> QED
    BY <2>1, <2>2
<1>3. P = Nat
  <2>1. P \in SUBSET Nat
    OBVIOUS
  <2> HIDE DEF P
  <2> QED
    BY <1>1, <1>2, <2>1, SetInduction
<1>4. \E m \in S : \A x \in S : m >= x
  BY <1>3
<1> QED
  BY <1>4 DEF Max

\* FlattenSeq is defined by recursion: the function it takes the last value of exists.
LEMMA FlattenFunction ==
  ASSUME NEW seqs, Len(seqs) \in Nat \ {0}
  PROVE  \E f : /\ f = [i \in 1 .. Len(seqs) |->
                          IF i = 1 THEN seqs[i] ELSE f[i - 1] \o seqs[i]]
                /\ FlattenSeq(seqs) = f[Len(seqs)]
<1> DEFINE Entry(f, i) == IF i = 1 THEN seqs[i] ELSE f[i - 1] \o seqs[i]
           Is(f, n) == f = [i \in 1 .. n |-> Entry(f, i)]
           P == {n \in Nat : \E f : Is(f, n)}
<1>1. 0 \in P
  <2>1. [i \in 1 .. 0 |-> seqs[i]] = [i \in 1 .. 0 |-> Entry([j \in 1 .. 0 |-> seqs[j]], i)]
    OBVIOUS
  <2> HIDE DEF Entry
  <2> QED
    BY <2>1
<1>2. ASSUME NEW n \in P PROVE n + 1 \in P
  <2>1. n \in Nat
    OBVIOUS
  <2>2. PICK f : Is(f, n)
    OBVIOUS
  <2> DEFINE g == [i \in 1 .. (n + 1) |-> Entry(f, i)]
  <2>3. \A i \in 1 .. n : f[i] = Entry(f, i)
    <3> HIDE DEF Entry
    <3> QED
      BY <2>2
  <2>4. \A i \in 1 .. (n + 1) : g[i] = Entry(f, i)
    <3> HIDE DEF Entry
    <3> QED
      OBVIOUS
  <2>5. \A i \in 1 .. n : g[i] = f[i]
    <3> HIDE DEF Entry, g
    <3> QED
      BY <2>1, <2>3, <2>4
  <2>6. \A i \in 1 .. (n + 1) : Entry(g, i) = Entry(f, i)
    <3> HIDE DEF g, P
    <3>1. \A i \in 1 .. (n + 1) : i # 1 => i - 1 \in 1 .. n
      BY <2>1
    <3> QED
      BY <2>5, <3>1
  <2>7. Is(g, n + 1)
    <3> HIDE DEF Entry
    <3> QED
      BY <2>6
  <2> HIDE DEF g, Is
  <2> QED
    BY <2>1, <2>7
<1>3. P = Nat
  <2> HIDE DEF P
  <2>1. P \in SUBSET Nat
    BY DEF P
  <2> QED
    BY <1>1, <1>2, <2>1, SetInduction
<1>4. \E f : Is(f, Len(seqs))
  <2> HIDE DEF Is
  <2> QED
    BY <1>3
<1>5. FlattenSeq(seqs) = (CHOOSE f : Is(f, Len(seqs)))[Len(seqs)]
  BY DEF FlattenSeq
<1> HIDE DEF Is
<1>6. Is(CHOOSE f : Is(f, Len(seqs)), Len(seqs))
  BY <1>4
<1> QED
  BY <1>5, <1>6 DEF Is

\* What is flattened of the first of them, one sequence after the other.
LEMMA FlattenParts ==
  ASSUME NEW S, NEW seqs \in Seq(Seq(S))
  PROVE  \E parts \in [0 .. Len(seqs) -> Seq(S)] :
           /\ parts[0] = <<>>
           /\ \A i \in 1 .. Len(seqs) : parts[i] = parts[i - 1] \o seqs[i]
           /\ \A i \in 0 .. Len(seqs) : parts[i] = FlattenSeq(SubSeq(seqs, 1, i))
<1> DEFINE len == Len(seqs)
<1>1. len \in Nat /\ \A i \in 1 .. len : seqs[i] \in Seq(S)
  BY LenProperties, ElementOfSeq
<1>2. \A n \in 0 .. len :
        /\ SubSeq(seqs, 1, n) \in Seq(Seq(S))
        /\ Len(SubSeq(seqs, 1, n)) = n
        /\ \A i \in 1 .. n : SubSeq(seqs, 1, n)[i] = seqs[i]
  <2> TAKE n \in 0 .. len
  <2>1. \A i \in 1 .. n : seqs[i] \in Seq(S)
    BY <1>1
  <2> HIDE DEF len
  <2> QED
    BY <1>1, <2>1, SubSeqProperties
<1> DEFINE Flat(n) == FlattenSeq(SubSeq(seqs, 1, n))
           Values(n, f) == \A i \in 1 .. n : f[i] = IF i = 1 THEN seqs[i] ELSE f[i - 1] \o seqs[i]
<1>3. ASSUME NEW n \in 1 .. len PROVE \E f : Values(n, f) /\ Flat(n) = f[n]
  <2> DEFINE start == SubSeq(seqs, 1, n)
  <2>1. Len(start) = n /\ n \in Nat \ {0} /\ \A i \in 1 .. n : start[i] = seqs[i]
    BY <1>1, <1>2
  <2> HIDE DEF start, len
  <2>2. PICK f : /\ f = [i \in 1 .. n |-> IF i = 1 THEN start[i] ELSE f[i - 1] \o start[i]]
                 /\ FlattenSeq(start) = f[n]
    BY <2>1, FlattenFunction
  <2>3. \A i \in 1 .. n : f[i] = IF i = 1 THEN start[i] ELSE f[i - 1] \o start[i]
    BY <2>2
  <2>4. Values(n, f)
    BY <2>1, <2>3
  <2> QED
    BY <2>2, <2>4 DEF start
<1>4. Flat(0) = <<>>
  BY <1>2, <1>1, EmptySeq DEF FlattenSeq
<1> HIDE DEF Flat, len
<1> DEFINE Agree(n) == \A k, l \in 1 .. len : \A f, g :
                         n <= k /\ n <= l /\ n # 0 /\ Values(k, f) /\ Values(l, g) =>
                           f[n] = g[n] /\ f[n] \in Seq(S)
           P == {n \in Nat : Agree(n)}
<1>5. \A n \in Nat : Agree(n)
  <2>1. 0 \in P
    OBVIOUS
  <2>2. ASSUME NEW n \in P PROVE n + 1 \in P
    <3> SUFFICES ASSUME NEW k \in 1 .. len, NEW l \in 1 .. len, NEW f, NEW g,
                        n + 1 <= k, n + 1 <= l, Values(k, f), Values(l, g)
                 PROVE  f[n + 1] = g[n + 1] /\ f[n + 1] \in Seq(S)
      OBVIOUS
    <3>1. n \in Nat /\ n + 1 \in 1 .. k /\ n + 1 \in 1 .. l /\ seqs[n + 1] \in Seq(S)
      BY <1>1
    <3>2. /\ f[n + 1] = IF n + 1 = 1 THEN seqs[n + 1] ELSE f[(n + 1) - 1] \o seqs[n + 1]
          /\ g[n + 1] = IF n + 1 = 1 THEN seqs[n + 1] ELSE g[(n + 1) - 1] \o seqs[n + 1]
      BY <3>1
    <3>3. CASE n = 0
      BY <3>1, <3>2, <3>3
    <3>4. CASE n # 0
      <4>1. f[n] = g[n] /\ f[n] \in Seq(S)
        <5>1. n <= k /\ n <= l
          BY <1>1, <3>1
        <5>2. Agree(n)
          OBVIOUS
        <5> HIDE DEF Values, P
        <5> QED
          BY <3>4, <5>1, <5>2
      <4>2. (n + 1) - 1 = n /\ n + 1 # 1
        BY <3>1, <3>4
      <4>3. f[n + 1] = f[n] \o seqs[n + 1] /\ g[n + 1] = g[n] \o seqs[n + 1]
        BY <3>2, <4>2
      <4> QED
        BY <3>1, <4>1, <4>3, ConcatProperties
    <3> QED
      BY <3>3, <3>4
  <2>3. P \in SUBSET Nat
    OBVIOUS
  <2>4. P = Nat
    <3> HIDE DEF P
    <3> QED
      BY <2>1, <2>2, <2>3, SetInduction
  <2> HIDE DEF Agree
  <2> QED
    BY <2>4
<1> HIDE DEF P
<1>6. ASSUME NEW n \in 1 .. len PROVE Flat(n) \in Seq(S) /\ Flat(n) = Flat(n - 1) \o seqs[n]
  <2>1. PICK f : Values(n, f) /\ Flat(n) = f[n]
    BY <1>3
  <2>2. n \in Nat /\ n # 0 /\ n <= n
    BY <1>1
  <2>3. f[n] \in Seq(S)
    <3> HIDE DEF Values
    <3> QED
      BY <1>5, <2>1, <2>2
  <2>4. f[n] = IF n = 1 THEN seqs[n] ELSE f[n - 1] \o seqs[n]
    BY <2>1, <2>2
  <2>5. CASE n = 1
    BY <1>1, <1>4, <2>1, <2>3, <2>4, <2>5, ConcatEmptySeq
  <2>6. CASE n # 1
    <3>1. n - 1 \in 1 .. len /\ n - 1 \in Nat /\ n - 1 # 0
      BY <1>1, <2>2, <2>6
    <3>2. PICK g : Values(n - 1, g) /\ Flat(n - 1) = g[n - 1]
      BY <1>3, <3>1
    <3>3. g[n - 1] = f[n - 1]
      <4> DEFINE k == n - 1
      <4>1. k <= n /\ k <= k /\ k # 0 /\ k \in Nat /\ k \in 1 .. len
        BY <2>2, <3>1
      <4>2. Values(k, g) /\ Values(n, f)
        BY <2>1, <3>2
      <4>3. Agree(k)
        BY <1>5, <4>1
      <4> HIDE DEF Values, k
      <4>4. g[k] = f[k]
        BY <4>1, <4>2, <4>3
      <4> QED
        BY <4>4 DEF k
    <3> QED
      BY <2>1, <2>3, <2>4, <2>6, <3>2, <3>3
  <2> QED
    BY <2>5, <2>6
<1> DEFINE parts == [i \in 0 .. len |-> Flat(i)]
<1>7. \A i \in 0 .. len : i = 0 \/ i \in 1 .. len
  BY <1>1
<1>8. parts \in [0 .. len -> Seq(S)]
  BY <1>4, <1>6, <1>7, EmptySeq
<1>9. \A i \in 1 .. len : i \in 0 .. len /\ i - 1 \in 0 .. len
  BY <1>1
<1>10. 0 \in 0 .. len
  BY <1>1
<1>11. /\ parts[0] = <<>>
       /\ \A i \in 1 .. len : parts[i] = parts[i - 1] \o seqs[i]
       /\ \A i \in 0 .. len : parts[i] = Flat(i)
  BY <1>4, <1>6, <1>9, <1>10
<1> QED
  BY <1>8, <1>11 DEF Flat, len

\* It has the elements of all of them.
LEMMA FlattenElements ==
  ASSUME NEW S, NEW seqs \in Seq(Seq(S))
  PROVE  /\ FlattenSeq(seqs) \in Seq(S)
         /\ \A x : x \in ToSet(FlattenSeq(seqs)) <=> \E i \in DOMAIN seqs : x \in ToSet(seqs[i])
<1> DEFINE len == Len(seqs)
<1>1. len \in Nat /\ DOMAIN seqs = 1 .. len /\ \A i \in 1 .. len : seqs[i] \in Seq(S)
  BY LenProperties, ElementOfSeq
<1>2. PICK parts \in [0 .. len -> Seq(S)] :
        /\ parts[0] = <<>>
        /\ \A i \in 1 .. len : parts[i] = parts[i - 1] \o seqs[i]
        /\ \A i \in 0 .. len : parts[i] = FlattenSeq(SubSeq(seqs, 1, i))
  BY FlattenParts
<1>3. parts[len] = FlattenSeq(seqs) /\ parts[len] \in Seq(S)
  <2>1. len \in 0 .. len
    BY <1>1
  <2> QED
    BY <1>2, <2>1, SubSeqFull
<1> HIDE DEF len
<1> DEFINE Has(n) == \A x : x \in ToSet(parts[n]) <=> \E i \in 1 .. n : x \in ToSet(seqs[i])
           P == {n \in Nat : n <= len => Has(n)}
<1>4. P = Nat
  <2>1. 0 \in P
    <3>1. DOMAIN parts[0] = {}
      BY <1>2
    <3>2. Has(0)
      BY <3>1 DEF ToSet
    <3> QED
      BY <3>2
  <2>2. ASSUME NEW n \in P PROVE n + 1 \in P
    <3> SUFFICES ASSUME n + 1 <= len PROVE Has(n + 1)
      OBVIOUS
    <3> DEFINE s == parts[n]
               t == seqs[n + 1]
    <3>1. n \in Nat /\ n \in 0 .. len /\ n + 1 \in 1 .. len /\ (n + 1) - 1 = n
      BY <1>1
    <3>2. s \in Seq(S) /\ t \in Seq(S) /\ parts[n + 1] = s \o t
      BY <1>1, <1>2, <3>1
    <3>3. Has(n)
      <4> HIDE DEF Has
      <4> QED
        BY <1>1, <3>1
    <3>4. \A x : x \in ToSet(s \o t) <=> x \in ToSet(s) \/ x \in ToSet(t)
      <4> HIDE DEF s, t
      <4>1. Range(s \o t) = Range(s) \cup Range(t)
        BY <3>2, RangeConcatenation
      <4> QED
        BY <4>1 DEF Range, ToSet
    <3>5. \A i : i \in 1 .. (n + 1) <=> i \in 1 .. n \/ i = n + 1
      BY <3>1
    <3> HIDE DEF s
    <3> QED
      BY <3>2, <3>3, <3>4, <3>5 DEF s
  <2>3. P \in SUBSET Nat
    OBVIOUS
  <2> HIDE DEF P
  <2> QED
    BY <2>1, <2>2, <2>3, SetInduction
<1>5. Has(len)
  <2>1. len <= len /\ len \in Nat
    BY <1>1
  <2> HIDE DEF Has
  <2>2. \A n \in Nat : n <= len => Has(n)
    BY <1>4
  <2> QED
    BY <2>1, <2>2
<1> QED
  BY <1>1, <1>3, <1>5

\* It begins with those at the beginning.
LEMMA FlattenPrefix ==
  ASSUME NEW S, NEW seqs \in Seq(Seq(S)), NEW n \in 0 .. Len(seqs)
  PROVE  LET start == FlattenSeq(SubSeq(seqs, 1, n))
         IN /\ start \in Seq(S)
            /\ Len(start) <= Len(FlattenSeq(seqs))
            /\ \A i \in 1 .. Len(start) : start[i] = FlattenSeq(seqs)[i]
<1> DEFINE len == Len(seqs)
<1>1. len \in Nat /\ n \in Nat /\ n <= len /\ \A i \in 1 .. len : seqs[i] \in Seq(S)
  BY LenProperties, ElementOfSeq
<1>2. PICK parts \in [0 .. len -> Seq(S)] :
        /\ \A i \in 1 .. len : parts[i] = parts[i - 1] \o seqs[i]
        /\ \A i \in 0 .. len : parts[i] = FlattenSeq(SubSeq(seqs, 1, i))
  BY FlattenParts
<1>3. parts[len] = FlattenSeq(seqs) /\ parts[n] = FlattenSeq(SubSeq(seqs, 1, n))
  <2>1. len \in 0 .. len
    BY <1>1
  <2> QED
    BY <1>2, <2>1, SubSeqFull
<1> HIDE DEF len
<1> DEFINE start == parts[n]
           Begins(k) == /\ Len(start) <= Len(parts[n + k])
                        /\ \A i \in 1 .. Len(start) : start[i] = parts[n + k][i]
           P == {k \in Nat : n + k <= len => Begins(k)}
<1>4. P = Nat
  <2>1. 0 \in P
    BY <1>1, LenProperties
  <2>2. ASSUME NEW k \in P PROVE k + 1 \in P
    <3> SUFFICES ASSUME n + (k + 1) <= len PROVE Begins(k + 1)
      OBVIOUS
    <3> DEFINE s == parts[n + k]
               t == seqs[n + (k + 1)]
    <3>1. /\ k \in Nat /\ n + k \in 0 .. len /\ n + (k + 1) \in 1 .. len
          /\ (n + (k + 1)) - 1 = n + k
      BY <1>1
    <3>2. s \in Seq(S) /\ t \in Seq(S) /\ start \in Seq(S) /\ parts[n + (k + 1)] = s \o t
      <4>1. n \in 0 .. len
        BY <1>1
      <4>2. parts[n + (k + 1)] = parts[(n + (k + 1)) - 1] \o t
        BY <1>2, <3>1
      <4> QED
        BY <1>1, <1>2, <3>1, <4>1, <4>2
    <3>3. Begins(k)
      BY <1>1, <3>1
    <3> HIDE DEF s, t, start
    <3>4. /\ Len(s) \in Nat /\ Len(t) \in Nat /\ Len(start) \in Nat
          /\ Len(s \o t) = Len(s) + Len(t)
          /\ \A i \in 1 .. Len(s) : (s \o t)[i] = s[i]
      BY <3>2, LenProperties, ConcatProperties
    <3>5. Len(start) <= Len(s) /\ \A i \in 1 .. Len(start) : start[i] = s[i]
      BY <3>3 DEF s
    <3>6. Len(start) <= Len(s \o t) /\ \A i \in 1 .. Len(start) : start[i] = (s \o t)[i]
      BY <3>4, <3>5
    <3> QED
      BY <3>2, <3>6
  <2>3. P \in SUBSET Nat
    OBVIOUS
  <2> HIDE DEF P
  <2> QED
    BY <2>1, <2>2, <2>3, SetInduction
<1>5. Begins(len - n)
  <2>1. len - n \in Nat /\ n + (len - n) <= len
    BY <1>1
  <2> QED
    BY <1>4, <2>1
<1>6. n + (len - n) = len
  BY <1>1
<1>7. start \in Seq(S)
  BY <1>1, <1>2
<1> HIDE DEF start
<1> QED
  BY <1>3, <1>5, <1>6, <1>7 DEF start

\* Two sequences that agree as far as both go are one, if neither goes on where the other ends.
LEMMA NeitherGoesOn ==
  ASSUME NEW S, NEW p \in Seq(S), NEW q \in Seq(S), Apart(p, q),
         \A i \in 1 .. Len(p) : i <= Len(q) => p[i] = q[i]
  PROVE  p = q
<1>1. /\ Len(p) \in Nat /\ Len(q) \in Nat
      /\ \A i \in 1 .. Len(p) : p[i] \in S
      /\ \A i \in 1 .. Len(q) : q[i] \in S
  BY LenProperties, ElementOfSeq
<1>2. ASSUME NEW a \in Seq(S), NEW b \in Seq(S), Len(a) \in Nat, Len(a) <= Len(b), Len(b) \in Nat,
             \A i \in 1 .. Len(a) : a[i] = b[i] /\ a[i] \in S
      PROVE  IsPrefix(a, b)
  <2> DEFINE x == SubSeq(a, 1, Len(a))
             y == SubSeq(b, 1, Len(a))
  <2>1. \A i \in 1 .. Len(a) : b[i] \in S
    BY <1>2
  <2>2. /\ x \in Seq(S) /\ Len(x) = Len(a) /\ \A i \in 1 .. Len(a) : x[i] = a[i]
        /\ y \in Seq(S) /\ Len(y) = Len(a) /\ \A i \in 1 .. Len(a) : y[i] = b[i]
    BY <1>2, <2>1, SubSeqProperties
  <2> HIDE DEF x, y
  <2>3. x = y
    BY <1>2, <2>2, SeqEqual
  <2> QED
    BY <1>2, <2>3 DEF IsPrefix, x, y
<1>3. CASE Len(p) <= Len(q)
  <2>1. IsPrefix(p, q)
    BY <1>1, <1>2, <1>3
  <2> QED
    BY <2>1 DEF Apart, IsStrictPrefix
<1>4. CASE Len(q) <= Len(p)
  <2>1. \A i \in 1 .. Len(q) : q[i] = p[i] /\ q[i] \in S
    BY <1>1, <1>4
  <2>2. IsPrefix(q, p)
    BY <1>1, <1>2, <1>4, <2>1
  <2> QED
    BY <2>2 DEF Apart, IsStrictPrefix
<1> QED
  BY <1>1, <1>3, <1>4

\* So what follows them tells nothing of where they end.
LEMMA CommonStart ==
  ASSUME NEW S, NEW p \in Seq(S), NEW q \in Seq(S), NEW r \in Seq(S), NEW s \in Seq(S),
         Apart(p, q), p \o r = q \o s
  PROVE  p = q /\ r = s
<1>1. Len(p) \in Nat /\ Len(q) \in Nat /\ Len(r) \in Nat /\ Len(s) \in Nat
  BY LenProperties
<1>2. /\ \A i \in 1 .. Len(p) : (p \o r)[i] = p[i]
      /\ \A i \in 1 .. Len(q) : (q \o s)[i] = q[i]
  BY <1>1, ConcatProperties
<1>3. p = q
  <2>1. \A i \in 1 .. Len(p) : i <= Len(q) => p[i] = q[i]
    BY <1>1, <1>2
  <2> QED
    BY <2>1, NeitherGoesOn
<1> QED
  BY <1>3, ConcatSimplifications

\* Sequences of which none is empty and none goes on where another ends are told from their
\* concatenation: those of one are, from first to last, those of the other.
LEMMA PrefixCode ==
  ASSUME NEW S, NEW seqs \in Seq(Seq(S)), NEW others \in Seq(Seq(S)),
         \A i \in DOMAIN seqs : seqs[i] # <<>>,
         \A i \in DOMAIN seqs, j \in DOMAIN others : Apart(seqs[i], others[j]),
         FlattenSeq(seqs) = FlattenSeq(others)
  PROVE  ToSet(seqs) \subseteq ToSet(others)
<1> DEFINE len == Len(seqs)
           bound == Len(others)
           all == FlattenSeq(seqs)
<1>1. /\ len \in Nat /\ DOMAIN seqs = 1 .. len /\ \A i \in 1 .. len : seqs[i] \in Seq(S)
      /\ bound \in Nat /\ DOMAIN others = 1 .. bound /\ \A i \in 1 .. bound : others[i] \in Seq(S)
  BY LenProperties, ElementOfSeq
<1>2. PICK parts \in [0 .. len -> Seq(S)] :
        /\ parts[0] = <<>>
        /\ \A i \in 1 .. len : parts[i] = parts[i - 1] \o seqs[i]
        /\ \A i \in 0 .. len : parts[i] = FlattenSeq(SubSeq(seqs, 1, i))
  BY FlattenParts
<1>3. PICK pieces \in [0 .. bound -> Seq(S)] :
        /\ pieces[0] = <<>>
        /\ \A i \in 1 .. bound : pieces[i] = pieces[i - 1] \o others[i]
        /\ \A i \in 0 .. bound : pieces[i] = FlattenSeq(SubSeq(others, 1, i))
  BY FlattenParts
<1>4. /\ \A n \in 0 .. len :
           Len(parts[n]) <= Len(all) /\ \A i \in 1 .. Len(parts[n]) : parts[n][i] = all[i]
      /\ \A n \in 0 .. bound :
           Len(pieces[n]) <= Len(all) /\ \A i \in 1 .. Len(pieces[n]) : pieces[n][i] = all[i]
  BY <1>2, <1>3, FlattenPrefix
<1>5. pieces[bound] = all
  <2>1. bound \in 0 .. bound
    BY <1>1
  <2> QED
    BY <1>3, <2>1, SubSeqFull
<1> HIDE DEF len, bound, all
<1> DEFINE Same(k) == /\ k <= bound /\ parts[k] = pieces[k]
                      /\ k # 0 => seqs[k] = others[k]
           P == {k \in Nat : k <= len => Same(k)}
<1>6. P = Nat
  <2>1. 0 \in P
    BY <1>1, <1>2, <1>3
  <2>2. ASSUME NEW k \in P PROVE k + 1 \in P
    <3> SUFFICES ASSUME k + 1 <= len PROVE Same(k + 1)
      OBVIOUS
    <3> DEFINE u == parts[k]
               s == seqs[k + 1]
               t == others[k + 1]
    <3>1. k \in Nat /\ k \in 0 .. len /\ k + 1 \in 1 .. len /\ k + 1 \in 0 .. len /\ (k + 1) - 1 = k
      BY <1>1
    <3>2. Same(k)
      BY <1>1, <3>1
    <3>3. u \in Seq(S) /\ s \in Seq(S) /\ parts[k + 1] = u \o s /\ s # <<>>
      BY <1>1, <1>2, <3>1
    <3> HIDE DEF u, s
    <3>4. /\ Len(u) \in Nat /\ Len(s) \in Nat /\ Len(s) # 0
          /\ Len(u \o s) = Len(u) + Len(s)
          /\ \A i \in 1 .. Len(s) : (u \o s)[Len(u) + i] = s[i]
      BY <3>3, LenProperties, ConcatProperties, EmptySeq
    <3>5. \A i \in 1 .. Len(s) : s[i] = all[Len(u) + i]
      <4>1. \A i \in 1 .. Len(u \o s) : (u \o s)[i] = all[i]
        BY <1>4, <3>1, <3>3
      <4> QED
        BY <3>4, <4>1
    <3>6. k + 1 <= bound
      <4>1. Len(u) + Len(s) <= Len(all)
        BY <1>4, <3>1, <3>3, <3>4
      <4>2. ASSUME k = bound PROVE FALSE
        BY <1>5, <3>2, <3>4, <4>1, <4>2 DEF u
      <4> QED
        BY <1>1, <3>1, <3>2, <4>2
    <3>7. k + 1 \in 1 .. bound /\ k + 1 \in 0 .. bound
      BY <1>1, <3>1, <3>6
    <3>8. t \in Seq(S) /\ pieces[k + 1] = u \o t
      <4>1. pieces[k + 1] = pieces[(k + 1) - 1] \o t
        BY <1>3, <3>7
      <4> QED
        BY <1>1, <3>1, <3>2, <3>7, <4>1 DEF u
    <3> HIDE DEF t
    <3>9. /\ Len(t) \in Nat
          /\ Len(u \o t) = Len(u) + Len(t)
          /\ \A i \in 1 .. Len(t) : (u \o t)[Len(u) + i] = t[i]
      BY <3>3, <3>4, <3>8, LenProperties, ConcatProperties
    <3>10. \A i \in 1 .. Len(t) : t[i] = all[Len(u) + i]
      <4>1. \A i \in 1 .. Len(u \o t) : (u \o t)[i] = all[i]
        BY <1>4, <3>7, <3>8
      <4>2. \A i \in 1 .. Len(t) : Len(u) + i \in 1 .. Len(u \o t)
        BY <3>4, <3>9
      <4> QED
        BY <3>9, <4>1, <4>2
    <3>11. s = t
      <4>1. Apart(s, t)
        BY <1>1, <3>1, <3>7 DEF s, t
      <4>2. \A i \in 1 .. Len(s) : i <= Len(t) => s[i] = t[i]
        BY <3>4, <3>5, <3>9, <3>10
      <4> QED
        BY <3>3, <3>8, <4>1, <4>2, NeitherGoesOn
    <3> QED
      BY <3>3, <3>6, <3>8, <3>11 DEF s, t
  <2>3. P \in SUBSET Nat
    OBVIOUS
  <2> HIDE DEF P
  <2> QED
    BY <2>1, <2>2, <2>3, SetInduction
<1>7. ASSUME NEW k \in 1 .. len PROVE k \in 1 .. bound /\ seqs[k] = others[k]
  <2>1. k \in Nat /\ k # 0 /\ k <= len
    BY <1>1
  <2>2. Same(k)
    BY <1>6, <2>1
  <2> QED
    BY <1>1, <2>1, <2>2
<1> QED
  BY <1>1, <1>7 DEF ToSet

-----------------------------------------------------------------------------
(* Names and samples                                                       *)

\* Sorting neither adds nor drops a name of the alphabet.
LEMMA SortedNames ==
  ASSUME NEW names
  PROVE  /\ Sorted(names) \in Seq(ToSet(Alphabet))
         /\ \A n : n \in ToSet(Sorted(names)) <=> n \in names /\ n \in ToSet(Alphabet)
<1> DEFINE S == ToSet(Alphabet)
           len == Len(Alphabet)
           seqs == [i \in DOMAIN Alphabet |->
                      IF Alphabet[i] \in names THEN <<Alphabet[i]>> ELSE <<>>]
<1>1. len \in Nat /\ DOMAIN Alphabet = 1 .. len /\ DOMAIN seqs = 1 .. len
  BY AlphabetAssumption, LenProperties
<1>2. \A i \in 1 .. len : seqs[i] \in Seq(S)
  <2> TAKE i \in 1 .. len
  <2>1. Alphabet[i] \in S
    BY <1>1 DEF ToSet
  <2> HIDE DEF S
  <2>2. <<Alphabet[i]>> \in Seq(S) /\ <<>> \in Seq(S)
    BY <2>1
  <2> QED
    BY <1>1, <2>2
<1>3. seqs \in Seq(Seq(S))
  <2>1. seqs \in [1 .. len -> Seq(S)]
    <3> HIDE DEF S
    <3> QED
      BY <1>1, <1>2
  <2> HIDE DEF seqs, len
  <2> QED
    BY <1>1, <2>1, SeqDef
<1>4. /\ Sorted(names) \in Seq(S)
      /\ \A x : x \in ToSet(Sorted(names)) <=> \E i \in DOMAIN seqs : x \in ToSet(seqs[i])
  <2>1. Sorted(names) = FlattenSeq(seqs)
    BY DEF Sorted
  <2> HIDE DEF seqs, S
  <2> QED
    BY <1>3, <2>1, FlattenElements
<1>5. \A i \in 1 .. len : \A x : x \in ToSet(seqs[i]) <=> Alphabet[i] \in names /\ x = Alphabet[i]
  BY <1>1 DEF ToSet
<1>6. \A x : x \in S <=> \E i \in 1 .. len : x = Alphabet[i]
  BY <1>1 DEF ToSet
<1> HIDE DEF seqs, S
<1> QED
  BY <1>1, <1>4, <1>5, <1>6 DEF S

\* The samples of a database, a definition and rows.
PossibleSamples(d, m, rows) == {Sample(d, m, c, row) : c \in m.columns, row \in rows}

\* Every row becomes a sequence of them.
LEMMA RowsFlatten ==
  ASSUME NEW d, NEW m, NEW rows, rows \in Seq(ToSet(rows))
  PROVE  [i \in DOMAIN rows |-> RowSamples(d, m, rows[i])]
           \in Seq(Seq(PossibleSamples(d, m, ToSet(rows))))
<1> DEFINE S == PossibleSamples(d, m, ToSet(rows))
           len == Len(rows)
<1>1. len \in Nat /\ DOMAIN rows = 1 .. len
  BY LenProperties
<1>2. ASSUME NEW row \in ToSet(rows) PROVE RowSamples(d, m, row) \in Seq(S)
  <2> DEFINE columns == Sorted({c \in m.columns : Parsed(m, c, row)})
  <2>1. columns \in Seq(ToSet(Alphabet))
    BY SortedNames
  <2>2. \A c \in ToSet(columns) : c \in m.columns
    BY SortedNames
  <2> HIDE DEF columns
  <2>3. Len(columns) \in Nat /\ DOMAIN columns = 1 .. Len(columns)
    BY <2>1, LenProperties
  <2>4. \A i \in 1 .. Len(columns) : columns[i] \in m.columns
    BY <2>2, <2>3 DEF ToSet
  <2>5. \A i \in 1 .. Len(columns) : Sample(d, m, columns[i], row) \in S
    BY <2>4 DEF PossibleSamples
  <2> HIDE DEF S
  <2>6. [i \in DOMAIN columns |-> Sample(d, m, columns[i], row)] \in [1 .. Len(columns) -> S]
    BY <2>3, <2>5
  <2>7. RowSamples(d, m, row) = [i \in DOMAIN columns |-> Sample(d, m, columns[i], row)]
    BY DEF RowSamples, columns
  <2> QED
    BY <2>3, <2>6, <2>7, SeqDef
<1>3. \A i \in 1 .. len : rows[i] \in ToSet(rows)
  BY <1>1 DEF ToSet
<1> HIDE DEF S, len
<1>4. [i \in DOMAIN rows |-> RowSamples(d, m, rows[i])] \in [1 .. len -> Seq(S)]
  BY <1>1, <1>2, <1>3
<1> QED
  BY <1>1, <1>4, SeqDef DEF S

\* A sample is one of the definition, its columns and a row.
LEMMA SamplesOfRows ==
  ASSUME NEW d, NEW m, NEW rows, rows \in Seq(ToSet(rows))
  PROVE  Samples(d, m, rows) \in Seq(PossibleSamples(d, m, ToSet(rows)))
  BY RowsFlatten, FlattenElements DEF Samples

\* Its name is one of those the definition can give.
LEMMA NamesOfSamples ==
  ASSUME NEW d, NEW m, NEW t \in Results[m.request], NEW s \in PossibleSamples(d, m, ToSet(t))
  PROVE  s.name \in PossibleNames(m)
<1>1. PICK c \in m.columns, row \in ToSet(t) : s = Sample(d, m, c, row)
  BY DEF PossibleSamples
<1>2. s.name = SampleName(m, c, row)
  BY <1>1 DEF Sample
<1> QED
  BY <1>2 DEF PossibleNames

\* A result cut short has the first of its samples.
LEMMA SamplesOfFirstRows ==
  ASSUME NEW d, NEW m, NEW rows, rows \in Seq(ToSet(rows)), NEW n \in 0 .. Len(rows)
  PROVE  LET start == Samples(d, m, SubSeq(rows, 1, n))
             all == Samples(d, m, rows)
         IN /\ start \in Seq(PossibleSamples(d, m, ToSet(rows)))
            /\ \A i \in DOMAIN start : i \in DOMAIN all /\ start[i] = all[i]
<1> DEFINE S == PossibleSamples(d, m, ToSet(rows))
           seqs == [i \in DOMAIN rows |-> RowSamples(d, m, rows[i])]
           first == SubSeq(rows, 1, n)
<1>1. seqs \in Seq(Seq(S))
  BY RowsFlatten
<1>2. /\ Len(rows) \in Nat /\ DOMAIN rows = 1 .. Len(rows) /\ n \in Nat /\ n <= Len(rows)
      /\ \A i \in 1 .. n : rows[i] \in ToSet(rows)
  BY LenProperties DEF ToSet
<1>3. /\ first \in Seq(ToSet(rows)) /\ Len(first) = n
      /\ \A i \in 1 .. n : first[i] = rows[i]
  BY <1>2, SubSeqProperties
<1>4. Len(seqs) = Len(rows) /\ \A i \in 1 .. n : seqs[i] = RowSamples(d, m, rows[i])
  BY <1>1, <1>2, LenProperties
<1> HIDE DEF S, first
<1>5. [i \in DOMAIN first |-> RowSamples(d, m, first[i])] = SubSeq(seqs, 1, n)
  <2> DEFINE firsts == [i \in DOMAIN first |-> RowSamples(d, m, first[i])]
  <2>1. DOMAIN first = 1 .. n
    BY <1>3, LenProperties
  <2> HIDE DEF seqs
  <2>2. \A i \in 1 .. n : seqs[i] \in Seq(S)
    BY <1>1, <1>2, <1>4, ElementOfSeq
  <2>3. /\ SubSeq(seqs, 1, n) \in Seq(Seq(S))
        /\ Len(SubSeq(seqs, 1, n)) = n
        /\ \A i \in 1 .. n : SubSeq(seqs, 1, n)[i] = seqs[i]
    BY <1>2, <2>2, SubSeqProperties
  <2>4. \A i \in 1 .. n : firsts[i] = seqs[i]
    BY <1>3, <1>4, <2>1
  <2>5. firsts \in [1 .. n -> Seq(S)]
    BY <2>1, <2>2, <2>4
  <2>6. SubSeq(seqs, 1, n) \in [1 .. n -> Seq(S)]
    BY <2>3, LenProperties
  <2> HIDE DEF firsts
  <2> QED
    BY <2>3, <2>4, <2>5, <2>6 DEF firsts
<1>6. Samples(d, m, first) = FlattenSeq(SubSeq(seqs, 1, n)) /\ Samples(d, m, rows) = FlattenSeq(seqs)
  BY <1>5 DEF Samples
<1> HIDE DEF seqs
<1> DEFINE start == FlattenSeq(SubSeq(seqs, 1, n))
           all == FlattenSeq(seqs)
<1>7. /\ start \in Seq(S) /\ all \in Seq(S)
      /\ Len(start) <= Len(all)
      /\ \A i \in 1 .. Len(start) : start[i] = all[i]
  BY <1>1, <1>2, <1>4, FlattenPrefix, FlattenElements
<1> HIDE DEF start, all
<1>8. \A i \in DOMAIN start : i \in DOMAIN all /\ start[i] = all[i]
  BY <1>7, LenProperties
<1> QED
  BY <1>6, <1>7, <1>8 DEF S, first, start, all

-----------------------------------------------------------------------------
(* Definitions                                                             *)

\* A definition in use has a context and columns that are names.
LEMMA AllDefinitions ==
  ASSUME NEW file \in Customs \cup {<<>>}
  PROVE  /\ Len(Default \o file) \in Nat
         /\ DOMAIN All(file) = 1 .. Len(Default \o file)
         /\ \A i \in DOMAIN All(file) :
              All(file)[i].context \in Names /\ All(file)[i].columns \subseteq ToSet(Alphabet)
<1> DEFINE both == Default \o file
<1>1. file \in Seq(Definitions) /\ Default \in Seq(Definitions)
  BY DefinitionsAssumption, EmptySeq
<1>2. both \in Seq(Definitions)
  BY <1>1, ConcatProperties
<1> HIDE DEF both
<1>3. Len(both) \in Nat /\ DOMAIN both = 1 .. Len(both) /\ \A i \in DOMAIN both : both[i] \in Definitions
  BY <1>2, LenProperties, ElementOfSeq
<1>4. All(file) = [i \in DOMAIN both |-> Normalized(both[i])]
  BY DEF All, both
<1> QED
  BY <1>3, <1>4, DefinitionsAssumption DEF both

\* The definition that is merged is the last of those with its identifier.
LEMMA MergedIsLast ==
  ASSUME NEW file \in Customs \cup {<<>>}
  PROVE  LET all == All(file)
         IN /\ DOMAIN Merged(file) = {ID(all[i]) : i \in DOMAIN all}
            /\ \A id \in DOMAIN Merged(file) :
                 \E j \in DOMAIN all :
                   /\ Merged(file)[id] = all[j]
                   /\ ID(all[j]) = id
                   /\ \A i \in DOMAIN all : ID(all[i]) = id => i <= j
<1> DEFINE all == All(file)
           len == Len(Default \o file)
           Having(id) == {i \in DOMAIN all : ID(all[i]) = id}
<1>1. len \in Nat /\ DOMAIN all = 1 .. len
  BY AllDefinitions
<1>2. Merged(file) = [id \in {ID(all[i]) : i \in DOMAIN all} |-> all[Max(Having(id))]]
  BY DEF Merged
<1> HIDE DEF all, len
<1>3. ASSUME NEW id \in {ID(all[i]) : i \in DOMAIN all}
      PROVE  Max(Having(id)) \in Having(id) /\ \A i \in Having(id) : i <= Max(Having(id))
  <2>1. Having(id) \in SUBSET (1 .. len) /\ Having(id) # {}
    BY <1>1
  <2> HIDE DEF Having
  <2> QED
    BY <1>1, <2>1, LastExists
<1> HIDE DEF Having
<1>4. DOMAIN Merged(file) = {ID(all[i]) : i \in DOMAIN all}
  BY <1>2
<1>5. \A id \in DOMAIN Merged(file) : Merged(file)[id] = all[Max(Having(id))]
  BY <1>2
<1>6. ASSUME NEW id \in DOMAIN Merged(file)
      PROVE  \E j \in DOMAIN all :
               /\ Merged(file)[id] = all[j]
               /\ ID(all[j]) = id
               /\ \A i \in DOMAIN all : ID(all[i]) = id => i <= j
  BY <1>3, <1>4, <1>5 DEF Having
<1> QED
  BY <1>4, <1>6 DEF all

\* Where names do not go on where another one ends, an identifier tells a metric from another.
LEMMA IdentifiersTell ==
  ASSUME NEW m, NEW n, Unambiguous(m, n),
         m.context \in Names, m.columns \subseteq ToSet(Alphabet),
         n.context \in Names, n.columns \subseteq ToSet(Alphabet)
  PROVE  ID(m) = ID(n) <=> SameMetric(m, n)
<1> DEFINE Words == DOMAIN LowerWord
           Flat(names) == FlattenSeq(Sorted(names))
<1>1. \A c \in ToSet(Alphabet) : c \in Seq(Words) /\ c # <<>>
  BY AlphabetAssumption, LenProperties, ElementOfSeq DEF ToSet, Names
<1>2. ASSUME NEW names
      PROVE  /\ Sorted(names) \in Seq(Seq(Words))
             /\ Flat(names) \in Seq(Words)
             /\ \A c : c \in ToSet(Sorted(names)) <=> c \in names \cap ToSet(Alphabet)
             /\ \A i \in DOMAIN Sorted(names) : Sorted(names)[i] \in names \cap ToSet(Alphabet)
  <2>1. /\ Sorted(names) \in Seq(ToSet(Alphabet))
        /\ \A c : c \in ToSet(Sorted(names)) <=> c \in names \cap ToSet(Alphabet)
    BY SortedNames
  <2>2. Sorted(names) \in Seq(Seq(Words))
    <3>1. ToSet(Alphabet) \subseteq Seq(Words)
      BY <1>1
    <3> QED
      BY <2>1, <3>1, SeqMonotonic
  <2>3. Flat(names) \in Seq(Words)
    BY <2>2, FlattenElements
  <2>4. \A i \in DOMAIN Sorted(names) : Sorted(names)[i] \in ToSet(Sorted(names))
    BY DEF ToSet
  <2> HIDE DEF Flat
  <2> QED
    BY <2>1, <2>2, <2>3, <2>4
<1>3. SameMetric(m, n) => ID(m) = ID(n)
  BY DEF SameMetric, ID
<1>4. ASSUME ID(m) = ID(n), ~SameMetric(m, n) PROVE FALSE
  <2>1. /\ Apart(m.context, n.context)
        /\ m.context = n.context => \A c \in m.columns, e \in n.columns : Apart(c, e)
    BY <1>4 DEF Unambiguous
  <2>2. m.context \o Flat(m.columns) = n.context \o Flat(n.columns)
    BY <1>4 DEF ID
  <2>3. m.context \in Seq(Words) /\ n.context \in Seq(Words)
    BY DEF Names
  <2>4. m.context = n.context /\ Flat(m.columns) = Flat(n.columns)
    <3> DEFINE p == m.context
               q == n.context
               r == Flat(m.columns)
               s == Flat(n.columns)
    <3>1. r \in Seq(Words) /\ s \in Seq(Words)
      BY <1>2
    <3>2. p \in Seq(Words) /\ q \in Seq(Words) /\ Apart(p, q) /\ p \o r = q \o s
      BY <2>1, <2>2, <2>3
    <3> HIDE DEF p, q, r, s, Words
    <3>3. p = q /\ r = s
      BY <3>1, <3>2, CommonStart
    <3> QED
      BY <3>3 DEF p, q, r, s
  <2>5. ASSUME NEW a, NEW b, a \subseteq ToSet(Alphabet), Flat(a) = Flat(b),
               \A c \in a, e \in b : Apart(c, e)
        PROVE  a \subseteq b
    <3> DEFINE seqs == Sorted(a)
               others == Sorted(b)
    <3>1. \A i \in DOMAIN seqs : seqs[i] # <<>>
      BY <1>1, <1>2
    <3>2. \A i \in DOMAIN seqs, j \in DOMAIN others : Apart(seqs[i], others[j])
      BY <1>2, <2>5
    <3>3. seqs \in Seq(Seq(Words)) /\ others \in Seq(Seq(Words))
      BY <1>2
    <3>4. FlattenSeq(seqs) = FlattenSeq(others)
      BY <2>5
    <3> HIDE DEF seqs, others, Words
    <3>5. ToSet(seqs) \subseteq ToSet(others)
      BY <3>1, <3>2, <3>3, <3>4, PrefixCode
    <3> QED
      BY <1>2, <2>5, <3>5 DEF seqs, others
  <2>6. \A c \in m.columns, e \in n.columns : Apart(c, e) /\ Apart(e, c)
    BY <2>1, <2>4 DEF Apart
  <2> HIDE DEF Flat
  <2>7. m.columns \subseteq n.columns /\ n.columns \subseteq m.columns
    BY <2>4, <2>5, <2>6
  <2> QED
    BY <1>4, <2>4, <2>7 DEF SameMetric
<1> QED
  BY <1>3, <1>4

-----------------------------------------------------------------------------
(* Labels                                                                  *)

\* All databases have the same label names...
LEMMA ConstLabelNames ==
  ASSUME NEW d \in Databases
  PROVE  DOMAIN ConstLabels(d) = {DatabaseLabel} \cup AllOwnLabels
  BY DEF ConstLabels, ConstLabelsOwn, AllOwnLabels, Over

\* ... and each its own name in the database label.
LEMMA DatabaseLabels ==
  ASSUME NEW d \in Databases, DatabaseLabel \notin AllOwnLabels
  PROVE  ConstLabels(d)[DatabaseLabel] = <<d>>
  BY DEF ConstLabels, ConstLabelsOwn, AllOwnLabels, Over

-----------------------------------------------------------------------------
(* The inductive invariant: what is cached and what is sent comes from a   *)
(* query that may have ended half-way, of the definition in use, and no    *)
(* label stands in the place of a database's.                              *)

Queried(d, m) ==
  {<<>>} \cup
  IF Rejected(m) \/ DuplicatedLabels(d, m) THEN {}
  ELSE UNION {{Samples(d, m, SubSeq(t, 1, n)) : n \in 0 .. Len(t)} : t \in Results[m.request]}

\* What makes a scrape panic although the definition is not rejected.
Unusable(m) ==
  \/ ~IsInjective(GetLabels(m))
  \/ NoName \in ToSet(GetLabels(m))
  \/ NoName \in PossibleNames(m)

DefinitionsInv == loaded \in Customs \cup {<<>>} /\ inUse = Merged(loaded)
CacheInv ==
  /\ DOMAIN cache = Databases
  /\ \A d \in Databases :
       /\ DOMAIN cache[d] = DOMAIN inUse
       /\ \A id \in DOMAIN inUse :
            cache[d][id] \in [samples : Queried(d, inUse[id]), scraped : BOOLEAN]
TodoInv == todo \subseteq Databases \X DOMAIN inUse
PageInv ==
  /\ DOMAIN page = Databases \X DOMAIN inUse
  /\ \A d \in Databases : \A id \in DOMAIN inUse : page[<<d, id>>] \in Queried(d, inUse[id])
PanicInv ==
  /\ panicked \in BOOLEAN
  /\ panicked => \E id \in DOMAIN inUse : ~Rejected(inUse[id]) /\ Unusable(inUse[id])

SampleInv == DefinitionsInv /\ CacheInv /\ TodoInv /\ PageInv /\ PanicInv

\* A program that starts has nothing in its caches and on its page.
LEMMA NothingYet ==
  /\ cache = EmptyCache(inUse) => CacheInv
  /\ page = NoSamples(inUse) => PageInv
<1>1. ASSUME cache = EmptyCache(inUse) PROVE CacheInv
  <2>1. \A d \in Databases : \A id \in DOMAIN inUse :
          cache[d][id] = [samples |-> <<>>, scraped |-> FALSE]
    BY <1>1 DEF EmptyCache
  <2>2. \A d \in Databases : \A id \in DOMAIN inUse : <<>> \in Queried(d, inUse[id])
    BY DEF Queried
  <2>3. DOMAIN cache = Databases /\ \A d \in Databases : DOMAIN cache[d] = DOMAIN inUse
    BY <1>1 DEF EmptyCache
  <2>4. \A d \in Databases : \A id \in DOMAIN inUse :
          cache[d][id] \in [samples : Queried(d, inUse[id]), scraped : BOOLEAN]
    <3> TAKE d \in Databases
    <3> TAKE id \in DOMAIN inUse
    <3> DEFINE Q == Queried(d, inUse[id])
               none == <<>>
    <3>1. none \in Q /\ cache[d][id] = [samples |-> none, scraped |-> FALSE]
      BY <2>1, <2>2
    <3> HIDE DEF Q, none
    <3>2. cache[d][id] \in [samples : Q, scraped : BOOLEAN]
      BY <3>1
    <3> QED
      BY <3>2 DEF Q
  <2> QED
    BY <2>3, <2>4 DEF CacheInv
<1>2. ASSUME page = NoSamples(inUse) PROVE PageInv
  <2>1. \A d \in Databases : \A id \in DOMAIN inUse : page[<<d, id>>] = <<>>
    BY <1>2 DEF NoSamples
  <2>2. DOMAIN page = Databases \X DOMAIN inUse
    BY <1>2 DEF NoSamples
  <2> QED
    BY <2>1, <2>2 DEF PageInv, Queried
<1> QED
  BY <1>1, <1>2

\* The invariant holds at the start...
LEMMA InitSampleInv == Init => SampleInv
<1> SUFFICES ASSUME Init PROVE SampleInv
  OBVIOUS
<1>1. DefinitionsInv
  BY DEF Init, DefinitionsInv, AtStartup, Files
<1>2. CacheInv /\ PageInv
  BY NothingYet DEF Init
<1>3. TodoInv /\ PanicInv
  BY DEF Init, TodoInv, PanicInv
<1> QED
  BY <1>1, <1>2, <1>3 DEF SampleInv

\* ... and after every step: of the definitions,
LEMMA LoadingInv ==
  ASSUME SampleInv, Begin \/ Restart
  PROVE  SampleInv'
<1>1. DefinitionsInv'
  <2>1. CASE Begin
    BY <2>1 DEF SampleInv, DefinitionsInv, Begin, Files, definitions
  <2>2. CASE Restart
    BY <2>2 DEF DefinitionsInv, Restart, AtStartup, Files
  <2> QED
    BY <2>1, <2>2
<1>2. page' = NoSamples(inUse')
  BY DEF Begin, Restart
<1>3. PageInv'
  <2>1. (page = NoSamples(inUse) => PageInv)'
    BY NothingYet, PTL
  <2> QED
    BY <1>2, <2>1 DEF NoSamples
<1>4. cache' = EmptyCache(inUse') \/ UNCHANGED <<inUse, cache>>
  BY DEF Begin, Restart, NewCache, definitions
<1>5. CacheInv'
  <2>1. (cache = EmptyCache(inUse) => CacheInv)'
    BY NothingYet, PTL
  <2>2. CASE cache' = EmptyCache(inUse')
    BY <2>1, <2>2 DEF EmptyCache
  <2>3. CASE UNCHANGED <<inUse, cache>>
    BY <2>3 DEF SampleInv, CacheInv
  <2> QED
    BY <1>4, <2>2, <2>3
<1>6. TodoInv'
  BY DEF Begin, Restart, TodoInv
<1>7. PanicInv'
  <2>1. panicked' = FALSE
    BY DEF SampleInv, PanicInv, Begin, Restart
  <2> QED
    BY <2>1 DEF PanicInv
<1> QED
  BY <1>1, <1>3, <1>5, <1>6, <1>7 DEF SampleInv

\* of a metric that is not asked for,
LEMMA SkippingInv ==
  ASSUME SampleInv, NEW d \in Databases, NEW id \in DOMAIN inUse,
         \/ SkipDatabase(d)
         \/ SendAll(d, id)
         \/ Reject(d, id)
         \/ SkipDuplicated(d, id)
  PROVE  SampleInv'
<1>1. UNCHANGED <<loaded, inUse, panicked>>
  BY DEF SkipDatabase, SendAll, Reject, SkipDuplicated, Take, definitions
<1>2. todo' \subseteq todo
  BY DEF SkipDatabase, SendAll, Reject, SkipDuplicated, Take
<1>3. DefinitionsInv' /\ TodoInv' /\ PanicInv'
  BY <1>1, <1>2 DEF SampleInv, DefinitionsInv, TodoInv, PanicInv
<1>4. CacheInv'
  <2>1. CASE cache' = cache
    BY <1>1, <2>1 DEF SampleInv, CacheInv
  <2>2. CASE SkipDuplicated(d, id)
    <3> DEFINE Kept(e, i) == [samples : Queried(e, inUse[i]), scraped : BOOLEAN]
    <3>1. /\ DOMAIN cache = Databases
          /\ \A e \in Databases :
               DOMAIN cache[e] = DOMAIN inUse /\ \A i \in DOMAIN inUse : cache[e][i] \in Kept(e, i)
      BY DEF SampleInv, CacheInv
    <3>2. cache' = [cache EXCEPT ![d][id].scraped = TRUE]
      BY <2>2 DEF SkipDuplicated
    <3>3. [cache[d][id] EXCEPT !.scraped = TRUE] \in Kept(d, id)
      <4> DEFINE Q == Queried(d, inUse[id])
      <4>1. cache[d][id] \in [samples : Q, scraped : BOOLEAN]
        BY <3>1
      <4> HIDE DEF Q
      <4>2. [cache[d][id] EXCEPT !.scraped = TRUE] \in [samples : Q, scraped : BOOLEAN]
        BY <4>1
      <4> QED
        BY <4>2 DEF Q
    <3> HIDE DEF Kept
    <3>4. /\ DOMAIN cache' = Databases
          /\ \A e \in Databases :
               DOMAIN cache'[e] = DOMAIN inUse /\ \A i \in DOMAIN inUse : cache'[e][i] \in Kept(e, i)
      BY <3>1, <3>2, <3>3
    <3> QED
      BY <1>1, <3>4 DEF CacheInv, Kept
  <2> QED
    BY <2>1, <2>2 DEF SkipDatabase, SendAll, Reject
<1>5. PageInv'
  <2>1. CASE page' = page
    BY <1>1, <2>1 DEF SampleInv, PageInv
  <2>2. CASE SendAll(d, id)
    <3> DEFINE Q(e, i) == Queried(e, inUse[i])
    <3>1. DOMAIN page = Databases \X DOMAIN inUse
      BY DEF SampleInv, PageInv
    <3>2. \A e \in Databases : \A i \in DOMAIN inUse : page[<<e, i>>] \in Q(e, i)
      BY DEF SampleInv, PageInv
    <3>3. cache[d][id].samples \in Q(d, id)
      <4>1. cache[d][id] \in [samples : Q(d, id), scraped : BOOLEAN]
        BY DEF SampleInv, CacheInv
      <4> HIDE DEF Q
      <4> QED
        BY <4>1
    <3>4. page' = [page EXCEPT ![<<d, id>>] = cache[d][id].samples]
      BY <2>2 DEF SendAll
    <3> HIDE DEF Q
    <3>5. /\ DOMAIN page' = Databases \X DOMAIN inUse
          /\ \A e \in Databases : \A i \in DOMAIN inUse : page'[<<e, i>>] \in Q(e, i)
      BY <3>1, <3>2, <3>3, <3>4
    <3> QED
      BY <1>1, <3>5 DEF PageInv, Q
  <2> QED
    BY <2>1, <2>2 DEF SkipDatabase, Reject, SkipDuplicated
<1> QED
  BY <1>3, <1>4, <1>5 DEF SampleInv

\* ... and of one that is.
LEMMA ScrapingInv ==
  ASSUME SampleInv, NEW d \in Databases, NEW id \in DOMAIN inUse, ScrapeMetric(d, id)
  PROVE  SampleInv'
<1> DEFINE m == inUse[id]
<1>1. ~Rejected(m) /\ ~DuplicatedLabels(d, m) /\ UNCHANGED <<loaded, inUse>> /\ todo' \subseteq todo
  BY DEF ScrapeMetric, Take, definitions
<1>2. DefinitionsInv' /\ TodoInv'
  BY <1>1 DEF SampleInv, DefinitionsInv, TodoInv
<1>3. PICK t \in Results[m.request] : \E n \in 0 .. Len(t) :
        LET samples == Samples(d, m, SubSeq(t, 1, n))
        IN \/ /\ \E s \in ToSet(samples) : ~ValidDescriptor(d, m, s.name)
              /\ panicked' = TRUE /\ UNCHANGED <<cache, page>>
           \/ \E failure \in BOOLEAN :
                /\ cache' = [cache EXCEPT ![d][id] =
                               [samples |-> Reset(d, id) \o samples,
                                scraped |-> @.scraped \/ ~failure]]
                /\ page' = [page EXCEPT ![<<d, id>>] = samples]
                /\ UNCHANGED panicked
  BY DEF ScrapeMetric
<1>4. PICK n \in 0 .. Len(t) :
        LET samples == Samples(d, m, SubSeq(t, 1, n))
        IN \/ /\ \E s \in ToSet(samples) : ~ValidDescriptor(d, m, s.name)
              /\ panicked' = TRUE /\ UNCHANGED <<cache, page>>
           \/ \E failure \in BOOLEAN :
                /\ cache' = [cache EXCEPT ![d][id] =
                               [samples |-> Reset(d, id) \o samples,
                                scraped |-> @.scraped \/ ~failure]]
                /\ page' = [page EXCEPT ![<<d, id>>] = samples]
                /\ UNCHANGED panicked
  BY <1>3
<1> DEFINE samples == Samples(d, m, SubSeq(t, 1, n))
<1>5. samples \in Seq(PossibleSamples(d, m, ToSet(t)))
  <2>1. m.request \in DOMAIN Results
    BY <1>1 DEF Rejected
  <2>2. t \in Seq(ToSet(t))
    BY <2>1, ResultsAssumption
  <2> HIDE DEF m
  <2> QED
    BY <2>2, SamplesOfFirstRows
<1>6. Reset(d, id) \o samples = samples
  <2> HIDE DEF samples
  <2> QED
    BY <1>5, ConcatEmptySeq DEF Reset
<1>7. samples \in Queried(d, m)
  BY <1>1 DEF Queried
<1>8. CASE /\ \E s \in ToSet(samples) : ~ValidDescriptor(d, m, s.name)
           /\ panicked' = TRUE /\ UNCHANGED <<cache, page>>
  <2>1. Unusable(m)
    <3>1. PICK s \in ToSet(samples) : ~ValidDescriptor(d, m, s.name)
      BY <1>8
    <3> HIDE DEF samples, m
    <3>2. s \in PossibleSamples(d, m, ToSet(t))
      BY <1>5, LenProperties, ElementOfSeq DEF ToSet
    <3>3. s.name \in PossibleNames(m)
      BY <3>2, NamesOfSamples
    <3> QED
      BY <1>1, <3>1, <3>3 DEF ValidDescriptor, DuplicatedLabels, Unusable
  <2>2. PanicInv'
    BY <1>1, <1>8, <2>1 DEF PanicInv
  <2>3. CacheInv' /\ PageInv'
    BY <1>1, <1>8 DEF SampleInv, CacheInv, PageInv
  <2> QED
    BY <1>2, <2>2, <2>3 DEF SampleInv
<1>9. ASSUME NEW failure \in BOOLEAN,
             cache' = [cache EXCEPT ![d][id] =
                         [samples |-> Reset(d, id) \o samples, scraped |-> @.scraped \/ ~failure]],
             page' = [page EXCEPT ![<<d, id>>] = samples],
             UNCHANGED panicked
      PROVE  SampleInv'
  <2> HIDE DEF samples
  <2> DEFINE Q(e, i) == Queried(e, inUse[i])
             Kept(e, i) == [samples : Q(e, i), scraped : BOOLEAN]
  <2>1. /\ DOMAIN cache = Databases
        /\ \A e \in Databases :
             DOMAIN cache[e] = DOMAIN inUse /\ \A i \in DOMAIN inUse : cache[e][i] \in Kept(e, i)
    BY DEF SampleInv, CacheInv
  <2>2. /\ DOMAIN page = Databases \X DOMAIN inUse
        /\ \A e \in Databases : \A i \in DOMAIN inUse : page[<<e, i>>] \in Q(e, i)
    BY DEF SampleInv, PageInv
  <2>3. samples \in Q(d, id)
    BY <1>7
  <2> HIDE DEF Q
  <2> DEFINE scraped == cache[d][id].scraped \/ ~failure
             record == [samples |-> samples, scraped |-> scraped]
  <2>4. record \in Kept(d, id)
    <3>1. scraped \in BOOLEAN
      BY Zenon
    <3> HIDE DEF scraped
    <3> QED
      BY <2>3, <3>1
  <2>5. cache' = [cache EXCEPT ![d][id] = record]
    BY <1>6, <1>9
  <2> HIDE DEF Kept, record
  <2>6. /\ DOMAIN cache' = Databases
        /\ \A e \in Databases :
             DOMAIN cache'[e] = DOMAIN inUse /\ \A i \in DOMAIN inUse : cache'[e][i] \in Kept(e, i)
    BY <2>1, <2>4, <2>5
  <2>7. /\ DOMAIN page' = Databases \X DOMAIN inUse
        /\ \A e \in Databases : \A i \in DOMAIN inUse : page'[<<e, i>>] \in Q(e, i)
    BY <1>9, <2>2, <2>3
  <2>8. CacheInv' /\ PageInv'
    BY <1>1, <2>6, <2>7 DEF CacheInv, PageInv, Kept, Q
  <2>9. PanicInv'
    BY <1>1, <1>9 DEF SampleInv, PanicInv
  <2> QED
    BY <1>2, <2>8, <2>9 DEF SampleInv
<1> QED
  BY <1>4, <1>8, <1>9

\* Every step keeps the invariant.
LEMMA NextSampleInv == SampleInv /\ [Next]_vars => SampleInv'
<1> SUFFICES ASSUME SampleInv, [Next]_vars PROVE SampleInv'
  OBVIOUS
<1>1. CASE Begin \/ Restart
  BY <1>1, LoadingInv
<1>2. ASSUME NEW d \in Databases, SkipDatabase(d) PROVE SampleInv'
  <2>1. todo' # todo /\ todo' = todo \ ({d} \X DOMAIN inUse)
    BY <1>2 DEF SkipDatabase
  <2>2. PICK id \in DOMAIN inUse : TRUE
    BY <2>1
  <2> QED
    BY <1>2, <2>2, SkippingInv
<1>3. ASSUME NEW d \in Databases, NEW id \in DOMAIN inUse,
             SendAll(d, id) \/ Reject(d, id) \/ SkipDuplicated(d, id)
      PROVE  SampleInv'
  BY <1>3, SkippingInv
<1>4. ASSUME NEW d \in Databases, NEW id \in DOMAIN inUse, ScrapeMetric(d, id) PROVE SampleInv'
  BY <1>4, ScrapingInv
<1>5. CASE UNCHANGED vars
  BY <1>5 DEF vars, SampleInv, DefinitionsInv, CacheInv, TodoInv, PageInv, PanicInv
<1> QED
  BY <1>1, <1>2, <1>3, <1>4, <1>5 DEF Next

\* In every state.
LEMMA Invariant == Spec => []SampleInv
  BY InitSampleInv, NextSampleInv, PTL DEF Spec

-----------------------------------------------------------------------------
(* What the invariant promises                                             *)

\* Every metric in use has a record in the cache of every database, from the first scrape on
\* and after every reload.
LEMMA CachesAreComplete == SampleInv => TypeOK
<1> SUFFICES ASSUME SampleInv PROVE TypeOK
  OBVIOUS
<1>1. loaded \in Customs \cup {<<>>} /\ inUse = Merged(loaded)
  BY DEF SampleInv, DefinitionsInv
<1>2. InUse \subseteq ToSet(All(loaded))
  <2>1. \A id \in DOMAIN inUse : \E j \in DOMAIN All(loaded) : inUse[id] = All(loaded)[j]
    BY <1>1, MergedIsLast
  <2> QED
    BY <2>1 DEF InUse, ToSet
<1>3. \A d \in Databases :
        DOMAIN cache[d] = DOMAIN inUse /\ \A id \in DOMAIN inUse : cache[d][id].scraped \in BOOLEAN
  BY DEF SampleInv, CacheInv
<1> QED
  BY <1>1, <1>2, <1>3 DEF TypeOK, SampleInv, CacheInv, TodoInv, PageInv, PanicInv

\* TypeOK in every state.
THEOREM TypeCorrect == Spec => []TypeOK
  BY Invariant, CachesAreComplete, PTL

\* A definition that no other one is mistaken for is in use, or the last one with its context
\* and columns is, and none but that one.
LEMMA LastIsInUse == SampleInv => LastDefinitionInUse
<1> DEFINE all == All(loaded)
<1> SUFFICES ASSUME SampleInv, NEW m \in ToSet(all), \A n \in ToSet(all) : Unambiguous(m, n)
             PROVE  {n \in InUse : SameMetric(n, m)}
                      = {all[Max({j \in DOMAIN all : SameMetric(all[j], m)})]}
  BY DEF LastDefinitionInUse
<1> DEFINE same == {j \in DOMAIN all : SameMetric(all[j], m)}
           last == Max(same)
<1>1. loaded \in Customs \cup {<<>>} /\ inUse = Merged(loaded)
  BY DEF SampleInv, DefinitionsInv
<1>2. Len(Default \o loaded) \in Nat /\ DOMAIN all = 1 .. Len(Default \o loaded)
  BY <1>1, AllDefinitions
<1>3. /\ \E i \in DOMAIN all : m = all[i]
      /\ \A j \in DOMAIN all : all[j] \in ToSet(all)
  BY DEF ToSet
<1>4. \A j \in DOMAIN all : ID(m) = ID(all[j]) <=> SameMetric(m, all[j])
  BY <1>1, <1>3, AllDefinitions, IdentifiersTell
<1>5. /\ DOMAIN inUse = {ID(all[i]) : i \in DOMAIN all}
      /\ \A id \in DOMAIN inUse :
           \E j \in DOMAIN all :
             /\ inUse[id] = all[j] /\ ID(all[j]) = id
             /\ \A i \in DOMAIN all : ID(all[i]) = id => i <= j
  BY <1>1, MergedIsLast
<1> HIDE DEF all
<1>6. \A n : SameMetric(n, m) <=> SameMetric(m, n)
  BY DEF SameMetric
<1>7. last \in same /\ \A j \in same : j <= last
  <2>1. same \subseteq DOMAIN all /\ same # {}
    BY <1>3 DEF SameMetric
  <2> HIDE DEF same
  <2> QED
    BY <1>2, <2>1, LastExists
<1> HIDE DEF last
<1>8. last \in DOMAIN all /\ SameMetric(all[last], m) /\ ID(all[last]) = ID(m)
  BY <1>4, <1>6, <1>7
<1>9. ASSUME NEW id \in DOMAIN inUse, SameMetric(inUse[id], m) \/ id = ID(m)
      PROVE  inUse[id] = all[last]
  <2>1. PICK j \in DOMAIN all :
          /\ inUse[id] = all[j] /\ ID(all[j]) = id
          /\ \A i \in DOMAIN all : ID(all[i]) = id => i <= j
    BY <1>5
  <2>2. SameMetric(all[j], m) /\ id = ID(m)
    BY <1>4, <1>6, <1>9, <2>1
  <2>3. j <= last /\ last <= j
    BY <1>7, <1>8, <2>1, <2>2
  <2>4. j = last
    BY <1>2, <1>8, <2>3
  <2> QED
    BY <2>1, <2>4
<1>10. \A n \in InUse : SameMetric(n, m) => n = all[last]
  BY <1>9 DEF InUse
<1>11. all[last] \in InUse
  <2>1. ID(m) \in DOMAIN inUse
    BY <1>5, <1>8
  <2> QED
    BY <1>9, <2>1 DEF InUse
<1> QED
  BY <1>8, <1>10, <1>11 DEF last, all

\* LastDefinitionInUse in every state: of the definitions of a metric the last one is in use,
\* if no other metric's name goes on where its own ends, as in the default metrics.
THEOREM LastDefinitionWins == Spec => []LastDefinitionInUse
  BY Invariant, LastIsInUse, PTL

\* A sample has the labels of its definition and those of all databases, and the name of
\* its database among them.
LEMMA SampleLabels ==
  ASSUME NEW d \in Databases, NEW m, NEW c, NEW row,
         ~DuplicatedLabels(d, m), DatabaseLabel \notin AllOwnLabels
  PROVE  LET labels == Sample(d, m, c, row).labels
         IN /\ DOMAIN labels = ToSet(GetLabels(m)) \cup {DatabaseLabel} \cup AllOwnLabels
            /\ labels[DatabaseLabel] = <<d>>
<1> DEFINE names == ToSet(GetLabels(m))
           own == [l \in names |-> Value(row, l)]
<1>1. Sample(d, m, c, row).labels = Over(own, ConstLabels(d))
  BY DEF Sample
<1>2. names \cap DOMAIN ConstLabels(d) = {}
  BY DEF DuplicatedLabels
<1>3. DOMAIN ConstLabels(d) = {DatabaseLabel} \cup AllOwnLabels
  BY ConstLabelNames
<1>4. ConstLabels(d)[DatabaseLabel] = <<d>>
  BY DatabaseLabels
<1> HIDE DEF names
<1>5. DOMAIN Over(own, ConstLabels(d)) = names \cup DOMAIN ConstLabels(d)
  BY DEF Over
<1>6. Over(own, ConstLabels(d))[DatabaseLabel] = ConstLabels(d)[DatabaseLabel]
  BY <1>2, <1>3 DEF Over
<1> QED
  BY <1>1, <1>3, <1>4, <1>5, <1>6 DEF names

\* What is on the page for a metric is the beginning of the samples of one result.
LEMMA OnPage ==
  ASSUME SampleInv, NEW d \in Databases, NEW id \in DOMAIN inUse,
         NEW k \in DOMAIN page[<<d, id>>]
  PROVE  LET m == inUse[id]
             samples == page[<<d, id>>]
         IN /\ ~Rejected(m) /\ ~DuplicatedLabels(d, m)
            /\ \E t \in Results[m.request] : \A i \in DOMAIN samples :
                 /\ i \in DOMAIN Samples(d, m, t) /\ samples[i] = Samples(d, m, t)[i]
                 /\ samples[i] \in PossibleSamples(d, m, ToSet(t))
<1> DEFINE m == inUse[id]
           samples == page[<<d, id>>]
<1>1. samples \in Queried(d, m) /\ samples # <<>>
  BY DEF SampleInv, PageInv
<1>2. ~Rejected(m) /\ ~DuplicatedLabels(d, m)
  BY <1>1 DEF Queried
<1>3. PICK t \in Results[m.request] : \E n \in 0 .. Len(t) : samples = Samples(d, m, SubSeq(t, 1, n))
  BY <1>1 DEF Queried
<1>4. PICK n \in 0 .. Len(t) : samples = Samples(d, m, SubSeq(t, 1, n))
  BY <1>3
<1>5. t \in Seq(ToSet(t))
  BY <1>2, ResultsAssumption DEF Rejected
<1> HIDE DEF m, samples
<1> DEFINE S == PossibleSamples(d, m, ToSet(t))
<1>6. samples \in Seq(S) /\ \A i \in DOMAIN samples :
        i \in DOMAIN Samples(d, m, t) /\ samples[i] = Samples(d, m, t)[i]
  BY <1>4, <1>5, SamplesOfFirstRows
<1> HIDE DEF S
<1>7. \A i \in DOMAIN samples : samples[i] \in S
  BY <1>6, LenProperties, ElementOfSeq
<1> QED
  BY <1>2, <1>6, <1>7 DEF m, samples, S

\* What a sample on the page tells of its definition and its database.
LEMMA SampleOnPage ==
  ASSUME SampleInv, WellDefined, NEW d \in Databases, NEW id \in DOMAIN inUse,
         NEW i \in DOMAIN page[<<d, id>>]
  PROVE  LET m == inUse[id]
             s == page[<<d, id>>][i]
         IN /\ ~Rejected(m)
            /\ s.name \in PossibleNames(m)
            /\ DOMAIN s.labels = ToSet(GetLabels(m)) \cup {DatabaseLabel} \cup AllOwnLabels
            /\ s.labels[DatabaseLabel] = <<d>>
<1> DEFINE m == inUse[id]
           s == page[<<d, id>>][i]
<1>1. ~Rejected(m) /\ ~DuplicatedLabels(d, m)
  BY OnPage
<1>2. PICK t \in Results[m.request] : s \in PossibleSamples(d, m, ToSet(t))
  BY OnPage
<1> HIDE DEF m, s
<1>3. PICK c \in m.columns, row \in ToSet(t) : s = Sample(d, m, c, row)
  BY <1>2 DEF PossibleSamples
<1>4. s.name \in PossibleNames(m)
  BY <1>2, NamesOfSamples
<1>5. DatabaseLabel \notin AllOwnLabels
  BY DEF WellDefined
<1>6. /\ DOMAIN s.labels = ToSet(GetLabels(m)) \cup {DatabaseLabel} \cup AllOwnLabels
      /\ s.labels[DatabaseLabel] = <<d>>
  BY <1>1, <1>3, <1>5, SampleLabels
<1> QED
  BY <1>1, <1>4, <1>6 DEF m, s

\* No scrape panics: a definition that names every sample and has no label twice has valid
\* descriptors for every database it is not skipped for.
LEMMA NoPanic == SampleInv /\ WellDefined => ~panicked
  BY DEF SampleInv, PanicInv, Unusable, WellDefined, InUse

\* No sample is on the page twice.
LEMMA NoneTwice == SampleInv /\ WellDefined => Distinct
<1> SUFFICES ASSUME SampleInv, WellDefined,
                    NEW p \in DOMAIN page, NEW q \in DOMAIN page,
                    NEW i \in DOMAIN page[p], NEW j \in DOMAIN page[q], page[p][i] = page[q][j]
             PROVE  p = q /\ i = j
  BY DEF Distinct
<1>1. PICK d \in Databases, id \in DOMAIN inUse : p = <<d, id>>
  BY DEF SampleInv, PageInv
<1>2. PICK e \in Databases, jd \in DOMAIN inUse : q = <<e, jd>>
  BY DEF SampleInv, PageInv
<1> DEFINE m == inUse[id]
           n == inUse[jd]
           s == page[p][i]
<1>3. /\ ~Rejected(m) /\ s.name \in PossibleNames(m) /\ s.labels[DatabaseLabel] = <<d>>
      /\ ~Rejected(n) /\ s.name \in PossibleNames(n) /\ s.labels[DatabaseLabel] = <<e>>
  BY <1>1, <1>2, SampleOnPage
<1>4. m = n
  BY <1>3 DEF WellDefined, InUse
<1>5. id = jd
  <2>1. loaded \in Customs \cup {<<>>} /\ inUse = Merged(loaded)
    BY DEF SampleInv, DefinitionsInv
  <2>2. \A x \in DOMAIN inUse : ID(inUse[x]) = x
    BY <2>1, MergedIsLast
  <2> QED
    BY <1>4, <2>2
<1>6. d = e
  BY <1>3
<1>7. PICK t \in Results[m.request] : \A k \in DOMAIN page[p] :
        k \in DOMAIN Samples(d, m, t) /\ page[p][k] = Samples(d, m, t)[k]
  BY <1>1, OnPage
<1>8. IsInjective(Samples(d, m, t))
  BY <1>3 DEF WellDefined, InUse
<1>9. i = j
  <2> DEFINE f == Samples(d, m, t)
  <2>1. i \in DOMAIN f /\ j \in DOMAIN f /\ f[i] = f[j]
    BY <1>1, <1>2, <1>5, <1>6, <1>7
  <2>2. IsInjective(f)
    BY <1>8
  <2> HIDE DEF f
  <2> QED
    BY <2>1, <2>2 DEF IsInjective
<1> QED
  BY <1>1, <1>2, <1>5, <1>6, <1>9

\* Samples of the same name have the same label names, whichever databases they are of.
LEMMA NamesHaveLabels == SampleInv /\ WellDefined => SameLabels
<1> SUFFICES ASSUME SampleInv, WellDefined,
                    NEW s \in PageSamples, NEW t \in PageSamples, s.name = t.name
             PROVE  DOMAIN s.labels = DOMAIN t.labels
  BY DEF SameLabels
<1> DEFINE Of(x, m) ==
             /\ x.name \in PossibleNames(m)
             /\ DOMAIN x.labels = ToSet(GetLabels(m)) \cup {DatabaseLabel} \cup AllOwnLabels
           Up(x) == x.name = UpName /\ DOMAIN x.labels = {DatabaseLabel} \cup AllOwnLabels
           metrics == {m \in InUse : ~Rejected(m)}
<1>1. ASSUME NEW x \in PageSamples PROVE Up(x) \/ \E m \in metrics : Of(x, m)
  <2>1. CASE \E d \in Databases : x = UpMetric(d)
    BY <2>1, ConstLabelNames DEF UpMetric
  <2>2. CASE \E p \in DOMAIN page : x \in ToSet(page[p])
    <3>1. PICK p \in DOMAIN page : x \in ToSet(page[p])
      BY <2>2
    <3>2. PICK d \in Databases, id \in DOMAIN inUse : p = <<d, id>>
      BY DEF SampleInv, PageInv
    <3>3. PICK i \in DOMAIN page[p] : x = page[p][i]
      BY <3>1 DEF ToSet
    <3>4. ~Rejected(inUse[id]) /\ Of(x, inUse[id])
      BY <3>2, <3>3, SampleOnPage
    <3>5. inUse[id] \in metrics
      BY <3>4 DEF InUse
    <3> QED
      BY <3>4, <3>5
  <2>3. (\E d \in Databases : x = UpMetric(d)) \/ \E p \in DOMAIN page : x \in ToSet(page[p])
    BY DEF PageSamples
  <2> HIDE DEF Up, Of, metrics
  <2> QED
    BY <2>1, <2>2, <2>3
<1>2. /\ \A m \in metrics : UpName \notin PossibleNames(m)
      /\ \A m, n \in metrics : m # n => PossibleNames(m) \cap PossibleNames(n) = {}
  BY DEF WellDefined
<1> HIDE DEF metrics
<1>3. CASE Up(s) /\ Up(t)
  BY <1>3
<1>4. CASE ~(Up(s) /\ Up(t))
  <2>1. PICK m \in metrics : Of(s, m)
    BY <1>1, <1>2, <1>4
  <2>2. PICK n \in metrics : Of(t, n)
    BY <1>1, <1>2, <1>4
  <2>3. m = n
    BY <1>2, <2>1, <2>2
  <2> QED
    BY <2>1, <2>2, <2>3
<1> QED
  BY <1>3, <1>4

\* With definitions that name every sample, and different ones differently, no scrape panics
\* and every page can be gathered, of any databases, files and results, and wherever queries
\* end.
THEOREM PagesAreGathered == Spec => []Gatherable
<1>1. SampleInv => Gatherable
  BY NoPanic, NoneTwice, NamesHaveLabels DEF Gatherable
<1> QED
  BY <1>1, Invariant, PTL
=============================================================================
