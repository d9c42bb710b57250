----------------------------- MODULE SequenceFacts -----------------------------
(* Facts about sequences that no library module states: what FlattenSeq of    *)
(* the community modules computes, by induction over the number of sequences  *)
(* that it concatenates, and where it puts the elements of each. The          *)
(* induction is over sets of numbers, from the well-foundedness of Nat.       *)
EXTENDS Integers, SequencesExt, SequenceTheorems, WellFoundedInduction, TLAPS

(* Every set of natural numbers that is not empty has a least element.        *)
LEMMA NatMin == ASSUME NEW T \in SUBSET Nat, T # {} PROVE \E n \in T : \A m \in T : n <= m
<1> DEFINE R == {ss \in Nat \X Nat : ss[1] < ss[2]}
<1>1. IsWellFoundedOn(R, Nat)
  BY NatLessThanWellFounded DEF OpToRel
<1> HIDE DEF R
<1>2. \E x \in T : \A y \in T : ~ (<<y, x>> \in R)
  BY <1>1, WFMin
<1>3. \A x, y \in T : ~(<<y, x>> \in R) => x <= y
  BY DEF R
<1>4. QED
  BY <1>2, <1>3

(* Which is what Min of the community modules chooses.                       *)
LEMMA MinIsLeast ==
  ASSUME NEW T \in SUBSET Nat, T # {}
  PROVE  Min(T) \in T /\ \A m \in T : Min(T) <= m
BY NatMin DEF Min

(* Induction, on the set of the numbers for which something holds.            *)
LEMMA NatClosed ==
  ASSUME NEW T \in SUBSET Nat, 0 \in T, \A n \in T : n + 1 \in T
  PROVE  T = Nat
<1> SUFFICES ASSUME T # Nat PROVE FALSE
  OBVIOUS
<1>1. PICK n \in Nat \ T : \A m \in Nat \ T : n <= m
  BY NatMin
<1>2. n # 0 /\ n - 1 \in Nat /\ n - 1 \notin Nat \ T
  BY <1>1
<1>3. QED
  BY <1>1, <1>2

--------------------------------------------------------------------------------
(* A sum over a prefix, as a recursive function.                              *)
SumDef(d, n, b) == d = [k \in 0 .. n |-> IF k = 0 THEN 0 ELSE d[k - 1] + b[k]]

(* A sum over the first n elements, as a recursive function, has a value for *)
(* each.                                                                     *)
LEMMA SumExists ==
  ASSUME NEW n \in Nat, NEW b \in [1 .. n -> Int]
  PROVE  \E d : SumDef(d, n, b) /\ d \in [0 .. n -> Int]
<1> DEFINE T == {m \in Nat : m <= n => \E d \in [0 .. m -> Int] : SumDef(d, m, b)}
<1>1. 0 \in T
  <2> DEFINE d == [k \in 0 .. 0 |-> 0]
  <2>1. d \in [0 .. 0 -> Int] /\ SumDef(d, 0, b)
    BY DEF SumDef
  <2>2. QED
    BY <2>1
<1>2. ASSUME NEW m \in T PROVE m + 1 \in T
  <2> SUFFICES ASSUME m + 1 <= n PROVE \E d \in [0 .. m + 1 -> Int] : SumDef(d, m + 1, b)
    OBVIOUS
  <2>1. PICK c \in [0 .. m -> Int] : SumDef(c, m, b)
    OBVIOUS
  <2> DEFINE d == [k \in 0 .. m + 1 |-> IF k = m + 1 THEN c[m] + b[m + 1] ELSE c[k]]
  <2>2. d \in [0 .. m + 1 -> Int]
    BY <2>1
  <2>3. \A k \in 0 .. m : c[k] = IF k = 0 THEN 0 ELSE c[k - 1] + b[k]
    BY <2>1 DEF SumDef
  <2>4. \A k \in 0 .. m + 1 : d[k] = IF k = 0 THEN 0 ELSE d[k - 1] + b[k]
    BY <2>3
  <2>5. SumDef(d, m + 1, b)
    BY <2>2, <2>4 DEF SumDef
  <2>6. QED
    BY <2>2, <2>5
<1> HIDE DEF T
<1>3. T = Nat
  <2>1. T \in SUBSET Nat
    BY DEF T
  <2>2. QED
    BY <1>1, <1>2, <2>1, NatClosed
<1>4. QED
  BY <1>3 DEF T

--------------------------------------------------------------------------------
(* FlattenSeq, as far as the first n sequences.                               *)
FlatDef(f, n, s) == f = [i \in 1 .. n |-> IF i = 1 THEN s[i] ELSE f[i - 1] \o s[i]]

(* FoldSeq's recursive function that concatenates has a value for each       *)
(* prefix,                                                                   *)
LEMMA FlatExists ==
  ASSUME NEW S, NEW s \in Seq(Seq(S)), NEW n \in 0 .. Len(s)
  PROVE  \E f : FlatDef(f, n, s) /\ f \in [1 .. n -> Seq(S)]
<1> DEFINE T == {m \in Nat : m <= n => \E f \in [1 .. m -> Seq(S)] : FlatDef(f, m, s)}
<1>1. 0 \in T
  <2> DEFINE f == [i \in 1 .. 0 |-> <<>>]
  <2>1. f \in [1 .. 0 -> Seq(S)] /\ FlatDef(f, 0, s)
    BY DEF FlatDef
  <2>2. QED
    BY <2>1
<1>2. ASSUME NEW m \in T PROVE m + 1 \in T
  <2> SUFFICES ASSUME m + 1 <= n PROVE \E f \in [1 .. m + 1 -> Seq(S)] : FlatDef(f, m + 1, s)
    OBVIOUS
  <2>1. PICK c \in [1 .. m -> Seq(S)] : FlatDef(c, m, s)
    OBVIOUS
  <2>2. PICK x \in Seq(S) : x = IF m = 0 THEN s[m + 1] ELSE c[m] \o s[m + 1]
    <3>1. s[m + 1] \in Seq(S)
      OBVIOUS
    <3>2. m # 0 => c[m] \in Seq(S)
      BY <2>1
    <3>3. QED
      BY <3>1, <3>2, ConcatProperties
  <2> DEFINE f == [i \in 1 .. m + 1 |-> IF i <= m THEN c[i] ELSE x]
  <2>3. f \in [1 .. m + 1 -> Seq(S)]
    BY <2>1, <2>2
  <2>4. (\A i \in 1 .. m : f[i] = c[i]) /\ f[m + 1] = x /\ DOMAIN f = 1 .. m + 1
    OBVIOUS
  <2> HIDE DEF f
  <2>5. \A i \in 1 .. m + 1 : f[i] = IF i = 1 THEN s[i] ELSE f[i - 1] \o s[i]
    <3> SUFFICES ASSUME NEW i \in 1 .. m + 1
                 PROVE  f[i] = IF i = 1 THEN s[i] ELSE f[i - 1] \o s[i]
      OBVIOUS
    <3>1. CASE i \in 1 .. m
      <4>1. c[i] = IF i = 1 THEN s[i] ELSE c[i - 1] \o s[i]
        BY <2>1, <3>1 DEF FlatDef
      <4>2. f[i] = c[i] /\ (i # 1 => f[i - 1] = c[i - 1])
        BY <2>4, <3>1
      <4>3. QED
        BY <4>1, <4>2
    <3>2. CASE i = m + 1
      <4>1. m # 0 => f[m] = c[m]
        BY <2>4
      <4>2. (i = 1 <=> m = 0) /\ i - 1 = m /\ f[i] = x
        BY <2>4, <3>2
      <4>3. QED
        BY <2>2, <3>2, <4>1, <4>2
    <3>3. QED
      BY <3>1, <3>2
  <2>6. FlatDef(f, m + 1, s)
    BY <2>3, <2>5 DEF FlatDef
  <2>7. QED
    BY <2>3, <2>6
<1> HIDE DEF T
<1>3. T = Nat
  <2>1. T \in SUBSET Nat
    BY DEF T
  <2>2. QED
    BY <1>1, <1>2, <2>1, NatClosed
<1>4. n \in T
  BY <1>3
<1>5. QED
  BY <1>4 DEF T

(* s and t begin with the same n elements.                                    *)
Agree(s, t, n) == \A i \in 1 .. n : s[i] = t[i]

(* the same for every two sequences that agree on the prefix.                *)
LEMMA FlatUnique ==
  ASSUME NEW s, NEW n \in Nat, NEW m \in 0 .. n, NEW t, NEW f, NEW g,
         FlatDef(f, n, s), FlatDef(g, m, t), Agree(s, t, m)
  PROVE  Agree(f, g, m)
<1> DEFINE T == {i \in Nat : i \in 1 .. m => f[i] = g[i]}
<1>1. \A i \in 1 .. n : f[i] = IF i = 1 THEN s[i] ELSE f[i - 1] \o s[i]
  BY DEF FlatDef
<1>2. \A i \in 1 .. m : g[i] = IF i = 1 THEN t[i] ELSE g[i - 1] \o t[i]
  BY DEF FlatDef
<1>3. 0 \in T
  OBVIOUS
<1>4. ASSUME NEW i \in T PROVE i + 1 \in T
  <2> SUFFICES ASSUME i + 1 \in 1 .. m PROVE f[i + 1] = g[i + 1]
    OBVIOUS
  <2>1. CASE i = 0
    BY <2>1, <1>1, <1>2 DEF Agree
  <2>2. CASE i # 0
    <3>1. f[i] = g[i] /\ i + 1 # 1 /\ i + 1 \in 1 .. n /\ (i + 1) - 1 = i
      BY <2>2
    <3>2. f[i + 1] = f[i] \o s[i + 1] /\ g[i + 1] = g[i] \o t[i + 1]
      BY <3>1, <1>1, <1>2
    <3>3. QED
      BY <3>1, <3>2 DEF Agree
  <2>3. QED
    BY <2>1, <2>2
<1> HIDE DEF T
<1>5. T = Nat
  <2>1. T \in SUBSET Nat
    BY DEF T
  <2>2. QED
    BY <1>3, <1>4, <2>1, NatClosed
<1>6. QED
  BY <1>5 DEF T, Agree

(* FlattenSeq is the value of that function.                                 *)
LEMMA FlattenIs ==
  ASSUME NEW S, NEW s \in Seq(Seq(S)), s # <<>>
  PROVE  \E f \in [1 .. Len(s) -> Seq(S)] : FlatDef(f, Len(s), s) /\ FlattenSeq(s) = f[Len(s)]
<1>1. Len(s) \in Nat \ {0}
  BY EmptySeq
<1> DEFINE f == CHOOSE f : f = [i \in 1 .. Len(s) |-> IF i = 1 THEN s[i] ELSE f[i - 1] \o s[i]]
<1>2. FlattenSeq(s) = f[Len(s)]
  BY <1>1 DEF FlattenSeq
<1>3. f = CHOOSE g : FlatDef(g, Len(s), s)
  BY DEF FlatDef
<1> HIDE DEF f
<1>4. PICK g \in [1 .. Len(s) -> Seq(S)] : FlatDef(g, Len(s), s)
  BY <1>1, FlatExists
<1>5. FlatDef(f, Len(s), s)
  BY <1>3, <1>4
<1>6. \A i \in 1 .. Len(s) : f[i] = g[i]
  <2>1. Agree(s, s, Len(s))
    BY DEF Agree
  <2>2. Agree(f, g, Len(s))
    BY <1>1, <1>4, <1>5, <2>1, FlatUnique
  <2>3. QED
    BY <2>2 DEF Agree
<1>7. DOMAIN f = 1 .. Len(s) /\ f = [i \in DOMAIN f |-> f[i]]
  BY <1>5 DEF FlatDef
<1>8. f \in [1 .. Len(s) -> Seq(S)]
  BY <1>4, <1>6, <1>7
<1>9. QED
  BY <1>2, <1>5, <1>8

(* Nothing concatenated is nothing,                                          *)
LEMMA FlattenEmpty == FlattenSeq(<<>>) = <<>>
BY DEF FlattenSeq

(* and what is concatenated of sequences over S is one.                      *)
LEMMA FlattenType ==
  ASSUME NEW S, NEW s \in Seq(Seq(S))
  PROVE  FlattenSeq(s) \in Seq(S)
<1>1. CASE s = <<>>
  BY <1>1, FlattenEmpty, EmptySeq
<1>2. CASE s # <<>>
  <2>1. PICK f \in [1 .. Len(s) -> Seq(S)] : FlattenSeq(s) = f[Len(s)]
    BY <1>2, FlattenIs
  <2>2. Len(s) \in 1 .. Len(s)
    BY <1>2, EmptySeq
  <2>3. QED
    BY <2>1, <2>2
<1>3. QED
  BY <1>1, <1>2

(* A sequence more.                                                           *)
LEMMA FlattenMore ==
  ASSUME NEW S, NEW s \in Seq(Seq(S)), NEW t \in Seq(Seq(S)), Len(t) = Len(s) + 1,
         \A i \in 1 .. Len(s) : t[i] = s[i]
  PROVE  FlattenSeq(t) = FlattenSeq(s) \o t[Len(t)]
<1>1. Len(s) \in Nat /\ t # <<>> /\ t[Len(t)] \in Seq(S)
  BY EmptySeq
<1>2. PICK f \in [1 .. Len(t) -> Seq(S)] : FlatDef(f, Len(t), t) /\ FlattenSeq(t) = f[Len(t)]
  BY <1>1, FlattenIs
<1>3. \A i \in 1 .. Len(t) : f[i] = IF i = 1 THEN t[i] ELSE f[i - 1] \o t[i]
  BY <1>2 DEF FlatDef
<1>4. CASE s = <<>>
  <2>1. Len(t) = 1 /\ FlattenSeq(t) = t[1]
    BY <1>2, <1>3, <1>4
  <2>2. <<>> \o t[1] = t[1]
    BY <1>1, <2>1, ConcatEmptySeq
  <2>3. QED
    BY <1>4, <2>1, <2>2, FlattenEmpty
<1>5. CASE s # <<>>
  <2>1. PICK g \in [1 .. Len(s) -> Seq(S)] : FlatDef(g, Len(s), s) /\ FlattenSeq(s) = g[Len(s)]
    BY <1>5, FlattenIs
  <2>2. Len(s) \in 1 .. Len(s) /\ Len(s) \in 0 .. Len(t)
    BY <1>1, <1>5, EmptySeq
  <2>3. f[Len(s)] = g[Len(s)]
    <3>1. Len(t) \in Nat /\ Agree(t, s, Len(s))
      BY <1>1 DEF Agree
    <3>2. Agree(f, g, Len(s))
      BY <1>2, <2>1, <2>2, <3>1, FlatUnique
    <3>3. QED
      BY <2>2, <3>2 DEF Agree
  <2>4. f[Len(t)] = f[Len(s)] \o t[Len(t)]
    <3>1. Len(t) \in 1 .. Len(t) /\ Len(t) # 1 /\ Len(t) - 1 = Len(s)
      BY <1>1, <2>2
    <3>2. QED
      BY <1>3, <3>1
  <2>5. QED
    BY <1>2, <2>1, <2>3, <2>4
<1>6. QED
  BY <1>4, <1>5

(* The first n sequences.                                                     *)
FirstSeqs(s, n) == [i \in 1 .. n |-> s[i]]

(* The first n elements of a sequence.                                       *)
LEMMA FirstSeqsType ==
  ASSUME NEW S, NEW s \in Seq(S), NEW n \in 0 .. Len(s)
  PROVE  /\ FirstSeqs(s, n) \in Seq(S) /\ Len(FirstSeqs(s, n)) = n
         /\ \A i \in 1 .. n : FirstSeqs(s, n)[i] = s[i]
<1>1. \A i \in 1 .. n : s[i] \in S
  OBVIOUS
<1>2. FirstSeqs(s, n) \in [1 .. n -> S] /\ n \in Nat
  BY <1>1 DEF FirstSeqs
<1>3. QED
  BY <1>2 DEF FirstSeqs

(* one after the other,                                                      *)
LEMMA FlattenNext ==
  ASSUME NEW S, NEW s \in Seq(Seq(S)), NEW n \in 1 .. Len(s)
  PROVE  FlattenSeq(FirstSeqs(s, n)) = FlattenSeq(FirstSeqs(s, n - 1)) \o s[n]
<1> DEFINE a == FirstSeqs(s, n)
           b == FirstSeqs(s, n - 1)
<1>1. n \in 0 .. Len(s) /\ n - 1 \in 0 .. Len(s)
  OBVIOUS
<1>2. a \in Seq(Seq(S)) /\ Len(a) = n /\ \A i \in 1 .. n : a[i] = s[i]
  BY <1>1, FirstSeqsType
<1>3. b \in Seq(Seq(S)) /\ Len(b) = n - 1 /\ \A i \in 1 .. n - 1 : b[i] = s[i]
  BY <1>1, FirstSeqsType
<1> HIDE DEF a, b
<1>4. FlattenSeq(a) = FlattenSeq(b) \o a[Len(a)]
  <2>1. Len(a) = Len(b) + 1 /\ \A i \in 1 .. n - 1 : a[i] = b[i]
    <3>1. Len(a) = Len(b) + 1
      BY <1>1, <1>2, <1>3
    <3>2. ASSUME NEW i \in 1 .. n - 1 PROVE a[i] = b[i]
      <4>1. i \in 1 .. n /\ b[i] = s[i]
        BY <1>1, <1>3
      <4>2. QED
        BY <1>2, <4>1
    <3>3. QED
      BY <3>1, <3>2
  <2>2. QED
    BY <1>1, <1>2, <1>3, <2>1, FlattenMore
<1>5. a[Len(a)] = s[n]
  <2>1. Len(a) = n
    BY <1>2
  <2>2. n \in 1 .. n
    BY <1>1
  <2>3. a[n] = s[n]
    BY <1>2, <2>2
  <2>4. QED
    BY <2>1, <2>3
<1>6. QED
  BY <1>4, <1>5 DEF a, b

(* and the first n of n are all of them.                                     *)
LEMMA FirstSeqsAll ==
  ASSUME NEW S, NEW s \in Seq(S) PROVE FirstSeqs(s, Len(s)) = s
<1>1. s \in [1 .. Len(s) -> S]
  BY LenProperties
<1>2. QED
  BY <1>1 DEF FirstSeqs

(* a is where b begins.                                                       *)
Begins(a, b) == Len(a) <= Len(b) /\ \A i \in 1 .. Len(a) : b[i] = a[i]

(* A concatenation begins with its first part.                               *)
LEMMA BeginsConcat ==
  ASSUME NEW S, NEW a \in Seq(S), NEW b \in Seq(S) PROVE Begins(a, a \o b)
<1>1. Len(a) \in Nat /\ Len(b) \in Nat
  BY LenProperties
<1>2. QED
  BY <1>1, ConcatProperties DEF Begins

(* What begins a beginning begins the whole.                                 *)
LEMMA BeginsTransitive ==
  ASSUME NEW S, NEW a \in Seq(S), NEW b \in Seq(S), NEW c \in Seq(S), Begins(a, b), Begins(b, c)
  PROVE  Begins(a, c)
<1>1. Len(a) \in Nat /\ Len(b) \in Nat /\ Len(c) \in Nat
  BY LenProperties
<1>2. QED
  BY <1>1 DEF Begins

(* Where the elements of the k-th sequence are: behind those before it.       *)
IsBehind(s, k, b) ==
  /\ b \in Nat
  /\ Len(FlattenSeq(FirstSeqs(s, k))) = b + Len(s[k])
  /\ b + Len(s[k]) <= Len(FlattenSeq(s))
  /\ \A j \in 1 .. Len(s[k]) : FlattenSeq(s)[b + j] = s[k][j]

(* Where the elements of sequence k are in the concatenation of all.         *)
LEMMA FlattenIndex ==
  ASSUME NEW S, NEW s \in Seq(Seq(S)), NEW k \in 1 .. Len(s),
         NEW b, b = Len(FlattenSeq(FirstSeqs(s, k - 1)))
  PROVE  IsBehind(s, k, b)
<1> DEFINE F == [n \in 0 .. Len(s) |-> FlattenSeq(FirstSeqs(s, n))]
<1>1. ASSUME NEW n \in 0 .. Len(s) PROVE F[n] \in Seq(S)
  <2>1. FirstSeqs(s, n) \in Seq(Seq(S))
    BY FirstSeqsType
  <2>2. QED
    BY <2>1, FlattenType
<1>2. ASSUME NEW n \in 1 .. Len(s) PROVE F[n] = F[n - 1] \o s[n]
  <2>1. n - 1 \in 0 .. Len(s) /\ n \in 0 .. Len(s)
    OBVIOUS
  <2>2. QED
    BY <2>1, FlattenNext
<1>3. F[Len(s)] = FlattenSeq(s)
  <2>1. Len(s) \in 0 .. Len(s)
    OBVIOUS
  <2>2. QED
    BY <2>1, FirstSeqsAll
<1>4. b = Len(F[k - 1]) /\ F[k] = FlattenSeq(FirstSeqs(s, k))
  OBVIOUS
<1> HIDE DEF F
<1>5. s[k] \in Seq(S) /\ F[k - 1] \in Seq(S) /\ F[k] \in Seq(S) /\ F[k] = F[k - 1] \o s[k]
  <2>1. k - 1 \in 0 .. Len(s) /\ k \in 0 .. Len(s) /\ s[k] \in Seq(S)
    OBVIOUS
  <2>2. QED
    BY <1>1, <1>2, <2>1
<1>6. Len(s[k]) \in Nat /\ b \in Nat
  BY <1>4, <1>5, LenProperties
<1>7. Len(F[k]) = b + Len(s[k]) /\ \A j \in 1 .. Len(s[k]) : F[k][b + j] = s[k][j]
  <2> DEFINE e == s[k]
             a == F[k - 1]
             f == F[k]
  <2>1. e \in Seq(S) /\ a \in Seq(S) /\ f = a \o e /\ b = Len(a)
    BY <1>4, <1>5
  <2> HIDE DEF e, a, f
  <2>2. Len(e) \in Nat /\ Len(a) \in Nat
    BY <2>1, LenProperties
  <2>3. Len(f) = b + Len(e) /\ \A i \in 1 .. b + Len(e) : f[i] = IF i <= b THEN a[i] ELSE e[i - b]
    <3>1. /\ Len(a \o e) = Len(a) + Len(e)
          /\ \A i \in 1 .. Len(a) + Len(e) : (a \o e)[i] = IF i <= Len(a) THEN a[i] ELSE e[i - Len(a)]
      BY <2>1, ConcatProperties
    <3>2. QED
      BY <2>1, <3>1
  <2>4. ASSUME NEW j \in 1 .. Len(e) PROVE f[b + j] = e[j]
    <3>1. b + j \in 1 .. b + Len(e) /\ ~(b + j <= b) /\ (b + j) - b = j
      BY <2>1, <2>2
    <3>2. QED
      BY <2>3, <3>1
  <2>5. QED
    BY <2>3, <2>4 DEF e, f
<1> DEFINE T == {n \in Nat : n \in k .. Len(s) => Begins(F[k], F[n])}
<1>8. 0 \in T
  OBVIOUS
<1>9. ASSUME NEW n \in T PROVE n + 1 \in T
  <2> SUFFICES ASSUME n + 1 \in k .. Len(s) PROVE Begins(F[k], F[n + 1])
    OBVIOUS
  <2>1. CASE n + 1 = k
    <3>1. F[n + 1] = F[k] /\ Len(F[k]) \in Nat
      BY <2>1, <1>5, LenProperties
    <3>2. Begins(F[k], F[k])
      BY <3>1 DEF Begins
    <3>3. QED
      BY <3>1, <3>2
  <2>2. CASE n + 1 # k
    <3>1. n \in k .. Len(s) /\ n \in 0 .. Len(s) /\ n + 1 \in 1 .. Len(s) /\ (n + 1) - 1 = n
          /\ n + 1 \in 0 .. Len(s) /\ s[n + 1] \in Seq(S)
      BY <2>2
    <3>2. Begins(F[k], F[n])
      BY <3>1
    <3>3. F[n] \in Seq(S) /\ F[n + 1] \in Seq(S) /\ F[n + 1] = F[n] \o s[n + 1]
      <4>1. F[n + 1] = F[(n + 1) - 1] \o s[n + 1]
        BY <3>1, <1>2
      <4>2. QED
        BY <3>1, <4>1, <1>1
    <3>4. Begins(F[n], F[n + 1])
      BY <3>1, <3>3, BeginsConcat
    <3>5. QED
      BY <1>5, <3>2, <3>3, <3>4, BeginsTransitive
  <2>3. QED
    BY <2>1, <2>2
<1> HIDE DEF T
<1>10. T = Nat
  <2>1. T \in SUBSET Nat
    BY DEF T
  <2>2. QED
    BY <1>8, <1>9, <2>1, NatClosed
<1>11. Begins(F[k], FlattenSeq(s))
  <2>1. Len(s) \in T /\ Len(s) \in k .. Len(s)
    BY <1>10
  <2>2. QED
    BY <1>3, <2>1 DEF T
<1>12. \A j \in 1 .. Len(s[k]) : b + j \in 1 .. Len(F[k])
  BY <1>6, <1>7
<1>13. b + Len(s[k]) <= Len(FlattenSeq(s))
  BY <1>7, <1>11 DEF Begins
<1>14. \A j \in 1 .. Len(s[k]) : FlattenSeq(s)[b + j] = s[k][j]
  <2> SUFFICES ASSUME NEW j \in 1 .. Len(s[k]) PROVE FlattenSeq(s)[b + j] = s[k][j]
    OBVIOUS
  <2>1. FlattenSeq(s)[b + j] = F[k][b + j]
    BY <1>11, <1>12 DEF Begins
  <2>2. QED
    BY <1>7, <2>1
<1>15. QED
  BY <1>4, <1>6, <1>7, <1>13, <1>14 DEF IsBehind

(* A sequence of single elements.                                             *)
LEMMA FlattenSingles ==
  ASSUME NEW S, NEW e \in Seq(S)
  PROVE  FlattenSeq([i \in 1 .. Len(e) |-> <<e[i]>>]) = e
<1> DEFINE w == [i \in 1 .. Len(e) |-> <<e[i]>>]
           F == [n \in 0 .. Len(e) |-> FlattenSeq(FirstSeqs(w, n))]
           T == {n \in Nat : n <= Len(e) => F[n] = SubSeq(e, 1, n)}
<1>1. \A i \in 1 .. Len(e) : e[i] \in S /\ <<e[i]>> \in Seq(S)
  OBVIOUS
<1>2. w \in [1 .. Len(e) -> Seq(S)] /\ Len(e) \in Nat
  BY <1>1
<1>3. w \in Seq(Seq(S)) /\ Len(w) = Len(e) /\ \A i \in 1 .. Len(e) : w[i] = <<e[i]>>
  BY <1>2
<1> HIDE DEF w
<1>4. F[0] = <<>>
  <2>1. FirstSeqs(w, 0) = <<>>
    BY DEF FirstSeqs
  <2>2. QED
    BY <1>2, <2>1, FlattenEmpty
<1>5. ASSUME NEW n \in 1 .. Len(e) PROVE F[n] = F[n - 1] \o w[n]
  <2>1. n - 1 \in 0 .. Len(e) /\ n \in 0 .. Len(e) /\ n \in 1 .. Len(w)
    BY <1>3
  <2>2. QED
    BY <1>3, <2>1, FlattenNext
<1>6. F[Len(e)] = FlattenSeq(w)
  <2>1. Len(e) \in 0 .. Len(e)
    OBVIOUS
  <2>2. QED
    BY <1>3, <2>1, FirstSeqsAll
<1> HIDE DEF F
<1>7. 0 \in T
  <2>1. SubSeq(e, 1, 0) = <<>>
    BY SubSeqEmpty
  <2>2. QED
    BY <1>4, <2>1
<1>8. ASSUME NEW n \in T PROVE n + 1 \in T
  <2> SUFFICES ASSUME n + 1 <= Len(e) PROVE F[n + 1] = SubSeq(e, 1, n + 1)
    OBVIOUS
  <2>1. F[n] = SubSeq(e, 1, n) /\ n + 1 \in 1 .. Len(e) /\ (n + 1) - 1 = n
    BY <1>2
  <2>2. F[n + 1] = SubSeq(e, 1, n) \o <<e[n + 1]>>
    <3>1. F[n + 1] = F[(n + 1) - 1] \o w[n + 1]
      BY <1>5, <2>1
    <3>2. QED
      BY <1>3, <2>1, <3>1
  <2>3. SubSeq(e, 1, n + 1) = SubSeq(e, 1, (n + 1) - 1) \o <<e[n + 1]>>
    <3>1. 1 \in 1 .. Len(e) /\ n + 1 \in 1 .. Len(e)
      BY <2>1
    <3>2. QED
      BY <3>1, SubSeqRecursiveSecond
  <2>4. QED
    BY <2>1, <2>2, <2>3
<1> HIDE DEF T
<1>9. T = Nat
  <2>1. T \in SUBSET Nat
    BY DEF T
  <2>2. QED
    BY <1>7, <1>8, <2>1, NatClosed
<1>10. F[Len(e)] = SubSeq(e, 1, Len(e))
  BY <1>2, <1>9 DEF T
<1>11. QED
  BY <1>6, <1>10, SubSeqFull DEF w
================================================================================
