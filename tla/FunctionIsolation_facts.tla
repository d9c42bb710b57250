------------------------ MODULE FunctionIsolation_facts ------------------------
(* What the operators of FunctionIsolation are, as far as the proofs about it *)
(* need it: tokens and what is left of a line, where the lines of an item are *)
(* in the text, how deep in brackets they end, what an item's first line says *)
(* of it, and what is copied of it. No step is taken here.                    *)
EXTENDS FunctionIsolation, SequenceFacts, FiniteSetTheorems

--------------------------------------------------------------------------------
(* Tokens.                                                                   *)

(* The tokens that the code compares with one another differ.                *)
LEMMA TokensDiffer ==
  /\ LeftCurly # Semicolon /\ LeftCurly # RightCurly /\ LeftCurly # "(" /\ LeftCurly # "end"
  /\ Semicolon # "(" /\ Semicolon # "end"
BY Zenon DEF LeftCurly, RightCurly, Semicolon

(* A token is counted in a line,                                             *)
LEMMA CountType == ASSUME NEW toks \in Seq(STRING), NEW t PROVE Count(toks, t) \in Nat
<1> DEFINE C == {i \in DOMAIN toks : toks[i] = t}
<1>1. DOMAIN toks = 1 .. Len(toks) /\ 1 \in Int /\ Len(toks) \in Int
  BY LenProperties 
<1>2. IsFiniteSet(1 .. Len(toks)) /\ C \in SUBSET (1 .. Len(toks))
  BY <1>1, FS_Interval
<1> HIDE DEF C
<1>3. IsFiniteSet(C)
  BY <1>2, FS_Subset
<1>4. Cardinality(C) \in Nat
  BY <1>3, FS_CardinalityType
<1>5. QED
  BY <1>4 DEF C, Count

(* and checkCurlyBrackets() of a line is a number.                           *)
LEMMA BracketsType == ASSUME NEW toks \in Seq(STRING) PROVE checkCurlyBrackets(toks) \in Int
<1>1. Count(toks, LeftCurly) \in Nat /\ Count(toks, RightCurly) \in Nat
  BY CountType
<1>2. QED
  BY <1>1 DEF checkCurlyBrackets

(* What is left of a line from token m on.                                   *)
LEMMA FromFacts ==
  ASSUME NEW toks \in Seq(STRING), NEW m \in 1 .. Len(toks) + 1
  PROVE  /\ From(toks, m) \in Seq(STRING)
         /\ Len(From(toks, m)) = Len(toks) + 1 - m
         /\ \A i \in 1 .. Len(toks) + 1 - m : From(toks, m)[i] = toks[m + i - 1]
<1>1. m \in Int /\ Len(toks) \in Int /\ \A i \in m .. Len(toks) : toks[i] \in STRING
  BY LenProperties 
<1>2. /\ SubSeq(toks, m, Len(toks)) \in Seq(STRING)
      /\ Len(SubSeq(toks, m, Len(toks))) = IF m <= Len(toks) THEN Len(toks) - m + 1 ELSE 0
      /\ \A i \in 1 .. Len(toks) - m + 1 : SubSeq(toks, m, Len(toks))[i] = toks[m + i - 1]
  BY <1>1, SubSeqProperties
<1>3. Len(toks) + 1 - m = Len(toks) - m + 1
  BY <1>1
<1>4. QED
  BY <1>1, <1>2, <1>3 DEF From

(* From its first token on the whole line is left,                           *)
LEMMA FromAll == ASSUME NEW toks \in Seq(STRING) PROVE From(toks, 1) = toks
BY SubSeqFull DEF From

(* and what is left of what is left is again what is left of the line.       *)
LEMMA FromFrom ==
  ASSUME NEW toks \in Seq(STRING), NEW m \in 1 .. Len(toks) + 1, NEW p \in 1 .. Len(From(toks, m)) + 1
  PROVE  /\ m + p - 1 \in 1 .. Len(toks) + 1
         /\ From(From(toks, m), p) = From(toks, m + p - 1)
<1> DEFINE n == m + p - 1
           s == From(toks, m)
           u == From(s, p)
           v == From(toks, n)
<1>1. Len(toks) \in Nat
  BY LenProperties 
<1>2. s \in Seq(STRING) /\ Len(s) = Len(toks) + 1 - m
      /\ \A i \in 1 .. Len(toks) + 1 - m : s[i] = toks[m + i - 1]
  BY FromFacts
<1> HIDE DEF s
<1>3. n \in 1 .. Len(toks) + 1 /\ p \in 1 .. Len(s) + 1
  BY <1>1, <1>2 DEF s
<1>4. u \in Seq(STRING) /\ Len(u) = Len(s) + 1 - p /\ \A i \in 1 .. Len(s) + 1 - p : u[i] = s[p + i - 1]
  BY <1>2, <1>3, FromFacts
<1> HIDE DEF n
<1>5. v \in Seq(STRING) /\ Len(v) = Len(toks) + 1 - n
      /\ \A i \in 1 .. Len(toks) + 1 - n : v[i] = toks[n + i - 1]
  BY <1>3, FromFacts
<1> HIDE DEF u, v
<1>6. Len(u) = Len(v)
  BY <1>1, <1>2, <1>4, <1>5 DEF n
<1>7. ASSUME NEW i \in 1 .. Len(u) PROVE u[i] = v[i]
  <2> DEFINE j == p + i - 1
  <2>1. j \in 1 .. Len(toks) + 1 - m /\ i \in 1 .. Len(s) + 1 - p /\ i \in 1 .. Len(toks) + 1 - n
        /\ m + j - 1 = n + i - 1
    BY <1>1, <1>2, <1>3, <1>4 DEF n
  <2>2. u[i] = s[j] /\ v[i] = toks[n + i - 1]
    BY <1>4, <1>5, <2>1
  <2> HIDE DEF j
  <2>3. QED
    BY <1>2, <2>1, <2>2
<1>8. u = v
  BY <1>4, <1>5, <1>6, <1>7, SeqEqual 
<1>9. QED
  BY <1>3, <1>8 DEF u, v, s, n

(* What the first of some tokens means.                                       *)
IsFirst(toks, S, i) ==
  i \in 1 .. Len(toks) /\ toks[i] \in S /\ \A q \in 1 .. i - 1 : toks[q] \notin S

None(toks, S) == \A q \in 1 .. Len(toks) : toks[q] \notin S

(* FirstOf() is the first token of S, or says that there is none.            *)
LEMMA FirstOfFacts ==
  ASSUME NEW toks \in Seq(STRING), NEW S
  PROVE  \/ None(toks, S) /\ FirstOf(toks, S) = "end"
         \/ \E i : IsFirst(toks, S, i) /\ FirstOf(toks, S) = toks[i]
<1> DEFINE I == {i \in 1 .. Len(toks) : toks[i] \in S}
<1>1. FirstOf(toks, S) = LET first == IF I # {} THEN Min(I) ELSE 0
                         IN  IF first = 0 THEN "end" ELSE toks[first]
  BY DEF FirstOf, SelectInSeq
<1>2. I \in SUBSET Nat /\ 0 \notin I
  OBVIOUS
<1>3. CASE I = {}
  BY <1>1, <1>3 DEF None
<1>4. CASE I # {}
  <2>1. Min(I) \in I /\ \A q \in I : Min(I) <= q
    BY <1>2, <1>4, MinIsLeast
  <2>2. FirstOf(toks, S) = toks[Min(I)]
    BY <1>1, <1>2, <1>4, <2>1
  <2> DEFINE i == Min(I)
  <2>3. i \in I /\ (\A q \in I : i <= q) /\ FirstOf(toks, S) = toks[i]
    BY <2>1, <2>2
  <2> HIDE DEF i
  <2>4. IsFirst(toks, S, i)
    <3>1. ASSUME NEW q \in 1 .. i - 1, toks[q] \in S PROVE FALSE
      <4>1. q \in I /\ ~(i <= q)
        BY <2>3, <3>1
      <4>2. QED
        BY <2>3, <4>1
    <3>2. QED
      BY <2>3, <3>1 DEF IsFirst
  <2>5. QED
    BY <2>3, <2>4
<1>5. QED
  BY <1>3, <1>4

(* AfterSemicolon() is what is left behind the first ';', or all.            *)
LEMMA SemicolonFacts ==
  ASSUME NEW toks \in Seq(STRING)
  PROVE  \/ None(toks, {Semicolon}) /\ AfterSemicolon(toks) = From(toks, 1)
         \/ \E i : IsFirst(toks, {Semicolon}, i) /\ AfterSemicolon(toks) = From(toks, i + 1)
<1> DEFINE I == {i \in 1 .. Len(toks) : toks[i] = Semicolon}
<1>1. AfterSemicolon(toks) = From(toks, (IF I # {} THEN Min(I) ELSE 0) + 1)
  BY DEF AfterSemicolon, SelectInSeq
<1>2. I \in SUBSET Nat
  OBVIOUS
<1>3. CASE I = {}
  <2>1. 0 + 1 = 1
    OBVIOUS
  <2>2. QED
    BY <1>1, <1>3, <2>1 DEF None
<1>4. CASE I # {}
  <2>1. Min(I) \in I /\ \A q \in I : Min(I) <= q
    BY <1>2, <1>4, MinIsLeast
  <2> DEFINE i == Min(I)
  <2>2. i \in I /\ (\A q \in I : i <= q) /\ AfterSemicolon(toks) = From(toks, i + 1)
    BY <1>1, <1>4, <2>1
  <2> HIDE DEF i
  <2>3. IsFirst(toks, {Semicolon}, i)
    <3>1. ASSUME NEW q \in 1 .. i - 1, toks[q] = Semicolon PROVE FALSE
      <4>1. q \in I /\ ~(i <= q)
        BY <2>2, <3>1
      <4>2. QED
        BY <2>2, <4>1
    <3>2. QED
      BY <2>2, <3>1 DEF IsFirst
  <2>4. QED
    BY <2>2, <2>3
<1>5. QED
  BY <1>3, <1>4

(* The function is not named in an empty line.                               *)
LEMMA NothingNamed == ~Mentions(<<>>)
<1>1. <<>> \in Seq(STRING)
  OBVIOUS
<1>2. Len(<<>>) = 0
  OBVIOUS
<1>3. FirstOf(<<>>, Containing) = "end"
  <2>1. ~\E i : IsFirst(<<>>, Containing, i)
    BY <1>2 DEF IsFirst
  <2>2. QED
    BY <1>1, <2>1, FirstOfFacts
<1>4. QED
  BY <1>3, NamesAssumption DEF Mentions

(* Behind a ';' the line goes on, *)
LEMMA SemicolonIsFrom ==
  ASSUME NEW toks \in Seq(STRING), NEW m \in 1 .. Len(toks) + 1
  PROVE  \E p \in 1 .. Len(toks) + 1 : AfterSemicolon(From(toks, m)) = From(toks, p)
<1> DEFINE s == From(toks, m)
<1>1. s \in Seq(STRING) /\ Len(s) \in Nat
  BY FromFacts, LenProperties 
<1> HIDE DEF s
<1>2. PICK q \in 1 .. Len(s) + 1 : AfterSemicolon(s) = From(s, q)
  <2>1. CASE None(s, {Semicolon}) /\ AfterSemicolon(s) = From(s, 1)
    <3>1. 1 \in 1 .. Len(s) + 1
      BY <1>1
    <3>2. QED
      BY <2>1, <3>1
  <2>2. ASSUME NEW i, IsFirst(s, {Semicolon}, i), AfterSemicolon(s) = From(s, i + 1)
        PROVE  \E q \in 1 .. Len(s) + 1 : AfterSemicolon(s) = From(s, q)
    <3>1. i + 1 \in 1 .. Len(s) + 1
      BY <1>1, <2>2 DEF IsFirst
    <3>2. QED
      BY <2>2, <3>1
  <2>3. QED
    BY <1>1, <2>1, <2>2, SemicolonFacts
<1>3. m + q - 1 \in 1 .. Len(toks) + 1 /\ From(s, q) = From(toks, m + q - 1)
  BY <1>2, FromFrom DEF s
<1>4. QED
  BY <1>2, <1>3 DEF s

(* and where the ';' ends a variable, with another statement.                 *)
LEMMA StatementFollows ==
  ASSUME NEW toks \in Seq(STRING), NEW m \in 1 .. Len(toks) + 1,
         StatementAt(toks, m), determine_type(From(toks, m)) = "SEMICOLON"
  PROVE  \E p \in 1 .. Len(toks) + 1 :
           AfterSemicolon(From(toks, m)) = From(toks, p) /\ StatementAt(toks, p)
<1> DEFINE s == From(toks, m)
<1>1. /\ s \in Seq(STRING) /\ Len(s) = Len(toks) + 1 - m
      /\ \A i \in 1 .. Len(toks) + 1 - m : s[i] = toks[m + i - 1]
  BY FromFacts
<1>2. FirstOf(s, {LeftCurly, Semicolon, "("}) = Semicolon
  BY TokensDiffer DEF determine_type
<1> HIDE DEF s
<1>3. Len(toks) \in Nat /\ Len(s) \in Nat
  BY <1>1, LenProperties 
<1>4. PICK i : IsFirst(s, {LeftCurly, Semicolon, "("}, i) /\ s[i] = Semicolon
  <2> DEFINE Ends == {LeftCurly, Semicolon, "("}
  <2>1. FirstOf(s, Ends) # "end"
    BY <1>2, TokensDiffer
  <2> HIDE DEF Ends
  <2>2. \E i : IsFirst(s, Ends, i) /\ FirstOf(s, Ends) = s[i]
    BY <1>1, <2>1, FirstOfFacts
  <2>3. QED
    BY <1>2, <2>2 DEF Ends
<1>5. PICK j : IsFirst(s, {Semicolon}, j) /\ AfterSemicolon(s) = From(s, j + 1)
  BY <1>1, <1>4, SemicolonFacts DEF IsFirst, None
<1>6. i = j
  <2>1. i \in 1 .. Len(s) /\ j \in 1 .. Len(s) /\ s[j] = Semicolon
    BY <1>4, <1>5 DEF IsFirst
  <2>2. ~(i < j)
    BY <1>3, <1>4, <1>5, <2>1 DEF IsFirst
  <2>3. ~(j < i)
    BY <1>3, <1>4, <1>5, <2>1 DEF IsFirst
  <2>4. QED
    BY <1>3, <2>1, <2>2, <2>3
<1>7. i \in 1 .. Len(s) /\ i + 1 \in 1 .. Len(s) + 1
  BY <1>3, <1>4 DEF IsFirst
<1> DEFINE p == m + i
<1>0. m \in Int /\ i \in Int /\ p = m + i
  BY <1>7
<1>8. p \in 1 .. Len(toks) + 1 /\ From(s, i + 1) = From(toks, p)
  <2>1. m + (i + 1) - 1 = p
    BY <1>7
  <2>2. m + (i + 1) - 1 \in 1 .. Len(toks) + 1 /\ From(s, i + 1) = From(toks, m + (i + 1) - 1)
    BY <1>7, FromFrom DEF s
  <2>3. QED
    BY <2>1, <2>2
<1> HIDE DEF p
<1>9. toks[p - 1] = Semicolon
  <2>1. i \in 1 .. Len(toks) + 1 - m /\ m + i - 1 = p - 1
    BY <1>0, <1>1, <1>3, <1>7
  <2>2. QED
    BY <1>1, <1>4, <2>1
<1>10. ASSUME NEW q \in 1 .. p - 1 PROVE toks[q] \notin {LeftCurly, "("}
  <2>1. CASE q < m
    <3>1. q \in 1 .. m - 1
      BY <1>0, <2>1
    <3>2. QED
      BY <3>1 DEF StatementAt
  <2>2. CASE q >= m
    <3>1. PICK x \in 1 .. i : q = m + x - 1
      <4>1. q - m + 1 \in 1 .. i /\ q = m + (q - m + 1) - 1
        BY <1>0, <1>3, <1>7, <2>2
      <4>2. QED
        BY <4>1
    <3>2. x \in 1 .. Len(toks) + 1 - m /\ (x = i \/ x \in 1 .. i - 1)
      BY <1>1, <1>3, <1>7
    <3>3. toks[q] = s[x]
      BY <1>1, <3>1, <3>2
    <3>4. QED
      BY <1>4, <3>2, <3>3, TokensDiffer DEF IsFirst
  <2>3. QED
    BY <1>0, <2>1, <2>2
<1>11. StatementAt(toks, p)
  BY <1>9, <1>10 DEF StatementAt
<1>12. QED
  BY <1>5, <1>6, <1>8, <1>11 DEF s

--------------------------------------------------------------------------------
(* The lines of items and of the file.                                       *)

(* The lines of item k of the file, and all of them.                          *)
K(k) == Items[file[k]].lines
Parts == [k \in DOMAIN file |-> K(k)]

Inputs ==
  /\ file \in Seq(DOMAIN Items) /\ terminated \in BOOLEAN
  /\ text = FlattenSeq(Parts)

(* The types of a file, of the lines of its items and of its text.           *)
LEMMA PartsType ==
  ASSUME Inputs
  PROVE  /\ Len(file) \in Nat /\ DOMAIN file = 1 .. Len(file)
         /\ Parts \in Seq(Seq(Seq(STRING))) /\ Len(Parts) = Len(file)
         /\ \A k \in DOMAIN file :
              /\ file[k] \in DOMAIN Items
              /\ Parts[k] = K(k) /\ K(k) \in Seq(Seq(STRING)) /\ Len(K(k)) \in Nat \ {0}
              /\ DOMAIN K(k) = 1 .. Len(K(k))
              /\ \A j \in 1 .. Len(K(k)) : K(k)[j] \in Seq(STRING)
         /\ text \in Seq(Seq(STRING)) /\ Len(text) \in Nat
<1>1. Len(file) \in Nat /\ DOMAIN file = 1 .. Len(file)
      /\ \A k \in DOMAIN file : file[k] \in DOMAIN Items
  BY LenProperties DEF Inputs
<1>2. \A k \in DOMAIN file : K(k) \in Seq(Seq(STRING)) \ {<<>>}
  BY <1>1, ItemsAssumption DEF K
<1>3. ASSUME NEW k \in DOMAIN file
      PROVE  /\ K(k) \in Seq(Seq(STRING)) /\ Len(K(k)) \in Nat \ {0}
             /\ DOMAIN K(k) = 1 .. Len(K(k))
             /\ \A j \in 1 .. Len(K(k)) : K(k)[j] \in Seq(STRING)
  <2> DEFINE l == K(k)
  <2>1. l \in Seq(Seq(STRING)) /\ l # <<>>
    BY <1>2
  <2> HIDE DEF l
  <2>2. l \in Seq(Seq(STRING)) /\ Len(l) \in Nat \ {0}
        /\ DOMAIN l = 1 .. Len(l)
    BY <2>1, EmptySeq, LenProperties
  <2>3. \A j \in 1 .. Len(l) : l[j] \in Seq(STRING)
    BY <2>1, LenProperties
  <2>4. QED
    BY <2>2, <2>3 DEF l
<1>4. Parts \in [1 .. Len(file) -> Seq(Seq(STRING))]
  BY <1>1, <1>3 DEF Parts
<1>5. Parts \in Seq(Seq(Seq(STRING))) /\ Len(Parts) = Len(file)
  BY <1>1, <1>4
<1>6. \A k \in DOMAIN file : Parts[k] = K(k)
  BY DEF Parts
<1>7. text \in Seq(Seq(STRING))
  BY <1>5, FlattenType DEF Inputs
<1>8. Len(text) \in Nat
  BY <1>7, LenProperties
<1>9. QED
  BY <1>1, <1>3, <1>5, <1>6, <1>7, <1>8

(* The lines before an item are those of the items before it.                *)
LEMMA BeforeIs ==
  ASSUME Inputs, NEW k \in 1 .. Len(file) + 1
  PROVE  LinesBefore(k) = Len(FlattenSeq(FirstSeqs(Parts, k - 1)))
<1>1. [j \in 1 .. k - 1 |-> Items[file[j]].lines] = FirstSeqs(Parts, k - 1)
  <2>1. Len(file) \in Nat /\ DOMAIN file = 1 .. Len(file)
    BY PartsType
  <2>2. \A j \in 1 .. k - 1 : Parts[j] = Items[file[j]].lines
    BY <2>1 DEF Parts, K
  <2>3. QED
    BY <2>2 DEF FirstSeqs
<1>2. QED
  BY <1>1 DEF LinesBefore

(* Where the lines of an item are in the text.                                *)
LEMMA Places ==
  ASSUME Inputs
  PROVE  /\ LinesBefore(1) = 0 /\ LinesBefore(Len(file) + 1) = Len(text)
         /\ \A k \in DOMAIN file :
              /\ LinesBefore(k) \in Nat /\ LinesBefore(k) + Len(K(k)) <= Len(text)
              /\ LinesBefore(k + 1) = LinesBefore(k) + Len(K(k))
              /\ \A j \in 1 .. Len(K(k)) :
                   LinesBefore(k) + j \in 1 .. Len(text) /\ text[LinesBefore(k) + j] = K(k)[j]
<1>1. /\ Len(file) \in Nat /\ DOMAIN file = 1 .. Len(file) /\ Len(Parts) = Len(file)
      /\ Parts \in Seq(Seq(Seq(STRING))) /\ text = FlattenSeq(Parts) /\ Len(text) \in Nat
  BY PartsType DEF Inputs
<1>2. LinesBefore(1) = 0
  <2>1. 1 \in 1 .. Len(file) + 1 /\ 1 - 1 = 0
    BY <1>1
  <2>2. LinesBefore(1) = Len(FlattenSeq(FirstSeqs(Parts, 0)))
    BY <2>1, BeforeIs
  <2>3. FirstSeqs(Parts, 0) = <<>>
    BY DEF FirstSeqs
  <2>4. QED
    BY <2>2, <2>3, FlattenEmpty
<1>3. LinesBefore(Len(file) + 1) = Len(text)
  <2>1. Len(file) + 1 \in 1 .. Len(file) + 1 /\ (Len(file) + 1) - 1 = Len(Parts)
    BY <1>1
  <2>2. LinesBefore(Len(file) + 1) = Len(FlattenSeq(FirstSeqs(Parts, Len(Parts))))
    BY <2>1, BeforeIs
  <2>3. QED
    BY <1>1, <2>2, FirstSeqsAll
<1>4. ASSUME NEW k \in DOMAIN file
      PROVE  /\ LinesBefore(k) \in Nat /\ LinesBefore(k) + Len(K(k)) <= Len(text)
             /\ LinesBefore(k + 1) = LinesBefore(k) + Len(K(k))
             /\ \A j \in 1 .. Len(K(k)) :
                  LinesBefore(k) + j \in 1 .. Len(text) /\ text[LinesBefore(k) + j] = K(k)[j]
  <2>1. k \in 1 .. Len(Parts) /\ k \in 1 .. Len(file) + 1 /\ k + 1 \in 1 .. Len(file) + 1
        /\ (k + 1) - 1 = k
    BY <1>1
  <2>2. LinesBefore(k) = Len(FlattenSeq(FirstSeqs(Parts, k - 1)))
        /\ LinesBefore(k + 1) = Len(FlattenSeq(FirstSeqs(Parts, k)))
    <3>1. LinesBefore(k + 1) = Len(FlattenSeq(FirstSeqs(Parts, (k + 1) - 1)))
      BY <2>1, BeforeIs
    <3>2. QED
      BY <2>1, <3>1, BeforeIs
  <2>3. Parts[k] = K(k) /\ Len(K(k)) \in Nat
    BY PartsType
  <2> DEFINE b == LinesBefore(k)
  <2>8. b = Len(FlattenSeq(FirstSeqs(Parts, k - 1)))
    BY <2>2
  <2> HIDE DEF b
  <2>4. /\ b \in Nat /\ Len(FlattenSeq(FirstSeqs(Parts, k))) = b + Len(Parts[k])
        /\ b + Len(Parts[k]) <= Len(FlattenSeq(Parts))
        /\ \A j \in 1 .. Len(Parts[k]) : FlattenSeq(Parts)[b + j] = Parts[k][j]
    <3>1. IsBehind(Parts, k, b)
      BY <1>1, <2>1, <2>8, FlattenIndex
    <3>2. QED
      BY <3>1 DEF IsBehind
  <2>5. /\ b \in Nat /\ LinesBefore(k + 1) = b + Len(K(k)) /\ b + Len(K(k)) <= Len(text)
        /\ \A j \in 1 .. Len(K(k)) : text[b + j] = K(k)[j]
    BY <1>1, <2>2, <2>3, <2>4
  <2>6. \A j \in 1 .. Len(K(k)) : b + j \in 1 .. Len(text)
    BY <1>1, <2>3, <2>5
  <2>7. QED
    BY <2>5, <2>6 DEF b
<1>5. QED
  BY <1>2, <1>3, <1>4

(* The item that ends where the text does is the last one.                   *)
LEMMA NothingBehind ==
  ASSUME Inputs, NEW k \in DOMAIN file, LinesBefore(k) + Len(K(k)) = Len(text)
  PROVE  k = Len(file)
<1>1. Len(file) \in Nat /\ DOMAIN file = 1 .. Len(file) /\ Len(text) \in Nat
  BY PartsType
<1>2. SUFFICES ASSUME k + 1 \in DOMAIN file PROVE FALSE
  BY <1>1
<1>3. LinesBefore(k + 1) = Len(text) /\ LinesBefore(k + 1) + Len(K(k + 1)) <= Len(text)
  BY <1>2, Places
<1>4. Len(K(k + 1)) \in Nat \ {0}
  BY <1>2, PartsType
<1>5. QED
  BY <1>1, <1>3, <1>4

(* The net brackets of a line are a number,                                  *)
LEMMA NetType == ASSUME NEW toks \in Seq(STRING) PROVE NetBrackets(toks) \in Int
<1> DEFINE I == {i \in 1 .. Len(toks) : toks[i] \in {"//", "/*"}}
           x == IF I # {} THEN Min(I) ELSE 0
<1>1. x \in 0 .. Len(toks)
  <2>1. I \in SUBSET Nat
    OBVIOUS
  <2>2. I # {} => Min(I) \in I
    BY <2>1, MinIsLeast
  <2>3. QED
    BY <2>2
<1>2. Code(toks) = IF StartsWith(toks, "*") THEN <<>>
                   ELSE IF x = 0 THEN toks ELSE SubSeq(toks, 1, x - 1)
  BY DEF Code, SelectInSeq
<1> HIDE DEF x
<1>3. SubSeq(toks, 1, x - 1) \in Seq(STRING)
  <2>1. 1 \in Int /\ x - 1 \in Int /\ \A i \in 1 .. x - 1 : toks[i] \in STRING
    BY <1>1
  <2>2. QED
    BY <2>1, SubSeqProperties
<1>4. Code(toks) \in Seq(STRING)
  <2>1. <<>> \in Seq(STRING)
    OBVIOUS
  <2>2. QED
    BY <1>2, <1>3, <2>1
<1>5. QED
  BY <1>4, BracketsType DEF NetBrackets

(* and the depth at the end of a line is that before it and its own.         *)
LEMMA DepthInFacts ==
  ASSUME NEW lines \in Seq(Seq(STRING))
  PROVE  /\ DepthIn(lines) \in [0 .. Len(lines) -> Int] /\ DepthIn(lines)[0] = 0
         /\ \A n \in 1 .. Len(lines) :
              DepthIn(lines)[n] = DepthIn(lines)[n - 1] + NetBrackets(lines[n])
<1> DEFINE N == Len(lines)
           b == [n \in 1 .. N |-> NetBrackets(lines[n])]
           D == DepthIn(lines)
<1>1. N \in Nat /\ b \in [1 .. N -> Int]
  <2>1. \A n \in 1 .. N : lines[n] \in Seq(STRING)
    BY LenProperties
  <2>2. \A n \in 1 .. N : NetBrackets(lines[n]) \in Int
    BY <2>1, NetType
  <2>3. QED
    BY <2>2, LenProperties
<1>2. D = CHOOSE d : d = [n \in 0 .. N |-> IF n = 0 THEN 0 ELSE d[n - 1] + NetBrackets(lines[n])]
  BY DEF DepthIn
<1>3. \A n \in 1 .. N : b[n] = NetBrackets(lines[n])
  OBVIOUS
<1> HIDE DEF b, D
<1>4. PICK e : SumDef(e, N, b) /\ e \in [0 .. N -> Int]
  BY <1>1, SumExists
<1> DEFINE P(d) == d = [n \in 0 .. N |-> IF n = 0 THEN 0 ELSE d[n - 1] + NetBrackets(lines[n])]
<1>5. P(e)
  <2>1. \A n \in 0 .. N : e[n] = IF n = 0 THEN 0 ELSE e[n - 1] + NetBrackets(lines[n])
    <3> SUFFICES ASSUME NEW n \in 0 .. N
                 PROVE  e[n] = IF n = 0 THEN 0 ELSE e[n - 1] + NetBrackets(lines[n])
      OBVIOUS
    <3>1. e[n] = IF n = 0 THEN 0 ELSE e[n - 1] + b[n]
      BY <1>4 DEF SumDef
    <3>2. n # 0 => n \in 1 .. N
      BY <1>1
    <3>3. QED
      BY <1>3, <3>1, <3>2
  <2>2. QED
    BY <1>4, <2>1
<1>6. D = CHOOSE d : P(d)
  BY <1>2
<1> HIDE DEF P
<1>7. P(D)
  BY <1>5, <1>6
<1>8. \A n \in 0 .. N : D[n] = IF n = 0 THEN 0 ELSE D[n - 1] + NetBrackets(lines[n])
  BY <1>7 DEF P
<1>9. DOMAIN D = 0 .. N /\ D = [n \in 0 .. N |-> D[n]]
  BY <1>7 DEF P
<1> DEFINE T == {n \in Nat : n <= N => D[n] = e[n]}
<1>10. 0 \in T
  BY <1>1, <1>4, <1>8 DEF SumDef
<1>11. ASSUME NEW n \in T PROVE n + 1 \in T
  <2> SUFFICES ASSUME n + 1 <= N PROVE D[n + 1] = e[n + 1]
    OBVIOUS
  <2>1. n + 1 \in 0 .. N /\ n + 1 \in 1 .. N /\ n + 1 # 0 /\ (n + 1) - 1 = n
    BY <1>1
  <2>2. D[n + 1] = D[n] + NetBrackets(lines[n + 1])
    BY <1>8, <2>1
  <2>3. e[n + 1] = e[n] + b[n + 1]
    BY <1>4, <2>1 DEF SumDef
  <2>4. D[n] = e[n]
    BY <1>1, <2>1
  <2>5. QED
    BY <1>3, <2>1, <2>2, <2>3, <2>4
<1> HIDE DEF T
<1>12. T = Nat
  <2>1. T \in SUBSET Nat
    BY DEF T
  <2>2. QED
    BY <1>10, <1>11, <2>1, NatClosed
<1>13. \A n \in 0 .. N : D[n] = e[n]
  BY <1>1, <1>12 DEF T
<1>14. D \in [0 .. N -> Int]
  BY <1>4, <1>9, <1>13
<1>15. \A n \in 1 .. N : D[n] = D[n - 1] + NetBrackets(lines[n])
  BY <1>1, <1>8
<1>16. D[0] = 0
  BY <1>1, <1>8
<1>17. QED
  BY <1>14, <1>15, <1>16 DEF D

--------------------------------------------------------------------------------
(* Depths and kinds of items.                                                *)

(* The same of the whole text.                                               *)
LEMMA DepthFacts ==
  ASSUME Inputs
  PROVE  /\ Depth(0) = 0 /\ \A n \in 0 .. Len(text) : Depth(n) \in Int
         /\ \A n \in 1 .. Len(text) : Depth(n) = Depth(n - 1) + NetBrackets(text[n])
<1>1. text \in Seq(Seq(STRING)) /\ Len(text) \in Nat
  BY PartsType
<1>2. /\ DepthIn(text) \in [0 .. Len(text) -> Int] /\ DepthIn(text)[0] = 0
      /\ \A n \in 1 .. Len(text) :
           DepthIn(text)[n] = DepthIn(text)[n - 1] + NetBrackets(text[n])
  BY <1>1, DepthInFacts
<1>3. QED
  BY <1>1, <1>2 DEF Depth

(* Within an item the depth is that of its own lines, from where it begins,   *)
LEMMA DepthWithin ==
  ASSUME Inputs, NEW k \in DOMAIN file
  PROVE  \A j \in 0 .. Len(K(k)) :
           Depth(LinesBefore(k) + j) = Depth(LinesBefore(k)) + DepthIn(K(k))[j]
<1> DEFINE b == LinesBefore(k)
           l == K(k)
           T == {j \in Nat : j <= Len(l) => Depth(b + j) = Depth(b) + DepthIn(l)[j]}
<1>1. /\ b \in Nat /\ b + Len(l) <= Len(text)
      /\ \A j \in 1 .. Len(l) : b + j \in 1 .. Len(text) /\ text[b + j] = l[j]
  BY Places
<1>2. l \in Seq(Seq(STRING)) /\ Len(l) \in Nat /\ Len(text) \in Nat
  BY PartsType
<1> HIDE DEF b, l
<1>3. /\ DepthIn(l) \in [0 .. Len(l) -> Int] /\ DepthIn(l)[0] = 0
      /\ \A n \in 1 .. Len(l) : DepthIn(l)[n] = DepthIn(l)[n - 1] + NetBrackets(l[n])
  BY <1>2, DepthInFacts
<1>4. \A n \in 0 .. Len(text) : Depth(n) \in Int
  BY DepthFacts
<1>5. 0 \in T
  <2>1. b + 0 = b /\ b \in 0 .. Len(text)
    BY <1>1, <1>2
  <2>2. QED
    BY <1>3, <1>4, <2>1
<1>6. ASSUME NEW j \in T PROVE j + 1 \in T
  <2> SUFFICES ASSUME j + 1 <= Len(l) PROVE Depth(b + (j + 1)) = Depth(b) + DepthIn(l)[j + 1]
    OBVIOUS
  <2>1. /\ j \in Nat /\ j + 1 \in 1 .. Len(l) /\ (j + 1) - 1 = j /\ b + (j + 1) \in 1 .. Len(text)
        /\ (b + (j + 1)) - 1 = b + j /\ j \in 0 .. Len(l) /\ b \in 0 .. Len(text) /\ j <= Len(l)
    BY <1>1, <1>2
  <2>2. Depth(b + j) = Depth(b) + DepthIn(l)[j]
    BY <2>1
  <2>3. Depth(b + (j + 1)) = Depth(b + j) + NetBrackets(l[j + 1])
    <3>1. Depth(b + (j + 1)) = Depth((b + (j + 1)) - 1) + NetBrackets(text[b + (j + 1)])
      BY <2>1, DepthFacts
    <3>2. text[b + (j + 1)] = l[j + 1]
      BY <1>1, <2>1
    <3>3. QED
      BY <2>1, <3>1, <3>2
  <2>4. DepthIn(l)[j + 1] = DepthIn(l)[j] + NetBrackets(l[j + 1])
    BY <1>3, <2>1
  <2>5. Depth(b) \in Int /\ DepthIn(l)[j] \in Int
    BY <1>3, <1>4, <2>1
  <2>6. NetBrackets(l[j + 1]) \in Int
    <3>1. l[j + 1] \in Seq(STRING)
      BY <1>2, <2>1
    <3>2. QED
      BY <3>1, NetType
  <2> HIDE DEF T
  <2>7. QED
    BY <2>2, <2>3, <2>4, <2>5, <2>6
<1> HIDE DEF T
<1>7. T = Nat
  <2>1. T \in SUBSET Nat
    BY DEF T
  <2>2. QED
    BY <1>5, <1>6, <2>1, NatClosed
<1>8. QED
  BY <1>2, <1>7 DEF T, b, l

(* and that is 0 if every item before it closes what it opens.                *)
LEMMA DepthAt ==
  ASSUME Inputs, Regular, NEW k \in DOMAIN file
  PROVE  \A j \in 0 .. Len(K(k)) :
           Depth(LinesBefore(k) + j) = DepthIn(K(k))[j] /\ DepthIn(K(k))[j] \in Int
<1> DEFINE T == {i \in Nat : i \in DOMAIN file => Depth(LinesBefore(i)) = 0}
<1>1. Len(file) \in Nat /\ DOMAIN file = 1 .. Len(file)
  BY PartsType
<1>2. 0 \in T
  BY <1>1
<1>3. ASSUME NEW i \in T PROVE i + 1 \in T
  <2> SUFFICES ASSUME i + 1 \in DOMAIN file PROVE Depth(LinesBefore(i + 1)) = 0
    OBVIOUS
  <2>1. CASE i = 0
    <3>1. i + 1 = 1
      BY <2>1
    <3>2. QED
      BY <3>1, Places, DepthFacts
  <2>2. CASE i # 0
    <3>1. i \in DOMAIN file
      BY <1>1, <2>2
    <3>2. Depth(LinesBefore(i)) = 0
      BY <3>1
    <3>3. DepthIn(K(i))[Len(K(i))] = 0
      BY <3>1 DEF Regular, FollowedItems, Followed, K
    <3>4. Len(K(i)) \in 0 .. Len(K(i))
      BY <3>1, PartsType
    <3>5. Depth(LinesBefore(i) + Len(K(i))) = Depth(LinesBefore(i)) + DepthIn(K(i))[Len(K(i))]
      BY <3>1, <3>4, DepthWithin
    <3>6. LinesBefore(i + 1) = LinesBefore(i) + Len(K(i))
      BY <3>1, Places
    <3> HIDE DEF T
    <3>7. QED
      BY <3>2, <3>3, <3>5, <3>6
  <2>3. QED
    BY <2>1, <2>2
<1> HIDE DEF T
<1>4. T = Nat
  <2>1. T \in SUBSET Nat
    BY DEF T
  <2>2. QED
    BY <1>2, <1>3, <2>1, NatClosed
<1>5. Depth(LinesBefore(k)) = 0
  BY <1>1, <1>4 DEF T
<1>6. K(k) \in Seq(Seq(STRING))
  BY PartsType
<1>7. ASSUME NEW j \in 0 .. Len(K(k))
      PROVE  Depth(LinesBefore(k) + j) = DepthIn(K(k))[j] /\ DepthIn(K(k))[j] \in Int
  <2>1. DepthIn(K(k))[j] \in Int
    BY <1>6, DepthInFacts
  <2>2. Depth(LinesBefore(k) + j) = Depth(LinesBefore(k)) + DepthIn(K(k))[j]
    BY DepthWithin
  <2>3. QED
    BY <1>5, <2>1, <2>2
<1>8. QED
  BY <1>7

--------------------------------------------------------------------------------
(* What a line at the top level is taken for, by its first token.             *)
Kind(toks) ==
  IF StartsWith(toks, "#define") THEN "define"
  ELSE IF StartsWith(toks, "#include") THEN "include" ELSE Class(toks)

(* What kind of a line each kind of an item begins with,                     *)
LEMMA KindIs ==
  ASSUME NEW lines
  PROVE  /\ IsDefine(lines) => Kind(lines[1]) = "define" /\ ~StartsWith(lines[1], "*")
         /\ IsInclude(lines) => Kind(lines[1]) = "include" /\ ~StartsWith(lines[1], "*")
         /\ IsPassedOver(lines) => Kind(lines[1]) = "next" /\ ~StartsWith(lines[1], "*")
         /\ IsComment(lines) => Kind(lines[1]) = "comment" /\ ~StartsWith(lines[1], "*")
         /\ IsType(lines) => Kind(lines[1]) = "type" /\ ~StartsWith(lines[1], "*")
         /\ Declares(lines[1]) => Kind(lines[1]) = "declare" /\ ~StartsWith(lines[1], "*")
<1> DEFINE l == lines[1]
<1>1. IsDefine(lines) => StartsWith(l, "#define")
  BY DEF IsDefine
<1>2. IsInclude(lines) => StartsWith(l, "#include")
  BY DEF IsInclude
<1>3. IsPassedOver(lines) => Class(l) = "next"
  BY DEF IsPassedOver
<1>4. IsComment(lines) => StartsWith(l, "/*")
  BY DEF IsComment
<1>5. IsType(lines) => Class(l) = "type"
  BY DEF IsType
<1>6. Declares(l) => Class(l) = "declare" /\ ~StartsWith(l, "#define")
                     /\ ~StartsWith(l, "#include") /\ ~StartsWith(l, "*")
  BY DEF Declares
<1> HIDE DEF l
<1>7. Class(l) = "next" => StartsWith(l, "#if") \/ StartsWith(l, "//")
  BY Zenon DEF Class
<1>8. Class(l) = "type" => StartsWith(l, "typedef") \/ StartsWith(l, "enum") \/ StartsWith(l, "struct")
  BY Zenon DEF Class
<1>9. StartsWith(l, "/*") => Class(l) = "comment"
  <2>1. StartsWith(l, "/*") =>
          /\ ~StartsWith(l, "#if") /\ ~StartsWith(l, "//") /\ ~StartsWith(l, "typedef")
          /\ ~StartsWith(l, "enum") /\ ~StartsWith(l, "struct")
    BY DEF StartsWith
  <2>2. QED
    BY <2>1, Zenon DEF Class
<1>10. IsDefine(lines) => Kind(l) = "define" /\ ~StartsWith(l, "*")
  BY <1>1 DEF Kind, StartsWith
<1>11. IsInclude(lines) => Kind(l) = "include" /\ ~StartsWith(l, "*")
  BY <1>2 DEF Kind, StartsWith
<1>12. IsPassedOver(lines) => Kind(l) = "next" /\ ~StartsWith(l, "*")
  BY <1>3, <1>7 DEF Kind, StartsWith
<1>13. IsComment(lines) => Kind(l) = "comment" /\ ~StartsWith(l, "*")
  BY <1>4, <1>9 DEF Kind, StartsWith
<1>14. IsType(lines) => Kind(l) = "type" /\ ~StartsWith(l, "*")
  BY <1>5, <1>8 DEF Kind, StartsWith
<1>15. Declares(l) => Kind(l) = "declare" /\ ~StartsWith(l, "*")
  BY <1>6 DEF Kind
<1>16. QED
  BY <1>10, <1>11, <1>12, <1>13, <1>14, <1>15 DEF l

(* other statements among them,                                              *)
LEMMA OtherDeclares ==
  ASSUME NEW lines \in Seq(Seq(STRING)), Len(lines) \in Nat \ {0}, IsOther(lines)
  PROVE  Declares(lines[1])
<1>1. 1 \in DOMAIN lines /\ 1 - 1 = 0
  BY LenProperties
<1>2. DepthIn(lines)[0] = 0
  BY DepthInFacts
<1>3. DepthIn(lines)[1 - 1] = 0
  BY <1>1, <1>2
<1>4. QED
  BY <1>1, <1>3 DEF IsOther

(* and of which kind an item is from its first line,                         *)
LEMMA FollowedKind ==
  ASSUME NEW lines \in Seq(Seq(STRING)), Len(lines) \in Nat \ {0}, Followed(lines)
  PROVE  /\ ~StartsWith(lines[1], "*")
         /\ Kind(lines[1]) = "define" => IsDefine(lines)
         /\ Kind(lines[1]) = "include" => IsInclude(lines)
         /\ Kind(lines[1]) = "next" => IsPassedOver(lines)
         /\ Kind(lines[1]) = "comment" => IsComment(lines)
         /\ Kind(lines[1]) = "type" => IsType(lines)
         /\ Kind(lines[1]) = "declare" => Declares(lines[1]) /\ (IsOther(lines) \/ IsNamed(lines))
<1>1. IsOther(lines) \/ IsNamed(lines) => Declares(lines[1])
  BY OtherDeclares DEF IsNamed
<1>2. \/ IsDefine(lines) \/ IsInclude(lines) \/ IsPassedOver(lines) \/ IsComment(lines)
      \/ IsType(lines) \/ IsOther(lines) \/ IsNamed(lines)
  BY DEF Followed
<1>3. QED
  BY <1>1, <1>2, KindIs

(* with its role, if it is in the style.                                     *)
LEMMA StyleKind ==
  ASSUME NEW item, item.lines \in Seq(Seq(STRING)), Len(item.lines) \in Nat \ {0}, InStyle(item)
  PROVE  /\ Kind(item.lines[1]) \in {"define", "type"} => item.role = "context"
         /\ Kind(item.lines[1]) = "include" =>
              item.role = "context" /\ ~Has(item.lines[1], "missing")
         /\ Kind(item.lines[1]) \in {"next", "comment"} => item.role = "dropped"
         /\ Kind(item.lines[1]) = "declare" =>
              \/ IsVariable(item.lines) /\ item.role = "variable" /\ ~Has(item.lines[1], "static")
              \/ IsVariable(item.lines) /\ item.role = "dropped" /\ Has(item.lines[1], "static")
              \/ IsOther(item.lines) /\ HasNoVariable(item.lines) /\ item.role \in {"dropped", "other"}
              \/ IsPrototype(item.lines) /\ item.role = "dropped"
              \/ IsDefinition(item.lines) /\ item.role = "target"
<1> DEFINE lines == item.lines
           r == item.role
<1>1. \/ r = "context" /\ (IsDefine(lines) \/ IsType(lines))
      \/ r = "context" /\ IsInclude(lines) /\ ~Has(lines[1], "missing")
      \/ r = "variable" /\ IsVariable(lines) /\ ~Has(lines[1], "static")
      \/ r = "dropped" /\ IsVariable(lines) /\ Has(lines[1], "static")
      \/ r = "dropped" /\ (IsPassedOver(lines) \/ IsComment(lines) \/ IsPrototype(lines))
      \/ r \in {"dropped", "other"} /\ IsOther(lines) /\ HasNoVariable(lines)
      \/ r = "target" /\ IsDefinition(lines)
  BY DEF InStyle
<1>2. IsVariable(lines) \/ IsOther(lines) => Declares(lines[1])
  BY OtherDeclares DEF IsVariable
<1>3. IsPrototype(lines) \/ IsDefinition(lines) => Declares(lines[1])
  BY DEF IsPrototype, IsDefinition, IsNamed
<1> HIDE DEF lines, r
<1>4. QED
  BY <1>1, <1>2, <1>3, KindIs DEF lines, r

(* A header ends in one line.                                                 *)
LEMMA HeaderOnce ==
  ASSUME NEW lines, NEW m, NEW h \in Nat, NEW i \in Nat, h > 0, i > 0,
         HeaderIn(lines, m, h), HeaderIn(lines, m, i)
  PROVE  h = i
<1>1. \A j \in 1 .. h : HeaderEnd(lines, m, j) = "end" <=> j # h
  BY DEF HeaderIn
<1>2. \A j \in 1 .. i : HeaderEnd(lines, m, j) = "end" <=> j # i
  BY DEF HeaderIn
<1>3. QED
  BY <1>1, <1>2

--------------------------------------------------------------------------------
(* What is copied.                                                           *)

(* What may be written, for any file.                                        *)
Entries == [no : Int, as : {"line", "extern"}]

(* What the first k items ask for, and of item k moreover its first j lines.  *)
Copied(k) == FlattenSeq([i \in 1 .. k |-> Wanted(i)])

(* The first j lines of item k, and what is written with them; and there is  *)
(* no function among the first k items.                                      *)
LinesOf(k, j) == [i \in 1 .. j |-> [no |-> LinesBefore(k) + i, as |-> "line"]]

CopiedTo(k, j) == Copied(k - 1) \o LinesOf(k, j)

NoTarget(k) == \A i \in 1 .. k : Items[file[i]].role # "target"

(* What an item asks for is a sequence of lines to write.                    *)
LEMMA WantedType ==
  ASSUME Inputs, NEW k \in DOMAIN file
  PROVE  Wanted(k) \in Seq(Entries)
<1>1. LinesBefore(k) \in Nat
  BY Places
<1>2. DOMAIN Items[file[k]].lines = 1 .. Len(K(k)) /\ Len(K(k)) \in Nat
  BY PartsType DEF K
<1> DEFINE a == IF Items[file[k]].role = "variable" THEN "extern" ELSE "line"
           w == [j \in DOMAIN Items[file[k]].lines |-> [no |-> LinesBefore(k) + j, as |-> a]]
<1>3. a \in {"line", "extern"}
  OBVIOUS
<1>4. Wanted(k) = IF Items[file[k]].role \in {"dropped", "other"} THEN <<>> ELSE w
  BY DEF Wanted
<1> HIDE DEF a
<1>5. \A j \in 1 .. Len(K(k)) : [no |-> LinesBefore(k) + j, as |-> a] \in Entries
  BY <1>1, <1>3 DEF Entries
<1>6. w \in [1 .. Len(K(k)) -> Entries]
  BY <1>2, <1>5
<1>7. w \in Seq(Entries)
  BY <1>2, <1>6
<1>8. <<>> \in Seq(Entries)
  OBVIOUS
<1> HIDE DEF w
<1>9. QED
  BY <1>4, <1>7, <1>8

(* What the items up to k ask for, one item after another.                   *)
LEMMA CopiedFacts ==
  ASSUME Inputs
  PROVE  /\ Copied(0) = <<>>
         /\ \A k \in 0 .. Len(file) : Copied(k) \in Seq(Entries)
         /\ \A k \in DOMAIN file : Copied(k) = Copied(k - 1) \o Wanted(k)
<1>1. Len(file) \in Nat /\ DOMAIN file = 1 .. Len(file)
  BY PartsType
<1> DEFINE W == [k \in 1 .. Len(file) |-> Wanted(k)]
<1>2. W \in [1 .. Len(file) -> Seq(Entries)]
  BY <1>1, WantedType
<1>3. W \in Seq(Seq(Entries)) /\ Len(W) = Len(file)
  BY <1>1, <1>2
<1>4. ASSUME NEW k \in 0 .. Len(file) PROVE Copied(k) = FlattenSeq(FirstSeqs(W, k))
  <2>1. [i \in 1 .. k |-> Wanted(i)] = FirstSeqs(W, k)
    <3>1. \A i \in 1 .. k : i \in 1 .. Len(file)
      BY <1>1
    <3>2. QED
      BY <3>1 DEF FirstSeqs
  <2>2. QED
    BY <2>1 DEF Copied
<1>5. \A k \in DOMAIN file : W[k] = Wanted(k)
  BY <1>1
<1> HIDE DEF W
<1>6. Copied(0) = <<>>
  <2>1. [i \in 1 .. 0 |-> Wanted(i)] = <<>>
    OBVIOUS
  <2>2. QED
    BY <2>1, FlattenEmpty DEF Copied
<1>7. ASSUME NEW k \in 0 .. Len(file) PROVE Copied(k) \in Seq(Entries)
  <2>1. FirstSeqs(W, k) \in Seq(Seq(Entries))
    BY <1>3, FirstSeqsType
  <2>2. QED
    BY <1>4, <2>1, FlattenType
<1>8. ASSUME NEW k \in DOMAIN file PROVE Copied(k) = Copied(k - 1) \o Wanted(k)
  <2>1. k \in 1 .. Len(W) /\ k \in 0 .. Len(file) /\ k - 1 \in 0 .. Len(file)
    BY <1>1, <1>3
  <2>2. FlattenSeq(FirstSeqs(W, k)) = FlattenSeq(FirstSeqs(W, k - 1)) \o W[k]
    BY <1>3, <2>1, FlattenNext
  <2>3. QED
    BY <1>4, <1>5, <2>1, <2>2
<1>9. QED
  BY <1>6, <1>7, <1>8

(* The lines that are copied of an item whole,                               *)
LEMMA LinesOfType ==
  ASSUME Inputs, NEW k \in DOMAIN file, NEW j \in Nat
  PROVE  LinesOf(k, j) \in Seq(Entries) /\ Len(LinesOf(k, j)) = j
<1>1. LinesBefore(k) \in Nat
  BY Places
<1>2. \A i \in 1 .. j : [no |-> LinesBefore(k) + i, as |-> "line"] \in Entries
  BY <1>1 DEF Entries
<1>3. LinesOf(k, j) \in [1 .. j -> Entries]
  BY <1>2 DEF LinesOf
<1>4. QED
  BY <1>3

(* A line more, and the whole item.                                           *)
LEMMA CopiedToFacts ==
  ASSUME Inputs, NEW k \in DOMAIN file
  PROVE  /\ CopiedTo(k, 0) = Copied(k - 1)
         /\ \A j \in 0 .. Len(K(k)) : CopiedTo(k, j) \in Seq(Entries)
         /\ \A j \in 1 .. Len(K(k)) :
              CopiedTo(k, j) =
                CopiedTo(k, j - 1) \o <<[no |-> LinesBefore(k) + j, as |-> "line"]>>
         /\ Items[file[k]].role \in {"context", "target"} => Copied(k) = CopiedTo(k, Len(K(k)))
<1>1. Copied(k - 1) \in Seq(Entries) /\ Copied(k) = Copied(k - 1) \o Wanted(k)
  <2>1. k - 1 \in 0 .. Len(file)
    BY PartsType
  <2>2. QED
    BY <2>1, CopiedFacts
<1>2. LinesBefore(k) \in Nat /\ Len(K(k)) \in Nat
  BY Places, PartsType
<1>3. CopiedTo(k, 0) = Copied(k - 1)
  <2>1. LinesOf(k, 0) = <<>>
    BY DEF LinesOf
  <2>2. QED
    BY <1>1, <2>1, ConcatEmptySeq DEF CopiedTo
<1>4. ASSUME NEW j \in 0 .. Len(K(k)) PROVE CopiedTo(k, j) \in Seq(Entries)
  <2>1. LinesOf(k, j) \in Seq(Entries)
    BY <1>2, LinesOfType
  <2>2. QED
    BY <1>1, <2>1, ConcatProperties DEF CopiedTo
<1>5. ASSUME NEW j \in 1 .. Len(K(k))
      PROVE  CopiedTo(k, j) =
               CopiedTo(k, j - 1) \o <<[no |-> LinesBefore(k) + j, as |-> "line"]>>
  <2> DEFINE e == [no |-> LinesBefore(k) + j, as |-> "line"]
             a == LinesOf(k, j)
             b == LinesOf(k, j - 1)
  <2>1. e \in Entries
    BY <1>2 DEF Entries
  <2>2. a \in Seq(Entries) /\ Len(a) = j /\ b \in Seq(Entries) /\ Len(b) = j - 1
    <3>1. j \in Nat /\ j - 1 \in Nat
      BY <1>2
    <3>2. QED
      BY <3>1, LinesOfType
  <2>3. (\A i \in 1 .. j - 1 : a[i] = b[i]) /\ a[j] = e
    BY <1>2 DEF LinesOf
  <2> HIDE DEF a, b, e
  <2>4. a = b \o <<e>>
    <3>1. Append(b, e) \in Seq(Entries) /\ Len(Append(b, e)) = j
          /\ (\A i \in 1 .. j - 1 : Append(b, e)[i] = b[i]) /\ Append(b, e)[j] = e
      BY <1>2, <2>1, <2>2, AppendProperties
    <3>2. \A i \in 1 .. j : a[i] = Append(b, e)[i]
      BY <1>2, <2>3, <3>1
    <3>3. a = Append(b, e)
      BY <2>2, <3>1, <3>2, SeqEqual
    <3>4. QED
      BY <2>1, <2>2, <3>3, AppendIsConcat
  <2>5. <<e>> \in Seq(Entries)
    BY <2>1
  <2>6. Copied(k - 1) \o (b \o <<e>>) = (Copied(k - 1) \o b) \o <<e>>
    BY <1>1, <2>2, <2>5, ConcatAssociative
  <2>7. Copied(k - 1) \o a = (Copied(k - 1) \o b) \o <<e>>
    BY <2>4, <2>6
  <2>8. QED
    BY <2>7 DEF CopiedTo, a, b, e
<1>6. ASSUME Items[file[k]].role \in {"context", "target"}
      PROVE  Copied(k) = CopiedTo(k, Len(K(k)))
  <2>1. DOMAIN Items[file[k]].lines = 1 .. Len(K(k))
    BY PartsType DEF K
  <2>2. Wanted(k) = LinesOf(k, Len(K(k)))
    BY <1>6, <2>1 DEF Wanted, LinesOf
  <2>3. QED
    BY <1>1, <2>2 DEF CopiedTo
<1>7. QED
  BY <1>3, <1>4, <1>5, <1>6

(* An item whose role says so adds nothing,                                  *)
LEMMA NothingCopied ==
  ASSUME Inputs, NEW k \in DOMAIN file, Items[file[k]].role \in {"dropped", "other"}
  PROVE  Copied(k) = Copied(k - 1)
<1>1. k - 1 \in 0 .. Len(file)
  BY PartsType
<1>2. Copied(k - 1) \in Seq(Entries) /\ Copied(k) = Copied(k - 1) \o Wanted(k)
  BY <1>1, CopiedFacts
<1>3. Wanted(k) = <<>>
  BY DEF Wanted
<1>4. QED
  BY <1>2, <1>3, ConcatEmptySeq

(* a variable its line as an extern,                                         *)
LEMMA VariableCopied ==
  ASSUME Inputs, NEW k \in DOMAIN file, Items[file[k]].role = "variable", Len(K(k)) = 1
  PROVE  Copied(k) = Append(Copied(k - 1), [no |-> LinesBefore(k) + 1, as |-> "extern"])
<1>1. k - 1 \in 0 .. Len(file) /\ DOMAIN Items[file[k]].lines = 1 .. 1 /\ LinesBefore(k) \in Nat
  BY PartsType, Places DEF K
<1>2. Copied(k - 1) \in Seq(Entries) /\ Copied(k) = Copied(k - 1) \o Wanted(k)
  BY <1>1, CopiedFacts
<1> DEFINE e == [no |-> LinesBefore(k) + 1, as |-> "extern"]
<1>3. Wanted(k) = <<e>>
  <2>1. Wanted(k) = [i \in 1 .. 1 |-> [no |-> LinesBefore(k) + i, as |-> "extern"]]
    BY <1>1 DEF Wanted
  <2>2. QED
    BY <2>1
<1>4. e \in Entries
  BY <1>1 DEF Entries
<1> HIDE DEF e
<1>5. Append(Copied(k - 1), e) = Copied(k - 1) \o <<e>>
  BY <1>2, <1>4, AppendIsConcat
<1>6. QED
  BY <1>2, <1>3, <1>5 DEF e

(* and the reference is what is asked for up to the function.                *)
LEMMA IsolatedIs ==
  ASSUME Inputs
  PROVE  /\ NoTarget(Len(file)) => Isolated = Copied(Len(file)) /\ "target" \notin Roles
         /\ \A k \in DOMAIN file :
              NoTarget(k - 1) /\ Items[file[k]].role = "target" =>
                Isolated = Copied(k) /\ "target" \in Roles
<1>1. Len(file) \in Nat /\ DOMAIN file = 1 .. Len(file)
  BY PartsType
<1> DEFINE I == {i \in 1 .. Len(file) : Items[file[i]].role = "target"}
           t == IF I # {} THEN Min(I) ELSE 0
<1>2. Isolated = Copied(IF t = 0 THEN Len(file) ELSE t)
  BY DEF Isolated, Copied, SelectInSeq
<1>3. I \in SUBSET Nat
  OBVIOUS
<1>4. Roles = {Items[file[i]].role : i \in 1 .. Len(file)}
  BY <1>1 DEF Roles
<1>5. ASSUME NoTarget(Len(file)) PROVE Isolated = Copied(Len(file)) /\ "target" \notin Roles
  <2>1. I = {}
    BY <1>5 DEF NoTarget
  <2>2. "target" \notin Roles
    BY <1>4, <1>5 DEF NoTarget
  <2>3. QED
    BY <1>2, <2>1, <2>2
<1>6. ASSUME NEW k \in DOMAIN file, NoTarget(k - 1), Items[file[k]].role = "target"
      PROVE  Isolated = Copied(k) /\ "target" \in Roles
  <2>1. k \in I /\ k # 0
    BY <1>1, <1>6
  <2>2. Min(I) \in I /\ \A i \in I : Min(I) <= i
    BY <1>3, <2>1, MinIsLeast
  <2>3. \A i \in I : k <= i
    <3> SUFFICES ASSUME NEW i \in I, ~(k <= i) PROVE FALSE
      OBVIOUS
    <3>1. i \in 1 .. k - 1
      BY <1>1
    <3>2. QED
      BY <1>6, <3>1 DEF NoTarget
  <2>4. Min(I) = k
    <3> DEFINE x == Min(I)
    <3>1. x \in I /\ x <= k /\ k <= x
      BY <2>1, <2>2, <2>3
    <3> HIDE DEF x
    <3>2. x = k
      BY <1>1, <3>1
    <3>3. QED
      BY <3>2 DEF x
  <2>5. Isolated = Copied(k)
    BY <1>2, <2>1, <2>4
  <2>6. "target" \in Roles
    BY <1>6 DEF Roles
  <2>7. QED
    BY <2>5, <2>6
<1>7. QED
  BY <1>5, <1>6
================================================================================
