----------------------- MODULE FunctionIsolation_proofs ------------------------
(* Theorems about FunctionIsolation, for all files over any items of any      *)
(* number of lines. Three inductive invariants: of the types (TypeInv), of    *)
(* the position in a file that the scanner follows (PosInv), and of the order *)
(* of what is written (OrderInv), each with what the one before it says.      *)
EXTENDS FunctionIsolation_facts

--------------------------------------------------------------------------------
(* Types.                                                                    *)

(* What is left of a line of the source, and what is written of one.          *)
Pieces == {l \in [no : Nat, toks : Seq(STRING)] : IsLine(l)}
Written == [no : 1 .. Len(text), as : {"line", "extern"}]

Stages == {"open", "next", "scan", "define", "comment", "type", "declare", "header",
           "body", "found", "close", "done", "crashed", "endless"}

(* The types, so that a step can be computed: moreover the file is over when *)
(* eof is set, and the working directory is its own at both ends.            *)
TypeInv ==
  /\ Inputs
  /\ cwd \in {"own", "source"} /\ (pc \in {"open", "done"} => cwd = "own") /\ pc \in Stages
  /\ next \in 1 .. Len(text) + 1 /\ eof \in BOOLEAN /\ (eof => next = Len(text) + 1)
  /\ line \in Pieces /\ start \in Pieces /\ prependage \in Seq(Pieces)
  /\ count \in Int /\ closed \in BOOLEAN /\ shared \in BOOLEAN /\ depth \in Int
  /\ out \in Seq(Written) /\ result \in {-1, 0, 1}

(* The type invariant of the model is part of the inductive one.             *)
LEMMA TypeInvImplies == TypeInv => TypeOK
<1> SUFFICES ASSUME TypeInv PROVE TypeOK
  OBVIOUS
<1>1. IsLine(line) /\ IsLine(start)
  BY DEF TypeInv, Pieces
<1>2. \A i \in DOMAIN prependage : IsLine(prependage[i])
  <2>1. \A i \in DOMAIN prependage : prependage[i] \in Pieces
    BY LenProperties DEF TypeInv
  <2>2. QED
    BY <2>1 DEF Pieces
<1>3. \A i \in DOMAIN out : out[i].no \in 1 .. Len(text) /\ out[i].as \in {"line", "extern"}
  <2>1. \A i \in DOMAIN out : out[i] \in Written
    BY LenProperties DEF TypeInv
  <2>2. QED
    BY <2>1 DEF Written
<1>4. QED
  BY <1>1, <1>2, <1>3 DEF TypeInv, TypeOK, Inputs, Stages

(* The empty buffer is what is left of a line,                               *)
LEMMA BlankIsPiece == ASSUME Inputs PROVE Blank \in Pieces
<1>1. Len(text) \in Nat /\ <<>> \in Seq(STRING)
  BY PartsType
<1>2. QED
  BY <1>1 DEF Blank, Pieces, IsLine

(* and so is a whole line of the text.                                       *)
LEMMA LineIsPiece ==
  ASSUME Inputs, NEW n \in 1 .. Len(text)
  PROVE  [no |-> n, toks |-> text[n]] \in Pieces
<1>1. Len(text) \in Nat /\ text[n] \in Seq(STRING) /\ n # 0 /\ n \in Nat
  BY PartsType
<1>2. From(text[n], 1) = text[n] /\ 1 \in 1 .. Len(text[n]) + 1
  BY <1>1, FromAll, LenProperties
<1>3. \E m \in 1 .. Len(text[n]) + 1 : text[n] = From(text[n], m)
  BY <1>2
<1> DEFINE l == [no |-> n, toks |-> text[n]]
<1>4. l.no = n /\ l.toks = text[n] /\ l \in [no : Nat, toks : Seq(STRING)]
  BY <1>1
<1> HIDE DEF l
<1>5. IsLine(l)
  BY <1>1, <1>3, <1>4 DEF IsLine
<1>6. QED
  BY <1>4, <1>5 DEF Pieces, l

(* The line itself, once; an empty line of no bytes; nothing.                 *)
LEMMA ReadIs ==
  ASSUME TypeInv, NEW l \in Pieces, NEW r, r = Read(l)
  PROVE  /\ r.line \in Pieces /\ r.next \in 1 .. Len(text) + 1 /\ r.eof \in BOOLEAN
         /\ r.eof => r.next = Len(text) + 1
         /\ \/ r.n = -1 /\ eof /\ r.line = l /\ r.next = next /\ r.eof
            \/ r.n = 0 /\ ~eof /\ next = Len(text) + 1 /\ r.line = Blank /\ r.next = next /\ r.eof
            \/ /\ r.n = 1 /\ ~eof /\ next \in 1 .. Len(text) /\ r.next = next + 1
               /\ r.line = [no |-> next, toks |-> text[next]]
               /\ r.eof <=> next = Len(text) /\ ~terminated
<1>1. Len(text) \in Nat /\ Inputs /\ next \in 1 .. Len(text) + 1 /\ eof \in BOOLEAN
      /\ terminated \in BOOLEAN /\ (eof => next = Len(text) + 1)
  BY PartsType DEF TypeInv, Inputs
<1>2. CASE eof
  <2>1. r = [n |-> -1, line |-> l, next |-> next, eof |-> TRUE]
    BY <1>2 DEF Read
  <2>2. QED
    BY <1>1, <1>2, <2>1
<1>3. CASE ~eof /\ next > Len(text)
  <2>1. r = [n |-> 0, line |-> Blank, next |-> next, eof |-> TRUE]
    BY <1>3 DEF Read
  <2>2. QED
    BY <1>1, <1>3, <2>1, BlankIsPiece
<1>4. CASE ~eof /\ ~(next > Len(text))
  <2>1. r = [n |-> 1, line |-> [no |-> next, toks |-> text[next]], next |-> next + 1,
             eof |-> next = Len(text) /\ ~terminated]
    BY <1>4 DEF Read
  <2>2. next \in 1 .. Len(text)
    BY <1>1, <1>4
  <2>3. [no |-> next, toks |-> text[next]] \in Pieces
    BY <1>1, <2>2, LineIsPiece
  <2>4. r.n = 1 /\ r.line = [no |-> next, toks |-> text[next]] /\ r.next = next + 1
    BY <2>1
  <2>5. r.eof = (next = Len(text) /\ ~terminated)
    BY <2>1
  <2>6. r.eof \in BOOLEAN /\ (r.eof <=> next = Len(text) /\ ~terminated)
    BY <2>5, Zenon
  <2>7. r.eof => r.next = Len(text) + 1
    BY <2>4, <2>6
  <2>8. r.next \in 1 .. Len(text) + 1
    BY <1>1, <2>2, <2>4
  <2>9. QED
    BY <1>4, <2>2, <2>3, <2>4, <2>6, <2>7, <2>8
<1>5. QED
  BY <1>1, <1>2, <1>3, <1>4

(* What is written of a line are lines to write.                             *)
LEMMA WholeType == ASSUME NEW l \in Pieces PROVE Whole(l) \in Seq(Written)
<1>1. l.no \in 0 .. Len(text)
  BY DEF Pieces, IsLine
<1>2. CASE l.no = 0
  BY <1>2 DEF Whole
<1>3. CASE l.no # 0
  <2>1. [no |-> l.no, as |-> "line"] \in Written
    BY <1>1, <1>3 DEF Written
  <2>2. QED
    BY <1>3, <2>1 DEF Whole
<1>4. QED
  BY <1>2, <1>3

(* The same of all lines of a sequence.                                      *)
LEMMA WholesType ==
  ASSUME NEW p \in Seq(Pieces)
  PROVE  FlattenSeq([i \in DOMAIN p |-> Whole(p[i])]) \in Seq(Written)
<1> DEFINE w == [i \in DOMAIN p |-> Whole(p[i])]
<1>1. DOMAIN p = 1 .. Len(p) /\ Len(p) \in Nat /\ \A i \in 1 .. Len(p) : p[i] \in Pieces
  BY LenProperties
<1>2. w \in [1 .. Len(p) -> Seq(Written)]
  BY <1>1, WholeType
<1>3. w \in Seq(Seq(Written))
  BY <1>1, <1>2
<1>4. QED
  BY <1>3, FlattenType

(* What is left behind a ';' is what is left of the same line.               *)
LEMMA RestIsPiece ==
  ASSUME Inputs, NEW l \in Pieces
  PROVE  [l EXCEPT !.toks = AfterSemicolon(@)] \in Pieces
<1> DEFINE u == [l EXCEPT !.toks = AfterSemicolon(@)]
<1>1. l \in [no : Nat, toks : Seq(STRING)] /\ IsLine(l) /\ l.no \in 0 .. Len(text)
  BY DEF Pieces, IsLine
<1>2. u.no = l.no /\ u.toks = AfterSemicolon(l.toks) /\ u = [no |-> l.no, toks |-> u.toks]
  BY <1>1
<1> HIDE DEF u
<1>3. CASE l.no = 0
  <2>1. l.toks = <<>> /\ <<>> \in Seq(STRING) /\ Len(<<>>) = 0
    BY <1>1, <1>3 DEF IsLine
  <2>2. From(<<>>, 1) = <<>>
    BY <2>1, FromAll
  <2>3. None(<<>>, {Semicolon}) /\ \A i : ~IsFirst(<<>>, {Semicolon}, i)
    BY <2>1 DEF None, IsFirst
  <2>4. AfterSemicolon(<<>>) = <<>>
    BY <2>1, <2>2, <2>3, SemicolonFacts
  <2>5. u = [no |-> 0, toks |-> <<>>]
    BY <1>2, <1>3, <2>1, <2>4
  <2>6. QED
    BY <2>5, BlankIsPiece DEF Blank, u
<1>4. CASE l.no # 0
  <2> DEFINE t == text[l.no]
  <2>1. PICK m \in 1 .. Len(t) + 1 : l.toks = From(t, m)
    BY <1>1, <1>4 DEF IsLine
  <2>2. t \in Seq(STRING)
    <3>1. l.no \in 1 .. Len(text) /\ text \in Seq(Seq(STRING))
      BY <1>1, <1>4, PartsType
    <3>2. QED
      BY <3>1, ElementOfSeq
  <2> HIDE DEF t
  <2>3. PICK q \in 1 .. Len(t) + 1 : AfterSemicolon(l.toks) = From(t, q)
    BY <2>1, <2>2, SemicolonIsFrom
  <2>4. u.toks = From(t, q) /\ From(t, q) \in Seq(STRING)
    BY <1>2, <2>2, <2>3, FromFacts
  <2>5. IsLine(u)
    <3>1. u.no # 0 /\ u.no \in 0 .. Len(text) /\ t = text[u.no]
      BY <1>1, <1>2, <1>4 DEF t
    <3>2. QED
      BY <2>4, <3>1 DEF IsLine
  <2>6. u \in [no : Nat, toks : Seq(STRING)]
    BY <1>1, <1>2, <2>4
  <2>7. QED
    BY <2>5, <2>6 DEF Pieces, u
<1>5. QED
  BY <1>3, <1>4

(* The type invariant.                                                        *)
LEMMA TypeInit == Init => TypeInv
<1> SUFFICES ASSUME Init PROVE TypeInv
  OBVIOUS
<1>1. file \in Seq(DOMAIN Items)
  <2>1. PICK m \in 0 .. MaxItems : file \in [1 .. m -> DOMAIN Items]
    BY DEF Init, BoundedSeq, SeqOf
  <2>2. m \in Nat
    BY MaxItemsAssumption
  <2>3. QED
    BY <2>1, <2>2
<1>2. Inputs
  BY <1>1 DEF Init, Inputs, Parts, K
<1>3. Len(text) \in Nat /\ 1 \in 1 .. Len(text) + 1
  BY <1>2, PartsType
<1>4. Blank \in Pieces
  BY <1>2, BlankIsPiece
<1>5. <<>> \in Seq(Pieces) /\ <<>> \in Seq(Written)
  OBVIOUS
<1>6. /\ cwd = "own" /\ pc = "open" /\ next = 1 /\ eof = FALSE /\ line = Blank /\ count = 0
      /\ closed = FALSE /\ start = Blank /\ shared = TRUE /\ prependage = <<>> /\ depth = 0
      /\ out = <<>> /\ result = -1
  BY DEF Init
<1>7. pc \in Stages
  BY <1>6 DEF Stages
<1>8. prependage \in Seq(Pieces) /\ out \in Seq(Written)
  BY <1>5, <1>6, Zenon
<1>9. line \in Pieces /\ start \in Pieces
  BY <1>4, <1>6
<1>10. next \in 1 .. Len(text) + 1 /\ count \in Int /\ depth \in Int /\ result \in {-1, 0, 1}
  BY <1>3, <1>6
<1>11. eof \in BOOLEAN /\ closed \in BOOLEAN /\ shared \in BOOLEAN /\ ~eof
  BY <1>6, Zenon
<1>12. cwd \in {"own", "source"} /\ (pc \in {"open", "done"} => cwd = "own")
  BY <1>6
<1>13. QED
  BY <1>2, <1>7, <1>8, <1>9, <1>10, <1>11, <1>12, Zenon DEF TypeInv

(* The sets of values depend on the file alone.                              *)
LEMMA SameInputs ==
  ASSUME UNCHANGED inputVars
  PROVE  Inputs' = Inputs /\ Pieces' = Pieces /\ Written' = Written /\ text' = text
BY DEF inputVars, Inputs, Parts, K, Pieces, IsLine, Written

(* Every step preserves the types.                                           *)
LEMMA TypeStep == TypeInv /\ [Next]_vars => TypeInv'
<1> SUFFICES ASSUME TypeInv, [Next]_vars PROVE TypeInv'
  OBVIOUS
<1> USE DEF Stages
<1>1. Inputs /\ Len(text) \in Nat
  BY PartsType DEF TypeInv
<1>2. Blank \in Pieces /\ <<>> \in Seq(Pieces) /\ <<>> \in Seq(Written)
  BY <1>1, BlankIsPiece
<1>3. ASSUME NEW l \in Pieces PROVE out \o Whole(l) \in Seq(Written)
  BY <1>3, WholeType, ConcatProperties DEF TypeInv
<1>4. checkCurlyBrackets(line.toks) \in Int /\ checkCurlyBrackets(start.toks) \in Int
  <2>1. line.toks \in Seq(STRING) /\ start.toks \in Seq(STRING)
    BY DEF TypeInv, Pieces
  <2>2. QED
    BY <2>1, BracketsType
<1>5. UNCHANGED inputVars => /\ Inputs' = Inputs /\ Pieces' = Pieces
                             /\ Written' = Written /\ text' = text
  BY SameInputs
<1>6. CASE OpenFails
  BY <1>5, <1>6 DEF OpenFails, TypeInv, vars, readVars, funcVars
<1>7. CASE Open
  BY <1>5, <1>7 DEF Open, TypeInv, vars, readVars, funcVars
<1>8. CASE NextLine
  <2>1. PICK r : r = Read(line)
    OBVIOUS
  <2>2. line \in Pieces /\ Take(r) /\ line' = r.line /\ pc' = IF r.n > 0 THEN "scan" ELSE "close"
    BY <1>8, <2>1 DEF NextLine, TypeInv
  <2>3. line' \in Pieces /\ next' \in 1 .. Len(text) + 1 /\ eof' \in BOOLEAN
        /\ (eof' => next' = Len(text) + 1)
    BY <2>1, <2>2, ReadIs DEF Take
  <2>4. pc' \in {"scan", "close"}
    BY <2>2
  <2>5. QED
    BY <1>5, <1>8, <2>3, <2>4 DEF NextLine, TypeInv, vars, funcVars
<1>9. CASE InsideBrackets
  BY <1>4, <1>5, <1>9 DEF InsideBrackets, TypeInv, vars, readVars, funcVars
<1>10. CASE Scan
  <2>1. Class(line.toks) \in {"next", "comment", "type", "declare"}
    BY Zenon DEF Class
  <2>2. QED
    BY <1>2, <1>5, <1>10, <2>1 DEF Scan, TypeInv, vars, readVars, funcVars
<1>11. CASE Define
  <2>1. out' \in Seq(Written) /\ pc' \in {"define", "next"}
    BY <1>3, <1>11 DEF Define, TypeInv
  <2>2. QED
    BY <1>5, <1>11, <2>1 DEF Define, TypeInv, vars, readVars, funcVars
<1>12. CASE ResolveDefine
  <2>1. PICK r : r = Read(Blank)
    OBVIOUS
  <2>2. /\ Take(r) /\ out' = IF r.n = 1 THEN out \o Whole(r.line) ELSE out
        /\ pc' = CASE r.n = -1 -> "crashed"
                   [] r.n = 1 /\ Has(r.line.toks, "\\") -> "define"
                   [] OTHER -> "next"
    BY <1>12, <2>1 DEF ResolveDefine
  <2>3. /\ r.line \in Pieces /\ next' \in 1 .. Len(text) + 1 /\ eof' \in BOOLEAN
        /\ (eof' => next' = Len(text) + 1)
    BY <1>2, <2>1, <2>2, ReadIs DEF Take
  <2>4. out' \in Seq(Written)
    BY <1>3, <2>2, <2>3 DEF TypeInv
  <2>5. pc' \in {"crashed", "define", "next"}
    BY <2>2, Zenon
  <2>6. QED
    BY <1>5, <1>12, <2>3, <2>4, <2>5 DEF ResolveDefine, TypeInv, vars, funcVars
<1>13. CASE Include
  <2>1. out' \in Seq(Written) /\ pc' \in {"crashed", "next"}
    BY <1>3, <1>13 DEF Include, TypeInv
  <2>2. QED
    BY <1>5, <1>13, <2>1 DEF Include, TypeInv, vars, readVars, funcVars
<1>14. CASE SkipComment
  <2>1. PICK r : r = Read(line)
    OBVIOUS
  <2>2. /\ Take(r) /\ line' = r.line
        /\ pc' = IF StartsWith(r.line.toks, "*") THEN IF r.n = -1 THEN "endless" ELSE "comment"
                 ELSE IF r.n > 0 THEN "scan" ELSE "close"
    BY <1>14, <2>1 DEF SkipComment
  <2>3. line' \in Pieces /\ next' \in 1 .. Len(text) + 1 /\ eof' \in BOOLEAN
        /\ (eof' => next' = Len(text) + 1)
    BY <2>1, <2>2, ReadIs DEF Take, TypeInv
  <2>4. pc' \in {"endless", "comment", "scan", "close"}
    BY <2>2
  <2>5. QED
    BY <1>5, <1>14, <2>3, <2>4 DEF SkipComment, TypeInv, vars, funcVars
<1>15. CASE TypeLine
  <2>1. PICK r : r = Read(line)
    OBVIOUS
  <2> DEFINE last == closed' /\ Has(r.line.toks, Semicolon)
  <2>2. /\ Take(r) /\ line' = r.line
        /\ closed' = (closed \/ Has(r.line.toks, RightCurly))
        /\ out' = IF last THEN out \o Whole(line) \o Whole(r.line) ELSE out \o Whole(line)
        /\ pc' = CASE last -> "next" [] ~last /\ r.n = -1 -> "endless" [] OTHER -> "type"
    BY <1>15, <2>1 DEF TypeLine
  <2> HIDE DEF last
  <2>3. line' \in Pieces /\ next' \in 1 .. Len(text) + 1 /\ eof' \in BOOLEAN
        /\ (eof' => next' = Len(text) + 1)
    BY <2>1, <2>2, ReadIs DEF Take, TypeInv
  <2>4. pc' \in {"next", "endless", "type"}
    BY <2>2, Zenon
  <2>5. closed' \in BOOLEAN
    <3>1. closed \in BOOLEAN
      BY DEF TypeInv
    <3>2. QED
      BY <2>2, <3>1, Zenon DEF Has
  <2>6. out' \in Seq(Written)
    <3>1. out \o Whole(line) \in Seq(Written) /\ Whole(r.line) \in Seq(Written)
      BY <1>3, <2>2, <2>3, WholeType DEF TypeInv
    <3>2. (out \o Whole(line)) \o Whole(r.line) \in Seq(Written)
      BY <3>1, ConcatProperties
    <3>3. QED
      BY <2>2, <3>1, <3>2
  <2>7. QED
    BY <1>5, <1>15, <2>3, <2>4, <2>5, <2>6 DEF TypeLine, TypeInv, vars, funcVars
<1>16. CASE ReturnZero
  BY <1>4, <1>5, <1>16 DEF ReturnZero, TypeInv, vars, readVars, funcVars
<1>17. CASE Variable
  <2>1. start' \in Pieces
    BY <1>1, <1>17, RestIsPiece DEF Variable, TypeInv
  <2>2. out' \in Seq(Written)
    <3>1. start.no \in 1 .. Len(text)
      <4>1. start \in Pieces /\ IsLine(start) /\ start.no \in 0 .. Len(text)
        BY DEF TypeInv, Pieces, IsLine
      <4>2. start.toks # <<>>
        BY <1>17 DEF Variable, Type, determine_type
      <4>3. QED
        BY <4>1, <4>2 DEF IsLine
    <3>2. [no |-> start.no, as |-> "extern"] \in Written
      BY <3>1 DEF Written
    <3>3. QED
      BY <1>17, <3>2, AppendProperties DEF Variable, TypeInv
  <2>3. QED
    BY <1>2, <1>5, <1>17, <2>1, <2>2 DEF Variable, TypeInv, vars, readVars
<1>18. CASE Undetermined
  <2>1. PICK r : r = Read(Blank)
    OBVIOUS
  <2>2. /\ Take(r) /\ start' = r.line /\ shared' = FALSE /\ prependage' = Append(prependage, r.line)
        /\ pc' = IF r.n = -1 THEN "crashed" ELSE "declare"
    BY <1>18, <2>1 DEF Undetermined
  <2>3. start' \in Pieces /\ next' \in 1 .. Len(text) + 1 /\ eof' \in BOOLEAN
        /\ (eof' => next' = Len(text) + 1)
    BY <1>2, <2>1, <2>2, ReadIs DEF Take
  <2>4. prependage' \in Seq(Pieces)
    BY <2>2, <2>3, AppendProperties DEF TypeInv
  <2>5. pc' \in {"crashed", "declare"}
    BY <2>2
  <2>6. QED
    BY <1>5, <1>18, <2>2, <2>3, <2>4, <2>5 DEF Undetermined, TypeInv, vars
<1>19. CASE FunctionBegins
  BY <1>5, <1>19 DEF FunctionBegins, TypeInv, vars, readVars, funcVars
<1>20. CASE HeaderLine
  <2>1. PICK r : r = Read(start)
    OBVIOUS
  <2>2. /\ Take(r) /\ start' = r.line /\ line' = IF shared THEN r.line ELSE line
        /\ prependage' = Append(prependage, start)
        /\ pc' = IF r.n = -1 THEN "endless" ELSE "header"
    BY <1>20, <2>1 DEF HeaderLine
  <2>3. start' \in Pieces /\ next' \in 1 .. Len(text) + 1 /\ eof' \in BOOLEAN
        /\ (eof' => next' = Len(text) + 1)
    BY <2>1, <2>2, ReadIs DEF Take, TypeInv
  <2>4. prependage' \in Seq(Pieces) /\ line' \in Pieces
    BY <2>2, <2>3, AppendProperties DEF TypeInv
  <2>5. pc' \in {"endless", "header"}
    BY <2>2
  <2>6. QED
    BY <1>5, <1>20, <2>3, <2>4, <2>5 DEF HeaderLine, TypeInv, vars
<1>21. CASE BodyBegins
  <2>1. out' \in Seq(Written)
    <3>1. FlattenSeq([i \in DOMAIN prependage |-> Whole(prependage[i])]) \in Seq(Written)
      BY WholesType DEF TypeInv
    <3>2. QED
      BY <1>21, <3>1, ConcatProperties DEF BodyBegins, TypeInv
  <2>2. QED
    BY <1>5, <1>21, <2>1 DEF BodyBegins, TypeInv, vars, readVars
<1>22. CASE BodyLine
  <2> DEFINE written == ~StartsWith(start.toks, "//")
             d == IF written THEN depth + checkCurlyBrackets(start.toks) ELSE depth
  <2>1. PICK r : r = Read(start)
    OBVIOUS
  <2>2. /\ out' = IF written THEN out \o Whole(start) ELSE out
        /\ depth' = d
        /\ IF written /\ d = 0
           THEN pc' = "found" /\ UNCHANGED <<readVars, start>>
           ELSE Take(r) /\ start' = r.line /\ pc' = IF r.n > 0 THEN "body" ELSE "found"
    BY <1>22, <2>1 DEF BodyLine
  <2>3. d \in Int
    BY <1>4 DEF TypeInv
  <2> HIDE DEF d, written
  <2>4. /\ start' \in Pieces /\ next' \in 1 .. Len(text) + 1 /\ eof' \in BOOLEAN
        /\ (eof' => next' = Len(text) + 1)
    <3>1. CASE written /\ d = 0
      BY <2>2, <3>1 DEF TypeInv, readVars
    <3>2. CASE ~(written /\ d = 0)
      BY <2>1, <2>2, <3>2, ReadIs DEF Take, TypeInv
    <3>3. QED
      BY <3>1, <3>2
  <2>5. pc' \in {"found", "body"}
    BY <2>2
  <2>6. out' \in Seq(Written)
    BY <1>3, <2>2 DEF TypeInv
  <2>7. QED
    BY <1>5, <1>22, <2>2, <2>3, <2>4, <2>5, <2>6 DEF BodyLine, TypeInv, vars
<1>23. CASE Return
  <2>1. result' \in {0, 1}
    BY <1>23 DEF Return
  <2>2. QED
    BY <1>5, <1>23, <2>1 DEF Return, TypeInv, vars, readVars, funcVars
<1>24. CASE UNCHANGED vars
  <2>1. UNCHANGED inputVars
    BY <1>24 DEF vars
  <2>2. QED
    BY <1>5, <1>24, <2>1 DEF vars, readVars, funcVars, TypeInv
<1>25. QED
  BY <1>6, <1>7, <1>8, <1>9, <1>10, <1>11, <1>12, <1>13, <1>14, <1>15, <1>16, <1>17, <1>18,
     <1>19, <1>20, <1>21, <1>22, <1>23, <1>24 DEF Next

(* The inductive invariant of the types.                                     *)
LEMMA Typed == Spec => []TypeInv
<1>1. QED
  BY TypeInit, TypeStep, PTL DEF Spec

(* Spec => []TypeOK: in every file over the items, of any length, every      *)
(* variable of isolateFunction() has its type; in particular each line it    *)
(* holds is a line of the source or what is left of one behind a ';', and    *)
(* the working directory is put back when it is done.                        *)
THEOREM TypeCorrect == Spec => []TypeOK
<1>1. QED
  BY Typed, TypeInvImplies, PTL

--------------------------------------------------------------------------------
(* The position.                                                             *)

(* What item k is to the function.                                           *)
Role(k) == Items[file[k]].role

(* What is copied at the beginning of item k, if the file is in the style.    *)
Good(o, k) == Tame => o = Copied(k - 1) /\ NoTarget(k - 1)

(* An item that is passed over line by line.                                 *)
Dropped(k) ==
  /\ IsOther(K(k))
  /\ Tame => HasNoVariable(K(k)) /\ Role(k) \in {"dropped", "other"}

(* n lines are done with: the next begins an item, or goes on with one that  *)
(* is passed over. o is what was written.                                    *)
Between(o, n) ==
  \/ n = Len(text) /\ Good(o, Len(file) + 1)
  \/ \E k \in DOMAIN file : \E j \in 0 .. Len(K(k)) - 1 :
       n = LinesBefore(k) + j /\ Good(o, k) /\ (j = 0 \/ Dropped(k))

(* Every item of a tame file is in the style, of a regular one followed.     *)
LEMMA StyleOf ==
  ASSUME Inputs, NEW k \in DOMAIN file
  PROVE  /\ Tame => Regular /\ InStyle(Items[file[k]])
         /\ Regular => Followed(K(k))
<1>1. file[k] \in DOMAIN Items
  BY PartsType
<1>2. ASSUME Tame PROVE Regular /\ InStyle(Items[file[k]])
  <2>1. \A i \in DOMAIN file : file[i] \in DOMAIN Items /\ InStyle(Items[file[i]])
    BY <1>2 DEF Tame, StyledItems
  <2>2. \A i \in DOMAIN file : Followed(Items[file[i]].lines)
    BY <2>1 DEF InStyle
  <2>3. Regular
    BY <2>1, <2>2 DEF Regular, FollowedItems
  <2>4. QED
    BY <2>1, <2>3
<1>3. Regular => Followed(K(k))
  BY DEF Regular, FollowedItems, K
<1>4. QED
  BY <1>2, <1>3

(* What the scanner copies right it follows.                                 *)
LEMMA TameIsRegular == ASSUME Inputs, Tame PROVE Regular
<1>1. \A i \in DOMAIN file : file[i] \in DOMAIN Items /\ InStyle(Items[file[i]])
  BY DEF Tame, StyledItems
<1>2. \A i \in DOMAIN file : Followed(Items[file[i]].lines)
  BY <1>1 DEF InStyle
<1>3. QED
  BY <1>1, <1>2 DEF Regular, FollowedItems

(* An item that is not the function adds no function.                        *)
LEMMA NoTargetMore ==
  ASSUME Inputs, NEW k \in DOMAIN file, NoTarget(k - 1), Role(k) # "target"
  PROVE  NoTarget(k)
<1>1. k \in Nat
  BY PartsType
<1>2. \A i \in 1 .. k : i = k \/ i \in 1 .. k - 1
  BY <1>1
<1>3. QED
  BY <1>2 DEF NoTarget, Role

(* Behind an item,                                                            *)
LEMMA BetweenItems ==
  ASSUME Inputs, NEW o, NEW k \in DOMAIN file, NEW n, n = LinesBefore(k) + Len(K(k)),
         Tame => o = Copied(k) /\ NoTarget(k)
  PROVE  Between(o, n)
<1>1. Len(file) \in Nat /\ DOMAIN file = 1 .. Len(file)
  BY PartsType
<1>2. n = LinesBefore(k + 1)
  BY Places
<1>3. Good(o, k + 1)
  <2>1. (k + 1) - 1 = k
    BY <1>1
  <2>2. QED
    BY <2>1 DEF Good
<1>4. CASE k = Len(file)
  BY <1>2, <1>3, <1>4, Places DEF Between
<1>5. CASE k # Len(file)
  <2>1. k + 1 \in DOMAIN file
    BY <1>1, <1>5
  <2>2. Len(K(k + 1)) \in Nat \ {0} /\ LinesBefore(k + 1) \in Nat
    BY <2>1, PartsType, Places
  <2>3. 0 \in 0 .. Len(K(k + 1)) - 1 /\ n = LinesBefore(k + 1) + 0
    BY <1>2, <2>2
  <2>4. QED
    BY <1>3, <2>1, <2>3 DEF Between
<1>6. QED
  BY <1>4, <1>5

(* and behind a line of an item of which nothing is copied.                   *)
LEMMA BetweenLines ==
  ASSUME Inputs, NEW o, NEW k \in DOMAIN file, NEW j \in 1 .. Len(K(k)), NEW n,
         n = LinesBefore(k) + j, Good(o, k), Dropped(k)
  PROVE  Between(o, n)
<1>1. Len(K(k)) \in Nat
  BY PartsType
<1>2. CASE j = Len(K(k))
  <2>1. ASSUME Tame PROVE o = Copied(k) /\ NoTarget(k)
    <3>1. o = Copied(k - 1) /\ NoTarget(k - 1) /\ Role(k) \in {"dropped", "other"}
      BY <2>1 DEF Good, Dropped
    <3>2. QED
      BY <3>1, NothingCopied, NoTargetMore DEF Role
  <2>2. QED
    BY <1>2, <2>1, BetweenItems
<1>3. CASE j # Len(K(k))
  <2>1. j \in 0 .. Len(K(k)) - 1
    BY <1>1, <1>3
  <2>2. QED
    BY <2>1 DEF Between
<1>4. QED
  BY <1>2, <1>3

(* The next line, between items or in one that is passed over, is one of an  *)
(* item.                                                                     *)
LEMMA LineIs ==
  ASSUME Inputs, NEW o, NEW n \in 1 .. Len(text), Between(o, n - 1)
  PROVE  \E k \in DOMAIN file : \E j \in 1 .. Len(K(k)) :
           /\ n = LinesBefore(k) + j /\ text[n] = K(k)[j] /\ Good(o, k)
           /\ (j = 1 \/ Dropped(k))
<1>1. n - 1 # Len(text) /\ Len(text) \in Nat
  BY PartsType
<1>0. PICK k \in DOMAIN file : \E i \in 0 .. Len(K(k)) - 1 :
        n - 1 = LinesBefore(k) + i /\ Good(o, k) /\ (i = 0 \/ Dropped(k))
  BY <1>1 DEF Between
<1>2. PICK i \in 0 .. Len(K(k)) - 1 :
        n - 1 = LinesBefore(k) + i /\ Good(o, k) /\ (i = 0 \/ Dropped(k))
  BY <1>0
<1>3. Len(K(k)) \in Nat /\ LinesBefore(k) \in Nat
  BY PartsType, Places
<1> DEFINE j == i + 1
<1>4. j \in 1 .. Len(K(k)) /\ n = LinesBefore(k) + j /\ (i = 0 <=> j = 1)
  BY <1>2, <1>3
<1> HIDE DEF j
<1>5. text[n] = K(k)[j]
  BY <1>4, Places
<1>6. QED
  BY <1>2, <1>4, <1>5

(* Behind the last line, all items have been passed.                         *)
LEMMA AtTheEnd ==
  ASSUME Inputs, NEW o, Between(o, Len(text))
  PROVE  Good(o, Len(file) + 1)
<1>1. ASSUME NEW k \in DOMAIN file, NEW i \in 0 .. Len(K(k)) - 1, Len(text) = LinesBefore(k) + i
      PROVE  FALSE
  <2>1. Len(K(k)) \in Nat /\ LinesBefore(k) \in Nat /\ LinesBefore(k) + Len(K(k)) <= Len(text)
    BY PartsType, Places
  <2>2. QED
    BY <1>1, <2>1
<1>2. QED
  BY <1>1 DEF Between

(* A plain line adds the brackets that checkCurlyBrackets() counts.          *)
LEMMA PlainDepth ==
  ASSUME Inputs, NEW n \in 1 .. Len(text), Plain(text[n])
  PROVE  Depth(n) = Depth(n - 1) + checkCurlyBrackets(text[n])
BY DepthFacts DEF Plain

--------------------------------------------------------------------------------
(* Line j of item k was read last. Where it is at each stage, in which item, *)
(* and what it holds and has written of it:                                  *)
HasRead(k, j) == next = LinesBefore(k) + j + 1

(* looking at a line;                                                        *)
AtScan ==
  /\ line.no = next - 1 /\ line.no \in 1 .. Len(text) /\ line.toks = text[line.no]
  /\ count = Depth(line.no - 1) /\ Between(out, line.no - 1)

(* in a #define that goes on, in a comment, in a type;                       *)
AtDefine ==
  \E k \in DOMAIN file : \E j \in 1 .. Len(K(k)) - 1 :
    /\ HasRead(k, j) /\ IsDefine(K(k))
    /\ Tame => Role(k) = "context" /\ NoTarget(k - 1) /\ out = CopiedTo(k, j)

AtComment ==
  \E k \in DOMAIN file : \E j \in 1 .. Len(K(k)) :
    /\ HasRead(k, j) /\ IsComment(K(k))
    /\ Tame => Role(k) = "dropped" /\ NoTarget(k - 1) /\ out = Copied(k - 1)

AtType ==
  \E k \in DOMAIN file : \E j \in 1 .. Len(K(k)) - 1 :
    /\ HasRead(k, j) /\ IsType(K(k)) /\ line.no = LinesBefore(k) + j
    /\ closed <=> \E i \in 2 .. j : Has(K(k)[i], RightCurly)
    /\ Tame => Role(k) = "context" /\ NoTarget(k - 1) /\ out = CopiedTo(k, j - 1)

(* The prototype or the definition of the function.                           *)
Named(k) ==
  \/ IsPrototype(K(k)) /\ Role(k) = "dropped"
  \/ IsDefinition(K(k)) /\ Role(k) = "target"

(* What was written before the statement at token m.                         *)
DeclareStyle(k, m) ==
  \/ /\ IsVariable(K(k)) /\ Role(k) = IF Has(K(k)[1], "static") THEN "dropped" ELSE "variable"
     /\ \/ m = 1 /\ out = Copied(k - 1)
        \/ start.toks = <<>> /\ out = Copied(k)
  \/ Dropped(k) /\ m = 1 /\ out = Copied(k - 1)
  \/ Named(k) /\ m = 1 /\ out = Copied(k - 1)

(* at the statement that begins at token m of line j;                        *)
DeclareIs(k, j, m) ==
  /\ HasRead(k, j) /\ line.no = LinesBefore(k) + j /\ line.toks = K(k)[j]
  /\ start.no = line.no /\ start.toks = From(K(k)[j], m) /\ StatementAt(K(k)[j], m)
  /\ shared /\ prependage = <<>>
  /\ DepthIn(K(k))[j - 1] = 0 /\ Declares(K(k)[j])
  /\ IsOther(K(k)) \/ (j = 1 /\ IsNamed(K(k)))
  /\ Tame => NoTarget(k - 1) /\ DeclareStyle(k, m)

AtDeclare ==
  \E k \in DOMAIN file : \E j \in 1 .. Len(K(k)) : \E m \in 1 .. Len(K(k)[j]) + 1 : DeclareIs(k, j, m)

(* in line i of a header that begins at token m of the first line and ends   *)
(* in line h, with the lines before it kept;                                 *)
HeaderIs(k, m, h, i) ==
  /\ HasRead(k, i) /\ line.no = LinesBefore(k) + i /\ line.toks = K(k)[i]
  /\ start.no = line.no /\ start.toks = HeaderPart(K(k), m, i) /\ shared
  /\ Len(prependage) = i - 1 /\ \A p \in 1 .. i - 1 : prependage[p].no = LinesBefore(k) + p
  /\ HeaderIn(K(k), m, h)
  /\ HeaderEnd(K(k), m, h) = Semicolon => h = Len(K(k)) /\ checkCurlyBrackets(K(k)[h]) = 0
  /\ Tame => NoTarget(k - 1) /\ out = Copied(k - 1) /\ m = 1 /\ Named(k)

AtHeader ==
  \E k \in DOMAIN file : \E m \in 1 .. Len(K(k)[1]) + 1 : \E h \in 1 .. Len(K(k)) : \E i \in 1 .. h :
    HeaderIs(k, m, h, i)

InBody(lines, h) ==
  \A k \in h .. Len(lines) :
    /\ Plain(lines[k]) /\ ~StartsWith(lines[k], "//")
    /\ DepthIn(lines)[k] = DepthIn(lines)[h - 1] <=> k = Len(lines)

(* in line i of a body whose header ended in line h.                         *)
BodyIs(k, h, i) ==
  /\ HasRead(k, i) /\ start.no = LinesBefore(k) + i /\ start.toks = K(k)[i]
  /\ InBody(K(k), h) /\ depth = DepthIn(K(k))[i - 1] - DepthIn(K(k))[h - 1]
  /\ Role(k) = "target" /\ NoTarget(k - 1) /\ out = CopiedTo(k, i - 1)

AtBody ==
  \E k \in DOMAIN file : \E h \in 1 .. Len(K(k)) : \E i \in h .. Len(K(k)) : BodyIs(k, h, i)

AtFound == \E k \in DOMAIN file : Role(k) = "target" /\ NoTarget(k - 1) /\ out = Copied(k)

(* The position: by stage, the item that it is in, what it holds of it and   *)
(* what it has written. It cannot loop nor crash there, and its result is    *)
(* right.                                                                    *)
Follows ==
  /\ pc = "open" => next = 1 /\ out = <<>> /\ count = 0 /\ result = -1 /\ ~eof
  /\ pc = "next" => count = Depth(next - 1) /\ Between(out, next - 1)
  /\ pc = "scan" => AtScan
  /\ pc \in {"define", "comment", "type", "declare", "header"} => count = 0
  /\ pc = "define" => AtDefine
  /\ pc = "comment" => AtComment
  /\ pc = "type" => AtType
  /\ pc = "declare" => AtDeclare
  /\ pc = "header" => AtHeader
  /\ Tame /\ pc = "body" => AtBody
  /\ Tame /\ pc = "found" => AtFound
  /\ pc = "close" => Good(out, Len(file) + 1)
  /\ IsolatesTarget
  /\ terminated => pc # "endless" /\ (eof => pc \in {"found", "close", "done"})
  /\ Tame => pc # "crashed"

(* The invariant of the position. Of a file it does not follow it says       *)
(* nothing.                                                                  *)
PosInv == Regular => Follows

(* The reference depends on the file alone.                                  *)
LEMMA SameFile ==
  ASSUME UNCHANGED inputVars
  PROVE  /\ DOMAIN file' = DOMAIN file /\ Len(file') = Len(file) /\ text' = text
         /\ terminated' = terminated /\ Inputs' = Inputs
         /\ Regular' = Regular /\ Tame' = Tame /\ Isolated' = Isolated /\ Roles' = Roles
         /\ \A k : /\ K(k)' = K(k) /\ Role(k)' = Role(k) /\ LinesBefore(k)' = LinesBefore(k)
                   /\ NoTarget(k)' = NoTarget(k) /\ Copied(k)' = Copied(k)
                   /\ Depth(k)' = Depth(k) /\ Dropped(k)' = Dropped(k) /\ Named(k)' = Named(k)
         /\ \A k, j : CopiedTo(k, j)' = CopiedTo(k, j)
         /\ \A o, k : Good(o, k)' = Good(o, k) /\ Between(o, k)' = Between(o, k)
<1>1. file' = file /\ text' = text /\ terminated' = terminated
  BY DEF inputVars
<1>2. \A k : K(k)' = K(k) /\ Role(k)' = Role(k) /\ LinesBefore(k)' = LinesBefore(k)
             /\ NoTarget(k)' = NoTarget(k) /\ Depth(k)' = Depth(k)
  BY <1>1 DEF K, Role, LinesBefore, NoTarget, Depth
<1>3. \A k : Wanted(k)' = Wanted(k)
  BY <1>1, <1>2 DEF Wanted
<1>4. \A k : Copied(k)' = Copied(k)
  BY <1>1, <1>3 DEF Copied
<1>5. \A k, j : CopiedTo(k, j)' = CopiedTo(k, j)
  BY <1>1, <1>2, <1>4 DEF CopiedTo, LinesOf
<1>6. Regular' = Regular /\ Tame' = Tame /\ Roles' = Roles /\ Inputs' = Inputs
  BY <1>1 DEF Regular, Tame, Roles, Inputs, Parts, K
<1>7. Isolated' = Isolated
  BY <1>1, <1>3 DEF Isolated, SelectInSeq
<1>8. \A k : Dropped(k)' = Dropped(k) /\ Named(k)' = Named(k)
  BY <1>2, <1>6 DEF Dropped, Named
<1>9. \A o, k : Good(o, k)' = Good(o, k)
  BY <1>2, <1>4, <1>6 DEF Good
<1>10. \A o, k : Between(o, k)' = Between(o, k)
  BY <1>1, <1>2, <1>8, <1>9 DEF Between
<1>11. QED
  BY <1>1, <1>2, <1>4, <1>5, <1>6, <1>7, <1>8, <1>9, <1>10

(* A line that declares is looked at as a declaration.                       *)
LEMMA DeclareKind ==
  ASSUME NEW l, Declares(l)
  PROVE  Kind(l) = "declare"
BY DEF Declares, Kind

(* In a file that the scanner follows every item ends at depth 0.            *)
LEMMA EndOfItem ==
  ASSUME Inputs, Regular, NEW k \in DOMAIN file
  PROVE  Depth(LinesBefore(k) + Len(K(k))) = 0
<1>1. Len(K(k)) \in 0 .. Len(K(k)) /\ DepthIn(K(k))[Len(K(k))] = 0
  BY PartsType, StyleOf DEF Followed
<1>2. QED
  BY <1>1, DepthAt

(* What a line at the top level is, in its item.                              *)
TopIs(k, j) ==
  /\ line.no = LinesBefore(k) + j /\ HasRead(k, j) /\ line.toks = K(k)[j]
  /\ Good(out, k) /\ DepthIn(K(k))[j - 1] = 0
  /\ Kind(line.toks) # "declare" => j = 1
  /\ Kind(line.toks) = "define" => IsDefine(K(k)) /\ (Tame => Role(k) = "context")
  /\ Kind(line.toks) = "include" =>
       IsInclude(K(k)) /\ (Tame => Role(k) = "context" /\ ~Has(line.toks, "missing"))
  /\ Kind(line.toks) = "next" => IsPassedOver(K(k)) /\ (Tame => Role(k) = "dropped")
  /\ Kind(line.toks) = "comment" => IsComment(K(k)) /\ (Tame => Role(k) = "dropped")
  /\ Kind(line.toks) = "type" => IsType(K(k)) /\ (Tame => Role(k) = "context")
  /\ Kind(line.toks) = "declare" =>
       /\ Declares(K(k)[j]) /\ (IsOther(K(k)) \/ (j = 1 /\ IsNamed(K(k))))
       /\ Tame => \/ /\ IsVariable(K(k))
                     /\ Role(k) = IF Has(K(k)[1], "static") THEN "dropped" ELSE "variable"
                  \/ Dropped(k)
                  \/ Named(k)

(* A line that is looked at, at the top level, is a line of an item: its     *)
(* first, or one of an item that is passed over.                             *)
LEMMA TopLine ==
  ASSUME TypeInv, Regular, Follows, TopLevel
  PROVE  \E k \in DOMAIN file : \E j \in 1 .. Len(K(k)) : TopIs(k, j)
<1>1. AtScan /\ count = 0 /\ Inputs
  BY DEF Follows, TopLevel, TypeInv
<1>2. /\ line.no \in 1 .. Len(text) /\ line.toks = text[line.no] /\ line.no = next - 1
      /\ Depth(line.no - 1) = 0 /\ Between(out, line.no - 1)
  BY <1>1 DEF AtScan
<1>3. PICK k \in DOMAIN file : \E j \in 1 .. Len(K(k)) :
        /\ line.no = LinesBefore(k) + j /\ text[line.no] = K(k)[j] /\ Good(out, k)
        /\ (j = 1 \/ Dropped(k))
  BY <1>1, <1>2, LineIs
<1>4. PICK j \in 1 .. Len(K(k)) :
        /\ line.no = LinesBefore(k) + j /\ text[line.no] = K(k)[j] /\ Good(out, k)
        /\ (j = 1 \/ Dropped(k))
  BY <1>3
<1>5. /\ K(k) \in Seq(Seq(STRING)) /\ Len(K(k)) \in Nat \ {0} /\ LinesBefore(k) \in Nat
      /\ DOMAIN K(k) = 1 .. Len(K(k))
  BY <1>1, PartsType, Places
<1>6. HasRead(k, j) /\ line.toks = K(k)[j] /\ next \in Int
  BY <1>1, <1>2, <1>4, <1>5 DEF HasRead, TypeInv
<1>7. DepthIn(K(k))[j - 1] = 0
  <2>1. j - 1 \in 0 .. Len(K(k)) /\ line.no - 1 = LinesBefore(k) + (j - 1)
    BY <1>4, <1>5
  <2>2. Depth(LinesBefore(k) + (j - 1)) = DepthIn(K(k))[j - 1]
    BY <1>1, <2>1, DepthAt
  <2>3. QED
    BY <1>2, <2>1, <2>2
<1>8. CASE j # 1
  <2>1. Dropped(k) /\ IsOther(K(k))
    BY <1>4, <1>8 DEF Dropped
  <2>2. Declares(K(k)[j])
    BY <1>5, <1>7, <2>1 DEF IsOther
  <2>3. Kind(line.toks) = "declare"
    BY <1>6, <2>2, DeclareKind
  <2>4. TopIs(k, j)
    BY <1>4, <1>6, <1>7, <2>1, <2>2, <2>3 DEF TopIs
  <2>5. QED
    BY <2>4
<1>9. CASE j = 1
  <2> DEFINE item == Items[file[k]]
             kind == Kind(K(k)[1])
  <2>1. line.toks = K(k)[1] /\ K(k) = item.lines /\ Role(k) = item.role /\ Kind(line.toks) = kind
    BY <1>6, <1>9 DEF K, Role
  <2>2. /\ kind = "define" => IsDefine(K(k))
        /\ kind = "include" => IsInclude(K(k))
        /\ kind = "next" => IsPassedOver(K(k))
        /\ kind = "comment" => IsComment(K(k))
        /\ kind = "type" => IsType(K(k))
        /\ kind = "declare" => Declares(K(k)[1]) /\ (IsOther(K(k)) \/ IsNamed(K(k)))
    BY <1>1, <1>5, StyleOf, FollowedKind
  <2> HIDE DEF kind
  <2>3. ASSUME Tame
        PROVE  /\ kind \in {"define", "type"} => Role(k) = "context"
               /\ kind = "include" => Role(k) = "context" /\ ~Has(K(k)[1], "missing")
               /\ kind \in {"next", "comment"} => Role(k) = "dropped"
               /\ kind = "declare" =>
                    \/ /\ IsVariable(K(k))
                       /\ Role(k) = IF Has(K(k)[1], "static") THEN "dropped" ELSE "variable"
                    \/ Dropped(k)
                    \/ Named(k)
    <3>1. InStyle(item) /\ item.lines \in Seq(Seq(STRING)) /\ Len(item.lines) \in Nat \ {0}
      BY <1>1, <1>5, <2>1, <2>3, StyleOf
    <3> HIDE DEF item
    <3>2. /\ kind \in {"define", "type"} => item.role = "context"
          /\ kind = "include" => item.role = "context" /\ ~Has(item.lines[1], "missing")
          /\ kind \in {"next", "comment"} => item.role = "dropped"
          /\ kind = "declare" =>
              \/ IsVariable(item.lines) /\ item.role = "variable" /\ ~Has(item.lines[1], "static")
              \/ IsVariable(item.lines) /\ item.role = "dropped" /\ Has(item.lines[1], "static")
              \/ IsOther(item.lines) /\ HasNoVariable(item.lines) /\ item.role \in {"dropped", "other"}
              \/ IsPrototype(item.lines) /\ item.role = "dropped"
              \/ IsDefinition(item.lines) /\ item.role = "target"
      BY <2>1, <3>1, StyleKind DEF kind
    <3>3. QED
      BY <2>1, <3>2 DEF Dropped, Named
  <2>4. TopIs(k, j)
    BY <1>4, <1>6, <1>7, <1>9, <2>1, <2>2, <2>3 DEF TopIs
  <2>5. QED
    BY <2>4
<1>10. QED
  BY <1>8, <1>9

--------------------------------------------------------------------------------
(* The next line is one of an item, or the file is over.                     *)
LEMMA PosNextLine ==
  ASSUME TypeInv, Regular, Follows, NextLine
  PROVE  Follows'
<1>1. PICK r : r = Read(line)
  OBVIOUS
<1>2. /\ next' = r.next /\ eof' = r.eof /\ line' = r.line
      /\ pc = "next" /\ pc' = IF r.n > 0 THEN "scan" ELSE "close"
      /\ count' = count /\ out' = out /\ UNCHANGED inputVars
  BY <1>1 DEF NextLine, Take
<1>3. /\ Inputs /\ Len(text) \in Nat /\ next \in 1 .. Len(text) + 1 /\ eof \in BOOLEAN
      /\ (eof => next = Len(text) + 1) /\ line \in Pieces
  BY PartsType DEF TypeInv
<1>4. /\ DOMAIN file' = DOMAIN file /\ Len(file') = Len(file) /\ text' = text
      /\ terminated' = terminated /\ \A n : Depth(n)' = Depth(n)
      /\ \A o, n : Good(o, n)' = Good(o, n) /\ Between(o, n)' = Between(o, n)
  BY <1>2, SameFile
<1>5. count = Depth(next - 1) /\ Between(out, next - 1) /\ (terminated => ~eof)
  BY <1>2 DEF Follows
<1>6. CASE r.n = 1
  <2>1. /\ next \in 1 .. Len(text) /\ next' = next + 1 /\ line'.no = next
        /\ line'.toks = text[next] /\ (terminated => ~eof') /\ pc' = "scan"
    BY <1>1, <1>2, <1>3, <1>6, ReadIs
  <2>2. line'.no = next' - 1 /\ line'.no - 1 = next - 1
    BY <1>3, <2>1
  <2>4. AtScan'
    BY <1>2, <1>4, <1>5, <2>1, <2>2 DEF AtScan
  <2>5. QED
    BY <1>4, <2>1, <2>4 DEF Follows, IsolatesTarget
<1>7. CASE r.n # 1
  <2>1. pc' = "close" /\ next - 1 = Len(text)
    BY <1>1, <1>2, <1>3, <1>7, ReadIs
  <2>2. Good(out, Len(file) + 1)
    BY <1>3, <1>5, <2>1, AtTheEnd
  <2>3. Good(out, Len(file) + 1)'
    BY <1>2, <1>4, <2>2
  <2>4. QED
    BY <2>1, <2>3 DEF Follows, IsolatesTarget
<1>8. QED
  BY <1>6, <1>7

(* It is behind a line, or at a line, as it should be.                        *)
LEMMA ArriveNext ==
  ASSUME UNCHANGED inputVars, pc' = "next", NEW n, next' - 1 = n, count' = Depth(n),
         NEW o, out' = o, Between(o, n), terminated => ~eof'
  PROVE  Follows'
<1>1. /\ terminated' = terminated /\ Depth(n)' = Depth(n) /\ Between(o, n)' = Between(o, n)
  BY SameFile
<1>2. Depth(next - 1)' = Depth(n)' /\ Between(out, next - 1)' = Between(o, n)'
  OBVIOUS
<1>5. QED
  BY <1>1, <1>2 DEF Follows, IsolatesTarget

(* At the end of the file what was copied is right.                          *)
LEMMA ArriveClose ==
  ASSUME UNCHANGED inputVars, pc' = "close", NEW o, out' = o, Good(o, Len(file) + 1)
  PROVE  Follows'
<1>1. Good(o, Len(file) + 1)' /\ Len(file)' = Len(file)
  BY SameFile
<1>2. Good(out, Len(file) + 1)'
  BY <1>1
<1>3. QED
  BY <1>2 DEF Follows, IsolatesTarget

(* A source that cannot be opened has nothing copied.                        *)
LEMMA PosOpenFails ==
  ASSUME TypeInv, Regular, Follows, OpenFails
  PROVE  Follows'
<1>1. pc' = "done" /\ result' = -1
  BY DEF OpenFails, Follows
<1>2. QED
  BY <1>1 DEF Follows, IsolatesTarget

(* Open() is in front of the first line.                                     *)
LEMMA PosOpen ==
  ASSUME TypeInv, Regular, Follows, Open
  PROVE  Follows'
<1>1. /\ pc' = "next" /\ next' = 1 /\ out' = <<>> /\ count' = 0 /\ ~eof' /\ UNCHANGED inputVars
      /\ Inputs
  BY DEF Open, Follows, readVars, TypeInv
<1>2. Good(<<>>, 1)
  <2>1. 1 - 1 = 0 /\ NoTarget(0)
    BY DEF NoTarget
  <2>2. QED
    BY <1>1, <2>1, CopiedFacts DEF Good
<1>3. Between(<<>>, 0)
  <2>1. Len(file) \in Nat /\ DOMAIN file = 1 .. Len(file)
    BY <1>1, PartsType
  <2>2. CASE Len(file) = 0
    BY <1>1, <1>2, <2>2, Places DEF Between
  <2>3. CASE Len(file) # 0
    <3>1. 1 \in DOMAIN file
      BY <2>1, <2>3
    <3>2. Len(K(1)) \in Nat \ {0} /\ LinesBefore(1) = 0
      BY <1>1, <3>1, PartsType, Places
    <3>3. 0 \in 0 .. Len(K(1)) - 1 /\ 0 = LinesBefore(1) + 0
      BY <3>2
    <3>4. QED
      BY <1>2, <3>1, <3>3 DEF Between
  <2>4. QED
    BY <2>2, <2>3
<1>4. Depth(0) = 0
  BY <1>1, DepthFacts
<1>5. next' - 1 = 0
  BY <1>1
<1>6. QED
  BY <1>1, <1>3, <1>4, <1>5, ArriveNext

(* A line within brackets of an item that is passed over is passed over.     *)
LEMMA PosInside ==
  ASSUME TypeInv, Regular, Follows, InsideBrackets
  PROVE  Follows'
<1>1. /\ pc' = "next" /\ next' = next /\ out' = out /\ eof' = eof /\ UNCHANGED inputVars
      /\ count' = count + checkCurlyBrackets(line.toks) /\ count # 0 /\ pc = "scan"
      /\ Inputs
  BY DEF InsideBrackets, readVars, TypeInv
<1>2. AtScan /\ (terminated => ~eof)
  BY <1>1 DEF Follows
<1>3. PICK n \in 1 .. Len(text) : n = line.no
  BY <1>2 DEF AtScan
<1>4. n = next - 1 /\ line.toks = text[n] /\ count = Depth(n - 1) /\ Between(out, n - 1)
  BY <1>2, <1>3 DEF AtScan
<1>5. PICK k \in DOMAIN file : \E j \in 1 .. Len(K(k)) :
        n = LinesBefore(k) + j /\ text[n] = K(k)[j] /\ Good(out, k) /\ (j = 1 \/ Dropped(k))
  BY <1>1, <1>4, LineIs
<1>6. PICK j \in 1 .. Len(K(k)) :
        n = LinesBefore(k) + j /\ text[n] = K(k)[j] /\ Good(out, k) /\ (j = 1 \/ Dropped(k))
  BY <1>5
<1>7. K(k) \in Seq(Seq(STRING)) /\ Len(K(k)) \in Nat /\ LinesBefore(k) \in Nat
      /\ DOMAIN K(k) = 1 .. Len(K(k))
  BY <1>1, PartsType, Places
<1>8. DepthIn(K(k))[j - 1] # 0
  <2>1. j - 1 \in 0 .. Len(K(k)) /\ n - 1 = LinesBefore(k) + (j - 1)
    BY <1>6, <1>7
  <2>2. Depth(LinesBefore(k) + (j - 1)) = DepthIn(K(k))[j - 1]
    BY <1>1, <2>1, DepthAt
  <2>3. QED
    BY <1>1, <1>4, <2>1, <2>2
<1>9. j # 1
  <2>1. DepthIn(K(k))[0] = 0
    BY <1>7, DepthInFacts
  <2>2. QED
    BY <1>8, <2>1
<1>10. Dropped(k) /\ Plain(K(k)[j])
  <2>1. Dropped(k) /\ IsOther(K(k))
    BY <1>6, <1>9 DEF Dropped
  <2>2. QED
    BY <1>7, <1>8, <2>1 DEF IsOther
<1>11. count' = Depth(n)
  <2>1. Depth(n) = Depth(n - 1) + checkCurlyBrackets(text[n])
    BY <1>1, <1>6, <1>10, PlainDepth
  <2>2. QED
    BY <1>1, <1>4, <2>1
<1>12. Between(out, n)
  BY <1>1, <1>6, <1>10, BetweenLines
<1>13. terminated => ~eof'
  BY <1>1, <1>2
<1>14. next' - 1 = n
  BY <1>1, <1>4
<1>15. QED
  BY <1>1, <1>11, <1>12, <1>13, <1>14, ArriveNext

(* The result says whether the function was found.                           *)
LEMMA PosReturn ==
  ASSUME TypeInv, Regular, Follows, Return
  PROVE  Follows'
<1>1. /\ pc' = "done" /\ out' = out /\ UNCHANGED inputVars /\ pc \in {"found", "close"}
      /\ result' = IF pc = "found" THEN 1 ELSE 0
      /\ Inputs
  BY DEF Return, TypeInv
<1>2. Tame' = Tame /\ Isolated' = Isolated /\ Roles' = Roles
  BY <1>1, SameFile
<1>3. ASSUME Tame PROVE out = Isolated /\ result' = IF "target" \in Roles THEN 1 ELSE 0
  <2>1. CASE pc = "found"
    <3>1. AtFound
      BY <1>3, <2>1 DEF Follows
    <3>2. QED
      BY <1>1, <2>1, <3>1, IsolatedIs DEF AtFound, Role
  <2>2. CASE pc = "close"
    <3>1. Good(out, Len(file) + 1) /\ Len(file) \in Nat
      BY <1>1, <2>2, PartsType DEF Follows
    <3>2. (Len(file) + 1) - 1 = Len(file)
      BY <3>1
    <3>3. QED
      BY <1>1, <1>3, <2>2, <3>1, <3>2, IsolatedIs DEF Good
  <2>3. QED
    BY <1>1, <2>1, <2>2
<1>4. IsolatesTarget'
  BY <1>1, <1>2, <1>3 DEF IsolatesTarget
<1>5. QED
  BY <1>1, <1>4 DEF Follows

(* What is looked at is at the beginning of an item, or in one that is       *)
(* passed over.                                                              *)
LEMMA PosScan ==
  ASSUME TypeInv, Regular, Follows, Scan
  PROVE  Follows'
<1>1. /\ pc' = Class(line.toks) /\ count = 0 /\ pc = "scan" /\ count' = count /\ out' = out
      /\ closed' = FALSE /\ start' = line /\ shared' = TRUE /\ prependage' = <<>>
      /\ line' = line /\ next' = next /\ eof' = eof /\ UNCHANGED inputVars
      /\ TopLevel /\ Kind(line.toks) = Class(line.toks) /\ Inputs /\ next \in Int
  BY DEF Scan, TopLevel, readVars, TypeInv, Kind
<1>2. terminated => ~eof
  BY <1>1 DEF Follows
<1>3. PICK k \in DOMAIN file : \E j \in 1 .. Len(K(k)) : TopIs(k, j)
  BY <1>1, TopLine
<1>4. PICK j \in 1 .. Len(K(k)) : TopIs(k, j)
  BY <1>3
<1>5. /\ line.no = LinesBefore(k) + j /\ HasRead(k, j) /\ line.toks = K(k)[j] /\ Good(out, k)
      /\ DepthIn(K(k))[j - 1] = 0
  BY <1>4 DEF TopIs
<1>6. /\ K(k) \in Seq(Seq(STRING)) /\ Len(K(k)) \in Nat \ {0} /\ LinesBefore(k) \in Nat
      /\ K(k)[j] \in Seq(STRING)
  BY <1>1, PartsType, Places
<1>7. /\ DOMAIN file' = DOMAIN file /\ Tame' = Tame /\ terminated' = terminated
      /\ K(k)' = K(k) /\ LinesBefore(k)' = LinesBefore(k) /\ Role(k)' = Role(k)
      /\ NoTarget(k - 1)' = NoTarget(k - 1) /\ Copied(k - 1)' = Copied(k - 1)
      /\ CopiedTo(k, j - 1)' = CopiedTo(k, j - 1)
      /\ Dropped(k)' = Dropped(k) /\ Named(k)' = Named(k)
  BY <1>1, SameFile
<1>8. HasRead(k, j)'
  BY <1>1, <1>5, <1>7 DEF HasRead
<1>9. CASE pc' = "next"
  <2>1. j = 1 /\ Len(K(k)) = 1 /\ (Tame => Role(k) = "dropped")
    BY <1>1, <1>4, <1>9 DEF TopIs, IsPassedOver
  <2>2. Tame => out = Copied(k) /\ NoTarget(k)
    BY <1>1, <1>5, <2>1, NothingCopied, NoTargetMore DEF Good, Role
  <2> DEFINE n == LinesBefore(k) + Len(K(k))
  <2>3. Depth(n) = 0 /\ Between(out, n)
    BY <1>1, <2>2, EndOfItem, BetweenItems
  <2>4. next' - 1 = n
    BY <1>1, <1>5, <1>6, <2>1 DEF HasRead
  <2> HIDE DEF n
  <2>5. QED
    BY <1>1, <1>2, <1>9, <2>3, <2>4, ArriveNext
<1>10. CASE pc' = "comment"
  <2>1. IsComment(K(k)) /\ (Tame => Role(k) = "dropped")
    BY <1>1, <1>4, <1>10 DEF TopIs
  <2>2. AtComment'
    BY <1>1, <1>5, <1>7, <1>8, <2>1 DEF AtComment, Good
  <2>3. QED
    BY <1>1, <1>2, <1>7, <1>10, <2>2 DEF Follows, IsolatesTarget
<1>11. CASE pc' = "type"
  <2>1. j = 1 /\ IsType(K(k)) /\ (Tame => Role(k) = "context")
    BY <1>1, <1>4, <1>11 DEF TopIs
  <2>2. j \in 1 .. Len(K(k)) - 1 /\ ~ \E i \in 2 .. j : Has(K(k)[i], RightCurly)
    BY <1>6, <2>1 DEF IsType
  <2>3. Tame => out = CopiedTo(k, j - 1) /\ NoTarget(k - 1)
    <3>1. j - 1 = 0
      BY <2>1
    <3>2. QED
      BY <1>1, <1>5, <3>1, CopiedToFacts DEF Good
  <2>4. AtType'
    <3>1. closed' <=> \E i \in 2 .. j : Has(K(k)[i], RightCurly)
      BY <1>1, <2>2
    <3>2. QED
      BY <1>1, <1>5, <1>7, <1>8, <2>1, <2>2, <2>3, <3>1 DEF AtType
  <2>5. QED
    BY <1>1, <1>2, <1>7, <1>11, <2>4 DEF Follows, IsolatesTarget
<1>12. CASE pc' = "declare"
  <2>1. /\ Declares(K(k)[j]) /\ (IsOther(K(k)) \/ (j = 1 /\ IsNamed(K(k))))
        /\ Tame => \/ /\ IsVariable(K(k))
                      /\ Role(k) = IF Has(K(k)[1], "static") THEN "dropped" ELSE "variable"
                   \/ Dropped(k)
                   \/ Named(k)
    BY <1>1, <1>4, <1>12 DEF TopIs
  <2>2. 1 \in 1 .. Len(K(k)[j]) + 1 /\ StatementAt(K(k)[j], 1) /\ start'.toks = From(K(k)[j], 1)
    BY <1>1, <1>5, <1>6, FromAll, LenProperties DEF StatementAt
  <2>3. Tame => NoTarget(k - 1) /\ out' = Copied(k - 1)
    BY <1>1, <1>5 DEF Good
  <2>4. Tame => DeclareStyle(k, 1)'
    BY <1>7, <2>1, <2>3 DEF DeclareStyle
  <2>5. AtDeclare'
    BY <1>1, <1>5, <1>7, <1>8, <2>1, <2>2, <2>3, <2>4 DEF AtDeclare, DeclareIs
  <2>6. QED
    BY <1>1, <1>2, <1>7, <1>12, <2>5 DEF Follows, IsolatesTarget
<1>13. Class(line.toks) \in {"next", "comment", "type", "declare"}
  BY Zenon DEF Class
<1>14. QED
  BY <1>1, <1>9, <1>10, <1>11, <1>12, <1>13

--------------------------------------------------------------------------------
(* A line more of an item that is copied.                                     *)
LEMMA LineCopied ==
  ASSUME Inputs, NEW k \in DOMAIN file, NEW j \in 1 .. Len(K(k)), NEW l, l.no = LinesBefore(k) + j,
         NEW o, o = CopiedTo(k, j - 1)
  PROVE  o \o Whole(l) = CopiedTo(k, j)
<1>1. LinesBefore(k) \in Nat /\ l.no # 0
  BY Places
<1>2. Whole(l) = <<[no |-> LinesBefore(k) + j, as |-> "line"]>>
  BY <1>1 DEF Whole
<1>3. CopiedTo(k, j) = CopiedTo(k, j - 1) \o <<[no |-> LinesBefore(k) + j, as |-> "line"]>>
  BY CopiedToFacts
<1>4. QED
  BY <1>2, <1>3

(* Before the first line nothing of the item is copied, behind the last      *)
(* everything.                                                               *)
LEMMA FirstLineNext ==
  ASSUME Inputs, NEW k \in DOMAIN file
  PROVE  /\ CopiedTo(k, 1 - 1) = Copied(k - 1)
         /\ Role(k) \in {"context", "target"} => Copied(k) = CopiedTo(k, Len(K(k)))
         /\ 1 \in 1 .. Len(K(k))
<1>1. 1 - 1 = 0 /\ Len(K(k)) \in Nat \ {0}
  BY PartsType
<1>2. QED
  BY <1>1, CopiedToFacts DEF Role

(* A header is copied and the item is over, or the file is not tame.         *)
LEMMA PosInclude ==
  ASSUME TypeInv, Regular, Follows, Include
  PROVE  Follows'
<1>1. /\ count = 0 /\ pc = "scan" /\ count' = count
      /\ IF Has(line.toks, "missing") THEN pc' = "crashed" /\ out' = out
         ELSE pc' = "next" /\ out' = out \o Whole(line)
      /\ line' = line /\ next' = next /\ eof' = eof /\ UNCHANGED inputVars
      /\ TopLevel /\ Inputs /\ next \in Int
  BY DEF Include, TopLevel, readVars, TypeInv
<1>0. Kind(line.toks) = "include"
  BY DEF Include, Kind, StartsWith
<1>2. terminated => ~eof
  BY <1>1 DEF Follows
<1>3. PICK k \in DOMAIN file : \E j \in 1 .. Len(K(k)) : TopIs(k, j)
  BY <1>1, TopLine
<1>4. PICK j \in 1 .. Len(K(k)) : TopIs(k, j)
  BY <1>3
<1>5. /\ line.no = LinesBefore(k) + j /\ HasRead(k, j) /\ line.toks = K(k)[j] /\ Good(out, k)
      /\ IsInclude(K(k)) /\ (Tame => Role(k) = "context" /\ ~Has(line.toks, "missing")) /\ j = 1
  BY <1>0, <1>4 DEF TopIs
<1>6. Len(K(k)) = 1 /\ LinesBefore(k) \in Nat
  BY <1>1, <1>5, Places DEF IsInclude
<1>7. Tame' = Tame /\ terminated' = terminated
  BY <1>1, SameFile
<1>8. CASE Has(line.toks, "missing")
  BY <1>1, <1>2, <1>5, <1>7, <1>8 DEF Follows, IsolatesTarget
<1>9. CASE ~Has(line.toks, "missing")
  <2> DEFINE n == LinesBefore(k) + Len(K(k))
  <2>1. out' = out \o Whole(line)
    BY <1>1, <1>9
  <2>2. Tame => out' = Copied(k) /\ NoTarget(k)
    <3>1. ASSUME Tame PROVE out' = CopiedTo(k, 1)
      <4>1. line.no = LinesBefore(k) + 1 /\ out = CopiedTo(k, 1 - 1)
        BY <1>1, <1>5, <3>1, FirstLineNext DEF Good
      <4>2. QED
        BY <1>1, <2>1, <4>1, FirstLineNext, LineCopied
    <3>2. Tame => Copied(k) = CopiedTo(k, 1)
      BY <1>1, <1>5, <1>6, FirstLineNext
    <3>3. QED
      BY <1>1, <1>5, <3>1, <3>2, NoTargetMore DEF Good
  <2>3. Depth(n) = 0
    BY <1>1, EndOfItem
  <2>4. PICK o : o = out'
    OBVIOUS
  <2>5. Between(o, n)
    BY <1>1, <2>2, <2>4, BetweenItems
  <2>6. next' - 1 = n
    BY <1>1, <1>5, <1>6 DEF HasRead
  <2> HIDE DEF n
  <2>7. QED
    BY <1>1, <1>2, <1>9, <2>3, <2>4, <2>5, <2>6, ArriveNext
<1>10. QED
  BY <1>8, <1>9

(* The line read within an item is the item's next.                          *)
LEMMA ReadInItem ==
  ASSUME TypeInv, NEW k \in DOMAIN file, NEW j \in 1 .. Len(K(k)) - 1, HasRead(k, j),
         NEW l \in Pieces, NEW r, r = Read(l)
  PROVE  /\ j + 1 \in 1 .. Len(K(k)) /\ r.n = 1 /\ r.next = LinesBefore(k) + (j + 1) + 1
         /\ r.line.no = LinesBefore(k) + (j + 1) /\ r.line.toks = K(k)[j + 1]
         /\ terminated => ~r.eof
<1>1. Inputs /\ next = LinesBefore(k) + j + 1 /\ (eof => next = Len(text) + 1)
  BY DEF TypeInv, HasRead
<1>2. LinesBefore(k) \in Nat /\ Len(K(k)) \in Nat /\ Len(text) \in Nat
  BY <1>1, PartsType, Places
<1>3. j + 1 \in 1 .. Len(K(k)) /\ next = LinesBefore(k) + (j + 1)
  BY <1>1, <1>2
<1>4. next \in 1 .. Len(text) /\ text[next] = K(k)[j + 1]
  BY <1>1, <1>3, Places
<1>5. /\ r.n = 1 /\ r.next = next + 1 /\ r.line = [no |-> next, toks |-> text[next]]
      /\ (r.eof <=> next = Len(text) /\ ~terminated)
  BY <1>1, <1>2, <1>4, ReadIs
<1>6. QED
  BY <1>3, <1>4, <1>5

(* The first line of a #define is copied,                                    *)
LEMMA PosDefine ==
  ASSUME TypeInv, Regular, Follows, Define
  PROVE  Follows'
<1>1. /\ count = 0 /\ pc = "scan" /\ count' = count /\ out' = out \o Whole(line)
      /\ pc' = IF Has(line.toks, "\\") THEN "define" ELSE "next"
      /\ line' = line /\ next' = next /\ eof' = eof /\ UNCHANGED inputVars
      /\ TopLevel /\ Inputs /\ next \in Int /\ Kind(line.toks) = "define"
  BY DEF Define, TopLevel, readVars, TypeInv, Kind
<1>2. terminated => ~eof
  BY <1>1 DEF Follows
<1>3. PICK k \in DOMAIN file : \E j \in 1 .. Len(K(k)) : TopIs(k, j)
  BY <1>1, TopLine
<1>4. PICK j \in 1 .. Len(K(k)) : TopIs(k, j)
  BY <1>3
<1>5. /\ line.no = LinesBefore(k) + 1 /\ HasRead(k, 1) /\ line.toks = K(k)[1] /\ Good(out, k)
      /\ IsDefine(K(k)) /\ (Tame => Role(k) = "context")
  BY <1>1, <1>4 DEF TopIs
<1>6. /\ Len(K(k)) \in Nat \ {0} /\ LinesBefore(k) \in Nat /\ DOMAIN K(k) = 1 .. Len(K(k))
  BY <1>1, PartsType, Places
<1>7. /\ DOMAIN file' = DOMAIN file /\ Tame' = Tame /\ terminated' = terminated
      /\ K(k)' = K(k) /\ LinesBefore(k)' = LinesBefore(k) /\ Role(k)' = Role(k)
      /\ NoTarget(k - 1)' = NoTarget(k - 1) /\ CopiedTo(k, 1)' = CopiedTo(k, 1)
  BY <1>1, SameFile
<1>8. Has(line.toks, "\\") <=> 1 # Len(K(k))
  BY <1>5, <1>6 DEF IsDefine
<1>9. ASSUME Tame PROVE out' = CopiedTo(k, 1) /\ NoTarget(k - 1) /\ Role(k) = "context"
  <2>1. out = CopiedTo(k, 1 - 1)
    BY <1>1, <1>5, <1>9, FirstLineNext DEF Good
  <2>2. QED
    BY <1>1, <1>5, <1>9, <2>1, FirstLineNext, LineCopied DEF Good
<1>10. CASE 1 # Len(K(k))
  <2>1. pc' = "define" /\ 1 \in 1 .. Len(K(k)) - 1
    BY <1>1, <1>6, <1>8, <1>10
  <2>2. HasRead(k, 1)'
    BY <1>1, <1>5, <1>7 DEF HasRead
  <2>3. AtDefine'
    BY <1>5, <1>7, <1>9, <2>1, <2>2 DEF AtDefine
  <2>4. QED
    BY <1>1, <1>2, <1>7, <2>1, <2>3 DEF Follows, IsolatesTarget
<1>11. CASE 1 = Len(K(k))
  <2> DEFINE n == LinesBefore(k) + Len(K(k))
  <2>1. pc' = "next"
    BY <1>1, <1>8, <1>11
  <2>2. Tame => out' = Copied(k) /\ NoTarget(k)
    BY <1>1, <1>9, <1>11, FirstLineNext, NoTargetMore
  <2>3. Depth(n) = 0
    BY <1>1, EndOfItem
  <2>4. PICK o : o = out'
    OBVIOUS
  <2>5. Between(o, n)
    BY <1>1, <2>2, <2>4, BetweenItems
  <2>6. next' - 1 = n
    <3>1. next' = LinesBefore(k) + 1 + 1
      BY <1>1, <1>5 DEF HasRead
    <3>2. n = LinesBefore(k) + 1
      BY <1>11
    <3>3. (LinesBefore(k) + 1 + 1) - 1 = LinesBefore(k) + 1
      BY <1>6
    <3>4. QED
      BY <3>1, <3>2, <3>3
  <2> HIDE DEF n
  <2>7. QED
    BY <1>1, <1>2, <2>1, <2>3, <2>4, <2>5, <2>6, ArriveNext
<1>12. QED
  BY <1>10, <1>11

(* and resolveDefine() copies the others, up to the last.                    *)
LEMMA PosResolve ==
  ASSUME TypeInv, Regular, Follows, ResolveDefine
  PROVE  Follows'
<1>1. PICK r : r = Read(Blank)
  OBVIOUS
<1>2. /\ pc = "define" /\ next' = r.next /\ eof' = r.eof /\ count' = count
      /\ out' = IF r.n = 1 THEN out \o Whole(r.line) ELSE out
      /\ pc' = CASE r.n = -1 -> "crashed"
                 [] r.n = 1 /\ Has(r.line.toks, "\\") -> "define"
                 [] OTHER -> "next"
      /\ UNCHANGED inputVars /\ Inputs
  BY <1>1 DEF ResolveDefine, Take, TypeInv
<1>3. count = 0 /\ AtDefine
  BY <1>2 DEF Follows
<1>4. PICK k \in DOMAIN file : \E j \in 1 .. Len(K(k)) - 1 :
        /\ HasRead(k, j) /\ IsDefine(K(k))
        /\ Tame => Role(k) = "context" /\ NoTarget(k - 1) /\ out = CopiedTo(k, j)
  BY <1>3 DEF AtDefine
<1>5. PICK j \in 1 .. Len(K(k)) - 1 :
        /\ HasRead(k, j) /\ IsDefine(K(k))
        /\ Tame => Role(k) = "context" /\ NoTarget(k - 1) /\ out = CopiedTo(k, j)
  BY <1>4
<1>6. /\ Len(K(k)) \in Nat \ {0} /\ LinesBefore(k) \in Nat /\ DOMAIN K(k) = 1 .. Len(K(k))
  BY <1>2, PartsType, Places
<1>7. Blank \in Pieces
  BY <1>2, BlankIsPiece
<1>0. PICK i : i = j + 1
  OBVIOUS
<1>8. /\ i \in 1 .. Len(K(k)) /\ r.n = 1 /\ next' = LinesBefore(k) + i + 1
      /\ r.line.no = LinesBefore(k) + i /\ r.line.toks = K(k)[i] /\ (terminated => ~eof')
      /\ i - 1 = j
  BY <1>0, <1>1, <1>2, <1>5, <1>7, ReadInItem
<1>9. Has(r.line.toks, "\\") <=> i # Len(K(k))
  BY <1>5, <1>6, <1>8 DEF IsDefine
<1>10. Tame => out' = CopiedTo(k, i) /\ NoTarget(k - 1) /\ Role(k) = "context"
  BY <1>2, <1>5, <1>8, LineCopied
<1>11. /\ DOMAIN file' = DOMAIN file /\ Tame' = Tame /\ terminated' = terminated
       /\ K(k)' = K(k) /\ LinesBefore(k)' = LinesBefore(k) /\ Role(k)' = Role(k)
       /\ NoTarget(k - 1)' = NoTarget(k - 1) /\ CopiedTo(k, i)' = CopiedTo(k, i)
  BY <1>2, SameFile
<1>12. CASE i # Len(K(k))
  <2>1. i \in 1 .. Len(K(k)) - 1
    <3>1. i \in 1 .. Len(K(k)) /\ Len(K(k)) \in Nat
      BY <1>6, <1>8
    <3>2. QED
      BY <1>12, <3>1
  <2>0. pc' = "define"
    <3>1. r.n = 1 /\ r.n # -1
      BY <1>8
    <3>2. QED
      BY <1>2, <1>9, <1>12, <3>1, Zenon
  <2>2. HasRead(k, i)'
    BY <1>8, <1>11 DEF HasRead
  <2>3. AtDefine'
    BY <1>5, <1>10, <1>11, <2>1, <2>2 DEF AtDefine
  <2>4. QED
    BY <1>2, <1>3, <1>8, <1>11, <2>0, <2>3 DEF Follows, IsolatesTarget
<1>13. CASE i = Len(K(k))
  <2> DEFINE n == LinesBefore(k) + Len(K(k))
  <2>0. r.n # -1
    BY <1>8
  <2>1. pc' = "next"
    BY <1>2, <1>9, <1>13, <2>0, Zenon
  <2>2. Tame => out' = Copied(k) /\ NoTarget(k)
    BY <1>2, <1>10, <1>13, FirstLineNext, NoTargetMore
  <2>3. Depth(n) = 0
    BY <1>2, EndOfItem
  <2>4. PICK o : o = out'
    OBVIOUS
  <2>5. Between(o, n)
    BY <1>2, <2>2, <2>4, BetweenItems
  <2>6. next' - 1 = n
    BY <1>6, <1>8, <1>13
  <2> HIDE DEF n
  <2>7. QED
    BY <1>2, <1>3, <1>8, <2>1, <2>3, <2>4, <2>5, <2>6, ArriveNext
<1>14. QED
  BY <1>12, <1>13

(* It is to look at a line, with what it should know of it.                  *)
LEMMA ArriveScan ==
  ASSUME UNCHANGED inputVars, pc' = "scan", NEW n \in 1 .. Len(text), line'.no = n,
         line'.toks = text[n], next' - 1 = n, count' = Depth(n - 1),
         NEW o, out' = o, Between(o, n - 1), terminated => ~eof'
  PROVE  Follows'
<1>1. /\ terminated' = terminated /\ text' = text
      /\ Depth(n - 1)' = Depth(n - 1) /\ Between(o, n - 1)' = Between(o, n - 1)
  BY SameFile
<1>2. Depth(line.no - 1)' = Depth(n - 1)' /\ Between(out, line.no - 1)' = Between(o, n - 1)'
  OBVIOUS
<1>3. AtScan'
  BY <1>1, <1>2 DEF AtScan
<1>4. QED
  BY <1>1, <1>3 DEF Follows, IsolatesTarget

(* What comes behind an item does not begin with '*'.                         *)
LEMMA NoStar ==
  ASSUME Inputs, Regular, NEW o, NEW n \in 1 .. Len(text), Between(o, n - 1), Depth(n - 1) = 0
  PROVE  ~StartsWith(text[n], "*")
<1>1. PICK k \in DOMAIN file : \E j \in 1 .. Len(K(k)) :
        n = LinesBefore(k) + j /\ text[n] = K(k)[j] /\ Good(o, k) /\ (j = 1 \/ Dropped(k))
  BY LineIs
<1>2. PICK j \in 1 .. Len(K(k)) :
        n = LinesBefore(k) + j /\ text[n] = K(k)[j] /\ Good(o, k) /\ (j = 1 \/ Dropped(k))
  BY <1>1
<1>3. K(k) \in Seq(Seq(STRING)) /\ Len(K(k)) \in Nat \ {0} /\ LinesBefore(k) \in Nat
      /\ DOMAIN K(k) = 1 .. Len(K(k))
  BY PartsType, Places
<1>4. CASE j = 1
  <2>1. ~StartsWith(K(k)[1], "*")
    BY <1>3, StyleOf, FollowedKind
  <2>2. QED
    BY <1>2, <1>4, <2>1
<1>5. CASE j # 1
  <2>1. j - 1 \in 0 .. Len(K(k)) /\ n - 1 = LinesBefore(k) + (j - 1)
    BY <1>2, <1>3
  <2>2. DepthIn(K(k))[j - 1] = 0
    BY <2>1, DepthAt
  <2>3. IsOther(K(k))
    BY <1>2, <1>5 DEF Dropped
  <2>4. Declares(K(k)[j])
    BY <1>3, <2>2, <2>3 DEF IsOther
  <2>5. QED
    BY <1>2, <2>4 DEF Declares
<1>6. QED
  BY <1>4, <1>5

(* The lines of a comment are passed over, up to the first behind it.        *)
LEMMA PosComment ==
  ASSUME TypeInv, Regular, Follows, SkipComment
  PROVE  Follows'
<1>1. PICK r : r = Read(line)
  OBVIOUS
<1>2. /\ pc = "comment" /\ next' = r.next /\ eof' = r.eof /\ line' = r.line /\ count' = count
      /\ out' = out
      /\ pc' = IF StartsWith(r.line.toks, "*") THEN IF r.n = -1 THEN "endless" ELSE "comment"
               ELSE IF r.n > 0 THEN "scan" ELSE "close"
      /\ UNCHANGED inputVars /\ Inputs /\ line \in Pieces
      /\ Len(text) \in Nat /\ next \in 1 .. Len(text) + 1 /\ (eof => next = Len(text) + 1)
  BY <1>1, PartsType DEF SkipComment, Take, TypeInv
<1>3. count = 0 /\ AtComment /\ (terminated => ~eof)
  BY <1>2 DEF Follows
<1>4. PICK k \in DOMAIN file : \E j \in 1 .. Len(K(k)) :
        /\ HasRead(k, j) /\ IsComment(K(k))
        /\ Tame => Role(k) = "dropped" /\ NoTarget(k - 1) /\ out = Copied(k - 1)
  BY <1>3 DEF AtComment
<1>5. PICK j \in 1 .. Len(K(k)) :
        /\ HasRead(k, j) /\ IsComment(K(k))
        /\ Tame => Role(k) = "dropped" /\ NoTarget(k - 1) /\ out = Copied(k - 1)
  BY <1>4
<1>6. /\ Len(K(k)) \in Nat \ {0} /\ LinesBefore(k) \in Nat /\ DOMAIN K(k) = 1 .. Len(K(k))
  BY <1>2, PartsType, Places
<1>7. /\ DOMAIN file' = DOMAIN file /\ Tame' = Tame /\ terminated' = terminated
      /\ K(k)' = K(k) /\ LinesBefore(k)' = LinesBefore(k) /\ Role(k)' = Role(k)
      /\ NoTarget(k - 1)' = NoTarget(k - 1) /\ Copied(k - 1)' = Copied(k - 1)
  BY <1>2, SameFile
<1>8. CASE j # Len(K(k))
  <2>0. PICK i : i = j + 1
    OBVIOUS
  <2>9. j \in 1 .. Len(K(k)) - 1
    <3>1. j \in 1 .. Len(K(k)) /\ Len(K(k)) \in Nat
      BY <1>6
    <3>2. QED
      BY <1>8, <3>1
  <2>1. /\ i \in 1 .. Len(K(k)) /\ r.n = 1 /\ next' = LinesBefore(k) + i + 1
        /\ r.line.toks = K(k)[i] /\ (terminated => ~eof')
    BY <1>1, <1>2, <1>5, <2>0, <2>9, ReadInItem
  <2>2. StartsWith(r.line.toks, "*")
    <3>1. i \in 2 .. Len(K(k))
      BY <1>6, <2>0, <2>1, <2>9
    <3>2. QED
      BY <1>5, <2>1, <3>1 DEF IsComment
  <2>3. pc' = "comment"
    <3>1. r.n # -1
      BY <2>1
    <3>2. QED
      BY <1>2, <2>2, <3>1
  <2>4. HasRead(k, i)'
    BY <1>7, <2>1 DEF HasRead
  <2>5. AtComment'
    BY <1>2, <1>5, <1>7, <2>1, <2>4 DEF AtComment
  <2>6. QED
    BY <1>2, <1>3, <1>7, <2>1, <2>3, <2>5 DEF Follows, IsolatesTarget
<1>9. CASE j = Len(K(k))
  <2>1. next - 1 = LinesBefore(k) + Len(K(k))
    BY <1>5, <1>6, <1>9 DEF HasRead
  <2>2. Tame => out = Copied(k) /\ NoTarget(k)
    BY <1>2, <1>5, NothingCopied, NoTargetMore DEF Role
  <2>3. Between(out, next - 1) /\ Depth(next - 1) = 0
    BY <1>2, <2>1, <2>2, BetweenItems, EndOfItem
  <2>4. CASE r.n = 1
    <3>1. /\ next \in 1 .. Len(text) /\ next' = next + 1 /\ line'.no = next
          /\ line'.toks = text[next] /\ (terminated => ~eof')
      BY <1>1, <1>2, <2>4, ReadIs
    <3>2. PICK n \in 1 .. Len(text) : n = next
      BY <3>1
    <3>3. ~StartsWith(text[n], "*")
      BY <1>2, <2>3, <3>2, NoStar
    <3>4. pc' = "scan"
      <4>1. r.n > 0
        BY <2>4
      <4>2. QED
        BY <1>2, <3>1, <3>2, <3>3, <4>1
    <3>5. next' - 1 = n
      BY <1>2, <3>1, <3>2
    <3>6. QED
      BY <1>2, <1>3, <2>3, <3>1, <3>2, <3>4, <3>5, ArriveScan
  <2>5. CASE r.n = 0
    <3>1. next - 1 = Len(text) /\ r.line = Blank
      BY <1>1, <1>2, <2>5, ReadIs
    <3>2. ~StartsWith(r.line.toks, "*")
      BY <3>1 DEF Blank, StartsWith
    <3>3. pc' = "close"
      <4>1. ~(r.n > 0)
        BY <2>5
      <4>2. QED
        BY <1>2, <3>2, <4>1
    <3>4. Good(out, Len(file) + 1)
      BY <1>2, <2>3, <3>1, AtTheEnd
    <3>5. QED
      BY <1>2, <3>3, <3>4, ArriveClose
  <2>6. CASE r.n = -1
    <3>1. next - 1 = Len(text) /\ eof
      BY <1>1, <1>2, <2>6, ReadIs
    <3>2. ~terminated /\ ~Tame
      BY <1>3, <3>1 DEF Tame
    <3>3. ~(r.n > 0)
      BY <2>6
    <3>4. CASE StartsWith(r.line.toks, "*")
      <4>1. pc' = "endless"
        BY <1>2, <2>6, <3>4
      <4>2. QED
        BY <1>7, <3>2, <4>1 DEF Follows, IsolatesTarget
    <3>5. CASE ~StartsWith(r.line.toks, "*")
      <4>1. pc' = "close"
        BY <1>2, <3>3, <3>5
      <4>2. Good(out, Len(file) + 1)
        BY <1>2, <2>3, <3>1, AtTheEnd
      <4>3. QED
        BY <1>2, <4>1, <4>2, ArriveClose
    <3>6. QED
      BY <3>4, <3>5
  <2>7. QED
    BY <1>1, <1>2, <2>4, <2>5, <2>6, ReadIs
<1>10. QED
  BY <1>8, <1>9

(* A type's lines are copied, the last two when the last has been read.      *)
LEMMA PosType ==
  ASSUME TypeInv, Regular, Follows, TypeLine
  PROVE  Follows'
<1> DEFINE last(r) == closed' /\ Has(r.line.toks, Semicolon)
<1>1. PICK r : r = Read(line)
  OBVIOUS
<1>2. /\ pc = "type" /\ next' = r.next /\ eof' = r.eof /\ line' = r.line /\ count' = count
      /\ closed' = (closed \/ Has(r.line.toks, RightCurly))
      /\ out' = IF last(r) THEN out \o Whole(line) \o Whole(r.line) ELSE out \o Whole(line)
      /\ pc' = CASE last(r) -> "next" [] ~last(r) /\ r.n = -1 -> "endless" [] OTHER -> "type"
      /\ UNCHANGED inputVars /\ Inputs /\ line \in Pieces
  BY <1>1 DEF TypeLine, Take, TypeInv
<1>0. last(r) <=> closed' /\ Has(r.line.toks, Semicolon)
  OBVIOUS
<1> HIDE DEF last
<1>3. count = 0 /\ AtType /\ (terminated => ~eof)
  BY <1>2 DEF Follows
<1>4. PICK k \in DOMAIN file : \E j \in 1 .. Len(K(k)) - 1 :
    /\ HasRead(k, j) /\ IsType(K(k)) /\ line.no = LinesBefore(k) + j
    /\ closed <=> \E i \in 2 .. j : Has(K(k)[i], RightCurly)
    /\ Tame => Role(k) = "context" /\ NoTarget(k - 1) /\ out = CopiedTo(k, j - 1)
  BY <1>3 DEF AtType
<1>5. PICK j \in 1 .. Len(K(k)) - 1 :
    /\ HasRead(k, j) /\ IsType(K(k)) /\ line.no = LinesBefore(k) + j
    /\ closed <=> \E i \in 2 .. j : Has(K(k)[i], RightCurly)
    /\ Tame => Role(k) = "context" /\ NoTarget(k - 1) /\ out = CopiedTo(k, j - 1)
  BY <1>4
<1>6. /\ Len(K(k)) \in Nat \ {0} /\ LinesBefore(k) \in Nat /\ DOMAIN K(k) = 1 .. Len(K(k))
  BY <1>2, PartsType, Places
<1>7. PICK i : i = j + 1
  OBVIOUS
<1>8. /\ i \in 2 .. Len(K(k)) /\ i \in 1 .. Len(K(k)) /\ r.n = 1
      /\ next' = LinesBefore(k) + i + 1 /\ line'.no = LinesBefore(k) + i
      /\ r.line.toks = K(k)[i] /\ (terminated => ~eof') /\ i - 1 = j /\ j \in 1 .. Len(K(k))
  BY <1>1, <1>2, <1>5, <1>6, <1>7, ReadInItem
<1>9. closed' <=> \E p \in 2 .. i : Has(K(k)[p], RightCurly)
  <2>1. \A p \in 2 .. i : p \in 2 .. j \/ p = i
    BY <1>6, <1>8
  <2>2. \A p \in 2 .. j : p \in 2 .. i
    BY <1>6, <1>8
  <2>3. i \in 2 .. i
    BY <1>6, <1>8
  <2>4. closed' <=> (closed \/ Has(K(k)[i], RightCurly))
    BY <1>2, <1>8
  <2>5. closed <=> \E p \in 2 .. j : Has(K(k)[p], RightCurly)
    BY <1>5
  <2>6. QED
    BY <2>1, <2>2, <2>3, <2>4, <2>5
<1>10. last(r) <=> i = Len(K(k))
  <2>1. Has(K(k)[i], Semicolon) /\ (\E p \in 2 .. i : Has(K(k)[p], RightCurly)) <=> i = Len(K(k))
    BY <1>5, <1>8 DEF IsType
  <2>2. QED
    BY <1>0, <1>8, <1>9, <2>1
<1>11. /\ DOMAIN file' = DOMAIN file /\ Tame' = Tame /\ terminated' = terminated
       /\ K(k)' = K(k) /\ LinesBefore(k)' = LinesBefore(k) /\ Role(k)' = Role(k)
       /\ NoTarget(k - 1)' = NoTarget(k - 1) /\ CopiedTo(k, j)' = CopiedTo(k, j)
       /\ CopiedTo(k, i - 1)' = CopiedTo(k, i - 1)
  BY <1>2, SameFile
<1>12. Tame => out \o Whole(line) = CopiedTo(k, j)
  BY <1>2, <1>5, <1>8, LineCopied
<1>13. CASE i # Len(K(k))
  <2>1. i \in 1 .. Len(K(k)) - 1
    <3>1. i \in 1 .. Len(K(k)) /\ Len(K(k)) \in Nat
      BY <1>6, <1>8
    <3>2. QED
      BY <1>13, <3>1
  <2>2. pc' = "type"
    <3>1. r.n # -1
      BY <1>8
    <3>2. QED
      BY <1>2, <1>10, <1>13, <3>1, Zenon
  <2>3. HasRead(k, i)'
    BY <1>8, <1>11 DEF HasRead
  <2>4. Tame => out' = CopiedTo(k, i - 1)
    <3>1. out' = out \o Whole(line)
      BY <1>2, <1>10, <1>13
    <3>2. QED
      BY <1>8, <1>12, <3>1
  <2>5. AtType'
    <3>1. closed' <=> \E p \in 2 .. i : Has(K(k)'[p], RightCurly)
      BY <1>9, <1>11
    <3>2. QED
      BY <1>5, <1>8, <1>11, <2>1, <2>3, <2>4, <3>1 DEF AtType
  <2>6. QED
    BY <1>2, <1>3, <1>8, <1>11, <2>2, <2>5 DEF Follows, IsolatesTarget
<1>14. CASE i = Len(K(k))
  <2> DEFINE n == LinesBefore(k) + Len(K(k))
  <2>1. pc' = "next"
    BY <1>2, <1>10, <1>14, Zenon
  <2>2. Tame => out' = Copied(k) /\ NoTarget(k)
    <3>1. out' = (out \o Whole(line)) \o Whole(line')
      BY <1>2, <1>10, <1>14
    <3>2. Tame => out' = CopiedTo(k, i)
      BY <1>2, <1>8, <1>12, <3>1, LineCopied
    <3>3. QED
      BY <1>2, <1>5, <1>14, <3>2, FirstLineNext, NoTargetMore
  <2>3. Depth(n) = 0
    BY <1>2, EndOfItem
  <2>4. PICK o : o = out'
    OBVIOUS
  <2>5. Between(o, n)
    BY <1>2, <2>2, <2>4, BetweenItems
  <2>6. next' - 1 = n
    BY <1>6, <1>8, <1>14
  <2> HIDE DEF n
  <2>7. QED
    BY <1>2, <1>3, <1>8, <2>1, <2>3, <2>4, <2>5, <2>6, ArriveNext
<1>15. QED
  BY <1>13, <1>14

(* The statements of another item are not the function's.                     *)
LEMMA NotNamed ==
  ASSUME NEW lines \in Seq(Seq(STRING)), IsOther(lines), NEW j \in 1 .. Len(lines),
         DepthIn(lines)[j - 1] = 0, NEW m \in 1 .. Len(lines[j]) + 1, StatementAt(lines[j], m)
  PROVE  ~NamedAt(lines[j], m)
<1>1. j \in DOMAIN lines
  OBVIOUS
<1>2. QED
  BY <1>1 DEF IsOther

(* An item with the function's header or prototype is no other item.         *)
LEMMA OtherOrNamed ==
  ASSUME Inputs, NEW k \in DOMAIN file, Named(k)
  PROVE  ~IsOther(K(k)) /\ IsNamed(K(k)) /\ determine_type(K(k)[1]) # "SEMICOLON"
<1>1. IsNamed(K(k)) /\ determine_type(K(k)[1]) # "SEMICOLON"
  BY DEF Named, IsPrototype, IsDefinition
<1>2. /\ K(k) \in Seq(Seq(STRING)) /\ K(k)[1] \in Seq(STRING) /\ 1 \in 1 .. Len(K(k))
      /\ DepthIn(K(k))[1 - 1] = 0
  <2>1. Len(K(k)) \in Nat \ {0} /\ K(k) \in Seq(Seq(STRING))
    BY PartsType
  <2>2. DepthIn(K(k))[0] = 0 /\ 1 - 1 = 0
    BY <2>1, DepthInFacts
  <2>3. QED
    BY <2>1, <2>2
<1>3. 1 \in 1 .. Len(K(k)[1]) + 1 /\ StatementAt(K(k)[1], 1) /\ From(K(k)[1], 1) = K(k)[1]
  BY <1>2, FromAll, LenProperties DEF StatementAt
<1>4. NamedAt(K(k)[1], 1)
  BY <1>1, <1>3 DEF IsNamed
<1>5. QED
  BY <1>1, <1>2, <1>3, <1>4, NotNamed

(* The header is over in the line where the item says so.                    *)
LEMMA HeaderEnds ==
  ASSUME NEW lines, NEW m, NEW h \in 1 .. Len(lines), NEW i \in 1 .. h, HeaderIn(lines, m, h)
  PROVE  HeaderEnd(lines, m, i) = "end" <=> i # h
BY DEF HeaderIn

(* What is known of a statement that is looked at.                           *)
LEMMA DeclareFacts ==
  ASSUME Inputs, NEW k \in DOMAIN file, NEW j \in 1 .. Len(K(k)), NEW m \in 1 .. Len(K(k)[j]) + 1,
         DeclareIs(k, j, m)
  PROVE  /\ K(k) \in Seq(Seq(STRING)) /\ K(k)[j] \in Seq(STRING)
         /\ determine_type(start.toks) # "UNDEFINED"
         /\ Matches <=> Mentions(start.toks)
         /\ IsOther(K(k)) => ~NamedAt(K(k)[j], m)
         /\ m = 1 => start.toks = K(k)[j]
<1>1. K(k) \in Seq(Seq(STRING)) /\ K(k)[j] \in Seq(STRING)
  BY PartsType
<1>2. determine_type(start.toks) # "UNDEFINED"
  BY DEF DeclareIs, Declares
<1>3. Matches <=> Mentions(start.toks)
  <2>1. prependage = <<>>
    BY DEF DeclareIs
  <2>2. [i \in DOMAIN prependage |-> prependage[i].toks] = <<>>
    BY <2>1
  <2>3. QED
    BY <2>2, NothingNamed, FlattenEmpty DEF Matches
<1>4. IsOther(K(k)) => ~NamedAt(K(k)[j], m)
  BY <1>1, NotNamed DEF DeclareIs
<1>5. m = 1 => start.toks = K(k)[j]
  BY <1>1, FromAll DEF DeclareIs
<1>6. QED
  BY <1>1, <1>2, <1>3, <1>4, <1>5

(* Where it looks at a statement it is in an item.                           *)
LEMMA DeclareAt ==
  ASSUME Follows, pc = "declare"
  PROVE  /\ count = 0 /\ (terminated => ~eof)
         /\ \E k \in DOMAIN file : \E j \in 1 .. Len(K(k)) : \E m \in 1 .. Len(K(k)[j]) + 1 :
              DeclareIs(k, j, m)
BY DEF Follows, AtDeclare

(* No statement that the scanner follows needs another line to be told what  *)
(* it is.                                                                    *)
LEMMA PosUndetermined ==
  ASSUME TypeInv, Regular, Follows, Undetermined
  PROVE  FALSE
<1>1. pc = "declare" /\ determine_type(start.toks) = "UNDEFINED" /\ Inputs
  BY DEF Undetermined, Type, TypeInv
<1>2. PICK k \in DOMAIN file : \E j \in 1 .. Len(K(k)) : \E m \in 1 .. Len(K(k)[j]) + 1 :
        DeclareIs(k, j, m)
  BY <1>1, DeclareAt
<1>3. PICK j \in 1 .. Len(K(k)) : \E m \in 1 .. Len(K(k)[j]) + 1 : DeclareIs(k, j, m)
  BY <1>2
<1>4. PICK m \in 1 .. Len(K(k)[j]) + 1 : DeclareIs(k, j, m)
  BY <1>3
<1>5. QED
  BY <1>1, <1>4, DeclareFacts

(* Another line at the top level is passed over.                              *)
LEMMA PosNotWanted ==
  ASSUME TypeInv, Regular, Follows, ReturnZero, pc = "declare"
  PROVE  Follows'
<1>1. /\ \/ determine_type(start.toks) \in {"NO_CONTENT", "CURLY_BRACKET"}
         \/ determine_type(start.toks) = "LEFT_PARENTHESIS" /\ ~Matches
      /\ count' = count + checkCurlyBrackets(line.toks) /\ pc' = "next"
      /\ next' = next /\ eof' = eof /\ out' = out /\ UNCHANGED inputVars /\ Inputs
  BY DEF ReturnZero, Type, readVars, TypeInv
<1>2. count = 0 /\ (terminated => ~eof)
  BY DeclareAt
<1>3. PICK k \in DOMAIN file : \E j \in 1 .. Len(K(k)) : \E m \in 1 .. Len(K(k)[j]) + 1 :
        DeclareIs(k, j, m)
  BY DeclareAt
<1>4. PICK j \in 1 .. Len(K(k)) : \E m \in 1 .. Len(K(k)[j]) + 1 : DeclareIs(k, j, m)
  BY <1>3
<1>5. PICK m \in 1 .. Len(K(k)[j]) + 1 : DeclareIs(k, j, m)
  BY <1>4
<1>6. /\ HasRead(k, j) /\ line.toks = K(k)[j] /\ start.toks = From(K(k)[j], m)
      /\ StatementAt(K(k)[j], m) /\ DepthIn(K(k))[j - 1] = 0 /\ Declares(K(k)[j])
      /\ IsOther(K(k)) \/ (j = 1 /\ IsNamed(K(k)))
      /\ Tame => NoTarget(k - 1) /\ DeclareStyle(k, m)
  BY <1>5 DEF DeclareIs
<1>7. IsOther(K(k))
  <2>1. SUFFICES ASSUME j = 1, IsNamed(K(k)) PROVE FALSE
    BY <1>6
  <2>2. determine_type(start.toks) = "SEMICOLON" \/ NamedAt(K(k)[1], m)
    BY <1>6, <2>1 DEF IsNamed
  <2>3. NamedAt(K(k)[1], m) => determine_type(start.toks) = "LEFT_PARENTHESIS" /\ Mentions(start.toks)
    BY <1>6, <2>1 DEF NamedAt
  <2>4. QED
    BY <1>1, <1>5, <2>2, <2>3, DeclareFacts
<1>8. LinesBefore(k) \in Nat /\ Len(K(k)) \in Nat
  BY <1>1, PartsType, Places
<1>9. PICK n : n = LinesBefore(k) + j
  OBVIOUS
<1>10. n \in 1 .. Len(text) /\ text[n] = K(k)[j] /\ next - 1 = n /\ n - 1 = LinesBefore(k) + (j - 1)
  <2>1. n \in 1 .. Len(text) /\ text[n] = K(k)[j]
    BY <1>1, <1>9, Places
  <2>2. next = n + 1
    BY <1>6, <1>9 DEF HasRead
  <2>3. QED
    BY <1>8, <1>9, <2>1, <2>2
<1>11. count' = Depth(n)
  <2>1. Plain(text[n])
    BY <1>6, <1>10 DEF Declares
  <2>2. Depth(n) = Depth(n - 1) + checkCurlyBrackets(text[n])
    BY <1>1, <1>10, <2>1, PlainDepth
  <2>3. Depth(n - 1) = 0
    <3>1. j - 1 \in 0 .. Len(K(k))
      BY <1>8
    <3>2. Depth(LinesBefore(k) + (j - 1)) = DepthIn(K(k))[j - 1]
      BY <1>1, <3>1, DepthAt
    <3>3. QED
      BY <1>6, <1>10, <3>2
  <2>4. QED
    BY <1>1, <1>2, <1>6, <1>10, <2>2, <2>3
<1>12. Between(out, n)
  <2>1. CASE Tame /\ IsVariable(K(k)) /\ start.toks = <<>> /\ out = Copied(k)
                  /\ Role(k) = IF Has(K(k)[1], "static") THEN "dropped" ELSE "variable"
    <3>1. NoTarget(k)
      BY <1>1, <1>6, <2>1, NoTargetMore
    <3>2. n = LinesBefore(k) + Len(K(k))
      BY <1>9, <2>1 DEF IsVariable
    <3>3. QED
      BY <1>1, <2>1, <3>1, <3>2, BetweenItems
  <2>2. CASE Tame => Dropped(k) /\ out = Copied(k - 1)
    <3>1. Dropped(k) /\ Good(out, k)
      BY <1>6, <1>7, <2>2 DEF Dropped, Good
    <3>2. QED
      BY <1>1, <1>9, <3>1, BetweenLines
  <2>3. CASE Tame /\ IsVariable(K(k)) /\ m = 1
    <3>1. j = 1 /\ determine_type(K(k)[1]) = "SEMICOLON"
      BY <2>3 DEF IsVariable
    <3>2. start.toks = K(k)[j]
      BY <1>1, <1>5, <2>3, DeclareFacts
    <3>3. QED
      BY <1>1, <3>1, <3>2
  <2>4. CASE Tame /\ Named(k)
    BY <1>1, <1>7, <2>4, OtherOrNamed
  <2>5. QED
    BY <1>6, <2>1, <2>2, <2>3, <2>4 DEF DeclareStyle
<1>13. next' - 1 = n
  BY <1>1, <1>10
<1>14. QED
  BY <1>1, <1>2, <1>11, <1>12, <1>13, ArriveNext

(* The prototype of the function is passed over.                              *)
LEMMA PosPrototype ==
  ASSUME TypeInv, Regular, Follows, ReturnZero, pc = "header"
  PROVE  Follows'
<1>1. /\ curly_bracket_before_semicolon(start.toks) = Semicolon
      /\ count' = count + checkCurlyBrackets(line.toks) /\ pc' = "next"
      /\ next' = next /\ eof' = eof /\ out' = out /\ UNCHANGED inputVars /\ Inputs
  BY DEF ReturnZero, readVars, TypeInv
<1>2. count = 0 /\ (terminated => ~eof) /\ AtHeader
  BY DEF Follows
<1>3. PICK k \in DOMAIN file : \E m \in 1 .. Len(K(k)[1]) + 1 :
        \E h \in 1 .. Len(K(k)) : \E i \in 1 .. h : HeaderIs(k, m, h, i)
  BY <1>2 DEF AtHeader
<1>4. PICK m \in 1 .. Len(K(k)[1]) + 1 :
        \E h \in 1 .. Len(K(k)) : \E i \in 1 .. h : HeaderIs(k, m, h, i)
  BY <1>3
<1>5. PICK h \in 1 .. Len(K(k)) : \E i \in 1 .. h : HeaderIs(k, m, h, i)
  BY <1>4
<1>6. PICK i \in 1 .. h : HeaderIs(k, m, h, i)
  BY <1>5
<1>7. /\ HasRead(k, i) /\ line.toks = K(k)[i] /\ start.toks = HeaderPart(K(k), m, i)
      /\ HeaderIn(K(k), m, h)
      /\ HeaderEnd(K(k), m, h) = Semicolon => h = Len(K(k)) /\ checkCurlyBrackets(K(k)[h]) = 0
      /\ Tame => NoTarget(k - 1) /\ out = Copied(k - 1) /\ m = 1 /\ Named(k)
  BY <1>6 DEF HeaderIs
<1>8. HeaderEnd(K(k), m, i) = Semicolon /\ i = h
  <2>1. HeaderEnd(K(k), m, i) = Semicolon
    BY <1>1, <1>7 DEF HeaderEnd
  <2>2. QED
    BY <1>7, <2>1, HeaderEnds, TokensDiffer
<1>9. i = Len(K(k)) /\ count' = 0
  BY <1>1, <1>2, <1>7, <1>8
<1>10. LinesBefore(k) \in Nat /\ Len(K(k)) \in Nat
  BY <1>1, PartsType, Places
<1>11. PICK n : n = LinesBefore(k) + Len(K(k))
  OBVIOUS
<1>12. Depth(n) = 0
  BY <1>1, <1>11, EndOfItem
<1>13. Tame => out = Copied(k) /\ NoTarget(k)
  <2>1. SUFFICES ASSUME Tame PROVE out = Copied(k) /\ NoTarget(k)
    OBVIOUS
  <2>2. ~IsDefinition(K(k))
    <3>1. SUFFICES ASSUME IsDefinition(K(k)) PROVE FALSE
      OBVIOUS
    <3>2. PICK g \in DOMAIN K(k) : HeaderIn(K(k), 1, g) /\ HeaderEnd(K(k), 1, g) = LeftCurly
      BY <3>1 DEF IsDefinition
    <3>3. g \in Nat /\ g > 0 /\ h \in Nat /\ h > 0
      <4>1. DOMAIN K(k) = 1 .. Len(K(k))
        BY <1>1, PartsType
      <4>2. QED
        BY <1>10, <4>1
    <3>4. g = h
      BY <1>7, <2>1, <3>2, <3>3, HeaderOnce
    <3>5. QED
      BY <1>7, <1>8, <2>1, <3>2, <3>4, TokensDiffer
  <2>3. Role(k) = "dropped"
    BY <1>7, <2>1, <2>2 DEF Named
  <2>4. QED
    BY <1>1, <1>7, <2>1, <2>3, NothingCopied, NoTargetMore DEF Role
<1>14. Between(out, n)
  BY <1>1, <1>11, <1>13, BetweenItems
<1>15. next' - 1 = n
  <2>1. next' = LinesBefore(k) + Len(K(k)) + 1
    BY <1>1, <1>7, <1>9 DEF HasRead
  <2>2. QED
    BY <1>10, <1>11, <2>1
<1>16. QED
  BY <1>1, <1>2, <1>9, <1>12, <1>14, <1>15, ArriveNext

(* A variable is written as an extern and is over, or it is another item's.  *)
LEMMA PosVariable ==
  ASSUME TypeInv, Regular, Follows, Variable
  PROVE  Follows'
<1>1. /\ pc = "declare" /\ determine_type(start.toks) = "SEMICOLON"
      /\ out' = IF Has(start.toks, "static") THEN out
                ELSE Append(out, [no |-> start.no, as |-> "extern"])
      /\ start'.no = start.no /\ start'.toks = AfterSemicolon(start.toks) /\ prependage' = <<>>
      /\ pc' = pc /\ line' = line /\ shared' = shared /\ count' = count
      /\ next' = next /\ eof' = eof /\ UNCHANGED inputVars /\ Inputs
  BY DEF Variable, Type, readVars, TypeInv, Pieces
<1>2. count = 0 /\ (terminated => ~eof)
  BY <1>1, DeclareAt
<1>3. PICK k \in DOMAIN file : \E j \in 1 .. Len(K(k)) : \E m \in 1 .. Len(K(k)[j]) + 1 :
        DeclareIs(k, j, m)
  BY <1>1, DeclareAt
<1>4. PICK j \in 1 .. Len(K(k)) : \E m \in 1 .. Len(K(k)[j]) + 1 : DeclareIs(k, j, m)
  BY <1>3
<1>5. PICK m \in 1 .. Len(K(k)[j]) + 1 : DeclareIs(k, j, m)
  BY <1>4
<1>6. /\ HasRead(k, j) /\ line.no = LinesBefore(k) + j /\ line.toks = K(k)[j]
      /\ start.no = line.no /\ start.toks = From(K(k)[j], m) /\ StatementAt(K(k)[j], m) /\ shared
      /\ DepthIn(K(k))[j - 1] = 0 /\ Declares(K(k)[j])
      /\ IsOther(K(k)) \/ (j = 1 /\ IsNamed(K(k)))
      /\ Tame => NoTarget(k - 1) /\ DeclareStyle(k, m)
  BY <1>5 DEF DeclareIs
<1>7. K(k)[j] \in Seq(STRING) /\ (m = 1 => start.toks = K(k)[j])
  BY <1>1, <1>5, DeclareFacts
<1>8. PICK p \in 1 .. Len(K(k)[j]) + 1 :
        AfterSemicolon(start.toks) = From(K(k)[j], p) /\ StatementAt(K(k)[j], p)
  BY <1>1, <1>6, <1>7, StatementFollows
<1>9. /\ DOMAIN file' = DOMAIN file /\ Tame' = Tame /\ terminated' = terminated
      /\ K(k)' = K(k) /\ LinesBefore(k)' = LinesBefore(k) /\ Role(k)' = Role(k)
      /\ NoTarget(k - 1)' = NoTarget(k - 1) /\ Copied(k - 1)' = Copied(k - 1)
      /\ Copied(k)' = Copied(k) /\ Dropped(k)' = Dropped(k) /\ Named(k)' = Named(k)
  BY <1>1, SameFile
<1>10. ASSUME Tame PROVE DeclareStyle(k, p)'
  <2>1. CASE Named(k) /\ m = 1
    <3>1. j = 1
      BY <1>1, <1>6, <2>1, OtherOrNamed
    <3>2. QED
      BY <1>1, <1>7, <2>1, <3>1, OtherOrNamed
  <2>2. CASE Dropped(k) /\ m = 1
    <3>1. DOMAIN K(k) = 1 .. Len(K(k)) /\ HasNoVariable(K(k))
      BY <1>1, <1>10, <2>2, PartsType DEF Dropped
    <3>2. determine_type(K(k)[j]) # "SEMICOLON"
      BY <1>6, <3>1 DEF HasNoVariable
    <3>3. QED
      BY <1>1, <1>7, <2>2, <3>2
  <2>3. CASE start.toks = <<>>
    BY <1>1, <2>3 DEF determine_type
  <2>4. CASE /\ IsVariable(K(k)) /\ Role(k) = IF Has(K(k)[1], "static") THEN "dropped" ELSE "variable"
             /\ m = 1 /\ out = Copied(k - 1)
    <3>1. Len(K(k)) = 1 /\ j = 1 /\ AfterSemicolon(K(k)[1]) = <<>> /\ start.toks = K(k)[1]
      BY <1>7, <2>4 DEF IsVariable
    <3>2. start'.toks = <<>>
      BY <1>1, <3>1
    <3>3. out' = Copied(k)
      <4>1. CASE Has(K(k)[1], "static")
        BY <1>1, <2>4, <3>1, <4>1, NothingCopied DEF Role
      <4>2. CASE ~Has(K(k)[1], "static")
        <5>1. out' = Append(Copied(k - 1), [no |-> LinesBefore(k) + 1, as |-> "extern"])
          BY <1>1, <1>6, <2>4, <3>1, <4>2
        <5>2. QED
          BY <1>1, <2>4, <3>1, <4>2, <5>1, VariableCopied DEF Role
      <4>3. QED
        BY <4>1, <4>2
    <3>4. QED
      BY <1>9, <2>4, <3>2, <3>3 DEF DeclareStyle
  <2>5. QED
    BY <1>6, <1>10, <2>1, <2>2, <2>3, <2>4 DEF DeclareStyle
<1>11. HasRead(k, j)'
  BY <1>1, <1>6, <1>9 DEF HasRead
<1>12. DeclareIs(k, j, p)'
  BY <1>1, <1>6, <1>8, <1>9, <1>10, <1>11 DEF DeclareIs
<1>13. AtDeclare'
  BY <1>8, <1>9, <1>12 DEF AtDeclare
<1>14. QED
  BY <1>1, <1>2, <1>9, <1>13 DEF Follows, IsolatesTarget

(* The header of the function begins, or of its prototype.                   *)
LEMMA PosBegins ==
  ASSUME TypeInv, Regular, Follows, FunctionBegins
  PROVE  Follows'
<1>1. /\ pc = "declare" /\ determine_type(start.toks) = "LEFT_PARENTHESIS" /\ Matches
      /\ pc' = "header" /\ line' = line /\ count' = count /\ out' = out /\ start' = start
      /\ shared' = shared /\ prependage' = prependage
      /\ next' = next /\ eof' = eof /\ UNCHANGED inputVars /\ Inputs
  BY DEF FunctionBegins, Type, readVars, funcVars, TypeInv
<1>2. count = 0 /\ (terminated => ~eof)
  BY <1>1, DeclareAt
<1>3. PICK k \in DOMAIN file : \E j \in 1 .. Len(K(k)) : \E m \in 1 .. Len(K(k)[j]) + 1 :
        DeclareIs(k, j, m)
  BY <1>1, DeclareAt
<1>4. PICK j \in 1 .. Len(K(k)) : \E m \in 1 .. Len(K(k)[j]) + 1 : DeclareIs(k, j, m)
  BY <1>3
<1>5. PICK m \in 1 .. Len(K(k)[j]) + 1 : DeclareIs(k, j, m)
  BY <1>4
<1>6. /\ HasRead(k, j) /\ line.no = LinesBefore(k) + j /\ line.toks = K(k)[j]
      /\ start.no = line.no /\ start.toks = From(K(k)[j], m) /\ StatementAt(K(k)[j], m) /\ shared
      /\ prependage = <<>>
      /\ IsOther(K(k)) \/ (j = 1 /\ IsNamed(K(k)))
      /\ Tame => NoTarget(k - 1) /\ DeclareStyle(k, m)
  BY <1>5 DEF DeclareIs
<1>7. NamedAt(K(k)[j], m) /\ ~IsOther(K(k)) /\ j = 1
  <2>1. Mentions(start.toks)
    BY <1>1, <1>5, DeclareFacts
  <2>2. NamedAt(K(k)[j], m)
    BY <1>1, <1>6, <2>1 DEF NamedAt
  <2>3. ~IsOther(K(k))
    BY <1>1, <1>5, <2>2, DeclareFacts
  <2>4. QED
    BY <1>6, <2>2, <2>3
<1>8. DOMAIN K(k) = 1 .. Len(K(k))
  BY <1>1, PartsType
<1>9. PICK h \in 1 .. Len(K(k)) :
        /\ HeaderIn(K(k), m, h)
        /\ HeaderEnd(K(k), m, h) = Semicolon => h = Len(K(k)) /\ checkCurlyBrackets(K(k)[h]) = 0
  <2>1. /\ determine_type(From(K(k)[1], m)) # "SEMICOLON" /\ StatementAt(K(k)[1], m)
        /\ IsNamed(K(k)) /\ m \in 1 .. Len(K(k)[1]) + 1
    BY <1>1, <1>6, <1>7
  <2>2. QED
    BY <1>8, <2>1 DEF IsNamed
<1>10. Tame => NoTarget(k - 1) /\ out = Copied(k - 1) /\ m = 1 /\ Named(k)
  BY <1>6, <1>7 DEF DeclareStyle, Dropped, IsVariable
<1>11. /\ DOMAIN file' = DOMAIN file /\ Tame' = Tame /\ terminated' = terminated
       /\ K(k)' = K(k) /\ LinesBefore(k)' = LinesBefore(k)
       /\ NoTarget(k - 1)' = NoTarget(k - 1) /\ Copied(k - 1)' = Copied(k - 1)
       /\ Named(k)' = Named(k)
  BY <1>1, SameFile
<1>12. HeaderIs(k, m, h, 1)'
  <2>1. HasRead(k, 1)'
    BY <1>1, <1>6, <1>7, <1>11 DEF HasRead
  <2>2. start.toks = HeaderPart(K(k), m, 1)
    BY <1>6, <1>7 DEF HeaderPart
  <2>3. Len(prependage) = 1 - 1 /\ \A q \in 1 .. 1 - 1 : prependage'[q].no = LinesBefore(k) + q
    BY <1>6
  <2>4. QED
    BY <1>1, <1>6, <1>7, <1>9, <1>10, <1>11, <2>1, <2>2, <2>3 DEF HeaderIs
<1>13. AtHeader'
  <2>1. 1 \in 1 .. h /\ m \in 1 .. Len(K(k)[1]) + 1
    BY <1>7, <1>9
  <2>2. QED
    BY <1>9, <1>11, <1>12, <2>1 DEF AtHeader
<1>14. QED
  BY <1>1, <1>2, <1>11, <1>13 DEF Follows, IsolatesTarget

(* Where it reads a header it is in the item of the function.                *)
LEMMA HeaderAt ==
  ASSUME Follows, pc = "header"
  PROVE  /\ count = 0 /\ (terminated => ~eof)
         /\ \E k \in DOMAIN file : \E m \in 1 .. Len(K(k)[1]) + 1 :
              \E h \in 1 .. Len(K(k)) : \E i \in 1 .. h : HeaderIs(k, m, h, i)
BY DEF Follows, AtHeader

(* A line more of the header is read and kept to be written.                 *)
LEMMA PosHeaderLine ==
  ASSUME TypeInv, Regular, Follows, HeaderLine
  PROVE  Follows'
<1>1. PICK r : r = Read(start)
  OBVIOUS
<1>2. /\ pc = "header" /\ curly_bracket_before_semicolon(start.toks) = "end"
      /\ next' = r.next /\ eof' = r.eof /\ start' = r.line /\ line' = IF shared THEN r.line ELSE line
      /\ prependage' = Append(prependage, start) /\ pc' = IF r.n = -1 THEN "endless" ELSE "header"
      /\ count' = count /\ shared' = shared /\ out' = out /\ UNCHANGED inputVars /\ Inputs
      /\ start \in Pieces /\ prependage \in Seq(Pieces)
  BY <1>1 DEF HeaderLine, Take, TypeInv
<1>3. PICK k \in DOMAIN file : \E m \in 1 .. Len(K(k)[1]) + 1 :
        \E h \in 1 .. Len(K(k)) : \E i \in 1 .. h : HeaderIs(k, m, h, i)
  BY <1>2, HeaderAt
<1>4. PICK m \in 1 .. Len(K(k)[1]) + 1 :
        \E h \in 1 .. Len(K(k)) : \E i \in 1 .. h : HeaderIs(k, m, h, i)
  BY <1>3
<1>5. PICK h \in 1 .. Len(K(k)) : \E i \in 1 .. h : HeaderIs(k, m, h, i)
  BY <1>4
<1>6. PICK i \in 1 .. h : HeaderIs(k, m, h, i)
  BY <1>5
<1>7. /\ HasRead(k, i) /\ line.no = LinesBefore(k) + i /\ start.no = line.no
      /\ start.toks = HeaderPart(K(k), m, i) /\ HeaderIn(K(k), m, h) /\ shared
      /\ Len(prependage) = i - 1 /\ \A q \in 1 .. i - 1 : prependage[q].no = LinesBefore(k) + q
      /\ HeaderEnd(K(k), m, h) = Semicolon => h = Len(K(k)) /\ checkCurlyBrackets(K(k)[h]) = 0
      /\ Tame => NoTarget(k - 1) /\ out = Copied(k - 1) /\ m = 1 /\ Named(k)
  BY <1>6 DEF HeaderIs
<1>8. i # h
  <2>1. HeaderEnd(K(k), m, i) = "end"
    BY <1>2, <1>7 DEF HeaderEnd
  <2>2. QED
    BY <1>7, <2>1, HeaderEnds
<1>9. PICK q : q = i + 1
  OBVIOUS
<1>10. Len(K(k)) \in Nat \ {0} /\ LinesBefore(k) \in Nat
  BY <1>2, PartsType, Places
<1>11. i \in 1 .. Len(K(k)) - 1 /\ q \in 1 .. h /\ q - 1 = i /\ q # 1
  BY <1>8, <1>9, <1>10
<1>12. /\ r.n = 1 /\ next' = LinesBefore(k) + q + 1 /\ r.line.no = LinesBefore(k) + q
       /\ r.line.toks = K(k)[q] /\ (terminated => ~eof')
  BY <1>1, <1>2, <1>7, <1>9, <1>11, ReadInItem
<1>13. /\ DOMAIN file' = DOMAIN file /\ Tame' = Tame /\ terminated' = terminated
       /\ K(k)' = K(k) /\ LinesBefore(k)' = LinesBefore(k)
       /\ NoTarget(k - 1)' = NoTarget(k - 1) /\ Copied(k - 1)' = Copied(k - 1)
       /\ Named(k)' = Named(k)
  BY <1>2, SameFile
<1>14. HeaderIs(k, m, h, q)'
  <2>1. HasRead(k, q)'
    BY <1>12, <1>13 DEF HasRead
  <2>2. start'.toks = HeaderPart(K(k), m, q) /\ start'.no = LinesBefore(k) + q /\ line' = start'
    BY <1>2, <1>7, <1>11, <1>12 DEF HeaderPart
  <2>3. Len(prependage') = q - 1 /\ \A p \in 1 .. q - 1 : prependage'[p].no = LinesBefore(k) + p
    <3>1. Len(prependage') = i /\ prependage'[i] = start
      BY <1>2, <1>7, <1>11, AppendProperties
    <3>2. \A p \in 1 .. i - 1 : prependage'[p] = prependage[p]
      BY <1>2, <1>7, <1>11, AppendProperties
    <3>3. \A p \in 1 .. i : p = i \/ p \in 1 .. i - 1
      BY <1>11
    <3>4. QED
      BY <1>7, <1>11, <3>1, <3>2, <3>3
  <2>4. start'.toks = HeaderPart(K(k)', m, q) /\ line'.toks = K(k)'[q]
    BY <1>2, <1>7, <1>12, <1>13, <2>2
  <2>5. QED
    BY <1>2, <1>7, <1>13, <2>1, <2>2, <2>3, <2>4 DEF HeaderIs
<1>15. AtHeader'
  BY <1>11, <1>13, <1>14 DEF AtHeader
<1>16. pc' = "header" /\ count = 0
  BY <1>2, <1>12, HeaderAt
<1>17. QED
  BY <1>2, <1>12, <1>13, <1>15, <1>16 DEF Follows, IsolatesTarget

(* What precedes the '{' is the header's lines before.                        *)
LEMMA HeaderWritten ==
  ASSUME Inputs, NEW k \in DOMAIN file, NEW n \in Nat, prependage \in Seq(Pieces),
         Len(prependage) = n, \A q \in 1 .. n : prependage[q].no = LinesBefore(k) + q
  PROVE  FlattenSeq([i \in DOMAIN prependage |-> Whole(prependage[i])]) = LinesOf(k, n)
<1> DEFINE e == LinesOf(k, n)
<1>1. e \in Seq(Entries) /\ Len(e) = n
  BY LinesOfType
<1>2. DOMAIN prependage = 1 .. n
  BY LenProperties
<1>3. ASSUME NEW q \in 1 .. n PROVE Whole(prependage[q]) = <<e[q]>>
  <2>1. prependage[q].no = LinesBefore(k) + q /\ LinesBefore(k) \in Nat
    BY Places
  <2>2. prependage[q].no # 0
    BY <2>1
  <2>3. e[q] = [no |-> LinesBefore(k) + q, as |-> "line"]
    BY DEF LinesOf
  <2>4. QED
    BY <2>1, <2>2, <2>3 DEF Whole
<1> HIDE DEF e
<1>4. [i \in DOMAIN prependage |-> Whole(prependage[i])] = [i \in 1 .. Len(e) |-> <<e[i]>>]
  BY <1>1, <1>2, <1>3
<1>5. FlattenSeq([i \in 1 .. Len(e) |-> <<e[i]>>]) = e
  BY <1>1, FlattenSingles
<1>6. QED
  BY <1>4, <1>5 DEF e

(* The '{' is there: what was kept of the header is written.                 *)
LEMMA PosBodyBegins ==
  ASSUME TypeInv, Regular, Follows, BodyBegins
  PROVE  Follows'
<1>1. /\ pc = "header" /\ curly_bracket_before_semicolon(start.toks) = LeftCurly
      /\ out' = out \o FlattenSeq([i \in DOMAIN prependage |-> Whole(prependage[i])])
      /\ depth' = 0 /\ pc' = "body" /\ start' = start
      /\ next' = next /\ eof' = eof /\ UNCHANGED inputVars /\ Inputs /\ prependage \in Seq(Pieces)
  BY DEF BodyBegins, readVars, TypeInv
<1>2. terminated => ~eof
  BY <1>1, HeaderAt
<1>3. PICK k \in DOMAIN file : \E m \in 1 .. Len(K(k)[1]) + 1 :
        \E h \in 1 .. Len(K(k)) : \E i \in 1 .. h : HeaderIs(k, m, h, i)
  BY <1>1, HeaderAt
<1>4. PICK m \in 1 .. Len(K(k)[1]) + 1 :
        \E h \in 1 .. Len(K(k)) : \E i \in 1 .. h : HeaderIs(k, m, h, i)
  BY <1>3
<1>5. PICK h \in 1 .. Len(K(k)) : \E i \in 1 .. h : HeaderIs(k, m, h, i)
  BY <1>4
<1>6. PICK i \in 1 .. h : HeaderIs(k, m, h, i)
  BY <1>5
<1>7. /\ HasRead(k, i) /\ line.no = LinesBefore(k) + i /\ start.no = line.no
      /\ line.toks = K(k)[i] /\ start.toks = HeaderPart(K(k), m, i) /\ HeaderIn(K(k), m, h)
      /\ Len(prependage) = i - 1 /\ \A q \in 1 .. i - 1 : prependage[q].no = LinesBefore(k) + q
      /\ Tame => NoTarget(k - 1) /\ out = Copied(k - 1) /\ m = 1 /\ Named(k)
  BY <1>6 DEF HeaderIs
<1>8. HeaderEnd(K(k), m, h) = LeftCurly /\ i = h
  <2>1. HeaderEnd(K(k), m, i) = LeftCurly
    BY <1>1, <1>7 DEF HeaderEnd
  <2>2. QED
    BY <1>7, <2>1, HeaderEnds, TokensDiffer
<1>9. /\ K(k) \in Seq(Seq(STRING)) /\ Len(K(k)) \in Nat \ {0} /\ DOMAIN K(k) = 1 .. Len(K(k))
      /\ K(k)[1] \in Seq(STRING)
  <2>1. K(k) \in Seq(Seq(STRING)) /\ Len(K(k)) \in Nat \ {0} /\ DOMAIN K(k) = 1 .. Len(K(k))
    BY <1>1, PartsType
  <2>2. QED
    BY <2>1
<1>10. /\ DOMAIN file' = DOMAIN file /\ Tame' = Tame /\ terminated' = terminated
       /\ K(k)' = K(k) /\ LinesBefore(k)' = LinesBefore(k) /\ Role(k)' = Role(k)
       /\ NoTarget(k - 1)' = NoTarget(k - 1) /\ CopiedTo(k, h - 1)' = CopiedTo(k, h - 1)
  BY <1>1, SameFile
<1>11. ASSUME Tame PROVE AtBody'
  <2>1. \A g \in DOMAIN K(k) : HeaderIn(K(k), 1, g) => g = h
    <3>1. \A g \in DOMAIN K(k) : g \in Nat /\ g > 0 /\ h \in Nat /\ h > 0
      <4>1. DOMAIN K(k) = 1 .. Len(K(k)) /\ Len(K(k)) \in Nat
        BY <1>9
      <4>2. QED
        BY <4>1
    <3>2. QED
      BY <1>7, <1>11, <3>1, HeaderOnce
  <2>2. IsDefinition(K(k)) /\ Role(k) = "target"
    <3>1. SUFFICES ASSUME IsPrototype(K(k)) PROVE FALSE
      BY <1>7, <1>11 DEF Named
    <3>2. PICK g \in DOMAIN K(k) : HeaderIn(K(k), 1, g) /\ HeaderEnd(K(k), 1, g) = Semicolon
      BY <3>1 DEF IsPrototype
    <3>3. QED
      BY <1>7, <1>8, <1>11, <2>1, <3>2, TokensDiffer
  <2>3. InBody(K(k), h)
    <3>1. PICK g \in DOMAIN K(k) :
            /\ HeaderIn(K(k), 1, g)
            /\ \A q \in g .. Len(K(k)) :
                 /\ Plain(K(k)[q]) /\ ~StartsWith(K(k)[q], "//")
                 /\ DepthIn(K(k))[q] = DepthIn(K(k))[g - 1] <=> q = Len(K(k))
      BY <2>2 DEF IsDefinition
    <3>2. g = h
      BY <2>1, <3>1
    <3>3. QED
      BY <3>1, <3>2 DEF InBody
  <2>4. out' = CopiedTo(k, h - 1)
    <3>1. h - 1 \in Nat
      OBVIOUS
    <3>2. FlattenSeq([q \in DOMAIN prependage |-> Whole(prependage[q])]) = LinesOf(k, h - 1)
      BY <1>1, <1>7, <1>8, <3>1, HeaderWritten
    <3>3. QED
      BY <1>1, <1>7, <1>11, <3>2 DEF CopiedTo
  <2>5. start.toks = K(k)[h]
    BY <1>7, <1>8, <1>9, <1>11, FromAll DEF HeaderPart
  <2>6. depth' = DepthIn(K(k))[h - 1] - DepthIn(K(k))[h - 1]
    <3>1. h - 1 \in 0 .. Len(K(k))
      BY <1>9
    <3>2. DepthIn(K(k)) \in [0 .. Len(K(k)) -> Int]
      BY <1>9, DepthInFacts
    <3>3. DepthIn(K(k))[h - 1] \in Int
      BY <3>1, <3>2
    <3>4. QED
      BY <1>1, <3>3
  <2>7. HasRead(k, h)'
    BY <1>1, <1>7, <1>8, <1>10 DEF HasRead
  <2>8. BodyIs(k, h, h)'
    <3>1. start'.toks = K(k)'[h] /\ start'.no = LinesBefore(k)' + h
      BY <1>1, <1>7, <1>8, <1>10, <2>5
    <3>2. InBody(K(k)', h) /\ depth' = DepthIn(K(k)')[h - 1] - DepthIn(K(k)')[h - 1]
      BY <1>10, <2>3, <2>6
    <3>3. Role(k)' = "target" /\ NoTarget(k - 1)' /\ out' = CopiedTo(k, h - 1)'
      BY <1>7, <1>10, <1>11, <2>2, <2>4
    <3>4. QED
      BY <2>7, <3>1, <3>2, <3>3 DEF BodyIs
  <2>9. h \in h .. Len(K(k)) /\ h \in 1 .. Len(K(k))
    BY <1>9
  <2>10. QED
    BY <1>10, <2>8, <2>9 DEF AtBody
<1>12. QED
  BY <1>1, <1>2, <1>10, <1>11 DEF Follows, IsolatesTarget

(* A line of the body is written; with the last '}' the function is.         *)
LEMMA PosBodyLine ==
  ASSUME TypeInv, Regular, Follows, BodyLine
  PROVE  Follows'
<1> DEFINE written == ~StartsWith(start.toks, "//")
           d == IF written THEN depth + checkCurlyBrackets(start.toks) ELSE depth
<1>1. PICK r : r = Read(start)
  OBVIOUS
<1>2. /\ pc = "body" /\ out' = IF written THEN out \o Whole(start) ELSE out
      /\ depth' = d
      /\ IF written /\ d = 0
         THEN pc' = "found" /\ next' = next /\ eof' = eof
         ELSE next' = r.next /\ eof' = r.eof /\ start' = r.line
              /\ pc' = IF r.n > 0 THEN "body" ELSE "found"
      /\ UNCHANGED inputVars /\ Inputs /\ start \in Pieces
  BY <1>1 DEF BodyLine, Take, readVars, TypeInv
<1>0. (written => d = depth + checkCurlyBrackets(start.toks)) /\ (written <=> ~StartsWith(start.toks, "//"))
  OBVIOUS
<1> HIDE DEF d, written
<1>3. Tame' = Tame /\ terminated' = terminated
  BY <1>2, SameFile
<1>4. pc' \in {"body", "found"} /\ (terminated /\ pc' = "body" => ~eof')
  <2>1. CASE written /\ d = 0
    BY <1>2, <2>1
  <2>2. CASE ~(written /\ d = 0)
    <3>1. CASE r.n = 1
      BY <1>1, <1>2, <2>2, <3>1, ReadIs
    <3>2. CASE r.n # 1
      BY <1>1, <1>2, <2>2, <3>2, ReadIs
    <3>3. QED
      BY <3>1, <3>2
  <2>3. QED
    BY <2>1, <2>2
<1>5. ASSUME Tame PROVE /\ pc' = "body" => AtBody'
                        /\ pc' = "found" => AtFound'
  <2>1. AtBody
    BY <1>2, <1>5 DEF Follows
  <2>2. PICK k \in DOMAIN file : \E h \in 1 .. Len(K(k)) : \E i \in h .. Len(K(k)) : BodyIs(k, h, i)
    BY <2>1 DEF AtBody
  <2>3. PICK h \in 1 .. Len(K(k)) : \E i \in h .. Len(K(k)) : BodyIs(k, h, i)
    BY <2>2
  <2>4. PICK i \in h .. Len(K(k)) : BodyIs(k, h, i)
    BY <2>3
  <2>5. /\ HasRead(k, i) /\ start.no = LinesBefore(k) + i /\ start.toks = K(k)[i]
        /\ InBody(K(k), h) /\ depth = DepthIn(K(k))[i - 1] - DepthIn(K(k))[h - 1]
        /\ Role(k) = "target" /\ NoTarget(k - 1) /\ out = CopiedTo(k, i - 1)
    BY <2>4 DEF BodyIs
  <2>6. K(k) \in Seq(Seq(STRING)) /\ Len(K(k)) \in Nat \ {0} /\ LinesBefore(k) \in Nat
    BY <1>2, PartsType, Places
  <2>7. i \in 1 .. Len(K(k)) /\ i \in Int /\ K(k)[i] \in Seq(STRING)
    BY <2>6
  <2>8. /\ Plain(K(k)[i]) /\ ~StartsWith(K(k)[i], "//")
        /\ DepthIn(K(k))[i] = DepthIn(K(k))[h - 1] <=> i = Len(K(k))
    BY <2>5 DEF InBody
  <2>9. written /\ d = DepthIn(K(k))[i] - DepthIn(K(k))[h - 1]
        /\ DepthIn(K(k))[i] \in Int /\ DepthIn(K(k))[h - 1] \in Int
    <3>1. /\ DepthIn(K(k)) \in [0 .. Len(K(k)) -> Int]
          /\ DepthIn(K(k))[i] = DepthIn(K(k))[i - 1] + NetBrackets(K(k)[i])
      BY <2>6, <2>7, DepthInFacts
    <3>2. /\ DepthIn(K(k))[i] \in Int /\ DepthIn(K(k))[i - 1] \in Int /\ DepthIn(K(k))[h - 1] \in Int
      <4>1. i \in 0 .. Len(K(k)) /\ i - 1 \in 0 .. Len(K(k)) /\ h - 1 \in 0 .. Len(K(k))
        BY <2>6, <2>7
      <4>2. QED
        BY <3>1, <4>1
    <3>3. NetBrackets(K(k)[i]) \in Int /\ checkCurlyBrackets(K(k)[i]) = NetBrackets(K(k)[i])
      BY <2>7, <2>8, NetType DEF Plain
    <3>4. d = depth + checkCurlyBrackets(K(k)[i]) /\ written
      BY <1>0, <2>5, <2>8
    <3>5. QED
      BY <2>5, <3>1, <3>2, <3>3, <3>4
  <2>10. d = 0 <=> i = Len(K(k))
    BY <2>8, <2>9
  <2>11. out' = CopiedTo(k, i)
    BY <1>2, <2>5, <2>7, <2>9, LineCopied
  <2>12. PICK q : q = i + 1
    OBVIOUS
  <2>13. /\ DOMAIN file' = DOMAIN file /\ K(k)' = K(k) /\ LinesBefore(k)' = LinesBefore(k)
         /\ Role(k)' = Role(k) /\ NoTarget(k - 1)' = NoTarget(k - 1) /\ Copied(k)' = Copied(k)
         /\ CopiedTo(k, q - 1)' = CopiedTo(k, q - 1)
    BY <1>2, SameFile
  <2>14. CASE i = Len(K(k))
    <3>1. pc' = "found"
      BY <1>2, <2>9, <2>10, <2>14
    <3>2. out' = Copied(k)
      BY <1>2, <2>5, <2>11, <2>14, FirstLineNext
    <3>3. AtFound'
      BY <2>5, <2>13, <3>2 DEF AtFound
    <3>4. QED
      BY <3>1, <3>3
  <2>15. CASE i # Len(K(k))
    <3>1. i \in 1 .. Len(K(k)) - 1 /\ q \in h .. Len(K(k)) /\ q - 1 = i
      BY <2>6, <2>7, <2>12, <2>15
    <3>2. /\ r.n = 1 /\ r.next = LinesBefore(k) + q + 1 /\ r.line.no = LinesBefore(k) + q
          /\ r.line.toks = K(k)[q]
      BY <1>1, <1>2, <2>5, <2>12, <3>1, ReadInItem
    <3>3. pc' = "body" /\ next' = LinesBefore(k) + q + 1 /\ start' = r.line /\ depth' = d
      BY <1>2, <2>10, <2>15, <3>2
    <3>4. BodyIs(k, h, q)'
      <4>1. start'.toks = K(k)'[q] /\ start'.no = LinesBefore(k)' + q
        BY <2>13, <3>2, <3>3
      <4>2. depth' = DepthIn(K(k)')[q - 1] - DepthIn(K(k)')[h - 1] /\ InBody(K(k)', h)
        BY <2>5, <2>9, <2>13, <3>1, <3>3
      <4>3. out' = CopiedTo(k, q - 1)'
        BY <2>11, <2>13, <3>1
      <4>4. HasRead(k, q)'
        BY <2>13, <3>3 DEF HasRead
      <4>5. QED
        BY <2>5, <2>13, <4>1, <4>2, <4>3, <4>4 DEF BodyIs
    <3>5. AtBody'
      BY <2>13, <3>1, <3>4 DEF AtBody
    <3>6. QED
      BY <3>3, <3>5
  <2>16. QED
    BY <2>14, <2>15
<1>6. QED
  BY <1>3, <1>4, <1>5 DEF Follows, IsolatesTarget

(* Initially nothing is open.                                                *)
LEMMA PosInit == Init => PosInv
<1> SUFFICES ASSUME Init PROVE Follows
  BY DEF PosInv
<1>1. pc = "open" /\ next = 1 /\ out = <<>> /\ count = 0 /\ result = -1 /\ ~eof
  BY DEF Init
<1>2. QED
  BY <1>1 DEF Follows, IsolatesTarget

(* A step that changes nothing keeps the position.                           *)
LEMMA Stutters == ASSUME Follows, UNCHANGED vars PROVE Follows'
<1>1. /\ UNCHANGED inputVars
      /\ pc' = pc /\ next' = next /\ eof' = eof /\ line' = line /\ count' = count
      /\ closed' = closed /\ start' = start /\ shared' = shared /\ prependage' = prependage
      /\ depth' = depth /\ out' = out /\ result' = result
  BY DEF vars, readVars, funcVars
<1>2. /\ DOMAIN file' = DOMAIN file /\ Len(file') = Len(file) /\ text' = text
      /\ terminated' = terminated /\ Tame' = Tame /\ Isolated' = Isolated /\ Roles' = Roles
  BY <1>1, SameFile
<1>3. \A k : /\ K(k)' = K(k) /\ Role(k)' = Role(k) /\ LinesBefore(k)' = LinesBefore(k)
             /\ NoTarget(k)' = NoTarget(k) /\ Copied(k)' = Copied(k)
             /\ Depth(k)' = Depth(k) /\ Dropped(k)' = Dropped(k) /\ Named(k)' = Named(k)
  BY <1>1, SameFile
<1>4. \A k, j : CopiedTo(k, j)' = CopiedTo(k, j)
  BY <1>1, SameFile
<1>5. \A o, k : Good(o, k)' = Good(o, k) /\ Between(o, k)' = Between(o, k)
  BY <1>1, SameFile
<1>6. \A k, j : HasRead(k, j)' = HasRead(k, j)
  BY <1>1, <1>3 DEF HasRead
<1>7. \A k, j : DeclareStyle(k, j)' = DeclareStyle(k, j)
  BY <1>1, <1>3 DEF DeclareStyle
<1>8. \A k, j, m : DeclareIs(k, j, m)' = DeclareIs(k, j, m)
  BY <1>1, <1>2, <1>3, <1>6, <1>7 DEF DeclareIs
<1>9. \A k, m, h, i : HeaderIs(k, m, h, i)' = HeaderIs(k, m, h, i)
  BY <1>1, <1>2, <1>3, <1>6 DEF HeaderIs
<1>10. \A k, h, i : BodyIs(k, h, i)' = BodyIs(k, h, i)
  BY <1>1, <1>3, <1>4, <1>6 DEF BodyIs
<1>11. AtScan' = AtScan /\ AtFound' = AtFound /\ IsolatesTarget' = IsolatesTarget
  BY <1>1, <1>2, <1>3, <1>5 DEF AtScan, AtFound, IsolatesTarget
<1>12. AtDefine' = AtDefine /\ AtComment' = AtComment /\ AtType' = AtType
  BY <1>1, <1>2, <1>3, <1>4, <1>6 DEF AtDefine, AtComment, AtType
<1>13. AtDeclare' = AtDeclare /\ AtHeader' = AtHeader /\ AtBody' = AtBody
  BY <1>2, <1>3, <1>8, <1>9, <1>10 DEF AtDeclare, AtHeader, AtBody
<1>14. QED
  BY <1>1, <1>2, <1>3, <1>5, <1>11, <1>12, <1>13 DEF Follows

(* No step changes the file.                                                 *)
LEMMA NextKeepsInput == [Next]_vars => UNCHANGED inputVars
<1>1. ASSUME Next PROVE UNCHANGED inputVars
  BY <1>1 DEF Next, OpenFails, Open, NextLine, InsideBrackets, Scan, Define, ResolveDefine, Include,
     SkipComment, TypeLine, ReturnZero, Variable, Undetermined, FunctionBegins, HeaderLine,
     BodyBegins, BodyLine, Return
<1>2. QED
  BY <1>1 DEF vars

(* Every step keeps the position in a file that the scanner follows.         *)
LEMMA PosStep == TypeInv /\ PosInv /\ [Next]_vars => PosInv'
<1> SUFFICES ASSUME TypeInv, PosInv, [Next]_vars, Regular' PROVE Follows'
  BY DEF PosInv
<1>1. Regular /\ Follows
  <2>1. Regular
    BY NextKeepsInput, SameFile
  <2>2. QED
    BY <2>1 DEF PosInv
<1>2. CASE OpenFails
  BY <1>1, <1>2, PosOpenFails
<1>3. CASE Open
  BY <1>1, <1>3, PosOpen
<1>4. CASE NextLine
  BY <1>1, <1>4, PosNextLine
<1>5. CASE InsideBrackets
  BY <1>1, <1>5, PosInside
<1>6. CASE Scan
  BY <1>1, <1>6, PosScan
<1>7. CASE Define
  BY <1>1, <1>7, PosDefine
<1>8. CASE ResolveDefine
  BY <1>1, <1>8, PosResolve
<1>9. CASE Include
  BY <1>1, <1>9, PosInclude
<1>10. CASE SkipComment
  BY <1>1, <1>10, PosComment
<1>11. CASE TypeLine
  BY <1>1, <1>11, PosType
<1>12. CASE ReturnZero
  <2>1. pc \in {"declare", "header"}
    BY <1>12 DEF ReturnZero
  <2>2. QED
    BY <1>1, <1>12, <2>1, PosNotWanted, PosPrototype
<1>13. CASE Variable
  BY <1>1, <1>13, PosVariable
<1>14. CASE Undetermined
  BY <1>1, <1>14, PosUndetermined
<1>15. CASE FunctionBegins
  BY <1>1, <1>15, PosBegins
<1>16. CASE HeaderLine
  BY <1>1, <1>16, PosHeaderLine
<1>17. CASE BodyBegins
  BY <1>1, <1>17, PosBodyBegins
<1>18. CASE BodyLine
  BY <1>1, <1>18, PosBodyLine
<1>19. CASE Return
  BY <1>1, <1>19, PosReturn
<1>20. CASE UNCHANGED vars
  BY <1>1, <1>20, Stutters
<1>21. QED
  BY <1>2, <1>3, <1>4, <1>5, <1>6, <1>7, <1>8, <1>9, <1>10, <1>11, <1>12, <1>13, <1>14, <1>15,
     <1>16, <1>17, <1>18, <1>19, <1>20 DEF Next

(* The inductive invariant of the position, with the types.                  *)
LEMMA Positioned == Spec => [](TypeInv /\ PosInv)
<1>1. Init => TypeInv /\ PosInv
  BY TypeInit, PosInit
<1>2. TypeInv /\ PosInv /\ [Next]_vars => (TypeInv /\ PosInv)'
  BY TypeStep, PosStep
<1>3. QED
  BY <1>1, <1>2, PTL DEF Spec

(* It has the depth at every line,                                           *)
LEMMA PosTracks == PosInv => TracksDepth
BY DEF PosInv, Follows, AtScan, TracksDepth

(* the copy at the end,                                                      *)
LEMMA PosIsolates == TypeInv /\ PosInv => IsolatesTarget
<1> SUFFICES ASSUME TypeInv, PosInv, Tame PROVE IsolatesTarget
  BY DEF IsolatesTarget
<1>1. Regular
  BY TameIsRegular DEF TypeInv
<1>2. QED
  BY <1>1 DEF PosInv, Follows

(* and that there is an end.                                                 *)
LEMMA PosUndisturbed == TypeInv /\ PosInv => Undisturbed
<1> SUFFICES ASSUME TypeInv, PosInv PROVE Undisturbed
  OBVIOUS
<1>1. Tame => Regular
  BY TameIsRegular DEF TypeInv
<1>2. QED
  BY <1>1 DEF PosInv, Follows, Undisturbed

(* Spec => []TracksDepth: in a file that consists of items the scanner       *)
(* follows, of any number of lines, the count of brackets is that of the     *)
(* source wherever a line is looked at.                                      *)
THEOREM DepthTracked == Spec => []TracksDepth
<1>1. QED
  BY Positioned, PosTracks, PTL

(* Spec => []IsolatesTarget: in a file in the style with a last newline,     *)
(* what isolateFunction() has written at its end is what the reference asks  *)
(* for, and its result says whether the function is there.                   *)
THEOREM Isolates == Spec => []IsolatesTarget
<1>1. QED
  BY Positioned, PosIsolates, PTL

(* Spec => []Undisturbed: no such file leads it into a loop at the end of    *)
(* the file, nor a read of what is not there.                                *)
THEOREM NeverEndless == Spec => []Undisturbed
<1>1. QED
  BY Positioned, PosUndisturbed, PTL

--------------------------------------------------------------------------------
(* The order of what is written.                                             *)

(* A line as it is written.                                                  *)
Line(n) == [no |-> n, as |-> "line"]

(* e may be written before f.                                                 *)
Before(e, f) == IF Regular /\ e.as = "line" /\ f.as = "line" THEN e.no < f.no ELSE e.no <= f.no

(* What is written is in order; e may come behind it; it is of lines before  *)
(* n.                                                                        *)
InOrder(s) == \A i, j \in DOMAIN s : i < j => Before(s[i], s[j])
UpTo(s, e) == \A i \in DOMAIN s : Before(s[i], e)
Below(s, n) == \A i \in DOMAIN s : s[i].no < n

(* What is written if a body begins.                                          *)
Lines(q) == [p \in DOMAIN q |-> Line(q[p].no)]
Pending == out \o Lines(prependage)

(* The invariant of the order: what is written is of lines before the one    *)
(* that is read next, and so is what is held, behind what is written.        *)
OrderInv ==
  /\ InOrder(out) /\ Below(out, next)
  /\ pc = "scan" => line.no # 0 /\ line.no = next - 1 /\ Below(out, line.no)
  /\ pc = "type" => line.no = 0 \/ (line.no = next - 1 /\ Below(out, line.no))
  /\ pc \in {"declare", "header"} =>
       IF start.no = 0 THEN eof
       ELSE /\ start.no = next - 1 /\ \A p \in DOMAIN prependage : prependage[p].no # 0
            /\ InOrder(Pending) /\ UpTo(Pending, Line(start.no))
  /\ pc = "body" => start.no = 0 \/ (start.no = next - 1 /\ UpTo(out, Line(start.no)))

(* What it writes is in order if the inductive invariant holds.              *)
LEMMA OrderInvImplies == OrderInv => OutputInOrder
BY DEF OrderInv, OutputInOrder, InOrder, Before

(* An element more.                                                           *)
LEMMA MoreIs ==
  ASSUME NEW s \in Seq(Entries), NEW e \in Entries
  PROVE  /\ s \o <<e>> \in Seq(Entries) /\ Len(s) \in Nat /\ DOMAIN s = 1 .. Len(s)
         /\ DOMAIN (s \o <<e>>) = 1 .. Len(s) + 1 /\ (s \o <<e>>)[Len(s) + 1] = e
         /\ \A i \in 1 .. Len(s) : (s \o <<e>>)[i] = s[i]
<1>1. <<e>> \in Seq(Entries) /\ Len(<<e>>) = 1 /\ <<e>>[1] = e
  OBVIOUS
<1>2. Len(s) \in Nat /\ DOMAIN s = 1 .. Len(s)
  BY LenProperties
<1>3. /\ s \o <<e>> \in Seq(Entries) /\ Len(s \o <<e>>) = Len(s) + Len(<<e>>)
      /\ \A i \in 1 .. Len(s) + Len(<<e>>) :
           (s \o <<e>>)[i] = IF i <= Len(s) THEN s[i] ELSE <<e>>[i - Len(s)]
  BY <1>1, ConcatProperties
<1> DEFINE t == s \o <<e>>
<1> HIDE DEF t
<1>4. t \in Seq(Entries) /\ Len(t) = Len(s) + 1
      /\ \A i \in 1 .. Len(s) + 1 : t[i] = IF i <= Len(s) THEN s[i] ELSE <<e>>[i - Len(s)]
  BY <1>1, <1>3 DEF t
<1>5. DOMAIN t = 1 .. Len(s) + 1
  BY <1>4, LenProperties
<1>6. t[Len(s) + 1] = e /\ \A i \in 1 .. Len(s) : t[i] = s[i]
  <2>1. Len(s) + 1 \in 1 .. Len(s) + 1 /\ ~(Len(s) + 1 <= Len(s)) /\ (Len(s) + 1) - Len(s) = 1
    BY <1>2
  <2>2. t[Len(s) + 1] = e
    BY <1>1, <1>4, <2>1
  <2>3. \A i \in 1 .. Len(s) : i \in 1 .. Len(s) + 1 /\ i <= Len(s)
    BY <1>2
  <2>4. \A i \in 1 .. Len(s) : t[i] = s[i]
    BY <1>4, <2>3
  <2>5. QED
    BY <2>2, <2>4
<1>7. QED
  BY <1>2, <1>4, <1>5, <1>6 DEF t

(* One more at the end, behind all of them.                                  *)
LEMMA OrderMore ==
  ASSUME NEW s \in Seq(Entries), NEW e \in Entries, InOrder(s), UpTo(s, e)
  PROVE  InOrder(s \o <<e>>)
<1> DEFINE t == s \o <<e>>
<1>1. /\ Len(s) \in Nat /\ DOMAIN s = 1 .. Len(s)
      /\ DOMAIN t = 1 .. Len(s) + 1 /\ t[Len(s) + 1] = e
      /\ \A i \in 1 .. Len(s) : t[i] = s[i]
  BY MoreIs
<1> HIDE DEF t
<1>2. ASSUME NEW i \in DOMAIN t, NEW j \in DOMAIN t, i < j PROVE Before(t[i], t[j])
  <2>1. i \in 1 .. Len(s) /\ (j \in 1 .. Len(s) \/ j = Len(s) + 1)
    BY <1>1, <1>2
  <2>2. QED
    BY <1>1, <1>2, <2>1 DEF InOrder, UpTo
<1>3. QED
  BY <1>2 DEF InOrder, t

(* An element may come behind a sequence and one more before it,             *)
LEMMA UpToMore ==
  ASSUME NEW s \in Seq(Entries), NEW e \in Entries, NEW f, UpTo(s, f), Before(e, f)
  PROVE  UpTo(s \o <<e>>, f)
<1> DEFINE t == s \o <<e>>
<1>1. /\ Len(s) \in Nat /\ DOMAIN s = 1 .. Len(s)
      /\ DOMAIN t = 1 .. Len(s) + 1 /\ t[Len(s) + 1] = e
      /\ \A i \in 1 .. Len(s) : t[i] = s[i]
  BY MoreIs
<1> HIDE DEF t
<1>2. ASSUME NEW i \in DOMAIN t PROVE Before(t[i], f)
  <2>1. i \in 1 .. Len(s) \/ i = Len(s) + 1
    BY <1>1, <1>2
  <2>2. QED
    BY <1>1, <1>2, <2>1 DEF UpTo
<1>3. QED
  BY <1>2 DEF UpTo, t

(* and so for the line that is read next.                                    *)
LEMMA BelowMore ==
  ASSUME NEW s \in Seq(Entries), NEW e \in Entries, NEW n, Below(s, n), e.no < n
  PROVE  Below(s \o <<e>>, n)
<1> DEFINE t == s \o <<e>>
<1>1. /\ Len(s) \in Nat /\ DOMAIN s = 1 .. Len(s)
      /\ DOMAIN t = 1 .. Len(s) + 1 /\ t[Len(s) + 1] = e
      /\ \A i \in 1 .. Len(s) : t[i] = s[i]
  BY MoreIs
<1> HIDE DEF t
<1>2. ASSUME NEW i \in DOMAIN t PROVE t[i].no < n
  <2>1. i \in 1 .. Len(s) \/ i = Len(s) + 1
    BY <1>1, <1>2
  <2>2. QED
    BY <1>1, <1>2, <2>1 DEF Below
<1>3. QED
  BY <1>2 DEF Below, t

(* What it is to be up to a line, and below one.                             *)
LEMMA OrderFacts ==
  ASSUME NEW s \in Seq(Entries), NEW n \in Int
  PROVE  /\ \A e \in Entries : e.no = n /\ Below(s, n) => UpTo(s, e)
         /\ UpTo(s, Line(n)) => Below(s, n + 1)
         /\ \A m \in Int : m <= n /\ Below(s, m) => Below(s, n)
<1>1. \A i \in DOMAIN s : s[i].no \in Int /\ s[i].as \in {"line", "extern"}
  <2>1. \A i \in DOMAIN s : s[i] \in Entries
    OBVIOUS
  <2>2. QED
    BY <2>1 DEF Entries
<1>2. QED
  BY <1>1 DEF UpTo, Below, Before, Entries, Line

(* A line is written.                                                         *)
LEMMA WrittenInOrder ==
  ASSUME NEW s \in Seq(Entries), NEW l, l.no \in Nat, NEW n, InOrder(s), Below(s, n),
         l.no # 0 => l.no < n /\ UpTo(s, Line(l.no))
  PROVE  /\ s \o Whole(l) \in Seq(Entries)
         /\ InOrder(s \o Whole(l)) /\ Below(s \o Whole(l), n)
<1>1. CASE l.no = 0
  <2>1. Whole(l) = <<>> /\ s \o <<>> = s
    BY <1>1, ConcatEmptySeq DEF Whole
  <2>2. QED
    BY <2>1
<1>2. CASE l.no # 0
  <2>1. Whole(l) = <<Line(l.no)>> /\ Line(l.no) \in Entries /\ Line(l.no).no = l.no
    BY <1>2 DEF Whole, Line, Entries
  <2>2. PICK e : e = Line(l.no)
    OBVIOUS
  <2>3. QED
    BY <1>2, <2>1, <2>2, MoreIs, OrderMore, BelowMore
<1>3. QED
  BY <1>1, <1>2

(* The order depends on the file alone.                                      *)
LEMMA SameOrder ==
  ASSUME UNCHANGED inputVars
  PROVE  /\ Regular' = Regular
         /\ \A s : InOrder(s)' = InOrder(s)
         /\ \A s, e : UpTo(s, e)' = UpTo(s, e)
<1>1. Regular' = Regular
  BY SameFile
<1>2. \A e, f : Before(e, f)' = Before(e, f)
  BY <1>1 DEF Before
<1>3. QED
  BY <1>1, <1>2 DEF InOrder, UpTo

(* The lines that were kept, as lines to write;                              *)
LEMMA LinesType ==
  ASSUME NEW q \in Seq(Pieces)
  PROVE  Lines(q) \in Seq(Entries) /\ Len(Lines(q)) = Len(q)
<1>1. Len(q) \in Nat /\ DOMAIN q = 1 .. Len(q) /\ \A p \in 1 .. Len(q) : q[p] \in Pieces
  BY LenProperties
<1>2. \A p \in 1 .. Len(q) : Line(q[p].no) \in Entries
  BY <1>1 DEF Line, Entries, Pieces
<1>3. Lines(q) \in [1 .. Len(q) -> Entries]
  BY <1>1, <1>2 DEF Lines
<1>4. QED
  BY <1>1, <1>3

(* with one more of them;                                                    *)
LEMMA LinesMore ==
  ASSUME NEW q \in Seq(Pieces), NEW l \in Pieces
  PROVE  Lines(Append(q, l)) = Lines(q) \o <<Line(l.no)>>
<1> DEFINE a == Lines(Append(q, l))
           b == Lines(q)
<1>1. Append(q, l) \in Seq(Pieces) /\ Len(Append(q, l)) = Len(q) + 1
      /\ (\A i \in 1 .. Len(q) : Append(q, l)[i] = q[i]) /\ Append(q, l)[Len(q) + 1] = l
      /\ Len(q) \in Nat /\ DOMAIN q = 1 .. Len(q)
  BY AppendProperties, LenProperties
<1>2. DOMAIN Append(q, l) = 1 .. Len(q) + 1
  BY <1>1, LenProperties
<1>3. /\ a \in Seq(Entries) /\ Len(a) = Len(q) + 1
      /\ \A i \in 1 .. Len(q) + 1 : a[i] = Line(Append(q, l)[i].no)
  BY <1>1, <1>2, LinesType DEF Lines
<1>4. b \in Seq(Entries) /\ Len(b) = Len(q) /\ \A i \in 1 .. Len(q) : b[i] = Line(q[i].no)
  BY <1>1, LinesType DEF Lines
<1> HIDE DEF a, b
<1>5. PICK e : e = Line(l.no)
  OBVIOUS
<1>6. e \in Entries
  BY <1>5 DEF Line, Entries, Pieces
<1>7. /\ b \o <<e>> \in Seq(Entries) /\ DOMAIN (b \o <<e>>) = 1 .. Len(q) + 1
      /\ (b \o <<e>>)[Len(q) + 1] = e /\ \A i \in 1 .. Len(q) : (b \o <<e>>)[i] = b[i]
  BY <1>4, <1>6, MoreIs
<1>8. \A i \in 1 .. Len(q) + 1 : a[i] = (b \o <<e>>)[i]
  <2>1. a[Len(q) + 1] = e
    BY <1>1, <1>3, <1>5
  <2>2. \A i \in 1 .. Len(q) : a[i] = b[i]
    BY <1>1, <1>3, <1>4
  <2>3. \A i \in 1 .. Len(q) + 1 : i = Len(q) + 1 \/ i \in 1 .. Len(q)
    BY <1>1
  <2>4. QED
    BY <1>7, <2>1, <2>2, <2>3
<1>9. Len(b \o <<e>>) = Len(q) + 1
  BY <1>1, <1>7, LenProperties
<1>10. a = b \o <<e>>
  BY <1>3, <1>7, <1>8, <1>9, SeqEqual
<1>11. QED
  BY <1>5, <1>10 DEF a, b

(* and behind what has been written.                                         *)
LEMMA PendingFacts ==
  ASSUME NEW o \in Seq(Entries), NEW q \in Seq(Pieces)
  PROVE  /\ o \o Lines(<<>>) = o /\ o \o Lines(q) \in Seq(Entries)
         /\ \A l \in Pieces : o \o Lines(Append(q, l)) = (o \o Lines(q)) \o <<Line(l.no)>>
<1>1. Lines(<<>>) = <<>> /\ o \o <<>> = o
  BY ConcatEmptySeq DEF Lines
<1>2. Lines(q) \in Seq(Entries) /\ o \o Lines(q) \in Seq(Entries)
  BY LinesType, ConcatProperties
<1>3. ASSUME NEW l \in Pieces
      PROVE  o \o Lines(Append(q, l)) = (o \o Lines(q)) \o <<Line(l.no)>>
  <2>1. <<Line(l.no)>> \in Seq(Entries)
    BY DEF Line, Entries, Pieces
  <2>2. Lines(Append(q, l)) = Lines(q) \o <<Line(l.no)>>
    BY LinesMore
  <2>3. PICK a : a = Lines(q)
    OBVIOUS
  <2>4. PICK b : b = <<Line(l.no)>>
    OBVIOUS
  <2>5. o \o (a \o b) = (o \o a) \o b
    BY <1>2, <2>1, <2>3, <2>4, ConcatAssociative
  <2>6. QED
    BY <2>2, <2>3, <2>4, <2>5
<1>4. QED
  BY <1>1, <1>2, <1>3

(* A body begins: what precedes it is written.                                *)
LEMMA PendingWritten ==
  ASSUME NEW q \in Seq(Pieces), \A p \in DOMAIN q : q[p].no # 0
  PROVE  FlattenSeq([i \in DOMAIN q |-> Whole(q[i])]) = Lines(q)
<1>1. Lines(q) \in Seq(Entries) /\ Len(Lines(q)) = Len(q) /\ DOMAIN q = 1 .. Len(q)
  BY LinesType, LenProperties
<1>2. \A p \in 1 .. Len(q) : Whole(q[p]) = <<Lines(q)[p]>>
  BY <1>1 DEF Whole, Lines, Line
<1>3. [i \in DOMAIN q |-> Whole(q[i])] = [i \in 1 .. Len(Lines(q)) |-> <<Lines(q)[i]>>]
  BY <1>1, <1>2
<1>4. QED
  BY <1>1, <1>3, FlattenSingles

(* The stages at which no line is held.                                      *)
Plainly == {"open", "next", "define", "comment", "found", "close", "done", "crashed", "endless"}

(* What the invariants say wherever it is.                                   *)
LEMMA OrderBasics ==
  ASSUME TypeInv, OrderInv
  PROVE  /\ out \in Seq(Entries) /\ InOrder(out) /\ Below(out, next)
         /\ Inputs /\ Len(text) \in Nat /\ next \in Int /\ next > 0
         /\ line \in Pieces /\ start \in Pieces /\ prependage \in Seq(Pieces)
<1>1. Inputs /\ Len(text) \in Nat
  BY PartsType DEF TypeInv
<1>2. \A i \in 1 .. Len(text) : i \in Int
  OBVIOUS
<1>3. out \in Seq(Written) /\ next \in Int /\ next > 0
  BY <1>1 DEF TypeInv
<1>4. \A e \in Written : e \in Entries
  BY <1>1 DEF Written, Entries
<1>5. out \in Seq(Entries)
  <2>1. Len(out) \in Nat /\ out \in [1 .. Len(out) -> Written]
    BY <1>3, LenProperties
  <2>2. out \in [1 .. Len(out) -> Entries]
    BY <1>4, <2>1
  <2>3. QED
    BY <2>1, <2>2
<1>6. QED
  BY <1>1, <1>3, <1>5 DEF TypeInv, OrderInv

(* Where no line is held, it is enough that what is written is in order.     *)
LEMMA OrderPlain ==
  ASSUME UNCHANGED inputVars, pc' \in Plainly, NEW o, out' = o, InOrder(o),
         NEW n, next' = n, Below(o, n)
  PROVE  OrderInv'
<1>1. InOrder(out)' /\ Below(out, next)'
  BY SameOrder DEF Below
<1>2. QED
  BY <1>1 DEF OrderInv, Plainly

(* The line that is looked at is the one read last.                          *)
LEMMA OrderScan ==
  ASSUME UNCHANGED inputVars, pc' = "scan", NEW o, out' = o, InOrder(o),
         NEW n, Below(o, n), Below(o, n + 1), n # 0, line'.no = n, next' = n + 1, n \in Int
  PROVE  OrderInv'
<1>1. InOrder(out)' /\ Below(out, next)' /\ Below(out, line.no)'
  BY SameOrder DEF Below
<1>2. QED
  BY <1>1 DEF OrderInv

(* Where it only reads, or does neither.                                      *)
LEMMA OrderNothing ==
  ASSUME TypeInv, OrderInv, UNCHANGED inputVars, pc' \in Plainly, out' = out, next' = next
  PROVE  OrderInv'
BY OrderBasics, OrderPlain

(* What is read comes behind all that was written.                           *)
LEMMA ReadOrder ==
  ASSUME TypeInv, OrderInv, NEW l \in Pieces, NEW r, r = Read(l)
  PROVE  /\ r.next \in Int /\ next <= r.next /\ Below(out, r.next)
         /\ r.n = 1 \/ r.n = 0 \/ r.n = -1
         /\ r.n = 1 => r.line.no = next /\ r.next = next + 1 /\ next # 0 /\ r.line.no \in Nat
         /\ r.n = 0 => r.line.no = 0 /\ r.eof
         /\ r.n = -1 => r.line = l /\ r.next = next /\ r.eof
         /\ r.line \in Pieces
<1>1. out \in Seq(Entries) /\ Below(out, next) /\ next \in Int /\ next > 0
  BY OrderBasics
<1>2. /\ r.line \in Pieces
      /\ \/ r.n = -1 /\ eof /\ r.line = l /\ r.next = next /\ r.eof
         \/ r.n = 0 /\ ~eof /\ next = Len(text) + 1 /\ r.line = Blank /\ r.next = next /\ r.eof
         \/ /\ r.n = 1 /\ ~eof /\ next \in 1 .. Len(text) /\ r.next = next + 1
            /\ r.line = [no |-> next, toks |-> text[next]]
  BY ReadIs
<1>3. Below(out, next + 1)
  BY <1>1, OrderFacts
<1>4. QED
  BY <1>1, <1>2, <1>3 DEF Blank

(* The next line is read and nothing written.                                *)
LEMMA OrdNextLine ==
  ASSUME TypeInv, OrderInv, NextLine
  PROVE  OrderInv'
<1>1. PICK r : r = Read(line)
  OBVIOUS
<1>2. /\ next' = r.next /\ line' = r.line /\ pc' = IF r.n > 0 THEN "scan" ELSE "close"
      /\ out' = out /\ UNCHANGED inputVars
  BY <1>1 DEF NextLine, Take
<1>3. /\ r.next \in Int /\ Below(out, r.next)
      /\ r.n = 1 \/ r.n = 0 \/ r.n = -1
      /\ r.n = 1 => r.line.no = next /\ r.next = next + 1 /\ next # 0
  BY <1>1, OrderBasics, ReadOrder
<1>4. InOrder(out) /\ Below(out, next) /\ next \in Int
  BY OrderBasics
<1>5. CASE r.n = 1
  <2>1. pc' = "scan" /\ line'.no = next /\ next' = next + 1 /\ next # 0 /\ Below(out, next + 1)
    BY <1>2, <1>3, <1>5
  <2>2. PICK n : n = next
    OBVIOUS
  <2>3. QED
    BY <1>2, <1>4, <2>1, <2>2, OrderScan
<1>6. CASE r.n # 1
  <2>1. pc' \in Plainly
    BY <1>2, <1>3, <1>6 DEF Plainly
  <2>2. QED
    BY <1>2, <1>3, <1>4, <2>1, OrderPlain
<1>7. QED
  BY <1>5, <1>6

(* A comment is read and nothing written.                                    *)
LEMMA OrdComment ==
  ASSUME TypeInv, OrderInv, SkipComment
  PROVE  OrderInv'
<1>1. PICK r : r = Read(line)
  OBVIOUS
<1>2. /\ next' = r.next /\ line' = r.line /\ out' = out /\ UNCHANGED inputVars
      /\ pc' = IF StartsWith(r.line.toks, "*") THEN IF r.n = -1 THEN "endless" ELSE "comment"
               ELSE IF r.n > 0 THEN "scan" ELSE "close"
  BY <1>1 DEF SkipComment, Take
<1>3. /\ r.next \in Int /\ Below(out, r.next)
      /\ r.n = 1 \/ r.n = 0 \/ r.n = -1
      /\ r.n = 1 => r.line.no = next /\ r.next = next + 1 /\ next # 0
  BY <1>1, OrderBasics, ReadOrder
<1>4. InOrder(out) /\ Below(out, next) /\ next \in Int
  BY OrderBasics
<1>5. CASE pc' = "scan"
  <2>1. line'.no = next /\ next' = next + 1 /\ next # 0 /\ Below(out, next + 1)
    BY <1>2, <1>3, <1>5
  <2>2. PICK n : n = next
    OBVIOUS
  <2>3. QED
    BY <1>2, <1>4, <1>5, <2>1, <2>2, OrderScan
<1>6. CASE pc' # "scan"
  <2>1. pc' \in Plainly
    BY <1>2, <1>6 DEF Plainly
  <2>2. QED
    BY <1>2, <1>3, <1>4, <2>1, OrderPlain
<1>7. QED
  BY <1>5, <1>6

(* What the line begins is looked at, with no line kept.                     *)
LEMMA OrdScan ==
  ASSUME TypeInv, OrderInv, Scan
  PROVE  OrderInv'
<1>1. /\ pc = "scan" /\ pc' = Class(line.toks) /\ out' = out /\ next' = next /\ line' = line
      /\ start' = line /\ prependage' = <<>> /\ UNCHANGED inputVars
  BY DEF Scan, TopLevel, readVars
<1>2. /\ out \in Seq(Entries) /\ InOrder(out) /\ Below(out, next) /\ next \in Int
      /\ line.no # 0 /\ line.no = next - 1 /\ Below(out, line.no)
  BY <1>1, OrderBasics DEF OrderInv
<1>3. CASE pc' \in {"next", "comment"}
  <2>1. pc' \in Plainly
    BY <1>3 DEF Plainly
  <2>2. QED
    BY <1>1, <2>1, OrderNothing
<1>4. InOrder(out)' /\ Below(out, next)' /\ Below(out, line.no)'
  BY <1>1, <1>2, SameOrder DEF Below
<1>5. CASE pc' = "type"
  BY <1>1, <1>2, <1>4, <1>5 DEF OrderInv
<1>6. CASE pc' = "declare"
  <2>1. PICK e : e = Line(line.no)
    OBVIOUS
  <2>2. e \in Entries /\ e.no = line.no
    BY <1>2, <2>1 DEF Line, Entries
  <2>3. UpTo(out, e)
    BY <1>2, <2>2, OrderFacts
  <2>4. Pending' = out /\ Line(start.no)' = e
    <3>1. out \o Lines(<<>>) = out
      <4>1. <<>> \in Seq(Pieces)
        OBVIOUS
      <4>2. QED
        BY <1>2, <4>1, PendingFacts
    <3>2. QED
      BY <1>1, <2>1, <3>1 DEF Pending
  <2>5. PICK o : o = out
    OBVIOUS
  <2>6. InOrder(Pending)' /\ UpTo(Pending, Line(start.no))'
    BY <1>1, <1>2, <2>3, <2>4, <2>5, SameOrder
  <2>7. \A p \in DOMAIN prependage' : prependage'[p].no # 0
    BY <1>1
  <2>8. QED
    BY <1>1, <1>2, <1>4, <1>6, <2>6, <2>7 DEF OrderInv
<1>7. Class(line.toks) \in {"next", "comment", "type", "declare"}
  BY Zenon DEF Class
<1>8. QED
  BY <1>1, <1>3, <1>5, <1>6, <1>7

(* A line is written, if it is one.                                          *)
LEMMA LineWritten ==
  ASSUME NEW o \in Seq(Entries), NEW l \in Pieces, NEW n \in Int, InOrder(o), Below(o, n),
         l.no # 0 => l.no < n /\ Below(o, l.no)
  PROVE  /\ o \o Whole(l) \in Seq(Entries)
         /\ InOrder(o \o Whole(l)) /\ Below(o \o Whole(l), n)
<1>1. l.no \in Nat /\ l.no \in Int
  BY DEF Pieces
<1>2. PICK e : e = Line(l.no)
  OBVIOUS
<1>3. e \in Entries /\ e.no = l.no
  BY <1>1, <1>2 DEF Line, Entries
<1>4. l.no # 0 => l.no < n /\ UpTo(o, Line(l.no))
  BY <1>1, <1>2, <1>3, OrderFacts
<1>5. QED
  BY <1>1, <1>4, WrittenInOrder

(* The first line of a #define is written.                                   *)
LEMMA OrdDefine ==
  ASSUME TypeInv, OrderInv, Define
  PROVE  OrderInv'
<1>1. /\ pc = "scan" /\ pc' \in Plainly /\ out' = out \o Whole(line) /\ next' = next
      /\ UNCHANGED inputVars
  BY DEF Define, TopLevel, readVars, Plainly
<1>2. /\ out \in Seq(Entries) /\ InOrder(out) /\ Below(out, next) /\ next \in Int /\ line \in Pieces
      /\ line.no = next - 1 /\ Below(out, line.no)
  BY <1>1, OrderBasics DEF OrderInv
<1>3. PICK o : o = out \o Whole(line)
  OBVIOUS
<1>4. InOrder(o) /\ Below(o, next)
  BY <1>2, <1>3, LineWritten
<1>5. QED
  BY <1>1, <1>3, <1>4, OrderPlain

(* The line of an #include is written.                                       *)
LEMMA OrdInclude ==
  ASSUME TypeInv, OrderInv, Include
  PROVE  OrderInv'
<1>1. /\ pc = "scan" /\ pc' \in Plainly /\ out' \in {out, out \o Whole(line)} /\ next' = next
      /\ UNCHANGED inputVars
  BY DEF Include, TopLevel, readVars, Plainly
<1>2. /\ out \in Seq(Entries) /\ InOrder(out) /\ Below(out, next) /\ next \in Int /\ line \in Pieces
      /\ line.no = next - 1 /\ Below(out, line.no)
  BY <1>1, OrderBasics DEF OrderInv
<1>3. PICK o : o = out \o Whole(line)
  OBVIOUS
<1>4. InOrder(o) /\ Below(o, next)
  BY <1>2, <1>3, LineWritten
<1>5. QED
  BY <1>1, <1>2, <1>3, <1>4, OrderPlain

(* A line more of a #define is read and written.                             *)
LEMMA OrdResolve ==
  ASSUME TypeInv, OrderInv, ResolveDefine
  PROVE  OrderInv'
<1>1. PICK r : r = Read(Blank)
  OBVIOUS
<1>2. /\ next' = r.next /\ out' = (IF r.n = 1 THEN out \o Whole(r.line) ELSE out) /\ UNCHANGED inputVars
      /\ pc' = CASE r.n = -1 -> "crashed"
                 [] r.n = 1 /\ Has(r.line.toks, "\\") -> "define"
                 [] OTHER -> "next"
  BY <1>1 DEF ResolveDefine, Take
<1>3. pc' \in {"crashed", "define", "next"}
  BY <1>2, Zenon
<1>4. out \in Seq(Entries) /\ InOrder(out) /\ Below(out, next) /\ next \in Int /\ Blank \in Pieces
  BY OrderBasics, BlankIsPiece
<1>5. /\ r.next \in Int /\ Below(out, r.next) /\ r.line \in Pieces
      /\ r.n = 1 => r.line.no = next /\ r.next = next + 1
  BY <1>1, <1>4, ReadOrder
<1>6. PICK o : o = out'
  OBVIOUS
<1>7. InOrder(o) /\ Below(o, r.next)
  <2>1. CASE r.n = 1
    <3>1. o = out \o Whole(r.line) /\ r.line.no < r.next /\ Below(out, r.line.no)
      BY <1>2, <1>4, <1>5, <1>6, <2>1
    <3>2. QED
      BY <1>4, <1>5, <3>1, LineWritten
  <2>2. CASE r.n # 1
    BY <1>2, <1>4, <1>5, <1>6, <2>2
  <2>3. QED
    BY <2>1, <2>2
<1>8. pc' \in Plainly
  BY <1>3 DEF Plainly
<1>9. PICK n : n = r.next
  OBVIOUS
<1>10. QED
  BY <1>2, <1>6, <1>7, <1>8, <1>9, OrderPlain

(* A type that the scanner follows ends before the file does.                 *)
LEMMA TypeReads ==
  ASSUME TypeInv, PosInv, Regular, pc = "type", NEW r, r = Read(line)
  PROVE  r.n = 1
<1>1. AtType /\ line \in Pieces
  BY DEF PosInv, Follows, TypeInv
<1>2. PICK k \in DOMAIN file : \E j \in 1 .. Len(K(k)) - 1 : HasRead(k, j)
  BY <1>1 DEF AtType
<1>3. PICK j \in 1 .. Len(K(k)) - 1 : HasRead(k, j)
  BY <1>2
<1>4. QED
  BY <1>1, <1>3, ReadInItem

(* A line of a type is written, at its end with the line read.               *)
LEMMA OrdType ==
  ASSUME TypeInv, PosInv, OrderInv, TypeLine
  PROVE  OrderInv'
<1> DEFINE last(r) == closed' /\ Has(r.line.toks, Semicolon)
<1>1. PICK r : r = Read(line)
  OBVIOUS
<1>2. /\ pc = "type" /\ next' = r.next /\ line' = r.line /\ UNCHANGED inputVars
      /\ out' = IF last(r) THEN out \o Whole(line) \o Whole(r.line) ELSE out \o Whole(line)
      /\ pc' = CASE last(r) -> "next" [] ~last(r) /\ r.n = -1 -> "endless" [] OTHER -> "type"
  BY <1>1 DEF TypeLine, Take
<1> HIDE DEF last
<1>3. /\ out \in Seq(Entries) /\ InOrder(out) /\ Below(out, next) /\ next \in Int /\ line \in Pieces
      /\ line.no = 0 \/ (line.no = next - 1 /\ Below(out, line.no))
  BY <1>2, OrderBasics DEF OrderInv
<1>4. /\ r.next \in Int /\ Below(out, r.next) /\ r.line \in Pieces /\ next <= r.next
      /\ r.n = 1 \/ r.n = 0 \/ r.n = -1
      /\ r.n = 1 => r.line.no = next /\ r.next = next + 1
      /\ r.n = 0 => r.line.no = 0
      /\ r.n = -1 => r.line = line /\ r.next = next
  BY <1>1, <1>3, ReadOrder
<1>5. PICK o : o = out \o Whole(line)
  OBVIOUS
<1>6. o \in Seq(Entries) /\ InOrder(o) /\ Below(o, next) /\ Below(o, r.next)
  <2>1. o \in Seq(Entries) /\ InOrder(o) /\ Below(o, next)
    BY <1>3, <1>5, LineWritten
  <2>2. QED
    BY <1>3, <1>4, <2>1, OrderFacts
<1>7. CASE last(r)
  <2>1. pc' = "next"
    BY <1>2, <1>7, Zenon
  <2>2. out' = o \o Whole(r.line)
    BY <1>2, <1>5, <1>7
  <2>3. InOrder(o \o Whole(r.line)) /\ Below(o \o Whole(r.line), r.next)
    <3>1. CASE r.n # -1
      <4>1. r.line.no # 0 => r.line.no < r.next /\ Below(o, r.line.no)
        BY <1>3, <1>4, <1>6, <3>1
      <4>2. QED
        BY <1>4, <1>6, <4>1, LineWritten
    <3>2. CASE r.n = -1
      <4>1. ~Regular /\ r.line = line /\ r.next = next
        BY <1>1, <1>2, <1>4, <3>2, TypeReads
      <4>2. ASSUME line.no # 0 PROVE line.no < next /\ UpTo(o, Line(line.no))
        <5>1. line.no = next - 1 /\ line.no \in Int
          BY <1>3, <4>2
        <5>2. \A i \in DOMAIN o : o[i].no \in Int /\ o[i].no < next
          <6>1. \A i \in DOMAIN o : o[i] \in Entries
            BY <1>6
          <6>2. QED
            BY <1>6, <6>1 DEF Below, Entries
        <5>3. UpTo(o, Line(line.no))
          BY <1>3, <4>1, <5>1, <5>2 DEF UpTo, Before, Line
        <5>4. QED
          BY <1>3, <5>1, <5>3
      <4>3. line.no \in Nat
        BY <1>3 DEF Pieces
      <4>4. QED
        BY <1>3, <1>6, <4>1, <4>2, <4>3, WrittenInOrder
    <3>3. QED
      BY <3>1, <3>2
  <2>4. PICK p : p = o \o Whole(r.line)
    OBVIOUS
  <2>5. pc' \in Plainly
    BY <2>1 DEF Plainly
  <2>6. PICK n : n = r.next
    OBVIOUS
  <2>7. QED
    BY <1>2, <2>2, <2>3, <2>4, <2>5, <2>6, OrderPlain
<1>8. CASE ~last(r) /\ r.n = -1
  <2>1. pc' = "endless"
    BY <1>2, <1>8, Zenon
  <2>2. out' = o
    BY <1>2, <1>5, <1>8
  <2>3. pc' \in Plainly
    BY <2>1 DEF Plainly
  <2>4. PICK n : n = r.next
    OBVIOUS
  <2>5. QED
    BY <1>2, <1>6, <2>2, <2>3, <2>4, OrderPlain
<1>9. CASE ~last(r) /\ r.n # -1
  <2>1. pc' = "type"
    BY <1>2, <1>9, Zenon
  <2>2. out' = o
    BY <1>2, <1>5, <1>9
  <2>3. line'.no = 0 \/ (line'.no = next' - 1 /\ Below(o, line'.no))
    BY <1>2, <1>3, <1>4, <1>6, <1>9
  <2>4. InOrder(out)' /\ Below(out, next)'
    BY <1>2, <1>6, <2>2, SameOrder DEF Below
  <2>5. line'.no = 0 \/ (line'.no = next' - 1 /\ Below(out', line'.no))
    BY <2>2, <2>3
  <2>6. QED
    BY <2>1, <2>4, <2>5 DEF OrderInv
<1>10. QED
  BY <1>7, <1>8, <1>9

(* What comes behind all lines comes behind the first of them.               *)
LEMMA UpToPrefix ==
  ASSUME NEW o \in Seq(Entries), NEW q \in Seq(Entries), NEW e, UpTo(o \o q, e)
  PROVE  UpTo(o, e)
<1>1. Len(o) \in Nat /\ Len(q) \in Nat /\ DOMAIN o = 1 .. Len(o)
  BY LenProperties
<1> DEFINE t == o \o q
<1>2. /\ t \in Seq(Entries) /\ Len(t) = Len(o) + Len(q)
      /\ \A i \in 1 .. Len(o) + Len(q) : t[i] = IF i <= Len(o) THEN o[i] ELSE q[i - Len(o)]
  BY ConcatProperties
<1> HIDE DEF t
<1>3. DOMAIN t = 1 .. Len(o) + Len(q)
  BY <1>2, LenProperties
<1>4. \A i \in DOMAIN o : i \in DOMAIN t /\ t[i] = o[i]
  BY <1>1, <1>2, <1>3
<1>5. UpTo(t, e)
  BY DEF t
<1>6. QED
  BY <1>4, <1>5 DEF UpTo

(* The lines that are kept are lines of the file, with one more of them.     *)
LEMMA NonzeroMore ==
  ASSUME NEW q \in Seq(Pieces), NEW l \in Pieces, l.no # 0, \A p \in DOMAIN q : q[p].no # 0
  PROVE  \A p \in DOMAIN Append(q, l) : Append(q, l)[p].no # 0
<1>1. Append(q, l) \in Seq(Pieces) /\ Len(Append(q, l)) = Len(q) + 1
      /\ (\A i \in 1 .. Len(q) : Append(q, l)[i] = q[i]) /\ Append(q, l)[Len(q) + 1] = l
      /\ Len(q) \in Nat /\ DOMAIN q = 1 .. Len(q)
  BY AppendProperties, LenProperties
<1>2. DOMAIN Append(q, l) = 1 .. Len(q) + 1
  BY <1>1, LenProperties
<1>3. \A i \in 1 .. Len(q) + 1 : i = Len(q) + 1 \/ i \in 1 .. Len(q)
  BY <1>1
<1>4. QED
  BY <1>1, <1>2, <1>3

(* A statement that is not empty is of a line of the file.                   *)
LEMMA NumberedIfNotEmpty ==
  ASSUME TypeInv, OrderInv, start.toks # <<>>
  PROVE  start.no # 0
<1>1. start \in Pieces
  BY OrderBasics
<1>2. QED
  BY <1>1 DEF Pieces, IsLine

(* Where a statement is looked at, if it is in a line of the file.            *)
LEMMA OrderAt ==
  ASSUME TypeInv, OrderInv, pc \in {"declare", "header"}, start.no # 0
  PROVE  /\ start.no \in Int /\ start.no = next - 1
         /\ \A p \in DOMAIN prependage : prependage[p].no # 0
         /\ Pending \in Seq(Entries) /\ InOrder(Pending) /\ UpTo(Pending, Line(start.no))
         /\ UpTo(out, Line(start.no)) /\ Below(Pending, next)
<1>1. start \in Pieces /\ out \in Seq(Entries) /\ prependage \in Seq(Pieces) /\ next \in Int
  BY OrderBasics
<1>2. start.no \in Int
  BY <1>1 DEF Pieces
<1>3. /\ start.no = next - 1 /\ \A p \in DOMAIN prependage : prependage[p].no # 0
      /\ InOrder(Pending) /\ UpTo(Pending, Line(start.no))
  BY <1>2 DEF OrderInv
<1>4. Lines(prependage) \in Seq(Entries) /\ Pending \in Seq(Entries)
  BY <1>1, LinesType, PendingFacts DEF Pending
<1>5. UpTo(out, Line(start.no))
  BY <1>1, <1>3, <1>4, UpToPrefix DEF Pending
<1>6. Below(Pending, next)
  <2>1. Below(Pending, start.no + 1)
    BY <1>2, <1>3, <1>4, OrderFacts
  <2>2. start.no + 1 = next
    BY <1>1, <1>3
  <2>3. QED
    BY <2>1, <2>2
<1>7. QED
  BY <1>2, <1>3, <1>4, <1>5, <1>6

(* A variable is written as an extern, of the line that is looked at.        *)
LEMMA OrdVariable ==
  ASSUME TypeInv, OrderInv, Variable
  PROVE  OrderInv'
<1>1. /\ pc = "declare" /\ determine_type(start.toks) = "SEMICOLON"
      /\ out' = IF Has(start.toks, "static") THEN out
                ELSE Append(out, [no |-> start.no, as |-> "extern"])
      /\ start'.no = start.no /\ prependage' = <<>> /\ pc' = pc /\ next' = next
      /\ UNCHANGED inputVars
  BY DEF Variable, Type, readVars, TypeInv, Pieces
<1>2. start.toks # <<>>
  BY <1>1 DEF determine_type
<1>0. start.no # 0
  BY <1>2, NumberedIfNotEmpty
<1>3. /\ start.no # 0 /\ start.no \in Int /\ start.no = next - 1 /\ UpTo(out, Line(start.no))
      /\ out \in Seq(Entries) /\ InOrder(out) /\ next \in Int
  BY <1>0, <1>1, OrderAt, OrderBasics
<1>4. PICK e : e = [no |-> start.no, as |-> "extern"]
  OBVIOUS
<1>5. e \in Entries /\ e.no = start.no /\ Before(e, Line(start.no))
  BY <1>3, <1>4 DEF Entries, Before, Line
<1>6. UpTo(out, e)
  <2>1. \A i \in DOMAIN out : out[i].no \in Int /\ Before(out[i], Line(start.no))
    <3>1. \A i \in DOMAIN out : out[i] \in Entries
      BY <1>3
    <3>2. QED
      BY <1>3, <3>1 DEF Entries, UpTo
  <2>2. QED
    BY <1>3, <1>4, <2>1 DEF UpTo, Before, Line
<1>7. PICK o : o = out'
  OBVIOUS
<1>8. o \in Seq(Entries) /\ InOrder(o) /\ UpTo(o, Line(start.no))
  <2>1. CASE Has(start.toks, "static")
    BY <1>1, <1>3, <1>7, <2>1
  <2>2. CASE ~Has(start.toks, "static")
    <3>1. o = out \o <<e>>
      <4>1. Append(out, e) = out \o <<e>>
        BY <1>3, <1>5, AppendIsConcat
      <4>2. QED
        BY <1>1, <1>4, <1>7, <2>2, <4>1
    <3>2. QED
      BY <1>3, <1>5, <1>6, <3>1, MoreIs, OrderMore, UpToMore
  <2>3. QED
    BY <2>1, <2>2
<1>9. Below(o, next)
  <2>1. start.no + 1 = next
    BY <1>3
  <2>2. Below(o, start.no + 1)
    BY <1>3, <1>8, OrderFacts
  <2>3. QED
    BY <2>1, <2>2
<1>10. Pending' = o
  <2>1. <<>> \in Seq(Pieces)
    OBVIOUS
  <2>2. o \o Lines(<<>>) = o
    BY <1>8, <2>1, PendingFacts
  <2>3. QED
    BY <1>1, <1>7, <2>2 DEF Pending
<1>11. PICK f : f = Line(start.no)
  OBVIOUS
<1>12. InOrder(out)' /\ InOrder(Pending)' /\ UpTo(Pending, Line(start.no))' /\ Below(out, next)'
  <2>1. InOrder(o)' /\ UpTo(o, f)'
    BY <1>1, <1>8, <1>11, SameOrder
  <2>2. Line(start.no)' = f
    BY <1>1, <1>11
  <2>3. QED
    BY <1>1, <1>7, <1>9, <1>10, <2>1, <2>2 DEF Below
<1>13. \A p \in DOMAIN prependage' : prependage'[p].no # 0
  BY <1>1
<1>14. QED
  BY <1>1, <1>3, <1>12, <1>13 DEF OrderInv

(* The header begins and nothing is written.                                 *)
LEMMA OrdBegins ==
  ASSUME TypeInv, OrderInv, FunctionBegins
  PROVE  OrderInv'
<1>1. /\ pc = "declare" /\ pc' = "header" /\ out' = out /\ start' = start
      /\ prependage' = prependage /\ next' = next /\ eof' = eof /\ UNCHANGED inputVars
  BY DEF FunctionBegins, readVars, funcVars
<1>2. PICK o : o = out
  OBVIOUS
<1>3. PICK q : q = Pending
  OBVIOUS
<1>4. PICK f : f = Line(start.no)
  OBVIOUS
<1>5. InOrder(o)' = InOrder(o) /\ InOrder(q)' = InOrder(q) /\ UpTo(q, f)' = UpTo(q, f)
  BY <1>1, SameOrder
<1>6. Pending' = q /\ Line(start.no)' = f
  BY <1>1, <1>3, <1>4 DEF Pending
<1>7. Below(out, next)' = Below(out, next)
  BY <1>1 DEF Below
<1>8. InOrder(out)' = InOrder(out) /\ InOrder(Pending)' = InOrder(Pending)
      /\ UpTo(Pending, Line(start.no))' = UpTo(Pending, Line(start.no))
  BY <1>1, <1>2, <1>3, <1>4, <1>5, <1>6
<1>9. QED
  BY <1>1, <1>7, <1>8 DEF OrderInv

(* A line more is pending: the next is read.                                  *)
LEMMA PendingReads ==
  ASSUME TypeInv, OrderInv, pc \in {"declare", "header"}, start.no # 0, UNCHANGED inputVars,
         NEW l \in Pieces, l.no # 0, UpTo(Pending, Line(l.no)), out' = out,
         prependage' = Append(prependage, l), pc' \in {"declare", "header"},
         start'.no = next, next' = next + 1, l.no < next \/ (l.no = next /\ ~Regular)
  PROVE  OrderInv'
<1>1. /\ \A p \in DOMAIN prependage : prependage[p].no # 0
      /\ Pending \in Seq(Entries) /\ InOrder(Pending) /\ Below(Pending, next)
  BY OrderAt
<1>2. out \in Seq(Entries) /\ prependage \in Seq(Pieces) /\ Below(out, next) /\ InOrder(out)
      /\ next \in Int /\ next > 0
  BY OrderBasics
<1>3. PICK e : e = Line(l.no)
  OBVIOUS
<1>4. e \in Entries /\ e.no = l.no /\ e.no \in Int
  BY <1>3 DEF Entries, Line, Pieces
<1>5. PICK q : q = Pending \o <<e>>
  OBVIOUS
<1>6. Pending' = q
  BY <1>2, <1>3, <1>5, PendingFacts DEF Pending
<1>7. q \in Seq(Entries) /\ InOrder(q)
  BY <1>1, <1>3, <1>4, <1>5, MoreIs, OrderMore
<1>8. PICK f : f = Line(next)
  OBVIOUS
<1>9. UpTo(q, f)
  <2>1. f \in Entries /\ f.no = next /\ f.as = "line"
    BY <1>2, <1>8 DEF Entries, Line
  <2>2. Before(e, f)
    BY <1>2, <1>3, <1>4, <1>8 DEF Before, Line
  <2>3. UpTo(Pending, f)
    BY <1>1, <1>2, <2>1, OrderFacts
  <2>4. QED
    BY <1>1, <1>4, <1>5, <2>2, <2>3, UpToMore
<1>10. PICK o : o = out
  OBVIOUS
<1>11. InOrder(o)' /\ InOrder(q)' /\ UpTo(q, f)'
  BY <1>2, <1>7, <1>9, <1>10, SameOrder
<1>12. Below(out, next)'
  <2>1. PICK m : m = next + 1
    OBVIOUS
  <2>2. Below(out, m)
    BY <1>2, <2>1, OrderFacts
  <2>3. QED
    BY <2>1, <2>2 DEF Below
<1>13. \A p \in DOMAIN prependage' : prependage'[p].no # 0
  BY <1>1, <1>2, NonzeroMore
<1>14. InOrder(out)' /\ InOrder(Pending)' /\ UpTo(Pending, Line(start.no))'
  <2>1. Line(start.no)' = f
    BY <1>8
  <2>2. QED
    BY <1>6, <1>10, <1>11, <2>1
<1>15. start'.no = next' - 1 /\ start'.no # 0
  BY <1>2
<1>16. QED
  BY <1>12, <1>13, <1>14, <1>15 DEF OrderInv

(* At the end of the file there is nothing more to say.                       *)
LEMMA PendingEnds ==
  ASSUME TypeInv, OrderInv, UNCHANGED inputVars, out' = out, pc' \in {"declare", "header"},
         start'.no = 0, eof', NEW n, next' = n, Below(out, n)
  PROVE  OrderInv'
<1>1. PICK o : o = out
  OBVIOUS
<1>2. InOrder(o)'
  BY <1>1, OrderBasics, SameOrder
<1>3. InOrder(out)' /\ Below(out, next)'
  BY <1>1, <1>2 DEF Below
<1>4. QED
  BY <1>3 DEF OrderInv

(* The next line is read and kept, twice if the first of a header.           *)
LEMMA OrdUndetermined ==
  ASSUME TypeInv, PosInv, OrderInv, Undetermined
  PROVE  OrderInv'
<1>1. PICK r : r = Read(Blank)
  OBVIOUS
<1>2. /\ pc = "declare" /\ determine_type(start.toks) = "UNDEFINED" /\ next' = r.next /\ eof' = r.eof
      /\ start' = r.line /\ prependage' = Append(prependage, r.line) /\ out' = out
      /\ pc' = (IF r.n = -1 THEN "crashed" ELSE "declare") /\ UNCHANGED inputVars
  BY <1>1 DEF Undetermined, Take, Type
<1>3. start.no # 0
  <2>1. start.toks # <<>>
    BY <1>2 DEF determine_type
  <2>2. QED
    BY <2>1, NumberedIfNotEmpty
<1>4. ~Regular
  BY PosUndetermined DEF PosInv
<1>5. Blank \in Pieces /\ next \in Int /\ next > 0 /\ InOrder(out)
  BY OrderBasics, BlankIsPiece
<1>6. /\ Below(out, r.next) /\ r.line \in Pieces
      /\ r.n = 1 \/ r.n = 0 \/ r.n = -1
      /\ r.n = 1 => r.line.no = next /\ r.next = next + 1
      /\ r.n = 0 => r.line.no = 0 /\ r.eof
  BY <1>1, <1>5, ReadOrder
<1>7. CASE r.n = 1
  <2>1. PICK l \in Pieces : l = r.line
    BY <1>6
  <2>2. l.no = next /\ l.no # 0
    BY <1>5, <1>6, <1>7, <2>1
  <2>3. PICK e : e = Line(l.no)
    OBVIOUS
  <2>4. e \in Entries /\ e.no = next
    BY <1>5, <2>2, <2>3 DEF Line, Entries
  <2>5. UpTo(Pending, Line(l.no))
    BY <1>2, <1>3, <1>5, <2>3, <2>4, OrderAt, OrderFacts
  <2>6. start'.no = next /\ next' = next + 1 /\ pc' = "declare" /\ prependage' = Append(prependage, l)
    BY <1>2, <1>6, <1>7, <2>1
  <2>7. QED
    BY <1>2, <1>3, <1>4, <2>2, <2>5, <2>6, PendingReads
<1>8. CASE r.n = 0
  <2>1. PICK n : n = r.next
    OBVIOUS
  <2>2. pc' = "declare" /\ start'.no = 0 /\ eof' /\ next' = n /\ Below(out, n)
    BY <1>2, <1>6, <1>8, <2>1
  <2>3. QED
    BY <1>2, <2>2, PendingEnds
<1>9. CASE r.n = -1
  <2>1. PICK n : n = r.next
    OBVIOUS
  <2>2. pc' \in Plainly
    BY <1>2, <1>9 DEF Plainly
  <2>3. QED
    BY <1>2, <1>5, <1>6, <2>1, <2>2, OrderPlain
<1>10. QED
  BY <1>6, <1>7, <1>8, <1>9

(* A line of the header is kept and the next one read.                       *)
LEMMA OrdHeaderLine ==
  ASSUME TypeInv, OrderInv, HeaderLine
  PROVE  OrderInv'
<1>1. PICK r : r = Read(start)
  OBVIOUS
<1>2. /\ pc = "header" /\ next' = r.next /\ eof' = r.eof /\ start' = r.line
      /\ prependage' = Append(prependage, start) /\ out' = out
      /\ pc' = (IF r.n = -1 THEN "endless" ELSE "header") /\ UNCHANGED inputVars
  BY <1>1 DEF HeaderLine, Take
<1>3. start \in Pieces /\ next \in Int /\ next > 0 /\ InOrder(out)
  BY OrderBasics
<1>4. /\ Below(out, r.next) /\ r.line \in Pieces
      /\ r.n = 1 \/ r.n = 0 \/ r.n = -1
      /\ r.n = 1 => r.line.no = next /\ r.next = next + 1 /\ ~eof
      /\ r.n = 0 => r.line.no = 0 /\ r.eof
  BY <1>1, <1>3, ReadOrder, ReadIs
<1>5. CASE r.n = 1
  <2>1. start.no # 0
    BY <1>2, <1>4, <1>5 DEF OrderInv
  <2>2. UpTo(Pending, Line(start.no)) /\ start.no < next
    BY <1>2, <1>3, <2>1, OrderAt
  <2>3. PICK l \in Pieces : l = start
    BY <1>3
  <2>4. l.no # 0 /\ UpTo(Pending, Line(l.no)) /\ l.no < next /\ prependage' = Append(prependage, l)
    BY <1>2, <2>1, <2>2, <2>3
  <2>5. start'.no = next /\ next' = next + 1 /\ pc' = "header"
    BY <1>2, <1>4, <1>5
  <2>6. QED
    BY <1>2, <2>1, <2>4, <2>5, PendingReads
<1>6. CASE r.n = 0
  <2>1. PICK n : n = r.next
    OBVIOUS
  <2>2. pc' = "header" /\ start'.no = 0 /\ eof' /\ next' = n /\ Below(out, n)
    BY <1>2, <1>4, <1>6, <2>1
  <2>3. QED
    BY <1>2, <2>2, PendingEnds
<1>7. CASE r.n = -1
  <2>1. PICK n : n = r.next
    OBVIOUS
  <2>2. pc' \in Plainly
    BY <1>2, <1>7 DEF Plainly
  <2>3. QED
    BY <1>2, <1>3, <1>4, <2>1, <2>2, OrderPlain
<1>8. QED
  BY <1>4, <1>5, <1>6, <1>7

(* What was kept is written.                                                 *)
LEMMA OrdBodyBegins ==
  ASSUME TypeInv, OrderInv, BodyBegins
  PROVE  OrderInv'
<1>1. /\ pc = "header" /\ curly_bracket_before_semicolon(start.toks) = LeftCurly
      /\ out' = out \o FlattenSeq([i \in DOMAIN prependage |-> Whole(prependage[i])])
      /\ pc' = "body" /\ start' = start /\ next' = next /\ UNCHANGED inputVars
  BY DEF BodyBegins, readVars
<1>2. start.no # 0
  <2>1. start.toks # <<>>
    <3>1. SUFFICES ASSUME start.toks = <<>> PROVE FALSE
      OBVIOUS
    <3>2. <<>> \in Seq(STRING) /\ Len(<<>>) = 0
      OBVIOUS
    <3>3. PICK s : s = {LeftCurly, Semicolon}
      OBVIOUS
    <3>4. FirstOf(<<>>, s) = "end"
      <4>1. ~ \E i : IsFirst(<<>>, s, i)
        BY <3>2 DEF IsFirst
      <4>2. QED
        BY <3>2, <4>1, FirstOfFacts
    <3>5. QED
      BY <1>1, <3>1, <3>3, <3>4, TokensDiffer DEF curly_bracket_before_semicolon
  <2>2. QED
    BY <2>1, NumberedIfNotEmpty
<1>3. /\ start.no \in Int /\ start.no = next - 1
      /\ \A p \in DOMAIN prependage : prependage[p].no # 0
      /\ InOrder(Pending) /\ UpTo(Pending, Line(start.no)) /\ Below(Pending, next)
  BY <1>1, <1>2, OrderAt
<1>4. PICK o : o = Pending
  OBVIOUS
<1>5. out' = o
  <2>1. prependage \in Seq(Pieces)
    BY OrderBasics
  <2>2. FlattenSeq([i \in DOMAIN prependage |-> Whole(prependage[i])]) = Lines(prependage)
    BY <1>3, <2>1, PendingWritten
  <2>3. QED
    BY <1>1, <1>4, <2>2 DEF Pending
<1>6. PICK f : f = Line(start.no)
  OBVIOUS
<1>7. InOrder(o)' /\ UpTo(o, f)'
  BY <1>1, <1>3, <1>4, <1>6, SameOrder
<1>8. InOrder(out)' /\ UpTo(out, Line(start.no))' /\ Below(out, next)'
  <2>1. Line(start.no)' = f
    BY <1>1, <1>6
  <2>2. QED
    BY <1>1, <1>3, <1>4, <1>5, <1>7, <2>1 DEF Below
<1>9. start'.no = next' - 1
  BY <1>1, <1>3
<1>10. QED
  BY <1>1, <1>8, <1>9 DEF OrderInv

(* A line of the body is written, and the next one read.                     *)
LEMMA OrdBodyLine ==
  ASSUME TypeInv, OrderInv, BodyLine
  PROVE  OrderInv'
<1> DEFINE written == ~StartsWith(start.toks, "//")
           d == IF written THEN depth + checkCurlyBrackets(start.toks) ELSE depth
<1>1. PICK r : r = Read(start)
  OBVIOUS
<1>2. /\ pc = "body" /\ out' = IF written THEN out \o Whole(start) ELSE out
      /\ IF written /\ d = 0
         THEN pc' = "found" /\ next' = next
         ELSE next' = r.next /\ start' = r.line /\ pc' = IF r.n > 0 THEN "body" ELSE "found"
      /\ UNCHANGED inputVars
  BY <1>1 DEF BodyLine, Take, readVars
<1> HIDE DEF d, written
<1>3. /\ out \in Seq(Entries) /\ InOrder(out) /\ Below(out, next) /\ next \in Int /\ next > 0
      /\ start \in Pieces /\ start.no \in Nat
      /\ start.no # 0 => start.no < next /\ UpTo(out, Line(start.no))
  <2>1. /\ out \in Seq(Entries) /\ InOrder(out) /\ Below(out, next) /\ next \in Int /\ next > 0
        /\ start \in Pieces
    BY OrderBasics
  <2>2. start.no \in Nat
    BY <2>1 DEF Pieces
  <2>3. start.no = 0 \/ (start.no = next - 1 /\ UpTo(out, Line(start.no)))
    BY <1>2 DEF OrderInv
  <2>4. QED
    BY <2>1, <2>2, <2>3
<1>4. PICK o : o = out'
  OBVIOUS
<1>5. o \in Seq(Entries) /\ InOrder(o) /\ Below(o, next)
  <2>1. CASE written
    <3>1. o = out \o Whole(start)
      BY <1>2, <1>4, <2>1
    <3>2. QED
      BY <1>3, <3>1, WrittenInOrder
  <2>2. CASE ~written
    BY <1>2, <1>3, <1>4, <2>2
  <2>3. QED
    BY <2>1, <2>2
<1>6. /\ r.next \in Int /\ next <= r.next
      /\ r.n = 1 \/ r.n = 0 \/ r.n = -1
      /\ r.n = 1 => r.line.no = next /\ r.next = next + 1
  BY <1>1, <1>3, ReadOrder
<1>7. Below(o, next') /\ next' \in Int
  <2>1. next' \in Int /\ next <= next'
    BY <1>2, <1>3, <1>6
  <2>2. QED
    BY <1>3, <1>5, <2>1, OrderFacts
<1>8. CASE pc' = "found"
  <2>1. pc' \in Plainly
    BY <1>8 DEF Plainly
  <2>2. PICK n : n = next'
    OBVIOUS
  <2>3. QED
    BY <1>2, <1>4, <1>5, <1>7, <2>1, <2>2, OrderPlain
<1>9. CASE pc' # "found"
  <2>1. pc' = "body" /\ next' = next + 1 /\ start'.no = next
    BY <1>2, <1>6, <1>9
  <2>2. PICK f : f = Line(next)
    OBVIOUS
  <2>3. f \in Entries /\ f.no = next
    BY <1>3, <2>2 DEF Line, Entries
  <2>4. UpTo(o, f)
    BY <1>3, <1>5, <2>3, OrderFacts
  <2>5. InOrder(o)' /\ UpTo(o, f)'
    BY <1>2, <1>5, <2>4, SameOrder
  <2>6. InOrder(out)' /\ UpTo(out, Line(start.no))' /\ Below(out, next)'
    <3>1. Line(start.no)' = f
      BY <2>1, <2>2
    <3>2. QED
      BY <1>4, <1>7, <2>5, <3>1 DEF Below
  <2>7. start'.no = next' - 1
    BY <1>3, <2>1
  <2>8. QED
    BY <2>1, <2>6, <2>7 DEF OrderInv
<1>10. QED
  BY <1>8, <1>9

(* Initially nothing is written.                                             *)
LEMMA OrderInit == Init => OrderInv
<1> SUFFICES ASSUME Init PROVE OrderInv
  OBVIOUS
<1>1. pc = "open" /\ out = <<>>
  BY DEF Init
<1>2. InOrder(out) /\ Below(out, next)
  BY <1>1 DEF InOrder, Below
<1>3. QED
  BY <1>1, <1>2 DEF OrderInv

(* The steps that neither read nor write.                                    *)
LEMMA OrderQuiet ==
  ASSUME TypeInv, OrderInv,
         OpenFails \/ Open \/ InsideBrackets \/ ReturnZero \/ Return
  PROVE  OrderInv'
<1>1. UNCHANGED inputVars /\ pc' \in {"done", "next"} /\ out' = out /\ next' = next
  BY DEF OpenFails, Open, InsideBrackets, ReturnZero, Return, readVars
<1>2. pc' \in Plainly
  BY <1>1 DEF Plainly
<1>3. QED
  BY <1>1, <1>2, OrderNothing

(* A step that changes nothing keeps the order.                              *)
LEMMA OrderStutters == ASSUME OrderInv, UNCHANGED vars PROVE OrderInv'
<1>1. /\ UNCHANGED inputVars /\ pc' = pc /\ next' = next /\ eof' = eof /\ line' = line
      /\ start' = start /\ prependage' = prependage /\ out' = out
  BY DEF vars, readVars, funcVars
<1>2. \A s : InOrder(s)' = InOrder(s)
  BY <1>1, SameOrder
<1>3. \A s, e : UpTo(s, e)' = UpTo(s, e)
  BY <1>1, SameOrder
<1>4. PICK o : o = out
  OBVIOUS
<1>5. PICK q : q = Pending
  OBVIOUS
<1>6. PICK f : f = Line(start.no)
  OBVIOUS
<1>7. Pending' = q /\ Line(start.no)' = f
  BY <1>1, <1>5, <1>6 DEF Pending
<1>8. /\ InOrder(out)' = InOrder(out) /\ InOrder(Pending)' = InOrder(Pending)
      /\ UpTo(Pending, Line(start.no))' = UpTo(Pending, Line(start.no))
      /\ UpTo(out, Line(start.no))' = UpTo(out, Line(start.no))
  BY <1>1, <1>2, <1>3, <1>4, <1>5, <1>6, <1>7
<1>9. Below(out, next)' = Below(out, next) /\ Below(out, line.no)' = Below(out, line.no)
  BY <1>1 DEF Below
<1>10. QED
  BY <1>1, <1>8, <1>9 DEF OrderInv

(* Every step preserves the order.                                           *)
LEMMA OrderStep == TypeInv /\ PosInv /\ OrderInv /\ [Next]_vars => OrderInv'
<1> SUFFICES ASSUME TypeInv, PosInv, OrderInv, [Next]_vars PROVE OrderInv'
  OBVIOUS
<1>1. CASE OpenFails \/ Open \/ InsideBrackets \/ ReturnZero \/ Return
  BY <1>1, OrderQuiet
<1>2. CASE NextLine
  BY <1>2, OrdNextLine
<1>3. CASE Scan
  BY <1>3, OrdScan
<1>4. CASE Define
  BY <1>4, OrdDefine
<1>5. CASE ResolveDefine
  BY <1>5, OrdResolve
<1>6. CASE Include
  BY <1>6, OrdInclude
<1>7. CASE SkipComment
  BY <1>7, OrdComment
<1>8. CASE TypeLine
  BY <1>8, OrdType
<1>9. CASE Variable
  BY <1>9, OrdVariable
<1>10. CASE Undetermined
  BY <1>10, OrdUndetermined
<1>11. CASE FunctionBegins
  BY <1>11, OrdBegins
<1>12. CASE HeaderLine
  BY <1>12, OrdHeaderLine
<1>13. CASE BodyBegins
  BY <1>13, OrdBodyBegins
<1>14. CASE BodyLine
  BY <1>14, OrdBodyLine
<1>15. CASE UNCHANGED vars
  BY <1>15, OrderStutters
<1>16. QED
  BY <1>1, <1>2, <1>3, <1>4, <1>5, <1>6, <1>7, <1>8, <1>9, <1>10, <1>11, <1>12, <1>13, <1>14,
     <1>15 DEF Next

(* Spec => []OutputInOrder: what it writes is in the source's order in every *)
(* file, and no line twice in one that the scanner follows.                  *)
THEOREM Ordered == Spec => []OutputInOrder
<1>1. Init => OrderInv
  BY OrderInit
<1>2. Spec => [](TypeInv /\ PosInv)
  BY Positioned
<1>3. TypeInv /\ PosInv /\ OrderInv /\ [Next]_vars => OrderInv'
  BY OrderStep
<1>4. OrderInv => OutputInOrder
  BY OrderInvImplies
<1>5. QED
  BY <1>1, <1>2, <1>3, <1>4, PTL DEF Spec

--------------------------------------------------------------------------------
(* The way to an end.                                                        *)

(* A step is closer to an end.                                                *)
Closer ==
  \/ ReadsLeft' < ReadsLeft
  \/ /\ ReadsLeft' = ReadsLeft
     /\ \/ StagesLeft[pc'] < StagesLeft[pc]
        \/ pc' = pc /\ Len(start'.toks) < Len(start.toks)

(* Nothing is negative in what it decreases: a descent comes to an end.       *)
LEMMA MeasureType ==
  ASSUME TypeInv
  PROVE  ReadsLeft \in Nat /\ StagesLeft[pc] \in Nat /\ Len(start.toks) \in Nat
<1>1. Len(text) \in Nat /\ next \in 1 .. Len(text) + 1 /\ eof \in BOOLEAN
  BY PartsType DEF TypeInv
<1>2. ReadsLeft \in Nat
  BY <1>1 DEF ReadsLeft
<1>3. StagesLeft[pc] \in Nat
  BY DEF TypeInv, Stages, StagesLeft
<1>4. Len(start.toks) \in Nat
  <2>1. start.toks \in Seq(STRING)
    BY DEF TypeInv, Pieces
  <2>2. QED
    BY <2>1, LenProperties
<1>5. QED
  BY <1>2, <1>3, <1>4

(* A read has one less to come, unless there is nothing to read any more.     *)
LEMMA ReadCloser ==
  ASSUME TypeInv, UNCHANGED inputVars, NEW l \in Pieces, NEW r, r = Read(l), Take(r)
  PROVE  /\ r.n = 1 \/ r.n = 0 \/ r.n = -1
         /\ ReadsLeft' < ReadsLeft \/ (r.n = -1 /\ ReadsLeft' = ReadsLeft)
<1>1. Len(text) \in Nat /\ next \in 1 .. Len(text) + 1 /\ eof \in BOOLEAN
  BY PartsType DEF TypeInv
<1>2. /\ r.eof \in BOOLEAN
      /\ \/ r.n = -1 /\ eof /\ r.next = next /\ r.eof
         \/ r.n = 0 /\ ~eof /\ r.next = next /\ r.eof
         \/ r.n = 1 /\ ~eof /\ r.next = next + 1
  BY ReadIs
<1>3. text' = text /\ next' = r.next /\ eof' = r.eof
  BY DEF inputVars, Take
<1>4. CASE r.n = -1 /\ eof /\ r.next = next /\ r.eof
  BY <1>1, <1>3, <1>4 DEF ReadsLeft
<1>5. CASE r.n = 0 /\ ~eof /\ r.next = next /\ r.eof
  BY <1>1, <1>3, <1>5 DEF ReadsLeft
<1>6. CASE r.n = 1 /\ ~eof /\ r.next = next + 1
  BY <1>1, <1>2, <1>3, <1>6 DEF ReadsLeft
<1>7. QED
  BY <1>2, <1>4, <1>5, <1>6

(* What is read at the end of the file leads to a later stage.                *)
LEMMA ReadOrLater ==
  ASSUME TypeInv, UNCHANGED inputVars, NEW l \in Pieces, NEW r, r = Read(l), Take(r),
         r.n = -1 => StagesLeft[pc'] < StagesLeft[pc]
  PROVE  Closer
BY ReadCloser DEF Closer

(* A step that does not read leads to a later stage.                          *)
LEMMA StageLater ==
  ASSUME UNCHANGED <<inputVars, readVars>>, StagesLeft[pc'] < StagesLeft[pc]
  PROVE  Closer
BY DEF Closer, ReadsLeft, inputVars, readVars

(* A variable that is passed leaves less of the line.                         *)
LEMMA VariableShortens ==
  ASSUME NEW toks \in Seq(STRING), determine_type(toks) = "SEMICOLON"
  PROVE  Len(AfterSemicolon(toks)) < Len(toks)
<1>1. \E i \in 1 .. Len(toks) : toks[i] = Semicolon
  <2>1. FirstOf(toks, {LeftCurly, Semicolon, "("}) = Semicolon
    BY Zenon DEF determine_type
  <2>2. PICK i : IsFirst(toks, {LeftCurly, Semicolon, "("}, i)
                 /\ FirstOf(toks, {LeftCurly, Semicolon, "("}) = toks[i]
    BY <2>1, FirstOfFacts, TokensDiffer
  <2>3. QED
    BY <2>1, <2>2 DEF IsFirst
<1>2. PICK i : IsFirst(toks, {Semicolon}, i) /\ AfterSemicolon(toks) = From(toks, i + 1)
  <2>1. ~None(toks, {Semicolon})
    BY <1>1 DEF None
  <2>2. QED
    BY <2>1, SemicolonFacts
<1>3. i \in 1 .. Len(toks) /\ Len(toks) \in Nat
  BY <1>2, LenProperties DEF IsFirst
<1>4. i + 1 \in 1 .. Len(toks) + 1
  BY <1>3
<1>5. Len(AfterSemicolon(toks)) = Len(toks) + 1 - (i + 1)
  BY <1>2, <1>4, FromFacts
<1>6. QED
  BY <1>3, <1>5

(* What a line may be taken for.                                              *)
LEMMA ClassIs ==
  ASSUME NEW toks
  PROVE  Class(toks) \in {"next", "comment", "type", "declare"}
BY Zenon DEF Class

(* Every step is closer to an end.                                            *)
LEMMA CloserStep == TypeInv /\ Next => Closer
<1> SUFFICES ASSUME TypeInv, Next PROVE Closer
  OBVIOUS
<1>p. line \in Pieces /\ start \in Pieces /\ Blank \in Pieces
  BY BlankIsPiece DEF TypeInv
<1>1. CASE OpenFails \/ Open \/ InsideBrackets \/ Include \/ Return
  <2>1. UNCHANGED <<inputVars, readVars>>
    BY <1>1 DEF OpenFails, Open, InsideBrackets, Include, Return
  <2>2. \/ pc = "open" /\ pc' = "done"
        \/ pc = "open" /\ pc' = "next"
        \/ pc = "scan" /\ pc' = "next"
        \/ pc = "scan" /\ pc' = "crashed"
        \/ pc = "found" /\ pc' = "done"
        \/ pc = "close" /\ pc' = "done"
    BY <1>1 DEF OpenFails, Open, InsideBrackets, Include, Return, TopLevel
  <2>3. StagesLeft[pc'] < StagesLeft[pc]
    BY <2>2 DEF StagesLeft
  <2>4. QED
    BY <2>1, <2>3, StageLater
<1>2. CASE NextLine
  <2>1. PICK r : r = Read(line)
    OBVIOUS
  <2>2. Take(r) /\ pc = "next" /\ pc' = (IF r.n > 0 THEN "scan" ELSE "close") /\ UNCHANGED inputVars
    BY <1>2, <2>1 DEF NextLine
  <2>3. r.n = -1 => StagesLeft[pc'] < StagesLeft[pc]
    BY <2>2 DEF StagesLeft
  <2>4. QED
    BY <1>p, <2>1, <2>2, <2>3, ReadOrLater
<1>3. CASE Scan
  <2>1. UNCHANGED <<inputVars, readVars>> /\ pc = "scan" /\ pc' = Class(line.toks)
    BY <1>3 DEF Scan, TopLevel
  <2>2. Class(line.toks) \in {"next", "comment", "type", "declare"}
    BY ClassIs
  <2>3. StagesLeft[pc'] < StagesLeft[pc]
    BY <2>1, <2>2 DEF StagesLeft
  <2>4. QED
    BY <2>1, <2>3, StageLater
<1>4. CASE Define
  <2>1. UNCHANGED <<inputVars, readVars>> /\ pc = "scan" /\ (pc' = "define" \/ pc' = "next")
    BY <1>4 DEF Define, TopLevel
  <2>2. StagesLeft[pc'] < StagesLeft[pc]
    BY <2>1 DEF StagesLeft
  <2>3. QED
    BY <2>1, <2>2, StageLater
<1>5. CASE ResolveDefine
  <2>1. PICK r : r = Read(Blank)
    OBVIOUS
  <2>2. Take(r) /\ pc = "define" /\ UNCHANGED inputVars
    BY <1>5, <2>1 DEF ResolveDefine
  <2>3. pc' = CASE r.n = -1 -> "crashed"
                [] r.n = 1 /\ Has(r.line.toks, "\\") -> "define"
                [] OTHER -> "next"
    BY <1>5, <2>1 DEF ResolveDefine
  <2>4. r.n = -1 => pc' = "crashed"
    <3>1. r.n = -1 => r.n # 1
      OBVIOUS
    <3>2. QED
      BY <2>3, <3>1, Zenon
  <2>5. r.n = -1 => StagesLeft[pc'] < StagesLeft[pc]
    BY <2>2, <2>4 DEF StagesLeft
  <2>6. QED
    BY <1>p, <2>1, <2>2, <2>5, ReadOrLater
<1>6. CASE SkipComment
  <2>1. PICK r : r = Read(line)
    OBVIOUS
  <2>2. Take(r) /\ pc = "comment" /\ UNCHANGED inputVars
    BY <1>6, <2>1 DEF SkipComment
  <2>3. pc' = IF StartsWith(r.line.toks, "*") THEN IF r.n = -1 THEN "endless" ELSE "comment"
              ELSE IF r.n > 0 THEN "scan" ELSE "close"
    BY <1>6, <2>1 DEF SkipComment
  <2>4. r.n = -1 => pc' \in {"endless", "close"}
    BY <2>3
  <2>5. r.n = -1 => StagesLeft[pc'] < StagesLeft[pc]
    BY <2>2, <2>4 DEF StagesLeft
  <2>6. QED
    BY <1>p, <2>1, <2>2, <2>5, ReadOrLater
<1>7. CASE TypeLine
  <2> DEFINE last(r) == closed' /\ Has(r.line.toks, Semicolon)
  <2>1. PICK r : r = Read(line)
    OBVIOUS
  <2>2. /\ Take(r) /\ pc = "type" /\ UNCHANGED inputVars
        /\ pc' = CASE last(r) -> "next" [] ~last(r) /\ r.n = -1 -> "endless" [] OTHER -> "type"
    BY <1>7, <2>1 DEF TypeLine
  <2> HIDE DEF last
  <2>3. r.n = -1 => pc' = "next" \/ pc' = "endless"
    BY <2>2, Zenon
  <2>4. r.n = -1 => StagesLeft[pc'] < StagesLeft[pc]
    BY <2>2, <2>3 DEF StagesLeft
  <2>5. QED
    BY <1>p, <2>1, <2>2, <2>4, ReadOrLater
<1>8. CASE ReturnZero \/ FunctionBegins \/ BodyBegins
  <2>1. UNCHANGED <<inputVars, readVars>>
    BY <1>8 DEF ReturnZero, FunctionBegins, BodyBegins
  <2>2. \/ pc = "declare" /\ pc' = "next"
        \/ pc = "header" /\ pc' = "next"
        \/ pc = "declare" /\ pc' = "header"
        \/ pc = "header" /\ pc' = "body"
    BY <1>8, Zenon DEF ReturnZero, FunctionBegins, BodyBegins
  <2>3. StagesLeft[pc'] < StagesLeft[pc]
    BY <2>2 DEF StagesLeft
  <2>4. QED
    BY <2>1, <2>3, StageLater
<1>9. CASE Variable
  <2>1. UNCHANGED <<inputVars, readVars>> /\ pc' = pc
    BY <1>9 DEF Variable
  <2>2. start.toks \in Seq(STRING) /\ start \in [no : Nat, toks : Seq(STRING)]
    BY <1>p DEF Pieces
  <2>3. determine_type(start.toks) = "SEMICOLON" /\ start'.toks = AfterSemicolon(start.toks)
    BY <1>9, <2>2 DEF Variable, Type
  <2>4. Len(start'.toks) < Len(start.toks)
    BY <2>2, <2>3, VariableShortens
  <2>5. ReadsLeft' = ReadsLeft
    BY <2>1 DEF ReadsLeft, inputVars, readVars
  <2>6. QED
    BY <2>1, <2>4, <2>5 DEF Closer
<1>10. CASE Undetermined
  <2>1. PICK r : r = Read(Blank)
    OBVIOUS
  <2>2. /\ Take(r) /\ pc = "declare" /\ UNCHANGED inputVars
        /\ pc' = IF r.n = -1 THEN "crashed" ELSE "declare"
    BY <1>10, <2>1 DEF Undetermined
  <2>3. r.n = -1 => StagesLeft[pc'] < StagesLeft[pc]
    BY <2>2 DEF StagesLeft
  <2>4. QED
    BY <1>p, <2>1, <2>2, <2>3, ReadOrLater
<1>11. CASE HeaderLine
  <2>1. PICK r : r = Read(start)
    OBVIOUS
  <2>2. /\ Take(r) /\ pc = "header" /\ UNCHANGED inputVars
        /\ pc' = IF r.n = -1 THEN "endless" ELSE "header"
    BY <1>11, <2>1 DEF HeaderLine
  <2>3. r.n = -1 => StagesLeft[pc'] < StagesLeft[pc]
    BY <2>2 DEF StagesLeft
  <2>4. QED
    BY <1>p, <2>1, <2>2, <2>3, ReadOrLater
<1>12. CASE BodyLine
  <2>1. PICK r : r = Read(start)
    OBVIOUS
  <2>2. /\ pc = "body" /\ UNCHANGED inputVars
        /\ \/ pc' = "found" /\ UNCHANGED readVars
           \/ Take(r) /\ pc' = IF r.n > 0 THEN "body" ELSE "found"
    BY <1>12, <2>1 DEF BodyLine
  <2>3. CASE pc' = "found" /\ UNCHANGED readVars
    <3>1. StagesLeft[pc'] < StagesLeft[pc]
      BY <2>2, <2>3 DEF StagesLeft
    <3>2. QED
      BY <2>2, <2>3, <3>1, StageLater
  <2>4. CASE Take(r) /\ pc' = IF r.n > 0 THEN "body" ELSE "found"
    <3>1. r.n = -1 => StagesLeft[pc'] < StagesLeft[pc]
      BY <2>2, <2>4 DEF StagesLeft
    <3>2. QED
      BY <1>p, <2>1, <2>2, <2>4, <3>1, ReadOrLater
  <2>5. QED
    BY <2>2, <2>3, <2>4
<1>13. QED
  BY <1>1, <1>2, <1>3, <1>4, <1>5, <1>6, <1>7, <1>8, <1>9, <1>10, <1>11, <1>12 DEF Next

(* Spec => ComesCloser: in every file, whatever it holds, each step reads one *)
(* line less, goes on to a later stage or is behind a ';'; none of the three  *)
(* can be less than 0 (MeasureType).                                          *)
THEOREM Progresses == Spec => ComesCloser
<1>1. TypeInv /\ [Next]_vars => [Closer]_vars
  BY CloserStep
<1>2. QED
  BY <1>1, Typed, PTL DEF Spec, ComesCloser, Closer
================================================================================
