--------------------------- MODULE FunctionIsolation ---------------------------
(* isolateFunction(): copies the definition of one function, and of what      *)
(* stands before it what it may need, from a C file to the file that will be  *)
(* compiled. It goes line by line and knows no grammar: a line is what its    *)
(* first characters, its braces, semicolons and left parentheses make it.     *)
(*                                                                            *)
(* A source file is a sequence of items (a directive, a comment, a            *)
(* declaration, a function), an item a sequence of lines, and a line a        *)
(* sequence of the tokens that the scanner looks for; "name" stands for other *)
(* text, <<>> for a blank line.                                               *)
EXTENDS Integers, SequencesExt

CONSTANTS
  Items,       \* item name -> [lines, role]
  MaxItems,    \* bound: items of a file
  Containing,  \* tokens of which the function's name is a part
  Refused      \* those where a letter, '-' or '_' follows it

ASSUME ItemsAssumption ==
  \A i \in DOMAIN Items :
    /\ Items[i].role \in {"context", "variable", "dropped", "other", "target"}
    /\ Items[i].lines \in Seq(Seq(STRING)) \ {<<>>}
ASSUME MaxItemsAssumption == MaxItems \in Nat
ASSUME NamesAssumption == Refused \subseteq Containing /\ "end" \notin Containing

VARIABLES
  file,        \* the items of the source file
  text,        \* their lines
  terminated,  \* does its last line end with a newline
  cwd,         \* the working directory: "own" or the source file's
  pc,          \* the loop or the decision it is in
  next,        \* the line that getline_split_by() reads next
  eof,         \* feof(in)
  line,        \* isolateFunction()'s line
  count,       \* its curly_brackets_count
  closed,      \* its curlyBracketFound
  start,       \* checkAndWriteFunc()'s start_line, then its line
  shared,      \* is that in the buffer of isolateFunction()'s line
  prependage,  \* <<>> for NULL
  depth,       \* checkAndWriteFunc()'s curly_brackets_count
  out,         \* what was written: [no, as]: a line of the source, as what
  result       \* the return value

inputVars == <<file, text, terminated>>
readVars  == <<next, eof>>
funcVars  == <<start, shared, prependage, depth>>
vars == <<inputVars, cwd, pc, readVars, line, count, closed, funcVars, out, result>>

Blank == [no |-> 0, toks |-> <<>>]

--------------------------------------------------------------------------------
(* The helpers on lines.                                                      *)

LeftCurly  == "{"
RightCurly == "}"
Semicolon  == ";"

Has(toks, t) == \E i \in DOMAIN toks : toks[i] = t

StartsWith(toks, t) == toks # <<>> /\ toks[1] = t

(* The first token in S, or "end".                                            *)
FirstOf(toks, S) ==
  LET first == SelectInSeq(toks, LAMBDA t : t \in S)
  IN  IF first = 0 THEN "end" ELSE toks[first]

Count(toks, t) == Cardinality({i \in DOMAIN toks : toks[i] = t})

checkCurlyBrackets(toks) == Count(toks, LeftCurly) - Count(toks, RightCurly)

curly_bracket_before_semicolon(toks) == FirstOf(toks, {LeftCurly, Semicolon})

determine_type(toks) ==
  IF toks = <<>> THEN "NO_CONTENT"
  ELSE LET first == FirstOf(toks, {LeftCurly, Semicolon, "("})
       IN  CASE first = LeftCurly -> "CURLY_BRACKET"
             [] first = Semicolon -> "SEMICOLON"
             [] first = "(" -> "LEFT_PARENTHESIS"
             [] OTHER       -> "UNDEFINED"

(* What is left of a line from token m on.                                    *)
From(toks, m) == SubSeq(toks, m, Len(toks))

AfterSemicolon(toks) == From(toks, SelectInSeq(toks, LAMBDA t : t = Semicolon) + 1)

(* strstr_strict(): the first place where the name occurs decides, and only   *)
(* the character behind it.                                                   *)
Mentions(toks) == FirstOf(toks, Containing) \in Containing \ Refused

(* getline_split_by() into the buffer that holds l: at the end of a file that *)
(* ends with a newline an empty line of 0 bytes, after that -1, and l stays.  *)
Read(l) ==
  IF eof THEN [n |-> -1, line |-> l, next |-> next, eof |-> TRUE]
  ELSE IF next > Len(text) THEN [n |-> 0, line |-> Blank, next |-> next, eof |-> TRUE]
  ELSE [n |-> 1, line |-> [no |-> next, toks |-> text[next]], next |-> next + 1,
        eof |-> next = Len(text) /\ ~terminated]

Take(r) == next' = r.next /\ eof' = r.eof

Whole(l) == IF l.no = 0 THEN <<>> ELSE <<[no |-> l.no, as |-> "line"]>>

--------------------------------------------------------------------------------
Init ==
  /\ file \in BoundedSeq(DOMAIN Items, MaxItems) /\ terminated \in BOOLEAN
  /\ text = FlattenSeq([i \in DOMAIN file |-> Items[file[i]].lines])
  /\ cwd = "own" /\ pc = "open" /\ next = 1 /\ eof = FALSE
  /\ line = Blank /\ count = 0 /\ closed = FALSE
  /\ start = Blank /\ shared = TRUE /\ prependage = <<>> /\ depth = 0
  /\ out = <<>> /\ result = -1

(* Either file cannot be opened: -1.                                          *)
OpenFails ==
  /\ pc = "open" /\ pc' = "done"
  /\ UNCHANGED <<inputVars, cwd, readVars, line, count, closed, funcVars, out, result>>

Open ==
  /\ pc = "open" /\ pc' = "next"
  /\ cwd' = "source"
  /\ UNCHANGED <<inputVars, readVars, line, count, closed, funcVars, out, result>>

NextLine ==
  /\ pc = "next"
  /\ LET r == Read(line) IN
       Take(r) /\ line' = r.line /\ pc' = IF r.n > 0 THEN "scan" ELSE "close"
  /\ UNCHANGED <<inputVars, cwd, count, closed, funcVars, out, result>>

(* Inside brackets nothing is looked at but brackets.                         *)
InsideBrackets ==
  /\ pc = "scan" /\ count # 0
  /\ count' = count + checkCurlyBrackets(line.toks)
  /\ pc' = "next"
  /\ UNCHANGED <<inputVars, cwd, readVars, line, closed, funcVars, out, result>>

--------------------------------------------------------------------------------
(* Directives, comments and types.                                            *)

TopLevel == pc = "scan" /\ count = 0

(* What a line at the top level is taken for, if not for a define or include: *)
(* other directives and comments in a line are passed over.                   *)
Class(toks) ==
  CASE StartsWith(toks, "#if") \/ StartsWith(toks, "//") -> "next"
    [] StartsWith(toks, "/*") -> "comment"
    [] \/ StartsWith(toks, "typedef") \/ StartsWith(toks, "enum")
       \/ StartsWith(toks, "struct") /\ ~Has(toks, "(") -> "type"
    [] OTHER -> "declare"

(* The locals of the loop over a type and of checkAndWriteFunc() begin anew.     *)
Scan ==
  /\ TopLevel /\ ~StartsWith(line.toks, "#define") /\ ~StartsWith(line.toks, "#include")
  /\ pc' = Class(line.toks)
  /\ closed' = FALSE /\ start' = line /\ shared' = TRUE /\ prependage' = <<>>
  /\ UNCHANGED <<inputVars, cwd, readVars, line, count, depth, out, result>>

Define ==
  /\ TopLevel /\ StartsWith(line.toks, "#define")
  /\ out' = out \o Whole(line)
  /\ pc' = IF Has(line.toks, "\\") THEN "define" ELSE "next"
  /\ UNCHANGED <<inputVars, cwd, readVars, line, count, closed, funcVars, result>>

(* resolveDefine(), with a buffer of its own. Its count is unsigned: -1 at    *)
(* the end of the file makes it write that many bytes.                        *)
ResolveDefine ==
  /\ pc = "define"
  /\ LET r == Read(Blank) IN
       /\ Take(r)
       /\ out' = IF r.n = 1 THEN out \o Whole(r.line) ELSE out
       /\ pc' = CASE r.n = -1 -> "crashed"
                  [] r.n = 1 /\ Has(r.line.toks, "\\") -> "define"
                  [] OTHER -> "next"
  /\ UNCHANGED <<inputVars, cwd, line, count, closed, funcVars, result>>

(* resolveInclude() takes the length of realpath()'s NULL for a quoted header *)
(* that is not next to the source.                                            *)
Include ==
  /\ TopLevel /\ StartsWith(line.toks, "#include")
  /\ IF Has(line.toks, "missing") THEN pc' = "crashed" /\ out' = out
     ELSE pc' = "next" /\ out' = out \o Whole(line)
  /\ UNCHANGED <<inputVars, cwd, readVars, line, count, closed, funcVars, result>>

(* Mutant: the line after the comment is lost.                                *)
SkipComment_OneMore ==
  /\ pc = "comment"
  /\ LET r == Read(line) IN
       /\ Take(r) /\ line' = r.line
       /\ pc' = IF StartsWith(r.line.toks, "*") THEN IF r.n = -1 THEN "endless" ELSE "comment"
                ELSE "next"
  /\ UNCHANGED <<inputVars, cwd, count, closed, funcVars, out, result>>

(* Mutant: the end of the file is not an end of the comment.                  *)
SkipComment_PastEnd ==
  /\ pc = "comment"
  /\ LET r == Read(line) IN
       /\ Take(r) /\ line' = r.line
       /\ pc' = IF r.n < 1 THEN "endless"
                ELSE IF StartsWith(r.line.toks, "*") THEN "comment" ELSE "scan"
  /\ UNCHANGED <<inputVars, cwd, count, closed, funcVars, out, result>>

(* The comment goes on as long as lines begin with '*'. At the end of the     *)
(* file the line does not change any more.                                    *)
SkipComment ==
  /\ pc = "comment"
  /\ LET r == Read(line) IN
       /\ Take(r) /\ line' = r.line
       /\ pc' = IF StartsWith(r.line.toks, "*") THEN IF r.n = -1 THEN "endless" ELSE "comment"
                ELSE IF r.n > 0 THEN "scan" ELSE "close"
  /\ UNCHANGED <<inputVars, cwd, count, closed, funcVars, out, result>>

(* Mutant: a ';' counts from the line after the first with a '}'.             *)
TypeLine_LineAfter ==
  /\ pc = "type"
  /\ LET r    == Read(line)
         last == closed /\ Has(r.line.toks, Semicolon)
     IN  /\ Take(r) /\ line' = r.line
         /\ closed' = (closed \/ Has(r.line.toks, RightCurly))
         /\ out' = IF last THEN out \o Whole(line) \o Whole(r.line) ELSE out \o Whole(line)
         /\ pc' = IF last THEN "next" ELSE IF r.n = -1 THEN "endless" ELSE "type"
  /\ UNCHANGED <<inputVars, cwd, count, funcVars, result>>

(* Lines are written up to one with a ';' at or after the first with a '}',   *)
(* neither of which is looked for in the line the type begins with.           *)
TypeLine ==
  /\ pc = "type"
  /\ LET r    == Read(line)
         last == closed' /\ Has(r.line.toks, Semicolon)
     IN  /\ Take(r) /\ line' = r.line
         /\ closed' = (closed \/ Has(r.line.toks, RightCurly))
         /\ out' = IF last THEN out \o Whole(line) \o Whole(r.line) ELSE out \o Whole(line)
         /\ pc' = CASE last -> "next" [] ~last /\ r.n = -1 -> "endless" [] OTHER -> "type"
  /\ UNCHANGED <<inputVars, cwd, count, funcVars, result>>

--------------------------------------------------------------------------------
(* checkAndWriteFunc()                                                        *)

Type == determine_type(start.toks)

Matches == Mentions(FlattenSeq([i \in DOMAIN prependage |-> prependage[i].toks]))
           \/ Mentions(start.toks)

(* Mutant: the brackets of a line that is not wanted are not counted.         *)
ReturnZero_Uncounted ==
  /\ \/ pc = "declare" /\ Type \in {"NO_CONTENT", "CURLY_BRACKET"}
     \/ pc = "declare" /\ Type = "LEFT_PARENTHESIS" /\ ~Matches
     \/ pc = "header" /\ curly_bracket_before_semicolon(start.toks) = Semicolon
  /\ pc' = "next"
  /\ UNCHANGED <<inputVars, cwd, readVars, line, count, closed, funcVars, out, result>>

(* It returns 0, and isolateFunction() counts the brackets of its line.       *)
ReturnZero ==
  /\ \/ pc = "declare" /\ Type \in {"NO_CONTENT", "CURLY_BRACKET"}
     \/ pc = "declare" /\ Type = "LEFT_PARENTHESIS" /\ ~Matches
     \/ pc = "header" /\ curly_bracket_before_semicolon(start.toks) = Semicolon
  /\ count' = count + checkCurlyBrackets(line.toks)
  /\ pc' = "next"
  /\ UNCHANGED <<inputVars, cwd, readVars, line, closed, funcVars, out, result>>

(* Mutant: the variable is looked at again instead of what is behind it.      *)
Variable_Again ==
  /\ pc = "declare" /\ Type = "SEMICOLON"
  /\ out' = IF Has(start.toks, "static") THEN out
            ELSE Append(out, [no |-> start.no, as |-> "extern"])
  /\ prependage' = <<>>
  /\ UNCHANGED <<inputVars, cwd, pc, readVars, line, count, closed, start, shared, depth, result>>

(* A variable is made extern, unless it is static, and the rest of the line   *)
(* is looked at.                                                              *)
Variable ==
  /\ pc = "declare" /\ Type = "SEMICOLON"
  /\ out' = IF Has(start.toks, "static") THEN out
            ELSE Append(out, [no |-> start.no, as |-> "extern"])
  /\ start' = [start EXCEPT !.toks = AfterSemicolon(@)]
  /\ prependage' = <<>>
  /\ UNCHANGED <<inputVars, cwd, pc, readVars, line, count, closed, shared, depth, result>>

(* Not a word on what the line is: go on with the next, which goes into       *)
(* prependage too. The line itself does not. (NULL if the file has ended.)    *)
Undetermined ==
  /\ pc = "declare" /\ Type = "UNDEFINED"
  /\ LET r == Read(Blank) IN
       /\ Take(r) /\ start' = r.line /\ shared' = FALSE
       /\ prependage' = Append(prependage, r.line)
       /\ pc' = IF r.n = -1 THEN "crashed" ELSE "declare"
  /\ UNCHANGED <<inputVars, cwd, line, count, closed, depth, out, result>>

FunctionBegins ==
  /\ pc = "declare" /\ Type = "LEFT_PARENTHESIS" /\ Matches
  /\ pc' = "header"
  /\ UNCHANGED <<inputVars, cwd, readVars, line, count, closed, funcVars, out, result>>

(* Neither '{' nor ';' yet. The line read next replaces the line before in    *)
(* the buffer.                                                                *)
HeaderLine ==
  /\ pc = "header" /\ curly_bracket_before_semicolon(start.toks) = "end"
  /\ LET r == Read(start) IN
       /\ Take(r) /\ start' = r.line /\ line' = IF shared THEN r.line ELSE line
       /\ prependage' = Append(prependage, start)
       /\ pc' = IF r.n = -1 THEN "endless" ELSE "header"
  /\ UNCHANGED <<inputVars, cwd, count, closed, shared, depth, out, result>>

(* Mutant: what precedes the line with the '{' is written after it.           *)
BodyBegins_HeaderLast ==
  /\ pc = "header" /\ curly_bracket_before_semicolon(start.toks) = LeftCurly
  /\ out' = out \o Whole(start) \o FlattenSeq([i \in DOMAIN prependage |-> Whole(prependage[i])])
  /\ depth' = 0
  /\ pc' = "body"
  /\ UNCHANGED <<inputVars, cwd, readVars, line, count, closed, start, shared, prependage, result>>

BodyBegins ==
  /\ pc = "header" /\ curly_bracket_before_semicolon(start.toks) = LeftCurly
  /\ out' = out \o FlattenSeq([i \in DOMAIN prependage |-> Whole(prependage[i])])
  /\ depth' = 0
  /\ pc' = "body"
  /\ UNCHANGED <<inputVars, cwd, readVars, line, count, closed, start, shared, prependage, result>>

(* The body is over when its brackets are closed, or the file ends.           *)
BodyLine ==
  /\ pc = "body"
  /\ LET written == ~StartsWith(start.toks, "//")
         d == IF written THEN depth + checkCurlyBrackets(start.toks) ELSE depth
         r == Read(start)
     IN  /\ out' = IF written THEN out \o Whole(start) ELSE out
         /\ depth' = d
         /\ IF written /\ d = 0
            THEN pc' = "found" /\ UNCHANGED <<readVars, start>>
            ELSE Take(r) /\ start' = r.line /\ pc' = IF r.n > 0 THEN "body" ELSE "found"
  /\ UNCHANGED <<inputVars, cwd, line, count, closed, shared, prependage, result>>

(* Mutant: the working directory is left at the source's.                     *)
Return_StaysThere ==
  /\ pc \in {"found", "close"}
  /\ result' = IF pc = "found" THEN 1 ELSE 0
  /\ pc' = "done"
  /\ UNCHANGED <<inputVars, cwd, readVars, line, count, closed, funcVars, out>>

Return ==
  /\ pc \in {"found", "close"}
  /\ result' = IF pc = "found" THEN 1 ELSE 0
  /\ cwd' = "own" /\ pc' = "done"
  /\ UNCHANGED <<inputVars, readVars, line, count, closed, funcVars, out>>

Next ==
  \/ OpenFails \/ Open \/ NextLine \/ InsideBrackets
  \/ Scan \/ Define \/ ResolveDefine \/ Include \/ SkipComment \/ TypeLine
  \/ ReturnZero \/ Variable \/ Undetermined \/ FunctionBegins \/ HeaderLine \/ BodyBegins \/ BodyLine \/ Return

(* A sequential function: it goes on as long as it can. An endless loop is    *)
(* the end of the model, at "endless".                                        *)
Spec == Init /\ [][Next]_vars /\ WF_vars(Next)

--------------------------------------------------------------------------------
(* The style the scanner was written for, from which the reference follows.   *)

(* A line without its comment, and the brackets it opens more than it closes. *)
Code(toks) ==
  LET comment == SelectInSeq(toks, LAMBDA t : t \in {"//", "/*"})
  IN  IF StartsWith(toks, "*") THEN <<>>
      ELSE IF comment = 0 THEN toks ELSE SubSeq(toks, 1, comment - 1)

NetBrackets(toks) == checkCurlyBrackets(Code(toks))

Plain(toks) == checkCurlyBrackets(toks) = NetBrackets(toks)

(* How deep in brackets each line ends.                                       *)
DepthIn(lines) ==
  LET d[n \in 0 .. Len(lines)] == IF n = 0 THEN 0 ELSE d[n - 1] + NetBrackets(lines[n])
  IN  d

(* A statement begins at token m: there are but variables before it.          *)
StatementAt(toks, m) ==
  /\ m = 1 \/ toks[m - 1] = Semicolon
  /\ \A q \in 1 .. m - 1 : toks[q] \notin {LeftCurly, "("}

(* What a line at the top level declares can be seen without the next line.   *)
Declares(toks) ==
  /\ ~StartsWith(toks, "#define") /\ ~StartsWith(toks, "#include") /\ ~StartsWith(toks, "*")
  /\ Class(toks) = "declare" /\ Plain(toks)
  /\ \A m \in 1 .. Len(toks) + 1 :
       StatementAt(toks, m) => determine_type(From(toks, m)) # "UNDEFINED"

NamedAt(toks, m) ==
  determine_type(From(toks, m)) = "LEFT_PARENTHESIS" /\ Mentions(From(toks, m))

IsDefine(lines) ==
  /\ StartsWith(lines[1], "#define")
  /\ \A k \in DOMAIN lines : Has(lines[k], "\\") <=> k # Len(lines)

IsInclude(lines) == StartsWith(lines[1], "#include") /\ Len(lines) = 1

IsPassedOver(lines) == Class(lines[1]) = "next" /\ Len(lines) = 1

IsComment(lines) ==
  /\ StartsWith(lines[1], "/*")
  /\ \A k \in 2 .. Len(lines) : StartsWith(lines[k], "*")

IsType(lines) ==
  /\ Class(lines[1]) = "type" /\ Len(lines) > 1
  /\ \A k \in 2 .. Len(lines) :
       (Has(lines[k], Semicolon) /\ \E j \in 2 .. k : Has(lines[j], RightCurly)) <=> k = Len(lines)

(* Variables, functions, statements that are not the function's.              *)
IsOther(lines) ==
  \A k \in DOMAIN lines :
    IF DepthIn(lines)[k - 1] = 0
    THEN /\ Declares(lines[k])
         /\ \A m \in 1 .. Len(lines[k]) + 1 : StatementAt(lines[k], m) => ~NamedAt(lines[k], m)
    ELSE Plain(lines[k])

(* The header that begins at token m of the first line ends in line h.        *)
HeaderPart(lines, m, k) == IF k = 1 THEN From(lines[1], m) ELSE lines[k]

HeaderEnd(lines, m, h) == curly_bracket_before_semicolon(HeaderPart(lines, m, h))

HeaderIn(lines, m, h) == \A k \in 1 .. h : HeaderEnd(lines, m, k) = "end" <=> k # h

(* The function itself, or its prototype, behind variables at most.           *)
IsNamed(lines) ==
  /\ Declares(lines[1])
  /\ \A m \in 1 .. Len(lines[1]) + 1 :
       StatementAt(lines[1], m) =>
         \/ determine_type(From(lines[1], m)) = "SEMICOLON"
         \/ /\ NamedAt(lines[1], m)
            /\ \E h \in DOMAIN lines :
                 /\ HeaderIn(lines, m, h)
                 /\ HeaderEnd(lines, m, h) = Semicolon =>
                      h = Len(lines) /\ checkCurlyBrackets(lines[h]) = 0

(* Lines that the scanner follows: it is at the end of them when they are, as *)
(* deep in brackets as it should be. What it copies is another matter.        *)
Followed(lines) ==
  /\ DepthIn(lines)[Len(lines)] = 0
  /\ \/ IsDefine(lines) \/ IsInclude(lines) \/ IsPassedOver(lines) \/ IsComment(lines)
     \/ IsType(lines) \/ IsOther(lines) \/ IsNamed(lines)

IsVariable(lines) ==
  /\ IsOther(lines) /\ Len(lines) = 1
  /\ determine_type(lines[1]) = "SEMICOLON" /\ AfterSemicolon(lines[1]) = <<>>

HasNoVariable(lines) ==
  \A k \in DOMAIN lines : DepthIn(lines)[k - 1] = 0 => determine_type(lines[k]) # "SEMICOLON"

IsPrototype(lines) ==
  /\ IsNamed(lines) /\ determine_type(lines[1]) # "SEMICOLON"
  /\ \E h \in DOMAIN lines : HeaderIn(lines, 1, h) /\ HeaderEnd(lines, 1, h) = Semicolon

IsDefinition(lines) ==
  /\ IsNamed(lines) /\ determine_type(lines[1]) # "SEMICOLON"
  /\ \E h \in DOMAIN lines :
       /\ HeaderIn(lines, 1, h) /\ HeaderEnd(lines, 1, h) = LeftCurly
       /\ \A k \in h .. Len(lines) :
            /\ Plain(lines[k]) /\ ~StartsWith(lines[k], "//")
            /\ DepthIn(lines)[k] = DepthIn(lines)[h - 1] <=> k = Len(lines)

(* Items of which moreover what is copied is what their role asks for.        *)
InStyle(item) ==
  LET lines == item.lines
  IN  /\ Followed(lines)
      /\ \/ item.role = "context" /\ (IsDefine(lines) \/ IsType(lines))
         \/ item.role = "context" /\ IsInclude(lines) /\ ~Has(lines[1], "missing")
         \/ item.role = "variable" /\ IsVariable(lines) /\ ~Has(lines[1], "static")
         \/ item.role = "dropped" /\ IsVariable(lines) /\ Has(lines[1], "static")
         \/ item.role = "dropped" /\ (IsPassedOver(lines) \/ IsComment(lines) \/ IsPrototype(lines))
         \/ item.role \in {"dropped", "other"} /\ IsOther(lines) /\ HasNoVariable(lines)
         \/ item.role = "target" /\ IsDefinition(lines)

FollowedItems == {i \in DOMAIN Items : Followed(Items[i].lines)}
StyledItems == {i \in DOMAIN Items : InStyle(Items[i])}

Regular == \A i \in DOMAIN file : file[i] \in FollowedItems
Tame == terminated /\ \A i \in DOMAIN file : file[i] \in StyledItems

--------------------------------------------------------------------------------
(* The reference: what the items of a file ask for.                           *)

Roles == {Items[file[i]].role : i \in DOMAIN file}

LinesBefore(i) ==
  Len(FlattenSeq([j \in 1 .. i - 1 |-> Items[file[j]].lines]))

Wanted(i) ==
  IF Items[file[i]].role \in {"dropped", "other"} THEN <<>>
  ELSE [k \in DOMAIN Items[file[i]].lines |->
          [no |-> LinesBefore(i) + k,
           as |-> IF Items[file[i]].role = "variable" THEN "extern" ELSE "line"]]

(* The target, and the directives, types and variables before it.             *)
Isolated ==
  LET t == SelectInSeq(file, LAMBDA n : Items[n].role = "target")
      upto == IF t = 0 THEN Len(file) ELSE t
  IN  FlattenSeq([i \in 1 .. upto |-> Wanted(i)])

(* How deep in brackets line n ends, comments not counted.                    *)
Depth(n) == DepthIn(text)[n]

--------------------------------------------------------------------------------
(* Properties.                                                                *)

(* A line of the source, or what is left of it after a ';'.                   *)
IsLine(l) ==
  /\ l.no \in 0 .. Len(text)
  /\ IF l.no = 0 THEN l.toks = <<>>
     ELSE \E m \in 1 .. Len(text[l.no]) + 1 : l.toks = From(text[l.no], m)

(* Every variable has its type, and the working directory is put back.        *)
TypeOK ==
  /\ file \in Seq(DOMAIN Items) /\ terminated \in BOOLEAN
  /\ cwd \in {"own", "source"} /\ (pc = "done" => cwd = "own")
  /\ pc \in {"open", "next", "scan", "define", "comment", "type", "declare", "header",
             "body", "found", "close", "done", "crashed", "endless"}
  /\ next \in 1 .. Len(text) + 1 /\ eof \in BOOLEAN
  /\ IsLine(line) /\ IsLine(start)
  /\ count \in Int /\ closed \in BOOLEAN /\ shared \in BOOLEAN /\ depth \in Int
  /\ \A i \in DOMAIN prependage : IsLine(prependage[i])
  /\ \A i \in DOMAIN out : out[i].no \in 1 .. Len(text) /\ out[i].as \in {"line", "extern"}
  /\ result \in {-1, 0, 1}

(* From a file in the style it was written for, isolateFunction() copies the  *)
(* function, once, whole, and nothing but what may be needed before it; it    *)
(* says 1 if the function is there and 0 if not.                              *)
IsolatesTarget ==
  (Tame /\ pc = "done" /\ result # -1) =>
    /\ out = Isolated
    /\ result = IF "target" \in Roles THEN 1 ELSE 0

(* Whatever the names in the file, its count of brackets is right when a line *)
(* is looked at: it never takes a statement for a declaration.                *)
TracksDepth == (Regular /\ pc = "scan") => count = Depth(line.no - 1)

(* What it writes is in the source's order, whatever the source; and no line  *)
(* is written twice unless a line was not what it seemed.                     *)
OutputInOrder ==
  \A i, j \in DOMAIN out :
    i < j => IF Regular /\ out[i].as = "line" /\ out[j].as = "line"
             THEN out[i].no < out[j].no
             ELSE out[i].no <= out[j].no

(* In a regular file with a last newline: wherever it ends, in what item and  *)
(* behind what lines, no loop over the lines waits for more than there is. And*)
(* nothing is read from a NULL in a file in the style.                        *)
Undisturbed ==
  /\ Regular /\ terminated => pc # "endless"
  /\ Tame => pc # "crashed"

(* The calls of getline that find something or the end of the file, and the   *)
(* stages up to the next one: 0 where it has stopped.                         *)
ReadsLeft == Len(text) + 1 - next + IF eof THEN 0 ELSE 1

StagesLeft ==
  [open |-> 8, scan |-> 7, define |-> 6, comment |-> 6, type |-> 6, declare |-> 5, header |-> 4,
   body |-> 3, next |-> 2, found |-> 1, close |-> 1, done |-> 0, crashed |-> 0, endless |-> 0]

(* No loop is without end but those that read no more (pc "endless"), in any  *)
(* file: each iteration reads, goes on to a later stage, or is behind a ';'.  *)
ComesCloser ==
  [][\/ ReadsLeft' < ReadsLeft
     \/ /\ ReadsLeft' = ReadsLeft
        /\ \/ StagesLeft[pc'] < StagesLeft[pc]
           \/ pc' = pc /\ Len(start'.toks) < Len(start.toks)]_vars

(* It comes to an end in every file of regular shape with a last newline.     *)
IsolationEnds == (Regular /\ terminated) ~> pc \in {"done", "crashed"}

(* 0 is for a function that is not in the file.                               *)
NotFoundMeansAbsent == result = 0 => "target" \notin Roles
================================================================================
