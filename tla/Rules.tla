-------------------------------- MODULE Rules --------------------------------
(***************************************************************************)
(* The language of collection rules, list filters, computed fields and     *)
(* aggregate conditions: how a text is parsed, what SQL it is compiled to, *)
(* and what the database makes of that SQL.                                *)
(*                                                                         *)
(* A text is a sequence of tokens.  Every value is a number, and Null; a   *)
(* condition is 1, 0 or Null, as in SQLite.  A bound parameter stands in   *)
(* the SQL as the token of its value.                                      *)
(***************************************************************************)
EXTENDS Integers, Sequences, FiniteSets

Null == -100

Literals == {"0", "1", "2", "3", "null"}
ValueOf(t) == CASE t = "0" -> 0 [] t = "1" -> 1 [] t = "2" -> 2 [] t = "3" -> 3 [] t = "null" -> Null

Comparisons == {"=", "!=", "<", ">", "<=", ">="}
Arithmetic  == {"+", "-", "*"}
Symbols == Comparisons \cup Arithmetic \cup {"&&", "||", "!", "(", ")", ",", "IN", "IS", "NOT", "NULL", "AND", "OR"}

\* A node of the syntax tree: its kind, its operator, value or name, and its parts.
Node(kind, x, parts) == [kind |-> kind, x |-> x, parts |-> parts]
Literal(t)    == Node("literal", t, <<>>)
Variable(f)   == Node("variable", f, <<>>)
BinaryOp(l, op, r) == Node("binary", op, <<l, r>>)
NotOp(n)      == Node("not", "!", <<n>>)
InOp(n, vs)   == Node("in", "IN", <<n>> \o vs)
IsNullOp(n)   == Node("null", "IS NULL", <<n>>)
IsNotNullOp(n) == Node("null", "IS NOT NULL", <<n>>)
FunctionCall(f, args) == Node("function", f, args)

-----------------------------------------------------------------------------
(* Parsing.  The rule grammar is the parser's; the SQL grammar is the       *)
(* database's, in which comparisons can be chained and < binds tighter      *)
(* than =.  Each level reads a sequence of things of the next level.        *)

OrLevel == 1  AndLevel == 2  NotLevel == 3  EqLevel == 4  LessLevel == 5
AddLevel == 6  TimesLevel == 7  AtomLevel == 8

OpsOf(grammar, level) ==
  CASE level = OrLevel    -> IF grammar = "rule" THEN {"||"} ELSE {"OR"}
    [] level = AndLevel   -> IF grammar = "rule" THEN {"&&"} ELSE {"AND"}
    [] level = EqLevel    -> IF grammar = "rule" THEN Comparisons \cup {"IN", "IS"}
                             ELSE {"=", "!=", "IN", "IS"}
    [] level = LessLevel  -> IF grammar = "rule" THEN {} ELSE {"<", ">", "<=", ">="}
    [] level = AddLevel   -> {"+", "-"}
    [] level = TimesLevel -> {"*"}
    [] OTHER -> {}

NotSign(grammar) == IF grammar = "rule" THEN "!" ELSE "NOT"

Parsed(node, rest) == [ok |-> TRUE, node |-> node, rest |-> rest]
SyntaxError == [ok |-> FALSE, node |-> Literal("null"), rest |-> <<>>]

At(s, token) == s # <<>> /\ s[1] = token
From(s, n) == SubSeq(s, n, Len(s))

RECURSIVE Level(_, _, _), Chain(_, _, _), Items(_, _, _)

\* p is read; then comes this token, or it is an error.
Followed(p, token) == IF p.ok /\ At(p.rest, token) THEN [p EXCEPT !.rest = Tail(@)] ELSE SyntaxError

\* Things of a level between commas, up to the closing parenthesis: first is read.
ItemsAfter(grammar, level, first) ==
  CASE ~first.ok -> SyntaxError
    [] At(first.rest, ")") -> Parsed(<<first.node>>, Tail(first.rest))
    [] At(first.rest, ",") ->
         LET cons(more) == IF more.ok THEN [more EXCEPT !.node = <<first.node>> \o @] ELSE SyntaxError
         IN cons(Items(grammar, level, Tail(first.rest)))
    [] OTHER -> SyntaxError
Items(grammar, level, s) == ItemsAfter(grammar, level, Level(grammar, level, s))

\* What was read so far and the operator after it, if the level has that operator.
Extend(grammar, level, p) ==
  LET op == p.rest[1]  s == Tail(p.rest)
      with(right) == IF right.ok THEN Parsed(BinaryOp(p.node, op, right.node), right.rest) ELSE SyntaxError
      among(vs)   == IF vs.ok THEN Parsed(InOp(p.node, vs.node), vs.rest) ELSE SyntaxError
  IN CASE op = "IN" -> among(IF At(s, "(") THEN Items(grammar, LessLevel, Tail(s)) ELSE SyntaxError)
       [] op = "IS" ->
            CASE At(s, "NULL") -> Parsed(IsNullOp(p.node), Tail(s))
              [] At(s, "NOT") /\ At(Tail(s), "NULL") -> Parsed(IsNotNullOp(p.node), From(s, 3))
              [] OTHER -> SyntaxError
       [] OTHER -> with(Level(grammar, level + 1, s))

\* Left-associative; the rule grammar has at most one comparison.
Chain(grammar, level, p) ==
  IF ~p.ok \/ p.rest = <<>> \/ p.rest[1] \notin OpsOf(grammar, level) THEN p
  ELSE LET again(q) == IF grammar = "rule" /\ level = EqLevel THEN q ELSE Chain(grammar, level, q)
       IN again(Extend(grammar, level, p))

\* CASE WHEN condition THEN value ELSE value END, which only SQL has: p holds the
\* parts read, a word and another part follow.
CasePart(p, word) ==
  LET with(next) == IF next.ok THEN Parsed(Append(p.node, next.node), next.rest) ELSE SyntaxError
  IN IF p.ok /\ At(p.rest, word) THEN with(Level("sql", OrLevel, Tail(p.rest))) ELSE SyntaxError

CaseWhen(s) ==
  LET parts(p) == IF p.ok THEN Parsed(FunctionCall("if", p.node), p.rest) ELSE SyntaxError
  IN parts(Followed(CasePart(CasePart(CasePart(Parsed(<<>>, s), "WHEN"), "THEN"), "ELSE"), "END"))

Atom(grammar, s) ==
  LET called(args) == IF args.ok THEN Parsed(FunctionCall(s[1], args.node), args.rest) ELSE SyntaxError IN
  IF s = <<>> THEN SyntaxError
  ELSE CASE s[1] \in Literals -> Parsed(Literal(s[1]), Tail(s))
         [] s[1] = "(" -> Followed(Level(grammar, OrLevel, Tail(s)), ")")
         [] s[1] = "CASE" /\ grammar = "sql" -> CaseWhen(Tail(s))
         [] s[1] \in Symbols -> SyntaxError
         [] OTHER ->
              IF At(Tail(s), "(") THEN called(Items(grammar, OrLevel, From(s, 3)))
              ELSE Parsed(Variable(s[1]), Tail(s))

Level(grammar, level, s) ==
  LET negated(p) == IF p.ok THEN Parsed(NotOp(p.node), p.rest) ELSE SyntaxError IN
  CASE level = AtomLevel -> Atom(grammar, s)
    [] level = NotLevel /\ At(s, NotSign(grammar)) -> negated(Level(grammar, NotLevel, Tail(s)))
    [] OTHER -> Chain(grammar, level, Level(grammar, level + 1, s))

\* The whole text, or nothing.
Parse(grammar, s) ==
  LET whole(p) == IF p.rest = <<>> THEN p ELSE SyntaxError IN whole(Level(grammar, OrLevel, s))

-----------------------------------------------------------------------------
(* Compiling.                                                               *)

SqlOp(op) == CASE op = "&&" -> "AND" [] op = "||" -> "OR" [] OTHER -> op

InParens(s) == <<"(">> \o s \o <<")">>

RECURSIVE Commas(_)
Commas(texts) ==
  IF Len(texts) <= 1 THEN (IF texts = <<>> THEN <<>> ELSE texts[1])
  ELSE texts[1] \o <<",">> \o Commas(Tail(texts))

ContextVariables == {"@request.auth.id", "@request.data.v"}

\* What stops the compiler of a rule or a filter: arithmetic, functions, lists of
\* anything but literals and, in a filter, variables of the request.
RECURSIVE CanCompile(_, _)
CanCompile(for, n) ==
  /\ CASE n.kind = "binary"   -> n.x \notin Arithmetic
       [] n.kind = "function" -> FALSE
       [] n.kind = "in"       -> \A i \in 2..Len(n.parts) : n.parts[i].kind = "literal"
       [] n.kind = "variable" -> for = "rule" \/ n.x \notin ContextVariables
       [] OTHER -> TRUE
  /\ \A i \in DOMAIN n.parts : CanCompile(for, n.parts[i])

\* Faulty variant: AND and OR are compiled without parentheses.
RECURSIVE CompileBare(_, _)
CompileBare(n, computed) ==
  LET sql(i) == CompileBare(n.parts[i], computed) IN
  CASE n.kind = "literal"  -> <<n.x>>
    [] n.kind = "variable" -> IF n.x \in DOMAIN computed THEN InParens(computed[n.x]) ELSE <<n.x>>
    [] n.kind = "binary"   -> sql(1) \o <<SqlOp(n.x)>> \o sql(2)
    [] n.kind = "not"      -> <<"NOT">> \o InParens(sql(1))
    [] n.kind = "in"       -> sql(1) \o <<"IN">> \o InParens(Commas([i \in 1..Len(n.parts)-1 |-> sql(i+1)]))
    [] n.x = "IS NULL"     -> sql(1) \o <<"IS", "NULL">>
    [] OTHER               -> sql(1) \o <<"IS", "NOT", "NULL">>

\* computed[f]: the SQL of the computed fields that a filter may name.
RECURSIVE CompileCondition(_, _)
CompileCondition(n, computed) ==
  LET sql(i) == CompileCondition(n.parts[i], computed) IN
  CASE n.kind = "literal"  -> <<n.x>>
    [] n.kind = "variable" -> IF n.x \in DOMAIN computed THEN InParens(computed[n.x]) ELSE <<n.x>>
    [] n.kind = "binary"   -> IF n.x \in {"&&", "||"}
                              THEN InParens(sql(1) \o <<SqlOp(n.x)>> \o sql(2))
                              ELSE sql(1) \o <<n.x>> \o sql(2)
    [] n.kind = "not"      -> <<"NOT">> \o InParens(sql(1))
    [] n.kind = "in"       -> sql(1) \o <<"IN">> \o InParens(Commas([i \in 1..Len(n.parts)-1 |-> sql(i+1)]))
    [] n.x = "IS NULL"     -> sql(1) \o <<"IS", "NULL">>
    [] OTHER               -> sql(1) \o <<"IS", "NOT", "NULL">>

\* A computed field puts parentheses around everything.
RECURSIVE CompileExpression(_)
CompileExpression(n) ==
  LET sql(i) == CompileExpression(n.parts[i])  all == [i \in DOMAIN n.parts |-> sql(i)] IN
  CASE n.kind \in {"literal", "variable"} -> <<n.x>>
    [] n.kind = "binary"   -> InParens(sql(1) \o <<SqlOp(n.x)>> \o sql(2))
    [] n.kind = "not"      -> InParens(<<"NOT">> \o sql(1))
    [] n.kind = "function" ->
         IF n.x = "if" THEN <<"CASE", "WHEN">> \o sql(1) \o <<"THEN">> \o sql(2) \o <<"ELSE">> \o sql(3) \o <<"END">>
         ELSE <<n.x>> \o InParens(Commas(all))
    [] n.x = "IS NULL"     -> InParens(sql(1) \o <<"IS", "NULL">>)
    [] OTHER               -> InParens(sql(1) \o <<"IS", "NOT", "NULL">>)

-----------------------------------------------------------------------------
(* What a condition is worth for a row, which gives the columns and the     *)
(* variables of the request their values.                                   *)

Truth(b) == IF b THEN 1 ELSE 0
IsTrue(x) == x # 0 /\ x # Null

Both(x, y)   == IF x = 0 \/ y = 0 THEN 0 ELSE IF x = Null \/ y = Null THEN Null ELSE 1
Either(x, y) == IF IsTrue(x) \/ IsTrue(y) THEN 1 ELSE IF x = Null \/ y = Null THEN Null ELSE 0

Apply(op, x, y) ==
  CASE op \in {"&&", "AND"} -> Both(x, y)
    [] op \in {"||", "OR"}  -> Either(x, y)
    [] OTHER -> IF x = Null \/ y = Null THEN Null
                ELSE CASE op = "="  -> Truth(x = y)
                       [] op = "!=" -> Truth(x # y)
                       [] op = "<"  -> Truth(x < y)
                       [] op = ">"  -> Truth(x > y)
                       [] op = "<=" -> Truth(x <= y)
                       [] op = ">=" -> Truth(x >= y)
                       [] op = "+"  -> x + y
                       [] op = "-"  -> x - y
                       [] op = "*"  -> x * y

RECURSIVE Eval(_, _)
Eval(n, row) ==
  LET part(i) == Eval(n.parts[i], row) IN
  CASE n.kind = "literal"  -> ValueOf(n.x)
    [] n.kind = "variable" -> row[n.x]
    [] n.kind = "binary"   -> Apply(n.x, part(1), part(2))
    [] n.kind = "not"      -> IF part(1) = Null THEN Null ELSE Truth(part(1) = 0)
    [] n.kind = "in"       ->
         LET among == {part(i) : i \in 2..Len(n.parts)} IN
         IF part(1) = Null THEN Null
         ELSE IF part(1) \in among THEN 1 ELSE IF Null \in among THEN Null ELSE 0
    [] n.kind = "null"     -> Truth((part(1) = Null) = (n.x = "IS NULL"))
    [] n.x = "if"          -> IF IsTrue(part(1)) THEN part(2) ELSE part(3)
    [] OTHER               -> IF part(1) # Null THEN part(1) ELSE part(2)

RECURSIVE ColumnsOf(_)
ColumnsOf(n) ==
  IF n.kind = "variable" THEN {n.x} ELSE UNION {ColumnsOf(n.parts[i]) : i \in DOMAIN n.parts}

-----------------------------------------------------------------------------
(* Macros: their name stands for a text, put in parentheses; $1 in it for   *)
(* the argument.  Texts that macros stand for may name macros, three deep.  *)

MaxDepth == 3

BuiltinMacros == [m \in {"@is_creator", "@owns_record", "@has_id"} |->
                    IF m = "@has_id" THEN <<"@request.auth.id", "=", "$1">>
                    ELSE <<"created_by", "=", "@request.auth.id">>]

\* Faulty variant: what a macro stands for gets no parentheses.
RECURSIVE ExpandBare(_, _, _)
ExpandBare(s, macros, depth) ==
  IF depth > MaxDepth THEN [ok |-> FALSE, text |-> <<>>]
  ELSE IF s = <<>> THEN [ok |-> TRUE, text |-> <<>>]
  ELSE IF s[1] \notin DOMAIN macros
       THEN [ExpandBare(Tail(s), macros, depth) EXCEPT !.text = <<s[1]>> \o @]
  ELSE LET template == macros[s[1]]
           \* the argument goes up to the first closing parenthesis
           close == IF At(Tail(s), "(") THEN CHOOSE i \in 3..Len(s) : s[i] = ")" /\ \A j \in 3..i-1 : s[j] # ")"
                    ELSE 1
           arg == SubSeq(s, 3, close - 1)
           filled == IF arg = <<>> THEN template
                     ELSE IF s[1] = "@owns_record" THEN arg \o <<"=", "@request.auth.id">>
                     ELSE [i \in DOMAIN template |-> IF template[i] = "$1" THEN arg[1] ELSE template[i]]
           with(inner, more) == [ok |-> inner.ok /\ more.ok, text |-> inner.text \o more.text]
       IN with(ExpandBare(filled, macros, depth + 1), ExpandBare(From(s, close + 1), macros, depth))

RECURSIVE Expand(_, _, _)
Expand(s, macros, depth) ==
  IF depth > MaxDepth THEN [ok |-> FALSE, text |-> <<>>]
  ELSE IF s = <<>> THEN [ok |-> TRUE, text |-> <<>>]
  ELSE IF s[1] \notin DOMAIN macros
       THEN [Expand(Tail(s), macros, depth) EXCEPT !.text = <<s[1]>> \o @]
  ELSE LET template == macros[s[1]]
           \* the argument goes up to the first closing parenthesis
           close == IF At(Tail(s), "(") THEN CHOOSE i \in 3..Len(s) : s[i] = ")" /\ \A j \in 3..i-1 : s[j] # ")"
                    ELSE 1
           arg == SubSeq(s, 3, close - 1)
           filled == IF arg = <<>> THEN template
                     ELSE IF s[1] = "@owns_record" THEN arg \o <<"=", "@request.auth.id">>
                     ELSE [i \in DOMAIN template |-> IF template[i] = "$1" THEN arg[1] ELSE template[i]]
           with(inner, more) == [ok |-> inner.ok /\ more.ok, text |-> InParens(inner.text) \o more.text]
       IN with(Expand(filled, macros, depth + 1), Expand(From(s, close + 1), macros, depth))

-----------------------------------------------------------------------------
(* What people write: the text of a tree, with the parentheses it needs,    *)
(* and the tree in which macros are replaced by what they stand for.        *)

Binding(n) ==
  CASE n.kind = "binary" -> CASE n.x = "||" -> OrLevel [] n.x = "&&" -> AndLevel
                              [] n.x \in {"+", "-"} -> AddLevel [] n.x = "*" -> TimesLevel
                              [] OTHER -> EqLevel
    [] n.kind = "not" -> NotLevel
    [] n.kind \in {"in", "null"} -> EqLevel
    [] OTHER -> AtomLevel

RECURSIVE Written(_, _)
Written(n, level) ==
  LET b == Binding(n)
      part(i, l) == Written(n.parts[i], l)
      inner == IF b = EqLevel THEN LessLevel ELSE b
      text ==
        CASE n.kind \in {"literal", "variable"} -> <<n.x>>
          [] n.kind = "binary"   -> part(1, inner) \o <<n.x>> \o part(2, b + 1)
          [] n.kind = "not"      -> <<"!">> \o part(1, NotLevel)
          [] n.kind = "in"       -> part(1, LessLevel) \o <<"IN">>
                                      \o InParens(Commas([i \in 1..Len(n.parts)-1 |-> part(i+1, LessLevel)]))
          [] n.kind = "null"     -> part(1, LessLevel)
                                      \o (IF n.x = "IS NULL" THEN <<"IS", "NULL">> ELSE <<"IS", "NOT", "NULL">>)
          [] n.kind = "macro" /\ n.parts = <<>> -> <<n.x>>
          [] OTHER -> <<n.x>> \o InParens(Commas([i \in DOMAIN n.parts |-> part(i, OrLevel)]))
  IN IF b < level THEN InParens(text) ELSE text

TextOf(n) == Written(n, OrLevel)

Macro(m, args) == Node("macro", m, args)

\* meanings[m]: the tree of what a macro without an argument stands for.
RECURSIVE Meaning(_, _)
Meaning(n, meanings) ==
  IF n.kind = "macro" THEN
    IF n.x = "@has_id" THEN BinaryOp(Variable("@request.auth.id"), "=", n.parts[1])
    ELSE Meaning(meanings[n.x], meanings)
  ELSE [n EXCEPT !.parts = [i \in DOMAIN n.parts |-> Meaning(n.parts[i], meanings)]]
=============================================================================
