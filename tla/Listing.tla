------------------------------- MODULE Listing -------------------------------
(***************************************************************************)
(* Reading records under collection rules: the rules and the macros they   *)
(* name, listing, viewing, creating and aggregating records of one         *)
(* collection.  Walks over its pages are in Paging.                        *)
(* Rules and filters are texts; what is asked of the database is the text  *)
(* they are compiled to, read with the database's own precedences.         *)
(***************************************************************************)
EXTENDS Rules, Paging, TLC

CONSTANTS
  Scenes,         \* the parts of the interface exercised: a run begins in one of them
  InitialRows,    \* the records a run of each scene may begin with
  Askers,         \* who asks: [is, id, account, groups], is "user", "anonymous" or "superadmin"
  FieldLists,     \* the fields rules may name; "*" stands for all
  InitialRules,   \* the rules, as meant, a run of each scene may begin with
  NewRules,       \* rules that may be put in their place
  FilterTrees,    \* the filters used in each scene
  HavingTrees,
  MacroTrees,     \* what a macro may be made to mean
  Payloads,       \* what may be sent to create a record
  DoubleTree,     \* the expression of the computed field "double"
  MaxEdits        \* bound: changes of rules and macros

\* Both modules mean the same null, and walks begin with records that Paging knows.
ASSUME ListingAssumption ==
  /\ NoValue = Null
  /\ InitialRows["pages"] \subseteq Tables
  /\ MaxEdits \in Nat

VARIABLES
  scene,
  rule,       \* the rule of the operation asked for: [is, tree]
  macros,     \* the macros table: name -> tree
  answer,     \* the last answer, with what was asked
  edits       \* number of changes of rules and macros
ruleVars == <<scene, rule, macros, answer, edits>>
vars == <<pageVars, ruleVars>>

UserMacros == {"@mine", "@both"}
Fields  == {"v", "parent"}
Columns == Fields \cup {"id", "account_id", "created_by"}
System  == {"id", "account_id", "created_at", "updated_at", "created_by", "updated_by"}
\* Columns of the accounts table that the listing joins.
AccountColumns == {"id", "name", "created_at", "updated_at"}

NoFilter == Literal("1")
NoAnswer == [op |-> "none", status |-> 0]

-----------------------------------------------------------------------------
(* What may be asked of the database.                                       *)

MacroTexts == [m \in DOMAIN BuiltinMacros \cup DOMAIN macros |->
                 IF m \in DOMAIN BuiltinMacros THEN BuiltinMacros[m] ELSE TextOf(macros[m])]

RuleFilter(text) == [status |-> 200, sql |-> text]
Refused(status)  == [status |-> status, sql |-> <<>>]
AnyRow == <<"1", "=", "1">>

\* Values of the columns and of the parameters of a request for one record.
Bound(asker, columns, data) ==
  [x \in DOMAIN columns \cup ContextVariables \cup {"@account"} |->
     CASE x = "@request.auth.id" -> asker.id
       [] x = "@request.data.v"  -> (IF "v" \in DOMAIN data THEN data["v"] ELSE Null)
       [] x = "@account"         -> asker.account
       [] OTHER -> columns[x]]

Row(id) == [c \in Columns |-> IF c = "id" THEN id ELSE rows[id][c]]
NoData  == [f \in {} |-> Null]

\* A rule made SQL: its macros replaced, parsed, compiled.
CompileRule(tree) ==
  LET compiled(parsed) == IF parsed.ok /\ CanCompile("rule", parsed.node)
                          THEN RuleFilter(CompileCondition(parsed.node, NoData)) ELSE Refused(501)
      read(expanded)   == IF expanded.ok THEN compiled(Parse("rule", expanded.text)) ELSE Refused(500)
  IN read(Expand(TextOf(tree), MacroTexts, 0))

\* The payload as a table of one row, asked whether the rule holds of it.
AllowsPayload(sql, asker, data) ==
  \E parsed \in {Parse("sql", sql)} :
    /\ parsed.ok
    /\ ColumnsOf(parsed.node) \subseteq DOMAIN data \cup ContextVariables
    /\ IsTrue(Eval(parsed.node, Bound(asker, data, data)))

\* The answer to: may this asker do this, and to which records?
CheckPermission(asker, op, data) ==
  CASE asker.is = "superadmin"      -> RuleFilter(AnyRow)
    [] rule.is = "missing"     -> Refused(403)
    [] rule.is = "locked"      -> Refused(403)
    [] rule.is = "open"        -> RuleFilter(AnyRow)
    [] asker.is = "anonymous"    -> Refused(401)
    [] OTHER ->
         LET permitted(compiled) ==
               CASE compiled.status # 200 ->
                      Refused(IF compiled.status = 501 /\ op = "create" THEN 400 ELSE 500)
                 [] op # "create" -> compiled
                 [] OTHER -> IF AllowsPayload(compiled.sql, asker, data)
                             THEN RuleFilter(AnyRow) ELSE Refused(400)
         IN permitted(CompileRule(rule.tree))

Computed == [f \in {"double"} |-> CompileExpression(Parse("rule", TextOf(DoubleTree)).node)]

\* A filter may name fields of the schema and system fields, and no variable of the request.
RECURSIVE ValidFilter(_)
ValidFilter(n) ==
  /\ n.kind = "variable" => n.x \in Fields \cup System \cup {"double"}
  /\ \A i \in DOMAIN n.parts : ValidFilter(n.parts[i])

\* A filter that is no filter is the caller's mistake; one that passes as valid and
\* cannot be compiled fails the request, because nobody catches that error.
CompileFilter(tree) ==
  LET compiled(parsed) ==
        CASE ~parsed.ok \/ ~ValidFilter(parsed.node) -> Refused(400)
          [] ~CanCompile("filter", parsed.node)      -> Refused(500)
          [] OTHER -> RuleFilter(CompileCondition(parsed.node, Computed))
  IN compiled(Parse("rule", TextOf(tree)))

Where(asker, ruleSql, filterSql) ==
  (IF asker.is = "superadmin" THEN <<>> ELSE <<"account_id", "=", "@account", "AND">>)
    \o InParens(ruleSql) \o (IF filterSql = <<>> THEN <<>> ELSE <<"AND">> \o InParens(filterSql))

FilterSql(tree) == IF tree = NoFilter THEN RuleFilter(<<>>) ELSE CompileFilter(tree)

\* The records that a WHERE clause lets through, or none of it if the database
\* cannot tell a column: it does not exist, or two joined tables have it.
Select(where, asker, joined) ==
  LET known(named) == named \subseteq Columns /\ ~(joined /\ named \cap AccountColumns # {})
      found(parsed) ==
        IF parsed.ok /\ known(ColumnsOf(parsed.node) \ (ContextVariables \cup {"@account"}))
        THEN [ok |-> TRUE, ids |-> {id \in DOMAIN rows : IsTrue(Eval(parsed.node, Bound(asker, Row(id), NoData)))}]
        ELSE [ok |-> FALSE, ids |-> {}]
  IN found(Parse("sql", where))

-----------------------------------------------------------------------------
(* Rules and macros.                                                        *)

RECURSIVE NamesOf(_)
NamesOf(n) ==
  (IF n.kind \in {"variable", "macro"} THEN {n.x} ELSE {}) \cup UNION {NamesOf(n.parts[i]) : i \in DOMAIN n.parts}

RECURSIVE HasKind(_, _)
HasKind(n, kinds) == n.kind \in kinds \/ \E i \in DOMAIN n.parts : HasKind(n.parts[i], kinds)

\* The text is parsed as it stands: a macro is an unknown variable or function.
ValidRule(tree) ==
  /\ ~HasKind(tree, {"macro", "function"})
  /\ NamesOf(tree) \subseteq Columns \cup {"@request.auth.id"}

\* Reading the rules of a collection that has none stores locked ones.
GetRules ==
  /\ scene = "rules" /\ answer = NoAnswer /\ rule.is = "missing"
  /\ rule' = [rule EXCEPT !.is = "locked"]
  /\ UNCHANGED <<scene, answer, macros, edits, pageVars>>

PutRules(tree) ==
  /\ scene = "rules" /\ answer = NoAnswer /\ edits < MaxEdits
  /\ ValidRule(tree)
  /\ rule' = [is |-> "text", tree |-> tree]
  /\ edits' = edits + 1
  /\ UNCHANGED <<scene, answer, macros, pageVars>>

\* A macro may come to mean something else while rules name it.
UpdateMacro(m, tree) ==
  /\ scene = "rules" /\ answer = NoAnswer /\ edits < MaxEdits
  /\ macros' = [macros EXCEPT ![m] = tree]
  /\ edits' = edits + 1
  /\ UNCHANGED <<scene, answer, rule, pageVars>>

\* Another name: nobody looks for the rules that use the old one.
RenameMacro(m) ==
  /\ scene = "rules" /\ answer = NoAnswer /\ edits < MaxEdits
  /\ macros' = [x \in DOMAIN macros \ {m} |-> macros[x]]
  /\ edits' = edits + 1
  /\ UNCHANGED <<scene, answer, rule, pageVars>>

\* Only a macro that the text of no rule names is deleted; other macros may name it.
DeleteMacro(m) ==
  /\ ~(rule.is = "text" /\ m \in NamesOf(rule.tree))
  /\ RenameMacro(m)

-----------------------------------------------------------------------------
(* One request, one answer.  The answer keeps what was asked.               *)

Answer(op, asker, status, ids, more) ==
  more @@ [op |-> op, asker |-> asker, status |-> status, ids |-> ids]

\* A request changes no table, so a run goes no further than one answer.
Answers(a) == answer' = a /\ UNCHANGED <<scene, rule, macros, edits, pageVars>>

\* The first status that is not a success.
FirstRefusal(statuses) ==
  IF \A i \in DOMAIN statuses : statuses[i] = 200 THEN 200
  ELSE statuses[CHOOSE i \in DOMAIN statuses : statuses[i] # 200 /\ \A j \in 1..i-1 : statuses[j] = 200]
DatabaseStatus(selected) == IF selected.ok THEN 200 ELSE 500

\* The first page, large enough for all; the total is counted without the join.
List(asker, filter) ==
  /\ scene \in {"rules", "filters"} /\ answer = NoAnswer
  /\ \E allowed \in {CheckPermission(asker, "list", NoData)}, wanted \in {FilterSql(filter)} :
     \E where \in {Where(asker, allowed.sql, wanted.sql)} :
     \E counted \in {Select(where, asker, FALSE)}, found \in {Select(where, asker, TRUE)} :
       LET status == FirstRefusal(<<allowed.status, wanted.status, DatabaseStatus(counted), DatabaseStatus(found)>>) IN
       Answers(Answer("list", asker, status, IF status = 200 THEN found.ids ELSE {},
                      [filter |-> filter, total |-> Cardinality(counted.ids)]))

\* References are followed as often as the request says and the settings allow; a
\* reference to a record that is not there, or not in the account, becomes null.
MaxExpandDepth == 2
Fetched(asker, id) ==
  IF id \in DOMAIN rows /\ (asker.is = "superadmin" \/ rows[id].account_id = asker.account) THEN id ELSE Null

RECURSIVE Expanded(_, _, _, _)
Expanded(asker, id, hops, depth) ==
  LET to == rows[id].parent IN
  IF hops = 0 \/ depth >= MaxExpandDepth \/ to = Null THEN <<to>>
  ELSE LET fetched == Fetched(asker, to) IN
       IF fetched = Null THEN <<Null>> ELSE <<fetched>> \o Expanded(asker, fetched, hops - 1, depth + 1)

\* v is personal: those outside the group see stars, as long as there is a value.
Stars == -99
ShouldMask(asker) == asker.is # "superadmin" /\ "pii_access" \notin asker.groups
MaskedRow(asker, row) ==
  [row EXCEPT !["v"] = IF ShouldMask(asker) /\ @ # Null THEN Stars ELSE @]

\* Only the fields of the rule and the system's are shown.
FilteredRow(asker, row, fields) ==
  IF asker.is = "superadmin" \/ fields = "*" THEN row
  ELSE [f \in DOMAIN row \cap (FieldLists[fields] \cup System) |-> row[f]]

Shown(asker, id, fields) ==
  LET row == FilteredRow(asker, Row(id), fields) IN IF "v" \in DOMAIN row THEN MaskedRow(asker, row) ELSE row

View(asker, id, hops, fields) ==
  /\ scene = "rules" /\ answer = NoAnswer
  /\ \E allowed \in {CheckPermission(asker, "view", NoData)} :
     \E found \in {Select(Where(asker, allowed.sql, <<"id", "=", ToString(id)>>), asker, FALSE)} :
       LET status == FirstRefusal(<<allowed.status, DatabaseStatus(found), IF found.ids = {} THEN 404 ELSE 200>>)
           linked == fields = "*" \/ "parent" \in FieldLists[fields] \/ asker.is = "superadmin"
       IN Answers(Answer("view", asker, status, IF status = 200 THEN found.ids ELSE {},
                         [asked |-> id,
                          shown |-> IF status = 200 THEN Shown(asker, id, fields) ELSE NoData,
                          chain |-> IF status = 200 /\ linked THEN Expanded(asker, id, hops, 0) ELSE <<>>]))

-----------------------------------------------------------------------------
(* RecordData that are sent.                                                   *)

Texts == {"text", "email", "url", "date", "datetime", "metadata text"}
\* The kinds of values that each type of field accepts.
Accepts ==
  [t \in {"text", "number", "boolean", "datetime", "date", "email", "url", "json", "reference", "file"} |->
     CASE t = "text"      -> Texts \cup {"blank"}
       [] t = "datetime"  -> {"date", "datetime"}
       [] t = "json"      -> Texts \cup {"blank", "number", "boolean", "list", "metadata"}
       [] t = "reference" -> Texts
       [] t = "file"      -> {"metadata", "metadata text"}
       [] OTHER           -> {t}]

\* The schema: v is a number with a default, parent refers to the same collection,
\* double is computed.
TypeOf  == [f \in Fields \cup {"double"} |-> CASE f = "v" -> "number" [] f = "parent" -> "reference" [] OTHER -> "computed"]
Default == [f \in Fields |-> IF f = "v" THEN 1 ELSE Null]
Wrong   == -50
KindOf(f, x) == CASE x = Wrong -> "boolean" [] f = "parent" -> "text" [] OTHER -> "number"

\* Unknown fields and values of another type are errors; nulls stay; what is missing
\* gets its default, unless there is none.  Computed fields are passed over.
ValidateAndApplyDefaults(data) ==
  LET stored == {f \in Fields : f \in DOMAIN data \/ Default[f] # Null} IN
  [ok   |-> /\ DOMAIN data \subseteq DOMAIN TypeOf
            /\ \A f \in Fields \cap DOMAIN data : data[f] # Null => KindOf(f, data[f]) \in Accepts[TypeOf[f]],
   data |-> [f \in stored |-> IF f \in DOMAIN data THEN data[f] ELSE Default[f]]]

ReferencesExist(asker, data) ==
  \A f \in {"parent"} \cap DOMAIN data :
    data[f] # Null => data[f] \in DOMAIN rows /\ rows[data[f]].account_id = asker.account

MaySendFields(data, fields) ==
  DOMAIN data \cap System = {} /\ (fields = "*" \/ DOMAIN data \subseteq FieldLists[fields])

Status(asker, allowed, data, fields) ==
  CASE allowed.status # 200 -> allowed.status
    [] asker.is # "superadmin" /\ ~MaySendFields(data, fields) -> 422
    [] asker.is = "superadmin" /\ ~MaySendFields(data, "*")    -> 422
    [] ~ReferencesExist(asker, data) \/ ~ValidateAndApplyDefaults(data).ok -> 400
    [] OTHER -> 200

\* The rule is asked of the payload as it was sent, before defaults are filled in.
Create(asker, data, fields) ==
  /\ scene = "rules" /\ answer = NoAnswer
  /\ \E allowed \in {CheckPermission(asker, "create", data)} :
     Answers(Answer("create", asker, Status(asker, allowed, data, fields), {},
                    [data |-> data, allowed |-> allowed.status = 200, stored |-> ValidateAndApplyDefaults(data).data]))

\* Several records at once: the rule is asked of no payload.
BatchCreate(asker, data, fields) ==
  /\ scene = "rules" /\ answer = NoAnswer
  /\ \E allowed \in {CheckPermission(asker, "create", NoData)} :
     Answers(Answer("batch", asker, Status(asker, allowed, data, fields), {},
                    [data |-> data, allowed |-> allowed.status = 200, stored |-> ValidateAndApplyDefaults(data).data]))

-----------------------------------------------------------------------------
(* Aggregates.                                                              *)

\* The aggregates of a set of records; the sum and the greatest of no value are null.
RECURSIVE SumOf(_)
SumOf(ids) == IF ids = {} THEN 0 ELSE LET id == CHOOSE i \in ids : TRUE IN rows[id].v + SumOf(ids \ {id})
Aggregates(ids) ==
  LET valued == {id \in ids : rows[id].v # Null} IN
  [a \in {"count", "sum_v", "max_v"} |->
     CASE a = "count" -> Cardinality(ids)
       [] valued = {} -> Null
       [] a = "sum_v" -> SumOf(valued)
       [] OTHER -> CHOOSE x \in {rows[id].v : id \in valued} : \A id \in valued : rows[id].v <= x]

\* A condition on aggregates: an alias against a number, and, or, parentheses.
RECURSIVE ValidHaving(_)
ValidHaving(n) ==
  /\ n.kind = "binary"
  /\ IF n.x \in {"&&", "||"} THEN ValidHaving(n.parts[1]) /\ ValidHaving(n.parts[2])
     ELSE /\ n.parts[1].kind = "variable" /\ n.parts[1].x \in {"count", "sum_v", "max_v"}
          /\ n.parts[2].kind = "literal" /\ n.parts[2].x # "null"

CompileHaving(tree) ==
  LET compiled(parsed) == IF parsed.ok /\ ValidHaving(parsed.node)
                          THEN RuleFilter(CompileCondition(parsed.node, NoData)) ELSE Refused(400)
  IN compiled(Parse("rule", TextOf(tree)))

\* grouped: by creator; otherwise all records are one group, even if there is none.
Aggregate(asker, filter, having, grouped) ==
  /\ scene = "groups" /\ answer = NoAnswer
  /\ \E allowed \in {CheckPermission(asker, "list", NoData)}, wanted \in {FilterSql(filter)}, limited \in {CompileHaving(having)} :
     \E found \in {Select(Where(asker, allowed.sql, wanted.sql), asker, FALSE)} :
       LET groups == IF grouped THEN {{id \in found.ids : rows[id].created_by = u} : u \in {rows[id].created_by : id \in found.ids}}
                     ELSE {found.ids}
           status == FirstRefusal(<<allowed.status, wanted.status, limited.status, DatabaseStatus(found)>>)
           kept(parsed) == {g \in groups : IsTrue(Eval(parsed.node, Aggregates(g)))}
       IN Answers(Answer("aggregate", asker, status, IF status = 200 THEN kept(Parse("sql", limited.sql)) ELSE {},
                         [filter |-> filter, having |-> having, grouped |-> grouped]))

-----------------------------------------------------------------------------
Init ==
  /\ scene \in Scenes
  /\ rows \in InitialRows[scene]
  /\ rule \in IF scene = "pages" THEN {[is |-> "open", tree |-> NoFilter]}
              ELSE {[is |-> "text", tree |-> t] : t \in InitialRules[scene]}
                     \cup {[is |-> i, tree |-> NoFilter] : i \in {"missing", "locked", "open"}}
  /\ macros \in IF scene = "pages" THEN {[m \in {} |-> NoFilter]} ELSE MacroTrees
  /\ answer = NoAnswer /\ edits = 0
  /\ walk = NoWalk /\ touched = 0

Next ==
  \/ GetRules
  \/ \E t \in NewRules : PutRules(t)
  \/ \E m \in DOMAIN macros :
       \/ RenameMacro(m)
       \/ DeleteMacro(m)
       \/ \E ms \in MacroTrees : m \in DOMAIN ms /\ UpdateMacro(m, ms[m])
  \/ \E a \in Askers :
       \/ \E f \in FilterTrees[scene] : List(a, f)
       \/ \E id \in Ids, hops \in {0, 3}, fs \in DOMAIN FieldLists \cup {"*"} : View(a, id, hops, fs)
       \/ \E d \in Payloads, fs \in DOMAIN FieldLists \cup {"*"} : Create(a, d, fs) \/ BatchCreate(a, d, fs)
       \/ \E f \in FilterTrees[scene], h \in HavingTrees, g \in BOOLEAN : Aggregate(a, f, h, g)
  \/ scene = "pages" /\ PagesNext /\ UNCHANGED ruleVars

Spec == Init /\ [][Next]_vars

-----------------------------------------------------------------------------
(* What rules and filters mean, without any text.                           *)

Meanings == [m \in DOMAIN macros \cup {"@is_creator", "@owns_record"} |->
               IF m \in DOMAIN macros THEN macros[m]
               ELSE BinaryOp(Variable("created_by"), "=", Variable("@request.auth.id"))]

\* Every macro is there, and they are nested three deep at most.
RECURSIVE Grounded(_, _)
Grounded(n, depth) ==
  /\ depth <= MaxDepth
  /\ IF n.kind = "macro" /\ n.x # "@has_id" THEN n.x \in DOMAIN Meanings /\ Grounded(Meanings[n.x], depth + 1)
     ELSE \A i \in DOMAIN n.parts : Grounded(n.parts[i], depth)

RECURSIVE HasOperator(_, _)
HasOperator(n, op) == n.x = op \/ \E i \in DOMAIN n.parts : HasOperator(n.parts[i], op)

\* A rule that can be asked about: nothing in it that only computed fields have.
Sensible(n) == Grounded(n, 0) /\ ~HasKind(Meaning(n, Meanings), {"function"})

\* No arithmetic, which the compiler of rules does not know.
Compilable(n) == rule.is = "text" => ~\E op \in Arithmetic : HasOperator(n, op)

Holds(n, columns, asker, data) ==
  /\ NamesOf(n) \subseteq DOMAIN columns \cup ContextVariables
  /\ IsTrue(Eval(n, Bound(asker, columns, data)))

MayTouch(asker, columns, data) ==
  \/ asker.is = "superadmin"
  \/ rule.is = "open"
  \/ /\ rule.is = "text" /\ asker.is = "user"
     /\ Sensible(rule.tree)
     /\ Holds(Meaning(rule.tree, Meanings), columns, asker, data)

WithDouble(id) == [c \in Columns \cup {"double"} |->
                     IF c = "double" THEN Eval(DoubleTree, Row(id)) ELSE Row(id)[c]]

May(asker, id) ==
  /\ asker.is = "superadmin" \/ rows[id].account_id = asker.account
  /\ MayTouch(asker, Row(id), NoData)

Visible(asker, filter) == {id \in DOMAIN rows : May(asker, id) /\ IsTrue(Eval(filter, WithDouble(id)))}

-----------------------------------------------------------------------------
(* Properties.                                                              *)

\* Whatever a rule and a filter look like as texts, with the macros in them and next
\* to each other in one WHERE clause, the records listed or viewed are those of the
\* account for which both hold as they are meant, and the total counts the same
\* records; a record may be created exactly if the rule holds of what was sent (of
\* nothing, when many are sent at once).
AnswersObeyRules ==
  /\ answer.status = 200 /\ answer.op = "list" =>
       answer.ids = Visible(answer.asker, answer.filter) /\ answer.total = Cardinality(answer.ids)
  /\ answer.op = "view" /\ answer.status \in {200, 404} =>
       (answer.status = 200) = (answer.asked \in DOMAIN rows /\ May(answer.asker, answer.asked))
  /\ answer.op \in {"create", "batch"} =>
       LET sent == IF answer.op = "create" THEN answer.data ELSE NoData
       IN answer.allowed = (MayTouch(answer.asker, sent, sent) /\ (Compilable(rule.tree) \/ answer.asker.is = "superadmin"))

\* The groups of an aggregation are made of the records the asker may list and the
\* filter lets through, and are shown if the condition on them, as meant, holds.
GroupsAreRight ==
  answer.op = "aggregate" /\ answer.status = 200 =>
    LET visible == Visible(answer.asker, answer.filter)
        groups  == IF answer.grouped
                   THEN {{id \in visible : rows[id].created_by = u} : u \in 1..2} \ {{}} ELSE {visible}
    IN answer.ids = {g \in groups : IsTrue(Eval(answer.having, Aggregates(g)))}
=============================================================================
