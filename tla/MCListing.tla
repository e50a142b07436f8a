------------------------------ MODULE MCListing ------------------------------
(***************************************************************************)
(* Listing with one collection of four records in two accounts, rules and  *)
(* filters of up to three conditions, and walks over three records.        *)
(***************************************************************************)
EXTENDS Listing

ScenesDef == {"rules", "filters", "groups", "pages"}
IdsDef    == 1..4

Rec(v, by, account, parent) == [v |-> v, created_by |-> by, account_id |-> account, parent |-> parent]
Mixed == [id \in 1..4 |-> CASE id = 1 -> Rec(0, 1, 1, 2)    [] id = 2 -> Rec(1, 2, 1, 3)
                            [] id = 3 -> Rec(Null, 1, 1, 4) [] id = 4 -> Rec(2, 1, 2, Null)]
Plain(vs) == [id \in 1..Len(vs) |-> Rec(vs[id], 1, 1, Null)]

User(i, groups) == [is |-> "user", id |-> i, account |-> 1, groups |-> groups]
AskersDef == {User(1, {}), User(2, {"pii_access"}), [is |-> "superadmin", id |-> 3, account |-> 0, groups |-> {}],
              [is |-> "anonymous", id |-> Null, account |-> 1, groups |-> {}]}
WalkersDef == {User(1, {})}
FieldListsDef == [l \in {"some"} |-> {"v"}]

And(x, y) == BinaryOp(x, "&&", y)
Or(x, y)  == BinaryOp(x, "||", y)
V(op, t)  == BinaryOp(Variable("v"), op, Literal(t))
Mine      == BinaryOp(Variable("created_by"), "=", Variable("@request.auth.id"))
Atoms     == {V("=", "1"), Mine, IsNullOp(Variable("v")), InOp(Variable("v"), <<Literal("0"), Literal("2")>>)}
Pairs     == {And(V("=", "1"), Mine), Or(V("=", "1"), Mine), Or(Mine, IsNullOp(Variable("v")))}
Ms        == {Macro("@mine", <<>>), Macro("@both", <<>>), Macro("@is_creator", <<>>)}

Rules_ ==
  Atoms \cup Pairs \cup Ms
    \cup {NotOp(x) : x \in Pairs \cup Ms}
    \cup {And(x, V("!=", "2")) : x \in Pairs \cup Ms} \cup {And(V("!=", "2"), x) : x \in Pairs \cup Ms}
    \cup {Or(x, V(">", "1")) : x \in Pairs \cup Ms}
    \cup {Macro("@has_id", <<Literal("1")>>), BinaryOp(Variable("@request.data.v"), "=", Literal("1")),
          BinaryOp(BinaryOp(Variable("v"), "+", Literal("1")), "=", Literal("2")),
          BinaryOp(Variable("name"), "=", Literal("1"))}

D(op, t) == BinaryOp(Variable("double"), op, Literal(t))
Filters ==
  {NoFilter, V("<=", "1"), IsNotNullOp(Variable("v")), D("=", "2"), Or(D(">", "0"), IsNullOp(Variable("v"))),
   And(Or(V("=", "0"), V("=", "1")), NotOp(D("=", "2"))), Or(And(V("=", "0"), V("<", "2")), V("=", "1")),
   NotOp(Or(V("=", "0"), V("=", "1"))), InOp(Variable("v"), <<Variable("v")>>), BinaryOp(Variable("id"), "=", Literal("1")),
   BinaryOp(Variable("created_by"), "=", Variable("@request.auth.id"))}

H(x, op, t) == BinaryOp(Variable(x), op, Literal(t))
HavingTreesDef ==
  {H("count", ">", "0"), And(H("count", ">", "1"), Or(H("sum_v", "=", "0"), H("max_v", ">", "0"))),
   Or(And(H("count", "=", "1"), H("sum_v", "=", "1")), H("max_v", "<", "1")),
   And(Or(H("count", "=", "1"), H("sum_v", "=", "0")), H("max_v", "!=", "0"))}

MacroTreesDef ==
  {[m \in UserMacros |-> IF m = "@mine" THEN Or(Mine, V("=", "1")) ELSE And(Macro("@mine", <<>>), V("!=", "0"))],
   [m \in UserMacros |-> IF m = "@mine" THEN Macro("@both", <<>>) ELSE Macro("@mine", <<>>)]}

Data(v) == [f \in {"v"} |-> v]
PayloadsDef == {Data(1), Data(Null), Data(Wrong), [f \in {"other"} |-> 1], [f \in {"v", "created_by"} |-> 1],
                [f \in {"parent", "v"} |-> IF f = "v" THEN 0 ELSE 4], [f \in {"parent"} |-> 2]}

DoubleTreeDef == BinaryOp(Variable("v"), "+", Variable("v"))
Few == {Or(V("=", "1"), Mine), Macro("@mine", <<>>), And(V("!=", "2"), Macro("@mine", <<>>))}
InitialRulesDef == [s \in ScenesDef |-> IF s = "rules" THEN Rules_ ELSE Few]
NewRulesDef == Few \cup {Mine, IsNullOp(Variable("v")), BinaryOp(Variable("@request.data.v"), "=", Literal("1"))}
FilterTreesDef == [s \in ScenesDef |-> CASE s = "rules" -> {NoFilter} [] s = "filters" -> Filters
                                         [] OTHER -> {NoFilter, V("<=", "1"), Or(D(">", "0"), IsNullOp(Variable("v")))}]

\* Walks list the records that have no parent.
RecordDataDef == {Rec(v, 1, 1, Null) : v \in {1, 2, Null}} \cup {Rec(1, 1, 1, 1)}
AdmitsDef(asker, record) == record.account_id = asker.account /\ record.parent = Null

InitialRowsDef ==
  [s \in ScenesDef |-> IF s # "pages" THEN {Mixed}
                       ELSE {Plain(<<1, 1, 2>>), Plain(<<1, 2, Null>>), Plain(<<Null, 1, Null>>)}]
=============================================================================
