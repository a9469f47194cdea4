----------------------------- MODULE MCSession ------------------------------
(***************************************************************************)
(* Two tables that share a column name, and commands with every kind of    *)
(* statement, condition and error the analysis tells apart, and with       *)
(* unknown names that it does not look up.  The column c may be null.      *)
(***************************************************************************)
EXTENDS Session

MCCatalog ==
  [t |-> <<[name |-> "a", type |-> "INT"], [name |-> "s", type |-> "STRING"]>>,
   u |-> <<[name |-> "c", type |-> "INT"], [name |-> "a", type |-> "INT"]>>]

LOCAL Stored(x, y) == [vals |-> <<x, y>>, dead |-> {}]

S1 == StrVal(1, 1)
S2 == StrVal(2, 1)

MCInitialDb ==
  [t |-> <<Stored(IntVal(1), S1), Stored(IntVal(2), S2)>>,
   u |-> <<Stored(IntVal(7), IntVal(2))>>]

LOCAL T == RangeVar("t", "")
LOCAL U == RangeVar("u", "")
LOCAL Unknown == RangeVar("nosuch", "")
LOCAL Num(n) == Const(IntVal(n))
LOCAL A == Col("", "a")
LOCAL S == Col("", "s")
LOCAL C == Col("", "c")
LOCAL TA == Col("t", "a")
LOCAL UA == Col("u", "a")
LOCAL Want(col) == ResTarget("", col, Nil)
LOCAL Assign(col, e) == ResTarget("", col, e)
LOCAL Is(op, n) == Expr(op, A, Num(n))
LOCAL Join == Expr("EQUAL", TA, UA)

Selects ==
  { Select(<<AllColumns>>, <<T>>, Nil),
    Select(<<Want(S), ResTarget("b", A, Nil)>>, <<T>>, Is("GREATER_EQUAL", 2)),
    Select(<<Want(S), Want(C)>>, <<T, U>>, BoolExpr("AND", Join, Expr("NOT_EQUAL", TA, Num(1)))),
    Select(<<AllColumns>>, <<T, U>>, BoolExpr("OR", Join, Expr("GREATER", S, Const(S1)))),
    Select(<<Want(Col("x", "a")), Want(Col("y", "s"))>>, <<RangeVar("t", "x"), RangeVar("t", "y")>>,
           Expr("GREATER", Col("x", "a"), Col("y", "a"))),
    Select(<<Want(A)>>, <<T>>, BoolExpr("NOT", Expr("EQUAL", Expr("PLUS", A, Num(1)), Num(2)), Nil)),
    Select(<<Want(A)>>, <<T>>, Is("LESS", 2)),
    Select(<<Want(A)>>, <<T>>, Expr("GREATER", Num(2), A)),
    Select(<<Want(A)>>, <<U>>, Expr("EQUAL", A, C)),
    Select(<<Want(A)>>, <<T>>, Expr("EQUAL", A, Expr("MINUS", Num(1), Nil))),
    Select(<<Want(A), Want(A), Want(S)>>, <<T>>, Nil),
    Select(<<Want(Nil)>>, <<T>>, Nil),
    Select(<<Want(A)>>, <<T, U>>, Nil),
    Select(<<Want(A)>>, <<Unknown>>, Nil) }

Changing ==
  { Insert("t", <<>>, << <<IntVal(2), S1>>, <<IntVal(3), S2>> >>),
    Insert("u", <<"a">>, << <<IntVal(1)>> >>),
    Insert("u", <<"a", "nosuch">>, << <<IntVal(1), IntVal(5)>> >>),
    Insert("u", <<>>, << <<IntVal(3)>> >>),
    Insert("nosuch", <<>>, << <<IntVal(3)>> >>),
    Update(T, <<Assign(A, Expr("PLUS", A, Num(1))), Assign(S, Const(S1))>>, <<>>, Nil),
    Update(T, <<Assign(A, Num(5))>>, <<>>, Is("EQUAL", 2)),
    Update(T, <<Assign(S, Expr("PLUS", S, Num(1)))>>, <<>>, Nil),
    Update(T, <<Assign(A, Num(5))>>, <<U>>, Nil),
    Update(T, <<Assign(C, Num(5))>>, <<>>, Nil),
    Delete(T, <<>>, BoolExpr("OR", Is("EQUAL", 1), Is("GREATER", 2))),
    Update(T, <<Assign(A, Num(6))>>, <<Unknown>>, Is("EQUAL", 1)),
    Update(T, <<Assign(S, Expr("MINUS", Col("", "nosuch"), Nil))>>, <<>>, Nil),
    Delete(T, <<>>, Expr("EQUAL", S, Const(S1))),
    Delete(T, <<Unknown, U>>, Is("EQUAL", 2)),
    Delete(U, <<>>, Nil),
    Delete(U, <<>>, Expr("EQUAL", S, Const(S1))) }

Utility == [k |-> "utility", text |-> "created"]

\* One statement, several of them, and a text that does not parse.
MCCommands ==
  {<<s>> : s \in Selects \cup Changing \cup {Utility}} \cup
  { <<>>, Quit,
    <<Update(T, <<Assign(A, Num(5))>>, <<>>, Is("EQUAL", 2)), Delete(U, <<>>, Expr("EQUAL", S, Const(S1)))>>,
    <<Update(T, <<Assign(A, Col("", "nosuch"))>>, <<>>, Is("EQUAL", 9)), Delete(U, <<>>, Nil)>>,
    <<Delete(U, <<>>, Nil), Select(<<AllColumns>>, <<T, U>>, Nil)>>,
    <<Utility, Select(<<Want(A), Want(S)>>, <<T>>, Nil), Select(<<Want(C), Want(A)>>, <<U>>, Nil)>> }
=============================================================================
