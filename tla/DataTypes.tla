----------------------------- MODULE DataTypes ------------------------------
(***************************************************************************)
(* Values, their storage form and the operators of the data types          *)
(* (sqlcore/dictionary, storage/tuple/tuples.c).                           *)
(*                                                                         *)
(* A value is a type and a key.  Keys are pairs compared first by the      *)
(* first and then by the second part, which is how every type of the code  *)
(* compares: a string is <<its length, its rank among the strings of that  *)
(* length>>, a character <<1, code>>, a number <<0, number>>.              *)
(***************************************************************************)
EXTENDS Integers, Sequences, TLC

IntVal(n)         == [type |-> "INT", key |-> <<0, n>>]
BoolVal(n)        == [type |-> "BOOL", key |-> <<0, n>>]
StrVal(len, rank) == [type |-> "STRING", key |-> <<len, rank>>]

\* A NULL pointer to a value, and a value structure filled with zeros.
NoValue == [type |-> "NULL", key |-> <<0, 0>>]
Zeroed  == [type |-> "UNKNOWN", key |-> <<0, 0>>]

Comparisons == {"LESS", "LESS_EQUAL", "EQUAL", "GREATER_EQUAL", "GREATER", "NOT_EQUAL"}
Arithmetic  == {"PLUS", "MINUS", "MULTIPLE"}

Before(k, l) == k[1] < l[1] \/ (k[1] = l[1] /\ k[2] < l[2])

\* What a comparison means.
Holds(op, k, l) ==
  CASE op = "LESS"          -> Before(k, l)
    [] op = "LESS_EQUAL"    -> ~Before(l, k)
    [] op = "EQUAL"         -> k = l
    [] op = "GREATER_EQUAL" -> ~Before(k, l)
    [] op = "GREATER"       -> Before(l, k)
    [] op = "NOT_EQUAL"     -> k # l

Number(op, m, n) ==
  CASE op = "PLUS"     -> m + n
    [] op = "MINUS"    -> m - n
    [] op = "MULTIPLE" -> m * n

-----------------------------------------------------------------------------
(* The operator each type has in the slot of an operator; the slot of <    *)
(* holds the function of <= in every table.                                *)

StringProcs == [LESS |-> "LESS_EQUAL", LESS_EQUAL |-> "LESS_EQUAL", EQUAL |-> "EQUAL",
                GREATER_EQUAL |-> "GREATER_EQUAL", GREATER |-> "GREATER"]
CharProcs   == StringProcs
FloatProcs  == StringProcs
BoolProcs   == [EQUAL |-> "EQUAL", NOT_EQUAL |-> "NOT_EQUAL"]
IntProcs    == StringProcs @@ BoolProcs @@ [op \in Arithmetic |-> op]

dataProcsEntry ==
  [INT |-> IntProcs, STRING |-> StringProcs, CHAR |-> CharProcs, FLOAT |-> FloatProcs, BOOL |-> BoolProcs]

opf(type, op) ==
  IF type \in DOMAIN dataProcsEntry /\ op \in DOMAIN dataProcsEntry[type]
  THEN dataProcsEntry[type][op] ELSE "NONE"

\* ComputeExpr: the type of the left operand chooses the operator; without one there is no
\* result and the register keeps what it holds.
ComputeExpr(left, right, op) ==
  LET f == opf(left.type, op)
  IN CASE f \in Comparisons -> IntVal(IF Holds(f, left.key, right.key) THEN 1 ELSE 0)
       [] f \in Arithmetic  -> IntVal(Number(f, left.key[2], right.key[2]))
       [] OTHER             -> NoValue

\* getDataBool: no result counts as true.
getDataBool(val) ==
  CASE val.type = "NULL"            -> TRUE
    [] val.type \in {"INT", "BOOL"} -> val.key[2] # 0
    [] val.type = "STRING"          -> val.key[1] > 0
    [] val.type = "CHAR"            -> val.key[2] # 0
    [] OTHER                        -> FALSE

-----------------------------------------------------------------------------
(* Conversions between constants, stored columns and values. *)

\* TransformConstValueRowData: a constant stored in a column of an INSERT takes the type of
\* the column; a boolean becomes T or F and a character is the first one of the string.
TransformConstValueRowData(val, type) ==
  CASE type = "BOOL" -> [type |-> type, key |-> <<0, IF val.key[2] # 0 THEN 1 ELSE 0>>]
    [] type = "CHAR" -> [type |-> type, key |-> IF val.key[1] > 0 THEN <<1, val.key[2]>> ELSE <<0, 0>>]
    [] OTHER         -> [type |-> type, key |-> val.key]

\* transFormExpr2RowColumnData: the value of a SET expression is stored by the type of the
\* expression.
transFormExpr2RowColumnData(val) ==
  IF val.type = "BOOL" THEN [val EXCEPT !.key = <<0, IF @[2] = 1 THEN 1 ELSE 0>>] ELSE val

\* TransformConstExprValue: the value of a constant after SET; a boolean is typed a float.
TransformConstExprValue(val) ==
  CASE val.type \in {"INT", "STRING", "CHAR", "FLOAT"} -> val
    [] val.type = "BOOL" -> [type |-> "FLOAT", key |-> <<0, IF val.key[2] # 0 THEN 1 ELSE 0>>]
    [] OTHER             -> NoValue

\* TranslateRawColumnData: the stored column is read by the type in the column reference.
TranslateRawColumnData(col, type) == [type |-> type, key |-> col.key]
=============================================================================
