------------------------------- MODULE Query --------------------------------
(***************************************************************************)
(* Analysis of the parse trees into query trees (sqlcore/plan/query.c, the *)
(* lists of sqlcore/node).                                                 *)
(*                                                                         *)
(* A node is a record with a kind k; Nil is the NULL pointer.  The parser  *)
(* is outside the model: statements are given as the trees it builds, in   *)
(* which a unary sign has no right operand and parentheses give Nil.  An   *)
(* analysis function takes the query state qs and returns the node it      *)
(* makes and the new query state.                                          *)
(***************************************************************************)
EXTENDS DataTypes, SequencesExt

CONSTANT Catalog   \* table name -> sequence of the columns, each a name and a type

Nil == [k |-> "nil"]

\* Nodes of the parse tree.
Col(tbl, field)   == [k |-> "col", tbl |-> tbl, field |-> field]
Const(val)        == [k |-> "const", val |-> val]
Expr(op, l, r)    == [k |-> "expr", op |-> op, l |-> l, r |-> r]
BoolExpr(op, l, r) == [k |-> "bool", op |-> op, l |-> l, r |-> r]
ResTarget(name, val, set) == [name |-> name, val |-> val, set |-> set, all |-> FALSE]
AllColumns        == [name |-> "", val |-> Nil, set |-> Nil, all |-> TRUE]
RangeVar(rel, alias) == [rel |-> rel, alias |-> alias]

Select(targets, from, where) == [k |-> "select", targets |-> targets, from |-> from, where |-> where]
Update(rel, targets, from, where) ==
  [k |-> "update", rel |-> rel, targets |-> targets, from |-> from, where |-> where]
Delete(rel, from, where) == [k |-> "delete", rel |-> rel, from |-> from, where |-> where]
Insert(rel, attrs, values) == [k |-> "insert", rel |-> rel, attrs |-> attrs, values |-> values]

Tables == DOMAIN Catalog

\* GetAttrIndex and GetAttrDef: the index of a column of the table, from 1; 0 when it has none.
GetAttrIndex(tbl, field) ==
  LET at == {i \in DOMAIN Catalog[tbl] : Catalog[tbl][i].name = field}
  IN IF at = {} THEN 0 ELSE CHOOSE i \in at : \A j \in at : i <= j

\* GetCellValueByIndex: the cells are counted from 1; no cell has the index 0.
GetCellValueByIndex(list, index) == IF index \in DOMAIN list THEN list[index] ELSE Nil

GetFirstCellNode(list) == GetCellValueByIndex(list, 1)

-----------------------------------------------------------------------------
(* Target lists *)

\* A target column: the name shown, the column, the range table entry it refers to by rindex
\* and, after SET, the analysed expression.
TargetEntry(name, tbl, attr, rindex, set) ==
  [name |-> name, field |-> Catalog[tbl][attr].name, type |-> Catalog[tbl][attr].type,
   attr |-> attr, rindex |-> rindex, set |-> set]

\* QueryRangTblTarget: the first entry of that name.
QueryRangTblTarget(list, name) == SelectInSeq(list, LAMBDA te : te.name = name)

Repeated(list, te) ==
  LET i == QueryRangTblTarget(list, te.name) IN i > 0 /\ list[i].rindex = te.rindex

\* MergetTargetList: entries that are in the first list already are left out.
MergetTargetList(list1, list2) ==
  FoldLeft(LAMBDA list, te : IF Repeated(list, te) THEN list ELSE Append(list, te), list1, list2)

\* MergeList: the lists one after the other, repetitions included.
MergeList(list1, list2) == list1 \o list2

GetTblTargetList(list, rindex) == SelectSeq(list, LAMBDA te : te.rindex = rindex)

TargetRewriteAllColumnsOneRte(list, rte) ==
  list \o [i \in DOMAIN Catalog[rte.tbl] |->
             TargetEntry(Catalog[rte.tbl][i].name, rte.tbl, i, rte.rindex, Nil)]

-----------------------------------------------------------------------------
(* Range tables *)

\* GetRangTblNode: the entry of a table of the dictionary.
GetRangTblNode(tbl, name, rindex) ==
  IF tbl \in Tables
  THEN [k |-> "rte", tbl |-> tbl, name |-> name, rindex |-> rindex, kind |-> "COMMON",
        values |-> <<>>, targets |-> <<>>, needed |-> FALSE, scanned |-> FALSE]
  ELSE Nil

\* The name by which columns refer to the table: the alias if there is one.
RelName(var) == IF var.alias = "" THEN var.rel ELSE var.alias

\* RangTblRewriteFromClause: one unknown table and there is no range table at all; the
\* numbers count on from the rindex of the query state.
RangTblRewriteFromClause(qs, from) ==
  IF \E i \in DOMAIN from : from[i].rel \notin Tables
  THEN [list |-> <<>>, qs |-> qs]
  ELSE [list |-> [i \in DOMAIN from |->
                    GetRangTblNode(from[i].rel, RelName(from[i]), qs.rindex + i - 1)],
        qs   |-> [qs EXCEPT !.rindex = @ + Len(from)]]

\* SearchColumDef: the place in the range table of the one table that has the column; 0 when
\* none has it and when several have it.
SearchColumDef(col, rtable) ==
  LET found == {i \in DOMAIN rtable : /\ col.tbl \in {"", rtable[i].name}
                                      /\ GetAttrIndex(rtable[i].tbl, col.field) > 0}
  IN IF Cardinality(found) = 1 THEN CHOOSE i \in found : TRUE ELSE 0

\* AddRangTblTargetEntry, and the mark of a table used above or below the top level.
AddRangTblTargetEntry(te, rte, level) ==
  [rte EXCEPT !.targets = IF Repeated(@, te) THEN @ ELSE Append(@, te),
              !.scanned = @ \/ level > 1,
              !.needed  = @ \/ level = 1]

\* The target entry of a column of the i-th table of the range table.
ColumnFound(qs, i, te) ==
  [list |-> <<te>>,
   qs   |-> [qs EXCEPT !.rtable[i] = AddRangTblTargetEntry(te, @, qs.level),
                       !.rindex = te.rindex]]

\* TargetNodeProcess: only a column makes a target entry; an unknown or ambiguous column is an
\* error of the statement.  The rindex found stays in the query state.
TargetNodeProcess(name, col, set, qs) ==
  LET i == SearchColumDef(col, qs.rtable)
      r == qs.rtable[i]
  IN CASE col.k # "col" -> [list |-> <<>>, qs |-> qs]
       [] col.k = "col" /\ i = 0 -> [list |-> <<>>, qs |-> [qs EXCEPT !.err = TRUE]]
       [] OTHER -> ColumnFound(qs, i,
                     TargetEntry(IF name = "" THEN col.field ELSE name,
                                 r.tbl, GetAttrIndex(r.tbl, col.field), r.rindex, set))

-----------------------------------------------------------------------------
(* Conditions *)

\* SubExprNodeTargetProcess: an operand that is a column needs it; other operands need nothing.
SubExprNodeTargetProcess(node, qs) ==
  IF node.k = "col" THEN TargetNodeProcess(node.field, node, Nil, qs) ELSE [list |-> <<>>, qs |-> qs]

\* The entry of a simple expression: a column on the right of something that is none changes
\* places with it, while the operator stays; the right column has a table of its own (rrindex)
\* only when that differs from the left one's.
ExprEntry(op, l, r, qual, left, right) ==
  LET hasl == left.list # <<>>
      hasr == right.list # <<>>
      swap == ~hasl /\ hasr
  IN [node |-> [k       |-> "exprentry",
                op      |-> op,
                l       |-> IF swap THEN r ELSE l,
                r       |-> IF swap THEN l ELSE r,
                rindex  |-> IF hasl THEN left.qs.rindex ELSE IF hasr THEN right.qs.rindex ELSE 0,
                rrindex |-> IF hasl /\ hasr /\ left.qs.rindex # right.qs.rindex
                            THEN right.qs.rindex ELSE 0],
      qs   |-> [right.qs EXCEPT !.qual = MergetTargetList(qual, MergetTargetList(left.list, right.list))]]

\* SimpleExprNodeProcess: first the columns of the left operand, then those of the right one.
SimpleExprNodeProcess(op, l, r, qs) ==
  LET left == SubExprNodeTargetProcess(l, qs)
  IN ExprEntry(op, l, r, qs.qual, left, SubExprNodeTargetProcess(r, left.qs))

RECURSIVE QualNodeProcess(_, _)

\* ExprNodeProcess: an operator with an operand missing is dropped; operators inside are
\* analysed first.
ExprNodeProcess(node, qs) ==
  LET left  == QualNodeProcess(node.l, qs)
      right == QualNodeProcess(node.r, left.qs)
  IN IF Nil \in {node.l, node.r}
     THEN [node |-> Nil, qs |-> qs]
     ELSE SimpleExprNodeProcess(node.op, left.node, right.node, right.qs)

\* MergerNodeProcess: the columns of the two sides are collected on their own and appended to
\* what was collected before.
MergerNodeProcess(node, qs) ==
  LET left  == QualNodeProcess(node.l, [qs EXCEPT !.qual = <<>>])
      right == QualNodeProcess(node.r, left.qs)
  IN [node |-> [k |-> "merger", op |-> node.op, l |-> left.node, r |-> right.node],
      qs   |-> [right.qs EXCEPT !.qual = MergeList(qs.qual, @)]]

QualNodeProcess(node, qs) ==
  CASE node.k = "bool" -> MergerNodeProcess(node, qs)
    [] node.k = "expr" -> ExprNodeProcess(node, qs)
    [] OTHER           -> [node |-> node, qs |-> qs]

\* QueryJoinTransform: the condition of the WHERE clause; Nil conditions are left out.
QueryJoinTransform(where, qs) ==
  LET Condition(q) == [list |-> IF q.node = Nil THEN <<>> ELSE <<q.node>>, qs |-> q.qs]
  IN Condition(QualNodeProcess(where, [qs EXCEPT !.qual = <<>>]))

\* One target: te is what TargetNodeProcess made of its column.
CheckTarget(acc, res, te) ==
  LET SetExpr(set) == [acc EXCEPT !.list = Append(@, [te.list[1] EXCEPT !.set = set.node]), !.qs = set.qs]
  IN CASE acc.stop -> acc
       [] ~acc.stop /\ res.all ->
            [acc EXCEPT !.list = FoldLeft(TargetRewriteAllColumnsOneRte, @, acc.qs.rtable),
                        !.qs.rtable = [i \in DOMAIN @ |-> [@[i] EXCEPT !.needed = TRUE]]]
       [] ~acc.stop /\ ~res.all /\ te.list = <<>> ->
            [list |-> IF res.val = Nil THEN <<>> ELSE acc.list, qs |-> te.qs, stop |-> TRUE]
       [] OTHER -> SetExpr(QualNodeProcess(res.set, te.qs))

\* ProcessCheckTargetList: the list ends at the first target that is not a known column; a
\* target without an expression leaves none.
ProcessCheckTargetList(targets, qs) ==
  FoldLeft(LAMBDA acc, res : CheckTarget(acc, res, TargetNodeProcess(res.name, res.val, Nil, acc.qs)),
           [list |-> <<>>, qs |-> qs, stop |-> FALSE], targets)

-----------------------------------------------------------------------------
(* Scans *)

ScanEntry(rte) == [k |-> "scanentry", rindex |-> rte.rindex, targets |-> rte.targets]

\* AddJoinTblNode: a tree that is deep on the left, one table more at each level.
AddJoinTblNode(left, rte) ==
  IF left = Nil THEN ScanEntry(rte) ELSE [k |-> "joinentry", l |-> left, r |-> ScanEntry(rte)]

\* CommonQueryTransform: a table of the condition reads the columns of the condition, one that
\* only the result needs reads those of the result, any other all columns.  Without a result
\* there is nothing to scan.
CommonQueryTransform(qs) ==
  LET rtable == [i \in DOMAIN qs.rtable |->
                   LET rte == qs.rtable[i]
                   IN [rte EXCEPT !.targets =
                         CASE rte.scanned -> GetTblTargetList(qs.qual, rte.rindex)
                           [] ~rte.scanned /\ rte.needed -> GetTblTargetList(qs.parent, rte.rindex)
                           [] OTHER -> TargetRewriteAllColumnsOneRte(rte.targets, rte)]]
  IN IF qs.parent = <<>>
     THEN [rtable |-> qs.rtable, rtjoin |-> Nil]
     ELSE [rtable |-> rtable, rtjoin |-> FoldLeft(AddJoinTblNode, Nil, rtable)]

-----------------------------------------------------------------------------
(* Statements: a query tree, or Nil for an error *)

InitQueryState == [rtable |-> <<>>, rindex |-> 1, level |-> 1, parent |-> <<>>, qual |-> <<>>, err |-> FALSE]

\* The query tree of a SELECT, UPDATE or DELETE.
QueryTree(cmd, targets, q, scan) ==
  IF q.qs.err THEN Nil
  ELSE [k |-> "query", cmd |-> cmd, rtable |-> scan.rtable, targets |-> targets,
        joinTree |-> q.list, rtjoin |-> scan.rtjoin, stmt |-> Nil]

TransformWhere(cmd, q) == QueryTree(cmd, q.qs.parent, q, CommonQueryTransform(q.qs))

\* What follows the result columns t: more tables join the range table, then the condition.
TransformRest(cmd, where, more, t) ==
  TransformWhere(cmd, QueryJoinTransform(where,
    [t.qs EXCEPT !.level = 2, !.parent = t.list, !.rtable = MergeList(@, more)]))

transformSelectStmt(stmt) ==
  LET from == RangTblRewriteFromClause(InitQueryState, stmt.from)
  IN IF from.list = <<>> THEN Nil
     ELSE TransformRest("SELECT", stmt.where, <<>>,
            ProcessCheckTargetList(stmt.targets, [from.qs EXCEPT !.rtable = from.list]))

\* The changed table is the first of the range table, numbered after the tables of FROM; an
\* unknown table in FROM leaves it alone there.
ChangedTable(stmt) ==
  LET from == RangTblRewriteFromClause(InitQueryState, stmt.from)
      rte  == GetRangTblNode(stmt.rel.rel, RelName(stmt.rel), from.qs.rindex)
  IN [rte |-> rte, from |-> from.list, qs |-> [from.qs EXCEPT !.rindex = @ + 1]]

transformUpdateStmt(stmt) ==
  LET c == ChangedTable(stmt)
  IN IF c.rte = Nil THEN Nil
     ELSE TransformRest("UPDATE", stmt.where, <<>>,
            ProcessCheckTargetList(stmt.targets, [c.qs EXCEPT !.rtable = MergeList(<<c.rte>>, c.from)]))

transformDeleteStmt(stmt) ==
  LET c == ChangedTable(stmt)
  IN IF c.rte = Nil THEN Nil
     ELSE TransformRest("DELETE", stmt.where, c.from,
            ProcessCheckTargetList(<<AllColumns>>, [c.qs EXCEPT !.rtable = <<c.rte>>]))

\* ProcessAttrList: the named columns up to the first unknown one; all columns without names.
ProcessAttrList(tbl, attrs) ==
  LET unknown == SelectInSeq(attrs, LAMBDA a : GetAttrIndex(tbl, a) = 0)
      known   == IF unknown = 0 THEN attrs ELSE SubSeq(attrs, 1, unknown - 1)
  IN IF attrs = <<>>
     THEN [i \in DOMAIN Catalog[tbl] |-> Catalog[tbl][i].name]
     ELSE known

transformInsertStmt(stmt) ==
  LET rte   == GetRangTblNode(stmt.rel, stmt.rel, 1)
      attrs == ProcessAttrList(stmt.rel, stmt.attrs)
      values == [rte EXCEPT !.rindex = 3, !.kind = "VALUES", !.values = stmt.values, !.targets = attrs]
  IN IF rte = Nil THEN Nil
     ELSE [k |-> "query", cmd |-> "INSERT", rtable |-> <<[rte EXCEPT !.targets = attrs], values>>,
           targets |-> attrs, joinTree |-> <<>>, rtjoin |-> Nil, stmt |-> Nil]

transformUtilityStmt(stmt) ==
  [k |-> "query", cmd |-> "UTILITY", rtable |-> <<>>, targets |-> <<>>,
   joinTree |-> <<>>, rtjoin |-> Nil, stmt |-> stmt]

transformStmt(stmt) ==
  CASE stmt.k = "select" -> transformSelectStmt(stmt)
    [] stmt.k = "insert" -> transformInsertStmt(stmt)
    [] stmt.k = "update" -> transformUpdateStmt(stmt)
    [] stmt.k = "delete" -> transformDeleteStmt(stmt)
    [] OTHER             -> transformUtilityStmt(stmt)

\* Mutant: a statement in error is left out and the others are executed.
QueryAnalyzeAndRewriteRest(stmts) ==
  SelectSeq([i \in DOMAIN stmts |-> transformStmt(stmts[i])], LAMBDA q : q # Nil)

\* QueryAnalyzeAndRewrite: one statement in error and there is no query at all.
QueryAnalyzeAndRewrite(stmts) ==
  LET AllOrNone(queries) == IF \E i \in DOMAIN queries : queries[i] = Nil THEN <<>> ELSE queries
  IN AllOrNone([i \in DOMAIN stmts |-> transformStmt(stmts[i])])
=============================================================================
