------------------------------ MODULE Executor ------------------------------
(***************************************************************************)
(* The pull executor (sqlcore/executor): every plan node has a state and a *)
(* function that gives its next row.                                       *)
(*                                                                         *)
(* A stored row has a value for each column and the set of the columns     *)
(* that are deleted (dead); its place in the table never changes.  A       *)
(* scanned row is the sequence of the places it was joined from, so        *)
(* columns are looked up when they are used, as the code does.  In every   *)
(* function db maps a table to its sequence of stored rows.                *)
(***************************************************************************)
EXTENDS Plan

Row(places) == [k |-> "row", places |-> places]

-----------------------------------------------------------------------------
(* InitExecNode: the states of the nodes *)

\* InitScanPositionInfo: no scan without columns, nor with more than the table has.
NoScanPosition(plan) ==
  LET own == GetTblTargetList(plan.targets, plan.rte.rindex)
  IN plan.targets = <<>> \/ Len(own) > Len(Catalog[plan.rte.tbl])

InitExecNodeSeqScan(plan)     == [pos |-> 0, broken |-> NoScanPosition(plan)]
InitExecNodeValueScan         == [rows |-> <<>>, started |-> FALSE]
InitExecNodeNestLoop(l, r)    == [left |-> l, right |-> r, outer |-> Nil, outerNeed |-> TRUE, outerEnd |-> FALSE]
InitExecSelect(sub)           == [sub |-> sub, reg |-> Zeroed]
InitExecNodeProjectTbl(sub)   == [sub |-> sub, last |-> <<>>]
InitExecNodeQuerybl(sub)      == [sub |-> sub]
InitExecNodeModifyTbl(left)   == [left |-> left, reg |-> Zeroed, opRet |-> -1, suc |-> 0]

RECURSIVE InitExecNode(_)

InitExecNode(plan) ==
  CASE plan.k = "seqscan"   -> InitExecNodeSeqScan(plan)
    [] plan.k = "valuescan" -> InitExecNodeValueScan
    [] plan.k = "nestloop"  -> InitExecNodeNestLoop(InitExecNode(plan.left), InitExecNode(plan.right))
    [] plan.k = "select"    -> InitExecSelect(InitExecNode(plan.sub))
    [] plan.k = "project"   -> InitExecNodeProjectTbl(InitExecNode(plan.sub))
    [] plan.k = "querytbl"  -> InitExecNodeQuerybl(InitExecNode(plan.sub))
    [] plan.k = "modifytbl" -> InitExecNodeModifyTbl(InitExecNode(plan.left))
    [] OTHER                -> Nil

-----------------------------------------------------------------------------
(* Columns of a scanned row *)

\* GetTblRowDataPosition: the place of the table that a range table entry stands for.
GetTblRowDataPosition(row, rte) ==
  IF rte = Nil THEN 0
  ELSE SelectInSeq(row.places, LAMBDA p : p.tbl = rte.tbl /\ p.rindex = rte.rindex)

\* GetColRowDataEx: a column is read wherever the row lies, scanned or not.
GetColRowDataEx(place, attr, db) == db[place.tbl][place.pos].vals[attr]

-----------------------------------------------------------------------------
(* Expressions.  The result of every step is put in the register           *)
(* resultExpreData, and the operands are taken from it: an operand that    *)
(* cannot be read leaves there what was there before.                      *)

RECURSIVE ProcessQualExprNode(_, _, _, _)

\* GetExprDataColumnValue.
GetExprDataColumnValue(col, rindex, ctx, reg) ==
  LET rte == GetCellValueByIndex(ctx.rtable, rindex)
      p   == GetTblRowDataPosition(ctx.row, rte)
      att == GetAttrIndex(rte.tbl, col.field)
      val == TranslateRawColumnData(GetColRowDataEx(ctx.row.places[p], att, ctx.db),
                                    Catalog[rte.tbl][att].type)
  IN IF p = 0 THEN [val |-> NoValue, reg |-> reg] ELSE [val |-> val, reg |-> val]

\* An operand: what the register holds after it was computed; zeros for one that is missing.
Operand(node, computed) == IF node = Nil THEN Zeroed ELSE computed.reg

\* ComputeExpreNode: the left operand, the right one, then the operator.
ComputeExpreNode(node, ctx, reg) ==
  LET Result(right, res) == [val |-> res, reg |-> IF res = NoValue THEN right.reg ELSE res]
      Apply(left, right) == Result(right, ComputeExpr(Operand(node.l, left), Operand(node.r, right), node.op))
      Right(left) == Apply(left, ProcessQualExprNode(node.r, node.rrindex, ctx, left.reg))
  IN Right(ProcessQualExprNode(node.l, node.rindex, ctx, reg))

\* ComputeBoolExprNode: both sides are always computed; NOT has a left side only.
ComputeBoolExprNode(node, ctx, reg) ==
  LET Holding(lval, rval) ==
        CASE node.op = "AND" -> getDataBool(lval) /\ getDataBool(rval)
          [] node.op = "OR"  -> getDataBool(lval) \/ getDataBool(rval)
          [] node.op = "NOT" -> ~getDataBool(lval)
      Result(res) == [val |-> res, reg |-> res]
      Apply(left, right) ==
        Result(IntVal(IF Holding(Operand(node.l, left), Operand(node.r, right)) THEN 1 ELSE 0))
      Right(left) == Apply(left, ProcessQualExprNode(node.r, 0, ctx, left.reg))
  IN Right(ProcessQualExprNode(node.l, 0, ctx, reg))

ProcessQualExprNode(node, rindex, ctx, reg) ==
  CASE node.k = "merger"    -> ComputeBoolExprNode(node, ctx, reg)
    [] node.k = "exprentry" -> ComputeExpreNode(node, ctx, reg)
    [] node.k = "col"       -> GetExprDataColumnValue(node, rindex, ctx, reg)
    [] node.k = "const"     -> [val |-> node.val, reg |-> node.val]
    [] OTHER                -> [val |-> NoValue, reg |-> reg]

-----------------------------------------------------------------------------
(* ExecNodeProc: the next row of a node, Nil at the end, and the new state *)

\* SeqScanNextColumnOpt: the place of the next row of which no column that the scan reads is
\* deleted; 0 after the last one.
SeqScanNextColumnOpt(plan, pos, db) ==
  LET rows == db[plan.rte.tbl]
      read == {te.attr : te \in Range(GetTblTargetList(plan.targets, plan.rte.rindex))}
      next == {i \in DOMAIN rows : i > pos /\ rows[i].dead \cap read = {}}
  IN IF next = {} THEN 0 ELSE CHOOSE i \in next : \A j \in next : i <= j

\* SeqscanNext: the scanned row knows its table and place.
SeqscanNext(plan, st, db) ==
  LET pos == SeqScanNextColumnOpt(plan, st.pos, db)
  IN IF st.broken \/ pos = 0
     THEN [row |-> Nil, st |-> st]
     ELSE [row |-> Row(<<[tbl |-> plan.rte.tbl, rindex |-> plan.rte.rindex, pos |-> pos]>>),
           st  |-> [st EXCEPT !.pos = pos]]

\* Mutant: a scan goes on where it was.
ExecNodeReScanNot(plan, st) == st

\* ExecNodeReScan: a scan starts again; a nested loop has no rescan.
ExecNodeReScan(plan, st) == IF plan.k = "seqscan" THEN [st EXCEPT !.pos = 0] ELSE st

ExecMergeRowData(left, right) == Row(left.places \o right.places)

\* Mutant: only the columns that have a value.
ValuesFormRowDataNamed(tbl, attrs, values) ==
  IF Len(attrs) > Len(values) THEN Nil
  ELSE [k |-> "prow", vals |-> [i \in DOMAIN attrs |-> TransformConstValueRowData(values[i], Catalog[tbl][i].type)]]

\* GetColumnRefIndexByName: where the list of names has the column.
GetColumnRefIndexByName(attrs, name) == SelectInSeq(attrs, LAMBDA a : a = name)

\* GetDataByIndex and ValuesFormRowData: a column that is not named
\* is null; a named one without a value drops the row.
ValuesFormRowData(tbl, attrs, values) ==
  LET index(i) == GetColumnRefIndexByName(attrs, Catalog[tbl][i].name)
      vals     == [i \in DOMAIN Catalog[tbl] |->
                     IF index(i) = 0 THEN NoValue
                     ELSE TransformConstValueRowData(values[index(i)], Catalog[tbl][i].type)]
  IN IF \E i \in DOMAIN Catalog[tbl] : index(i) > Len(values) THEN Nil ELSE [k |-> "prow", vals |-> vals]

\* Mutant: only the first list of values.
TransformValuesFirst(rte) ==
  SelectSeq(<<ValuesFormRowData(rte.tbl, rte.targets, rte.values[1])>>, LAMBDA r : r # Nil)

\* TransformValues: the rows up to the first one that is dropped.
TransformValues(rte) ==
  LET rows == [i \in DOMAIN rte.values |-> ValuesFormRowData(rte.tbl, rte.targets, rte.values[i])]
      bad  == SelectInSeq(rows, LAMBDA r : r = Nil)
  IN IF bad = 0 THEN rows ELSE SubSeq(rows, 1, bad - 1)

ValueScanNext(plan, st) ==
  LET rows == IF st.started THEN st.rows ELSE TransformValues(plan.rte)
  IN IF rows = <<>>
     THEN [row |-> Nil, st |-> st]
     ELSE [row |-> Head(rows), st |-> [rows |-> Tail(rows), started |-> TRUE]]

\* FetchTargetColumns: a column that is not found leaves the row sent before in place.
FetchTargetColumns(row, plan, last, db) ==
  LET place(te) == GetTblRowDataPosition(row, GetCellValueByIndex(plan.rtable, te.rindex))
  IN IF \E i \in DOMAIN plan.targets : place(plan.targets[i]) = 0
     THEN last
     ELSE [i \in DOMAIN plan.targets |->
             GetColRowDataEx(row.places[place(plan.targets[i])], plan.targets[i].attr, db)]

RECURSIVE ExecNodeProc(_, _, _)
RECURSIVE ExecNestLoopScan(_, _, _)
RECURSIVE ExecSelect(_, _, _)

\* ExecNestLoopScan: the outer row stays until the inner scan ends; the inner scan starts again
\* for each outer row.
NextOuter(plan, st, db, l) ==
  IF l.row = Nil
  THEN [row |-> Nil, st |-> [st EXCEPT !.left = l.st, !.outerEnd = TRUE, !.outerNeed = FALSE]]
  ELSE ExecNestLoopScan(plan, [st EXCEPT !.left = l.st, !.outer = l.row, !.outerNeed = FALSE,
                                         !.right = ExecNodeReScan(plan.right, @)], db)

NextInner(plan, st, db, r) ==
  IF r.row = Nil
  THEN ExecNestLoopScan(plan, [st EXCEPT !.right = r.st, !.outerNeed = TRUE], db)
  ELSE [row |-> ExecMergeRowData(st.outer, r.row), st |-> [st EXCEPT !.right = r.st]]

ExecNestLoopScan(plan, st, db) ==
  CASE st.outerEnd -> [row |-> Nil, st |-> st]
    [] ~st.outerEnd /\ st.outerNeed -> NextOuter(plan, st, db, ExecNodeProc(plan.left, st.left, db))
    [] OTHER -> NextInner(plan, st, db, ExecNodeProc(plan.right, st.right, db))

\* ExecSelect: the next row for which the condition gives no result or one that is not zero.
ExecSelect(plan, st, db) ==
  LET Decide(r, cond) ==
        IF getDataBool(cond.val) THEN [row |-> r.row, st |-> [sub |-> r.st, reg |-> cond.reg]]
        ELSE ExecSelect(plan, [sub |-> r.st, reg |-> cond.reg], db)
      Test(r) ==
        IF r.row = Nil THEN [row |-> Nil, st |-> [st EXCEPT !.sub = r.st]]
        ELSE Decide(r, ProcessQualExprNode(plan.qual[1], 0,
                         [row |-> r.row, rtable |-> plan.rtable, db |-> db], st.reg))
  IN Test(ExecNodeProc(plan.sub, st.sub, db))

\* ExecTableProject: the scanned row goes along for the statements that change it.
ExecTableProject(plan, st, db) ==
  LET Answer(r, vals) == [row |-> [k |-> "prow", vals |-> vals, scan |-> r.row],
                          st  |-> [sub |-> r.st, last |-> vals]]
      Fetch(r) == IF r.row = Nil THEN [row |-> Nil, st |-> [st EXCEPT !.sub = r.st]]
                  ELSE Answer(r, FetchTargetColumns(r.row, plan, st.last, db))
  IN Fetch(ExecNodeProc(plan.sub, st.sub, db))

ExecNodeProc(plan, st, db) ==
  CASE plan.k = "seqscan"   -> SeqscanNext(plan, st, db)
    [] plan.k = "valuescan" -> ValueScanNext(plan, st)
    [] plan.k = "nestloop"  -> ExecNestLoopScan(plan, st, db)
    [] plan.k = "select"    -> ExecSelect(plan, st, db)
    [] plan.k = "project"   -> ExecTableProject(plan, st, db)
    [] OTHER                -> [row |-> Nil, st |-> st]

-----------------------------------------------------------------------------
(* ExecUpdateSelect: the change of one row *)

\* FormOriginRowsPos: where the row to be changed lies.
FormOriginRowsPos(row) == row.scan.places[1]

\* ProcessSetValueExpr.
ProcessSetValueExpr(set, ctx, reg) ==
  IF set.k = "const"
  THEN [val |-> TransformConstExprValue(set.val), reg |-> reg]
  ELSE ProcessQualExprNode(set, 0, ctx, reg)

\* FormNewRowsPos: the new values of the columns of the SET list, all computed from the row as
\* it was; no change at all when one has no value.
FormNewRowsPos(plan, row, reg, db) ==
  FoldLeft(LAMBDA acc, te :
             LET ctx == [row |-> row, rtable |-> plan.rtable, db |-> db]
                 new == ProcessSetValueExpr(te.set, ctx, acc.reg)
             IN [ok  |-> acc.ok /\ te.set # Nil /\ new.val # NoValue,
                 set |-> Append(acc.set, [attr |-> te.attr, val |-> transFormExpr2RowColumnData(new.val)]),
                 reg |-> new.reg],
           [ok |-> TRUE, set |-> <<>>, reg |-> reg], plan.targets)
=============================================================================
