-------------------------------- MODULE Plan --------------------------------
(***************************************************************************)
(* From query trees to plan trees (sqlcore/plan/plan.c): one scan for each *)
(* table, nested loops over them, the selection on top, then the           *)
(* projection, and a root that sends rows or changes a table.              *)
(***************************************************************************)
EXTENDS Query

\* ProcessScanNode: the table is looked up by its rindex among the cells of the range table.
ProcessScanNode(entry, rtable) ==
  [k |-> "seqscan", rte |-> GetCellValueByIndex(rtable, entry.rindex), targets |-> entry.targets]

RECURSIVE ProcessJoinTree(_, _)

\* ProcessJoinNode and ProcessJoinTree.
ProcessJoinTree(node, rtable) ==
  CASE node.k = "joinentry" -> [k |-> "nestloop", left  |-> ProcessJoinTree(node.l, rtable),
                                                  right |-> ProcessJoinTree(node.r, rtable)]
    [] node.k = "scanentry" -> ProcessScanNode(node, rtable)
    [] OTHER                -> Nil

\* ProcessTableScan, and ProcessSelectQual above it when there is a condition.
ProcessSelectQual(query) ==
  LET scan == ProcessJoinTree(query.rtjoin, query.rtable)
  IN IF query.joinTree = <<>> THEN scan
     ELSE [k |-> "select", sub |-> scan, qual |-> query.joinTree, rtable |-> query.rtable]

\* ProcessTopNode: the projection on the result columns.
ProcessTopNode(query) ==
  [k |-> "project", sub |-> ProcessSelectQual(query), targets |-> query.targets, rtable |-> query.rtable]

subPlanSelectStmt(query) ==
  [k |-> "querytbl", sub |-> ProcessTopNode(query), targets |-> query.targets]

\* ProcessQualUpdateSetQual: the node that makes the new values of a row.
ModifyTbl(query, left) ==
  [k |-> "modifytbl", left |-> left, rte |-> GetFirstCellNode(query.rtable),
   right |-> [k |-> "selectnewvalue", targets |-> query.targets, rtable |-> query.rtable]]

GetValuesTypeRangTbl(rtable) == rtable[SelectInSeq(rtable, LAMBDA r : r.kind = "VALUES")]

subPlanInsertStmt(query) ==
  ModifyTbl(query, [k |-> "valuescan", rte |-> GetValuesTypeRangTbl(query.rtable)])

\* subPlanUpdateStmt: an UPDATE with more than one table is refused; its plan stays empty.
subPlanUpdateStmt(query) ==
  IF Len(query.rtable) > 1 THEN Nil ELSE ModifyTbl(query, ProcessTopNode(query))

subPlanDeleteStmt(query) == ModifyTbl(query, ProcessTopNode(query))

\* QueryPlan and SubPlanProcess.
QueryPlan(query) ==
  [k |-> "plan", cmd |-> query.cmd, stmt |-> query.stmt,
   left |-> CASE query.cmd = "SELECT" -> subPlanSelectStmt(query)
              [] query.cmd = "INSERT" -> subPlanInsertStmt(query)
              [] query.cmd = "UPDATE" -> subPlanUpdateStmt(query)
              [] query.cmd = "DELETE" -> subPlanDeleteStmt(query)
              [] OTHER                -> Nil]
=============================================================================
