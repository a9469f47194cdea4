----------------------------- MODULE Relational -----------------------------
(***************************************************************************)
(* What statements mean, independent of how the program executes them: the *)
(* reference for the answers and changes of the executor.  A binding gives *)
(* the row that each table of the FROM clause stands for.                  *)
(***************************************************************************)
EXTENDS Query, FiniteSetsExt

LOCAL LivePositions(tbl, db) ==
  SelectSeq([i \in DOMAIN db[tbl] |-> i], LAMBDA i : db[tbl][i].dead = {})

RECURSIVE Bindings(_, _)

\* All bindings, in the order of nested loops.
Bindings(from, db) ==
  IF from = <<>> THEN << <<>> >>
  ELSE LET outer == Bindings(Front(from), db)
           inner == LivePositions(Last(from).rel, db)
       IN FlattenSeq([i \in DOMAIN outer |-> [j \in DOMAIN inner |-> Append(outer[i], inner[j])]])

\* The tables a column may belong to.
Owners(col, from) ==
  {i \in DOMAIN from : /\ col.tbl \in {"", RelName(from[i])}
                       /\ from[i].rel \in Tables
                       /\ \E j \in DOMAIN Catalog[from[i].rel] : Catalog[from[i].rel][j].name = col.field}

Owner(col, from) == CHOOSE i \in Owners(col, from) : TRUE

ColumnType(col, from) ==
  LET tbl == from[Owner(col, from)].rel IN Catalog[tbl][GetAttrIndex(tbl, col.field)].type

RECURSIVE Value(_, _, _, _)

Value(e, from, binding, db) ==
  CASE e.k = "const" -> e.val
    [] e.k = "col"   -> LET i == Owner(e, from)
                        IN db[from[i].rel][binding[i]].vals[GetAttrIndex(from[i].rel, e.field)]
    [] OTHER         -> IntVal(Number(e.op, Value(e.l, from, binding, db).key[2],
                                            Value(e.r, from, binding, db).key[2]))

RECURSIVE Truth(_, _, _, _)

Truth(e, from, binding, db) ==
  CASE e.k = "nil"  -> TRUE
    [] e.k = "expr" -> Holds(e.op, Value(e.l, from, binding, db).key, Value(e.r, from, binding, db).key)
    [] e.k = "bool" /\ e.op = "AND" -> Truth(e.l, from, binding, db) /\ Truth(e.r, from, binding, db)
    [] e.k = "bool" /\ e.op = "OR"  -> Truth(e.l, from, binding, db) \/ Truth(e.r, from, binding, db)
    [] e.k = "bool" /\ e.op = "NOT" -> ~Truth(e.l, from, binding, db)

Matching(from, where, db) == SelectSeq(Bindings(from, db), LAMBDA b : Truth(where, from, b, db))

\* The columns of the result: * stands for all columns of all tables.
ResultColumns(stmt) ==
  FlattenSeq([t \in DOMAIN stmt.targets |->
    IF stmt.targets[t].all
    THEN FlattenSeq([i \in DOMAIN stmt.from |->
           [j \in DOMAIN Catalog[stmt.from[i].rel] |->
              [name |-> Catalog[stmt.from[i].rel][j].name,
               col |-> Col(RelName(stmt.from[i]), Catalog[stmt.from[i].rel][j].name)]]])
    ELSE <<[name |-> IF stmt.targets[t].name = "" THEN stmt.targets[t].val.field ELSE stmt.targets[t].name,
            col |-> stmt.targets[t].val]>>])

\* The texts that answer a statement: a header if there are rows, the rows, their number.
SelectAnswer(stmt, db) ==
  LET cols == ResultColumns(stmt)
      rows == Matching(stmt.from, stmt.where, db)
      head == [k |-> "head", names |-> [i \in DOMAIN cols |-> cols[i].name]]
      data == [r \in DOMAIN rows |->
                 [k |-> "data", vals |-> [i \in DOMAIN cols |-> Value(cols[i].col, stmt.from, rows[r], db)]]]
  IN (IF rows = <<>> THEN <<>> ELSE <<head>>) \o data \o <<[k |-> "total", n |-> Len(rows)]>>

\* The rows that an UPDATE or DELETE concerns, in the order of the table.
Concerned(stmt, db) ==
  LET rows == Matching(<<stmt.rel>>, stmt.where, db) IN [i \in DOMAIN rows |-> rows[i][1]]

\* The row that an INSERT makes of a list of values.
NewRow(stmt, values) ==
  LET columns == Catalog[stmt.rel]
      attrs   == IF stmt.attrs = <<>> THEN [i \in DOMAIN columns |-> columns[i].name] ELSE stmt.attrs
      at(i)   == SelectInSeq(attrs, LAMBDA a : a = columns[i].name)
  IN [vals |-> [i \in DOMAIN columns |-> IF at(i) = 0 THEN NoValue ELSE values[at(i)]], dead |-> {}]

\* How many columns of a row are changed one after the other; a new row is one part.
Parts(stmt) ==
  CASE stmt.k = "insert" -> 1
    [] stmt.k = "update" -> Len(stmt.targets)
    [] stmt.k = "delete" -> Len(Catalog[stmt.rel.rel])

\* The row at place p of an UPDATE or DELETE when the first k columns have been changed.
ChangedRow(stmt, p, db, k) ==
  LET row    == db[stmt.rel.rel][p]
      set(a) == SelectInSeq(SubSeq(stmt.targets, 1, k),
                            LAMBDA t : t.val.field = Catalog[stmt.rel.rel][a].name)
  IN IF stmt.k = "delete" THEN [row EXCEPT !.dead = 1..k]
     ELSE [row EXCEPT !.vals = [a \in DOMAIN @ |->
             IF set(a) = 0 THEN @[a] ELSE Value(stmt.targets[set(a)].set, <<stmt.rel>>, <<p>>, db)]]

\* The tables after the statement was applied to the first n rows it concerns and to the first
\* k columns of the next one.
Effect(stmt, db, n, k) ==
  LET rows    == Concerned(stmt, db)
      done(p) == LET i == SelectInSeq(rows, LAMBDA q : q = p)
                 IN CASE i \in 1..n -> Parts(stmt) [] i = n + 1 -> k [] OTHER -> 0
  IN IF stmt.k = "insert"
     THEN [db EXCEPT ![stmt.rel] = @ \o [i \in 1..n |-> NewRow(stmt, stmt.values[i])]]
     ELSE [db EXCEPT ![stmt.rel.rel] = [p \in DOMAIN @ |->
             IF done(p) = 0 THEN @[p] ELSE ChangedRow(stmt, p, db, done(p))]]

Changes(stmt, db) ==
  IF stmt.k = "insert" THEN Len(stmt.values) ELSE Len(Concerned(stmt, db))

-----------------------------------------------------------------------------
(* The statements whose meaning the program is held to *)

RECURSIVE Columns(_)

\* The columns of an expression, as often as they occur.
Columns(e) ==
  CASE e.k = "col"              -> <<e>>
    [] e.k \in {"expr", "bool"} -> Columns(e.l) \o Columns(e.r)
    [] OTHER                    -> <<>>

\* The tables in which columns are looked up.  A FROM list of UPDATE or DELETE that names an
\* unknown table counts for nothing, and that is no error (RangTblRewriteFromClause).
FromOf(stmt) ==
  IF stmt.k = "select" THEN stmt.from
  ELSE <<stmt.rel>> \o IF \E i \in DOMAIN stmt.from : stmt.from[i].rel \notin Tables THEN <<>> ELSE stmt.from

\* The columns of a condition or SET expression that are looked up: the operands of operators
\* that have two of them.  A column that stands alone or under a sign is not (QualNodeProcess).
RECURSIVE LookedUp(_)

LookedUp(e) ==
  LET operand(x) == IF x.k = "col" THEN {x} ELSE LookedUp(x)
  IN CASE e.k = "bool" -> LookedUp(e.l) \cup LookedUp(e.r)
       [] e.k = "expr" -> IF Nil \in {e.l, e.r} THEN {} ELSE operand(e.l) \cup operand(e.r)
       [] OTHER        -> {}

\* The targets that are analysed: the list ends at the first one that is no column.
Analysed(targets) ==
  LET other == SelectInSeq(targets, LAMBDA t : ~t.all /\ t.val.k # "col")
  IN Range(IF other = 0 THEN targets ELSE SubSeq(targets, 1, other - 1))

\* A statement that asks for a table or column that does not exist or is ambiguous.  The names
\* in the column list of an INSERT are never an error: the list ends at an unknown one.
NamesUnknown(stmt) ==
  LET cols == LookedUp(stmt.where) \cup
              IF stmt.k = "delete" THEN {}
              ELSE UNION {LookedUp(t.set) \cup (IF t.all THEN {} ELSE {t.val}) : t \in Analysed(stmt.targets)}
  IN CASE stmt.k = "select" -> \/ \E i \in DOMAIN stmt.from : stmt.from[i].rel \notin Tables
                               \/ \E c \in cols : Cardinality(Owners(c, FromOf(stmt))) # 1
       [] stmt.k = "insert" -> stmt.rel \notin Tables
       [] stmt.k \in {"update", "delete"} -> \/ stmt.rel.rel \notin Tables
                                            \/ \E c \in cols : Cardinality(Owners(c, FromOf(stmt))) # 1
       [] OTHER -> FALSE

\* An operator the executor gives its meaning: a column first, or no column in it directly; not
\* two columns of one table; not <, whose slot has the function of <=; both operands there, of
\* one type that has the operator.
TypeOf(e, from) ==
  CASE e.k = "col" -> ColumnType(e, from) [] e.k = "const" -> e.val.type [] OTHER -> "INT"

Plain(e, from) ==
  /\ e.op # "LESS"
  /\ e.l # Nil /\ e.r # Nil
  /\ e.r.k = "col" => e.l.k = "col" /\ Owner(e.l, from) # Owner(e.r, from)
  /\ TypeOf(e.l, from) = TypeOf(e.r, from)
  /\ opf(TypeOf(e.l, from), e.op) # "NONE"

\* Expressions and conditions whose meaning is that of their operators.
RECURSIVE IsNumber(_, _), IsCondition(_, _)

IsNumber(e, from) ==
  \/ e.k \in {"col", "const"}
  \/ /\ e.k = "expr" /\ e.op \in Arithmetic
     /\ Plain(e, from) /\ IsNumber(e.l, from) /\ IsNumber(e.r, from)

IsCondition(e, from) ==
  \/ /\ e.k = "expr" /\ e.op \in Comparisons
     /\ Plain(e, from) /\ IsNumber(e.l, from) /\ IsNumber(e.r, from)
  \/ /\ e.k = "bool"
     /\ IsCondition(e.l, from)
     /\ e.op # "NOT" => IsCondition(e.r, from)

\* A column that is set once, to a constant or the result of operators, of its own type; a
\* column alone after = is read through memory that is no expression, and constants of the
\* other types are stored as another type.
PlainSet(targets, i, from) ==
  LET t == targets[i]
  IN /\ t.val.k = "col" /\ Cardinality(Owners(t.val, from)) = 1
     /\ \A j \in DOMAIN targets : j # i /\ targets[j].val.k = "col" => targets[j].val.field # t.val.field
     /\ t.set.k \in {"const", "expr"} /\ IsNumber(t.set, from)
     /\ TypeOf(t.set, from) = ColumnType(t.val, from)
     /\ ColumnType(t.val, from) \in {"INT", "STRING", "CHAR"}

\* Each table occurs at most as often as it has columns, which is as many as a scan has room for.
RoomForColumns(cols, from) ==
  \A i \in DOMAIN from :
    Len(SelectSeq(cols, LAMBDA c : Owner(c, from) = i)) <= Len(Catalog[from[i].rel])

\* No row is half deleted, and every value is of the type of its column or missing.
Regular(tbl, db) ==
  \A i \in DOMAIN db[tbl] :
    /\ db[tbl][i].dead \in {{}, DOMAIN Catalog[tbl]}
    /\ \A a \in DOMAIN Catalog[tbl] : db[tbl][i].vals[a].type \in {Catalog[tbl][a].type, "NULL"}

\* No missing value is compared or computed with.
NoneMissing(col, from, db) ==
  LET tbl == from[Owner(col, from)].rel
  IN \A i \in DOMAIN db[tbl] : db[tbl][i].vals[GetAttrIndex(tbl, col.field)] # NoValue

SupportedInsert(stmt) ==
  LET attrs == IF stmt.attrs = <<>> THEN [i \in DOMAIN Catalog[stmt.rel] |-> Catalog[stmt.rel][i].name] ELSE stmt.attrs
  IN /\ \A i \in DOMAIN attrs : GetAttrIndex(stmt.rel, attrs[i]) > 0
     /\ \A i \in DOMAIN stmt.values :
          /\ Len(stmt.values[i]) >= Len(attrs)
          /\ \A j \in DOMAIN attrs :
               stmt.values[i][j].type = Catalog[stmt.rel][GetAttrIndex(stmt.rel, attrs[j])].type

SupportedSelect(stmt, from) ==
  LET cols == ResultColumns(stmt)
  IN /\ \A i \in DOMAIN stmt.targets : stmt.targets[i].all \/ stmt.targets[i].val.k = "col"
     /\ RoomForColumns([i \in DOMAIN cols |-> cols[i].col], from)

\* The statements that are held to their meaning, on the tables db.
Supported(stmt, db) ==
  CASE stmt.k = "insert" -> stmt.rel \in Tables /\ Regular(stmt.rel, db) /\ SupportedInsert(stmt)
    [] stmt.k \in {"select", "update", "delete"} ->
         LET from == FromOf(stmt)
             sets == IF stmt.k = "update" THEN [i \in DOMAIN stmt.targets |-> Columns(stmt.targets[i].set)] ELSE <<>>
             used == Columns(stmt.where) \o FlattenSeq(sets)
         IN /\ ~NamesUnknown(stmt)
            /\ stmt.k # "select" => stmt.from = <<>>
            /\ \A i \in DOMAIN from : Regular(from[i].rel, db)
            /\ stmt.where # Nil => IsCondition(stmt.where, from)
            /\ stmt.k = "update" => \A i \in DOMAIN stmt.targets : PlainSet(stmt.targets, i, from)
            /\ \A i \in DOMAIN used : NoneMissing(used[i], from, db)
            /\ RoomForColumns(Columns(stmt.where), from)
            /\ stmt.k = "select" => SupportedSelect(stmt, from)
    [] OTHER -> FALSE
=============================================================================
