------------------------------ MODULE Session -------------------------------
(***************************************************************************)
(* One session: the client tool, the two byte streams of its connection,   *)
(* and the worker that reads a command, executes its statements and sends  *)
(* the answers through the portal (processor/dispatch/servprocess.c,       *)
(* toadmain.c, portal/, util/sock/tcpsock.c, tools/tsql/tsqlclient.c).     *)
(*                                                                         *)
(* A message is three cells: the two words of its header, type and size,   *)
(* and its text.  A stream hands over any number of cells at a time.  A    *)
(* command is a sequence of statements; the empty one does not parse.      *)
(***************************************************************************)
EXTENDS Executor, Relational

CONSTANTS Commands,     \* the commands of the client
          InitialDb,    \* table -> stored rows
          MaxCommands,  \* bound: commands of the session
          MaxChunk,     \* bound: cells received at once
          MaxFaults     \* bound: changes that the storage refuses

VARIABLES
  db,      \* table -> sequence of stored rows
  client,  \* the client tool: status, restMsg, the type of the last message
  server,  \* the worker: place in ProcessQuery, restMsg, the command and its execution
  portal,  \* the portal: message type, flag, text in the buffer, columns of the result
  up,      \* cells from the client to the server
  down,    \* cells from the server to the client
  lost,    \* cells were dropped: from then on the reader takes other bytes for headers
  ncmd, faults,
  sent, shown,  \* history: the texts of the answer that were sent and shown
  log           \* history: the statement that ended last

vars == <<db, client, server, portal, up, down, lost, ncmd, faults, sent, shown, log>>

Text(t) == [k |-> "text", text |-> t]
Empty   == Text("")

NoStatement == [k |-> "none"]

-----------------------------------------------------------------------------
(* Streams *)

HEADER == 2

Cells(msg) == [i \in 1..(HEADER + 1) |-> [part |-> i, msg |-> msg]]

\* Mutant: what follows the first message of a piece is not kept.
ParserMsgOne(chunk, rest) ==
  LET all == rest \o chunk
  IN CASE Len(all) < HEADER  -> [rest |-> rest, msgs |-> <<>>, drop |-> chunk # <<>>]
       [] Len(all) = HEADER  -> [rest |-> all, msgs |-> <<>>, drop |-> FALSE]
       [] OTHER -> [rest |-> <<>>, msgs |-> <<all[1].msg>>, drop |-> FALSE]

\* ParserMsg: a piece that does not complete a header is dropped; an incomplete message waits.
\* One message at a time; the rest of the piece is kept.
ParserMsg(chunk, rest) ==
  LET all == rest \o chunk
  IN CASE Len(all) < HEADER  -> [rest |-> rest, msgs |-> <<>>, drop |-> chunk # <<>>]
       [] Len(all) = HEADER  -> [rest |-> all, msgs |-> <<>>, drop |-> FALSE]
       [] OTHER -> [rest |-> SubSeq(all, HEADER + 2, Len(all)), msgs |-> <<all[1].msg>>, drop |-> FALSE]

RECURSIVE ReadMessages(_, _)

\* The loop of ReadMessage: every whole message up to the one that finishes the answer.
ReadMessages(chunk, rest) ==
  LET p == ParserMsg(chunk, rest)
      q == ReadMessages(<<>>, p.rest)
  IN IF p.msgs = <<>> \/ p.msgs[1].type = "FINISH" THEN p
     ELSE [q EXCEPT !.msgs = p.msgs \o @]

-----------------------------------------------------------------------------
(* Portal *)

InitPortal(p) == [p EXCEPT !.type = "START", !.flag = "NOTHING"]

\* InitSelectPortal: the columns of an earlier SELECT of the same command stay.
InitSelectPortal(p, targets) ==
  [p EXCEPT !.targets = IF @ = <<>> THEN targets ELSE @, !.flag = "ROW_HEADER"]

\* GetValueInfo: the text of a column is made by the type that the portal has for it.
GetValueInfo(p, i, val) ==
  IF val = NoValue THEN NoValue
  ELSE [type |-> IF i \in DOMAIN p.targets THEN p.targets[i].type ELSE "UNKNOWN", key |-> val.key]

ClientRowDataSend(p, vals) == [k |-> "data", vals |-> [i \in DOMAIN vals |-> GetValueInfo(p, i, vals[i])]]

GeneralVirtualTableHeadRaw(p) == [k |-> "head", names |-> [i \in DOMAIN p.targets |-> p.targets[i].name]]

NextType(type) == CASE type = "START" -> "BEGIN" [] type = "BEGIN" -> "CONTINUE" [] OTHER -> type

\* SendToNetPort: the type moves on once for a call, the header is sent before the first row.
SendToNetPort(p, texts) ==
  [portal |-> [p EXCEPT !.type = NextType(@), !.flag = "NOTHING", !.body = Empty],
   msgs   |-> [i \in DOMAIN texts |-> [type |-> NextType(p.type), body |-> texts[i]]]]

SendToPort(p, vals) ==
  SendToNetPort(p, (IF p.flag = "ROW_HEADER" THEN <<GeneralVirtualTableHeadRaw(p)>> ELSE <<>>)
                   \o <<ClientRowDataSend(p, vals)>>)

\* Mutant: the message that finishes the answer is sent only when the buffer has a text.
EndPortSilent(p) ==
  [portal |-> InitPortal([p EXCEPT !.body = Empty, !.targets = <<>>]),
   msgs   |-> IF p.body = Empty THEN <<>>
              ELSE <<[type |-> p.type, body |-> p.body], [type |-> "FINISH", body |-> Empty]>>]

\* EndPort: what is in the buffer, then the message that finishes the answer.
EndPort(p) ==
  [portal |-> InitPortal([p EXCEPT !.body = Empty, !.targets = <<>>]),
   msgs   |-> <<[type |-> p.type, body |-> p.body], [type |-> "FINISH", body |-> Empty]>>]

\* The texts of the messages other than the finishing one.
Texts(msgs) ==
  LET m == SelectSeq(msgs, LAMBDA x : x.type # "FINISH") IN [i \in DOMAIN m |-> m[i].body]

\* WriteData: the cells of the messages enter the stream unless the client has closed it.
WriteData(msgs) ==
  /\ down' = IF client.status = "CLOSED" THEN down ELSE down \o FlattenSeq([i \in DOMAIN msgs |-> Cells(msgs[i])])
  /\ sent' = sent \o Texts(msgs)

-----------------------------------------------------------------------------
(* Client tool *)

\* ProcessClient: the command goes out as one message.
SendCommand(cmd) ==
  /\ client.status = "IDLE" /\ ncmd < MaxCommands /\ ~lost
  /\ client' = [client EXCEPT !.status = "SENDCOMMD"]
  /\ up' = up \o Cells([type |-> "REQUEST", body |-> cmd])
  /\ ncmd' = ncmd + 1
  /\ sent' = <<>> /\ shown' = <<>>
  /\ UNCHANGED <<db, server, portal, down, lost, faults, log>>

\* EpollProcess and ReadMessage: a piece that is too short leaves the message of the previous
\* call, which may be the end of the previous answer.
ReadMessage(n) ==
  LET r      == ReadMessages(SubSeq(down, 1, n), client.rest)
      finish == IF r.drop THEN client.msg = "FINISH"
                ELSE r.msgs # <<>> /\ Last(r.msgs).type = "FINISH"
  IN /\ client.status = "SENDCOMMD" /\ ~lost
     /\ n <= Len(down)
     /\ down' = SubSeq(down, n + 1, Len(down))
     /\ lost' = r.drop
     /\ client' = [client EXCEPT !.rest = r.rest,
                                 !.msg = IF finish THEN "FINISH" ELSE "NONE",
                                 !.status = IF finish THEN "IDLE" ELSE @]
     /\ shown' = shown \o Texts(r.msgs)
     /\ UNCHANGED <<db, server, portal, up, ncmd, faults, sent, log>>

\* ReadMessage at the end of the stream: the client ends.
Disconnected ==
  /\ client.status = "SENDCOMMD" /\ server.pc = "closed" /\ down = <<>>
  /\ client' = [client EXCEPT !.status = "CLOSED"]
  /\ UNCHANGED <<db, server, portal, up, down, lost, ncmd, faults, sent, shown, log>>

\* The user ends the client, in the middle of an answer or not.
CloseClient ==
  /\ client.status # "CLOSED"
  /\ client' = [client EXCEPT !.status = "CLOSED"]
  /\ UNCHANGED <<db, server, portal, up, down, lost, ncmd, faults, sent, shown, log>>

-----------------------------------------------------------------------------
(* Worker: ProcessQuery and ToadMainEntry *)

Quit == <<[k |-> "quit"]>>

\* ReadMsg: until a whole request is there; quit ends the session.
ReadMsg(n) ==
  LET r == ParserMsg(SubSeq(up, 1, n), server.rest)
  IN /\ server.pc = "read" /\ ~lost
     /\ n <= Len(up)
     /\ up' = SubSeq(up, n + 1, Len(up))
     /\ lost' = r.drop
     /\ server' = IF r.msgs = <<>> THEN [server EXCEPT !.rest = r.rest]
                  ELSE [server EXCEPT !.rest = r.rest, !.cmd = r.msgs[1].body,
                                      !.pc = IF r.msgs[1].body = Quit THEN "closed" ELSE "entry"]
     /\ UNCHANGED <<db, client, portal, down, ncmd, faults, sent, shown, log>>

\* Mutant: the end of the stream counts only after the client had a command answered.
FinishTaskAnswered ==
  /\ server.pc = "read" /\ up = <<>> /\ client.status = "CLOSED" /\ ncmd > 0
  /\ server' = [server EXCEPT !.pc = "closed"]
  /\ UNCHANGED <<db, client, portal, up, down, lost, ncmd, faults, sent, shown, log>>

\* FinishTask: the connection is closed when nothing can be read any more.
FinishTask ==
  /\ server.pc = "read" /\ up = <<>> /\ client.status = "CLOSED"
  /\ server' = [server EXCEPT !.pc = "closed"]
  /\ UNCHANGED <<db, client, portal, up, down, lost, ncmd, faults, sent, shown, log>>

\* ToadMainEntry up to the query trees: a command that does not parse, or that has an error in
\* any statement, is answered with one text.
AnalyzeCommand ==
  LET queries == QueryAnalyzeAndRewrite(server.cmd)
      reply   == SendToNetPort(portal, <<Text("error")>>)
  IN /\ server.pc = "entry"
     /\ IF queries = <<>>
        THEN /\ server' = [server EXCEPT !.pc = "endport"]
             /\ portal' = reply.portal
             /\ WriteData(reply.msgs)
        ELSE /\ server' = [server EXCEPT !.pc = "start", !.queries = queries, !.qi = 1]
             /\ UNCHANGED <<portal, down, sent>>
     /\ UNCHANGED <<db, client, up, lost, ncmd, faults, shown, log>>

\* QueryPlan and ExecutorStart of the next statement.
ExecutorStart ==
  LET plan == QueryPlan(server.queries[server.qi])
      p    == InitPortal(portal)
  IN /\ server.pc = "start" /\ server.qi <= Len(server.queries)
     /\ server' = [server EXCEPT !.pc = "exec", !.plan = plan, !.st = InitExecNode(plan.left),
                                 !.ret = 0, !.out = <<>>, !.before = db]
     /\ portal' = IF plan.cmd = "SELECT" THEN InitSelectPortal(p, plan.left.targets) ELSE p
     /\ UNCHANGED <<db, client, up, down, lost, ncmd, faults, sent, shown, log>>

\* ExecutorPlan after the last row: the number of rows or the error is flushed as it is.
ExecutorPlanEnd(ret, refused, after) ==
  LET text == IF ret >= 0 THEN [k |-> "total", n |-> ret] ELSE [k |-> "failure", n |-> ret]
  IN /\ WriteData(<<[type |-> portal.type, body |-> text]>>)
     /\ portal' = [portal EXCEPT !.body = Empty]
     /\ server' = [server EXCEPT !.pc = "start", !.qi = @ + 1, !.plan = Nil, !.st = Nil,
                                 !.out = <<>>, !.before = Nil]
     /\ log' = [k |-> "done", stmt |-> server.cmd[server.qi], qi |-> server.qi, cmd |-> server.cmd,
                before |-> server.before, after |-> after, refused |-> refused,
                out |-> Append(server.out, text)]

\* ExecutorUtility: the text stays in the buffer.
ExecutorUtility ==
  /\ server.pc = "exec" /\ server.plan.cmd = "UTILITY"
  /\ portal' = [portal EXCEPT !.body = Text(server.plan.stmt.text)]
  /\ server' = [server EXCEPT !.pc = "start", !.qi = @ + 1, !.plan = Nil, !.before = Nil]
  /\ UNCHANGED <<db, client, up, down, lost, ncmd, faults, sent, shown, log>>

\* A plan without a root (an UPDATE with several tables), or a SELECT without result columns,
\* for which InitExecNode made no state.
ExecNothing ==
  /\ server.pc = "exec" /\ server.plan.cmd # "UTILITY"
  /\ \/ server.plan.left = Nil /\ ExecutorPlanEnd(-1, FALSE, db)
     \/ server.plan.cmd = "SELECT" /\ server.plan.left.targets = <<>> /\ ExecutorPlanEnd(0, FALSE, db)
  /\ UNCHANGED <<db, client, up, lost, ncmd, faults, shown>>

\* ExecTableQuery: one row more is sent, or the statement ends.
ExecTableQuery ==
  LET plan == server.plan.left
      r    == ExecNodeProc(plan.sub, server.st.sub, db)
      send == SendToPort(portal, r.row.vals)
  IN /\ server.pc = "exec" /\ server.plan.cmd = "SELECT" /\ plan.targets # <<>>
     /\ \/ /\ r.row # Nil
           /\ server' = [server EXCEPT !.st.sub = r.st, !.ret = @ + 1,
                                       !.out = @ \o [i \in DOMAIN send.msgs |-> send.msgs[i].body]]
           /\ portal' = send.portal
           /\ WriteData(send.msgs)
           /\ UNCHANGED log
        \/ /\ r.row = Nil
           /\ ExecutorPlanEnd(server.ret, FALSE, db)
     /\ UNCHANGED <<db, client, up, lost, ncmd, faults, shown>>

\* The columns of a row in the order in which they are changed; a new row is written at once.
ColumnsChanged(cmd, tbl, new) ==
  CASE cmd = "INSERT" -> <<0>>
    [] cmd = "UPDATE" -> [i \in DOMAIN new.set |-> new.set[i].attr]
    [] cmd = "DELETE" -> [i \in DOMAIN Catalog[tbl] |-> i]

\* pax_ExecUpdate: the first n columns of the SET list have their new values.
pax_ExecUpdate(cells, new, n) ==
  [cells EXCEPT !.vals = [a \in DOMAIN @ |->
     LET i == SelectLastInSeq(SubSeq(new.set, 1, n), LAMBDA s : s.attr = a)
     IN IF i = 0 THEN @[a] ELSE new.set[i].val]]

\* pax_ExecDelete: the first n columns are deleted.
pax_ExecDelete(cells, n) == [cells EXCEPT !.dead = @ \cup 1..n]

\* ExecModifyTable: the stored rows after the change of the first n columns of one row.
ExecModifyTable(cmd, tbl, row, new, n) ==
  CASE cmd = "INSERT" -> IF n = 0 THEN db ELSE [db EXCEPT ![tbl] = Append(@, [vals |-> row.vals, dead |-> {}])]
    [] cmd = "UPDATE" -> [db EXCEPT ![tbl][FormOriginRowsPos(row).pos] = pax_ExecUpdate(@, new, n)]
    [] cmd = "DELETE" -> [db EXCEPT ![tbl][FormOriginRowsPos(row).pos] = pax_ExecDelete(@, n)]

\* TupleUpdateSatisfy: the first of the columns that is deleted already; 0 if there is none.
TupleUpdateSatisfy(cmd, tbl, row, columns) ==
  IF cmd = "INSERT" THEN 0
  ELSE SelectInSeq(columns, LAMBDA a : a \in db[tbl][FormOriginRowsPos(row).pos].dead)

\* ExecTableModifyTbl: one row more is changed, column by column.  A column that is deleted
\* already or for which there is no page ends the statement: the columns before it stay
\* changed, and the answer is the number of rows so far if there are any.
ExecTableModifyTbl ==
  LET plan == server.plan.left
      cmd  == server.plan.cmd
      tbl  == plan.rte.tbl
      st   == server.st
      r    == ExecNodeProc(plan.left, st.left, db)
      new  == IF cmd = "UPDATE" THEN FormNewRowsPos(plan.right, r.row.scan, st.reg, db)
              ELSE [ok |-> TRUE, set |-> <<>>, reg |-> st.reg]
      columns == ColumnsChanged(cmd, tbl, new)
      bad  == TupleUpdateSatisfy(cmd, tbl, r.row, columns)
      Ends(code, refused, after) == ExecutorPlanEnd(IF st.suc > 0 THEN st.suc ELSE code, refused, after)
      Counts(opRet) == server' = [server EXCEPT !.st = [left |-> r.st, reg |-> new.reg, opRet |-> opRet,
                                                        suc |-> st.suc + 1]]
  IN /\ server.pc = "exec" /\ cmd \in {"INSERT", "UPDATE", "DELETE"} /\ plan # Nil
     /\ \/ r.row = Nil /\ Ends(0, FALSE, db) /\ UNCHANGED <<db, faults>>
        \/ /\ r.row # Nil /\ new.ok /\ bad = 0
           /\ db' = ExecModifyTable(cmd, tbl, r.row, new, Len(columns))
           /\ Counts(0) /\ UNCHANGED <<down, sent, log, faults, portal>>
        \/ /\ r.row # Nil /\ new.ok
           /\ \E n \in 0..(Len(columns) - 1) :
                /\ db' = ExecModifyTable(cmd, tbl, r.row, new, n)
                /\ \/ bad = n + 1 /\ UNCHANGED faults
                   \/ bad \notin 1..(n + 1) /\ faults < MaxFaults /\ faults' = faults + 1
                /\ Ends(-1, TRUE, db')
        \/ r.row # Nil /\ ~new.ok /\ UNCHANGED <<db, faults>>
             /\ IF st.opRet < 0 THEN Ends(st.opRet, FALSE, db)
                ELSE Counts(st.opRet) /\ UNCHANGED <<down, sent, log, portal>>
     /\ UNCHANGED <<client, up, lost, ncmd, shown>>

\* The end of ToadMainEntry and EndPort.
FinishCommand ==
  LET e == EndPort(portal)
  IN /\ server.pc = "endport" \/ (server.pc = "start" /\ server.qi > Len(server.queries))
     /\ server' = [server EXCEPT !.pc = "read", !.cmd = <<>>, !.queries = <<>>, !.qi = 0]
     /\ portal' = e.portal
     /\ WriteData(e.msgs)
     /\ log' = NoStatement
     /\ UNCHANGED <<db, client, up, lost, ncmd, faults, shown>>

-----------------------------------------------------------------------------

Init ==
  /\ db = InitialDb
  /\ client = [status |-> "IDLE", rest |-> <<>>, msg |-> "NONE"]
  /\ server = [pc |-> "read", rest |-> <<>>, cmd |-> <<>>, queries |-> <<>>, qi |-> 0, plan |-> Nil,
               st |-> Nil, ret |-> 0, out |-> <<>>, before |-> Nil]
  /\ portal = [type |-> "START", flag |-> "NOTHING", body |-> Empty, targets |-> <<>>]
  /\ up = <<>> /\ down = <<>> /\ lost = FALSE /\ ncmd = 0 /\ faults = 0
  /\ sent = <<>> /\ shown = <<>> /\ log = NoStatement

Execute == ExecutorUtility \/ ExecNothing \/ ExecTableQuery \/ ExecTableModifyTbl

ServerNext ==
  \/ \E n \in 1..MaxChunk : ReadMsg(n)
  \/ FinishTask \/ AnalyzeCommand \/ ExecutorStart \/ Execute \/ FinishCommand

ClientReads == (\E n \in 1..MaxChunk : ReadMessage(n)) \/ Disconnected

ClientNext == (\E cmd \in Commands : SendCommand(cmd)) \/ ClientReads \/ CloseClient

Next == ServerNext \/ ClientNext

\* ENABLED ServerNext: only a read may have to wait, the other steps are always possible.
ServerReady ==
  IF server.pc \in {"read", "closed"} THEN ENABLED ((\E n \in 1..MaxChunk : ReadMsg(n)) \/ FinishTask)
  ELSE TRUE

\* The thread of the worker runs, which is WF_vars(ServerNext), and the client reads what has
\* arrived; neither user nor client has to send or close anything.
Fairness ==
  /\ []<>(~ServerReady) \/ []<><<ServerNext>>_vars
  /\ WF_vars(ClientReads)

Spec == Init /\ [][Next]_vars /\ Fairness

-----------------------------------------------------------------------------
(* Properties *)

\* Types of the state; stored rows have a value for every column of their table.
TypeOK ==
  /\ client.status \in {"IDLE", "SENDCOMMD", "CLOSED"}
  /\ server.pc \in {"read", "entry", "start", "exec", "endport", "closed"}
  /\ \A t \in Tables : \A i \in DOMAIN db[t] : /\ DOMAIN db[t][i].vals = DOMAIN Catalog[t]
                                              /\ db[t][i].dead \subseteq DOMAIN Catalog[t]
  /\ portal.type \in {"START", "BEGIN", "CONTINUE"}
  /\ Len(client.rest) <= HEADER /\ Len(server.rest) <= HEADER

\* The texts of the first SELECT of a command are the header, the rows and the number that the
\* statement means on the tables as they were (ExecTableQuery over nested loops, selection and
\* projection); the columns of a later SELECT are hidden by those of the first.
FirstSelect(cmd, i) == \A j \in 1..(i - 1) : cmd[j].k # "select"

AnswerIsRelational ==
  log.k = "done" /\ log.stmt.k = "select" /\ Supported(log.stmt, log.before) /\ FirstSelect(log.cmd, log.qi)
    => log.out = SelectAnswer(log.stmt, log.before)

\* An INSERT, UPDATE or DELETE changes the rows it means and no others, each from its values
\* before the statement, and answers with their number (ExecTableModifyTbl).  When the storage
\* refuses a column, the rows before it are changed and counted, and of the row at hand exactly
\* the columns that come first; without a whole row it is a failure.
ChangeIsRelational ==
  log.k = "done" /\ log.stmt.k # "select" /\ Supported(log.stmt, log.before)
    => \E n \in 0..Changes(log.stmt, log.before) : \E k \in 0..(Parts(log.stmt) - 1) :
         /\ log.after = Effect(log.stmt, log.before, n, k)
         /\ log.out = <<[k |-> IF n = 0 /\ log.refused THEN "failure" ELSE "total",
                         n |-> IF n = 0 /\ log.refused THEN -1 ELSE n]>>
         /\ log.refused = (n < Changes(log.stmt, log.before))
         /\ k > 0 => log.refused

\* A name that the analysis looks up and does not find, or finds twice, in any statement of a
\* command keeps all of the command from changing a table (QueryAnalyzeAndRewrite before the
\* first ExecutorStart).  Names that it never looks up are left out: see NamesUnknown.
ErrorChangesNothing ==
  [][db' # db => \A i \in DOMAIN server.cmd : ~NamesUnknown(server.cmd[i])]_vars

\* The client shows the texts the server sent, in order and once, and takes the end of the
\* answer for it when it has shown them all (ParserMsg and ReadMessage against FlushPortal and
\* EndPort, over every way the stream is cut).
Channel == INSTANCE Answers WITH busy <- client.status = "SENDCOMMD",
                                 over <- lost \/ client.status = "CLOSED"

TransferIsInOrder == Channel!Spec

\* A request is answered: the client gets to the end of the answer unless it goes away or loses
\* step with the stream.
RequestAnswered ==
  client.status = "SENDCOMMD" ~> (client.status # "SENDCOMMD" \/ lost)

\* The worker is done with a client that has gone, whatever it was executing for it.
ClientLeft ==
  client.status = "CLOSED" ~> (server.pc = "closed" \/ lost)
=============================================================================
