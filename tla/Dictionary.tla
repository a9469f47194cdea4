----------------------------- MODULE Dictionary -----------------------------
(***************************************************************************)
(* The dictionary of tables and their files (relCache.c, tables.c,         *)
(* exectable.c): sessions create, drop and use tables at once, the server  *)
(* is stopped, killed and started again.                                   *)
(*                                                                         *)
(* A table has two files, main and group; of their contents the model      *)
(* keeps the identifier in the header page.  An entry is a TableList; an   *)
(* entry that was released keeps its contents, see Smgr.  What a statement *)
(* does through an entry that another one has released is followed no      *)
(* further: wild becomes TRUE and the model stops.  headLost records that  *)
(* the group descriptor of a table has taken the place of the main one at  *)
(* its head, because a DROP emptied the ring in between; the model goes on *)
(* as the code does.                                                       *)
(*                                                                         *)
(* The dictionary lock is held across steps for writing only; a search     *)
(* under the shared lock is one step.                                      *)
(***************************************************************************)
EXTENDS Smgr

CONSTANTS
  Sessions,
  Names,             \* table names
  MaxStatements,     \* bound: statements of all sessions together
  MaxRestarts        \* bound: stops and kills of the server

NoSession == "none"

\* A statement allocates one entry at most.
ASSUME DictionaryAssumption ==
  /\ MaxStatements \in Nat /\ MaxRestarts \in Nat
  /\ Entries = 1 .. MaxStatements
  /\ IsFiniteSet(Sessions) /\ NoSession \notin Sessions

VARIABLES
  ent,        \* the entries: name, identifier, whether they were released
  lnext,      \* their list, g_TblList is entry 0
  lprev,
  dictLock,   \* the session that holds dictionInfo->rwLock for writing, or NoSession
  sm,         \* the storage manager
  disk,       \* the file that a name and a fork have in the data directory
  hdr,        \* the identifier in the header page of a file, 0 when it is not written
  nextId,     \* sysGlobalData.globalData.objectId
  savedId,    \* the same in the file of the global data
  allocated,  \* number of entries allocated
  started,    \* number of statements started
  restarts, killed,
  wild,
  headLost,   \* a table has lost its first descriptor, a history variable
  s           \* what each session is doing

vars == <<ent, lnext, lprev, dictLock, sm, disk, hdr, nextId, savedId, allocated, started,
          restarts, killed, wild, headLost, s>>

g_TblList == 0
NULL      == -1
NoFile    == <<0, "nofile">>

NoEntry == [name |-> "none", id |-> 0, released |-> FALSE]
Idle    == [pc |-> "idle", op |-> "none", name |-> "none", e |-> NULL, vf |-> NoVF, ok |-> TRUE]

InitDictionary ==
  /\ ent      = [e \in Entries |-> NoEntry]
  /\ lnext    = [e \in {g_TblList} \cup Entries |-> IF e = g_TblList THEN g_TblList ELSE NULL]
  /\ lprev    = lnext
  /\ dictLock = NoSession
  /\ sm       = InitSmgr
  /\ s        = [w \in Sessions |-> Idle]

Init ==
  /\ InitDictionary
  /\ disk      = [n \in Names |-> [f \in Forks |-> NoFile]]
  /\ hdr       = [i \in Files |-> 0]
  /\ nextId    = 1
  /\ savedId   = 1
  /\ allocated = 0
  /\ started   = 0
  /\ restarts  = 0
  /\ killed    = FALSE
  /\ wild      = FALSE
  /\ headLost  = FALSE

-----------------------------------------------------------------------------
(* The list of entries *)

\* The entries in the order of the list; g_TblList ends it.
List ==
  LET at[k \in 0 .. MaxStatements] ==
        IF k = 0 THEN lnext[g_TblList]
        ELSE IF at[k - 1] = g_TblList THEN g_TblList ELSE lnext[at[k - 1]]
  IN  at

Listed == {List[k] : k \in DOMAIN List} \ {g_TblList}

FindTblInfo(n) ==
  LET ks == {k \in DOMAIN List : List[k] # g_TblList /\ ent[List[k]].name = n}
  IN  IF ks = {} THEN NULL ELSE List[Min(ks)]

\* The new entry becomes the first one; the old first one keeps its prev.
LinkTblInfo(e) ==
  /\ lprev' = [lprev EXCEPT ![e] = lprev[lnext[g_TblList]]]
  /\ lnext' = [lnext EXCEPT ![e] = lnext[g_TblList], ![g_TblList] = e]

\* An entry that was never linked has no neighbours.
DetachTblInfo(e) ==
  IF lnext[e] = NULL \/ lprev[e] = NULL
  THEN UNCHANGED <<lnext, lprev>>
  ELSE /\ lnext' = [lnext EXCEPT ![lprev[e]] = lnext[e]]
       /\ lprev' = [lprev EXCEPT ![lnext[e]] = lprev[e]]

-----------------------------------------------------------------------------
(* Sessions *)

At(w, pc) == s[w].pc = pc /\ ~wild
Goto(w, pc) == s' = [s EXCEPT ![w].pc = pc]
Finish(w)   == s' = [s EXCEPT ![w] = Idle]

Unlocked == dictLock = NoSession

\* The entry of a session was released by another one.
Gone(w) == ent[s[w].e].released

Wild ==
  /\ wild' = TRUE
  /\ UNCHANGED <<ent, lnext, lprev, dictLock, sm, disk, hdr, nextId, savedId, allocated,
                 started, restarts, killed, headLost, s>>

SameRun   == UNCHANGED <<started, restarts, killed, wild, savedId>>
Same      == UNCHANGED <<started, restarts, killed, wild, savedId, headLost>>
SameFiles == UNCHANGED <<sm, disk, hdr>>
SameList  == UNCHANGED <<lnext, lprev>>

\* Steps that change the number of open files; the header page of the main file is written
\* to an open file as long as its descriptor is found.
Counting == {"main", "group", "groupinit", "loadmain", "loadgroup", "release", "use", "reopen"}
Counts(v) ==
  \/ s[v].pc \in Counting
  \/ s[v].pc = "maininit" /\ VFOf(sm, s[v].e, "main") = NoVF
Smgr(w, M) == sm' \in Raced(sm, M, \E v \in Sessions \ {w} : Counts(v))

-----------------------------------------------------------------------------
(* CREATE TABLE *)

\* ExecCreateTable and the first search of CreateTblInfo.
CreateSearch(w, n) ==
  /\ At(w, "idle") /\ Unlocked
  /\ started < MaxStatements
  /\ started' = started + 1
  /\ IF FindTblInfo(n) # NULL
     THEN UNCHANGED s
     ELSE s' = [s EXCEPT ![w] = [Idle EXCEPT !.pc = "create", !.op = "create", !.name = n]]
  /\ UNCHANGED <<ent, lnext, lprev, dictLock, sm, disk, hdr, nextId, savedId, allocated,
                 restarts, killed, wild, headLost>>

\* AllocTblInfo under the lock.
AllocTblInfo(w, pc, id) ==
  /\ dictLock'  = w
  /\ allocated' = allocated + 1
  /\ ent' = [ent EXCEPT ![allocated + 1].name = s[w].name, ![allocated + 1].id = id]
  /\ s'   = [s EXCEPT ![w].pc = pc, ![w].e = allocated + 1]

\* Mutant: no second search under the lock.
CreateTblInfoUnchecked(w) ==
  /\ At(w, "create") /\ Unlocked
  /\ AllocTblInfo(w, "main", nextId)
  /\ nextId' = nextId + 1
  /\ SameList /\ SameFiles /\ Same

CreateTblInfo(w) ==
  /\ At(w, "create") /\ Unlocked
  /\ IF FindTblInfo(s[w].name) # NULL
     THEN /\ Finish(w)
          /\ UNCHANGED <<dictLock, ent, allocated, nextId>>
     ELSE /\ AllocTblInfo(w, "main", nextId)
          /\ nextId' = nextId + 1
  /\ SameList /\ SameFiles /\ Same

\* ERRRET of CreateTblInfo and LoadTblInfo: the entry is given up.
ERRRET(w) ==
  /\ dictLock' = NoSession
  /\ Goto(w, "detach")
  /\ SameList
  /\ UNCHANGED ent

\* smgr_create: a file that exists is left alone, but its descriptor counts as opened.  A
\* descriptor that has a file open, another table's, fails the CREATE.
TableCreate(w, f, pc) ==
  LET e == s[w].e  n == s[w].name
      M == GetVFec(sm, e, f)
      v == VFOf(M, e, f)
      new == disk[n][f] = NoFile
  IN  /\ IF M.pfh[v] # Closed
         THEN /\ Smgr(w, NoSgmr(smgrRelease(M, e), e))
              /\ ERRRET(w)
              /\ UNCHANGED disk
         ELSE /\ Smgr(w, AddFileToSmgrContext(M, v, IF new THEN <<e, f>> ELSE Closed))
              /\ disk' = IF new THEN [disk EXCEPT ![n][f] = <<e, f>>] ELSE disk
              /\ Goto(w, pc)
              /\ UNCHANGED <<ent, dictLock>>
              /\ SameList
      /\ headLost' = (headLost \/ LosesHead(sm, e, f))
      /\ UNCHANGED <<hdr, nextId, allocated>>
      /\ SameRun

CreateMain(w)  == At(w, "main")  /\ TableCreate(w, "main", "group")
CreateGroup(w) == At(w, "group") /\ TableCreate(w, "group", "maininit")

\* smgr_open of a descriptor: the storage manager after it.
smgr_open(M, e, f, n) ==
  LET N == GetVFec(M, e, f)
      v == VFOf(N, e, f)
  IN  IF N.pfh[v] # Closed \/ disk[n][f] = NoFile THEN N
      ELSE AddFileToSmgrContext(N, v, disk[n][f])

\* The search of TableWrite: a descriptor that is missing is opened, one without a file is
\* not.
Searched(w, M, f) ==
  IF VFOf(M, s[w].e, f) # NoVF THEN M ELSE smgr_open(M, s[w].e, f, s[w].name)

\* Mutant: a file that is not open is opened first, as TableRead does.
TableWriteReopens(w, M, f) ==
  LET v == VFOf(M, s[w].e, f)
      file == IF M.pfh[v] # Closed THEN M.pfh[v] ELSE disk[s[w].name][f]
  IN  IF v = NoVF \/ file \in {Closed, NoFile} THEN hdr
      ELSE [hdr EXCEPT ![file] = ent[s[w].e].id]

\* The header pages after the header page of a fork is written.  A descriptor without an
\* open file fails the write.
TableWrite(w, M, f) ==
  LET v == VFOf(M, s[w].e, f)
  IN  IF v = NoVF \/ M.pfh[v] = Closed THEN hdr
      ELSE [hdr EXCEPT ![M.pfh[v]] = ent[s[w].e].id]

Writable(w, M, f) ==
  LET v == VFOf(M, s[w].e, f) IN v # NoVF /\ M.pfh[v] # Closed

TableFileMainInit(w) ==
  LET M == Searched(w, sm, "main")
  IN  /\ At(w, "maininit")
      /\ Smgr(w, M)
      /\ hdr' = TableWrite(w, M, "main")
      /\ s'   = [s EXCEPT ![w].pc = "groupinit", ![w].ok = Writable(w, M, "main")]
      /\ UNCHANGED <<ent, dictLock, disk, nextId, allocated>>
      /\ SameList /\ Same

\* The header page that TableRead of a fork finds is a written one.
HeaderRead(M, v) == M.pfh[v] # Closed /\ hdr[M.pfh[v]] # 0

\* The main file is opened and its header page is read before the group file is written.
TableFileGroupInit(w) ==
  LET M == smgr_open(sm, s[w].e, "main", s[w].name)
      read == HeaderRead(M, VFOf(M, s[w].e, "main"))
      N == IF read THEN Searched(w, M, "group") ELSE M
  IN  /\ At(w, "groupinit")
      /\ Smgr(w, N)
      /\ hdr' = IF read THEN TableWrite(w, N, "group") ELSE hdr
      /\ s'   = [s EXCEPT ![w].pc = "link",
                          ![w].ok = @ /\ read /\ Writable(w, N, "group")]
      /\ UNCHANGED <<ent, dictLock, disk, nextId, allocated>>
      /\ SameList /\ Same

\* Mutant: what TableFileGroupInit returns is overwritten.
CreateEndUnchecked(w) ==
  /\ At(w, "link")
  /\ LinkTblInfo(s[w].e) /\ Finish(w)
  /\ dictLock' = NoSession
  /\ UNCHANGED <<ent, nextId, allocated>>
  /\ SameFiles /\ Same

\* The end of CreateTblInfo.
CreateEnd(w) ==
  /\ At(w, "link")
  /\ IF s[w].ok
     THEN LinkTblInfo(s[w].e) /\ Finish(w)
     ELSE SameList /\ Goto(w, "detach")
  /\ dictLock' = NoSession
  /\ UNCHANGED <<ent, nextId, allocated>>
  /\ SameFiles /\ Same

-----------------------------------------------------------------------------
(* GetTableInfo: DROP TABLE and the statements that use a table *)

FirstStep == [drop |-> "unlinkmain", use |-> "use"]

GetTableInfo(w, n, op) ==
  LET e == FindTblInfo(n) IN
  /\ At(w, "idle") /\ Unlocked
  /\ started < MaxStatements
  /\ started' = started + 1
  /\ s' = [s EXCEPT ![w] = [Idle EXCEPT !.pc = IF e # NULL THEN FirstStep[op] ELSE "load",
                                        !.op = op, !.name = n, !.e = e]]
  /\ UNCHANGED <<ent, lnext, lprev, dictLock, sm, disk, hdr, nextId, savedId, allocated,
                 restarts, killed, wild, headLost>>

\* LoadTblInfo: the second search under the lock.
LoadTblInfo(w) ==
  LET e == FindTblInfo(s[w].name) IN
  /\ At(w, "load") /\ Unlocked
  /\ IF e # NULL
     THEN /\ s' = [s EXCEPT ![w].pc = FirstStep[s[w].op], ![w].e = e]
          /\ UNCHANGED <<dictLock, ent, allocated>>
     ELSE AllocTblInfo(w, "loadmain", 0)
  /\ UNCHANGED nextId
  /\ SameList /\ SameFiles /\ Same

\* TableOpen, and the header page of the main file.  The table may not be there, or not
\* whole.
LoadMain(w) ==
  LET e == s[w].e
      M == smgr_open(sm, e, "main", s[w].name)
      v == VFOf(M, e, "main")
  IN  /\ At(w, "loadmain")
      /\ Smgr(w, M)
      /\ IF HeaderRead(M, v)
         THEN /\ ent' = [ent EXCEPT ![e].id = hdr[M.pfh[v]]]
              /\ Goto(w, "loadgroup")
              /\ SameList /\ UNCHANGED dictLock
         ELSE ERRRET(w)
      /\ UNCHANGED <<disk, hdr, nextId, allocated>>
      /\ Same

\* The header page of the group file, and the end of LoadTblInfo.
LoadGroup(w) ==
  LET e == s[w].e
      M == smgr_open(sm, e, "group", s[w].name)
  IN  /\ At(w, "loadgroup")
      /\ Smgr(w, M)
      /\ IF HeaderRead(M, VFOf(M, e, "group"))
         THEN /\ LinkTblInfo(e)
              /\ dictLock' = NoSession
              /\ Goto(w, FirstStep[s[w].op])
              /\ UNCHANGED ent
         ELSE ERRRET(w)
      /\ headLost' = (headLost \/ LosesHead(sm, e, "group"))
      /\ UNCHANGED <<disk, hdr, nextId, allocated>>
      /\ SameRun

-----------------------------------------------------------------------------
(* DROP TABLE *)

DeleteTableFile(n, f) == disk' = [disk EXCEPT ![n][f] = NoFile]

\* TableDrop: without a main file the group file is left where it is.
DropMain(w) ==
  /\ At(w, "unlinkmain") /\ ~Gone(w)
  /\ DeleteTableFile(s[w].name, "main")
  /\ Goto(w, IF disk[s[w].name]["main"] = NoFile THEN "detach" ELSE "unlinkgroup")
  /\ UNCHANGED <<ent, dictLock, sm, hdr, nextId, allocated>>
  /\ SameList /\ Same

DropGroup(w) ==
  /\ At(w, "unlinkgroup") /\ ~Gone(w)
  /\ DeleteTableFile(s[w].name, "group")
  /\ Goto(w, "detach")
  /\ UNCHANGED <<ent, dictLock, sm, hdr, nextId, allocated>>
  /\ SameList /\ Same

\* ReleaseTblInfo under the lock, after DROP and for an entry that was never linked.
Detach(w) ==
  /\ At(w, "detach") /\ Unlocked /\ ~Gone(w)
  /\ DetachTblInfo(s[w].e)
  /\ Goto(w, "release")
  /\ UNCHANGED <<ent, dictLock, nextId, allocated>>
  /\ SameFiles /\ Same

\* The rest of ReleaseTblInfo; a CREATE that failed may have left no descriptors.
ReleaseTblInfo(w) ==
  /\ At(w, "release") /\ ~Gone(w)
  /\ Smgr(w, IF sm.head[s[w].e] = NoVF THEN sm ELSE smgrRelease(sm, s[w].e))
  /\ ent' = [ent EXCEPT ![s[w].e].released = TRUE]
  /\ Finish(w)
  /\ UNCHANGED <<dictLock, disk, hdr, nextId, allocated>>
  /\ SameList /\ Same

-----------------------------------------------------------------------------
(* Statements that use a table *)

\* TableRead of a fork whose descriptor has no file or is missing; an open file is simply
\* read.
Read(w, f) ==
  LET M == GetVFec(sm, s[w].e, f)
      v == VFOf(M, s[w].e, f)
  IN  /\ At(w, "use") /\ ~Gone(w)
      /\ M.pfh[v] = Closed
      /\ Smgr(w, M)
      /\ s' = [s EXCEPT ![w].pc = "reopen", ![w].vf = v]
      /\ headLost' = (headLost \/ LosesHead(sm, s[w].e, f))
      /\ UNCHANGED <<ent, dictLock, disk, hdr, nextId, allocated>>
      /\ SameList /\ SameRun

\* The rest of smgr_open: another session may have opened the file meanwhile.
Reopen(w) ==
  LET file == disk[s[w].name][forkNum(s[w].vf)] IN
  /\ At(w, "reopen") /\ ~Gone(w)
  /\ IF file = NoFile THEN UNCHANGED sm
     ELSE Smgr(w, AddFileToSmgrContext(sm, s[w].vf, file))
  /\ Goto(w, "use")
  /\ UNCHANGED <<ent, dictLock, disk, hdr, nextId, allocated>>
  /\ SameList /\ Same

EndUse(w) ==
  /\ At(w, "use")
  /\ Finish(w)
  /\ UNCHANGED <<ent, dictLock, nextId, allocated>>
  /\ SameList /\ SameFiles /\ Same

\* A session works through an entry that another one has released.
UseReleased(w) ==
  /\ s[w].pc \in {"unlinkmain", "unlinkgroup", "detach", "release", "use", "reopen"} /\ ~wild
  /\ Gone(w)
  /\ Wild

-----------------------------------------------------------------------------
(* The server *)

Restart ==
  /\ ~wild
  /\ restarts < MaxRestarts
  /\ restarts' = restarts + 1
  /\ ent'      = [e \in Entries |-> NoEntry]
  /\ lnext'    = [e \in {g_TblList} \cup Entries |-> IF e = g_TblList THEN g_TblList ELSE NULL]
  /\ lprev'    = lnext'
  /\ dictLock' = NoSession
  /\ sm'       = InitSmgr
  /\ s'        = [w \in Sessions |-> Idle]
  /\ UNCHANGED <<disk, hdr, allocated, started, wild, headLost>>

\* kill -9 or a power failure, and InitToad.
Crash ==
  /\ Restart
  /\ nextId' = savedId
  /\ killed' = TRUE
  /\ UNCHANGED savedId

\* ExitToad when the sessions are over, and InitToad.
ExitToad ==
  /\ Restart
  /\ \A w \in Sessions : s[w].pc = "idle"
  /\ savedId' = nextId
  /\ UNCHANGED <<nextId, killed>>

Next ==
  \/ \E w \in Sessions, n \in Names :
       \/ CreateSearch(w, n)
       \/ \E op \in {"drop", "use"} : GetTableInfo(w, n, op)
  \/ \E w \in Sessions :
       \/ CreateTblInfo(w) \/ CreateMain(w) \/ CreateGroup(w)
       \/ TableFileMainInit(w) \/ TableFileGroupInit(w) \/ CreateEnd(w)
       \/ LoadTblInfo(w) \/ LoadMain(w) \/ LoadGroup(w)
       \/ DropMain(w) \/ DropGroup(w) \/ Detach(w) \/ ReleaseTblInfo(w)
       \/ \E f \in Forks : Read(w, f)
       \/ Reopen(w) \/ EndUse(w)
       \/ UseReleased(w)
  \/ Crash
  \/ ExitToad

Spec == Init /\ [][Next]_vars

-----------------------------------------------------------------------------
(* Properties *)

\* Behaviours are followed up to the first use of a released entry (relCache.c:331), see
\* UseReleased.  Three of the properties are false once a table has lost its first
\* descriptor and are stated up to that step: a DROP that releases the only table with
\* descriptors in the ring between the two descriptors of a CREATE or of a load makes the
\* group descriptor the head (smgr.c:75-78).  The CREATE then finds no main descriptor,
\* opens the file that exists and writes its header page (tables.c:260-263), and the next
\* table finds the group descriptor at the head as its own: its CREATE writes over the
\* group header of the other table, or its load succeeds without a group file.

\* The dictionary (FindTblInfo, GetTableInfoByRel) has one entry for a name and, as long
\* as every stop of the server has saved the counter of GetObjectId, one for an
\* identifier: sessions that load or create the same table at once, stops, and the
\* removals of ReleaseTblInfo that take other entries out of the list along with the
\* dropped one, never make two.
OneEntryPerTable ==
  \A e, f \in Listed : e # f => /\ ent[e].name # ent[f].name
                                /\ killed \/ ent[e].id # ent[f].id

Dropping(w, n) ==
  /\ s[w].name = n
  /\ \/ s[w].pc \in {"unlinkmain", "unlinkgroup"}
     \/ s[w].pc = "detach" /\ lnext[s[w].e] # NULL

\* Both files of the table are there with their header pages, main has the identifier of
\* the entry, and group has it too when this very entry created the table.
Whole(e) ==
  LET n == ent[e].name  main == disk[n]["main"]  group == disk[n]["group"]
  IN  /\ main # NoFile /\ group # NoFile
      /\ hdr[main] = ent[e].id
      /\ hdr[group] # 0
      /\ main = <<e, "main">> => hdr[group] = ent[e].id

\* As long as no table has lost its first descriptor: CREATE TABLE succeeds and
\* LoadTblInfo finds a table only when both files are whole.  What a kill in the middle of
\* CREATE or DROP left behind, a file that the limit on open files closed before its
\* header was written, or a creation that found one of the files already there, never
\* enters the dictionary as a table.  Only a session that is dropping the table at that
\* moment may have its files half removed.
LinkedIsWhole ==
  [][~headLost' =>
       \A e \in Entries :
         lnext[e] = NULL /\ lnext'[e] # NULL
           => \/ Whole(e)'
              \/ \E w \in Sessions : Dropping(w, ent[e].name)]_vars

\* As long as no table has lost its first descriptor, no statement writes over the header
\* page of a table that exists: CREATE of a table that the dictionary does not know,
\* because the server was restarted or the entry was lost, fails and leaves the files as
\* they are (CreateFile, TableWrite).
HeaderWrittenOnce ==
  [][~headLost' => \A i \in Files : hdr[i] # 0 => hdr'[i] = hdr[i]]_vars

\* As long as no table has lost its first descriptor, the walk of FindVF from the head of
\* a table never ends at a descriptor of another table, although the descriptors of all
\* tables are linked in one ring, are taken out of it by DROP in any order, and stay in
\* it when the table was the first.
FindsOwnFile ==
  ~headLost =>
    \A e \in Entries, f \in Forks :
      ~ent[e].released => VFOf(sm, e, f) \in {NoVF, <<e, f>>}
=============================================================================
