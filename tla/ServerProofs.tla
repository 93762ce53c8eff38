---------------------------- MODULE ServerProofs ----------------------------
(***************************************************************************)
(* Theorems about Server.tla, for any number of connections, requests,     *)
(* merges and failures: the counters of the process are right as long as   *)
(* the accesses that no lock orders have not overlapped, and a shutdown    *)
(* closes what it should.                                                  *)
(***************************************************************************)
EXTENDS Server, SequenceTheorems, FiniteSetTheorems, TLAPS

-----------------------------------------------------------------------------
(* Types.                                                                  *)

HandlerPc == {"none", "idle", "table", "read", "write", "number", "finish", "stats", "leave",
              "uncount", "gone"}
Totals == [ops : Nat, time : 0 .. Word - 1]
HandlerState == [pc : HandlerPc, op : {"put", "del", NULL},
                 copy : Int \cup {NULL} \cup Totals,
                 listed : Nat \cup {NULL}, answer : Int \cup {NULL}]
MainState == [pc : {"accept", "count", "create", "number", "add", "exit"},
              conn : Conn \cup {NULL}, copy : Int \cup {NULL}]
MergeState == [pc : {"idle", "ask", "put", "lists", "read", "write"}, todo : SUBSET Key,
               copy : Int \cup {NULL}]
SeenState == [ops : Nat, time : Nat, seconds : Nat, tableRace : BOOLEAN, countRace : BOOLEAN,
              orphans : SUBSET Conn, touched : SUBSET Conn]
UsedState == [conns : 0 .. MaxConns, requests : Nat, merges : Nat, failures : Nat]
StatsState == [clients : Int, ops : Nat, time : 0 .. Word - 1]

\* What a thread has in hand at each place.
HandlerOK(h) ==
    /\ h.pc = "write" => h.copy \in Int
    /\ h.pc = "uncount" => h.copy \in Int
    /\ h.pc = "stats" => h.copy \in Totals
    /\ h.pc \in {"read", "write"} => h.op \in {"put", "del"}
    /\ h.pc \notin {"finish", "stats"} => h.answer = NULL

ProcessOK ==
    /\ process \in {"up", "exited", "crashed"}
    /\ running \in BOOLEAN /\ alive \in BOOLEAN
    /\ signal \in [pc : {"none", "disconnect", "sockets", "done"}, i : Nat \ {0}]
    /\ threads \in Seq(Conn) /\ list \in SUBSET (1 .. Len(threads)) /\ closed \in SUBSET Conn
    /\ used \in UsedState

MainOK ==
    /\ main \in MainState
    /\ main.pc = "count" => main.copy \in Int
    /\ main.pc \in {"count", "create", "number", "add"} => main.conn \in Conn
    /\ main.pc = "add" => Len(threads) > 0 /\ threads[Len(threads)] = main.conn

HandlersOK ==
    /\ handler \in [Conn -> HandlerState]
    /\ \A c \in Conn : HandlerOK(handler[c])

MergeOK ==
    /\ merge \in MergeState
    /\ merge.pc = "write" => merge.copy \in Int

DataOK ==
    /\ keys \in SUBSET Key /\ size \in Int
    /\ tableLock \in Conn \cup {NULL} /\ statsLock \in Conn \cup {NULL}
    /\ stats \in StatsState
    /\ seen \in SeenState

Types == ProcessOK /\ MainOK /\ HandlersOK /\ MergeOK /\ DataOK

LEMMA NullIsNotAConnection == NULL \notin Conn
BY ServerAssumption DEF Conn

-----------------------------------------------------------------------------
(* How a step changes a record.                                            *)

\* The other threads do not move.
Others(c) == \A d \in Conn \ {c} : handler'[d] = handler[d]

LEMMA GoesFacts ==
    ASSUME HandlersOK, NEW c \in Conn, NEW pc \in HandlerPc, Goes(c, pc)
    PROVE  /\ handler' \in [Conn -> HandlerState] /\ Others(c)
           /\ handler'[c].pc = pc /\ handler'[c].op = handler[c].op
           /\ handler'[c].copy = handler[c].copy /\ handler'[c].listed = handler[c].listed
           /\ handler'[c].answer = handler[c].answer
BY DEF HandlersOK, Goes, Others, HandlerState

LEMMA GoesWithFacts ==
    ASSUME HandlersOK, NEW c \in Conn, NEW pc \in HandlerPc,
           NEW copy \in Int \cup {NULL} \cup Totals, GoesWith(c, pc, copy)
    PROVE  /\ handler' \in [Conn -> HandlerState] /\ Others(c)
           /\ handler'[c].pc = pc /\ handler'[c].copy = copy
           /\ handler'[c].op = handler[c].op /\ handler'[c].listed = handler[c].listed
           /\ handler'[c].answer = handler[c].answer
BY DEF HandlersOK, GoesWith, Others, HandlerState

\* A thread that is at pc and has nothing in hand.
Empty(c, pc) ==
    handler'[c] = [pc |-> pc, op |-> NULL, copy |-> NULL, listed |-> NULL, answer |-> NULL]

LEMMA EmptyFacts ==
    ASSUME HandlersOK, NEW c \in Conn, NEW pc \in HandlerPc,
           handler' = [handler EXCEPT ![c] = [NoHandler EXCEPT !.pc = pc]]
    PROVE  /\ handler' \in [Conn -> HandlerState] /\ Others(c) /\ Empty(c, pc)
<1>1. [NoHandler EXCEPT !.pc = pc] =
        [pc |-> pc, op |-> NULL, copy |-> NULL, listed |-> NULL, answer |-> NULL]
  BY DEF NoHandler
<1>2. [pc |-> pc, op |-> NULL, copy |-> NULL, listed |-> NULL, answer |-> NULL] \in HandlerState
  BY DEF HandlerState
<1> QED BY <1>1, <1>2 DEF HandlersOK, Others, Empty

\* Threads that do not move, and a thread that is where it may be, are all right.
LEMMA HandlersKept ==
    ASSUME HandlersOK, NEW c \in Conn, handler' \in [Conn -> HandlerState], Others(c),
           HandlerOK(handler'[c])
    PROVE  HandlersOK'
BY DEF HandlersOK, Others

LEMMA AnswerFacts ==
    ASSUME HandlersOK, NEW c \in Conn, NEW pc \in HandlerPc,
           handler' = [handler EXCEPT ![c] = [NoHandler EXCEPT !.pc = pc]],
           pc \notin {"read", "write", "stats", "uncount"}
    PROVE  HandlersOK'
<1>1. handler' \in [Conn -> HandlerState] /\ Others(c) /\ Empty(c, pc)
  BY EmptyFacts
<1>2. HandlerOK(handler'[c])
  BY <1>1 DEF Empty, HandlerOK
<1> QED BY <1>1, <1>2, HandlersKept

\* What the operations on the table and the statistics leave alone.
BesidesHandlers == UNCHANGED <<process, running, main, signal, threads, list, merge, alive>>

\* The history but for the races and the counters that have changed.
SeenKept ==
    /\ seen' \in SeenState
    /\ seen'.ops = seen.ops /\ seen'.time = seen.time /\ seen'.seconds = seen.seconds
    /\ seen'.countRace = seen.countRace /\ seen'.orphans = seen.orphans

LEMMA RaceFacts ==
    ASSUME DataOK, NEW race \in BOOLEAN, seen' = [seen EXCEPT !.tableRace = @ \/ race]
    PROVE  /\ SeenKept /\ seen'.touched = seen.touched
           /\ seen'.tableRace = (seen.tableRace \/ race)
<1>1. (seen.tableRace \/ race) \in BOOLEAN /\ seen \in SeenState
  BY DEF DataOK, SeenState
<1>2. SeenKept /\ seen'.touched = seen.touched
  BY <1>1 DEF SeenKept, SeenState
<1>3. seen'.tableRace = (seen.tableRace \/ race)
  BY <1>1 DEF SeenState
<1> QED BY <1>2, <1>3

\* The same for an update that says which answers it may have spoiled.
LEMMA TouchFacts ==
    ASSUME DataOK, NEW changed \in SUBSET Conn, seen' = [seen EXCEPT !.touched = changed]
    PROVE  SeenKept /\ seen'.touched = changed /\ seen'.tableRace = seen.tableRace
BY DEF DataOK, SeenState, SeenKept

\* A history that does not change.
LEMMA SeenUnchanged ==
    ASSUME DataOK, UNCHANGED seen
    PROVE  SeenKept /\ seen'.touched = seen.touched /\ seen'.tableRace = seen.tableRace
BY DEF DataOK, SeenKept

UsedKept == used' \in UsedState /\ used'.conns = used.conns

LEMMA ReceiveFacts ==
    ASSUME ProcessOK, NEW c \in Conn, Receive(c)
    PROVE  handler[c].pc = "idle" /\ UsedKept
BY DEF ProcessOK, Receive, At, UsedState, UsedKept

LEMMA UsedUnchanged ==
    ASSUME ProcessOK, UNCHANGED used
    PROVE  UsedKept
BY DEF ProcessOK, UsedKept

-----------------------------------------------------------------------------
(* What each operation of a handler does.                                  *)

\* A step of a thread in the table.
TableMove(c) ==
    /\ BesidesHandlers /\ UNCHANGED <<closed, statsLock, stats>>
    /\ Others(c) /\ HandlersOK' /\ UsedKept /\ SeenKept
    /\ seen.tableRace => seen'.tableRace
    /\ handler[c].pc \in {"idle", "table", "read", "write", "number"}
    /\ handler'[c].pc \in {"table", "read", "write", "number", "finish", "idle", "leave"}

\* It neither inserts nor deletes.
LooksOnly == UNCHANGED <<keys, size, tableLock>>

LEMMA FinishesFacts ==
    ASSUME HandlersOK, NEW c \in Conn, Finishes(c)
    PROVE  HandlersOK' /\ Others(c) /\ handler'[c].pc = "finish" /\ handler'[c].answer = NULL
<1>1. "finish" \in HandlerPc
  BY DEF HandlerPc
<1>2. handler' = [handler EXCEPT ![c] = [NoHandler EXCEPT !.pc = "finish"]]
  BY DEF Finishes
<1>3. HandlersOK'
  BY <1>1, <1>2, AnswerFacts
<1>4. Others(c) /\ Empty(c, "finish")
  BY <1>1, <1>2, EmptyFacts
<1> QED BY <1>3, <1>4 DEF Empty

LEMMA SendFacts ==
    ASSUME HandlersOK, NEW c \in Conn, network_send(c)
    PROVE  /\ HandlersOK' /\ Others(c)
           /\ handler'[c].pc \in {"idle", "leave"} /\ handler'[c].answer = NULL
<1> DEFINE pc == IF c \in closed THEN "leave" ELSE "idle"
<1>1. handler' = [handler EXCEPT ![c] = [NoHandler EXCEPT !.pc = pc]]
  BY DEF network_send
<1>2. pc \in HandlerPc /\ pc \in {"idle", "leave"}
  BY DEF HandlerPc
<1> HIDE DEF pc
<1>3. HandlersOK'
  BY <1>1, <1>2, AnswerFacts
<1>4. Others(c) /\ Empty(c, pc)
  BY <1>1, <1>2, EmptyFacts
<1> QED BY <1>2, <1>3, <1>4 DEF Empty

LEMMA EnterFacts ==
    ASSUME Types, NEW c \in Conn, Enter(c)
    PROVE  /\ TableMove(c) /\ UNCHANGED <<keys, size>> /\ alive
           /\ tableLock = NULL /\ tableLock' = c
           /\ handler[c].pc = "idle" /\ handler'[c].pc = "table"
           /\ seen'.touched = seen.touched /\ (Merging => seen'.tableRace)
<1>1. handler[c].pc = "idle" /\ UsedKept
  BY ReceiveFacts DEF Types, Enter
<1>2. "table" \in HandlerPc /\ Goes(c, "table")
  BY DEF HandlerPc, Enter
<1>3. /\ handler' \in [Conn -> HandlerState] /\ Others(c) /\ handler'[c].pc = "table"
      /\ handler'[c].answer = handler[c].answer
  BY <1>2, GoesFacts DEF Types
<1>4. HandlerOK(handler'[c])
  BY <1>1, <1>3 DEF Types, HandlersOK, HandlerOK
<1>5. HandlersOK'
  BY <1>3, <1>4, HandlersKept DEF Types
<1>6. Merging \in BOOLEAN /\ seen' = [seen EXCEPT !.tableRace = @ \/ Merging]
  BY DEF Merging, Enter
<1>7. /\ SeenKept /\ seen'.touched = seen.touched
      /\ seen'.tableRace = (seen.tableRace \/ Merging)
  BY <1>6, RaceFacts DEF Types
<1>8. /\ BesidesHandlers /\ UNCHANGED <<closed, statsLock, stats, keys, size>> /\ alive
      /\ tableLock = NULL /\ tableLock' = c
  BY DEF Enter, BesidesTable, BesidesHandlers
<1> QED BY <1>1, <1>3, <1>5, <1>7, <1>8 DEF TableMove

\* What a thread in the lists leaves alone.
LEMMA ListsFrame ==
    ASSUME Types, NEW c \in Conn, InLists(c), UNCHANGED BesidesLists
    PROVE  /\ BesidesHandlers /\ UNCHANGED <<closed, statsLock, stats, size>>
           /\ UsedKept /\ alive /\ handler[c].pc = "table" /\ handler[c].answer = NULL
<1>1. /\ UNCHANGED <<process, running, main, signal, threads, list, closed, merge, alive,
                     statsLock, stats, used, size>>
      /\ alive /\ handler[c].pc = "table"
  BY DEF InLists, At, BesidesLists, BesidesTable
<1>2. handler[c].answer = NULL
  BY <1>1 DEF Types, HandlersOK, HandlerOK
<1> QED BY <1>1, <1>2, UsedUnchanged DEF BesidesHandlers, Types

LEMMA UnlocksFacts ==
    ASSUME Types, NEW c \in Conn, InLists(c), Unlocks(c)
    PROVE  /\ TableMove(c) /\ UNCHANGED size /\ alive /\ tableLock' = NULL
           /\ handler[c].pc = "table" /\ handler'[c].pc = "finish" /\ handler'[c].answer = NULL
           /\ seen'.touched = seen.touched
<1>1. HandlersOK' /\ Others(c) /\ handler'[c].pc = "finish" /\ handler'[c].answer = NULL
  BY FinishesFacts DEF Types, Unlocks
<1>2. SeenKept /\ seen'.touched = seen.touched /\ seen'.tableRace = seen.tableRace
  BY SeenUnchanged DEF Types, Unlocks
<1>3. /\ BesidesHandlers /\ UNCHANGED <<closed, statsLock, stats, size>>
      /\ UsedKept /\ alive /\ handler[c].pc = "table"
  BY ListsFrame DEF Unlocks
<1>4. tableLock' = NULL
  BY DEF Unlocks
<1> QED BY <1>1, <1>2, <1>3, <1>4 DEF TableMove

\* A thread that has changed the lists goes on to the counter.
LEMMA CountsFacts ==
    ASSUME Types, NEW c \in Conn, NEW op \in {"put", "del"}, InLists(c), Counts(c, op)
    PROVE  /\ TableMove(c) /\ UNCHANGED <<size, tableLock>> /\ alive
           /\ handler[c].pc = "table" /\ handler'[c].pc = "read" /\ handler'[c].op = op
           /\ seen'.touched = seen.touched
<1>1. /\ BesidesHandlers /\ UNCHANGED <<closed, statsLock, stats, size>>
      /\ UsedKept /\ alive /\ handler[c].pc = "table" /\ handler[c].answer = NULL
  BY ListsFrame DEF Counts
<1>2. handler' = [handler EXCEPT ![c].pc = "read", ![c].op = op]
  BY DEF Counts
<1>3. handler' \in [Conn -> HandlerState]
  BY <1>2 DEF Types, HandlersOK, HandlerState, HandlerPc
<1>4. Others(c) /\ handler'[c].pc = "read" /\ handler'[c].op = op
      /\ handler'[c].answer = handler[c].answer
  BY <1>2 DEF Types, HandlersOK, HandlerState, Others
<1>5. HandlerOK(handler'[c])
  BY <1>1, <1>4 DEF HandlerOK
<1>6. HandlersOK'
  BY <1>3, <1>4, <1>5, HandlersKept DEF Types
<1>7. SeenKept /\ seen'.touched = seen.touched /\ seen'.tableRace = seen.tableRace
  BY SeenUnchanged DEF Types, Counts
<1>8. UNCHANGED tableLock
  BY DEF Counts
<1> QED BY <1>1, <1>4, <1>6, <1>7, <1>8 DEF TableMove

\* GETKEYS has its keys.
ListsKeys(c) ==
    /\ handler' = [handler EXCEPT ![c].pc = "number", ![c].listed = Cardinality(keys)]
    /\ tableLock' = NULL
    /\ seen' = [seen EXCEPT !.touched = @ \ {c}]
    /\ UNCHANGED <<BesidesLists, keys>>

LEMMA ListsKeysFacts ==
    ASSUME Types, NEW c \in Conn, InLists(c), ListsKeys(c)
    PROVE  /\ TableMove(c) /\ UNCHANGED <<keys, size>> /\ alive /\ tableLock' = NULL
           /\ handler[c].pc = "table" /\ handler'[c].pc = "number"
           /\ handler'[c].listed = Cardinality(keys)
           /\ seen'.touched = seen.touched \ {c}
<1>1. /\ BesidesHandlers /\ UNCHANGED <<closed, statsLock, stats, size>>
      /\ UsedKept /\ alive /\ handler[c].pc = "table" /\ handler[c].answer = NULL
  BY ListsFrame DEF ListsKeys
<1>2. Cardinality(keys) \in Nat
  BY ServerAssumption, FS_Subset, FS_CardinalityType DEF Types, DataOK
<1>3. handler' = [handler EXCEPT ![c].pc = "number", ![c].listed = Cardinality(keys)]
  BY DEF ListsKeys
<1>4. handler' \in [Conn -> HandlerState]
  BY <1>2, <1>3 DEF Types, HandlersOK, HandlerState, HandlerPc
<1>5. /\ Others(c) /\ handler'[c].pc = "number" /\ handler'[c].listed = Cardinality(keys)
      /\ handler'[c].answer = handler[c].answer
  BY <1>3 DEF Types, HandlersOK, HandlerState, Others
<1>6. HandlerOK(handler'[c])
  BY <1>1, <1>5 DEF HandlerOK
<1>7. HandlersOK'
  BY <1>4, <1>5, <1>6, HandlersKept DEF Types
<1>8. seen.touched \ {c} \in SUBSET Conn
  BY DEF Types, DataOK, SeenState
<1>9. seen' = [seen EXCEPT !.touched = seen.touched \ {c}]
  BY DEF ListsKeys
<1>10. SeenKept /\ seen'.touched = seen.touched \ {c} /\ seen'.tableRace = seen.tableRace
  BY <1>8, <1>9, TouchFacts DEF Types
<1>11. UNCHANGED keys /\ tableLock' = NULL
  BY DEF ListsKeys
<1> QED BY <1>1, <1>5, <1>7, <1>10, <1>11 DEF TableMove

\* A thread in the lists looks only, inserts, deletes, or lists the keys.
UsesLists(c) ==
    table_put(c) \/ table_remove(c) \/ table_get(c) \/ table_get_keys(c) \/ get_all_entries(c)
Inserts(c) == \E k \in Key \ keys : keys' = keys \cup {k} /\ Counts(c, "put")
Deletes(c) == \E k \in keys : keys' = keys \ {k} /\ Counts(c, "del")

LEMMA ListCases ==
    ASSUME NEW c \in Conn, UsesLists(c)
    PROVE  /\ InLists(c)
           /\ \/ Unlocks(c) /\ UNCHANGED keys
              \/ Inserts(c)
              \/ Deletes(c)
              \/ ListsKeys(c)
<1>1. CASE table_put(c)
  <2>1. PICK k \in Key : keys' = keys \cup {k}
                         /\ IF k \in keys THEN Unlocks(c) ELSE Counts(c, "put")
    BY <1>1 DEF table_put
  <2>2. k \in keys => UNCHANGED keys
    BY <2>1
  <2> QED BY <1>1, <2>1, <2>2 DEF table_put, Inserts
<1>2. CASE table_remove(c)
  BY <1>2 DEF table_remove, Deletes
<1>3. CASE table_get(c) \/ get_all_entries(c)
  BY <1>3 DEF table_get, get_all_entries
<1>4. CASE table_get_keys(c)
  BY <1>4 DEF table_get_keys, ListsKeys
<1> QED BY <1>1, <1>2, <1>3, <1>4 DEF UsesLists

LEMMA ListMoves ==
    ASSUME Types, NEW c \in Conn, UsesLists(c)
    PROVE  /\ TableMove(c) /\ UNCHANGED size /\ keys' \in SUBSET Key
           /\ tableLock' \in {NULL, tableLock}
           /\ handler[c].pc = "table" /\ handler'[c].answer = NULL
           /\ seen.touched \ {c} \subseteq seen'.touched
<1>1. CASE Unlocks(c) /\ UNCHANGED keys
  BY <1>1, ListCases, UnlocksFacts DEF Types, DataOK
<1>2. CASE Inserts(c) \/ Deletes(c)
  <2>1. PICK op \in {"put", "del"} : Counts(c, op)
    BY <1>2 DEF Inserts, Deletes
  <2>2. keys' \in SUBSET Key
    BY <1>2 DEF Inserts, Deletes, Types, DataOK
  <2>3. /\ TableMove(c) /\ UNCHANGED <<size, tableLock>> /\ handler[c].pc = "table"
        /\ handler'[c].pc = "read" /\ seen'.touched = seen.touched
    BY <2>1, ListCases, CountsFacts
  <2>4. handler'[c].answer = NULL
    BY <2>3 DEF TableMove, HandlersOK, HandlerOK
  <2> QED BY <2>2, <2>3, <2>4
<1>3. CASE ListsKeys(c)
  <2>1. /\ TableMove(c) /\ UNCHANGED <<keys, size>> /\ tableLock' = NULL
        /\ handler[c].pc = "table" /\ handler'[c].pc = "number"
        /\ seen'.touched = seen.touched \ {c}
    BY <1>3, ListCases, ListsKeysFacts
  <2>2. handler'[c].answer = NULL
    BY <2>1 DEF TableMove, HandlersOK, HandlerOK
  <2> QED BY <2>1, <2>2 DEF Types, DataOK
<1> QED BY ListCases, <1>1, <1>2, <1>3

LEMMA ReadSizeFacts ==
    ASSUME Types, NEW c \in Conn, ReadSize(c)
    PROVE  /\ TableMove(c) /\ LooksOnly /\ alive /\ handler[c].pc = "read"
           /\ handler'[c].pc = "write" /\ handler'[c].copy = size
           /\ handler'[c].op = handler[c].op
           /\ seen'.touched = seen.touched
<1>1. "write" \in HandlerPc /\ size \in Int \cup {NULL} \cup Totals
  BY DEF HandlerPc, Types, DataOK
<1>2. handler[c].pc = "read" /\ GoesWith(c, "write", size)
  BY DEF ReadSize, At
<1>3. /\ handler' \in [Conn -> HandlerState] /\ Others(c)
      /\ handler'[c].pc = "write" /\ handler'[c].copy = size
      /\ handler'[c].op = handler[c].op /\ handler'[c].answer = handler[c].answer
  BY <1>1, <1>2, GoesWithFacts DEF Types
<1>4. HandlerOK(handler'[c])
  BY <1>2, <1>3 DEF Types, HandlersOK, DataOK, HandlerOK
<1>5. HandlersOK'
  BY <1>3, <1>4, HandlersKept DEF Types
<1>6. SeenKept /\ seen'.touched = seen.touched /\ seen'.tableRace = seen.tableRace
  BY SeenUnchanged DEF Types, ReadSize
<1>7. UsedKept
  BY UsedUnchanged DEF Types, ReadSize
<1>8. BesidesHandlers /\ UNCHANGED <<closed, statsLock, stats>> /\ LooksOnly /\ alive
  BY DEF ReadSize, BesidesTable, BesidesHandlers, LooksOnly
<1> QED BY <1>2, <1>3, <1>5, <1>6, <1>7, <1>8 DEF TableMove

LEMMA WriteSizeFacts ==
    ASSUME Types, NEW c \in Conn, WriteSize(c)
    PROVE  /\ TableMove(c) /\ UNCHANGED keys /\ alive /\ tableLock' = NULL
           /\ handler[c].pc = "write" /\ handler'[c].pc = "finish" /\ handler'[c].answer = NULL
           /\ size' = handler[c].copy + IF handler[c].op = "put" THEN 1 ELSE -1
           /\ seen'.touched = seen.touched \cup Listing
<1>1. handler[c].pc = "write"
  BY DEF WriteSize, At
<1>2. HandlersOK' /\ Others(c) /\ handler'[c].pc = "finish" /\ handler'[c].answer = NULL
  BY FinishesFacts DEF Types, WriteSize
<1>3. seen.touched \cup Listing \in SUBSET Conn
  BY DEF Listing, Types, DataOK, SeenState
<1>4. seen' = [seen EXCEPT !.touched = seen.touched \cup Listing]
  BY DEF WriteSize
<1>5. /\ SeenKept /\ seen'.touched = seen.touched \cup Listing
      /\ seen'.tableRace = seen.tableRace
  BY <1>3, <1>4, TouchFacts DEF Types
<1>6. UsedKept
  BY UsedUnchanged DEF Types, WriteSize
<1>7. BesidesHandlers /\ UNCHANGED <<closed, statsLock, stats>> /\ alive
  BY DEF WriteSize, BesidesTable, BesidesHandlers
<1>8. UNCHANGED keys /\ tableLock' = NULL
      /\ size' = handler[c].copy + IF handler[c].op = "put" THEN 1 ELSE -1
  BY DEF WriteSize
<1> QED BY <1>1, <1>2, <1>5, <1>6, <1>7, <1>8 DEF TableMove

LEMMA SizeFacts ==
    ASSUME Types, NEW c \in Conn, table_size(c)
    PROVE  /\ TableMove(c) /\ LooksOnly
           /\ handler[c].pc = "idle" /\ handler'[c].pc = "finish" /\ handler'[c].answer = NULL
           /\ seen'.touched = seen.touched
<1>1. handler[c].pc = "idle" /\ UsedKept
  BY ReceiveFacts DEF Types, table_size
<1>2. HandlersOK' /\ Others(c) /\ handler'[c].pc = "finish" /\ handler'[c].answer = NULL
  BY FinishesFacts DEF Types, table_size
<1>3. SeenKept /\ seen'.touched = seen.touched /\ seen'.tableRace = seen.tableRace
  BY SeenUnchanged DEF Types, table_size
<1>4. BesidesHandlers /\ UNCHANGED <<closed, statsLock, stats>> /\ LooksOnly
  BY DEF table_size, BesidesTable, BesidesHandlers, LooksOnly
<1> QED BY <1>1, <1>2, <1>3, <1>4 DEF TableMove

LEMMA CountKeysFacts ==
    ASSUME Types, NEW c \in Conn, CountKeys(c)
    PROVE  /\ TableMove(c) /\ LooksOnly /\ alive
           /\ handler[c].pc = "number" /\ handler'[c].pc = "finish"
           /\ handler'[c].listed = handler[c].listed
           /\ handler'[c].answer # NULL => handler'[c].answer = size
           /\ seen'.touched = seen.touched /\ seen'.tableRace = seen.tableRace
<1>1. handler[c].pc = "number"
  BY DEF CountKeys, At
<1>2. PICK answer \in Int \cup {NULL} :
         /\ handler' = [handler EXCEPT ![c].pc = "finish", ![c].answer = answer]
         /\ answer # NULL => answer = size
  BY DEF CountKeys, Types, DataOK
<1>3. handler' \in [Conn -> HandlerState]
  BY <1>2 DEF Types, HandlersOK, HandlerState, HandlerPc
<1>4. /\ Others(c) /\ handler'[c].pc = "finish" /\ handler'[c].answer = answer
      /\ handler'[c].listed = handler[c].listed
  BY <1>2 DEF Types, HandlersOK, HandlerState, Others
<1>5. HandlersOK'
  <2>1. HandlerOK(handler'[c])
    BY <1>4 DEF HandlerOK
  <2> QED BY <1>3, <1>4, <2>1, HandlersKept DEF Types
<1>6. SeenKept /\ seen'.touched = seen.touched /\ seen'.tableRace = seen.tableRace
  BY SeenUnchanged DEF Types, CountKeys
<1>7. UsedKept
  BY UsedUnchanged DEF Types, CountKeys
<1>8. BesidesHandlers /\ UNCHANGED <<closed, statsLock, stats>> /\ LooksOnly /\ alive
  BY DEF CountKeys, BesidesTable, BesidesHandlers, LooksOnly
<1> QED BY <1>1, <1>2, <1>4, <1>5, <1>6, <1>7, <1>8 DEF TableMove

LEMMA DestroyedFacts ==
    ASSUME Types, NEW c \in Conn, UseDestroyed(c)
    PROVE  /\ TableMove(c) /\ LooksOnly /\ ~alive
           /\ handler'[c].pc = "finish" /\ handler'[c].answer = NULL
           /\ seen'.touched = seen.touched
<1>1. handler[c].pc \in {"idle", "table", "read", "write", "number"} /\ UsedKept
  BY ReceiveFacts, UsedUnchanged DEF Types, UseDestroyed, UsesTable, At
<1>2. HandlersOK' /\ Others(c) /\ handler'[c].pc = "finish" /\ handler'[c].answer = NULL
  BY FinishesFacts DEF Types, UseDestroyed
<1>3. SeenKept /\ seen'.touched = seen.touched /\ seen'.tableRace = seen.tableRace
  BY SeenUnchanged DEF Types, UseDestroyed
<1>4. BesidesHandlers /\ UNCHANGED <<closed, statsLock, stats>> /\ LooksOnly /\ ~alive
  BY DEF UseDestroyed, BesidesTable, BesidesHandlers, LooksOnly
<1> QED BY <1>1, <1>2, <1>3, <1>4 DEF TableMove

LEMMA ServeStatsFacts ==
    ASSUME Types, NEW c \in Conn, ServeStats(c)
    PROVE  /\ TableMove(c) /\ LooksOnly
           /\ handler[c].pc = "idle" /\ handler'[c].pc \in {"idle", "leave"}
           /\ handler'[c].answer = NULL /\ seen'.touched = seen.touched
<1>1. handler[c].pc = "idle" /\ UsedKept
  BY ReceiveFacts DEF Types, ServeStats
<1>2. /\ HandlersOK' /\ Others(c)
      /\ handler'[c].pc \in {"idle", "leave"} /\ handler'[c].answer = NULL
  BY SendFacts DEF Types, ServeStats
<1>3. SeenKept /\ seen'.touched = seen.touched /\ seen'.tableRace = seen.tableRace
  BY SeenUnchanged DEF Types, ServeStats
<1>4. BesidesHandlers /\ UNCHANGED <<closed, statsLock, stats>> /\ LooksOnly
  BY DEF ServeStats, BesidesTable, BesidesHandlers, LooksOnly
<1> QED BY <1>1, <1>2, <1>3, <1>4 DEF TableMove

\* A step of a thread that has done with the table.
StatsMove(c) ==
    /\ BesidesHandlers /\ LooksOnly /\ UNCHANGED closed
    /\ Others(c) /\ HandlersOK' /\ UsedKept
    /\ seen' \in SeenState /\ stats' \in StatsState /\ statsLock' \in Conn \cup {NULL}
    /\ stats'.clients = stats.clients
    /\ seen'.tableRace = seen.tableRace /\ seen'.countRace = seen.countRace
    /\ seen'.orphans = seen.orphans
    /\ handler[c].pc \in {"finish", "stats"}
    /\ handler'[c].pc \in {"stats", "idle", "leave"}

LEMMA BeginStatsFacts ==
    ASSUME Types, NEW c \in Conn, BeginStats(c)
    PROVE  /\ StatsMove(c) /\ UNCHANGED stats
           /\ handler[c].pc = "finish" /\ handler'[c].pc = "stats"
           /\ handler'[c].copy = [ops |-> stats.ops, time |-> stats.time]
           /\ handler'[c].answer = handler[c].answer /\ handler'[c].listed = handler[c].listed
           /\ seen'.ops = seen.ops + 1 /\ seen'.time = seen.time
           /\ seen'.seconds = seen.seconds /\ seen'.touched = seen.touched
           /\ alive => statsLock = NULL /\ statsLock' = c
<1>1. handler[c].pc = "finish"
  BY DEF BeginStats, At
<1>2. "stats" \in HandlerPc /\ [ops |-> stats.ops, time |-> stats.time] \in Totals
  BY DEF HandlerPc, Types, DataOK, StatsState, Totals
<1>3. GoesWith(c, "stats", [ops |-> stats.ops, time |-> stats.time])
  BY DEF BeginStats
<1>4. /\ handler' \in [Conn -> HandlerState] /\ Others(c)
      /\ handler'[c].pc = "stats"
      /\ handler'[c].copy = [ops |-> stats.ops, time |-> stats.time]
      /\ handler'[c].answer = handler[c].answer /\ handler'[c].listed = handler[c].listed
  BY <1>2, <1>3, GoesWithFacts DEF Types
<1>5. HandlersOK'
  <2>1. HandlerOK(handler'[c])
    BY <1>2, <1>4 DEF HandlerOK
  <2> QED BY <1>4, <2>1, HandlersKept DEF Types
<1>6. seen' = [seen EXCEPT !.ops = @ + 1] /\ seen \in SeenState
  BY DEF BeginStats, Types, DataOK
<1>7. /\ seen' \in SeenState /\ seen'.ops = seen.ops + 1 /\ seen'.time = seen.time
      /\ seen'.seconds = seen.seconds /\ seen'.touched = seen.touched
      /\ seen'.tableRace = seen.tableRace /\ seen'.countRace = seen.countRace
      /\ seen'.orphans = seen.orphans
  BY <1>6 DEF SeenState
<1>8. statsLock' \in Conn \cup {NULL} /\ (alive => statsLock = NULL /\ statsLock' = c)
  BY DEF BeginStats, LocksStats, Types, DataOK
<1>9. BesidesHandlers /\ LooksOnly /\ UNCHANGED <<closed, used, stats>> /\ stats' \in StatsState
  BY DEF BeginStats, BesidesStats, table, BesidesHandlers, LooksOnly, Types, DataOK
<1>10. UsedKept
  BY <1>9, UsedUnchanged DEF Types
<1> QED BY <1>1, <1>4, <1>5, <1>7, <1>8, <1>9, <1>10 DEF StatsMove

\* What an operation adds to the total of the time when it began at microsecond
\* s of its second and took d of them.
Added(total, s, d) == (total + ((s + d) % Second) - s) % Word

LEMMA EndStatsFacts ==
    ASSUME Types, NEW c \in Conn, EndStats(c)
    PROVE  /\ StatsMove(c)
           /\ handler[c].pc = "stats" /\ handler'[c].pc \in {"idle", "leave"}
           /\ handler'[c].answer = NULL
           /\ seen'.touched = seen.touched \ {c} /\ seen'.ops = seen.ops
           /\ statsLock' = NULL /\ stats'.ops = handler[c].copy.ops + 1
           /\ \E s \in Int, d \in Int :
                 /\ stats'.time = Added(handler[c].copy.time, s, d)
                 /\ seen'.time = seen.time + d
                 /\ seen'.seconds = seen.seconds + ((s + d) \div Second)
<1>1. handler[c].pc = "stats" /\ handler[c].copy \in Totals
  BY DEF EndStats, At, Types, HandlersOK, HandlerOK
<1>3. /\ HandlersOK' /\ Others(c)
      /\ handler'[c].pc \in {"idle", "leave"} /\ handler'[c].answer = NULL
  BY SendFacts DEF Types, EndStats
<1>5. PICK s \in 0 .. Second - 1, d \in Duration :
        /\ stats' = [stats EXCEPT !.ops = handler[c].copy.ops + 1,
                                  !.time = Added(handler[c].copy.time, s, d)]
        /\ seen' = [seen EXCEPT !.time = @ + d, !.seconds = @ + (s + d) \div Second,
                                !.touched = @ \ {c}]
  BY DEF EndStats, Added
<1>6. s \in Nat /\ d \in Nat /\ Second \in Nat \ {0} /\ Word \in Nat \ {0}
  BY ServerAssumption
<1>7. (s + d) \div Second \in Nat
  BY <1>6
<1>8. Added(handler[c].copy.time, s, d) \in 0 .. Word - 1
  <2>1. handler[c].copy.time \in Int
    BY <1>1, <1>6 DEF Totals
  <2>2. handler[c].copy.time + ((s + d) % Second) - s \in Int
    BY <1>6, <2>1
  <2> HIDE DEF Totals
  <2> QED BY <1>6, <2>2 DEF Added
<1> DEFINE total == Added(handler[c].copy.time, s, d)
           ops == handler[c].copy.ops + 1
           ended == (s + d) \div Second
<1>13. ops \in Nat
  BY <1>1 DEF Totals
<1>14. /\ stats' = [stats EXCEPT !.ops = ops, !.time = total]
       /\ seen' = [seen EXCEPT !.time = @ + d, !.seconds = @ + ended, !.touched = @ \ {c}]
       /\ total \in 0 .. Word - 1 /\ ended \in Nat
  BY <1>5, <1>7, <1>8
<1> HIDE DEF total, ops, ended
<1>9. /\ stats' \in StatsState /\ stats'.clients = stats.clients
      /\ stats'.ops = ops /\ stats'.time = total
  BY <1>13, <1>14 DEF Types, DataOK, StatsState
<1>10. /\ seen' \in SeenState /\ seen'.ops = seen.ops /\ seen'.touched = seen.touched \ {c}
       /\ seen'.tableRace = seen.tableRace /\ seen'.countRace = seen.countRace
       /\ seen'.orphans = seen.orphans
       /\ seen'.time = seen.time + d
       /\ seen'.seconds = seen.seconds + ended
  <2> DEFINE time == seen.time + d
             seconds == seen.seconds + ended
  <2>1. seen \in SeenState
    BY DEF Types, DataOK
  <2>2. time \in Nat /\ seconds \in Nat
    BY <1>6, <1>14, <2>1 DEF SeenState
  <2> DEFINE touched == seen.touched \ {c}
  <2>3. /\ seen' = [seen EXCEPT !.time = time, !.seconds = seconds, !.touched = touched]
        /\ touched \in SUBSET Conn
    BY <1>14, <2>1 DEF SeenState
  <2> HIDE DEF time, seconds, touched
  <2>4. /\ seen' \in SeenState /\ seen'.time = time /\ seen'.seconds = seconds
        /\ seen'.ops = seen.ops /\ seen'.touched = touched
        /\ seen'.tableRace = seen.tableRace /\ seen'.countRace = seen.countRace
        /\ seen'.orphans = seen.orphans
    BY <2>1, <2>2, <2>3 DEF SeenState
  <2> QED BY <2>4 DEF time, seconds, touched
<1>11. statsLock' = NULL /\ BesidesHandlers /\ LooksOnly /\ UNCHANGED <<closed, used>>
  BY DEF EndStats, BesidesStats, table, BesidesHandlers, LooksOnly
<1>12. UsedKept
  BY <1>11, UsedUnchanged DEF Types
<1>15. StatsMove(c)
  BY <1>1, <1>3, <1>9, <1>10, <1>11, <1>12 DEF StatsMove
<1>16. \E i \in Int, j \in Int :
          /\ stats'.time = Added(handler[c].copy.time, i, j)
          /\ seen'.time = seen.time + j
          /\ seen'.seconds = seen.seconds + ((i + j) \div Second)
  <2>1. s \in Int /\ d \in Int
    BY <1>6
  <2>2. /\ stats'.time = Added(handler[c].copy.time, s, d)
        /\ seen'.seconds = seen.seconds + ((s + d) \div Second)
    BY <1>9, <1>10 DEF total, ended
  <2> QED BY <1>10, <2>1, <2>2
<1>17. stats'.ops = handler[c].copy.ops + 1
  BY <1>9 DEF ops
<1> QED BY <1>1, <1>3, <1>10, <1>11, <1>15, <1>16, <1>17

\* A step of a thread whose connection has ended.
LeaveMove(c) ==
    /\ BesidesHandlers /\ LooksOnly /\ UNCHANGED <<statsLock>>
    /\ closed \subseteq closed' /\ closed' \in SUBSET Conn
    /\ Others(c) /\ HandlersOK' /\ UsedKept
    /\ seen' \in SeenState /\ stats' \in StatsState
    /\ stats'.ops = stats.ops /\ stats'.time = stats.time
    /\ seen'.ops = seen.ops /\ seen'.time = seen.time /\ seen'.seconds = seen.seconds
    /\ seen'.tableRace = seen.tableRace /\ seen'.touched = seen.touched
    /\ seen'.orphans = seen.orphans
    /\ handler'[c].answer = NULL

LEMMA LeaveFacts ==
    ASSUME Types, NEW c \in Conn, Leave(c)
    PROVE  /\ LeaveMove(c) /\ UNCHANGED stats
           /\ handler[c].pc \in {"idle", "leave"} /\ handler'[c].pc = "uncount"
           /\ handler'[c].copy = stats.clients
           /\ seen.countRace \/ main.pc = "count" \/ Counting # {} => seen'.countRace
<1>1. handler[c].pc \in {"idle", "leave"} /\ handler[c].answer = NULL
  BY DEF Leave, At, Types, HandlersOK, HandlerOK
<1>2. "uncount" \in HandlerPc /\ stats.clients \in Int
  BY DEF HandlerPc, Types, DataOK, StatsState
<1>3. /\ handler' \in [Conn -> HandlerState] /\ Others(c) /\ handler'[c].pc = "uncount"
      /\ handler'[c].copy = stats.clients /\ handler'[c].answer = NULL
  BY <1>1, <1>2, GoesWithFacts DEF Types, Leave
<1>4. HandlersOK'
  <2>1. HandlerOK(handler'[c])
    BY <1>2, <1>3 DEF HandlerOK
  <2> QED BY <1>3, <2>1, HandlersKept DEF Types
<1>5. closed \subseteq closed' /\ closed' \in SUBSET Conn
  BY DEF Leave, Types, ProcessOK
<1>6. /\ seen' \in SeenState /\ seen'.ops = seen.ops /\ seen'.time = seen.time
      /\ seen'.seconds = seen.seconds /\ seen'.tableRace = seen.tableRace
      /\ seen'.touched = seen.touched /\ seen'.orphans = seen.orphans
      /\ seen'.countRace = (seen.countRace \/ main.pc = "count" \/ Counting # {})
  <2> DEFINE race == seen.countRace \/ main.pc = "count" \/ Counting # {}
  <2>1. seen \in SeenState /\ race \in BOOLEAN
    BY DEF Types, DataOK, SeenState
  <2>2. seen' = [seen EXCEPT !.countRace = race]
    BY DEF Leave
  <2> HIDE DEF race
  <2>3. /\ seen' \in SeenState /\ seen'.ops = seen.ops /\ seen'.time = seen.time
        /\ seen'.seconds = seen.seconds /\ seen'.tableRace = seen.tableRace
        /\ seen'.touched = seen.touched /\ seen'.orphans = seen.orphans
        /\ seen'.countRace = race
    BY <2>1, <2>2 DEF SeenState
  <2> QED BY <2>3 DEF race
<1>7. BesidesHandlers /\ LooksOnly /\ UNCHANGED <<used, stats, statsLock>>
  BY DEF Leave, shutdown, table, BesidesHandlers, LooksOnly
<1>8. UsedKept
  BY <1>7, UsedUnchanged DEF Types
<1>9. stats' \in StatsState
  BY <1>7 DEF Types, DataOK
<1> QED BY <1>1, <1>3, <1>4, <1>5, <1>6, <1>7, <1>8, <1>9 DEF LeaveMove

LEMMA LeaveWriteFacts ==
    ASSUME Types, NEW c \in Conn, LeaveWrite(c)
    PROVE  /\ LeaveMove(c) /\ UNCHANGED seen
           /\ handler[c].pc = "uncount" /\ handler'[c].pc = "gone"
           /\ stats'.clients = handler[c].copy - 1
<1>1. handler[c].pc = "uncount" /\ handler[c].answer = NULL /\ handler[c].copy \in Int
  BY DEF LeaveWrite, At, Types, HandlersOK, HandlerOK
<1>2. "gone" \in HandlerPc /\ NULL \in Int \cup {NULL} \cup Totals
  BY DEF HandlerPc
<1>3. /\ handler' \in [Conn -> HandlerState] /\ Others(c) /\ handler'[c].pc = "gone"
      /\ handler'[c].answer = NULL
  BY <1>1, <1>2, GoesWithFacts DEF Types, LeaveWrite
<1>4. HandlersOK'
  <2>1. HandlerOK(handler'[c])
    BY <1>3 DEF HandlerOK
  <2> QED BY <1>3, <2>1, HandlersKept DEF Types
<1>5. /\ stats' \in StatsState /\ stats'.ops = stats.ops /\ stats'.time = stats.time
      /\ stats'.clients = handler[c].copy - 1
  <2> DEFINE clients == handler[c].copy - 1
  <2>1. clients \in Int /\ stats \in StatsState
    BY <1>1 DEF Types, DataOK
  <2>2. stats' = [stats EXCEPT !.clients = clients]
    BY DEF LeaveWrite
  <2> HIDE DEF clients
  <2>3. /\ stats' \in StatsState /\ stats'.ops = stats.ops /\ stats'.time = stats.time
        /\ stats'.clients = clients
    BY <2>1, <2>2 DEF StatsState
  <2> QED BY <2>3 DEF clients
<1>6. BesidesHandlers /\ LooksOnly /\ UNCHANGED <<used, closed, statsLock, seen>>
  BY DEF LeaveWrite, BesidesStats, table, BesidesHandlers, LooksOnly
<1>7. seen' \in SeenState /\ closed' \in SUBSET Conn
  BY <1>6 DEF Types, DataOK, ProcessOK
<1>8. UsedKept
  BY <1>6, UsedUnchanged DEF Types
<1> QED BY <1>1, <1>3, <1>4, <1>5, <1>6, <1>7, <1>8 DEF LeaveMove

-----------------------------------------------------------------------------
(* The end of the process.                                                 *)

LEMMA EndsFacts ==
    ASSUME NEW how \in {"exited", "crashed"}, Ends(how)
    PROVE  /\ Types' /\ process' = how /\ signal'.pc = "none"
           /\ \A c \in Conn : handler'[c].answer = NULL
<1>1. NoHandler \in HandlerState /\ HandlerOK(NoHandler) /\ NoHandler.answer = NULL
  BY DEF NoHandler, HandlerState, HandlerPc, HandlerOK
<1>2. HandlersOK' /\ \A c \in Conn : handler'[c].answer = NULL
  BY <1>1 DEF Ends, HandlersOK
<1>3. ProcessOK' /\ process' = how /\ signal'.pc = "none"
  <2>1. signal' \in [pc : {"none", "disconnect", "sockets", "done"}, i : Nat \ {0}]
        /\ signal'.pc = "none"
    BY DEF Ends
  <2>2. used' \in UsedState
    BY ServerAssumption DEF Ends, UsedState
  <2>3. threads' \in Seq(Conn) /\ list' \in SUBSET (1 .. Len(threads'))
        /\ closed' \in SUBSET Conn
    BY DEF Ends
  <2> QED BY <2>1, <2>2, <2>3 DEF Ends, ProcessOK
<1>4. MainOK'
  BY DEF Ends, MainOK, MainState
<1>5. MergeOK'
  BY DEF Ends, MergeOK, MergeState
<1>6. DataOK'
  <2>1. stats' \in StatsState
    BY ServerAssumption DEF Ends, StatsState
  <2>2. seen' \in SeenState
    BY DEF Ends, NoHistory, SeenState
  <2> QED BY <2>1, <2>2 DEF Ends, DataOK
<1> QED BY <1>2, <1>3, <1>4, <1>5, <1>6 DEF Types

-----------------------------------------------------------------------------
(* Every step keeps the types.                                             *)

LEMMA KeysAreFinite ==
    ASSUME DataOK
    PROVE  IsFiniteSet(keys) /\ Cardinality(keys) \in Nat
BY ServerAssumption, FS_Subset, FS_CardinalityType DEF DataOK

\* The variables that handlers leave alone keep their types.
LEMMA BesidesKept ==
    ASSUME Types, BesidesHandlers, closed' \in SUBSET Conn, UsedKept
    PROVE  ProcessOK' /\ MainOK' /\ MergeOK'
<1>1. ProcessOK'
  BY DEF Types, ProcessOK, BesidesHandlers, UsedKept
<1>2. MainOK'
  BY DEF Types, MainOK, BesidesHandlers
<1>3. MergeOK'
  BY DEF Types, MergeOK, BesidesHandlers
<1> QED BY <1>1, <1>2, <1>3

LEMMA TableMoveTypes ==
    ASSUME Types, NEW c \in Conn, TableMove(c),
           keys' \in SUBSET Key, size' \in Int, tableLock' \in Conn \cup {NULL}
    PROVE  Types'
<1>1. closed' \in SUBSET Conn
  BY DEF TableMove, Types, ProcessOK
<1>2. ProcessOK' /\ MainOK' /\ MergeOK'
  BY <1>1, BesidesKept DEF TableMove
<1>3. DataOK'
  BY DEF TableMove, SeenKept, Types, DataOK
<1> QED BY <1>2, <1>3 DEF TableMove, Types

LEMMA StatsMoveTypes ==
    ASSUME Types, NEW c \in Conn, StatsMove(c) \/ LeaveMove(c)
    PROVE  Types'
<1>1. closed' \in SUBSET Conn /\ UsedKept /\ BesidesHandlers /\ HandlersOK'
  BY DEF StatsMove, LeaveMove, Types, ProcessOK
<1>2. ProcessOK' /\ MainOK' /\ MergeOK'
  BY <1>1, BesidesKept
<1>3. DataOK'
  BY DEF StatsMove, LeaveMove, LooksOnly, Types, DataOK
<1> QED BY <1>1, <1>2, <1>3 DEF Types

\* Every step of a handler is one of the moves above, or the end of the process.
LEMMA HandlerCases ==
    ASSUME Types, NEW c \in Conn, client_handler(c)
    PROVE  \/ TableMove(c) /\ (\/ Enter(c) \/ UsesLists(c)
                               \/ ReadSize(c) \/ WriteSize(c)
                               \/ table_size(c) \/ CountKeys(c)
                               \/ UseDestroyed(c) \/ ServeStats(c))
           \/ StatsMove(c) /\ (BeginStats(c) \/ EndStats(c))
           \/ LeaveMove(c) /\ (Leave(c) \/ LeaveWrite(c))
           \/ Ends("crashed")
<1>1. CASE \/ Enter(c) \/ UsesLists(c) \/ ReadSize(c) \/ WriteSize(c)
           \/ table_size(c) \/ CountKeys(c) \/ UseDestroyed(c) \/ ServeStats(c)
  <2>1. TableMove(c)
    BY <1>1, EnterFacts, ListMoves, ReadSizeFacts, WriteSizeFacts, SizeFacts,
       CountKeysFacts, DestroyedFacts, ServeStatsFacts
  <2> QED BY <1>1, <2>1
<1>2. CASE BeginStats(c)
  BY <1>2, BeginStatsFacts
<1>3. CASE EndStats(c)
  <2>1. StatsMove(c)
    BY <1>3, EndStatsFacts
  <2> QED BY <1>3, <2>1
<1>4. CASE Leave(c) \/ LeaveWrite(c)
  BY <1>4, LeaveFacts, LeaveWriteFacts
<1>5. CASE Overrun(c) \/ UseFreed(c) \/ CrashDestroyed(c) \/ PackError(c)
  BY <1>5 DEF Overrun, UseFreed, CrashDestroyed, PackError
<1> QED BY <1>1, <1>2, <1>3, <1>4, <1>5 DEF client_handler, UsesLists

LEMMA HandlerTypes ==
    ASSUME Types, NEW c \in Conn, client_handler(c)
    PROVE  Types'
<1>1. CASE UsesLists(c)
  <2>1. TableMove(c) /\ keys' \in SUBSET Key /\ size' = size
        /\ tableLock' \in Conn \cup {NULL}
    BY <1>1, ListMoves DEF Types, DataOK
  <2> QED BY <2>1, TableMoveTypes DEF Types, DataOK
<1>2. CASE Enter(c)
  <2>1. TableMove(c) /\ keys' = keys /\ size' = size /\ tableLock' = c
    BY <1>2, EnterFacts
  <2> QED BY <2>1, TableMoveTypes DEF Types, DataOK
<1>3. CASE WriteSize(c)
  <2>1. /\ TableMove(c) /\ keys' = keys /\ tableLock' = NULL
        /\ size' = handler[c].copy + IF handler[c].op = "put" THEN 1 ELSE -1
        /\ handler[c].copy \in Int
    BY <1>3, WriteSizeFacts DEF Types, HandlersOK, HandlerOK
  <2>2. size' \in Int
    BY <2>1
  <2> QED BY <2>1, <2>2, TableMoveTypes DEF Types, DataOK
<1>4. CASE \/ ReadSize(c) \/ table_size(c) \/ CountKeys(c) \/ UseDestroyed(c) \/ ServeStats(c)
  <2>1. TableMove(c) /\ LooksOnly
    BY <1>4, ReadSizeFacts, SizeFacts, CountKeysFacts, DestroyedFacts, ServeStatsFacts
  <2> QED BY <2>1, TableMoveTypes DEF LooksOnly, Types, DataOK
<1>5. CASE StatsMove(c) \/ LeaveMove(c)
  BY <1>5, StatsMoveTypes
<1>6. CASE Ends("crashed")
  BY <1>6, EndsFacts
<1> QED BY HandlerCases, <1>1, <1>2, <1>3, <1>4, <1>5, <1>6

\* The main thread, but for its exit: what it changes.
MainMove ==
    /\ UNCHANGED <<process, running, signal, closed, merge, alive, statsLock>> /\ LooksOnly
    /\ ProcessOK' /\ MainOK' /\ HandlersOK' /\ MergeOK' /\ DataOK'
    /\ stats'.ops = stats.ops /\ stats'.time = stats.time
    /\ seen'.ops = seen.ops /\ seen'.time = seen.time /\ seen'.seconds = seen.seconds
    /\ seen'.tableRace = seen.tableRace /\ seen'.touched = seen.touched
    /\ signal.pc \in {"none", "done"}

\* An entry of main, as a record.
MainIs(pc, conn, copy) == main' = [pc |-> pc, conn |-> conn, copy |-> copy]

LEMMA AcceptFacts ==
    ASSUME Types, Accept
    PROVE  /\ MainMove /\ UNCHANGED <<handler, threads, list, stats>>
           /\ main.pc = "accept" /\ main'.pc = "count" /\ main'.conn = used.conns + 1
           /\ main'.copy = stats.clients /\ used'.conns = used.conns + 1
           /\ seen.countRace \/ Counting # {} => seen'.countRace
           /\ seen'.orphans = seen.orphans
<1>1. /\ main.pc = "accept" /\ signal.pc \in {"none", "done"} /\ used.conns < MaxConns
      /\ MainIs("count", used.conns + 1, stats.clients)
      /\ used' = [used EXCEPT !.conns = @ + 1]
      /\ UNCHANGED <<process, running, signal, threads, list, closed, handler, merge, keys,
                     size, alive, tableLock, statsLock, stats>>
  BY DEF Accept, MainAt, MainIs, shutdown, table
<1>2. used' \in UsedState /\ used'.conns = used.conns + 1 /\ used.conns + 1 \in Conn
  <2> DEFINE conns == used.conns + 1
  <2>1. used \in UsedState
    BY DEF Types, ProcessOK
  <2>2. conns \in 1 .. MaxConns
    BY <1>1, <2>1, ServerAssumption DEF UsedState
  <2>3. used' = [used EXCEPT !.conns = conns] /\ conns \in 0 .. MaxConns
    BY <1>1, <2>2
  <2> HIDE DEF conns
  <2>4. used' \in UsedState /\ used'.conns = conns
    BY <2>1, <2>3 DEF UsedState
  <2> QED BY <2>2, <2>4 DEF conns, Conn
<1>3. /\ seen' \in SeenState /\ seen'.ops = seen.ops /\ seen'.time = seen.time
      /\ seen'.seconds = seen.seconds /\ seen'.tableRace = seen.tableRace
      /\ seen'.touched = seen.touched /\ seen'.orphans = seen.orphans
      /\ seen'.countRace = (seen.countRace \/ Counting # {})
  <2> DEFINE race == seen.countRace \/ Counting # {}
  <2>1. seen \in SeenState /\ race \in BOOLEAN
    BY DEF Types, DataOK, SeenState
  <2>2. seen' = [seen EXCEPT !.countRace = race]
    BY DEF Accept
  <2> HIDE DEF race
  <2>3. /\ seen' \in SeenState /\ seen'.ops = seen.ops /\ seen'.time = seen.time
        /\ seen'.seconds = seen.seconds /\ seen'.tableRace = seen.tableRace
        /\ seen'.touched = seen.touched /\ seen'.orphans = seen.orphans
        /\ seen'.countRace = race
    BY <2>1, <2>2 DEF SeenState
  <2> QED BY <2>3 DEF race
<1>4. /\ main'.pc = "count" /\ main'.conn = used.conns + 1 /\ main'.copy = stats.clients
  BY <1>1 DEF MainIs
<1>5. MainOK'
  <2>1. stats.clients \in Int
    BY DEF Types, DataOK, StatsState
  <2> QED BY <1>1, <1>2, <1>4, <2>1 DEF MainOK, MainIs, MainState
<1>6. ProcessOK' /\ HandlersOK' /\ MergeOK'
  BY <1>1, <1>2 DEF Types, ProcessOK, HandlersOK, MergeOK
<1>7. DataOK'
  BY <1>1, <1>3 DEF Types, DataOK
<1> QED BY <1>1, <1>2, <1>3, <1>4, <1>5, <1>6, <1>7 DEF MainMove, LooksOnly

LEMMA StopFacts ==
    ASSUME Types, StopAccepting
    PROVE  /\ MainMove /\ UNCHANGED <<handler, threads, list, stats, used, seen>>
           /\ main.pc = "accept" /\ main'.pc = "exit"
<1>1. /\ main.pc = "accept" /\ signal.pc \in {"none", "done"}
      /\ main' = [main EXCEPT !.pc = "exit"]
      /\ UNCHANGED <<process, running, signal, threads, list, closed, handler, merge, keys,
                     size, alive, tableLock, statsLock, stats, used, seen>>
  BY DEF StopAccepting, MainAt, shutdown, table
<1>2. MainOK' /\ main'.pc = "exit"
  BY <1>1 DEF Types, MainOK, MainState
<1>3. ProcessOK' /\ HandlersOK' /\ MergeOK' /\ DataOK'
  BY <1>1 DEF Types, ProcessOK, HandlersOK, MergeOK, DataOK
<1> QED BY <1>1, <1>2, <1>3 DEF MainMove, LooksOnly

LEMMA CountWriteFacts ==
    ASSUME Types, CountWrite
    PROVE  /\ MainMove /\ UNCHANGED <<handler, threads, list, used, seen>>
           /\ main.pc = "count" /\ main'.pc = "create" /\ main'.conn = main.conn
           /\ stats'.clients = main.copy + 1
<1>1. /\ main.pc = "count" /\ signal.pc \in {"none", "done"}
      /\ main' = [main EXCEPT !.pc = "create", !.copy = NULL]
      /\ UNCHANGED <<process, running, signal, threads, list, closed, handler, merge, keys,
                     size, alive, tableLock, statsLock, used, seen>>
  BY DEF CountWrite, MainAt, shutdown, table
<1>2. MainOK' /\ main'.pc = "create" /\ main'.conn = main.conn
  BY <1>1 DEF Types, MainOK, MainState
<1>3. /\ stats' \in StatsState /\ stats'.ops = stats.ops /\ stats'.time = stats.time
      /\ stats'.clients = main.copy + 1
  <2> DEFINE clients == main.copy + 1
  <2>1. clients \in Int /\ stats \in StatsState
    BY <1>1 DEF Types, DataOK, MainOK
  <2>2. stats' = [stats EXCEPT !.clients = clients]
    BY DEF CountWrite
  <2> HIDE DEF clients
  <2>3. /\ stats' \in StatsState /\ stats'.ops = stats.ops /\ stats'.time = stats.time
        /\ stats'.clients = clients
    BY <2>1, <2>2 DEF StatsState
  <2> QED BY <2>3 DEF clients
<1>4. ProcessOK' /\ HandlersOK' /\ MergeOK'
  BY <1>1 DEF Types, ProcessOK, HandlersOK, MergeOK
<1>5. DataOK'
  BY <1>1, <1>3 DEF Types, DataOK
<1> QED BY <1>1, <1>2, <1>3, <1>4, <1>5 DEF MainMove, LooksOnly

LEMMA LoopTestType == LoopTest \in {"accept", "exit"}
BY DEF LoopTest

LEMMA CreateFacts ==
    ASSUME Types, Create
    PROVE  /\ MainMove /\ UNCHANGED <<threads, list, stats>>
           /\ main.pc = "create" /\ main.conn \in Conn /\ used'.conns = used.conns
           /\ seen'.countRace = seen.countRace
           /\ \/ /\ Others(main.conn) /\ handler'[main.conn].pc = "idle"
                 /\ handler'[main.conn].answer = NULL
                 /\ main'.pc = "number" /\ main'.conn = main.conn
                 /\ seen'.orphans = seen.orphans
              \/ /\ UNCHANGED handler /\ main'.pc \in {"accept", "exit"}
                 /\ seen'.orphans = seen.orphans \cup {main.conn}
<1>1. /\ main.pc = "create" /\ signal.pc \in {"none", "done"} /\ main.conn \in Conn
      /\ UNCHANGED <<process, running, signal, threads, list, closed, merge, keys,
                     size, alive, tableLock, statsLock, stats>>
  BY DEF Create, MainAt, shutdown, table, Types, MainOK
<1>2. CASE /\ handler' = [handler EXCEPT ![main.conn] = [NoHandler EXCEPT !.pc = "idle"]]
           /\ main' = [main EXCEPT !.pc = "number"]
           /\ UNCHANGED <<used, seen>>
  <2>1. "idle" \in HandlerPc
    BY DEF HandlerPc
  <2>2. HandlersOK'
    BY <1>1, <1>2, <2>1, AnswerFacts DEF Types
  <2>3. Others(main.conn) /\ Empty(main.conn, "idle")
    BY <1>1, <1>2, <2>1, EmptyFacts DEF Types
  <2>4. MainOK' /\ main'.pc = "number" /\ main'.conn = main.conn
    BY <1>1, <1>2 DEF Types, MainOK, MainState
  <2>5. ProcessOK' /\ MergeOK' /\ DataOK'
    BY <1>1, <1>2 DEF Types, ProcessOK, MergeOK, DataOK
  <2> QED BY <1>1, <1>2, <2>2, <2>3, <2>4, <2>5 DEF MainMove, LooksOnly, Empty
<1>3. CASE /\ used' = [used EXCEPT !.failures = @ + 1]
           /\ seen' = [seen EXCEPT !.orphans = @ \cup {main.conn}]
           /\ main' = [main EXCEPT !.pc = LoopTest, !.conn = NULL]
           /\ UNCHANGED handler
  <2>1. used' \in UsedState /\ used'.conns = used.conns
    BY <1>3 DEF Types, ProcessOK, UsedState
  <2>2. /\ seen' \in SeenState /\ seen'.ops = seen.ops /\ seen'.time = seen.time
        /\ seen'.seconds = seen.seconds /\ seen'.tableRace = seen.tableRace
        /\ seen'.touched = seen.touched /\ seen'.countRace = seen.countRace
        /\ seen'.orphans = seen.orphans \cup {main.conn}
    BY <1>1, <1>3 DEF Types, DataOK, SeenState
  <2>3. MainOK' /\ main'.pc \in {"accept", "exit"}
    BY <1>3, LoopTestType DEF Types, MainOK, MainState
  <2>4. ProcessOK' /\ HandlersOK' /\ MergeOK'
    BY <1>1, <1>3, <2>1 DEF Types, ProcessOK, HandlersOK, MergeOK
  <2>5. DataOK'
    BY <1>1, <2>2 DEF Types, DataOK
  <2> QED BY <1>1, <1>3, <2>1, <2>2, <2>3, <2>4, <2>5 DEF MainMove, LooksOnly
<1> QED BY <1>2, <1>3 DEF Create

LEMMA NumberFacts ==
    ASSUME Types, Number
    PROVE  /\ MainMove /\ UNCHANGED <<handler, list, used, seen, stats>>
           /\ main.pc = "number" /\ main.conn \in Conn
           /\ main'.pc = "add" /\ main'.conn = main.conn
           /\ threads' = Append(threads, main.conn)
<1>1. /\ main.pc = "number" /\ signal.pc \in {"none", "done"} /\ main.conn \in Conn
      /\ threads' = Append(threads, main.conn)
      /\ main' = [main EXCEPT !.pc = "add"]
      /\ UNCHANGED <<process, running, signal, list, closed, handler, merge, keys,
                     size, alive, tableLock, statsLock, stats, used, seen>>
  BY DEF Number, MainAt, table, Types, MainOK
<1>2. threads' \in Seq(Conn) /\ Len(threads') = Len(threads) + 1
      /\ threads'[Len(threads')] = main.conn /\ Len(threads) \in Nat
  BY <1>1 DEF Types, ProcessOK
<1>3. main'.pc = "add" /\ main'.conn = main.conn /\ main' \in MainState
  BY <1>1 DEF Types, MainOK, MainState
<1>4. MainOK'
  BY <1>1, <1>2, <1>3 DEF MainOK
<1>5. ProcessOK'
  <2>1. list' \in SUBSET (1 .. Len(threads'))
    BY <1>1, <1>2 DEF Types, ProcessOK
  <2> QED BY <1>1, <1>2, <2>1 DEF Types, ProcessOK
<1>6. HandlersOK' /\ MergeOK' /\ DataOK'
  BY <1>1 DEF Types, HandlersOK, MergeOK, DataOK
<1> QED BY <1>1, <1>3, <1>4, <1>5, <1>6 DEF MainMove, LooksOnly

LEMMA AddThreadFacts ==
    ASSUME Types, AddThread
    PROVE  /\ MainMove /\ UNCHANGED <<handler, threads, used, seen, stats>>
           /\ main.pc = "add" /\ main'.pc \in {"accept", "exit"}
           /\ list' = list \cup {Len(threads)}
<1>1. /\ main.pc = "add" /\ signal.pc \in {"none", "done"}
      /\ list' = list \cup {Len(threads)}
      /\ main' = [main EXCEPT !.pc = LoopTest, !.conn = NULL]
      /\ UNCHANGED <<process, running, signal, threads, closed, handler, merge, keys,
                     size, alive, tableLock, statsLock, stats, used, seen>>
  BY DEF AddThread, MainAt, table
<1>2. MainOK' /\ main'.pc \in {"accept", "exit"}
  BY <1>1, LoopTestType DEF Types, MainOK, MainState
<1>3. list' \in SUBSET (1 .. Len(threads))
  BY <1>1 DEF Types, ProcessOK, MainOK
<1>4. ProcessOK'
  BY <1>1, <1>3 DEF Types, ProcessOK
<1>5. HandlersOK' /\ MergeOK' /\ DataOK'
  BY <1>1 DEF Types, HandlersOK, MergeOK, DataOK
<1> QED BY <1>1, <1>2, <1>4, <1>5 DEF MainMove, LooksOnly

\* SIGINT and the shutdown: what it leaves alone.
BesidesSignal == UNCHANGED <<process, main, threads, handler, merge, statsLock, stats, used, seen>>
                 /\ LooksOnly

LEMMA InterruptFacts ==
    ASSUME Types, Interrupt
    PROVE  /\ Types' /\ BesidesSignal /\ UNCHANGED <<list, closed, alive>>
           /\ signal.pc = "none" /\ signal'.pc = "disconnect"
<1>1. /\ signal.pc = "none" /\ signal' = [signal EXCEPT !.pc = "disconnect"]
      /\ UNCHANGED <<process, running, main, threads, list, closed, handler, merge, keys,
                     size, alive, tableLock, statsLock, stats, used, seen>>
  BY DEF Interrupt, SignalAt, table
<1>2. signal'.pc = "disconnect" /\ ProcessOK'
  BY <1>1 DEF Types, ProcessOK
<1>3. MainOK' /\ HandlersOK' /\ MergeOK' /\ DataOK'
  BY <1>1 DEF Types, MainOK, HandlersOK, MergeOK, DataOK
<1> QED BY <1>1, <1>2, <1>3 DEF Types, BesidesSignal, LooksOnly

LEMMA DisconnectFacts ==
    ASSUME Types, Disconnect
    PROVE  /\ Types' /\ BesidesSignal /\ UNCHANGED <<list, closed, alive>>
           /\ signal.pc = "disconnect" /\ signal'.pc = "sockets" /\ signal'.i = 1
<1>1. /\ signal.pc = "disconnect" /\ signal' = [pc |-> "sockets", i |-> 1]
      /\ running' = FALSE
      /\ UNCHANGED <<process, main, threads, list, closed, handler, merge, keys,
                     size, alive, tableLock, statsLock, stats, used, seen>>
  BY DEF Disconnect, SignalAt, table
<1>2. ProcessOK'
  <2>1. signal' \in [pc : {"none", "disconnect", "sockets", "done"}, i : Nat \ {0}]
    BY <1>1
  <2> QED BY <1>1, <2>1 DEF Types, ProcessOK
<1>3. MainOK' /\ HandlersOK' /\ MergeOK' /\ DataOK'
  BY <1>1 DEF Types, MainOK, HandlersOK, MergeOK, DataOK
<1> QED BY <1>1, <1>2, <1>3 DEF Types, BesidesSignal, LooksOnly

LEMMA CloseSocketsFacts ==
    ASSUME Types, CloseSockets
    PROVE  /\ Types' /\ BesidesSignal /\ UNCHANGED alive
           /\ signal.pc = "sockets" /\ signal.i \in 1 .. Len(threads)
           /\ signal'.pc = "sockets" /\ signal'.i = signal.i + 1
           /\ list' = list \ {signal.i}
           /\ closed \subseteq closed'
           /\ signal.i \in list => threads[signal.i] \in closed'
<1>1. /\ signal.pc = "sockets" /\ signal.i =< Len(threads)
      /\ signal' = [signal EXCEPT !.i = @ + 1]
      /\ closed' = closed \cup {threads[i] : i \in list \cap {signal.i}}
      /\ list' = list \ {signal.i}
      /\ UNCHANGED <<process, running, main, threads, handler, merge, keys,
                     size, alive, tableLock, statsLock, stats, used, seen>>
  BY DEF CloseSockets, SignalAt, table
<1>2. signal.i \in 1 .. Len(threads) /\ signal'.pc = "sockets" /\ signal'.i = signal.i + 1
      /\ signal' \in [pc : {"none", "disconnect", "sockets", "done"}, i : Nat \ {0}]
  BY <1>1 DEF Types, ProcessOK
<1>3. closed' \in SUBSET Conn /\ list' \in SUBSET (1 .. Len(threads'))
  <2>1. \A i \in list : threads[i] \in Conn
    BY DEF Types, ProcessOK
  <2> QED BY <1>1, <2>1 DEF Types, ProcessOK
<1>4. ProcessOK'
  BY <1>1, <1>2, <1>3 DEF Types, ProcessOK
<1>5. MainOK' /\ HandlersOK' /\ MergeOK' /\ DataOK'
  BY <1>1 DEF Types, MainOK, HandlersOK, MergeOK, DataOK
<1>6. closed \subseteq closed' /\ (signal.i \in list => threads[signal.i] \in closed')
  BY <1>1
<1> QED BY <1>1, <1>2, <1>4, <1>5, <1>6 DEF Types, BesidesSignal, LooksOnly

LEMMA DestroyFacts ==
    ASSUME Types, Destroy
    PROVE  /\ Types' /\ BesidesSignal /\ UNCHANGED <<list, closed>>
           /\ signal'.pc = "done" /\ alive' = FALSE
<1>1. /\ signal' = [signal EXCEPT !.pc = "done"] /\ alive' = FALSE
      /\ UNCHANGED <<process, running, main, threads, list, closed, handler, merge, keys, size,
                     tableLock, statsLock, stats, used, seen>>
  BY DEF Destroy
<1>2. signal'.pc = "done" /\ ProcessOK'
  BY <1>1 DEF Types, ProcessOK
<1>3. MainOK' /\ HandlersOK' /\ MergeOK' /\ DataOK'
  BY <1>1 DEF Types, MainOK, HandlersOK, MergeOK, DataOK
<1> QED BY <1>1, <1>2, <1>3 DEF Types, BesidesSignal, LooksOnly

\* A step of the merge.
MergeMove ==
    /\ Types' /\ UNCHANGED <<process, running, main, signal, threads, list, closed, handler,
                             alive, tableLock, statsLock, stats>>
    /\ UsedKept /\ SeenKept
    /\ seen.tableRace => seen'.tableRace

\* The types after a step of the merge.
LEMMA MergeTypes ==
    ASSUME Types, MergeOK', UsedKept, SeenKept, keys' \in SUBSET Key, size' \in Int,
           UNCHANGED <<process, running, main, signal, threads, list, closed, handler, alive,
                       tableLock, statsLock, stats>>
    PROVE  Types'
<1>1. ProcessOK'
  BY DEF Types, ProcessOK, UsedKept
<1>2. MainOK' /\ HandlersOK'
  BY DEF Types, MainOK, HandlersOK
<1>3. DataOK'
  BY DEF Types, DataOK, SeenKept
<1> QED BY <1>1, <1>2, <1>3 DEF Types

\* Until the previous server has answered, the table is left alone.
LEMMA MergeAskFacts ==
    ASSUME Types, MergeAsk \/ MergeAnswer
    PROVE  /\ MergeMove /\ UNCHANGED <<keys, size, seen>>
           /\ merge.pc \in {"idle", "ask"} /\ merge'.pc \in {"idle", "ask", "put"}
<1>1. UNCHANGED <<process, running, main, signal, threads, list, closed, handler, alive,
                  tableLock, statsLock, stats, keys, size, seen>>
  BY DEF MergeAsk, MergeAnswer, BesidesMerge, shutdown
<1>2. /\ merge.pc \in {"idle", "ask"} /\ UsedKept
      /\ MergeOK' /\ merge'.pc \in {"idle", "ask", "put"}
  <2>1. CASE MergeAsk
    <3>1. UsedKept
      BY <2>1 DEF MergeAsk, UsedKept, Types, ProcessOK, UsedState
    <3>2. merge' = [merge EXCEPT !.pc = "ask"] /\ merge.pc = "idle"
      BY <2>1 DEF MergeAsk
    <3> QED BY <3>1, <3>2 DEF Types, MergeOK, MergeState
  <2>2. CASE MergeAnswer
    <3>1. UsedKept
      BY <2>2, UsedUnchanged DEF MergeAnswer, Types
    <3>2. PICK todo \in SUBSET Key, pc \in {"idle", "put"} :
             merge' = [merge EXCEPT !.pc = pc, !.todo = todo]
      BY <2>2 DEF MergeAnswer
    <3>3. merge.pc = "ask"
      BY <2>2 DEF MergeAnswer
    <3> QED BY <3>1, <3>2, <3>3 DEF Types, MergeOK, MergeState
  <2> QED BY <2>1, <2>2
<1>3. SeenKept /\ seen'.tableRace = seen.tableRace
  BY <1>1, SeenUnchanged DEF Types
<1>4. Types'
  BY <1>1, <1>2, <1>3, MergeTypes DEF Types, DataOK
<1> QED BY <1>1, <1>2, <1>3, <1>4 DEF MergeMove

LEMMA MergeEnterFacts ==
    ASSUME Types, MergeEnter
    PROVE  /\ MergeMove /\ UNCHANGED <<keys, size>> /\ seen'.touched = seen.touched
           /\ merge.pc = "put" /\ merge'.pc = "lists"
           /\ tableLock # NULL => seen'.tableRace
<1> DEFINE race == tableLock # NULL
<1>1. race \in BOOLEAN /\ seen' = [seen EXCEPT !.tableRace = @ \/ race]
  BY DEF MergeEnter
<1> HIDE DEF race
<1>2. /\ SeenKept /\ seen'.touched = seen.touched
      /\ seen'.tableRace = (seen.tableRace \/ race)
  BY <1>1, RaceFacts DEF Types
<1>3. /\ merge.pc = "put" /\ merge' = [merge EXCEPT !.pc = "lists"]
      /\ UNCHANGED <<process, running, main, signal, threads, list, closed, handler, alive,
                     tableLock, statsLock, stats, keys, size, used>>
  BY DEF MergeEnter, BesidesMerge, shutdown
<1>4. MergeOK' /\ merge'.pc = "lists"
  BY <1>3 DEF Types, MergeOK, MergeState
<1>5. UsedKept
  BY <1>3, UsedUnchanged DEF Types
<1>6. Types'
  BY <1>2, <1>3, <1>4, <1>5, MergeTypes DEF Types, DataOK
<1>7. tableLock # NULL => seen'.tableRace
  BY <1>2 DEF race
<1> QED BY <1>2, <1>3, <1>4, <1>5, <1>6, <1>7 DEF MergeMove

LEMMA ContinuesType == ASSUME NEW todo PROVE Continues(todo) \in {"idle", "put"}
BY DEF Continues

LEMMA MergePutFacts ==
    ASSUME Types, MergePut
    PROVE  /\ MergeMove /\ UNCHANGED <<size, seen>> /\ merge.pc = "lists"
           /\ \/ UNCHANGED keys /\ merge'.pc \in {"idle", "put"}
              \/ \E k \in Key \ keys : keys' = keys \cup {k} /\ merge'.pc = "read"
<1>1. UNCHANGED <<process, running, main, signal, threads, list, closed, handler, alive,
                  tableLock, statsLock, stats, size, used, seen>> /\ merge.pc = "lists"
  BY DEF MergePut, BesidesMerge, shutdown
<1>2. SeenKept /\ seen'.tableRace = seen.tableRace /\ UsedKept
  BY <1>1, SeenUnchanged, UsedUnchanged DEF Types
<1>3. PICK k \in merge.todo :
        /\ keys' = keys \cup {k}
        /\ merge' = [merge EXCEPT !.pc = IF k \in keys THEN Continues(merge.todo \ {k})
                                         ELSE "read",
                                  !.todo = @ \ {k}]
  BY DEF MergePut
<1>4. k \in Key
  BY DEF Types, MergeOK, MergeState
<1> DEFINE pc == IF k \in keys THEN Continues(merge.todo \ {k}) ELSE "read"
<1>5. /\ merge' = [merge EXCEPT !.pc = pc, !.todo = @ \ {k}]
      /\ k \in keys => pc \in {"idle", "put"}
      /\ k \notin keys => pc = "read"
  BY <1>3, ContinuesType
<1> HIDE DEF pc
<1>6. MergeOK' /\ merge'.pc = pc
  <2>1. merge' \in MergeState /\ merge'.pc = pc
    BY <1>5 DEF Types, MergeOK, MergeState
  <2> QED BY <1>5, <2>1 DEF MergeOK
<1>7. Types'
  <2>1. keys' \in SUBSET Key /\ size' \in Int
    BY <1>1, <1>3, <1>4 DEF Types, DataOK
  <2> QED BY <1>1, <1>2, <1>6, <2>1, MergeTypes
<1>8. \/ UNCHANGED keys /\ merge'.pc \in {"idle", "put"}
      \/ \E j \in Key \ keys : keys' = keys \cup {j} /\ merge'.pc = "read"
  <2>1. CASE k \in keys
    BY <1>3, <1>5, <1>6, <2>1
  <2>2. CASE k \notin keys
    BY <1>3, <1>4, <1>5, <1>6, <2>2
  <2> QED BY <2>1, <2>2
<1> QED BY <1>1, <1>2, <1>7, <1>8 DEF MergeMove

LEMMA MergeReadFacts ==
    ASSUME Types, MergeRead
    PROVE  /\ MergeMove /\ UNCHANGED <<keys, size, seen>>
           /\ merge.pc = "read" /\ merge'.pc = "write" /\ merge'.copy = size
<1>1. /\ merge.pc = "read" /\ merge' = [merge EXCEPT !.pc = "write", !.copy = size]
      /\ UNCHANGED <<process, running, main, signal, threads, list, closed, handler, alive,
                     tableLock, statsLock, stats, keys, size, used, seen>>
  BY DEF MergeRead, BesidesMerge, shutdown
<1>2. MergeOK' /\ merge'.pc = "write" /\ merge'.copy = size
  BY <1>1 DEF Types, MergeOK, MergeState, DataOK
<1>3. SeenKept /\ seen'.tableRace = seen.tableRace /\ UsedKept
  BY <1>1, SeenUnchanged, UsedUnchanged DEF Types
<1>4. Types'
  BY <1>1, <1>2, <1>3, MergeTypes DEF Types, DataOK
<1> QED BY <1>1, <1>2, <1>3, <1>4 DEF MergeMove

LEMMA MergeWriteFacts ==
    ASSUME Types, MergeWrite
    PROVE  /\ MergeMove /\ UNCHANGED keys /\ seen'.touched = seen.touched \cup Listing
           /\ merge.pc = "write" /\ merge'.pc \in {"idle", "put"}
           /\ size' = merge.copy + 1
<1>1. seen.touched \cup Listing \in SUBSET Conn
  BY DEF Types, DataOK, SeenState, Listing
<1>2. seen' = [seen EXCEPT !.touched = seen.touched \cup Listing]
  BY DEF MergeWrite
<1>3. /\ SeenKept /\ seen'.touched = seen.touched \cup Listing
      /\ seen'.tableRace = seen.tableRace
  BY <1>1, <1>2, TouchFacts DEF Types
<1>4. /\ merge.pc = "write" /\ size' = merge.copy + 1
      /\ UNCHANGED <<process, running, main, signal, threads, list, closed, handler, alive,
                     tableLock, statsLock, stats, keys, used>>
  BY DEF MergeWrite, BesidesMerge, shutdown
<1>5. MergeOK' /\ merge'.pc \in {"idle", "put"}
  <2> DEFINE pc == Continues(merge.todo)
  <2>1. merge' = [merge EXCEPT !.pc = pc, !.copy = NULL] /\ pc \in {"idle", "put"}
    BY ContinuesType DEF MergeWrite
  <2> HIDE DEF pc
  <2> QED BY <2>1 DEF Types, MergeOK, MergeState
<1>6. UsedKept
  BY <1>4, UsedUnchanged DEF Types
<1>7. Types'
  <2>1. keys' \in SUBSET Key /\ size' \in Int
    BY <1>4 DEF Types, DataOK, MergeOK
  <2> QED BY <1>3, <1>4, <1>5, <1>6, <2>1, MergeTypes
<1> QED BY <1>3, <1>4, <1>5, <1>6, <1>7 DEF MergeMove

\* What all of its steps do, but for the one that ends the process.
LEMMA MergeCases ==
    ASSUME Types, select_prev_server
    PROVE  \/ MergeMove /\ seen.touched \subseteq seen'.touched
           \/ Ends("crashed")
<1>1. CASE MergeLost
  BY <1>1 DEF MergeLost
<1>2. CASE ~MergeLost
  BY <1>2, MergeAskFacts, MergeEnterFacts, MergePutFacts, MergeReadFacts, MergeWriteFacts
     DEF select_prev_server, MergeTable
<1> QED BY <1>1, <1>2

LEMMA InitTypes ==
    ASSUME Init
    PROVE  Types
<1>1. NoHandler \in HandlerState /\ HandlerOK(NoHandler)
  BY DEF NoHandler, HandlerState, HandlerPc, HandlerOK
<1>2. HandlersOK
  BY <1>1 DEF Init, HandlersOK
<1>3. ProcessOK
  <2>1. signal \in [pc : {"none", "disconnect", "sockets", "done"}, i : Nat \ {0}]
    BY DEF Init
  <2>2. used \in UsedState
    BY ServerAssumption DEF Init, UsedState
  <2>3. threads \in Seq(Conn) /\ list \in SUBSET (1 .. Len(threads)) /\ closed \in SUBSET Conn
    BY DEF Init
  <2> QED BY <2>1, <2>2, <2>3 DEF Init, ProcessOK
<1>4. MainOK
  BY DEF Init, MainOK, MainState
<1>5. MergeOK
  BY DEF Init, MergeOK, MergeState
<1>6. DataOK
  <2>1. stats \in StatsState
    BY ServerAssumption DEF Init, StatsState
  <2>2. seen \in SeenState
    BY DEF Init, NoHistory, SeenState
  <2> QED BY <2>1, <2>2 DEF Init, DataOK
<1> QED BY <1>2, <1>3, <1>4, <1>5, <1>6 DEF Types

LEMMA MainTypes ==
    ASSUME Types, network_main_loop
    PROVE  Types'
<1>1. CASE Exit
  BY <1>1, EndsFacts DEF Exit
<1>2. CASE ~Exit
  <2>1. MainMove
    BY <1>2, AcceptFacts, StopFacts, CountWriteFacts, CreateFacts, NumberFacts, AddThreadFacts
       DEF network_main_loop
  <2> QED BY <2>1 DEF MainMove, Types
<1> QED BY <1>1, <1>2

LEMMA TypesStep ==
    ASSUME Types, [Next]_vars
    PROVE  Types'
<1>1. CASE Next
  <2>1. CASE network_main_loop
    BY <2>1, MainTypes
  <2>2. CASE Interrupt \/ table_server_close
    BY <2>2, InterruptFacts, DisconnectFacts, CloseSocketsFacts, DestroyFacts
       DEF table_server_close
  <2>3. CASE select_prev_server
    BY <2>3, MergeCases, EndsFacts DEF MergeMove
  <2>4. ASSUME NEW c \in Conn, client_handler(c)
        PROVE  Types'
    BY <2>4, HandlerTypes
  <2> QED BY <1>1, <2>1, <2>2, <2>3, <2>4 DEF Next
<1>2. CASE UNCHANGED vars
  BY <1>2 DEF vars, Types, ProcessOK, MainOK, HandlersOK, MergeOK, DataOK
<1> QED BY <1>1, <1>2

\* The types that the proofs need say more than TypeOK.
LEMMA TypesSuffice == Types => TypeOK
<1> SUFFICES ASSUME Types
             PROVE  TypeOK
  OBVIOUS
<1>1. \A c \in Conn :
          /\ handler[c].pc \in {"none", "idle", "table", "read", "write", "number",
                               "finish", "stats", "leave", "uncount", "gone"}
          /\ handler[c].op \in {"put", "del", NULL}
          /\ handler[c].listed \in Nat \cup {NULL} /\ handler[c].answer \in Int \cup {NULL}
  BY DEF Types, HandlersOK, HandlerState, HandlerPc
<1>2. /\ merge.pc \in {"idle", "ask", "put", "lists", "read", "write"}
      /\ merge.todo \in SUBSET Key
      /\ merge.copy \in Int \cup {NULL}
  BY DEF Types, MergeOK, MergeState
<1>3. main \in MainState /\ stats \in StatsState
  BY DEF Types, MainOK, DataOK
<1> QED BY <1>1, <1>2, <1>3 DEF TypeOK, Types, ProcessOK, DataOK, MainState, StatsState

-----------------------------------------------------------------------------
(* The shutdown.                                                           *)

\* Thread number j has been given to a thread, which is in the list.
Entered(j) == j \in 1 .. Len(threads) /\ ~(main.pc = "add" /\ j = Len(threads))

\* Every thread has a number, but the one that main is creating.
Numbered(c) == \/ \E j \in 1 .. Len(threads) : threads[j] = c
               \/ main.pc = "number" /\ main.conn = c

\* The list has the threads that are entered, less those that the shutdown has
\* come to, whose sockets are closed.
ListOK ==
    /\ \A c \in Conn : handler[c].pc # "none" => Numbered(c)
    /\ signal.pc \in {"none", "disconnect"} => \A j \in Nat : j \in list <=> Entered(j)
    /\ signal.pc = "sockets" =>
          /\ signal.i \in 1 .. Len(threads) + 1
          /\ \A j \in Nat : j \in list <=> Entered(j) /\ j >= signal.i
          /\ \A j \in Nat : Entered(j) /\ j < signal.i => threads[j] \in closed

ShutdownInv == IF process = "up" THEN ListOK ELSE signal.pc = "none"

\* A step that does not create, number or enter a thread.
LEMMA ListFrame ==
    ASSUME Types, ShutdownInv, UNCHANGED <<process, signal, main, threads, list>>,
           process = "up", closed \subseteq closed',
           \A c \in Conn : handler'[c].pc # "none" => handler[c].pc # "none"
    PROVE  ShutdownInv'
<1>1. ListOK
  BY DEF ShutdownInv
<1>2. \A c \in Conn : Numbered(c)' = Numbered(c)
  BY DEF Numbered
<1>3. \A j \in Nat : Entered(j)' = Entered(j)
  BY DEF Entered
<1>4. \A c \in Conn : handler'[c].pc # "none" => Numbered(c)'
  BY <1>1, <1>2 DEF ListOK
<1>5. ListOK'
  BY <1>1, <1>3, <1>4 DEF ListOK
<1> QED BY <1>5 DEF ShutdownInv

LEMMA ListEnds ==
    ASSUME NEW how \in {"exited", "crashed"}, Ends(how)
    PROVE  ShutdownInv'
<1>1. process' = how /\ signal'.pc = "none"
  BY EndsFacts
<1> QED BY <1>1 DEF ShutdownInv

\* What a handler may do to the connections and their threads.
LEMMA HandlerKeepsList ==
    ASSUME Types, ShutdownInv, process = "up", NEW c \in Conn, client_handler(c)
    PROVE  ShutdownInv'
<1>1. CASE Ends("crashed")
  BY <1>1, ListEnds
<1>2. CASE ~Ends("crashed")
  <2>1. BesidesHandlers /\ Others(c) /\ closed \subseteq closed' /\ handler[c].pc # "none"
    BY <1>2, HandlerCases, LeaveFacts, LeaveWriteFacts DEF TableMove, StatsMove, LeaveMove
  <2>2. \A d \in Conn : handler'[d].pc # "none" => handler[d].pc # "none"
    BY <2>1 DEF Others
  <2>3. UNCHANGED <<process, signal, main, threads, list>>
    BY <2>1 DEF BesidesHandlers
  <2> QED BY <2>1, <2>2, <2>3, ListFrame
<1> QED BY <1>1, <1>2

LEMMA MainKeepsList ==
    ASSUME Types, ShutdownInv, process = "up", network_main_loop
    PROVE  ShutdownInv'
<1>1. CASE Exit
  BY <1>1, ListEnds DEF Exit
<1>2. CASE ~Exit
  <2>1. ListOK /\ Len(threads) \in Nat
    BY DEF ShutdownInv, Types, ProcessOK
  <2>2. MainMove
    BY <1>2, AcceptFacts, StopFacts, CountWriteFacts, CreateFacts, NumberFacts, AddThreadFacts
       DEF network_main_loop
  <2>3. signal' = signal /\ signal.pc \in {"none", "done"} /\ process' = "up"
    BY <2>2 DEF MainMove
  <2> SUFFICES /\ \A c \in Conn : handler'[c].pc # "none" => Numbered(c)'
               /\ signal.pc = "none" => \A j \in Nat : j \in list' <=> Entered(j)'
    BY <2>3 DEF ShutdownInv, ListOK
  <2>4. CASE Accept \/ StopAccepting \/ CountWrite
    <3>1. /\ UNCHANGED <<handler, threads, list>>
          /\ main.pc \notin {"number", "add"} /\ main'.pc \notin {"number", "add"}
      BY <2>4, AcceptFacts, StopFacts, CountWriteFacts
    <3> QED BY <2>1, <3>1 DEF ListOK, Numbered, Entered
  <2>5. CASE Create
    <3>1. /\ UNCHANGED <<threads, list>> /\ main.pc = "create" /\ main'.pc # "add"
          /\ \A c \in Conn : handler'[c].pc # "none" =>
                 handler[c].pc # "none" \/ (c = main.conn /\ main'.pc = "number"
                                            /\ main'.conn = main.conn)
      BY <2>5, CreateFacts DEF Others
    <3> QED BY <2>1, <3>1 DEF ListOK, Numbered, Entered
  <2>6. CASE Number
    <3>1. /\ UNCHANGED <<handler, list>> /\ main.pc = "number" /\ main'.pc = "add"
          /\ threads' = Append(threads, main.conn)
      BY <2>6, NumberFacts
    <3>2. /\ Len(threads') = Len(threads) + 1 /\ threads'[Len(threads) + 1] = main.conn
          /\ \A j \in 1 .. Len(threads) : threads'[j] = threads[j]
      BY <3>1 DEF Types, ProcessOK, MainOK
    <3>3. \A j \in Nat : Entered(j)' <=> Entered(j)
      BY <2>1, <3>1, <3>2 DEF Entered
    <3>4. \A c \in Conn : Numbered(c) => Numbered(c)'
      <4> SUFFICES ASSUME NEW c \in Conn, Numbered(c)
                   PROVE  \E j \in 1 .. Len(threads') : threads'[j] = c
        BY DEF Numbered
      <4>1. CASE c = main.conn
        BY <2>1, <3>2, <4>1
      <4>2. CASE c # main.conn
        <5>1. PICK j \in 1 .. Len(threads) : threads[j] = c
          BY <4>2 DEF Numbered
        <5> QED BY <2>1, <3>2, <5>1
      <4> QED BY <4>1, <4>2
    <3> QED BY <2>1, <3>1, <3>3, <3>4 DEF ListOK
  <2>7. CASE AddThread
    <3>1. /\ UNCHANGED <<handler, threads>> /\ main.pc = "add" /\ main'.pc # "add"
          /\ list' = list \cup {Len(threads)} /\ Len(threads) > 0
      BY <2>7, AddThreadFacts DEF Types, MainOK
    <3>2. \A c \in Conn : Numbered(c) => Numbered(c)'
      BY <3>1 DEF Numbered
    <3>3. \A j \in Nat : Entered(j)' <=> Entered(j) \/ j = Len(threads)
      BY <2>1, <3>1 DEF Entered
    <3> QED BY <2>1, <3>1, <3>2, <3>3 DEF ListOK
  <2> QED BY <1>2, <2>4, <2>5, <2>6, <2>7 DEF network_main_loop
<1> QED BY <1>1, <1>2

LEMMA SignalKeepsList ==
    ASSUME Types, ShutdownInv, process = "up", Interrupt \/ table_server_close
    PROVE  ShutdownInv'
<1>1. ListOK /\ Len(threads) \in Nat
  BY DEF ShutdownInv, Types, ProcessOK
<1>2. BesidesSignal /\ process' = "up"
  BY InterruptFacts, DisconnectFacts, CloseSocketsFacts, DestroyFacts
     DEF table_server_close, BesidesSignal
<1>3. /\ \A j \in Nat : Entered(j)' = Entered(j)
      /\ \A c \in Conn : Numbered(c)' = Numbered(c)
      /\ UNCHANGED <<handler, threads>>
  BY <1>2 DEF BesidesSignal, Entered, Numbered
<1>4. \A c \in Conn : handler'[c].pc # "none" => Numbered(c)'
  BY <1>1, <1>3 DEF ListOK
<1>5. CASE Interrupt
  <2>1. UNCHANGED list /\ signal.pc = "none" /\ signal'.pc = "disconnect"
    BY <1>5, InterruptFacts
  <2>2. ListOK'
    BY <1>1, <1>3, <1>4, <2>1 DEF ListOK
  <2> QED BY <1>2, <2>2 DEF ShutdownInv
<1>6. CASE Disconnect
  <2>1. /\ UNCHANGED list /\ signal.pc = "disconnect"
        /\ signal'.pc = "sockets" /\ signal'.i = 1
    BY <1>6, DisconnectFacts
  <2>2. \A j \in Nat : Entered(j) => j >= 1
    BY <1>1 DEF Entered
  <2>3. ListOK'
    BY <1>1, <1>3, <1>4, <2>1, <2>2 DEF ListOK
  <2> QED BY <1>2, <2>3 DEF ShutdownInv
<1>7. CASE CloseSockets
  <2>1. /\ signal.pc = "sockets" /\ signal.i \in 1 .. Len(threads)
        /\ signal'.pc = "sockets" /\ signal'.i = signal.i + 1
        /\ list' = list \ {signal.i}
        /\ closed \subseteq closed'
        /\ signal.i \in list => threads[signal.i] \in closed'
    BY <1>7, CloseSocketsFacts
  <2>2. \A j \in Nat : j \in list' <=> Entered(j) /\ j >= signal.i + 1
    BY <1>1, <2>1 DEF ListOK
  <2>3. ASSUME NEW j \in Nat, Entered(j), j < signal.i + 1
        PROVE  threads[j] \in closed'
    <3>1. CASE j = signal.i
      BY <1>1, <2>1, <2>3, <3>1 DEF ListOK
    <3>2. CASE j # signal.i
      <4>1. j < signal.i
        BY <2>1, <2>3, <3>2
      <4> QED BY <1>1, <2>1, <2>3, <4>1 DEF ListOK
    <3> QED BY <3>1, <3>2
  <2>4. ListOK'
    BY <1>1, <1>3, <1>4, <2>1, <2>2, <2>3 DEF ListOK
  <2> QED BY <1>2, <2>4 DEF ShutdownInv
<1>8. CASE Destroy
  <2>1. signal'.pc = "done"
    BY <1>8, DestroyFacts
  <2>2. ListOK'
    BY <1>4, <2>1 DEF ListOK
  <2> QED BY <1>2, <2>2 DEF ShutdownInv
<1> QED BY <1>5, <1>6, <1>7, <1>8 DEF table_server_close

LEMMA ShutdownStep ==
    ASSUME Types, ShutdownInv, [Next]_vars
    PROVE  ShutdownInv'
<1>1. CASE Next
  <2>1. process = "up"
    BY <1>1 DEF Next
  <2>2. CASE select_prev_server
    <3>1. CASE MergeMove
      BY <2>1, <3>1, ListFrame DEF MergeMove
    <3> QED BY <2>2, <3>1, MergeCases, ListEnds
  <2> QED BY <1>1, <2>1, <2>2, MainKeepsList, SignalKeepsList, HandlerKeepsList DEF Next
<1>2. CASE UNCHANGED vars
  BY <1>2 DEF vars, ShutdownInv, ListOK, Numbered, Entered
<1> QED BY <1>1, <1>2

LEMMA ShutdownSuffices == Types /\ ShutdownInv => SocketsClosed
<1> SUFFICES ASSUME Types, ShutdownInv, signal.pc = "sockets"
             PROVE  IF signal.i =< Len(threads) THEN list = {} \/ signal.i \in list
                    ELSE \A c \in Conn :
                            handler[c].pc \notin {"none", "gone"} /\ c \notin closed
                                => main.conn = c /\ main.pc \in {"number", "add"}
  BY DEF SocketsClosed, SignalAt
<1>1. Len(threads) \in Nat /\ signal.i \in Nat /\ list \in SUBSET Nat
  BY DEF Types, ProcessOK
<1>2. CASE process = "up"
  <2>1. /\ signal.i \in 1 .. Len(threads) + 1
        /\ \A j \in Nat : j \in list <=> Entered(j) /\ j >= signal.i
        /\ \A j \in Nat : Entered(j) /\ j < signal.i => threads[j] \in closed
        /\ \A c \in Conn : handler[c].pc # "none" => Numbered(c)
    BY <1>2 DEF ShutdownInv, ListOK
  <2>2. CASE signal.i =< Len(threads)
    <3>1. CASE Entered(signal.i)
      BY <1>1, <2>1, <2>2, <3>1
    <3>2. CASE ~Entered(signal.i)
      <4>1. main.pc = "add" /\ signal.i = Len(threads)
        BY <2>1, <2>2, <3>2 DEF Entered
      <4>2. \A j \in Nat : ~(Entered(j) /\ j >= signal.i)
        BY <1>1, <4>1 DEF Entered
      <4>3. list = {}
        BY <1>1, <2>1, <4>2
      <4> QED BY <2>2, <4>3
    <3> QED BY <3>1, <3>2
  <2>3. CASE signal.i > Len(threads)
    <3>1. \A j \in Nat : Entered(j) => j < signal.i
      BY <1>1, <2>3 DEF Entered
    <3>2. ASSUME NEW c \in Conn, handler[c].pc # "none", c \notin closed
          PROVE  main.conn = c /\ main.pc \in {"number", "add"}
      <4>1. CASE main.pc = "number" /\ main.conn = c
        BY <4>1
      <4>2. ASSUME NEW j \in 1 .. Len(threads), threads[j] = c
            PROVE  main.conn = c /\ main.pc = "add"
        <5>1. ~Entered(j)
          BY <1>1, <2>1, <3>1, <3>2, <4>2
        <5> QED BY <4>2, <5>1 DEF Entered, Types, MainOK
      <4> QED BY <2>1, <3>2, <4>1, <4>2 DEF Numbered
    <3> QED BY <1>1, <2>3, <3>2
  <2> QED BY <1>1, <2>2, <2>3
<1>3. CASE process # "up"
  BY <1>3 DEF ShutdownInv
<1> QED BY <1>2, <1>3

LEMMA ShutdownInit ==
    ASSUME Init
    PROVE  ShutdownInv
<1>1. threads = <<>> /\ list = {} /\ signal.pc = "none" /\ main.pc = "accept"
      /\ process = "up" /\ (\A c \in Conn : handler[c].pc = "none")
  BY DEF Init, NoHandler
<1>2. \A j \in Nat : ~Entered(j)
  BY <1>1 DEF Entered
<1> QED BY <1>1, <1>2 DEF ShutdownInv, ListOK

\* The variables have their types, for every value of the bounds
\* (network_server.c, table_skel.c).
THEOREM ServerType == Spec => []TypeOK
<1>1. Init => Types
  BY InitTypes
<1>2. Types /\ [Next]_vars => Types'
  BY TypesStep
<1> QED BY <1>1, <1>2, TypesSuffice, PTL DEF Spec

\* A shutdown finds each thread that it looks up, and after its first loop no live
\* handler keeps an open connection, but for the one that main was creating when
\* the signal came (network_server.c:217-228).
THEOREM SocketsAreClosed == Spec => []SocketsClosed
<1>1. Init => Types /\ ShutdownInv
  BY InitTypes, ShutdownInit
<1>2. Types /\ ShutdownInv /\ [Next]_vars => (Types /\ ShutdownInv)'
  BY TypesStep, ShutdownStep
<1> QED BY <1>1, <1>2, ShutdownSuffices, PTL DEF Spec

-----------------------------------------------------------------------------
(* A new connection.                                                       *)

\* Connections are used in the order of their numbers, and the one that main is
\* about to create a thread for has had none.
FreshInv ==
    process = "up" =>
        /\ main.pc \in {"count", "create"} => main.conn = used.conns
        /\ \A c \in Conn : handler[c].pc # "none" \/ c \in seen.orphans =>
               /\ c =< used.conns
               /\ main.pc \in {"count", "create"} => c # used.conns

LEMMA FreshInit ==
    ASSUME Init
    PROVE  FreshInv
BY DEF Init, NoHandler, NoHistory, FreshInv

\* A step of a handler creates none.
LEMMA HandlerFrame ==
    ASSUME Types, process = "up", NEW c \in Conn, client_handler(c), ~Ends("crashed")
    PROVE  /\ BesidesHandlers /\ Others(c) /\ UsedKept /\ seen'.orphans = seen.orphans
           /\ handler[c].pc # "none"
BY HandlerCases, LeaveFacts, LeaveWriteFacts DEF TableMove, StatsMove, LeaveMove, SeenKept

LEMMA FreshStep ==
    ASSUME Types, FreshInv, [Next]_vars
    PROVE  FreshInv'
<1>1. CASE UNCHANGED vars
  BY <1>1 DEF vars, FreshInv
<1> SUFFICES ASSUME Next, process = "up", process' = "up"
             PROVE  FreshInv'
  BY <1>1 DEF Next, FreshInv
<1>2. CASE network_main_loop
  <2>1. ~Exit
    BY DEF Exit, Ends
  <2>2. CASE Accept
    <3>1. /\ main'.pc = "count" /\ main'.conn = used.conns + 1 /\ main.pc = "accept"
          /\ used'.conns = used.conns + 1 /\ handler' = handler /\ seen'.orphans = seen.orphans
      BY <2>2, AcceptFacts
    <3>2. used.conns \in Int /\ Conn \subseteq Int
      BY DEF Types, ProcessOK, UsedState, Conn
    <3> QED BY <3>1, <3>2 DEF FreshInv
  <2>3. CASE StopAccepting \/ CountWrite
    BY <2>3, StopFacts, CountWriteFacts DEF FreshInv
  <2>4. CASE Create
    <3>1. /\ main.pc = "create" /\ main'.pc \notin {"count", "create"}
          /\ used'.conns = used.conns
          /\ \A c \in Conn : handler'[c].pc # "none" \/ c \in seen'.orphans =>
                 handler[c].pc # "none" \/ c \in seen.orphans \/ c = main.conn
      BY <2>4, CreateFacts DEF Others
    <3>2. used.conns \in Int
      BY DEF Types, ProcessOK, UsedState
    <3> QED BY <3>1, <3>2 DEF FreshInv
  <2>5. CASE Number \/ AddThread
    BY <2>5, NumberFacts, AddThreadFacts DEF FreshInv
  <2> QED BY <1>2, <2>1, <2>2, <2>3, <2>4, <2>5 DEF network_main_loop
<1>3. CASE Interrupt \/ table_server_close
  <2>1. BesidesSignal
    BY <1>3, InterruptFacts, DisconnectFacts, CloseSocketsFacts, DestroyFacts
       DEF table_server_close
  <2> QED BY <2>1 DEF BesidesSignal, FreshInv
<1>4. CASE select_prev_server
  <2>1. MergeMove
    BY <1>4, MergeCases DEF Ends
  <2> QED BY <2>1 DEF MergeMove, UsedKept, SeenKept, FreshInv
<1>5. ASSUME NEW c \in Conn, client_handler(c)
      PROVE  FreshInv'
  <2>1. ~Ends("crashed")
    BY DEF Ends
  <2>2. /\ BesidesHandlers /\ Others(c) /\ UsedKept /\ seen'.orphans = seen.orphans
        /\ handler[c].pc # "none"
    BY <1>5, <2>1, HandlerFrame
  <2> QED BY <2>2 DEF BesidesHandlers, Others, UsedKept, FreshInv
<1> QED BY <1>2, <1>3, <1>4, <1>5 DEF Next

\* What the main thread does to the handlers: it may start one.
LEMMA MainHandlers ==
    ASSUME Types, FreshInv, process = "up", network_main_loop, process' = "up"
    PROVE  /\ MainMove
           /\ \A c \in Conn :
                 \/ handler'[c] = handler[c]
                 \/ /\ handler[c].pc = "none" /\ handler'[c].pc = "idle"
                    /\ handler'[c].answer = NULL
<1>1. ~Exit
  BY DEF Exit, Ends
<1>2. CASE Create
  <2>1. main.pc = "create" /\ main.conn \in Conn
    BY <1>2, CreateFacts
  <2>2. handler[main.conn].pc = "none"
    BY <2>1 DEF FreshInv
  <2> QED BY <1>2, <2>1, <2>2, CreateFacts DEF Others
<1>3. CASE ~Create
  BY <1>1, <1>3, AcceptFacts, StopFacts, CountWriteFacts, NumberFacts, AddThreadFacts
     DEF network_main_loop
<1> QED BY <1>2, <1>3

-----------------------------------------------------------------------------
(* The statistics.                                                         *)

\* The total of the time is short of one second for each second that ended within
\* an operation, modulo the word.
Off == stats.time + Second * seen.seconds - seen.time

\* Who holds the lock has read the statistics, and they have not changed since.
StatsInv ==
    process = "up" /\ alive =>
        /\ \A c \in Conn : handler[c].pc = "stats" <=> statsLock = c
        /\ \A c \in Conn : handler[c].pc = "stats" =>
               handler[c].copy.ops = stats.ops /\ handler[c].copy.time = stats.time
        /\ seen.ops = stats.ops + IF statsLock = NULL THEN 0 ELSE 1
        /\ Off % Word = 0

LEMMA StatsInit ==
    ASSUME Init
    PROVE  StatsInv
<1>1. /\ stats.time = 0 /\ stats.ops = 0 /\ seen.ops = 0 /\ seen.time = 0 /\ seen.seconds = 0
      /\ statsLock = NULL /\ \A c \in Conn : handler[c].pc = "none"
  BY DEF Init, NoHandler, NoHistory
<1>2. Off = 0
  BY <1>1, ServerAssumption DEF Off
<1>3. Off % Word = 0
  BY <1>2, ServerAssumption
<1> QED BY <1>1, <1>3, NullIsNotAConnection DEF StatsInv

\* A thread that does not move, or not to or from these places.
AwayFrom(c, pcs) == \/ handler'[c] = handler[c]
                    \/ handler[c].pc \notin pcs /\ handler'[c].pc \notin pcs

\* A step that leaves the statistics and their lock alone.
LEMMA StatsFrame ==
    ASSUME StatsInv, UNCHANGED <<process, statsLock>>, alive' => alive,
           stats'.ops = stats.ops, stats'.time = stats.time,
           seen'.ops = seen.ops, seen'.time = seen.time, seen'.seconds = seen.seconds,
           \A c \in Conn : AwayFrom(c, {"stats"})
    PROVE  StatsInv'
<1>1. Off' = Off
  BY DEF Off
<1> QED BY <1>1 DEF StatsInv, AwayFrom

\* The second that the difference of two microsecond fields loses, and the words
\* that it wraps, in one addition to the total.
LEMMA TimeAdded ==
    ASSUME NEW t \in Int, NEW total \in Int, NEW seconds \in Int, NEW s \in Int, NEW d \in Int,
           (t + Second * seconds - total) % Word = 0
    PROVE  (Added(t, s, d) + Second * (seconds + ((s + d) \div Second)) - (total + d)) % Word = 0
<1> DEFINE m == (s + d) % Second
           q == (s + d) \div Second
           x == t + m - s
           k == x \div Word
           off == t + Second * seconds - total
           j == off \div Word
<1>1. Second \in Nat \ {0} /\ Word \in Nat \ {0}
  BY ServerAssumption
<1>2. m \in Int /\ q \in Int /\ s + d = Second * q + m
  <2>1. s + d \in Int
    OBVIOUS
  <2> QED BY <1>1, <2>1
<1>3. x \in Int
  BY <1>2
<1>4. k \in Int /\ x = Word * k + (x % Word) /\ x % Word \in Int
  <2> HIDE DEF x
  <2> QED BY <1>1, <1>3
<1>5. off \in Int /\ off % Word = 0
  BY <1>1
<1>6. j \in Int /\ off = Word * j
  <2> HIDE DEF off
  <2> QED BY <1>1, <1>5
<1>7. Added(t, s, d) = x % Word
  BY DEF Added
<1> DEFINE r == x % Word
           result == r + Second * (seconds + q) - (total + d)
<1>8. result = Word * (j - k)
  <2>1. r = (t + m - s) - Word * k
    <3>1. x = Word * k + r /\ Word * k \in Int /\ r \in Int /\ x \in Int
      BY <1>1, <1>3, <1>4
    <3>2. x = t + m - s
      OBVIOUS
    <3> HIDE DEF x, k, r
    <3>3. r = x - Word * k
      <4> DEFINE n == Word * k
      <4>1. x = n + r /\ n \in Int /\ r \in Int
        BY <3>1
      <4> HIDE DEF n
      <4>2. r = x - n
        BY <4>1
      <4> QED BY <4>2 DEF n
    <3> QED BY <3>2, <3>3
  <2>2. t + Second * seconds - total = Word * j
    BY <1>6
  <2> HIDE DEF m, q, k, j, r
  <2>3. Second \in Int /\ Word \in Int /\ r \in Int
    BY <1>1, <1>4 DEF r
  <2> QED BY <1>2, <1>4, <1>6, <2>1, <2>2, <2>3
<1>9. (Word * (j - k)) % Word = 0
  <2> DEFINE n == j - k
  <2>1. n \in Int
    BY <1>4, <1>6
  <2> HIDE DEF n
  <2>2. (Word * n) % Word = 0
    BY <1>1, <2>1
  <2> QED BY <2>2 DEF n
<1> QED BY <1>7, <1>8, <1>9

LEMMA BeginKeepsStats ==
    ASSUME Types, StatsInv, process = "up", process' = "up", NEW c \in Conn, BeginStats(c)
    PROVE  StatsInv'
<1> SUFFICES ASSUME alive, alive'
             PROVE  StatsInv'
  BY DEF StatsInv, BeginStats, BesidesStats, table
<1>1. /\ StatsMove(c) /\ stats' = stats /\ handler[c].pc = "finish" /\ handler'[c].pc = "stats"
      /\ handler'[c].copy = [ops |-> stats.ops, time |-> stats.time]
      /\ seen'.ops = seen.ops + 1 /\ seen'.time = seen.time /\ seen'.seconds = seen.seconds
      /\ statsLock = NULL /\ statsLock' = c
  BY BeginStatsFacts
<1>2. Others(c)
  BY <1>1 DEF StatsMove
<1>3. \A d \in Conn : handler'[d].pc = "stats" <=> d = c
  BY <1>1, <1>2, NullIsNotAConnection DEF Others, StatsInv
<1>4. \A d \in Conn : handler'[d].pc = "stats" =>
          handler'[d].copy.ops = stats'.ops /\ handler'[d].copy.time = stats'.time
  BY <1>1, <1>3
<1>5. seen'.ops = stats'.ops + IF statsLock' = NULL THEN 0 ELSE 1
  BY <1>1, NullIsNotAConnection DEF StatsInv, Types, DataOK, SeenState, StatsState
<1>6. Off' % Word = 0
  BY <1>1 DEF Off, StatsInv
<1> QED BY <1>1, <1>3, <1>4, <1>5, <1>6 DEF StatsInv

LEMMA EndKeepsStats ==
    ASSUME Types, StatsInv, process = "up", process' = "up", NEW c \in Conn, EndStats(c)
    PROVE  StatsInv'
<1> SUFFICES ASSUME alive, alive'
             PROVE  StatsInv'
  BY DEF StatsInv, EndStats, BesidesStats, table
<1>1. /\ StatsMove(c) /\ handler[c].pc = "stats" /\ handler'[c].pc \in {"idle", "leave"}
      /\ seen'.ops = seen.ops /\ statsLock' = NULL /\ stats'.ops = handler[c].copy.ops + 1
  BY EndStatsFacts
<1>2. PICK s \in Int, d \in Int :
        /\ stats'.time = Added(handler[c].copy.time, s, d)
        /\ seen'.time = seen.time + d
        /\ seen'.seconds = seen.seconds + ((s + d) \div Second)
  BY EndStatsFacts
<1>3. statsLock = c /\ handler[c].copy.ops = stats.ops /\ handler[c].copy.time = stats.time
  BY <1>1 DEF StatsInv
<1>4. \A e \in Conn : handler'[e].pc # "stats"
  BY <1>1, <1>3 DEF StatsMove, Others, StatsInv
<1>5. seen'.ops = stats'.ops + IF statsLock' = NULL THEN 0 ELSE 1
  BY <1>1, <1>3, NullIsNotAConnection DEF StatsInv, Types, DataOK, SeenState, StatsState
<1>6. Off' % Word = 0
  <2>1. stats.time \in Int /\ seen.time \in Int /\ seen.seconds \in Int
    BY ServerAssumption DEF Types, DataOK, SeenState, StatsState
  <2>2. (stats.time + Second * seen.seconds - seen.time) % Word = 0
    BY DEF StatsInv, Off
  <2>3. (Added(stats.time, s, d) + Second * (seen.seconds + ((s + d) \div Second))
           - (seen.time + d)) % Word = 0
    BY <2>1, <2>2, TimeAdded
  <2> QED BY <1>2, <1>3, <2>3 DEF Off
<1> QED BY <1>1, <1>4, <1>5, <1>6, NullIsNotAConnection DEF StatsInv

\* A remainder that differs from a number by a multiple of the word is its own.
LEMMA SameRemainder ==
    ASSUME NEW w \in Nat \ {0}, NEW r \in 0 .. w - 1, NEW n \in Nat, (r - n) % w = 0
    PROVE  r = n % w
<1> DEFINE q == (r - n) \div w
           p == n \div w
           m == n % w
<1>1. q \in Int /\ r - n = w * q
  OBVIOUS
<1>2. p \in Int /\ m \in 0 .. w - 1 /\ n = w * p + m
  OBVIOUS
<1> HIDE DEF q, p, m
<1>3. r - m = w * (q + p)
  <2>1. w * (q + p) = w * q + w * p
    BY <1>1, <1>2
  <2> QED BY <1>1, <1>2, <2>1
<1> DEFINE x == q + p
<1>4. x \in Int /\ r - m = w * x
  BY <1>1, <1>2, <1>3
<1> HIDE DEF x
<1>5. x = 0
  <2>1. CASE x >= 1
    <3>1. w * x >= w
      BY <1>4, <2>1
    <3> QED BY <1>2, <1>4, <3>1
  <2>2. CASE x =< -1
    <3>1. w * x =< -w
      BY <1>4, <2>2
    <3> QED BY <1>2, <1>4, <3>1
  <2> QED BY <1>4, <2>1, <2>2
<1>6. w * x = 0
  BY <1>5
<1> QED BY <1>2, <1>4, <1>6 DEF m

LEMMA StatsStep ==
    ASSUME Types, FreshInv, StatsInv, [Next]_vars
    PROVE  StatsInv'
<1>1. CASE UNCHANGED vars
  BY <1>1, StatsFrame DEF vars, AwayFrom
<1> SUFFICES ASSUME Next, process = "up", process' = "up"
             PROVE  StatsInv'
  BY <1>1 DEF Next, StatsInv
<1>2. CASE network_main_loop
  <2>1. /\ MainMove
        /\ \A c \in Conn : AwayFrom(c, {"stats"})
    BY <1>2, MainHandlers DEF AwayFrom
  <2> QED BY <2>1, StatsFrame DEF MainMove
<1>3. CASE Interrupt \/ table_server_close
  <2>1. BesidesSignal
    BY <1>3, InterruptFacts, DisconnectFacts, CloseSocketsFacts, DestroyFacts
       DEF table_server_close
  <2>2. alive' => alive
    BY <1>3, InterruptFacts, DisconnectFacts, CloseSocketsFacts, DestroyFacts
       DEF table_server_close
  <2> QED BY <2>1, <2>2, StatsFrame DEF BesidesSignal, AwayFrom
<1>4. CASE select_prev_server
  <2>1. MergeMove
    BY <1>4, MergeCases DEF Ends
  <2> QED BY <2>1, StatsFrame DEF MergeMove, SeenKept, AwayFrom
<1>5. ASSUME NEW c \in Conn, client_handler(c)
      PROVE  StatsInv'
  <2>1. ~Ends("crashed")
    BY DEF Ends
  <2>2. CASE TableMove(c)
    <3>1. \A d \in Conn : AwayFrom(d, {"stats"})
      BY <2>2 DEF TableMove, Others, AwayFrom
    <3> QED BY <2>2, <3>1, StatsFrame DEF TableMove, BesidesHandlers, SeenKept
  <2>3. CASE BeginStats(c) \/ EndStats(c)
    BY <2>3, BeginKeepsStats, EndKeepsStats
  <2>4. CASE LeaveMove(c) /\ (Leave(c) \/ LeaveWrite(c))
    <3>1. handler[c].pc # "stats" /\ handler'[c].pc # "stats"
      BY <2>4, LeaveFacts, LeaveWriteFacts
    <3>2. \A d \in Conn : AwayFrom(d, {"stats"})
      BY <2>4, <3>1 DEF LeaveMove, Others, AwayFrom
    <3> QED BY <2>4, <3>2, StatsFrame DEF LeaveMove, BesidesHandlers
  <2> QED BY <1>5, <2>1, <2>2, <2>3, <2>4, HandlerCases
<1> QED BY <1>2, <1>3, <1>4, <1>5 DEF Next

\* No operation is lost from the statistics (table_skel.c:383-390), and as long as
\* none has seen the end of a second, the time they add up to is the time that
\* passed, modulo the word.
THEOREM NoOperationIsLost == Spec => []OpsCounted
<1>1. Init => Types /\ FreshInv /\ StatsInv
  BY InitTypes, FreshInit, StatsInit
<1>2. Types /\ FreshInv /\ StatsInv /\ [Next]_vars => (Types /\ FreshInv /\ StatsInv)'
  BY TypesStep, FreshStep, StatsStep
<1>3. Types /\ StatsInv => OpsCounted
  <2> SUFFICES ASSUME Types, StatsInv, process = "up", alive,
                      \A c \in Conn : handler[c].pc # "stats"
               PROVE  /\ stats.ops = seen.ops
                      /\ seen.seconds = 0 => stats.time = seen.time % Word
    BY DEF OpsCounted, At
  <2>1. statsLock = NULL
    BY DEF StatsInv, Types, DataOK
  <2>2. seen.ops = stats.ops
    BY <2>1 DEF StatsInv, Types, DataOK, StatsState
  <2>3. ASSUME seen.seconds = 0
        PROVE  stats.time = seen.time % Word
    <3>1. stats.time \in 0 .. Word - 1 /\ seen.time \in Nat /\ Word \in Nat \ {0}
      BY ServerAssumption DEF Types, DataOK, StatsState, SeenState
    <3>2. Second * seen.seconds = 0
      BY <2>3, ServerAssumption
    <3>3. (stats.time - seen.time) % Word = 0
      BY <3>1, <3>2 DEF StatsInv, Off
    <3> QED BY <3>1, <3>3, SameRemainder
  <2> QED BY <2>2, <2>3
<1> QED BY <1>1, <1>2, <1>3, PTL DEF Spec

-----------------------------------------------------------------------------
(* The counter of the table.                                               *)

\* Who has the lock; who has changed the lists and not yet the counter, and by how
\* much it will.
Holds(c) == handler[c].pc \in {"table", "read", "write"}
Busy(c) == handler[c].pc \in {"read", "write"}
Delta(c) == IF handler[c].op = "put" THEN 1 ELSE -1
MergeBusy == merge.pc \in {"read", "write"}

\* As long as the merge and a handler have not met in the table, whoever has
\* changed the lists excludes everyone else from it until the counter follows.
CounterOK ==
    /\ \A c \in Conn : Holds(c) <=> tableLock = c
    /\ Merging => tableLock = NULL
    /\ MergeBusy => size + 1 = Cardinality(keys)
    /\ ~MergeBusy /\ (\A c \in Conn : ~Busy(c)) => size = Cardinality(keys)
    /\ \A c \in Conn : Busy(c) => size + Delta(c) = Cardinality(keys)
    /\ \A c \in Conn : handler[c].pc = "write" => handler[c].copy = size
    /\ merge.pc = "write" => merge.copy = size
    /\ \A c \in Conn : handler[c].pc = "number" /\ c \notin seen.touched =>
           handler[c].listed = size

TableInv == process = "up" /\ alive /\ ~seen.tableRace => CounterOK

LEMMA TableInit ==
    ASSUME Init
    PROVE  TableInv
<1>1. /\ keys = {} /\ size = 0 /\ tableLock = NULL /\ merge.pc = "idle"
      /\ \A c \in Conn : handler[c].pc = "none"
  BY DEF Init, NoHandler
<1>2. Cardinality(keys) = 0
  BY <1>1, FS_EmptySet
<1> QED BY <1>1, <1>2, NullIsNotAConnection
        DEF TableInv, CounterOK, Holds, Busy, MergeBusy, Merging

\* The keys that an answer to GETKEYS has, and that nothing has changed them since.
ListingKept ==
    \A c \in Conn : handler'[c].pc = "number" /\ c \notin seen'.touched =>
        /\ handler[c].pc = "number" /\ c \notin seen.touched
        /\ handler'[c].listed = handler[c].listed

\* A step that leaves the table alone.
LEMMA TableFrame ==
    ASSUME TableInv, process' = "up" => process = "up", alive' => alive, LooksOnly,
           UNCHANGED merge, seen.tableRace => seen'.tableRace, ListingKept,
           \A c \in Conn : AwayFrom(c, {"table", "read", "write"})
    PROVE  TableInv'
<1> SUFFICES ASSUME process' = "up", alive', ~seen'.tableRace
             PROVE  CounterOK'
  BY DEF TableInv
<1>1. CounterOK
  BY DEF TableInv
<1>2. \A c \in Conn : /\ Busy(c)' <=> Busy(c)
                      /\ Holds(c)' <=> Holds(c)
                      /\ Busy(c) => handler'[c] = handler[c]
  BY DEF AwayFrom, Busy, Holds
<1>3. \A c \in Conn : Busy(c) => Delta(c)' = Delta(c)
  BY <1>2 DEF Delta
<1>4. (Merging' <=> Merging) /\ (MergeBusy' <=> MergeBusy)
  BY DEF Merging, MergeBusy
<1>5. \A c \in Conn : Busy(c)' => (size + Delta(c) = Cardinality(keys))'
  BY <1>1, <1>2, <1>3 DEF CounterOK, LooksOnly
<1>6. \A c \in Conn : handler'[c].pc = "write" => handler'[c].copy = size'
  BY <1>1, <1>2 DEF CounterOK, LooksOnly, Busy
<1>7. \A c \in Conn : handler'[c].pc = "number" /\ c \notin seen'.touched =>
          handler'[c].listed = size'
  BY <1>1 DEF CounterOK, ListingKept, LooksOnly
<1> QED BY <1>1, <1>2, <1>4, <1>5, <1>6, <1>7 DEF CounterOK, LooksOnly

LEMMA MergeKeepsTable ==
    ASSUME Types, TableInv, process = "up", process' = "up", select_prev_server
    PROVE  TableInv'
<1>1. MergeMove
  BY MergeCases DEF Ends
<1> SUFFICES ASSUME alive', ~seen'.tableRace
             PROVE  CounterOK'
  BY DEF TableInv
<1>2. CounterOK /\ handler' = handler /\ tableLock' = tableLock
  BY <1>1 DEF MergeMove, TableInv
<1>3. \A c \in Conn : /\ Holds(c)' <=> Holds(c)
                      /\ Busy(c)' <=> Busy(c)
                      /\ Delta(c)' = Delta(c)
  BY <1>2 DEF Holds, Busy, Delta
<1>4. CASE MergeAsk \/ MergeAnswer
  <2>1. /\ UNCHANGED <<keys, size, seen>>
        /\ ~Merging' /\ ~MergeBusy /\ ~MergeBusy' /\ merge'.pc # "write"
    BY <1>4, MergeAskFacts DEF Merging, MergeBusy
  <2> QED BY <1>2, <1>3, <2>1 DEF CounterOK
<1>5. CASE MergeEnter
  <2>1. /\ UNCHANGED <<keys, size>> /\ seen'.touched = seen.touched
        /\ ~MergeBusy /\ ~MergeBusy' /\ merge'.pc # "write" /\ tableLock = NULL
    BY <1>5, MergeEnterFacts DEF MergeBusy
  <2> QED BY <1>2, <1>3, <2>1 DEF CounterOK
<1>6. CASE ~MergeAsk /\ ~MergeAnswer /\ ~MergeEnter
  <2>1. MergePut \/ MergeRead \/ MergeWrite
    BY <1>6 DEF select_prev_server, MergeTable, MergeLost, Ends
  <2>2. Merging
    BY <2>1, MergePutFacts, MergeReadFacts, MergeWriteFacts DEF Merging
  <2>3. tableLock = NULL /\ \A c \in Conn : ~Holds(c) /\ ~Busy(c)
    BY <1>2, <2>2, NullIsNotAConnection DEF CounterOK, Holds, Busy
  <2>4. /\ \A c \in Conn : ~Holds(c)' /\ ~Busy(c)' /\ handler'[c].pc # "write"
        /\ tableLock' = NULL
    BY <1>2, <1>3, <2>3 DEF Busy
  <2>5. CASE MergePut
    <3>1. size = Cardinality(keys)
      BY <1>2, <2>3, <2>5, MergePutFacts DEF CounterOK, MergeBusy
    <3>2. size' = size /\ seen' = seen
      BY <2>5, MergePutFacts
    <3>3. CASE UNCHANGED keys /\ merge'.pc \in {"idle", "put"}
      <4>1. ~MergeBusy' /\ merge'.pc # "write"
        BY <3>3 DEF MergeBusy
      <4> QED BY <1>2, <2>4, <3>1, <3>2, <3>3, <4>1, NullIsNotAConnection DEF CounterOK
    <3>4. CASE \E k \in Key \ keys : keys' = keys \cup {k} /\ merge'.pc = "read"
      <4>1. IsFiniteSet(keys)
        BY KeysAreFinite DEF Types
      <4>2. Cardinality(keys') = size + 1 /\ merge'.pc = "read"
        BY <3>1, <3>4, <4>1, FS_AddElement
      <4>3. MergeBusy'
        BY <4>2 DEF MergeBusy
      <4> QED BY <1>2, <2>4, <3>2, <4>2, <4>3, NullIsNotAConnection DEF CounterOK
    <3> QED BY <2>5, <3>3, <3>4, MergePutFacts
  <2>6. CASE MergeRead
    <3>1. /\ MergeBusy /\ MergeBusy' /\ merge'.copy = size
          /\ UNCHANGED <<keys, size, seen>>
      BY <2>6, MergeReadFacts DEF MergeBusy
    <3> QED BY <1>2, <2>4, <3>1, NullIsNotAConnection DEF CounterOK
  <2>7. CASE MergeWrite
    <3>1. /\ MergeBusy /\ ~MergeBusy' /\ merge'.pc # "write" /\ merge.pc = "write"
          /\ keys' = keys /\ size' = merge.copy + 1
          /\ seen'.touched = seen.touched \cup Listing
      BY <2>7, MergeWriteFacts DEF MergeBusy
    <3>2. size' = Cardinality(keys')
      BY <1>2, <3>1 DEF CounterOK
    <3>3. \A c \in Conn : handler'[c].pc = "number" => c \in seen'.touched
      BY <1>2, <3>1 DEF Listing, At
    <3> QED BY <2>4, <3>1, <3>2, <3>3, NullIsNotAConnection DEF CounterOK
  <2> QED BY <2>1, <2>5, <2>6, <2>7
<1> QED BY <1>4, <1>5, <1>6

\* A thread takes the lock.
LEMMA EnterKeepsTable ==
    ASSUME Types, TableInv, process = "up", process' = "up", NEW c \in Conn, Enter(c)
    PROVE  TableInv'
<1> SUFFICES ASSUME alive', ~seen'.tableRace
             PROVE  CounterOK'
  BY DEF TableInv
<1>1. /\ TableMove(c) /\ UNCHANGED <<keys, size>> /\ alive
      /\ tableLock = NULL /\ tableLock' = c
      /\ handler[c].pc = "idle" /\ handler'[c].pc = "table"
      /\ seen'.touched = seen.touched /\ ~Merging
  BY EnterFacts
<1>2. /\ Others(c) /\ merge' = merge /\ ~seen.tableRace
  BY <1>1 DEF TableMove, BesidesHandlers
<1>3. CounterOK
  BY <1>1, <1>2 DEF TableInv
<1>4. \A d \in Conn : ~Holds(d) /\ ~Busy(d)
  BY <1>1, <1>3, NullIsNotAConnection DEF CounterOK, Holds, Busy
<1>5. \A d \in Conn : Holds(d)' <=> d = c
  BY <1>1, <1>2, <1>4 DEF Others, Holds
<1>6. \A d \in Conn : ~Busy(d)' /\ handler'[d].pc # "write"
  BY <1>1, <1>2, <1>4 DEF Others, Busy
<1>7. ~Merging' /\ ~MergeBusy /\ ~MergeBusy' /\ merge'.pc # "write"
  BY <1>1, <1>2 DEF Merging, MergeBusy
<1>8. \A d \in Conn : handler'[d].pc = "number" /\ d \notin seen'.touched =>
          handler'[d].listed = size'
  BY <1>1, <1>2, <1>3 DEF Others, CounterOK
<1> QED BY <1>1, <1>3, <1>4, <1>5, <1>6, <1>7, <1>8 DEF CounterOK

\* A thread leaves the lists: nothing changed, or the counter has to follow.
LEMMA ListsKeepTable ==
    ASSUME Types, TableInv, process = "up", process' = "up", NEW c \in Conn, UsesLists(c)
    PROVE  TableInv'
<1> SUFFICES ASSUME alive', ~seen'.tableRace
             PROVE  CounterOK'
  BY DEF TableInv
<1>1. TableMove(c) /\ size' = size /\ handler[c].pc = "table" /\ InLists(c)
  BY ListMoves, ListCases
<1>2. Others(c) /\ merge' = merge /\ ~seen.tableRace /\ alive
  BY <1>1 DEF TableMove, BesidesHandlers
<1>3. CounterOK /\ tableLock = c /\ ~Merging
  BY <1>1, <1>2, NullIsNotAConnection DEF TableInv, CounterOK, Holds
<1>4. \A d \in Conn \ {c} : ~Holds(d) /\ ~Busy(d) /\ ~Holds(d)' /\ ~Busy(d)'
  BY <1>2, <1>3 DEF CounterOK, Others, Holds, Busy
<1>5. ~Merging' /\ ~MergeBusy /\ ~MergeBusy' /\ merge'.pc # "write"
  BY <1>2, <1>3 DEF Merging, MergeBusy
<1>6. size = Cardinality(keys)
  <2>1. \A d \in Conn : ~Busy(d)
    BY <1>1, <1>4 DEF Busy
  <2> QED BY <1>3, <1>5, <2>1 DEF CounterOK
<1>7. IsFiniteSet(keys) /\ Cardinality(keys) \in Nat
  BY KeysAreFinite DEF Types
<1>8. CASE Unlocks(c) /\ UNCHANGED keys
  <2>1. tableLock' = NULL /\ handler'[c].pc = "finish" /\ seen'.touched = seen.touched
    BY <1>1, <1>8, UnlocksFacts
  <2>2. \A d \in Conn : ~Holds(d)' /\ ~Busy(d)' /\ handler'[d].pc # "write"
    BY <1>4, <2>1 DEF Holds, Busy
  <2>3. \A d \in Conn : handler'[d].pc = "number" /\ d \notin seen'.touched =>
            handler'[d].listed = size'
    BY <1>1, <1>2, <1>3, <2>1 DEF Others, CounterOK
  <2> QED BY <1>1, <1>5, <1>6, <1>8, <2>1, <2>2, <2>3, NullIsNotAConnection DEF CounterOK
<1>9. CASE ListsKeys(c)
  <2>1. /\ keys' = keys /\ tableLock' = NULL /\ handler'[c].pc = "number"
        /\ handler'[c].listed = Cardinality(keys) /\ seen'.touched = seen.touched \ {c}
    BY <1>1, <1>9, ListsKeysFacts
  <2>2. \A d \in Conn : ~Holds(d)' /\ ~Busy(d)' /\ handler'[d].pc # "write"
    BY <1>4, <2>1 DEF Holds, Busy
  <2>3. \A d \in Conn : handler'[d].pc = "number" /\ d \notin seen'.touched =>
            handler'[d].listed = size'
    BY <1>1, <1>2, <1>3, <1>6, <2>1 DEF Others, CounterOK
  <2> QED BY <1>1, <1>5, <1>6, <2>1, <2>2, <2>3, NullIsNotAConnection DEF CounterOK
<1>10. ASSUME NEW op \in {"put", "del"}, Counts(c, op), size' + Delta(c)' = Cardinality(keys')
       PROVE  CounterOK'
  <2>1. tableLock' = c /\ handler'[c].pc = "read" /\ seen'.touched = seen.touched
    BY <1>1, <1>3, <1>10, CountsFacts
  <2>2. \A d \in Conn : (Holds(d)' <=> d = c) /\ (Busy(d)' <=> d = c)
    BY <1>4, <2>1 DEF Holds, Busy
  <2>3. \A d \in Conn : handler'[d].pc # "write"
    BY <2>1, <2>2 DEF Busy
  <2>4. \A d \in Conn : handler'[d].pc = "number" /\ d \notin seen'.touched =>
            handler'[d].listed = size'
    BY <1>1, <1>2, <1>3, <2>1 DEF Others, CounterOK
  <2> QED BY <1>5, <1>10, <2>1, <2>2, <2>3, <2>4, NullIsNotAConnection DEF CounterOK
<1>11. CASE Inserts(c)
  <2>1. PICK k \in Key \ keys : keys' = keys \cup {k} /\ Counts(c, "put")
    BY <1>11 DEF Inserts
  <2>2. Cardinality(keys') = Cardinality(keys) + 1
    BY <1>7, <2>1, FS_AddElement
  <2>3. Delta(c)' = 1
    BY <1>1, <2>1, CountsFacts DEF Delta
  <2> QED BY <1>1, <1>6, <1>10, <2>1, <2>2, <2>3
<1>12. CASE Deletes(c)
  <2>1. PICK k \in keys : keys' = keys \ {k} /\ Counts(c, "del")
    BY <1>12 DEF Deletes
  <2>2. Cardinality(keys') = Cardinality(keys) - 1
    BY <1>7, <2>1, FS_RemoveElement
  <2>3. Delta(c)' = -1
    BY <1>1, <2>1, CountsFacts DEF Delta
  <2> QED BY <1>1, <1>6, <1>7, <1>10, <2>1, <2>2, <2>3
<1> QED BY ListCases, <1>8, <1>9, <1>11, <1>12

\* The update of the counter, read and then written.
LEMMA CountKeepsTable ==
    ASSUME Types, TableInv, process = "up", process' = "up", NEW c \in Conn,
           ReadSize(c) \/ WriteSize(c)
    PROVE  TableInv'
<1> SUFFICES ASSUME alive', ~seen'.tableRace
             PROVE  CounterOK'
  BY DEF TableInv
<1>1. TableMove(c) /\ alive /\ Busy(c) /\ Holds(c)
  BY ReadSizeFacts, WriteSizeFacts DEF Busy, Holds
<1>2. Others(c) /\ merge' = merge /\ ~seen.tableRace
  BY <1>1 DEF TableMove, BesidesHandlers
<1>3. CounterOK /\ tableLock = c /\ size + Delta(c) = Cardinality(keys) /\ ~Merging
  BY <1>1, <1>2, NullIsNotAConnection DEF TableInv, CounterOK
<1>4. \A d \in Conn \ {c} : ~Holds(d)' /\ ~Busy(d)'
  BY <1>2, <1>3 DEF CounterOK, Others, Holds, Busy
<1>5. ~Merging' /\ ~MergeBusy' /\ merge'.pc # "write"
  BY <1>2, <1>3 DEF Merging, MergeBusy
<1>6. CASE ReadSize(c)
  <2>1. /\ keys' = keys /\ size' = size /\ tableLock' = tableLock
        /\ handler'[c].pc = "write" /\ handler'[c].copy = size
        /\ handler'[c].op = handler[c].op /\ seen'.touched = seen.touched
    BY <1>6, ReadSizeFacts DEF LooksOnly
  <2>2. \A d \in Conn : (Holds(d)' <=> d = c) /\ (Busy(d)' <=> d = c)
    BY <1>4, <2>1 DEF Holds, Busy
  <2>3. \A d \in Conn : handler'[d].pc = "write" => d = c
    BY <2>2 DEF Busy
  <2>4. \A d \in Conn : handler'[d].pc = "number" /\ d \notin seen'.touched =>
            handler'[d].listed = size'
    BY <1>2, <1>3, <2>1 DEF Others, CounterOK
  <2>5. size' + Delta(c)' = Cardinality(keys')
    BY <1>3, <2>1 DEF Delta
  <2> QED BY <1>3, <1>5, <2>1, <2>2, <2>3, <2>4, <2>5, NullIsNotAConnection DEF CounterOK
<1>7. CASE WriteSize(c)
  <2>1. /\ keys' = keys /\ tableLock' = NULL /\ handler[c].pc = "write"
        /\ size' = handler[c].copy + Delta(c)
        /\ handler'[c].pc = "finish" /\ seen'.touched = seen.touched \cup Listing
    BY <1>7, WriteSizeFacts DEF Delta
  <2>2. size' = Cardinality(keys')
    BY <1>3, <2>1 DEF CounterOK
  <2>3. \A d \in Conn : ~Holds(d)' /\ ~Busy(d)' /\ handler'[d].pc # "write"
    BY <1>4, <2>1 DEF Holds, Busy
  <2>4. \A d \in Conn : handler'[d].pc = "number" => d \in seen'.touched
    BY <1>2, <2>1 DEF Others, Listing, At
  <2> QED BY <1>5, <2>1, <2>2, <2>3, <2>4, NullIsNotAConnection DEF CounterOK
<1> QED BY <1>6, <1>7

\* A step of a handler that is not in the table, or no longer has one.
LEMMA LookKeepsTable ==
    ASSUME Types, TableInv, NEW c \in Conn, Others(c), BesidesHandlers, LooksOnly,
           handler[c].pc \notin {"table", "read", "write"} \/ ~alive,
           handler'[c].pc \notin {"table", "read", "write", "number"},
           seen.tableRace => seen'.tableRace,
           seen.touched \ {c} \subseteq seen'.touched
    PROVE  TableInv'
<1>1. CASE ~alive
  BY <1>1 DEF BesidesHandlers, TableInv
<1>2. CASE handler[c].pc \notin {"table", "read", "write"}
  <2>1. \A d \in Conn : AwayFrom(d, {"table", "read", "write"})
    BY <1>2 DEF Others, AwayFrom
  <2>2. ListingKept
    BY DEF Others, ListingKept
  <2>3. process' = process /\ alive' = alive /\ merge' = merge
    BY DEF BesidesHandlers
  <2> QED BY <2>1, <2>2, <2>3, TableFrame
<1> QED BY <1>1, <1>2

LEMMA HandlerKeepsTable ==
    ASSUME Types, TableInv, process = "up", process' = "up", NEW c \in Conn, client_handler(c)
    PROVE  TableInv'
<1>1. ~Ends("crashed")
  BY DEF Ends
<1>2. CASE Enter(c) \/ UsesLists(c)
  BY <1>2, EnterKeepsTable, ListsKeepTable
<1>3. CASE ReadSize(c) \/ WriteSize(c)
  BY <1>3, CountKeepsTable
<1>4. CASE table_size(c) \/ CountKeys(c) \/ UseDestroyed(c) \/ ServeStats(c)
  <2>1. /\ TableMove(c) /\ LooksOnly
        /\ handler[c].pc \notin {"table", "read", "write"} \/ ~alive
        /\ handler'[c].pc \notin {"table", "read", "write", "number"}
        /\ seen'.touched = seen.touched
    BY <1>4, SizeFacts, CountKeysFacts, DestroyedFacts, ServeStatsFacts
  <2> QED BY <2>1, LookKeepsTable DEF TableMove
<1>5. CASE BeginStats(c) \/ EndStats(c)
  <2>1. StatsMove(c) /\ seen.touched \ {c} \subseteq seen'.touched
    BY <1>5, BeginStatsFacts, EndStatsFacts
  <2>2. /\ Others(c) /\ BesidesHandlers /\ LooksOnly
        /\ handler[c].pc \notin {"table", "read", "write"}
        /\ handler'[c].pc \notin {"table", "read", "write", "number"}
        /\ seen.tableRace => seen'.tableRace
    BY <2>1 DEF StatsMove
  <2> QED BY <2>1, <2>2, LookKeepsTable
<1>6. CASE Leave(c) \/ LeaveWrite(c)
  <2>1. /\ LeaveMove(c) /\ handler[c].pc \notin {"table", "read", "write"}
        /\ handler'[c].pc \notin {"table", "read", "write", "number"}
    BY <1>6, LeaveFacts, LeaveWriteFacts
  <2> QED BY <2>1, LookKeepsTable DEF LeaveMove
<1> QED BY <1>1, <1>2, <1>3, <1>4, <1>5, <1>6, HandlerCases

LEMMA TableStep ==
    ASSUME Types, FreshInv, TableInv, [Next]_vars
    PROVE  TableInv'
<1>1. CASE UNCHANGED vars
  BY <1>1 DEF vars, TableInv, CounterOK, Holds, Busy, Delta, Merging, MergeBusy
<1> SUFFICES ASSUME Next, process = "up", process' = "up"
             PROVE  TableInv'
  BY <1>1 DEF Next, TableInv
<1>2. CASE network_main_loop
  <2>1. /\ MainMove
        /\ \A c \in Conn : \/ handler'[c] = handler[c]
                           \/ handler[c].pc = "none" /\ handler'[c].pc = "idle"
    BY <1>2, MainHandlers
  <2>2. /\ \A c \in Conn : AwayFrom(c, {"table", "read", "write"})
        /\ ListingKept
    BY <2>1 DEF MainMove, AwayFrom, ListingKept
  <2> QED BY <2>1, <2>2, TableFrame DEF MainMove
<1>3. CASE Interrupt \/ table_server_close
  <2>1. BesidesSignal
    BY <1>3, InterruptFacts, DisconnectFacts, CloseSocketsFacts, DestroyFacts
       DEF table_server_close
  <2>2. alive' => alive
    BY <1>3, InterruptFacts, DisconnectFacts, CloseSocketsFacts, DestroyFacts
       DEF table_server_close
  <2>3. /\ \A c \in Conn : AwayFrom(c, {"table", "read", "write"})
        /\ ListingKept
    BY <2>1 DEF BesidesSignal, AwayFrom, ListingKept
  <2> QED BY <2>1, <2>2, <2>3, TableFrame DEF BesidesSignal
<1>4. CASE select_prev_server
  BY <1>4, MergeKeepsTable
<1> QED BY <1>2, <1>3, <1>4, HandlerKeepsTable DEF Next

\* An answer that holds a number of keys is that of CountKeys.
LEMMA AnswerCases ==
    ASSUME Types, NEW c \in Conn, client_handler(c), ~Ends("crashed")
    PROVE  \/ handler'[c].answer = NULL
           \/ /\ BeginStats(c)
              /\ handler'[c].answer = handler[c].answer /\ handler'[c].listed = handler[c].listed
              /\ seen'.touched = seen.touched /\ seen'.tableRace = seen.tableRace
           \/ CountKeys(c)
<1>1. CASE Enter(c) \/ ReadSize(c)
  BY <1>1, EnterFacts, ReadSizeFacts DEF TableMove, HandlersOK, HandlerOK
<1>2. CASE \/ UsesLists(c) \/ WriteSize(c) \/ table_size(c)
           \/ UseDestroyed(c) \/ ServeStats(c)
  BY <1>2, ListMoves, WriteSizeFacts, SizeFacts, DestroyedFacts, ServeStatsFacts
<1>3. CASE BeginStats(c)
  BY <1>3, BeginStatsFacts DEF StatsMove
<1>4. CASE EndStats(c)
  <2>1. handler'[c].answer = NULL
    BY <1>4, EndStatsFacts
  <2> QED BY <2>1
<1>5. CASE Leave(c) \/ LeaveWrite(c)
  BY <1>5, LeaveFacts, LeaveWriteFacts DEF LeaveMove
<1> QED BY <1>1, <1>2, <1>3, <1>4, <1>5, HandlerCases

\* The answers of the threads that do not move, and what they rest on.
LEMMA HandlerSeen ==
    ASSUME Types, NEW c \in Conn, client_handler(c), ~Ends("crashed")
    PROVE  /\ seen.tableRace => seen'.tableRace
           /\ seen.touched \ {c} \subseteq seen'.touched
<1>1. seen.tableRace => seen'.tableRace
  BY HandlerCases DEF TableMove, StatsMove, LeaveMove
<1>2. CASE \/ Enter(c) \/ UsesLists(c) \/ ReadSize(c) \/ WriteSize(c) \/ table_size(c)
           \/ CountKeys(c) \/ UseDestroyed(c) \/ ServeStats(c)
  <2>1. seen.touched \ {c} \subseteq seen'.touched
    BY <1>2, EnterFacts, ListMoves, ReadSizeFacts, WriteSizeFacts, SizeFacts, CountKeysFacts,
       DestroyedFacts, ServeStatsFacts
  <2> QED BY <1>1, <2>1
<1>3. CASE BeginStats(c) \/ EndStats(c)
  <2>1. seen.touched \ {c} \subseteq seen'.touched
    BY <1>3, BeginStatsFacts, EndStatsFacts
  <2> QED BY <1>1, <2>1
<1>4. CASE LeaveMove(c)
  BY <1>1, <1>4 DEF LeaveMove
<1> QED BY <1>2, <1>3, <1>4, HandlerCases

LEMMA AnswerStep ==
    ASSUME Types, FreshInv, TableInv, KeysAnswer, [Next]_vars
    PROVE  KeysAnswer'
<1>1. CASE UNCHANGED vars
  BY <1>1 DEF vars, KeysAnswer
<1>2. ASSUME \A d \in Conn : handler'[d] = handler[d] \/ handler'[d].answer = NULL,
             seen.tableRace => seen'.tableRace,
             seen.touched \subseteq seen'.touched
      PROVE  KeysAnswer'
  BY <1>2 DEF KeysAnswer
<1>3. ASSUME NEW how \in {"exited", "crashed"}, Ends(how)
      PROVE  KeysAnswer'
  BY <1>3, EndsFacts DEF KeysAnswer
<1>4. CASE Next /\ network_main_loop
  <2>1. CASE Exit
    BY <1>3, <2>1 DEF Exit
  <2>2. CASE ~Exit
    <3>1. process = "up" /\ process' = "up"
      BY <1>4, <2>2, AcceptFacts, StopFacts, CountWriteFacts, CreateFacts, NumberFacts,
         AddThreadFacts DEF Next, network_main_loop, MainMove
    <3> QED BY <1>2, <1>4, <3>1, MainHandlers DEF MainMove
  <2> QED BY <2>1, <2>2
<1>5. CASE Interrupt \/ table_server_close
  <2>1. BesidesSignal
    BY <1>5, InterruptFacts, DisconnectFacts, CloseSocketsFacts, DestroyFacts
       DEF table_server_close
  <2> QED BY <1>2, <2>1 DEF BesidesSignal
<1>6. CASE select_prev_server
  <2>1. CASE MergeMove /\ seen.touched \subseteq seen'.touched
    BY <1>2, <2>1 DEF MergeMove
  <2> QED BY <1>3, <1>6, <2>1, MergeCases
<1>7. ASSUME NEW c \in Conn, client_handler(c), process = "up"
      PROVE  KeysAnswer'
  <2>1. CASE Ends("crashed")
    BY <1>3, <2>1
  <2>2. CASE ~Ends("crashed")
    <3>1. /\ seen.tableRace => seen'.tableRace
          /\ seen.touched \ {c} \subseteq seen'.touched
      BY <1>7, <2>2, HandlerSeen
    <3>2. Others(c)
      BY <1>7, <2>2, HandlerFrame
    <3>3. ASSUME handler'[c].answer # NULL, c \notin seen'.touched, ~seen'.tableRace
          PROVE  handler'[c].answer = handler'[c].listed
      <4>1. CASE /\ handler'[c].answer = handler[c].answer
                 /\ handler'[c].listed = handler[c].listed
                 /\ seen'.touched = seen.touched /\ seen'.tableRace = seen.tableRace
        BY <3>3, <4>1 DEF KeysAnswer
      <4>2. CASE CountKeys(c)
        <5>1. /\ alive /\ handler[c].pc = "number" /\ handler'[c].listed = handler[c].listed
              /\ handler'[c].answer = size /\ c \notin seen.touched
          BY <3>3, <4>2, CountKeysFacts
        <5> QED BY <1>7, <3>1, <3>3, <5>1 DEF TableInv, CounterOK
      <4> QED BY <1>7, <2>2, <3>3, <4>1, <4>2, AnswerCases
    <3> QED BY <3>1, <3>2, <3>3 DEF Others, KeysAnswer
  <2> QED BY <2>1, <2>2
<1> QED BY <1>1, <1>4, <1>5, <1>6, <1>7 DEF Next

\* What the two theorems about the table rest on.
TableInvs == Types /\ FreshInv /\ TableInv /\ KeysAnswer

LEMMA TableInvsInit == Init => TableInvs
<1>1. Init => KeysAnswer
  BY DEF Init, NoHandler, KeysAnswer
<1> QED BY <1>1, InitTypes, FreshInit, TableInit DEF TableInvs

LEMMA TableInvsStep == TableInvs /\ [Next]_vars => TableInvs'
BY TypesStep, FreshStep, TableStep, AnswerStep DEF TableInvs

\* In whatever order handlers and merge run, table->size is the number of keys in
\* the lists, as long as the merge, which takes no lock, and a handler have not
\* been in the table at once (table_skel.c:91, table_server.c:242).
THEOREM SizeIsTheNumberOfKeys == Spec => []SizeIsKeys
<1>1. TableInvs => SizeIsKeys
  <2> SUFFICES ASSUME Types, TableInv, process = "up", alive, ~seen.tableRace, ~Updating
               PROVE  size = Cardinality(keys)
    BY DEF TableInvs, SizeIsKeys
  <2>1. CounterOK /\ ~MergeBusy /\ \A c \in Conn : ~Busy(c)
    BY DEF TableInv, Updating, At, Busy, MergeBusy
  <2> QED BY <2>1 DEF CounterOK
<1> QED BY <1>1, TableInvsInit, TableInvsStep, PTL DEF Spec

\* A GETKEYS announces as many keys as it has, unless the counter was written
\* between its two reads of the table (table_skel.c:268-270).
THEOREM AnswersCountTheirKeys == Spec => []KeysAnswer
<1>1. TableInvs => KeysAnswer
  BY DEF TableInvs
<1> QED BY <1>1, TableInvsInit, TableInvsStep, PTL DEF Spec

-----------------------------------------------------------------------------
(* The number of clients.                                                  *)

Live == {c \in Conn : handler[c].pc \notin {"none", "gone"}}
Clients == Cardinality(Live) + Cardinality(seen.orphans) + IF main.pc = "create" THEN 1 ELSE 0

\* As long as no two updates have overlapped, at most one thread is in one, and
\* what it has read is still the number of clients.
ClientsInv ==
    process = "up" /\ ~seen.countRace =>
        /\ stats.clients = Clients
        /\ main.pc = "count" => main.copy = stats.clients /\ Counting = {}
        /\ \A c \in Counting : handler[c].copy = stats.clients /\ Counting = {c}

LEMMA LiveIsFinite ==
    ASSUME Types
    PROVE  /\ IsFiniteSet(Live) /\ Cardinality(Live) \in Nat
           /\ IsFiniteSet(seen.orphans) /\ Cardinality(seen.orphans) \in Nat
<1>1. IsFiniteSet(Conn)
  BY ServerAssumption, FS_Interval DEF Conn
<1>2. Live \in SUBSET Conn /\ seen.orphans \in SUBSET Conn
  BY DEF Live, Types, DataOK, SeenState
<1>3. IsFiniteSet(Live) /\ IsFiniteSet(seen.orphans)
  BY <1>1, <1>2, FS_Subset
<1> QED BY <1>3, FS_CardinalityType

LEMMA ClientsInit ==
    ASSUME Init
    PROVE  ClientsInv
<1>1. /\ Live = {} /\ seen.orphans = {} /\ main.pc = "accept" /\ stats.clients = 0
      /\ Counting = {}
  BY DEF Init, NoHandler, NoHistory, Live, Counting
<1>2. Cardinality(Live) = 0 /\ Cardinality(seen.orphans) = 0
  BY <1>1, FS_EmptySet
<1> QED BY <1>1, <1>2 DEF ClientsInv, Clients

\* A step in which no thread begins or ends, and the number stays.
LEMMA ClientsFrame ==
    ASSUME ClientsInv, UNCHANGED main, process' = "up" => process = "up",
           stats'.clients = stats.clients, seen'.orphans = seen.orphans,
           seen.countRace => seen'.countRace,
           \A c \in Conn : AwayFrom(c, {"none", "gone", "uncount"})
    PROVE  ClientsInv'
<1>1. Live' = Live
  BY DEF Live, AwayFrom
<1>2. Counting' = Counting /\ \A c \in Counting : handler'[c] = handler[c]
  BY DEF Counting, AwayFrom
<1>3. Clients' = Clients
  BY <1>1 DEF Clients
<1> QED BY <1>2, <1>3 DEF ClientsInv

LEMMA MainKeepsClients ==
    ASSUME Types, FreshInv, ClientsInv, process = "up", process' = "up", network_main_loop
    PROVE  ClientsInv'
<1>1. MainMove /\ ~Exit
  BY MainHandlers DEF Exit, Ends
<1> SUFFICES ASSUME ~seen'.countRace
             PROVE  ClientsInv'
  BY DEF ClientsInv
<1>2. CASE Create
  <2>1. /\ main.pc = "create" /\ main.conn \in Conn /\ seen'.countRace = seen.countRace
        /\ stats' = stats
    BY <1>2, CreateFacts
  <2>2. handler[main.conn].pc = "none" /\ main.conn \notin seen.orphans
    BY <2>1 DEF FreshInv
  <2>3. stats.clients = Cardinality(Live) + Cardinality(seen.orphans) + 1
    BY <2>1 DEF ClientsInv, Clients
  <2>4. \A c \in Counting : handler[c].copy = stats.clients /\ Counting = {c}
    BY <2>1 DEF ClientsInv
  <2>5. CASE /\ Others(main.conn) /\ handler'[main.conn].pc = "idle"
             /\ main'.pc = "number" /\ seen'.orphans = seen.orphans
    <3>1. Live' = Live \cup {main.conn} /\ main.conn \notin Live
      BY <2>1, <2>2, <2>5 DEF Live, Others
    <3>2. Cardinality(Live') = Cardinality(Live) + 1
      BY <3>1, LiveIsFinite, FS_AddElement
    <3>3. Clients' = stats.clients
      BY <2>3, <2>5, <3>2, LiveIsFinite DEF Clients
    <3>4. Counting' = Counting /\ \A c \in Counting : handler'[c] = handler[c]
      BY <2>1, <2>2, <2>5 DEF Counting, Others
    <3> QED BY <2>1, <2>4, <2>5, <3>3, <3>4 DEF ClientsInv
  <2>6. CASE /\ UNCHANGED handler /\ main'.pc \in {"accept", "exit"}
             /\ seen'.orphans = seen.orphans \cup {main.conn}
    <3>1. Live' = Live /\ Counting' = Counting
      BY <2>6 DEF Live, Counting
    <3>2. Cardinality(seen'.orphans) = Cardinality(seen.orphans) + 1
      BY <2>2, <2>6, LiveIsFinite, FS_AddElement
    <3>3. Clients' = stats.clients
      BY <2>3, <2>6, <3>1, <3>2, LiveIsFinite DEF Clients
    <3> QED BY <2>1, <2>4, <2>6, <3>1, <3>3 DEF ClientsInv
  <2> QED BY <1>2, <2>5, <2>6, CreateFacts
<1>3. CASE ~Create
  <2>1. /\ handler' = handler /\ seen'.orphans = seen.orphans
        /\ seen.countRace => seen'.countRace
    BY <1>1, <1>3, AcceptFacts, StopFacts, CountWriteFacts, NumberFacts, AddThreadFacts
       DEF network_main_loop
  <2>2. Live' = Live /\ Counting' = Counting
    BY <2>1 DEF Live, Counting
  <2>3. /\ stats.clients = Clients
        /\ main.pc = "count" => main.copy = stats.clients /\ Counting = {}
        /\ \A c \in Counting : handler[c].copy = stats.clients /\ Counting = {c}
    BY <2>1 DEF ClientsInv
  <2>4. CASE Accept
    <3>1. /\ stats' = stats /\ main.pc = "accept" /\ main'.pc = "count"
          /\ main'.copy = stats.clients /\ Counting = {}
      BY <2>4, AcceptFacts
    <3>2. Clients' = Clients
      BY <2>1, <2>2, <3>1 DEF Clients
    <3> QED BY <2>2, <2>3, <3>1, <3>2 DEF ClientsInv
  <2>5. CASE CountWrite
    <3>1. /\ main.pc = "count" /\ main'.pc = "create" /\ stats'.clients = main.copy + 1
      BY <2>5, CountWriteFacts
    <3>2. Clients' = stats'.clients
      BY <2>1, <2>2, <2>3, <3>1, LiveIsFinite DEF Clients
    <3> QED BY <2>2, <2>3, <3>1, <3>2 DEF ClientsInv
  <2>6. CASE StopAccepting \/ Number \/ AddThread
    <3>1. /\ stats' = stats /\ main.pc \notin {"count", "create"}
          /\ main'.pc \notin {"count", "create"}
      BY <2>6, StopFacts, NumberFacts, AddThreadFacts
    <3>2. Clients' = Clients
      BY <2>1, <2>2, <3>1 DEF Clients
    <3> QED BY <2>1, <2>2, <2>3, <3>1, <3>2 DEF ClientsInv
  <2> QED BY <1>1, <1>3, <2>4, <2>5, <2>6 DEF network_main_loop
<1> QED BY <1>2, <1>3

LEMMA LeavingKeepsClients ==
    ASSUME Types, ClientsInv, process = "up", process' = "up", NEW c \in Conn,
           Leave(c) \/ LeaveWrite(c)
    PROVE  ClientsInv'
<1>1. LeaveMove(c)
  BY LeaveFacts, LeaveWriteFacts
<1> SUFFICES ASSUME ~seen'.countRace
             PROVE  ClientsInv'
  BY DEF ClientsInv
<1>2. Others(c) /\ main' = main /\ seen'.orphans = seen.orphans
  BY <1>1 DEF LeaveMove, BesidesHandlers
<1>3. CASE Leave(c)
  <2>1. /\ stats' = stats /\ handler[c].pc \in {"idle", "leave"} /\ handler'[c].pc = "uncount"
        /\ handler'[c].copy = stats.clients /\ ~seen.countRace /\ main.pc # "count"
        /\ Counting = {}
    BY <1>3, LeaveFacts
  <2>2. Live' = Live
    BY <1>2, <2>1 DEF Live, Others
  <2>3. Counting' = {c}
    BY <1>2, <2>1 DEF Counting, Others
  <2>4. Clients' = stats'.clients
    BY <1>2, <2>1, <2>2 DEF Clients, ClientsInv
  <2> QED BY <1>2, <2>1, <2>3, <2>4 DEF ClientsInv
<1>4. CASE LeaveWrite(c)
  <2>1. /\ seen' = seen /\ handler[c].pc = "uncount" /\ handler'[c].pc = "gone"
        /\ stats'.clients = handler[c].copy - 1
    BY <1>4, LeaveWriteFacts
  <2>2. c \in Counting
    BY <2>1 DEF Counting
  <2>3. /\ stats.clients = Clients /\ handler[c].copy = stats.clients /\ Counting = {c}
        /\ main.pc # "count"
    BY <2>1, <2>2 DEF ClientsInv
  <2>4. Live' = Live \ {c} /\ c \in Live
    BY <1>2, <2>1 DEF Live, Others
  <2>5. Cardinality(Live') = Cardinality(Live) - 1
    BY <2>4, LiveIsFinite, FS_RemoveElement
  <2>6. Clients' = stats'.clients
    BY <1>2, <2>1, <2>3, <2>5, LiveIsFinite DEF Clients
  <2>7. Counting' = {}
    BY <1>2, <2>1, <2>3 DEF Counting, Others
  <2> QED BY <1>2, <2>3, <2>6, <2>7 DEF ClientsInv
<1> QED BY <1>3, <1>4

LEMMA ClientsStep ==
    ASSUME Types, FreshInv, ClientsInv, [Next]_vars
    PROVE  ClientsInv'
<1>1. CASE UNCHANGED vars
  BY <1>1, ClientsFrame DEF vars, AwayFrom
<1> SUFFICES ASSUME Next, process = "up", process' = "up"
             PROVE  ClientsInv'
  BY <1>1 DEF Next, ClientsInv
<1>2. CASE network_main_loop
  BY <1>2, MainKeepsClients
<1>3. CASE Interrupt \/ table_server_close
  <2>1. BesidesSignal
    BY <1>3, InterruptFacts, DisconnectFacts, CloseSocketsFacts, DestroyFacts
       DEF table_server_close
  <2> QED BY <2>1, ClientsFrame DEF BesidesSignal, AwayFrom
<1>4. CASE select_prev_server
  <2>1. MergeMove
    BY <1>4, MergeCases DEF Ends
  <2> QED BY <2>1, ClientsFrame DEF MergeMove, SeenKept, AwayFrom
<1>5. ASSUME NEW c \in Conn, client_handler(c)
      PROVE  ClientsInv'
  <2>1. ~Ends("crashed")
    BY DEF Ends
  <2>2. CASE TableMove(c) \/ StatsMove(c)
    <3>1. \A d \in Conn : AwayFrom(d, {"none", "gone", "uncount"})
      BY <2>2 DEF TableMove, StatsMove, Others, AwayFrom
    <3>2. /\ stats'.clients = stats.clients /\ seen'.orphans = seen.orphans
          /\ seen'.countRace = seen.countRace /\ main' = main
      BY <2>2 DEF TableMove, StatsMove, SeenKept, BesidesHandlers
    <3> QED BY <3>1, <3>2, ClientsFrame
  <2>3. CASE Leave(c) \/ LeaveWrite(c)
    BY <2>3, LeavingKeepsClients
  <2> QED BY <1>5, <2>1, <2>2, <2>3, HandlerCases
<1> QED BY <1>2, <1>3, <1>4, <1>5 DEF Next

\* num_clients_connected, which no lock protects, is the number of live handlers
\* and of connections left without one, as long as no two updates of it have
\* overlapped (table_skel.c:375, network_server.c:92, :161).
THEOREM ClientsAreCounted == Spec => []ClientsCounted
<1>1. Init => Types /\ FreshInv /\ ClientsInv
  BY InitTypes, FreshInit, ClientsInit
<1>2. Types /\ FreshInv /\ ClientsInv /\ [Next]_vars => (Types /\ FreshInv /\ ClientsInv)'
  BY TypesStep, FreshStep, ClientsStep
<1>3. ClientsInv => ClientsCounted
  BY DEF ClientsInv, ClientsCounted, Clients, Live
<1> QED BY <1>1, <1>2, <1>3, PTL DEF Spec

=============================================================================
