------------------------------- MODULE Server -------------------------------
(***************************************************************************)
(* One server process (src/source/network_server.c, table_skel.c and the   *)
(* parts of table_server.c that run beside them): the main thread accepts  *)
(* connections, one thread per connection serves requests, the completion  *)
(* thread of the ZooKeeper client merges the table of the previous server, *)
(* and SIGINT runs table_server_close in the main thread, wherever that    *)
(* is.                                                                     *)
(*                                                                         *)
(* Handlers use the table under table_lock and update the statistics under *)
(* stats_lock.  The merge takes no lock, the number of clients has none,   *)
(* and GETKEYS reads the counter of the table after it has released the    *)
(* lock.  table->size++, like every update of a shared counter, is a read  *)
(* and a write.  What a thread does in the lists takes time too: when the  *)
(* merge and a handler are in them at once, the entry that one replaces or *)
(* removes is freed under the other, which may end the process.  The rows  *)
(* are left out: a new entry is not linked where the other thread is, so   *)
(* that no link is lost.                                                   *)
(*                                                                         *)
(* Forwarding to the next server is in Chain.tla, values are in Table.tla. *)
(***************************************************************************)
EXTENDS Integers, Sequences, FiniteSets, FiniteSetsExt

CONSTANTS MaxConns,     \* bound: connections accepted
          Key, NULL,
          MaxRequests,  \* bound: requests received
          MaxMerges,    \* bound: merges of the previous server's table
          MaxFailures,  \* bound: threads that cannot be created
          Second,       \* microseconds in a second
          Duration,     \* bound: the microseconds an operation may take
          Word          \* values of an unsigned long

ASSUME ServerAssumption ==
    /\ MaxConns \in Nat /\ MaxRequests \in Nat /\ MaxMerges \in Nat /\ MaxFailures \in Nat
    /\ Second \in Nat \ {0} /\ Duration \subseteq Nat /\ Word \in Nat \ {0}
    /\ IsFiniteSet(Key) /\ NULL \notin Key /\ NULL \notin Int

VARIABLES process,    \* "up", "exited" or "crashed"
          running,    \* server_running
          main,       \* the main thread: where it is, the connection at hand, a local copy
          signal,     \* table_server_close: where it is, and its loop index
          threads,    \* the connections in the order of their thread numbers;
                      \* next_thread_number is one more than its length
          list,       \* thread_info_list, as the thread numbers in it
          closed,     \* connections whose sockets this process has closed
          handler,    \* handler[c]: the thread of connection c
          merge,      \* the completion thread: where it is, the entries left, a local copy
          keys, size, \* the keys in the lists of the table, and table->size
          alive,      \* the table and the two mutexes are not destroyed
          tableLock, statsLock,   \* who holds table_lock and stats_lock, or NULL
          stats,      \* server_stats
          used,       \* what the bounds count: connections, requests, merges, failures
          seen        \* history, see below

vars == <<process, running, main, signal, threads, list, closed, handler, merge, keys, size,
          alive, tableLock, statsLock, stats, used, seen>>

Conn == 1 .. MaxConns

table == <<keys, size, alive, tableLock>>
shutdown == <<running, signal, threads, list>>

\* The history: operations whose statistics are due, their time, the seconds
\* that ended within them; whether the merge and a handler have been in
\* the table at once, and whether two updates of the number of clients have
\* overlapped; the connections whose thread could not be created; the GETKEYS
\* whose keys are read and since when the counter has changed.
NoHistory == [ops |-> 0, time |-> 0, seconds |-> 0, tableRace |-> FALSE, countRace |-> FALSE,
              orphans |-> {}, touched |-> {}]

NoHandler == [pc |-> "none", op |-> NULL, copy |-> NULL, listed |-> NULL,
              answer |-> NULL]

Init ==
    /\ process = "up"
    /\ running = TRUE
    /\ main = [pc |-> "accept", conn |-> NULL, copy |-> NULL]
    /\ signal = [pc |-> "none", i |-> 1]
    /\ threads = <<>> /\ list = {} /\ closed = {}
    /\ handler = [c \in Conn |-> NoHandler]
    /\ merge = [pc |-> "idle", todo |-> {}, copy |-> NULL]
    /\ keys = {} /\ size = 0 /\ alive = TRUE
    /\ tableLock = NULL /\ statsLock = NULL
    /\ stats = [clients |-> 0, ops |-> 0, time |-> 0]
    /\ used = [conns |-> 0, requests |-> 0, merges |-> 0, failures |-> 0]
    /\ seen = NoHistory

\* The process ends, and nothing is left of it.
Ends(how) ==
    /\ process' = how
    /\ running' = FALSE
    /\ main' = [pc |-> "exit", conn |-> NULL, copy |-> NULL]
    /\ signal' = [pc |-> "none", i |-> 1]
    /\ threads' = <<>> /\ list' = {} /\ closed' = {}
    /\ handler' = [c \in Conn |-> NoHandler]
    /\ merge' = [pc |-> "idle", todo |-> {}, copy |-> NULL]
    /\ keys' = {} /\ size' = 0 /\ alive' = FALSE
    /\ tableLock' = NULL /\ statsLock' = NULL
    /\ stats' = [clients |-> 0, ops |-> 0, time |-> 0]
    /\ used' = [conns |-> 0, requests |-> 0, merges |-> 0, failures |-> 0]
    /\ seen' = NoHistory

-----------------------------------------------------------------------------
(* The main thread (network_main_loop); a signal suspends it.              *)

MainAt(pc) == main.pc = pc /\ signal.pc \in {"none", "done"}
LoopTest == IF running THEN "accept" ELSE "exit"

\* Who is between the read and the write of num_clients_connected.
Counting == {c \in Conn : handler[c].pc = "uncount"}

\* accept, and update_server_stats_clients(1, 0), up to its read.
Accept ==
    /\ MainAt("accept")
    /\ running
    /\ used.conns < MaxConns
    /\ main' = [pc |-> "count", conn |-> used.conns + 1, copy |-> stats.clients]
    /\ used' = [used EXCEPT !.conns = @ + 1]
    /\ seen' = [seen EXCEPT !.countRace = @ \/ Counting # {}]
    /\ UNCHANGED <<process, shutdown, closed, handler, merge, table, statsLock, stats>>

\* The listening socket is closed, or server_running is 0 when accept returns.
StopAccepting ==
    /\ MainAt("accept")
    /\ ~running
    /\ main' = [main EXCEPT !.pc = "exit"]
    /\ UNCHANGED <<process, shutdown, closed, handler, merge, table, statsLock, stats, used, seen>>

CountWrite ==
    /\ MainAt("count")
    /\ stats' = [stats EXCEPT !.clients = main.copy + 1]
    /\ main' = [main EXCEPT !.pc = "create", !.copy = NULL]
    /\ UNCHANGED <<process, shutdown, closed, handler, merge, table, statsLock, used, seen>>

\* pthread_create; when it fails the connection stays open, and counted.
Create ==
    /\ MainAt("create")
    /\ \/ /\ handler' = [handler EXCEPT ![main.conn] = [NoHandler EXCEPT !.pc = "idle"]]
          /\ main' = [main EXCEPT !.pc = "number"]
          /\ UNCHANGED <<used, seen>>
       \/ /\ used.failures < MaxFailures
          /\ used' = [used EXCEPT !.failures = @ + 1]
          /\ seen' = [seen EXCEPT !.orphans = @ \cup {main.conn}]
          /\ main' = [main EXCEPT !.pc = LoopTest, !.conn = NULL]
          /\ UNCHANGED handler
    /\ UNCHANGED <<process, shutdown, closed, merge, table, statsLock, stats>>

\* The thread gets its number, and then its entry in thread_info_list.
Number ==
    /\ MainAt("number")
    /\ threads' = Append(threads, main.conn)
    /\ main' = [main EXCEPT !.pc = "add"]
    /\ UNCHANGED <<process, running, signal, list, closed, handler, merge, table, statsLock,
                   stats, used, seen>>

AddThread ==
    /\ MainAt("add")
    /\ list' = list \cup {Len(threads)}
    /\ main' = [main EXCEPT !.pc = LoopTest, !.conn = NULL]
    /\ UNCHANGED <<process, running, signal, threads, closed, handler, merge, table, statsLock,
                   stats, used, seen>>

\* The loop is left, and main returns.
Exit == MainAt("exit") /\ Ends("exited")

network_main_loop ==
    Accept \/ StopAccepting \/ CountWrite \/ Create \/ Number \/ AddThread \/ Exit

-----------------------------------------------------------------------------
(* SIGINT (table_server_close), in the main thread, at any moment.         *)

SignalAt(pc) == signal.pc = pc

Interrupt ==
    /\ SignalAt("none")
    /\ signal' = [signal EXCEPT !.pc = "disconnect"]
    /\ UNCHANGED <<process, running, main, threads, list, closed, handler, merge, table,
                   statsLock, stats, used, seen>>

\* A fault: server_running stays 1.
Disconnect_running ==
    /\ SignalAt("disconnect")
    /\ merge.pc = "idle"
    /\ signal' = [pc |-> "sockets", i |-> 1]
    /\ UNCHANGED <<process, running, main, threads, list, closed, handler, merge, table,
                   statsLock, stats, used, seen>>

\* zookeeper_close joins the completion thread, which may still wait for the
\* previous server; then network_server_close:
\* server_running = 0 and the listening socket is closed.
Disconnect ==
    /\ SignalAt("disconnect")
    /\ merge.pc = "idle"
    /\ running' = FALSE
    /\ signal' = [pc |-> "sockets", i |-> 1]
    /\ UNCHANGED <<process, main, threads, list, closed, handler, merge, table, statsLock,
                   stats, used, seen>>

\* A fault: the socket of the last thread is left open.
CloseSockets_butLast ==
    /\ SignalAt("sockets") /\ signal.i <= Len(threads)
    /\ signal' = [signal EXCEPT !.i = @ + 1]
    /\ closed' = closed \cup {threads[i] : i \in (list \cap {signal.i}) \ {Len(threads)}}
    /\ list' = list \ {signal.i}
    /\ UNCHANGED <<process, running, main, threads, handler, merge, table, statsLock, stats,
                   used, seen>>

\* The sockets of all threads are closed and their entries removed, in the order
\* of their numbers, as long as the list is not empty: a number that is not in
\* it is the last one.
CloseSockets ==
    /\ SignalAt("sockets") /\ signal.i <= Len(threads)
    /\ signal' = [signal EXCEPT !.i = @ + 1]
    /\ closed' = closed \cup {threads[i] : i \in list \cap {signal.i}}
    /\ list' = list \ {signal.i}
    /\ UNCHANGED <<process, running, main, threads, handler, merge, table, statsLock, stats,
                   used, seen>>

\* The threads that are in the list are joined: by now there are none.  Then the
\* table and the mutexes are destroyed (table_skel_destroy) and main goes on.
Destroy ==
    /\ SignalAt("sockets") /\ signal.i > Len(threads)
    /\ \A i \in list : handler[threads[i]].pc = "gone"
    /\ alive' = FALSE
    /\ signal' = [signal EXCEPT !.pc = "done"]
    /\ UNCHANGED <<process, running, main, threads, list, closed, handler, merge, keys, size,
                   tableLock, statsLock, stats, used, seen>>

table_server_close == Disconnect \/ CloseSockets \/ Destroy

-----------------------------------------------------------------------------
(* A handler thread (client_handler, invoke).                              *)

At(c, pc) == handler[c].pc = pc
Goes(c, pc) == handler' = [handler EXCEPT ![c].pc = pc]
GoesWith(c, pc, copy) == handler' = [handler EXCEPT ![c].pc = pc, ![c].copy = copy]
Finishes(c) == handler' = [handler EXCEPT ![c] = [NoHandler EXCEPT !.pc = "finish"]]

\* What the process is besides a handler and the table, or the statistics.
BesidesTable == <<running, main, signal, threads, list, closed, merge, alive, statsLock, stats>>
BesidesStats == <<process, running, main, signal, threads, list, closed, merge, table, used>>

\* network_receive gives a request.  Its arrival is one step with what the
\* thread does first that others can see.  A thread that waits in read when its
\* socket is closed may still receive.
Receive(c) ==
    /\ At(c, "idle")
    /\ used.requests < MaxRequests
    /\ used' = [used EXCEPT !.requests = @ + 1]

\* stats_lock is taken.  A mutex that is destroyed excludes no one.
LocksStats(c) == IF alive THEN statsLock = NULL /\ statsLock' = c ELSE UNCHANGED statsLock

\* The merge is in the table: in its lists, or at its counter.
Merging == merge.pc \in {"lists", "read", "write"}

\* A request that uses the table: its thread takes table_lock, and is in the lists.
Enter(c) ==
    /\ Receive(c) /\ alive
    /\ tableLock = NULL
    /\ tableLock' = c
    /\ Goes(c, "table")
    /\ seen' = [seen EXCEPT !.tableRace = @ \/ Merging]
    /\ UNCHANGED <<process, BesidesTable, keys, size>>

\* The table is used after it was destroyed: the process ends, or what is found
\* there passes for an answer.
UsesTable(c) == \E pc \in {"table", "read", "write", "number"} : At(c, pc)

UseDestroyed(c) ==
    /\ ~alive
    /\ \/ Receive(c)
       \/ UsesTable(c) /\ UNCHANGED used
    /\ Finishes(c)
    /\ UNCHANGED <<process, BesidesTable, keys, size, tableLock, seen>>

CrashDestroyed(c) ==
    /\ ~alive
    /\ (At(c, "idle") /\ used.requests < MaxRequests) \/ UsesTable(c)
    /\ Ends("crashed")

\* The thread of c leaves the lists, and the lock unless it has still to update the
\* counter.
InLists(c) == At(c, "table") /\ alive
BesidesLists == <<process, BesidesTable, used, size>>
Unlocks(c) == tableLock' = NULL /\ Finishes(c) /\ UNCHANGED <<BesidesLists, seen>>
Counts(c, op) ==
    /\ handler' = [handler EXCEPT ![c].pc = "read", ![c].op = op]
    /\ UNCHANGED <<BesidesLists, tableLock, seen>>

\* A fault: the lock is released before the counter is updated.
table_put_unlocks(c) ==
    /\ InLists(c)
    /\ \E k \in Key :
        /\ keys' = keys \cup {k}
        /\ IF k \in keys THEN Finishes(c)
           ELSE handler' = [handler EXCEPT ![c].pc = "read", ![c].op = "put"]
    /\ tableLock' = NULL
    /\ UNCHANGED <<BesidesLists, seen>>

\* table_put, up to the update of the counter, which counts a new key.
table_put(c) ==
    /\ InLists(c)
    /\ \E k \in Key :
          /\ keys' = keys \cup {k}
          /\ IF k \in keys THEN Unlocks(c) ELSE Counts(c, "put")

\* table_remove, up to the update of the counter: nothing is looked for in a
\* table of size 0.
table_remove(c) ==
    /\ InLists(c)
    /\ \E k \in Key :
          IF size # 0 /\ k \in keys THEN keys' = keys \ {k} /\ Counts(c, "del")
          ELSE Unlocks(c) /\ UNCHANGED keys

\* table->size++ or table->size--, read and written.
ReadSize(c) ==
    /\ At(c, "read") /\ alive
    /\ GoesWith(c, "write", size)
    /\ UNCHANGED <<process, BesidesTable, used, keys, size, tableLock, seen>>

\* Who has keys to answer with, but not yet their number.
Listing == {d \in Conn : At(d, "number")}

WriteSize(c) ==
    /\ At(c, "write") /\ alive
    /\ size' = handler[c].copy + IF handler[c].op = "put" THEN 1 ELSE -1
    /\ tableLock' = NULL
    /\ Finishes(c)
    /\ seen' = [seen EXCEPT !.touched = @ \cup Listing]
    /\ UNCHANGED <<process, BesidesTable, used, keys>>

table_get(c) == InLists(c) /\ Unlocks(c) /\ UNCHANGED keys

\* OP_SIZE reads the counter without the lock.
table_size(c) ==
    /\ Receive(c) /\ alive
    /\ Finishes(c)
    /\ UNCHANGED <<process, BesidesTable, keys, size, tableLock, seen>>

\* table_get_keys fills an array of size + 1 pointers.  More keys than that are
\* written past its end.  Whoever looks for the NULL that ends it needs one more.
TooMany(terminator) == Cardinality(keys) + terminator > size + 1

\* table_get_keys for OP_GETKEYS; get_all_entries of OP_GETTABLE, which looks for
\* the end of the keys.
table_get_keys(c) ==
    /\ InLists(c)
    /\ UNCHANGED keys
    /\ \/ size = 0 /\ Unlocks(c)
       \/ /\ size # 0 /\ ~TooMany(0)
          /\ handler' = [handler EXCEPT ![c].pc = "number",
                                        ![c].listed = Cardinality(keys)]
          /\ tableLock' = NULL
          /\ seen' = [seen EXCEPT !.touched = @ \ {c}]
          /\ UNCHANGED BesidesLists

get_all_entries(c) ==
    /\ InLists(c) /\ (size = 0 \/ ~TooMany(1))
    /\ Unlocks(c)
    /\ UNCHANGED keys

\* The keys are written or read past the end of their array.
Overrun(c) == InLists(c) /\ size # 0 /\ TooMany(1) /\ Ends("crashed")

\* A handler is in the lists while the merge is: one of them uses an entry that the
\* other has freed, in list_add before it links the new one, or in list_remove.
UseFreed(c) == InLists(c) /\ merge.pc = "lists" /\ Ends("crashed")

\* The number of keys is read again, without the lock; -1 passes for an error.
CountKeys(c) ==
    /\ At(c, "number") /\ alive
    /\ handler' = [handler EXCEPT ![c].pc = "finish",
                                 ![c].answer = IF size = -1 THEN NULL ELSE size]
    /\ UNCHANGED <<process, BesidesTable, used, keys, size, tableLock, seen>>

\* A fault: the statistics are updated without their lock.
BeginStats_unlocked(c) ==
    /\ At(c, "finish")
    /\ GoesWith(c, "stats", [ops |-> stats.ops, time |-> stats.time])
    /\ seen' = [seen EXCEPT !.ops = @ + 1]
    /\ UNCHANGED <<BesidesStats, statsLock, stats>>

\* update_stats: num_ops and total_time_microseconds are read and written under
\* stats_lock.
BeginStats(c) ==
    /\ At(c, "finish")
    /\ LocksStats(c)
    /\ GoesWith(c, "stats", [ops |-> stats.ops, time |-> stats.time])
    /\ seen' = [seen EXCEPT !.ops = @ + 1]
    /\ UNCHANGED <<BesidesStats, stats>>

\* network_send, whose errors are not looked at, and then the next read, which
\* fails on a closed socket.
network_send(c) ==
    handler' = [handler EXCEPT ![c] =
                  [NoHandler EXCEPT !.pc = IF c \in closed THEN "leave" ELSE "idle"]]

\* A response that counts more keys than its array has.
Overcounts(c) ==
    IF handler[c].answer = NULL THEN FALSE ELSE handler[c].answer \notin 0 .. handler[c].listed

\* A fault: the total of the time is a signed number.
EndStats_signed(c) ==
    /\ At(c, "stats") /\ ~Overcounts(c)
    /\ \E s \in 0 .. Second - 1, d \in Duration :
          /\ stats' = [stats EXCEPT !.ops = handler[c].copy.ops + 1,
                        !.time = handler[c].copy.time + ((s + d) % Second) - s]
          /\ seen' = [seen EXCEPT !.time = @ + d, !.seconds = @ + (s + d) \div Second,
                                  !.touched = @ \ {c}]
    /\ statsLock' = NULL
    /\ network_send(c)
    /\ UNCHANGED BesidesStats

\* The operation began at microsecond s of some second and took d: the
\* difference of the two microsecond fields is added.  Then the response is sent.
EndStats(c) ==
    /\ At(c, "stats") /\ ~Overcounts(c)
    /\ \E s \in 0 .. Second - 1, d \in Duration :
          /\ stats' = [stats EXCEPT !.ops = handler[c].copy.ops + 1,
                        !.time = (handler[c].copy.time + ((s + d) % Second) - s) % Word]
          /\ seen' = [seen EXCEPT !.time = @ + d, !.seconds = @ + (s + d) \div Second,
                                  !.touched = @ \ {c}]
    /\ statsLock' = NULL
    /\ network_send(c)
    /\ UNCHANGED BesidesStats

\* A response that counts more keys than it has ends the process when it is packed.
PackError(c) == At(c, "stats") /\ Overcounts(c) /\ Ends("crashed")

\* OP_STATS reads the statistics, and has none of its own.
ServeStats(c) ==
    /\ Receive(c)
    /\ network_send(c)
    /\ UNCHANGED <<process, BesidesTable, keys, size, tableLock, seen>>

\* The client, or this process, has closed the connection.  The socket is
\* closed if server_running, and update_server_stats_clients(1, 1) takes the
\* thread from the clients.
Leave(c) ==
    /\ At(c, "idle") \/ At(c, "leave")
    /\ closed' = IF running THEN closed \cup {c} ELSE closed
    /\ GoesWith(c, "uncount", stats.clients)
    /\ seen' = [seen EXCEPT !.countRace = @ \/ main.pc = "count" \/ Counting # {}]
    /\ UNCHANGED <<process, shutdown, main, merge, table, statsLock, stats, used>>

\* A fault: the thread of an ended connection is not taken from the clients.
LeaveWrite_keeps(c) ==
    /\ At(c, "uncount")
    /\ GoesWith(c, "gone", NULL)
    /\ UNCHANGED <<BesidesStats, statsLock, stats, seen>>

LeaveWrite(c) ==
    /\ At(c, "uncount")
    /\ stats' = [stats EXCEPT !.clients = handler[c].copy - 1]
    /\ GoesWith(c, "gone", NULL)
    /\ UNCHANGED <<BesidesStats, statsLock, seen>>

client_handler(c) ==
    \/ Enter(c)
    \/ table_put(c) \/ table_remove(c) \/ ReadSize(c) \/ WriteSize(c)
    \/ table_get(c) \/ table_size(c) \/ table_get_keys(c) \/ CountKeys(c) \/ get_all_entries(c)
    \/ Overrun(c) \/ UseFreed(c) \/ UseDestroyed(c) \/ CrashDestroyed(c) \/ ServeStats(c)
    \/ BeginStats(c) \/ EndStats(c) \/ PackError(c)
    \/ Leave(c) \/ LeaveWrite(c)

-----------------------------------------------------------------------------
(* The completion thread (select_prev_server), until zookeeper_close.      *)

BesidesMerge == <<process, shutdown, main, closed, handler, alive, tableLock, statsLock, stats>>

\* The previous server is asked for its table (rtable_get_table), and answers with
\* some keys, or none.  The connection may also be lost, and the process ends of the
\* NULL that it takes for an answer.
MergeAsk ==
    /\ merge.pc = "idle" /\ signal.pc = "none"
    /\ used.merges < MaxMerges
    /\ used' = [used EXCEPT !.merges = @ + 1]
    /\ merge' = [merge EXCEPT !.pc = "ask"]
    /\ UNCHANGED <<BesidesMerge, keys, size, seen>>

MergeAnswer ==
    /\ merge.pc = "ask"
    /\ \E todo \in SUBSET Key :
          merge' = [merge EXCEPT !.pc = IF todo = {} THEN "idle" ELSE "put", !.todo = todo]
    /\ UNCHANGED <<BesidesMerge, keys, size, used, seen>>

MergeLost == merge.pc = "ask" /\ Ends("crashed")

\* table_put of one entry, without table_lock: the thread is in the lists from
\* here on; who holds table_lock is in the table.
MergeEnter ==
    /\ merge.pc = "put"
    /\ merge' = [merge EXCEPT !.pc = "lists"]
    /\ seen' = [seen EXCEPT !.tableRace = @ \/ tableLock # NULL]
    /\ UNCHANGED <<BesidesMerge, keys, size, used>>

\* Where the merge goes after an entry: to the next one, or it is over.
Continues(todo) == IF todo = {} THEN "idle" ELSE "put"

MergePut ==
    /\ merge.pc = "lists"
    /\ \E k \in merge.todo :
          /\ keys' = keys \cup {k}
          /\ merge' = [merge EXCEPT !.pc = IF k \in keys THEN Continues(merge.todo \ {k})
                                           ELSE "read",
                                    !.todo = @ \ {k}]
    /\ UNCHANGED <<BesidesMerge, size, used, seen>>

MergeRead ==
    /\ merge.pc = "read"
    /\ merge' = [merge EXCEPT !.pc = "write", !.copy = size]
    /\ UNCHANGED <<BesidesMerge, keys, size, used, seen>>

MergeWrite ==
    /\ merge.pc = "write"
    /\ size' = merge.copy + 1
    /\ merge' = [merge EXCEPT !.pc = Continues(merge.todo), !.copy = NULL]
    /\ seen' = [seen EXCEPT !.touched = @ \cup Listing]
    /\ UNCHANGED <<BesidesMerge, keys, used>>

MergeTable == MergeEnter \/ MergePut \/ MergeRead \/ MergeWrite
select_prev_server == MergeAsk \/ MergeAnswer \/ MergeLost \/ MergeTable

-----------------------------------------------------------------------------

Next ==
    /\ process = "up"
    /\ \/ network_main_loop
       \/ Interrupt
       \/ table_server_close
       \/ select_prev_server
       \/ \E c \in Conn : client_handler(c)

Spec == Init /\ [][Next]_vars

\* Some thread of main and the completion thread that has work is scheduled.
\* Nothing obliges a client to connect, a handler to run, or the previous server
\* to answer.
Scheduled ==
    /\ process = "up"
    /\ \/ StopAccepting \/ CountWrite \/ Create \/ Number \/ AddThread \/ Exit
       \/ table_server_close
       \/ MergeTable

FairSpec == Spec /\ WF_vars(Scheduled)

-----------------------------------------------------------------------------
(* Properties.                                                             *)

\* The variables have their types.
TypeOK ==
    /\ process \in {"up", "exited", "crashed"}
    /\ running \in BOOLEAN /\ alive \in BOOLEAN
    /\ main \in [pc : {"accept", "count", "create", "number", "add", "exit"},
                 conn : Conn \cup {NULL}, copy : Int \cup {NULL}]
    /\ signal \in [pc : {"none", "disconnect", "sockets", "done"}, i : Nat \ {0}]
    /\ threads \in Seq(Conn) /\ list \in SUBSET (1 .. Len(threads)) /\ closed \in SUBSET Conn
    /\ \A c \in Conn :
          /\ handler[c].pc \in {"none", "idle", "table", "read", "write", "number",
                               "finish", "stats", "leave", "uncount", "gone"}
          /\ handler[c].op \in {"put", "del", NULL}
          /\ handler[c].listed \in Nat \cup {NULL} /\ handler[c].answer \in Int \cup {NULL}
    /\ merge.pc \in {"idle", "ask", "put", "lists", "read", "write"}
    /\ merge.todo \in SUBSET Key /\ merge.copy \in Int \cup {NULL}
    /\ keys \in SUBSET Key /\ size \in Int
    /\ tableLock \in Conn \cup {NULL} /\ statsLock \in Conn \cup {NULL}
    /\ stats \in [clients : Int, ops : Nat, time : 0 .. Word - 1]

Updating == merge.pc \in {"read", "write"} \/ \E c \in Conn : At(c, "read") \/ At(c, "write")

\* Whatever order handlers and merge take, table->size is the number of keys in
\* the lists (table_skel.c:91), as long as the merge, which takes no lock
\* (table_server.c:242), and a handler have not been in the table at once.
SizeIsKeys ==
    process = "up" /\ alive /\ ~seen.tableRace /\ ~Updating => size = Cardinality(keys)

\* A GETKEYS between whose two reads of the table (table_skel.c:268, :270) no
\* counter was written announces as many keys as it has.
KeysAnswer ==
    \A c \in Conn :
        handler[c].answer # NULL /\ c \notin seen.touched /\ ~seen.tableRace
            => handler[c].answer = handler[c].listed

\* num_clients_connected, which no lock protects (table_skel.c:375), is the number
\* of live handlers and of connections left without one, as long as no two
\* updates have overlapped.
ClientsCounted ==
    process = "up" /\ ~seen.countRace /\ main.pc # "count" /\ Counting = {} =>
        stats.clients = Cardinality({c \in Conn : handler[c].pc \notin {"none", "gone"}})
                        + Cardinality(seen.orphans)
                        + IF main.pc = "create" THEN 1 ELSE 0

\* No operation is lost from the statistics (update_stats, table_skel.c:383), and as
\* long as none has seen the end of a second, the time they add up to is the time
\* that passed.
OpsCounted ==
    process = "up" /\ alive /\ (\A c \in Conn : ~At(c, "stats")) =>
        /\ stats.ops = seen.ops
        /\ seen.seconds = 0 => stats.time = seen.time % Word

\* network_server_close finds each thread that it looks up (network_server.c:224), and
\* after its first loop no live handler keeps an open connection, but for the one
\* that main was creating when the signal came.
SocketsClosed ==
    SignalAt("sockets") =>
        IF signal.i <= Len(threads) THEN list = {} \/ signal.i \in list
        ELSE \A c \in Conn :
                handler[c].pc \notin {"none", "gone"} /\ c \notin closed
                    => main.conn = c /\ main.pc \in {"number", "add"}

\* "Wait for all the threads to close" (network_server.c:231): when the table is
\* destroyed, no handler whose socket was closed still serves requests.
ThreadsAwaited ==
    SignalAt("done") => \A c \in closed : handler[c].pc \in {"none", "uncount", "gone"}

\* SIGINT ends the process, though handlers may wait for their clients for ever
\* (table_server_close, network_main_loop), unless the completion thread waits for an
\* answer of the previous server (table_server.c:237), for as long as it does.
ShutdownEnds == SignalAt("disconnect") /\ merge.pc # "ask" ~> process # "up"
=============================================================================
