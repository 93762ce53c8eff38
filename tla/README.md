# Verification of the replicated table

TLA+ models of the chain-replicated key/value table of this repository (`source/`, `include/`), the TLC runs that
check them and the TLAPS proofs about them. `PROJECT.json` lists the runs, which lines each definition translates, the
mutations each property detects, the hazards of the code and the disagreements found between the code and its comments.

    tlc -config MCChain.cfg MCChain        # a run; every .cfg belongs to the MC module whose name it begins with
    tlapm TableProofs.tla                  # the proofs; likewise every module whose name ends in Proofs, and ChainRefinement

## The system

| part | code | state | operations |
|---|---|---|---|
| table | `table.c`, `list.c`, `entry.c`, `data.c` | rows of ordered lists, a counter `size` | put, get, remove, size, get_keys, get_all_entries |
| skeleton | `table_skel.c` | `table_lock`, `stats_lock`, statistics | `invoke`: the operation, then its forwarding to `next_server` |
| server network | `network_server.c` | listening socket, one thread per connection, `thread_info_list` | accept loop, `client_handler`, receive, send, close |
| client network | `client_stub.c`, `network_client.c`, `message-private.c` | one socket per remote table | connect, `rtable_*`, `network_send_receive` |
| membership | `table_server.c`, `client_zookeeper.c`, `bubble_sort.c` | `next_server`, two ZooKeeper child watches | register, `select_next_server`, `select_prev_server`, shutdown |
| client | `table_client.c` | `head`, `tail` | commands, `select_head_and_tail_servers` |

Servers register under `/chain`; the order of their names is the order of the chain. A client writes to the first and
reads from the last. A server applies a write to its table, forwards it on its connection to the next server and answers
when that server has answered; so an answer from the head means that the whole chain has applied the write. A new server
copies the table of its predecessor when it starts, and every server selects its neighbours again at each change of the
children of `/chain`.

What is hard here:

* many handler threads share one connection to the next server, and a write is applied and forwarded in two steps;
* a peer may end at any moment: the code sees the end of file as a message, or as a NULL that it dereferences;
* the two callbacks of a server run in its main thread and in the completion thread of the ZooKeeper client, on lists
  read at different times, with no lock on `next_server`;
* a server does not accept connections before both its callbacks have run in main, while others already connect to it;
* the table is a counter and lists that must agree, and `table_get_keys` trusts the counter;
* a handler waits for the next server on a connection that a change of the children may close under it;
* the merge on joining runs beside the handlers and outside the lock, and again at every change of the children;
* the number of clients and the number of keys of an answer are read and written outside the locks;
* SIGINT runs the shutdown in the main thread, wherever that is, while handlers go on;
* a message is a length in a short and its bytes, and a read that is not full is not completed.

## The modules

| module | models | extends |
|---|---|---|
| `KVMap` | what a table promises: a map and the results of its operations | |
| `Table` | `table.c` over `list.c`; implements `KVMap` | |
| `TableProofs` | the proofs about `Table` | `Table`, TLAPS |
| `KVService` | what a client is promised: one table, calls that take effect at one moment | |
| `Chain` | clients, servers, handler threads, forwarding, retries, crashes; implements `KVService` | |
| `ChainProofs` | the proofs about `Chain` with crashes | `Chain`, TLAPS |
| `ChainRefinement` | the proofs about `Chain` without crashes: it implements `KVService` | `ChainProofs` |
| `Membership` | registration, watches, both selection callbacks in both threads, start, crashes | |
| `MembershipProofs` | the proofs about `Membership` | `Membership`, TLAPS |
| `Join` | a server that joins a chain in use: `Membership` with the tables, the merges, a writing client and the handlers that wait for answers; takes the steps of `Membership` | `Membership` |
| `JoinProofs` | the proofs about `Join` | `Join`, TLAPS |
| `Server` | one process: accept loop, handlers, locks, statistics, merge, SIGINT | |
| `ServerProofs` | the proofs about `Server` | `Server`, TLAPS |
| `Rpc` | what a connection promises to a stub | |
| `Framing` | the bytes of one connection; implements `Rpc` | |
| `FramingProofs` | the proofs about `Framing` | `Framing`, TLAPS |
| `MCTable`, `MCChain`, `MCMembership`, `MCJoin`, `MCServer`, `MCFraming` | constants for TLC | the module they are named after |

**Table.** `lists[r]` is `table->lists[r]`, a sequence of entries; `size` is `table->size`. Keys are naturals ordered as
`strcmp` orders them and `KeySum` gives the sum of their signed characters, of which `hash_code` takes C's remainder. An
action is one call. `ret` holds the call and its result, for the refinement. The insertion scan of `list_add` with its
unrolled cases for lists of size 0 and 1 is one operator: the first entry that is not below the key. An index outside
the lists is undefined behaviour: `defined` becomes FALSE and nothing follows.

**Chain.** A thread serves one connection (`client_handler`): `Serve` is `network_receive` and `invoke` up to the
release of `table_lock`, `Send` and `Await` are the two halves of `network_send_receive` on `next_server`, `Forwarded`
is the retry loop around them, `Reply` is `network_send`. `req` and `resp` are the two directions of the connection from
a server to the next, shared by all threads of the server; a response belongs to whoever reads first, as in the code.
The table of a server is the map that `Table` is proved to implement. When a server crashes, its peers read end of file:
`network_send_receive` then takes a length from an uninitialised variable, so the outcome is either an empty message,
which `rtable_put` takes for an error and `rtable_del` for a success, or a NULL, which the caller dereferences
(`client_stub.c:53`): a server whose next server is lost may end too, and so may a client whose server is lost. `effect`
and `acked` are history variables.

**Membership.** Servers are numbered in the order in which they register. `thread[s]["main"]` and
`thread[s]["completion"]` run the callbacks: `zk_get_children` and `zk_child_watcher` read the list and arm the watch,
`SelectNext`, `DropOld` and `SetNext` are `select_next_server` (read the address and connect; free the old connection;
assign the new one), `SelectPrev` and `Merge` are `select_prev_server` (connect; wait for the table),
`network_main_loop` starts to accept. `backlog` is the accept queue of a socket that listens with backlog 0. A failed
connect ends the process, because its error message goes through the NULL that it reports. `buffer` is the address left
in the memory that the next `malloc` returns, which is what a failed `zoo_get` leaves in use.

**Join.** The variables and the selection of `Membership`, whose `Merge` is split in two: `GetTable` is
`rtable_get_table`, answered by the predecessor, and each `PutEntry` is one `table_put` of the loop that follows. A
request goes down the chain and its answer comes back: `Write` is the local put or del at the head, `Forward` sends the
request to the next server and leaves the handler waiting in `network_send_receive` (`waits`), `Serve` is the local part
at the next server, which may refuse a del, and `Answer` gives the answer to the handler that waits, which retries a
refused request up to `MaxRetries` times and then answers as if it had been served. `Dropping` is the disconnect in
`select_next_server`: if a handler waits on that connection, it is `cut`. What such a handler reads next is a closed
descriptor, which ends the process through the NULL of `client_stub.c:53` (`UseClosed`), or a descriptor that another
connection has been given meanwhile, of which the model keeps that no answer need ever come: `UseClosed` has no fairness,
and `Answer` finds nobody (`"lost"`). A request that is written to a connection already freed is lost in the same way.
Taking another connection's bytes for the answer is not modelled. Since no server ends before the first fault, a server
that has a next server keeps one, so a retry always has somewhere to go. The history `exposed` collects, for each server,
the keys that it and its predecessor may see differently: those that were written at the predecessor while it was not
connected to the server, or while the server was still putting entries of an older answer, or that were lost as above,
and those that a merge changed at the predecessor, which tells nobody. A forwarded write takes a key out again. A run
ends with the first fault: what a server does after one of its threads has faulted is in `Membership`. `Members` is what
is left of a state when the tables are not looked at, a thread that puts entries being one in its merge (`State`).

**Server.** The main thread is `network_main_loop` step by step: accept, count the client, create the thread, give it a
number, add it to `thread_info_list`. `Interrupt` starts `table_server_close` between any two of these steps (one
SIGINT): `Disconnect`, a `CloseSockets` for each thread number, `Destroy`. A handler waits at "idle" and receives any
operation of `invoke`. One that uses the table takes `table_lock` and is in the lists (`Enter`) until the step of its
operation; an insertion or a deletion changes the lists first and the counter after it, in a read and a write as
`table->size++` is; `table_get_keys` and `CountKeys` are the two reads of GETKEYS; `BeginStats` and `EndStats` are
`update_stats`. The merge asks the previous server (`MergeAsk`), waits for its table or the end of the connection
(`MergeAnswer`, `MergeLost`), and makes the same insertions without the lock, being in the lists from `MergeEnter` to
`MergePut`. When it and a handler are there at once, one may use an entry that the other has freed, a replacement
included (`list.c:130`), and the process may end (`UseFreed`). What follows the destruction of the table, and what is
written past the end of an array, is any outcome, the end of the process included. Rows and links are left out: that two
insertions in one list may lose one of the new entries is one more outcome of an overlap which the model does not have.
The forwarding is in `Chain` and `Join`, so a handler here does not wait for a next server, nor ends its process by the
loss of one. `seen` is history: which unlocked accesses have overlapped, and what time has passed. So the model does not
list the ways in which a server may end by itself: failures of a connect, of `malloc` and of a forwarded request are
elsewhere or left out.

**Framing.** `up` and `down` are the two byte streams of a connection. `SendLength`, `SendBody`, `ReadLength` and
`ReadResponse` are the four system calls of `network_send_receive`, `ReceiveLength` and `ReceiveRequest` those of
`network_receive`, `AnswerLength` and `AnswerBody` those of `network_send`. `Reads` is what one `read` may return: any
number of bytes up to what was asked for and what is there. `read_all` returns at the first read that is not full, so
one `read` is all it does. `Short` is the assignment of an `int` to a `short`. `broken` is set by the first read that is
not full or the first length that is cut. `Rpc` says what a connection promises before that: calls are served once each,
in order, and return with their own response.

## What the runs check

Runs that pass:

* `table` - two rows, five keys (three in one row, one in the other, one with a negative sum), two values. Lists of 0 to
  3 entries receive insertions at every place and replacements. `Sorted`, `InOwnRow`, `SizeIsEntries`, and the refinement
  of `KVMap`, results included.
* `chain` - three servers, a client that writes and reads and one that reads, two keys, two values, three calls each, no
  crash: the chain implements `KVService` (linearizable, a get after an acknowledged put finds it), `AckedAtTail`,
  `HeadTailAgree`. Three servers are the least with a server that is neither head nor tail.
* `chain_crash` - one key, two calls each, two crashes at any moment, with fairness: `NeighboursAgree` (live neighbours
  differ by the one request that is under way), `RetriesOnlyWhenBroken`, `AckedSurvives` (every server that no ended
  server cuts off from the head holds what was acknowledged), and `EveryCallReturns`.
* `membership` - three servers that start in any interleaving, one crash: `WatchKept`, `SettledNext`, and with fairness
  `EventuallySettled`. Further servers die of failed connects, to one that has crashed and is still registered too. Three
  are the least with a successor that changes.
* `join` - a chain of two with any content of one key, a third server that joins, two writes: `UnexposedAgree`
  (neighbours agree on every key that is not exposed, once the merge is over), `TakesMembersSteps` (the servers take the
  steps of `Membership` and no others, except that a handler whose connection was closed ends its server), and
  `RequestsEnd` (a request and its answer go all the way, though the joining server waits for its predecessor and the
  predecessor's handlers for the joining server, unless a connection is closed under a handler that waits). Two writes
  are the least with one before and one after each step of a merge, and a deletion of what a merge brings back. With more
  keys, TLC has too many states; that keys do not disturb each other is in the proofs.
* `server` - two connections, two requests, two keys, one merge, one thread that cannot be created, one SIGINT.
  `SizeIsKeys`, `KeysAnswer`, `ClientsCounted` say which counter is right as long as which accesses have not
  overlapped; what the code does after such an overlap they exempt, and it is what the hazards of `PROJECT.json` note.
  `OpsCounted`: no operation is lost from the statistics, and until one sees the end of a second the total time is the
  time that passed. `SocketsClosed`: the shutdown finds every thread it looks up and closes every connection but the one
  that is being set up. `ShutdownEnds`: the process ends, unless the completion thread waits for a previous server that
  does not answer. Two requests and a merge are enough for every pair of overlapping accesses.
* `framing` - a short of three bits (`Half` = 4), messages of 1, 3, 5, 8 and 9 bytes: two that fit, one whose length is
  negative, one 0 and one too small. `InStep`, the refinement of `Rpc`, and `CallEnds`.

Runs that end in a counterexample, each a disagreement of the code with what it says of itself (the findings of
`PROJECT.json`):

* `table_hash` - a key with a negative character sum indexes `table->lists` out of bounds.
* `chain_order` - two clients write one key; the servers apply the writes in different orders, and head and tail stay
  different. This is why `chain` has one writing client.
* `membership_overlap` - main and the completion thread select a next server at once; main has the older list, finishes
  last and disconnects the successor. This is why `SettledNext` excepts servers where the two overlapped.
* `membership_backlog` - the accept queue of the first server is filled by the second, its connection to itself times
  out, and it crashes. With a crash in place of the full queue the same happens to whoever selects a server that is dead
  and still registered.
* `server_wait` - SIGINT with one connection open: "wait for all the threads to close" (`network_server.c:231`) waits
  for none, because the loop before it has emptied the list it looks in, and the threads are detached. The table is
  destroyed while the handler can still receive a request.

One more disagreement follows from the code and has no run of its own: `client_stub.h:67` promises the total time spent
on operations, and `stats.h:6` chose an unsigned type for values that are not negative, but `update_stats` subtracts the
microsecond fields alone, so each operation that sees the end of a second takes a second off, and the total may wrap.
`EndStats` does so, and `OpsCounted` claims nothing of the total from then on.

Bounds: `MaxCalls`, `MaxCrashes`, `N` (in `Membership`, servers that ever register; a restarted server is a new one),
`Backlog` (1, what Linux keeps for a backlog of 0). `MaxRetries` is 10 in the code and 2 in the runs: every iteration of
the loop is the same, and 2 has a first, a repeated and a last one. Deadlock is not checked because each of these systems
may stop: the clients have made their calls, or every server is dead.

Fairness: in `Chain`, each handler thread is scheduled (`WF` of its steps) and a client notices the end of its server;
the threads are operating-system threads with no lock held across steps, and TCP delivers. In `Membership`, `Join` and
`Server`, where the work that is under way is finite, it is enough that some thread that has work is scheduled, so there
is one `WF` (`Scheduled`, `JoinScheduled`). In `Membership` this includes that a connect ends with success or with an
error and that sessions of the dead expire. In `Join` a handler whose connection was closed need not notice. In `Server`
it covers the main thread, the shutdown and the entries of a merge; the handlers and the answer of the previous server
have none, because a client need not send anything and a peer may be blocked itself, and the process must end all the
same. In `Framing`, a client that is in a call and the handler are scheduled. No fairness on calls, connections, starts,
crashes and signals.

## What is proved

For all values of the constants that satisfy the assumptions named in the modules, which say what type a constant has and
that NULL is none of the values.

Of `Table` (`TableProofs`):

* `TableType`, `TableSorted`, `TableRows`, `TableSize`: the type invariant, the order and the rows of the lists, the counter;
* `TableRefinement`: `Spec => KV!Spec`, the table implements the map;
* `TableInBounds`: with no negative character sum, no access leaves the array of lists.

The inductive invariant is the conjunction of the type invariant, `Sorted`, `InOwnRow` and `SizeIsEntries`: the counter
is right only because a key is in one row, once, which needs the order of the lists and the choice of the row. The lemmas
say of `list_add` and `list_remove` what they do to the order, the keys and the values of a list; from them each
operation is shown to change the map at one key. `TableRefinement` is what lets `Chain` keep a table as a function from
keys to values.

Of `Chain` with one writing client (`OnlyWriter`), any number of servers, readers, calls and retries, and any crashes
(`ChainProofs`): `TypeCorrect`, `NeighboursAlwaysAgree`, `RetriesAreToTheDead`, `AcknowledgedSurvives`. None of these is inductive. The
invariant `IInv` adds, for each connection between two servers (`LinkInv`), the one thread that uses it and the one that
serves it: which of the two has the request, whether it is on the connection, applied or answered, and how the two
tables differ in each of these cases. It also bounds what a thread can hold (`ThreadInv`): the thread of a link has the
request of the thread before it, and will not refuse it. One lemma per step says how a link moves on (`LinkSend`,
`LinkTake`, `LinkServe`, `LinkAnswered`, `LinkResponse`); a step of a thread touches the two links beside its server.
That one client writes is what gives a link one thread: `chain_order` shows what two do.

For `AcknowledgedSurvives` the invariant `SInv` adds two facts to `IInv`: the thread of a client is at work on the call
that the client waits in (`OwnCall`), and the head has applied the write it works on and holds, of every other key, what
was acknowledged (`HeadInv`). A server that nothing cuts off from the head works only on the write that the head works
on (`SameWrite`) and agrees with the head on every other key (`SameTable`). Both follow from the links alone: the first
server of the chain for which one of them fails would have a predecessor for which it holds, and a link between them.
No condition on crashes is needed, since an answer climbs only from servers that have applied the request; behind a server
that has ended, nothing is promised.

Of `Chain` with one writing client and `MaxCrashes = 0`, any number of servers and readers (`ChainRefinement`):
`ChainRefinesService`, `AcknowledgedIsServed`, `HeadAndTailAgree`. `RInv` adds to `IInv` that a write is undecided on its
way down and decided, with the result that its client will get, on its way up (`WriteInv`), the same for a get at the
tail (`ReadInv`), and that the table of the tail has an acknowledged value or that of the decided write (`AckInv`). The
lemma `Source` finds, from a request at any server, the waiting thread of each server before it and the client.
The hypothesis on crashes is needed: a server whose next server ends answers what its end of file makes of the answer,
and for a del an empty message counts as done, so an acknowledged del need not have reached the tail.

Of `Membership`, any number of servers, crashes and accept queues (`MembershipProofs`): `MembershipType`,
`WatchesAreKept`, `SettledKnowsNext`. The invariant `IInv` says of every server where each of its two
watches is (armed, in an event, or in the callback of one thread: exactly one), and what an armed watch for the next
server implies: the children have not changed since it was armed, so whoever selects holds the current list, what it has
chosen is the successor in it, and when nobody selects, `next` is that successor, provided the two threads have not
overlapped. It is a conjunction over servers: an action of another server can disturb a server only by a change of the
children or by its end, so the lemmas of one kind say what a change of the children keeps, those of another that the rest
is a frame, and one lemma per action treats the server that acts.

Of `Join`, any number of servers that join a chain of any length, any keys, values, requests and retries (`JoinProofs`):
`JoinType`, `UnexposedKeysAgree`, `JoinTakesMembersSteps`. Agreement on a key is not inductive: while a server puts the
entries of an answer its table is anything, and what it has not put yet must be what its predecessor has. `IInv` says for
each pair of neighbours and each key that is not exposed (`AgreeOn`): the entries still to put are those of the
predecessor now; and the two tables agree, or an entry for the key is still due, or the predecessor has applied a request
that the server has still to serve (`Coming`). Each of these needs the others to be preserved: a write
during a merge is harmless to the invariant only because it exposes the key, a forwarded write clears a key only when no
entry is due, and a merge that changes a key exposes it in the server after. `RequestOK` adds that a server which has sent
a request holds what it wrote, or has exposed the key since (`Written`), so that a refused request may be sent again, and
that a handler waits for the server after its own; `MergeOK` who has received a table at all, and that a server without one
does not accept connections and has no key. The part about the members (`MembersOK`) rests on the children being 1 .. n,
as no server has ended before the first fault: the successor of s is s + 1, and the completion thread works only after
s + 1 has registered. The invariant speaks of the states before the first fault, where a run ends; a faulted state keeps
the types.

`JoinTakesMembersSteps` shows each step of `Join` to be a step of `Membership` on `Threads`, to leave it alone, or to be
the end of a server whose connection was closed under a waiting handler. A merge starts with an answer of a predecessor
that accepts connections, and the last entry is put while it still does: that is where the invariant is needed.

Of `Framing`, any sizes of messages, any width of a short and any number of calls (`FramingProofs`): `FramingType`,
`ConnectionInStep`, `ConnectionIsRpc`. While the connection is not broken, the invariant says where the one message is
(`Whereabouts`): resting, on its way to the server, being served, or on its way back; in each case what the two streams
hold to the byte, and how the three counters stand. Every step is shown to take one of these to the next, and the four
steps that others can see to be those of `Rpc`.

Of `Server`, any number of connections, requests, merges, failed threads and keys (`ServerProofs`): `ServerType`,
`SizeIsTheNumberOfKeys`, `AnswersCountTheirKeys`, `ClientsAreCounted`, `NoOperationIsLost`, `SocketsAreClosed`. A first
group of lemmas says once, for each action, what it changes and how (`PutFacts`, `LeaveFacts`, ...); the invariants are
then about these facts and not about the actions. `TableInv` says who is in the table: whoever has changed the lists
holds `table_lock`, or is the merge while nobody holds it, and the counter is behind by its one change, which its local
copy makes up for; the keys of an unanswered GETKEYS are as many as the counter says until it is written. `ClientsInv`
says that between the read and the write of the number of clients there is one thread, whose copy is still right, and
needs `FreshInv`: the connection that main is creating a thread for has had none. `StatsInv` gives the holder of
`stats_lock` the totals as they are, and the total of the time as that of the operations less a second for each second
that ended within one, modulo the word, which is the time itself as long as there is none. `ShutdownInv` relates the list of
threads to the loop of `network_server_close`: in the list is exactly who has been entered and not yet closed. Each
invariant is conditional on no overlap having happened so far, as the property is: the code guarantees no more.

Every invariant and action property of the runs that pass is the property of a theorem, so are the refinements, and
what is model-checked only is liveness (`EveryCallReturns`, `EventuallySettled`, `RequestsEnd`, `ShutdownEnds`,
`CallEnds`): fairness and ENABLED are outside what the provers handle. Some theorems say it under the conditions the runs
have: one writing client in `Chain`, and no crash in `ChainRefinement`.

## Not modelled

* Failures of `malloc`; the ZooKeeper connection itself (loss, expiry under a live server); parsing and printing of
  commands; `bubble_sort`, of which only the order it computes is used; the generated protocol-buffers code; the ZooKeeper
  distribution, with its documentation and scripts; `serialization.c`, which nothing calls.
* The client's watch callback (`table_client.c`, `select_head_and_tail_servers`): `Chain` has clients that keep their
  connections. The hazard at `table_client.c:358` is therefore described and not checked.
* In `Server`, a second SIGINT, and a SIGINT inside a library call of the main thread: the handler calls functions that
  may not be called there (`table_server.c:105`). The rows of the table, so what two insertions in one list at once do to
  its links. The contents of the stack: the key of a thread's entry is one byte longer
  than its buffer for threads 1, 10, 100 (`network_server.c:121`).
* In `Join`, crashes, more than one request at a time, any step after the first fault, and a descriptor that is used
  again for another connection while a handler reads from it, beyond the answer that never comes. `Chain`
  has a fixed membership.
* In `Framing`, two threads on one connection (they are in `Chain`, which takes a message for one step: `ConnectionIsRpc`
  says when it may).

Open: which acknowledged writes a tail behind an ended server still has. `AckedSurvives` ends at that server, and `Chain`
does not reconnect its neighbours (that is in `Membership` and `Join`).
