-------------------------------- MODULE Join --------------------------------
(***************************************************************************)
(* A server joins a chain in use: Membership.tla with the tables of the    *)
(* servers and one client that writes, one request at a time.              *)
(*                                                                         *)
(* A new server merges the table of its predecessor before it accepts      *)
(* connections, and the predecessor connects to it when its own child      *)
(* event arrives.  Later events make every server merge the table of its   *)
(* predecessor again, entry by entry, while requests go on.  Nothing ties  *)
(* a merge to the requests: a key that is written between an answered      *)
(* GETTABLE and the end of the merge, or before the predecessor has        *)
(* connected, may be left different in the two servers, for good.  Those   *)
(* keys are collected in exposed, and the other keys must agree.           *)
(*                                                                         *)
(* A handler that forwards a request waits for the answer, and every       *)
(* handler before it in the chain waits for its own.  An event that makes  *)
(* select_next_server connect again, to the same server perhaps, closes    *)
(* the connection under a handler that waits: what this one reads next is  *)
(* a closed descriptor, which ends the process, or one used again, which   *)
(* may never answer.                                                       *)
(*                                                                         *)
(* Servers 1 .. Settled0 are a chain at the start.  No server crashes, and *)
(* a run ends with the first fault.                                        *)
(***************************************************************************)
EXTENDS Membership

CONSTANTS Key, Value,
          Settled0,   \* servers that are a chain at the start
          MaxWrites,  \* bound: requests of the client
          MaxRetries  \* how often a server sends a request to its next server (10)

ASSUME JoinAssumption ==
    /\ Settled0 \in 1 .. N /\ MaxWrites \in Nat /\ NULL \notin Value
    /\ MaxRetries \in Nat \ {0}
    /\ IsFiniteSet(Key) /\ IsFiniteSet(Value)

VARIABLES table,    \* table[s][k]: the value of k at s, or NULL
          entries,  \* entries[s][t]: what thread t of s has still to merge, a set of keys
                    \* with their values
          request,  \* the request of the client: its key, its value (NULL for del), the
                    \* server it is at, how far it is there, and how often that server
                    \* was refused
          writes,   \* requests made (bounded)
          waits,    \* waits[s]: the server whose answer a handler of s waits for
          cut,      \* servers whose connection was closed under the handler that waits
          answered, \* history: the servers to whom a predecessor has sent its table
          exposed   \* history: exposed[s], keys that s and its predecessor may see differently

tables == <<table, entries, request, writes, waits, answered, exposed>>
allVars == <<vars, tables, cut>>

NoRequest == [key |-> NULL, value |-> NULL, at |-> NULL, pc |-> "none", refusals |-> 0]

JoinInit ==
    /\ status = [s \in Server |-> IF s <= Settled0 THEN "up" ELSE "absent"]
    /\ znodes = 1 .. Settled0
    /\ armed = [s \in Server |-> IF s <= Settled0 THEN Watch ELSE {}]
    /\ events = [s \in Server |-> <<>>]
    /\ thread = [s \in Server |->
                   [t \in Thread |-> IF s <= Settled0 /\ t = "main"
                                     THEN [Idle EXCEPT !.pc = "loop"] ELSE Idle]]
    /\ next = [s \in Server |-> IF s < Settled0 THEN s + 1 ELSE NULL]
    /\ dangling = [s \in Server |-> FALSE]
    /\ backlog = [s \in Server |-> 0]
    /\ buffer = [s \in Server |-> [t \in Thread |-> NULL]]
    /\ crashes = 0
    /\ fault = [s \in Server |-> FALSE]
    /\ overlap = [s \in Server |-> FALSE]
    /\ \E held \in [Key -> Value \cup {NULL}] :
          table = [s \in Server |-> IF s <= Settled0 THEN held ELSE [k \in Key |-> NULL]]
    /\ entries = [s \in Server |-> [t \in Thread |-> {}]]
    /\ request = NoRequest
    /\ writes = 0
    /\ waits = [s \in Server |-> NULL]
    /\ cut = {}
    /\ answered = {}
    /\ exposed = [s \in Server |-> {}]

-----------------------------------------------------------------------------
(* Which keys are exposed.                                                 *)

\* Thread t of s holds entries that it has not put yet.
MergingAt(s) == \E t \in Thread : entries[s][t] # {}

\* Key k changes at p, and the server after p is not sure to hear of it: it has
\* an older table, of which it is still putting entries, or p is not connected to it.
ExposedBy(p, k) ==
    LET q == Successor(p, znodes) IN
    IF q \in answered /\ (next[p] # q \/ MergingAt(q)) THEN {q} ELSE {}

\* p has applied a request for k, and q, the server after it, has not: it is still
\* to serve it, or has refused it and may be asked again.
Underway(p, q, k) ==
    /\ request.key = k
    /\ \/ request.at = p /\ request.pc = "applied"
       \/ request.at = q /\ request.pc \in {"received", "refused"}

\* A merge changes k at p, and no one tells the server after p: it has an older
\* table, or is still to be told of a request for k that p applied before.
ExposedByMerge(p, k) ==
    LET q == Successor(p, znodes) IN
    IF q \in answered \/ (q # NULL /\ Underway(p, q, k)) THEN {q} ELSE {}

Expose(servers, k) == exposed' = [s \in Server |-> IF s \in servers THEN exposed[s] \cup {k}
                                                                    ELSE exposed[s]]

-----------------------------------------------------------------------------
(* The client and the handlers (invoke).                                   *)

\* The client sends a request to the head, which applies it; the head refuses to
\* delete a key it does not have.
Write(k, v) ==
    LET head == Min(znodes) IN
    /\ request.at = NULL
    /\ writes < MaxWrites
    /\ InLoop(head)
    /\ v # NULL \/ table[head][k] # NULL
    /\ writes' = writes + 1
    /\ table' = [table EXCEPT ![head][k] = v]
    /\ request' = [key |-> k, value |-> v, at |-> head, pc |-> "applied", refusals |-> 0]
    /\ Expose(ExposedBy(head, k), k)
    /\ UNCHANGED <<vars, entries, waits, cut, answered>>

\* Server s has applied the request and sends it to its next server, if it has one,
\* whether or not that one accepts connections yet, and waits for the answer.
\* What it writes to a connection that has just been freed goes nowhere.  (A
\* server that has a next server keeps one here, since none ends: what is sent
\* again after a refusal has somewhere to go.)
Forward(s) ==
    LET q == next[s] IN
    /\ request.at = s /\ request.pc = "applied"
    /\ \/ /\ q = NULL
          /\ request' = [request EXCEPT !.pc = "answer"]
          /\ UNCHANGED <<waits, cut, exposed>>
       \/ /\ q # NULL /\ ~dangling[s]
          /\ request' = [request EXCEPT !.at = q, !.pc = "received"]
          /\ waits' = [waits EXCEPT ![s] = q]
          /\ UNCHANGED <<cut, exposed>>
       \/ /\ q # NULL /\ dangling[s]
          /\ request' = [request EXCEPT !.pc = "lost"]
          /\ waits' = [waits EXCEPT ![s] = q]
          /\ cut' = cut \cup {s}
          /\ Expose({Successor(s, znodes)}, request.key)
    /\ UNCHANGED <<vars, table, entries, writes, answered>>

\* A handler of q, once q accepts connections, applies the request of the server
\* before it; it refuses to delete a key that q does not have.
Serve(q) ==
    LET p == Predecessor(q, znodes)
        k == request.key
        v == request.value IN
    /\ request.at = q /\ request.pc = "received"
    /\ InLoop(q)
    /\ \/ /\ v = NULL /\ table[q][k] = NULL
          /\ request' = [request EXCEPT !.pc = "refused"]
          /\ UNCHANGED <<table, exposed>>
       \/ /\ v # NULL \/ table[q][k] # NULL
          /\ table' = [table EXCEPT ![q][k] = v]
          /\ request' = [request EXCEPT !.pc = "applied", !.refusals = 0]
          /\ exposed' = [s \in Server |->
                           IF s \in ExposedBy(q, k) THEN exposed[s] \cup {k}
                           ELSE IF s = q /\ ~MergingAt(q) /\ table[p][k] = v
                           THEN exposed[s] \ {k}
                           ELSE exposed[s]]
    /\ UNCHANGED <<vars, entries, writes, waits, cut, answered>>

\* The handler of q answers, the client or the handler that waits for it.  That
\* one sends a refused request again, MaxRetries times in all, and then answers
\* as if it had been served.  No answer reaches a closed connection.
Answer(q) ==
    LET refused == request.pc = "refused"
        tried == request.refusals + 1
        callers == {p \in Server : waits[p] = q} IN
    /\ request.at = q /\ request.pc \in {"answer", "refused"}
    /\ \/ /\ callers = {}
          /\ request' = NoRequest
          /\ UNCHANGED waits
       \/ \E p \in callers :
             /\ p \notin cut
             /\ waits' = [waits EXCEPT ![p] = NULL]
             /\ \/ /\ refused /\ tried < MaxRetries
                   /\ request' = [request EXCEPT !.at = p, !.pc = "applied",
                                                 !.refusals = tried]
                \/ /\ ~refused \/ tried >= MaxRetries
                   /\ request' = [request EXCEPT !.at = p, !.pc = "answer"]
       \/ /\ callers # {} /\ callers \subseteq cut
          /\ request' = [request EXCEPT !.pc = "lost"]
          /\ UNCHANGED waits
    /\ UNCHANGED <<vars, table, entries, writes, cut, answered, exposed>>

\* A handler reads or writes the descriptor that was closed under it, and its
\* process ends of the NULL that it takes for an answer.
UseClosed(s) ==
    /\ s \in cut
    /\ Fault(s)
    /\ UNCHANGED <<tables, cut>>

-----------------------------------------------------------------------------
(* The merge (select_prev_server).                                         *)

\* A fault: the callback returns before the entries are put.
GetTable_empty(s, t) ==
    LET q == thread[s][t].to IN
    /\ At(s, t, "merge", "prev") /\ InLoop(q)
    /\ answered' = answered \cup {s}
    /\ Returns(s, t)
    /\ UNCHANGED <<world, next, dangling, buffer, history, table, entries, request, writes,
                   waits, cut, exposed>>

\* A fault: a server that forwards a request holds table_lock meanwhile.
GetTable_locked(s, t) ==
    LET q == thread[s][t].to
        all == {<<k, table[q][k]>> : k \in {j \in Key : table[q][j] # NULL}} IN
    /\ At(s, t, "merge", "prev") /\ InLoop(q)
    /\ waits[q] = NULL
    /\ entries' = [entries EXCEPT ![s][t] = all]
    /\ answered' = answered \cup {s}
    /\ IF all = {} THEN Returns(s, t) ELSE Goes(s, t, "put", q)
    /\ UNCHANGED <<world, next, dangling, buffer, history, table, request, writes,
                   waits, cut, exposed>>

\* A fault: an empty table, which is a NULL pointer in its array, is taken for
\* no answer and ends the process.
GetTable_ends(s, t) ==
    LET q == thread[s][t].to
        all == {<<k, table[q][k]>> : k \in {j \in Key : table[q][j] # NULL}} IN
    /\ At(s, t, "merge", "prev") /\ InLoop(q)
    /\ IF all = {} THEN Fault(s) /\ UNCHANGED <<entries, answered>>
       ELSE /\ Goes(s, t, "put", q)
            /\ entries' = [entries EXCEPT ![s][t] = all]
            /\ answered' = answered \cup {s}
            /\ UNCHANGED <<world, next, dangling, buffer, history>>
    /\ UNCHANGED <<table, request, writes, waits, cut, exposed>>

\* rtable_get_table: the predecessor answers with its table.
GetTable(s, t) ==
    LET q == thread[s][t].to
        all == {<<k, table[q][k]>> : k \in {j \in Key : table[q][j] # NULL}} IN
    /\ At(s, t, "merge", "prev") /\ InLoop(q)
    /\ entries' = [entries EXCEPT ![s][t] = all]
    /\ answered' = answered \cup {s}
    /\ IF all = {} THEN Returns(s, t) ELSE Goes(s, t, "put", q)
    /\ UNCHANGED <<world, next, dangling, buffer, history, table, request, writes,
                   waits, cut, exposed>>

\* A fault: the last entry stays in the array when the merge ends.
PutEntry_keeps(s, t) ==
    /\ At(s, t, "put", "prev")
    /\ \E e \in entries[s][t] :
          /\ table' = [table EXCEPT ![s][e[1]] = e[2]]
          /\ IF entries[s][t] = {e} THEN Returns(s, t) /\ UNCHANGED entries
             ELSE entries' = [entries EXCEPT ![s][t] = @ \ {e}] /\ UNCHANGED thread
    /\ UNCHANGED <<world, next, dangling, buffer, history, request, writes, waits, cut,
                   answered, exposed>>

\* table_put of one entry, under no lock.
PutEntry(s, t) ==
    /\ At(s, t, "put", "prev")
    /\ \E e \in entries[s][t] :
          /\ table' = [table EXCEPT ![s][e[1]] = e[2]]
          /\ entries' = [entries EXCEPT ![s][t] = @ \ {e}]
          /\ IF table[s][e[1]] = e[2] THEN UNCHANGED exposed
             ELSE Expose(ExposedByMerge(s, e[1]), e[1])
          /\ IF entries[s][t] = {e} THEN Returns(s, t) ELSE UNCHANGED thread
    /\ UNCHANGED <<world, next, dangling, buffer, history, request, writes, waits, cut,
                   answered>>

-----------------------------------------------------------------------------

Handler(s) == Forward(s) \/ Serve(s) \/ Answer(s)

\* The connection that select_next_server closes may be one that a handler waits on.
Dropping(s, t) ==
    /\ DropOld(s, t)
    /\ cut' = IF dangling'[s] /\ waits[s] # NULL THEN cut \cup {s} ELSE cut
    /\ UNCHANGED tables

Selecting(s, t) ==
    \/ (SelectNext(s, t) \/ SetNext(s, t) \/ SelectPrev(s, t)) /\ UNCHANGED <<tables, cut>>
    \/ Dropping(s, t)
Merging(s, t) == GetTable(s, t) \/ PutEntry(s, t)

NoFaultYet == \A s \in Server : ~fault[s]

JoinNext ==
    /\ NoFaultYet
    /\ \/ \E k \in Key, v \in Value \cup {NULL} : Write(k, v)
       \/ \E s \in Server :
             \/ Register(s) /\ UNCHANGED <<tables, cut>>
             \/ Main(s) /\ UNCHANGED <<tables, cut>>
             \/ zk_child_watcher(s) /\ UNCHANGED <<tables, cut>>
             \/ Handler(s)
             \/ UseClosed(s)
             \/ \E t \in Thread : Selecting(s, t) \/ Merging(s, t)

JoinSpec == JoinInit /\ [][JoinNext]_allVars

\* Some thread that has work is scheduled (there is only so much of it); the
\* client need not write and no one need join, and a handler whose connection was
\* closed need not notice.
JoinScheduled ==
    /\ NoFaultYet
    /\ \E s \in Server :
          \/ Main(s) /\ UNCHANGED <<tables, cut>>
          \/ zk_child_watcher(s) /\ UNCHANGED <<tables, cut>>
          \/ Handler(s)
          \/ \E t \in Thread : Selecting(s, t) \/ Merging(s, t)

FairJoinSpec == JoinSpec /\ WF_allVars(JoinScheduled)
-----------------------------------------------------------------------------
(* What the members see: a thread that puts entries is in the merge.       *)

State(th) == [th EXCEPT !.pc = IF @ = "put" THEN "merge" ELSE @]
Threads == [s \in Server |-> [t \in Thread |-> State(thread[s][t])]]

Members == INSTANCE Membership WITH thread <- Threads

-----------------------------------------------------------------------------
(* Properties.                                                             *)

\* A step of Membership.tla, or the end of a server one of whose handlers waited on
\* a connection that was closed.
MembersNext == Members!Next \/ \E s \in cut : Members!Fault(s)

\* A merge changes nothing in how the servers find each other: whatever table a
\* server receives, and however many entries it has to put while others select
\* and forward, it takes the steps of Membership.tla, the last entry being the
\* end of its merge there (table_server.c:237-256).  The requests add one way to
\* end, the handler that forwards on a closed connection (table_skel.c:112,
\* client_stub.c:53).
TakesMembersSteps == [][MembersNext]_(Members!vars)

Stage == {"none", "applied", "received", "answer", "refused", "lost"}

TablesTypeOK ==
    /\ table \in [Server -> [Key -> Value \cup {NULL}]]
    /\ entries \in [Server -> [Thread -> SUBSET (Key \X Value)]]
    /\ \A s \in Server, t \in Thread :
          thread[s][t].pc = "put" <=> Up(s) /\ entries[s][t] # {}
    /\ request \in [key : Key \cup {NULL}, value : Value \cup {NULL},
                    at : Server \cup {NULL}, pc : Stage, refusals : 0 .. MaxRetries - 1]
    /\ writes \in 0 .. MaxWrites
    /\ waits \in [Server -> Server \cup {NULL}]
    /\ answered \subseteq Server
    /\ exposed \in [Server -> SUBSET Key]

\* The tables, the merges and the request have their types, a thread of a process
\* that runs puts entries as long as it holds some, and no server is refused more
\* often than it sends.
JoinTypeOK == TablesTypeOK /\ cut \subseteq Server

\* Whatever joins and whenever, even while requests are on their way: a server
\* that has received its predecessor's table, and has put it, agrees with it on
\* every key but the one of a request that has still to reach it, and those
\* that were written while it had an older table (table_server.c:237), that
\* a merge of its predecessor changed (table_server.c:242), or that were written
\* to a freed connection (table_server.c:163).
UnexposedAgree ==
    NoFaultYet =>
        \A p \in znodes :
            LET q == Successor(p, znodes) IN
            q \in answered /\ ~MergingAt(q) =>
                \A k \in Key \ exposed[q] : table[p][k] = table[q][k] \/ Underway(p, q, k)

\* A server that waits for the table of its predecessor is answered, though
\* handlers of that predecessor may be waiting for it in turn (table_server.c:237,
\* table_skel.c:112), and every answer goes all the way back: a request ends,
\* unless a connection was closed under a handler that waits.
RequestsEnd == request.at # NULL ~> (request.at = NULL \/ ~NoFaultYet \/ cut # {})
=============================================================================
