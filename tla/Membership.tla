---------------------------- MODULE Membership ----------------------------
(***************************************************************************)
(* How the servers find their neighbours (src/source/table_server.c and    *)
(* client_zookeeper.c).  A server registers an ephemeral sequential znode  *)
(* under /chain, then selects its next server and its previous one, first  *)
(* in its main thread and again, in the completion thread of the ZooKeeper *)
(* client, at each change of the children.                                 *)
(*                                                                         *)
(* Servers are numbered in the order in which they register, which is the  *)
(* order of the names of their znodes; a server that is started again is a *)
(* new server.  Each of the two watches (one for each callback) is in one  *)
(* place at a time: armed at ZooKeeper, fired and queued for the           *)
(* completion thread, or being handled.                                    *)
(*                                                                         *)
(* ZooKeeper is external: it answers in order, a change of the children    *)
(* fires every armed watch once, and the znode of a server that has ended  *)
(* disappears some time later, when its session expires.  Failures of the  *)
(* ZooKeeper connection itself are not modelled.                           *)
(*                                                                         *)
(* The listening socket has a backlog of 0 (network_server.c:63): until    *)
(* its main loop accepts, a server has room for Backlog connections, and a *)
(* connect beyond them waits and at last times out.                        *)
(***************************************************************************)
EXTENDS Integers, Sequences, FiniteSets, FiniteSetsExt

CONSTANTS N,           \* bound: servers that ever register
          NULL,        \* no server
          Backlog,     \* connections a listening socket holds unaccepted (1 on Linux)
          MaxCrashes   \* bound: servers that crash of themselves

ASSUME MembershipAssumption ==
    /\ N \in Nat \ {0} /\ Backlog \in Nat \ {0} /\ MaxCrashes \in Nat
    /\ NULL \notin Int \cup {"next", "prev"}

VARIABLES status,    \* status[s]: "absent", "up" or "dead"
          znodes,    \* the children of /chain
          armed,     \* armed[s]: the watches of s that ZooKeeper holds
          events,    \* events[s]: the child events queued at s, with the watches to call
          thread,    \* thread[s][t]: what thread t of s is doing
          next,      \* next[s]: the server that next_server is connected to
          dangling,  \* dangling[s]: next_server has been freed and not yet replaced
          backlog,   \* backlog[s]: connections to s that it has not accepted
          buffer,    \* buffer[s][t]: the address left in the memory that thread t of s
                     \* last freed, the next one it will allocate
          crashes,   \* servers that crashed of themselves (bounded)
          fault,     \* history: fault[s], s died of an error of its own program
          overlap    \* history: overlap[s], both threads of s have selected
                     \* a next server at once

world == <<status, znodes, armed, events, backlog, crashes>>
local == <<thread, next, dangling, buffer>>
history == <<fault, overlap>>
vars == <<world, local, history>>

Server == 1 .. N
Watch == {"next", "prev"}
Thread == {"main", "completion"}

Up(s) == status[s] = "up"
InLoop(s) == Up(s) /\ thread[s]["main"].pc = "loop"

Idle == [pc |-> "idle", watch |-> NULL, list |-> {}, to |-> NULL]

\* The next server of s in a list of children, NULL when there is none, and its
\* previous one, itself when there is none.
Successor(s, list) ==
    LET after == {j \in list : j > s} IN IF after = {} THEN NULL ELSE Min(after)

Predecessor(s, list) ==
    LET before == {j \in list : j < s} IN IF before = {} THEN s ELSE Max(before)

Init ==
    /\ status = [s \in Server |-> "absent"]
    /\ znodes = {}
    /\ armed = [s \in Server |-> {}]
    /\ events = [s \in Server |-> <<>>]
    /\ thread = [s \in Server |-> [t \in Thread |-> Idle]]
    /\ next = [s \in Server |-> NULL]
    /\ dangling = [s \in Server |-> FALSE]
    /\ backlog = [s \in Server |-> 0]
    /\ buffer = [s \in Server |-> [t \in Thread |-> NULL]]
    /\ crashes = 0
    /\ fault = [s \in Server |-> FALSE]
    /\ overlap = [s \in Server |-> FALSE]

-----------------------------------------------------------------------------
(* ZooKeeper and the life of a server.                                     *)

\* The children become nodes: every armed watch fires, the watches of one
\* server as one event.
ChildrenChange(nodes) ==
    /\ znodes' = nodes
    /\ events' = [s \in Server |-> IF armed[s] = {} THEN events[s]
                                   ELSE Append(events[s], armed[s])]
    /\ armed' = [s \in Server |-> {}]

\* zk_register_server: the socket listens already.
Register(s) ==
    /\ status[s] = "absent"
    /\ \A q \in Server : q < s => status[q] # "absent"
    /\ status' = [status EXCEPT ![s] = "up"]
    /\ ChildrenChange(znodes \cup {s})
    /\ thread' = [thread EXCEPT ![s]["main"] =
                    [Idle EXCEPT !.pc = "children", !.watch = "next"]]
    /\ UNCHANGED <<next, dangling, backlog, buffer, crashes, history>>

\* The process of s ends.
Die(s) ==
    /\ status' = [status EXCEPT ![s] = "dead"]
    /\ armed' = [armed EXCEPT ![s] = {}]
    /\ events' = [events EXCEPT ![s] = <<>>]
    /\ thread' = [thread EXCEPT ![s] = [t \in Thread |-> Idle]]
    /\ next' = [next EXCEPT ![s] = NULL]
    /\ dangling' = [dangling EXCEPT ![s] = FALSE]
    /\ backlog' = [backlog EXCEPT ![s] = 0]
    /\ buffer' = [buffer EXCEPT ![s] = [t \in Thread |-> NULL]]
    /\ overlap' = [overlap EXCEPT ![s] = FALSE]
    /\ UNCHANGED znodes

Crash(s) ==
    /\ Up(s)
    /\ crashes < MaxCrashes
    /\ crashes' = crashes + 1
    /\ Die(s)
    /\ UNCHANGED fault

\* A NULL pointer is dereferenced, or memory freed twice: the process ends.
Fault(s) ==
    /\ Die(s)
    /\ fault' = [fault EXCEPT ![s] = TRUE]
    /\ UNCHANGED crashes

\* The session of a server that has ended expires.
Expire(s) ==
    /\ status[s] = "dead"
    /\ s \in znodes
    /\ ChildrenChange(znodes \ {s})
    /\ UNCHANGED <<status, backlog, crashes, local, history>>

-----------------------------------------------------------------------------
(* The callbacks, in whichever thread t of s they run.                     *)

\* What thread t does after a callback: main selects its previous server after
\* its next one, and then accepts connections; the completion thread looks
\* for another watch to call.
AfterCallback(s, t) ==
    CASE t = "completion" -> Idle
      [] t = "main" /\ thread[s][t].watch = "next" ->
             [Idle EXCEPT !.pc = "children", !.watch = "prev"]
      [] t = "main" /\ thread[s][t].watch = "prev" -> [Idle EXCEPT !.pc = "accept"]

Becomes(s, t, state) == thread' = [thread EXCEPT ![s][t] = state]
Goes(s, t, pc, to) == Becomes(s, t, [thread[s][t] EXCEPT !.pc = pc, !.list = {}, !.to = to])
Returns(s, t) == Becomes(s, t, AfterCallback(s, t))

At(s, t, pc, watch) == thread[s][t].pc = pc /\ thread[s][t].watch = watch

\* network_main_loop: what has connected so far is accepted, and what connects
\* from here on.
network_main_loop(s) ==
    /\ thread[s]["main"].pc = "accept"
    /\ Becomes(s, "main", [Idle EXCEPT !.pc = "loop"])
    /\ backlog' = [backlog EXCEPT ![s] = 0]
    /\ UNCHANGED <<status, znodes, armed, events, crashes, next, dangling, buffer, history>>

\* zoo_wget_children in thread t: the children are read and watch w is armed, at
\* one moment.
GetChildren(s, t, w) ==
    /\ Becomes(s, t, [pc |-> "select", watch |-> w, list |-> znodes, to |-> NULL])
    /\ armed' = [armed EXCEPT ![s] = @ \cup {w}]
    /\ overlap' = [overlap EXCEPT ![s] =
                     @ \/ \E u \in Thread \ {t} : w = "next" /\ thread[s][u].watch = "next"]

\* zk_get_children, called by main for each watch.
zk_get_children(s) ==
    /\ thread[s]["main"].pc = "children"
    /\ GetChildren(s, "main", thread[s]["main"].watch)
    /\ UNCHANGED <<status, znodes, events, backlog, crashes, next, dangling, buffer,
                   fault>>

\* Watch w of the first event of s is called.
Called(s, w) ==
    /\ thread[s]["completion"].pc = "idle"
    /\ events[s] # <<>>
    /\ w \in Head(events[s])
    /\ events' = [events EXCEPT ![s] =
                    IF Head(@) = {w} THEN Tail(@) ELSE <<Head(@) \ {w}>> \o Tail(@)]

\* A fault: the children are read without setting the watch again.
zk_child_watcher_once(s) ==
    \E w \in Watch :
        /\ Called(s, w)
        /\ Becomes(s, "completion",
                   [pc |-> "select", watch |-> w, list |-> znodes, to |-> NULL])
        /\ UNCHANGED <<status, znodes, armed, backlog, crashes, next, dangling, buffer,
                       history>>

\* zk_child_watcher: the completion thread handles an event, one watch at a time.
zk_child_watcher(s) ==
    \E w \in Watch :
        /\ Called(s, w)
        /\ GetChildren(s, "completion", w)
        /\ UNCHANGED <<status, znodes, backlog, crashes, next, dangling, buffer,
                       fault>>

\* A fault: a full accept queue takes one more connection.
CanConnect_always(q) == q # NULL /\ Up(q)

\* rtable_connect to the address of q succeeds when q listens and has room in
\* its accept queue, or accepts; NULL is the empty address.
CanConnect(q) == q # NULL /\ Up(q) /\ (InLoop(q) \/ backlog[q] < Backlog)

Connected(q) == backlog' = IF InLoop(q) THEN backlog ELSE [backlog EXCEPT ![q] = @ + 1]

\* A fault: a server that has become the tail keeps its connection.
SelectNext_keeps(s, t) ==
    LET q == Successor(s, thread[s][t].list) IN
    /\ At(s, t, "select", "next")
    /\ \/ /\ q = NULL
          /\ Returns(s, t)
          /\ UNCHANGED <<world, next, dangling, buffer, history>>
       \/ /\ q # NULL
          /\ \E a \in IF q \in znodes THEN {q} ELSE {buffer[s][t], NULL} :
                \/ /\ CanConnect(a)
                   /\ Connected(a)
                   /\ Goes(s, t, "switch", a)
                   /\ buffer' = [buffer EXCEPT ![s][t] = a]
                   /\ UNCHANGED <<status, znodes, armed, events, crashes, next, dangling,
                                  fault, overlap>>
                \/ ~CanConnect(a) /\ Fault(s)

\* select_next_server, up to its new connection.  The address of the first
\* server above this one is read and connected to.  When its znode has gone the
\* buffer is used all the same: it holds what malloc returned, nothing or the
\* address that this thread read last.  A failed connect, refused or timed out in front of a
\* full queue, ends the process: its error message dereferences the NULL.
SelectNext(s, t) ==
    LET q == Successor(s, thread[s][t].list) IN
    /\ At(s, t, "select", "next")
    /\ \/ /\ q = NULL
          /\ Goes(s, t, "switch", NULL)
          /\ UNCHANGED <<world, next, dangling, buffer, history>>
       \/ /\ q # NULL
          /\ \E a \in IF q \in znodes THEN {q} ELSE {buffer[s][t], NULL} :
                \/ /\ CanConnect(a)
                   /\ Connected(a)
                   /\ Goes(s, t, "switch", a)
                   /\ buffer' = [buffer EXCEPT ![s][t] = a]
                   /\ UNCHANGED <<status, znodes, armed, events, crashes, next, dangling,
                                  fault, overlap>>
                \/ ~CanConnect(a) /\ Fault(s)

\* select_next_server has its new connection, or none: the old one is closed
\* and freed.  A second thread that frees it again ends the process.
DropOld(s, t) ==
    LET to == thread[s][t].to IN
    /\ At(s, t, "switch", "next")
    /\ \/ /\ next[s] = NULL /\ to = NULL
          /\ Returns(s, t)
          /\ UNCHANGED <<world, next, dangling, buffer, history>>
       \/ /\ next[s] = NULL /\ to # NULL
          /\ Goes(s, t, "set", to)
          /\ UNCHANGED <<world, next, dangling, buffer, history>>
       \/ /\ next[s] # NULL /\ ~dangling[s]
          /\ Goes(s, t, "set", to)
          /\ dangling' = [dangling EXCEPT ![s] = TRUE]
          /\ UNCHANGED <<world, next, buffer, history>>
       \/ next[s] # NULL /\ dangling[s] /\ Fault(s)

\* next_server = temp_next_server, or NULL.
SetNext(s, t) ==
    /\ At(s, t, "set", "next")
    /\ next' = [next EXCEPT ![s] = thread[s][t].to]
    /\ dangling' = [dangling EXCEPT ![s] = FALSE]
    /\ Returns(s, t)
    /\ UNCHANGED <<world, buffer, history>>

\* select_prev_server, up to the request for the table.  The address of the last
\* server below this one is read and connected to; the first server connects to
\* itself and closes the connection.  An error of zoo_get ends the callback; a
\* failed connect ends the process, as above.
SelectPrev(s, t) ==
    LET q == Predecessor(s, thread[s][t].list) IN
    /\ At(s, t, "select", "prev")
    /\ \/ /\ q \notin znodes
          /\ Returns(s, t)
          /\ UNCHANGED <<world, next, dangling, buffer, history>>
       \/ /\ q \in znodes /\ CanConnect(q)
          /\ Connected(q)
          /\ IF q = s THEN Returns(s, t) ELSE Goes(s, t, "merge", q)
          /\ buffer' = IF q = s THEN buffer ELSE [buffer EXCEPT ![s][t] = q]
          /\ UNCHANGED <<status, znodes, armed, events, crashes, next, dangling, history>>
       \/ q \in znodes /\ ~CanConnect(q) /\ Fault(s)

\* A fault: the end of the previous server is not noticed.
Merge_deaf(s, t) ==
    /\ At(s, t, "merge", "prev")
    /\ InLoop(thread[s][t].to)
    /\ Returns(s, t)
    /\ UNCHANGED <<world, next, dangling, buffer, history>>

\* rtable_get_table on the previous server, which answers once it accepts.  If
\* it ends first, the response is NULL, or an empty message and an empty table.
Merge(s, t) ==
    LET q == thread[s][t].to IN
    /\ At(s, t, "merge", "prev")
    /\ \/ /\ InLoop(q) \/ ~Up(q)
          /\ Returns(s, t)
          /\ UNCHANGED <<world, next, dangling, buffer, history>>
       \/ ~Up(q) /\ Fault(s)

-----------------------------------------------------------------------------

Main(s) == zk_get_children(s) \/ network_main_loop(s)
Callback(s, t) ==
    SelectNext(s, t) \/ DropOld(s, t) \/ SetNext(s, t) \/ SelectPrev(s, t) \/ Merge(s, t)

Next ==
    \E s \in Server :
        \/ Register(s)
        \/ Crash(s)
        \/ Expire(s)
        \/ Main(s)
        \/ zk_child_watcher(s)
        \/ \E t \in Thread : Callback(s, t)

Spec == Init /\ [][Next]_vars

\* Some thread that has work is scheduled, a connect ends, and sessions of the
\* dead expire: there is only so much of this work.  Nothing obliges a server to
\* start or to crash.
Scheduled ==
    \E s \in Server : \/ Main(s) \/ zk_child_watcher(s)
                      \/ \E t \in Thread : Callback(s, t)
                      \/ Expire(s)

FairSpec == Spec /\ WF_vars(Scheduled)
-----------------------------------------------------------------------------
(* Properties.                                                             *)

Pc == {"idle", "children", "select", "switch", "set", "merge", "accept", "loop"}

\* The values the variables range over.
TypeOK ==
    /\ status \in [Server -> {"absent", "up", "dead"}]
    /\ znodes \subseteq Server
    /\ armed \in [Server -> SUBSET Watch]
    /\ events \in [Server -> Seq((SUBSET Watch) \ {{}})]
    /\ thread \in [Server -> [Thread -> [pc : Pc, watch : Watch \cup {NULL},
                                        list : SUBSET Server, to : Server \cup {NULL}]]]
    /\ next \in [Server -> Server \cup {NULL}]
    /\ dangling \in [Server -> BOOLEAN]
    /\ backlog \in [Server -> 0 .. Backlog]
    /\ buffer \in [Server -> [Thread -> Server \cup {NULL}]]
    /\ crashes \in 0 .. MaxCrashes
    /\ fault \in [Server -> BOOLEAN]
    /\ overlap \in [Server -> BOOLEAN]

\* main has read the children for watch w of s.
Asked(s, w) ==
    LET main == thread[s]["main"] IN
    /\ main.watch = w => main.pc # "children"
    /\ main.watch = "next" => w = "next"

\* The places where watch w of s is.
Places(s, w) ==
    (IF w \in armed[s] THEN {0} ELSE {}) \cup {i \in DOMAIN events[s] : w \in events[s][i]}

\* A watch is never lost nor doubled: once set, it is at ZooKeeper or in one
\* queued event, whose handler sets it again (client_zookeeper.c:78-92).  A lost one would leave the server with its
\* neighbours of that moment for ever.
WatchKept ==
    \A s \in Server : \A w \in Watch :
        Up(s) /\ Asked(s, w) => Cardinality(Places(s, w)) = 1

Settled(s) ==
    /\ InLoop(s)
    /\ thread[s]["completion"].pc = "idle"
    /\ events[s] = <<>>

\* A server with no event left to handle forwards to the next server there is,
\* if its two threads never selected a next server at the same time.  That is so
\* too when it has connected to an address that it had not read, because the
\* znode had gone (table_server.c:152): the event of that change is still due.
SettledNext ==
    \A s \in Server : Settled(s) /\ ~overlap[s] => next[s] = Successor(s, znodes)

\* The same for every server: what the end of select_next_server says of the
\* server it ran in (table_server.c:177-185).
NextIsSuccessor ==
    \A s \in Server : Settled(s) => next[s] = Successor(s, znodes)

\* A server that connects to another and fails reports it and goes on
\* (table_server.c:158-159, 208-209, 233-234).
NoFault == \A s \in Server : ~fault[s]

\* From some time on, every server that still runs has ended its start and
\* handled every event: no server waits for another for ever.
EventuallySettled == <>[](\A s \in Server : Up(s) => Settled(s))
=============================================================================
