------------------------------- MODULE Chain -------------------------------
(***************************************************************************)
(* The data path of the replicated table while the membership is fixed:    *)
(* servers 1 .. N in the order of their znodes, each connected to the next *)
(* (next_server), clients connected to the head for puts and dels and to   *)
(* the tail for gets.                                                      *)
(*                                                                         *)
(* A server runs one thread for each connection it has accepted            *)
(* (network_server.c, client_handler).  A thread serves one request at a   *)
(* time: it applies it to the local table under table_lock, releases the   *)
(* lock, forwards it over the server's one connection to the next server   *)
(* and waits for a response there (table_skel.c, invoke; client_stub.c,    *)
(* rtable_put and rtable_del), then answers.  All threads of a server      *)
(* share that connection and nothing matches a response to its request:    *)
(* whichever thread reads first gets the oldest response.                  *)
(*                                                                         *)
(* A server may crash.  Who then waits for its answer reads end of file,   *)
(* which network_send_receive does not test: the length it then uses is an *)
(* uninitialised variable.  If it is 0 an empty message is decoded, whose  *)
(* opcode (OP_BAD) is no error for rtable_del and an error for rtable_put; *)
(* otherwise NULL is returned, and its caller dereferences it and crashes. *)
(*                                                                         *)
(* A message is written and read here in one step.  The code uses two      *)
(* writes and two reads, so with several writing clients the pieces of two *)
(* messages may also mix on a link; with one writing client only one       *)
(* thread of a server uses its link and nothing is lost by this.           *)
(***************************************************************************)
EXTENDS Integers, Sequences

CONSTANTS N,           \* the number of servers
          Client,      \* the clients
          Key, Value, NULL,
          MayWrite,    \* MayWrite[c]: the keys client c puts and deletes
          MaxRetries,  \* max_retries of the forwarding loops (10 in the code)
          MaxCalls,    \* bound: calls made by each client
          MaxCrashes   \* bound: servers that crash of themselves

ASSUME ServersAssumption == N \in Nat \ {0}
ASSUME NullAssumption == NULL \notin Value /\ NULL \notin Int
ASSUME WriteAssumption == MayWrite \in [Client -> SUBSET Key]
ASSUME BoundsAssumption ==
    MaxRetries \in Nat \ {0} /\ MaxCalls \in Nat /\ MaxCrashes \in Nat

VARIABLES tables,   \* tables[s]: the table of server s, as the map it implements
          up,       \* up[s]: server s is running
          thread,   \* thread[x]: the thread that serves connection x
          req,      \* req[l]: requests on the link from server l to l + 1
          resp,     \* resp[l]: responses on that link
          client,   \* client[c]: what client c is doing
          calls,    \* calls[c]: calls made by client c (bounded)
          crashes,  \* servers crashed of themselves (bounded)
          effect,   \* history: the result of c's call, once decided
          acked     \* history: acked[k], the values k may have by what the calls
                    \* that wrote it returned

vars == <<tables, up, thread, req, resp, client, calls, crashes, effect, acked>>

Server == 1 .. N
HeadServer == 1
TailServer == N
Link == 1 .. N - 1

\* The connections a server may have accepted, and the server that serves each.
HeadConn(c) == <<"head", c>>
TailConn(c) == <<"tail", c>>
LinkConn(l) == <<"link", l>>
ClientConn == {HeadConn(c) : c \in Client} \cup {TailConn(c) : c \in Client}
Conn == ClientConn \cup {LinkConn(l) : l \in Link}
Host(x) == CASE x[1] = "head" -> HeadServer
             [] x[1] = "tail" -> TailServer
             [] x[1] = "link" -> x[2] + 1

\* Requests, with the client that made them (history), and responses.
Request == [op : {"put"}, key : Key, value : Value, by : Client]
           \cup [op : {"del", "get"}, key : Key, value : {NULL}, by : Client]

Ok(m, v) == [opcode |-> m.op, value |-> v]
Error == [opcode |-> "error", value |-> NULL]
Bad == [opcode |-> "bad", value |-> NULL]
Response == [opcode : {"put", "del", "get", "error", "bad"}, value : Value \cup {NULL}]

ASSUME MessageAssumption ==
    NULL \notin Request \cup Response \cup [res : Value \cup {NULL, 0, -1}]

\* What rtable_put, rtable_del and rtable_get return on a response.
RpcResult(m, r) ==
    CASE m.op = "put" -> IF r.opcode = "put" THEN 0 ELSE -1
      [] m.op = "del" -> IF r.opcode = "error" THEN -1 ELSE 0
      [] m.op = "get" -> IF r.opcode = "get" THEN r.value ELSE NULL

Idle == [pc |-> "idle", msg |-> NULL, reply |-> NULL, retries |-> 0]
Dead == [pc |-> "dead", msg |-> NULL, reply |-> NULL, retries |-> 0]

NoCall == [pc |-> "idle", msg |-> NULL, res |-> NULL]

Init ==
    /\ tables = [s \in Server |-> [k \in Key |-> NULL]]
    /\ up = [s \in Server |-> TRUE]
    /\ thread = [x \in Conn |-> Idle]
    /\ req = [l \in Link |-> <<>>]
    /\ resp = [l \in Link |-> <<>>]
    /\ client = [c \in Client |-> NoCall]
    /\ calls = [c \in Client |-> 0]
    /\ crashes = 0
    /\ effect = [c \in Client |-> NULL]
    /\ acked = [k \in Key |-> {NULL}]

-----------------------------------------------------------------------------
(* Clients.                                                                *)

\* A fault: the client reads from the head too.
ConnOf_headOnly(m) == HeadConn(m.by)

\* A client writes to the head and reads from the tail.
ConnOf(m) == IF m.op = "get" THEN TailConn(m.by) ELSE HeadConn(m.by)

Call(c, m) ==
    /\ client[c].pc = "idle"
    /\ calls[c] < MaxCalls
    /\ m.by = c
    /\ m.op # "get" => m.key \in MayWrite[c]
    /\ client' = [client EXCEPT ![c] = [pc |-> "sent", msg |-> m, res |-> NULL]]
    /\ calls' = [calls EXCEPT ![c] = @ + 1]
    /\ effect' = [effect EXCEPT ![c] = NULL]
    /\ UNCHANGED <<tables, up, thread, req, resp, crashes, acked>>

\* The response r reaches the client, which returns from its call.
ClientReturns(c, r) ==
    LET m == client[c].msg
        res == RpcResult(m, r)
    IN /\ client' = [client EXCEPT ![c].pc = "idle", ![c].res = res]
       /\ acked' = IF m.op = "get" THEN acked
                   ELSE [acked EXCEPT ![m.key] =
                           IF res = 0 THEN {m.value} ELSE @ \cup {m.value}]

\* The server of the call has crashed: the client reads end of file.
ClientEndOfFile(c) ==
    /\ client[c].pc \in {"sent", "wait"}
    /\ ~up[Host(ConnOf(client[c].msg))]
    /\ \/ ClientReturns(c, Bad)
       \/ client' = [client EXCEPT ![c].pc = "down"] /\ UNCHANGED acked
    /\ UNCHANGED <<tables, up, thread, req, resp, calls, crashes, effect>>

-----------------------------------------------------------------------------
(* Servers.                                                                *)

\* A server process ends: its threads with it, what it had not read yet and
\* what its successor had answered.  Its own messages stay on the way.
Die(s) ==
    /\ up' = [up EXCEPT ![s] = FALSE]
    /\ thread' = [x \in Conn |-> IF Host(x) = s THEN Dead ELSE thread[x]]
    /\ req' = [l \in Link |-> IF l + 1 = s THEN <<>> ELSE req[l]]
    /\ resp' = [l \in Link |-> IF l = s THEN <<>> ELSE resp[l]]

Crash(s) ==
    /\ up[s]
    /\ crashes < MaxCrashes
    /\ crashes' = crashes + 1
    /\ Die(s)
    /\ UNCHANGED <<tables, client, calls, effect, acked>>

\* network_receive: the next request of connection x is m.
Take(x, m) ==
    \/ /\ x \in ClientConn
       /\ client[x[2]].pc = "sent"
       /\ ConnOf(client[x[2]].msg) = x
       /\ m = client[x[2]].msg
       /\ client' = [client EXCEPT ![x[2]].pc = "wait"]
       /\ UNCHANGED req
    \/ /\ x[1] = "link"
       /\ req[x[2]] # <<>>
       /\ m = Head(req[x[2]])
       /\ req' = [req EXCEPT ![x[2]] = Tail(@)]
       /\ UNCHANGED client

\* After the local operation: forward m, or answer with r.
Forward(x, m) ==
    thread' = [thread EXCEPT ![x] =
                 IF Host(x) = TailServer
                 THEN [pc |-> "reply", msg |-> m, reply |-> Ok(m, NULL), retries |-> 0]
                 ELSE [pc |-> "send", msg |-> m, reply |-> NULL, retries |-> 0]]

Answer(x, m, r) ==
    thread' = [thread EXCEPT ![x] =
                 [pc |-> "reply", msg |-> m, reply |-> r, retries |-> 0]]

\* History: the call of m.by is decided.
Decide(m, decided, res) ==
    effect' = IF decided /\ effect[m.by] = NULL
              THEN [effect EXCEPT ![m.by] = [res |-> res]] ELSE effect

\* Three faults of invoke: a put is not forwarded; a del is not forwarded; a del
\* that finds nothing is forwarded all the same.
LocalPut_local(x, m, s) ==
    /\ m.op = "put"
    /\ tables' = [tables EXCEPT ![s][m.key] = m.value]
    /\ Answer(x, m, Ok(m, NULL))
    /\ Decide(m, TRUE, 0)

LocalDel_local(x, m, s) ==
    /\ m.op = "del"
    /\ tables' = [tables EXCEPT ![s][m.key] = NULL]
    /\ Answer(x, m, IF tables[s][m.key] = NULL THEN Error ELSE Ok(m, NULL))
    /\ Decide(m, TRUE, IF tables[s][m.key] = NULL THEN -1 ELSE 0)

LocalDel_always(x, m, s) ==
    /\ m.op = "del"
    /\ tables' = [tables EXCEPT ![s][m.key] = NULL]
    /\ IF s = TailServer /\ tables[s][m.key] = NULL
       THEN Answer(x, m, Error) ELSE Forward(x, m)
    /\ Decide(m, s = TailServer, IF tables[s][m.key] = NULL THEN -1 ELSE 0)

\* invoke, up to the release of table_lock: the local operation of server s.
LocalPut(x, m, s) ==
    /\ m.op = "put"
    /\ tables' = [tables EXCEPT ![s][m.key] = m.value]
    /\ Forward(x, m)
    /\ Decide(m, s = TailServer, 0)

\* A key that is not there is an error, and is not forwarded.
LocalDel(x, m, s) ==
    /\ m.op = "del"
    /\ \/ /\ tables[s][m.key] # NULL
          /\ tables' = [tables EXCEPT ![s][m.key] = NULL]
          /\ Forward(x, m)
          /\ Decide(m, s = TailServer, 0)
       \/ /\ tables[s][m.key] = NULL
          /\ Answer(x, m, Error)
          /\ Decide(m, s = HeadServer, -1)
          /\ UNCHANGED tables

LocalGet(x, m, s) ==
    /\ m.op = "get"
    /\ Answer(x, m, IF tables[s][m.key] = NULL THEN Error ELSE Ok(m, tables[s][m.key]))
    /\ Decide(m, TRUE, tables[s][m.key])
    /\ UNCHANGED tables

Serve(x) ==
    /\ thread[x].pc = "idle"
    /\ \E m \in Request :
         /\ Take(x, m)
         /\ \/ LocalPut(x, m, Host(x))
            \/ LocalDel(x, m, Host(x))
            \/ LocalGet(x, m, Host(x))
    /\ UNCHANGED <<up, resp, calls, crashes, acked>>

\* rtable_put or rtable_del on next_server: the request is written.  On a
\* connection whose peer has died the bytes may still be accepted, or the
\* write fails and the caller crashes on the NULL it is given.
Send(x) ==
    LET s == Host(x) IN
    /\ thread[x].pc = "send"
    /\ \/ /\ up[s + 1]
          /\ req' = [req EXCEPT ![s] = Append(@, thread[x].msg)]
          /\ thread' = [thread EXCEPT ![x].pc = "wait"]
          /\ UNCHANGED <<up, resp>>
       \/ /\ ~up[s + 1]
          /\ thread' = [thread EXCEPT ![x].pc = "wait"]
          /\ UNCHANGED <<up, req, resp>>
       \/ ~up[s + 1] /\ Die(s)
    /\ UNCHANGED <<tables, client, calls, crashes, effect, acked>>

\* A fault: one retry too many.
Forwarded_tooOften(x, r) ==
    LET t == thread[x]
        again == RpcResult(t.msg, r) = -1 /\ t.retries < MaxRetries
    IN thread' = [thread EXCEPT ![x] =
                    IF again
                    THEN [t EXCEPT !.pc = "send", !.retries = @ + 1]
                    ELSE [t EXCEPT !.pc = "reply", !.reply = Ok(t.msg, NULL)]]

\* The forwarding loop of invoke on response r: again while the result is -1
\* and retries are left; whatever the result, the answer is a success.
Forwarded(x, r) ==
    LET t == thread[x]
        again == RpcResult(t.msg, r) = -1 /\ t.retries + 1 < MaxRetries
    IN thread' = [thread EXCEPT ![x] =
                    IF again
                    THEN [t EXCEPT !.pc = "send", !.retries = @ + 1]
                    ELSE [t EXCEPT !.pc = "reply", !.reply = Ok(t.msg, NULL)]]

\* Two faults: a thread that does not wait for the response; one that does not
\* notice that the peer has gone.
Await_eager(x) ==
    /\ thread[x].pc = "wait"
    /\ thread' = [thread EXCEPT ![x].pc = "reply", ![x].reply = Ok(thread[x].msg, NULL)]
    /\ UNCHANGED <<tables, up, req, resp, client, calls, crashes, effect, acked>>

Await_deaf(x) ==
    LET s == Host(x) IN
    /\ thread[x].pc = "wait"
    /\ resp[s] # <<>>
    /\ Forwarded(x, Head(resp[s]))
    /\ resp' = [resp EXCEPT ![s] = Tail(@)]
    /\ UNCHANGED <<tables, up, req, client, calls, crashes, effect, acked>>

\* The thread takes the oldest response of the link, if any; when the peer has
\* died and nothing is left to read, it reads end of file.
Await(x) ==
    LET s == Host(x) IN
    /\ thread[x].pc = "wait"
    /\ \/ /\ resp[s] # <<>>
          /\ Forwarded(x, Head(resp[s]))
          /\ resp' = [resp EXCEPT ![s] = Tail(@)]
          /\ UNCHANGED <<up, req>>
       \/ /\ resp[s] = <<>> /\ ~up[s + 1]
          /\ Forwarded(x, Bad)
          /\ UNCHANGED <<up, req, resp>>
       \/ resp[s] = <<>> /\ ~up[s + 1] /\ Die(s)
    /\ UNCHANGED <<tables, client, calls, crashes, effect, acked>>

\* network_send: the answer goes to whoever is at the other end, if anybody is.
Reply(x) ==
    /\ thread[x].pc = "reply"
    /\ thread' = [thread EXCEPT ![x] = Idle]
    /\ \/ /\ x \in ClientConn
          /\ ClientReturns(x[2], thread[x].reply)
          /\ UNCHANGED resp
       \/ /\ x[1] = "link"
          /\ resp' = IF up[x[2]]
                     THEN [resp EXCEPT ![x[2]] = Append(@, thread[x].reply)]
                     ELSE resp
          /\ UNCHANGED <<client, acked>>
    /\ UNCHANGED <<tables, up, req, calls, crashes, effect>>

-----------------------------------------------------------------------------

Step(x) == Serve(x) \/ Send(x) \/ Await(x) \/ Reply(x)

Next ==
    \/ \E c \in Client : (\E m \in Request : Call(c, m)) \/ ClientEndOfFile(c)
    \/ \E x \in Conn : Step(x)
    \/ \E s \in Server : Crash(s)

Spec == Init /\ [][Next]_vars

\* Threads are scheduled, what is written is delivered, and the end of a peer
\* is noticed; nothing obliges a client to call or a server to crash.
Fairness ==
    /\ \A x \in Conn : WF_vars(Step(x))
    /\ \A c \in Client : WF_vars(ClientEndOfFile(c))

FairSpec == Spec /\ Fairness

-----------------------------------------------------------------------------
(* Properties.                                                             *)

ThreadPc == {"idle", "send", "wait", "reply", "dead"}

\* The values the variables range over.
TypeOK ==
    /\ tables \in [Server -> [Key -> Value \cup {NULL}]]
    /\ up \in [Server -> BOOLEAN]
    /\ thread \in [Conn -> [pc : ThreadPc, msg : Request \cup {NULL},
                            reply : Response \cup {NULL}, retries : 0 .. MaxRetries - 1]]
    /\ req \in [Link -> Seq(Request)]
    /\ resp \in [Link -> Seq(Response)]
    /\ client \in [Client -> [pc : {"idle", "sent", "wait", "down"},
                              msg : Request \cup {NULL},
                              res : Value \cup {NULL, 0, -1}]]
    /\ calls \in [Client -> 0 .. MaxCalls]
    /\ crashes \in 0 .. MaxCrashes
    /\ effect \in [Client -> {NULL} \cup [res : Value \cup {NULL, 0, -1}]]
    /\ acked \in [Key -> SUBSET (Value \cup {NULL})]

\* The table that request m leaves, applied to table d.
Applied(d, m) == IF m.op = "get" THEN d ELSE [d EXCEPT ![m.key] = m.value]

\* Two neighbours hold the same table, except for one request that the first
\* has applied and not yet had answered: the local operation and its forwarding
\* (table_skel.c:91-118) are not atomic, and nothing but the wait for the
\* response keeps a second one from overtaking.
NeighboursAgree ==
    \A l \in Link : up[l] /\ up[l + 1] =>
        \/ tables[l] = tables[l + 1]
        \/ \E x \in Conn : /\ Host(x) = l
                           /\ thread[x].pc \in {"send", "wait"}
                           /\ tables[l] = Applied(tables[l + 1], thread[x].msg)

\* What was acknowledged is what the tail serves: for a key that one client
\* writes, while that client is not writing it, the tail has the value of the
\* last put that returned 0, or none after a del that returned 0, unless a later
\* write of the key returned an error (client_stub.h:28-43).
AckedAtTail ==
    \A k \in Key : \A c \in Client :
        /\ \A d \in Client : k \in MayWrite[d] <=> d = c
        /\ ~(/\ client[c].pc # "idle"
             /\ client[c].msg.op # "get"
             /\ client[c].msg.key = k)
        /\ up[TailServer]
        => tables[TailServer][k] \in acked[k]

\* What was acknowledged survives crashes: under the same conditions it is held by
\* every server that no server that has ended cuts off from the head, because
\* an answer climbs the chain only from servers that have applied the request
\* (table_skel.c:91-122).
AckedSurvives ==
    \A k \in Key : \A c \in Client :
        /\ \A d \in Client : k \in MayWrite[d] <=> d = c
        /\ ~(/\ client[c].pc # "idle"
             /\ client[c].msg.op # "get"
             /\ client[c].msg.key = k)
        => \A s \in Server : (\A q \in HeadServer .. s : up[q]) => tables[s][k] \in acked[k]

\* When nothing is under way, the head, which decides whether a del finds its
\* key, and the tail, which answers gets, have the same keys (client_stub.h:34-43).
Quiet ==
    /\ \A x \in Conn : thread[x].pc = "idle"
    /\ \A l \in Link : req[l] = <<>> /\ resp[l] = <<>>
    /\ \A c \in Client : client[c].pc = "idle"

HeadTailAgree ==
    Quiet => \A k \in Key :
        tables[HeadServer][k] = NULL <=> tables[TailServer][k] = NULL

\* A request is forwarded a second time only when the successor is gone: a live
\* successor has never been sent the same request twice, nor refused one.
RetriesOnlyWhenBroken ==
    \A x \in Conn : thread[x].retries > 0 => ~up[Host(x) + 1]

\* A call returns, or takes its client down with it; whichever servers crash
\* and whenever, nobody waits for ever.
EveryCallReturns ==
    \A c \in Client : client[c].pc \in {"sent", "wait"} ~> client[c].pc \in {"idle", "down"}

\* The chain as the one table it stands for: the table is the tail's, a call
\* has taken effect once its effect is decided, and has then the result decided.
CallOf(c) ==
    IF client[c].msg = NULL
    THEN [pc |-> "idle", op |-> NULL, res |-> NULL]
    ELSE [pc  |-> IF client[c].pc = "idle" THEN "idle"
                  ELSE IF effect[c] = NULL THEN "called" ELSE "done",
          op  |-> [op |-> client[c].msg.op, key |-> client[c].msg.key,
                   value |-> client[c].msg.value],
          res |-> IF client[c].pc = "idle" THEN client[c].res
                  ELSE IF effect[c] = NULL THEN NULL ELSE effect[c].res]

Service == INSTANCE KVService WITH dict <- tables[TailServer],
                                   call <- [c \in Client |-> CallOf(c)]

\* With one writing client and no crash, no client can tell the chain from a
\* single table.
ImplementsKVService == Service!Spec
=============================================================================
