-------------------------- MODULE ChainRefinement --------------------------
(***************************************************************************)
(* Theorems about Chain.tla, for every number of servers, when one client  *)
(* writes and no server crashes: the chain implements the one table of     *)
(* KVService.tla, what it acknowledges is what its tail serves, and its    *)
(* head and tail agree when it is quiet.                                   *)
(*                                                                         *)
(* On top of the invariant of ChainProofs.tla, the argument follows the    *)
(* one write under way down the chain: it is undecided until the tail      *)
(* applies it, or the head refuses it, and its answer comes back up        *)
(* unchanged (WriteInv).                                                   *)
(***************************************************************************)
EXTENDS ChainProofs

-----------------------------------------------------------------------------
(* The inductive invariant.                                                *)

Busy(x) == thread[x].pc # "idle"

\* The call of a client is with the thread that serves it, if anywhere.
CallInv ==
    /\ \A x \in ClientConn :
          Busy(x) => /\ client[x[2]].pc = "wait"
                     /\ thread[x].msg = client[x[2]].msg
                     /\ ConnOf(client[x[2]].msg) = x
    /\ \A c \in Client : client[c].pc = "sent" => effect[c] = NULL
    /\ \A c \in Client : client[c].pc # "down"

\* A get is decided when the tail reads its table.
ReadInv ==
    \A c \in Client :
        LET t == thread[TailConn(c)] IN
        t.pc = "reply" => effect[c] = [res |-> RpcResult(t.msg, t.reply)]

\* A write is the one call of w, undecided on its way down the chain and
\* decided on its way up.
WriteInv(w) ==
    /\ \A s \in Server :
          LET t == thread[WriteConn(w, s)] IN
          /\ t.pc # "idle" => /\ client[w].pc = "wait"
                              /\ t.msg = client[w].msg
                              /\ t.msg.op # "get"
          /\ t.pc = "send" => effect[w] = NULL
          /\ t.pc = "reply" => effect[w] = [res |-> RpcResult(t.msg, t.reply)]
    /\ \A l \in Link :
          /\ req[l] # <<>> => effect[w] = NULL
          /\ resp[l] # <<>> => effect[w] = [res |-> 0]

\* The tail has the value of the write that is decided, or one that was
\* acknowledged.
Writing(w, k) ==
    client[w].pc # "idle" /\ client[w].msg.op # "get" /\ client[w].msg.key = k

AckInv(w) ==
    \A k \in Key :
        IF Writing(w, k) /\ effect[w] = [res |-> 0]
        THEN tables[TailServer][k] = client[w].msg.value
        ELSE tables[TailServer][k] \in acked[k]

AllUp == \A s \in Server : up[s]

RInv(w) == AllUp /\ IInv(w) /\ CallInv /\ ReadInv /\ WriteInv(w) /\ AckInv(w)

-----------------------------------------------------------------------------
(* What the invariant says of the whole chain.                             *)

\* No thread has ended.
LEMMA Alive ==
    ASSUME NEW w \in Client, IInv(w), AllUp
    PROVE  \A x \in Conn : thread[x].pc \in {"idle", "send", "wait", "reply"}
BY ConnHosts DEF IInv, ThreadInv, TypeOK, ThreadPc, AllUp

\* What is written below server l was written by its thread, which waits.
LEMMA OneLink ==
    ASSUME NEW w \in Client, IInv(w), AllUp, NEW l \in Link
    PROVE  /\ LinkOK(thread[WriteConn(w, l)], thread[WriteConn(w, l + 1)],
                     req[l], resp[l], tables[l], tables[l + 1])
           /\ Busy(WriteConn(w, l + 1)) => /\ thread[WriteConn(w, l)].pc = "wait"
                                           /\ req[l] = <<>> /\ resp[l] = <<>>
           /\ thread[WriteConn(w, l)].pc # "wait" => /\ ~Busy(WriteConn(w, l + 1))
                                                     /\ req[l] = <<>> /\ resp[l] = <<>>
<1>1. up[l] /\ up[l + 1] /\ WriteConn(w, l + 1) = LinkConn(l)
  BY WriteConns DEF AllUp
<1>2. LinkOK(thread[WriteConn(w, l)], thread[WriteConn(w, l + 1)],
             req[l], resp[l], tables[l], tables[l + 1])
  BY <1>1 DEF IInv, LinkInv
<1>3. WriteConn(w, l) \in Conn
  BY WriteConns
<1>4. thread[WriteConn(w, l)].pc \in {"idle", "send", "wait", "reply"}
  BY <1>3, Alive
<1> QED  BY <1>2, <1>4 DEF LinkOK, Busy

\* While a server is at work on a write, all servers before it wait.
LEMMA Upstream ==
    ASSUME NEW w \in Client, IInv(w), AllUp, NEW s \in Server,
           Busy(WriteConn(w, s)), NEW r \in Server, r < s
    PROVE  /\ thread[WriteConn(w, r)].pc = "wait"
           /\ req[r] = <<>> /\ resp[r] = <<>>
<1> DEFINE S == {j \in Server : j > r /\ Busy(WriteConn(w, j))}
<1>1. S \in SUBSET Nat /\ s \in S
  BY DEF Server
<1>2. PICK j \in S : \A i \in S : j <= i
  BY <1>1, LeastOfNats
<1>3. j - 1 \in Link /\ j - 1 + 1 = j /\ j - 1 \in Server /\ j - 1 >= r /\ j - 1 \in Int
  BY <1>2, ServersAssumption DEF Server, Link
<1>4. Busy(WriteConn(w, j - 1 + 1))
  BY <1>2, <1>3
<1> HIDE DEF S
<1>5. /\ thread[WriteConn(w, j - 1)].pc = "wait"
      /\ req[j - 1] = <<>> /\ resp[j - 1] = <<>>
  BY <1>3, <1>4, OneLink
<1>6. CASE j - 1 = r
  BY <1>5, <1>6
<1>7. CASE j - 1 > r
  <2>1. Busy(WriteConn(w, j - 1))
    BY <1>5 DEF Busy
  <2>2. j - 1 \in S
    BY <1>3, <1>7, <2>1 DEF S
  <2> QED  BY <1>2, <1>3, <2>2
<1>8. j - 1 = r \/ j - 1 > r
  BY <1>3 DEF Server
<1> QED  BY <1>6, <1>7, <1>8

\* While the head is not at work on a write, nothing is under way and all
\* tables are the same.
LEMMA Rest ==
    ASSUME NEW w \in Client, IInv(w), AllUp, ~Busy(WriteConn(w, HeadServer))
    PROVE  /\ \A s \in Server : ~Busy(WriteConn(w, s))
           /\ \A l \in Link : req[l] = <<>> /\ resp[l] = <<>>
           /\ \A s \in Server : tables[s] = tables[HeadServer]
<1>1. \A s \in Server : ~Busy(WriteConn(w, s))
  <2> SUFFICES ASSUME NEW s \in Server, Busy(WriteConn(w, s))
               PROVE  FALSE
    OBVIOUS
  <2>1. HeadServer \in Server /\ HeadServer < s
    BY ServersAssumption DEF Server, HeadServer
  <2>2. thread[WriteConn(w, HeadServer)].pc = "wait"
    BY <2>1, Upstream
  <2> QED  BY <2>2 DEF Busy
<1>2. \A l \in Link : /\ req[l] = <<>> /\ resp[l] = <<>>
                      /\ tables[l] = tables[l + 1]
  <2> TAKE l \in Link
  <2>1. thread[WriteConn(w, l)].pc = "idle"
    BY <1>1, WriteConns DEF Busy
  <2> QED  BY <2>1, OneLink DEF LinkOK
<1>3. \A s \in Server : tables[s] = tables[HeadServer]
  <2> DEFINE S == {s \in Server : tables[s] # tables[HeadServer]}
  <2> SUFFICES ASSUME S # {}
               PROVE  FALSE
    OBVIOUS
  <2>1. S \in SUBSET Nat
    BY DEF Server
  <2>2. PICK s \in S : \A r \in S : s <= r
    BY <2>1, LeastOfNats
  <2>3. s - 1 \in Link /\ s - 1 \in Server /\ s - 1 + 1 = s /\ ~(s <= s - 1)
    BY <2>2, ServersAssumption DEF Server, Link, HeadServer
  <2>4. tables[s - 1] = tables[HeadServer]
    BY <2>2, <2>3
  <2>5. tables[s - 1] = tables[s]
    BY <1>2, <2>3
  <2> QED  BY <2>2, <2>4, <2>5
<1> QED  BY <1>1, <1>2, <1>3

-----------------------------------------------------------------------------
(* What serving a request amounts to.                                      *)

\* Reads and writes have threads of their own.
LEMMA ReadConns ==
    ASSUME NEW w \in Client
    PROVE  \A c \in Client : \A s \in Server : TailConn(c) # WriteConn(w, s)
<1> TAKE c \in Client
<1> TAKE s \in Server
<1>1. CASE s = HeadServer
  BY <1>1, ClientConns DEF WriteConn
<1>2. CASE s # HeadServer
  BY <1>2, ClientConns, WriteConns DEF WriteConn
<1> QED  BY <1>1, <1>2

FromClient(w, x, m) ==
    /\ x \in ClientConn /\ x[2] = m.by /\ x = ConnOf(m)
    /\ client[m.by].pc = "sent" /\ client[m.by].msg = m
    /\ client' = [client EXCEPT ![m.by].pc = "wait"]
    /\ UNCHANGED req
    /\ m.op # "get" => m.by = w /\ x = WriteConn(w, HeadServer)

FromServer(w, x, m, l) ==
    /\ x = WriteConn(w, l + 1) /\ x = LinkConn(l)
    /\ req[l] = <<m>> /\ req' = [req EXCEPT ![l] = <<>>]
    /\ resp[l] = <<>>
    /\ thread[WriteConn(w, l)].pc = "wait"
    /\ Pending(m, tables[l], tables[l + 1])
    /\ m.op # "get" /\ m.by = w
    /\ client[w].pc = "wait" /\ client[w].msg = m
    /\ UNCHANGED client

\* A request comes from its client, which has just sent it, or from the thread
\* of the server before, which waits for its answer; it is undecided.
LEMMA Source ==
    ASSUME NEW w \in Client, RInv(w), NEW x \in Conn, NEW m \in Request,
           thread[x].pc = "idle", Take(x, m)
    PROVE  /\ effect[m.by] = NULL
           /\ FromClient(w, x, m) \/ \E l \in Link : FromServer(w, x, m, l)
<1> USE DEF RInv
<1>1. CASE /\ x \in ClientConn
           /\ client[x[2]].pc = "sent"
           /\ ConnOf(client[x[2]].msg) = x
           /\ m = client[x[2]].msg
           /\ client' = [client EXCEPT ![x[2]].pc = "wait"]
           /\ UNCHANGED req
  <2>1. x[2] \in Client /\ x[2] = m.by
    BY <1>1, ConnHosts, ClientConns
  <2>2. effect[m.by] = NULL
    BY <1>1, <2>1 DEF CallInv
  <2>3. m.op # "get" => m.by = w
    BY <1>1, <2>1, MessageAssumption DEF IInv, ClientInv
  <2>4. m.op # "get" => x = WriteConn(w, HeadServer)
    BY <1>1, <2>3, WriteConns DEF ConnOf
  <2> QED  BY <1>1, <2>1, <2>2, <2>3, <2>4 DEF FromClient
<1>2. CASE /\ x[1] = "link"
           /\ req[x[2]] # <<>>
           /\ m = Head(req[x[2]])
           /\ req' = [req EXCEPT ![x[2]] = Tail(@)]
           /\ UNCHANGED client
  <2>1. PICK l \in Link : l = x[2] /\ x = LinkConn(l)
    BY <1>2, ConnHosts
  <2>2. x = WriteConn(w, l + 1) /\ l \in Server /\ req[l] # <<>>
    BY <1>2, <2>1, WriteConns
  <2>3. /\ thread[WriteConn(w, l)].pc = "wait" /\ m = thread[WriteConn(w, l)].msg
        /\ Tail(req[l]) = <<>> /\ resp[l] = <<>>
        /\ Pending(m, tables[l], tables[l + 1])
    BY <1>2, <2>1, <2>2, OneLink, LinkTake
  <2>4. req[l] = <<m>>
    BY <2>2, <2>3, OneLink DEF LinkOK
  <2>5. m = client[w].msg /\ client[w].pc = "wait" /\ m.op # "get"
    BY <2>2, <2>3 DEF WriteInv
  <2>6. m.by = w
    BY <2>5, MessageAssumption DEF IInv, ClientInv
  <2>7. effect[w] = NULL
    BY <2>2 DEF WriteInv
  <2>8. FromServer(w, x, m, l)
    BY <1>2, <2>1, <2>2, <2>3, <2>4, <2>5, <2>6 DEF FromServer
  <2> QED  BY <2>1, <2>6, <2>7, <2>8
<1> QED  BY <1>1, <1>2 DEF Take

\* A server applies a write, the head refuses one, the tail answers a read.
Applies(w, x, m) ==
    /\ m.op # "get" /\ m.by = w /\ x = WriteConn(w, Host(x))
    /\ m.op = "del" => tables[Host(x)][m.key] # NULL
    /\ tables' = [tables EXCEPT ![Host(x)] = Applied(@, m)]
    /\ thread' = [thread EXCEPT ![x] = IF Host(x) = TailServer
                                       THEN ReplyOf(m, Ok(m, NULL)) ELSE SendOf(m)]
    /\ effect' = IF Host(x) = TailServer
                 THEN [effect EXCEPT ![w] = [res |-> 0]] ELSE effect

Refuses(w, x, m) ==
    /\ m.op = "del" /\ m.by = w /\ x = WriteConn(w, HeadServer)
    /\ tables[HeadServer][m.key] = NULL
    /\ tables' = tables
    /\ thread' = [thread EXCEPT ![x] = ReplyOf(m, Error)]
    /\ effect' = [effect EXCEPT ![w] = [res |-> -1]]

Reads(x, m) ==
    /\ m.op = "get" /\ x = TailConn(m.by)
    /\ tables' = tables
    /\ \E r \in Response : /\ RpcResult(m, r) = tables[TailServer][m.key]
                           /\ thread' = [thread EXCEPT ![x] = ReplyOf(m, r)]
    /\ effect' = [effect EXCEPT ![m.by] = [res |-> tables[TailServer][m.key]]]

\* What Serve does in a chain without crashes: it applies a write, refuses one,
\* or reads (table_skel.c:60-140).
LEMMA ServeCases ==
    ASSUME NEW w \in Client, RInv(w), NEW x \in Conn, Serve(x)
    PROVE  \E m \in Request : /\ thread[x].pc = "idle" /\ Take(x, m)
                              /\ Applies(w, x, m) \/ Refuses(w, x, m) \/ Reads(x, m)
<1> DEFINE s == Host(x)
<1>1. PICK m \in Request : /\ Take(x, m)
                           /\ \/ LocalPut(x, m, s)
                              \/ LocalDel(x, m, s)
                              \/ LocalGet(x, m, s)
  BY DEF Serve
<1>2. thread[x].pc = "idle"
  BY DEF Serve
<1>0. FromClient(w, x, m) \/ \E l \in Link : FromServer(w, x, m, l)
  BY <1>1, <1>2, Source
<1>3. effect[m.by] = NULL /\ m.by \in Client /\ m.key \in Key /\ s \in Server
  <2>1. effect[m.by] = NULL
    BY <1>1, <1>2, Source
  <2> QED  BY <2>1, RequestFields, ConnHosts
<1>4. /\ m.op # "get" => m.by = w /\ x = WriteConn(w, s)
      /\ m.op = "get" => x = TailConn(m.by) /\ s = TailServer
  <2>1. CASE FromClient(w, x, m)
    <3>1. HeadServer \in Server
      BY ServersAssumption DEF HeadServer, Server
    <3> QED  BY <1>3, <2>1, <3>1, WriteConns, ConnHosts DEF FromClient, ConnOf
  <2>2. ASSUME NEW l \in Link, FromServer(w, x, m, l)
        PROVE  m.op # "get" /\ m.by = w /\ x = WriteConn(w, s)
    BY <2>2, WriteConns DEF FromServer
  <2> QED  BY <1>0, <2>1, <2>2
<1> HIDE DEF s
<1>5. CASE LocalPut(x, m, s)
  <2>1. m.op # "get" /\ m.op # "del" /\ m.by = w
    BY <1>4, <1>5 DEF LocalPut
  <2>2. /\ tables' = [tables EXCEPT ![s] = Applied(@, m)]
        /\ thread' = [thread EXCEPT ![x] =
                        IF s = TailServer THEN ReplyOf(m, Ok(m, NULL)) ELSE SendOf(m)]
    BY <1>5 DEF LocalPut, Forward, ReplyOf, SendOf, Applied, s
  <2>3. effect' = IF s = TailServer THEN [effect EXCEPT ![w] = [res |-> 0]] ELSE effect
    BY <1>3, <1>5, <2>1 DEF LocalPut, Decide
  <2> QED  BY <1>1, <1>2, <1>4, <2>1, <2>2, <2>3 DEF Applies, s
<1>6. CASE LocalDel(x, m, s) /\ tables[s][m.key] # NULL
  <2>1. m.op = "del" /\ m.by = w
    BY <1>4, <1>6 DEF LocalDel
  <2>2. /\ tables' = [tables EXCEPT ![s] = Applied(@, m)]
        /\ thread' = [thread EXCEPT ![x] =
                        IF s = TailServer THEN ReplyOf(m, Ok(m, NULL)) ELSE SendOf(m)]
    BY <1>6, RequestFields DEF LocalDel, Forward, ReplyOf, SendOf, Applied, s
  <2>3. effect' = IF s = TailServer THEN [effect EXCEPT ![w] = [res |-> 0]] ELSE effect
    BY <1>3, <1>6, <2>1 DEF LocalDel, Decide
  <2> QED  BY <1>1, <1>2, <1>4, <1>6, <2>1, <2>2, <2>3 DEF Applies, s
<1>7. CASE LocalDel(x, m, s) /\ tables[s][m.key] = NULL
  <2>1. m.op = "del" /\ m.by = w /\ tables' = tables
        /\ thread' = [thread EXCEPT ![x] = ReplyOf(m, Error)]
        /\ Decide(m, s = HeadServer, -1)
    BY <1>4, <1>7 DEF LocalDel, Answer, ReplyOf
  <2>2. s = HeadServer
    <3>1. x = WriteConn(w, HeadServer) => s = HeadServer
      BY <1>4, WriteConns, ServersAssumption DEF s, HeadServer, Server
    <3>2. ASSUME NEW l \in Link, FromServer(w, x, m, l)
          PROVE  FALSE
      BY <1>7, <2>1, <3>2, ConnHosts DEF FromServer, Pending, s
    <3> QED  BY <1>0, <2>1, <3>1, <3>2 DEF FromClient
  <2>3. effect' = [effect EXCEPT ![w] = [res |-> -1]]
    BY <1>3, <2>1, <2>2 DEF Decide
  <2> QED  BY <1>1, <1>2, <1>4, <1>7, <2>1, <2>2, <2>3 DEF Refuses
<1>8. CASE LocalGet(x, m, s)
  <2> DEFINE v == tables[TailServer][m.key]
             r == IF v = NULL THEN Error ELSE Ok(m, v)
  <2>1. m.op = "get" /\ tables' = tables /\ x = TailConn(m.by)
        /\ thread' = [thread EXCEPT ![x] = ReplyOf(m, r)]
    BY <1>4, <1>8 DEF LocalGet, Answer, ReplyOf
  <2>2. effect' = [effect EXCEPT ![m.by] = [res |-> v]]
    BY <1>3, <1>4, <1>8, <2>1 DEF LocalGet, Decide
  <2>3. v \in Value \cup {NULL}
    BY <1>3, <1>4, <2>1 DEF RInv, IInv, TypeOK
  <2>4. r \in Response /\ RpcResult(m, r) = v
    BY <2>1, <2>3, Results DEF RpcResult, Ok, Error
  <2> QED  BY <1>1, <1>2, <2>1, <2>2, <2>4 DEF Reads
<1> QED  BY <1>1, <1>5, <1>6, <1>7, <1>8

\* What all three have in common.
LEMMA ServeFrame ==
    ASSUME NEW w \in Client, RInv(w), NEW x \in Conn, NEW m \in Request,
           thread[x].pc = "idle", Take(x, m),
           Applies(w, x, m) \/ Refuses(w, x, m) \/ Reads(x, m)
    PROVE  /\ m.by \in Client /\ m.key \in Key
           /\ thread'[x].pc \in {"send", "reply"} /\ thread'[x].msg = m
           /\ \A y \in Conn : y # x => thread'[y] = thread[y]
           /\ client'[m.by].pc = "wait" /\ client'[m.by].msg = m
           /\ \A c \in Client : c # m.by => client'[c] = client[c]
           /\ client[m.by].pc \in {"sent", "wait"} /\ client[m.by].msg = m
           /\ effect[m.by] = NULL
           /\ \A c \in Client : c # m.by => effect'[c] = effect[c]
<1>1. m.by \in Client /\ m.key \in Key
  BY RequestFields
<1>2. /\ thread \in [Conn -> ThreadType] /\ client \in [Client ->
           [pc : {"idle", "sent", "wait", "down"}, msg : Request \cup {NULL},
            res : Value \cup {NULL, 0, -1}]]
      /\ effect \in [Client -> {NULL} \cup [res : Value \cup {NULL, 0, -1}]]
  BY DEF RInv, IInv, TypeOK, ThreadType
<1>3. PICK t : /\ thread' = [thread EXCEPT ![x] = t]
               /\ t.pc \in {"send", "reply"} /\ t.msg = m
  <2>1. /\ \A r : ReplyOf(m, r).pc = "reply" /\ ReplyOf(m, r).msg = m
        /\ SendOf(m).pc = "send" /\ SendOf(m).msg = m
    BY DEF ReplyOf, SendOf
  <2>2. CASE Applies(w, x, m)
    BY <2>1, <2>2 DEF Applies
  <2>3. CASE Refuses(w, x, m)
    BY <2>1, <2>3 DEF Refuses
  <2>4. CASE Reads(x, m)
    <3>1. PICK r \in Response : thread' = [thread EXCEPT ![x] = ReplyOf(m, r)]
      BY <2>4 DEF Reads
    <3> QED  BY <2>1, <3>1
  <2> QED  BY <2>2, <2>3, <2>4
<1>4. /\ thread'[x].pc \in {"send", "reply"} /\ thread'[x].msg = m
      /\ \A y \in Conn : y # x => thread'[y] = thread[y]
  BY <1>2, <1>3
<1>5. \A c \in Client : c # m.by => effect'[c] = effect[c]
  <2>1. \/ effect' = effect
        \/ \E res : effect' = [effect EXCEPT ![m.by] = [res |-> res]]
    BY DEF Applies, Refuses, Reads
  <2> QED  BY <1>1, <1>2, <2>1
<1>6. effect[m.by] = NULL /\ (FromClient(w, x, m) \/ \E l \in Link : FromServer(w, x, m, l))
  BY Source
<1>7. CASE FromClient(w, x, m)
  <2>1. client' = [client EXCEPT ![m.by].pc = "wait"] /\ client[m.by].pc = "sent"
        /\ client[m.by].msg = m
    BY <1>7 DEF FromClient
  <2> QED  BY <1>1, <1>2, <1>4, <1>5, <1>6, <2>1
<1>8. CASE \E l \in Link : FromServer(w, x, m, l)
  <2>1. client' = client /\ m.by = w /\ client[w].pc = "wait" /\ client[w].msg = m
    BY <1>8 DEF FromServer
  <2> QED  BY <1>1, <1>4, <1>5, <1>6, <2>1
<1> QED  BY <1>6, <1>7, <1>8

\* Serve keeps the calls with the threads that serve them.
LEMMA ServeCallInv ==
    ASSUME NEW w \in Client, RInv(w), NEW x \in Conn, Serve(x)
    PROVE  CallInv'
<1> PICK m \in Request : /\ thread[x].pc = "idle" /\ Take(x, m)
                         /\ Applies(w, x, m) \/ Refuses(w, x, m) \/ Reads(x, m)
  BY ServeCases
<1>1. /\ m.by \in Client
      /\ thread'[x].pc \in {"send", "reply"} /\ thread'[x].msg = m
      /\ \A y \in Conn : y # x => thread'[y] = thread[y]
      /\ client'[m.by].pc = "wait" /\ client'[m.by].msg = m
      /\ \A c \in Client : c # m.by => client'[c] = client[c]
      /\ client[m.by].pc \in {"sent", "wait"} /\ client[m.by].msg = m
      /\ \A c \in Client : c # m.by => effect'[c] = effect[c]
  BY ServeFrame
<1>2. ASSUME NEW y \in ClientConn, thread'[y].pc # "idle"
      PROVE  /\ client'[y[2]].pc = "wait"
             /\ thread'[y].msg = client'[y[2]].msg
             /\ ConnOf(client'[y[2]].msg) = y
  <2>1. y \in Conn /\ y[2] \in Client
    BY ConnHosts
  <2>2. CASE y = x
    <3>1. FromClient(w, x, m)
      <4>1. \A l \in Link : ~FromServer(w, x, m, l)
        BY <2>2, ConnHosts DEF FromServer, LinkConn
      <4> QED  BY <4>1, Source
    <3> QED  BY <1>1, <2>2, <3>1 DEF FromClient
  <2>3. CASE y # x
    <3>1. /\ client[y[2]].pc = "wait" /\ thread[y].msg = client[y[2]].msg
          /\ ConnOf(client[y[2]].msg) = y
      BY <1>1, <1>2, <2>1, <2>3 DEF RInv, CallInv, Busy
    <3>2. thread'[y] = thread[y] /\ client'[y[2]].msg = client[y[2]].msg
          /\ client'[y[2]].pc = "wait"
      BY <1>1, <2>1, <2>3, <3>1
    <3> QED  BY <3>1, <3>2
  <2> QED  BY <2>2, <2>3
<1>3. ASSUME NEW c \in Client
      PROVE  /\ client'[c].pc = "sent" => effect'[c] = NULL
             /\ client'[c].pc # "down"
  BY <1>1 DEF RInv, CallInv
<1> QED  BY <1>2, <1>3 DEF CallInv, Busy

\* Serve decides a get at the tail and no other.
LEMMA ServeReadInv ==
    ASSUME NEW w \in Client, RInv(w), NEW x \in Conn, Serve(x)
    PROVE  ReadInv'
<1> PICK m \in Request : /\ thread[x].pc = "idle" /\ Take(x, m)
                         /\ Applies(w, x, m) \/ Refuses(w, x, m) \/ Reads(x, m)
  BY ServeCases
<1>1. /\ m.by \in Client
      /\ \A y \in Conn : y # x => thread'[y] = thread[y]
      /\ \A c \in Client : c # m.by => effect'[c] = effect[c]
  BY ServeFrame
<1> SUFFICES ASSUME NEW c \in Client, thread'[TailConn(c)].pc = "reply"
             PROVE  effect'[c] = [res |-> RpcResult(thread'[TailConn(c)].msg,
                                                    thread'[TailConn(c)].reply)]
  BY DEF ReadInv
<1>2. TailConn(c) \in Conn /\ TailConn(c) \in ClientConn /\ TailConn(c)[2] = c
  BY ConnHosts, ClientConns
<1>3. CASE TailConn(c) = x
  <2>1. Reads(x, m)
    <3>1. HeadServer \in Server /\ Host(x) \in Server
      BY ConnHosts, ServersAssumption DEF HeadServer, Server
    <3> QED  BY <1>3, <3>1, ReadConns DEF Applies, Refuses
  <2>2. PICK r \in Response : /\ RpcResult(m, r) = tables[TailServer][m.key]
                              /\ thread' = [thread EXCEPT ![x] = ReplyOf(m, r)]
    BY <2>1 DEF Reads
  <2>3. thread'[x] = ReplyOf(m, r)
    BY <2>2 DEF RInv, IInv, TypeOK
  <2>4. c = m.by
    BY <1>1, <1>3, <2>1, ClientConns DEF Reads
  <2>5. effect'[c] = [res |-> tables[TailServer][m.key]]
    BY <1>1, <2>1, <2>4 DEF Reads, RInv, IInv, TypeOK
  <2> QED  BY <1>3, <2>2, <2>3, <2>5 DEF ReplyOf
<1>4. CASE TailConn(c) # x
  <2>1. thread'[TailConn(c)] = thread[TailConn(c)]
    BY <1>1, <1>2, <1>4
  <2>2. effect[c] = [res |-> RpcResult(thread[TailConn(c)].msg, thread[TailConn(c)].reply)]
    BY <2>1 DEF RInv, ReadInv
  <2>3. client[c].pc = "wait" /\ ConnOf(client[c].msg) = TailConn(c)
    BY <1>2, <2>1 DEF RInv, CallInv, Busy
  <2>4. c # m.by
    <3>1. CASE FromClient(w, x, m)
      BY <2>3, <3>1 DEF FromClient
    <3>2. ASSUME NEW l \in Link, FromServer(w, x, m, l)
          PROVE  c # m.by
      BY <1>1, <2>3, <3>2, ClientConns DEF FromServer, ConnOf
    <3> QED  BY <3>1, <3>2, Source
  <2> QED  BY <1>1, <2>1, <2>2, <2>4
<1> QED  BY <1>3, <1>4

\* Serve decides a write at the tail, or refuses it at the head, only then.
LEMMA ServeWriteInv ==
    ASSUME NEW w \in Client, RInv(w), NEW x \in Conn, Serve(x)
    PROVE  WriteInv(w)'
<1> PICK m \in Request : /\ thread[x].pc = "idle" /\ Take(x, m)
                         /\ Applies(w, x, m) \/ Refuses(w, x, m) \/ Reads(x, m)
  BY ServeCases
<1>1. /\ m.by \in Client
      /\ thread'[x].msg = m
      /\ \A y \in Conn : y # x => thread'[y] = thread[y]
      /\ client'[m.by].pc = "wait" /\ client'[m.by].msg = m
      /\ \A c \in Client : c # m.by => client'[c] = client[c]
      /\ client[m.by].msg = m
      /\ effect[m.by] = NULL
      /\ \A c \in Client : c # m.by => effect'[c] = effect[c]
  BY ServeFrame
<1>2. resp' = resp
  BY DEF Serve
<1>3. /\ thread \in [Conn -> ThreadType]
      /\ effect \in [Client -> {NULL} \cup [res : Value \cup {NULL, 0, -1}]]
      /\ req \in [Link -> Seq(Request)]
      /\ IInv(w) /\ AllUp /\ CallInv /\ WriteInv(w)
  BY DEF RInv, IInv, TypeOK, ThreadType
<1>4. /\ \A s \in Server : WriteConn(w, s) \in Conn /\ Host(WriteConn(w, s)) = s
      /\ HeadServer \in Server /\ Host(x) \in Server
  BY WriteConns, ConnHosts, ServersAssumption DEF HeadServer, Server
<1>5. FromClient(w, x, m) \/ \E l \in Link : FromServer(w, x, m, l)
  BY Source
\* A client that sent its request has none under way.
<1>6. m.by = w /\ FromClient(w, x, m)
         => /\ \A s \in Server : ~Busy(WriteConn(w, s))
            /\ \A l \in Link : req[l] = <<>> /\ resp[l] = <<>>
  <2> SUFFICES ASSUME m.by = w, FromClient(w, x, m)
               PROVE  ~Busy(WriteConn(w, HeadServer))
    BY <1>3, Rest
  <2>1. client[w].pc = "sent"
    BY DEF FromClient
  <2> QED  BY <1>3, <1>4, <2>1 DEF WriteInv, Busy
<1>7. CASE Reads(x, m)
  <2>1. FromClient(w, x, m) /\ req' = req
    BY <1>5, <1>7 DEF Reads, FromClient, FromServer
  <2>2. \A s \in Server : thread'[WriteConn(w, s)] = thread[WriteConn(w, s)]
    BY <1>1, <1>4, <1>7, ReadConns DEF Reads
  <2>3. CASE m.by = w
    BY <1>2, <1>6, <2>1, <2>2, <2>3 DEF WriteInv, Busy
  <2>4. CASE m.by # w
    BY <1>1, <1>2, <1>3, <2>1, <2>2, <2>4 DEF WriteInv
  <2> QED  BY <2>3, <2>4
<1>8. CASE Refuses(w, x, m)
  <2>1. FromClient(w, x, m) /\ req' = req /\ m.by = w
    <3>1. \A l \in Link : ~FromServer(w, x, m, l)
      BY <1>8, WriteConns, ClientConns DEF FromServer, Refuses
    <3> QED  BY <1>5, <1>8, <3>1 DEF FromClient, Refuses
  <2>2. thread'[x] = ReplyOf(m, Error) /\ effect'[w] = [res |-> -1]
    BY <1>3, <1>8 DEF Refuses
  <2>3. /\ thread'[x].pc = "reply" /\ thread'[x].reply = Error /\ m.op = "del"
        /\ RpcResult(m, Error) = -1
    BY <1>8, <2>2 DEF ReplyOf, Refuses, RpcResult, Error
  <2>4. \A s \in Server : WriteConn(w, s) # x => thread'[WriteConn(w, s)].pc = "idle"
    BY <1>1, <1>4, <1>6, <2>1 DEF Busy
  <2> QED  BY <1>1, <1>2, <1>6, <2>1, <2>2, <2>3, <2>4 DEF WriteInv
<1>9. CASE Applies(w, x, m) /\ Host(x) # TailServer
  <2>1. thread'[x] = SendOf(m) /\ effect' = effect /\ m.by = w /\ m.op # "get"
    BY <1>3, <1>9 DEF Applies
  <2>2. thread'[x].pc = "send"
    BY <2>1 DEF SendOf
  <2>3. \A l \in Link : req'[l] # <<>> => req[l] # <<>>
    BY <1>3, <1>5 DEF FromClient, FromServer
  <2>4. \A s \in Server : Busy(WriteConn(w, s)) => client'[w].pc = "wait" /\ client'[w].msg = client[w].msg
    BY <1>1, <2>1, <1>3 DEF WriteInv, Busy
  <2> QED  BY <1>1, <1>2, <1>3, <1>4, <2>1, <2>2, <2>3, <2>4 DEF WriteInv, Busy
<1>10. CASE Applies(w, x, m) /\ Host(x) = TailServer
  <2>1. /\ thread'[x] = ReplyOf(m, Ok(m, NULL)) /\ effect'[w] = [res |-> 0]
        /\ m.by = w /\ m.op # "get" /\ x = WriteConn(w, TailServer)
    BY <1>3, <1>10 DEF Applies
  <2>2. /\ thread'[x].pc = "reply" /\ thread'[x].reply = Ok(m, NULL)
        /\ RpcResult(m, Ok(m, NULL)) = 0
    BY <2>1, Results DEF ReplyOf
  <2>3. \A s \in Server : WriteConn(w, s) # x => thread[WriteConn(w, s)].pc \in {"idle", "wait"}
    <3>1. CASE FromClient(w, x, m)
      BY <1>6, <2>1, <3>1 DEF Busy
    <3>2. ASSUME NEW l \in Link, FromServer(w, x, m, l), NEW s \in Server, WriteConn(w, s) # x
          PROVE  thread[WriteConn(w, s)].pc = "wait"
      <4>1. l + 1 = TailServer /\ l \in Server /\ thread[WriteConn(w, l)].pc = "wait"
        BY <1>10, <3>2, ConnHosts, WriteConns DEF FromServer
      <4>2. s = l \/ s < l
        BY <2>1, <3>2, <4>1 DEF Server, TailServer, Link
      <4> QED  BY <1>3, <4>1, <4>2, Upstream DEF Busy
    <3> QED  BY <1>5, <3>1, <3>2
  <2>4. \A l \in Link : req'[l] = <<>>
    <3>1. CASE FromClient(w, x, m)
      BY <1>6, <2>1, <3>1 DEF FromClient
    <3>2. ASSUME NEW k \in Link, FromServer(w, x, m, k), NEW l \in Link
          PROVE  req'[l] = <<>>
      <4>1. k + 1 = TailServer /\ k \in Server /\ thread[WriteConn(w, k)].pc = "wait"
        BY <1>10, <3>2, ConnHosts, WriteConns DEF FromServer
      <4>2. l \in Server /\ (l = k \/ l < k)
        BY <4>1, WriteConns DEF TailServer, Link
      <4>3. CASE l = k
        BY <1>3, <3>2, <4>3 DEF FromServer
      <4>4. CASE l < k
        BY <1>3, <3>2, <4>1, <4>2, <4>4, Upstream DEF Busy, FromServer
      <4> QED  BY <4>2, <4>3, <4>4
    <3> QED  BY <1>5, <3>1, <3>2
  <2>5. \A s \in Server : WriteConn(w, s) # x
                             => thread'[WriteConn(w, s)] = thread[WriteConn(w, s)]
    BY <1>1, <1>4
  <2>6. \A s \in Server : Busy(WriteConn(w, s)) => client'[w].pc = "wait" /\ client'[w].msg = client[w].msg
    BY <1>1, <2>1, <1>3 DEF WriteInv, Busy
  <2> QED  BY <1>1, <1>2, <1>3, <2>1, <2>2, <2>3, <2>4, <2>5, <2>6 DEF WriteInv, Busy
<1> QED  BY <1>7, <1>8, <1>9, <1>10

\* Serve changes the table of the tail by the write that it decides.
LEMMA ServeAckInv ==
    ASSUME NEW w \in Client, RInv(w), NEW x \in Conn, Serve(x)
    PROVE  AckInv(w)'
<1> PICK m \in Request : /\ thread[x].pc = "idle" /\ Take(x, m)
                         /\ Applies(w, x, m) \/ Refuses(w, x, m) \/ Reads(x, m)
  BY ServeCases
<1>1. /\ m.by \in Client /\ m.key \in Key
      /\ client'[m.by].pc = "wait" /\ client'[m.by].msg = m
      /\ \A c \in Client : c # m.by => client'[c] = client[c]
      /\ client[m.by].pc \in {"sent", "wait"} /\ client[m.by].msg = m
      /\ effect[m.by] = NULL
      /\ \A c \in Client : c # m.by => effect'[c] = effect[c]
  BY ServeFrame
<1>2. /\ acked' = acked /\ [res |-> 0] # NULL /\ [res |-> 0] # [res |-> -1]
      /\ effect \in [Client -> {NULL} \cup [res : Value \cup {NULL, 0, -1}]]
      /\ tables \in [Server -> [Key -> Value \cup {NULL}]]
      /\ TailServer \in Server
  BY MessageAssumption, ServersAssumption
     DEF Serve, RInv, IInv, TypeOK, TailServer, Server
<1> SUFFICES ASSUME NEW k \in Key
             PROVE  IF Writing(w, k)' /\ effect'[w] = [res |-> 0]
                    THEN tables'[TailServer][k] = client'[w].msg.value
                    ELSE tables'[TailServer][k] \in acked[k]
  BY <1>2 DEF AckInv
<1>3. IF Writing(w, k) /\ effect[w] = [res |-> 0]
      THEN tables[TailServer][k] = client[w].msg.value
      ELSE tables[TailServer][k] \in acked[k]
  BY DEF RInv, AckInv
<1>4. CASE Reads(x, m) /\ m.by # w
  BY <1>1, <1>3, <1>4 DEF Reads, Writing
<1>5. CASE Reads(x, m) /\ m.by = w
  <2>1. ~Writing(w, k) /\ ~Writing(w, k)' /\ tables' = tables
    BY <1>1, <1>5 DEF Reads, Writing
  <2> QED  BY <1>3, <2>1
<1>6. CASE Refuses(w, x, m)
  <2>1. effect[w] = NULL /\ effect'[w] = [res |-> -1] /\ tables' = tables
    BY <1>1, <1>2, <1>6 DEF Refuses
  <2> QED  BY <1>2, <1>3, <2>1
<1>7. CASE Applies(w, x, m) /\ Host(x) # TailServer
  <2>1. /\ effect[w] = NULL /\ effect' = effect
        /\ tables'[TailServer] = tables[TailServer]
    BY <1>1, <1>2, <1>7 DEF Applies
  <2> QED  BY <1>2, <1>3, <2>1
<1>8. CASE Applies(w, x, m) /\ Host(x) = TailServer
  <2>1. /\ effect[w] = NULL /\ effect'[w] = [res |-> 0] /\ m.by = w /\ m.op # "get"
        /\ tables'[TailServer] = [tables[TailServer] EXCEPT ![m.key] = m.value]
    BY <1>1, <1>2, <1>8 DEF Applies, Applied
  <2>2. Writing(w, k)' <=> k = m.key
    BY <1>1, <2>1 DEF Writing
  <2> QED  BY <1>1, <1>2, <1>3, <2>1, <2>2
<1> QED  BY <1>4, <1>5, <1>6, <1>7, <1>8

-----------------------------------------------------------------------------
(* The steps of the service.                                               *)

Calls == [c \in Client |-> CallOf(c)]
Stutters == tables'[TailServer] = tables[TailServer] /\ Calls' = Calls

\* What m returns, and the table it leaves, at the tail.
TailResult(m) ==
    CASE m.op = "put" -> 0
      [] m.op = "del" -> IF tables[TailServer][m.key] = NULL THEN -1 ELSE 0
      [] m.op = "get" -> tables[TailServer][m.key]
TailAfter(m) == Applied(tables[TailServer], m)

\* The step of the one table that a client's call takes effect with.
LEMMA EffectStep ==
    ASSUME NEW c \in Client, NEW m \in Request, NEW v,
           client[c].msg = m, client[c].pc \in {"sent", "wait"}, m # NULL,
           client'[c].msg = m, client'[c].pc = "wait",
           effect[c] = NULL, effect'[c] = [res |-> v], [res |-> v] # NULL,
           \A d \in Client \ {c} : client'[d] = client[d] /\ effect'[d] = effect[d],
           v = TailResult(m), tables'[TailServer] = TailAfter(m)
    PROVE  Service!TakeEffect(c)
<1> DEFINE o == [op |-> m.op, key |-> m.key, value |-> m.value]
<1>1. CallOf(c) = [pc |-> "called", op |-> o, res |-> NULL]
  BY DEF CallOf
<1>2. CallOf(c)' = [pc |-> "done", op |-> o, res |-> v]
  <2>1. /\ client'[c].msg = m /\ client'[c].msg # NULL /\ client'[c].pc # "idle"
        /\ effect'[c] # NULL /\ effect'[c].res = v
    OBVIOUS
  <2> QED  BY <2>1 DEF CallOf
<1>3. \A d \in Client \ {c} : CallOf(d)' = CallOf(d)
  BY DEF CallOf
<1>4. o.op = m.op /\ o.key = m.key /\ o.value = m.value
  OBVIOUS
<1> HIDE DEF o
<1>5. Calls[c].pc = "called" /\ Calls[c].op = o
  BY <1>1 DEF Calls
<1>6. Calls' = [Calls EXCEPT ![c] = [pc |-> "done", op |-> o, res |-> v]]
  BY <1>2, <1>3 DEF Calls
<1>7. /\ v = Service!Result(tables[TailServer], o)
      /\ tables'[TailServer] = Service!After(tables[TailServer], o)
  BY <1>4, RequestFields DEF Service!Result, Service!After, TailResult, TailAfter, Applied
<1> QED  BY <1>5, <1>6, <1>7 DEF Service!TakeEffect, Calls

\* A request that is applied on its way to the tail changes nothing for its
\* client; applied at the tail, refused at the head or read, it takes effect.
LEMMA ServeRefines ==
    ASSUME NEW w \in Client, RInv(w), NEW x \in Conn, Serve(x)
    PROVE  Stutters \/ \E c \in Client : Service!TakeEffect(c)
<1> PICK m \in Request : /\ thread[x].pc = "idle" /\ Take(x, m)
                         /\ Applies(w, x, m) \/ Refuses(w, x, m) \/ Reads(x, m)
  BY ServeCases
<1>1. /\ m.by \in Client /\ m.key \in Key
      /\ client'[m.by].pc = "wait" /\ client'[m.by].msg = m
      /\ \A c \in Client : c # m.by => client'[c] = client[c]
      /\ client[m.by].pc \in {"sent", "wait"} /\ client[m.by].msg = m
      /\ effect[m.by] = NULL
      /\ \A c \in Client : c # m.by => effect'[c] = effect[c]
  BY ServeFrame
<1>2. /\ effect \in [Client -> {NULL} \cup [res : Value \cup {NULL, 0, -1}]]
      /\ tables \in [Server -> [Key -> Value \cup {NULL}]]
      /\ TailServer \in Server /\ HeadServer \in Server
      /\ m # NULL /\ \A v \in Value \cup {NULL, 0, -1} : [res |-> v] # NULL
  BY MessageAssumption, ServersAssumption
     DEF RInv, IInv, TypeOK, TailServer, HeadServer, Server
<1>3. CASE Applies(w, x, m) /\ Host(x) # TailServer
  <2>1. effect' = effect /\ tables'[TailServer] = tables[TailServer]
    BY <1>2, <1>3 DEF Applies
  <2>2. \A c \in Client : CallOf(c)' = CallOf(c)
    <3> TAKE c \in Client
    <3>1. CASE c = m.by
      BY <1>1, <1>2, <2>1, <3>1 DEF CallOf
    <3>2. CASE c # m.by
      BY <1>1, <2>1, <3>2 DEF CallOf
    <3> QED  BY <3>1, <3>2
  <2> QED  BY <2>1, <2>2 DEF Stutters, Calls
<1>4. ASSUME NEW v \in Value \cup {NULL, 0, -1}, v = TailResult(m),
             effect'[m.by] = [res |-> v], tables'[TailServer] = TailAfter(m)
      PROVE  Service!TakeEffect(m.by)
  <2>1. \A d \in Client \ {m.by} : client'[d] = client[d] /\ effect'[d] = effect[d]
    BY <1>1
  <2> QED  BY <1>1, <1>2, <1>4, <2>1, EffectStep
<1>5. CASE Applies(w, x, m) /\ Host(x) = TailServer
  <2>1. effect'[m.by] = [res |-> 0] /\ tables'[TailServer] = TailAfter(m)
    BY <1>1, <1>2, <1>5 DEF Applies, TailAfter
  <2>2. TailResult(m) = 0
    BY <1>5, RequestFields DEF Applies, TailResult
  <2> QED  BY <1>1, <1>4, <2>1, <2>2
<1>6. CASE Refuses(w, x, m)
  <2>1. ~Busy(WriteConn(w, HeadServer))
    BY <1>6 DEF Refuses, Busy
  <2>2. tables[TailServer] = tables[HeadServer]
    BY <1>2, <2>1, Rest DEF RInv
  <2>3. effect'[m.by] = [res |-> -1] /\ tables' = tables /\ m.op = "del"
        /\ tables[TailServer][m.key] = NULL
    BY <1>1, <1>2, <1>6, <2>2 DEF Refuses
  <2>4. TailAfter(m) = tables[TailServer]
    BY <1>1, <1>2, <2>3, RequestFields DEF TailAfter, Applied
  <2>5. TailResult(m) = -1
    BY <2>3 DEF TailResult
  <2> QED  BY <1>1, <1>4, <2>3, <2>4, <2>5
<1>7. CASE Reads(x, m)
  <2>1. /\ effect'[m.by] = [res |-> tables[TailServer][m.key]]
        /\ tables' = tables /\ m.op = "get"
    BY <1>1, <1>2, <1>7 DEF Reads
  <2>2. /\ TailResult(m) = tables[TailServer][m.key]
        /\ TailAfter(m) = tables[TailServer]
    BY <2>1 DEF TailResult, TailAfter, Applied
  <2>3. tables[TailServer][m.key] \in Value \cup {NULL}
    BY <1>1, <1>2
  <2> QED  BY <1>1, <1>4, <2>1, <2>2, <2>3
<1> QED  BY <1>3, <1>5, <1>6, <1>7

-----------------------------------------------------------------------------
(* The other steps.                                                        *)

\* Without crashes no server ends.
LEMMA AllUpStep ==
    ASSUME NEW w \in Client, IInv(w), AllUp, MaxCrashes = 0, Next
    PROVE  /\ AllUp'
           /\ \A c \in Client : ~ClientEndOfFile(c)
           /\ \A s \in Server : ~Crash(s)
<1>1. \A c \in Client : ~ClientEndOfFile(c)
  <2> SUFFICES ASSUME NEW c \in Client, ClientEndOfFile(c)
               PROVE  FALSE
    OBVIOUS
  <2>1. client[c].msg # NULL
    BY DEF ClientEndOfFile, IInv, ClientInv
  <2>2. client[c].msg.by = c
    BY <2>1 DEF IInv, ClientInv
  <2>3. ConnOf(client[c].msg) \in {HeadConn(c), TailConn(c)}
    BY <2>2 DEF ConnOf
  <2>4. Host(ConnOf(client[c].msg)) \in Server
    BY <2>3, ConnHosts
  <2> QED  BY <2>4 DEF ClientEndOfFile, AllUp
<1>2. \A s \in Server : ~Crash(s)
  BY DEF Crash, IInv, TypeOK
<1>3. ASSUME NEW x \in Conn, Send(x) \/ Await(x)
      PROVE  up' = up
  <2>1. Host(x) \in Link
    BY <1>3 DEF Send, Await, IInv, ThreadInv
  <2>2. up[Host(x) + 1]
    BY <2>1, WriteConns DEF AllUp
  <2> QED  BY <1>3, <2>2 DEF Send, Await
<1>4. up' = up
  BY <1>1, <1>2, <1>3 DEF Next, Step, Call, Serve, Reply
<1> QED  BY <1>1, <1>2, <1>4 DEF AllUp

\* A write goes down a link.
LEMMA SendRInv ==
    ASSUME NEW w \in Client, RInv(w), NEW x \in Conn, Send(x)
    PROVE  /\ CallInv' /\ ReadInv' /\ WriteInv(w)' /\ AckInv(w)'
           /\ Stutters
<1> DEFINE s == Host(x)
<1>1. /\ thread[x].pc = "send" /\ x = WriteConn(w, s) /\ s \in Link /\ s \in Server
      /\ UNCHANGED <<tables, client, calls, crashes, effect, acked>>
      /\ thread \in [Conn -> ThreadType] /\ req \in [Link -> Seq(Request)]
  BY ConnHosts DEF Send, RInv, IInv, ThreadInv, TypeOK, ThreadType
<1>2. /\ req' = [req EXCEPT ![s] = Append(@, thread[x].msg)]
      /\ thread' = [thread EXCEPT ![x].pc = "wait"] /\ resp' = resp
  BY <1>1, WriteConns DEF Send, RInv, AllUp
<1>3. /\ thread'[x].pc = "wait" /\ thread'[x].msg = thread[x].msg
      /\ \A y \in Conn : y # x => thread'[y] = thread[y]
  BY <1>1, <1>2 DEF ThreadType
<1>4. \A l \in Link : l # s => req'[l] = req[l]
  BY <1>1, <1>2
<1> HIDE DEF s
<1>5. CallInv'
  BY <1>1, <1>3, ConnHosts DEF RInv, CallInv, Busy
<1>6. ReadInv'
  BY <1>1, <1>3, ConnHosts, ReadConns DEF RInv, ReadInv
<1>7. WriteInv(w)'
  <2>1. effect[w] = NULL
    BY <1>1 DEF RInv, WriteInv
  <2> QED  BY <1>1, <1>2, <1>3, <1>4, <2>1, WriteConns DEF RInv, WriteInv
<1>8. AckInv(w)' /\ Stutters
  BY <1>1 DEF RInv, AckInv, Writing, Stutters, Calls, CallOf
<1> QED  BY <1>5, <1>6, <1>7, <1>8

\* An answer comes up a link.
LEMMA AwaitRInv ==
    ASSUME NEW w \in Client, RInv(w), NEW x \in Conn, Await(x)
    PROVE  /\ CallInv' /\ ReadInv' /\ WriteInv(w)' /\ AckInv(w)'
           /\ Stutters
<1> DEFINE s == Host(x)
<1>1. /\ thread[x].pc = "wait" /\ x = WriteConn(w, s) /\ s \in Link /\ s \in Server
      /\ UNCHANGED <<tables, client, calls, crashes, effect, acked>>
      /\ thread \in [Conn -> ThreadType] /\ resp \in [Link -> Seq(Response)]
      /\ thread[x].msg \in Request /\ thread[x].msg.op # "get"
  BY ConnHosts DEF Await, RInv, IInv, ThreadInv, TypeOK, ThreadType
<1>2. /\ resp[s] # <<>> /\ Forwarded(x, Head(resp[s])) /\ req' = req
      /\ resp' = [resp EXCEPT ![s] = Tail(@)]
  BY <1>1, WriteConns DEF Await, RInv, AllUp
<1> HIDE DEF s
<1>3. Head(resp[s]) = Ok(thread[x].msg, NULL) /\ effect[w] = [res |-> 0]
  <2>1. effect[w] = [res |-> 0]
    BY <1>1, <1>2 DEF RInv, WriteInv
  <2>2. Head(resp[s]) = Ok(thread[WriteConn(w, s)].msg, NULL)
    <3>1. LinkOK(thread[WriteConn(w, s)], thread[WriteConn(w, s + 1)],
                 req[s], resp[s], tables[s], tables[s + 1])
      BY <1>1, OneLink DEF RInv
    <3> QED  BY <1>1, <1>2, <3>1, Singleton DEF LinkOK
  <2> QED  BY <1>1, <2>1, <2>2
<1>4. Ok(thread[x].msg, NULL) \in Response /\ RpcResult(thread[x].msg, Ok(thread[x].msg, NULL)) = 0
  BY <1>1, Results
<1>5. /\ \A y \in Conn : y # x => thread'[y] = thread[y]
      /\ thread'[x].pc = "reply" /\ thread'[x].msg = thread[x].msg
      /\ thread'[x].reply = Ok(thread[x].msg, NULL)
  BY <1>1, <1>2, <1>3, <1>4, ForwardedFacts
<1>6. \A l \in Link : resp'[l] # <<>> => resp[l] # <<>>
  BY <1>1, <1>2
<1>7. CallInv'
  BY <1>1, <1>5, ConnHosts DEF RInv, CallInv, Busy
<1>8. ReadInv'
  BY <1>1, <1>5, ConnHosts, ReadConns DEF RInv, ReadInv
<1>9. WriteInv(w)'
  <2>1. ASSUME NEW r \in Server
        PROVE  LET t == thread'[WriteConn(w, r)] IN
               /\ t.pc # "idle" => /\ client[w].pc = "wait"
                                   /\ t.msg = client[w].msg
                                   /\ t.msg.op # "get"
               /\ t.pc = "send" => effect[w] = NULL
               /\ t.pc = "reply" => effect[w] = [res |-> RpcResult(t.msg, t.reply)]
    <3>1. WriteConn(w, r) \in Conn
      BY WriteConns
    <3>2. CASE WriteConn(w, r) = x
      <4>1. thread[x].pc # "idle" => client[w].pc = "wait" /\ thread[x].msg = client[w].msg
        BY <1>1 DEF RInv, WriteInv
      <4> QED  BY <1>1, <1>3, <1>4, <1>5, <3>2, <4>1
    <3>3. CASE WriteConn(w, r) # x
      BY <1>5, <3>1, <3>3 DEF RInv, WriteInv
    <3> QED  BY <3>2, <3>3
  <2> QED  BY <1>1, <1>2, <1>6, <2>1 DEF RInv, WriteInv
<1>10. AckInv(w)' /\ Stutters
  BY <1>1 DEF RInv, AckInv, Writing, Stutters, Calls, CallOf
<1> QED  BY <1>7, <1>8, <1>9, <1>10

\* A thread answers the thread before it.
LEMMA ReplyLinkRInv ==
    ASSUME NEW w \in Client, RInv(w), NEW x \in Conn, Reply(x), x[1] = "link"
    PROVE  /\ CallInv' /\ ReadInv' /\ WriteInv(w)' /\ AckInv(w)'
           /\ Stutters
<1>1. PICK k \in Link : k = x[2] /\ x = LinkConn(k)
  BY ConnHosts
<1>2. /\ thread[x].pc = "reply" /\ thread' = [thread EXCEPT ![x] = Idle]
      /\ UNCHANGED <<tables, up, req, client, calls, crashes, effect, acked>>
      /\ thread \in [Conn -> ThreadType] /\ resp \in [Link -> Seq(Response)]
  BY ConnHosts DEF Reply, RInv, IInv, TypeOK, ThreadType
<1>3. \A l \in Link : l # k => resp'[l] = resp[l]
  BY <1>1, <1>2, ConnHosts DEF Reply
<1>4. x = WriteConn(w, k + 1) /\ k + 1 \in Server /\ k \in Server
  BY <1>1, WriteConns
<1>5. thread'[x].pc = "idle" /\ \A y \in Conn : y # x => thread'[y] = thread[y]
  BY <1>2 DEF Idle
<1>6. effect[w] = [res |-> 0]
  <2>1. effect[w] = [res |-> RpcResult(thread[x].msg, thread[x].reply)]
    BY <1>2, <1>4 DEF RInv, WriteInv
  <2>2. LinkOK(thread[WriteConn(w, k)], thread[x], req[k], resp[k], tables[k], tables[k + 1])
    BY <1>4, OneLink DEF RInv
  <2>3. thread[x].reply = Ok(thread[x].msg, NULL)
    BY <1>2, <2>2 DEF LinkOK
  <2>4. thread[x].msg \in Request /\ thread[x].msg.op # "get"
    BY <1>2, <1>4 DEF RInv, IInv, ThreadInv, WriteInv, TypeOK
  <2> QED  BY <2>1, <2>3, <2>4, Results
<1>7. CallInv'
  BY <1>2, <1>5, ConnHosts DEF RInv, CallInv, Busy
<1>8. ReadInv'
  BY <1>2, <1>5, ConnHosts DEF RInv, ReadInv
<1>9. WriteInv(w)'
  BY <1>2, <1>3, <1>5, <1>6, WriteConns DEF RInv, WriteInv
<1>10. AckInv(w)' /\ Stutters
  BY <1>2 DEF RInv, AckInv, Writing, Stutters, Calls, CallOf
<1> QED  BY <1>7, <1>8, <1>9, <1>10

\* A thread answers its client, with the result that was decided.
LEMMA ReplyClientRInv ==
    ASSUME NEW w \in Client, RInv(w), NEW x \in ClientConn, Reply(x)
    PROVE  /\ CallInv' /\ ReadInv' /\ WriteInv(w)' /\ AckInv(w)'
           /\ Service!Return(x[2])
<1> DEFINE c == x[2]
           m == client[c].msg
           v == RpcResult(thread[x].msg, thread[x].reply)
<1>1. x \in Conn /\ c \in Client /\ x[1] # "link"
  BY ConnHosts
<1>2. /\ thread[x].pc = "reply" /\ thread' = [thread EXCEPT ![x] = Idle]
      /\ UNCHANGED <<tables, up, req, resp, calls, crashes, effect>>
      /\ ClientReturns(c, thread[x].reply)
  BY <1>1 DEF Reply
<1>3. /\ thread \in [Conn -> ThreadType]
      /\ client \in [Client -> [pc : {"idle", "sent", "wait", "down"},
                                msg : Request \cup {NULL},
                                res : Value \cup {NULL, 0, -1}]]
      /\ acked \in [Key -> SUBSET (Value \cup {NULL})]
      /\ effect \in [Client -> {NULL} \cup [res : Value \cup {NULL, 0, -1}]]
      /\ tables \in [Server -> [Key -> Value \cup {NULL}]]
      /\ TailServer \in Server /\ HeadServer \in Server
  BY ServersAssumption DEF RInv, IInv, TypeOK, ThreadType, TailServer, HeadServer, Server
<1>4. client[c].pc = "wait" /\ thread[x].msg = m /\ ConnOf(m) = x
  BY <1>1, <1>2 DEF RInv, CallInv, Busy
<1>5. m \in Request /\ m # NULL /\ m.by = c /\ (m.op # "get" => c = w)
  BY <1>1, <1>3, <1>4, MessageAssumption DEF RInv, IInv, ClientInv
<1>6. v \in Value \cup {NULL, 0, -1} /\ (m.op # "get" => v \in {0, -1})
  BY <1>1, <1>2, <1>4, <1>5, Results DEF RInv, IInv, TypeOK, ThreadInv
<1>7. effect[c] = [res |-> v] /\ effect[c] # NULL
  <2>1. CASE m.op = "get"
    <3>1. x = TailConn(c)
      BY <1>1, <1>4, <2>1, ClientConns DEF ConnOf
    <3> QED  BY <1>1, <1>2, <1>6, <3>1, MessageAssumption DEF RInv, ReadInv
  <2>2. CASE m.op # "get"
    <3>1. c = w /\ x = WriteConn(w, HeadServer)
      BY <1>4, <1>5, <2>2, ClientConns, WriteConns DEF ConnOf
    <3> QED  BY <1>2, <1>3, <1>6, <3>1, MessageAssumption DEF RInv, WriteInv
  <2> QED  BY <2>1, <2>2
<1>8. client' = [client EXCEPT ![c] = [client[c] EXCEPT !.pc = "idle", !.res = v]]
  BY <1>1, <1>2, <1>3, <1>4 DEF ClientReturns
<1> HIDE DEF c, v
<1>9. /\ client'[c].pc = "idle" /\ client'[c].msg = m /\ client'[c].res = v
      /\ \A d \in Client : d # c => client'[d] = client[d]
  BY <1>1, <1>3, <1>8
<1>10. thread'[x].pc = "idle" /\ \A y \in Conn : y # x => thread'[y] = thread[y]
  BY <1>1, <1>2, <1>3 DEF Idle
<1>11. CallInv'
  <2>1. ASSUME NEW y \in ClientConn, thread'[y].pc # "idle"
        PROVE  /\ client'[y[2]].pc = "wait"
               /\ thread'[y].msg = client'[y[2]].msg
               /\ ConnOf(client'[y[2]].msg) = y
    <3>1. y \in Conn /\ y[2] \in Client /\ y # x /\ thread'[y] = thread[y]
      BY <1>10, <2>1, ConnHosts
    <3>2. /\ client[y[2]].pc = "wait" /\ thread[y].msg = client[y[2]].msg
          /\ ConnOf(client[y[2]].msg) = y
      BY <2>1, <3>1 DEF RInv, CallInv, Busy
    <3>3. y[2] # c
      BY <1>4, <3>1, <3>2
    <3> QED  BY <1>9, <3>1, <3>2, <3>3
  <2>2. ASSUME NEW d \in Client
        PROVE  /\ client'[d].pc = "sent" => effect'[d] = NULL
               /\ client'[d].pc # "down"
    BY <1>2, <1>9 DEF RInv, CallInv
  <2> QED  BY <2>1, <2>2 DEF CallInv, Busy
<1>12. ReadInv'
  BY <1>2, <1>10, ConnHosts DEF RInv, ReadInv
<1>13. WriteInv(w)'
  <2>1. CASE m.op # "get"
    <3>1. c = w /\ x = WriteConn(w, HeadServer)
      BY <1>4, <1>5, <2>1, WriteConns DEF ConnOf
    <3>2. thread[WriteConn(w, HeadServer)].pc = "reply"
      BY <1>2, <3>1
    <3>3. \A s \in Server : s # HeadServer => ~Busy(WriteConn(w, s))
      <4> SUFFICES ASSUME NEW s \in Server, s # HeadServer, Busy(WriteConn(w, s))
                   PROVE  FALSE
        OBVIOUS
      <4>1. HeadServer < s
        BY DEF HeadServer, Server
      <4>2. thread[WriteConn(w, HeadServer)].pc = "wait"
        BY <1>3, <4>1, Upstream DEF RInv
      <4> QED  BY <3>2, <4>2
    <3>4. \A l \in Link : req[l] = <<>> /\ resp[l] = <<>>
      <4> TAKE l \in Link
      <4>1. thread[WriteConn(w, l)].pc # "wait"
        BY <3>2, <3>3, WriteConns DEF Busy
      <4> QED  BY <4>1, OneLink DEF RInv
    <3>5. \A s \in Server : thread'[WriteConn(w, s)].pc = "idle"
      BY <1>10, <3>1, <3>3, WriteConns DEF Busy
    <3> QED  BY <1>2, <3>4, <3>5 DEF WriteInv
  <2>2. CASE m.op = "get"
    <3>1. x = TailConn(c)
      BY <1>1, <1>4, <2>2, ClientConns DEF ConnOf, c
    <3>2. \A s \in Server : thread'[WriteConn(w, s)] = thread[WriteConn(w, s)]
      BY <1>1, <1>10, <3>1, ReadConns, WriteConns
    <3>3. \A s \in Server : Busy(WriteConn(w, s)) => c # w
      BY <1>1, <2>2 DEF RInv, WriteInv, Busy
    <3> QED  BY <1>2, <1>9, <3>2, <3>3 DEF RInv, WriteInv, Busy
  <2> QED  BY <2>1, <2>2
<1>14. AckInv(w)'
  <2> SUFFICES ASSUME NEW k \in Key
               PROVE  IF Writing(w, k)' /\ effect'[w] = [res |-> 0]
                      THEN tables'[TailServer][k] = client'[w].msg.value
                      ELSE tables'[TailServer][k] \in acked'[k]
    BY DEF AckInv
  <2>1. IF Writing(w, k) /\ effect[w] = [res |-> 0]
        THEN tables[TailServer][k] = client[w].msg.value
        ELSE tables[TailServer][k] \in acked[k]
    BY DEF RInv, AckInv
  <2>2. CASE m.op = "get"
    <3>1. acked' = acked
      BY <1>2, <2>2 DEF ClientReturns, c
    <3>2. Writing(w, k)' = Writing(w, k)
      BY <1>4, <1>9, <2>2 DEF Writing
    <3>3. client'[w].msg = client[w].msg
      BY <1>9
    <3> QED  BY <1>2, <2>1, <3>1, <3>2, <3>3
  <2>3. CASE m.op # "get"
    <3>1. c = w /\ ~Writing(w, k)' /\ m.key \in Key
      BY <1>5, <1>9, <2>3, RequestFields DEF Writing
    <3>2. Writing(w, k) <=> k = m.key
      BY <1>4, <2>3, <3>1 DEF Writing
    <3>3. CASE v = 0
      <4>1. acked' = [acked EXCEPT ![m.key] = {m.value}]
        BY <1>2, <1>4, <2>3, <3>3 DEF ClientReturns, c, v
      <4>2. k = m.key => tables[TailServer][k] = m.value
        BY <1>7, <2>1, <3>1, <3>2, <3>3
      <4>3. k # m.key => tables[TailServer][k] \in acked[k]
        BY <2>1, <3>2
      <4> QED  BY <1>2, <1>3, <3>1, <4>1, <4>2, <4>3
    <3>4. CASE v = -1
      <4>1. acked' = [acked EXCEPT ![m.key] = @ \cup {m.value}]
        BY <1>2, <1>4, <2>3, <3>4 DEF ClientReturns, c, v
      <4>2. [res |-> -1] # [res |-> 0]
        OBVIOUS
      <4>3. tables[TailServer][k] \in acked[k]
        BY <1>7, <2>1, <3>1, <3>4, <4>2
      <4> QED  BY <1>2, <1>3, <3>1, <4>1, <4>3
    <3> QED  BY <1>6, <2>3, <3>3, <3>4
  <2> QED  BY <2>2, <2>3
<1>15. Service!Return(c)
  <2> DEFINE o == [op |-> m.op, key |-> m.key, value |-> m.value]
  <2>1. effect[c].res = v
    BY <1>7
  <2>2. CallOf(c) = [pc |-> "done", op |-> o, res |-> v]
    BY <1>4, <1>5, <1>7, <2>1 DEF CallOf
  <2>3. CallOf(c)' = [pc |-> "idle", op |-> o, res |-> v]
    BY <1>5, <1>9 DEF CallOf
  <2>4. \A d \in Client : d # c => CallOf(d)' = CallOf(d)
    BY <1>2, <1>9 DEF CallOf
  <2> HIDE DEF o
  <2>5. Calls[c].pc = "done" /\ Calls[c].op = o /\ Calls[c].res = v
    BY <1>1, <2>2 DEF Calls
  <2>6. Calls' = [Calls EXCEPT ![c] = [pc |-> "idle", op |-> o, res |-> v]]
    BY <1>1, <2>3, <2>4 DEF Calls
  <2> QED  BY <1>2, <2>5, <2>6 DEF Service!Return, Calls
<1> QED  BY <1>11, <1>12, <1>13, <1>14, <1>15 DEF c

\* A client calls.
LEMMA CallRInv ==
    ASSUME NEW w \in Client, OnlyWriter(w), RInv(w),
           NEW c \in Client, NEW m \in Request, Call(c, m)
    PROVE  /\ CallInv' /\ ReadInv' /\ WriteInv(w)' /\ AckInv(w)'
           /\ Service!Invoke(c)
<1>1. /\ client[c].pc = "idle" /\ m.by = c
      /\ client' = [client EXCEPT ![c] = [pc |-> "sent", msg |-> m, res |-> NULL]]
      /\ effect' = [effect EXCEPT ![c] = NULL]
      /\ UNCHANGED <<tables, up, thread, req, resp, crashes, acked>>
  BY DEF Call
<1>2. /\ client'[c] = [pc |-> "sent", msg |-> m, res |-> NULL] /\ effect'[c] = NULL
      /\ \A d \in Client : d # c => client'[d] = client[d] /\ effect'[d] = effect[d]
  BY <1>1 DEF RInv, IInv, TypeOK
<1>3. m # NULL /\ [res |-> 0] # NULL
  BY MessageAssumption
<1>4. CallInv'
  <2>1. ASSUME NEW y \in ClientConn, thread[y].pc # "idle"
        PROVE  /\ client'[y[2]].pc = "wait"
               /\ thread[y].msg = client'[y[2]].msg
               /\ ConnOf(client'[y[2]].msg) = y
    <3>1. /\ client[y[2]].pc = "wait" /\ thread[y].msg = client[y[2]].msg
          /\ ConnOf(client[y[2]].msg) = y /\ y[2] \in Client
      BY <2>1, ConnHosts DEF RInv, CallInv, Busy
    <3> QED  BY <1>1, <1>2, <3>1
  <2>2. ASSUME NEW d \in Client
        PROVE  /\ client'[d].pc = "sent" => effect'[d] = NULL
               /\ client'[d].pc # "down"
    BY <1>2 DEF RInv, CallInv
  <2> QED  BY <1>1, <2>1, <2>2 DEF CallInv, Busy
<1>5. ReadInv'
  <2> SUFFICES ASSUME NEW d \in Client, thread[TailConn(d)].pc = "reply"
               PROVE  effect'[d] = [res |-> RpcResult(thread[TailConn(d)].msg,
                                                      thread[TailConn(d)].reply)]
    BY <1>1 DEF ReadInv
  <2>1. client[d].pc = "wait"
    BY ClientConns DEF RInv, CallInv, Busy
  <2> QED  BY <1>1, <1>2, <2>1 DEF RInv, ReadInv
<1>6. WriteInv(w)'
  <2>1. CASE c # w
    BY <1>1, <1>2, <2>1 DEF RInv, WriteInv
  <2>2. CASE c = w
    <3>1. \A s \in Server : ~Busy(WriteConn(w, s))
      BY <1>1, <2>2 DEF RInv, WriteInv, Busy
    <3>2. HeadServer \in Server
      BY ServersAssumption DEF HeadServer, Server
    <3>3. \A l \in Link : req[l] = <<>> /\ resp[l] = <<>>
      BY <3>1, <3>2, Rest DEF RInv
    <3> QED  BY <1>1, <3>1, <3>3 DEF WriteInv, Busy
  <2> QED  BY <2>1, <2>2
<1>7. AckInv(w)'
  <2>1. CASE c # w
    BY <1>1, <1>2, <2>1 DEF RInv, AckInv, Writing
  <2>2. CASE c = w
    BY <1>1, <1>2, <1>3, <2>2 DEF RInv, AckInv, Writing
  <2> QED  BY <2>1, <2>2
<1>8. Service!Invoke(c)
  <2> DEFINE o == [op |-> m.op, key |-> m.key, value |-> m.value]
  <2>1. o \in Service!Op
    BY DEF Service!Op, Request
  <2>2. CallOf(c).pc = "idle"
    BY <1>1 DEF CallOf
  <2>3. CallOf(c)' = [pc |-> "called", op |-> o, res |-> NULL]
    BY <1>2, <1>3 DEF CallOf
  <2>4. \A d \in Client : d # c => CallOf(d)' = CallOf(d)
    BY <1>2 DEF CallOf
  <2> HIDE DEF o
  <2>5. Calls[c].pc = "idle"
    BY <2>2 DEF Calls
  <2>6. Calls' = [Calls EXCEPT ![c] = [pc |-> "called", op |-> o, res |-> NULL]]
    BY <2>3, <2>4 DEF Calls
  <2> QED  BY <1>1, <2>1, <2>5, <2>6 DEF Service!Invoke, Calls
<1> QED  BY <1>4, <1>5, <1>6, <1>7, <1>8

-----------------------------------------------------------------------------
(* The theorems.                                                           *)

\* The chain starts empty and idle, and so does the service.
LEMMA InitRInv ==
    ASSUME NEW w \in Client, Init
    PROVE  RInv(w) /\ Service!Init
<1>1. IInv(w) /\ AllUp
  BY InitIInv DEF Init, AllUp
<1>2. CallInv /\ ReadInv
  BY ConnHosts DEF Init, CallInv, ReadInv, Busy, Idle, NoCall
<1>3. WriteInv(w)
  <2>1. \A s \in Server : thread[WriteConn(w, s)].pc = "idle"
    BY WriteConns DEF Init, Idle
  <2> QED  BY <2>1 DEF Init, WriteInv
<1>4. AckInv(w)
  BY ServersAssumption DEF Init, AckInv, Writing, NoCall, TailServer, Server
<1>5. Service!Init
  <2>1. \A c \in Client : CallOf(c) = [pc |-> "idle", op |-> NULL, res |-> NULL]
    BY DEF Init, CallOf, NoCall
  <2> QED  BY <2>1, ServersAssumption
           DEF Init, Service!Init, Service!NoCall, TailServer, Server
<1> QED  BY <1>1, <1>2, <1>3, <1>4, <1>5 DEF RInv

\* Each step keeps the invariant and is a step of the service, or none.
LEMMA StepRInv ==
    ASSUME NEW w \in Client, OnlyWriter(w), MaxCrashes = 0, RInv(w), IInv(w)', [Next]_vars
    PROVE  RInv(w)' /\ [Service!Next]_(Service!vars)
<1>1. CASE UNCHANGED vars
  <2>1. RInv(w)'
    BY <1>1 DEF RInv, vars, AllUp, CallInv, ReadInv, WriteInv, AckInv, Writing, Busy
  <2>2. UNCHANGED Service!vars
    BY <1>1 DEF vars, Service!vars, CallOf
  <2> QED  BY <2>1, <2>2
<1>2. CASE Next
  <2>1. /\ AllUp'
        /\ \A c \in Client : ~ClientEndOfFile(c)
        /\ \A s \in Server : ~Crash(s)
    BY <1>2, AllUpStep DEF RInv
  <2>2. Stutters => UNCHANGED Service!vars
    BY DEF Stutters, Calls, Service!vars
  <2> SUFFICES /\ CallInv' /\ ReadInv' /\ WriteInv(w)' /\ AckInv(w)'
               /\ Service!Next \/ Stutters
    BY <2>1, <2>2 DEF RInv
  <2>3. ASSUME NEW c \in Client, NEW m \in Request, Call(c, m)
        PROVE  /\ CallInv' /\ ReadInv' /\ WriteInv(w)' /\ AckInv(w)'
               /\ Service!Next
    BY <2>3, CallRInv DEF Service!Next
  <2>4. ASSUME NEW x \in Conn, Serve(x)
        PROVE  /\ CallInv' /\ ReadInv' /\ WriteInv(w)' /\ AckInv(w)'
               /\ Service!Next \/ Stutters
    BY <2>4, ServeCallInv, ServeReadInv, ServeWriteInv, ServeAckInv, ServeRefines
       DEF Service!Next
  <2>5. ASSUME NEW x \in Conn, Send(x)
        PROVE  /\ CallInv' /\ ReadInv' /\ WriteInv(w)' /\ AckInv(w)'
               /\ Stutters
    BY <2>5, SendRInv
  <2>6. ASSUME NEW x \in Conn, Await(x)
        PROVE  /\ CallInv' /\ ReadInv' /\ WriteInv(w)' /\ AckInv(w)'
               /\ Stutters
    BY <2>6, AwaitRInv
  <2>7. ASSUME NEW x \in Conn, Reply(x)
        PROVE  /\ CallInv' /\ ReadInv' /\ WriteInv(w)' /\ AckInv(w)'
               /\ Service!Next \/ Stutters
    <3>1. CASE x[1] = "link"
      BY <2>7, <3>1, ReplyLinkRInv
    <3>2. CASE x[1] # "link"
      <4>1. x \in ClientConn /\ x[2] \in Client
        BY <3>2, ConnHosts
      <4> QED  BY <2>7, <4>1, ReplyClientRInv DEF Service!Next
    <3> QED  BY <3>1, <3>2
  <2> QED  BY <1>2, <2>1, <2>3, <2>4, <2>5, <2>6, <2>7 DEF Next, Step
<1> QED  BY <1>1, <1>2

\* The invariant of the chain without crashes.
LEMMA InductiveR ==
    ASSUME NEW w \in Client, OnlyWriter(w), MaxCrashes = 0
    PROVE  Spec => []RInv(w)
<1>1. Init => RInv(w)
  BY InitRInv
<1>2. RInv(w) /\ IInv(w)' /\ [Next]_vars => RInv(w)'
  BY StepRInv
<1> QED  BY <1>1, <1>2, Inductive, PTL DEF Spec

\* Without crashes and with one writing client no client can tell the chain from
\* one table: each call takes effect at one moment between its invocation and
\* its return, and returns what the table gives at that moment, however many
\* servers and readers there are (client_stub.h:28-43, table_skel.c:60-140).
THEOREM ChainRefinesService ==
    ASSUME NEW w \in Client, OnlyWriter(w), MaxCrashes = 0
    PROVE  Spec => ImplementsKVService
<1>1. Init => Service!Init
  BY InitRInv
<1>2. RInv(w) /\ IInv(w)' /\ [Next]_vars => [Service!Next]_(Service!vars)
  BY StepRInv
<1> QED  BY <1>1, <1>2, InductiveR, Inductive, PTL DEF Spec, ImplementsKVService, Service!Spec

\* What was acknowledged is what the tail serves (client_stub.h:28-43).
THEOREM AcknowledgedIsServed ==
    ASSUME NEW w \in Client, OnlyWriter(w), MaxCrashes = 0
    PROVE  Spec => []AckedAtTail
<1>1. RInv(w) => AckedAtTail
  <2> SUFFICES ASSUME RInv(w), NEW k \in Key, NEW c \in Client,
                      \A d \in Client : k \in MayWrite[d] <=> d = c,
                      ~(/\ client[c].pc # "idle"
                        /\ client[c].msg.op # "get"
                        /\ client[c].msg.key = k)
               PROVE  tables[TailServer][k] \in acked[k]
    BY DEF AckedAtTail
  <2>1. c = w
    BY DEF OnlyWriter
  <2> QED  BY <2>1 DEF RInv, AckInv, Writing
<1> QED  BY <1>1, InductiveR, PTL

\* When the chain is quiet its head and its tail have the same keys, so that a
\* del at the head finds what a get at the tail finds.
THEOREM HeadAndTailAgree ==
    ASSUME NEW w \in Client, OnlyWriter(w), MaxCrashes = 0
    PROVE  Spec => []HeadTailAgree
<1>1. RInv(w) => HeadTailAgree
  <2> SUFFICES ASSUME RInv(w), Quiet
               PROVE  tables[TailServer] = tables[HeadServer]
    BY DEF HeadTailAgree
  <2>1. HeadServer \in Server /\ TailServer \in Server
    BY ServersAssumption DEF HeadServer, TailServer, Server
  <2>2. ~Busy(WriteConn(w, HeadServer))
    BY <2>1, WriteConns DEF Quiet, Busy
  <2> QED  BY <2>1, <2>2, Rest DEF RInv
<1> QED  BY <1>1, InductiveR, PTL
=============================================================================
