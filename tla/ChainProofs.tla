---------------------------- MODULE ChainProofs ----------------------------
(***************************************************************************)
(* Theorems about Chain.tla, for every number of servers, every set of     *)
(* clients and keys and any number of crashes, when one client writes:     *)
(* the type invariant, the agreement of neighbours, that no request is     *)
(* forwarded twice to a server that is alive, and that what was            *)
(* acknowledged survives before the first server that has ended.           *)
(*                                                                         *)
(* The argument is local to a link.  The one thread of server l that uses  *)
(* link l waits for the response to its request, so of the thread, the     *)
(* link and the one thread of server l + 1 that serves the link, exactly   *)
(* one holds the request (LinkInv).                                        *)
(***************************************************************************)
EXTENDS Chain, SequenceTheorems, WellFoundedInduction, TLAPS

\* The one connection of server s on which writes arrive when w writes.
WriteConn(w, s) == IF s = HeadServer THEN HeadConn(w) ELSE LinkConn(s - 1)

\* Only client w writes.
OnlyWriter(w) == \A c \in Client \ {w} : MayWrite[c] = {}

-----------------------------------------------------------------------------
(* The inductive invariant.                                                *)

\* A client that called has a call of its own, and writes only if it is w.
ClientInv(w) ==
    \A c \in Client :
        /\ client[c].pc # "idle" => client[c].msg # NULL
        /\ client[c].msg # NULL => /\ client[c].msg.by = c
                                   /\ client[c].msg.op # "get" => c = w

\* What a thread holds when it is at work; only those that serve a WriteConn
\* ever forward, and those of the tail never do.
ThreadInv(w) ==
    \A x \in Conn :
        LET t == thread[x] IN
        /\ t.pc = "dead" <=> ~up[Host(x)]
        /\ t.pc \in {"send", "wait", "reply"} => t.msg # NULL
        /\ t.pc = "reply" => t.reply # NULL
        /\ t.pc \in {"reply", "send", "wait"} /\ x \in ClientConn
              => client[x[2]].msg # NULL
        /\ t.pc \in {"send", "wait"} => /\ Host(x) \in Link
                                        /\ t.msg.op # "get"
        /\ t.pc \in {"send", "wait"} \/ t.retries > 0
              => x = WriteConn(w, Host(x)) /\ Host(x) \in Link
        /\ t.pc = "dead" => t.retries = 0

\* Server l has applied m to table a and has not been answered; server l + 1,
\* with table b, has not applied it, and will not refuse it.
Pending(m, a, b) ==
    /\ a = Applied(b, m)
    /\ m.op = "del" => b[m.key] # NULL

\* A link between two servers that are up: t is the thread that writes to it
\* and reads its responses, n the one that serves it, q and p the requests and
\* responses on it, a and b the tables of the two servers.
LinkOK(t, n, q, p, a, b) ==
    /\ t.retries = 0
    /\ \/ /\ t.pc \in {"idle", "reply"}
          /\ n.pc = "idle" /\ q = <<>> /\ p = <<>>
          /\ a = b
       \/ /\ t.pc = "send"
          /\ n.pc = "idle" /\ q = <<>> /\ p = <<>>
          /\ Pending(t.msg, a, b)
       \/ /\ t.pc = "wait"
          /\ n.pc = "idle" /\ q = <<t.msg>> /\ p = <<>>
          /\ Pending(t.msg, a, b)
       \/ /\ t.pc = "wait"
          /\ n.pc \in {"send", "wait", "reply"} /\ q = <<>> /\ p = <<>>
          /\ n.msg = t.msg
          /\ n.pc = "reply" => n.reply = Ok(n.msg, NULL)
          /\ a = b
       \/ /\ t.pc = "wait"
          /\ n.pc = "idle" /\ q = <<>> /\ p = <<Ok(t.msg, NULL)>>
          /\ a = b

LinkInv(w) ==
    \A l \in Link : up[l] /\ up[l + 1] =>
        LinkOK(thread[WriteConn(w, l)], thread[LinkConn(l)],
               req[l], resp[l], tables[l], tables[l + 1])

IInv(w) == TypeOK /\ ClientInv(w) /\ ThreadInv(w) /\ LinkInv(w)

-----------------------------------------------------------------------------
(* Lemmas about connections, messages and results.                         *)

\* Each connection is served by one server (network_server.c, client_handler).
LEMMA ConnHosts ==
    /\ \A x \in Conn : Host(x) \in Server
    /\ \A c \in Client : /\ HeadConn(c) \in Conn /\ Host(HeadConn(c)) = HeadServer
                         /\ TailConn(c) \in Conn /\ Host(TailConn(c)) = TailServer
    /\ \A l \in Link : LinkConn(l) \in Conn /\ Host(LinkConn(l)) = l + 1
    /\ \A x \in ClientConn : x \in Conn /\ x[2] \in Client
    /\ \A x \in Conn : x[1] = "link" => x[2] \in Link /\ x = LinkConn(x[2])
    /\ \A x \in ClientConn : x[1] # "link"
    /\ \A x \in Conn : x[1] # "link" => x \in ClientConn
BY ServersAssumption
   DEF Conn, ClientConn, Host, HeadConn, TailConn, LinkConn, Server, Link,
       HeadServer, TailServer

\* The write connections: one of each server, and those of the links.
LEMMA WriteConns ==
    ASSUME NEW w \in Client
    PROVE  /\ \A s \in Server : WriteConn(w, s) \in Conn /\ Host(WriteConn(w, s)) = s
           /\ \A l \in Link : WriteConn(w, l + 1) = LinkConn(l)
           /\ \A l \in Link : l \in Server /\ l + 1 \in Server /\ l # l + 1
           /\ WriteConn(w, HeadServer) = HeadConn(w)
           /\ \A s \in Server \ {HeadServer} : s - 1 \in Link
<1>1. \A l \in Link : l \in Server /\ l + 1 \in Server /\ l # l + 1 /\ l + 1 # HeadServer
  BY ServersAssumption DEF Link, Server, HeadServer
<1>2. \A s \in Server \ {HeadServer} : s - 1 \in Link /\ s - 1 + 1 = s
  BY ServersAssumption DEF Link, Server, HeadServer
<1>3. \A s \in Server : WriteConn(w, s) \in Conn /\ Host(WriteConn(w, s)) = s
  <2> TAKE s \in Server
  <2>1. CASE s = HeadServer
    BY <2>1, ConnHosts DEF WriteConn
  <2>2. CASE s # HeadServer
    BY <2>2, <1>2, ConnHosts DEF WriteConn
  <2> QED  BY <2>1, <2>2
<1>4. \A l \in Link : WriteConn(w, l + 1) = LinkConn(l)
  <2> TAKE l \in Link
  <2>1. l + 1 # HeadServer /\ l \in Int
    BY <1>1 DEF Link
  <2> QED  BY <2>1, SMT DEF WriteConn
<1> QED  BY <1>1, <1>2, <1>3, <1>4 DEF WriteConn

\* Connections of different clients and of the two kinds are different.
LEMMA ClientConns ==
    /\ \A c \in Client : /\ HeadConn(c) \in ClientConn /\ HeadConn(c)[2] = c
                         /\ TailConn(c) \in ClientConn /\ TailConn(c)[2] = c
    /\ \A c, d \in Client : /\ HeadConn(c) # TailConn(d)
                            /\ TailConn(c) = TailConn(d) => c = d
                            /\ HeadConn(c) = HeadConn(d) => c = d
    /\ \A c \in Client : \A l \in Link : TailConn(c) # LinkConn(l)
    /\ \A c \in Client : \A l \in Link : HeadConn(c) # LinkConn(l)
    /\ \A m : ConnOf(m)[2] = m.by
<1>1. \A m : ConnOf(m)[2] = m.by
  BY DEF HeadConn, TailConn, ConnOf
<1> QED  BY <1>1 DEF HeadConn, TailConn, LinkConn, ClientConn

\* The fields of a request.
LEMMA RequestFields ==
    ASSUME NEW m \in Request
    PROVE  /\ m.op \in {"put", "del", "get"} /\ m.key \in Key /\ m.by \in Client
           /\ m.value \in Value \cup {NULL}
           /\ m.op = "put" => m.value \in Value
           /\ m.op # "put" => m.value = NULL
BY DEF Request

\* The messages a server answers with, and what a caller makes of them.
LEMMA Results ==
    /\ \A m \in Request : \A v \in Value \cup {NULL} : Ok(m, v) \in Response
    /\ Error \in Response /\ Bad \in Response
    /\ \A m \in Request : \A r \in Response :
          /\ RpcResult(m, r) \in Value \cup {NULL, 0, -1}
          /\ m.op # "get" => RpcResult(m, r) \in {0, -1}
    /\ \A m \in Request : m.op # "get" => RpcResult(m, Ok(m, NULL)) = 0
BY DEF Request, Response, Ok, Error, Bad, RpcResult

\* The table after a request.
LEMMA AppliedType ==
    ASSUME NEW d \in [Key -> Value \cup {NULL}], NEW m \in Request
    PROVE  Applied(d, m) \in [Key -> Value \cup {NULL}]
BY RequestFields DEF Applied

-----------------------------------------------------------------------------
(* The type invariant.                                                     *)

\* The chain starts with empty tables, idle threads and empty connections.
LEMMA InitIInv ==
    ASSUME NEW w \in Client, Init
    PROVE  IInv(w)
<1> USE DEF Init
<1>1. TypeOK
  BY BoundsAssumption DEF TypeOK, Idle, NoCall, ThreadPc
<1>2. ClientInv(w)
  BY DEF ClientInv, NoCall
<1>3. ThreadInv(w)
  <2> USE DEF ThreadInv
  <2> TAKE x \in Conn
  <2>1. thread[x] = Idle /\ up[Host(x)]
    BY ConnHosts
  <2>2. /\ thread[x].pc = "idle" /\ thread[x].retries = 0
        /\ ~(thread[x].retries > 0)
    BY <2>1 DEF Idle
  <2> QED  BY <2>1, <2>2
<1>4. LinkInv(w)
  <2> USE DEF LinkInv
  <2> TAKE l \in Link
  <2>1. thread[WriteConn(w, l)] = Idle /\ thread[LinkConn(l)] = Idle
    BY WriteConns, ConnHosts
  <2>2. tables[l] = tables[l + 1] /\ req[l] = <<>> /\ resp[l] = <<>>
    BY WriteConns
  <2> QED  BY <2>1, <2>2 DEF LinkOK, Idle
<1> QED  BY <1>1, <1>2, <1>3, <1>4 DEF IInv

-----------------------------------------------------------------------------
(* How a step of either thread changes what a link is about.               *)

ThreadType == [pc : ThreadPc, msg : Request \cup {NULL}, reply : Response \cup {NULL},
               retries : 0 .. MaxRetries - 1]
SendOf(m) == [pc |-> "send", msg |-> m, reply |-> NULL, retries |-> 0]
ReplyOf(m, r) == [pc |-> "reply", msg |-> m, reply |-> r, retries |-> 0]

\* Queues of one element.
LEMMA Singleton ==
    ASSUME NEW e
    PROVE  /\ <<e>> # <<>> /\ Head(<<e>>) = e /\ Tail(<<e>>) = <<>>
           /\ Append(<<>>, e) = <<e>>
<1>1. <<e>> \in Seq({e}) /\ <<e>> # <<>> /\ Len(<<e>>) = 1
  OBVIOUS
<1>2. Head(<<e>>) = e /\ Len(Tail(<<e>>)) = 0 /\ Tail(<<e>>) \in Seq({e})
  BY <1>1, HeadTailProperties
<1>3. Tail(<<e>>) = <<>>
  BY <1>2, EmptySeq
<1> QED  BY <1>1, <1>2, <1>3

\* The thread of server l has applied a request and will forward it.
LEMMA LinkStart ==
    ASSUME NEW t, NEW n, NEW q, NEW p, NEW a, NEW b, NEW m \in Request,
           LinkOK(t, n, q, p, a, b), t.pc = "idle",
           m.op = "del" => a[m.key] # NULL
    PROVE  LinkOK(SendOf(m), n, q, p, Applied(a, m), b)
BY DEF LinkOK, SendOf, Pending

\* It answers at once instead.
LEMMA LinkRefuse ==
    ASSUME NEW t, NEW n, NEW q, NEW p, NEW a, NEW b, NEW m, NEW r,
           LinkOK(t, n, q, p, a, b), t.pc = "idle"
    PROVE  LinkOK(ReplyOf(m, r), n, q, p, a, b)
BY DEF LinkOK, ReplyOf

\* It writes the request.
LEMMA LinkSend ==
    ASSUME NEW t \in ThreadType, NEW n, NEW q, NEW p, NEW a, NEW b,
           LinkOK(t, n, q, p, a, b), t.pc = "send"
    PROVE  LinkOK([t EXCEPT !.pc = "wait"], n, Append(q, t.msg), p, a, b)
<1> DEFINE u == [t EXCEPT !.pc = "wait"]
<1>1. u.pc = "wait" /\ u.msg = t.msg /\ u.retries = t.retries
  BY DEF ThreadType
<1>2. Append(<<>>, t.msg) = <<t.msg>>
  OBVIOUS
<1> HIDE DEF u
<1>3. LinkOK(u, n, Append(q, t.msg), p, a, b)
  BY <1>1, <1>2 DEF LinkOK
<1> QED  BY <1>3 DEF u

\* The thread of server l + 1 takes the request: it is the one under way, and
\* server l + 1 will not refuse it.
LEMMA LinkTake ==
    ASSUME NEW t, NEW n, NEW q, NEW p, NEW a, NEW b,
           LinkOK(t, n, q, p, a, b), q # <<>>
    PROVE  /\ t.pc = "wait" /\ Head(q) = t.msg /\ Tail(q) = <<>> /\ p = <<>>
           /\ Pending(t.msg, a, b)
           /\ t.retries = 0
BY Singleton DEF LinkOK

\* The thread of server l + 1 has applied it.
LEMMA LinkServe ==
    ASSUME NEW t, NEW n, NEW q, NEW p, NEW a, NEW b, NEW u,
           LinkOK(t, n, q, p, a, b), q # <<>>,
           u \in {SendOf(t.msg), ReplyOf(t.msg, Ok(t.msg, NULL))}
    PROVE  LinkOK(t, u, Tail(q), p, a, Applied(b, t.msg))
<1>1. u.pc \in {"send", "reply"} /\ u.msg = t.msg
  BY DEF SendOf, ReplyOf
<1>2. u.pc = "reply" => u.reply = Ok(t.msg, NULL)
  BY DEF SendOf, ReplyOf
<1>3. /\ t.pc = "wait" /\ Tail(q) = <<>> /\ p = <<>> /\ t.retries = 0
      /\ a = Applied(b, t.msg)
  BY LinkTake DEF Pending
<1> QED  BY <1>1, <1>2, <1>3 DEF LinkOK

\* The thread of server l + 1 goes on with it: it waits for the response, tries
\* again, or answers as it must.
LEMMA LinkNext ==
    ASSUME NEW t, NEW n, NEW q, NEW p, NEW a, NEW b, NEW u,
           LinkOK(t, n, q, p, a, b), n.pc \in {"send", "wait"},
           u.pc \in {"send", "wait", "reply"}, u.msg = n.msg,
           u.pc = "reply" => u.reply = Ok(n.msg, NULL)
    PROVE  LinkOK(t, u, q, p, a, b)
BY DEF LinkOK

\* The thread of server l + 1 answers.
LEMMA LinkAnswered ==
    ASSUME NEW t, NEW n, NEW q, NEW p, NEW a, NEW b,
           LinkOK(t, n, q, p, a, b), n.pc = "reply"
    PROVE  LinkOK(t, Idle, q, Append(p, n.reply), a, b)
<1>1. Append(<<>>, n.reply) = <<n.reply>>
  OBVIOUS
<1>2. Idle.pc = "idle"
  BY DEF Idle
<1> QED  BY <1>1, <1>2 DEF LinkOK

\* The thread of server l reads the answer: there is one, it is a success, and
\* the thread answers in its turn.
LEMMA LinkResponse ==
    ASSUME NEW t, NEW n, NEW q, NEW p, NEW a, NEW b, NEW u,
           LinkOK(t, n, q, p, a, b), t.pc = "wait", p # <<>>
    PROVE  /\ Head(p) = Ok(t.msg, NULL)
           /\ u.pc = "reply" /\ u.retries = 0 => LinkOK(u, n, q, Tail(p), a, b)
BY Singleton DEF LinkOK

\* The thread of server l has answered.
LEMMA LinkDone ==
    ASSUME NEW t, NEW n, NEW q, NEW p, NEW a, NEW b,
           LinkOK(t, n, q, p, a, b), t.pc = "reply"
    PROVE  LinkOK(Idle, n, q, p, a, b)
<1>1. Idle.pc = "idle" /\ Idle.retries = 0
  BY DEF Idle
<1> QED  BY <1>1 DEF LinkOK

-----------------------------------------------------------------------------
(* Each step keeps the invariant.                                          *)

\* A call of a client.
LEMMA CallIInv ==
    ASSUME NEW w \in Client, OnlyWriter(w), IInv(w),
           NEW c \in Client, NEW m \in Request, Call(c, m)
    PROVE  IInv(w)'
<1> USE DEF IInv, Call
<1>1. TypeOK'
  BY BoundsAssumption DEF TypeOK
<1>2. ClientInv(w)'
  <2>1. m # NULL /\ m.by = c /\ (m.op # "get" => c = w)
    BY MessageAssumption, WriteAssumption DEF OnlyWriter
  <2> QED  BY <2>1 DEF ClientInv, TypeOK
<1>3. ThreadInv(w)'
  <2>1. m # NULL
    BY MessageAssumption
  <2> QED  BY <2>1 DEF ThreadInv, TypeOK
<1>4. LinkInv(w)'
  BY DEF LinkInv
<1> QED  BY <1>1, <1>2, <1>3, <1>4

\* What the return of a call leaves of the variables of the clients.
LEMMA ReturnTypes ==
    ASSUME NEW w \in Client, IInv(w), NEW c \in Client, client[c].msg # NULL,
           NEW r \in Response, ClientReturns(c, r)
    PROVE  /\ client' \in [Client -> [pc : {"idle", "sent", "wait", "down"},
                                      msg : Request \cup {NULL},
                                      res : Value \cup {NULL, 0, -1}]]
           /\ acked' \in [Key -> SUBSET (Value \cup {NULL})]
           /\ \A d \in Client : client'[d].msg = client[d].msg
           /\ ClientInv(w)'
<1> DEFINE m == client[c].msg
           res == RpcResult(m, r)
<1>1. m \in Request /\ res \in Value \cup {NULL, 0, -1}
  BY Results DEF IInv, TypeOK
<1>2. m.key \in Key /\ m.value \in Value \cup {NULL}
  BY <1>1, RequestFields
<1>3. client' = [client EXCEPT ![c] = [client[c] EXCEPT !.pc = "idle", !.res = res]]
  BY DEF ClientReturns, IInv, TypeOK
<1>4. client' \in [Client -> [pc : {"idle", "sent", "wait", "down"},
                              msg : Request \cup {NULL},
                              res : Value \cup {NULL, 0, -1}]]
  <2> HIDE DEF res
  <2>1. client[c] \in [pc : {"idle", "sent", "wait", "down"},
                       msg : Request \cup {NULL},
                       res : Value \cup {NULL, 0, -1}]
    BY DEF IInv, TypeOK
  <2>2. [client[c] EXCEPT !.pc = "idle", !.res = res]
           \in [pc : {"idle", "sent", "wait", "down"},
                msg : Request \cup {NULL},
                res : Value \cup {NULL, 0, -1}]
    BY <1>1, <2>1
  <2> QED  BY <1>3, <2>2 DEF IInv, TypeOK
<1>5. acked' \in [Key -> SUBSET (Value \cup {NULL})]
  <2>1. \/ acked' = acked
        \/ acked' = [acked EXCEPT ![m.key] = {m.value}]
        \/ acked' = [acked EXCEPT ![m.key] = @ \cup {m.value}]
    BY DEF ClientReturns
  <2>2. acked \in [Key -> SUBSET (Value \cup {NULL})]
    BY DEF IInv, TypeOK
  <2> HIDE DEF m
  <2> QED  BY <1>2, <2>1, <2>2
<1>6. \A d \in Client : client'[d].msg = client[d].msg
  BY <1>3 DEF IInv, TypeOK
<1>7. \A d \in Client : client'[d].pc # "idle" => client[d].pc # "idle"
  BY <1>3 DEF IInv, TypeOK
<1> QED  BY <1>4, <1>5, <1>6, <1>7 DEF IInv, ClientInv

\* The end of a server, for everything but the clients' variables.
LEMMA DieIInv ==
    ASSUME NEW w \in Client, IInv(w), NEW s \in Server, Die(s), tables' = tables,
           \A d \in Client : client'[d].msg = client[d].msg
    PROVE  /\ up' \in [Server -> BOOLEAN]
           /\ thread' \in [Conn -> [pc : ThreadPc, msg : Request \cup {NULL},
                                    reply : Response \cup {NULL},
                                    retries : 0 .. MaxRetries - 1]]
           /\ req' \in [Link -> Seq(Request)]
           /\ resp' \in [Link -> Seq(Response)]
           /\ ThreadInv(w)'
           /\ LinkInv(w)'
<1> USE DEF IInv
<1>1. /\ up' \in [Server -> BOOLEAN]
      /\ \A l \in Server : up'[l] <=> up[l] /\ l # s
  BY DEF Die, TypeOK
<1>2. /\ req' \in [Link -> Seq(Request)]
      /\ resp' \in [Link -> Seq(Response)]
      /\ \A l \in Link : l + 1 # s => req'[l] = req[l]
      /\ \A l \in Link : l # s => resp'[l] = resp[l]
  BY DEF Die, TypeOK
<1>3. /\ \A x \in Conn : Host(x) # s => thread'[x] = thread[x]
      /\ \A x \in Conn : Host(x) = s => thread'[x] = Dead
  BY DEF Die
<1>4. thread' \in [Conn -> [pc : ThreadPc, msg : Request \cup {NULL},
                            reply : Response \cup {NULL},
                            retries : 0 .. MaxRetries - 1]]
  BY BoundsAssumption DEF Die, TypeOK, Dead, ThreadPc
<1>5. ThreadInv(w)'
  <2> USE DEF ThreadInv
  <2> TAKE x \in Conn
  <2>1. CASE Host(x) = s
    <3>1. thread'[x] = Dead /\ ~up'[Host(x)]
      BY <1>1, <1>3, <2>1, ConnHosts
    <3> QED  BY <3>1 DEF Dead
  <2>2. CASE Host(x) # s
    <3>1. thread'[x] = thread[x] /\ (up'[Host(x)] <=> up[Host(x)])
      BY <1>1, <1>3, <2>2, ConnHosts
    <3>2. x \in ClientConn => client'[x[2]].msg = client[x[2]].msg
      BY ConnHosts
    <3> QED  BY <3>1, <3>2
  <2> QED  BY <2>1, <2>2
<1>6. LinkInv(w)'
  <2> SUFFICES ASSUME NEW l \in Link, up'[l], up'[l + 1]
               PROVE  LinkOK(thread[WriteConn(w, l)], thread[LinkConn(l)],
                             req[l], resp[l], tables[l], tables[l + 1])'
    BY DEF LinkInv
  <2>1. up[l] /\ up[l + 1] /\ l # s /\ l + 1 # s
    BY <1>1, WriteConns
  <2>2. /\ thread'[WriteConn(w, l)] = thread[WriteConn(w, l)]
        /\ thread'[LinkConn(l)] = thread[LinkConn(l)]
    BY <1>3, <2>1, WriteConns, ConnHosts
  <2>3. req'[l] = req[l] /\ resp'[l] = resp[l]
    BY <1>2, <2>1
  <2> QED  BY <2>1, <2>2, <2>3 DEF LinkInv
<1> QED  BY <1>1, <1>2, <1>4, <1>5, <1>6

\* A client whose server is lost: only its own variables change.
LEMMA ClientEndOfFileIInv ==
    ASSUME NEW w \in Client, IInv(w), NEW c \in Client, ClientEndOfFile(c)
    PROVE  IInv(w)'
<1> USE DEF IInv
<1>1. client[c].msg # NULL
  BY DEF ClientEndOfFile, ClientInv
<1>2. /\ client' \in [Client -> [pc : {"idle", "sent", "wait", "down"},
                                 msg : Request \cup {NULL},
                                 res : Value \cup {NULL, 0, -1}]]
      /\ acked' \in [Key -> SUBSET (Value \cup {NULL})]
      /\ \A d \in Client : client'[d].msg = client[d].msg
      /\ ClientInv(w)'
  <2>1. CASE ClientReturns(c, Bad)
    BY <1>1, <2>1, ReturnTypes, Results
  <2>2. CASE client' = [client EXCEPT ![c].pc = "down"] /\ UNCHANGED acked
    <3>1. client \in [Client -> [pc : {"idle", "sent", "wait", "down"},
                                 msg : Request \cup {NULL},
                                 res : Value \cup {NULL, 0, -1}]]
      BY DEF TypeOK
    <3>2. /\ client' \in [Client -> [pc : {"idle", "sent", "wait", "down"},
                                     msg : Request \cup {NULL},
                                     res : Value \cup {NULL, 0, -1}]]
          /\ \A d \in Client : client'[d].msg = client[d].msg
          /\ \A d \in Client : client'[d].pc # "idle" => client[d].pc # "idle" \/ d = c
      BY <2>2, <3>1
    <3> QED  BY <1>1, <2>2, <3>2 DEF TypeOK, ClientInv
  <2> QED  BY <2>1, <2>2 DEF ClientEndOfFile
<1>3. TypeOK'
  BY <1>2 DEF TypeOK, ClientEndOfFile
<1>4. ThreadInv(w)'
  BY <1>2, ConnHosts DEF ThreadInv, ClientEndOfFile
<1>5. LinkInv(w)'
  BY DEF LinkInv, ClientEndOfFile
<1> QED  BY <1>2, <1>3, <1>4, <1>5

\* A server that crashes of itself.
LEMMA CrashIInv ==
    ASSUME NEW w \in Client, IInv(w), NEW s \in Server, Crash(s)
    PROVE  IInv(w)'
<1> USE DEF IInv
<1>1. /\ UNCHANGED <<tables, client, calls, effect, acked>>
      /\ crashes' = crashes + 1 /\ crashes < MaxCrashes /\ Die(s)
  BY DEF Crash
<1>2. /\ up' \in [Server -> BOOLEAN]
      /\ thread' \in [Conn -> [pc : ThreadPc, msg : Request \cup {NULL},
                               reply : Response \cup {NULL},
                               retries : 0 .. MaxRetries - 1]]
      /\ req' \in [Link -> Seq(Request)]
      /\ resp' \in [Link -> Seq(Response)]
      /\ ThreadInv(w)' /\ LinkInv(w)'
  BY <1>1, DieIInv
<1>3. TypeOK'
  BY <1>1, <1>2, BoundsAssumption DEF TypeOK
<1>4. ClientInv(w)'
  BY <1>1 DEF ClientInv
<1> QED  BY <1>2, <1>3, <1>4

\* What a thread takes from its connection: a write only from a WriteConn.
LEMMA TakeFacts ==
    ASSUME NEW w \in Client, IInv(w), NEW x \in Conn, NEW m \in Request,
           thread[x].pc = "idle", Take(x, m)
    PROVE  /\ client' \in [Client -> [pc : {"idle", "sent", "wait", "down"},
                                      msg : Request \cup {NULL},
                                      res : Value \cup {NULL, 0, -1}]]
           /\ \A c \in Client : client'[c].msg = client[c].msg
           /\ ClientInv(w)'
           /\ req' \in [Link -> Seq(Request)]
           /\ \A l \in Link : x # LinkConn(l) => req'[l] = req[l]
           /\ \A l \in Link : x = LinkConn(l) => /\ req[l] # <<>> /\ m = Head(req[l])
                                                 /\ req'[l] = Tail(req[l])
           /\ m.op # "get" => x = WriteConn(w, Host(x))
           /\ x \in ClientConn => client[x[2]].msg # NULL
<1> USE DEF IInv
<1>1. CASE /\ x \in ClientConn
           /\ client[x[2]].pc = "sent"
           /\ ConnOf(client[x[2]].msg) = x
           /\ m = client[x[2]].msg
           /\ client' = [client EXCEPT ![x[2]].pc = "wait"]
           /\ UNCHANGED req
  <2> DEFINE c == x[2]
  <2>1. c \in Client /\ \A l \in Link : x # LinkConn(l)
    BY <1>1, ConnHosts DEF LinkConn
  <2>2. client \in [Client -> [pc : {"idle", "sent", "wait", "down"},
                               msg : Request \cup {NULL},
                               res : Value \cup {NULL, 0, -1}]]
    BY DEF TypeOK
  <2> HIDE DEF c
  <2>3. /\ client' \in [Client -> [pc : {"idle", "sent", "wait", "down"},
                                   msg : Request \cup {NULL},
                                   res : Value \cup {NULL, 0, -1}]]
        /\ \A d \in Client : client'[d].msg = client[d].msg
        /\ \A d \in Client : client'[d].pc # "idle" => client[d].pc # "idle"
    <3>1. client' = [client EXCEPT ![c].pc = "wait"] /\ client[c].pc = "sent"
      BY <1>1 DEF c
    <3> QED  BY <2>1, <2>2, <3>1
  <2>4. m # NULL /\ client[c].msg # NULL
    BY <1>1, MessageAssumption DEF c
  <2>5. m.op # "get" => m.by = w /\ x = HeadConn(w)
    <3>1. m.by = c /\ (m.op # "get" => c = w)
      BY <1>1, <2>1, <2>4 DEF ClientInv, c
    <3> QED  BY <1>1, <3>1 DEF ConnOf
  <2>6. x = HeadConn(w) => x = WriteConn(w, Host(x))
    BY ConnHosts, WriteConns
  <2>7. ClientInv(w)'
    BY <2>3 DEF ClientInv
  <2> QED  BY <1>1, <2>1, <2>3, <2>4, <2>5, <2>6, <2>7 DEF TypeOK, c
<1>2. CASE /\ x[1] = "link"
           /\ req[x[2]] # <<>>
           /\ m = Head(req[x[2]])
           /\ req' = [req EXCEPT ![x[2]] = Tail(@)]
           /\ UNCHANGED client
  <2>1. PICK k \in Link : k = x[2] /\ x = LinkConn(k)
    BY <1>2, ConnHosts
  <2>2. x = WriteConn(w, Host(x)) /\ x \notin ClientConn
    BY <1>2, <2>1, ConnHosts, WriteConns
  <2>3. \A l \in Link : x = LinkConn(l) <=> l = k
    BY <2>1 DEF LinkConn
  <2>4. req \in [Link -> Seq(Request)] /\ Tail(req[k]) \in Seq(Request)
    BY <1>2, <2>1, HeadTailProperties DEF TypeOK
  <2>5. /\ req' \in [Link -> Seq(Request)]
        /\ \A l \in Link : l # k => req'[l] = req[l]
        /\ req'[k] = Tail(req[k])
    BY <1>2, <2>1, <2>4
  <2> QED  BY <1>2, <2>1, <2>2, <2>3, <2>5 DEF TypeOK, ClientInv
<1> QED  BY <1>1, <1>2 DEF Take

\* What the local operation does: it applies a write and passes it on, or
\* answers and leaves the table alone.
LEMMA LocalFacts ==
    ASSUME NEW w \in Client, IInv(w), NEW x \in Conn, NEW m \in Request,
           \/ LocalPut(x, m, Host(x))
           \/ LocalDel(x, m, Host(x))
           \/ LocalGet(x, m, Host(x))
    PROVE  /\ effect' \in [Client -> {NULL} \cup [res : Value \cup {NULL, 0, -1}]]
           /\ \/ /\ m.op # "get"
                 /\ m.op = "del" => tables[Host(x)][m.key] # NULL
                 /\ tables' = [tables EXCEPT ![Host(x)] = Applied(@, m)]
                 /\ thread' = [thread EXCEPT ![x] =
                                 IF Host(x) = TailServer
                                 THEN ReplyOf(m, Ok(m, NULL)) ELSE SendOf(m)]
              \/ /\ m.op = "get" \/ (m.op = "del" /\ tables[Host(x)][m.key] = NULL)
                 /\ tables' = tables
                 /\ \E r \in Response : thread' = [thread EXCEPT ![x] = ReplyOf(m, r)]
<1> DEFINE s == Host(x)
<1>1. s \in Server /\ m.key \in Key /\ m.by \in Client
  BY ConnHosts, RequestFields
<1>2. tables[s][m.key] \in Value \cup {NULL}
  BY <1>1 DEF IInv, TypeOK
<1> HIDE DEF s
<1>3. ASSUME NEW decided, NEW res \in Value \cup {NULL, 0, -1}, Decide(m, decided, res)
      PROVE  effect' \in [Client -> {NULL} \cup [res : Value \cup {NULL, 0, -1}]]
  BY <1>1, <1>3 DEF Decide, IInv, TypeOK
<1>4. CASE LocalPut(x, m, s)
  <2>1. /\ tables' = [tables EXCEPT ![s] = Applied(@, m)]
        /\ thread' = [thread EXCEPT ![x] =
                        IF s = TailServer THEN ReplyOf(m, Ok(m, NULL)) ELSE SendOf(m)]
        /\ m.op = "put"
    BY <1>4 DEF LocalPut, Forward, ReplyOf, SendOf, Applied, s
  <2>2. effect' \in [Client -> {NULL} \cup [res : Value \cup {NULL, 0, -1}]]
    BY <1>3, <1>4 DEF LocalPut
  <2> QED  BY <2>1, <2>2 DEF s
<1>5. CASE LocalDel(x, m, s) /\ tables[s][m.key] # NULL
  <2>1. /\ tables' = [tables EXCEPT ![s] = Applied(@, m)]
        /\ thread' = [thread EXCEPT ![x] =
                        IF s = TailServer THEN ReplyOf(m, Ok(m, NULL)) ELSE SendOf(m)]
        /\ m.op = "del"
    BY <1>5, RequestFields DEF LocalDel, Forward, ReplyOf, SendOf, Applied, s
  <2>2. effect' \in [Client -> {NULL} \cup [res : Value \cup {NULL, 0, -1}]]
    BY <1>3, <1>5 DEF LocalDel
  <2> QED  BY <1>5, <2>1, <2>2 DEF s
<1>6. CASE LocalDel(x, m, s) /\ tables[s][m.key] = NULL
  <2>1. /\ tables' = tables /\ m.op = "del"
        /\ thread' = [thread EXCEPT ![x] = ReplyOf(m, Error)]
    BY <1>6 DEF LocalDel, Answer, ReplyOf
  <2>2. effect' \in [Client -> {NULL} \cup [res : Value \cup {NULL, 0, -1}]]
    BY <1>3, <1>6 DEF LocalDel
  <2> QED  BY <1>6, <2>1, <2>2, Results DEF s
<1>7. CASE LocalGet(x, m, s)
  <2>1. /\ tables' = tables /\ m.op = "get"
        /\ thread' = [thread EXCEPT ![x] =
                        ReplyOf(m, IF tables[s][m.key] = NULL
                                   THEN Error ELSE Ok(m, tables[s][m.key]))]
    BY <1>7 DEF LocalGet, Answer, ReplyOf
  <2>2. effect' \in [Client -> {NULL} \cup [res : Value \cup {NULL, 0, -1}]]
    BY <1>2, <1>3, <1>7 DEF LocalGet
  <2>3. (IF tables[s][m.key] = NULL THEN Error ELSE Ok(m, tables[s][m.key])) \in Response
    BY <1>2, Results
  <2> QED  BY <2>1, <2>2, <2>3 DEF s
<1> QED  BY <1>4, <1>5, <1>6, <1>7 DEF s

\* A thread takes a request and carries out its local operation.
LEMMA ServeIInv ==
    ASSUME NEW w \in Client, IInv(w), NEW x \in Conn, Serve(x)
    PROVE  IInv(w)'
<1> USE DEF IInv
<1> DEFINE s == Host(x)
<1>1. PICK m \in Request : /\ Take(x, m)
                           /\ \/ LocalPut(x, m, s)
                              \/ LocalDel(x, m, s)
                              \/ LocalGet(x, m, s)
  BY DEF Serve
<1>2. thread[x].pc = "idle" /\ UNCHANGED <<up, resp, calls, crashes, acked>>
  BY DEF Serve
<1>3. /\ client' \in [Client -> [pc : {"idle", "sent", "wait", "down"},
                                 msg : Request \cup {NULL},
                                 res : Value \cup {NULL, 0, -1}]]
      /\ \A c \in Client : client'[c].msg = client[c].msg
      /\ ClientInv(w)'
      /\ req' \in [Link -> Seq(Request)]
      /\ \A l \in Link : x # LinkConn(l) => req'[l] = req[l]
      /\ \A l \in Link : x = LinkConn(l) => /\ req[l] # <<>> /\ m = Head(req[l])
                                            /\ req'[l] = Tail(req[l])
      /\ m.op # "get" => x = WriteConn(w, s)
      /\ x \in ClientConn => client[x[2]].msg # NULL
  BY <1>1, <1>2, TakeFacts
<1>4. effect' \in [Client -> {NULL} \cup [res : Value \cup {NULL, 0, -1}]]
  BY <1>1, LocalFacts
<1>5. \/ /\ m.op # "get"
         /\ m.op = "del" => tables[s][m.key] # NULL
         /\ tables' = [tables EXCEPT ![s] = Applied(@, m)]
         /\ thread' = [thread EXCEPT ![x] =
                         IF s = TailServer
                         THEN ReplyOf(m, Ok(m, NULL)) ELSE SendOf(m)]
      \/ /\ m.op = "get" \/ (m.op = "del" /\ tables[s][m.key] = NULL)
         /\ tables' = tables
         /\ \E r \in Response : thread' = [thread EXCEPT ![x] = ReplyOf(m, r)]
  BY <1>1, LocalFacts
<1>6. s \in Server /\ up[s] /\ m # NULL
  BY <1>2, ConnHosts, MessageAssumption DEF ThreadInv
<1>7. PICK t \in {SendOf(m)} \cup {ReplyOf(m, r) : r \in Response} :
         /\ thread' = [thread EXCEPT ![x] = t]
         /\ t.pc = "send" => s # TailServer /\ m.op # "get"
  <2>1. Ok(m, NULL) \in Response
    BY Results
  <2>2. SendOf(m).pc = "send" /\ \A r \in Response : ReplyOf(m, r).pc = "reply"
    BY DEF SendOf, ReplyOf
  <2> QED  BY <1>5, <2>1, <2>2
<1>8. /\ t \in ThreadType /\ t.pc \in {"send", "reply"} /\ t.msg = m /\ t.retries = 0
      /\ t.pc = "reply" => t.reply # NULL
  BY <1>7, BoundsAssumption, MessageAssumption DEF ThreadType, SendOf, ReplyOf, ThreadPc
<1>9. thread' \in [Conn -> ThreadType] /\ thread'[x] = t
      /\ \A y \in Conn : y # x => thread'[y] = thread[y]
  BY <1>7, <1>8 DEF TypeOK, ThreadType
<1> HIDE DEF s
<1>10. TypeOK'
  <2>1. tables' \in [Server -> [Key -> Value \cup {NULL}]]
    <3>1. Applied(tables[s], m) \in [Key -> Value \cup {NULL}]
      BY <1>6, AppliedType DEF TypeOK
    <3> QED  BY <1>5, <1>6, <3>1 DEF TypeOK
  <2> QED  BY <1>2, <1>3, <1>4, <1>9, <2>1 DEF TypeOK, ThreadType
<1>11. ThreadInv(w)'
  <2> USE DEF ThreadInv
  <2> TAKE y \in Conn
  <2>1. y \in ClientConn => client'[y[2]].msg = client[y[2]].msg
    BY <1>3, ConnHosts
  <2>2. CASE y = x
    <3>1. t.pc = "send" => /\ x = WriteConn(w, Host(x)) /\ Host(x) \in Link
                           /\ t.msg.op # "get"
      <4>1. s # TailServer => s \in Link
        BY <1>6, ServersAssumption DEF Server, Link, TailServer
      <4> QED  BY <1>3, <1>7, <1>8, <4>1 DEF s
    <3>2. thread'[y] = t /\ up'[Host(y)] /\ ~(t.retries > 0)
      BY <1>2, <1>6, <1>8, <1>9, <2>2 DEF s
    <3> QED  BY <1>3, <1>6, <1>8, <2>1, <2>2, <3>1, <3>2
  <2>3. CASE y # x
    BY <1>2, <1>9, <2>1, <2>3
  <2> QED  BY <2>2, <2>3
<1>12. LinkInv(w)'
  <2> SUFFICES ASSUME NEW l \in Link, up[l], up[l + 1]
               PROVE  LinkOK(thread'[WriteConn(w, l)], thread'[LinkConn(l)],
                             req'[l], resp[l], tables'[l], tables'[l + 1])
    BY <1>2 DEF LinkInv
  <2>1. LinkOK(thread[WriteConn(w, l)], thread[LinkConn(l)],
               req[l], resp[l], tables[l], tables[l + 1])
    BY DEF LinkInv
  <2>2. /\ WriteConn(w, l) \in Conn /\ Host(WriteConn(w, l)) = l
        /\ LinkConn(l) \in Conn /\ Host(LinkConn(l)) = l + 1
        /\ l \in Server /\ l + 1 \in Server /\ l # l + 1
    BY WriteConns, ConnHosts
  <2>3. CASE x = WriteConn(w, l)
    <3>1. s = l /\ x # LinkConn(l) /\ s # TailServer
      BY <2>2, <2>3 DEF s, Link, TailServer
    <3>2. /\ thread'[WriteConn(w, l)] = t /\ thread'[LinkConn(l)] = thread[LinkConn(l)]
          /\ req'[l] = req[l] /\ tables'[l + 1] = tables[l + 1]
      BY <1>3, <1>5, <1>9, <2>2, <2>3, <3>1 DEF TypeOK
    <3>3. CASE m.op # "get" /\ tables' = [tables EXCEPT ![s] = Applied(@, m)]
               /\ t = SendOf(m) /\ (m.op = "del" => tables[s][m.key] # NULL)
      <4>1. tables'[l] = Applied(tables[l], m)
        BY <2>2, <3>1, <3>3 DEF TypeOK
      <4> QED  BY <1>2, <2>1, <2>3, <3>1, <3>2, <3>3, <4>1, LinkStart
    <3>4. CASE tables' = tables /\ \E r \in Response : t = ReplyOf(m, r)
      BY <1>2, <2>1, <2>3, <3>2, <3>4, LinkRefuse
    <3> QED  BY <1>5, <1>9, <3>1, <3>3, <3>4 DEF TypeOK
  <2>4. CASE x = LinkConn(l)
    <3>1. s = l + 1 /\ x # WriteConn(w, l) /\ req[l] # <<>>
          /\ m = Head(req[l]) /\ req'[l] = Tail(req[l])
      BY <1>3, <2>2, <2>4 DEF s
    <3>2. /\ thread'[LinkConn(l)] = t
          /\ thread'[WriteConn(w, l)] = thread[WriteConn(w, l)]
          /\ tables'[l] = tables[l]
      BY <1>5, <1>9, <2>2, <2>4, <3>1 DEF TypeOK
    <3>3. /\ m = thread[WriteConn(w, l)].msg
          /\ thread[WriteConn(w, l)].pc = "wait"
          /\ m.op = "del" => tables[s][m.key] # NULL
      BY <2>1, <3>1, LinkTake DEF Pending
    <3>4. m.op # "get"
      BY <2>2, <3>3 DEF ThreadInv
    <3>5. /\ tables'[l + 1] = Applied(tables[l + 1], m)
          /\ t \in {SendOf(m), ReplyOf(m, Ok(m, NULL))}
      BY <1>5, <1>9, <2>2, <3>1, <3>3, <3>4 DEF TypeOK
    <3> QED  BY <2>1, <3>1, <3>2, <3>3, <3>5, LinkServe
  <2>5. CASE x # WriteConn(w, l) /\ x # LinkConn(l)
    <3>1. tables'[l] = tables[l] /\ tables'[l + 1] = tables[l + 1]
      <4>1. CASE tables' = tables
        BY <4>1
      <4>2. CASE m.op # "get" /\ tables' = [tables EXCEPT ![s] = Applied(@, m)]
        <5>1. x = WriteConn(w, s) /\ s # l /\ s # l + 1
          BY <1>3, <2>2, <2>5, <4>2, WriteConns
        <5> QED  BY <2>2, <4>2, <5>1 DEF TypeOK
      <4> QED  BY <1>5, <4>1, <4>2
    <3> QED  BY <1>3, <1>9, <2>1, <2>2, <2>5, <3>1
  <2> QED  BY <2>3, <2>4, <2>5
<1> QED  BY <1>3, <1>10, <1>11, <1>12

\* A thread forwards its request.
LEMMA SendIInv ==
    ASSUME NEW w \in Client, IInv(w), NEW x \in Conn, Send(x)
    PROVE  IInv(w)'
<1> USE DEF IInv
<1> DEFINE s == Host(x)
<1>1. /\ thread[x].pc = "send" /\ thread[x] \in ThreadType
      /\ UNCHANGED <<tables, client, calls, crashes, effect, acked>>
  BY DEF Send, TypeOK, ThreadType
<1>2. /\ s \in Link /\ s \in Server /\ x = WriteConn(w, s) /\ up[s]
      /\ thread[x].msg \in Request
  BY <1>1, ConnHosts DEF ThreadInv, TypeOK
<1>3. ClientInv(w)'
  BY <1>1 DEF ClientInv
<1>4. CASE Die(s)
  <2>1. /\ up' \in [Server -> BOOLEAN]
        /\ thread' \in [Conn -> [pc : ThreadPc, msg : Request \cup {NULL},
                                 reply : Response \cup {NULL},
                                 retries : 0 .. MaxRetries - 1]]
        /\ req' \in [Link -> Seq(Request)]
        /\ resp' \in [Link -> Seq(Response)]
        /\ ThreadInv(w)' /\ LinkInv(w)'
    BY <1>1, <1>2, <1>4, DieIInv
  <2>2. TypeOK'
    BY <1>1, <2>1 DEF TypeOK
  <2> QED  BY <1>3, <2>1, <2>2
<1>5. CASE /\ thread' = [thread EXCEPT ![x].pc = "wait"]
           /\ UNCHANGED <<up, resp>>
           /\ \/ up[s + 1] /\ req' = [req EXCEPT ![s] = Append(@, thread[x].msg)]
              \/ ~up[s + 1] /\ UNCHANGED req
  <2> DEFINE t == [thread[x] EXCEPT !.pc = "wait"]
  <2>1. /\ t \in ThreadType /\ t.pc = "wait" /\ t.msg = thread[x].msg
        /\ t.retries = thread[x].retries
    BY <1>1 DEF ThreadType, ThreadPc
  <2>2. thread' \in [Conn -> ThreadType] /\ thread'[x] = t
        /\ \A y \in Conn : y # x => thread'[y] = thread[y]
    BY <1>5, <2>1 DEF TypeOK, ThreadType
  <2>3. /\ req' \in [Link -> Seq(Request)]
        /\ \A l \in Link : l # s => req'[l] = req[l]
        /\ up[s + 1] => req'[s] = Append(req[s], thread[x].msg)
    <3>1. Append(req[s], thread[x].msg) \in Seq(Request)
      BY <1>2, AppendProperties DEF TypeOK
    <3> QED  BY <1>2, <1>5, <3>1 DEF TypeOK
  <2> HIDE DEF t
  <2>4. TypeOK'
    BY <1>1, <1>5, <2>2, <2>3 DEF TypeOK, ThreadType
  <2>5. ThreadInv(w)'
    <3> USE DEF ThreadInv
    <3> TAKE y \in Conn
    <3>1. CASE y = x
      BY <1>1, <1>2, <1>5, <2>1, <2>2, <3>1
    <3>2. CASE y # x
      BY <1>1, <1>5, <2>2, <3>2
    <3> QED  BY <3>1, <3>2
  <2>6. LinkInv(w)'
    <3> SUFFICES ASSUME NEW l \in Link, up[l], up[l + 1]
                 PROVE  LinkOK(thread'[WriteConn(w, l)], thread'[LinkConn(l)],
                               req'[l], resp[l], tables[l], tables[l + 1])
      BY <1>1, <1>5 DEF LinkInv
    <3>1. LinkOK(thread[WriteConn(w, l)], thread[LinkConn(l)],
                 req[l], resp[l], tables[l], tables[l + 1])
      BY DEF LinkInv
    <3>2. /\ WriteConn(w, l) \in Conn /\ Host(WriteConn(w, l)) = l
          /\ LinkConn(l) \in Conn /\ Host(LinkConn(l)) = l + 1
          /\ l # l + 1
      BY WriteConns, ConnHosts
    <3>3. CASE l = s
      <4>1. /\ thread'[WriteConn(w, l)] = t
            /\ thread'[LinkConn(l)] = thread[LinkConn(l)]
            /\ req'[l] = Append(req[l], thread[x].msg)
        BY <1>2, <2>2, <2>3, <3>2, <3>3
      <4> QED  BY <1>1, <1>2, <3>1, <3>3, <4>1, LinkSend DEF t
    <3>4. CASE l + 1 = s
      <4>1. x = LinkConn(l) /\ x # WriteConn(w, l) /\ l # s
        BY <1>2, <3>2, <3>4, WriteConns
      <4>2. /\ thread'[WriteConn(w, l)] = thread[WriteConn(w, l)]
            /\ thread'[LinkConn(l)] = t /\ req'[l] = req[l]
        BY <2>2, <2>3, <3>2, <4>1
      <4> QED  BY <1>1, <2>1, <3>1, <4>1, <4>2, LinkNext
    <3>5. CASE l # s /\ l + 1 # s
      <4>1. x # WriteConn(w, l) /\ x # LinkConn(l)
        BY <3>2, <3>5
      <4> QED  BY <2>2, <2>3, <3>1, <3>2, <3>5, <4>1
    <3> QED  BY <3>3, <3>4, <3>5
  <2> QED  BY <1>3, <2>4, <2>5, <2>6
<1> QED  BY <1>4, <1>5 DEF Send

\* What a thread makes of a response: it tries again, or answers a success.
LEMMA ForwardedFacts ==
    ASSUME NEW x \in Conn, NEW r \in Response, thread \in [Conn -> ThreadType],
           thread[x].msg \in Request, Forwarded(x, r)
    PROVE  /\ thread' \in [Conn -> ThreadType]
           /\ \A y \in Conn : y # x => thread'[y] = thread[y]
           /\ thread'[x].pc \in {"send", "reply"}
           /\ thread'[x].msg = thread[x].msg
           /\ thread'[x].pc = "reply" => /\ thread'[x].reply = Ok(thread[x].msg, NULL)
                                         /\ thread'[x].retries = thread[x].retries
           /\ RpcResult(thread[x].msg, r) = 0 => thread'[x].pc = "reply"
<1> DEFINE again == RpcResult(thread[x].msg, r) = -1 /\ thread[x].retries + 1 < MaxRetries
           ok == Ok(thread[x].msg, NULL)
<1>1. thread' = [thread EXCEPT ![x] =
                   IF again
                   THEN [thread[x] EXCEPT !.pc = "send", !.retries = @ + 1]
                   ELSE [thread[x] EXCEPT !.pc = "reply", !.reply = ok]]
  BY DEF Forwarded
<1>2. ok \in Response /\ thread[x] \in ThreadType
  BY Results
<1>3. RpcResult(thread[x].msg, r) = 0 => ~again
  OBVIOUS
<1>4. CASE again
  <2>1. thread[x].retries + 1 \in 0 .. MaxRetries - 1
    BY <1>2, <1>4, BoundsAssumption DEF ThreadType
  <2> HIDE DEF again
  <2>2. [thread[x] EXCEPT !.pc = "send", !.retries = @ + 1] \in ThreadType
    BY <1>2, <2>1 DEF ThreadType, ThreadPc
  <2>3. thread' = [thread EXCEPT ![x] =
                     [thread[x] EXCEPT !.pc = "send", !.retries = @ + 1]]
    BY <1>1, <1>4
  <2> QED  BY <1>2, <1>3, <1>4, <2>2, <2>3 DEF ThreadType
<1>5. CASE ~again
  <2> HIDE DEF again, ok
  <2>1. [thread[x] EXCEPT !.pc = "reply", !.reply = ok] \in ThreadType
    BY <1>2 DEF ThreadType, ThreadPc
  <2>2. thread' = [thread EXCEPT ![x] =
                     [thread[x] EXCEPT !.pc = "reply", !.reply = ok]]
    BY <1>1, <1>5
  <2> QED  BY <1>2, <2>1, <2>2 DEF ThreadType, ok
<1> QED  BY <1>4, <1>5

\* A thread that waits reads a response, or the end of its connection.
LEMMA AwaitIInv ==
    ASSUME NEW w \in Client, IInv(w), NEW x \in Conn, Await(x)
    PROVE  IInv(w)'
<1> USE DEF IInv
<1> DEFINE s == Host(x)
<1>1. /\ thread[x].pc = "wait" /\ thread \in [Conn -> ThreadType]
      /\ UNCHANGED <<tables, client, calls, crashes, effect, acked>>
  BY DEF Await, TypeOK, ThreadType
<1>2. /\ s \in Link /\ s \in Server /\ x = WriteConn(w, s) /\ up[s]
      /\ thread[x].msg \in Request /\ thread[x].msg.op # "get"
  BY <1>1, ConnHosts DEF ThreadInv, TypeOK
<1>3. ClientInv(w)'
  BY <1>1 DEF ClientInv
<1>4. CASE Die(s)
  <2>1. /\ up' \in [Server -> BOOLEAN]
        /\ thread' \in [Conn -> [pc : ThreadPc, msg : Request \cup {NULL},
                                 reply : Response \cup {NULL},
                                 retries : 0 .. MaxRetries - 1]]
        /\ req' \in [Link -> Seq(Request)]
        /\ resp' \in [Link -> Seq(Response)]
        /\ ThreadInv(w)' /\ LinkInv(w)'
    BY <1>1, <1>2, <1>4, DieIInv
  <2>2. TypeOK'
    BY <1>1, <2>1 DEF TypeOK
  <2> QED  BY <1>3, <2>1, <2>2
<1>5. ASSUME NEW r \in Response, Forwarded(x, r), UNCHANGED <<up, req>>,
             \/ /\ resp[s] # <<>> /\ r = Head(resp[s])
                /\ resp' = [resp EXCEPT ![s] = Tail(@)]
             \/ ~up[s + 1] /\ UNCHANGED resp
      PROVE  IInv(w)'
  <2>1. /\ thread' \in [Conn -> ThreadType]
        /\ \A y \in Conn : y # x => thread'[y] = thread[y]
        /\ thread'[x].pc \in {"send", "reply"}
        /\ thread'[x].msg = thread[x].msg
        /\ thread'[x].pc = "reply" => /\ thread'[x].reply = Ok(thread[x].msg, NULL)
                                      /\ thread'[x].retries = thread[x].retries
        /\ RpcResult(thread[x].msg, r) = 0 => thread'[x].pc = "reply"
    BY <1>1, <1>2, <1>5, ForwardedFacts
  <2>2. /\ resp' \in [Link -> Seq(Response)]
        /\ \A l \in Link : l # s => resp'[l] = resp[l]
        /\ up[s + 1] => /\ resp[s] # <<>> /\ r = Head(resp[s])
                        /\ resp'[s] = Tail(resp[s])
    <3>1. resp[s] # <<>> => Tail(resp[s]) \in Seq(Response)
      BY <1>2, HeadTailProperties DEF TypeOK
    <3> QED  BY <1>2, <1>5, <3>1 DEF TypeOK
  <2>3. TypeOK'
    BY <1>1, <1>5, <2>1, <2>2 DEF TypeOK, ThreadType
  <2>4. ThreadInv(w)'
    <3> USE DEF ThreadInv
    <3> TAKE y \in Conn
    <3>1. CASE y = x
      <4>1. Ok(thread[x].msg, NULL) # NULL
        BY <1>2, Results, MessageAssumption
      <4>2. thread'[x].msg # NULL
        BY <1>2, <2>1, MessageAssumption
      <4> QED  BY <1>1, <1>2, <1>5, <2>1, <3>1, <4>1, <4>2
    <3>2. CASE y # x
      BY <1>1, <1>5, <2>1, <3>2
    <3> QED  BY <3>1, <3>2
  <2>5. LinkInv(w)'
    <3> SUFFICES ASSUME NEW l \in Link, up[l], up[l + 1]
                 PROVE  LinkOK(thread'[WriteConn(w, l)], thread'[LinkConn(l)],
                               req[l], resp'[l], tables[l], tables[l + 1])
      BY <1>1, <1>5 DEF LinkInv
    <3>1. LinkOK(thread[WriteConn(w, l)], thread[LinkConn(l)],
                 req[l], resp[l], tables[l], tables[l + 1])
      BY DEF LinkInv
    <3>2. /\ WriteConn(w, l) \in Conn /\ Host(WriteConn(w, l)) = l
          /\ LinkConn(l) \in Conn /\ Host(LinkConn(l)) = l + 1
          /\ l # l + 1
      BY WriteConns, ConnHosts
    <3>3. CASE l = s
      <4>1. thread'[LinkConn(l)] = thread[LinkConn(l)]
        BY <1>2, <2>1, <3>2, <3>3
      <4>2. r = Ok(thread[x].msg, NULL) /\ thread[x].retries = 0
        BY <1>1, <1>2, <2>2, <3>1, <3>3, LinkResponse DEF LinkOK
      <4>3. thread'[x].pc = "reply" /\ thread'[x].retries = 0
        BY <1>2, <2>1, <4>2, Results
      <4>4. /\ WriteConn(w, l) = x /\ resp[l] # <<>> /\ resp'[l] = Tail(resp[l])
            /\ thread[WriteConn(w, l)].pc = "wait"
        BY <1>1, <1>2, <2>2, <3>3
      <4> HIDE DEF s
      <4>5. LinkOK(thread'[x], thread[LinkConn(l)], req[l], Tail(resp[l]),
                   tables[l], tables[l + 1])
        BY <3>1, <4>3, <4>4, LinkResponse
      <4> QED  BY <4>1, <4>4, <4>5
    <3>4. CASE l + 1 = s
      <4>1. x = LinkConn(l) /\ x # WriteConn(w, l) /\ l # s
        BY <1>2, <3>2, <3>4, WriteConns
      <4>2. thread'[WriteConn(w, l)] = thread[WriteConn(w, l)] /\ resp'[l] = resp[l]
        BY <2>1, <2>2, <3>2, <4>1
      <4> QED  BY <1>1, <2>1, <3>1, <4>1, <4>2, LinkNext
    <3>5. CASE l # s /\ l + 1 # s
      <4>1. x # WriteConn(w, l) /\ x # LinkConn(l)
        BY <3>2, <3>5
      <4> QED  BY <2>1, <2>2, <3>1, <3>2, <3>5, <4>1
    <3> QED  BY <3>3, <3>4, <3>5
  <2> QED  BY <1>3, <2>3, <2>4, <2>5
<1>6. resp[s] # <<>> => Head(resp[s]) \in Response
  BY <1>2, HeadTailProperties DEF TypeOK
<1> QED  BY <1>4, <1>5, <1>6, Results DEF Await

\* A thread answers.
LEMMA ReplyIInv ==
    ASSUME NEW w \in Client, IInv(w), NEW x \in Conn, Reply(x)
    PROVE  IInv(w)'
<1> USE DEF IInv
<1> DEFINE s == Host(x)
<1>1. /\ thread[x].pc = "reply" /\ thread' = [thread EXCEPT ![x] = Idle]
      /\ UNCHANGED <<tables, up, req, calls, crashes, effect>>
  BY DEF Reply
<1>2. /\ s \in Server /\ up[s]
      /\ thread[x].reply \in Response
      /\ x \in ClientConn => x[2] \in Client /\ client[x[2]].msg # NULL
  BY <1>1, ConnHosts DEF ThreadInv, TypeOK
<1>3. thread' \in [Conn -> ThreadType] /\ thread'[x] = Idle
      /\ \A y \in Conn : y # x => thread'[y] = thread[y]
  <2>1. Idle \in ThreadType
    BY BoundsAssumption DEF Idle, ThreadType, ThreadPc
  <2> QED  BY <1>1, <2>1 DEF TypeOK, ThreadType
<1>4. /\ client' \in [Client -> [pc : {"idle", "sent", "wait", "down"},
                                 msg : Request \cup {NULL},
                                 res : Value \cup {NULL, 0, -1}]]
      /\ acked' \in [Key -> SUBSET (Value \cup {NULL})]
      /\ \A d \in Client : client'[d].msg = client[d].msg
      /\ ClientInv(w)'
  <2>1. CASE x \in ClientConn /\ ClientReturns(x[2], thread[x].reply)
    BY <1>2, <2>1, ReturnTypes
  <2>2. CASE UNCHANGED <<client, acked>>
    BY <2>2 DEF TypeOK, ClientInv
  <2> QED  BY <2>1, <2>2 DEF Reply
<1>5. /\ resp' \in [Link -> Seq(Response)]
      /\ \A l \in Link : x # LinkConn(l) => resp'[l] = resp[l]
      /\ \A l \in Link : x = LinkConn(l) /\ up[l]
                            => resp'[l] = Append(resp[l], thread[x].reply)
  <2>1. CASE x \in ClientConn /\ UNCHANGED resp
    BY <2>1, ConnHosts DEF TypeOK, LinkConn
  <2>2. CASE /\ x[1] = "link"
             /\ resp' = IF up[x[2]]
                        THEN [resp EXCEPT ![x[2]] = Append(@, thread[x].reply)]
                        ELSE resp
    <3>1. PICK k \in Link : k = x[2] /\ x = LinkConn(k)
      BY <2>2, ConnHosts
    <3>2. Append(resp[k], thread[x].reply) \in Seq(Response)
      BY <1>2, AppendProperties DEF TypeOK
    <3>3. \A l \in Link : x = LinkConn(l) <=> l = k
      BY <3>1 DEF LinkConn
    <3>4. resp' = IF up[k] THEN [resp EXCEPT ![k] = Append(@, thread[x].reply)]
                  ELSE resp
      BY <2>2, <3>1
    <3> QED  BY <3>2, <3>3, <3>4 DEF TypeOK
  <2> QED  BY <2>1, <2>2 DEF Reply
<1>6. Idle.pc = "idle" /\ Idle.retries = 0
  BY DEF Idle
<1>7. TypeOK'
  BY <1>1, <1>3, <1>4, <1>5 DEF TypeOK, ThreadType
<1>8. ThreadInv(w)'
  <2> USE DEF ThreadInv
  <2> TAKE y \in Conn
  <2>1. y \in ClientConn => client'[y[2]].msg = client[y[2]].msg
    BY <1>4, ConnHosts
  <2>2. CASE y = x
    BY <1>1, <1>2, <1>3, <1>6, <2>2
  <2>3. CASE y # x
    BY <1>1, <1>3, <2>1, <2>3
  <2> QED  BY <2>2, <2>3
<1>9. LinkInv(w)'
  <2> SUFFICES ASSUME NEW l \in Link, up[l], up[l + 1]
               PROVE  LinkOK(thread'[WriteConn(w, l)], thread'[LinkConn(l)],
                             req[l], resp'[l], tables[l], tables[l + 1])
    BY <1>1 DEF LinkInv
  <2>1. LinkOK(thread[WriteConn(w, l)], thread[LinkConn(l)],
               req[l], resp[l], tables[l], tables[l + 1])
    BY DEF LinkInv
  <2>2. /\ WriteConn(w, l) \in Conn /\ Host(WriteConn(w, l)) = l
        /\ LinkConn(l) \in Conn /\ Host(LinkConn(l)) = l + 1
        /\ l # l + 1
    BY WriteConns, ConnHosts
  <2>3. CASE x = WriteConn(w, l)
    <3>1. /\ thread'[WriteConn(w, l)] = Idle /\ resp'[l] = resp[l]
          /\ thread'[LinkConn(l)] = thread[LinkConn(l)]
      BY <1>3, <1>5, <2>2, <2>3
    <3> QED  BY <1>1, <2>1, <2>3, <3>1, LinkDone
  <2>4. CASE x = LinkConn(l)
    <3>1. /\ thread'[LinkConn(l)] = Idle
          /\ thread'[WriteConn(w, l)] = thread[WriteConn(w, l)]
          /\ resp'[l] = Append(resp[l], thread[LinkConn(l)].reply)
      BY <1>3, <1>5, <2>2, <2>4
    <3> QED  BY <1>1, <2>1, <2>4, <3>1, LinkAnswered
  <2>5. CASE x # WriteConn(w, l) /\ x # LinkConn(l)
    BY <1>3, <1>5, <2>1, <2>2, <2>5
  <2> QED  BY <2>3, <2>4, <2>5
<1> QED  BY <1>4, <1>7, <1>8, <1>9

-----------------------------------------------------------------------------
(* The theorems.                                                           *)

\* The inductive invariant holds at every step, whatever servers crash.
THEOREM Inductive ==
    ASSUME NEW w \in Client, OnlyWriter(w)
    PROVE  Spec => []IInv(w)
<1>1. Init => IInv(w)
  BY InitIInv
<1>2. IInv(w) /\ [Next]_vars => IInv(w)'
  <2> SUFFICES ASSUME IInv(w), [Next]_vars
               PROVE  IInv(w)'
    OBVIOUS
  <2>1. ASSUME NEW c \in Client, NEW m \in Request, Call(c, m)
        PROVE  IInv(w)'
    BY <2>1, CallIInv
  <2>2. ASSUME NEW c \in Client, ClientEndOfFile(c)
        PROVE  IInv(w)'
    BY <2>2, ClientEndOfFileIInv
  <2>3. ASSUME NEW x \in Conn, Serve(x)
        PROVE  IInv(w)'
    BY <2>3, ServeIInv
  <2>4. ASSUME NEW x \in Conn, Send(x)
        PROVE  IInv(w)'
    BY <2>4, SendIInv
  <2>5. ASSUME NEW x \in Conn, Await(x)
        PROVE  IInv(w)'
    BY <2>5, AwaitIInv
  <2>6. ASSUME NEW x \in Conn, Reply(x)
        PROVE  IInv(w)'
    BY <2>6, ReplyIInv
  <2>7. ASSUME NEW s \in Server, Crash(s)
        PROVE  IInv(w)'
    BY <2>7, CrashIInv
  <2>8. CASE UNCHANGED vars
    BY <2>8 DEF vars, IInv, TypeOK, ClientInv, ThreadInv, LinkInv
  <2> QED  BY <2>1, <2>2, <2>3, <2>4, <2>5, <2>6, <2>7, <2>8 DEF Next, Step
<1> QED  BY <1>1, <1>2, PTL DEF Spec

\* The variables keep their types (Chain.tla, TypeOK).
THEOREM TypeCorrect ==
    ASSUME NEW w \in Client, OnlyWriter(w)
    PROVE  Spec => []TypeOK
<1>1. IInv(w) => TypeOK
  BY DEF IInv
<1> QED  BY <1>1, Inductive, PTL

\* Two neighbours that are up differ by at most the one request that the first
\* is forwarding: a write that was answered is in both tables, and no write is
\* lost, repeated or overtaken between them (table_skel.c:91-118).
THEOREM NeighboursAlwaysAgree ==
    ASSUME NEW w \in Client, OnlyWriter(w)
    PROVE  Spec => []NeighboursAgree
<1>1. IInv(w) => NeighboursAgree
  <2> SUFFICES ASSUME IInv(w), NEW l \in Link, up[l], up[l + 1],
                      tables[l] # tables[l + 1]
               PROVE  \E x \in Conn : /\ Host(x) = l
                                      /\ thread[x].pc \in {"send", "wait"}
                                      /\ tables[l] = Applied(tables[l + 1], thread[x].msg)
    BY DEF NeighboursAgree
  <2>1. LinkOK(thread[WriteConn(w, l)], thread[LinkConn(l)],
               req[l], resp[l], tables[l], tables[l + 1])
    BY DEF IInv, LinkInv
  <2>2. WriteConn(w, l) \in Conn /\ Host(WriteConn(w, l)) = l
    BY WriteConns
  <2>3. /\ thread[WriteConn(w, l)].pc \in {"send", "wait"}
        /\ tables[l] = Applied(tables[l + 1], thread[WriteConn(w, l)].msg)
    BY <2>1 DEF LinkOK, Pending
  <2> QED  BY <2>2, <2>3
<1> QED  BY <1>1, Inductive, PTL

\* A request is sent again only to a server that has crashed: a server that is
\* up has answered every request it was sent, and with a success
\* (table_skel.c:95-103).
THEOREM RetriesAreToTheDead ==
    ASSUME NEW w \in Client, OnlyWriter(w)
    PROVE  Spec => []RetriesOnlyWhenBroken
<1>1. IInv(w) => RetriesOnlyWhenBroken
  <2> SUFFICES ASSUME IInv(w), NEW x \in Conn, thread[x].retries > 0, up[Host(x) + 1]
               PROVE  FALSE
    BY DEF RetriesOnlyWhenBroken
  <2>1. x = WriteConn(w, Host(x)) /\ Host(x) \in Link
    BY DEF IInv, ThreadInv
  <2>2. up[Host(x)]
    BY DEF IInv, ThreadInv
  <2>3. thread[x].retries = 0
    BY <2>1, <2>2 DEF IInv, LinkInv, LinkOK
  <2> QED  BY <2>3
<1> QED  BY <1>1, Inductive, PTL

-----------------------------------------------------------------------------
(* What was acknowledged.                                                  *)

\* A set of naturals has a least element.
LEMMA LeastOfNats ==
    ASSUME NEW S \in SUBSET Nat, S # {}
    PROVE  \E n \in S : \A m \in S : n <= m
<1>1. PICK n \in S : \A m \in S : ~(<<m, n>> \in OpToRel(<, Nat))
  BY NatLessThanWellFounded, WFMin
<1>2. \A m \in S : ~(m < n)
  BY <1>1, Zenon DEF OpToRel
<1> QED  BY <1>2

AtWork(x) == thread[x].pc \in {"send", "wait", "reply"}

\* A thread of a client is at work on the call that the client waits in.
OwnCall ==
    \A x \in ClientConn :
        AtWork(x) => /\ client[x[2]].pc = "wait"
                     /\ thread[x].msg = client[x[2]].msg
                     /\ ConnOf(client[x[2]].msg) = x

\* The head is at work on a write of k.
HeadWrites(w, k) == AtWork(HeadConn(w)) /\ thread[HeadConn(w)].msg.key = k

\* The head has applied the write it is at work on, even one that it refuses, and
\* of every other key it has what was acknowledged.
HeadInv(w) ==
    up[HeadServer] =>
        \A k \in Key :
            IF HeadWrites(w, k)
            THEN tables[HeadServer][k] = thread[HeadConn(w)].msg.value
            ELSE tables[HeadServer][k] \in acked[k]

SInv(w) == IInv(w) /\ OwnCall /\ HeadInv(w)

LEMMA HeadIs ==
    /\ HeadServer \in Server
    /\ \A c \in Client : /\ HeadConn(c) \in ClientConn /\ HeadConn(c) \in Conn
                         /\ Host(HeadConn(c)) = HeadServer /\ HeadConn(c)[2] = c
BY ConnHosts, ClientConns, ServersAssumption DEF HeadServer, Server

LEMMA ClientTypes ==
    ASSUME NEW w \in Client, IInv(w)
    PROVE  /\ client \in [Client -> [pc : {"idle", "sent", "wait", "down"},
                                     msg : Request \cup {NULL},
                                     res : Value \cup {NULL, 0, -1}]]
           /\ acked \in [Key -> SUBSET (Value \cup {NULL})]
           /\ thread \in [Conn -> ThreadType]
           /\ tables \in [Server -> [Key -> Value \cup {NULL}]]
BY DEF IInv, TypeOK, ThreadType

\* A thread that is at work goes on with its request.
LEMMA WorkGoesOn ==
    ASSUME NEW w \in Client, SInv(w), NEW x \in Conn, AtWork(x),
           UNCHANGED <<client, acked, tables, up>>,
           \A y \in Conn : y # x => thread'[y] = thread[y],
           thread'[x].pc \in {"send", "wait", "reply"}, thread'[x].msg = thread[x].msg
    PROVE  OwnCall' /\ HeadInv(w)'
<1>1. \A y \in Conn : AtWork(y)' <=> AtWork(y)
  BY DEF AtWork
<1>2. \A y \in Conn : thread'[y].msg = thread[y].msg
  OBVIOUS
<1>3. OwnCall'
  BY <1>1, <1>2, ConnHosts DEF SInv, OwnCall
<1>4. HeadConn(w) \in Conn
  BY HeadIs
<1>5. HeadInv(w)'
  BY <1>1, <1>2, <1>4 DEF SInv, HeadInv, HeadWrites
<1> QED BY <1>3, <1>5

\* A server ends, of itself or of the NULL it is given.
LEMMA ServerEnds ==
    ASSUME NEW w \in Client, SInv(w), NEW s \in Server, Die(s),
           UNCHANGED <<client, acked, tables>>
    PROVE  OwnCall' /\ HeadInv(w)'
<1>1. /\ \A y \in Conn : thread'[y] = IF Host(y) = s THEN Dead ELSE thread[y]
      /\ up' = [up EXCEPT ![s] = FALSE] /\ up \in [Server -> BOOLEAN]
  BY DEF Die, SInv, IInv, TypeOK
<1>2. \A y \in Conn : AtWork(y)' => Host(y) # s /\ AtWork(y) /\ thread'[y] = thread[y]
  BY <1>1 DEF AtWork, Dead
<1>3. OwnCall'
  BY <1>2, ConnHosts DEF SInv, OwnCall
<1>4. HeadInv(w)'
  <2> SUFFICES ASSUME up'[HeadServer] PROVE HeadInv(w)'
    BY DEF HeadInv
  <2>1. HeadServer # s /\ up[HeadServer]
    BY <1>1, HeadIs
  <2>2. thread'[HeadConn(w)] = thread[HeadConn(w)]
    BY <1>1, <2>1, HeadIs
  <2> QED BY <2>1, <2>2 DEF SInv, HeadInv, HeadWrites, AtWork
<1> QED BY <1>3, <1>4

LEMMA SendSInv ==
    ASSUME NEW w \in Client, SInv(w), NEW x \in Conn, Send(x)
    PROVE  OwnCall' /\ HeadInv(w)'
<1>1. /\ thread[x].pc = "send" /\ AtWork(x) /\ Host(x) \in Server
      /\ UNCHANGED <<client, acked, tables>> /\ thread \in [Conn -> ThreadType]
  BY ConnHosts, ClientTypes DEF Send, AtWork, SInv
<1>2. CASE thread' = [thread EXCEPT ![x].pc = "wait"] /\ UNCHANGED up
  <2>1. /\ thread'[x].pc = "wait" /\ thread'[x].msg = thread[x].msg
        /\ \A y \in Conn : y # x => thread'[y] = thread[y]
    BY <1>1, <1>2 DEF ThreadType
  <2> QED BY <1>1, <1>2, <2>1, WorkGoesOn
<1>3. CASE Die(Host(x))
  BY <1>1, <1>3, ServerEnds
<1> QED BY <1>2, <1>3 DEF Send

LEMMA AwaitSInv ==
    ASSUME NEW w \in Client, SInv(w), NEW x \in Conn, Await(x)
    PROVE  OwnCall' /\ HeadInv(w)'
<1>1. /\ thread[x].pc = "wait" /\ AtWork(x) /\ Host(x) \in Link /\ Host(x) \in Server
      /\ UNCHANGED <<client, acked, tables>> /\ thread \in [Conn -> ThreadType]
      /\ thread[x].msg \in Request /\ resp \in [Link -> Seq(Response)]
  BY ConnHosts, ClientTypes DEF Await, AtWork, SInv, IInv, ThreadInv, TypeOK
<1>2. CASE (\E r \in Response : Forwarded(x, r)) /\ UNCHANGED up
  <2>1. /\ thread'[x].pc \in {"send", "reply"} /\ thread'[x].msg = thread[x].msg
        /\ \A y \in Conn : y # x => thread'[y] = thread[y]
    BY <1>1, <1>2, ForwardedFacts
  <2> QED BY <1>1, <1>2, <2>1, WorkGoesOn
<1>3. CASE Die(Host(x))
  BY <1>1, <1>3, ServerEnds
<1>4. resp[Host(x)] # <<>> => Head(resp[Host(x)]) \in Response
  BY <1>1, HeadTailProperties
<1>5. Bad \in Response
  BY Results
<1> QED BY <1>2, <1>3, <1>4, <1>5 DEF Await

\* A client calls: no thread is at work for it.
LEMMA CallSInv ==
    ASSUME NEW w \in Client, SInv(w), NEW c \in Client, NEW m \in Request, Call(c, m)
    PROVE  OwnCall' /\ HeadInv(w)'
<1>1. /\ client[c].pc = "idle" /\ UNCHANGED <<thread, up, tables, acked>>
      /\ \A d \in Client : d # c => client'[d] = client[d]
  BY ClientTypes DEF Call, SInv
<1>2. OwnCall'
  BY <1>1, ConnHosts DEF SInv, OwnCall, AtWork
<1>3. HeadInv(w)'
  BY <1>1 DEF SInv, HeadInv, HeadWrites, AtWork
<1> QED BY <1>2, <1>3

\* What the end of a call of c with response r changes.
LEMMA ReturnFacts ==
    ASSUME NEW w \in Client, SInv(w), NEW c \in Client, client[c].pc \in {"sent", "wait"},
           NEW r \in Response, ClientReturns(c, r)
    PROVE  /\ client[c].msg \in Request /\ client[c].msg.by = c
           /\ \A d \in Client : d # c => client'[d] = client[d]
           /\ \A k \in Key : acked[k] \subseteq acked'[k] \/ client[c].msg.key = k
           /\ client[c].msg.op = "get" => acked' = acked
           /\ client[c].msg.op # "get" =>
                 /\ c = w
                 /\ client[c].msg.value \in acked'[client[c].msg.key]
<1> DEFINE m == client[c].msg
<1>1. m \in Request /\ m.by = c /\ (m.op # "get" => c = w)
  BY ClientTypes DEF SInv, IInv, ClientInv
<1>2. m.key \in Key
  BY <1>1, RequestFields
<1>3. acked \in [Key -> SUBSET (Value \cup {NULL})]
  BY ClientTypes DEF SInv
<1>4. \A d \in Client : d # c => client'[d] = client[d]
  BY ClientTypes DEF ClientReturns, SInv
<1>5. \/ m.op = "get" /\ acked' = acked
      \/ m.op # "get" /\ acked' = [acked EXCEPT ![m.key] = {m.value}]
      \/ m.op # "get" /\ acked' = [acked EXCEPT ![m.key] = @ \cup {m.value}]
  BY DEF ClientReturns
<1> HIDE DEF m
<1>6. /\ m.op = "get" => acked' = acked
      /\ m.op # "get" => m.value \in acked'[m.key]
      /\ \A k \in Key : k # m.key => acked'[k] = acked[k]
  BY <1>2, <1>3, <1>5
<1> QED BY <1>1, <1>4, <1>6 DEF m

\* A client notices that its server has ended: no thread is at work for it.
LEMMA ClientEndOfFileSInv ==
    ASSUME NEW w \in Client, SInv(w), NEW c \in Client, ClientEndOfFile(c)
    PROVE  OwnCall' /\ HeadInv(w)'
<1> DEFINE m == client[c].msg
<1>1. /\ client[c].pc \in {"sent", "wait"} /\ ~up[Host(ConnOf(m))]
      /\ UNCHANGED <<thread, up, tables>>
      /\ ClientReturns(c, Bad) \/ (client' = [client EXCEPT ![c].pc = "down"] /\ UNCHANGED acked)
  BY DEF ClientEndOfFile
<1>2. Bad \in Response /\ m \in Request /\ m.by = c /\ (m.op # "get" => c = w)
  BY <1>1, Results, ClientTypes DEF SInv, IInv, ClientInv
<1>3. /\ \A d \in Client : d # c => client'[d] = client[d]
      /\ acked' = acked \/ m.op # "get"
  <2>1. CASE ClientReturns(c, Bad)
    BY <1>1, <1>2, <2>1, ReturnFacts
  <2>2. CASE client' = [client EXCEPT ![c].pc = "down"] /\ UNCHANGED acked
    BY <2>2, ClientTypes DEF SInv
  <2> QED BY <1>1, <2>1, <2>2
<1> HIDE DEF m
<1>4. \A x \in ClientConn : AtWork(x) => x[2] # c
  <2> SUFFICES ASSUME NEW x \in ClientConn, AtWork(x), x[2] = c PROVE FALSE
    OBVIOUS
  <2>1. ConnOf(m) = x /\ x \in Conn
    BY ConnHosts DEF SInv, OwnCall, m
  <2>2. thread[x].pc = "dead"
    BY <1>1, <2>1 DEF SInv, IInv, ThreadInv
  <2> QED BY <2>2 DEF AtWork
<1>5. OwnCall'
  BY <1>1, <1>3, <1>4, ConnHosts DEF SInv, OwnCall, AtWork
<1>6. HeadInv(w)'
  <2>1. CASE acked' = acked
    BY <1>1, <2>1 DEF SInv, HeadInv, HeadWrites, AtWork
  <2>2. CASE m.op # "get"
    <3>1. ConnOf(m) = HeadConn(w)
      BY <1>2, <2>2 DEF ConnOf
    <3>2. ~up'[HeadServer]
      BY <1>1, <3>1, HeadIs
    <3> QED BY <3>2 DEF HeadInv
  <2> QED BY <1>3, <2>1, <2>2
<1> QED BY <1>5, <1>6

\* An answer reaches a server or a client.
LEMMA ReplySInv ==
    ASSUME NEW w \in Client, SInv(w), NEW x \in Conn, Reply(x)
    PROVE  OwnCall' /\ HeadInv(w)'
<1>1. /\ thread[x].pc = "reply" /\ AtWork(x) /\ UNCHANGED <<tables, up>>
      /\ thread \in [Conn -> ThreadType] /\ thread' = [thread EXCEPT ![x] = Idle]
  BY ClientTypes DEF Reply, AtWork, SInv
<1>2. /\ ~AtWork(x)'
      /\ \A y \in Conn : y # x => thread'[y] = thread[y]
      /\ \A y \in Conn : AtWork(y)' => y # x /\ AtWork(y)
  BY <1>1 DEF Idle, AtWork
<1>3. CASE x[1] = "link" /\ UNCHANGED <<client, acked>>
  <2>1. \A c \in Client : x # HeadConn(c)
    BY <1>3, ConnHosts, ClientConns
  <2>2. OwnCall'
    BY <1>2, <1>3, ConnHosts DEF SInv, OwnCall
  <2>3. thread'[HeadConn(w)] = thread[HeadConn(w)]
    BY <1>2, <2>1, HeadIs
  <2> QED BY <1>1, <1>3, <2>2, <2>3 DEF SInv, HeadInv, HeadWrites, AtWork
<1>4. CASE x \in ClientConn /\ ClientReturns(x[2], thread[x].reply)
  <2> DEFINE c == x[2]
             m == client[c].msg
  <2>1. c \in Client /\ client[c].pc = "wait" /\ thread[x].msg = m /\ ConnOf(m) = x
    BY <1>1, <1>4, ConnHosts DEF SInv, OwnCall
  <2>2. thread[x].reply \in Response
    BY <1>1 DEF SInv, IInv, ThreadInv, TypeOK
  <2>3. /\ m \in Request /\ m.by = c
        /\ \A d \in Client : d # c => client'[d] = client[d]
        /\ \A k \in Key : acked[k] \subseteq acked'[k] \/ m.key = k
        /\ m.op = "get" => acked' = acked
        /\ m.op # "get" => c = w /\ m.value \in acked'[m.key]
    BY <1>4, <2>1, <2>2, ReturnFacts
  <2> HIDE DEF c, m
  <2>4. \A y \in ClientConn : AtWork(y)' => y[2] # c
    <3> SUFFICES ASSUME NEW y \in ClientConn, AtWork(y)', y[2] = c PROVE FALSE
      OBVIOUS
    <3>1. y # x /\ AtWork(y)
      BY <1>2, ConnHosts
    <3>2. ConnOf(m) = y
      BY <3>1 DEF SInv, OwnCall, m
    <3> QED BY <2>1, <3>1, <3>2
  <2>5. OwnCall'
    <3> SUFFICES ASSUME NEW y \in ClientConn, AtWork(y)'
                 PROVE  /\ client'[y[2]].pc = "wait"
                        /\ thread'[y].msg = client'[y[2]].msg
                        /\ ConnOf(client'[y[2]].msg) = y
      BY DEF OwnCall
    <3>1. y \in Conn /\ y[2] \in Client /\ y[2] # c /\ y # x /\ AtWork(y)
      BY <1>2, <2>4, ConnHosts
    <3>2. client'[y[2]] = client[y[2]] /\ thread'[y] = thread[y]
      BY <1>2, <2>3, <3>1
    <3> QED BY <3>1, <3>2 DEF SInv, OwnCall
  <2>6. HeadInv(w)'
    <3>1. CASE m.op = "get"
      <4>1. x = TailConn(c)
        BY <2>1, <2>3, <3>1 DEF ConnOf
      <4>2. thread'[HeadConn(w)] = thread[HeadConn(w)]
        BY <1>2, <2>1, <4>1, ClientConns, HeadIs
      <4> QED BY <1>1, <2>3, <3>1, <4>2 DEF SInv, HeadInv, HeadWrites, AtWork
    <3>2. CASE m.op # "get"
      <4>1. x = HeadConn(w)
        BY <2>1, <2>3, <3>2 DEF ConnOf
      <4> SUFFICES ASSUME up[HeadServer], NEW k \in Key
                   PROVE  tables[HeadServer][k] \in acked'[k]
        BY <1>1, <1>2, <4>1 DEF HeadInv, HeadWrites
      <4>2. CASE k = m.key
        BY <1>1, <2>1, <2>3, <3>2, <4>1, <4>2 DEF SInv, HeadInv, HeadWrites
      <4>3. CASE k # m.key
        BY <1>1, <2>1, <2>3, <4>1, <4>3 DEF SInv, HeadInv, HeadWrites
      <4> QED BY <4>2, <4>3
    <3> QED BY <3>1, <3>2
  <2> QED BY <2>5, <2>6
<1> QED BY <1>3, <1>4 DEF Reply

\* The head takes a write, or a server takes what the head has not.
LEMMA ServeSInv ==
    ASSUME NEW w \in Client, SInv(w), NEW x \in Conn, Serve(x)
    PROVE  OwnCall' /\ HeadInv(w)'
<1>1. PICK m \in Request : /\ Take(x, m)
                           /\ \/ LocalPut(x, m, Host(x))
                              \/ LocalDel(x, m, Host(x))
                              \/ LocalGet(x, m, Host(x))
  BY DEF Serve
<1>2. /\ thread[x].pc = "idle" /\ UNCHANGED <<up, acked>> /\ Host(x) \in Server
      /\ m.key \in Key /\ m.op \in {"put", "del", "get"} /\ (m.op # "put" => m.value = NULL)
  BY ConnHosts, RequestFields DEF Serve
<1>3. /\ thread \in [Conn -> ThreadType]
      /\ tables \in [Server -> [Key -> Value \cup {NULL}]]
      /\ client \in [Client -> [pc : {"idle", "sent", "wait", "down"},
                                msg : Request \cup {NULL},
                                res : Value \cup {NULL, 0, -1}]]
  BY ClientTypes DEF SInv
<1>4. /\ AtWork(x)' /\ thread'[x].msg = m
      /\ \A y \in Conn : y # x => thread'[y] = thread[y]
  <2>1. /\ \A r : ReplyOf(m, r).pc = "reply" /\ ReplyOf(m, r).msg = m
        /\ SendOf(m).pc = "send" /\ SendOf(m).msg = m
    BY DEF ReplyOf, SendOf
  <2>2. \E t : thread' = [thread EXCEPT ![x] = t] /\ t.pc \in {"send", "reply"} /\ t.msg = m
    BY <1>1, <2>1, LocalFacts DEF SInv
  <2> QED BY <1>3, <2>2 DEF AtWork
<1>5. /\ m.op # "get" => x = WriteConn(w, Host(x))
      /\ \A s \in Server : s # Host(x) => tables'[s] = tables[s]
      /\ m.op = "get" => tables' = tables
      /\ m.op # "get" => tables'[Host(x)][m.key] = m.value
      /\ \A k \in Key : k # m.key => tables'[Host(x)][k] = tables[Host(x)][k]
  <2>1. m.op # "get" => x = WriteConn(w, Host(x))
    BY <1>1, <1>2, TakeFacts DEF SInv
  <2>2. CASE /\ m.op # "get"
             /\ tables' = [tables EXCEPT ![Host(x)] = Applied(@, m)]
    <3>1. tables'[Host(x)] = [tables[Host(x)] EXCEPT ![m.key] = m.value]
      BY <1>2, <1>3, <2>2 DEF Applied
    <3>2. \A s \in Server : s # Host(x) => tables'[s] = tables[s]
      BY <1>3, <2>2
    <3>3. tables[Host(x)] \in [Key -> Value \cup {NULL}]
      BY <1>2, <1>3
    <3> QED BY <1>2, <2>1, <2>2, <3>1, <3>2, <3>3
  <2>3. CASE /\ m.op = "get" \/ (m.op = "del" /\ tables[Host(x)][m.key] = NULL)
             /\ tables' = tables
    BY <1>2, <2>1, <2>3
  <2> QED BY <1>1, <2>2, <2>3, LocalFacts DEF SInv
<1>6. CASE /\ x \in ClientConn
           /\ client[x[2]].pc = "sent"
           /\ ConnOf(client[x[2]].msg) = x
           /\ m = client[x[2]].msg
           /\ client' = [client EXCEPT ![x[2]].pc = "wait"]
  <2> DEFINE c == x[2]
  <2>1. c \in Client
    BY <1>6, ConnHosts
  <2>2. /\ client'[c].pc = "wait" /\ client'[c].msg = m
        /\ \A d \in Client : d # c => client'[d] = client[d]
    BY <1>3, <1>6, <2>1
  <2>3. m.by = c /\ (m.op # "get" => c = w)
    BY <1>6, <2>1, MessageAssumption DEF SInv, IInv, ClientInv
  <2>4. \A y \in ClientConn : y # x /\ AtWork(y) => y[2] # c
    BY <1>6 DEF SInv, OwnCall
  <2> HIDE DEF c
  <2>5. OwnCall'
    <3> SUFFICES ASSUME NEW y \in ClientConn, AtWork(y)'
                 PROVE  /\ client'[y[2]].pc = "wait"
                        /\ thread'[y].msg = client'[y[2]].msg
                        /\ ConnOf(client'[y[2]].msg) = y
      BY DEF OwnCall
    <3>1. CASE y = x
      BY <1>4, <1>6, <2>2, <3>1 DEF c
    <3>2. CASE y # x
      <4>1. y \in Conn /\ y[2] \in Client /\ thread'[y] = thread[y] /\ AtWork(y)
        BY <1>4, <3>2, ConnHosts DEF AtWork
      <4>2. client'[y[2]] = client[y[2]]
        BY <2>2, <2>4, <3>2, <4>1
      <4> QED BY <4>1, <4>2 DEF SInv, OwnCall
    <3> QED BY <3>1, <3>2
  <2>6. HeadInv(w)'
    <3>1. CASE m.op = "get"
      <4>1. x = TailConn(c)
        BY <1>6, <2>3, <3>1 DEF ConnOf, c
      <4>2. thread'[HeadConn(w)] = thread[HeadConn(w)]
        BY <1>4, <2>1, <4>1, ClientConns, HeadIs
      <4> QED BY <1>2, <1>5, <3>1, <4>2 DEF SInv, HeadInv, HeadWrites, AtWork
    <3>2. CASE m.op # "get"
      <4>1. x = HeadConn(w) /\ Host(x) = HeadServer
        BY <1>6, <2>3, <3>2, HeadIs DEF ConnOf
      <4>2. \A k \in Key : ~HeadWrites(w, k)
        BY <1>2, <4>1 DEF HeadWrites, AtWork
      <4>3. \A k \in Key : HeadWrites(w, k)' <=> k = m.key
        BY <1>4, <4>1 DEF HeadWrites
      <4> SUFFICES ASSUME up[HeadServer], NEW k \in Key
                   PROVE  IF k = m.key THEN tables'[HeadServer][k] = m.value
                          ELSE tables'[HeadServer][k] \in acked[k]
        BY <1>2, <1>4, <4>1, <4>3 DEF HeadInv
      <4>4. tables[HeadServer][k] \in acked[k]
        BY <4>2 DEF SInv, HeadInv
      <4> QED BY <1>5, <3>2, <4>1, <4>4
    <3> QED BY <3>1, <3>2
  <2> QED BY <2>5, <2>6
<1>7. CASE x[1] = "link" /\ client' = client
  <2>1. Host(x) # HeadServer /\ \A c \in Client : x # HeadConn(c)
    <3>1. PICK l \in Link : x = LinkConn(l)
      BY <1>7, ConnHosts
    <3>2. Host(x) = l + 1 /\ l + 1 # HeadServer
      BY <3>1, ConnHosts, ServersAssumption DEF HeadServer, Link
    <3> QED BY <3>1, <3>2, ClientConns
  <2>2. x \notin ClientConn
    BY <1>7, ConnHosts
  <2>3. OwnCall'
    <3> SUFFICES ASSUME NEW y \in ClientConn, AtWork(y)'
                 PROVE  /\ client'[y[2]].pc = "wait"
                        /\ thread'[y].msg = client'[y[2]].msg
                        /\ ConnOf(client'[y[2]].msg) = y
      BY DEF OwnCall
    <3>1. y \in Conn /\ thread'[y] = thread[y] /\ AtWork(y)
      BY <1>4, <2>2, ConnHosts DEF AtWork
    <3> QED BY <1>7, <3>1 DEF SInv, OwnCall
  <2>4. thread'[HeadConn(w)] = thread[HeadConn(w)] /\ tables'[HeadServer] = tables[HeadServer]
    BY <1>4, <1>5, <2>1, HeadIs
  <2>5. HeadInv(w)'
    BY <1>2, <2>4 DEF SInv, HeadInv, HeadWrites, AtWork
  <2> QED BY <2>3, <2>5
<1> QED BY <1>1, <1>6, <1>7 DEF Take

\* The invariant holds at every step, whatever servers crash.
LEMMA InductiveS ==
    ASSUME NEW w \in Client, OnlyWriter(w)
    PROVE  Spec => []SInv(w)
<1>1. Init => OwnCall /\ HeadInv(w)
  <2> SUFFICES ASSUME Init PROVE OwnCall /\ HeadInv(w)
    OBVIOUS
  <2>1. \A x \in Conn : ~AtWork(x)
    BY DEF Init, AtWork, Idle
  <2>2. \A k \in Key : tables[HeadServer][k] = NULL /\ acked[k] = {NULL}
    BY HeadIs DEF Init
  <2> QED BY <2>1, <2>2, HeadIs, ConnHosts DEF OwnCall, HeadInv, HeadWrites
<1>2. IInv(w) /\ IInv(w)' /\ OwnCall /\ HeadInv(w) /\ [Next]_vars => OwnCall' /\ HeadInv(w)'
  <2> SUFFICES ASSUME SInv(w), [Next]_vars
               PROVE  OwnCall' /\ HeadInv(w)'
    BY DEF SInv
  <2>1. ASSUME NEW c \in Client, NEW m \in Request, Call(c, m)
        PROVE  OwnCall' /\ HeadInv(w)'
    BY <2>1, CallSInv
  <2>2. ASSUME NEW c \in Client, ClientEndOfFile(c)
        PROVE  OwnCall' /\ HeadInv(w)'
    BY <2>2, ClientEndOfFileSInv
  <2>3. ASSUME NEW x \in Conn, Step(x)
        PROVE  OwnCall' /\ HeadInv(w)'
    BY <2>3, ServeSInv, SendSInv, AwaitSInv, ReplySInv DEF Step
  <2>4. ASSUME NEW s \in Server, Crash(s)
        PROVE  OwnCall' /\ HeadInv(w)'
    BY <2>4, ServerEnds DEF Crash
  <2>5. CASE UNCHANGED vars
    BY <2>5 DEF vars, SInv, OwnCall, HeadInv, HeadWrites, AtWork
  <2> QED BY <2>1, <2>2, <2>3, <2>4, <2>5 DEF Next
<1> QED BY <1>1, <1>2, Inductive, PTL DEF Spec, SInv

-----------------------------------------------------------------------------
(* Servers that nothing cuts off from the head.                            *)

Reached(s) == \A q \in HeadServer .. s : up[q]

\* A server before another that is reached, and the link between them.
LEMMA ReachedLink ==
    ASSUME NEW w \in Client, IInv(w), NEW s \in Server, Reached(s), s # HeadServer
    PROVE  /\ s - 1 \in Server /\ s - 1 \in Nat /\ s - 1 < s /\ Reached(s - 1)
           /\ LinkOK(thread[WriteConn(w, s - 1)], thread[WriteConn(w, s)],
                     req[s - 1], resp[s - 1], tables[s - 1], tables[s])
<1>1. /\ s - 1 \in Server /\ s - 1 \in Link /\ s - 1 \in Nat /\ s - 1 < s /\ s - 1 + 1 = s
      /\ s - 1 \in HeadServer .. s /\ s \in HeadServer .. s
      /\ \A q \in HeadServer .. (s - 1) : q \in HeadServer .. s
  BY ServersAssumption DEF Server, Link, HeadServer
<1>2. up[s - 1] /\ up[s] /\ Reached(s - 1)
  BY <1>1 DEF Reached
<1>3. WriteConn(w, s - 1 + 1) = LinkConn(s - 1)
  BY <1>1, WriteConns
<1>4. LinkOK(thread[WriteConn(w, s - 1)], thread[LinkConn(s - 1)],
             req[s - 1], resp[s - 1], tables[s - 1], tables[s - 1 + 1])
  BY <1>1, <1>2 DEF IInv, LinkInv
<1> QED BY <1>1, <1>2, <1>3, <1>4

\* Every server that is reached and at work has the write of the head.
LEMMA SameWrite ==
    ASSUME NEW w \in Client, IInv(w), NEW s \in Server, Reached(s), AtWork(WriteConn(w, s))
    PROVE  /\ AtWork(HeadConn(w))
           /\ thread[WriteConn(w, s)].msg = thread[HeadConn(w)].msg
<1> DEFINE Good(r) == /\ AtWork(HeadConn(w))
                      /\ thread[WriteConn(w, r)].msg = thread[HeadConn(w)].msg
           S == {r \in Server : Reached(r) /\ AtWork(WriteConn(w, r)) /\ ~Good(r)}
<1> SUFFICES ASSUME S # {} PROVE FALSE
  OBVIOUS
<1>1. S \in SUBSET Nat
  BY DEF Server
<1>2. PICK r \in S : \A q \in S : r <= q
  BY <1>1, LeastOfNats
<1>3. r # HeadServer
  BY <1>2, WriteConns
<1>4. /\ r - 1 \in Server /\ r - 1 \in Nat /\ r - 1 < r /\ Reached(r - 1)
      /\ LinkOK(thread[WriteConn(w, r - 1)], thread[WriteConn(w, r)],
                req[r - 1], resp[r - 1], tables[r - 1], tables[r])
  BY <1>2, <1>3, ReachedLink
<1>5. /\ AtWork(WriteConn(w, r - 1))
      /\ thread[WriteConn(w, r)].msg = thread[WriteConn(w, r - 1)].msg
  BY <1>2, <1>4 DEF LinkOK, AtWork
<1>6. ~Good(r - 1)
  BY <1>2, <1>5
<1>7. r - 1 \in S
  BY <1>4, <1>5, <1>6
<1>8. r <= r - 1 /\ r \in Nat
  BY <1>1, <1>2, <1>7
<1> QED BY <1>8

\* Every server that is reached has the table of the head, but for the key of
\* the write that the head is at work on.
LEMMA SameTable ==
    ASSUME NEW w \in Client, IInv(w), NEW s \in Server, Reached(s),
           NEW k \in Key, ~HeadWrites(w, k)
    PROVE  tables[s][k] = tables[HeadServer][k]
<1> DEFINE S == {r \in Server : Reached(r) /\ tables[r][k] # tables[HeadServer][k]}
<1> SUFFICES ASSUME S # {} PROVE FALSE
  OBVIOUS
<1>1. S \in SUBSET Nat
  BY DEF Server
<1>2. PICK r \in S : \A q \in S : r <= q
  BY <1>1, LeastOfNats
<1>3. r # HeadServer
  BY <1>2
<1>4. /\ r - 1 \in Server /\ r - 1 \in Nat /\ r - 1 < r /\ Reached(r - 1)
      /\ LinkOK(thread[WriteConn(w, r - 1)], thread[WriteConn(w, r)],
                req[r - 1], resp[r - 1], tables[r - 1], tables[r])
  BY <1>2, <1>3, ReachedLink
<1>5. tables[r - 1][k] = tables[r][k]
  <2> DEFINE m == thread[WriteConn(w, r - 1)].msg
  <2>1. CASE tables[r - 1] = tables[r]
    BY <2>1
  <2>2. CASE /\ thread[WriteConn(w, r - 1)].pc \in {"send", "wait"}
             /\ tables[r - 1] = Applied(tables[r], m)
    <3>1. AtWork(HeadConn(w)) /\ m = thread[HeadConn(w)].msg
      BY <1>4, <2>2, SameWrite DEF AtWork
    <3>2. m.key # k
      BY <3>1 DEF HeadWrites
    <3>3. tables[r] \in [Key -> Value \cup {NULL}]
      BY <1>2, ClientTypes
    <3> QED BY <2>2, <3>2, <3>3 DEF Applied
  <2> QED BY <1>4, <2>1, <2>2 DEF LinkOK, Pending
<1>6. r - 1 \in S
  BY <1>2, <1>4, <1>5
<1>7. r <= r - 1 /\ r \in Nat
  BY <1>1, <1>2, <1>6
<1> QED BY <1>7

\* An acknowledged write is never lost by the servers that no server that has
\* ended cuts off from the head, whatever servers crash and when
\* (table_skel.c:91-122).
THEOREM AcknowledgedSurvives ==
    ASSUME NEW w \in Client, OnlyWriter(w)
    PROVE  Spec => []AckedSurvives
<1>1. SInv(w) => AckedSurvives
  <2> SUFFICES ASSUME SInv(w), NEW k \in Key, NEW c \in Client,
                      \A d \in Client : k \in MayWrite[d] <=> d = c,
                      ~(/\ client[c].pc # "idle"
                        /\ client[c].msg.op # "get"
                        /\ client[c].msg.key = k),
                      NEW s \in Server, Reached(s)
               PROVE  tables[s][k] \in acked[k]
    BY DEF AckedSurvives, Reached
  <2>1. c = w
    BY DEF OnlyWriter
  <2>2. ~HeadWrites(w, k)
    <3> SUFFICES ASSUME HeadWrites(w, k) PROVE FALSE
      OBVIOUS
    <3>1. /\ client[w].pc = "wait" /\ client[w].msg.key = k
          /\ ConnOf(client[w].msg) = HeadConn(w)
      BY HeadIs DEF HeadWrites, SInv, OwnCall
    <3>2. client[w].msg.op # "get"
      BY <3>1, ClientConns DEF ConnOf, HeadConn, TailConn
    <3> QED BY <2>1, <3>1, <3>2
  <2>3. up[HeadServer]
    <3>1. HeadServer \in HeadServer .. s
      BY DEF HeadServer, Server
    <3> QED BY <3>1 DEF Reached
  <2>4. tables[HeadServer][k] \in acked[k]
    BY <2>2, <2>3 DEF SInv, HeadInv
  <2>5. tables[s][k] = tables[HeadServer][k]
    BY <2>2, SameTable DEF SInv
  <2> QED BY <2>4, <2>5
<1> QED BY <1>1, InductiveS, PTL
=============================================================================
