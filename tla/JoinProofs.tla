----------------------------- MODULE JoinProofs -----------------------------
(***************************************************************************)
(* Theorems about Join.tla, for any number of servers that join a chain of *)
(* any length, any keys, values and number of requests: the type           *)
(* invariant; that a server that has received the table of its predecessor *)
(* agrees with it on every key that is not exposed; and that the servers   *)
(* take the steps of Membership.tla.                                       *)
(*                                                                         *)
(* A run ends with the first fault, so the invariant speaks of the states  *)
(* before it.  No server has ended then, and the servers have joined in    *)
(* the order of their numbers: the successor of s is s + 1.                *)
(***************************************************************************)
EXTENDS Join, TLAPS

-----------------------------------------------------------------------------
(* The members.                                                            *)

\* The states of a thread, with those in which it puts the entries of a table.
ThreadState == [pc : Pc \cup {"put"}, watch : Watch \cup {NULL}, list : SUBSET Server,
                to : Server \cup {NULL}]

\* The types of the variables of Membership.tla that the tables depend on.
MembersTypeOK ==
    /\ status \in [Server -> {"absent", "up", "dead"}]
    /\ znodes \subseteq Server
    /\ armed \in [Server -> SUBSET Watch]
    /\ events \in [Server -> Seq(SUBSET Watch)]
    /\ thread \in [Server -> [Thread -> ThreadState]]
    /\ next \in [Server -> Server \cup {NULL}]
    /\ fault \in [Server -> BOOLEAN]

\* A list of children as ZooKeeper answers it when no server has ended.
Prefix(list) ==
    /\ list \subseteq Server
    /\ 1 \in list
    /\ \A s \in list : \A q \in Server : q < s => q \in list

\* What thread t of s may be doing, th.  The completion thread works only when a
\* server has registered after s, and reads it among the children.
StateOK(s, t, th) ==
    /\ th.pc \in {"children", "select"} => th.watch \in Watch
    /\ th.pc = "select" =>
          /\ Prefix(th.list) /\ th.list \subseteq znodes /\ s \in th.list
          /\ t = "completion" => s + 1 \in th.list
    /\ th.pc \in {"switch", "set"} =>
          /\ th.watch = "next"
          /\ \/ th.to = s + 1 /\ s + 1 \in znodes
             \/ th.to = NULL /\ t = "main"
    /\ th.pc \in {"merge", "put"} =>
          th.watch = "prev" /\ s > 1 /\ th.to = s - 1 /\ th.list = {}
    /\ t = "completion" /\ th.pc # "idle" => s + 1 \in znodes

\* A server that has not registered holds nothing.
AbsentOK(s) ==
    ~Up(s) => /\ armed[s] = {} /\ events[s] = <<>>
              /\ thread[s] = [t \in Thread |-> Idle]
              /\ next[s] = NULL

MemberOK(s) ==
    /\ status[s] # "dead"
    /\ Up(s) <=> s \in znodes
    /\ AbsentOK(s)
    /\ next[s] # NULL => next[s] = s + 1 /\ s + 1 \in znodes
    /\ events[s] # <<>> => s + 1 \in znodes
    /\ \A t \in Thread : StateOK(s, t, thread[s][t])

MembersOK == Prefix(znodes) /\ \A s \in Server : MemberOK(s)

-----------------------------------------------------------------------------
(* The tables.                                                             *)

\* A server that has received a table has a predecessor, which accepts connections.
\* One that has not is one of the chain at the start, or one that does not accept
\* connections and has no key.
MergeOK(s) ==
    /\ s \in answered => s \in znodes /\ s > 1 /\ InLoop(s - 1)
    /\ s \notin answered => \A t \in Thread : entries[s][t] = {}
    /\ s =< Settled0 => InLoop(s) /\ (s < Settled0 => next[s] = s + 1)
    /\ s \notin answered /\ s > Settled0 =>
          /\ thread[s]["main"].pc \notin {"accept", "loop"}
          /\ \A k \in Key : table[s][k] = NULL

\* Server p has applied a request for k, and the server after it has still to serve it.
Pending(p, k) ==
    /\ request.key = k
    /\ \/ request.at = p /\ request.pc = "applied"
       \/ request.at = p + 1 /\ request.pc = "received"

\* It will, since p is connected to it.
Coming(p, k) == Pending(p, k) /\ (request.pc = "applied" => next[p] = p + 1)

\* Server p holds what the request wrote, or the server after it is not sure to
\* hear of what it holds.
Written(p) ==
    \/ table[p][request.key] = request.value
    \/ p + 1 \in znodes /\ request.key \in exposed[p + 1]

\* A server that sends a request accepts connections, and so does the one that
\* may send it again; a handler waits for the server after its own.
RequestOK ==
    /\ request.at # NULL => request.key \in Key
    /\ request.pc \in {"received", "refused"} => request.at \in znodes /\ request.at > 1
    /\ \A p \in Server : Underway(p, p + 1, request.key) => InLoop(p) /\ Written(p)
    /\ \A p \in Server : waits[p] # NULL => waits[p] = p + 1

\* Server q is to put an entry for k.
Due(q, k) == \E t \in Thread : \E e \in entries[q][t] : e[1] = k

\* What p and q, the server after it, hold for a key that is not exposed: the
\* entries that q has still to put are those of p, and so is what it holds, up to
\* the request that is on its way to it.
AgreeOn(p, q, k) ==
    IF q \in answered
    THEN /\ \A t \in Thread : \A e \in entries[q][t] : e[1] = k => e[2] = table[p][k]
         /\ \/ Due(q, k)
            \/ table[p][k] = table[q][k]
            \/ Coming(p, k)
    ELSE \/ Pending(p, k)
         \/ table[p][k] = NULL => table[q][k] = NULL

PairOK(p) ==
    p + 1 \in znodes => \A k \in Key \ exposed[p + 1] : AgreeOn(p, p + 1, k)

TablesOK == RequestOK /\ \A s \in Server : MergeOK(s) /\ PairOK(s)

IInv == MembersTypeOK /\ TablesTypeOK /\ (NoFaultYet => MembersOK /\ TablesOK)

-----------------------------------------------------------------------------
(* Lists of children without a gap.                                        *)

LEMMA ServerIsNat == Server \subseteq Nat \ {0} /\ 1 \in Server
BY MembershipAssumption DEF Server

\* Below a server of the list there is no gap: the successor is the next number.
LEMMA SuccessorOfPrefix ==
    ASSUME NEW list, Prefix(list), NEW s \in Server
    PROVE  Successor(s, list) = IF s + 1 \in list THEN s + 1 ELSE NULL
<1> DEFINE after == {j \in list : j > s}
<1>1. list \subseteq Server /\ \A j \in list : j \in Nat
  BY ServerIsNat DEF Prefix
<1>2. CASE s + 1 \in list
  <2>1. s + 1 \in after /\ \A j \in after : s + 1 =< j
    BY <1>1, <1>2, ServerIsNat
  <2>2. \A x \in after : (\A y \in after : x =< y) => x = s + 1
    BY <1>1, <2>1, ServerIsNat
  <2>3. Min(after) = s + 1
    <3> HIDE DEF after
    <3> QED BY <2>1, <2>2 DEF Min
  <2> QED BY <1>2, <2>1, <2>3 DEF Successor
<1>3. CASE s + 1 \notin list
  <2>1. ASSUME NEW j \in after PROVE FALSE
    <3>1. j \in list /\ j > s /\ j \in Server /\ j \in 1 .. N /\ N \in Nat
      BY <1>1, MembershipAssumption DEF Server
    <3>2. s + 1 \in Server
      BY <3>1, ServerIsNat DEF Server
    <3>3. j = s + 1 \/ s + 1 < j
      BY <3>1, ServerIsNat
    <3> QED BY <3>1, <3>2, <3>3, <1>3 DEF Prefix
  <2> QED BY <1>3, <2>1 DEF Successor
<1> QED BY <1>2, <1>3

LEMMA PredecessorOfPrefix ==
    ASSUME NEW list, Prefix(list), NEW s \in list
    PROVE  Predecessor(s, list) = (IF s = 1 THEN 1 ELSE s - 1) /\ Predecessor(s, list) \in list
<1> DEFINE before == {j \in list : j < s}
<1>1. list \subseteq Server /\ \A j \in list : j \in Nat \ {0}
  BY ServerIsNat DEF Prefix
<1>2. CASE s = 1
  <2>1. \A j \in list : ~(j < s)
    BY <1>1, <1>2
  <2> QED BY <1>2, <2>1 DEF Predecessor
<1>3. CASE s # 1
  <2>1. s \in Nat \ {0} /\ s - 1 \in Server /\ s - 1 < s
    BY <1>1, <1>3, MembershipAssumption DEF Server
  <2>2. s - 1 \in list
    BY <2>1 DEF Prefix
  <2>3. s - 1 \in before /\ \A j \in before : s - 1 >= j
    BY <1>1, <2>1, <2>2
  <2>4. \A x \in before : (\A y \in before : x >= y) => x = s - 1
    BY <1>1, <2>1, <2>3
  <2>5. Max(before) = s - 1
    <3> HIDE DEF before
    <3> QED BY <2>3, <2>4 DEF Max
  <2> QED BY <1>3, <2>2, <2>3, <2>5 DEF Predecessor
<1> QED BY <1>2, <1>3

LEMMA HeadOfPrefix ==
    ASSUME NEW list, Prefix(list)
    PROVE  Min(list) = 1
<1>1. 1 \in list /\ \A j \in list : j \in Nat /\ 1 =< j
  BY ServerIsNat DEF Prefix
<1>2. \A x \in list : (\A y \in list : x =< y) => x = 1
  BY <1>1
<1> QED BY <1>1, <1>2 DEF Min

-----------------------------------------------------------------------------
(* What the steps of a thread have in common.                              *)

\* The states the invariant speaks of.
Good == MembersTypeOK /\ TablesTypeOK /\ MembersOK /\ TablesOK

\* Thread t of s becomes th: it may set the watches of s, take an event of s and
\* change its next server.  Only a thread that is not the main loop does.
Local(s, t, th) ==
    /\ Up(s) /\ th \in ThreadState /\ StateOK(s, t, th)
    /\ Becomes(s, t, th)
    /\ t = "main" => ~InLoop(s)
    /\ UNCHANGED <<status, znodes, fault>>
    /\ \E watches \in SUBSET Watch : armed' = [armed EXCEPT ![s] = watches]
    /\ \/ events' = events
       \/ /\ events[s] # <<>>
          /\ \E rest \in Seq(SUBSET Watch) : events' = [events EXCEPT ![s] = rest]
    /\ \/ next' = next
       \/ /\ s + 1 \in znodes
          /\ next' = [next EXCEPT ![s] = s + 1]
       \/ /\ t = "main"
          /\ next' = [next EXCEPT ![s] = NULL]

\* A thread that does something is one of a server that runs.
LEMMA Busy ==
    ASSUME MembersOK, NEW s \in Server, NEW t \in Thread, thread[s][t].pc # "idle"
    PROVE  Up(s) /\ s \in znodes
BY DEF MembersOK, MemberOK, AbsentOK, Idle

LEMMA LocalTypes ==
    ASSUME MembersTypeOK, NEW s \in Server, NEW t \in Thread, NEW th, Local(s, t, th)
    PROVE  MembersTypeOK'
<1>1. thread' \in [Server -> [Thread -> ThreadState]]
  BY DEF Local, MembersTypeOK, Becomes
<1>2. armed' \in [Server -> SUBSET Watch]
  BY DEF Local, MembersTypeOK
<1>3. events' \in [Server -> Seq(SUBSET Watch)]
  BY DEF Local, MembersTypeOK
<1>4. next' \in [Server -> Server \cup {NULL}]
  BY DEF Local, MembersTypeOK
<1> QED BY <1>1, <1>2, <1>3, <1>4 DEF Local, MembersTypeOK

\* What a thread of another server, or another thread, was doing it still does.
LEMMA LocalThreads ==
    ASSUME MembersTypeOK, NEW s \in Server, NEW t \in Thread, NEW th, Local(s, t, th)
    PROVE  /\ thread'[s][t] = th
           /\ \A r \in Server, u \in Thread :
                 r # s \/ u # t => thread'[r][u] = thread[r][u]
           /\ \A r \in Server : r # s => thread'[r] = thread[r]
BY DEF Local, MembersTypeOK, Becomes

LEMMA LocalMembers ==
    ASSUME MembersTypeOK, MembersOK,
           NEW s \in Server, NEW t \in Thread, NEW th, Local(s, t, th)
    PROVE  MembersOK'
<1>1. Prefix(znodes)'
  BY DEF Local, MembersOK, Prefix
<1>2. ASSUME NEW r \in Server PROVE MemberOK(r)'
  <2>1. MemberOK(r) /\ Up(s)
    BY DEF MembersOK, Local
  <2>2. (status[r] # "dead" /\ (Up(r) <=> r \in znodes))'
    BY <2>1 DEF MemberOK, Local, Up
  <2>3. (next[r] # NULL => next[r] = r + 1 /\ r + 1 \in znodes)'
    BY <2>1 DEF MemberOK, Local, MembersTypeOK
  <2>4. (events[r] # <<>> => r + 1 \in znodes)'
    BY <2>1 DEF MemberOK, Local, MembersTypeOK
  <2>5. AbsentOK(r)'
    <3>1. CASE r = s
      BY <2>1, <3>1 DEF AbsentOK, Local, Up
    <3>2. CASE r # s
      <4>1. /\ thread'[r] = thread[r] /\ armed'[r] = armed[r]
            /\ events'[r] = events[r] /\ next'[r] = next[r] /\ status' = status
        BY <3>2, LocalThreads DEF Local, MembersTypeOK
      <4> QED BY <2>1, <4>1 DEF MemberOK, AbsentOK, Up
    <3> QED BY <3>1, <3>2
  <2>6. ASSUME NEW u \in Thread PROVE StateOK(r, u, thread[r][u])'
    <3>1. StateOK(r, u, thread[r][u]) /\ StateOK(s, t, th)
      BY <2>1 DEF MemberOK, Local
    <3>2. thread'[r][u] = IF r = s /\ u = t THEN th ELSE thread[r][u]
      BY LocalThreads
    <3>3. znodes' = znodes
      BY DEF Local
    <3> QED BY <3>1, <3>2, <3>3 DEF StateOK
  <2> QED BY <2>2, <2>3, <2>4, <2>5, <2>6 DEF MemberOK
<1> QED BY <1>1, <1>2 DEF MembersOK

\* A server that accepts connections goes on accepting them, and connects to the
\* server after it only.
LEMMA LocalLoops ==
    ASSUME MembersTypeOK, NEW s \in Server, NEW t \in Thread, NEW th, Local(s, t, th),
           NEW r \in Server, InLoop(r)
    PROVE  /\ InLoop(r)'
           /\ next'[r] = next[r] \/ next'[r] = r + 1
<1>1. thread'[r]["main"] = thread[r]["main"]
  BY LocalThreads DEF Local, Thread
<1>2. InLoop(r)'
  BY <1>1 DEF InLoop, Up, Local
<1>3. next'[r] = next[r] \/ next'[r] = r + 1
  BY DEF Local, MembersTypeOK
<1> QED BY <1>2, <1>3

-----------------------------------------------------------------------------
(* Steps of the members that leave the tables alone.                       *)

LEMMA ServersAreNotNull == NULL \notin Server /\ \A s \in Server : s \in Int
BY MembershipAssumption DEF Server

\* A server that has not registered has no table, and is not of the first chain.
LEMMA NoTableYet ==
    ASSUME Good, NEW s \in Server, s \notin znodes
    PROVE  /\ s \notin answered /\ s > Settled0
           /\ \A k \in Key : table[s][k] = NULL
<1>1. MergeOK(s) /\ MemberOK(s)
  BY DEF Good, TablesOK, MembersOK
<1>2. ~InLoop(s)
  BY <1>1 DEF MemberOK, InLoop
<1>3. s \notin answered /\ ~(s =< Settled0)
  BY <1>1, <1>2 DEF MergeOK
<1>4. s > Settled0
  BY <1>3, ServersAreNotNull, JoinAssumption, MembershipAssumption
<1> QED BY <1>1, <1>3, <1>4 DEF MergeOK

\* The server whose request is under way accepts connections.
LEMMA PendingLoops ==
    ASSUME Good, NEW p \in Server, Underway(p, p + 1, request.key)
    PROVE  InLoop(p) /\ request.key \in Key
<1>1. p + 1 # NULL
  BY MembershipAssumption DEF Server
<1> QED BY <1>1, ServersAreNotNull DEF Good, TablesOK, RequestOK, Underway

LEMMA PendingIsUnderway ==
    ASSUME NEW p, NEW k, Pending(p, k)
    PROVE  Underway(p, p + 1, request.key) /\ request.key = k
BY DEF Pending, Underway

\* What a step that leaves the tables alone must do to keep them in agreement.
LEMMA QuietTables ==
    ASSUME Good, UNCHANGED tables, znodes \subseteq znodes', znodes' \subseteq Server,
           \A r \in Server : InLoop(r) => /\ InLoop(r)'
                                          /\ next'[r] = next[r] \/ next'[r] = r + 1,
           \A r \in Server : r \notin answered /\ r > Settled0 =>
                                thread'[r]["main"].pc \notin {"accept", "loop"}
    PROVE  TablesOK'
<1>1. RequestOK'
  <2>1. RequestOK
    BY DEF Good, TablesOK
  <2>2. ASSUME NEW p \in Server, Underway(p, p + 1, request.key)'
        PROVE  (InLoop(p) /\ Written(p))'
    <3>1. Underway(p, p + 1, request.key)
      BY <2>2 DEF Underway, tables
    <3> QED BY <2>1, <3>1 DEF RequestOK, Written, tables
  <2>3. request' = request /\ waits' = waits
    BY DEF tables
  <2> QED BY <2>1, <2>2, <2>3 DEF RequestOK
<1>2. ASSUME NEW s \in Server PROVE MergeOK(s)'
  <2>1. MergeOK(s)
    BY DEF Good, TablesOK
  <2>2. s =< Settled0 => InLoop(s)' /\ (s < Settled0 => next'[s] = s + 1)
    <3> SUFFICES ASSUME s =< Settled0 PROVE InLoop(s)' /\ (s < Settled0 => next'[s] = s + 1)
      OBVIOUS
    <3>1. InLoop(s) /\ (s < Settled0 => next[s] = s + 1)
      BY <2>1 DEF MergeOK
    <3> QED BY <3>1
  <2>3. s \in answered => InLoop(s - 1)'
    <3>1. s > 1 => s - 1 \in Server
      BY MembershipAssumption DEF Server
    <3> QED BY <2>1, <3>1 DEF MergeOK
  <2> QED BY <2>1, <2>2, <2>3 DEF MergeOK, tables
<1>3. ASSUME NEW p \in Server PROVE PairOK(p)'
  <2> SUFFICES ASSUME p + 1 \in znodes', NEW k \in Key, k \notin exposed[p + 1]
               PROVE  AgreeOn(p, p + 1, k)'
    BY DEF PairOK, tables
  <2>1. CASE p + 1 \in znodes
    <3>1. AgreeOn(p, p + 1, k)
      BY <2>1 DEF Good, TablesOK, PairOK
    <3>2. Pending(p, k) => Pending(p, k)'
      BY DEF Pending, tables
    <3>3. Coming(p, k) => Coming(p, k)'
      <4> SUFFICES ASSUME Coming(p, k) PROVE Coming(p, k)'
        OBVIOUS
      <4>1. InLoop(p)
        BY PendingLoops, PendingIsUnderway DEF Coming
      <4> QED BY <3>2, <4>1 DEF Coming, tables
    <3> QED BY <3>1, <3>2, <3>3 DEF AgreeOn, Due, tables
  <2>2. CASE p + 1 \notin znodes
    <3>1. p + 1 \notin answered /\ table[p + 1][k] = NULL
      BY <2>2, NoTableYet
    <3> QED BY <3>1 DEF AgreeOn, tables
  <2> QED BY <2>1, <2>2
<1> QED BY <1>1, <1>2, <1>3 DEF TablesOK

\* Thread t of s becomes th, and neither holds entries.
LEMMA LocalQuiet ==
    ASSUME Good, NEW s \in Server, NEW t \in Thread, NEW th, Local(s, t, th),
           UNCHANGED tables, thread[s][t].pc # "put", th.pc # "put",
           t = "main" /\ th.pc \in {"accept", "loop"} => thread[s]["main"].pc = "accept"
    PROVE  Good'
<1>1. MembersTypeOK' /\ MembersOK'
  BY LocalTypes, LocalMembers DEF Good
<1>2. TablesTypeOK'
  <2>1. ASSUME NEW r \in Server, NEW u \in Thread
        PROVE  (thread[r][u].pc = "put" <=> Up(r) /\ entries[r][u] # {})'
    <3>1. thread[r][u].pc = "put" <=> Up(r) /\ entries[r][u] # {}
      BY DEF Good, TablesTypeOK
    <3>2. thread'[r][u].pc = "put" <=> thread[r][u].pc = "put"
      BY LocalThreads DEF Good
    <3> QED BY <3>1, <3>2 DEF Up, Local, tables
  <2> QED BY <2>1 DEF Good, TablesTypeOK, tables
<1>3. ASSUME NEW r \in Server, r \notin answered, r > Settled0
      PROVE  thread'[r]["main"].pc \notin {"accept", "loop"}
  <2>1. thread[r]["main"].pc \notin {"accept", "loop"}
    BY <1>3 DEF Good, TablesOK, MergeOK
  <2>2. thread'[r]["main"] = thread[r]["main"] \/ (r = s /\ t = "main" /\ thread'[r]["main"] = th)
    BY LocalThreads DEF Good, Thread
  <2> QED BY <2>1, <2>2
<1>4. TablesOK'
  <2>1. znodes \subseteq znodes' /\ znodes' \subseteq Server
    BY DEF Local, Good, MembersTypeOK
  <2>2. \A r \in Server : InLoop(r) => /\ InLoop(r)'
                                       /\ next'[r] = next[r] \/ next'[r] = r + 1
    BY LocalLoops DEF Good
  <2> QED BY <1>3, <2>1, <2>2, QuietTables
<1> QED BY <1>1, <1>2, <1>4 DEF Good

-----------------------------------------------------------------------------
(* The steps of the members.                                               *)

LEMMA IdleState == Idle \in ThreadState
BY DEF Idle, ThreadState, Pc

\* After a callback a thread rests, or main goes on with its start.
LEMMA ReturnState ==
    ASSUME NEW s \in Server, NEW t \in Thread, thread[s][t].watch \in Watch
    PROVE  LET th == AfterCallback(s, t) IN
           /\ th \in ThreadState /\ StateOK(s, t, th) /\ th.pc \in {"idle", "children", "accept"}
           /\ th.pc = "accept" => t = "main" /\ thread[s][t].watch = "prev"
<1>1. CASE t = "completion"
  BY <1>1, IdleState DEF AfterCallback, Idle, StateOK, Thread
<1>2. CASE t = "main" /\ thread[s][t].watch = "next"
  <2>1. AfterCallback(s, t) = [Idle EXCEPT !.pc = "children", !.watch = "prev"]
    BY <1>2 DEF AfterCallback
  <2> QED BY <1>2, <2>1 DEF Idle, StateOK, ThreadState, Pc, Watch
<1>3. CASE t = "main" /\ thread[s][t].watch = "prev"
  <2>1. AfterCallback(s, t) = [Idle EXCEPT !.pc = "accept"]
    BY <1>3 DEF AfterCallback
  <2> QED BY <1>3, <2>1 DEF Idle, StateOK, ThreadState, Pc, Watch
<1> QED BY <1>1, <1>2, <1>3 DEF Thread, Watch

\* A thread goes on with its callback.
LEMMA GoesState ==
    ASSUME MembersTypeOK, NEW s \in Server, NEW t \in Thread,
           NEW pc \in {"switch", "set", "merge", "put"},
           NEW to \in Server \cup {NULL}, Goes(s, t, pc, to)
    PROVE  \E th \in ThreadState :
              /\ Becomes(s, t, th)
              /\ th.pc = pc /\ th.to = to /\ th.watch = thread[s][t].watch /\ th.list = {}
<1> DEFINE th == [thread[s][t] EXCEPT !.pc = pc, !.list = {}, !.to = to]
<1>1. thread[s][t] \in ThreadState
  BY DEF MembersTypeOK
<1>2. th \in ThreadState /\ th.pc = pc /\ th.to = to /\ th.watch = thread[s][t].watch
      /\ th.list = {}
  BY <1>1 DEF ThreadState, Pc
<1>3. Becomes(s, t, th)
  BY DEF Goes
<1> HIDE DEF th
<1> QED BY <1>2, <1>3

\* A program error ends the run: the tables keep their types.
LEMMA FaultEnds ==
    ASSUME Good, NEW s \in Server, Fault(s), UNCHANGED tables
    PROVE  IInv'
<1>1. MembersTypeOK'
  <2>1. [t \in Thread |-> Idle] \in [Thread -> ThreadState]
    BY IdleState
  <2>2. thread' \in [Server -> [Thread -> ThreadState]]
    BY <2>1 DEF Fault, Die, Good, MembersTypeOK
  <2>3. events' \in [Server -> Seq(SUBSET Watch)]
    <3>1. <<>> \in Seq(SUBSET Watch)
      OBVIOUS
    <3> QED BY <3>1 DEF Fault, Die, Good, MembersTypeOK
  <2> QED BY <2>2, <2>3 DEF Fault, Die, Good, MembersTypeOK
<1>2. TablesTypeOK'
  <2>1. ASSUME NEW r \in Server, NEW u \in Thread
        PROVE  (thread[r][u].pc = "put" <=> Up(r) /\ entries[r][u] # {})'
    <3>1. thread[r][u].pc = "put" <=> Up(r) /\ entries[r][u] # {}
      BY DEF Good, TablesTypeOK
    <3>2. CASE r = s
      <4>1. thread'[s] = [t \in Thread |-> Idle] /\ status'[s] = "dead"
        BY DEF Fault, Die, Good, MembersTypeOK
      <4> QED BY <3>2, <4>1 DEF Up, Idle
    <3>3. CASE r # s
      <4>1. thread'[r] = thread[r] /\ status'[r] = status[r]
        BY <3>3 DEF Fault, Die, Good, MembersTypeOK
      <4> QED BY <3>1, <4>1 DEF Up, tables
    <3> QED BY <3>2, <3>3
  <2> QED BY <2>1 DEF Good, TablesTypeOK, tables
<1>3. ~NoFaultYet'
  BY DEF Fault, Good, MembersTypeOK, NoFaultYet
<1> QED BY <1>1, <1>2, <1>3 DEF IInv

LEMMA GoodIsIInv == Good' => IInv'
BY DEF Good, IInv

\* A thread reads the children for watch w of s.
LEMMA GetChildrenState ==
    ASSUME Good, NEW s \in Server, NEW t \in Thread, NEW w \in Watch, Up(s),
           t = "completion" => s + 1 \in znodes
    PROVE  LET th == [pc |-> "select", watch |-> w, list |-> znodes, to |-> NULL] IN
           th \in ThreadState /\ StateOK(s, t, th) /\ th.pc = "select"
<1>1. s \in znodes /\ Prefix(znodes)
  BY DEF Good, MembersOK, MemberOK
<1>2. znodes \in SUBSET Server
  BY DEF Good, MembersTypeOK
<1> QED BY <1>1, <1>2 DEF StateOK, ThreadState, Pc

LEMMA MainGood ==
    ASSUME Good, NEW s \in Server, Main(s), UNCHANGED tables
    PROVE  Good'
<1>1. thread[s]["main"].pc \in {"children", "accept"} /\ "main" \in Thread
  BY DEF Main, zk_get_children, network_main_loop, Thread
<1>2. Up(s) /\ ~InLoop(s)
  BY <1>1, Busy DEF Good, InLoop
<1>3. CASE zk_get_children(s)
  <2> DEFINE w == thread[s]["main"].watch
             th == [pc |-> "select", watch |-> w, list |-> znodes, to |-> NULL]
  <2>1. StateOK(s, "main", thread[s]["main"])
    BY <1>1 DEF Good, MembersOK, MemberOK
  <2>2. w \in Watch
    BY <1>3, <2>1 DEF StateOK, zk_get_children
  <2>3. th \in ThreadState /\ StateOK(s, "main", th) /\ th.pc = "select"
    BY <1>1, <1>2, <2>2, GetChildrenState
  <2>4. armed[s] \cup {w} \in SUBSET Watch
    BY <2>2 DEF Good, MembersTypeOK
  <2>5. /\ armed' = [armed EXCEPT ![s] = armed[s] \cup {w}]
        /\ Becomes(s, "main", th)
        /\ UNCHANGED <<status, znodes, fault, events, next>>
    BY <1>3 DEF zk_get_children, GetChildren
  <2>6. Local(s, "main", th)
    <3> HIDE DEF th, w
    <3> QED BY <1>2, <2>3, <2>4, <2>5 DEF Local
  <2> QED BY <1>1, <2>3, <2>6, LocalQuiet
<1>4. CASE network_main_loop(s)
  <2> DEFINE th == [Idle EXCEPT !.pc = "loop"]
  <2>1. th \in ThreadState /\ StateOK(s, "main", th) /\ th.pc = "loop"
    BY DEF Idle, ThreadState, Pc, StateOK
  <2>2. /\ Becomes(s, "main", th)
        /\ UNCHANGED <<status, znodes, fault, events, next, armed>>
    BY <1>4 DEF network_main_loop, history
  <2>3. armed[s] \in SUBSET Watch /\ armed = [armed EXCEPT ![s] = armed[s]]
    BY DEF Good, MembersTypeOK
  <2>4. Local(s, "main", th)
    <3> HIDE DEF th
    <3> QED BY <1>2, <2>1, <2>2, <2>3 DEF Local
  <2>5. thread[s]["main"].pc = "accept"
    BY <1>4 DEF network_main_loop
  <2> QED BY <1>1, <2>1, <2>4, <2>5, LocalQuiet
<1> QED BY <1>3, <1>4 DEF Main

\* What is left of the events of s when a watch of the first one is called.
LEMMA EventsLeft ==
    ASSUME MembersTypeOK, NEW s \in Server, NEW w \in Watch, Called(s, w)
    PROVE  \E rest \in Seq(SUBSET Watch) : events' = [events EXCEPT ![s] = rest]
<1> DEFINE rest == IF Head(events[s]) = {w} THEN Tail(events[s])
                   ELSE <<Head(events[s]) \ {w}>> \o Tail(events[s])
<1>1. events[s] \in Seq(SUBSET Watch) /\ events[s] # <<>>
  BY DEF MembersTypeOK, Called
<1>2. Head(events[s]) \in SUBSET Watch /\ Tail(events[s]) \in Seq(SUBSET Watch)
  BY <1>1
<1>3. <<Head(events[s]) \ {w}>> \in Seq(SUBSET Watch)
  BY <1>2
<1>4. rest \in Seq(SUBSET Watch)
  <2>1. <<Head(events[s]) \ {w}>> \o Tail(events[s]) \in Seq(SUBSET Watch)
    BY <1>2, <1>3
  <2> QED BY <1>2, <2>1
<1>5. events' = [events EXCEPT ![s] = rest]
  BY DEF Called
<1> QED BY <1>4, <1>5

LEMMA WatcherGood ==
    ASSUME Good, NEW s \in Server, zk_child_watcher(s), UNCHANGED tables
    PROVE  Good'
<1>1. PICK w \in Watch : /\ Called(s, w)
                         /\ GetChildren(s, "completion", w)
                         /\ UNCHANGED <<status, znodes, backlog, crashes, next, dangling,
                                        buffer, fault>>
  BY DEF zk_child_watcher
<1> DEFINE th == [pc |-> "select", watch |-> w, list |-> znodes, to |-> NULL]
<1>2. Up(s) /\ s + 1 \in znodes /\ events[s] # <<>> /\ thread[s]["completion"].pc = "idle"
  BY <1>1 DEF Called, Good, MembersOK, MemberOK, AbsentOK
<1>3. th \in ThreadState /\ StateOK(s, "completion", th) /\ th.pc = "select"
  BY <1>2, GetChildrenState DEF Thread
<1>4. armed[s] \cup {w} \in SUBSET Watch
  BY DEF Good, MembersTypeOK
<1>5. \E rest \in Seq(SUBSET Watch) : events' = [events EXCEPT ![s] = rest]
  BY <1>1, EventsLeft DEF Good
<1>6. /\ armed' = [armed EXCEPT ![s] = armed[s] \cup {w}]
      /\ Becomes(s, "completion", th)
      /\ UNCHANGED <<status, znodes, fault, next>>
  BY <1>1 DEF GetChildren
<1>7. Local(s, "completion", th)
  <2> HIDE DEF th
  <2> QED BY <1>2, <1>3, <1>4, <1>5, <1>6 DEF Local
<1>8. "completion" \in Thread
  BY DEF Thread
<1> QED BY <1>2, <1>3, <1>7, <1>8, LocalQuiet

\* A thread goes on with its callback, or ends it, and changes nothing else but
\* the accept queues and its buffer.
LEMMA StateGood ==
    ASSUME Good, NEW s \in Server, NEW t \in Thread, NEW th \in ThreadState,
           StateOK(s, t, th), Becomes(s, t, th), UNCHANGED tables,
           UNCHANGED <<status, znodes, fault, armed, events, next>>,
           thread[s][t].pc \notin {"idle", "put", "loop"}, th.pc \notin {"put", "loop", "accept"}
    PROVE  Good'
<1>1. Up(s)
  BY Busy DEF Good
<1>2. t = "main" => ~InLoop(s)
  BY DEF InLoop
<1>3. armed[s] \in SUBSET Watch /\ armed = [armed EXCEPT ![s] = armed[s]]
  BY DEF Good, MembersTypeOK
<1>4. Local(s, t, th)
  BY <1>1, <1>2, <1>3 DEF Local
<1> QED BY <1>4, LocalQuiet

LEMMA SelectNextGood ==
    ASSUME Good, NEW s \in Server, NEW t \in Thread, SelectNext(s, t), UNCHANGED tables
    PROVE  IInv'
<1> DEFINE list == thread[s][t].list
           q == Successor(s, list)
<1>1. thread[s][t].pc = "select" /\ thread[s][t].watch = "next"
  BY DEF SelectNext, At
<1>2. StateOK(s, t, thread[s][t]) /\ MembersTypeOK
  BY DEF Good, MembersOK, MemberOK
<1>3. Prefix(list) /\ list \subseteq znodes /\ (t = "completion" => s + 1 \in list)
  BY <1>1, <1>2 DEF StateOK
<1>4. q = IF s + 1 \in list THEN s + 1 ELSE NULL
  BY <1>3, SuccessorOfPrefix
<1>5. ASSUME NEW to \in Server \cup {NULL}, Goes(s, t, "switch", to), to = q,
             UNCHANGED <<status, znodes, fault, armed, events, next>>
      PROVE  Good'
  <2>1. PICK th \in ThreadState :
               /\ Becomes(s, t, th)
               /\ th.pc = "switch" /\ th.to = to /\ th.watch = "next"
    BY <1>1, <1>2, <1>5, GoesState
  <2>3. (th.to = s + 1 /\ s + 1 \in znodes) \/ (th.to = NULL /\ t = "main")
    BY <1>3, <1>4, <1>5, <2>1 DEF Thread
  <2>4. t = "completion" => s + 1 \in znodes
    BY <1>3
  <2>5. StateOK(s, t, th)
    BY <2>1, <2>3, <2>4 DEF StateOK
  <2> QED BY <1>1, <1>5, <2>1, <2>5, StateGood
<1> HIDE DEF list, q
<1>6. CASE q = NULL
  <2>1. Goes(s, t, "switch", NULL) /\ UNCHANGED <<status, znodes, fault, armed, events, next>>
    BY <1>6 DEF SelectNext, world, history, q, list
  <2> QED BY <1>5, <1>6, <2>1, GoodIsIInv
<1>7. CASE q # NULL
  <2>1. q \in znodes /\ q \in Server
    BY <1>2, <1>3, <1>4, <1>7 DEF MembersTypeOK
  <2>2. \/ /\ Goes(s, t, "switch", q)
           /\ UNCHANGED <<status, znodes, fault, armed, events, next>>
        \/ Fault(s)
    BY <1>7, <2>1 DEF SelectNext, q, list
  <2> QED BY <1>5, <2>1, <2>2, FaultEnds, GoodIsIInv
<1> QED BY <1>6, <1>7

\* A thread that ends a callback of select_next_server, or goes on to its end.
LEMMA DropOldGood ==
    ASSUME Good, NEW s \in Server, NEW t \in Thread, DropOld(s, t), UNCHANGED tables
    PROVE  IInv'
<1> DEFINE to == thread[s][t].to
<1>1. thread[s][t].pc = "switch" /\ thread[s][t].watch = "next" /\ "next" \in Watch
  BY DEF DropOld, At, Watch
<1>2. StateOK(s, t, thread[s][t]) /\ MembersTypeOK
  BY DEF Good, MembersOK, MemberOK
<1>3. to \in Server \cup {NULL}
  BY <1>2 DEF MembersTypeOK, ThreadState
<1>4. ASSUME Goes(s, t, "set", to), UNCHANGED <<status, znodes, fault, armed, events, next>>
      PROVE  Good'
  <2>1. PICK th \in ThreadState :
               /\ Becomes(s, t, th)
               /\ th.pc = "set" /\ th.to = to /\ th.watch = "next"
    BY <1>1, <1>2, <1>3, <1>4, GoesState
  <2>3. StateOK(s, t, th)
    BY <1>1, <1>2, <2>1 DEF StateOK
  <2> QED BY <1>1, <1>4, <2>1, <2>3, StateGood
<1>5. ASSUME Returns(s, t), UNCHANGED <<status, znodes, fault, armed, events, next>>
      PROVE  Good'
  <2> DEFINE th == AfterCallback(s, t)
  <2>1. th \in ThreadState /\ StateOK(s, t, th) /\ th.pc \notin {"put", "loop", "accept"}
    BY <1>1, ReturnState
  <2>2. Becomes(s, t, th)
    BY <1>5 DEF Returns
  <2> HIDE DEF th
  <2> QED BY <1>1, <1>5, <2>1, <2>2, StateGood
<1>6. \/ Returns(s, t) /\ UNCHANGED <<status, znodes, fault, armed, events, next>>
      \/ Goes(s, t, "set", to) /\ UNCHANGED <<status, znodes, fault, armed, events, next>>
      \/ Fault(s)
  BY DEF DropOld, world, history
<1> QED BY <1>4, <1>5, <1>6, FaultEnds, GoodIsIInv

LEMMA SetNextGood ==
    ASSUME Good, NEW s \in Server, NEW t \in Thread, SetNext(s, t), UNCHANGED tables
    PROVE  Good'
<1> DEFINE th == AfterCallback(s, t)
           to == thread[s][t].to
<1>1. /\ thread[s][t].pc = "set" /\ thread[s][t].watch = "next" /\ "next" \in Watch
      /\ Becomes(s, t, th)
      /\ UNCHANGED <<status, znodes, fault, armed, events>>
      /\ next' = [next EXCEPT ![s] = to]
  BY DEF SetNext, At, Watch, Returns, world, history
<1>2. StateOK(s, t, thread[s][t]) /\ MembersTypeOK
  BY DEF Good, MembersOK, MemberOK
<1>3. (to = s + 1 /\ s + 1 \in znodes) \/ (to = NULL /\ t = "main")
  BY <1>1, <1>2 DEF StateOK
<1>4. th \in ThreadState /\ StateOK(s, t, th) /\ th.pc \notin {"put", "loop", "accept"}
  BY <1>1, ReturnState
<1>5. Up(s)
  BY <1>1, Busy DEF Good
<1>6. t = "main" => ~InLoop(s)
  BY <1>1 DEF InLoop
<1>7. armed[s] \in SUBSET Watch /\ armed = [armed EXCEPT ![s] = armed[s]]
  BY DEF Good, MembersTypeOK
<1>8. Local(s, t, th)
  <2> HIDE DEF th, to
  <2> QED BY <1>1, <1>3, <1>4, <1>5, <1>6, <1>7 DEF Local
<1> HIDE DEF th
<1> QED BY <1>1, <1>4, <1>8, LocalQuiet

LEMMA SelectPrevGood ==
    ASSUME Good, NEW s \in Server, NEW t \in Thread, SelectPrev(s, t), UNCHANGED tables
    PROVE  IInv'
<1> DEFINE list == thread[s][t].list
           q == Predecessor(s, list)
<1>1. thread[s][t].pc = "select" /\ thread[s][t].watch = "prev" /\ "prev" \in Watch
  BY DEF SelectPrev, At, Watch
<1>2. StateOK(s, t, thread[s][t]) /\ MembersTypeOK
  BY DEF Good, MembersOK, MemberOK
<1>3. /\ Prefix(list) /\ list \subseteq znodes /\ s \in list
      /\ t = "completion" => s + 1 \in znodes
  BY <1>1, <1>2 DEF StateOK
<1>4. q = (IF s = 1 THEN 1 ELSE s - 1) /\ q \in list
  BY <1>3, PredecessorOfPrefix
<1> HIDE DEF list, q
<1>5. ASSUME s = 1, Returns(s, t), UNCHANGED <<status, znodes, fault, armed, events, next>>
      PROVE  Good'
  <2> DEFINE th == AfterCallback(s, t)
  <2>1. InLoop(1)
    BY ServerIsNat, JoinAssumption DEF Good, TablesOK, MergeOK
  <2>2. t = "completion"
    BY <1>1, <1>5, <2>1 DEF InLoop, Thread
  <2>3. th \in ThreadState /\ StateOK(s, t, th) /\ th.pc \notin {"put", "loop", "accept"}
    BY <1>1, <2>2, ReturnState
  <2>4. Becomes(s, t, th)
    BY <1>5 DEF Returns
  <2> HIDE DEF th
  <2> QED BY <1>1, <1>5, <2>3, <2>4, StateGood
<1>6. ASSUME s # 1, Goes(s, t, "merge", q),
             UNCHANGED <<status, znodes, fault, armed, events, next>>
      PROVE  Good'
  <2>1. q \in Server /\ q = s - 1 /\ s > 1
    BY <1>3, <1>4, <1>6, ServerIsNat DEF Prefix
  <2>2. PICK th \in ThreadState :
               /\ Becomes(s, t, th)
               /\ th.pc = "merge" /\ th.to = q /\ th.watch = "prev" /\ th.list = {}
    BY <1>1, <1>2, <2>1, <1>6, GoesState
  <2>4. StateOK(s, t, th)
    BY <1>3, <2>1, <2>2 DEF StateOK
  <2> QED BY <1>1, <1>6, <2>2, <2>4, StateGood
<1>7. q \in znodes /\ (q = s <=> s = 1)
  BY <1>3, <1>4, ServerIsNat DEF Prefix
<1>8. \/ s = 1 /\ Returns(s, t) /\ UNCHANGED <<status, znodes, fault, armed, events, next>>
      \/ s # 1 /\ Goes(s, t, "merge", q) /\ UNCHANGED <<status, znodes, fault, armed, events, next>>
      \/ Fault(s)
  BY <1>7 DEF SelectPrev, history, q, list
<1> QED BY <1>5, <1>6, <1>8, FaultEnds, GoodIsIInv

\* A server registers after all the others.
LEMMA RegisterFacts ==
    ASSUME Good, NEW s \in Server, Register(s)
    PROVE  /\ s \notin znodes /\ ~Up(s) /\ znodes' = znodes \cup {s} /\ Prefix(znodes')
           /\ s # 1
           /\ \A r \in znodes : r + 1 \in znodes'
<1>1. /\ status[s] = "absent"
      /\ \A q \in Server : q < s => status[q] # "absent"
      /\ znodes' = znodes \cup {s}
  BY DEF Register, ChildrenChange
<1>2. s \notin znodes /\ ~Up(s)
  BY <1>1 DEF Up, Good, MembersOK, MemberOK
<1>3. \A q \in Server : q < s => q \in znodes
  BY <1>1 DEF Up, Good, MembersOK, MemberOK, MembersTypeOK
<1>4. Prefix(znodes)
  BY DEF Good, MembersOK
<1>5. s # 1
  BY <1>2, <1>4 DEF Prefix
<1>6. Prefix(znodes')
  BY <1>1, <1>3, <1>4 DEF Prefix
<1>7. ASSUME NEW r \in znodes PROVE r + 1 \in znodes'
  <2>1. r \in Server /\ r \in Nat /\ s \in Nat /\ r # s /\ ~(s < r)
    BY <1>2, <1>4, ServerIsNat DEF Prefix
  <2>2. r + 1 = s \/ r + 1 < s
    BY <2>1
  <2>3. r + 1 < s => r + 1 \in Server
    BY <2>1, MembershipAssumption DEF Server
  <2> QED BY <1>1, <1>3, <2>2, <2>3
<1> QED BY <1>1, <1>2, <1>5, <1>6, <1>7

LEMMA RegisterTypes ==
    ASSUME Good, NEW s \in Server, Register(s)
    PROVE  MembersTypeOK'
<1>1. ASSUME NEW r \in Server
      PROVE  (IF armed[r] = {} THEN events[r] ELSE Append(events[r], armed[r]))
              \in Seq(SUBSET Watch)
  <2>1. events[r] \in Seq(SUBSET Watch) /\ armed[r] \in SUBSET Watch
    BY DEF Good, MembersTypeOK
  <2> QED BY <2>1
<1>2. events' \in [Server -> Seq(SUBSET Watch)]
  BY <1>1 DEF Register, ChildrenChange
<1>3. [Idle EXCEPT !.pc = "children", !.watch = "next"] \in ThreadState
  BY DEF Idle, ThreadState, Pc, Watch
<1>4. thread' \in [Server -> [Thread -> ThreadState]]
  BY <1>3 DEF Register, Good, MembersTypeOK
<1>5. armed' \in [Server -> SUBSET Watch] /\ znodes' \subseteq Server
  BY DEF Register, ChildrenChange, Good, MembersTypeOK
<1>6. UNCHANGED <<next, fault>> /\ status' \in [Server -> {"absent", "up", "dead"}]
  BY DEF Register, Good, MembersTypeOK, history
<1> QED BY <1>2, <1>4, <1>5, <1>6 DEF Good, MembersTypeOK

\* The new server is alone changed, but for the events of the others.
LEMMA RegisterEffects ==
    ASSUME Good, NEW s \in Server, Register(s)
    PROVE  /\ status'[s] = "up" /\ events'[s] = <<>>
           /\ thread'[s]["main"].pc = "children" /\ thread'[s]["main"].watch = "next"
           /\ thread'[s]["completion"].pc = "idle"
           /\ \A r \in Server : r # s => thread'[r] = thread[r] /\ status'[r] = status[r]
           /\ next' = next
<1>1. armed[s] = {} /\ events[s] = <<>> /\ thread[s] = [t \in Thread |-> Idle]
  BY RegisterFacts DEF Good, MembersOK, MemberOK, AbsentOK
<1>2. events'[s] = <<>>
  BY <1>1 DEF Register, ChildrenChange
<1>3. /\ thread'[s]["main"] = [Idle EXCEPT !.pc = "children", !.watch = "next"]
      /\ thread'[s]["completion"] = thread[s]["completion"]
      /\ \A r \in Server : r # s => thread'[r] = thread[r]
  BY DEF Register, Good, MembersTypeOK, Thread
<1>4. thread[s]["completion"] = Idle
  BY <1>1 DEF Thread
<1>5. /\ thread'[s]["main"].pc = "children" /\ thread'[s]["main"].watch = "next"
      /\ thread'[s]["completion"].pc = "idle"
  BY <1>3, <1>4 DEF Idle
<1> QED BY <1>2, <1>3, <1>5 DEF Register, Good, MembersTypeOK

LEMMA RegisterMembers ==
    ASSUME Good, NEW s \in Server, Register(s)
    PROVE  MembersOK'
<1>1. ASSUME NEW r \in Server PROVE MemberOK(r)'
  <2>1. MemberOK(r)
    BY DEF Good, MembersOK
  <2>2. (status[r] # "dead" /\ (Up(r) <=> r \in znodes))'
    BY <2>1, RegisterFacts, RegisterEffects DEF MemberOK, Up
  <2>3. AbsentOK(r)'
    <3> SUFFICES ASSUME ~Up(r)' PROVE AbsentOK(r)'
      BY DEF AbsentOK
    <3>1. r # s /\ ~Up(r)
      BY RegisterEffects DEF Up
    <3>2. armed[r] = {} /\ events[r] = <<>> /\ thread[r] = [t \in Thread |-> Idle]
          /\ next[r] = NULL
      BY <2>1, <3>1 DEF MemberOK, AbsentOK
    <3>3. armed'[r] = {} /\ events'[r] = <<>>
      BY <3>2 DEF Register, ChildrenChange
    <3> QED BY <3>1, <3>2, <3>3, RegisterEffects DEF AbsentOK
  <2>4. (next[r] # NULL => next[r] = r + 1 /\ r + 1 \in znodes)'
    BY <2>1, RegisterFacts, RegisterEffects DEF MemberOK
  <2>5. (events[r] # <<>> => r + 1 \in znodes)'
    <3>1. CASE r \in znodes
      BY <3>1, RegisterFacts
    <3>2. CASE r \notin znodes
      <4>1. armed[r] = {} /\ events[r] = <<>>
        BY <2>1, <3>2 DEF MemberOK, AbsentOK
      <4> QED BY <4>1 DEF Register, ChildrenChange
    <3> QED BY <3>1, <3>2
  <2>6. ASSUME NEW t \in Thread PROVE StateOK(r, t, thread[r][t])'
    <3>1. CASE r = s
      <4>1. CASE t = "main"
        BY <3>1, <4>1, RegisterEffects DEF StateOK, Watch
      <4>2. CASE t = "completion"
        BY <3>1, <4>2, RegisterEffects DEF StateOK
      <4> QED BY <4>1, <4>2 DEF Thread
    <3>2. CASE r # s
      <4>1. StateOK(r, t, thread[r][t]) /\ thread'[r][t] = thread[r][t]
            /\ znodes \subseteq znodes'
        BY <2>1, <3>2, RegisterFacts, RegisterEffects DEF MemberOK
      <4> QED BY <4>1 DEF StateOK
    <3> QED BY <3>1, <3>2
  <2> QED BY <2>2, <2>3, <2>4, <2>5, <2>6 DEF MemberOK
<1> QED BY <1>1, RegisterFacts DEF MembersOK

LEMMA RegisterGood ==
    ASSUME Good, NEW s \in Server, Register(s), UNCHANGED tables
    PROVE  Good'
<1>1. MembersTypeOK' /\ MembersOK'
  BY RegisterTypes, RegisterMembers
<1>2. TablesTypeOK'
  <2>1. ASSUME NEW r \in Server, NEW u \in Thread
        PROVE  (thread[r][u].pc = "put" <=> Up(r) /\ entries[r][u] # {})'
    <3>1. thread[r][u].pc = "put" <=> Up(r) /\ entries[r][u] # {}
      BY DEF Good, TablesTypeOK
    <3>2. CASE r = s
      <4>1. entries[s][u] = {}
        BY RegisterFacts, NoTableYet DEF Good, TablesOK, MergeOK
      <4>2. u = "main" \/ u = "completion"
        BY DEF Thread
      <4>3. thread'[s][u].pc # "put"
        BY <4>2, RegisterEffects
      <4> QED BY <3>2, <4>1, <4>3 DEF tables
    <3>3. CASE r # s
      BY <3>1, <3>3, RegisterEffects DEF Up, tables
    <3> QED BY <3>2, <3>3
  <2> QED BY <2>1 DEF Good, TablesTypeOK, tables
<1>3. ASSUME NEW r \in Server, InLoop(r)
      PROVE  InLoop(r)' /\ (next'[r] = next[r] \/ next'[r] = r + 1)
  <2>1. r # s
    BY <1>3, RegisterFacts DEF InLoop
  <2> QED BY <1>3, <2>1, RegisterEffects DEF InLoop, Up
<1>4. ASSUME NEW r \in Server, r \notin answered, r > Settled0
      PROVE  thread'[r]["main"].pc \notin {"accept", "loop"}
  <2>1. thread[r]["main"].pc \notin {"accept", "loop"}
    BY <1>4 DEF Good, TablesOK, MergeOK
  <2> QED BY <2>1, RegisterEffects
<1>5. znodes \subseteq znodes' /\ znodes' \subseteq Server
  BY <1>1, RegisterFacts DEF MembersTypeOK
<1>6. TablesOK'
  BY <1>3, <1>4, <1>5, QuietTables
<1> QED BY <1>1, <1>2, <1>6 DEF Good

-----------------------------------------------------------------------------
(* The requests.                                                           *)

LEMMA SettledIsNat == Settled0 \in Nat \ {0}
BY JoinAssumption, MembershipAssumption

\* A step of the client or of a handler leaves the members alone.
LEMMA MembersStay ==
    ASSUME Good, UNCHANGED vars
    PROVE  /\ MembersTypeOK' /\ MembersOK'
           /\ znodes' = znodes /\ next' = next /\ thread' = thread /\ status' = status
           /\ \A r \in Server : InLoop(r)' = InLoop(r)
<1>1. UNCHANGED <<status, znodes, armed, events, thread, next, fault>>
  BY DEF vars, world, local, history
<1>2. MembersTypeOK'
  BY <1>1 DEF Good, MembersTypeOK
<1>3. ASSUME NEW r \in Server PROVE MemberOK(r)'
  <2>1. MemberOK(r)
    BY DEF Good, MembersOK
  <2> QED BY <1>1, <2>1 DEF MemberOK, AbsentOK, StateOK, Up
<1>4. MembersOK'
  BY <1>1, <1>3 DEF Good, MembersOK
<1> QED BY <1>1, <1>2, <1>4 DEF InLoop, Up

\* The server after p, as the exposed keys see it.
LEMMA Next1 ==
    ASSUME Good, NEW p \in Server
    PROVE  Successor(p, znodes) = IF p + 1 \in znodes THEN p + 1 ELSE NULL
BY SuccessorOfPrefix DEF Good, MembersOK

LEMMA ExposedByIs ==
    ASSUME Good, NEW p \in Server, NEW k
    PROVE  ExposedBy(p, k) =
              IF p + 1 \in znodes /\ p + 1 \in answered
                 /\ (next[p] # p + 1 \/ MergingAt(p + 1))
              THEN {p + 1} ELSE {}
<1>1. NULL \notin answered
  BY ServersAreNotNull DEF Good, TablesTypeOK
<1> QED BY <1>1, Next1 DEF ExposedBy

\* The value of one key of one server changes.
LEMMA TablePut ==
    ASSUME Good, NEW s \in Server, NEW k \in Key, NEW v \in Value \cup {NULL},
           table' = [table EXCEPT ![s][k] = v]
    PROVE  /\ table' \in [Server -> [Key -> Value \cup {NULL}]]
           /\ table'[s][k] = v
           /\ \A r \in Server, j \in Key : r # s \/ j # k => table'[r][j] = table[r][j]
<1>1. table \in [Server -> [Key -> Value \cup {NULL}]]
  BY DEF Good, TablesTypeOK
<1> QED BY <1>1

\* Requests in transit, and the agreement on a key, are not disturbed by what
\* happens to another key or to other servers.
LEMMA AgreeOnStays ==
    ASSUME NEW p \in Server, NEW k \in Key, AgreeOn(p, p + 1, k),
           table'[p][k] = table[p][k], table'[p + 1][k] = table[p + 1][k],
           entries'[p + 1] = entries[p + 1], p + 1 \in answered' <=> p + 1 \in answered,
           Pending(p, k) => Pending(p, k)', Coming(p, k) => Coming(p, k)'
    PROVE  AgreeOn(p, p + 1, k)'
BY DEF AgreeOn, Due

LEMMA MergeOKStays ==
    ASSUME Good, NEW s \in Server, znodes' = znodes, next' = next, thread' = thread,
           status' = status, answered' = answered, entries' = entries,
           s \notin answered /\ s > Settled0 => \A k \in Key : table'[s][k] = table[s][k]
    PROVE  MergeOK(s)'
<1>1. MergeOK(s)
  BY DEF Good, TablesOK
<1> QED BY <1>1 DEF MergeOK, InLoop, Up

\* The types of the request.
RequestType == [key : Key \cup {NULL}, value : Value \cup {NULL},
                at : Server \cup {NULL}, pc : Stage, refusals : 0 .. MaxRetries - 1]

LEMMA RefusalsType == 0 \in 0 .. MaxRetries - 1
BY JoinAssumption

LEMMA WriteGood ==
    ASSUME Good, NEW k \in Key, NEW v \in Value \cup {NULL}, Write(k, v)
    PROVE  Good'
<1>1. 1 \in Server /\ 1 \in znodes /\ Min(znodes) = 1
  BY HeadOfPrefix, ServerIsNat DEF Good, MembersOK, Prefix
<1>2. /\ request.at = NULL /\ InLoop(1)
      /\ writes < MaxWrites /\ writes' = writes + 1
      /\ table' = [table EXCEPT ![1][k] = v]
      /\ request' = [key |-> k, value |-> v, at |-> 1, pc |-> "applied", refusals |-> 0]
      /\ Expose(ExposedBy(1, k), k)
      /\ UNCHANGED <<vars, entries, waits, answered>>
  BY <1>1 DEF Write
<1>3. /\ MembersTypeOK' /\ MembersOK'
      /\ znodes' = znodes /\ next' = next /\ thread' = thread /\ status' = status
      /\ \A r \in Server : InLoop(r)' = InLoop(r)
  BY <1>2, MembersStay
<1>4. /\ table' \in [Server -> [Key -> Value \cup {NULL}]]
      /\ table'[1][k] = v
      /\ \A r \in Server, j \in Key : r # 1 \/ j # k => table'[r][j] = table[r][j]
  BY <1>1, <1>2 DEF Good, TablesTypeOK
<1>5. /\ exposed' \in [Server -> SUBSET Key]
      /\ \A r \in Server : exposed[r] \subseteq exposed'[r]
      /\ \A r \in Server : r \in ExposedBy(1, k) => k \in exposed'[r]
  BY <1>2 DEF Expose, Good, TablesTypeOK
<1>6. TablesTypeOK'
  <2>1. writes' \in 0 .. MaxWrites
    BY <1>2, JoinAssumption DEF Good, TablesTypeOK
  <2>2. request' \in RequestType
    BY <1>1, <1>2, RefusalsType DEF RequestType, Stage
  <2>3. entries' = entries /\ answered' = answered /\ waits' = waits
    BY <1>2
  <2>4. \A s \in Server : Up(s)' = Up(s)
    BY <1>3 DEF Up
  <2> QED BY <1>3, <1>4, <1>5, <2>1, <2>2, <2>3, <2>4 DEF Good, TablesTypeOK, RequestType
<1>7. RequestOK'
  <2>1. request'.at = 1 /\ request'.key = k /\ request'.value = v /\ request'.pc = "applied"
    BY <1>2
  <2>2. ASSUME NEW p \in Server, Underway(p, p + 1, request.key)'
        PROVE  (InLoop(p) /\ Written(p))'
    <3>1. p = 1
      BY <2>1, <2>2 DEF Underway
    <3> QED BY <1>2, <1>3, <1>4, <2>1, <3>1 DEF Written
  <2> QED BY <1>2, <2>1, <2>2 DEF Good, TablesOK, RequestOK
<1>8. ASSUME NEW s \in Server PROVE MergeOK(s)'
  <2>1. s > Settled0 => s # 1
    BY SettledIsNat
  <2> QED BY <1>2, <1>3, <1>4, <2>1, MergeOKStays
<1>9. ASSUME NEW p \in Server PROVE PairOK(p)'
  <2> SUFFICES ASSUME p + 1 \in znodes, NEW j \in Key, j \notin exposed'[p + 1]
               PROVE  AgreeOn(p, p + 1, j)'
    BY <1>3 DEF PairOK
  <2>1. p + 1 \in Server /\ p + 1 # 1 /\ p \in Nat
    BY ServerIsNat DEF Good, MembersTypeOK
  <2>2. AgreeOn(p, p + 1, j)
    BY <1>5, <2>1 DEF Good, TablesOK, PairOK
  <2>3. ~Pending(p, j) /\ ~Coming(p, j)
    BY <1>2, <2>1, ServersAreNotNull DEF Pending, Coming
  <2>4. CASE p # 1 \/ j # k
    <3>1. table'[p][j] = table[p][j] /\ table'[p + 1][j] = table[p + 1][j]
      BY <1>4, <2>1, <2>4
    <3> QED BY <1>2, <1>3, <2>2, <2>3, <3>1, AgreeOnStays
  <2>5. CASE p = 1 /\ j = k
    <3>1. Pending(p, j)'
      BY <1>2, <2>5 DEF Pending
    <3>2. CASE p + 1 \in answered
      <4>1. next[p] = p + 1 /\ ~MergingAt(p + 1)
        BY <1>5, <2>1, <2>5, <3>2, ExposedByIs
      <4> QED BY <1>2, <1>3, <3>1, <3>2, <4>1 DEF AgreeOn, MergingAt, Coming
    <3>3. CASE p + 1 \notin answered
      BY <1>2, <3>1, <3>3 DEF AgreeOn
    <3> QED BY <3>2, <3>3
  <2> QED BY <2>4, <2>5
<1> QED BY <1>3, <1>6, <1>7, <1>8, <1>9 DEF Good, TablesOK

\* A step of a handler that changes no table: what was pending still is, or the
\* servers agree without it.
LEMMA RequestMoves ==
    ASSUME Good, UNCHANGED <<vars, table, entries, writes, answered>>,
           request' \in RequestType, waits' \in [Server -> Server \cup {NULL}],
           exposed' \in [Server -> SUBSET Key],
           \A r \in Server : exposed[r] \subseteq exposed'[r],
           RequestOK',
           \A p \in Server, k \in Key : Pending(p, k) => request'.pc # "applied",
           \A p \in Server, k \in Key :
              p + 1 \in znodes /\ k \notin exposed'[p + 1] /\ Pending(p, k) /\ ~Pending(p, k)' =>
                 /\ ~Coming(p, k) \/ table[p][k] = table[p + 1][k]
                 /\ p + 1 \notin answered /\ table[p][k] = NULL => table[p + 1][k] = NULL
    PROVE  Good'
<1>1. /\ MembersTypeOK' /\ MembersOK'
      /\ znodes' = znodes /\ next' = next /\ thread' = thread /\ status' = status
      /\ \A r \in Server : InLoop(r)' = InLoop(r)
  BY MembersStay
<1>2. TablesTypeOK'
  <2>1. \A r \in Server : Up(r)' = Up(r)
    BY <1>1 DEF Up
  <2> QED BY <1>1, <2>1 DEF Good, TablesTypeOK, RequestType
<1>3. ASSUME NEW r \in Server PROVE MergeOK(r)'
  BY <1>1, MergeOKStays
<1>4. ASSUME NEW p \in Server PROVE PairOK(p)'
  <2> SUFFICES ASSUME p + 1 \in znodes, NEW j \in Key, j \notin exposed'[p + 1]
               PROVE  AgreeOn(p, p + 1, j)'
    BY <1>1 DEF PairOK
  <2>1. p + 1 \in Server /\ p \in Nat
    BY ServerIsNat DEF Good, MembersTypeOK
  <2>2. AgreeOn(p, p + 1, j)
    BY <2>1 DEF Good, TablesOK, PairOK
  <2>3. CASE Pending(p, j) => Pending(p, j)'
    <3>1. Coming(p, j) => Coming(p, j)'
      BY <2>3 DEF Coming
    <3> QED BY <2>2, <2>3, <3>1, AgreeOnStays
  <2>4. CASE Pending(p, j) /\ ~Pending(p, j)'
    <3>1. /\ ~Coming(p, j) \/ table[p][j] = table[p + 1][j]
          /\ p + 1 \notin answered /\ table[p][j] = NULL => table[p + 1][j] = NULL
      BY <2>4
    <3>2. CASE p + 1 \in answered
      BY <2>2, <3>1, <3>2 DEF AgreeOn, Due
    <3>3. CASE p + 1 \notin answered
      BY <3>1, <3>3 DEF AgreeOn
    <3> QED BY <3>2, <3>3
  <2> QED BY <2>3, <2>4
<1> QED BY <1>1, <1>2, <1>3, <1>4 DEF Good, TablesOK

\* What is waited for after one handler begins or ends to wait.
LEMMA WaitsType ==
    ASSUME Good, NEW s \in Server, NEW q \in Server \cup {NULL},
           waits' = [waits EXCEPT ![s] = q], q # NULL => q = s + 1
    PROVE  /\ waits' \in [Server -> Server \cup {NULL}]
           /\ \A p \in Server : waits'[p] # NULL => waits'[p] = p + 1
<1>1. waits \in [Server -> Server \cup {NULL}]
  BY DEF Good, TablesTypeOK
<1>2. \A p \in Server : waits[p] # NULL => waits[p] = p + 1
  BY DEF Good, TablesOK, RequestOK
<1>3. \A p \in Server : waits'[p] = IF p = s THEN q ELSE waits[p]
  BY <1>1
<1> QED BY <1>1, <1>2, <1>3

\* The request, with some of its fields changed.
LEMMA RequestFields ==
    ASSUME Good, NEW at \in Server, NEW pc \in Stage, NEW refusals \in 0 .. MaxRetries - 1,
           request' = [request EXCEPT !.at = at, !.pc = pc, !.refusals = refusals]
    PROVE  /\ request' \in RequestType
           /\ request'.key = request.key /\ request'.value = request.value
           /\ request'.at = at /\ request'.pc = pc
<1>1. request \in RequestType
  BY DEF Good, TablesTypeOK, RequestType
<1> QED BY <1>1 DEF RequestType

LEMMA RequestIs ==
    ASSUME Good
    PROVE  /\ request \in RequestType
           /\ request.refusals \in 0 .. MaxRetries - 1
           /\ request.value \in Value \cup {NULL}
           /\ request.key \in Key \cup {NULL}
<1>1. request \in RequestType
  BY DEF Good, TablesTypeOK, RequestType
<1> QED BY <1>1 DEF RequestType

\* The request at another server, or further at the same one.
LEMMA RequestGoes ==
    ASSUME Good, NEW at \in Server, NEW pc \in Stage,
           \/ request' = [request EXCEPT !.at = at, !.pc = pc]
           \/ request.at = at /\ request' = [request EXCEPT !.pc = pc]
    PROVE  /\ request' \in RequestType
           /\ request'.key = request.key /\ request'.value = request.value
           /\ request'.at = at /\ request'.pc = pc
<1>1. request \in RequestType
  BY RequestIs
<1> QED BY <1>1 DEF RequestType

LEMMA ForwardGood ==
    ASSUME Good, NEW s \in Server, Forward(s)
    PROVE  Good'
<1> DEFINE q == next[s]
           k == request.key
<1>1. /\ request.at = s /\ request.pc = "applied"
      /\ UNCHANGED <<vars, table, entries, writes, answered>>
  BY DEF Forward
<1>2. /\ Underway(s, s + 1, k) /\ InLoop(s) /\ k \in Key /\ Written(s)
      /\ \A p \in Server : waits[p] # NULL => waits[p] = p + 1
  BY <1>1, PendingLoops DEF Underway, Good, TablesOK, RequestOK
<1>3. q # NULL => q = s + 1 /\ q \in znodes /\ q \in Server
  BY DEF Good, MembersOK, MemberOK, MembersTypeOK
<1>4. s \in Nat \ {0} /\ (s + 1 \in znodes => s + 1 \in Server)
  BY ServerIsNat DEF Good, MembersTypeOK
<1>5. \A p \in Server, j \in Key : Pending(p, j) => p = s /\ j = k
  BY <1>1 DEF Pending
<1>6. /\ znodes' = znodes /\ next' = next
      /\ \A r \in Server : InLoop(r)' = InLoop(r)
      /\ exposed \in [Server -> SUBSET Key] /\ waits \in [Server -> Server \cup {NULL}]
  BY <1>1, MembersStay DEF Good, TablesTypeOK
<1>7. CASE q = NULL /\ request' = [request EXCEPT !.pc = "answer"]
           /\ UNCHANGED <<waits, exposed>>
  <2>1. /\ request' \in RequestType /\ request'.key = k /\ request'.at = s
        /\ request'.pc = "answer"
    BY <1>1, <1>7, RequestGoes DEF Stage
  <2>2. RequestOK'
    <3>1. \A p \in Server : ~Underway(p, p + 1, request.key)'
      BY <2>1 DEF Underway
    <3> QED BY <1>2, <1>7, <2>1, <3>1 DEF RequestOK
  <2>3. ~Coming(s, k)
    <3>1. s + 1 # NULL
      BY <1>4, MembershipAssumption
    <3> QED BY <1>1, <1>7, <3>1 DEF Coming
  <2>4. ASSUME s + 1 \in znodes, s + 1 \notin answered PROVE table[s + 1][k] = NULL
    <3>1. MergeOK(s) /\ MergeOK(s + 1)
      BY <1>4, <2>4 DEF Good, TablesOK
    <3>2. next[s] # s + 1
      BY <1>4, <1>7, <2>4, ServersAreNotNull
    <3>3. ~(s < Settled0)
      BY <3>1, <3>2, SettledIsNat, <1>4 DEF MergeOK
    <3>4. s + 1 > Settled0
      BY <3>3, SettledIsNat, <1>4
    <3> QED BY <1>2, <2>4, <3>1, <3>4 DEF MergeOK
  <2> QED BY <1>1, <1>5, <1>6, <1>7, <2>1, <2>2, <2>3, <2>4, RequestMoves
<1>8. CASE /\ q # NULL /\ request' = [request EXCEPT !.at = q, !.pc = "received"]
           /\ waits' = [waits EXCEPT ![s] = q] /\ UNCHANGED exposed
  <2> HIDE DEF q, k
  <2>1. q \in Server /\ q = s + 1 /\ q \in znodes
    BY <1>3, <1>8
  <2>2. /\ request' \in RequestType /\ request'.key = k /\ request'.at = q
        /\ request'.pc = "received" /\ request'.value = request.value
    BY <1>8, <2>1, RequestGoes DEF Stage, k
  <2>3. /\ waits' \in [Server -> Server \cup {NULL}]
        /\ \A p \in Server : waits'[p] # NULL => waits'[p] = p + 1
    BY <1>8, <2>1, WaitsType
  <2>4. RequestOK'
    <3>1. ASSUME NEW p \in Server, Underway(p, p + 1, request.key)'
          PROVE  (InLoop(p) /\ Written(p))'
      <4>1. p + 1 = q /\ p \in Nat
        BY <2>2, <3>1, ServerIsNat DEF Underway
      <4>2. p = s
        BY <1>4, <2>1, <4>1
      <4> QED BY <1>1, <1>2, <1>6, <1>8, <2>2, <4>2 DEF Written, k
    <3>2. q > 1 /\ k \in Key
      BY <1>2, <1>4, <2>1
    <3> QED BY <1>6, <2>1, <2>2, <2>3, <3>1, <3>2 DEF RequestOK
  <2>5. \A j \in Key : j = k => Pending(s, j)'
    BY <2>1, <2>2 DEF Pending
  <2> QED BY <1>1, <1>5, <1>6, <1>8, <2>2, <2>3, <2>4, <2>5, RequestMoves
<1>9. CASE /\ q # NULL /\ request' = [request EXCEPT !.pc = "lost"]
           /\ waits' = [waits EXCEPT ![s] = q]
           /\ Expose({Successor(s, znodes)}, k)
  <2> HIDE DEF q, k
  <2>1. q \in Server /\ q = s + 1 /\ q \in znodes /\ Successor(s, znodes) = s + 1
    BY <1>3, <1>9, Next1
  <2>2. /\ request' \in RequestType /\ request'.key = k /\ request'.at = s
        /\ request'.pc = "lost"
    BY <1>1, <1>9, RequestGoes DEF Stage, k
  <2>3. /\ waits' \in [Server -> Server \cup {NULL}]
        /\ \A p \in Server : waits'[p] # NULL => waits'[p] = p + 1
    BY <1>9, <2>1, WaitsType
  <2>4. RequestOK'
    <3>1. \A p \in Server : ~Underway(p, p + 1, request.key)'
      BY <2>2 DEF Underway
    <3> QED BY <1>2, <2>2, <2>3, <3>1 DEF RequestOK
  <2>5. /\ exposed' \in [Server -> SUBSET Key]
        /\ \A r \in Server : exposed[r] \subseteq exposed'[r]
        /\ k \in exposed'[s + 1]
    BY <1>2, <1>6, <1>9, <2>1 DEF Expose
  <2> QED BY <1>1, <1>5, <2>2, <2>3, <2>4, <2>5, RequestMoves
<1> QED BY <1>7, <1>8, <1>9 DEF Forward

\* Server q, the one after s, applies the request.
LEMMA RequestServed ==
    ASSUME Good, NEW s \in Server, NEW q \in Server, q = s + 1, q \in znodes, InLoop(q),
           NEW k \in Key, NEW v \in Value \cup {NULL}, Written(s),
           request.at = q, request.pc = "received", request.key = k, request.value = v,
           table' = [table EXCEPT ![q][k] = v],
           request' = [request EXCEPT !.pc = "applied", !.refusals = 0],
           exposed' \in [Server -> SUBSET Key],
           \A r \in Server, j \in Key : r # q \/ j # k => (j \in exposed[r] => j \in exposed'[r]),
           \A r \in Server : r \in ExposedBy(q, k) => k \in exposed'[r],
           k \in exposed[q] /\ k \notin exposed'[q] => ~MergingAt(q) /\ table[s][k] = v,
           UNCHANGED <<vars, entries, writes, waits, answered>>
    PROVE  Good'
<1>1. /\ MembersTypeOK' /\ MembersOK'
      /\ znodes' = znodes /\ next' = next /\ thread' = thread /\ status' = status
      /\ \A r \in Server : InLoop(r)' = InLoop(r)
  BY MembersStay
<1>2. /\ table' \in [Server -> [Key -> Value \cup {NULL}]]
      /\ table'[q][k] = v
      /\ \A r \in Server, j \in Key : r # q \/ j # k => table'[r][j] = table[r][j]
  BY DEF Good, TablesTypeOK
<1>3. request'.at = q /\ request'.key = k /\ request'.value = v /\ request'.pc = "applied"
      /\ request' \in RequestType
  <2>1. request' = [request EXCEPT !.at = q, !.pc = "applied", !.refusals = 0]
    BY RequestIs DEF RequestType
  <2> QED BY <2>1, RefusalsType, RequestFields DEF Stage
<1>4. s \in Nat /\ q \in Nat /\ q # s /\ q # q + 1
  BY ServerIsNat
<1>5. TablesTypeOK'
  <2>1. \A r \in Server : Up(r)' = Up(r)
    BY <1>1 DEF Up
  <2> QED BY <1>1, <1>2, <1>3, <2>1 DEF Good, TablesTypeOK, RequestType
<1>6. RequestOK'
  <2>1. ASSUME NEW p \in Server, Underway(p, p + 1, request.key)'
        PROVE  (InLoop(p) /\ Written(p))'
    <3>1. p = q
      BY <1>3, <2>1 DEF Underway
    <3> QED BY <1>1, <1>2, <1>3, <3>1 DEF Written
  <2> QED BY <1>1, <1>3, <2>1 DEF RequestOK, Good, TablesOK
<1>7. ASSUME NEW r \in Server PROVE MergeOK(r)'
  <2>1. r \notin answered /\ r > Settled0 => r # q
    BY DEF Good, TablesOK, MergeOK, InLoop
  <2> QED BY <1>1, <1>2, <2>1, MergeOKStays
<1>8. ASSUME NEW p \in Server PROVE PairOK(p)'
  <2> SUFFICES ASSUME p + 1 \in znodes, NEW j \in Key, j \notin exposed'[p + 1]
               PROVE  AgreeOn(p, p + 1, j)'
    BY <1>1 DEF PairOK
  <2>1. p + 1 \in Server /\ p \in Nat
    BY ServerIsNat DEF Good, MembersTypeOK
  <2>2. ASSUME j # k \/ (p # s /\ p # q) PROVE AgreeOn(p, p + 1, j)'
    <3>1. p + 1 # q \/ j # k
      BY <2>1, <2>2, <1>4
    <3>2. AgreeOn(p, p + 1, j)
      BY <2>1, <3>1 DEF Good, TablesOK, PairOK
    <3>3. table'[p][j] = table[p][j] /\ table'[p + 1][j] = table[p + 1][j]
      BY <1>2, <2>1, <2>2, <3>1
    <3>4. ~Pending(p, j) /\ ~Coming(p, j)
      BY <3>1 DEF Pending, Coming
    <3> QED BY <1>1, <3>2, <3>3, <3>4, AgreeOnStays
  <2>3. ASSUME p = q, j = k PROVE AgreeOn(p, p + 1, j)'
    <3>1. Pending(p, j)'
      BY <1>3, <2>3 DEF Pending
    <3>2. CASE p + 1 \in answered
      <4>1. next[p] = p + 1 /\ ~MergingAt(p + 1)
        BY <2>1, <2>3, <3>2, ExposedByIs
      <4> QED BY <1>1, <3>1, <3>2, <4>1 DEF AgreeOn, MergingAt, Coming
    <3>3. CASE p + 1 \notin answered
      BY <3>1, <3>3 DEF AgreeOn
    <3> QED BY <3>2, <3>3
  <2>4. ASSUME p = s, j = k PROVE AgreeOn(p, p + 1, j)'
    <3>1. table[s][k] = v
      BY <2>4 DEF Written
    <3>2. table'[p][j] = v /\ table'[p + 1][j] = v /\ table[p][j] = v
      BY <1>2, <1>4, <2>4, <3>1
    <3>3. ASSUME q \in answered, NEW t \in Thread, NEW e \in entries[q][t], e[1] = k
          PROVE  e[2] = v
      <4>1. k \notin exposed[q]
        BY <2>4, <3>3 DEF MergingAt
      <4>2. AgreeOn(s, q, k)
        BY <4>1 DEF Good, TablesOK, PairOK
      <4> QED BY <3>1, <3>3, <4>2 DEF AgreeOn
    <3> QED BY <2>4, <3>2, <3>3 DEF AgreeOn
  <2> QED BY <2>2, <2>3, <2>4
<1> QED BY <1>1, <1>5, <1>6, <1>7, <1>8 DEF Good, TablesOK

LEMMA ServeGood ==
    ASSUME Good, NEW q \in Server, Serve(q)
    PROVE  Good'
<1> DEFINE s == q - 1
           k == request.key
           v == request.value
<1>1. /\ request.at = q /\ request.pc = "received" /\ InLoop(q)
      /\ UNCHANGED <<vars, entries, writes, waits, answered>>
  BY DEF Serve
<1>2. q \in znodes /\ q > 1 /\ Prefix(znodes)
  BY <1>1 DEF Good, TablesOK, RequestOK, MembersOK
<1>3. s \in Server /\ q = s + 1 /\ s \in Nat /\ q # 1
  BY <1>2, MembershipAssumption DEF Server
<1>4. Predecessor(q, znodes) = s
  BY <1>2, <1>3, PredecessorOfPrefix
<1>5. Underway(s, s + 1, request.key)
  BY <1>1, <1>3 DEF Underway
<1>6. InLoop(s) /\ Written(s) /\ k \in Key /\ v \in Value \cup {NULL}
  BY <1>3, <1>5, PendingLoops, RequestIs DEF Good, TablesOK, RequestOK
<1>7. exposed \in [Server -> SUBSET Key] /\ waits \in [Server -> Server \cup {NULL}]
  BY DEF Good, TablesTypeOK
<1>8. CASE /\ v = NULL /\ table[q][k] = NULL
           /\ request' = [request EXCEPT !.pc = "refused"]
           /\ UNCHANGED <<table, exposed>>
  <2>1. /\ request' \in RequestType /\ request'.key = k /\ request'.at = q
        /\ request'.pc = "refused" /\ request'.value = v
    BY <1>1, <1>8, RequestGoes DEF Stage
  <2>2. RequestOK'
    <3>1. ASSUME NEW p \in Server, Underway(p, p + 1, request.key)'
          PROVE  (InLoop(p) /\ Written(p))'
      <4>1. p + 1 = q /\ p \in Nat
        BY <2>1, <3>1, ServerIsNat DEF Underway
      <4>2. p = s
        BY <1>3, <4>1
      <4>3. InLoop(s)' /\ znodes' = znodes
        BY <1>1, <1>3, <1>6, MembersStay
      <4> QED BY <1>6, <1>8, <2>1, <4>2, <4>3 DEF Written
    <3>2. znodes' = znodes /\ waits' = waits
      BY <1>1, MembersStay
    <3> QED BY <1>2, <1>6, <2>1, <3>1, <3>2 DEF RequestOK, Good, TablesOK
  <2>3. \A p \in Server, j \in Key : Pending(p, j) => p = s /\ j = k
    BY <1>1, <1>3, ServerIsNat DEF Pending
  <2>4. k \notin exposed[s + 1] => table[s][k] = NULL /\ table[s + 1][k] = NULL
    BY <1>3, <1>6, <1>8 DEF Written
  <2> HIDE DEF k, v, s
  <2> QED BY <1>1, <1>7, <1>8, <2>1, <2>2, <2>3, <2>4, RequestMoves
<1>9. CASE /\ table' = [table EXCEPT ![q][k] = v]
           /\ request' = [request EXCEPT !.pc = "applied", !.refusals = 0]
           /\ exposed' = [r \in Server |->
                            IF r \in ExposedBy(q, k) THEN exposed[r] \cup {k}
                            ELSE IF r = q /\ ~MergingAt(q) /\ table[s][k] = v
                            THEN exposed[r] \ {k}
                            ELSE exposed[r]]
  <2>1. request.key = k /\ request.value = v
    OBVIOUS
  <2> HIDE DEF s, k, v
  <2>2. q \notin ExposedBy(q, k)
    BY <1>3, ExposedByIs
  <2>3. /\ exposed' \in [Server -> SUBSET Key]
        /\ \A r \in Server, j \in Key :
              r # q \/ j # k => (j \in exposed[r] => j \in exposed'[r])
        /\ \A r \in Server : r \in ExposedBy(q, k) => k \in exposed'[r]
        /\ k \in exposed[q] /\ k \notin exposed'[q] => ~MergingAt(q) /\ table[s][k] = v
    BY <1>6, <1>7, <1>9, <2>2
  <2> QED BY <1>1, <1>2, <1>3, <1>6, <1>9, <2>1, <2>3, RequestServed
<1> QED BY <1>4, <1>8, <1>9 DEF Serve

\* An answer changes no table and ends nothing that is pending.
LEMMA AnswerGood ==
    ASSUME Good, NEW q \in Server, Answer(q)
    PROVE  Good'
<1> DEFINE k == request.key
<1>1. /\ request.at = q /\ request.pc \in {"answer", "refused"}
      /\ UNCHANGED <<vars, table, entries, writes, answered, exposed>>
  BY DEF Answer
<1>2. \A p \in Server, j \in Key : ~Pending(p, j)
  BY <1>1 DEF Pending
<1>3. exposed \in [Server -> SUBSET Key] /\ waits \in [Server -> Server \cup {NULL}]
  BY DEF Good, TablesTypeOK
<1>4. RequestOK /\ k \in Key
  BY <1>1, ServersAreNotNull DEF Good, TablesOK, RequestOK
<1>5. znodes' = znodes /\ \A r \in Server : InLoop(r)' = InLoop(r)
  BY <1>1, MembersStay
<1>6. CASE request' = NoRequest /\ UNCHANGED waits
  <2>1. request' \in RequestType
    BY <1>6, RefusalsType DEF NoRequest, RequestType, Stage
  <2>2. RequestOK'
    <3>1. request'.pc = "none" /\ request'.at = NULL
      BY <1>6 DEF NoRequest
    <3>2. \A p \in Server : ~Underway(p, p + 1, request.key)'
      BY <3>1 DEF Underway
    <3> QED BY <1>4, <1>6, <3>1, <3>2 DEF RequestOK
  <2> QED BY <1>1, <1>2, <1>3, <1>6, <2>1, <2>2, RequestMoves
<1>7. ASSUME NEW at \in Server, NEW pc \in {"answer", "lost"},
             \/ request' = [request EXCEPT !.at = at, !.pc = pc]
             \/ request.at = at /\ request' = [request EXCEPT !.pc = pc],
             waits' \in [Server -> Server \cup {NULL}],
             \A p \in Server : waits'[p] # NULL => waits'[p] = p + 1
      PROVE  Good'
  <2>1. request' \in RequestType /\ request'.key = k /\ request'.at = at /\ request'.pc = pc
    BY <1>7, RequestGoes DEF Stage
  <2>2. \A p \in Server : ~Underway(p, p + 1, request.key)'
    BY <2>1 DEF Underway
  <2>3. RequestOK'
    BY <1>4, <1>7, <2>1, <2>2 DEF RequestOK
  <2> QED BY <1>1, <1>2, <1>3, <1>7, <2>1, <2>3, RequestMoves
<1>8. CASE request' = [request EXCEPT !.pc = "lost"] /\ UNCHANGED waits
  <2>1. \A p \in Server : waits'[p] # NULL => waits'[p] = p + 1
    BY <1>4, <1>8 DEF RequestOK
  <2> QED BY <1>1, <1>3, <1>7, <1>8, <2>1
<1>9. ASSUME NEW p \in Server, waits[p] = q, waits' = [waits EXCEPT ![p] = NULL]
      PROVE  /\ q = p + 1
             /\ waits' \in [Server -> Server \cup {NULL}]
             /\ \A r \in Server : waits'[r] # NULL => waits'[r] = r + 1
  <2>1. q = p + 1
    BY <1>4, <1>9, ServersAreNotNull DEF RequestOK
  <2> QED BY <1>9, <2>1, WaitsType
<1>10. ASSUME NEW p \in Server, waits[p] = q, waits' = [waits EXCEPT ![p] = NULL],
              request' = [request EXCEPT !.at = p, !.pc = "answer"]
       PROVE  Good'
  BY <1>7, <1>9, <1>10
<1>11. ASSUME NEW p \in Server, waits[p] = q, waits' = [waits EXCEPT ![p] = NULL],
              request.pc = "refused", request.refusals + 1 < MaxRetries,
              request' = [request EXCEPT !.at = p, !.pc = "applied",
                                         !.refusals = request.refusals + 1]
       PROVE  Good'
  <2>1. request.refusals + 1 \in 0 .. MaxRetries - 1
    <3>1. request.refusals \in Nat /\ MaxRetries \in Nat
      BY RequestIs, JoinAssumption
    <3> QED BY <1>11, <3>1
  <2>2. /\ request' \in RequestType /\ request'.key = k /\ request'.at = p
        /\ request'.pc = "applied" /\ request'.value = request.value
    BY <1>11, <2>1, RequestFields DEF Stage
  <2>3. Underway(p, p + 1, request.key)
    BY <1>1, <1>9, <1>11 DEF Underway
  <2>4. RequestOK'
    <3>1. ASSUME NEW r \in Server, Underway(r, r + 1, request.key)'
          PROVE  (InLoop(r) /\ Written(r))'
      <4>1. r = p
        BY <2>2, <3>1 DEF Underway
      <4>2. InLoop(p) /\ Written(p)
        BY <1>4, <2>3 DEF RequestOK
      <4> QED BY <1>1, <1>5, <2>2, <4>1, <4>2 DEF Written
    <3> QED BY <1>4, <1>9, <1>11, <2>2, <3>1 DEF RequestOK
  <2> QED BY <1>1, <1>2, <1>3, <1>9, <1>11, <2>2, <2>4, RequestMoves
<1>12. ASSUME NEW p \in {r \in Server : waits[r] = q}
       PROVE  p \in Server /\ waits[p] = q
  OBVIOUS
<1> QED BY <1>6, <1>8, <1>10, <1>11, <1>12 DEF Answer

-----------------------------------------------------------------------------
(* The merge.                                                              *)

\* The end of a callback, or its next step, in a thread that merges.
LEMMA MergeLocal ==
    ASSUME Good, NEW s \in Server, NEW t \in Thread, NEW th \in ThreadState,
           thread[s][t].pc \in {"merge", "put"}, StateOK(s, t, th), Becomes(s, t, th),
           UNCHANGED <<world, next, dangling, buffer, history>>
    PROVE  Local(s, t, th)
<1>1. Up(s) /\ (t = "main" => ~InLoop(s))
  BY Busy DEF Good, InLoop
<1>2. UNCHANGED <<status, znodes, armed, events, fault, next>>
  BY DEF world, history
<1>3. armed[s] \in SUBSET Watch /\ armed = [armed EXCEPT ![s] = armed[s]]
  BY DEF Good, MembersTypeOK
<1> QED BY <1>1, <1>2, <1>3 DEF Local

\* A request is under way while a table is merged.
LEMMA RequestStays ==
    ASSUME Good, UNCHANGED <<request, znodes, waits>>,
           \A r \in Server : InLoop(r) => InLoop(r)',
           \A r \in Server : Underway(r, r + 1, request.key) =>
              LET k == request.key IN
              \/ /\ table'[r][k] = table[r][k]
                 /\ r + 1 \in znodes /\ k \in exposed[r + 1] => k \in exposed'[r + 1]
              \/ r + 1 \in znodes /\ k \in exposed'[r + 1]
    PROVE  RequestOK'
<1>1. RequestOK
  BY DEF Good, TablesOK
<1>2. ASSUME NEW r \in Server, Underway(r, r + 1, request.key)'
      PROVE  (InLoop(r) /\ Written(r))'
  <2>1. Underway(r, r + 1, request.key)
    BY <1>2 DEF Underway
  <2>2. InLoop(r) /\ Written(r)
    BY <1>1, <2>1 DEF RequestOK
  <2> QED BY <2>1, <2>2 DEF Written
<1> QED BY <1>1, <1>2 DEF RequestOK

\* What a thread of s does in a merge changes neither what s is nor the others.
LEMMA MergeOKOf ==
    ASSUME Good, NEW s \in Server, NEW t \in Thread, NEW th, Local(s, t, th), next' = next,
           s > 1, InLoop(s - 1),
           s \in answered', answered \subseteq answered', answered' \subseteq answered \cup {s},
           NEW r \in Server,
           r # s => entries'[r] = entries[r] /\ table'[r] = table[r]
    PROVE  MergeOK(r)'
<1>1. MergeOK(r)
  BY DEF Good, TablesOK
<1>2. s \in znodes /\ znodes' = znodes
  BY DEF Good, MembersOK, MemberOK, Local
<1>3. r =< Settled0 => InLoop(r)' /\ (r < Settled0 => next'[r] = r + 1)
  BY <1>1, LocalLoops DEF Good, MergeOK
<1>4. ASSUME r > 1, InLoop(r - 1) PROVE InLoop(r - 1)'
  <2>1. r - 1 \in Server
    BY <1>4, MembershipAssumption DEF Server
  <2> QED BY <1>4, <2>1, LocalLoops DEF Good
<1>5. CASE r = s
  BY <1>2, <1>3, <1>4, <1>5 DEF MergeOK
<1>6. CASE r # s
  <2>1. thread'[r] = thread[r]
    BY <1>6, LocalThreads DEF Good
  <2> QED BY <1>1, <1>2, <1>3, <1>4, <1>6, <2>1 DEF MergeOK
<1> QED BY <1>5, <1>6

\* The entries that thread t of s receives or has still to put.
LEMMA EntriesOf ==
    ASSUME Good, NEW s \in Server, NEW t \in Thread, NEW E \in SUBSET (Key \X Value),
           entries' = [entries EXCEPT ![s][t] = E]
    PROVE  /\ entries' \in [Server -> [Thread -> SUBSET (Key \X Value)]]
           /\ entries'[s][t] = E
           /\ \A r \in Server, u \in Thread : r # s \/ u # t => entries'[r][u] = entries[r][u]
           /\ \A r \in Server : r # s => entries'[r] = entries[r]
BY DEF Good, TablesTypeOK

\* A thread holds entries when it is to put them.
LEMMA PutType ==
    ASSUME Good, NEW s \in Server, NEW t \in Thread, NEW th, Local(s, t, th),
           entries' \in [Server -> [Thread -> SUBSET (Key \X Value)]],
           th.pc = "put" <=> entries'[s][t] # {},
           \A r \in Server, u \in Thread : r # s \/ u # t => entries'[r][u] = entries[r][u],
           NEW r \in Server, NEW u \in Thread
    PROVE  (thread[r][u].pc = "put" <=> Up(r) /\ entries[r][u] # {})'
<1>1. thread[r][u].pc = "put" <=> Up(r) /\ entries[r][u] # {}
  BY DEF Good, TablesTypeOK
<1>2. Up(r)' = Up(r) /\ Up(s)
  BY DEF Local, Up
<1>3. CASE r = s /\ u = t
  BY <1>2, <1>3, LocalThreads DEF Good
<1>4. CASE r # s \/ u # t
  BY <1>1, <1>2, <1>4, LocalThreads DEF Good
<1> QED BY <1>3, <1>4

LEMMA GetTableGood ==
    ASSUME Good, NEW s \in Server, NEW t \in Thread, GetTable(s, t)
    PROVE  Good'
<1> DEFINE q == thread[s][t].to
           all == {<<k, table[q][k]>> : k \in {j \in Key : table[q][j] # NULL}}
<1>1. /\ thread[s][t].pc = "merge" /\ thread[s][t].watch = "prev" /\ "prev" \in Watch
      /\ entries' = [entries EXCEPT ![s][t] = all]
      /\ answered' = answered \cup {s}
      /\ IF all = {} THEN Returns(s, t) ELSE Goes(s, t, "put", q)
      /\ UNCHANGED <<world, next, dangling, buffer, history, table, request, writes, waits,
                     exposed>>
  BY DEF GetTable, At, Watch
<1>2. StateOK(s, t, thread[s][t]) /\ MembersTypeOK
  BY DEF Good, MembersOK, MemberOK
<1>3. q = s - 1 /\ s > 1 /\ q \in Server /\ s = q + 1 /\ q # s
  BY <1>1, <1>2, MembershipAssumption DEF StateOK, Server
<1>4. \A k \in Key : table[q][k] \in Value \cup {NULL}
  BY <1>3 DEF Good, TablesTypeOK
<1>5. /\ all \in SUBSET (Key \X Value)
      /\ \A e \in all : e[2] = table[q][e[1]]
      /\ \A k \in Key : table[q][k] # NULL => <<k, table[q][k]>> \in all
  BY <1>4
<1> HIDE DEF all
<1>6. \E th \in ThreadState : /\ StateOK(s, t, th) /\ Becomes(s, t, th)
                              /\ th.pc = "put" <=> all # {}
  <2>1. CASE all = {}
    <3>1. Returns(s, t)
      BY <1>1, <2>1
    <3>2. LET th == AfterCallback(s, t) IN
          th \in ThreadState /\ StateOK(s, t, th) /\ th.pc # "put" /\ Becomes(s, t, th)
      BY <1>1, <3>1, ReturnState DEF Returns
    <3> QED BY <2>1, <3>2
  <2>2. CASE all # {}
    <3>1. PICK th \in ThreadState :
             /\ Becomes(s, t, th)
             /\ th.pc = "put" /\ th.to = q /\ th.watch = "prev" /\ th.list = {}
      BY <1>1, <1>2, <1>3, <2>2, GoesState
    <3>2. StateOK(s, t, th)
      BY <1>1, <1>2, <3>1 DEF StateOK
    <3> QED BY <2>2, <3>1, <3>2
  <2> QED BY <2>1, <2>2
<1>7. PICK th \in ThreadState : /\ StateOK(s, t, th) /\ Becomes(s, t, th)
                                /\ th.pc = "put" <=> all # {}
  BY <1>6
<1>8. Local(s, t, th)
  BY <1>1, <1>7, MergeLocal
<1>9. MembersTypeOK' /\ MembersOK' /\ znodes' = znodes
  BY <1>8, LocalTypes, LocalMembers DEF Good, Local
<1>10. /\ entries' \in [Server -> [Thread -> SUBSET (Key \X Value)]]
       /\ entries'[s][t] = all
       /\ \A r \in Server, u \in Thread : r # s \/ u # t => entries'[r][u] = entries[r][u]
       /\ \A r \in Server : r # s => entries'[r] = entries[r]
  BY <1>1, <1>5, EntriesOf
<1>11. TablesTypeOK'
  <2>1. \A r \in Server, u \in Thread : (thread[r][u].pc = "put" <=> Up(r) /\ entries[r][u] # {})'
    BY <1>7, <1>8, <1>10, PutType
  <2> QED BY <1>1, <1>10, <2>1 DEF Good, TablesTypeOK
<1>12. RequestOK'
  <2>1. \A r \in Server : InLoop(r) => InLoop(r)'
    BY <1>8, LocalLoops DEF Good
  <2> QED BY <1>1, <1>9, <2>1, RequestStays
<1>13. ASSUME NEW r \in Server PROVE MergeOK(r)'
  <2>1. s > 1 /\ InLoop(s - 1)
    BY <1>3 DEF GetTable
  <2> QED BY <1>1, <1>8, <1>10, <2>1, MergeOKOf
<1>14. ASSUME NEW p \in Server PROVE PairOK(p)'
  <2> SUFFICES ASSUME p + 1 \in znodes, NEW k \in Key, k \notin exposed[p + 1]
               PROVE  AgreeOn(p, p + 1, k)'
    BY <1>1, <1>9 DEF PairOK
  <2>1. AgreeOn(p, p + 1, k) /\ p + 1 \in Server
    BY DEF Good, TablesOK, PairOK, MembersTypeOK
  <2>2. Pending(p, k)' = Pending(p, k) /\ Coming(p, k)' = Coming(p, k)
    BY <1>1 DEF Pending, Coming
  <2>3. CASE p + 1 # s
    BY <1>1, <1>10, <2>1, <2>2, <2>3, AgreeOnStays
  <2>4. CASE p + 1 = s
    <3>1. p = q
      BY <1>3, <2>4, ServerIsNat
    <3>2. entries[s][t] = {}
      <4>1. Up(s)
        BY <1>8 DEF Local
      <4> QED BY <1>1, <4>1 DEF Good, TablesTypeOK
    <3>3. s \notin answered => \A u \in Thread : entries[s][u] = {}
      BY DEF Good, TablesOK, MergeOK
    <3>4. ASSUME NEW u \in Thread, NEW e \in entries'[s][u], e[1] = k
          PROVE  e[2] = table[q][k]
      <4>1. CASE u = t
        BY <1>5, <1>10, <3>4, <4>1
      <4>2. CASE u # t
        <5>1. e \in entries[s][u]
          BY <1>10, <3>4, <4>2
        <5>2. s \in answered
          BY <3>3, <5>1
        <5> QED BY <2>1, <2>4, <3>1, <3>4, <5>1, <5>2 DEF AgreeOn
      <4> QED BY <4>1, <4>2
    <3>5. CASE table[q][k] # NULL
      <4>1. <<k, table[q][k]>> \in entries'[s][t]
        BY <1>5, <1>10, <3>5
      <4>2. Due(s, k)'
        BY <4>1 DEF Due
      <4> QED BY <1>1, <2>4, <3>1, <3>4, <4>2 DEF AgreeOn
    <3>6. CASE table[q][k] = NULL
      <4>1. \/ Due(s, k)'
            \/ table[q][k] = table[s][k]
            \/ Coming(q, k)
        <5>1. CASE s \in answered
          <6>1. \/ Due(s, k)
                \/ table[q][k] = table[s][k]
                \/ Coming(q, k)
            BY <2>1, <2>4, <3>1, <5>1 DEF AgreeOn
          <6>2. Due(s, k) => Due(s, k)'
            BY <1>10, <3>2 DEF Due
          <6> QED BY <6>1, <6>2
        <5>2. CASE s \notin answered
          <6>1. Pending(q, k) \/ table[s][k] = NULL
            BY <2>1, <2>4, <3>1, <3>6, <5>2 DEF AgreeOn
          <6>2. s > Settled0 => table[s][k] = NULL
            BY <5>2 DEF Good, TablesOK, MergeOK
          <6>3. ~(s > Settled0) => next[q] = s
            <7>1. ~(s > Settled0) => q < Settled0 /\ q =< Settled0
              BY <1>3, SettledIsNat, ServerIsNat
            <7> QED BY <1>3, <7>1 DEF Good, TablesOK, MergeOK
          <6> QED BY <1>3, <3>6, <6>1, <6>2, <6>3 DEF Coming
        <5> QED BY <5>1, <5>2
      <4> QED BY <1>1, <2>2, <2>4, <3>1, <3>4, <4>1 DEF AgreeOn
    <3> QED BY <3>5, <3>6
  <2> QED BY <2>3, <2>4
<1> QED BY <1>9, <1>11, <1>12, <1>13, <1>14 DEF Good, TablesOK

LEMMA PutEntryGood ==
    ASSUME Good, NEW s \in Server, NEW t \in Thread, PutEntry(s, t)
    PROVE  Good'
<1>1. PICK e \in entries[s][t] :
         /\ table' = [table EXCEPT ![s][e[1]] = e[2]]
         /\ entries' = [entries EXCEPT ![s][t] = @ \ {e}]
         /\ IF table[s][e[1]] = e[2] THEN UNCHANGED exposed
            ELSE Expose(ExposedByMerge(s, e[1]), e[1])
         /\ IF entries[s][t] = {e} THEN Returns(s, t) ELSE UNCHANGED thread
  BY DEF PutEntry
<1>2. /\ thread[s][t].pc = "put" /\ thread[s][t].watch = "prev" /\ "prev" \in Watch
      /\ UNCHANGED <<world, next, dangling, buffer, history, request, writes, waits, answered>>
  BY DEF PutEntry, At, Watch
<1>3. StateOK(s, t, thread[s][t]) /\ thread[s][t] \in ThreadState
  BY DEF Good, MembersOK, MemberOK, MembersTypeOK
<1>4. s > 1 /\ s - 1 \in Server /\ s # s + 1
  BY <1>2, <1>3, MembershipAssumption DEF StateOK, Server
<1> DEFINE k == e[1]
           v == e[2]
           E == entries[s][t] \ {e}
<1>5. entries[s][t] \in SUBSET (Key \X Value)
  BY DEF Good, TablesTypeOK
<1>6. k \in Key /\ v \in Value /\ v # NULL /\ e = <<k, v>> /\ E \in SUBSET (Key \X Value)
  BY <1>5, JoinAssumption
<1>7. s \in answered
  BY DEF Good, TablesOK, MergeOK
<1>8. \E th \in ThreadState : /\ StateOK(s, t, th) /\ Becomes(s, t, th)
                              /\ th.pc = "put" <=> E # {}
  <2>1. CASE entries[s][t] = {e}
    <3>1. LET th == AfterCallback(s, t) IN
          th \in ThreadState /\ StateOK(s, t, th) /\ th.pc # "put" /\ Becomes(s, t, th)
      BY <1>1, <1>2, <2>1, ReturnState DEF Returns
    <3> QED BY <2>1, <3>1
  <2>2. CASE entries[s][t] # {e}
    <3>1. Becomes(s, t, thread[s][t])
      BY <1>1, <2>2 DEF Becomes, Good, MembersTypeOK
    <3> QED BY <1>2, <1>3, <2>2, <3>1
  <2> QED BY <2>1, <2>2
<1>9. /\ table' = [table EXCEPT ![s][k] = v]
      /\ entries' = [entries EXCEPT ![s][t] = E]
      /\ IF table[s][k] = v THEN UNCHANGED exposed ELSE Expose(ExposedByMerge(s, k), k)
  BY <1>1
<1> HIDE DEF k, v, E
<1>10. PICK th \in ThreadState : /\ StateOK(s, t, th) /\ Becomes(s, t, th)
                                 /\ th.pc = "put" <=> E # {}
  BY <1>8
<1>11. Local(s, t, th)
  BY <1>2, <1>10, MergeLocal
<1>12. MembersTypeOK' /\ MembersOK' /\ znodes' = znodes
  BY <1>11, LocalTypes, LocalMembers DEF Good, Local
<1>13. /\ entries' \in [Server -> [Thread -> SUBSET (Key \X Value)]]
       /\ entries'[s][t] = E
       /\ \A r \in Server, u \in Thread : r # s \/ u # t => entries'[r][u] = entries[r][u]
       /\ \A r \in Server : r # s => entries'[r] = entries[r]
  BY <1>6, <1>9, EntriesOf
<1>14. /\ table' \in [Server -> [Key -> Value \cup {NULL}]]
       /\ table'[s][k] = v
       /\ \A r \in Server, j \in Key : r # s \/ j # k => table'[r][j] = table[r][j]
  BY <1>6, <1>9 DEF Good, TablesTypeOK
<1>15. table'[s] \in [Key -> Value \cup {NULL}] /\ \A r \in Server : r # s => table'[r] = table[r]
  BY <1>9, <1>14 DEF Good, TablesTypeOK
<1>16. /\ exposed' \in [Server -> SUBSET Key]
       /\ \A r \in Server : exposed[r] \subseteq exposed'[r]
       /\ s + 1 \in znodes /\ table[s][k] # v /\ (s + 1 \in answered \/ Underway(s, s + 1, k))
             => k \in exposed'[s + 1]
  <2>1. exposed \in [Server -> SUBSET Key]
    BY DEF Good, TablesTypeOK
  <2>2. s + 1 \in znodes /\ (s + 1 \in answered \/ Underway(s, s + 1, k))
          => ExposedByMerge(s, k) = {s + 1} /\ s + 1 \in Server
    <3>1. s + 1 \in znodes => s + 1 \in Server /\ s + 1 # NULL
      BY ServersAreNotNull DEF Good, MembersTypeOK
    <3> QED BY <3>1, Next1 DEF ExposedByMerge
  <2>3. CASE table[s][k] = v
    BY <1>9, <2>1, <2>3
  <2>4. CASE table[s][k] # v
    BY <1>6, <1>9, <2>1, <2>2, <2>4 DEF Expose
  <2> QED BY <2>3, <2>4
<1>17. TablesTypeOK'
  <2>1. \A r \in Server, u \in Thread : (thread[r][u].pc = "put" <=> Up(r) /\ entries[r][u] # {})'
    BY <1>10, <1>11, <1>13, PutType
  <2> QED BY <1>2, <1>13, <1>14, <1>16, <2>1 DEF Good, TablesTypeOK
<1>18. RequestOK'
  <2>1. \A r \in Server : InLoop(r) => InLoop(r)'
    BY <1>11, LocalLoops DEF Good
  <2>2. ASSUME NEW r \in Server, Underway(r, r + 1, request.key)
        PROVE  LET j == request.key IN
               \/ /\ table'[r][j] = table[r][j]
                  /\ r + 1 \in znodes /\ j \in exposed[r + 1] => j \in exposed'[r + 1]
               \/ r + 1 \in znodes /\ j \in exposed'[r + 1]
    <3>1. InLoop(r) /\ request.key \in Key
      BY <2>2, PendingLoops
    <3>2. CASE r + 1 \in znodes /\ ~(r = s /\ request.key = k)
      <4>1. r + 1 \in Server
        BY <3>2 DEF Good, MembersTypeOK
      <4> QED BY <1>14, <1>16, <3>1, <3>2, <4>1
    <3>3. CASE r = s /\ request.key = k
      <4>1. t = "completion"
        BY <1>2, <3>1, <3>3 DEF InLoop, Thread
      <4>2. s + 1 \in znodes /\ s + 1 \in Server
        BY <1>2, <1>3, <4>1 DEF StateOK, Good, MembersTypeOK
      <4>3. Underway(s, s + 1, k)
        BY <2>2, <3>3
      <4>4. CASE table[s][k] = v
        BY <1>14, <1>16, <3>3, <4>2, <4>4
      <4>5. CASE table[s][k] # v
        BY <1>16, <3>3, <4>2, <4>3, <4>5
      <4> QED BY <4>4, <4>5
    <3>4. CASE r + 1 \notin znodes /\ ~(r = s /\ request.key = k)
      BY <1>14, <3>1, <3>4
    <3> QED BY <3>2, <3>3, <3>4
  <2> QED BY <1>2, <1>12, <2>1, <2>2, RequestStays
<1>19. ASSUME NEW r \in Server PROVE MergeOK(r)'
  <2>1. s \in answered' /\ answered' = answered /\ next' = next /\ s > 1 /\ InLoop(s - 1)
    BY <1>2, <1>7 DEF Good, TablesOK, MergeOK
  <2> QED BY <1>11, <1>13, <1>15, <2>1, MergeOKOf
<1>20. ASSUME NEW p \in Server PROVE PairOK(p)'
  <2> SUFFICES ASSUME p + 1 \in znodes, NEW j \in Key, j \notin exposed'[p + 1]
               PROVE  AgreeOn(p, p + 1, j)'
    BY <1>12 DEF PairOK
  <2>1. p + 1 \in Server /\ p # p + 1
    BY ServerIsNat DEF Good, MembersTypeOK
  <2>2. AgreeOn(p, p + 1, j)
    BY <1>16, <2>1 DEF Good, TablesOK, PairOK
  <2>3. /\ Pending(p, j)' = Pending(p, j) /\ Coming(p, j)' = Coming(p, j)
        /\ answered' = answered /\ next' = next
    BY <1>2 DEF Pending, Coming
  <2>4. CASE p + 1 = s /\ j = k
    <3>1. v = table[p][k]
      BY <1>6, <1>7, <2>2, <2>4 DEF AgreeOn
    <3>2. table'[p][k] = v /\ table'[p + 1][k] = v
      BY <1>6, <1>14, <2>1, <2>4, <3>1
    <3>3. ASSUME NEW u \in Thread, NEW d \in entries'[s][u], d[1] = k
          PROVE  d[2] = v
      <4>1. d \in entries[s][u]
        BY <1>13, <3>3 DEF E
      <4> QED BY <1>7, <2>2, <2>4, <3>1, <3>3, <4>1 DEF AgreeOn
    <3> QED BY <1>7, <2>3, <2>4, <3>2, <3>3 DEF AgreeOn
  <2>5. CASE p + 1 = s /\ j # k
    <3>1. table'[p][j] = table[p][j] /\ table'[p + 1][j] = table[p + 1][j]
      BY <1>14, <2>1, <2>5
    <3>2. \A u \in Thread : entries'[s][u] \subseteq entries[s][u]
      BY <1>13 DEF E
    <3>3. Due(s, j) => Due(s, j)'
      <4> SUFFICES ASSUME NEW u \in Thread, NEW d \in entries[s][u], d[1] = j
                   PROVE  d \in entries'[s][u]
        BY DEF Due
      <4>1. d # e
        BY <2>5 DEF k
      <4> QED BY <1>13, <4>1 DEF E
    <3> QED BY <1>7, <2>2, <2>3, <2>5, <3>1, <3>2, <3>3 DEF AgreeOn
  <2>6. CASE p + 1 # s /\ ~(p = s /\ j = k)
    <3>1. table'[p][j] = table[p][j] /\ table'[p + 1][j] = table[p + 1][j]
      BY <1>14, <2>1, <2>6
    <3> QED BY <1>13, <2>1, <2>2, <2>3, <2>6, <3>1, AgreeOnStays
  <2>7. CASE p = s /\ j = k
    <3>1. table'[p + 1][j] = table[p + 1][j] /\ entries'[p + 1] = entries[p + 1]
      BY <1>13, <1>14, <2>1, <2>7
    <3>2. CASE table[s][k] = v
      BY <1>14, <2>1, <2>2, <2>3, <2>7, <3>1, <3>2, AgreeOnStays
    <3>3. CASE table[s][k] # v
      <4>1. p + 1 \notin answered
        BY <1>16, <2>7, <3>3
      <4>2. table'[p][j] # NULL
        BY <1>6, <1>14, <2>7
      <4> QED BY <2>3, <4>1, <4>2 DEF AgreeOn
    <3> QED BY <3>2, <3>3
  <2> QED BY <2>4, <2>5, <2>6, <2>7
<1> QED BY <1>12, <1>17, <1>18, <1>19, <1>20 DEF Good, TablesOK

-----------------------------------------------------------------------------
(* The theorems.                                                           *)

LEMMA InitGood == JoinInit => Good
<1> SUFFICES ASSUME JoinInit PROVE Good
  OBVIOUS
<1>1. 1 \in Server /\ Settled0 \in Nat \ {0} /\ Settled0 =< N /\ N \in Nat
  BY SettledIsNat, ServerIsNat, JoinAssumption, MembershipAssumption
<1>2. \A s \in Server : s \in Nat \ {0}
  BY ServerIsNat
<1>3. /\ \A s \in Server : s \in znodes <=> s =< Settled0
      /\ \A s \in Server : s + 1 \in znodes <=> s < Settled0
      /\ znodes \subseteq Server
  BY <1>1, <1>2 DEF JoinInit, Server
<1>4. MembersTypeOK
  <2>1. <<>> \in Seq(SUBSET Watch)
    OBVIOUS
  <2>2. Idle \in ThreadState /\ [Idle EXCEPT !.pc = "loop"] \in ThreadState
    BY DEF Idle, ThreadState, Pc
  <2>3. thread \in [Server -> [Thread -> ThreadState]]
    BY <2>2 DEF JoinInit
  <2>4. next \in [Server -> Server \cup {NULL}]
    <3>1. \A s \in Server : s < Settled0 => s + 1 \in Server
      BY <1>3
    <3> QED BY <3>1 DEF JoinInit
  <2> QED BY <1>3, <2>1, <2>3, <2>4 DEF JoinInit, MembersTypeOK
<1>5. \A s \in Server, t \in Thread :
         /\ thread[s][t].pc = IF s =< Settled0 /\ t = "main" THEN "loop" ELSE "idle"
         /\ entries[s][t] = {}
  BY DEF JoinInit, Idle
<1>6. TablesTypeOK
  <2>1. writes \in 0 .. MaxWrites
    BY JoinAssumption DEF JoinInit
  <2>2. table \in [Server -> [Key -> Value \cup {NULL}]]
    <3>1. [k \in Key |-> NULL] \in [Key -> Value \cup {NULL}]
      OBVIOUS
    <3> QED BY <3>1 DEF JoinInit
  <2>3. entries \in [Server -> [Thread -> SUBSET (Key \X Value)]]
    BY DEF JoinInit
  <2>4. \A s \in Server, t \in Thread :
           thread[s][t].pc = "put" <=> Up(s) /\ entries[s][t] # {}
    BY <1>5
  <2>5. request \in RequestType
    BY RefusalsType DEF JoinInit, NoRequest, RequestType, Stage
  <2>6. /\ answered \subseteq Server /\ exposed \in [Server -> SUBSET Key]
        /\ waits \in [Server -> Server \cup {NULL}]
    BY DEF JoinInit
  <2> QED BY <2>1, <2>2, <2>3, <2>4, <2>5, <2>6 DEF TablesTypeOK, RequestType
<1>7. ASSUME NEW s \in Server PROVE MemberOK(s)
  <2>1. status[s] # "dead" /\ (Up(s) <=> s \in znodes)
    BY <1>3 DEF JoinInit, Up
  <2>2. next[s] # NULL => next[s] = s + 1 /\ s + 1 \in znodes
    BY <1>3 DEF JoinInit
  <2>3. events[s] = <<>>
    BY DEF JoinInit
  <2>4. AbsentOK(s)
    BY <1>1, <1>2 DEF AbsentOK, JoinInit, Up
  <2>5. ASSUME NEW t \in Thread PROVE StateOK(s, t, thread[s][t])
    <3>1. thread[s][t].pc \in {"loop", "idle"} /\ (t = "completion" => thread[s][t].pc = "idle")
      BY <1>5
    <3> QED BY <3>1 DEF StateOK
  <2> QED BY <2>1, <2>2, <2>3, <2>4, <2>5 DEF MemberOK
<1>8. Prefix(znodes)
  BY <1>1, <1>2, <1>3 DEF Prefix
<1>9. RequestOK
  <2>1. request = NoRequest /\ \A p \in Server : waits[p] = NULL
    BY DEF JoinInit
  <2> QED BY <2>1 DEF RequestOK, Underway, NoRequest
<1>10. ASSUME NEW s \in Server PROVE MergeOK(s)
  <2>1. s =< Settled0 => InLoop(s)
    BY <1>5 DEF InLoop, Up, JoinInit, Thread
  <2>2. s < Settled0 => next[s] = s + 1
    BY DEF JoinInit
  <2>3. s > Settled0 => /\ thread[s]["main"].pc = "idle"
                        /\ \A k \in Key : table[s][k] = NULL
    BY <1>1, <1>2, <1>5 DEF JoinInit, Thread
  <2> QED BY <1>5, <2>1, <2>2, <2>3 DEF MergeOK, JoinInit
<1>11. ASSUME NEW p \in Server PROVE PairOK(p)
  <2> SUFFICES ASSUME p + 1 \in znodes, NEW k \in Key
               PROVE  AgreeOn(p, p + 1, k)
    BY DEF PairOK
  <2>1. p \in 1 .. Settled0 /\ p + 1 \in 1 .. Settled0 /\ p + 1 \in Server
    BY <1>1, <1>2, <1>3 DEF Server
  <2>2. table[p][k] = table[p + 1][k]
    BY <2>1 DEF JoinInit
  <2>3. p + 1 \notin answered
    BY DEF JoinInit
  <2> QED BY <2>2, <2>3 DEF AgreeOn
<1> QED BY <1>4, <1>6, <1>7, <1>8, <1>9, <1>10, <1>11 DEF Good, MembersOK, TablesOK

LEMMA NextKeeps == IInv /\ [JoinNext]_allVars => IInv'
<1> SUFFICES ASSUME IInv, [JoinNext]_allVars PROVE IInv'
  OBVIOUS
<1>1. CASE JoinNext
  <2>1. Good
    BY <1>1 DEF JoinNext, IInv, Good
  <2>2. ASSUME NEW k \in Key, NEW v \in Value \cup {NULL}, Write(k, v) PROVE IInv'
    BY <2>1, <2>2, WriteGood, GoodIsIInv
  <2>3. ASSUME NEW s \in Server, Register(s), UNCHANGED tables PROVE IInv'
    BY <2>1, <2>3, RegisterGood, GoodIsIInv
  <2>4. ASSUME NEW s \in Server, Main(s), UNCHANGED tables PROVE IInv'
    BY <2>1, <2>4, MainGood, GoodIsIInv
  <2>5. ASSUME NEW s \in Server, zk_child_watcher(s), UNCHANGED tables PROVE IInv'
    BY <2>1, <2>5, WatcherGood, GoodIsIInv
  <2>6. ASSUME NEW s \in Server, Handler(s) PROVE IInv'
    BY <2>1, <2>6, ForwardGood, ServeGood, AnswerGood, GoodIsIInv DEF Handler
  <2>7. ASSUME NEW s \in Server, UseClosed(s) PROVE IInv'
    BY <2>1, <2>7, FaultEnds DEF UseClosed
  <2>8. ASSUME NEW s \in Server, NEW t \in Thread, Selecting(s, t) PROVE IInv'
    <3>1. UNCHANGED tables
      BY <2>8 DEF Selecting, Dropping
    <3>2. CASE SelectNext(s, t)
      BY <2>1, <3>1, <3>2, SelectNextGood
    <3>3. CASE DropOld(s, t)
      BY <2>1, <3>1, <3>3, DropOldGood
    <3>4. CASE SetNext(s, t)
      BY <2>1, <3>1, <3>4, SetNextGood, GoodIsIInv
    <3>5. CASE SelectPrev(s, t)
      BY <2>1, <3>1, <3>5, SelectPrevGood
    <3> QED BY <2>8, <3>2, <3>3, <3>4, <3>5 DEF Selecting, Dropping
  <2>9. ASSUME NEW s \in Server, NEW t \in Thread, GetTable(s, t) PROVE IInv'
    BY <2>1, <2>9, GetTableGood, GoodIsIInv
  <2>10. ASSUME NEW s \in Server, NEW t \in Thread, PutEntry(s, t) PROVE IInv'
    BY <2>1, <2>10, PutEntryGood, GoodIsIInv
  <2> QED BY <1>1, <2>2, <2>3, <2>4, <2>5, <2>6, <2>7, <2>8, <2>9, <2>10
         DEF JoinNext, Merging
<1>2. CASE UNCHANGED allVars
  <2>1. UNCHANGED <<status, znodes, armed, events, thread, next, fault>> /\ UNCHANGED tables
    BY <1>2 DEF allVars, vars, world, local, history
  <2>2. MembersTypeOK' /\ TablesTypeOK'
    <3>1. ASSUME NEW s \in Server, NEW t \in Thread
          PROVE  (thread[s][t].pc = "put" <=> Up(s) /\ entries[s][t] # {})'
      <4>1. thread[s][t].pc = "put" <=> Up(s) /\ entries[s][t] # {}
        BY DEF IInv, TablesTypeOK
      <4> QED BY <2>1, <4>1 DEF Up, tables
    <3>2. MembersTypeOK'
      BY <2>1 DEF IInv, MembersTypeOK
    <3>3. TablesTypeOK'
      BY <2>1, <3>1 DEF IInv, TablesTypeOK, tables
    <3> QED BY <3>2, <3>3
  <2>3. CASE NoFaultYet
    <3>1. Good
      BY <2>3 DEF IInv, Good
    <3>2. UNCHANGED vars
      BY <1>2 DEF allVars
    <3>3. /\ MembersOK'
          /\ \A r \in Server : InLoop(r)' = InLoop(r)
      BY <3>1, <3>2, MembersStay
    <3>4. \A r \in Server : r \notin answered /\ r > Settled0 =>
                               thread'[r]["main"].pc \notin {"accept", "loop"}
      BY <2>1, <3>1 DEF Good, TablesOK, MergeOK
    <3>5. znodes' = znodes /\ znodes' \subseteq Server /\ next' = next
      BY <2>1, <3>1 DEF Good, MembersTypeOK
    <3>6. TablesOK'
      BY <2>1, <3>1, <3>3, <3>4, <3>5, QuietTables
    <3> QED BY <2>2, <3>3, <3>6 DEF IInv
  <2>4. CASE ~NoFaultYet
    <3>1. ~NoFaultYet'
      BY <2>1, <2>4 DEF NoFaultYet
    <3> QED BY <2>2, <3>1 DEF IInv
  <2> QED BY <2>3, <2>4
<1> QED BY <1>1, <1>2

\* Every variable of a run that joins servers to a chain has its type.
LEMMA Invariant == JoinSpec => []IInv
<1>1. JoinInit => IInv
  BY InitGood DEF Good, IInv
<1> QED BY <1>1, NextKeeps, PTL DEF JoinSpec

\* The connections closed under a handler are those of servers.
LEMMA CutType == cut \subseteq Server /\ [JoinNext]_allVars => (cut \subseteq Server)'
<1> SUFFICES ASSUME cut \subseteq Server, [JoinNext]_allVars
             PROVE  cut' = cut \/ \E s \in Server : cut' = cut \cup {s}
  OBVIOUS
<1>1. CASE UNCHANGED allVars
  BY <1>1 DEF allVars
<1>2. ASSUME NEW k \in Key, NEW v \in Value \cup {NULL}, Write(k, v) PROVE cut' = cut
  BY <1>2 DEF Write
<1>3. ASSUME NEW s \in Server, Handler(s) \/ UseClosed(s)
      PROVE  cut' = cut \/ cut' = cut \cup {s}
  BY <1>3 DEF Handler, Forward, Serve, Answer, UseClosed
<1>4. ASSUME NEW s \in Server, NEW t \in Thread, Selecting(s, t) \/ Merging(s, t)
      PROVE  cut' = cut \/ cut' = cut \cup {s}
  BY <1>4 DEF Selecting, Dropping, Merging, GetTable, PutEntry
<1> QED BY <1>1, <1>2, <1>3, <1>4 DEF JoinNext

\* The tables, what is merged and the requests have their types, whatever joins
\* while requests go on (invoke, select_prev_server).
THEOREM JoinType == JoinSpec => []JoinTypeOK
<1>1. JoinInit => cut \subseteq Server
  BY DEF JoinInit
<1>2. cut \subseteq Server /\ [JoinNext]_allVars => (cut \subseteq Server)'
  BY CutType
<1>3. IInv /\ cut \subseteq Server => JoinTypeOK
  BY DEF IInv, JoinTypeOK
<1>4. JoinSpec => [](cut \subseteq Server)
  BY <1>1, <1>2, PTL DEF JoinSpec
<1> QED BY <1>3, <1>4, Invariant, PTL

\* At every moment, a server that has received its predecessor's table and has put
\* it agrees with it on every key that is not exposed, but that of a request still
\* on its way: for any number of servers, keys and requests, a merge and the
\* requests that cross it lose a key only if the predecessor was not connected or
\* wrote to a freed connection, the successor was still putting an older table, or
\* the predecessor itself was merging (table_server.c:237-242, table_skel.c:91-112).
THEOREM UnexposedKeysAgree == JoinSpec => []UnexposedAgree
<1>1. IInv => UnexposedAgree
  <2> SUFFICES ASSUME IInv, NoFaultYet, NEW p \in znodes,
                      Successor(p, znodes) \in answered, ~MergingAt(Successor(p, znodes)),
                      NEW k \in Key \ exposed[Successor(p, znodes)]
               PROVE  \/ table[p][k] = table[Successor(p, znodes)][k]
                      \/ Underway(p, Successor(p, znodes), k)
    BY DEF UnexposedAgree
  <2>1. Good
    BY DEF IInv, Good
  <2>2. p \in Server /\ NULL \notin answered
    BY <2>1, ServersAreNotNull DEF Good, MembersTypeOK, TablesTypeOK
  <2>3. Successor(p, znodes) = p + 1 /\ p + 1 \in znodes
    BY <2>1, <2>2, Next1
  <2>4. AgreeOn(p, p + 1, k)
    BY <2>1, <2>2, <2>3 DEF Good, TablesOK, PairOK
  <2>5. ~Due(p + 1, k)
    BY <2>3 DEF Due, MergingAt
  <2>6. Coming(p, k) => Underway(p, p + 1, k)
    BY PendingIsUnderway DEF Coming
  <2> QED BY <2>3, <2>4, <2>5, <2>6 DEF AgreeOn
<1> QED BY <1>1, Invariant, PTL

-----------------------------------------------------------------------------
(* What the members see.  A thread that puts entries is shown in the merge; *)
(* every other definition of Membership.tla says the same of both.         *)

LEMMA SameSets ==
    /\ Members!Server = Server /\ Members!Thread = Thread /\ Members!Watch = Watch
    /\ Members!Idle = Idle
    /\ \A s : Members!Up(s) = Up(s)
    /\ \A s, list : Members!Successor(s, list) = Successor(s, list)
    /\ \A s, list : Members!Predecessor(s, list) = Predecessor(s, list)
<1>1. /\ Members!Server = Server /\ Members!Thread = Thread /\ Members!Watch = Watch
      /\ Members!Idle = Idle
  BY DEF Members!Server, Server, Members!Thread, Thread, Members!Watch, Watch,
         Members!Idle, Idle
<1>2. \A s : Members!Up(s) = Up(s)
  BY DEF Members!Up, Up
<1>3. \A s, list : Members!Successor(s, list) = Successor(s, list)
  BY DEF Members!Successor, Successor, Members!Min, Min
<1>4. \A s, list : Members!Predecessor(s, list) = Predecessor(s, list)
  BY DEF Members!Predecessor, Predecessor, Members!Max, Max
<1> QED BY <1>1, <1>2, <1>3, <1>4

\* How a state of a thread is shown.
LEMMA StateIs ==
    ASSUME NEW th \in ThreadState
    PROVE  /\ State(th) \in ThreadState
           /\ th.pc # "put" => State(th) = th
           /\ State(th).pc = IF th.pc = "put" THEN "merge" ELSE th.pc
           /\ State(th).watch = th.watch /\ State(th).list = th.list /\ State(th).to = th.to
BY DEF State, ThreadState, Pc

LEMMA ThreadsAre ==
    ASSUME MembersTypeOK, NEW s \in Server, NEW t \in Thread
    PROVE  /\ thread[s][t] \in ThreadState /\ Threads[s][t] = State(thread[s][t])
           /\ Threads[s][t].watch = thread[s][t].watch
           /\ Threads[s][t].to = thread[s][t].to
           /\ thread[s][t].pc # "put" => Threads[s][t] = thread[s][t]
<1>1. thread[s][t] \in ThreadState
  BY DEF MembersTypeOK
<1>2. Threads[s][t] = State(thread[s][t])
  BY DEF Threads
<1> QED BY <1>1, <1>2, StateIs

LEMMA SameLoop ==
    ASSUME MembersTypeOK, NEW s \in Server
    PROVE  Members!InLoop(s) = InLoop(s)
<1>1. "main" \in Thread
  BY DEF Thread
<1>2. Threads[s]["main"].pc = "loop" <=> thread[s]["main"].pc = "loop"
  BY <1>1, ThreadsAre, StateIs
<1> QED BY <1>2, SameSets DEF Members!InLoop, InLoop

\* A thread that becomes th is seen to become what th shows.
LEMMA BecomesShown ==
    ASSUME MembersTypeOK, NEW s \in Server, NEW t \in Thread, NEW th \in ThreadState,
           Becomes(s, t, th)
    PROVE  Members!Becomes(s, t, State(th))
<1>1. thread' = [thread EXCEPT ![s][t] = th]
  BY DEF Becomes
<1>2. thread' \in [Server -> [Thread -> ThreadState]]
  BY <1>1 DEF MembersTypeOK
<1>3. ASSUME NEW r \in Server, NEW u \in Thread
      PROVE  thread'[r][u] = IF r = s /\ u = t THEN th ELSE thread[r][u]
  BY <1>1 DEF MembersTypeOK
<1> DEFINE shown == [Threads EXCEPT ![s][t] = State(th)]
<1>4. ASSUME NEW r \in Server, NEW u \in Thread
      PROVE  shown[r][u] = IF r = s /\ u = t THEN State(th) ELSE State(thread[r][u])
  BY DEF Threads
<1>5. ASSUME NEW r \in Server, NEW u \in Thread PROVE Threads'[r][u] = shown[r][u]
  <2>1. Threads'[r][u] = State(thread'[r][u])
    BY DEF Threads, State
  <2> HIDE DEF shown
  <2> QED BY <1>3, <1>4, <2>1
<1>6. /\ Threads' = [r \in Server |-> [u \in Thread |-> Threads'[r][u]]]
      /\ shown = [r \in Server |-> [u \in Thread |-> shown[r][u]]]
  BY DEF Threads
<1>7. Threads' = shown
  <2> HIDE DEF shown
  <2> QED BY <1>5, <1>6
<1> QED BY <1>7 DEF Members!Becomes

LEMMA ReturnsShown ==
    ASSUME MembersTypeOK, NEW s \in Server, NEW t \in Thread, thread[s][t].watch \in Watch,
           Returns(s, t)
    PROVE  Members!Returns(s, t)
<1>1. AfterCallback(s, t) \in ThreadState /\ AfterCallback(s, t).pc # "put"
  BY ReturnState
<1>2. Members!Becomes(s, t, AfterCallback(s, t))
  BY <1>1, BecomesShown, StateIs DEF Returns
<1>3. Members!AfterCallback(s, t) = AfterCallback(s, t)
  BY SameSets, ThreadsAre DEF Members!AfterCallback, AfterCallback
<1> QED BY <1>2, <1>3 DEF Members!Returns

LEMMA GoesShown ==
    ASSUME MembersTypeOK, NEW s \in Server, NEW t \in Thread, thread[s][t].pc # "put",
           NEW pc \in {"switch", "set", "merge"}, NEW to \in Server \cup {NULL},
           Goes(s, t, pc, to)
    PROVE  Members!Goes(s, t, pc, to)
<1> DEFINE th == [thread[s][t] EXCEPT !.pc = pc, !.list = {}, !.to = to]
<1>1. thread[s][t] \in ThreadState
  BY DEF MembersTypeOK
<1>2. th \in ThreadState /\ th.pc # "put"
  BY <1>1 DEF ThreadState, Pc
<1>3. Becomes(s, t, th)
  BY DEF Goes
<1>4. Members!Becomes(s, t, th)
  <2> HIDE DEF th
  <2> QED BY <1>2, <1>3, BecomesShown, StateIs
<1>5. Threads[s][t] = thread[s][t]
  BY ThreadsAre
<1> QED BY <1>4, <1>5 DEF Members!Goes

LEMMA GetChildrenShown ==
    ASSUME MembersTypeOK, NEW s \in Server, NEW t \in Thread, NEW w \in Watch,
           GetChildren(s, t, w)
    PROVE  Members!GetChildren(s, t, w)
<1> DEFINE th == [pc |-> "select", watch |-> w, list |-> znodes, to |-> NULL]
<1>1. th \in ThreadState /\ th.pc # "put"
  BY DEF MembersTypeOK, ThreadState, Pc
<1>2. Members!Becomes(s, t, th)
  <2>1. Becomes(s, t, th)
    BY DEF GetChildren
  <2> HIDE DEF th
  <2> QED BY <1>1, <2>1, BecomesShown, StateIs
<1>3. \A u \in Thread \ {t} : Threads[s][u].watch = thread[s][u].watch
  BY ThreadsAre
<1>4. (\E u \in Thread \ {t} : w = "next" /\ thread[s][u].watch = "next") <=>
      (\E u \in Thread \ {t} : w = "next" /\ Threads[s][u].watch = "next")
  BY <1>3
<1>5. /\ armed' = [armed EXCEPT ![s] = @ \cup {w}]
      /\ overlap' = [overlap EXCEPT ![s] =
                       @ \/ \E u \in Thread \ {t} : w = "next" /\ thread[s][u].watch = "next"]
  BY DEF GetChildren
<1>6. overlap' = [overlap EXCEPT ![s] =
                    @ \/ \E u \in Thread \ {t} : w = "next" /\ Threads[s][u].watch = "next"]
  BY <1>4, <1>5, Zenon
<1> QED BY <1>2, <1>5, <1>6, SameSets DEF Members!GetChildren

LEMMA FaultShown ==
    ASSUME MembersTypeOK, NEW s \in Server, Fault(s)
    PROVE  Members!Fault(s)
<1>1. /\ thread' = [thread EXCEPT ![s] = [t \in Thread |-> Idle]]
  BY DEF Fault, Die
<1>2. Idle \in ThreadState /\ Idle.pc # "put" /\ State(Idle) = Idle
  BY IdleState, StateIs DEF Idle
<1>3. Threads' = [Threads EXCEPT ![s] = [t \in Thread |-> Idle]]
  <2>1. ASSUME NEW r \in Server
        PROVE  Threads'[r] = IF r = s THEN [t \in Thread |-> Idle] ELSE Threads[r]
    <3>1. Threads'[r] = [t \in Thread |-> State(thread'[r][t])]
      BY DEF Threads, State
    <3>2. Threads[r] = [t \in Thread |-> State(thread[r][t])]
      BY DEF Threads
    <3>3. thread'[r] = IF r = s THEN [t \in Thread |-> Idle] ELSE thread[r]
      BY <1>1 DEF MembersTypeOK
    <3> QED BY <1>2, <3>1, <3>2, <3>3
  <2>2. /\ Threads' = [r \in Server |-> Threads'[r]]
        /\ Threads = [r \in Server |-> Threads[r]]
    BY DEF Threads
  <2> QED BY <2>1, <2>2
<1> QED BY <1>3, SameSets DEF Fault, Die, Members!Fault, Members!Die

LEMMA ConnectShown ==
    ASSUME MembersTypeOK, NEW q \in Server \cup {NULL}
    PROVE  /\ Members!CanConnect(q) = CanConnect(q)
           /\ q # NULL => Members!Connected(q) = Connected(q)
<1>1. q # NULL => Members!InLoop(q) = InLoop(q) /\ Members!Up(q) = Up(q)
  BY SameLoop, SameSets
<1> QED BY <1>1 DEF Members!CanConnect, CanConnect, Members!Connected, Connected

LEMMA RegisterShown ==
    ASSUME MembersTypeOK, NEW s \in Server, Register(s)
    PROVE  Members!Register(s)
<1> DEFINE th == [Idle EXCEPT !.pc = "children", !.watch = "next"]
<1>1. th \in ThreadState /\ th.pc # "put" /\ "main" \in Thread
  BY DEF Idle, ThreadState, Pc, Watch, Thread
<1>2. Becomes(s, "main", th)
  BY DEF Register, Becomes
<1>3. Members!Becomes(s, "main", th)
  <2> HIDE DEF th
  <2> QED BY <1>1, <1>2, BecomesShown, StateIs
<1>4. Threads' = [Threads EXCEPT ![s]["main"] = th]
  BY <1>3 DEF Members!Becomes
<1>5. Members!ChildrenChange(znodes \cup {s})
  BY SameSets DEF Register, ChildrenChange, Members!ChildrenChange
<1>6. Threads' = [Threads EXCEPT ![s]["main"] =
                    [Members!Idle EXCEPT !.pc = "children", !.watch = "next"]]
  BY <1>4, SameSets
<1> HIDE DEF th
<1> QED BY <1>5, <1>6, SameSets DEF Register, Members!Register, history, Members!history

LEMMA MainShown ==
    ASSUME Good, NEW s \in Server, Main(s)
    PROVE  Members!Main(s)
<1>1. "main" \in Thread /\ MembersTypeOK
  BY DEF Thread, Good
<1>2. CASE zk_get_children(s)
  <2> DEFINE w == thread[s]["main"].watch
  <2>1. StateOK(s, "main", thread[s]["main"]) /\ thread[s]["main"].pc = "children"
    BY <1>1, <1>2 DEF Good, MembersOK, MemberOK, zk_get_children
  <2>2. w \in Watch /\ Threads[s]["main"] = thread[s]["main"]
    BY <1>1, <2>1, ThreadsAre DEF StateOK
  <2>3. GetChildren(s, "main", w)
    BY <1>2 DEF zk_get_children
  <2>4. Members!GetChildren(s, "main", w)
    <3> HIDE DEF w
    <3> QED BY <1>1, <2>2, <2>3, GetChildrenShown
  <2>5. Members!zk_get_children(s)
    BY <1>2, <2>1, <2>2, <2>4 DEF zk_get_children, Members!zk_get_children
  <2> QED BY <2>5 DEF Members!Main
<1>3. CASE network_main_loop(s)
  <2> DEFINE th == [Idle EXCEPT !.pc = "loop"]
  <2>1. th \in ThreadState /\ th.pc # "put"
    BY DEF Idle, ThreadState, Pc
  <2>2. Becomes(s, "main", th) /\ thread[s]["main"].pc = "accept"
    BY <1>3 DEF network_main_loop
  <2>3. Members!Becomes(s, "main", th)
    <3> HIDE DEF th
    <3> QED BY <1>1, <2>1, <2>2, BecomesShown, StateIs
  <2>4. Members!Becomes(s, "main", [Members!Idle EXCEPT !.pc = "loop"])
    BY <2>3, SameSets
  <2>5. Threads[s]["main"].pc = "accept"
    BY <1>1, <2>2, ThreadsAre
  <2> HIDE DEF th
  <2>6. Members!network_main_loop(s)
    BY <1>3, <2>4, <2>5
       DEF network_main_loop, Members!network_main_loop, history, Members!history
  <2> QED BY <2>6 DEF Members!Main
<1> QED BY <1>2, <1>3 DEF Main

LEMMA WatcherShown ==
    ASSUME Good, NEW s \in Server, zk_child_watcher(s)
    PROVE  Members!zk_child_watcher(s)
<1>1. "completion" \in Thread /\ MembersTypeOK
  BY DEF Thread, Good
<1>2. PICK w \in Watch : /\ Called(s, w)
                         /\ GetChildren(s, "completion", w)
                         /\ UNCHANGED <<status, znodes, backlog, crashes, next, dangling,
                                        buffer, fault>>
  BY DEF zk_child_watcher
<1>3. Members!GetChildren(s, "completion", w)
  BY <1>1, <1>2, GetChildrenShown
<1>4. Threads[s]["completion"].pc = "idle"
  BY <1>1, <1>2, ThreadsAre DEF Called
<1>5. Members!Called(s, w)
  BY <1>2, <1>4 DEF Called, Members!Called
<1> QED BY <1>2, <1>3, <1>5, SameSets DEF Members!zk_child_watcher

LEMMA SelectNextShown ==
    ASSUME Good, NEW s \in Server, NEW t \in Thread, SelectNext(s, t)
    PROVE  Members!SelectNext(s, t)
<1>1. thread[s][t].pc = "select" /\ thread[s][t].watch = "next" /\ MembersTypeOK
  BY DEF SelectNext, At, Good
<1>2. Threads[s][t] = thread[s][t]
  BY <1>1, ThreadsAre
<1>3. StateOK(s, t, thread[s][t])
  BY DEF Good, MembersOK, MemberOK
<1> DEFINE q == Successor(s, thread[s][t].list)
<1>4. q = NULL \/ (q \in znodes /\ q \in Server)
  BY <1>1, <1>3, SuccessorOfPrefix DEF StateOK, MembersTypeOK
<1>5. Members!Successor(s, Threads[s][t].list) = q
  BY <1>2, SameSets
<1>6. Members!At(s, t, "select", "next")
  BY <1>1, <1>2 DEF Members!At
<1>7. CASE q = NULL
  <2>1. Goes(s, t, "switch", NULL) /\ UNCHANGED <<world, next, dangling, buffer, history>>
    BY <1>7 DEF SelectNext
  <2>2. Members!Goes(s, t, "switch", NULL)
    BY <1>1, <2>1, GoesShown
  <2> HIDE DEF q
  <2> QED BY <1>5, <1>6, <1>7, <2>1, <2>2
          DEF Members!SelectNext, world, Members!world, history, Members!history
<1>8. CASE q # NULL
  <2>1. \/ /\ CanConnect(q)
           /\ Connected(q)
           /\ Goes(s, t, "switch", q)
           /\ buffer' = [buffer EXCEPT ![s][t] = q]
           /\ UNCHANGED <<status, znodes, armed, events, crashes, next, dangling,
                          fault, overlap>>
        \/ ~CanConnect(q) /\ Fault(s)
    BY <1>4, <1>8 DEF SelectNext
  <2> HIDE DEF q
  <2>2. Members!CanConnect(q) = CanConnect(q) /\ Members!Connected(q) = Connected(q)
    BY <1>1, <1>4, <1>8, ConnectShown
  <2>3. Goes(s, t, "switch", q) => Members!Goes(s, t, "switch", q)
    BY <1>1, <1>4, <1>8, GoesShown
  <2>4. Fault(s) => Members!Fault(s)
    BY <1>1, FaultShown
  <2>5. \/ /\ Members!CanConnect(q)
           /\ Members!Connected(q)
           /\ Members!Goes(s, t, "switch", q)
           /\ buffer' = [buffer EXCEPT ![s][t] = q]
           /\ UNCHANGED <<status, znodes, armed, events, crashes, next, dangling,
                          fault, overlap>>
        \/ ~Members!CanConnect(q) /\ Members!Fault(s)
    BY <2>1, <2>2, <2>3, <2>4
  <2> QED BY <1>4, <1>5, <1>6, <1>8, <2>5 DEF Members!SelectNext
<1> QED BY <1>7, <1>8

LEMMA DropOldShown ==
    ASSUME Good, NEW s \in Server, NEW t \in Thread, DropOld(s, t)
    PROVE  Members!DropOld(s, t)
<1> DEFINE to == thread[s][t].to
<1>1. /\ thread[s][t].pc = "switch" /\ thread[s][t].watch = "next" /\ "next" \in Watch
      /\ MembersTypeOK
  BY DEF DropOld, At, Good, Watch
<1>2. Threads[s][t] = thread[s][t]
  BY <1>1, ThreadsAre
<1>3. to \in Server \cup {NULL}
  BY <1>1 DEF MembersTypeOK, ThreadState
<1>4. Returns(s, t) => Members!Returns(s, t)
  BY <1>1, ReturnsShown
<1>5. Goes(s, t, "set", to) => Members!Goes(s, t, "set", to)
  <2> HIDE DEF to
  <2> QED BY <1>1, <1>3, GoesShown
<1>6. Fault(s) => Members!Fault(s)
  BY <1>1, FaultShown
<1>7. Members!At(s, t, "switch", "next") /\ Threads[s][t].to = to
  BY <1>1, <1>2 DEF Members!At
<1> QED BY <1>4, <1>5, <1>6, <1>7
        DEF DropOld, Members!DropOld, world, Members!world, history, Members!history

LEMMA SetNextShown ==
    ASSUME Good, NEW s \in Server, NEW t \in Thread, SetNext(s, t)
    PROVE  Members!SetNext(s, t)
<1>1. /\ thread[s][t].pc = "set" /\ thread[s][t].watch = "next" /\ "next" \in Watch
      /\ MembersTypeOK
  BY DEF SetNext, At, Good, Watch
<1>2. Threads[s][t] = thread[s][t]
  BY <1>1, ThreadsAre
<1>3. Members!Returns(s, t)
  BY <1>1, ReturnsShown DEF SetNext
<1>4. Members!At(s, t, "set", "next")
  BY <1>1, <1>2 DEF Members!At
<1> QED BY <1>2, <1>3, <1>4
        DEF SetNext, Members!SetNext, world, Members!world, history, Members!history

LEMMA SelectPrevShown ==
    ASSUME Good, NEW s \in Server, NEW t \in Thread, SelectPrev(s, t)
    PROVE  Members!SelectPrev(s, t)
<1> DEFINE q == Predecessor(s, thread[s][t].list)
<1>1. /\ thread[s][t].pc = "select" /\ thread[s][t].watch = "prev" /\ "prev" \in Watch
      /\ MembersTypeOK
  BY DEF SelectPrev, At, Good, Watch
<1>2. Threads[s][t] = thread[s][t]
  BY <1>1, ThreadsAre
<1>3. StateOK(s, t, thread[s][t])
  BY DEF Good, MembersOK, MemberOK
<1>4. q \in Server /\ q # NULL
  BY <1>1, <1>3, PredecessorOfPrefix, ServersAreNotNull DEF StateOK, Prefix
<1>5. Members!Predecessor(s, Threads[s][t].list) = q
  BY <1>2, SameSets
<1>6. Members!At(s, t, "select", "prev")
  BY <1>1, <1>2 DEF Members!At
<1> HIDE DEF q
<1>7. Members!CanConnect(q) = CanConnect(q) /\ Members!Connected(q) = Connected(q)
  BY <1>1, <1>4, ConnectShown
<1>8. Returns(s, t) => Members!Returns(s, t)
  BY <1>1, ReturnsShown
<1>9. Goes(s, t, "merge", q) => Members!Goes(s, t, "merge", q)
  BY <1>1, <1>4, GoesShown
<1>10. Fault(s) => Members!Fault(s)
  BY <1>1, FaultShown
<1> QED BY <1>5, <1>6, <1>7, <1>8, <1>9, <1>10
        DEF SelectPrev, Members!SelectPrev, world, Members!world, history, Members!history, q

\* A step that leaves the state of every thread as it is shown is none of the members.
LEMMA NotShown ==
    ASSUME Threads' = Threads,
           UNCHANGED <<world, next, dangling, buffer, history>>
    PROVE  UNCHANGED Members!vars
BY DEF Members!vars, Members!world, Members!local, Members!history, world, history

LEMMA SameShown ==
    ASSUME UNCHANGED thread
    PROVE  Threads' = Threads
BY DEF Threads, State

\* The end of a merge, after its last entry or because there is none.
LEMMA MergeEnds ==
    ASSUME Good, NEW s \in Server, NEW t \in Thread,
           thread[s][t].pc \in {"merge", "put"}, InLoop(thread[s][t].to), Returns(s, t),
           UNCHANGED <<world, next, dangling, buffer, history>>
    PROVE  Members!Merge(s, t)
<1>1. StateOK(s, t, thread[s][t]) /\ MembersTypeOK /\ "prev" \in Watch
  BY DEF Good, MembersOK, MemberOK, Watch
<1>2. thread[s][t].watch = "prev" /\ thread[s][t].to \in Server
  BY <1>1, MembershipAssumption DEF StateOK, Server
<1>3. Members!At(s, t, "merge", "prev")
  BY <1>1, <1>2, ThreadsAre, StateIs DEF Members!At
<1>4. Members!InLoop(Threads[s][t].to)
  BY <1>1, <1>2, ThreadsAre, SameLoop
<1>5. Members!Returns(s, t)
  BY <1>1, <1>2, ReturnsShown
<1> QED BY <1>3, <1>4, <1>5
        DEF Members!Merge, world, Members!world, history, Members!history

LEMMA GetTableShown ==
    ASSUME Good, NEW s \in Server, NEW t \in Thread, GetTable(s, t)
    PROVE  Members!Merge(s, t) \/ UNCHANGED Members!vars
<1> DEFINE q == thread[s][t].to
<1>1. /\ thread[s][t].pc = "merge" /\ InLoop(q)
      /\ UNCHANGED <<world, next, dangling, buffer, history>>
      /\ Returns(s, t) \/ Goes(s, t, "put", q)
  BY DEF GetTable, At
<1>2. CASE Returns(s, t)
  BY <1>1, <1>2, MergeEnds
<1>3. CASE Goes(s, t, "put", q)
  <2>1. StateOK(s, t, thread[s][t]) /\ MembersTypeOK /\ thread[s][t] \in ThreadState
    BY DEF Good, MembersOK, MemberOK, MembersTypeOK
  <2> DEFINE th == [thread[s][t] EXCEPT !.pc = "put", !.list = {}, !.to = q]
  <2>2. th \in ThreadState /\ State(th) = thread[s][t]
    BY <1>1, <2>1 DEF StateOK, ThreadState, State, Pc
  <2>3. Becomes(s, t, th)
    BY <1>3 DEF Goes
  <2> HIDE DEF th
  <2>4. Members!Becomes(s, t, thread[s][t])
    BY <2>1, <2>2, <2>3, BecomesShown
  <2>5. Threads[s][t] = thread[s][t]
    BY <1>1, <2>1, ThreadsAre
  <2>6. Threads' = Threads
    <3>1. Threads' = [Threads EXCEPT ![s][t] = Threads[s][t]]
      BY <2>4, <2>5 DEF Members!Becomes
    <3>2. [Threads EXCEPT ![s][t] = Threads[s][t]] = Threads
      BY DEF Threads
    <3> QED BY <3>1, <3>2
  <2> QED BY <1>1, <2>6, NotShown
<1> QED BY <1>1, <1>2, <1>3

LEMMA PutEntryShown ==
    ASSUME Good, NEW s \in Server, NEW t \in Thread, PutEntry(s, t)
    PROVE  Members!Merge(s, t) \/ UNCHANGED Members!vars
<1>1. /\ thread[s][t].pc = "put"
      /\ \E e \in entries[s][t] : TRUE
      /\ Returns(s, t) \/ UNCHANGED thread
      /\ UNCHANGED <<world, next, dangling, buffer, history>>
  BY DEF PutEntry, At
<1>2. CASE Returns(s, t)
  <2>1. StateOK(s, t, thread[s][t]) /\ MergeOK(s)
    BY DEF Good, MembersOK, MemberOK, TablesOK
  <2>2. InLoop(thread[s][t].to)
    BY <1>1, <2>1 DEF StateOK, MergeOK
  <2> QED BY <1>1, <1>2, <2>2, MergeEnds
<1>3. CASE UNCHANGED thread
  BY <1>1, <1>3, SameShown, NotShown
<1> QED BY <1>1, <1>2, <1>3

\* Every step of a run is one of the members, or is not seen by them.
LEMMA StepIsMembers == Good /\ [JoinNext]_allVars => [MembersNext]_(Members!vars)
<1> SUFFICES ASSUME Good, [JoinNext]_allVars PROVE MembersNext \/ UNCHANGED Members!vars
  OBVIOUS
<1>1. MembersTypeOK
  BY DEF Good
<1>2. ASSUME UNCHANGED vars PROVE UNCHANGED Members!vars
  <2>1. UNCHANGED <<thread, world, next, dangling, buffer, history>>
    BY <1>2 DEF vars, local
  <2> QED BY <2>1, SameShown, NotShown
<1>3. CASE UNCHANGED allVars
  BY <1>2, <1>3 DEF allVars
<1>4. CASE JoinNext
  <2>1. ASSUME NEW k \in Key, NEW v \in Value \cup {NULL}, Write(k, v)
        PROVE  UNCHANGED Members!vars
    BY <1>2, <2>1 DEF Write
  <2>2. ASSUME NEW s \in Server, Handler(s) PROVE UNCHANGED Members!vars
    BY <1>2, <2>2 DEF Handler, Forward, Serve, Answer
  <2>3. ASSUME NEW s \in Server, UseClosed(s) PROVE MembersNext
    <3>1. s \in cut /\ Members!Fault(s)
      BY <1>1, <2>3, FaultShown DEF UseClosed
    <3> QED BY <3>1 DEF MembersNext
  <2>4. ASSUME NEW s \in Server,
               Members!Register(s) \/ Members!Main(s) \/ Members!zk_child_watcher(s)
        PROVE  MembersNext
    BY <2>4, SameSets DEF MembersNext, Members!Next
  <2>5. ASSUME NEW s \in Server, NEW t \in Thread, Members!Callback(s, t)
        PROVE  MembersNext
    BY <2>5, SameSets DEF MembersNext, Members!Next
  <2>6. ASSUME NEW s \in Server, NEW t \in Thread, Selecting(s, t) \/ Merging(s, t)
        PROVE  Members!Callback(s, t) \/ UNCHANGED Members!vars
    <3>1. CASE SelectNext(s, t)
      BY <3>1, SelectNextShown DEF Members!Callback
    <3>2. CASE Dropping(s, t)
      BY <3>2, DropOldShown DEF Dropping, Members!Callback
    <3>3. CASE SetNext(s, t)
      BY <3>3, SetNextShown DEF Members!Callback
    <3>4. CASE SelectPrev(s, t)
      BY <3>4, SelectPrevShown DEF Members!Callback
    <3>5. CASE GetTable(s, t)
      BY <3>5, GetTableShown DEF Members!Callback
    <3>6. CASE PutEntry(s, t)
      BY <3>6, PutEntryShown DEF Members!Callback
    <3> QED BY <2>6, <3>1, <3>2, <3>3, <3>4, <3>5, <3>6 DEF Selecting, Merging
  <2>7. ASSUME NEW s \in Server, Register(s) \/ Main(s) \/ zk_child_watcher(s)
        PROVE  MembersNext
    BY <1>1, <2>4, <2>7, RegisterShown, MainShown, WatcherShown
  <2> QED BY <1>4, <2>1, <2>2, <2>3, <2>5, <2>6, <2>7 DEF JoinNext
<1> QED BY <1>3, <1>4

\* A server that joins a chain in use does what Membership.tla says, whatever
\* tables it receives and whatever requests cross it (select_prev_server,
\* invoke): a merge that ends ends the callback that began it, and the requests add
\* one step only, the end of a server whose handler waited on a connection that was
\* closed (client_stub.c:53).
THEOREM JoinTakesMembersSteps == JoinSpec => TakesMembersSteps
<1>1. IInv /\ [JoinNext]_allVars => [MembersNext]_(Members!vars)
  <2> SUFFICES ASSUME IInv, [JoinNext]_allVars PROVE [MembersNext]_(Members!vars)
    OBVIOUS
  <2>1. CASE NoFaultYet
    BY <2>1, StepIsMembers DEF IInv, Good
  <2>2. CASE ~NoFaultYet
    <3>1. UNCHANGED allVars
      BY <2>2 DEF JoinNext
    <3>2. UNCHANGED <<thread, world, next, dangling, buffer, history>>
      BY <3>1 DEF allVars, vars, local
    <3> QED BY <3>2, SameShown, NotShown
  <2> QED BY <2>1, <2>2
<1> QED BY <1>1, Invariant, PTL DEF JoinSpec, TakesMembersSteps

=============================================================================
