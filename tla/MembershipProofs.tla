-------------------------- MODULE MembershipProofs --------------------------
(***************************************************************************)
(* Theorems about Membership.tla, for every number of servers, every       *)
(* length of the accept queue and any number of crashes: the type          *)
(* invariant, that no watch is lost, that requests are forwarded towards   *)
(* higher znodes, and that a settled server knows its successor.           *)
(*                                                                         *)
(* The invariant is local to a server: other servers reach it by its       *)
(* accept queue, and by the change of the children that fires its watches. *)
(***************************************************************************)
EXTENDS Membership, WellFoundedInduction, FiniteSetTheorems, SequenceTheorems, TLAPS

-----------------------------------------------------------------------------
(* The inductive invariant.                                                *)

\* What a thread of s may be doing: the completion thread selects or rests, and
\* the program counter tells the watch.
ThreadOK(s) ==
    /\ thread[s]["completion"].pc \in {"idle", "select", "switch", "set", "merge"}
    /\ \A t \in Thread :
          LET th == thread[s][t] IN
          /\ th.pc \in {"idle", "accept", "loop"} <=> th.watch = NULL
          /\ th.pc \in {"switch", "set"} => th.watch = "next"
          /\ th.pc = "merge" => th.watch = "prev"

\* A process that does not run holds nothing.
GoneOK(s) ==
    ~Up(s) => /\ armed[s] = {} /\ events[s] = <<>>
              /\ thread[s] = [t \in Thread |-> Idle]
              /\ next[s] = NULL

\* A watch that has been set is in one place, and in none before.
WatchOK(s, w) ==
    Up(s) => IF Asked(s, w) THEN \E i \in Nat : Places(s, w) = {i} ELSE Places(s, w) = {}

\* The threads of s that select a next server, or are about to.
Selecting(s) == {t \in Thread : thread[s][t].watch = "next"}

\* When the watch is armed, no child has changed since a thread read the list:
\* its list is that of the children, and what it chose is the successor.
FreshOK(s) ==
    ~overlap[s] =>
        /\ \A t, u \in Selecting(s) : t = u
        /\ "next" \in armed[s] =>
              /\ Selecting(s) = {} => next[s] = Successor(s, znodes)
              /\ \A t \in Selecting(s) :
                    LET th == thread[s][t] IN
                    /\ th.pc = "select" => th.list = znodes
                    /\ th.pc \in {"switch", "set"} => th.to = Successor(s, znodes)

ServerOK(s) ==
    /\ ThreadOK(s)
    /\ GoneOK(s)
    /\ \A w \in Watch : WatchOK(s, w)
    /\ FreshOK(s)

IInv == TypeOK /\ \A s \in Server : ServerOK(s)

-----------------------------------------------------------------------------
(* Numbers and sequences.                                                  *)

\* A set of numbers that is not empty has a least one.
LEMMA Least ==
    ASSUME NEW T \in SUBSET Nat, T # {}
    PROVE  Min(T) \in T
<1> DEFINE R == OpToRel(<, Nat)
<1>1. IsWellFoundedOn(R, Nat)
  BY NatLessThanWellFounded
<1>2. \E x \in T : \A y \in T : ~(<<y, x>> \in R)
  <2> HIDE DEF R
  <2> QED BY <1>1, WFMin
<1>3. \A x, y \in Nat : x < y => <<x, y>> \in R
  BY DEF OpToRel
<1> HIDE DEF R
<1>4. PICK x \in T : \A y \in T : ~(<<y, x>> \in R)
  BY <1>2
<1>5. \A y \in T : ~(y < x)
  BY <1>3, <1>4
<1>6. \A y \in T : x =< y
  BY <1>5
<1> QED BY <1>6 DEF Min

\* The successor of s in a list of children is one of them, above s.
LEMMA SuccessorAhead ==
    ASSUME NEW s \in Server, NEW list \in SUBSET Server, Successor(s, list) # NULL
    PROVE  Successor(s, list) \in list /\ Successor(s, list) > s
<1> DEFINE after == {j \in list : j > s}
<1>1. after # {}
  BY DEF Successor
<1>2. after \in SUBSET Nat
  <2>1. \A j \in Server : j \in Nat
    BY MembershipAssumption DEF Server
  <2> QED BY <2>1
<1>3. Min(after) \in after
  BY <1>1, <1>2, Least
<1> QED BY <1>1, <1>3 DEF Successor

-----------------------------------------------------------------------------
(* What the steps have in common.                                          *)

\* The variables whose types ChildrenChange keeps.
LEMMA ChangeType ==
    ASSUME TypeOK, NEW nodes \in SUBSET Server, ChildrenChange(nodes)
    PROVE  /\ znodes' \subseteq Server
           /\ armed' \in [Server -> SUBSET Watch]
           /\ events' \in [Server -> Seq((SUBSET Watch) \ {{}})]
<1>1. armed' \in [Server -> SUBSET Watch] /\ znodes' \subseteq Server
  BY DEF ChildrenChange, TypeOK
<1>2. ASSUME NEW s \in Server
      PROVE  (IF armed[s] = {} THEN events[s] ELSE Append(events[s], armed[s]))
              \in Seq((SUBSET Watch) \ {{}})
  <2>1. events[s] \in Seq((SUBSET Watch) \ {{}}) /\ armed[s] \in SUBSET Watch
    BY DEF TypeOK
  <2> QED BY <2>1
<1>3. events' \in [Server -> Seq((SUBSET Watch) \ {{}})]
  BY <1>2 DEF ChildrenChange
<1> QED BY <1>1, <1>3

\* The states of a thread.
ThreadState == [pc : Pc, watch : Watch \cup {NULL}, list : SUBSET Server,
                to : Server \cup {NULL}]

LEMMA IdleType == Idle \in ThreadState
BY DEF Idle, ThreadState, Pc

\* A thread that becomes a state keeps the types of the threads.
LEMMA BecomesType ==
    ASSUME TypeOK, NEW s \in Server, NEW t \in Thread, NEW state \in ThreadState,
           Becomes(s, t, state)
    PROVE  thread' \in [Server -> [Thread -> ThreadState]]
BY DEF TypeOK, Becomes, ThreadState

LEMMA ReturnsType ==
    ASSUME TypeOK, NEW s \in Server, NEW t \in Thread, thread[s][t].watch \in Watch,
           Returns(s, t)
    PROVE  thread' \in [Server -> [Thread -> ThreadState]]
<1>1. AfterCallback(s, t) \in ThreadState
  BY IdleType DEF AfterCallback, Idle, ThreadState, Pc, Thread, Watch
<1> QED BY <1>1, BecomesType DEF Returns

LEMMA GoesType ==
    ASSUME TypeOK, NEW s \in Server, NEW t \in Thread, NEW pc \in Pc,
           NEW to \in Server \cup {NULL}, Goes(s, t, pc, to)
    PROVE  thread' \in [Server -> [Thread -> ThreadState]]
<1>1. thread[s][t] \in ThreadState
  BY DEF TypeOK, ThreadState
<1>2. [thread[s][t] EXCEPT !.pc = pc, !.list = {}, !.to = to] \in ThreadState
  BY <1>1 DEF ThreadState
<1> QED BY <1>2, BecomesType DEF Goes

LEMMA GetChildrenType ==
    ASSUME TypeOK, NEW s \in Server, NEW t \in Thread, NEW w \in Watch,
           GetChildren(s, t, w)
    PROVE  /\ thread' \in [Server -> [Thread -> ThreadState]]
           /\ armed' \in [Server -> SUBSET Watch]
           /\ overlap' \in [Server -> BOOLEAN]
<1>1. [pc |-> "select", watch |-> w, list |-> znodes, to |-> NULL] \in ThreadState
  BY DEF TypeOK, ThreadState, Pc
<1>2. thread' \in [Server -> [Thread -> ThreadState]]
  BY <1>1, BecomesType DEF GetChildren
<1>3. armed' \in [Server -> SUBSET Watch]
  BY DEF GetChildren, TypeOK
<1>4. overlap' \in [Server -> BOOLEAN]
  <2>1. (overlap[s] \/ \E u \in Thread \ {t} : w = "next" /\ thread[s][u].watch = "next")
          \in BOOLEAN
    OBVIOUS
  <2> QED BY <2>1 DEF GetChildren, TypeOK
<1> QED BY <1>2, <1>3, <1>4

LEMMA DieType ==
    ASSUME TypeOK, NEW s \in Server, Die(s)
    PROVE  /\ status' \in [Server -> {"absent", "up", "dead"}]
           /\ znodes' \subseteq Server
           /\ armed' \in [Server -> SUBSET Watch]
           /\ events' \in [Server -> Seq((SUBSET Watch) \ {{}})]
           /\ thread' \in [Server -> [Thread -> ThreadState]]
           /\ next' \in [Server -> Server \cup {NULL}]
           /\ dangling' \in [Server -> BOOLEAN]
           /\ backlog' \in [Server -> 0 .. Backlog]
           /\ buffer' \in [Server -> [Thread -> Server \cup {NULL}]]
           /\ overlap' \in [Server -> BOOLEAN]
<1>1. thread' \in [Server -> [Thread -> ThreadState]]
  <2>1. [t \in Thread |-> Idle] \in [Thread -> ThreadState]
    BY IdleType
  <2> QED BY <2>1 DEF Die, TypeOK, ThreadState
<1>2. buffer' \in [Server -> [Thread -> Server \cup {NULL}]]
  BY DEF Die, TypeOK
<1>3. events' \in [Server -> Seq((SUBSET Watch) \ {{}})]
  <2>1. <<>> \in Seq((SUBSET Watch) \ {{}})
    OBVIOUS
  <2> QED BY <2>1 DEF Die, TypeOK
<1>4. backlog' \in [Server -> 0 .. Backlog]
  BY MembershipAssumption DEF Die, TypeOK
<1> QED BY <1>1, <1>2, <1>3, <1>4 DEF Die, TypeOK

LEMMA ConnectedType ==
    ASSUME TypeOK, NEW q \in Server, CanConnect(q), Connected(q)
    PROVE  backlog' \in [Server -> 0 .. Backlog]
<1>1. backlog[q] \in 0 .. Backlog
  BY DEF TypeOK
<1>2. CASE InLoop(q)
  BY <1>2 DEF Connected, TypeOK
<1>3. CASE ~InLoop(q)
  <2>1. backlog[q] + 1 \in 0 .. Backlog
    BY <1>1, <1>3, MembershipAssumption DEF CanConnect
  <2> QED BY <1>3, <2>1 DEF Connected, TypeOK
<1> QED BY <1>2, <1>3

-----------------------------------------------------------------------------
(* The type invariant.                                                     *)

LEMMA TypeInit == Init => TypeOK
<1> SUFFICES ASSUME Init PROVE TypeOK
  OBVIOUS
<1>1. thread \in [Server -> [Thread -> ThreadState]]
  BY IdleType DEF Init
<1>2. events \in [Server -> Seq((SUBSET Watch) \ {{}})]
  <2>1. <<>> \in Seq((SUBSET Watch) \ {{}})
    OBVIOUS
  <2> QED BY <2>1 DEF Init
<1>3. backlog \in [Server -> 0 .. Backlog] /\ crashes \in 0 .. MaxCrashes
  BY MembershipAssumption DEF Init
<1> QED BY <1>1, <1>2, <1>3 DEF Init, TypeOK, ThreadState

LEMMA RegisterType ==
    ASSUME TypeOK, NEW s \in Server, Register(s)
    PROVE  TypeOK'
<1>1. [Idle EXCEPT !.pc = "children", !.watch = "next"] \in ThreadState
  BY DEF Idle, ThreadState, Pc, Watch
<1>2. thread' \in [Server -> [Thread -> ThreadState]]
  BY <1>1 DEF Register, TypeOK, ThreadState
<1>3. znodes \cup {s} \in SUBSET Server
  BY DEF TypeOK
<1>4. /\ znodes' \subseteq Server
      /\ armed' \in [Server -> SUBSET Watch]
      /\ events' \in [Server -> Seq((SUBSET Watch) \ {{}})]
  BY <1>3, ChangeType DEF Register
<1> QED BY <1>2, <1>4 DEF Register, TypeOK, ThreadState, history

LEMMA ExpireType ==
    ASSUME TypeOK, NEW s \in Server, Expire(s)
    PROVE  TypeOK'
<1>1. znodes \ {s} \in SUBSET Server
  BY DEF TypeOK
<1>2. /\ znodes' \subseteq Server
      /\ armed' \in [Server -> SUBSET Watch]
      /\ events' \in [Server -> Seq((SUBSET Watch) \ {{}})]
  BY <1>1, ChangeType DEF Expire
<1> QED BY <1>2 DEF Expire, TypeOK, local, history

LEMMA CrashType ==
    ASSUME TypeOK, NEW s \in Server, Crash(s)
    PROVE  TypeOK'
<1>1. crashes' \in 0 .. MaxCrashes
  BY MembershipAssumption DEF Crash, TypeOK
<1> QED BY <1>1, DieType DEF Crash, TypeOK, ThreadState

LEMMA FaultType ==
    ASSUME TypeOK, NEW s \in Server, Fault(s)
    PROVE  TypeOK'
BY DieType DEF Fault, TypeOK, ThreadState

LEMMA MainType ==
    ASSUME TypeOK, NEW s \in Server, Main(s), ThreadOK(s)
    PROVE  TypeOK'
<1>1. CASE zk_get_children(s)
  <2>1. thread[s]["main"].watch \in Watch
    BY <1>1, MembershipAssumption DEF zk_get_children, ThreadOK, TypeOK, Thread
  <2>2. /\ thread' \in [Server -> [Thread -> ThreadState]]
        /\ armed' \in [Server -> SUBSET Watch]
        /\ overlap' \in [Server -> BOOLEAN]
    BY <1>1, <2>1, GetChildrenType DEF zk_get_children, Thread
  <2> QED BY <1>1, <2>2 DEF zk_get_children, TypeOK, ThreadState
<1>2. CASE network_main_loop(s)
  <2>1. [Idle EXCEPT !.pc = "loop"] \in ThreadState
    BY DEF Idle, ThreadState, Pc
  <2>2. thread' \in [Server -> [Thread -> ThreadState]]
    BY <1>2, <2>1, BecomesType DEF network_main_loop, Thread
  <2>3. backlog' \in [Server -> 0 .. Backlog]
    BY <1>2, MembershipAssumption DEF network_main_loop, TypeOK
  <2> QED BY <1>2, <2>2, <2>3 DEF network_main_loop, TypeOK, ThreadState, history
<1> QED BY <1>1, <1>2 DEF Main

LEMMA CalledType ==
    ASSUME TypeOK, NEW s \in Server, NEW w \in Watch, Called(s, w)
    PROVE  events' \in [Server -> Seq((SUBSET Watch) \ {{}})]
<1> DEFINE after == IF Head(events[s]) = {w} THEN Tail(events[s])
                    ELSE <<Head(events[s]) \ {w}>> \o Tail(events[s])
<1>1. events[s] \in Seq((SUBSET Watch) \ {{}}) /\ events[s] # <<>> /\ w \in Head(events[s])
  BY DEF TypeOK, Called
<1>2. Head(events[s]) \in (SUBSET Watch) \ {{}}
      /\ Tail(events[s]) \in Seq((SUBSET Watch) \ {{}})
  BY <1>1
<1>3. CASE Head(events[s]) = {w}
  BY <1>2, <1>3 DEF Called, TypeOK
<1>4. CASE Head(events[s]) # {w}
  <2>1. Head(events[s]) \ {w} \in (SUBSET Watch) \ {{}}
    BY <1>1, <1>2, <1>4
  <2>2. after \in Seq((SUBSET Watch) \ {{}})
    BY <1>2, <1>4, <2>1
  <2> QED BY <1>4, <2>2 DEF Called, TypeOK
<1> QED BY <1>3, <1>4

LEMMA WatcherType ==
    ASSUME TypeOK, NEW s \in Server, zk_child_watcher(s)
    PROVE  TypeOK'
<1>1. PICK w \in Watch : /\ Called(s, w)
                         /\ GetChildren(s, "completion", w)
                         /\ UNCHANGED <<status, znodes, backlog, crashes, next, dangling,
                                        buffer, fault>>
  BY DEF zk_child_watcher
<1>2. events' \in [Server -> Seq((SUBSET Watch) \ {{}})]
  BY <1>1, CalledType
<1>3. /\ thread' \in [Server -> [Thread -> ThreadState]]
      /\ armed' \in [Server -> SUBSET Watch]
      /\ overlap' \in [Server -> BOOLEAN]
  BY <1>1, GetChildrenType DEF Thread
<1> QED BY <1>1, <1>2, <1>3 DEF TypeOK, ThreadState

\* The address that select_next_server uses is that of a server.
LEMMA AddressType ==
    ASSUME TypeOK, NEW s \in Server, NEW t \in Thread, NEW q,
           NEW a \in IF q \in znodes THEN {q} ELSE {buffer[s][t], NULL}, CanConnect(a)
    PROVE  a \in Server
BY DEF TypeOK, CanConnect

\* The step of SelectNext that connects to a.
ConnectNext(s, t, a) ==
    /\ CanConnect(a)
    /\ Connected(a)
    /\ Goes(s, t, "switch", a)
    /\ buffer' = [buffer EXCEPT ![s][t] = a]
    /\ UNCHANGED <<status, znodes, armed, events, crashes, next, dangling, fault, overlap>>

\* What SelectNext does, case by case.
LEMMA SelectNextCases ==
    ASSUME NEW s \in Server, NEW t \in Thread, SelectNext(s, t), TypeOK
    PROVE  LET q == Successor(s, thread[s][t].list) IN
           /\ At(s, t, "select", "next")
           /\ \/ /\ q = NULL
                 /\ Goes(s, t, "switch", NULL)
                 /\ UNCHANGED <<world, next, dangling, buffer, history>>
              \/ /\ q # NULL
                 /\ \E a \in Server :
                       (a = q \/ q \notin znodes) /\ ConnectNext(s, t, a)
              \/ q # NULL /\ Fault(s)
<1> DEFINE q == Successor(s, thread[s][t].list)
<1>1. CASE q = NULL
  BY <1>1 DEF SelectNext
<1>2. CASE q # NULL
  <2>1. PICK a \in IF q \in znodes THEN {q} ELSE {buffer[s][t], NULL} :
               ConnectNext(s, t, a) \/ Fault(s)
    BY <1>2 DEF SelectNext, ConnectNext
  <2>2. a = q \/ q \notin znodes
    OBVIOUS
  <2>3. CASE ConnectNext(s, t, a)
    <3>1. a \in Server
      BY <2>3, AddressType DEF ConnectNext
    <3> QED BY <1>2, <2>2, <2>3, <3>1 DEF SelectNext
  <2>4. CASE Fault(s)
    BY <1>2, <2>4 DEF SelectNext
  <2> QED BY <2>1, <2>3, <2>4
<1> QED BY <1>1, <1>2

LEMMA SelectNextType ==
    ASSUME TypeOK, NEW s \in Server, NEW t \in Thread, SelectNext(s, t)
    PROVE  TypeOK'
<1> DEFINE q == Successor(s, thread[s][t].list)
<1>1. CASE Goes(s, t, "switch", NULL) /\ UNCHANGED <<world, next, dangling, buffer, history>>
  <2>1. thread' \in [Server -> [Thread -> ThreadState]]
    BY <1>1, GoesType DEF Pc
  <2> QED BY <1>1, <2>1 DEF TypeOK, ThreadState, world, history
<1>2. ASSUME NEW a \in Server, ConnectNext(s, t, a)
      PROVE  TypeOK'
  <2>1. thread' \in [Server -> [Thread -> ThreadState]]
    BY <1>2, GoesType DEF Pc, ConnectNext
  <2>2. backlog' \in [Server -> 0 .. Backlog]
    BY <1>2, ConnectedType DEF ConnectNext
  <2>3. buffer' \in [Server -> [Thread -> Server \cup {NULL}]]
    BY <1>2 DEF ConnectNext, TypeOK
  <2> QED BY <1>2, <2>1, <2>2, <2>3 DEF ConnectNext, TypeOK, ThreadState
<1>3. CASE Fault(s)
  BY <1>3, FaultType
<1> QED BY <1>1, <1>2, <1>3, SelectNextCases

LEMMA DropOldType ==
    ASSUME TypeOK, NEW s \in Server, NEW t \in Thread, DropOld(s, t)
    PROVE  TypeOK'
<1> DEFINE to == thread[s][t].to
<1>1. to \in Server \cup {NULL} /\ thread[s][t].watch \in Watch
  BY DEF TypeOK, DropOld, At, Watch
<1>2. CASE Returns(s, t) /\ UNCHANGED <<world, next, dangling, buffer, history>>
  <2>1. thread' \in [Server -> [Thread -> ThreadState]]
    BY <1>1, <1>2, ReturnsType
  <2> QED BY <1>2, <2>1 DEF TypeOK, ThreadState, world, history
<1>3. CASE Goes(s, t, "set", to) /\ UNCHANGED <<world, next, dangling, buffer, history>>
  <2>1. thread' \in [Server -> [Thread -> ThreadState]]
    BY <1>1, <1>3, GoesType DEF Pc
  <2> QED BY <1>3, <2>1 DEF TypeOK, ThreadState, world, history
<1>4. CASE /\ Goes(s, t, "set", to) /\ dangling' = [dangling EXCEPT ![s] = TRUE]
           /\ UNCHANGED <<world, next, buffer, history>>
  <2>1. thread' \in [Server -> [Thread -> ThreadState]]
    BY <1>1, <1>4, GoesType DEF Pc
  <2> QED BY <1>4, <2>1 DEF TypeOK, ThreadState, world, history
<1>5. CASE Fault(s)
  BY <1>5, FaultType
<1> QED BY <1>2, <1>3, <1>4, <1>5 DEF DropOld

LEMMA SetNextType ==
    ASSUME TypeOK, NEW s \in Server, NEW t \in Thread, SetNext(s, t)
    PROVE  TypeOK'
<1>1. thread' \in [Server -> [Thread -> ThreadState]]
  BY ReturnsType DEF SetNext, At, Watch
<1>2. thread[s][t].to \in Server \cup {NULL}
  BY DEF TypeOK
<1>3. next' \in [Server -> Server \cup {NULL}]
  BY <1>2 DEF SetNext, TypeOK
<1> QED BY <1>1, <1>3 DEF SetNext, TypeOK, ThreadState, world, history

LEMMA SelectPrevType ==
    ASSUME TypeOK, NEW s \in Server, NEW t \in Thread, SelectPrev(s, t)
    PROVE  TypeOK'
<1> DEFINE q == Predecessor(s, thread[s][t].list)
<1>1. thread[s][t].watch \in Watch
  BY DEF SelectPrev, At, Watch
<1>2. CASE Returns(s, t) /\ UNCHANGED <<world, next, dangling, buffer, history>>
  <2>1. thread' \in [Server -> [Thread -> ThreadState]]
    BY <1>1, <1>2, ReturnsType
  <2> QED BY <1>2, <2>1 DEF TypeOK, ThreadState, world, history
<1>3. CASE /\ q \in znodes /\ CanConnect(q)
           /\ Connected(q)
           /\ IF q = s THEN Returns(s, t) ELSE Goes(s, t, "merge", q)
           /\ buffer' = IF q = s THEN buffer ELSE [buffer EXCEPT ![s][t] = q]
           /\ UNCHANGED <<status, znodes, armed, events, crashes, next, dangling, history>>
  <2> HIDE DEF q
  <2>1. q \in Server
    BY <1>3 DEF TypeOK
  <2>2. thread' \in [Server -> [Thread -> ThreadState]]
    BY <1>1, <1>3, <2>1, ReturnsType, GoesType DEF Pc
  <2>3. backlog' \in [Server -> 0 .. Backlog]
    BY <1>3, <2>1, ConnectedType
  <2>4. buffer' \in [Server -> [Thread -> Server \cup {NULL}]]
    BY <1>3, <2>1 DEF TypeOK
  <2> QED BY <1>3, <2>2, <2>3, <2>4 DEF TypeOK, ThreadState, history
<1>4. CASE Fault(s)
  BY <1>4, FaultType
<1> QED BY <1>2, <1>3, <1>4 DEF SelectPrev

LEMMA MergeType ==
    ASSUME TypeOK, NEW s \in Server, NEW t \in Thread, Merge(s, t)
    PROVE  TypeOK'
<1>1. CASE Returns(s, t) /\ UNCHANGED <<world, next, dangling, buffer, history>>
  <2>1. thread' \in [Server -> [Thread -> ThreadState]]
    BY <1>1, ReturnsType DEF Merge, At, Watch
  <2> QED BY <1>1, <2>1 DEF TypeOK, ThreadState, world, history
<1>2. CASE Fault(s)
  BY <1>2, FaultType
<1> QED BY <1>1, <1>2 DEF Merge

LEMMA TypeStep ==
    ASSUME TypeOK, \A s \in Server : ThreadOK(s), [Next]_vars
    PROVE  TypeOK'
<1>1. CASE Next
  BY <1>1, RegisterType, CrashType, ExpireType, MainType, WatcherType, SelectNextType,
     DropOldType, SetNextType, SelectPrevType, MergeType DEF Next, Callback
<1>2. CASE UNCHANGED vars
  BY <1>2 DEF TypeOK, vars, world, local, history
<1> QED BY <1>1, <1>2

-----------------------------------------------------------------------------
(* What a step that is not its own leaves of a server, and what its end    *)
(* leaves.                                                                 *)

\* What the invariant says of server s depends on these alone.
SameServer(s) ==
    /\ status'[s] = status[s] /\ znodes' = znodes
    /\ armed'[s] = armed[s] /\ events'[s] = events[s]
    /\ thread'[s] = thread[s] /\ next'[s] = next[s]
    /\ overlap'[s] = overlap[s]

LEMMA Frame ==
    ASSUME NEW s \in Server, ServerOK(s), SameServer(s)
    PROVE  ServerOK(s)'
<1>1. ThreadOK(s)' /\ GoneOK(s)'
  BY DEF ServerOK, SameServer, ThreadOK, GoneOK, Up
<1>2. \A w \in Watch : WatchOK(s, w)'
  BY DEF ServerOK, SameServer, WatchOK, Up, Asked, Places
<1>4. FreshOK(s)'
  BY DEF ServerOK, SameServer, FreshOK, Selecting
<1> QED BY <1>1, <1>2, <1>4 DEF ServerOK

LEMMA Gone ==
    ASSUME NEW s \in Server, ~Up(s)', armed'[s] = {}, events'[s] = <<>>,
           thread'[s] = [t \in Thread |-> Idle], next'[s] = NULL
    PROVE  ServerOK(s)'
<1>1. \A t \in Thread : thread'[s][t] = Idle
  OBVIOUS
<1>2. ThreadOK(s)'
  BY <1>1 DEF ThreadOK, Idle, Thread
<1>4. FreshOK(s)'
  BY <1>1, MembershipAssumption DEF FreshOK, Selecting, Idle
<1> QED BY <1>2, <1>4 DEF ServerOK, GoneOK, WatchOK

\* Where a watch is.
LEMMA PlacesAre ==
    ASSUME TypeOK, NEW s \in Server, NEW w
    PROVE  \A i : i \in Places(s, w) <=>
               \/ i = 0 /\ w \in armed[s]
               \/ i \in 1 .. Len(events[s]) /\ w \in events[s][i]
<1>1. DOMAIN events[s] = 1 .. Len(events[s])
  BY DEF TypeOK
<1> QED BY <1>1 DEF Places

\* The children change: the armed watches are queued.
LEMMA ChangePlaces ==
    ASSUME TypeOK, TypeOK', NEW s \in Server, NEW w \in Watch,
           armed'[s] = {},
           events'[s] = IF armed[s] = {} THEN events[s] ELSE Append(events[s], armed[s])
    PROVE  /\ Places(s, w) = {} => Places(s, w)' = {}
           /\ (\E i \in Nat : Places(s, w) = {i}) => \E i \in Nat : Places(s, w)' = {i}
<1> DEFINE n == Len(events[s])
<1>1. \A i : i \in Places(s, w) <=> \/ i = 0 /\ w \in armed[s]
                                    \/ i \in 1 .. n /\ w \in events[s][i]
  BY PlacesAre
<1>2. \A i : i \in Places(s, w)' <=> i \in 1 .. Len(events'[s]) /\ w \in events'[s][i]
  <2>1. DOMAIN events'[s] = 1 .. Len(events'[s])
    BY DEF TypeOK
  <2> QED BY <2>1 DEF Places
<1>3. n \in Nat /\ events[s] \in Seq((SUBSET Watch) \ {{}})
  <2>1. events[s] \in Seq((SUBSET Watch) \ {{}})
    BY DEF TypeOK
  <2> QED BY <2>1
<1>4. CASE armed[s] = {}
  <2>1. \A i : i \in Places(s, w)' <=> i \in Places(s, w)
    BY <1>1, <1>2, <1>4
  <2>2. Places(s, w)' = Places(s, w)
    BY <2>1
  <2> QED BY <2>2
<1>5. CASE armed[s] # {}
  <2>1. /\ Len(events'[s]) = n + 1
        /\ events'[s][n + 1] = armed[s]
        /\ \A i \in 1 .. n : events'[s][i] = events[s][i]
    BY <1>3, <1>5
  <2>2. \A i : i \in Places(s, w)' <=>
                   \/ i = n + 1 /\ w \in armed[s]
                   \/ i \in 1 .. n /\ w \in events[s][i]
    BY <1>2, <1>3, <2>1
  <2> HIDE DEF n
  <2>3. Places(s, w) = {} => Places(s, w)' = {}
    BY <1>1, <2>2
  <2>4. ASSUME NEW i \in Nat, Places(s, w) = {i}
        PROVE  \E j \in Nat : Places(s, w)' = {j}
    <3>1. CASE w \in armed[s]
      <4>1. \A j \in 1 .. n : w \notin events[s][j]
        <5>1. 0 \in Places(s, w)
          BY <1>1, <3>1
        <5> QED BY <1>1, <2>4, <5>1
      <4>2. \A j : j \in Places(s, w)' <=> j = n + 1
        BY <2>2, <3>1, <4>1
      <4>3. Places(s, w)' = {n + 1}
        BY <4>2
      <4> QED BY <1>3, <4>3
    <3>2. CASE w \notin armed[s]
      <4>1. \A j : j \in Places(s, w)' <=> j \in Places(s, w)
        BY <1>1, <2>2, <3>2
      <4>2. Places(s, w)' = Places(s, w)
        BY <4>1
      <4> QED BY <2>4, <4>2
    <3> QED BY <3>1, <3>2
  <2> QED BY <2>3, <2>4
<1> QED BY <1>4, <1>5

LEMMA Change ==
    ASSUME TypeOK, TypeOK', NEW s \in Server, ServerOK(s),
           status'[s] = status[s], thread'[s] = thread[s], next'[s] = next[s],
           overlap'[s] = overlap[s], armed'[s] = {},
           events'[s] = IF armed[s] = {} THEN events[s] ELSE Append(events[s], armed[s])
    PROVE  ServerOK(s)'
<1>1. ThreadOK(s)' /\ GoneOK(s)'
  BY DEF ServerOK, ThreadOK, GoneOK, Up
<1>2. \A w \in Watch : WatchOK(s, w)'
  <2> SUFFICES ASSUME NEW w \in Watch PROVE WatchOK(s, w)'
    OBVIOUS
  <2>1. WatchOK(s, w) /\ (Asked(s, w)' <=> Asked(s, w)) /\ (Up(s)' <=> Up(s))
    BY DEF ServerOK, Asked, Up
  <2>2. /\ Places(s, w) = {} => Places(s, w)' = {}
        /\ (\E i \in Nat : Places(s, w) = {i}) => \E i \in Nat : Places(s, w)' = {i}
    BY ChangePlaces
  <2> QED BY <2>1, <2>2 DEF WatchOK
<1>4. FreshOK(s)'
  BY DEF ServerOK, FreshOK, Selecting
<1> QED BY <1>1, <1>2, <1>4 DEF ServerOK

-----------------------------------------------------------------------------
(* The steps of the threads of a server.                                   *)

LEMMA BecomesAt ==
    ASSUME TypeOK, NEW s \in Server, NEW t \in Thread, NEW state, Becomes(s, t, state)
    PROVE  /\ thread'[s][t] = state
           /\ \A u \in Thread \ {t} : thread'[s][u] = thread[s][u]
           /\ \A r \in Server \ {s} : thread'[r] = thread[r]
BY DEF TypeOK, Becomes

\* What ZooKeeper and the process are to s.
SameWorld(s) ==
    /\ status'[s] = status[s] /\ znodes' = znodes
    /\ armed'[s] = armed[s] /\ events'[s] = events[s]
    /\ overlap'[s] = overlap[s]

\* When main has asked for the same watches, they are where they were.
LEMMA SameWatches ==
    ASSUME NEW s \in Server, ServerOK(s), SameWorld(s),
           \A w \in Watch : Asked(s, w)' <=> Asked(s, w)
    PROVE  \A w \in Watch : WatchOK(s, w)'
BY DEF ServerOK, WatchOK, SameWorld, Up, Places

\* A thread returns from its callback, which may have changed the next server.
LEMMA ReturnsOK ==
    ASSUME TypeOK, TypeOK', NEW s \in Server, NEW t \in Thread, ServerOK(s), Up(s),
           thread[s][t].pc \in {"select", "switch", "set", "merge"},
           Returns(s, t), SameWorld(s),
           thread[s][t].watch = "prev" => next'[s] = next[s],
           thread[s][t].watch = "next" /\ ~overlap[s] /\ "next" \in armed[s]
               => next'[s] = Successor(s, znodes)
    PROVE  ServerOK(s)'
<1> DEFINE w == thread[s][t].watch
<1>1. w \in Watch
  <2>1. w \in Watch \cup {NULL}
    BY DEF TypeOK
  <2>2. w # NULL
    BY DEF ServerOK, ThreadOK
  <2> QED BY <2>1, <2>2
<1>2. /\ thread'[s][t] = AfterCallback(s, t)
      /\ \A u \in Thread \ {t} : thread'[s][u] = thread[s][u]
  BY BecomesAt DEF Returns
<1>3. /\ t = "completion" => AfterCallback(s, t) = Idle
      /\ t = "main" /\ w = "next"
           => AfterCallback(s, t) = [pc |-> "children", watch |-> "prev", list |-> {}, to |-> NULL]
      /\ t = "main" /\ w = "prev"
           => AfterCallback(s, t) = [pc |-> "accept", watch |-> NULL, list |-> {}, to |-> NULL]
  BY DEF AfterCallback, Idle
<1>4. Idle.pc = "idle" /\ Idle.watch = NULL
  BY DEF Idle
<1>5. ThreadOK(s)'
  <2>1. ThreadOK(s)
    BY DEF ServerOK
  <2> QED BY <1>1, <1>2, <1>3, <1>4, <2>1, MembershipAssumption DEF ThreadOK, Thread, Watch
<1>6. GoneOK(s)'
  BY DEF GoneOK, SameWorld, Up
<1>7. \A v \in Watch : WatchOK(s, v)'
  <2>1. \A v \in Watch : Asked(s, v)' <=> Asked(s, v)
    BY <1>1, <1>2, <1>3, <1>4, MembershipAssumption DEF Asked, Watch, Thread
  <2> QED BY <2>1, SameWatches
<1>9. FreshOK(s)'
  <2>1. thread'[s][t].watch # "next" /\ thread'[s][t].pc \notin {"select", "switch", "set"}
    BY <1>1, <1>2, <1>3, <1>4, MembershipAssumption DEF Thread, Watch
  <2>2. Selecting(s)' = Selecting(s) \ {t}
    BY <1>2, <2>1 DEF Selecting
  <2>3. FreshOK(s)
    BY DEF ServerOK
  <2>4. CASE w = "next"
    <3>1. t \in Selecting(s)
      BY <2>4 DEF Selecting
    <3>2. ~overlap[s] => Selecting(s)' = {}
      BY <2>2, <2>3, <3>1 DEF FreshOK
    <3> QED BY <2>4, <3>2 DEF FreshOK, SameWorld
  <2>5. CASE w = "prev"
    <3>1. t \notin Selecting(s)
      BY <2>5 DEF Selecting
    <3>2. Selecting(s)' = Selecting(s) /\ \A u \in Selecting(s) : thread'[s][u] = thread[s][u]
      BY <1>2, <2>2, <3>1 DEF Selecting
    <3> QED BY <2>3, <2>5, <3>2 DEF FreshOK, SameWorld
  <2> QED BY <1>1, <2>4, <2>5 DEF Watch
<1> QED BY <1>5, <1>6, <1>7, <1>9 DEF ServerOK

\* A thread goes on in its callback, with what it will connect to.
LEMMA GoesOK ==
    ASSUME TypeOK, NEW s \in Server, NEW t \in Thread, ServerOK(s), Up(s),
           thread[s][t].pc \in {"select", "switch"}, SameWorld(s), next'[s] = next[s],
           NEW pc \in {"switch", "set", "merge"}, NEW to, Goes(s, t, pc, to),
           thread[s][t].watch = (IF pc = "merge" THEN "prev" ELSE "next"),
           pc # "merge" /\ ~overlap[s] /\ "next" \in armed[s] => to = Successor(s, znodes)
    PROVE  ServerOK(s)'
<1>1. /\ thread'[s][t].pc = pc
      /\ thread'[s][t].watch = thread[s][t].watch
      /\ thread'[s][t].to = to
      /\ \A u \in Thread \ {t} : thread'[s][u] = thread[s][u]
  <2>1. thread'[s][t] = [thread[s][t] EXCEPT !.pc = pc, !.list = {}, !.to = to]
        /\ \A u \in Thread \ {t} : thread'[s][u] = thread[s][u]
    BY BecomesAt DEF Goes
  <2>2. thread[s][t] \in ThreadState
    BY DEF TypeOK, ThreadState
  <2> QED BY <2>1, <2>2 DEF ThreadState
<1>2. ThreadOK(s)'
  <2>1. ThreadOK(s)
    BY DEF ServerOK
  <2> QED BY <1>1, <2>1, MembershipAssumption DEF ThreadOK, Thread
<1>3. GoneOK(s)'
  BY DEF GoneOK, SameWorld, Up
<1>4. \A v \in Watch : WatchOK(s, v)'
  <2>1. \A v \in Watch : Asked(s, v)' <=> Asked(s, v)
    BY <1>1 DEF Asked, Watch, Thread
  <2> QED BY <2>1, SameWatches
<1>6. FreshOK(s)'
  <2>1. Selecting(s)' = Selecting(s)
    BY <1>1 DEF Selecting
  <2>2. FreshOK(s)
    BY DEF ServerOK
  <2>3. t \in Selecting(s) => pc # "merge"
    BY DEF Selecting
  <2> SUFFICES ASSUME ~overlap[s]
               PROVE  FreshOK(s)'
    BY DEF FreshOK, SameWorld
  <2>4. \A u, v \in Selecting(s)' : u = v
    BY <2>1, <2>2 DEF FreshOK
  <2>5. ASSUME "next" \in armed[s]
        PROVE  /\ Selecting(s)' = {} => next'[s] = Successor(s, znodes)
               /\ \A u \in Selecting(s)' :
                     /\ thread'[s][u].pc = "select" => thread'[s][u].list = znodes
                     /\ thread'[s][u].pc \in {"switch", "set"}
                           => thread'[s][u].to = Successor(s, znodes)
    <3>1. Selecting(s)' = {} => next'[s] = Successor(s, znodes)
      BY <2>1, <2>2, <2>5 DEF FreshOK
    <3>2. ASSUME NEW u \in Selecting(s)
          PROVE  /\ thread'[s][u].pc = "select" => thread'[s][u].list = znodes
                 /\ thread'[s][u].pc \in {"switch", "set"}
                       => thread'[s][u].to = Successor(s, znodes)
      <4>1. CASE u = t
        BY <1>1, <2>3, <2>5, <4>1
      <4>2. CASE u # t
        <5>1. thread'[s][u] = thread[s][u]
          BY <1>1, <4>2 DEF Selecting
        <5> QED BY <2>2, <2>5, <5>1 DEF FreshOK
      <4> QED BY <4>1, <4>2
    <3> QED BY <2>1, <3>1, <3>2
  <2>6. znodes' = znodes /\ armed'[s] = armed[s]
    BY DEF SameWorld
  <2> QED BY <2>4, <2>5, <2>6 DEF FreshOK
<1> QED BY <1>2, <1>3, <1>4, <1>6 DEF ServerOK

\* A thread begins a callback: it has read the children as they are.
LEMMA BeginsOK ==
    ASSUME TypeOK, NEW s \in Server, NEW t \in Thread, NEW w \in Watch,
           ServerOK(s), Up(s), thread[s][t].pc \in {"idle", "children"},
           thread[s][t].watch = "next" => w = "next",
           GetChildren(s, t, w), status'[s] = status[s], znodes' = znodes,
           next'[s] = next[s],
           \A v \in Watch : WatchOK(s, v)'
    PROVE  ServerOK(s)'
<1>1. /\ thread'[s][t] = [pc |-> "select", watch |-> w, list |-> znodes, to |-> NULL]
      /\ \A u \in Thread \ {t} : thread'[s][u] = thread[s][u]
  BY BecomesAt DEF GetChildren
<1>2. ThreadOK(s)'
  <2>1. ThreadOK(s)
    BY DEF ServerOK
  <2> QED BY <1>1, <2>1, MembershipAssumption DEF ThreadOK, Thread, Watch
<1>3. GoneOK(s)'
  BY DEF GoneOK, Up
<1>5. FreshOK(s)'
  <2>1. armed'[s] = armed[s] \cup {w}
    BY DEF GetChildren, TypeOK
  <2>2. overlap'[s] = (overlap[s] \/ \E u \in Thread \ {t} :
                          w = "next" /\ thread[s][u].watch = "next")
    BY DEF GetChildren, TypeOK
  <2>3. FreshOK(s)
    BY DEF ServerOK
  <2>4. CASE w = "next"
    <3>1. t \in Selecting(s)'
      BY <1>1, <2>4 DEF Selecting
    <3>2. ~overlap'[s] => \A u \in Thread \ {t} : thread[s][u].watch # "next"
      BY <2>2, <2>4
    <3>3. ~overlap'[s] => \A u \in Selecting(s)' : u = t
      BY <1>1, <3>2 DEF Selecting
    <3> QED BY <1>1, <3>1, <3>3 DEF FreshOK
  <2>5. CASE w = "prev"
    <3>1. Selecting(s)' = Selecting(s) /\ t \notin Selecting(s)
      BY <1>1, <2>5 DEF Selecting
    <3>2. \A u \in Selecting(s) : thread'[s][u] = thread[s][u]
      BY <1>1, <3>1 DEF Selecting
    <3>3. ("next" \in armed'[s] <=> "next" \in armed[s]) /\ (overlap'[s] <=> overlap[s])
      BY <2>1, <2>2, <2>5
    <3> QED BY <2>3, <3>1, <3>2, <3>3 DEF FreshOK
  <2> QED BY <2>4, <2>5 DEF Watch
<1> QED BY <1>2, <1>3, <1>5 DEF ServerOK

-----------------------------------------------------------------------------
(* The steps.                                                              *)

\* The end of a process.
LEMMA DieOK ==
    ASSUME TypeOK, IInv, NEW p \in Server, Die(p)
    PROVE  \A s \in Server : ServerOK(s)'
<1> SUFFICES ASSUME NEW s \in Server PROVE ServerOK(s)'
  OBVIOUS
<1>1. CASE s = p
  <2>1. /\ status'[s] = "dead" /\ armed'[s] = {} /\ events'[s] = <<>>
        /\ thread'[s] = [t \in Thread |-> Idle] /\ next'[s] = NULL
    BY <1>1 DEF Die, TypeOK
  <2> QED BY <2>1, Gone DEF Up
<1>2. CASE s # p
  BY <1>2, Frame DEF Die, TypeOK, SameServer, IInv
<1> QED BY <1>1, <1>2

LEMMA RegisterOK ==
    ASSUME IInv, TypeOK', NEW p \in Server, Register(p)
    PROVE  \A s \in Server : ServerOK(s)'
<1> USE DEF IInv
<1> SUFFICES ASSUME NEW s \in Server PROVE ServerOK(s)'
  OBVIOUS
<1>1. armed'[s] = {}
      /\ events'[s] = IF armed[s] = {} THEN events[s] ELSE Append(events[s], armed[s])
  BY DEF Register, ChildrenChange
<1>2. next'[s] = next[s] /\ overlap'[s] = overlap[s]
  BY DEF Register, history
<1>3. CASE s # p
  <2>1. status'[s] = status[s] /\ thread'[s] = thread[s]
    BY <1>3 DEF Register, TypeOK
  <2> QED BY <1>1, <1>2, <2>1, Change
<1>4. CASE s = p
  <2>1. ServerOK(s) /\ status[s] = "absent"
    BY <1>4 DEF Register
  <2>2. armed[s] = {} /\ events[s] = <<>> /\ thread[s] = [t \in Thread |-> Idle]
        /\ next[s] = NULL
    BY <2>1 DEF ServerOK, GoneOK, Up
  <2>3. thread'[s]["main"] = [pc |-> "children", watch |-> "next", list |-> {}, to |-> NULL]
        /\ thread'[s]["completion"] = Idle
    BY <1>4, <2>2 DEF Register, TypeOK, Idle, Thread
  <2>4. events'[s] = <<>> /\ status'[s] = "up"
    BY <1>1, <1>4, <2>2 DEF Register, TypeOK
  <2>5. ThreadOK(s)'
    BY <2>3, MembershipAssumption DEF ThreadOK, Idle, Thread
  <2>6. GoneOK(s)'
    BY <2>4 DEF GoneOK, Up
  <2>7. \A w \in Watch : WatchOK(s, w)'
    <3>1. \A w \in Watch : Places(s, w)' = {}
      <4>1. DOMAIN events'[s] = {}
        BY <2>4
      <4> QED BY <1>1, <4>1 DEF Places
    <3>2. \A w \in Watch : ~Asked(s, w)'
      BY <2>3 DEF Asked, Watch
    <3> QED BY <3>1, <3>2 DEF WatchOK
  <2>9. FreshOK(s)'
    <3>1. \A t \in Thread : thread'[s][t].watch = "next" => t = "main"
      BY <2>3, MembershipAssumption DEF Idle, Thread
    <3> QED BY <1>1, <3>1 DEF FreshOK, Selecting
  <2> QED BY <2>5, <2>6, <2>7, <2>9 DEF ServerOK
<1> QED BY <1>3, <1>4

LEMMA ExpireOK ==
    ASSUME IInv, TypeOK', NEW p \in Server, Expire(p)
    PROVE  \A s \in Server : ServerOK(s)'
<1> SUFFICES ASSUME NEW s \in Server PROVE ServerOK(s)'
  OBVIOUS
<1>1. armed'[s] = {}
      /\ events'[s] = IF armed[s] = {} THEN events[s] ELSE Append(events[s], armed[s])
  BY DEF Expire, ChildrenChange
<1> QED BY <1>1, Change DEF Expire, local, history, IInv

\* A step of a thread of server p: the others are as they were, but for their
\* accept queues.
OthersSame(p) ==
    \A s \in Server \ {p} : SameServer(s)

LEMMA OneServer ==
    ASSUME IInv, NEW p \in Server, OthersSame(p), ServerOK(p)'
    PROVE  \A s \in Server : ServerOK(s)'
BY Frame DEF IInv, OthersSame

\* A thread that is in a callback belongs to a process that runs.
LEMMA Running ==
    ASSUME IInv, NEW s \in Server, NEW t \in Thread, thread[s][t].pc # "idle"
    PROVE  Up(s)
BY DEF IInv, ServerOK, GoneOK, Idle

LEMMA MainLoopOK ==
    ASSUME IInv, TypeOK', NEW p \in Server, network_main_loop(p)
    PROVE  \A s \in Server : ServerOK(s)'
<1> USE DEF IInv
<1>1. OthersSame(p)
  BY DEF network_main_loop, Becomes, OthersSame, SameServer, TypeOK, history
<1>2. /\ thread[p]["main"].pc = "accept"
      /\ thread'[p]["main"] = [pc |-> "loop", watch |-> NULL, list |-> {}, to |-> NULL]
      /\ thread'[p]["completion"] = thread[p]["completion"]
  <2>1. Becomes(p, "main", [Idle EXCEPT !.pc = "loop"])
    BY DEF network_main_loop
  <2>2. [Idle EXCEPT !.pc = "loop"]
          = [pc |-> "loop", watch |-> NULL, list |-> {}, to |-> NULL]
    BY DEF Idle
  <2>3. /\ thread'[p]["main"] = [Idle EXCEPT !.pc = "loop"]
        /\ thread'[p]["completion"] = thread[p]["completion"]
    BY <2>1, BecomesAt DEF Thread
  <2> QED BY <2>2, <2>3 DEF network_main_loop
<1>3. Up(p) /\ ServerOK(p)
  BY <1>2, Running DEF Thread
<1>4. SameWorld(p) /\ next' = next
  BY DEF network_main_loop, SameWorld, history
<1>5. thread[p]["main"].watch = NULL
  BY <1>2, <1>3 DEF ServerOK, ThreadOK, Thread
<1>6. ThreadOK(p)' /\ GoneOK(p)'
  BY <1>2, <1>3, <1>4 DEF ServerOK, ThreadOK, GoneOK, Thread, SameWorld, Up
<1>7. \A w \in Watch : WatchOK(p, w)'
  <2>1. \A w \in Watch : Asked(p, w)' <=> Asked(p, w)
    BY <1>2, <1>5, MembershipAssumption DEF Asked, Watch
  <2> QED BY <1>3, <1>4, <2>1, SameWatches
<1>9. FreshOK(p)'
  <2>1. \A t \in Thread : thread'[p][t].watch = "next" <=> thread[p][t].watch = "next"
    BY <1>2, <1>5 DEF Thread
  <2>2. Selecting(p)' = Selecting(p)
    BY <2>1 DEF Selecting
  <2>3. \A t \in Selecting(p) : thread'[p][t] = thread[p][t]
    BY <1>2, <1>5, MembershipAssumption DEF Selecting, Thread
  <2> QED BY <1>3, <1>4, <2>2, <2>3 DEF ServerOK, FreshOK, SameWorld
<1>10. ServerOK(p)'
  BY <1>6, <1>7, <1>9 DEF ServerOK
<1> QED BY <1>1, <1>10, OneServer

LEMMA GetChildrenOthers ==
    ASSUME TypeOK, NEW p \in Server, NEW t \in Thread, NEW w, GetChildren(p, t, w),
           NEW s \in Server \ {p}
    PROVE  thread'[s] = thread[s] /\ armed'[s] = armed[s] /\ overlap'[s] = overlap[s]
BY BecomesAt DEF GetChildren, TypeOK

\* main asks for the children: the watch was nowhere before.
LEMMA MainChildrenOK ==
    ASSUME IInv, TypeOK', NEW p \in Server, zk_get_children(p)
    PROVE  \A s \in Server : ServerOK(s)'
<1> USE DEF IInv
<1> DEFINE w == thread[p]["main"].watch
<1>1. thread[p]["main"].pc = "children" /\ GetChildren(p, "main", w)
      /\ UNCHANGED <<status, znodes, events, backlog, crashes, next, dangling, buffer,
                     fault>>
  BY DEF zk_get_children
<1>2. OthersSame(p)
  BY <1>1, GetChildrenOthers DEF OthersSame, SameServer, Thread
<1>3. Up(p) /\ ServerOK(p)
  BY <1>1, Running DEF Thread
<1>4. w \in Watch
  <2>1. w # NULL
    BY <1>1, <1>3 DEF ServerOK, ThreadOK, Thread
  <2> QED BY <2>1 DEF TypeOK, Thread
<1>5. thread'[p]["main"] = [pc |-> "select", watch |-> w, list |-> znodes, to |-> NULL]
  BY <1>1, BecomesAt DEF GetChildren, Thread
<1>6. armed'[p] = armed[p] \cup {w}
  BY <1>1 DEF GetChildren, TypeOK
<1>7. \A v \in Watch : WatchOK(p, v)'
  <2> SUFFICES ASSUME NEW v \in Watch PROVE WatchOK(p, v)'
    OBVIOUS
  <2>1. WatchOK(p, v) /\ Up(p)' /\ events'[p] = events[p]
    BY <1>1, <1>3 DEF ServerOK, Up
  <2>2. CASE v = w
    <3>1. ~Asked(p, v) /\ Asked(p, v)'
      BY <1>1, <1>5, <2>2 DEF Asked
    <3>2. Places(p, v) = {}
      BY <1>3, <2>1, <3>1 DEF WatchOK
    <3>3. Places(p, v)' = {0}
      BY <1>6, <2>1, <2>2, <3>2 DEF Places
    <3> QED BY <3>1, <3>3 DEF WatchOK
  <2>3. CASE v # w
    <3>1. Asked(p, v)' <=> Asked(p, v)
      BY <1>1, <1>4, <1>5, <2>3 DEF Asked, Watch
    <3>2. Places(p, v)' = Places(p, v)
      BY <1>6, <2>1, <2>3 DEF Places
    <3> QED BY <1>3, <2>1, <3>1, <3>2 DEF WatchOK
  <2> QED BY <2>2, <2>3
<1>8. ServerOK(p)'
  BY <1>1, <1>3, <1>4, <1>7, BeginsOK DEF Thread
<1> QED BY <1>2, <1>8, OneServer

\* What is left of the events when watch w of the first one is called.
LEMMA CalledEvents ==
    ASSUME TypeOK, NEW s \in Server, NEW w \in Watch, Called(s, w)
    PROVE  LET e == events[s]
               f == events'[s] IN
           /\ e # <<>> /\ w \in e[1] /\ Len(e) \in Nat \ {0}
           /\ \/ /\ e[1] = {w} /\ Len(f) = Len(e) - 1
                 /\ \A i \in 1 .. Len(f) : f[i] = e[i + 1]
              \/ /\ Len(f) = Len(e)
                 /\ f[1] = e[1] \ {w}
                 /\ \A i \in 2 .. Len(e) : f[i] = e[i]
<1> DEFINE e == events[s]
<1>1. e \in Seq((SUBSET Watch) \ {{}}) /\ e # <<>> /\ w \in Head(e)
  BY DEF TypeOK, Called
<1>2. events'[s] = IF Head(e) = {w} THEN Tail(e) ELSE <<Head(e) \ {w}>> \o Tail(e)
  BY DEF TypeOK, Called
<1>3. Len(e) \in Nat \ {0} /\ Head(e) = e[1]
  BY <1>1
<1>4. /\ Tail(e) \in Seq((SUBSET Watch) \ {{}}) /\ Len(Tail(e)) = Len(e) - 1
      /\ \A i \in 1 .. Len(e) - 1 : Tail(e)[i] = e[i + 1]
  BY <1>1
<1>5. CASE Head(e) = {w}
  BY <1>1, <1>2, <1>3, <1>4, <1>5
<1>6. CASE Head(e) # {w}
  <2> DEFINE a == Head(e) \ {w}
             f == <<a>> \o Tail(e)
  <2>1. a \in (SUBSET Watch) \ {{}}
    BY <1>1, <1>6
  <2>2. <<a>> \in Seq((SUBSET Watch) \ {{}}) /\ Len(<<a>>) = 1 /\ <<a>>[1] = a
    BY <2>1
  <2> HIDE DEF a
  <2>3. Len(f) = Len(e) /\ f[1] = a
    BY <1>3, <1>4, <2>2
  <2>4. ASSUME NEW i \in 2 .. Len(e)
        PROVE  f[i] = e[i]
    <3>1. f[i] = Tail(e)[i - 1]
      BY <1>3, <1>4, <2>2
    <3>2. i - 1 \in 1 .. Len(e) - 1 /\ i - 1 + 1 = i
      BY <1>3
    <3> QED BY <1>4, <3>1, <3>2
  <2>5. events'[s] = f
    BY <1>2, <1>6 DEF a
  <2> HIDE DEF f
  <2> QED BY <1>1, <1>3, <2>3, <2>4, <2>5 DEF a
<1> QED BY <1>5, <1>6

\* The handler of a watch sets it again; the other watch stays where it is.
LEMMA CalledPlaces ==
    ASSUME TypeOK, TypeOK', NEW s \in Server, NEW w \in Watch, Called(s, w),
           armed'[s] = armed[s] \cup {w}, NEW v \in Watch
    PROVE  /\ v = w => Places(s, v) # {}
           /\ (\E i \in Nat : Places(s, v) = {i}) => \E i \in Nat : Places(s, v)' = {i}
           /\ v # w /\ Places(s, v) = {} => Places(s, v)' = {}
<1> DEFINE e == events[s]
           f == events'[s]
<1>1. \A i : i \in Places(s, v) <=> \/ i = 0 /\ v \in armed[s]
                                    \/ i \in 1 .. Len(e) /\ v \in e[i]
  BY PlacesAre
<1>2. \A i : i \in Places(s, v)' <=> \/ i = 0 /\ v \in armed'[s]
                                     \/ i \in 1 .. Len(f) /\ v \in f[i]
  <2>1. DOMAIN f = 1 .. Len(f)
    BY DEF TypeOK
  <2> QED BY <2>1 DEF Places
<1>3. /\ e # <<>> /\ w \in e[1] /\ Len(e) \in Nat \ {0}
      /\ \/ /\ e[1] = {w} /\ Len(f) = Len(e) - 1
            /\ \A i \in 1 .. Len(f) : f[i] = e[i + 1]
         \/ /\ Len(f) = Len(e)
            /\ f[1] = e[1] \ {w}
            /\ \A i \in 2 .. Len(e) : f[i] = e[i]
  BY CalledEvents
<1> HIDE DEF e, f
<1>4. CASE v = w
  <2>1. 1 \in Places(s, v)
    BY <1>1, <1>3, <1>4
  <2>2. ASSUME NEW i \in Nat, Places(s, v) = {i}
        PROVE  Places(s, v)' = {0}
    <3>1. i = 1
      BY <2>1, <2>2
    <3>2. \A j \in 2 .. Len(e) : v \notin e[j]
      BY <1>1, <1>3, <2>2, <3>1
    <3>3. \A j \in 1 .. Len(f) : v \notin f[j]
      <4>1. CASE /\ e[1] = {w} /\ Len(f) = Len(e) - 1
                 /\ \A j \in 1 .. Len(f) : f[j] = e[j + 1]
        BY <1>3, <3>2, <4>1
      <4>2. CASE /\ Len(f) = Len(e) /\ f[1] = e[1] \ {w}
                 /\ \A j \in 2 .. Len(e) : f[j] = e[j]
        <5>1. v \notin f[1]
          BY <1>4, <4>2
        <5>2. \A j \in 1 .. Len(f) : j = 1 \/ j \in 2 .. Len(e)
          BY <1>3, <4>2
        <5> QED BY <3>2, <4>2, <5>1, <5>2
      <4> QED BY <1>3, <4>1, <4>2
    <3>4. \A j : j \in Places(s, v)' <=> j = 0
      BY <1>2, <1>4, <3>3
    <3> QED BY <3>4
  <2> QED BY <1>4, <2>1, <2>2
<1>5. CASE v # w
  <2>1. v \in armed'[s] <=> v \in armed[s]
    BY <1>5
  <2>2. CASE /\ e[1] = {w} /\ Len(f) = Len(e) - 1
             /\ \A j \in 1 .. Len(f) : f[j] = e[j + 1]
    <3>1. v \notin e[1]
      BY <1>5, <2>2
    <3>2. \A j \in 1 .. Len(f) : j + 1 \in Places(s, v) <=> j \in Places(s, v)'
      BY <1>1, <1>2, <1>3, <2>2
    <3>3. 0 \in Places(s, v)' <=> 0 \in Places(s, v)
      BY <1>1, <1>2, <1>3, <2>1
    <3>4. /\ \A j : j \in Places(s, v) => j = 0 \/ j - 1 \in 1 .. Len(f)
          /\ \A j : j \in Places(s, v)' => j = 0 \/ j \in 1 .. Len(f)
      <4>1. \A j \in 1 .. Len(e) : j = 1 \/ j - 1 \in 1 .. Len(f)
        BY <1>3, <2>2
      <4> QED BY <1>1, <1>2, <3>1, <4>1
    <3>5. ASSUME NEW i \in Nat, Places(s, v) = {i}
          PROVE  \E j \in Nat : Places(s, v)' = {j}
      <4>1. CASE i = 0
        <5>1. \A j : j \in Places(s, v)' <=> j = 0
          BY <1>3, <2>2, <3>2, <3>3, <3>4, <3>5, <4>1
        <5> QED BY <5>1
      <4>2. CASE i # 0
        <5>1. i - 1 \in 1 .. Len(f)
          BY <3>4, <3>5, <4>2
        <5>2. 0 \notin Places(s, v)'
          BY <3>3, <3>5, <4>2
        <5>3. \A j \in 1 .. Len(f) : j \in Places(s, v)' <=> j = i - 1
          BY <1>3, <2>2, <3>2, <3>5
        <5>4. \A j : j \in Places(s, v)' <=> j = i - 1
          BY <3>4, <5>1, <5>2, <5>3
        <5>5. Places(s, v)' = {i - 1} /\ i - 1 \in Nat
          BY <5>1, <5>4
        <5> QED BY <5>5
      <4> QED BY <4>1, <4>2
    <3>6. Places(s, v) = {} => Places(s, v)' = {}
      BY <3>2, <3>3, <3>4
    <3> QED BY <1>5, <3>5, <3>6
  <2>3. CASE /\ Len(f) = Len(e) /\ f[1] = e[1] \ {w}
             /\ \A j \in 2 .. Len(e) : f[j] = e[j]
    <3>1. \A j \in 1 .. Len(e) : v \in f[j] <=> v \in e[j]
      <4>1. v \in f[1] <=> v \in e[1]
        BY <1>5, <2>3
      <4>2. \A j \in 1 .. Len(e) : j = 1 \/ j \in 2 .. Len(e)
        BY <1>3
      <4> QED BY <2>3, <4>1, <4>2
    <3>2. \A j : j \in Places(s, v)' <=> j \in Places(s, v)
      BY <1>1, <1>2, <2>1, <2>3, <3>1
    <3>3. Places(s, v)' = Places(s, v)
      BY <3>2
    <3> QED BY <1>5, <3>3
  <2> QED BY <1>3, <2>2, <2>3
<1> QED BY <1>4, <1>5

LEMMA WatcherOK ==
    ASSUME IInv, TypeOK', NEW p \in Server, zk_child_watcher(p)
    PROVE  \A s \in Server : ServerOK(s)'
<1> USE DEF IInv
<1>1. PICK w \in Watch : /\ Called(p, w)
                         /\ GetChildren(p, "completion", w)
                         /\ UNCHANGED <<status, znodes, backlog, crashes, next, dangling,
                                        buffer, fault>>
  BY DEF zk_child_watcher
<1>2. OthersSame(p)
  <2>1. \A s \in Server \ {p} : events'[s] = events[s]
    BY <1>1 DEF Called, TypeOK
  <2> QED BY <1>1, <2>1, GetChildrenOthers DEF OthersSame, SameServer, Thread
<1>3. ServerOK(p) /\ events[p] # <<>> /\ thread[p]["completion"].pc = "idle"
  BY <1>1 DEF Called
<1>4. Up(p)
  BY <1>3 DEF ServerOK, GoneOK
<1>5. thread[p]["completion"].watch = NULL
  BY <1>3 DEF ServerOK, ThreadOK, Thread
<1>6. thread'[p]["main"] = thread[p]["main"]
  BY <1>1, BecomesAt DEF GetChildren, Thread
<1>7. armed'[p] = armed[p] \cup {w}
  BY <1>1 DEF GetChildren, TypeOK
<1>8. \A v \in Watch : WatchOK(p, v)'
  <2> SUFFICES ASSUME NEW v \in Watch PROVE WatchOK(p, v)'
    OBVIOUS
  <2>1. /\ v = w => Places(p, v) # {}
        /\ (\E i \in Nat : Places(p, v) = {i}) => \E i \in Nat : Places(p, v)' = {i}
        /\ v # w /\ Places(p, v) = {} => Places(p, v)' = {}
    BY <1>1, <1>7, CalledPlaces
  <2>2. Asked(p, v)' <=> Asked(p, v)
    BY <1>6 DEF Asked
  <2>3. WatchOK(p, v)
    BY <1>3 DEF ServerOK
  <2> QED BY <1>4, <2>1, <2>2, <2>3 DEF WatchOK
<1>9. ServerOK(p)'
  <2>1. status'[p] = status[p] /\ znodes' = znodes /\ next'[p] = next[p]
    BY <1>1
  <2>2. thread[p]["completion"].watch = "next" => w = "next"
    BY <1>5, MembershipAssumption
  <2> QED BY <1>1, <1>3, <1>4, <1>8, <2>1, <2>2, BeginsOK DEF Thread
<1> QED BY <1>2, <1>9, OneServer

LEMMA BecomesOthers ==
    ASSUME IInv, NEW p \in Server, NEW t \in Thread, Returns(p, t) \/ \E pc, to : Goes(p, t, pc, to)
    PROVE  \A s \in Server \ {p} : thread'[s] = thread[s]
BY BecomesAt DEF Returns, Goes, IInv

LEMMA SelectNextOK ==
    ASSUME IInv, TypeOK', NEW p \in Server, NEW t \in Thread, SelectNext(p, t)
    PROVE  \A s \in Server : ServerOK(s)'
<1> USE DEF IInv
<1> DEFINE list == thread[p][t].list
           q == Successor(p, list)
<1>1. thread[p][t].pc = "select" /\ thread[p][t].watch = "next"
  BY DEF SelectNext, At
<1>2. Up(p) /\ ServerOK(p) /\ list \in SUBSET Server
  <2>1. Up(p)
    BY <1>1, Running
  <2>2. list \in SUBSET Server
    BY DEF TypeOK
  <2> QED BY <2>1, <2>2
<1>3. ~overlap[p] /\ "next" \in armed[p] => list = znodes
  BY <1>1, <1>2 DEF ServerOK, FreshOK, Selecting
<1>4. CASE q = NULL /\ Goes(p, t, "switch", NULL)
           /\ UNCHANGED <<world, next, dangling, buffer, history>>
  <2>1. OthersSame(p)
    BY <1>4, BecomesOthers DEF OthersSame, SameServer, world, history
  <2>2. SameWorld(p) /\ next' = next
    BY <1>4 DEF SameWorld, world, history
  <2>3. ~overlap[p] /\ "next" \in armed[p] => NULL = Successor(p, znodes)
    BY <1>3, <1>4
  <2>4. ServerOK(p)'
    BY <1>1, <1>2, <1>4, <2>2, <2>3, GoesOK
  <2> QED BY <2>1, <2>4, OneServer
<1>5. ASSUME q # NULL, NEW a \in Server, a = q \/ q \notin znodes, ConnectNext(p, t, a)
      PROVE  \A s \in Server : ServerOK(s)'
  <2>1. q \in list /\ q > p
    BY <1>2, <1>5, SuccessorAhead
  <2>2. Goes(p, t, "switch", a)
    BY <1>5 DEF ConnectNext
  <2> HIDE DEF q
  <2>4. OthersSame(p)
    BY <1>5, <2>2, BecomesOthers DEF OthersSame, SameServer, ConnectNext, TypeOK
  <2>5. SameWorld(p) /\ next' = next
    BY <1>5 DEF SameWorld, ConnectNext
  <2>8. ~overlap[p] /\ "next" \in armed[p] => a = Successor(p, znodes)
    BY <1>3, <1>5, <2>1 DEF q
  <2>10. ServerOK(p)'
    BY <1>1, <1>2, <2>2, <2>5, <2>8, GoesOK
  <2> QED BY <2>4, <2>10, OneServer
<1>6. CASE Fault(p)
  BY <1>6, DieOK DEF Fault
<1> QED BY <1>4, <1>5, <1>6, SelectNextCases

LEMMA DropOldOK ==
    ASSUME IInv, TypeOK', NEW p \in Server, NEW t \in Thread, DropOld(p, t)
    PROVE  \A s \in Server : ServerOK(s)'
<1> USE DEF IInv
<1> DEFINE to == thread[p][t].to
<1>1. thread[p][t].pc = "switch" /\ thread[p][t].watch = "next"
  BY DEF DropOld, At
<1>2. Up(p) /\ ServerOK(p)
  BY <1>1, Running
<1>4. ~overlap[p] /\ "next" \in armed[p] => to = Successor(p, znodes)
  BY <1>1, <1>2 DEF ServerOK, FreshOK, Selecting
<1>6. CASE next[p] = NULL /\ to = NULL /\ Returns(p, t)
           /\ UNCHANGED <<world, next, dangling, buffer, history>>
  <2>1. OthersSame(p)
    BY <1>6, BecomesOthers DEF OthersSame, SameServer, world, history
  <2>2. SameWorld(p) /\ next' = next
    BY <1>6 DEF SameWorld, world, history
  <2>3. ServerOK(p)'
    BY <1>1, <1>2, <1>4, <1>6, <2>2, ReturnsOK
  <2> QED BY <2>1, <2>3, OneServer
<1>7. CASE Goes(p, t, "set", to) /\ UNCHANGED <<world, next, buffer, history>>
  <2>1. OthersSame(p)
    BY <1>7, BecomesOthers DEF OthersSame, SameServer, world, history
  <2>2. SameWorld(p) /\ next' = next
    BY <1>7 DEF SameWorld, world, history
  <2>3. ServerOK(p)'
    BY <1>1, <1>2, <1>4, <1>7, <2>2, GoesOK
  <2> QED BY <2>1, <2>3, OneServer
<1>8. CASE Fault(p)
  BY <1>8, DieOK DEF Fault
<1> QED BY <1>6, <1>7, <1>8 DEF DropOld

LEMMA SetNextOK ==
    ASSUME IInv, TypeOK', NEW p \in Server, NEW t \in Thread, SetNext(p, t)
    PROVE  \A s \in Server : ServerOK(s)'
<1> USE DEF IInv
<1> DEFINE to == thread[p][t].to
<1>1. thread[p][t].pc = "set" /\ thread[p][t].watch = "next" /\ Returns(p, t)
      /\ UNCHANGED <<world, buffer, history>> /\ next' = [next EXCEPT ![p] = to]
  BY DEF SetNext, At
<1>2. Up(p) /\ ServerOK(p)
  BY <1>1, Running
<1>4. ~overlap[p] /\ "next" \in armed[p] => to = Successor(p, znodes)
  BY <1>1, <1>2 DEF ServerOK, FreshOK, Selecting
<1>5. OthersSame(p)
  BY <1>1, BecomesOthers DEF OthersSame, SameServer, world, history, TypeOK
<1>6. SameWorld(p) /\ next'[p] = to
  BY <1>1 DEF SameWorld, world, history, TypeOK
<1> HIDE DEF to
<1>7. ServerOK(p)'
  BY <1>1, <1>2, <1>4, <1>6, ReturnsOK
<1> QED BY <1>5, <1>7, OneServer

\* A callback that leaves the next server alone returns.
LEMMA PrevReturnsOK ==
    ASSUME IInv, TypeOK', NEW p \in Server, NEW t \in Thread,
           thread[p][t].pc \in {"select", "merge"}, thread[p][t].watch = "prev", Returns(p, t),
           UNCHANGED <<status, znodes, armed, events, crashes, next, dangling, history>>
    PROVE  \A s \in Server : ServerOK(s)'
<1> USE DEF IInv
<1>1. Up(p) /\ ServerOK(p)
  BY Running
<1>2. OthersSame(p)
  BY BecomesOthers DEF OthersSame, SameServer, history
<1>3. SameWorld(p) /\ next' = next
  BY DEF SameWorld, history
<1>5. ServerOK(p)'
  BY <1>1, <1>3, ReturnsOK
<1> QED BY <1>2, <1>5, OneServer

LEMMA SelectPrevOK ==
    ASSUME IInv, TypeOK', NEW p \in Server, NEW t \in Thread, SelectPrev(p, t)
    PROVE  \A s \in Server : ServerOK(s)'
<1> USE DEF IInv
<1> DEFINE q == Predecessor(p, thread[p][t].list)
<1>1. thread[p][t].pc = "select" /\ thread[p][t].watch = "prev"
  BY DEF SelectPrev, At
<1>2. CASE Returns(p, t) /\ UNCHANGED <<status, znodes, armed, events, crashes, next, dangling, history>>
  BY <1>1, <1>2, PrevReturnsOK
<1>3. CASE Goes(p, t, "merge", q)
           /\ UNCHANGED <<status, znodes, armed, events, crashes, next, dangling, history>>
  <2> HIDE DEF q
  <2>1. Up(p) /\ ServerOK(p)
    BY <1>1, Running
  <2>2. OthersSame(p)
    BY <1>3, BecomesOthers DEF OthersSame, SameServer, history
  <2>3. SameWorld(p) /\ next' = next
    BY <1>3 DEF SameWorld, history
  <2>4. ServerOK(p)'
    BY <1>1, <1>3, <2>1, <2>3, GoesOK
  <2> QED BY <2>2, <2>4, OneServer
<1>4. CASE Fault(p)
  BY <1>4, DieOK DEF Fault
<1> QED BY <1>2, <1>3, <1>4 DEF SelectPrev, world

LEMMA MergeOK ==
    ASSUME IInv, TypeOK', NEW p \in Server, NEW t \in Thread, Merge(p, t)
    PROVE  \A s \in Server : ServerOK(s)'
<1>1. thread[p][t].pc = "merge" /\ thread[p][t].watch = "prev"
  BY DEF Merge, At
<1>2. CASE Returns(p, t) /\ UNCHANGED <<world, next, dangling, buffer, history>>
  BY <1>1, <1>2, PrevReturnsOK DEF world
<1>3. CASE Fault(p)
  BY <1>3, DieOK DEF Fault, IInv
<1> QED BY <1>2, <1>3 DEF Merge

-----------------------------------------------------------------------------
(* The theorems.                                                           *)

LEMMA InvInit == Init => IInv
<1> SUFFICES ASSUME Init PROVE IInv
  OBVIOUS
<1>1. TypeOK
  BY TypeInit
<1>2. ASSUME NEW s \in Server
      PROVE  ServerOK(s)
  <2>1. \A t \in Thread : thread[s][t] = Idle
    BY DEF Init
  <2>2. ThreadOK(s)
    BY <2>1 DEF ThreadOK, Idle, Thread
  <2>3. ~Up(s) /\ GoneOK(s)
    BY DEF Init, Up, GoneOK
  <2>4. \A w \in Watch : WatchOK(s, w)
    BY <2>3 DEF WatchOK
  <2>6. FreshOK(s)
    BY <2>1, MembershipAssumption DEF Init, FreshOK, Selecting, Idle
  <2> QED BY <2>2, <2>3, <2>4, <2>6 DEF ServerOK
<1> QED BY <1>1, <1>2 DEF IInv

LEMMA InvStep == IInv /\ [Next]_vars => IInv'
<1> SUFFICES ASSUME IInv, [Next]_vars PROVE IInv'
  OBVIOUS
<1>1. TypeOK'
  BY TypeStep DEF IInv, ServerOK
<1>2. \A s \in Server : ServerOK(s)'
  <2>1. CASE Next
    <3>1. PICK p \in Server :
             \/ Register(p) \/ Crash(p) \/ Expire(p) \/ Main(p) \/ zk_child_watcher(p)
             \/ \E t \in Thread : Callback(p, t)
      BY <2>1 DEF Next
    <3>2. CASE Register(p)
      BY <1>1, <3>2, RegisterOK
    <3>3. CASE Crash(p)
      BY <3>3, DieOK DEF Crash, IInv
    <3>4. CASE Expire(p)
      BY <1>1, <3>4, ExpireOK
    <3>5. CASE Main(p)
      BY <1>1, <3>5, MainChildrenOK, MainLoopOK DEF Main
    <3>6. CASE zk_child_watcher(p)
      BY <1>1, <3>6, WatcherOK
    <3>7. CASE \E t \in Thread : Callback(p, t)
      BY <1>1, <3>7, SelectNextOK, DropOldOK, SetNextOK, SelectPrevOK, MergeOK DEF Callback
    <3> QED BY <3>1, <3>2, <3>3, <3>4, <3>5, <3>6, <3>7
  <2>2. CASE UNCHANGED vars
    BY <2>2, Frame DEF IInv, SameServer, vars, world, local, history
  <2> QED BY <2>1, <2>2
<1> QED BY <1>1, <1>2 DEF IInv

THEOREM MembershipInvariant == Spec => []IInv
BY InvInit, InvStep, PTL DEF Spec

\* A watch that has been set is in one place.
LEMMA InvWatchKept == IInv => WatchKept
<1> SUFFICES ASSUME IInv, NEW s \in Server, NEW w \in Watch, Up(s), Asked(s, w)
             PROVE  Cardinality(Places(s, w)) = 1
  BY DEF WatchKept
<1>1. PICK i \in Nat : Places(s, w) = {i}
  BY DEF IInv, ServerOK, WatchOK
<1>2. Cardinality({i}) = 1
  BY FS_Singleton
<1> QED BY <1>1, <1>2

\* A settled server has its watch armed: no child has changed since it selected.
LEMMA InvSettledNext == IInv => SettledNext
<1> SUFFICES ASSUME IInv, NEW s \in Server, Settled(s), ~overlap[s]
             PROVE  next[s] = Successor(s, znodes)
  BY DEF SettledNext
<1>1. /\ Up(s) /\ thread[s]["main"].pc = "loop"
      /\ thread[s]["completion"].pc = "idle" /\ events[s] = <<>>
  BY DEF Settled, InLoop
<1>2. \A t \in Thread : thread[s][t].watch = NULL
  BY <1>1 DEF IInv, ServerOK, ThreadOK, Thread
<1>3. Selecting(s) = {}
  BY <1>2, MembershipAssumption DEF Selecting
<1>4. "next" \in armed[s]
  <2>1. Asked(s, "next")
    BY <1>1 DEF Asked
  <2>2. \E i \in Nat : Places(s, "next") = {i}
    BY <1>1, <2>1 DEF IInv, ServerOK, WatchOK, Watch
  <2>3. DOMAIN events[s] = {}
    BY <1>1
  <2> QED BY <2>2, <2>3 DEF Places
<1> QED BY <1>3, <1>4 DEF IInv, ServerOK, FreshOK

\* The variables keep their types; in particular no accept queue ever holds more
\* than the kernel keeps for it (network_server.c:63).
THEOREM MembershipType == Spec => []TypeOK
<1>1. IInv => TypeOK
  BY DEF IInv
<1> QED BY <1>1, MembershipInvariant, PTL

\* No watch is lost or doubled, however changes, callbacks and the start of main
\* interleave (client_zookeeper.c:64-92).
THEOREM WatchesAreKept == Spec => []WatchKept
BY InvWatchKept, MembershipInvariant, PTL

\* A server that has handled every event is connected to its successor, unless
\* its two threads selected a next server at once (table_server.c:133-185).
THEOREM SettledKnowsNext == Spec => []SettledNext
BY InvSettledNext, MembershipInvariant, PTL
=============================================================================
