----------------------------- MODULE KVService -----------------------------
(***************************************************************************)
(* What a client of the replicated table is promised                       *)
(* (src/include/client_stub.h): one table.  Every call takes effect at one *)
(* moment between its invocation and its return, and returns the result    *)
(* that the table gives at that moment.  Chain.tla is shown to implement   *)
(* this module for one writing client and any number of reading ones.      *)
(***************************************************************************)
EXTENDS Integers

CONSTANTS Client, Key, Value, NULL

VARIABLES dict,   \* the table: dict[k] is the value of k, NULL when absent
          call    \* the call of each client and its progress

vars == <<dict, call>>

Op == [op : {"put"}, key : Key, value : Value]
      \cup [op : {"del", "get"}, key : Key, value : {NULL}]

NoCall == [pc |-> "idle", op |-> NULL, res |-> NULL]

\* The result of operation m on table d, and the table it leaves.
Result(d, m) ==
    CASE m.op = "put" -> 0
      [] m.op = "del" -> IF d[m.key] = NULL THEN -1 ELSE 0
      [] m.op = "get" -> d[m.key]

After(d, m) == IF m.op = "get" THEN d ELSE [d EXCEPT ![m.key] = m.value]

Init ==
    /\ dict = [k \in Key |-> NULL]
    /\ call = [c \in Client |-> NoCall]

Invoke(c) ==
    /\ call[c].pc = "idle"
    /\ \E m \in Op :
         call' = [call EXCEPT ![c] = [pc |-> "called", op |-> m, res |-> NULL]]
    /\ UNCHANGED dict

TakeEffect(c) ==
    /\ call[c].pc = "called"
    /\ dict' = After(dict, call[c].op)
    /\ call' = [call EXCEPT ![c] = [pc  |-> "done", op |-> @.op,
                                    res |-> Result(dict, @.op)]]

Return(c) ==
    /\ call[c].pc = "done"
    /\ call' = [call EXCEPT ![c] = [pc |-> "idle", op |-> @.op, res |-> @.res]]
    /\ UNCHANGED dict

Next == \E c \in Client : Invoke(c) \/ TakeEffect(c) \/ Return(c)

Spec == Init /\ [][Next]_vars
=============================================================================
