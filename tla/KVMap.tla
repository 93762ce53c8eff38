------------------------------- MODULE KVMap -------------------------------
(***************************************************************************)
(* What a table promises its caller (src/include/table.h): a finite map    *)
(* from keys to values, and for each operation the result it returns.      *)
(* Rows, lists and counters are the implementation's business; Table.tla   *)
(* is shown to implement this module.                                      *)
(***************************************************************************)
EXTENDS Integers, FiniteSets

CONSTANTS Key,      \* the keys
          Value,    \* the values
          NULL      \* no value, no key, no result

VARIABLES dict,     \* dict[k]: the value of k, NULL when k is absent
          ret       \* the last operation and what it returned

vars == <<dict, ret>>

Present == {k \in Key : dict[k] # NULL}

Reply(op, args, res) == ret' = [op |-> op, args |-> args, res |-> res]

Init ==
    /\ dict = [k \in Key |-> NULL]
    /\ ret = [op |-> "create", args |-> <<>>, res |-> 0]

\* A put of a missing key or of an invalid value fails and changes nothing.
Put(k, v) ==
    \/ /\ k \in Key /\ v \in Value
       /\ dict' = [dict EXCEPT ![k] = v]
       /\ Reply("put", <<k, v>>, 0)
    \/ /\ k = NULL \/ v = NULL
       /\ Reply("put", <<k, v>>, -1)
       /\ UNCHANGED dict

Get(k) ==
    /\ Reply("get", <<k>>, IF k = NULL THEN NULL ELSE dict[k])
    /\ UNCHANGED dict

Remove(k) ==
    \/ /\ k \in Present
       /\ dict' = [dict EXCEPT ![k] = NULL]
       /\ Reply("remove", <<k>>, 0)
    \/ /\ k \in Key \ Present
       /\ Reply("remove", <<k>>, 1)
       /\ UNCHANGED dict
    \/ /\ k = NULL
       /\ Reply("remove", <<k>>, -1)
       /\ UNCHANGED dict

Size ==
    /\ Reply("size", <<>>, Cardinality(Present))
    /\ UNCHANGED dict

GetKeys ==
    /\ Reply("getkeys", <<>>, IF Present = {} THEN NULL ELSE Present)
    /\ UNCHANGED dict

GetTable ==
    /\ Reply("gettable", <<>>,
             IF Present = {} THEN NULL
             ELSE {[key |-> k, value |-> dict[k]] : k \in Present})
    /\ UNCHANGED dict

Next ==
    \/ \E k \in Key \cup {NULL} : \/ \E v \in Value \cup {NULL} : Put(k, v)
                                  \/ Get(k)
                                  \/ Remove(k)
    \/ Size
    \/ GetKeys
    \/ GetTable

Spec == Init /\ [][Next]_vars
=============================================================================
