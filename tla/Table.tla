------------------------------- MODULE Table -------------------------------
(***************************************************************************)
(* The hash table of a server (src/source/table.c over list.c, entry.c and *)
(* data.c): an array of rows, each row a list of entries in the order of   *)
(* their keys, and a counter of entries that table_put and table_remove    *)
(* maintain beside the lists.                                              *)
(*                                                                         *)
(* Keys are natural numbers in the order of strcmp; KeySum[k] is the sum   *)
(* of the (signed) characters of k.  One action is one call of an          *)
(* operation of table.h by a caller that runs alone: the servers call them *)
(* under table_lock (Server.tla has the calls made without it).  Failures  *)
(* of malloc are not modelled.                                             *)
(***************************************************************************)
EXTENDS Integers, FiniteSets, Sequences, SequencesExt

CONSTANTS Key,       \* the keys, a set of naturals ordered as strcmp orders them
          Value,     \* the valid values (non-NULL data of positive size)
          NULL,      \* the C NULL: no key, no value, nothing found
          Rows,      \* the number of rows, the argument n of table_create
          KeySum     \* KeySum[k]: the sum of the characters of k

ASSUME KeyAssumption == Key \subseteq Nat /\ IsFiniteSet(Key)
ASSUME NullAssumption == NULL \notin Key /\ NULL \notin Value
ASSUME RowsAssumption == Rows \in Nat \ {0}
ASSUME KeySumAssumption == KeySum \in [Key -> Int]

VARIABLES lists,     \* table->lists: for each row, the sequence of its entries
          size,      \* table->size
          ret,       \* the last call and what it returned
          defined    \* FALSE once the code has indexed outside table->lists

vars == <<lists, size, ret, defined>>

Row == 0 .. Rows - 1
Entry == [key : Key, value : Value]
KeyArg == Key \cup {NULL}
ValueArg == Value \cup {NULL}

-----------------------------------------------------------------------------
(* Lists (list.c).                                                         *)

\* Where k is, and where the first entry not below k is: list_add's scan
\* stops at the smallest such position, and its two shortcuts for lists of
\* size 0 and 1 are the same scan unrolled.
At(l, k) == {i \in DOMAIN l : l[i].key = k}
NotBelow(l, k) == {i \in DOMAIN l : l[i].key >= k}

\* Two faults of list_add, for the mutation runs: a list that only grows at
\* its end, and a replacement that keeps the old value.
list_add_unordered(l, e) ==
    IF At(l, e.key) = {}
    THEN [list |-> Append(l, e), ret |-> 0]
    ELSE [list |-> [l EXCEPT ![Min(At(l, e.key))] = e], ret |-> 1]

list_add_keeps(l, e) ==
    LET at == NotBelow(l, e.key) IN
    IF at = {}
    THEN [list |-> Append(l, e), ret |-> 0]
    ELSE LET i == Min(at) IN
         IF l[i].key = e.key
         THEN [list |-> l, ret |-> 1]
         ELSE [list |-> InsertAt(l, i, e), ret |-> 0]

\* list_add: 1 when an entry with the key was there and has been replaced,
\* 0 when the entry has been inserted in order.
list_add(l, e) ==
    LET at == NotBelow(l, e.key) IN
    IF at = {}
    THEN [list |-> Append(l, e), ret |-> 0]
    ELSE LET i == Min(at) IN
         IF l[i].key = e.key
         THEN [list |-> [l EXCEPT ![i] = e], ret |-> 1]
         ELSE [list |-> InsertAt(l, i, e), ret |-> 0]

\* list_remove: 0 when the first entry with the key has been unlinked, 1
\* when there was none.
list_remove(l, k) ==
    IF At(l, k) = {}
    THEN [list |-> l, ret |-> 1]
    ELSE [list |-> RemoveAt(l, Min(At(l, k))), ret |-> 0]

\* list_get: the value of the first entry with the key.
list_get(l, k) ==
    IF At(l, k) = {} THEN NULL ELSE l[Min(At(l, k))].value

\* list_get_keys, as a set: the order of the array is left out.
list_get_keys(l) == {l[i].key : i \in DOMAIN l}

-----------------------------------------------------------------------------
(* The table (table.c).                                                    *)

\* The % of C truncates towards zero: the remainder has the sign of a.
CRem(a, n) == IF a >= 0 THEN a % n ELSE -((-a) % n)

hash_code(k) == CRem(KeySum[k], Rows)

\* Every use of hash_code is an index of table->lists: outside its bounds the
\* behaviour of the program is undefined, and the model stops following it.
InBounds(k) == hash_code(k) \in Row

Keys == UNION {list_get_keys(lists[r]) : r \in Row}

Lookup(k) == list_get(lists[hash_code(k)], k)

Reply(op, args, res) == ret' = [op |-> op, args |-> args, res |-> res]

OutOfBounds(k) ==
    /\ ~InBounds(k)
    /\ defined' = FALSE
    /\ UNCHANGED <<lists, size, ret>>

Init ==
    /\ lists = [r \in Row |-> <<>>]
    /\ size = 0
    /\ ret = [op |-> "create", args |-> <<>>, res |-> 0]
    /\ defined = TRUE

\* Two faults of table_put: the counter moves on a replacement too; the entry
\* goes to the first row whatever its key.
PutEntry_recounts(k, v) ==
    LET r == hash_code(k) IN
    /\ InBounds(k)
    /\ lists' = [lists EXCEPT ![r] = list_add(@, [key |-> k, value |-> v]).list]
    /\ size' = size + 1
    /\ Reply("put", <<k, v>>, 0)
    /\ UNCHANGED defined

PutEntry_oneRow(k, v) ==
    LET add == list_add(lists[0], [key |-> k, value |-> v]) IN
    /\ InBounds(k)
    /\ lists' = [lists EXCEPT ![0] = add.list]
    /\ size' = IF add.ret = 0 THEN size + 1 ELSE size
    /\ Reply("put", <<k, v>>, 0)
    /\ UNCHANGED defined

\* table_put: the counter moves only when list_add has inserted.
PutEntry(k, v) ==
    LET r == hash_code(k)
        add == list_add(lists[r], [key |-> k, value |-> v])
    IN /\ InBounds(k)
       /\ lists' = [lists EXCEPT ![r] = add.list]
       /\ size' = IF add.ret = 0 THEN size + 1 ELSE size
       /\ Reply("put", <<k, v>>, 0)
       /\ UNCHANGED defined

PutInvalid(k, v) ==
    /\ k = NULL \/ v = NULL
    /\ Reply("put", <<k, v>>, -1)
    /\ UNCHANGED <<lists, size, defined>>

\* A fault: the value is not checked.
table_put_unchecked(k, v) ==
    /\ defined
    /\ k # NULL /\ (PutEntry(k, v) \/ OutOfBounds(k))

table_put(k, v) ==
    /\ defined
    /\ \/ PutInvalid(k, v)
       \/ k # NULL /\ v # NULL /\ (PutEntry(k, v) \/ OutOfBounds(k))

\* table_get: an empty table answers before the row is computed.
table_get(k) ==
    /\ defined
    /\ \/ /\ k = NULL \/ size = 0
          /\ Reply("get", <<k>>, NULL)
          /\ UNCHANGED <<lists, size, defined>>
       \/ /\ k # NULL /\ size # 0 /\ InBounds(k)
          /\ Reply("get", <<k>>, Lookup(k))
          /\ UNCHANGED <<lists, size, defined>>
       \/ k # NULL /\ size # 0 /\ OutOfBounds(k)

\* table_remove: the counter moves only when list_remove has unlinked.
RemoveEntry(k) ==
    LET r == hash_code(k)
        rem == list_remove(lists[r], k)
    IN /\ InBounds(k)
       /\ lists' = [lists EXCEPT ![r] = rem.list]
       /\ size' = IF rem.ret = 0 THEN size - 1 ELSE size
       /\ Reply("remove", <<k>>, rem.ret)
       /\ UNCHANGED defined

table_remove(k) ==
    /\ defined
    /\ \/ /\ k = NULL
          /\ Reply("remove", <<k>>, -1)
          /\ UNCHANGED <<lists, size, defined>>
       \/ /\ k # NULL /\ size = 0
          /\ Reply("remove", <<k>>, 1)
          /\ UNCHANGED <<lists, size, defined>>
       \/ k # NULL /\ size # 0 /\ (RemoveEntry(k) \/ OutOfBounds(k))

table_size ==
    /\ defined
    /\ Reply("size", <<>>, size)
    /\ UNCHANGED <<lists, size, defined>>

\* table_get_keys: decided by the counter, filled from the rows.
table_get_keys ==
    /\ defined
    /\ Reply("getkeys", <<>>, IF size = 0 THEN NULL ELSE Keys)
    /\ UNCHANGED <<lists, size, defined>>

\* get_all_entries: the keys first, then one lookup for each key; a key that
\* is not found makes the whole call fail.
AllEntries ==
    IF size = 0 \/ \E k \in Keys : Lookup(k) = NULL
    THEN NULL
    ELSE {[key |-> k, value |-> Lookup(k)] : k \in Keys}

get_all_entries ==
    /\ defined
    /\ Reply("gettable", <<>>, AllEntries)
    /\ UNCHANGED <<lists, size, defined>>

Next ==
    \/ \E k \in KeyArg : \/ \E v \in ValueArg : table_put(k, v)
                         \/ table_get(k)
                         \/ table_remove(k)
    \/ table_size
    \/ table_get_keys
    \/ get_all_entries

Spec == Init /\ [][Next]_vars

-----------------------------------------------------------------------------
(* Properties.                                                             *)

\* The values the variables range over, whatever operations are called.
TypeOK ==
    /\ lists \in [Row -> Seq(Entry)]
    /\ size \in Int
    /\ ret.op \in {"create", "put", "get", "remove", "size", "getkeys", "gettable"}
    /\ defined \in BOOLEAN

SortedList(l) == \A i, j \in DOMAIN l : i < j => l[i].key < l[j].key

\* Every list is strictly ordered by key, so it holds a key once: what
\* list_add's scan (list.c:106) keeps and what list_get and list_remove, which
\* stop at the first match, rely on.
Sorted == \A r \in Row : SortedList(lists[r])

\* An entry is in the row that hash_code chooses for its key: a lookup that
\* goes to one row only misses nothing.
InOwnRow == \A r \in Row : \A k \in list_get_keys(lists[r]) : hash_code(k) = r

\* table->size, kept apart from the lists, is the number of entries in them.
\* table_get_keys allocates size + 1 pointers and writes one for each entry.
SizeIsEntries == size = Cardinality(Keys)

\* No operation indexes outside table->lists.  It holds when the characters of
\* every key are 7-bit, and fails for a key whose characters sum to a negative.
NoUndefined == defined

\* The table as the map it stands for.
Dict == [k \in Key |-> IF InBounds(k) THEN Lookup(k) ELSE NULL]

KV == INSTANCE KVMap WITH dict <- Dict, ret <- ret

\* The table implements the map of KVMap, results included.
ImplementsKVMap == KV!Spec
=============================================================================
