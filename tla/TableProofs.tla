---------------------------- MODULE TableProofs ----------------------------
(***************************************************************************)
(* Theorems about Table.tla, for every set of keys, every number of rows   *)
(* and every hash: the type invariant, the order of the lists, the row of  *)
(* every entry, the counter of entries, and the refinement of KVMap.tla.   *)
(***************************************************************************)
EXTENDS Table, FiniteSetTheorems, SequenceTheorems, TLAPS

-----------------------------------------------------------------------------
(* Lemmas about sequences and lists.                                       *)

\* The smallest element of a set of naturals exists: the scans of list.c stop
\* at the first node that satisfies their condition.
LEMMA MinOfNats ==
    ASSUME NEW S \in SUBSET Nat, S # {}
    PROVE  Min(S) \in S /\ \A x \in S : Min(S) <= x
<1>1. PICK m \in S : \A y \in S : ~(<<y, m>> \in OpToRel(<, Nat))
  BY NatLessThanWellFounded, WFMin
<1>2. \A y \in S : ~(y < m)
  BY <1>1, Zenon DEF OpToRel
<1>3. \A y \in S : m <= y
  BY <1>2
<1> QED  BY <1>3 DEF Min

\* The entries of a list after InsertAt: those before i stay, e is at i, the
\* others move up by one.
LEMMA InsertAtContents ==
    ASSUME NEW T, NEW l \in Seq(T), NEW e \in T, NEW i \in 1 .. Len(l)
    PROVE  /\ InsertAt(l, i, e) \in Seq(T)
           /\ Len(InsertAt(l, i, e)) = Len(l) + 1
           /\ \A j \in 1 .. Len(l) + 1 :
                 InsertAt(l, i, e)[j] = IF j < i THEN l[j]
                                        ELSE IF j = i THEN e ELSE l[j - 1]
<1> DEFINE a == SubSeq(l, 1, i - 1)
           b == SubSeq(l, i, Len(l))
<1>1. /\ a \in Seq(T) /\ Len(a) = i - 1
      /\ \A j \in 1 .. i - 1 : a[j] = l[j]
  BY SubSeqProperties, ElementOfSeq
<1>2. /\ b \in Seq(T) /\ Len(b) = Len(l) - i + 1
      /\ \A j \in 1 .. Len(l) - i + 1 : b[j] = l[i + j - 1]
  BY SubSeqProperties, ElementOfSeq
<1> HIDE DEF a, b
<1>3. /\ a \o <<e>> \in Seq(T) /\ Len(a \o <<e>>) = i
      /\ \A j \in 1 .. i : (a \o <<e>>)[j] = IF j < i THEN l[j] ELSE e
  BY <1>1, ConcatProperties
<1>4. /\ (a \o <<e>>) \o b \in Seq(T) /\ Len((a \o <<e>>) \o b) = Len(l) + 1
      /\ \A j \in 1 .. Len(l) + 1 :
            ((a \o <<e>>) \o b)[j] = IF j <= i THEN (a \o <<e>>)[j] ELSE b[j - i]
  <2> DEFINE c == a \o <<e>>
  <2>1. c \in Seq(T) /\ Len(c) = i /\ i + Len(b) = Len(l) + 1
    BY <1>2, <1>3, LenProperties
  <2> HIDE DEF c
  <2>2. /\ c \o b \in Seq(T) /\ Len(c \o b) = Len(c) + Len(b)
        /\ \A j \in 1 .. Len(c) + Len(b) :
              (c \o b)[j] = IF j <= Len(c) THEN c[j] ELSE b[j - Len(c)]
    BY <1>2, <2>1, ConcatProperties
  <2> QED  BY <2>1, <2>2 DEF c
<1> QED  BY <1>2, <1>3, <1>4 DEF InsertAt, a, b

\* The entries of a list after RemoveAt.
LEMMA RemoveAtContents ==
    ASSUME NEW T, NEW l \in Seq(T), NEW i \in 1 .. Len(l)
    PROVE  /\ RemoveAt(l, i) \in Seq(T)
           /\ Len(RemoveAt(l, i)) = Len(l) - 1
           /\ \A j \in 1 .. Len(l) - 1 :
                 RemoveAt(l, i)[j] = IF j < i THEN l[j] ELSE l[j + 1]
<1> DEFINE a == SubSeq(l, 1, i - 1)
           b == SubSeq(l, i + 1, Len(l))
<1>1. /\ a \in Seq(T) /\ Len(a) = i - 1
      /\ \A j \in 1 .. i - 1 : a[j] = l[j]
  BY SubSeqProperties, ElementOfSeq
<1>2. /\ b \in Seq(T) /\ Len(b) = Len(l) - i
      /\ \A j \in 1 .. Len(l) - i : b[j] = l[i + j]
  <2>1. \A j \in i + 1 .. Len(l) : l[j] \in T
    BY ElementOfSeq
  <2> QED  BY <2>1, SubSeqProperties
<1> HIDE DEF a, b
<1>3. /\ a \o b \in Seq(T) /\ Len(a \o b) = Len(l) - 1
      /\ \A j \in 1 .. Len(l) - 1 :
            (a \o b)[j] = IF j < i THEN a[j] ELSE b[j - i + 1]
  <2>1. Len(a) + Len(b) = Len(l) - 1
    BY <1>1, <1>2, LenProperties
  <2>2. /\ a \o b \in Seq(T) /\ Len(a \o b) = Len(a) + Len(b)
        /\ \A j \in 1 .. Len(a) + Len(b) :
              (a \o b)[j] = IF j <= Len(a) THEN a[j] ELSE b[j - Len(a)]
    BY <1>1, <1>2, ConcatProperties
  <2> QED  BY <1>1, <2>1, <2>2
<1>4. \A j \in 1 .. Len(l) - 1 : (a \o b)[j] = IF j < i THEN l[j] ELSE l[j + 1]
  <2> TAKE j \in 1 .. Len(l) - 1
  <2>1. CASE j < i
    BY <1>1, <1>3, <2>1
  <2>2. CASE ~(j < i)
    <3>1. /\ j - i + 1 \in 1 .. Len(l) - i
          /\ i + (j - i + 1) = j + 1
      BY <2>2, LenProperties
    <3> QED  BY <1>2, <1>3, <2>2, <3>1
  <2> QED  BY <2>1, <2>2
<1> QED  BY <1>3, <1>4 DEF RemoveAt, a, b

\* What a list holds is Range(l), the set of its entries.  The facts used about
\* the elements of a list of entries.
LEMMA ListElements ==
    ASSUME NEW l \in Seq(Entry)
    PROVE  /\ Len(l) \in Nat /\ DOMAIN l = 1 .. Len(l)
           /\ \A i \in 1 .. Len(l) : l[i] \in Entry /\ l[i].key \in Nat
           /\ Range(l) \subseteq Entry
           /\ \A k : At(l, k) \in SUBSET Nat
           /\ \A k : NotBelow(l, k) \in SUBSET Nat
<1>1. Len(l) \in Nat /\ DOMAIN l = 1 .. Len(l)
  BY LenProperties
<1>2. \A i \in 1 .. Len(l) : l[i] \in Entry
  BY ElementOfSeq
<1>3. \A i \in 1 .. Len(l) : l[i].key \in Nat
  BY <1>2, KeyAssumption DEF Entry
<1> QED  BY <1>1, <1>2, <1>3 DEF Range, At, NotBelow

\* list_add on an ordered list: the list stays ordered, the entry replaces the
\* one with its key when there is one (1) and is added otherwise (0).
LEMMA ListAddCorrect ==
    ASSUME NEW l \in Seq(Entry), SortedList(l), NEW e \in Entry
    PROVE  /\ list_add(l, e).list \in Seq(Entry)
           /\ SortedList(list_add(l, e).list)
           /\ Range(list_add(l, e).list)
                = {x \in Range(l) : x.key # e.key} \cup {e}
           /\ list_add(l, e).ret
                = IF e.key \in list_get_keys(l) THEN 1 ELSE 0
<1> DEFINE n == Len(l)
           at == NotBelow(l, e.key)
           i == Min(at)
<1>0. /\ n \in Nat /\ DOMAIN l = 1 .. n /\ at \in SUBSET Nat
      /\ \A j \in 1 .. n : l[j] \in Entry /\ l[j].key \in Nat
      /\ e.key \in Nat
  BY ListElements, KeyAssumption DEF Entry
<1>1. CASE at = {}
  <2> DEFINE m == Append(l, e)
  <2>1. list_add(l, e) = [list |-> m, ret |-> 0]
    BY <1>1 DEF list_add
  <2>2. \A j \in 1 .. n : l[j].key < e.key
    BY <1>0, <1>1 DEF NotBelow
  <2>3. /\ m \in Seq(Entry) /\ DOMAIN m = 1 .. n + 1
        /\ \A j \in 1 .. n : m[j] = l[j]
        /\ m[n + 1] = e
    BY <1>0, AppendProperties, LenProperties
  <2> HIDE DEF m, n, at
  <2>4. SortedList(m)
    BY <1>0, <2>2, <2>3 DEF SortedList
  <2>5. Range(m) = {x \in Range(l) : x.key # e.key} \cup {e}
    BY <1>0, <2>2, <2>3 DEF Range
  <2>6. e.key \notin list_get_keys(l)
    BY <1>0, <2>2 DEF list_get_keys
  <2> QED  BY <2>1, <2>3, <2>4, <2>5, <2>6
<1>2. CASE at # {}
  <2>1. /\ i \in 1 .. n /\ l[i].key >= e.key
        /\ \A j \in 1 .. n : l[j].key >= e.key => i <= j
    <3>1. i \in at /\ \A j \in at : i <= j
      BY <1>0, <1>2, MinOfNats
    <3> QED  BY <1>0, <3>1 DEF NotBelow
  <2> HIDE DEF n, i
  <2>2. \A j \in 1 .. n : j < i => l[j].key < e.key
    BY <1>0, <2>1
  <2>3. \A j \in 1 .. n : i < j => l[i].key < l[j].key
    BY <1>0, <2>1 DEF SortedList
  <2>4. CASE l[i].key = e.key
    <3> DEFINE m == [l EXCEPT ![i] = e]
    <3>1. list_add(l, e) = [list |-> m, ret |-> 1]
      BY <1>2, <2>4 DEF list_add, i
    <3>2. /\ m \in Seq(Entry) /\ DOMAIN m = 1 .. n
          /\ \A j \in 1 .. n : m[j] = IF j = i THEN e ELSE l[j]
      BY <1>0, <2>1, ExceptSeq, LenProperties DEF n
    <3> HIDE DEF m
    <3>3. SortedList(m)
      BY <1>0, <2>1, <2>4, <3>2 DEF SortedList
    <3>4. \A j \in 1 .. n : j # i => l[j].key # e.key
      BY <1>0, <2>1, <2>2, <2>3, <2>4
    <3>5. Range(m) = {x \in Range(l) : x.key # e.key} \cup {e}
      BY <1>0, <2>1, <2>4, <3>2, <3>4 DEF Range
    <3>6. e.key \in list_get_keys(l)
      BY <1>0, <2>1, <2>4 DEF list_get_keys
    <3> QED  BY <3>1, <3>2, <3>3, <3>5, <3>6
  <2>5. CASE l[i].key # e.key
    <3> DEFINE m == InsertAt(l, i, e)
    <3>1. list_add(l, e) = [list |-> m, ret |-> 0]
      BY <1>2, <2>5 DEF list_add, i
    <3>2. /\ m \in Seq(Entry) /\ Len(m) = n + 1
          /\ \A h \in 1 .. n + 1 :
                m[h] = IF h < i THEN l[h] ELSE IF h = i THEN e ELSE l[h - 1]
      <4>1. i \in 1 .. Len(l)
        BY <2>1 DEF n
      <4> HIDE DEF m
      <4>2. /\ InsertAt(l, i, e) \in Seq(Entry)
            /\ Len(InsertAt(l, i, e)) = Len(l) + 1
            /\ \A j \in 1 .. Len(l) + 1 :
                  InsertAt(l, i, e)[j] = IF j < i THEN l[j]
                                         ELSE IF j = i THEN e ELSE l[j - 1]
        BY <4>1, InsertAtContents
      <4> QED  BY <4>2 DEF m, n
    <3> HIDE DEF m
    <3>3. /\ DOMAIN m = 1 .. n + 1
          /\ m[i] = e
          /\ \A h \in 1 .. n + 1 : \/ h < i /\ h \in 1 .. n /\ m[h] = l[h]
                                   \/ h = i
                                   \/ h > i /\ h - 1 \in i .. n /\ m[h] = l[h - 1]
          /\ \A j \in 1 .. n : j < i => j \in 1 .. n + 1 /\ m[j] = l[j]
          /\ \A j \in 1 .. n : ~(j < i) => j + 1 \in 1 .. n + 1 /\ m[j + 1] = l[j]
      <4>1. \A j \in 1 .. n : ~(j < i) =>
               j + 1 \in 1 .. n + 1 /\ ~(j + 1 < i) /\ j + 1 # i /\ (j + 1) - 1 = j
        BY <1>0, <2>1
      <4> QED  BY <1>0, <2>1, <3>2, <4>1, LenProperties
    <3>4. \A j \in 1 .. n : ~(j < i) => e.key < l[j].key
      BY <1>0, <2>1, <2>3, <2>5
    <3>5. SortedList(m)
      <4> SUFFICES ASSUME NEW g \in 1 .. n + 1, NEW h \in 1 .. n + 1, g < h
                   PROVE  m[g].key < m[h].key
        BY <3>3 DEF SortedList
      <4>1. \A j, k \in 1 .. n : j < k => l[j].key < l[k].key
        BY <1>0 DEF SortedList
      <4>2. CASE g < i
        <5>1. m[g] = l[g] /\ g \in 1 .. n /\ l[g].key < e.key
          BY <1>0, <2>1, <2>2, <3>3, <4>2
        <5>2. CASE h < i
          BY <1>0, <2>1, <3>3, <4>1, <5>1, <5>2
        <5>3. CASE h = i
          BY <3>3, <5>1, <5>3
        <5>4. CASE h > i
          <6>1. h - 1 \in 1 .. n /\ g < h - 1 /\ m[h] = l[h - 1]
            BY <1>0, <2>1, <3>3, <4>2, <5>4
          <6> QED  BY <4>1, <5>1, <6>1
        <5> QED  BY <1>0, <2>1, <5>2, <5>3, <5>4
      <4>3. CASE g = i
        <5>1. h - 1 \in 1 .. n /\ ~(h - 1 < i) /\ m[h] = l[h - 1]
          BY <1>0, <2>1, <3>3, <4>3
        <5> QED  BY <3>3, <3>4, <4>3, <5>1
      <4>4. CASE g > i
        BY <1>0, <2>1, <3>3, <4>1, <4>4
      <4> QED  BY <1>0, <2>1, <4>2, <4>3, <4>4
    <3>7. Range(m) = {x \in Range(l) : x.key # e.key} \cup {e}
      <4>1. \A j \in 1 .. n : \E h \in 1 .. n + 1 : m[h] = l[j]
        <5> TAKE j \in 1 .. n
        <5> QED  BY <3>3
      <4>2. \A j \in 1 .. n : l[j].key # e.key
        BY <1>0, <2>1, <2>2, <3>4
      <4>3. \A h \in 1 .. n + 1 : m[h] = e \/ \E j \in 1 .. n : m[h] = l[j]
        BY <1>0, <2>1, <3>3
      <4>4. m[i] = e /\ i \in 1 .. n + 1
        BY <1>0, <2>1, <3>3
      <4>5. DOMAIN m = 1 .. n + 1 /\ DOMAIN l = 1 .. n
        BY <1>0, <3>3
      <4>6. Range(m) \subseteq {x \in Range(l) : x.key # e.key} \cup {e}
        BY <4>2, <4>3, <4>5 DEF Range
      <4>7. {x \in Range(l) : x.key # e.key} \cup {e} \subseteq Range(m)
        BY <4>1, <4>4, <4>5 DEF Range
      <4> QED  BY <4>6, <4>7
    <3>6. e.key \notin list_get_keys(l)
      BY <1>0, <2>1, <2>2, <3>4 DEF list_get_keys
    <3> QED  BY <3>1, <3>2, <3>5, <3>6, <3>7
  <2> QED  BY <2>4, <2>5
<1> QED  BY <1>1, <1>2

\* list_remove on an ordered list: it stays ordered and loses the entry with
\* the key, and returns 0 exactly when there was one.
LEMMA ListRemoveCorrect ==
    ASSUME NEW l \in Seq(Entry), SortedList(l), NEW k \in Key
    PROVE  /\ list_remove(l, k).list \in Seq(Entry)
           /\ SortedList(list_remove(l, k).list)
           /\ Range(list_remove(l, k).list) = {x \in Range(l) : x.key # k}
           /\ list_remove(l, k).ret = IF k \in list_get_keys(l) THEN 0 ELSE 1
<1> DEFINE n == Len(l)
           i == Min(At(l, k))
           m == RemoveAt(l, i)
<1>0. /\ n \in Nat /\ DOMAIN l = 1 .. n
      /\ \A j \in 1 .. n : l[j].key \in Nat
      /\ At(l, k) \in SUBSET Nat
  BY ListElements
<1>1. CASE At(l, k) = {}
  <2>1. list_remove(l, k) = [list |-> l, ret |-> 1]
    BY <1>1 DEF list_remove
  <2>2. \A j \in 1 .. n : l[j].key # k
    BY <1>0, <1>1 DEF At
  <2>3. Range(l) = {x \in Range(l) : x.key # k} /\ k \notin list_get_keys(l)
    BY <1>0, <2>2 DEF Range, list_get_keys
  <2> QED  BY <2>1, <2>3
<1>2. CASE At(l, k) # {}
  <2>1. list_remove(l, k) = [list |-> m, ret |-> 0]
    BY <1>2 DEF list_remove
  <2>2. i \in 1 .. n /\ l[i].key = k
    <3>1. i \in At(l, k)
      BY <1>0, <1>2, MinOfNats
    <3> QED  BY <1>0, <3>1 DEF At
  <2>3. \A j \in 1 .. n : j # i => l[j].key # k
    BY <1>0, <2>2 DEF SortedList
  <2> HIDE DEF n, i
  <2>4. /\ m \in Seq(Entry) /\ Len(m) = n - 1
        /\ \A j \in 1 .. n - 1 : m[j] = IF j < i THEN l[j] ELSE l[j + 1]
    <3> HIDE DEF m
    <3>1. i \in 1 .. Len(l)
      BY <2>2 DEF n
    <3>2. /\ RemoveAt(l, i) \in Seq(Entry)
          /\ Len(RemoveAt(l, i)) = Len(l) - 1
          /\ \A j \in 1 .. Len(l) - 1 :
                RemoveAt(l, i)[j] = IF j < i THEN l[j] ELSE l[j + 1]
      BY <3>1, RemoveAtContents
    <3> QED  BY <3>2 DEF m, n
  <2> HIDE DEF m
  <2>5. /\ DOMAIN m = 1 .. n - 1
        /\ \A j \in 1 .. n - 1 : \/ j < i /\ j \in 1 .. n /\ m[j] = l[j]
                                 \/ ~(j < i) /\ j + 1 \in 1 .. n /\ m[j] = l[j + 1]
        /\ \A j \in 1 .. n : j < i => j \in 1 .. n - 1 /\ m[j] = l[j]
        /\ \A j \in 1 .. n : i < j => j - 1 \in 1 .. n - 1 /\ m[j - 1] = l[j]
    <3>1. \A j \in 1 .. n : i < j =>
             j - 1 \in 1 .. n - 1 /\ ~(j - 1 < i) /\ (j - 1) + 1 = j
      BY <1>0, <2>2
    <3> QED  BY <1>0, <2>2, <2>4, <3>1, LenProperties
  <2>6. SortedList(m)
    <3> SUFFICES ASSUME NEW g \in 1 .. n - 1, NEW h \in 1 .. n - 1, g < h
                 PROVE  m[g].key < m[h].key
      BY <2>5 DEF SortedList
    <3>1. \A a, b \in 1 .. n : a < b => l[a].key < l[b].key
      BY <1>0 DEF SortedList
    <3>2. CASE h < i
      BY <1>0, <2>2, <2>5, <3>1, <3>2
    <3>3. CASE ~(h < i)
      <4>1. h + 1 \in 1 .. n /\ m[h] = l[h + 1]
        BY <2>5, <3>3
      <4>2. CASE g < i
        BY <1>0, <2>5, <3>1, <4>1, <4>2
      <4>3. CASE ~(g < i)
        <5>1. g + 1 \in 1 .. n /\ m[g] = l[g + 1] /\ g + 1 < h + 1
          BY <1>0, <2>5, <4>3
        <5> QED  BY <3>1, <4>1, <5>1
      <4> QED  BY <4>2, <4>3
    <3> QED  BY <3>2, <3>3
  <2>7. Range(m) = {x \in Range(l) : x.key # k}
    <3>0. DOMAIN l = 1 .. n /\ DOMAIN m = 1 .. n - 1
      BY <1>0, <2>5
    <3>1. \A j \in 1 .. n - 1 : \E a \in 1 .. n : m[j] = l[a] /\ a # i
      BY <1>0, <2>2, <2>5
    <3>2. \A a \in 1 .. n : a # i => \E j \in 1 .. n - 1 : m[j] = l[a]
      <4> SUFFICES ASSUME NEW a \in 1 .. n, a # i
                   PROVE  \E j \in 1 .. n - 1 : m[j] = l[a]
        OBVIOUS
      <4>1. a < i \/ i < a
        BY <1>0, <2>2
      <4> QED  BY <2>5, <4>1
    <3>3. Range(m) \subseteq {x \in Range(l) : x.key # k}
      BY <2>3, <3>0, <3>1 DEF Range
    <3>4. {x \in Range(l) : x.key # k} \subseteq Range(m)
      <4>1. \A a \in 1 .. n : l[a].key # k => a # i
        BY <2>2
      <4> QED  BY <3>0, <3>2, <4>1 DEF Range
    <3> QED  BY <3>3, <3>4
  <2>8. k \in list_get_keys(l)
    BY <1>0, <2>2 DEF list_get_keys
  <2> QED  BY <2>1, <2>4, <2>6, <2>7, <2>8
<1> QED  BY <1>1, <1>2

\* list_get on an ordered list: the value of the one entry with the key, NULL
\* exactly when no entry has it.
LEMMA ListGetCorrect ==
    ASSUME NEW l \in Seq(Entry), SortedList(l)
    PROVE  /\ list_get_keys(l) = {x.key : x \in Range(l)}
           /\ \A x \in Range(l) : list_get(l, x.key) = x.value
           /\ \A k : list_get(l, k) = NULL <=> k \notin list_get_keys(l)
<1>0. /\ Len(l) \in Nat /\ DOMAIN l = 1 .. Len(l)
      /\ \A j \in 1 .. Len(l) : l[j] \in Entry /\ l[j].key \in Nat
      /\ \A k : At(l, k) \in SUBSET Nat
  BY ListElements
<1>1. list_get_keys(l) = {x.key : x \in Range(l)}
  BY DEF list_get_keys, Range
<1>2. ASSUME NEW i \in DOMAIN l
      PROVE  list_get(l, l[i].key) = l[i].value
  <2>1. At(l, l[i].key) = {i}
    BY <1>0, <1>2 DEF At, SortedList
  <2>2. Min(At(l, l[i].key)) = i
    BY <1>0, <2>1, MinOfNats
  <2> QED  BY <2>1, <2>2 DEF list_get
<1>3. \A x \in Range(l) : list_get(l, x.key) = x.value
  BY <1>2 DEF Range
<1>4. ASSUME NEW k
      PROVE  list_get(l, k) = NULL <=> k \notin list_get_keys(l)
  <2>1. CASE At(l, k) = {}
    BY <2>1 DEF At, list_get, list_get_keys
  <2>2. CASE At(l, k) # {}
    <3>1. PICK i \in DOMAIN l : l[i].key = k
      BY <2>2 DEF At
    <3>2. list_get(l, k) = l[i].value /\ l[i].value \in Value
      BY <1>0, <1>2, <3>1 DEF Entry
    <3> QED  BY <3>1, <3>2, NullAssumption DEF list_get_keys
  <2> QED  BY <2>1, <2>2
<1> QED  BY <1>1, <1>3, <1>4

\* What list_get finds after list_add.
LEMMA GetAfterAdd ==
    ASSUME NEW l \in Seq(Entry), SortedList(l), NEW e \in Entry, NEW k
    PROVE  list_get(list_add(l, e).list, k)
             = IF k = e.key THEN e.value ELSE list_get(l, k)
<1> DEFINE m == list_add(l, e).list
<1>1. /\ m \in Seq(Entry) /\ SortedList(m)
      /\ Range(m) = {x \in Range(l) : x.key # e.key} \cup {e}
  BY ListAddCorrect
<1> HIDE DEF m
<1>2. CASE k = e.key
  BY <1>1, <1>2, ListGetCorrect DEF m
<1>3. CASE k # e.key /\ \E x \in Range(l) : x.key = k
  BY <1>1, <1>3, ListGetCorrect DEF m
<1>4. CASE k # e.key /\ ~ \E x \in Range(l) : x.key = k
  <2>1. list_get(l, k) = NULL
    BY <1>4, ListGetCorrect
  <2>2. list_get(m, k) = NULL
    BY <1>1, <1>4, ListGetCorrect
  <2> QED  BY <1>4, <2>1, <2>2 DEF m
<1> QED  BY <1>2, <1>3, <1>4 DEF m

\* And after list_remove.
LEMMA GetAfterRemove ==
    ASSUME NEW l \in Seq(Entry), SortedList(l), NEW j \in Key, NEW k
    PROVE  list_get(list_remove(l, j).list, k)
             = IF k = j THEN NULL ELSE list_get(l, k)
<1> DEFINE m == list_remove(l, j).list
<1>1. /\ m \in Seq(Entry) /\ SortedList(m)
      /\ Range(m) = {x \in Range(l) : x.key # j}
  BY ListRemoveCorrect
<1> HIDE DEF m
<1>2. CASE k # j /\ \E x \in Range(l) : x.key = k
  BY <1>1, <1>2, ListGetCorrect DEF m
<1>3. CASE ~ (k # j /\ \E x \in Range(l) : x.key = k)
  <2>1. list_get(m, k) = NULL
    BY <1>1, <1>3, ListGetCorrect
  <2>2. k # j => list_get(l, k) = NULL
    BY <1>3, ListGetCorrect
  <2> QED  BY <1>3, <2>1, <2>2 DEF m
<1> QED  BY <1>2, <1>3

-----------------------------------------------------------------------------
(* The table.                                                              *)

\* The inductive invariant: the counter is right because a key is in one place
\* only, and it is in one place only because lists are ordered and every entry
\* is in its own row.
IInv == TypeOK /\ Sorted /\ InOwnRow /\ SizeIsEntries

\* The keys of the table: finitely many, and a key is in the table exactly
\* when it is in its own row.
LEMMA KeysOfTable ==
    ASSUME TypeOK, InOwnRow
    PROVE  /\ Keys \subseteq Key /\ IsFiniteSet(Keys)
           /\ \A k : k \in Keys <=> /\ k \in Key /\ InBounds(k)
                                    /\ k \in list_get_keys(lists[hash_code(k)])
<1>1. \A r \in Row : list_get_keys(lists[r]) \subseteq Key
  <2> TAKE r \in Row
  <2>1. lists[r] \in Seq(Entry)
    BY DEF TypeOK
  <2> QED  BY <2>1, ListElements DEF list_get_keys, Entry
<1>2. Keys \subseteq Key
  BY <1>1 DEF Keys
<1>3. IsFiniteSet(Keys)
  BY <1>2, KeyAssumption, FS_Subset
<1>4. ASSUME NEW k
      PROVE  k \in Keys <=> /\ k \in Key /\ InBounds(k)
                            /\ k \in list_get_keys(lists[hash_code(k)])
  BY <1>2 DEF Keys, InOwnRow, InBounds
<1> QED  BY <1>2, <1>3, <1>4

\* A put in its own row adds its key to the table and to no other row.
LEMMA PutEntryStep ==
    ASSUME IInv, NEW k \in Key, NEW v \in Value, PutEntry(k, v)
    PROVE  /\ TypeOK' /\ Sorted' /\ InOwnRow' /\ SizeIsEntries'
           /\ Dict' = [Dict EXCEPT ![k] = v]
<1> DEFINE r == hash_code(k)
           e == [key |-> k, value |-> v]
           add == list_add(lists[r], e)
<1>1. /\ r \in Row /\ e \in Entry /\ e.key = k /\ e.value = v
      /\ lists \in [Row -> Seq(Entry)] /\ lists[r] \in Seq(Entry)
      /\ SortedList(lists[r])
      /\ lists' = [lists EXCEPT ![r] = add.list]
      /\ size' = (IF add.ret = 0 THEN size + 1 ELSE size)
      /\ ret' = [op |-> "put", args |-> <<k, v>>, res |-> 0] /\ defined' = defined
  BY DEF PutEntry, InBounds, Entry, IInv, TypeOK, Sorted, Reply
<1>2. /\ add.list \in Seq(Entry) /\ SortedList(add.list)
      /\ Range(add.list) = {x \in Range(lists[r]) : x.key # e.key} \cup {e}
      /\ add.ret = IF e.key \in list_get_keys(lists[r]) THEN 1 ELSE 0
  BY <1>1, ListAddCorrect
<1>3. list_get_keys(add.list) = list_get_keys(lists[r]) \cup {k}
  <2> HIDE DEF add, e
  <2>1. list_get_keys(add.list) = {x.key : x \in Range(add.list)}
    BY <1>2, ListGetCorrect
  <2>2. list_get_keys(lists[r]) = {x.key : x \in Range(lists[r])}
    BY <1>1, ListGetCorrect
  <2> QED  BY <1>1, <1>2, <2>1, <2>2
<1>4. \A j : list_get(add.list, j) = IF j = k THEN v ELSE list_get(lists[r], j)
  BY <1>1, GetAfterAdd
<1> HIDE DEF add, e
<1>5. \A q \in Row : lists'[q] = IF q = r THEN add.list ELSE lists[q]
  BY <1>1, <1>2
<1>6. TypeOK'
  BY <1>1, <1>2 DEF IInv, TypeOK
<1>7. Sorted'
  BY <1>2, <1>5 DEF IInv, Sorted
<1>8. InOwnRow'
  BY <1>3, <1>5 DEF IInv, InOwnRow
<1>9. Keys' = Keys \cup {k}
  BY <1>1, <1>3, <1>5 DEF Keys
<1>10. SizeIsEntries'
  <2>1. IsFiniteSet(Keys)
    BY KeysOfTable DEF IInv
  <2>2. add.ret = IF k \in Keys THEN 1 ELSE 0
    BY <1>1, <1>2, KeysOfTable DEF IInv, InBounds
  <2>3. Cardinality(Keys') = IF k \in Keys THEN Cardinality(Keys)
                                           ELSE Cardinality(Keys) + 1
    BY <1>9, <2>1, FS_AddElement
  <2> QED  BY <1>1, <2>2, <2>3 DEF IInv, SizeIsEntries
<1>11. Dict' = [Dict EXCEPT ![k] = v]
  <2> SUFFICES ASSUME NEW j \in Key
               PROVE  (IF InBounds(j) THEN list_get(lists'[hash_code(j)], j) ELSE NULL)
                        = IF j = k THEN v
                          ELSE IF InBounds(j) THEN list_get(lists[hash_code(j)], j) ELSE NULL
    BY DEF Dict, Lookup
  <2> QED  BY <1>1, <1>4, <1>5 DEF InBounds
<1> QED  BY <1>6, <1>7, <1>8, <1>10, <1>11

\* A remove in its own row takes its key out of the table.
LEMMA RemoveEntryStep ==
    ASSUME IInv, NEW k \in Key, RemoveEntry(k)
    PROVE  /\ TypeOK' /\ Sorted' /\ InOwnRow' /\ SizeIsEntries'
           /\ Dict' = [Dict EXCEPT ![k] = NULL]
           /\ ret' = [op |-> "remove", args |-> <<k>>, res |-> IF k \in Keys THEN 0 ELSE 1]
<1> DEFINE r == hash_code(k)
           rem == list_remove(lists[r], k)
<1>1. /\ r \in Row
      /\ lists \in [Row -> Seq(Entry)] /\ lists[r] \in Seq(Entry)
      /\ SortedList(lists[r])
      /\ lists' = [lists EXCEPT ![r] = rem.list]
      /\ size' = (IF rem.ret = 0 THEN size - 1 ELSE size)
      /\ ret' = [op |-> "remove", args |-> <<k>>, res |-> rem.ret] /\ defined' = defined
  BY DEF RemoveEntry, InBounds, IInv, TypeOK, Sorted, Reply
<1>2. /\ rem.list \in Seq(Entry) /\ SortedList(rem.list)
      /\ Range(rem.list) = {x \in Range(lists[r]) : x.key # k}
      /\ rem.ret = IF k \in list_get_keys(lists[r]) THEN 0 ELSE 1
  BY <1>1, ListRemoveCorrect
<1>3. \A j : list_get(rem.list, j) = IF j = k THEN NULL ELSE list_get(lists[r], j)
  BY <1>1, GetAfterRemove
<1> HIDE DEF rem
<1>4. list_get_keys(rem.list) = list_get_keys(lists[r]) \ {k}
  <2>1. list_get_keys(rem.list) = {x.key : x \in Range(rem.list)}
    BY <1>2, ListGetCorrect
  <2>2. list_get_keys(lists[r]) = {x.key : x \in Range(lists[r])}
    BY <1>1, ListGetCorrect
  <2> QED  BY <1>1, <1>2, <2>1, <2>2
<1>5. \A q \in Row : lists'[q] = IF q = r THEN rem.list ELSE lists[q]
  BY <1>1, <1>2
<1>6. TypeOK'
  BY <1>1, <1>2 DEF IInv, TypeOK
<1>7. Sorted'
  BY <1>2, <1>5 DEF IInv, Sorted
<1>8. InOwnRow'
  BY <1>4, <1>5 DEF IInv, InOwnRow
<1>9. Keys' = Keys \ {k}
  <2>1. \A q \in Row : q # r => k \notin list_get_keys(lists[q])
    BY DEF IInv, InOwnRow
  <2>2. \A q \in Row : list_get_keys(lists'[q]) = list_get_keys(lists[q]) \ {k}
    BY <1>4, <1>5, <2>1
  <2> QED  BY <2>2 DEF Keys
<1>10. rem.ret = IF k \in Keys THEN 0 ELSE 1
  BY <1>1, <1>2, KeysOfTable DEF IInv, InBounds
<1>11. SizeIsEntries'
  <2>1. IsFiniteSet(Keys)
    BY KeysOfTable DEF IInv
  <2>2. Cardinality(Keys') = IF k \in Keys THEN Cardinality(Keys) - 1
                                           ELSE Cardinality(Keys)
    BY <1>9, <2>1, FS_RemoveElement
  <2> QED  BY <1>1, <1>10, <2>2 DEF IInv, SizeIsEntries
<1>12. Dict' = [Dict EXCEPT ![k] = NULL]
  <2> SUFFICES ASSUME NEW j \in Key
               PROVE  (IF InBounds(j) THEN list_get(lists'[hash_code(j)], j) ELSE NULL)
                        = IF j = k THEN NULL
                          ELSE IF InBounds(j) THEN list_get(lists[hash_code(j)], j) ELSE NULL
    BY DEF Dict, Lookup
  <2> QED  BY <1>1, <1>3, <1>5 DEF InBounds
<1> QED  BY <1>1, <1>6, <1>7, <1>8, <1>10, <1>11, <1>12

\* The map the table stands for has exactly the keys of its lists, the counter
\* is zero exactly when there is none, and no lookup of one of them fails.
LEMMA DictOfTable ==
    ASSUME IInv
    PROVE  /\ KV!Present = Keys
           /\ size = 0 <=> Keys = {}
           /\ \A k \in Keys : Lookup(k) # NULL /\ Dict[k] = Lookup(k)
           /\ \A k \in Key : InBounds(k) => Dict[k] = Lookup(k)
<1>1. ASSUME NEW k \in Key, InBounds(k)
      PROVE  Lookup(k) = NULL <=> k \notin list_get_keys(lists[hash_code(k)])
  <2>1. /\ lists[hash_code(k)] \in Seq(Entry)
        /\ SortedList(lists[hash_code(k)])
    BY <1>1 DEF IInv, TypeOK, Sorted, InBounds
  <2> QED  BY <2>1, ListGetCorrect DEF Lookup
<1>2. KV!Present = Keys
  BY <1>1, KeysOfTable DEF KV!Present, Dict, IInv
<1>3. size = 0 <=> Keys = {}
  BY KeysOfTable, FS_EmptySet DEF IInv, SizeIsEntries
<1>4. \A k \in Keys : Lookup(k) # NULL /\ Dict[k] = Lookup(k)
  BY <1>1, KeysOfTable DEF Dict, IInv
<1> QED  BY <1>2, <1>3, <1>4 DEF Dict

\* A step that leaves the lists and the counter alone keeps the invariant.
LEMMA ReadStep ==
    ASSUME IInv, UNCHANGED <<lists, size>>, defined' \in BOOLEAN,
           ret'.op \in {"create", "put", "get", "remove", "size", "getkeys", "gettable"}
    PROVE  IInv' /\ Dict' = Dict
<1>1. TypeOK'
  BY DEF IInv, TypeOK
<1>2. Sorted' /\ InOwnRow' /\ SizeIsEntries'
  BY DEF IInv, Sorted, InOwnRow, SizeIsEntries, Keys
<1>3. Dict' = Dict
  BY DEF Dict, Lookup
<1> QED  BY <1>1, <1>2, <1>3 DEF IInv

\* Every step keeps the invariant and is a step of KVMap, or leaves the map and
\* the last result alone: one case for each operation of the table.
LEMMA NextStep ==
    ASSUME IInv, Next
    PROVE  IInv' /\ (KV!Next \/ UNCHANGED <<Dict, ret>>)
<1> USE DEF KeyArg, ValueArg
<1>1. ASSUME NEW k \in KeyArg, NEW v \in ValueArg, table_put(k, v)
      PROVE  IInv' /\ (KV!Put(k, v) \/ UNCHANGED <<Dict, ret>>)
  <2>1. CASE PutInvalid(k, v)
    BY <1>1, <2>1, ReadStep DEF PutInvalid, Reply, KV!Put, KV!Reply, IInv, TypeOK
  <2>2. CASE k # NULL /\ v # NULL /\ PutEntry(k, v)
    <3>1. k \in Key /\ v \in Value
      BY <1>1, <2>2
    <3>2. ret' = [op |-> "put", args |-> <<k, v>>, res |-> 0]
      BY <2>2 DEF PutEntry, Reply
    <3> QED  BY <2>2, <3>1, <3>2, PutEntryStep DEF IInv, KV!Put, KV!Reply
  <2>3. CASE OutOfBounds(k)
    BY <2>3, ReadStep DEF OutOfBounds, IInv, TypeOK
  <2> QED  BY <1>1, <2>1, <2>2, <2>3 DEF table_put
<1>2. ASSUME NEW k \in KeyArg, table_get(k)
      PROVE  IInv' /\ (KV!Get(k) \/ UNCHANGED <<Dict, ret>>)
  <2>1. CASE (k = NULL \/ size = 0) /\ Reply("get", <<k>>, NULL)
             /\ UNCHANGED <<lists, size, defined>>
    <3>1. IInv' /\ Dict' = Dict
      BY <2>1, ReadStep DEF Reply, IInv, TypeOK
    <3>2. k # NULL => Dict[k] = NULL
      <4>1. KV!Present = {} \/ k = NULL
        BY <2>1, DictOfTable
      <4> QED  BY <1>2, <4>1 DEF KV!Present
    <3> QED  BY <1>2, <2>1, <3>1, <3>2 DEF Reply, KV!Get, KV!Reply
  <2>2. CASE /\ k # NULL /\ size # 0 /\ InBounds(k) /\ Reply("get", <<k>>, Lookup(k))
             /\ UNCHANGED <<lists, size, defined>>
    <3>1. IInv' /\ Dict' = Dict
      BY <2>2, ReadStep DEF Reply, IInv, TypeOK
    <3>2. Dict[k] = Lookup(k)
      BY <1>2, <2>2, DictOfTable
    <3> QED  BY <2>2, <3>1, <3>2 DEF Reply, KV!Get, KV!Reply
  <2>3. CASE OutOfBounds(k)
    BY <2>3, ReadStep DEF OutOfBounds, IInv, TypeOK
  <2> QED  BY <1>2, <2>1, <2>2, <2>3 DEF table_get
<1>3. ASSUME NEW k \in KeyArg, table_remove(k)
      PROVE  IInv' /\ (KV!Remove(k) \/ UNCHANGED <<Dict, ret>>)
  <2>1. CASE k = NULL /\ Reply("remove", <<k>>, -1) /\ UNCHANGED <<lists, size, defined>>
    BY <2>1, ReadStep DEF Reply, KV!Remove, KV!Reply, IInv, TypeOK
  <2>2. CASE k # NULL /\ size = 0 /\ Reply("remove", <<k>>, 1)
             /\ UNCHANGED <<lists, size, defined>>
    <3>1. IInv' /\ Dict' = Dict
      BY <2>2, ReadStep DEF Reply, IInv, TypeOK
    <3>2. k \in Key \ KV!Present
      BY <1>3, <2>2, DictOfTable
    <3> QED  BY <2>2, <3>1, <3>2 DEF Reply, KV!Remove, KV!Reply
  <2>3. CASE k # NULL /\ size # 0 /\ RemoveEntry(k)
    <3>1. /\ IInv' /\ Dict' = [Dict EXCEPT ![k] = NULL]
          /\ ret' = [op |-> "remove", args |-> <<k>>, res |-> IF k \in Keys THEN 0 ELSE 1]
      BY <1>3, <2>3, RemoveEntryStep DEF IInv
    <3>2. k \in Key /\ KV!Present = Keys
      BY <1>3, <2>3, DictOfTable
    <3>3. CASE k \in Keys
      BY <3>1, <3>2, <3>3 DEF KV!Remove, KV!Reply
    <3>4. CASE k \notin Keys
      <4>1. Dict[k] = NULL /\ Dict = [j \in Key |-> Dict[j]]
        BY <3>2, <3>4 DEF KV!Present, Dict
      <4>2. Dict' = Dict
        BY <3>1, <4>1
      <4> QED  BY <3>1, <3>2, <3>4, <4>2 DEF KV!Remove, KV!Reply
    <3> QED  BY <3>3, <3>4
  <2>4. CASE OutOfBounds(k)
    BY <2>4, ReadStep DEF OutOfBounds, IInv, TypeOK
  <2> QED  BY <1>3, <2>1, <2>2, <2>3, <2>4 DEF table_remove
<1>4. CASE table_size
  <2>1. IInv' /\ Dict' = Dict
    BY <1>4, ReadStep DEF table_size, Reply, IInv, TypeOK
  <2>2. size = Cardinality(KV!Present)
    BY DictOfTable DEF IInv, SizeIsEntries
  <2>3. KV!Size
    BY <1>4, <2>1, <2>2 DEF table_size, Reply, KV!Size, KV!Reply, Cardinality, KV!Cardinality
  <2> QED  BY <2>1, <2>3 DEF KV!Next
<1>5. CASE table_get_keys
  <2>1. IInv' /\ Dict' = Dict
    BY <1>5, ReadStep DEF table_get_keys, Reply, IInv, TypeOK
  <2>2. KV!GetKeys
    BY <1>5, <2>1, DictOfTable DEF table_get_keys, Reply, KV!GetKeys, KV!Reply
  <2> QED  BY <2>1, <2>2 DEF KV!Next
<1>6. CASE get_all_entries
  <2>1. IInv' /\ Dict' = Dict
    BY <1>6, ReadStep DEF get_all_entries, Reply, IInv, TypeOK
  <2>2. AllEntries = IF KV!Present = {} THEN NULL
                     ELSE {[key |-> k, value |-> Dict[k]] : k \in KV!Present}
    BY DictOfTable DEF AllEntries
  <2>3. KV!GetTable
    BY <1>6, <2>1, <2>2 DEF get_all_entries, Reply, KV!GetTable, KV!Reply
  <2> QED  BY <2>1, <2>3 DEF KV!Next
<1> QED  BY <1>1, <1>2, <1>3, <1>4, <1>5, <1>6 DEF Next, KV!Next

-----------------------------------------------------------------------------
(* The theorems.                                                           *)

\* The table that table_create returns satisfies the invariant.
LEMMA InitIInv == Init => IInv
<1> SUFFICES ASSUME Init
             PROVE  IInv
  OBVIOUS
<1>1. lists \in [Row -> Seq(Entry)] /\ \A r \in Row : DOMAIN lists[r] = {}
  BY EmptySeq DEF Init
<1>2. Keys = {}
  BY <1>1 DEF Keys, list_get_keys
<1>3. TypeOK /\ Sorted /\ InOwnRow
  BY <1>1 DEF Init, TypeOK, Sorted, SortedList, InOwnRow, list_get_keys
<1>4. SizeIsEntries
  BY <1>2, FS_EmptySet DEF Init, SizeIsEntries
<1> QED  BY <1>3, <1>4 DEF IInv

\* The invariant holds in every state the table reaches.
THEOREM TableInvariant == Spec => []IInv
<1>1. IInv /\ [Next]_vars => IInv'
  <2> SUFFICES ASSUME IInv, [Next]_vars
               PROVE  IInv'
    OBVIOUS
  <2>1. CASE Next
    BY <2>1, NextStep
  <2>2. CASE UNCHANGED vars
    BY <2>2, ReadStep DEF vars, IInv, TypeOK
  <2> QED  BY <2>1, <2>2
<1> QED  BY InitIInv, <1>1, PTL DEF Spec

\* The variables keep their types.
THEOREM TableType == Spec => []TypeOK
BY TableInvariant, PTL DEF IInv

\* list_add and list_remove leave every list strictly ordered, so that no key
\* is in a list twice and a scan that stops early has missed nothing.
THEOREM TableSorted == Spec => []Sorted
BY TableInvariant, PTL DEF IInv

\* Every entry stays in the row that hash_code gives for its key, where
\* table_get, table_put and table_remove look for it.
THEOREM TableRows == Spec => []InOwnRow
BY TableInvariant, PTL DEF IInv

\* table->size is the number of entries, whatever puts replace and whatever
\* removes miss.
THEOREM TableSize == Spec => []SizeIsEntries
BY TableInvariant, PTL DEF IInv

\* The table implements the map of KVMap: no sequence of operations tells the
\* lists, the rows and the counter from a map.
THEOREM TableRefinement == Spec => ImplementsKVMap
<1>1. Init => KV!Init
  <2> SUFFICES ASSUME Init
               PROVE  KV!Init
    OBVIOUS
  <2>1. KV!Present = {}
    <3>1. \A r \in Row : DOMAIN lists[r] = {}
      BY EmptySeq DEF Init
    <3>2. Keys = {}
      BY <3>1 DEF Keys, list_get_keys
    <3> QED  BY <3>2, InitIInv, DictOfTable
  <2>2. Dict = [k \in Key |-> NULL]
    BY <2>1 DEF KV!Present, Dict
  <2> QED  BY <2>2 DEF Init, KV!Init
<1>2. IInv /\ [Next]_vars => [KV!Next]_(KV!vars)
  <2> SUFFICES ASSUME IInv, [Next]_vars
               PROVE  KV!Next \/ UNCHANGED <<Dict, ret>>
    BY DEF KV!vars
  <2>1. CASE Next
    BY <2>1, NextStep
  <2>2. CASE UNCHANGED vars
    BY <2>2 DEF vars, Dict, Lookup
  <2> QED  BY <2>1, <2>2
<1> QED  BY <1>1, <1>2, TableInvariant, PTL DEF Spec, ImplementsKVMap, KV!Spec

\* When no character sum is negative (keys of 7-bit characters), hash_code is
\* an index of table->lists and no operation leaves its bounds.
THEOREM TableInBounds ==
    ASSUME \A k \in Key : KeySum[k] >= 0
    PROVE  Spec => []NoUndefined
<1>1. \A k \in Key : InBounds(k)
  BY KeySumAssumption, RowsAssumption DEF InBounds, hash_code, CRem, Row
<1>2. Init => NoUndefined
  BY DEF Init, NoUndefined
<1>3. NoUndefined /\ [Next]_vars => NoUndefined'
  <2> SUFFICES ASSUME NoUndefined, [Next]_vars
               PROVE  NoUndefined'
    OBVIOUS
  <2>1. \A k \in Key : ~OutOfBounds(k)
    BY <1>1 DEF OutOfBounds
  <2>2. CASE Next
    BY <2>1, <2>2 DEF Next, NoUndefined, table_put, PutInvalid, PutEntry, table_get,
       table_remove, RemoveEntry, table_size, table_get_keys, get_all_entries, KeyArg
  <2>3. CASE UNCHANGED vars
    BY <2>3 DEF vars, NoUndefined
  <2> QED  BY <2>2, <2>3
<1> QED  BY <1>2, <1>3, PTL DEF Spec
=============================================================================
