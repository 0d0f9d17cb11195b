--------------------------- MODULE ClaudeTurnsProofs ---------------------------
(***************************************************************************)
(* Theorems about ClaudeTurns, for any number of contexts, turns and calls *)
(* and whatever the bounds: what the two caches keep, whose list a turn    *)
(* works on, and that the caller is shown the list the agent has.          *)
(***************************************************************************)
EXTENDS ClaudeTurns, SequenceTheorems, FiniteSetTheorems, NaturalsInduction, TLAPS

(***************************************************************************)
(* The dict.                                                               *)
(***************************************************************************)
\* Popping a key that is there moves the entries behind it up by one place.
LEMMA PoppedEntries ==
  ASSUME NEW S, NEW dict \in Seq(S), NEW key \in Keys(dict)
  PROVE  \E n \in 1..Len(dict) :
           /\ dict[n].key = key
           /\ Popped(dict, key) \in Seq(S)
           /\ Len(Popped(dict, key)) = Len(dict) - 1
           /\ \A i \in 1..(Len(dict) - 1) :
                Popped(dict, key)[i] = IF i < n THEN dict[i] ELSE dict[i + 1]
<1> DEFINE n == At(dict, key)
           front == SubSeq(dict, 1, n - 1)
           back  == SubSeq(dict, n + 1, Len(dict))
<1>1. Len(dict) \in Nat /\ \A i \in 1..Len(dict) : dict[i] \in S
  BY LenProperties, ElementOfSeq
<1>2. n \in 1..Len(dict) /\ dict[n].key = key
  BY DEF Keys, At
<1>3. Popped(dict, key) = front \o back
  BY DEF Popped
<1> HIDE DEF n
<1>4. /\ front \in Seq(S) /\ Len(front) = n - 1
      /\ \A i \in 1..(n - 1) : front[i] = dict[i]
  <2>1. /\ front \in Seq(S)
        /\ Len(front) = IF 1 <= n - 1 THEN (n - 1) - 1 + 1 ELSE 0
        /\ \A i \in 1..((n - 1) - 1 + 1) : front[i] = dict[1 + i - 1]
    BY <1>1, <1>2, SubSeqProperties
  <2> QED
    BY <1>1, <1>2, <2>1
<1>5. /\ back \in Seq(S) /\ Len(back) = Len(dict) - n
      /\ \A i \in 1..(Len(dict) - n) : back[i] = dict[n + i]
  <2>1. /\ back \in Seq(S)
        /\ Len(back) = IF n + 1 <= Len(dict) THEN Len(dict) - (n + 1) + 1 ELSE 0
        /\ \A i \in 1..(Len(dict) - (n + 1) + 1) : back[i] = dict[(n + 1) + i - 1]
    BY <1>1, <1>2, SubSeqProperties
  <2> QED
    BY <1>1, <1>2, <2>1
<1> HIDE DEF front, back
<1>6. /\ front \o back \in Seq(S)
      /\ Len(front \o back) = Len(front) + Len(back)
      /\ \A i \in 1..(Len(front) + Len(back)) :
           (front \o back)[i] = IF i <= Len(front) THEN front[i]
                                ELSE back[i - Len(front)]
  BY <1>4, <1>5, ConcatProperties
<1>7. ASSUME NEW i \in 1..(Len(dict) - 1)
      PROVE  (front \o back)[i] = IF i < n THEN dict[i] ELSE dict[i + 1]
  <2>1. CASE i < n
    <3>1. i \in 1..(n - 1) /\ i <= Len(front)
      BY <1>1, <1>2, <1>4, <2>1
    <3>2. i \in 1..(Len(front) + Len(back))
      BY <1>1, <1>2, <1>4, <1>5
    <3>3. (front \o back)[i] = front[i]
      BY <1>6, <3>1, <3>2
    <3> QED
      BY <1>4, <2>1, <3>1, <3>3
  <2>2. CASE i >= n
    <3>1. (front \o back)[i] = back[i - (n - 1)] /\ i - (n - 1) \in 1..(Len(dict) - n)
      BY <1>1, <1>2, <1>4, <1>5, <1>6, <2>2
    <3> QED
      BY <1>1, <1>2, <1>5, <2>2, <3>1
  <2>3. i < n \/ i >= n
    BY <1>1, <1>2, <1>7
  <2> QED
    BY <2>1, <2>2, <2>3
<1>8. Len(front \o back) = Len(dict) - 1
  BY <1>1, <1>2, <1>4, <1>5, <1>6
<1> QED
  BY <1>2, <1>3, <1>6, <1>7, <1>8

\* A key was at place n: the entries behind it move up, and it is last.
Moved(new, dict, n) ==
  /\ Len(new) = Len(dict)
  /\ \A i \in 1..(Len(new) - 1) : new[i] = IF i < n THEN dict[i] ELSE dict[i + 1]

\* It was not there, and there is room.
Lengthened(new, dict) == /\ Len(new) = Len(dict) + 1
                         /\ \A i \in 1..(Len(new) - 1) : new[i] = dict[i]

\* It was not there, and the oldest entry makes room.
Shifted(new, dict) == /\ Len(new) = Len(dict)
                      /\ \A i \in 1..(Len(new) - 1) : new[i] = dict[i + 1]

\* What Touched makes of a dict is one of the three.
LEMMA TouchedEntries ==
  ASSUME NEW S, NEW dict \in Seq(S), NEW cap \in Nat \ {0}, Len(dict) <= cap,
         NEW key, NEW value, NEW new, new = Touched(dict, key, value, cap)
  PROVE  /\ \E T : new \in Seq(T)
         /\ Len(new) \in 1..cap /\ Len(new) >= Len(dict)
         /\ new[Len(new)] = Item(key, value)
         /\ \/ \E n \in 1..Len(dict) : dict[n].key = key /\ Moved(new, dict, n)
            \/ key \notin Keys(dict) /\ Lengthened(new, dict)
            \/ key \notin Keys(dict) /\ Len(dict) = cap /\ Shifted(new, dict)
<1> DEFINE item == Item(key, value)
           T    == S \cup {item}
           rest == Popped(dict, key)
           long == Append(rest, item)
<1>1. Len(dict) \in Nat
  BY LenProperties
<1>2. new = IF Len(long) > cap
                                         THEN SubSeq(long, Len(long) - cap + 1, Len(long))
                                         ELSE long
  BY DEF Touched, Bounded
<1>3. ASSUME rest \in Seq(S)
      PROVE  /\ long \in Seq(T) /\ Len(long) = Len(rest) + 1
             /\ \A i \in 1..Len(rest) : long[i] = rest[i]
             /\ long[Len(rest) + 1] = item
             /\ Len(rest) \in Nat
  <2>1. rest \in Seq(T) /\ item \in T
    BY <1>3, SeqMonotonic
  <2> HIDE DEF rest, item, T
  <2> QED
    BY <1>3, <2>1, AppendProperties, LenProperties
<1>4. CASE key \in Keys(dict)
  <2>1. PICK n \in 1..Len(dict) :
           /\ dict[n].key = key
           /\ rest \in Seq(S)
           /\ Len(rest) = Len(dict) - 1
           /\ \A i \in 1..(Len(dict) - 1) :
                rest[i] = IF i < n THEN dict[i] ELSE dict[i + 1]
    BY <1>4, PoppedEntries
  <2> HIDE DEF rest, item, T
  <2>2. /\ long \in Seq(T) /\ Len(long) = Len(dict)
        /\ \A i \in 1..(Len(dict) - 1) : long[i] = rest[i]
        /\ long[Len(dict)] = item
    BY <1>1, <1>3, <2>1
  <2> HIDE DEF long
  <2>3. new = long
    BY <1>1, <1>2, <2>2
  <2>4. Moved(new, dict, n)
    BY <2>1, <2>2, <2>3 DEF Moved
  <2> QED
    BY <1>1, <2>1, <2>2, <2>3, <2>4 DEF item
<1>5. CASE key \notin Keys(dict)
  <2>1. rest = dict
    BY <1>5 DEF Popped
  <2>2. /\ long \in Seq(T) /\ Len(long) = Len(dict) + 1
        /\ \A i \in 1..Len(dict) : long[i] = dict[i]
        /\ long[Len(dict) + 1] = item
    BY <1>3, <2>1
  <2> HIDE DEF long, rest, T
  <2>3. CASE Len(dict) < cap
    <3>1. new = long
      BY <1>1, <1>2, <2>2, <2>3
    <3>2. Lengthened(new, dict)
      BY <1>1, <2>2, <3>1 DEF Lengthened
    <3> QED
      BY <1>1, <1>5, <2>2, <2>3, <3>1, <3>2
  <2>4. CASE Len(dict) = cap
    <3>1. new = SubSeq(long, 2, cap + 1)
      BY <1>1, <1>2, <2>2, <2>4
    <3>2. \A i \in 2..(cap + 1) : long[i] \in T
      BY <2>2, <2>4, ElementOfSeq
    <3>3. /\ new \in Seq(T)
          /\ Len(new) = IF 2 <= cap + 1 THEN cap + 1 - 2 + 1 ELSE 0
          /\ \A i \in 1..(cap + 1 - 2 + 1) : new[i] = long[2 + i - 1]
      BY <3>1, <3>2, SubSeqProperties
    <3>4. Len(new) = cap /\ \A i \in 1..cap : new[i] = long[i + 1]
      BY <3>3
    <3>5. Shifted(new, dict)
      BY <1>1, <2>2, <2>4, <3>4 DEF Shifted
    <3>6. new[Len(new)] = item
      BY <2>2, <2>4, <3>4
    <3> QED
      BY <1>1, <1>5, <2>4, <3>3, <3>4, <3>5, <3>6
  <2> QED
    BY <1>1, <2>3, <2>4
<1> QED
  BY <1>4, <1>5

\* What a dict is put together from stays what its entries are.
LEMMA PoppedIn ==
  ASSUME NEW S, NEW dict \in Seq(S), NEW key
  PROVE  Popped(dict, key) \in Seq(S)
<1>1. CASE key \in Keys(dict)
  BY <1>1, PoppedEntries
<1>2. CASE key \notin Keys(dict)
  BY <1>2 DEF Popped
<1> QED
  BY <1>1, <1>2

\* A bound leaves elements of the same set.
LEMMA BoundedIn ==
  ASSUME NEW S, NEW dict \in Seq(S), NEW cap \in Nat
  PROVE  Bounded(dict, cap) \in Seq(S)
<1>1. Len(dict) \in Nat
  BY LenProperties
<1>2. CASE Len(dict) > cap
  <2>1. \A i \in (Len(dict) - cap + 1)..Len(dict) : dict[i] \in S
    BY <1>1, <1>2, ElementOfSeq
  <2>2. Len(dict) - cap + 1 \in Int /\ Len(dict) \in Int
    BY <1>1
  <2>3. SubSeq(dict, Len(dict) - cap + 1, Len(dict)) \in Seq(S)
    BY <2>1, <2>2, SubSeqProperties
  <2> QED
    BY <1>2, <2>3 DEF Bounded
<1>3. CASE ~(Len(dict) > cap)
  BY <1>3 DEF Bounded
<1> QED
  BY <1>2, <1>3

\* And so does to assign a key and a value.
LEMMA AssignedIn ==
  ASSUME NEW K, NEW V, NEW dict \in Seq([key : K, value : V]),
         NEW key \in K, NEW value \in V
  PROVE  Assigned(dict, key, value) \in Seq([key : K, value : V])
<1>1. CASE key \in Keys(dict)
  <2> DEFINE n == At(dict, key)
  <2>1. n \in 1..Len(dict)
    BY <1>1 DEF Keys, At
  <2>2. Assigned(dict, key, value) = [dict EXCEPT ![n].value = value]
    BY <1>1 DEF Assigned
  <2> HIDE DEF n
  <2>3. dict[n] \in [key : K, value : V]
    BY <2>1, ElementOfSeq
  <2>4. [dict[n] EXCEPT !.value = value] \in [key : K, value : V]
    BY <2>3
  <2>5. [dict EXCEPT ![n] = [dict[n] EXCEPT !.value = value]]
          \in Seq([key : K, value : V])
    BY <2>1, <2>4, ExceptSeq
  <2> QED
    BY <2>2, <2>5
<1>2. CASE key \notin Keys(dict)
  <2>1. Assigned(dict, key, value) = Append(dict, Item(key, value))
    BY <1>2 DEF Assigned
  <2>2. Item(key, value) \in [key : K, value : V]
    BY DEF Item
  <2> QED
    BY <2>1, <2>2, AppendProperties
<1> QED
  BY <1>1, <1>2

\* dict.get gives the value of an entry with the key, if there is one.
LEMMA GetIs ==
  ASSUME NEW dict, NEW key, NEW default
  PROVE  \/ key \notin Keys(dict) /\ Get(dict, key, default) = default
         \/ \E i \in 1..Len(dict) : /\ dict[i].key = key
                                    /\ Get(dict, key, default) = dict[i].value
<1>1. CASE key \in Keys(dict)
  <2>1. At(dict, key) \in 1..Len(dict) /\ dict[At(dict, key)].key = key
    BY <1>1 DEF Keys, At
  <2> QED
    BY <1>1, <2>1 DEF Get
<1>2. CASE key \notin Keys(dict)
  BY <1>2 DEF Get
<1> QED
  BY <1>1, <1>2

\* No key is there twice.
Single(dict) == \A i, j \in 1..Len(dict) : dict[i].key = dict[j].key => i = j

\* When a key has been touched, the entries are the new one and old ones of other
\* keys.
LEMMA TouchedIn ==
  ASSUME NEW S, NEW dict \in Seq(S), Single(dict), NEW key, NEW value,
         NEW cap \in Nat
  PROVE  Touched(dict, key, value, cap)
           \in Seq({e \in S : e.key # key} \cup {Item(key, value)})
<1> DEFINE Others == {e \in S : e.key # key}
           T == Others \cup {Item(key, value)}
           rest == Popped(dict, key)
<1>0. Len(dict) \in Nat /\ \A i \in 1..Len(dict) : dict[i] \in S
  BY LenProperties, ElementOfSeq
<1>1. rest \in Seq(Others)
  <2>1. CASE key \in Keys(dict)
    <3>1. PICK n \in 1..Len(dict) :
            /\ dict[n].key = key /\ rest \in Seq(S) /\ Len(rest) = Len(dict) - 1
            /\ \A i \in 1..(Len(dict) - 1) :
                 rest[i] = IF i < n THEN dict[i] ELSE dict[i + 1]
      BY <2>1, PoppedEntries
    <3> HIDE DEF rest
    <3>2. ASSUME NEW i \in 1..Len(rest) PROVE rest[i] \in Others
      <4>1. i \in 1..(Len(dict) - 1) /\ i \in Nat /\ n \in Nat
        BY <1>0, <3>1
      <4>2. PICK j \in 1..Len(dict) : j # n /\ rest[i] = dict[j]
        <5>1. CASE i < n
          <6>1. i \in 1..Len(dict) /\ i # n /\ rest[i] = dict[i]
            BY <1>0, <3>1, <4>1, <5>1
          <6> QED
            BY <6>1
        <5>2. CASE ~(i < n)
          <6>1. i + 1 \in 1..Len(dict) /\ i + 1 # n /\ rest[i] = dict[i + 1]
            BY <1>0, <3>1, <4>1, <5>2
          <6> QED
            BY <6>1
        <5> QED
          BY <5>1, <5>2
      <4>3. dict[j].key # key
        BY <3>1, <4>2 DEF Single
      <4> QED
        BY <1>0, <4>2, <4>3
    <3>3. /\ Len(rest) \in Nat /\ rest = [i \in 1..Len(rest) |-> rest[i]]
      BY <3>1, LenProperties
    <3>4. rest \in Seq(Others)
      BY <3>2, <3>3, SMT
    <3> QED
      BY <3>4
  <2>2. CASE key \notin Keys(dict)
    <3>1. \A i \in 1..Len(dict) : dict[i] \in Others
      BY <1>0, <2>2 DEF Keys
    <3>2. dict = [i \in 1..Len(dict) |-> dict[i]]
      BY LenProperties
    <3> HIDE DEF Others
    <3>3. dict \in Seq(Others)
      BY <1>0, <3>1, <3>2, SMT
    <3> QED
      BY <2>2, <3>3 DEF Popped
  <2> QED
    BY <2>1, <2>2
<1> HIDE DEF rest, Others
<1>2. rest \in Seq(T) /\ Item(key, value) \in T
  BY <1>1, SeqMonotonic
<1> HIDE DEF T
<1>3. Append(rest, Item(key, value)) \in Seq(T)
  BY <1>2, AppendProperties
<1>4. Bounded(Append(rest, Item(key, value)), cap) \in Seq(T)
  BY <1>3, BoundedIn
<1> QED
  BY <1>4 DEF Touched, rest, T, Others

(***************************************************************************)
(* The caches.                                                             *)
(***************************************************************************)
\* What each cache is at every step: a sequence of contexts, none of them used
\* later than now.
CacheInv(cache, used, cap, now) ==
  /\ \E S : cache \in Seq(S)
  /\ used \in [Contexts -> 0..now]
  /\ Keys(cache) \subseteq Contexts
  /\ KeepsRecent(cache, used, cap)

\* A cache that keeps the most recent contexts still does once one of them, or
\* another, has been used.
LEMMA CacheInvTouched ==
  ASSUME NEW cache, NEW used, NEW cap \in Nat \ {0}, NEW now \in Nat,
         CacheInv(cache, used, cap, now),
         NEW x \in Contexts, NEW value,
         NEW new, new = Touched(cache, x, value, cap),
         NEW then, then = [used EXCEPT ![x] = now + 1]
  PROVE  CacheInv(new, then, cap, now + 1)
<1>a. PICK S : cache \in Seq(S)
  BY DEF CacheInv
<1>b. /\ used \in [Contexts -> 0..now] /\ Keys(cache) \subseteq Contexts
      /\ KeepsRecent(cache, used, cap)
  BY DEF CacheInv
<1> USE <1>a, <1>b
<1> DEFINE m == Len(new)
<1>1. /\ Len(cache) \in 0..cap
      /\ \A i \in 1..Len(cache) : cache[i].key \in Contexts /\ used[cache[i].key] > 0
      /\ \A i, j \in 1..Len(cache) : i < j => used[cache[i].key] < used[cache[j].key]
      /\ \A y \in Contexts : used[y] > 0 /\ (\A i \in 1..Len(cache) : cache[i].key # y) =>
           /\ Len(cache) = cap
           /\ \A i \in 1..Len(cache) : used[y] < used[cache[i].key]
  BY LenProperties DEF KeepsRecent, Keys
<1>2. Len(cache) <= cap
  BY <1>1
<1>3. /\ \E T : new \in Seq(T)
      /\ m \in 1..cap /\ m >= Len(cache)
      /\ new[m] = Item(x, value)
      /\ \/ \E n \in 1..Len(cache) : cache[n].key = x /\ Moved(new, cache, n)
         \/ x \notin Keys(cache) /\ Lengthened(new, cache)
         \/ x \notin Keys(cache) /\ Len(cache) = cap /\ Shifted(new, cache)
  BY <1>2, TouchedEntries
<1>4. new[m].key = x
  BY <1>3 DEF Item
<1>5. m \in 1..cap /\ m >= Len(cache)
  BY <1>3
<1>6. \A y \in Contexts : /\ then[y] = IF y = x THEN now + 1 ELSE used[y]
                          /\ used[y] \in 0..now
  OBVIOUS
<1> HIDE DEF m
\* It is enough that the entries before the last are entries of the cache, in
\* their order, and all of them but x's and the oldest, which may have made room.
<1>7. ASSUME NEW from \in [1..(m - 1) -> 1..Len(cache)],
             \A i \in 1..(m - 1) : new[i] = cache[from[i]] /\ cache[from[i]].key # x,
             \A i, j \in 1..(m - 1) : i < j => from[i] < from[j],
             \A k \in 1..Len(cache) :
               \/ cache[k].key = x
               \/ \E i \in 1..(m - 1) : from[i] = k
               \/ k = 1 /\ m = cap /\ \A i \in 1..(m - 1) : from[i] > 1
      PROVE  /\ Keys(new) \subseteq Contexts
             /\ KeepsRecent(new, then, cap)
  <2>1. ASSUME NEW i \in 1..m
        PROVE  /\ new[i].key \in Contexts
               /\ i # m => /\ i \in 1..(m - 1)
                           /\ then[new[i].key] = used[new[i].key]
                           /\ used[new[i].key] \in 1..now
               /\ i = m => then[new[i].key] = now + 1
    <3>1. CASE i = m
      BY <1>4, <1>6, <3>1
    <3>2. CASE i # m
      <4>1. i \in 1..(m - 1)
        BY <1>5, <3>2
      <4>2. /\ new[i].key = cache[from[i]].key
            /\ from[i] \in 1..Len(cache)
            /\ new[i].key # x
        BY <1>7, <4>1
      <4>3. new[i].key \in Contexts /\ used[new[i].key] > 0
        BY <1>1, <4>2
      <4> QED
        BY <1>6, <3>2, <4>1, <4>2, <4>3
    <3> QED
      BY <3>1, <3>2
  <2>2. Keys(new) \subseteq Contexts
    BY <2>1 DEF Keys, m
  <2>3. \A i \in 1..m : then[new[i].key] > 0
    BY <2>1
  <2>4. ASSUME NEW i \in 1..m, NEW j \in 1..m, i < j
        PROVE  then[new[i].key] < then[new[j].key]
    <3>1. i # m
      BY <1>5, <2>4
    <3>2. CASE j = m
      BY <2>1, <3>1, <3>2
    <3>3. CASE j # m
      <4>1. i \in 1..(m - 1) /\ j \in 1..(m - 1)
        BY <2>1, <3>1, <3>3
      <4>2. from[i] < from[j] /\ from[i] \in 1..Len(cache) /\ from[j] \in 1..Len(cache)
        BY <1>7, <2>4, <4>1
      <4>3. used[cache[from[i]].key] < used[cache[from[j]].key]
        BY <1>1, <4>2
      <4>4. new[i] = cache[from[i]] /\ new[j] = cache[from[j]]
        BY <1>7, <4>1
      <4> QED
        BY <2>1, <3>1, <3>3, <4>3, <4>4
    <3> QED
      BY <3>2, <3>3
  <2>5. ASSUME NEW y \in Contexts, then[y] > 0, y \notin Keys(new)
        PROVE  m = cap /\ \A i \in 1..m : then[y] < then[new[i].key]
    <3>1. \A i \in 1..m : new[i].key # y
      BY <2>5 DEF Keys, m
    <3>2. y # x
      BY <1>4, <1>5, <3>1
    <3>3. then[y] = used[y] /\ used[y] \in 1..now
      BY <1>6, <2>5, <3>2
    <3>4. ASSUME m = cap, \A i \in 1..(m - 1) : used[y] < used[new[i].key]
          PROVE  m = cap /\ \A i \in 1..m : then[y] < then[new[i].key]
      <4>1. ASSUME NEW i \in 1..m PROVE then[y] < then[new[i].key]
        <5>1. CASE i = m
          BY <2>1, <3>3, <5>1
        <5>2. CASE i # m
          <6>1. i \in 1..(m - 1) /\ then[new[i].key] = used[new[i].key]
            BY <2>1, <5>2
          <6> QED
            BY <3>3, <3>4, <6>1
        <5> QED
          BY <5>1, <5>2
      <4> QED
        BY <3>4, <4>1
    <3>5. CASE \A k \in 1..Len(cache) : cache[k].key # y
      <4>1. Len(cache) = cap /\ \A k \in 1..Len(cache) : used[y] < used[cache[k].key]
        BY <1>1, <3>3, <3>5
      <4>2. m = cap
        BY <1>5, <4>1
      <4>3. \A i \in 1..(m - 1) : used[y] < used[new[i].key]
        BY <1>7, <4>1
      <4> QED
        BY <3>4, <4>2, <4>3
    <3>6. ASSUME NEW k \in 1..Len(cache), cache[k].key = y
          PROVE  m = cap /\ \A i \in 1..m : then[y] < then[new[i].key]
      <4>1. ~\E i \in 1..(m - 1) : from[i] = k
        <5>1. SUFFICES ASSUME NEW i \in 1..(m - 1), from[i] = k PROVE FALSE
          OBVIOUS
        <5>2. new[i].key = y /\ i \in 1..m
          BY <1>5, <1>7, <3>6, <5>1
        <5> QED
          BY <3>1, <5>2
      <4>2. k = 1 /\ m = cap /\ \A i \in 1..(m - 1) : from[i] > 1
        BY <1>7, <3>2, <3>6, <4>1
      <4>3. ASSUME NEW i \in 1..(m - 1) PROVE used[y] < used[new[i].key]
        <5>1. from[i] \in 1..Len(cache) /\ k < from[i] /\ new[i] = cache[from[i]]
          BY <1>7, <4>2
        <5>2. used[cache[k].key] < used[cache[from[i]].key]
          BY <1>1, <5>1
        <5> QED
          BY <3>6, <5>1, <5>2
      <4> QED
        BY <3>4, <4>2, <4>3
    <3> QED
      BY <3>5, <3>6
  <2> QED
    BY <1>5, <2>2, <2>3, <2>4, <2>5 DEF KeepsRecent, m
<1>8. ASSUME NEW n \in 1..Len(cache), cache[n].key = x, Moved(new, cache, n)
      PROVE  Keys(new) \subseteq Contexts /\ KeepsRecent(new, then, cap)
  <2> DEFINE from == [i \in 1..(m - 1) |-> IF i < n THEN i ELSE i + 1]
  <2>1. m = Len(cache) /\ \A i \in 1..(m - 1) : new[i] = IF i < n THEN cache[i]
                                                       ELSE cache[i + 1]
    BY <1>8 DEF Moved, m
  <2>2. from \in [1..(m - 1) -> 1..Len(cache)]
    BY <1>1, <2>1
  <2>3. ASSUME NEW k \in 1..Len(cache), k # n PROVE cache[k].key # x
    <3>1. k < n \/ n < k
      BY <1>1, <2>3
    <3>2. used[cache[k].key] < used[cache[n].key] \/ used[cache[n].key] < used[cache[k].key]
      BY <1>1, <3>1
    <3> QED
      BY <1>1, <1>6, <1>8, <3>2
  <2>4. \A i \in 1..(m - 1) : /\ from[i] = IF i < n THEN i ELSE i + 1
                              /\ new[i] = cache[from[i]]
                              /\ from[i] # n /\ from[i] \in 1..Len(cache)
    BY <1>1, <2>1, <2>2
  <2>5. ASSUME NEW k \in 1..Len(cache), k # n
        PROVE  \E i \in 1..(m - 1) : from[i] = k
    <3>1. CASE k < n
      <4>1. k \in 1..(m - 1) /\ from[k] = k
        BY <1>1, <2>1, <2>4, <3>1
      <4> QED
        BY <4>1
    <3>2. CASE k > n
      <4>1. k - 1 \in 1..(m - 1) /\ from[k - 1] = k
        BY <1>1, <2>1, <2>4, <3>2
      <4> QED
        BY <4>1
    <3>3. k < n \/ k > n
      BY <1>1, <2>5
    <3> QED
      BY <3>1, <3>2, <3>3
  <2>6. \A i, j \in 1..(m - 1) : i < j => from[i] < from[j]
    BY <1>1, <2>1, <2>4
  <2> HIDE DEF from
  <2>7. \A i \in 1..(m - 1) : new[i] = cache[from[i]] /\ cache[from[i]].key # x
    BY <2>3, <2>4
  <2>8. \A k \in 1..Len(cache) : cache[k].key = x \/ \E i \in 1..(m - 1) : from[i] = k
    BY <1>8, <2>5
  <2> QED
    BY <1>7, <2>2, <2>6, <2>7, <2>8
<1>9. ASSUME x \notin Keys(cache), Lengthened(new, cache)
      PROVE  Keys(new) \subseteq Contexts /\ KeepsRecent(new, then, cap)
  <2> DEFINE from == [i \in 1..(m - 1) |-> i]
  <2>1. m - 1 = Len(cache) /\ \A i \in 1..(m - 1) : new[i] = cache[i]
    BY <1>1, <1>9 DEF Lengthened, m
  <2>2. /\ from \in [1..(m - 1) -> 1..Len(cache)]
        /\ \A i \in 1..(m - 1) : from[i] = i
    BY <2>1
  <2>3. \A k \in 1..Len(cache) : cache[k].key # x
    BY <1>9 DEF Keys
  <2> HIDE DEF from
  <2>4. \A i \in 1..(m - 1) : new[i] = cache[from[i]] /\ cache[from[i]].key # x
    BY <2>1, <2>2, <2>3
  <2>5. \A i, j \in 1..(m - 1) : i < j => from[i] < from[j]
    BY <2>2
  <2>6. \A k \in 1..Len(cache) : \E i \in 1..(m - 1) : from[i] = k
    BY <2>1, <2>2
  <2> QED
    BY <1>7, <2>2, <2>4, <2>5, <2>6
<1>10. ASSUME x \notin Keys(cache), Len(cache) = cap, Shifted(new, cache)
       PROVE  Keys(new) \subseteq Contexts /\ KeepsRecent(new, then, cap)
  <2> DEFINE from == [i \in 1..(m - 1) |-> i + 1]
  <2>1. m = cap /\ m = Len(cache) /\ \A i \in 1..(m - 1) : new[i] = cache[i + 1]
    BY <1>1, <1>10 DEF Shifted, m
  <2>2. /\ from \in [1..(m - 1) -> 1..Len(cache)]
        /\ \A i \in 1..(m - 1) : from[i] = i + 1 /\ from[i] > 1
    BY <1>1, <2>1
  <2>3. \A k \in 1..Len(cache) : cache[k].key # x
    BY <1>10 DEF Keys
  <2> HIDE DEF from
  <2>4. \A i \in 1..(m - 1) : new[i] = cache[from[i]] /\ cache[from[i]].key # x
    BY <2>1, <2>2, <2>3
  <2>5. \A i, j \in 1..(m - 1) : i < j => from[i] < from[j]
    BY <1>1, <2>1, <2>2
  <2>6. ASSUME NEW k \in 1..Len(cache), k # 1
        PROVE  \E i \in 1..(m - 1) : from[i] = k
    <3>1. k - 1 \in 1..(m - 1) /\ from[k - 1] = k
      BY <1>1, <2>1, <2>2, <2>6
    <3> QED
      BY <3>1
  <2>7. \A k \in 1..Len(cache) :
          \/ \E i \in 1..(m - 1) : from[i] = k
          \/ k = 1 /\ m = cap /\ \A i \in 1..(m - 1) : from[i] > 1
    BY <2>1, <2>2, <2>6
  <2> QED
    BY <1>7, <2>2, <2>4, <2>5, <2>7
<1>11. Keys(new) \subseteq Contexts /\ KeepsRecent(new, then, cap)
  BY <1>3, <1>8, <1>9, <1>10
<1>12. then \in [Contexts -> 0..(now + 1)]
  OBVIOUS
<1> QED
  BY <1>3, <1>11, <1>12 DEF CacheInv

(***************************************************************************)
(* The turns.                                                              *)
(***************************************************************************)
\* A turn that was asked for has a context.
TurnsInv ==
  /\ turns = [t \in Turns |-> turns[t]]
  /\ \A t \in Turns :
       /\ DOMAIN turns[t] = {"state", "context", "resume", "conversation", "tracker"}
       /\ turns[t].state # "idle" => turns[t].context \in Contexts

IInv == /\ clock \in Nat
        /\ TurnsInv
        /\ CacheInv(sessionIds, usedIds, MaxContexts, clock)
        /\ CacheInv(plans, usedPlans, MaxPlans, clock)

\* A cache that is left alone is as good when the other has been used.
LEMMA CacheInvGrows ==
  ASSUME NEW cache, NEW used, NEW cap, NEW now \in Nat,
         CacheInv(cache, used, cap, now)
  PROVE  CacheInv(cache, used, cap, now + 1)
<1>1. used \in [Contexts -> 0..(now + 1)]
  BY DEF CacheInv
<1> QED
  BY <1>1 DEF CacheInv

\* An empty cache, of which nothing was used.
LEMMA CacheInvInit ==
  ASSUME NEW cap \in Nat \ {0}
  PROVE  CacheInv(<<>>, [x \in Contexts |-> 0], cap, 0)
<1>1. <<>> \in Seq({}) /\ Len(<<>>) = 0 /\ 1..0 = {}
  OBVIOUS
<1> QED
  BY <1>1 DEF CacheInv, KeepsRecent, Keys

\* The caches are empty at first.
LEMMA IInvInit == Init => IInv
<1> SUFFICES ASSUME Init PROVE IInv
  OBVIOUS
<1> USE TurnsAssumption
<1>1. CacheInv(sessionIds, usedIds, MaxContexts, clock)
  BY CacheInvInit DEF Init
<1>2. CacheInv(plans, usedPlans, MaxPlans, clock)
  BY CacheInvInit DEF Init
<1>3. TurnsInv
  BY DEF Init, TurnsInv, NewTurn
<1> QED
  BY <1>1, <1>2, <1>3 DEF Init, IInv

\* And keep the contexts used last.
LEMMA IInvStep == IInv /\ [Next]_vars => IInv'
<1> SUFFICES ASSUME IInv, [Next]_vars PROVE IInv'
  OBVIOUS
<1> USE TurnsAssumption
<1>1. clock \in Nat
  BY DEF IInv
\* The caches and the clock.
<1>2. ASSUME UNCHANGED cacheVars
      PROVE  /\ clock' \in Nat
             /\ CacheInv(sessionIds, usedIds, MaxContexts, clock)'
             /\ CacheInv(plans, usedPlans, MaxPlans, clock)'
  BY <1>2 DEF IInv, cacheVars, CacheInv, KeepsRecent
<1>3. ASSUME NEW t \in Turns, Drive(t)
      PROVE  /\ clock' \in Nat
             /\ CacheInv(sessionIds, usedIds, MaxContexts, clock)'
             /\ CacheInv(plans, usedPlans, MaxPlans, clock)'
  <2> DEFINE x == turns[t].context
             tracker == IF Inherits(t) THEN Get(plans, x, t) ELSE t
  <2>1. x \in Contexts
    BY <1>3 DEF Drive, IInv, TurnsInv
  <2>2. /\ plans' = Touched(plans, x, tracker, MaxPlans)
        /\ usedPlans' = [usedPlans EXCEPT ![x] = clock + 1]
        /\ clock' = clock + 1
        /\ sessionIds' = sessionIds /\ usedIds' = usedIds
    BY <1>3 DEF Drive
  <2> HIDE DEF x, tracker
  <2>3. CacheInv(plans', usedPlans', MaxPlans, clock + 1)
    <3>1. /\ CacheInv(plans, usedPlans, MaxPlans, clock)
          /\ clock \in Nat /\ MaxPlans \in Nat \ {0}
      BY <1>1 DEF IInv
    <3> QED
      BY <2>1, <2>2, <3>1, CacheInvTouched
  <2>4. CacheInv(sessionIds, usedIds, MaxContexts, clock + 1)
    BY <1>1, CacheInvGrows DEF IInv
  <2> QED
    BY <1>1, <2>2, <2>3, <2>4 DEF CacheInv, KeepsRecent
<1>4. ASSUME NEW t \in Turns, Remember(t)
      PROVE  /\ clock' \in Nat
             /\ CacheInv(sessionIds, usedIds, MaxContexts, clock)'
             /\ CacheInv(plans, usedPlans, MaxPlans, clock)'
  <2> DEFINE x == turns[t].context
             value == turns[t].conversation
  <2>1. x \in Contexts
    BY <1>4 DEF Remember, IInv, TurnsInv
  <2>2. /\ sessionIds' = Touched(sessionIds, x, value, MaxContexts)
        /\ usedIds' = [usedIds EXCEPT ![x] = clock + 1]
        /\ clock' = clock + 1
        /\ plans' = plans /\ usedPlans' = usedPlans
    BY <1>4 DEF Remember
  <2> HIDE DEF x, value
  <2>3. CacheInv(sessionIds', usedIds', MaxContexts, clock + 1)
    <3>1. /\ CacheInv(sessionIds, usedIds, MaxContexts, clock)
          /\ clock \in Nat /\ MaxContexts \in Nat \ {0}
      BY <1>1 DEF IInv
    <3> QED
      BY <2>1, <2>2, <3>1, CacheInvTouched
  <2>4. CacheInv(plans, usedPlans, MaxPlans, clock + 1)
    BY <1>1, CacheInvGrows DEF IInv
  <2> QED
    BY <1>1, <2>2, <2>3, <2>4 DEF CacheInv, KeepsRecent
\* The turns.
<1>5. ASSUME UNCHANGED turns PROVE TurnsInv'
  BY <1>5 DEF IInv, TurnsInv
<1>6. ASSUME NEW t \in Turns, NEW x \in Contexts, Request(t, x)
      PROVE  TurnsInv'
  BY <1>6 DEF IInv, TurnsInv, Request
<1>7. ASSUME NEW t \in Turns, Drive(t) PROVE TurnsInv'
  <2>1. \E a, b : turns' = [turns EXCEPT ![t].state = "running", ![t].tracker = a,
                                         ![t].conversation = b]
    BY <1>7 DEF Drive
  <2> QED
    BY <1>7, <2>1 DEF IInv, TurnsInv, Drive
<1>8. ASSUME NEW t \in Turns, Remember(t) \/ Stop(t) \/ End(t) PROVE TurnsInv'
  BY <1>8 DEF IInv, TurnsInv, Remember, Stop, End
\* The steps.
<1>9. CASE \E t \in Turns : \E x \in Contexts : Request(t, x)
  BY <1>2, <1>6, <1>9 DEF IInv, Request
<1>10. CASE \E t \in Turns : Drive(t)
  BY <1>3, <1>7, <1>10 DEF IInv
<1>11. CASE \E t \in Turns : Remember(t)
  BY <1>4, <1>8, <1>11 DEF IInv
<1>12. CASE \E t \in Turns : Stop(t) \/ End(t)
  BY <1>2, <1>8, <1>12 DEF IInv, Stop, End
<1>13. CASE \E t \in Turns : /\ turns[t].state = "running"
                             /\ \E change \in Changes(lists[turns[t].conversation]) :
                                  Use(t, change)
  <2>1. UNCHANGED <<turns, cacheVars>>
    BY <1>13 DEF Use
  <2> QED
    BY <1>2, <1>5, <2>1 DEF IInv
<1>14. CASE \E c \in inFlight : \E ok \in BOOLEAN : Settle(c, ok)
  <2>1. UNCHANGED <<turns, cacheVars>>
    BY <1>14 DEF Settle
  <2> QED
    BY <1>2, <1>5, <2>1 DEF IInv
<1>15. CASE UNCHANGED vars
  BY <1>2, <1>5, <1>15 DEF IInv, vars
<1> QED
  BY <1>9, <1>10, <1>11, <1>12, <1>13, <1>14, <1>15 DEF Next

\* For any bounds, contexts and turns: the continuity cache and the plans of the
\* backend keep the contexts used last, and lose no other (_remember_session,
\* _plan_for).
THEOREM RecentAreAlwaysKept == Spec => []RecentAreKept
<1>1. IInv => RecentAreKept
  BY DEF IInv, CacheInv, RecentAreKept
<1> QED
  BY <1>1, IInvInit, IInvStep, PTL DEF Spec

(***************************************************************************)
(* Whose list a turn works on.                                             *)
(***************************************************************************)
Entries(dict) == {dict[i] : i \in 1..Len(dict)}

Pairs == [key : Contexts, value : Turns]

\* The steps made in a conversation, and the lists of steps of some keys.
Own(conv)   == {key \in Nat : \E i \in 1..Len(made) : made[i] = Item(key, conv)}
Steps(keys) == Seq([key : keys, value : BOOLEAN])

\* The conversation that a turn under way goes on with, or will.
Goes(t) == IF turns[t].state = "requested" THEN turns[t].resume
           ELSE turns[t].conversation

\* A turn that works has a tracker, which a turn of its context made once it had
\* a conversation, and so have the plans.
Course(t) ==
  /\ turns[t].conversation \in Turns \cup {NoTurn}
  /\ turns[t].resume \in Turns \cup {NoTurn}
  /\ turns[t].state \in TurnStates
  /\ turns[t].state \in {"idle", "requested"} => turns[t].conversation = NoTurn
  /\ turns[t].state \in {"running", "ended"} =>
       /\ {turns[t].conversation, turns[t].tracker} \subseteq Turns
       /\ turns[turns[t].tracker].context = turns[t].context
       /\ turns[turns[t].tracker].conversation \in Turns

CourseInv ==
  /\ \A t \in Turns : Course(t)
  /\ sessionIds \in Seq(Pairs) /\ plans \in Seq(Pairs)
  /\ \A e \in Entries(plans) : /\ turns[e.value].context = e.key
                               /\ turns[e.value].conversation \in Turns

\* As long as no two turns of a context overlapped, the cache, the plans and the
\* one turn that is under way mean the same conversation.
Agree(x) ==
  /\ \A e \in Entries(plans), s \in Entries(sessionIds) :
       e.key = x /\ s.key = x => turns[e.value].conversation = s.value
  /\ \A t \in UnderWay(x) :
       /\ \A u \in UnderWay(x) : u = t
       /\ \A s \in Entries(sessionIds) : s.key = x => s.value = Goes(t)
       /\ \A e \in Entries(plans) :
            e.key = x /\ Goes(t) # NoTurn => turns[e.value].conversation = Goes(t)
       /\ turns[t].state # "requested" =>
            turns[turns[t].tracker].conversation = turns[t].conversation

LastInv == \A x \in Contexts \ mixed : Agree(x)

\* What a call may ask for: its steps are of the conversation, or its own.
Asked(change, keys) ==
  \/ change = Create
  \/ \E id : change = Update(id, "done") \/ change = Update(id, "deleted")
  \/ \E steps \in Steps(keys) : change = Todos(steps)

\* A call that a tracker has noted is what the call in flight asks for.
Told(noted) == /\ noted.key \in 1..calls
               /\ \A c \in inFlight : c.call = noted.key => c.change = noted.value

IsTracker(tracker) ==
  tracker = [tasks |-> tracker.tasks, calls |-> tracker.calls, keys |-> tracker.keys]

\* A tracker and the agent's list have steps of their own conversation alone.
TrackerInv(r) ==
  /\ IsTracker(trackers[r])
  /\ \E S : trackers[r].calls \in Seq(S)
  /\ \A noted \in Entries(trackers[r].calls) : Told(noted)
  /\ turns[r].context \notin mixed =>
       trackers[r].tasks \in Steps(Own(turns[r].conversation))
  /\ turns[r].conversation = NoTurn => trackers[r].tasks = <<>>

CallInv(c) == /\ c.turn \in Turns /\ turns[c.turn].state = "running"
              /\ c.call \in 1..calls
              /\ Asked(c.change, Own(turns[c.turn].conversation) \cup {c.call})

ListInv(v) == \E I : lists[v] \in Seq([key : Own(v), id : I, done : BOOLEAN])

WorkInv ==
  /\ calls \in Nat
  /\ \E S : made \in Seq(S)
  /\ lists = [v \in Turns |-> lists[v]]
  /\ trackers = [r \in Turns |-> trackers[r]]
  /\ \A v \in Turns : ListInv(v)
  /\ \A c \in inFlight : CallInv(c)
  /\ \A r \in Turns : TrackerInv(r)

OwnInv == IInv /\ CourseInv /\ LastInv /\ WorkInv

\* A sequence is one of whatever its elements are.
LEMMA Retyped ==
  ASSUME NEW S, NEW s \in Seq(S), NEW T, \A i \in 1..Len(s) : s[i] \in T
  PROVE  s \in Seq(T)
<1>1. Len(s) \in Nat /\ s = [i \in 1..Len(s) |-> s[i]]
  BY LenProperties
<1> QED
  BY <1>1, SMT

\* A cache has no context twice.
LEMMA CacheIsSingle ==
  ASSUME NEW cache, NEW used, NEW cap, NEW now, CacheInv(cache, used, cap, now)
  PROVE  Single(cache)
<1>1. PICK S : cache \in Seq(S)
  BY DEF CacheInv
<1>2. Len(cache) \in Nat
  BY <1>1, LenProperties
<1>3. \A i \in 1..Len(cache) : cache[i].key \in Contexts
  BY DEF CacheInv, Keys
<1>4. \A x \in Contexts : used[x] \in Int
  BY DEF CacheInv
<1>5. \A i, j \in 1..Len(cache) : i < j => used[cache[i].key] < used[cache[j].key]
  BY DEF CacheInv, KeepsRecent
<1>6. ASSUME NEW i \in 1..Len(cache), NEW j \in 1..Len(cache), i < j
      PROVE  cache[i].key # cache[j].key
  BY <1>3, <1>4, <1>5, <1>6
<1> QED
  BY <1>2, <1>6 DEF Single

\* When a key has been touched, what is there is the new entry and old ones of
\* other keys.
LEMMA TouchedEntriesAre ==
  ASSUME NEW S, NEW dict \in Seq(S), Single(dict), NEW key, NEW value,
         NEW cap \in Nat, Item(key, value) \in S, NEW new,
         new = Touched(dict, key, value, cap)
  PROVE  /\ new \in Seq(S)
         /\ \A e \in Entries(new) : \/ e = Item(key, value)
                                    \/ e \in Entries(dict) /\ e.key # key
<1> DEFINE D == Entries(dict)
           T == {e \in D : e.key # key} \cup {Item(key, value)}
<1>1. \A i \in 1..Len(dict) : dict[i] \in D /\ dict[i] \in S
  BY ElementOfSeq DEF Entries
<1>2. dict \in Seq(D)
  <2> HIDE DEF D
  <2> QED
    BY <1>1, Retyped
<1>3. new \in Seq(T)
  <2> HIDE DEF D
  <2> QED
    BY <1>2, TouchedIn
<1>4. T \subseteq S
  BY <1>1 DEF Entries
<1>5. \A e \in Entries(new) : e \in T
  <2> HIDE DEF T
  <2> QED
    BY <1>3, ElementOfSeq DEF Entries
<1>6. new \in Seq(S)
  <2> HIDE DEF T
  <2> QED
    BY <1>3, <1>4, SeqMonotonic
<1> QED
  BY <1>5, <1>6

\* What driving a turn does: it goes on with the conversation it was to resume, or
\* begins one, on the tracker of that conversation or on a new one.
Driven(t, r, v) ==
  /\ turns' = [turns EXCEPT ![t].state = "running", ![t].tracker = r,
                            ![t].conversation = v]
  /\ turns[t].state = "requested" /\ turns[t].conversation = NoTurn
  /\ turns[t].context \in Contexts
  /\ IF turns[t].resume # NoTurn THEN v = turns[t].resume ELSE v = t
  /\ \/ r = t /\ ~Inherits(t)
     \/ /\ r # t /\ turns[t].resume # NoTurn
        /\ \E e \in Entries(plans) : e = Item(turns[t].context, r)
  /\ plans' \in Seq(Pairs)
  /\ \A e \in Entries(plans') : \/ e = Item(turns[t].context, r)
                                \/ e \in Entries(plans) /\ e.key # turns[t].context

LEMMA DriveIs ==
  ASSUME IInv, CourseInv, NEW t \in Turns, Drive(t)
  PROVE  \E r \in Turns, v \in Turns : Driven(t, r, v)
<1> DEFINE x == turns[t].context
           resume == turns[t].resume
           r == IF Inherits(t) THEN Get(plans, x, t) ELSE t
           v == IF resume # NoTurn THEN resume ELSE t
<1>1. /\ turns[t].state = "requested"
      /\ turns' = [turns EXCEPT ![t].state = "running", ![t].tracker = r,
                                ![t].conversation = v]
      /\ plans' = Touched(plans, x, r, MaxPlans)
  BY DEF Drive
<1>2. x \in Contexts
  BY <1>1 DEF IInv, TurnsInv
<1>3. Course(t)
  BY DEF CourseInv
<1>4. turns[t].conversation = NoTurn /\ resume \in Turns \cup {NoTurn}
  BY <1>1, <1>3 DEF Course
<1>5. v \in Turns
  BY <1>4
<1>6. /\ r \in Turns
      /\ \/ r = t /\ ~Inherits(t)
         \/ r # t /\ resume # NoTurn /\ \E e \in Entries(plans) : e = Item(x, r)
  <2>1. CASE Inherits(t)
    <3>1. x \in Keys(plans) /\ resume # NoTurn /\ r = Get(plans, x, t)
      BY <2>1 DEF Inherits
    <3> HIDE DEF r
    <3>2. PICK i \in 1..Len(plans) : plans[i].key = x /\ r = plans[i].value
      BY <3>1, GetIs
    <3>3. plans[i] \in Pairs /\ plans[i] \in Entries(plans)
      <4>1. plans \in Seq(Pairs)
        BY DEF CourseInv
      <4>2. plans[i] \in Pairs
        BY <4>1, ElementOfSeq
      <4> QED
        BY <4>2 DEF Entries
    <3>4. plans[i] = Item(x, r) /\ r \in Turns
      BY <3>2, <3>3 DEF Pairs, Item
    <3>5. turns[r].conversation \in Turns
      BY <3>3, <3>4 DEF CourseInv, Item
    <3>6. r # t
      BY <1>4, <3>5, TurnsAssumption
    <3> QED
      BY <3>1, <3>3, <3>4, <3>6
  <2>2. CASE ~Inherits(t)
    BY <2>2
  <2> QED
    BY <2>1, <2>2
<1> HIDE DEF r, v
<1>7. /\ plans' \in Seq(Pairs)
      /\ \A e \in Entries(plans') : \/ e = Item(x, r)
                                    \/ e \in Entries(plans) /\ e.key # x
  <2>1. plans \in Seq(Pairs) /\ Item(x, r) \in Pairs
    BY <1>2, <1>6 DEF CourseInv, Item, Pairs
  <2>2. Single(plans)
    BY CacheIsSingle DEF IInv
  <2>3. MaxPlans \in Nat
    BY TurnsAssumption
  <2> HIDE DEF x
  <2> QED
    BY <1>1, <2>1, <2>2, <2>3, TouchedEntriesAre
<1> QED
  BY <1>1, <1>2, <1>4, <1>5, <1>6, <1>7 DEF v, Driven

\* What remembering a conversation does.
LEMMA RememberIs ==
  ASSUME IInv, CourseInv, NEW t \in Turns, Remember(t)
  PROVE  /\ turns' = [turns EXCEPT ![t].state = "over"]
         /\ turns[t].state = "ended" /\ turns[t].context \in Contexts
         /\ sessionIds' \in Seq(Pairs)
         /\ \A e \in Entries(sessionIds') :
              \/ e = Item(turns[t].context, turns[t].conversation)
              \/ e \in Entries(sessionIds) /\ e.key # turns[t].context
<1> DEFINE x == turns[t].context
           v == turns[t].conversation
<1>1. /\ turns[t].state = "ended"
      /\ turns' = [turns EXCEPT ![t].state = "over"]
      /\ sessionIds' = Touched(sessionIds, x, v, MaxContexts)
  BY DEF Remember
<1>2. x \in Contexts
  BY <1>1 DEF IInv, TurnsInv
<1>3. Course(t)
  BY DEF CourseInv
<1>4. v \in Turns
  BY <1>1, <1>3 DEF Course
<1>5. sessionIds \in Seq(Pairs) /\ Item(x, v) \in Pairs
  BY <1>2, <1>4 DEF CourseInv, Item, Pairs
<1>6. Single(sessionIds)
  BY CacheIsSingle DEF IInv
<1>7. MaxContexts \in Nat
  BY TurnsAssumption
<1> HIDE DEF x, v
<1>8. /\ sessionIds' \in Seq(Pairs)
      /\ \A e \in Entries(sessionIds') : \/ e = Item(x, v)
                                         \/ e \in Entries(sessionIds) /\ e.key # x
  BY <1>1, <1>5, <1>6, <1>7, TouchedEntriesAre
<1> QED
  BY <1>1, <1>2, <1>8 DEF x, v

\* What asking for a turn does: it is to resume what the cache has of its context.
LEMMA RequestIs ==
  ASSUME IInv, CourseInv, NEW t \in Turns, NEW x \in Contexts, Request(t, x)
  PROVE  \E v \in Turns \cup {NoTurn} :
           /\ turns' = [turns EXCEPT ![t].state = "requested", ![t].context = x,
                                     ![t].resume = v]
           /\ turns[t].state = "idle" /\ turns[t].conversation = NoTurn
           /\ \A s \in Entries(sessionIds) : s.key = x => s.value = v
           /\ v # NoTurn => \E s \in Entries(sessionIds) : s = Item(x, v)
           /\ mixed \subseteq mixed'
           /\ UnderWay(x) # {} => x \in mixed'
<1> DEFINE v == Get(sessionIds, x, NoTurn)
<1>1. /\ turns[t].state = "idle"
      /\ turns' = [turns EXCEPT ![t].state = "requested", ![t].context = x,
                                ![t].resume = v]
      /\ mixed' = IF UnderWay(x) # {} THEN mixed \cup {x} ELSE mixed
  BY DEF Request
<1>2. Course(t)
  BY DEF CourseInv
<1>3. \A i \in 1..Len(sessionIds) : sessionIds[i] \in Pairs
  BY ElementOfSeq DEF CourseInv
<1>4. Single(sessionIds)
  BY CacheIsSingle DEF IInv
<1>5. /\ v \in Turns \cup {NoTurn}
      /\ \A s \in Entries(sessionIds) : s.key = x => s.value = v
      /\ v # NoTurn => \E s \in Entries(sessionIds) : s = Item(x, v)
  <2>1. CASE x \notin Keys(sessionIds) /\ v = NoTurn
    BY <2>1 DEF Keys, Entries
  <2>2. CASE \E i \in 1..Len(sessionIds) : sessionIds[i].key = x /\ v = sessionIds[i].value
    <3> HIDE DEF v
    <3>1. PICK i \in 1..Len(sessionIds) : sessionIds[i].key = x /\ v = sessionIds[i].value
      BY <2>2
    <3>2. sessionIds[i] = Item(x, v) /\ v \in Turns
      BY <1>3, <3>1 DEF Pairs, Item
    <3>3. \A j \in 1..Len(sessionIds) : sessionIds[j].key = x => j = i
      BY <1>4, <3>1 DEF Single
    <3>4. \A s \in Entries(sessionIds) : s.key = x => s.value = v
      BY <3>1, <3>3 DEF Entries
    <3>5. Item(x, v) \in Entries(sessionIds)
      BY <3>2 DEF Entries
    <3> QED
      BY <3>2, <3>4, <3>5
  <2> QED
    BY <2>1, <2>2, GetIs
<1> HIDE DEF v
<1> QED
  BY <1>1, <1>2, <1>5 DEF Course

\* A step that leaves the caches alone, and of the turns but one changes nothing,
\* and of that one neither context nor conversation once it has one.
LEMMA CourseStays ==
  ASSUME CourseInv, UNCHANGED <<sessionIds, plans>>, NEW t \in Turns,
         \A u \in Turns \ {t} : turns'[u] = turns[u],
         turns'[t].conversation = turns[t].conversation,
         turns[t].conversation \in Turns =>
           turns'[t].context = turns[t].context,
         Course(t)'
  PROVE  CourseInv'
<1>1. ASSUME NEW r \in Turns, turns[r].conversation \in Turns
      PROVE  /\ turns'[r].context = turns[r].context
             /\ turns'[r].conversation = turns[r].conversation
  BY <1>1
<1>2. ASSUME NEW u \in Turns, u # t PROVE Course(u)'
  <2>1. turns'[u] = turns[u] /\ Course(u)
    BY <1>2 DEF CourseInv
  <2>2. CASE turns[u].state \in {"running", "ended"}
    <3>1. turns[u].tracker \in Turns /\ turns[turns[u].tracker].conversation \in Turns
      BY <2>1, <2>2 DEF Course
    <3> QED
      BY <1>1, <2>1, <3>1 DEF Course
  <2>3. CASE turns[u].state \notin {"running", "ended"}
    BY <2>1, <2>3 DEF Course
  <2> QED
    BY <2>2, <2>3
<1>3. ASSUME NEW e \in Entries(plans)
      PROVE  /\ turns'[e.value].context = e.key
             /\ turns'[e.value].conversation \in Turns
  <2>1. e \in Pairs
    BY <1>3, ElementOfSeq DEF CourseInv, Entries
  <2>2. e.value \in Turns
    BY <2>1 DEF Pairs
  <2> QED
    BY <1>1, <1>3, <2>2 DEF CourseInv
<1>4. Entries(plans)' = Entries(plans)
  BY DEF Entries
<1> QED
  BY <1>2, <1>3, <1>4 DEF CourseInv

\* A turn keeps its course.
LEMMA CourseStep ==
  ASSUME IInv, CourseInv, [Next]_vars
  PROVE  CourseInv'
<1>0. \A t \in Turns : Course(t) /\ DOMAIN turns[t] = {"state", "context", "resume",
                                                      "conversation", "tracker"}
  BY DEF CourseInv, IInv, TurnsInv
<1>d. DOMAIN turns = Turns
  BY DEF IInv, TurnsInv
<1>1. ASSUME NEW t \in Turns, NEW x \in Contexts, Request(t, x) PROVE CourseInv'
  <2>1. PICK v \in Turns \cup {NoTurn} :
           /\ turns' = [turns EXCEPT ![t].state = "requested", ![t].context = x,
                                     ![t].resume = v]
           /\ turns[t].state = "idle" /\ turns[t].conversation = NoTurn
    BY <1>1, RequestIs
  <2>2. /\ \A u \in Turns \ {t} : turns'[u] = turns[u]
        /\ turns'[t].conversation = turns[t].conversation
        /\ turns'[t].state = "requested" /\ turns'[t].resume = v
    BY <1>0, <1>d, <2>1
  <2>3. Course(t)'
    BY <2>1, <2>2 DEF Course, TurnStates
  <2>4. UNCHANGED <<sessionIds, plans>>
    BY <1>1 DEF Request, cacheVars
  <2> QED
    BY <2>1, <2>2, <2>3, <2>4, CourseStays, TurnsAssumption
<1>2. ASSUME NEW t \in Turns, End(t) \/ Stop(t) PROVE CourseInv'
  <2>1. PICK state \in {"ended", "over"} :
          /\ turns' = [turns EXCEPT ![t].state = state]
          /\ state = "ended" => turns[t].state = "running"
    BY <1>2 DEF End, Stop
  <2>2. /\ \A u \in Turns \ {t} : turns'[u] = turns[u]
        /\ turns'[t] = [turns[t] EXCEPT !.state = state]
    BY <1>d, <2>1
  <2>3. /\ turns'[t].state = state
        /\ turns'[t].conversation = turns[t].conversation
        /\ turns'[t].context = turns[t].context
        /\ turns'[t].resume = turns[t].resume
        /\ turns'[t].tracker = turns[t].tracker
    BY <1>0, <2>2
  <2>4. \A r \in Turns : /\ turns'[r].context = turns[r].context
                         /\ turns'[r].conversation = turns[r].conversation
    BY <2>2, <2>3
  <2>5. Course(t)'
    <3>1. Course(t)
      BY <1>0
    <3>2. CASE state = "over"
      BY <2>3, <3>1, <3>2 DEF Course, TurnStates
    <3>3. CASE state = "ended"
      <4>1. turns[t].state = "running" /\ turns[t].tracker \in Turns
        BY <2>1, <3>1, <3>3 DEF Course
      <4> QED
        BY <2>3, <2>4, <3>1, <3>3, <4>1 DEF Course, TurnStates
    <3> QED
      BY <2>1, <3>2, <3>3
  <2>6. UNCHANGED <<sessionIds, plans>>
    BY <1>2 DEF End, Stop, cacheVars
  <2> QED
    BY <2>2, <2>3, <2>5, <2>6, CourseStays
<1>3. ASSUME NEW t \in Turns, Remember(t) PROVE CourseInv'
  <2>1. /\ turns' = [turns EXCEPT ![t].state = "over"]
        /\ sessionIds' \in Seq(Pairs) /\ plans' = plans
    BY <1>3, RememberIs DEF Remember
  <2>2. \A r \in Turns : /\ turns'[r].context = turns[r].context
                         /\ turns'[r].conversation = turns[r].conversation
                         /\ turns'[r].resume = turns[r].resume
                         /\ turns'[r].tracker = turns[r].tracker
                         /\ turns'[r].state = IF r = t THEN "over" ELSE turns[r].state
    BY <1>0, <1>d, <2>1
  <2>3. ASSUME NEW u \in Turns PROVE Course(u)'
    <3>1. Course(u)
      BY <1>0
    <3>2. CASE turns'[u].state \in {"running", "ended"}
      <4>1. turns[u].state = turns'[u].state /\ turns[u].tracker \in Turns
        BY <2>2, <3>1, <3>2 DEF Course
      <4> QED
        BY <2>2, <3>1, <3>2, <4>1 DEF Course
    <3>3. CASE turns'[u].state \notin {"running", "ended"}
      BY <2>2, <3>1, <3>3 DEF Course, TurnStates
    <3> QED
      BY <3>2, <3>3
  <2>4. ASSUME NEW e \in Entries(plans)
        PROVE  /\ turns'[e.value].context = e.key
               /\ turns'[e.value].conversation \in Turns
    <3>1. e \in Pairs
      BY <2>4, ElementOfSeq DEF CourseInv, Entries
    <3>2. e.value \in Turns
      BY <3>1 DEF Pairs
    <3> QED
      BY <2>2, <2>4, <3>2 DEF CourseInv
  <2>5. plans \in Seq(Pairs)
    BY DEF CourseInv
  <2> QED
    BY <2>1, <2>3, <2>4, <2>5 DEF CourseInv
<1>4. ASSUME NEW t \in Turns, Drive(t) PROVE CourseInv'
  <2> DEFINE x == turns[t].context
  <2>d. PICK r \in Turns, v \in Turns : Driven(t, r, v)
    BY <1>4, DriveIs
  <2>1. /\ turns' = [turns EXCEPT ![t].state = "running", ![t].tracker = r,
                                  ![t].conversation = v]
        /\ turns[t].conversation = NoTurn /\ x \in Contexts
        /\ \/ r = t
           \/ r # t /\ \E e \in Entries(plans) : e = Item(x, r)
        /\ plans' \in Seq(Pairs)
        /\ \A e \in Entries(plans') : \/ e = Item(x, r)
                                      \/ e \in Entries(plans) /\ e.key # x
    BY <2>d DEF Driven
  <2>2. /\ \A u \in Turns \ {t} : turns'[u] = turns[u]
        /\ turns'[t].conversation = v /\ turns'[t].state = "running"
        /\ turns'[t].tracker = r /\ turns'[t].context = x
        /\ turns'[t].resume = turns[t].resume
    BY <1>0, <1>d, <2>1
  <2> HIDE DEF x
  <2>3. ASSUME NEW u \in Turns, turns[u].conversation \in Turns
        PROVE  u # t /\ turns'[u] = turns[u]
    BY <2>1, <2>2, <2>3, TurnsAssumption
  <2>4. turns'[r].context = x /\ turns'[r].conversation \in Turns
    <3>1. CASE r = t
      BY <2>2, <3>1
    <3>2. CASE r # t
      <4>1. PICK e \in Entries(plans) : e = Item(x, r)
        BY <2>1, <3>2
      <4>2. e.key = x /\ e.value = r
        BY <4>1 DEF Item
      <4>3. turns[r].context = x /\ turns[r].conversation \in Turns
        BY <4>1, <4>2 DEF CourseInv
      <4> QED
        BY <2>3, <4>3
    <3> QED
      BY <3>1, <3>2
  <2>5. Course(t)'
    <3>1. turns[t].resume \in Turns \cup {NoTurn}
      BY <1>0 DEF Course
    <3> QED
      BY <2>1, <2>2, <2>4, <3>1 DEF Course, TurnStates
  <2>6. ASSUME NEW u \in Turns, u # t PROVE Course(u)'
    <3>1. turns'[u] = turns[u] /\ Course(u)
      BY <1>0, <2>2, <2>6
    <3>2. CASE turns[u].state \in {"running", "ended"}
      <4>1. turns[u].tracker \in Turns /\ turns[turns[u].tracker].conversation \in Turns
        BY <3>1, <3>2 DEF Course
      <4> QED
        BY <2>3, <3>1, <4>1 DEF Course
    <3>3. CASE turns[u].state \notin {"running", "ended"}
      BY <3>1, <3>3 DEF Course
    <3> QED
      BY <3>2, <3>3
  <2>7. ASSUME NEW e \in Entries(plans')
        PROVE  /\ turns'[e.value].context = e.key
               /\ turns'[e.value].conversation \in Turns
    <3>1. CASE e = Item(x, r)
      BY <2>4, <3>1 DEF Item
    <3>2. CASE e \in Entries(plans)
      <4>1. e \in Pairs
        BY <3>2, ElementOfSeq DEF CourseInv, Entries
      <4>2. e.value \in Turns
        BY <4>1 DEF Pairs
      <4>3. turns[e.value].context = e.key /\ turns[e.value].conversation \in Turns
        BY <3>2 DEF CourseInv
      <4> QED
        BY <2>3, <4>2, <4>3
    <3> QED
      BY <2>1, <3>1, <3>2
  <2>8. sessionIds' = sessionIds /\ sessionIds \in Seq(Pairs)
    BY <1>4 DEF Drive, CourseInv
  <2>9. Entries(plans)' = Entries(plans')
    BY DEF Entries
  <2> QED
    BY <2>1, <2>5, <2>6, <2>7, <2>8, <2>9 DEF CourseInv
<1>5. ASSUME UNCHANGED <<turns, sessionIds, plans>> PROVE CourseInv'
  BY <1>5 DEF CourseInv, Course, Entries
<1>6. ASSUME NEW t \in Turns, NEW change, Use(t, change) PROVE CourseInv'
  BY <1>5, <1>6 DEF Use, cacheVars
<1>7. ASSUME NEW c, NEW ok, Settle(c, ok) PROVE CourseInv'
  BY <1>5, <1>7 DEF Settle, cacheVars
<1>8. CASE UNCHANGED vars
  BY <1>5, <1>8 DEF vars, cacheVars
<1> QED
  BY <1>1, <1>2, <1>3, <1>4, <1>6, <1>7, <1>8 DEF Next

\* A context of which the cache and the plans get nothing new, and whose turns under
\* way were so before, agrees as it did.
LEMMA AgreeStays ==
  ASSUME CourseInv, NEW y, Agree(y),
         \A e \in Entries(plans') : e.key = y => e \in Entries(plans),
         \A s \in Entries(sessionIds') : s.key = y => s \in Entries(sessionIds),
         \A r \in Turns : turns[r].conversation \in Turns =>
           turns'[r].conversation = turns[r].conversation,
         \A u \in UnderWay(y)' :
           /\ u \in UnderWay(y)
           /\ Goes(u)' = Goes(u)
           /\ turns'[u].tracker = turns[u].tracker
           /\ turns'[u].conversation = turns[u].conversation
           /\ turns'[u].state = "requested" <=> turns[u].state = "requested"
  PROVE  Agree(y)'
<1>1. Entries(plans)' = Entries(plans') /\ Entries(sessionIds)' = Entries(sessionIds')
  BY DEF Entries
<1>2. ASSUME NEW e \in Entries(plans'), e.key = y
      PROVE  /\ e \in Entries(plans)
             /\ turns'[e.value].conversation = turns[e.value].conversation
  <2>1. e \in Entries(plans)
    BY <1>2
  <2>2. e \in Pairs
    BY <2>1, ElementOfSeq DEF CourseInv, Entries
  <2>3. e.value \in Turns
    BY <2>2 DEF Pairs
  <2> QED
    BY <2>1, <2>3 DEF CourseInv
<1>3. \A e \in Entries(plans'), s \in Entries(sessionIds') :
        e.key = y /\ s.key = y => turns'[e.value].conversation = s.value
  BY <1>2 DEF Agree
<1>4. ASSUME NEW t \in UnderWay(y)'
      PROVE  /\ \A u \in UnderWay(y)' : u = t
             /\ \A s \in Entries(sessionIds') : s.key = y => s.value = Goes(t)'
             /\ \A e \in Entries(plans') :
                  e.key = y /\ Goes(t)' # NoTurn =>
                    turns'[e.value].conversation = Goes(t)'
             /\ turns'[t].state # "requested" =>
                  turns'[turns'[t].tracker].conversation = turns'[t].conversation
  <2>1. /\ t \in UnderWay(y) /\ Goes(t)' = Goes(t)
        /\ turns'[t].tracker = turns[t].tracker
        /\ turns'[t].conversation = turns[t].conversation
        /\ turns'[t].state = "requested" <=> turns[t].state = "requested"
    BY <1>4
  <2>2. t \in Turns /\ turns[t].state \notin {"idle", "over"} /\ Course(t)
    BY <2>1 DEF UnderWay, CourseInv
  <2>3. \A u \in UnderWay(y)' : u = t
    BY <2>1 DEF Agree
  <2>4. \A s \in Entries(sessionIds') : s.key = y => s.value = Goes(t)'
    BY <2>1 DEF Agree
  <2>5. ASSUME NEW e \in Entries(plans'), e.key = y, Goes(t)' # NoTurn
        PROVE  turns'[e.value].conversation = Goes(t)'
    <3>1. turns[e.value].conversation = Goes(t)
      BY <1>2, <2>1, <2>5 DEF Agree
    <3> QED
      BY <1>2, <2>1, <2>5, <3>1
  <2>6. ASSUME turns'[t].state # "requested"
        PROVE  turns'[turns'[t].tracker].conversation = turns'[t].conversation
    <3>1. turns[t].state \in {"running", "ended"}
      BY <2>1, <2>2, <2>6 DEF Course, TurnStates
    <3>2. turns[t].tracker \in Turns /\ turns[turns[t].tracker].conversation \in Turns
      BY <2>2, <3>1 DEF Course
    <3>3. turns[turns[t].tracker].conversation = turns[t].conversation
      BY <2>1, <2>6 DEF Agree
    <3> QED
      BY <2>1, <3>2, <3>3
  <2> QED
    BY <2>3, <2>4, <2>5, <2>6
<1> QED
  BY <1>1, <1>3, <1>4 DEF Agree

\* The caches and the turn under way go on to mean the same conversation.
LEMMA LastStep ==
  ASSUME IInv, CourseInv, LastInv, [Next]_vars
  PROVE  LastInv'
<1>0. \A t \in Turns : Course(t) /\ DOMAIN turns[t] = {"state", "context", "resume",
                                                      "conversation", "tracker"}
  BY DEF CourseInv, IInv, TurnsInv
<1>d. DOMAIN turns = Turns
  BY DEF IInv, TurnsInv
<1>e. \A e \in Entries(plans) \cup Entries(sessionIds) : e \in Pairs
  BY ElementOfSeq DEF CourseInv, Entries
<1>f. Entries(plans)' = Entries(plans') /\ Entries(sessionIds)' = Entries(sessionIds')
  BY DEF Entries
<1>1. ASSUME NEW t \in Turns, NEW x \in Contexts, Request(t, x) PROVE LastInv'
  <2>1. PICK v \in Turns \cup {NoTurn} :
           /\ turns' = [turns EXCEPT ![t].state = "requested", ![t].context = x,
                                     ![t].resume = v]
           /\ turns[t].state = "idle" /\ turns[t].conversation = NoTurn
           /\ \A s \in Entries(sessionIds) : s.key = x => s.value = v
           /\ v # NoTurn => \E s \in Entries(sessionIds) : s = Item(x, v)
           /\ mixed \subseteq mixed'
           /\ UnderWay(x) # {} => x \in mixed'
    BY <1>1, RequestIs
  <2>2. sessionIds' = sessionIds /\ plans' = plans
    BY <1>1 DEF Request, cacheVars
  <2>3. /\ \A u \in Turns \ {t} : turns'[u] = turns[u]
        /\ turns'[t].state = "requested" /\ turns'[t].context = x
        /\ turns'[t].resume = v
        /\ \A u \in Turns : turns'[u].conversation = turns[u].conversation
    BY <1>0, <1>d, <2>1
  <2>4. ASSUME NEW y \in Contexts \ mixed' PROVE Agree(y)'
    <3>0. Agree(y)
      BY <2>1, <2>4 DEF LastInv
    <3>1. CASE y # x
      <4>1. ASSUME NEW u \in UnderWay(y)'
            PROVE  /\ u \in UnderWay(y) /\ Goes(u)' = Goes(u)
                   /\ turns'[u] = turns[u]
        <5>1. u \in Turns /\ turns'[u].context = y /\ turns'[u].state \notin {"idle", "over"}
          BY <4>1 DEF UnderWay
        <5>2. u # t
          BY <2>3, <3>1, <5>1
        <5>3. turns'[u] = turns[u]
          BY <2>3, <5>1, <5>2
        <5> QED
          BY <5>1, <5>3 DEF UnderWay, Goes
      <4> QED
        BY <2>2, <2>3, <3>0, <4>1, AgreeStays
    <3>2. CASE y = x
      <4>1. UnderWay(x) = {}
        BY <2>1, <2>4, <3>2
      <4>2. ASSUME NEW u \in UnderWay(x)' PROVE u = t
        <5>1. u \in Turns /\ turns'[u].context = x /\ turns'[u].state \notin {"idle", "over"}
          BY <4>2 DEF UnderWay
        <5>2. SUFFICES ASSUME u # t PROVE FALSE
          OBVIOUS
        <5>3. u \in UnderWay(x)
          BY <2>3, <5>1, <5>2 DEF UnderWay
        <5> QED
          BY <4>1, <5>3
      <4>3. Goes(t)' = v
        BY <2>3 DEF Goes
      <4>4. \A e \in Entries(plans), s \in Entries(sessionIds) :
               e.key = x /\ s.key = x => turns[e.value].conversation = s.value
        BY <3>0, <3>2 DEF Agree
      <4>5. ASSUME NEW e \in Entries(plans), e.key = x
            PROVE  turns'[e.value].conversation = turns[e.value].conversation
        <5>1. e.value \in Turns
          BY <1>e DEF Pairs
        <5> QED
          BY <2>3, <5>1
      <4>6. ASSUME NEW e \in Entries(plans), e.key = x, v # NoTurn
            PROVE  turns[e.value].conversation = v
        <5>1. PICK s \in Entries(sessionIds) : s = Item(x, v)
          BY <2>1, <4>6
        <5>2. s.key = x /\ s.value = v
          BY <5>1 DEF Item
        <5> QED
          BY <4>4, <4>6, <5>2
      <4>7. \A e \in Entries(plans'), s \in Entries(sessionIds') :
               e.key = x /\ s.key = x => turns'[e.value].conversation = s.value
        BY <2>2, <4>4, <4>5
      <4>8. \A s \in Entries(sessionIds') : s.key = x => s.value = v
        BY <2>1, <2>2
      <4>9. \A e \in Entries(plans') :
               e.key = x /\ v # NoTurn => turns'[e.value].conversation = v
        BY <2>2, <4>5, <4>6
      <4> QED
        BY <1>f, <2>3, <3>2, <4>2, <4>3, <4>7, <4>8, <4>9 DEF Agree
    <3> QED
      BY <3>1, <3>2
  <2> QED
    BY <2>4 DEF LastInv
<1>2. ASSUME NEW t \in Turns, End(t) \/ Stop(t) PROVE LastInv'
  <2>1. PICK state \in {"ended", "over"} :
          /\ turns' = [turns EXCEPT ![t].state = state]
          /\ state = "ended" => turns[t].state = "running"
    BY <1>2 DEF End, Stop
  <2>2. /\ \A u \in Turns \ {t} : turns'[u] = turns[u]
        /\ turns'[t].state = state
        /\ turns'[t].conversation = turns[t].conversation
        /\ turns'[t].context = turns[t].context
        /\ turns'[t].tracker = turns[t].tracker
    BY <1>0, <1>d, <2>1
  <2>3. sessionIds' = sessionIds /\ plans' = plans /\ mixed' = mixed
    BY <1>2 DEF End, Stop, cacheVars
  <2>4. ASSUME NEW y \in Contexts \ mixed' PROVE Agree(y)'
    <3>1. Agree(y)
      BY <2>3, <2>4 DEF LastInv
    <3>2. \A r \in Turns : turns'[r].conversation = turns[r].conversation
      BY <2>2
    <3>3. ASSUME NEW u \in UnderWay(y)'
          PROVE  /\ u \in UnderWay(y) /\ Goes(u)' = Goes(u)
                 /\ turns'[u].tracker = turns[u].tracker
                 /\ turns'[u].conversation = turns[u].conversation
                 /\ turns'[u].state = "requested" <=> turns[u].state = "requested"
      <4>1. u \in Turns /\ turns'[u].context = y /\ turns'[u].state \notin {"idle", "over"}
        BY <3>3 DEF UnderWay
      <4>2. CASE u # t
        <5>1. turns'[u] = turns[u]
          BY <2>2, <4>1, <4>2
        <5> QED
          BY <4>1, <5>1 DEF UnderWay, Goes
      <4>3. CASE u = t
        <5>1. turns'[u].state = "ended" /\ turns[u].state = "running"
          BY <2>1, <2>2, <4>1, <4>3
        <5> QED
          BY <2>2, <4>1, <4>3, <5>1 DEF UnderWay, Goes
      <4> QED
        BY <4>2, <4>3
    <3> QED
      BY <2>3, <3>1, <3>2, <3>3, AgreeStays
  <2> QED
    BY <2>4 DEF LastInv
<1>3. ASSUME NEW t \in Turns, Remember(t) PROVE LastInv'
  <2>1. /\ turns' = [turns EXCEPT ![t].state = "over"]
        /\ turns[t].state = "ended" /\ turns[t].context \in Contexts
        /\ \A e \in Entries(sessionIds') :
             \/ e = Item(turns[t].context, turns[t].conversation)
             \/ e \in Entries(sessionIds) /\ e.key # turns[t].context
    BY <1>3, RememberIs
  <2>2. /\ \A u \in Turns \ {t} : turns'[u] = turns[u]
        /\ turns'[t].state = "over"
        /\ \A u \in Turns : turns'[u].conversation = turns[u].conversation
    BY <1>0, <1>d, <2>1
  <2>3. plans' = plans /\ mixed' = mixed
    BY <1>3 DEF Remember
  <2>4. t \in UnderWay(turns[t].context) /\ Goes(t) = turns[t].conversation
    BY <2>1 DEF UnderWay, Goes
  <2>5. turns[t].conversation \in Turns
    BY <1>0, <2>1 DEF Course
  <2>6. ASSUME NEW y \in Contexts \ mixed' PROVE Agree(y)'
    <3>0. Agree(y)
      BY <2>3, <2>6 DEF LastInv
    <3>3. ASSUME NEW u \in UnderWay(y)'
          PROVE  u # t /\ u \in UnderWay(y) /\ Goes(u)' = Goes(u) /\ turns'[u] = turns[u]
      <4>1. u \in Turns /\ turns'[u].context = y /\ turns'[u].state \notin {"idle", "over"}
        BY <3>3 DEF UnderWay
      <4>2. u # t
        BY <2>2, <4>1
      <4>3. turns'[u] = turns[u]
        BY <2>2, <4>1, <4>2
      <4> QED
        BY <4>1, <4>2, <4>3 DEF UnderWay, Goes
    <3>1. CASE y # turns[t].context
      <4>1. \A s \in Entries(sessionIds') : s.key = y => s \in Entries(sessionIds)
        BY <2>1, <3>1 DEF Item
      <4> QED
        BY <2>2, <2>3, <3>0, <3>3, <4>1, AgreeStays
    <3>2. CASE y = turns[t].context
      <4>1. UnderWay(y)' = {}
        <5>1. \A u \in UnderWay(y) : u = t
          BY <2>4, <3>0, <3>2 DEF Agree
        <5> QED
          BY <3>3, <5>1
      <4>2. \A s \in Entries(sessionIds') : s.key = y => s.value = turns[t].conversation
        BY <2>1, <3>2 DEF Item
      <4>3. ASSUME NEW e \in Entries(plans), e.key = y
            PROVE  turns'[e.value].conversation = turns[t].conversation
        <5>1. e.value \in Turns
          BY <1>e DEF Pairs
        <5>2. turns[e.value].conversation = Goes(t)
          BY <2>4, <2>5, <3>0, <3>2, <4>3, TurnsAssumption DEF Agree
        <5> QED
          BY <2>2, <2>4, <5>1, <5>2
      <4> QED
        BY <1>f, <2>3, <4>1, <4>2, <4>3 DEF Agree
    <3> QED
      BY <3>1, <3>2
  <2> QED
    BY <2>6 DEF LastInv
<1>4. ASSUME NEW t \in Turns, Drive(t) PROVE LastInv'
  <2>x. PICK x : x = turns[t].context
    OBVIOUS
  <2>d. PICK r \in Turns, v \in Turns : Driven(t, r, v)
    BY <1>4, DriveIs
  <2>1. /\ turns' = [turns EXCEPT ![t].state = "running", ![t].tracker = r,
                                  ![t].conversation = v]
        /\ turns[t].state = "requested" /\ turns[t].conversation = NoTurn
        /\ IF turns[t].resume # NoTurn THEN v = turns[t].resume ELSE v = t
        /\ \/ r = t
           \/ r # t /\ turns[t].resume # NoTurn /\ \E e \in Entries(plans) : e = Item(x, r)
        /\ \A e \in Entries(plans') : \/ e = Item(x, r)
                                      \/ e \in Entries(plans) /\ e.key # x
    BY <2>d, <2>x DEF Driven
  <2>2. /\ \A u \in Turns \ {t} : turns'[u] = turns[u]
        /\ turns'[t].conversation = v /\ turns'[t].state = "running"
        /\ turns'[t].tracker = r /\ turns'[t].context = x
    BY <1>0, <1>d, <2>1, <2>x
  <2>3. sessionIds' = sessionIds /\ mixed' = mixed
    BY <1>4 DEF Drive
  <2>4. t \in UnderWay(x) /\ Goes(t) = turns[t].resume
    BY <2>1, <2>x DEF UnderWay, Goes
  <2>5. \A u \in Turns : turns[u].conversation \in Turns =>
          u # t /\ turns'[u].conversation = turns[u].conversation
    BY <2>1, <2>2, TurnsAssumption
  <2>6. ASSUME NEW y \in Contexts \ mixed' PROVE Agree(y)'
    <3>0. Agree(y)
      BY <2>3, <2>6 DEF LastInv
    <3>1. CASE y # x
      <4>1. \A e \in Entries(plans') : e.key = y => e \in Entries(plans)
        BY <2>1, <3>1 DEF Item
      <4>2. ASSUME NEW u \in UnderWay(y)'
            PROVE  u \in UnderWay(y) /\ Goes(u)' = Goes(u) /\ turns'[u] = turns[u]
        <5>1. u \in Turns /\ turns'[u].context = y /\ turns'[u].state \notin {"idle", "over"}
          BY <4>2 DEF UnderWay
        <5>2. u # t
          BY <2>2, <3>1, <5>1
        <5>3. turns'[u] = turns[u]
          BY <2>2, <5>1, <5>2
        <5> QED
          BY <5>1, <5>3 DEF UnderWay, Goes
      <4> QED
        BY <2>3, <2>5, <3>0, <4>1, <4>2, AgreeStays
    <3>2. CASE y = x
      <4>1. ASSUME NEW u \in UnderWay(x)' PROVE u = t
        <5>1. u \in Turns /\ turns'[u].context = x /\ turns'[u].state \notin {"idle", "over"}
          BY <4>1 DEF UnderWay
        <5>2. SUFFICES ASSUME u # t PROVE FALSE
          OBVIOUS
        <5>3. u \in UnderWay(x)
          BY <2>2, <5>1, <5>2 DEF UnderWay
        <5> QED
          BY <2>4, <3>0, <3>2, <5>2, <5>3 DEF Agree
      <4>2. Goes(t)' = v
        BY <2>2 DEF Goes
      <4>3. turns'[r].conversation = v
        <5>1. CASE r = t
          BY <2>2, <5>1
        <5>2. CASE r # t
          <6>1. PICK e \in Entries(plans) : e = Item(x, r)
            BY <2>1, <5>2
          <6>2. e.key = x /\ e.value = r
            BY <6>1 DEF Item
          <6>3. turns[r].conversation = turns[t].resume
            BY <2>1, <2>4, <3>0, <3>2, <5>2, <6>2 DEF Agree
          <6> QED
            BY <2>1, <2>2, <5>2, <6>3
        <5> QED
          BY <5>1, <5>2
      <4>4. \A e \in Entries(plans') : e.key = x => turns'[e.value].conversation = v
        <5>1. \A e \in Entries(plans') : e.key = x => e.value = r
          BY <2>1 DEF Item
        <5> QED
          BY <4>3, <5>1
      <4>5. ASSUME NEW s \in Entries(sessionIds), s.key = x PROVE s.value = v
        <5>1. s.value = turns[t].resume
          BY <2>4, <3>0, <3>2, <4>5 DEF Agree
        <5>2. s.value \in Turns
          BY <1>e DEF Pairs
        <5> QED
          BY <2>1, <5>1, <5>2, TurnsAssumption
      <4>6. \A e \in Entries(plans'), s \in Entries(sessionIds') :
               e.key = x /\ s.key = x => turns'[e.value].conversation = s.value
        BY <2>3, <4>4, <4>5
      <4>7. \A s \in Entries(sessionIds') : s.key = x => s.value = v
        BY <2>3, <4>5
      <4> QED
        BY <1>f, <2>2, <3>2, <4>1, <4>2, <4>3, <4>4, <4>6, <4>7 DEF Agree
    <3> QED
      BY <3>1, <3>2
  <2> QED
    BY <2>6 DEF LastInv
<1>5. ASSUME UNCHANGED <<turns, sessionIds, plans, mixed>> PROVE LastInv'
  BY <1>5 DEF LastInv, Agree, Entries, UnderWay, Goes
<1>6. ASSUME NEW t \in Turns, NEW change, Use(t, change) PROVE LastInv'
  BY <1>5, <1>6 DEF Use, cacheVars
<1>7. ASSUME NEW c, NEW ok, Settle(c, ok) PROVE LastInv'
  BY <1>5, <1>7 DEF Settle, cacheVars
<1>8. CASE UNCHANGED vars
  BY <1>5, <1>8 DEF vars, cacheVars
<1> QED
  BY <1>1, <1>2, <1>3, <1>4, <1>6, <1>7, <1>8 DEF Next

\* To note a call leaves the steps and ids of a tracker alone.
LEMMA NotedIs ==
  ASSUME NEW tracker, IsTracker(tracker), NEW call, NEW change
  PROVE  /\ IsTracker(Noted(tracker, call, change))
         /\ Noted(tracker, call, change).tasks = tracker.tasks
         /\ Noted(tracker, call, change).keys = tracker.keys
         /\ Noted(tracker, call, change).calls
              = Bounded(Assigned(tracker.calls, call, change), MaxPending)
<1> DEFINE new == Bounded(Assigned(tracker.calls, call, change), MaxPending)
<1>1. Noted(tracker, call, change) = [tracker EXCEPT !.calls = new]
  BY DEF Noted
<1>2. tracker = [tasks |-> tracker.tasks, calls |-> tracker.calls,
                 keys |-> tracker.keys]
  BY DEF IsTracker
<1> HIDE DEF new
<1>3. Noted(tracker, call, change) = [tasks |-> tracker.tasks, calls |-> new,
                                      keys |-> tracker.keys]
  BY <1>1, <1>2
<1> QED
  BY <1>3 DEF IsTracker, new

\* What a change may make of a tracker's steps.
Worked(old, tasks, call, change) ==
  \/ /\ change.tool = "create"
     /\ tasks = Bounded(Assigned(old, call, FALSE), MaxSteps)
  \/ /\ change.tool = "update"
     /\ \E key \in Keys(old) : tasks = Popped(old, key) \/ tasks = Assigned(old, key, TRUE)
  \/ /\ change.tool = "todos"
     /\ tasks = SubSeq(change.steps, 1, IF Len(change.steps) < MaxSteps
                                          THEN Len(change.steps) ELSE MaxSteps)

\* What a result makes of a tracker: the call is no longer noted; its steps are left
\* alone, or changed as the call noted asks for.
LEMMA AppliedIs ==
  ASSUME NEW tracker, IsTracker(tracker), NEW call, NEW id, NEW ok \in BOOLEAN,
         NEW new, new = Applied(tracker, call, ok, id)
  PROVE  /\ IsTracker(new)
         /\ new.calls = Popped(tracker.calls, call)
         /\ \/ new.tasks = tracker.tasks
            \/ /\ ok
               /\ \E i \in 1..Len(tracker.calls) :
                    /\ tracker.calls[i].key = call
                    /\ Worked(tracker.tasks, new.tasks, call, tracker.calls[i].value)
<1> DEFINE noted == Get(tracker.calls, call, [tool |-> "none"])
<1>1. PICK rest : rest = [tracker EXCEPT !.calls = Popped(@, call)]
  OBVIOUS
<1>2. tracker = [tasks |-> tracker.tasks, calls |-> tracker.calls,
                 keys |-> tracker.keys]
  BY DEF IsTracker
<1>3. PICK left : left = Popped(tracker.calls, call)
  OBVIOUS
<1>4. rest = [tasks |-> tracker.tasks, calls |-> left, keys |-> tracker.keys]
  BY <1>1, <1>2, <1>3
<1>5. IsTracker(rest) /\ rest.calls = left /\ rest.tasks = tracker.tasks
  BY <1>4 DEF IsTracker
<1>6. new = CASE ~ok -> rest
              [] ok /\ noted.tool = "create" -> Added(rest, call, id)
              [] ok /\ noted.tool = "update" -> Changed(rest, noted.id, noted.to)
              [] ok /\ noted.tool = "todos" -> Rewritten(rest, noted.steps)
              [] OTHER -> rest
  BY <1>1 DEF Applied
<1>7. CASE new = rest
  BY <1>3, <1>5, <1>7
<1>8. ASSUME ok, noted.tool \in {"create", "update", "todos"}
      PROVE  \E i \in 1..Len(tracker.calls) : /\ tracker.calls[i].key = call
                                              /\ tracker.calls[i].value = noted
  <2>1. noted # [tool |-> "none"]
    <3> HIDE DEF noted
    <3> QED
      BY <1>8
  <2> QED
    BY <2>1, GetIs
<1> HIDE DEF noted
<1>9. CASE ok /\ noted.tool = "create" /\ new = Added(rest, call, id)
  <2>1. PICK tasks, keys : /\ tasks = Bounded(Assigned(rest.tasks, call, FALSE), MaxSteps)
                           /\ keys = Bounded(Assigned(rest.keys, id, call), MaxSteps)
    OBVIOUS
  <2>2. new = [rest EXCEPT !.tasks = tasks, !.keys = keys]
    BY <1>9, <2>1 DEF Added
  <2>3. new = [tasks |-> tasks, calls |-> left, keys |-> keys]
    BY <1>4, <2>2
  <2>4. IsTracker(new) /\ new.calls = left /\ new.tasks = tasks
    BY <2>3 DEF IsTracker
  <2>5. tasks = Bounded(Assigned(tracker.tasks, call, FALSE), MaxSteps)
    BY <1>5, <2>1
  <2> QED
    BY <1>3, <1>8, <1>9, <2>4, <2>5 DEF Worked
<1>10. CASE ok /\ noted.tool = "update" /\ new = Changed(rest, noted.id, noted.to)
  <2>1. PICK key : key = Get(rest.keys, noted.id, NoKey)
    OBVIOUS
  <2>2. new = CASE key \notin Keys(rest.tasks) -> rest
                [] key \in Keys(rest.tasks) /\ noted.to = "deleted" ->
                     [rest EXCEPT
                        !.tasks = Popped(@, key),
                        !.keys  = OtherNames(@, key)]
                [] OTHER -> [rest EXCEPT !.tasks = Assigned(@, key, TRUE)]
    BY <1>10, <2>1 DEF Changed
  <2>3. CASE key \notin Keys(rest.tasks)
    BY <1>7, <2>2, <2>3
  <2>4. CASE key \in Keys(rest.tasks)
    <3>1. PICK tasks, keys :
            /\ new = [rest EXCEPT !.tasks = tasks, !.keys = keys]
            /\ tasks = Popped(rest.tasks, key) \/ tasks = Assigned(rest.tasks, key, TRUE)
      <4>1. CASE noted.to = "deleted"
        <5>1. PICK keys : keys = OtherNames(rest.keys, key)
          OBVIOUS
        <5>2. new = [rest EXCEPT !.tasks = Popped(rest.tasks, key), !.keys = keys]
          BY <2>2, <2>4, <4>1, <5>1
        <5> QED
          BY <5>2
      <4>2. CASE noted.to # "deleted"
        <5>1. PICK tasks : tasks = Assigned(rest.tasks, key, TRUE)
          OBVIOUS
        <5>2. new = [rest EXCEPT !.tasks = tasks]
          BY <2>2, <2>4, <4>2, <5>1
        <5>3. new = [rest EXCEPT !.tasks = tasks, !.keys = rest.keys]
          BY <1>4, <5>2
        <5> QED
          BY <5>1, <5>3
      <4> QED
        BY <4>1, <4>2
    <3>2. new = [tasks |-> tasks, calls |-> left, keys |-> keys]
      BY <1>4, <3>1
    <3>3. IsTracker(new) /\ new.calls = left /\ new.tasks = tasks
      BY <3>2 DEF IsTracker
    <3>4. \E k \in Keys(tracker.tasks) : \/ tasks = Popped(tracker.tasks, k)
                                         \/ tasks = Assigned(tracker.tasks, k, TRUE)
      BY <1>5, <2>4, <3>1
    <3> QED
      BY <1>3, <1>8, <1>10, <3>3, <3>4 DEF Worked
  <2> QED
    BY <2>3, <2>4
<1>11. CASE ok /\ noted.tool = "todos" /\ new = Rewritten(rest, noted.steps)
  <2>1. PICK steps : steps = noted.steps
    OBVIOUS
  <2>2. PICK n : n = IF Len(steps) < MaxSteps THEN Len(steps) ELSE MaxSteps
    OBVIOUS
  <2>3. PICK kept : kept = SubSeq(steps, 1, n)
    OBVIOUS
  <2>4. new = IF kept = <<>> THEN rest ELSE [rest EXCEPT !.tasks = kept, !.keys = <<>>]
    BY <1>11, <2>1, <2>2, <2>3 DEF Rewritten
  <2>5. CASE kept # <<>>
    <3>1. new = [tasks |-> kept, calls |-> left, keys |-> <<>>]
      BY <1>4, <2>4, <2>5
    <3>2. IsTracker(new) /\ new.calls = left /\ new.tasks = kept
      BY <3>1 DEF IsTracker
    <3> QED
      BY <1>3, <1>8, <1>11, <2>1, <2>2, <2>3, <3>2 DEF Worked
  <2> QED
    BY <1>7, <2>4, <2>5
<1> QED
  BY <1>6, <1>7, <1>9, <1>10, <1>11

\* A list of n elements of a set.
LEMMA ListedIn ==
  ASSUME NEW n \in Nat, NEW T, NEW s \in [1..n -> T]
  PROVE  s \in Seq(T) /\ Len(s) = n
BY SMT

\* A tracker's steps are of a set of keys as long as the call whose result comes is
\* one of them, if it makes a step, and the list it writes is of them.
LEMMA AppliedIn ==
  ASSUME NEW tracker, IsTracker(tracker), NEW K, tracker.tasks \in Steps(K),
         NEW call, NEW id, NEW ok \in BOOLEAN, NEW change,
         \A i \in 1..Len(tracker.calls) :
           tracker.calls[i].key = call => tracker.calls[i].value = change,
         ok /\ change.tool = "create" => call \in K,
         ok /\ change.tool = "todos" => change.steps \in Steps(K),
         NEW new, new = Applied(tracker, call, ok, id)
  PROVE  new.tasks \in Steps(K)
<1>1. MaxSteps \in Nat \ {0}
  BY TrackerAssumption
<1>2. PICK old : old = tracker.tasks
  OBVIOUS
<1>3. old \in Seq([key : K, value : BOOLEAN])
  BY <1>2 DEF Steps
<1>4. new.tasks = old \/ (ok /\ Worked(old, new.tasks, call, change))
  BY <1>2, AppliedIs
<1>5. CASE new.tasks = old
  BY <1>3, <1>5 DEF Steps
<1>6. CASE /\ ok /\ change.tool = "create"
           /\ new.tasks = Bounded(Assigned(old, call, FALSE), MaxSteps)
  <2>1. call \in K
    BY <1>6
  <2>2. Assigned(old, call, FALSE) \in Seq([key : K, value : BOOLEAN])
    BY <1>3, <2>1, AssignedIn
  <2>3. new.tasks \in Seq([key : K, value : BOOLEAN])
    BY <1>1, <1>6, <2>2, BoundedIn
  <2> QED
    BY <2>3 DEF Steps
<1>7. ASSUME NEW key \in Keys(old), \/ new.tasks = Popped(old, key)
                                    \/ new.tasks = Assigned(old, key, TRUE)
      PROVE  new.tasks \in Steps(K)
  <2>1. PICK i \in 1..Len(old) : old[i].key = key
    BY DEF Keys
  <2>2. old[i] \in [key : K, value : BOOLEAN]
    BY <1>3, ElementOfSeq
  <2>3. key \in K
    BY <2>1, <2>2
  <2>4. Popped(old, key) \in Seq([key : K, value : BOOLEAN])
    BY <1>3, PoppedIn
  <2>5. Assigned(old, key, TRUE) \in Seq([key : K, value : BOOLEAN])
    BY <1>3, <2>3, AssignedIn
  <2> QED
    BY <1>7, <2>4, <2>5 DEF Steps
<1>8. CASE /\ ok /\ change.tool = "todos"
           /\ new.tasks = SubSeq(change.steps, 1,
                                 IF Len(change.steps) < MaxSteps
                                   THEN Len(change.steps) ELSE MaxSteps)
  <2>1. PICK steps : steps = change.steps
    OBVIOUS
  <2>2. steps \in Seq([key : K, value : BOOLEAN])
    BY <1>8, <2>1 DEF Steps
  <2>3. PICK n : n = IF Len(steps) < MaxSteps THEN Len(steps) ELSE MaxSteps
    OBVIOUS
  <2>4. Len(steps) \in Nat
    BY <2>2, LenProperties
  <2>5. n \in Nat /\ n <= Len(steps)
    BY <1>1, <2>3, <2>4
  <2>6. \A i \in 1..n : steps[i] \in [key : K, value : BOOLEAN]
    <3>1. \A i \in 1..n : i \in 1..Len(steps)
      BY <2>4, <2>5
    <3>2. \A i \in 1..Len(steps) : steps[i] \in [key : K, value : BOOLEAN]
      BY <2>2, ElementOfSeq
    <3> QED
      BY <3>1, <3>2
  <2>7. SubSeq(steps, 1, n) \in Seq([key : K, value : BOOLEAN])
    BY <2>5, <2>6, SubSeqProperties
  <2> QED
    BY <1>8, <2>1, <2>3, <2>7 DEF Steps
<1> QED
  BY <1>4, <1>5, <1>6, <1>7, <1>8 DEF Worked

\* What a call is to ask for, by its tool.
LEMMA AskedTools ==
  ASSUME NEW change, NEW keys, Asked(change, keys)
  PROVE  /\ change.tool \in {"create", "update", "todos"}
         /\ change.tool = "update" => change.to \in {"done", "deleted"}
         /\ change.tool = "todos" => change.steps \in Steps(keys)
<1>1. CASE change = Create
  BY <1>1 DEF Create
<1>2. CASE \E id : change = Update(id, "done") \/ change = Update(id, "deleted")
  BY <1>2 DEF Update
<1>3. ASSUME NEW steps \in Steps(keys), change = Todos(steps)
      PROVE  change.tool = "todos" /\ change.steps \in Steps(keys)
  BY <1>3 DEF Todos
<1> QED
  BY <1>1, <1>2, <1>3 DEF Asked

\* What an agent may call for has steps of its list, and the one the call makes.
LEMMA ChangesAsk ==
  ASSUME NEW K, NEW I, NEW list \in Seq([key : K, id : I, done : BOOLEAN]),
         NEW change \in Changes(list)
  PROVE  Asked(change, K \cup {calls + 1})
<1> DEFINE E == [key : K \cup {calls + 1}, value : BOOLEAN]
<1>1. Len(list) \in Nat /\ \A i \in 1..Len(list) : list[i] \in [key : K, id : I,
                                                                done : BOOLEAN]
  BY LenProperties, ElementOfSeq
<1>2. CASE change = Create
  BY <1>2 DEF Asked
<1>3. CASE \E id : change = Update(id, "done") \/ change = Update(id, "deleted")
  BY <1>3 DEF Asked
<1>4. CASE change = Todos(Append(Written(list), Item(calls + 1, FALSE)))
  <2>1. \A i \in 1..Len(list) : Item(list[i].key, list[i].done) \in E
    BY <1>1 DEF Item
  <2>2. Item(calls + 1, FALSE) \in E
    BY DEF Item
  <2> HIDE DEF E
  <2>3. Written(list) \in Seq(E)
    <3>1. PICK new : new = [i \in 1..Len(list) |-> Item(list[i].key, list[i].done)]
      OBVIOUS
    <3>2. new \in [1..Len(list) -> E]
      BY <2>1, <3>1
    <3>3. new \in Seq(E)
      BY <1>1, <3>2, ListedIn
    <3> QED
      BY <3>1, <3>3 DEF Written
  <2>4. Append(Written(list), Item(calls + 1, FALSE)) \in Seq(E)
    BY <2>2, <2>3, AppendProperties
  <2> QED
    BY <1>4, <2>4 DEF Asked, Steps, E
<1>5. CASE change = Todos(Finished(list))
  <2>1. \A i \in 1..Len(list) : Item(list[i].key, TRUE) \in E
    BY <1>1 DEF Item
  <2> HIDE DEF E
  <2>2. Finished(list) \in Seq(E)
    <3>1. PICK new : new = [i \in 1..Len(list) |-> Item(list[i].key, TRUE)]
      OBVIOUS
    <3>2. new \in [1..Len(list) -> E]
      BY <2>1, <3>1
    <3>3. new \in Seq(E)
      BY <1>1, <3>2, ListedIn
    <3> QED
      BY <3>1, <3>3 DEF Finished
  <2> QED
    BY <1>5, <2>2 DEF Asked, Steps, E
<1>6. CASE change = Todos(<<>>)
  <2>1. <<>> \in Seq(E)
    BY EmptySeq
  <2> QED
    BY <1>6, <2>1 DEF Asked, Steps
<1> QED
  BY <1>2, <1>3, <1>4, <1>5, <1>6 DEF Changes

\* A list that a call has changed: of some keys, with the step of the call if it
\* creates one, and the list that is written if one is.
Became(list, keys, call, change) ==
  /\ \E J : list \in Seq([key : keys, id : J, done : BOOLEAN])
  /\ change.tool = "create" => \E i \in 1..Len(list) : list[i].key = call
  /\ change.tool = "todos" =>
       /\ Len(list) = Len(change.steps)
       /\ \A i \in 1..Len(list) : list[i].key = change.steps[i].key

\* What a change makes of an agent's list has no steps but those it had and the
\* call's.
LEMMA AfterIs ==
  ASSUME NEW K, NEW I, NEW list \in Seq([key : K, id : I, done : BOOLEAN]),
         NEW call, NEW change, Asked(change, K \cup {call}),
         NEW new, new = After(list, change, call)
  PROVE  Became(new, K \cup {call}, call, change)
<1> DEFINE E(J) == [key : K \cup {call}, id : J, done : BOOLEAN]
<1>1. Len(list) \in Nat /\ \A i \in 1..Len(list) : list[i] \in [key : K, id : I,
                                                                done : BOOLEAN]
  BY LenProperties, ElementOfSeq
<1>2. list \in Seq(E(I))
  <2>1. [key : K, id : I, done : BOOLEAN] \subseteq E(I)
    OBVIOUS
  <2> QED
    BY <2>1, SeqMonotonic
<1>3. CASE change.tool = "create"
  <2>1. PICK id : id = FreeId(list)
    OBVIOUS
  <2>2. PICK J : J = I \cup {id}
    OBVIOUS
  <2>3. Step(call, id, FALSE) \in E(J)
    BY <2>2 DEF Step
  <2>4. E(I) \subseteq E(J)
    BY <2>2
  <2> HIDE DEF E
  <2>5. list \in Seq(E(J))
    BY <1>2, <2>4, SeqMonotonic
  <2>6. new = Append(list, Step(call, id, FALSE))
    BY <1>3, <2>1 DEF After
  <2>7. /\ new \in Seq(E(J)) /\ Len(new) = Len(list) + 1
        /\ new[Len(list) + 1] = Step(call, id, FALSE)
    <3>1. PICK T : T = E(J)
      OBVIOUS
    <3>2. list \in Seq(T) /\ Step(call, id, FALSE) \in T
      BY <2>3, <2>5, <3>1
    <3>3. PICK step : step = Step(call, id, FALSE)
      OBVIOUS
    <3>4. step \in T
      BY <3>2, <3>3
    <3>5. new = Append(list, step)
      BY <2>6, <3>3
    <3>6. /\ new \in Seq(T) /\ Len(new) = Len(list) + 1
          /\ new[Len(list) + 1] = step
      BY <3>2, <3>4, <3>5, AppendProperties
    <3> QED
      BY <3>1, <3>3, <3>6
  <2>8. Len(list) + 1 \in 1..Len(new) /\ new[Len(list) + 1].key = call
    BY <1>1, <2>7 DEF Step
  <2> QED
    BY <1>3, <2>7, <2>8 DEF E, Became
<1>4. CASE change.tool = "update" /\ change.to = "deleted"
  <2>1. PICK key : new = Popped(list, key)
    BY <1>4 DEF After
  <2> HIDE DEF E
  <2>2. new \in Seq(E(I))
    BY <1>2, <2>1, PoppedIn
  <2> QED
    BY <1>4, <2>2 DEF E, Became
<1>5. CASE change.tool = "update" /\ change.to = "done"
  <2>1. new = [i \in 1..Len(list) |-> IF list[i].id = change.id
                                        THEN [list[i] EXCEPT !.done = TRUE]
                                        ELSE list[i]]
    BY <1>5 DEF After
  <2>2. \A i \in 1..Len(list) : /\ [list[i] EXCEPT !.done = TRUE] \in E(I)
                                /\ list[i] \in E(I)
    BY <1>1
  <2>3. new \in Seq(E(I))
    <3>1. PICK T : T = E(I)
      OBVIOUS
    <3>2. new \in [1..Len(list) -> T]
      BY <2>1, <2>2, <3>1
    <3>3. new \in Seq(T)
      BY <1>1, <3>2, ListedIn
    <3> QED
      BY <3>1, <3>3
  <2> QED
    BY <1>5, <2>3 DEF E, Became
<1>6. CASE change.tool = "todos"
  <2>1. PICK steps : steps = change.steps
    OBVIOUS
  <2>2. steps \in Seq([key : K \cup {call}, value : BOOLEAN])
    BY <1>6, <2>1, AskedTools DEF Steps
  <2>3. /\ Len(steps) \in Nat
        /\ \A i \in 1..Len(steps) : steps[i] \in [key : K \cup {call}, value : BOOLEAN]
    BY <2>2, LenProperties, ElementOfSeq
  <2>4. new = [i \in 1..Len(steps) |-> Step(steps[i].key, NoId, steps[i].value)]
    BY <1>6, <2>1 DEF After
  <2>5. \A i \in 1..Len(steps) :
           Step(steps[i].key, NoId, steps[i].value) \in E({NoId})
    BY <2>3 DEF Step
  <2>6. new \in Seq(E({NoId})) /\ Len(new) = Len(steps)
    <3>1. PICK T : T = E({NoId})
      OBVIOUS
    <3>2. new \in [1..Len(steps) -> T]
      BY <2>4, <2>5, <3>1
    <3>3. new \in Seq(T) /\ Len(new) = Len(steps)
      BY <2>3, <3>2, ListedIn
    <3> QED
      BY <3>1, <3>3
  <2>7. \A i \in 1..Len(new) : new[i].key = steps[i].key
    <3>1. \A i \in 1..Len(steps) : new[i] = Step(steps[i].key, NoId, steps[i].value)
      BY <2>4
    <3>2. ASSUME NEW i \in 1..Len(steps) PROVE new[i].key = steps[i].key
      <4>1. PICK key, done : key = steps[i].key /\ done = steps[i].value
        OBVIOUS
      <4>2. new[i] = [key |-> key, id |-> NoId, done |-> done]
        BY <3>1, <4>1 DEF Step
      <4> QED
        BY <4>1, <4>2
    <3>3. 1..Len(new) = 1..Len(steps)
      BY <2>6
    <3> QED
      BY <3>2, <3>3
  <2> HIDE DEF E
  <2> QED
    BY <1>6, <2>1, <2>6, <2>7 DEF E, Became
<1> QED
  BY <1>3, <1>4, <1>5, <1>6, AskedTools

\* What is a step list of some keys, or asked for of some, is so of more.
LEMMA StepsGrow ==
  ASSUME NEW K, NEW L, K \subseteq L
  PROVE  /\ Steps(K) \subseteq Steps(L)
         /\ \A change : Asked(change, K) => Asked(change, L)
<1>1. [key : K, value : BOOLEAN] \subseteq [key : L, value : BOOLEAN]
  OBVIOUS
<1>2. Steps(K) \subseteq Steps(L)
  BY <1>1, SeqMonotonic DEF Steps
<1> QED
  BY <1>2 DEF Asked

\* A step that changes no tracker, and neither the conversation nor the context of a
\* turn that has one.
LEMMA WorkStays ==
  ASSUME WorkInv, UNCHANGED <<trackers, lists, calls, made>>,
         inFlight' \subseteq inFlight, mixed \subseteq mixed',
         \A r \in Turns :
           \/ turns[r].conversation = NoTurn
           \/ /\ turns'[r].context = turns[r].context
              /\ turns'[r].conversation = turns[r].conversation,
         \A r \in Turns : turns'[r].conversation = NoTurn => turns[r].conversation = NoTurn,
         \A c \in inFlight' : /\ turns'[c.turn].state = "running"
                              /\ turns'[c.turn].conversation = turns[c.turn].conversation
  PROVE  WorkInv'
<1>0. \A v : Own(v)' = Own(v)
  BY DEF Own
<1>1. \A v \in Turns : ListInv(v)'
  <2> SUFFICES ASSUME NEW v \in Turns PROVE ListInv(v)'
    OBVIOUS
  <2>1. ListInv(v)
    BY DEF WorkInv
  <2> QED
    BY <1>0, <2>1 DEF ListInv
<1>2. ASSUME NEW c \in inFlight' PROVE CallInv(c)'
  <2>1. CallInv(c)
    BY DEF WorkInv
  <2>2. PICK v : v = turns[c.turn].conversation
    OBVIOUS
  <2>3. Asked(c.change, Own(v) \cup {c.call})
    BY <2>1, <2>2 DEF CallInv
  <2>4. turns'[c.turn].conversation = v
    BY <2>2
  <2>5. Asked(c.change, Own(turns[c.turn].conversation) \cup {c.call})'
    BY <1>0, <2>3, <2>4 DEF Asked, Own
  <2> QED
    BY <2>1, <2>5 DEF CallInv
<1>3. ASSUME NEW r \in Turns PROVE TrackerInv(r)'
  <2>1. TrackerInv(r)
    BY DEF WorkInv
  <2>2. IsTracker(trackers[r])' /\ (\E S : trackers[r].calls \in Seq(S))'
    BY <2>1 DEF TrackerInv, IsTracker
  <2>3. \A noted \in Entries(trackers[r].calls)' : Told(noted)'
    BY <2>1 DEF TrackerInv, Told, Entries
  <2>4. PICK v : v = turns'[r].conversation
    OBVIOUS
  <2>5. turns'[r].context \notin mixed' => trackers'[r].tasks \in Steps(Own(v))
    <3>1. CASE turns[r].conversation = NoTurn
      <4>1. trackers'[r].tasks = <<>>
        BY <2>1, <3>1 DEF TrackerInv
      <4> QED
        BY <4>1, EmptySeq DEF Steps
    <3>2. CASE turns[r].conversation # NoTurn
      BY <2>1, <2>4, <3>2 DEF TrackerInv
    <3> QED
      BY <3>1, <3>2
  <2>6. (turns[r].context \notin mixed =>
           trackers[r].tasks \in Steps(Own(turns[r].conversation)))'
    BY <2>4, <2>5 DEF Steps, Own
  <2>7. (turns[r].conversation = NoTurn => trackers[r].tasks = <<>>)'
    BY <2>1 DEF TrackerInv
  <2> QED
    BY <2>2, <2>3, <2>6, <2>7 DEF TrackerInv
<1>4. calls' \in Nat /\ (\E S : made \in Seq(S))'
  BY DEF WorkInv
<1>5. (lists = [v \in Turns |-> lists[v]])' /\ (trackers = [r \in Turns |-> trackers[r]])'
  BY DEF WorkInv
<1> QED
  BY <1>1, <1>2, <1>3, <1>4, <1>5 DEF WorkInv

\* A call: it is noted by the tracker as what it asks for.
LEMMA UseWorks ==
  ASSUME IInv, CourseInv, WorkInv, NEW t \in Turns, turns[t].state = "running",
         NEW change \in Changes(lists[turns[t].conversation]), Use(t, change)
  PROVE  WorkInv'
<1>1. Course(t) /\ calls \in Nat
  BY DEF CourseInv, WorkInv
<1>2. PICK v \in Turns, r \in Turns : v = turns[t].conversation /\ r = turns[t].tracker
  BY <1>1 DEF Course
<1>3. PICK call : call = calls + 1
  OBVIOUS
<1>4. PICK c : c = [call |-> call, turn |-> t, change |-> change]
  OBVIOUS
<1>5. /\ calls' = call /\ inFlight' = inFlight \cup {c}
      /\ trackers' = [trackers EXCEPT ![r] = Noted(trackers[r], call, change)]
      /\ UNCHANGED <<turns, lists, made, mixed>>
  BY <1>2, <1>3, <1>4 DEF Use
<1>6. c.call = call /\ c.turn = t /\ c.change = change
  BY <1>4
<1>7. ASSUME NEW d \in inFlight PROVE CallInv(d) /\ d.call # call
  <2>1. CallInv(d)
    BY DEF WorkInv
  <2>2. d.call \in 1..calls
    BY <2>1 DEF CallInv
  <2> QED
    BY <1>1, <1>3, <2>1, <2>2
<1>0. \A u : Own(u)' = Own(u)
  BY <1>5 DEF Own
<1>8. ASSUME NEW noted, Told(noted) PROVE Told(noted)'
  BY <1>1, <1>3, <1>5, <1>6, <1>8 DEF Told
<1>9. Told(Item(call, change))'
  BY <1>1, <1>3, <1>5, <1>6, <1>7 DEF Told, Item
<1>10. \A u \in Turns : ListInv(u)'
  <2> SUFFICES ASSUME NEW u \in Turns PROVE ListInv(u)'
    OBVIOUS
  <2>1. ListInv(u)
    BY DEF WorkInv
  <2> QED
    BY <1>0, <1>5, <2>1 DEF ListInv
<1>11. ASSUME NEW d \in inFlight' PROVE CallInv(d)'
  <2>1. PICK u : u = turns[d.turn].conversation
    OBVIOUS
  <2>2. Asked(d.change, Own(u) \cup {d.call}) /\ d.turn \in Turns
        /\ turns[d.turn].state = "running" /\ d.call \in 1..call
    <3>1. CASE d \in inFlight
      BY <1>1, <1>3, <1>7, <2>1, <3>1 DEF CallInv
    <3>2. CASE d = c
      <4>1. ListInv(v)
        BY DEF WorkInv
      <4>2. PICK I : lists[v] \in Seq([key : Own(v), id : I, done : BOOLEAN])
        BY <4>1 DEF ListInv
      <4>3. change \in Changes(lists[v])
        BY <1>2
      <4>4. Asked(change, Own(v) \cup {call})
        BY <1>3, <4>2, <4>3, ChangesAsk
      <4>5. d.change = change /\ d.call = call /\ d.turn = t /\ u = v
        BY <1>2, <1>6, <2>1, <3>2
      <4>6. call \in 1..call
        BY <1>1, <1>3
      <4> QED
        BY <4>4, <4>5, <4>6
    <3> QED
      BY <1>5, <3>1, <3>2
  <2>3. Asked(d.change, Own(turns[d.turn].conversation) \cup {d.call})'
    BY <1>0, <1>5, <2>1, <2>2 DEF Asked, Own
  <2> QED
    BY <1>5, <2>2, <2>3 DEF CallInv
<1>12. ASSUME NEW u \in Turns PROVE TrackerInv(u)'
  <2>1. TrackerInv(u) /\ DOMAIN trackers = Turns
    BY DEF WorkInv
  <2>2. PICK tracker : tracker = trackers'[u]
    OBVIOUS
  <2>3. /\ IsTracker(tracker) /\ tracker.tasks = trackers[u].tasks
        /\ \E S : tracker.calls \in Seq(S)
        /\ \A noted \in Entries(tracker.calls) : Told(noted)'
    <3>1. CASE u # r
      <4>1. tracker = trackers[u]
        BY <1>5, <2>1, <2>2, <3>1
      <4>2. \A noted \in Entries(tracker.calls) : Told(noted)'
        BY <1>8, <2>1, <4>1 DEF TrackerInv
      <4> QED
        BY <2>1, <4>1, <4>2 DEF TrackerInv
    <3>2. CASE u = r
      <4>1. tracker = Noted(trackers[u], call, change)
        BY <1>5, <2>1, <2>2, <3>2
      <4>2. PICK old, S : old = trackers[u].calls /\ old \in Seq(S)
        BY <2>1 DEF TrackerInv
      <4>3. /\ IsTracker(tracker) /\ tracker.tasks = trackers[u].tasks
            /\ tracker.calls = Bounded(Assigned(old, call, change), MaxPending)
        BY <2>1, <4>1, <4>2, NotedIs DEF TrackerInv
      <4>4. ASSUME NEW i \in 1..Len(old) PROVE Told(old[i]) /\ old[i] \in Entries(old)
        BY <2>1, <4>2 DEF TrackerInv, Entries
      <4>5. call \notin Keys(old)
        BY <1>1, <1>3, <4>4 DEF Keys, Told
      <4>6. Assigned(old, call, change) = Append(old, Item(call, change))
        BY <4>5 DEF Assigned
      <4>7. PICK T : T = Entries(old) \cup {Item(call, change)}
        OBVIOUS
      <4>8. old \in Seq(T)
        BY <4>2, <4>4, <4>7, Retyped
      <4>9. Append(old, Item(call, change)) \in Seq(T)
        BY <4>7, <4>8, AppendProperties
      <4>10. tracker.calls \in Seq(T)
        BY <4>3, <4>6, <4>9, TrackerAssumption, BoundedIn
      <4>11. ASSUME NEW noted \in Entries(tracker.calls) PROVE Told(noted)'
        <5>1. noted \in T
          BY <4>10, ElementOfSeq DEF Entries
        <5>2. CASE noted = Item(call, change)
          BY <1>9, <5>2
        <5>3. CASE noted \in Entries(old)
          BY <1>8, <4>4, <5>3 DEF Entries
        <5> QED
          BY <4>7, <5>1, <5>2, <5>3
      <4> QED
        BY <4>3, <4>10, <4>11
    <3> QED
      BY <3>1, <3>2
  <2>4. IsTracker(trackers[u])' /\ (\E S : trackers[u].calls \in Seq(S))'
    BY <2>2, <2>3 DEF IsTracker
  <2>5. \A noted \in Entries(trackers[u].calls)' : Told(noted)'
    BY <2>2, <2>3 DEF Entries
  <2>6. (turns[u].context \notin mixed =>
           trackers[u].tasks \in Steps(Own(turns[u].conversation)))'
    BY <1>5, <2>1, <2>2, <2>3 DEF TrackerInv, Steps, Own
  <2>7. (turns[u].conversation = NoTurn => trackers[u].tasks = <<>>)'
    BY <1>5, <2>1, <2>2, <2>3 DEF TrackerInv
  <2> QED
    BY <2>4, <2>5, <2>6, <2>7 DEF TrackerInv
<1>13. calls' \in Nat /\ (\E S : made \in Seq(S))'
  BY <1>1, <1>3, <1>5 DEF WorkInv
<1>14. (lists = [u \in Turns |-> lists[u]])' /\ (trackers = [u \in Turns |-> trackers[u]])'
  BY <1>5 DEF WorkInv
<1> QED
  BY <1>10, <1>11, <1>12, <1>13, <1>14 DEF WorkInv

\* A result: the conversation has a step more in its list only if the call made it,
\* and the tracker takes over no other.
LEMMA SettleWorks ==
  ASSUME IInv, CourseInv, LastInv, WorkInv, NEW c \in inFlight, NEW ok \in BOOLEAN,
         Settle(c, ok)
  PROVE  WorkInv'
<1> DEFINE E(keys, J) == [key : keys, id : J, done : BOOLEAN]
<1>1. PICK t, call, change : t = c.turn /\ call = c.call /\ change = c.change
  OBVIOUS
<1>2. CallInv(c)
  BY DEF WorkInv
<1>3. t \in Turns /\ turns[t].state = "running" /\ call \in 1..calls /\ calls \in Nat
  BY <1>1, <1>2 DEF CallInv, WorkInv
<1>4. Course(t)
  BY <1>3 DEF CourseInv
<1>5. PICK v \in Turns, r \in Turns : v = turns[t].conversation /\ r = turns[t].tracker
  BY <1>3, <1>4 DEF Course
<1>6. turns[r].context = turns[t].context /\ turns[r].conversation \in Turns
  BY <1>3, <1>4, <1>5 DEF Course
<1>7. PICK list, id, new : /\ list = lists[v] /\ id = FreeId(list)
                           /\ new = After(list, change, call)
  OBVIOUS
<1>8. /\ inFlight' = inFlight \ {c}
      /\ lists' = IF ok THEN [lists EXCEPT ![v] = new] ELSE lists
      /\ trackers' = [trackers EXCEPT ![r] = Applied(trackers[r], call, ok, id)]
      /\ made' = IF \E i \in 1..Len(lists'[v]) : lists'[v][i].key = call
                   THEN Append(made, Item(call, v)) ELSE made
      /\ UNCHANGED <<turns, calls, mixed>>
  BY <1>1, <1>5, <1>7 DEF Settle
<1>9. DOMAIN lists = Turns /\ DOMAIN trackers = Turns
  BY DEF WorkInv
<1>10. ok => lists'[v] = new
  BY <1>8, <1>9
\* What was made stays made, and the call's step is made with it if it is there.
<1>11. PICK S : made \in Seq(S)
  BY DEF WorkInv
<1>12. /\ \E T : made' \in Seq(T)
       /\ \A i \in 1..Len(made) : i \in 1..Len(made') /\ made'[i] = made[i]
       /\ \/ \E i \in 1..Len(made') : made'[i] = Item(call, v)
          \/ \A i \in 1..Len(lists'[v]) : lists'[v][i].key # call
  <2>0. Len(made) \in Nat
    BY <1>11, LenProperties
  <2>1. CASE \E i \in 1..Len(lists'[v]) : lists'[v][i].key = call
    <3>1. PICK item, T : item = Item(call, v) /\ T = S \cup {item}
      OBVIOUS
    <3>2. made \in Seq(T) /\ item \in T
      BY <1>11, <3>1, SeqMonotonic
    <3>3. made' = Append(made, item)
      BY <1>8, <2>1, <3>1
    <3>4. /\ made' \in Seq(T) /\ Len(made') = Len(made) + 1
          /\ \A i \in 1..Len(made) : made'[i] = made[i]
          /\ made'[Len(made) + 1] = item
      BY <3>2, <3>3, AppendProperties
    <3>5. Len(made) + 1 \in 1..Len(made') /\ \A i \in 1..Len(made) : i \in 1..Len(made')
      BY <2>0, <3>4
    <3> QED
      BY <3>1, <3>4, <3>5
  <2>2. CASE ~\E i \in 1..Len(lists'[v]) : lists'[v][i].key = call
    <3>1. made' = made
      BY <1>8, <2>2
    <3> QED
      BY <1>11, <2>2, <3>1
  <2> QED
    BY <2>1, <2>2
<1>13. \A u : Own(u) \subseteq Own(u)'
  BY <1>12 DEF Own
<1>14. PICK K, L : K = Own(v) /\ L = Own(v)'
  OBVIOUS
<1>15. K \subseteq L
  BY <1>13, <1>14
<1>16. call \in L \/ \A i \in 1..Len(lists'[v]) : lists'[v][i].key # call
  <2>1. call \in Nat
    BY <1>3
  <2> QED
    BY <1>12, <1>14, <2>1 DEF Own
\* So what the call makes of the list is of the conversation.
<1>17. PICK I : list \in Seq(E(K, I))
  <2>1. ListInv(v)
    BY DEF WorkInv
  <2> QED
    BY <1>7, <1>14, <2>1 DEF ListInv
<1>18. Asked(change, K \cup {call})
  BY <1>1, <1>2, <1>5, <1>14 DEF CallInv
<1>19. /\ \E J : new \in Seq(E(K \cup {call}, J))
       /\ change.tool = "create" => \E i \in 1..Len(new) : new[i].key = call
       /\ change.tool = "todos" =>
            /\ Len(new) = Len(change.steps)
            /\ \A i \in 1..Len(new) : new[i].key = change.steps[i].key
  <2>1. list \in Seq([key : K, id : I, done : BOOLEAN])
    BY <1>17
  <2>2. new = After(list, change, call)
    BY <1>7
  <2> HIDE DEF E
  <2>3. Became(new, K \cup {call}, call, change)
    BY <1>18, <2>1, <2>2, AfterIs
  <2>4. PICK J : new \in Seq([key : K \cup {call}, id : J, done : BOOLEAN])
    BY <2>3 DEF Became
  <2>5. new \in Seq(E(K \cup {call}, J))
    BY <2>4 DEF E
  <2> QED
    BY <2>3, <2>5 DEF Became
<1>20. \E J : lists'[v] \in Seq(E(L, J))
  <2>1. CASE ok
    <3>1. PICK J : new \in Seq(E(K \cup {call}, J))
      BY <1>19
    <3>2. ASSUME NEW i \in 1..Len(new) PROVE new[i] \in E(L, J)
      <4>1. new[i] \in E(K \cup {call}, J)
        BY <3>1, ElementOfSeq
      <4>2. call \in L \/ new[i].key # call
        BY <1>10, <1>16, <2>1
      <4> QED
        BY <1>15, <4>1, <4>2
    <3>3. new \in Seq(E(L, J))
      <4> HIDE DEF E
      <4>1. PICK T : T = E(L, J)
        OBVIOUS
      <4>2. \A i \in 1..Len(new) : new[i] \in T
        BY <3>2, <4>1
      <4>3. new \in Seq(T)
        BY <3>1, <4>2, Retyped
      <4> QED
        BY <4>1, <4>3
    <3> QED
      BY <1>10, <2>1, <3>3
  <2>2. CASE ~ok
    <3>1. E(K, I) \subseteq E(L, I)
      BY <1>15
    <3>2. lists'[v] = list
      BY <1>7, <1>8, <2>2
    <3> HIDE DEF E
    <3> QED
      BY <1>17, <3>1, <3>2, SeqMonotonic
  <2> QED
    BY <2>1, <2>2
<1>21. ok /\ change.tool = "create" => call \in L
  BY <1>10, <1>16, <1>19
<1>22. ok /\ change.tool = "todos" => change.steps \in Steps(L)
  <2> SUFFICES ASSUME ok, change.tool = "todos" PROVE change.steps \in Steps(L)
    OBVIOUS
  <2>1. PICK steps : steps = change.steps
    OBVIOUS
  <2>2. steps \in Seq([key : K \cup {call}, value : BOOLEAN])
    BY <1>18, <2>1, AskedTools DEF Steps
  <2>3. ASSUME NEW i \in 1..Len(steps) PROVE steps[i] \in [key : L, value : BOOLEAN]
    <3>1. steps[i] \in [key : K \cup {call}, value : BOOLEAN]
      BY <2>2, ElementOfSeq
    <3>2. i \in 1..Len(new) /\ new[i].key = steps[i].key
      BY <1>19, <2>1
    <3>3. call \in L \/ steps[i].key # call
      BY <1>10, <1>16, <3>2
    <3> QED
      BY <1>15, <3>1, <3>3
  <2>4. steps \in Seq([key : L, value : BOOLEAN])
    BY <2>2, <2>3, Retyped
  <2> QED
    BY <2>1, <2>4 DEF Steps
\* The parts of the invariant.
<1>23. ASSUME NEW u \in Turns PROVE ListInv(u)'
  <2>1. CASE u = v
    BY <1>14, <1>20, <2>1 DEF ListInv
  <2>2. CASE u # v
    <3>1. PICK J : lists[u] \in Seq(E(Own(u), J))
      BY DEF WorkInv, ListInv
    <3>2. PICK A, B : A = E(Own(u), J) /\ B = E(Own(u)', J)
      OBVIOUS
    <3>3. A \subseteq B
      BY <1>13, <3>2
    <3>4. lists'[u] = lists[u]
      BY <1>8, <1>9, <2>2
    <3>5. lists'[u] \in Seq(B)
      BY <3>1, <3>2, <3>3, <3>4, SeqMonotonic
    <3> QED
      BY <3>2, <3>5 DEF ListInv
  <2> QED
    BY <2>1, <2>2
<1>24. ASSUME NEW d \in inFlight' PROVE CallInv(d)'
  <2>1. CallInv(d)
    BY <1>8 DEF WorkInv
  <2>2. PICK u : u = turns[d.turn].conversation
    OBVIOUS
  <2>3. Asked(d.change, Own(u)' \cup {d.call})
    <3>1. Asked(d.change, Own(u) \cup {d.call})
      BY <2>1, <2>2 DEF CallInv
    <3>2. Own(u) \cup {d.call} \subseteq Own(u)' \cup {d.call}
      BY <1>13
    <3> QED
      BY <3>1, <3>2, StepsGrow
  <2>4. Asked(d.change, Own(turns[d.turn].conversation) \cup {d.call})'
    BY <1>8, <2>2, <2>3 DEF Asked, Own
  <2> QED
    BY <1>8, <2>1, <2>4 DEF CallInv
<1>25. ASSUME NEW noted, Told(noted) PROVE Told(noted)'
  BY <1>8, <1>25 DEF Told
<1>26. ASSUME NEW u \in Turns PROVE TrackerInv(u)'
  <2>1. TrackerInv(u)
    BY DEF WorkInv
  <2>2. PICK tracker, w : tracker = trackers'[u] /\ w = turns[u].conversation
    OBVIOUS
  <2>3. turns[u].context \notin mixed => trackers[u].tasks \in Steps(Own(w)')
    <3>1. Steps(Own(w)) \subseteq Steps(Own(w)')
      BY <1>13, StepsGrow
    <3> QED
      BY <2>1, <2>2, <3>1 DEF TrackerInv
  <2>4. /\ IsTracker(tracker)
        /\ \E T : tracker.calls \in Seq(T)
        /\ \A noted \in Entries(tracker.calls) : Told(noted)
        /\ turns[u].context \notin mixed => tracker.tasks \in Steps(Own(w)')
        /\ w = NoTurn => tracker.tasks = <<>>
    <3>1. CASE u # r
      <4>1. tracker = trackers[u]
        BY <1>8, <1>9, <2>2, <3>1
      <4> QED
        BY <2>1, <2>2, <2>3, <4>1 DEF TrackerInv
    <3>2. CASE u = r
      <4>1. tracker = Applied(trackers[u], call, ok, id)
        BY <1>8, <1>9, <2>2, <3>2
      <4>2. PICK old, T : old = trackers[u].calls /\ old \in Seq(T)
        BY <2>1 DEF TrackerInv
      <4>3. ASSUME NEW i \in 1..Len(old) PROVE Told(old[i]) /\ old[i] \in Entries(old)
        BY <2>1, <4>2 DEF TrackerInv, Entries
      <4>4. IsTracker(tracker) /\ tracker.calls = Popped(old, call)
        BY <2>1, <4>1, <4>2, AppliedIs DEF TrackerInv
      <4>5. old \in Seq(Entries(old))
        BY <4>2, <4>3, Retyped
      <4>6. tracker.calls \in Seq(Entries(old))
        BY <4>4, <4>5, PoppedIn
      <4>7. \A noted \in Entries(tracker.calls) : noted \in Entries(old)
        BY <4>6, ElementOfSeq DEF Entries
      <4>8. \A noted \in Entries(old) : Told(noted)
        BY <4>3 DEF Entries
      <4>9. ASSUME turns[u].context \notin mixed PROVE tracker.tasks \in Steps(Own(w)')
        <5>1. turns[t].context \in Contexts \ mixed /\ t \in UnderWay(turns[t].context)
          BY <1>3, <1>6, <3>2, <4>9 DEF IInv, TurnsInv, UnderWay
        <5>2. Agree(turns[t].context)
          BY <5>1 DEF LastInv
        <5>3. turns[r].conversation = v
          BY <1>3, <1>5, <5>1, <5>2 DEF Agree
        <5>4. w = v /\ trackers[u].tasks \in Steps(L)
          BY <1>14, <2>2, <2>3, <3>2, <4>9, <5>3
        <5>5. \A i \in 1..Len(trackers[u].calls) :
                trackers[u].calls[i].key = call => trackers[u].calls[i].value = change
          BY <1>1, <4>2, <4>3 DEF Told
        <5>6. IsTracker(trackers[u])
          BY <2>1 DEF TrackerInv
        <5>7. tracker.tasks \in Steps(L)
          BY <1>21, <1>22, <4>1, <5>4, <5>5, <5>6, AppliedIn
        <5> QED
          BY <1>14, <5>4, <5>7
      <4>10. w # NoTurn
        BY <1>6, <2>2, <3>2, TurnsAssumption
      <4> QED
        BY <4>4, <4>6, <4>7, <4>8, <4>9, <4>10
    <3> QED
      BY <3>1, <3>2
  <2>5. IsTracker(trackers[u])' /\ (\E T : trackers[u].calls \in Seq(T))'
    BY <2>2, <2>4 DEF IsTracker
  <2>6. \A noted \in Entries(trackers[u].calls)' : Told(noted)'
    BY <1>25, <2>2, <2>4 DEF Entries
  <2>7. (turns[u].context \notin mixed =>
           trackers[u].tasks \in Steps(Own(turns[u].conversation)))'
    BY <1>8, <2>2, <2>4 DEF Steps, Own
  <2>8. (turns[u].conversation = NoTurn => trackers[u].tasks = <<>>)'
    BY <1>8, <2>2, <2>4
  <2> QED
    BY <2>5, <2>6, <2>7, <2>8 DEF TrackerInv
<1>27. calls' \in Nat /\ (\E T : made \in Seq(T))'
  BY <1>3, <1>8, <1>12
<1>28. /\ (lists = [u \in Turns |-> lists[u]])'
       /\ (trackers = [u \in Turns |-> trackers[u]])'
  <2>1. lists = [u \in Turns |-> lists[u]] /\ trackers = [u \in Turns |-> trackers[u]]
    BY DEF WorkInv
  <2>2. lists' = [u \in Turns |-> IF ok /\ u = v THEN new ELSE lists[u]]
    BY <1>8, <2>1
  <2>3. PICK applied : applied = Applied(trackers[r], call, ok, id)
    OBVIOUS
  <2>4. trackers' = [u \in Turns |-> IF u = r THEN applied ELSE trackers[u]]
    BY <1>8, <2>1, <2>3
  <2> QED
    BY <2>2, <2>4
<1> QED
  BY <1>23, <1>24, <1>26, <1>27, <1>28 DEF WorkInv

\* The invariant of the work holds on.
LEMMA WorkStep ==
  ASSUME IInv, CourseInv, LastInv, WorkInv, [Next]_vars
  PROVE  WorkInv'
<1>0. \A t \in Turns : Course(t) /\ DOMAIN turns[t] = {"state", "context", "resume",
                                                      "conversation", "tracker"}
  BY DEF CourseInv, IInv, TurnsInv
<1>d. DOMAIN turns = Turns
  BY DEF IInv, TurnsInv
<1>c. \A c \in inFlight : c.turn \in Turns /\ turns[c.turn].state = "running"
  BY DEF WorkInv, CallInv
<1>1. ASSUME NEW t \in Turns, NEW x \in Contexts, Request(t, x) PROVE WorkInv'
  <2>1. PICK v \in Turns \cup {NoTurn} :
           /\ turns' = [turns EXCEPT ![t].state = "requested", ![t].context = x,
                                     ![t].resume = v]
           /\ turns[t].state = "idle" /\ turns[t].conversation = NoTurn
           /\ mixed \subseteq mixed'
    BY <1>1, RequestIs
  <2>2. /\ \A u \in Turns \ {t} : turns'[u] = turns[u]
        /\ turns'[t].conversation = turns[t].conversation
    BY <1>0, <1>d, <2>1
  <2>3. UNCHANGED <<trackers, lists, calls, made>> /\ inFlight' = inFlight
    BY <1>1 DEF Request, listVars
  <2>4. \A c \in inFlight : turns'[c.turn] = turns[c.turn]
    BY <1>c, <2>1, <2>2
  <2> QED
    BY <1>c, <2>1, <2>2, <2>3, <2>4, WorkStays
<1>2. ASSUME NEW t \in Turns, End(t) \/ Stop(t) \/ Remember(t) PROVE WorkInv'
  <2>1. /\ \E state : turns' = [turns EXCEPT ![t].state = state]
        /\ inFlight' \subseteq inFlight
        /\ \A c \in inFlight' : c.turn # t
        /\ mixed' = mixed /\ UNCHANGED <<trackers, lists, calls, made>>
    <3>1. CASE End(t)
      BY <3>1 DEF End, InFlight, listVars
    <3>2. CASE Stop(t)
      BY <3>2 DEF Stop, InFlight
    <3>3. CASE Remember(t)
      BY <1>c, <3>3 DEF Remember, listVars
    <3> QED
      BY <1>2, <3>1, <3>2, <3>3
  <2>2. /\ \A u \in Turns \ {t} : turns'[u] = turns[u]
        /\ turns'[t].conversation = turns[t].conversation
        /\ turns'[t].context = turns[t].context
    BY <1>0, <1>d, <2>1
  <2>3. \A c \in inFlight' : /\ turns'[c.turn].state = "running"
                             /\ turns'[c.turn].conversation = turns[c.turn].conversation
    BY <1>c, <2>1, <2>2
  <2> QED
    BY <2>1, <2>2, <2>3, WorkStays
<1>3. ASSUME NEW t \in Turns, Drive(t) PROVE WorkInv'
  <2>d. PICK r \in Turns, v \in Turns : Driven(t, r, v)
    BY <1>3, DriveIs
  <2>1. /\ turns' = [turns EXCEPT ![t].state = "running", ![t].tracker = r,
                                  ![t].conversation = v]
        /\ turns[t].state = "requested" /\ turns[t].conversation = NoTurn
    BY <2>d DEF Driven
  <2>2. /\ \A u \in Turns \ {t} : turns'[u] = turns[u]
        /\ turns'[t].conversation = v
    BY <1>0, <1>d, <2>1
  <2>3. UNCHANGED <<trackers, lists, calls, made>> /\ inFlight' = inFlight /\ mixed' = mixed
    BY <1>3 DEF Drive, listVars
  <2>4. \A c \in inFlight : turns'[c.turn] = turns[c.turn]
    BY <1>c, <2>1, <2>2
  <2> QED
    BY <1>c, <2>1, <2>2, <2>3, <2>4, TurnsAssumption, WorkStays
<1>4. ASSUME NEW t \in Turns, turns[t].state = "running",
             NEW change \in Changes(lists[turns[t].conversation]), Use(t, change)
      PROVE  WorkInv'
  BY <1>4, UseWorks
<1>5. ASSUME NEW c \in inFlight, NEW ok \in BOOLEAN, Settle(c, ok) PROVE WorkInv'
  BY <1>5, SettleWorks
<1>6. CASE UNCHANGED vars
  <2>1. /\ UNCHANGED <<trackers, lists, calls, made, turns>>
        /\ inFlight' = inFlight /\ mixed' = mixed
    BY <1>6 DEF vars, listVars
  <2> QED
    BY <1>c, <2>1, WorkStays
<1> QED
  BY <1>1, <1>2, <1>3, <1>4, <1>5, <1>6 DEF Next

\* There are no steps at first.
LEMMA OwnInvInit == Init => OwnInv
<1> SUFFICES ASSUME Init PROVE OwnInv
  OBVIOUS
<1>0. \A t \in Turns : turns[t] = NewTurn
  BY DEF Init
<1>1. <<>> \in Seq({}) /\ Len(<<>>) = 0 /\ Entries(<<>>) = {}
  BY DEF Entries
<1>2. CourseInv
  <2>1. \A t \in Turns : Course(t)
    BY <1>0 DEF Course, NewTurn, TurnStates
  <2>2. sessionIds \in Seq(Pairs) /\ plans \in Seq(Pairs) /\ Entries(plans) = {}
    BY <1>1, EmptySeq DEF Init
  <2> QED
    BY <2>1, <2>2 DEF CourseInv
<1>3. LastInv
  <2>1. \A x : UnderWay(x) = {}
    BY <1>0 DEF UnderWay, NewTurn
  <2>2. Entries(plans) = {}
    BY <1>1 DEF Init
  <2> QED
    BY <2>1, <2>2 DEF LastInv, Agree
<1>4. WorkInv
  <2>1. \A v \in Turns : ListInv(v)
    <3>1. \A v \in Turns : lists[v] = <<>>
      BY DEF Init
    <3> QED
      BY <3>1, EmptySeq DEF ListInv
  <2>2. ASSUME NEW r \in Turns PROVE TrackerInv(r)
    <3>1. trackers[r] = EmptyTracker
      BY DEF Init
    <3>2. /\ IsTracker(trackers[r])
          /\ trackers[r].tasks = <<>> /\ trackers[r].calls = <<>>
      BY <3>1 DEF EmptyTracker, IsTracker
    <3> QED
      BY <1>1, <3>2, EmptySeq DEF TrackerInv, Steps
  <2>3. calls \in Nat /\ \E S : made \in Seq(S)
    BY <1>1 DEF Init
  <2> QED
    BY <2>1, <2>2, <2>3 DEF Init, WorkInv
<1> QED
  BY <1>2, <1>3, <1>4, IInvInit DEF OwnInv

\* For any bounds, contexts, turns and calls: whatever turns of its context were
\* cancelled, forgotten or begun anew before it, a turn works on a list whose every
\* step was made in the conversation it goes on with, as long as no two overlapped
\* (_plan_for, _remember_session, PlanTracker).
THEOREM ListIsAlwaysOwn == Spec => []ListIsOwn
<1>1. OwnInv /\ [Next]_vars => OwnInv'
  BY IInvStep, CourseStep, LastStep, WorkStep DEF OwnInv
<1>2. OwnInv => ListIsOwn
  <2> SUFFICES ASSUME OwnInv, NEW t \in Turns, AtWork(t),
                      NEW key \in Keys(trackers[turns[t].tracker].tasks)
               PROVE  \E i \in 1..Len(made) : made[i] = Item(key, turns[t].conversation)
    BY DEF ListIsOwn
  <2>1. turns[t].state = "running" /\ turns[t].context \notin mixed
    BY DEF AtWork
  <2>2. Course(t) /\ turns[t].context \in Contexts
    BY <2>1 DEF OwnInv, CourseInv, IInv, TurnsInv
  <2>3. PICK r \in Turns, v \in Turns : r = turns[t].tracker /\ v = turns[t].conversation
    BY <2>1, <2>2 DEF Course
  <2>4. turns[r].context = turns[t].context
    BY <2>1, <2>2, <2>3 DEF Course
  <2>5. Agree(turns[t].context) /\ t \in UnderWay(turns[t].context)
    BY <2>1, <2>2 DEF OwnInv, LastInv, UnderWay
  <2>6. turns[r].conversation = v
    BY <2>1, <2>3, <2>5 DEF Agree
  <2>7. TrackerInv(r)
    BY DEF OwnInv, WorkInv
  <2>8. PICK tasks : tasks = trackers[r].tasks
    OBVIOUS
  <2>9. tasks \in Seq([key : Own(v), value : BOOLEAN])
    BY <2>1, <2>4, <2>6, <2>7, <2>8 DEF TrackerInv, Steps
  <2>10. PICK i \in 1..Len(tasks) : tasks[i].key = key
    BY <2>3, <2>8 DEF Keys
  <2>11. tasks[i] \in [key : Own(v), value : BOOLEAN]
    BY <2>9, ElementOfSeq
  <2>12. key \in Own(v)
    BY <2>10, <2>11
  <2> QED
    BY <2>3, <2>12 DEF Own
<1> QED
  BY <1>1, <1>2, OwnInvInit, PTL DEF Spec

\* A set of numbers has a least one.
LEMMA LeastIsIn ==
  ASSUME NEW S \in SUBSET Nat, S # {}
  PROVE  \E x \in S : \A y \in S : x <= y
<1>1. PICK x \in S : \A y \in S : ~(<<y, x>> \in OpToRel(<, Nat))
  <2>1. \E x \in S : \A y \in S : ~(<<y, x>> \in OpToRel(<, Nat))
    BY NatLessThanWellFounded, WFMin, Zenon
  <2> QED
    BY <2>1
<1>2. ASSUME NEW y \in S PROVE x <= y
  <2>1. SUFFICES ASSUME y < x PROVE FALSE
    OBVIOUS
  <2>2. <<y, x>> \in Nat \X Nat /\ <<y, x>>[1] < <<y, x>>[2]
    BY <2>1
  <2>3. <<y, x>> \in OpToRel(<, Nat)
    BY <2>2, Zenon DEF OpToRel
  <2> QED
    BY <1>1, <2>3
<1> QED
  BY <1>2

(***************************************************************************)
(* What the caller is shown of the agent's list.                           *)
(***************************************************************************)
\* The turn that began a conversation goes on with it, in the one context of all
\* the turns that do.
Home(v, x) == turns[v].context = x /\ turns[v].conversation = v

HomeInv ==
  /\ \A t \in Turns :
       /\ turns[t].conversation # NoTurn => Home(turns[t].conversation, turns[t].context)
       /\ turns[t].resume # NoTurn => Home(turns[t].resume, turns[t].context)
  /\ \A e \in Entries(sessionIds) : Home(e.value, e.key)

Working(t) == turns[t].state \in {"running", "ended"}

\* The plans have no other tracker for a context than the one it is worked on with.
OneInv == \A t \in Turns, e \in Entries(plans) :
            Working(t) /\ turns[t].context \notin mixed /\ e.key = turns[t].context
              => e.value = turns[t].tracker

\* A step is made once, by its own call, and a call waits for one result; a call to
\* change a task names one.
CallsInv ==
  /\ \A i \in 1..Len(made) : made[i].key \in 1..calls
  /\ \A i, j \in 1..Len(made) : made[i].key = made[j].key => i = j
  /\ \A c \in inFlight : \A i \in 1..Len(made) : made[i].key # c.call
  /\ \A c, d \in inFlight : c.call = d.call => c = d
  /\ \A c \in inFlight : c.change.tool = "update" => c.change.id # NoId

\* A list kept task by task: no id is there twice, and its tasks are in the order in
\* which they were made.
ByTask(steps, list) ==
  /\ WritesTasks(list)
  /\ \A i, j \in 1..Len(list) : list[i].id = list[j].id => i = j
  /\ \A i, j \in 1..Len(list), a, b \in 1..Len(steps) :
       i < j /\ steps[a].key = list[i].key /\ steps[b].key = list[j].key => a < b

ShapeInv == \A v \in Turns : WritesWhole(lists[v]) \/ ByTask(made, lists[v])

\* As many steps as a tracker holds were made in a conversation since the one of
\* the key.
Behind(steps, key, v) ==
  \E a \in 1..Len(steps) :
    /\ steps[a].key = key
    /\ \E f \in [1..MaxSteps -> 1..Len(steps)] :
         /\ \A i, j \in 1..MaxSteps : f[i] = f[j] => i = j
         /\ \A i \in 1..MaxSteps : f[i] > a /\ steps[f[i]].value = v

\* The end of a list, and what the ids in it name.
Shown(list, less) == [i \in 1..(Len(list) - less) |->
                        Item(list[less + i].key, list[less + i].done)]
Named(list, less) == [i \in 1..(Len(list) - less) |->
                        Item(list[less + i].id, list[less + i].key)]

\* A tracker has the list but for the first few, with the ids.
Fit(tracker, list, less) ==
  /\ less \in 0..Len(list) /\ Len(list) - less <= MaxSteps
  /\ tracker.tasks = Shown(list, less)
  /\ tracker.keys = Named(list, less)

\* A tracker has the end of a list kept task by task: those it lost it had to lose.
Follows(steps, tracker, list, v) ==
  \E less \in 0..Len(list) : /\ Fit(tracker, list, less)
                             /\ \A i \in 1..less : Behind(steps, list[i].key, v)

\* A tracker has the head of a list written whole.
Heads(tasks, list) ==
  /\ Len(tasks) = IF Len(list) < MaxSteps THEN Len(list) ELSE MaxSteps
  /\ \A i \in 1..Len(tasks) : tasks[i] = Item(list[i].key, list[i].done)

InSync(steps, tracker, list, v) ==
  \/ list # <<>> /\ WritesWhole(list) /\ Heads(tracker.tasks, list)
  \/ WritesTasks(list) /\ Follows(steps, tracker, list, v)

\* The tracker of a context: of the plans, or of the turn under way.
Current(r, x) == \/ Item(x, r) \in Entries(plans)
                 \/ \E t \in Turns : /\ Working(t) /\ turns[t].context = x
                                     /\ turns[t].tracker = r

\* It is in step with the agent's list unless it lost sight of it.
SyncInv ==
  \A x \in Contexts \ mixed, r \in Turns :
    LET v == turns[r].conversation
    IN  Current(r, x) /\ v \notin missed => InSync(made, trackers[r], lists[v], v)

\* A call without a result is still noted.
NotedInv ==
  \A c \in inFlight :
    turns[c.turn].context \notin mixed /\ turns[c.turn].conversation \notin missed
      => c.call \in Keys(trackers[turns[c.turn].tracker].calls)

\* A turn that had no conversation yet has an empty list and a new tracker.
NewInv == \A t \in Turns : turns[t].conversation = NoTurn =>
            lists[t] = <<>> /\ trackers[t].keys = <<>>

ShownInv == /\ HomeInv /\ OneInv /\ CallsInv /\ ShapeInv
            /\ SyncInv /\ NotedInv /\ NewInv

(***************************************************************************)
(* What a change makes of the end of a list.                               *)
(***************************************************************************)
\* There is an id that the list does not use, and the agent takes one.
LEMMA FreeIdIs ==
  ASSUME NEW list, Len(list) \in Nat
  PROVE  /\ FreeId(list) \in 1..(Len(list) + 1)
         /\ \A i \in 1..Len(list) : list[i].id # FreeId(list)
<1> DEFINE m == Len(list)
           Free == {n \in 1..(m + 1) : \A i \in 1..m : list[i].id # n}
<1>1. Free # {}
  <2> SUFFICES ASSUME \A n \in 1..(m + 1) : \E i \in 1..m : list[i].id = n
               PROVE  FALSE
    OBVIOUS
  <2> DEFINE f == [n \in 1..(m + 1) |-> CHOOSE i \in 1..m : list[i].id = n]
  <2>1. f \in [1..(m + 1) -> 1..m] /\ \A n \in 1..(m + 1) : list[f[n]].id = n
    OBVIOUS
  <2> HIDE DEF f
  <2>2. /\ IsFiniteSet(1..(m + 1)) /\ Cardinality(1..(m + 1)) = m + 1
        /\ IsFiniteSet(1..m) /\ Cardinality(1..m) = m
    <3>1. 1 \in Int /\ m \in Int /\ m + 1 \in Int
      OBVIOUS
    <3> HIDE DEF m
    <3>2. Cardinality(1..(m + 1)) = IF 1 > m + 1 THEN 0 ELSE (m + 1) - 1 + 1
      BY <3>1, FS_Interval
    <3>3. Cardinality(1..m) = IF 1 > m THEN 0 ELSE m - 1 + 1
      BY <3>1, FS_Interval
    <3>4. m \in Nat
      BY DEF m
    <3> QED
      BY <3>1, <3>2, <3>3, <3>4, FS_Interval
  <2>3. Cardinality(1..m) < Cardinality(1..(m + 1))
    BY <2>2
  <2> HIDE DEF m
  <2>4. \E n, k \in 1..(m + 1) : n # k /\ f[n] = f[k]
    <3>1. PICK A, B : A = 1..(m + 1) /\ B = 1..m
      OBVIOUS
    <3>2. /\ IsFiniteSet(A) /\ IsFiniteSet(B) /\ Cardinality(B) < Cardinality(A)
          /\ f \in [A -> B]
      BY <2>1, <2>2, <2>3, <3>1
    <3>3. \E n, k \in A : n # k /\ f[n] = f[k]
      BY <3>2, FS_PigeonHole
    <3> QED
      BY <3>1, <3>3
  <2> QED
    BY <2>1, <2>4
<1>2. PICK n \in Free : \A k \in Free : n <= k
  <2>1. Free \in SUBSET Nat
    OBVIOUS
  <2> HIDE DEF Free
  <2> QED
    BY <1>1, <2>1, LeastIsIn
<1>3. /\ n \in 1..(m + 1)
      /\ \A i \in 1..m : list[i].id # n
      /\ \A k \in 1..(n - 1) : \E i \in 1..m : list[i].id = k
  <2>1. ASSUME NEW k \in 1..(n - 1) PROVE \E i \in 1..m : list[i].id = k
    <3>1. k \in 1..(m + 1) /\ ~(n <= k)
      OBVIOUS
    <3>2. k \notin Free
      BY <1>2, <3>1
    <3> QED
      BY <3>1, <3>2
  <2> QED
    BY <2>1
<1> QED
  BY <1>3 DEF FreeId

\* What a function has from a place on.
IsEnd(s, f, m, less) == s = [i \in 1..(m - less) |-> f[less + i]]

\* The end of a sequence that goes on with one element more, and loses the first if
\* there is no room for it.
LEMMA EndGrows ==
  ASSUME NEW m \in Nat, NEW less \in 0..m, NEW f, NEW cap \in Nat \ {0},
         m - less <= cap, NEW s, IsEnd(s, f, m, less),
         NEW d, d = IF m - less < cap THEN 0 ELSE 1
  PROVE  IsEnd(Bounded(Append(s, f[m + 1]), cap), f, m + 1, less + d)
<1>0. /\ s = [i \in 1..(m - less) |-> f[less + i]]
      /\ \A i \in 1..(m - less) : s[i] = f[less + i]
  BY DEF IsEnd
<1> DEFINE S == {f[i] : i \in 1..(m + 1)}
           long == Append(s, f[m + 1])
<1>1. s \in Seq(S) /\ Len(s) = m - less
  <2>1. \A i \in 1..(m - less) : less + i \in 1..(m + 1)
    OBVIOUS
  <2>2. \A i \in 1..(m - less) : f[less + i] \in S
    BY <2>1
  <2>3. s \in [1..(m - less) -> S] /\ m - less \in Nat
    BY <1>0, <2>2
  <2> HIDE DEF S
  <2> QED
    BY <2>3, ListedIn
<1>2. f[m + 1] \in S
  OBVIOUS
<1> HIDE DEF S
<1>3. /\ long \in Seq(S) /\ Len(long) = m - less + 1
      /\ \A i \in 1..(m - less) : long[i] = s[i]
      /\ long[m - less + 1] = f[m + 1]
  BY <1>1, <1>2, AppendProperties
<1> HIDE DEF long
<1>4. \A i \in 1..(m - less + 1) : long[i] = f[less + i]
  <2> SUFFICES ASSUME NEW i \in 1..(m - less + 1) PROVE long[i] = f[less + i]
    OBVIOUS
  <2>1. i \in 1..(m - less) \/ (i = m - less + 1 /\ less + i = m + 1)
    OBVIOUS
  <2> QED
    BY <1>0, <1>3, <2>1
<1>5. CASE m - less < cap
  <2>1. Bounded(long, cap) = long /\ d = 0
    BY <1>3, <1>5 DEF Bounded
  <2>2. long = [i \in 1..Len(long) |-> long[i]]
    BY <1>3, LenProperties
  <2>3. /\ less + d = less /\ (m + 1) - (less + d) = m - less + 1
        /\ \A i \in 1..(m - less + 1) : less + d + i = less + i
    BY <2>1
  <2>4. long = [i \in 1..(m - less + 1) |-> f[less + i]]
    BY <1>3, <1>4, <2>2
  <2>5. long = [i \in 1..((m + 1) - (less + d)) |-> f[less + d + i]]
    BY <2>3, <2>4
  <2> QED
    BY <2>1, <2>5, Zenon DEF long, IsEnd
<1>6. CASE m - less = cap
  <2>1. Bounded(long, cap) = SubSeq(long, 2, cap + 1) /\ d = 1
    BY <1>3, <1>6 DEF Bounded
  <2>2. PICK t : t = SubSeq(long, 2, cap + 1)
    OBVIOUS
  <2>3. \A i \in 2..(cap + 1) : long[i] \in S
    <3>1. \A i \in 2..(cap + 1) : i \in 1..Len(long)
      BY <1>3, <1>6
    <3> QED
      BY <1>3, <3>1, ElementOfSeq
  <2>4. /\ t \in Seq(S) /\ Len(t) = cap
        /\ \A i \in 1..cap : t[i] = long[i + 1]
    <3>1. /\ t \in Seq(S)
          /\ Len(t) = IF 2 <= cap + 1 THEN (cap + 1) - 2 + 1 ELSE 0
          /\ \A i \in 1..((cap + 1) - 2 + 1) : t[i] = long[2 + i - 1]
      BY <2>2, <2>3, SubSeqProperties
    <3> QED
      BY <3>1
  <2>5. t = [i \in 1..Len(t) |-> t[i]]
    BY <2>4, LenProperties
  <2>6. \A i \in 1..cap : t[i] = f[less + 1 + i]
    <3>1. \A i \in 1..cap : i + 1 \in 1..(m - less + 1) /\ less + (i + 1) = less + 1 + i
      BY <1>6
    <3> QED
      BY <1>4, <2>4, <3>1
  <2>7. (m + 1) - (less + 1) = cap
    BY <1>6
  <2>8. t = [i \in 1..cap |-> f[less + 1 + i]]
    BY <2>4, <2>5, <2>6
  <2>9. t = [i \in 1..((m + 1) - (less + d)) |-> f[less + d + i]]
    BY <2>1, <2>7, <2>8
  <2> QED
    BY <2>1, <2>2, <2>9, Zenon DEF long, IsEnd
<1> QED
  BY <1>5, <1>6

\* A sequence without the element at a place.
Without(s, n) == [i \in 1..(Len(s) - 1) |-> IF i < n THEN s[i] ELSE s[i + 1]]

\* To pop a key leaves the dict without its entry.
LEMMA PoppedIsWithout ==
  ASSUME NEW S, NEW dict \in Seq(S), Single(dict), NEW n \in 1..Len(dict),
         NEW key, dict[n].key = key
  PROVE  Popped(dict, key) = Without(dict, n)
<1>1. key \in Keys(dict)
  BY DEF Keys
<1>2. PICK k \in 1..Len(dict) :
        /\ dict[k].key = key
        /\ Popped(dict, key) \in Seq(S)
        /\ Len(Popped(dict, key)) = Len(dict) - 1
        /\ \A i \in 1..(Len(dict) - 1) :
             Popped(dict, key)[i] = IF i < k THEN dict[i] ELSE dict[i + 1]
  BY <1>1, PoppedEntries
<1>3. k = n
  BY <1>2 DEF Single
<1>4. PICK new : new = Popped(dict, key)
  OBVIOUS
<1>5. new = [i \in 1..Len(new) |-> new[i]]
  BY <1>2, <1>4, LenProperties
<1>6. new = [i \in 1..(Len(dict) - 1) |-> IF i < n THEN dict[i] ELSE dict[i + 1]]
  BY <1>2, <1>3, <1>4, <1>5
<1> QED
  BY <1>4, <1>6 DEF Without

\* The ids that name another step are all but the one that names it.
LEMMA OthersAre ==
  ASSUME NEW keys, Len(keys) \in Nat, NEW n \in 1..Len(keys), NEW key,
         \A i \in 1..Len(keys) : keys[i].value = key <=> i = n
  PROVE  OtherNames(keys, key) = Without(keys, n)
<1> DEFINE m == Len(keys)
           others == {i \in 1..m : keys[i].value # key}
           Rank(i) == Cardinality({j \in others : j <= i})
<1>1. others = (1..m) \ {n}
  OBVIOUS
<1> HIDE DEF others
<1>2. ASSUME NEW k \in Nat PROVE IsFiniteSet(1..k) /\ Cardinality(1..k) = k
  <2>1. Cardinality(1..k) = IF 1 > k THEN 0 ELSE k - 1 + 1
    BY FS_Interval
  <2> QED
    BY <2>1, FS_Interval
<1>3. Cardinality(others) = m - 1
  <2>1. PICK S : S = 1..m
    OBVIOUS
  <2>2. IsFiniteSet(S) /\ Cardinality(S) = m /\ n \in S
    BY <1>2, <2>1
  <2>3. Cardinality(S \ {n}) = Cardinality(S) - 1
    BY <2>2, FS_RemoveElement
  <2> QED
    BY <1>1, <2>1, <2>2, <2>3
<1>4. ASSUME NEW i \in others PROVE Rank(i) = IF i < n THEN i ELSE i - 1
  <2>1. i \in 1..m /\ i # n
    BY <1>1
  <2>2. PICK S : S = 1..i
    OBVIOUS
  <2>3. IsFiniteSet(S) /\ Cardinality(S) = i
    BY <1>2, <2>1, <2>2
  <2>4. CASE i < n
    <3>1. {j \in others : j <= i} = S
      BY <1>1, <2>1, <2>2, <2>4
    <3> QED
      BY <2>3, <2>4, <3>1
  <2>5. CASE i > n
    <3>1. {j \in others : j <= i} = S \ {n} /\ n \in S
      BY <1>1, <2>1, <2>2, <2>5
    <3>2. Cardinality(S \ {n}) = Cardinality(S) - 1
      BY <2>3, <3>1, FS_RemoveElement
    <3>3. Rank(i) = i - 1
      BY <2>3, <3>1, <3>2
    <3> HIDE DEF Rank
    <3> QED
      BY <2>1, <2>5, <3>3
  <2>6. i < n \/ i > n
    BY <2>1
  <2> QED
    BY <2>4, <2>5, <2>6
<1>5. ASSUME NEW k \in 1..(m - 1)
      PROVE  (CHOOSE i \in others : Rank(i) = k) = IF k < n THEN k ELSE k + 1
  <2>1. PICK i : i = IF k < n THEN k ELSE k + 1
    OBVIOUS
  <2>2. i \in others
    BY <1>1, <2>1
  <2>3. Rank(i) = k
    <3>1. Rank(i) = IF i < n THEN i ELSE i - 1
      BY <1>4, <2>2
    <3> HIDE DEF Rank
    <3> QED
      BY <2>1, <3>1
  <2>4. ASSUME NEW j \in others, Rank(j) = k PROVE j = i
    <3>1. Rank(j) = IF j < n THEN j ELSE j - 1
      BY <1>4
    <3>2. j \in 1..m /\ j # n
      BY <1>1
    <3> HIDE DEF Rank
    <3> QED
      BY <2>1, <2>4, <3>1, <3>2
  <2> HIDE DEF Rank
  <2> QED
    BY <2>1, <2>2, <2>3, <2>4
<1>6. OtherNames(keys, key) = [k \in 1..Cardinality(others) |->
                                 keys[CHOOSE i \in others : Rank(i) = k]]
  BY DEF OtherNames, others
<1> HIDE DEF Rank
<1>7. OtherNames(keys, key) = [k \in 1..(m - 1) |->
                                 keys[IF k < n THEN k ELSE k + 1]]
  <2>1. \A k \in 1..(m - 1) : keys[CHOOSE i \in others : Rank(i) = k]
                                = keys[IF k < n THEN k ELSE k + 1]
    BY <1>5
  <2> QED
    BY <1>3, <1>6, <2>1
<1>8. \A k \in 1..(m - 1) : keys[IF k < n THEN k ELSE k + 1]
                              = IF k < n THEN keys[k] ELSE keys[k + 1]
  OBVIOUS
<1> QED
  BY <1>7, <1>8 DEF Without

\* Without one of its tasks, a list ends as it did without that one; and as it did if
\* the task was one the end had lost.
LEMMA ShownWithout ==
  ASSUME NEW list, Len(list) \in Nat, NEW less \in 0..Len(list),
         NEW j \in 1..Len(list), NEW new, new = Without(list, j)
  PROVE  /\ Len(new) = Len(list) - 1
         /\ j > less => /\ Shown(new, less) = Without(Shown(list, less), j - less)
                        /\ Named(new, less) = Without(Named(list, less), j - less)
         /\ j <= less => /\ Shown(new, less - 1) = Shown(list, less)
                         /\ Named(new, less - 1) = Named(list, less)
<1> DEFINE m == Len(list)
<1>1. /\ Len(new) = m - 1
      /\ \A i \in 1..(m - 1) : new[i] = IF i < j THEN list[i] ELSE list[i + 1]
  BY DEF Without
<1>2. /\ Len(Shown(list, less)) = m - less
      /\ Len(Named(list, less)) = m - less
      /\ \A i \in 1..(m - less) :
           /\ Shown(list, less)[i] = Item(list[less + i].key, list[less + i].done)
           /\ Named(list, less)[i] = Item(list[less + i].id, list[less + i].key)
  BY DEF Shown, Named
<1> HIDE DEF m
<1>3. ASSUME j > less
      PROVE  /\ Shown(new, less) = Without(Shown(list, less), j - less)
             /\ Named(new, less) = Without(Named(list, less), j - less)
  <2>1. m \in Nat /\ less \in 0..m /\ j \in 1..m
    BY DEF m
  <2>2. ASSUME NEW i \in 1..(m - 1 - less)
        PROVE  /\ Item(new[less + i].key, new[less + i].done)
                    = IF i < j - less THEN Shown(list, less)[i]
                      ELSE Shown(list, less)[i + 1]
               /\ Item(new[less + i].id, new[less + i].key)
                    = IF i < j - less THEN Named(list, less)[i]
                      ELSE Named(list, less)[i + 1]
    <3>1. /\ less + i \in 1..(m - 1) /\ i \in 1..(m - less) /\ i + 1 \in 1..(m - less)
          /\ less + i + 1 = less + (i + 1)
          /\ less + i < j <=> i < j - less
      BY <2>1
    <3>2. CASE i < j - less
      BY <1>1, <1>2, <3>1, <3>2
    <3>3. CASE ~(i < j - less)
      BY <1>1, <1>2, <3>1, <3>3
    <3> QED
      BY <3>2, <3>3
  <2>3. Shown(new, less) = Without(Shown(list, less), j - less)
    <3>1. (m - 1) - less = m - 1 - less /\ (m - less) - 1 = m - 1 - less
      BY <2>1
    <3>2. PICK old : old = Shown(list, less)
      OBVIOUS
    <3>3. Without(old, j - less) = [i \in 1..(m - 1 - less) |->
                                      IF i < j - less THEN old[i] ELSE old[i + 1]]
      BY <1>2, <3>1, <3>2 DEF Without
    <3>4. Shown(new, less) = [i \in 1..(m - 1 - less) |->
                                Item(new[less + i].key, new[less + i].done)]
      BY <1>1, <3>1 DEF Shown
    <3> QED
      BY <2>2, <3>2, <3>3, <3>4
  <2>4. Named(new, less) = Without(Named(list, less), j - less)
    <3>1. (m - 1) - less = m - 1 - less /\ (m - less) - 1 = m - 1 - less
      BY <2>1
    <3>2. PICK old : old = Named(list, less)
      OBVIOUS
    <3>3. Without(old, j - less) = [i \in 1..(m - 1 - less) |->
                                      IF i < j - less THEN old[i] ELSE old[i + 1]]
      BY <1>2, <3>1, <3>2 DEF Without
    <3>4. Named(new, less) = [i \in 1..(m - 1 - less) |->
                                Item(new[less + i].id, new[less + i].key)]
      BY <1>1, <3>1 DEF Named
    <3> QED
      BY <2>2, <3>2, <3>3, <3>4
  <2> QED
    BY <2>3, <2>4
<1>4. ASSUME j <= less
      PROVE  /\ Shown(new, less - 1) = Shown(list, less)
             /\ Named(new, less - 1) = Named(list, less)
  <2>1. m \in Nat /\ less \in 0..m /\ j \in 1..m
    BY DEF m
  <2>2. ASSUME NEW i \in 1..(m - less) PROVE new[(less - 1) + i] = list[less + i]
    <3>1. /\ (less - 1) + i \in 1..(m - 1) /\ ~((less - 1) + i < j)
          /\ (less - 1) + i + 1 = less + i
      BY <1>4, <2>1
    <3> QED
      BY <1>1, <3>1
  <2>3. (m - 1) - (less - 1) = m - less
    BY <2>1
  <2> QED
    BY <1>1, <2>2, <2>3 DEF Shown, Named, m
<1> QED
  BY <1>1, <1>3, <1>4 DEF m

\* No id and no key is in a list twice.
Distinct(list) ==
  /\ \A i, j \in 1..Len(list) : list[i].id = list[j].id => i = j
  /\ \A i, j \in 1..Len(list) : list[i].key = list[j].key => i = j

\* With the j-th task done, a list keeps its ids and keys, and its end has the task
\* done if it has the task.
Dones(new, list, less, j) ==
  /\ Len(new) = Len(list)
  /\ \A i \in 1..Len(list) : new[i].id = list[i].id /\ new[i].key = list[i].key
  /\ Named(new, less) = Named(list, less)
  /\ j > less => Shown(new, less) = Assigned(Shown(list, less), list[j].key, TRUE)
  /\ j <= less => Shown(new, less) = Shown(list, less)

\* With a task of it done, a list ends with that one done, if its end has it.
LEMMA ShownDone ==
  ASSUME NEW K, NEW I, NEW list \in Seq([key : K, id : I, done : BOOLEAN]),
         NEW less \in 0..Len(list), NEW j \in 1..Len(list),
         Distinct(list), NEW new, new = [i \in 1..Len(list) |->
                           IF list[i].id = list[j].id
                             THEN [list[i] EXCEPT !.done = TRUE] ELSE list[i]]
  PROVE  Dones(new, list, less, j)
<1> DEFINE m == Len(list)
<1>0. /\ m \in Nat /\ j \in 1..m /\ less \in 0..m
      /\ \A i \in 1..m : list[i] \in [key : K, id : I, done : BOOLEAN]
      /\ \A i \in 1..m : list[i].id = list[j].id => i = j
      /\ \A i \in 1..m : list[i].key = list[j].key => i = j
  BY LenProperties, ElementOfSeq DEF Distinct
<1>1. ASSUME NEW i \in 1..m
      PROVE  /\ new[i].id = list[i].id /\ new[i].key = list[i].key
             /\ new[i].done = IF i = j THEN TRUE ELSE list[i].done
  <2>1. PICK key, id, done : list[i] = [key |-> key, id |-> id, done |-> done]
    <3>1. list[i] \in [key : K, id : I, done : BOOLEAN]
      BY <1>0
    <3> QED
      BY <3>1
  <2>2. [list[i] EXCEPT !.done = TRUE] = [key |-> key, id |-> id, done |-> TRUE]
    <3>1. PICK e : e = list[i]
      OBVIOUS
    <3>2. e = [key |-> key, id |-> id, done |-> done]
      BY <2>1, <3>1
    <3>3. PICK r : r = [e EXCEPT !.done = TRUE]
      OBVIOUS
    <3>4. r = [key |-> key, id |-> id, done |-> TRUE]
      BY <3>2, <3>3
    <3> QED
      BY <3>1, <3>3, <3>4
  <2>3. CASE i = j
    BY <2>1, <2>2, <2>3
  <2>4. CASE i # j
    BY <1>0, <2>1, <2>4
  <2> QED
    BY <2>3, <2>4
<1>2. Len(new) = m
  BY <1>0
<1> HIDE DEF m
<1>3. \A i \in 1..(m - less) : less + i \in 1..m
  BY <1>0 DEF m
<1>4. Named(new, less) = Named(list, less)
  BY <1>1, <1>2, <1>3 DEF Named, m
<1>5. ASSUME j <= less PROVE Shown(new, less) = Shown(list, less)
  <2>1. \A i \in 1..(m - less) : less + i # j
    BY <1>0, <1>5
  <2>2. ASSUME NEW i \in 1..(m - less)
        PROVE  Item(new[less + i].key, new[less + i].done)
                 = Item(list[less + i].key, list[less + i].done)
    BY <1>1, <1>3, <2>1
  <2> QED
    BY <1>2, <2>2 DEF Shown, m
<1>6. ASSUME j > less
      PROVE  Shown(new, less) = Assigned(Shown(list, less), list[j].key, TRUE)
  <2>1. PICK n : n = j - less
    OBVIOUS
  <2>2. n \in 1..(m - less) /\ less + n = j /\ j \in 1..m
    BY <1>0, <1>6, <2>1 DEF m
  <2>3. PICK old, key : old = Shown(list, less) /\ key = list[j].key
    OBVIOUS
  <2>4. /\ old = [i \in 1..(m - less) |-> Item(list[less + i].key, list[less + i].done)]
        /\ m - less \in Nat
    BY <1>0, <2>3 DEF Shown, m
  <2>5. /\ Len(old) = m - less
        /\ \A i \in 1..(m - less) : old[i] = Item(list[less + i].key, list[less + i].done)
    BY <2>4
  <2>6. \A i \in 1..(m - less) : old[i].key = list[less + i].key
    BY <2>5 DEF Item
  <2>7. \A i \in 1..(m - less) : old[i].key = key <=> i = n
    <3>1. ASSUME NEW i \in 1..(m - less), old[i].key = key PROVE i = n
      <4>1. less + i \in 1..m /\ list[less + i].key = list[j].key
        BY <1>3, <2>3, <2>6, <3>1
      <4>2. less + i = j
        BY <1>0, <4>1
      <4> QED
        BY <1>0, <2>1, <2>2, <4>2 DEF m
    <3> QED
      BY <2>2, <2>3, <2>6, <3>1
  <2>8. key \in Keys(old) /\ At(old, key) = n
    BY <2>2, <2>5, <2>7 DEF Keys, At
  <2>9. Assigned(old, key, TRUE) = [old EXCEPT ![n].value = TRUE]
    BY <2>8 DEF Assigned
  <2>10. [old EXCEPT ![n].value = TRUE]
           = [i \in 1..(m - less) |-> IF i = n THEN Item(key, TRUE)
                                      ELSE Item(list[less + i].key, list[less + i].done)]
    <3>1. PICK done : done = list[less + n].done
      OBVIOUS
    <3>2. old[n] = [key |-> key, value |-> done]
      BY <2>2, <2>3, <2>5, <3>1 DEF Item
    <3>3. PICK e : e = [old[n] EXCEPT !.value = TRUE]
      OBVIOUS
    <3>4. e = [key |-> key, value |-> TRUE]
      <4>1. PICK item : item = old[n]
        OBVIOUS
      <4>2. item = [key |-> key, value |-> done] /\ e = [item EXCEPT !.value = TRUE]
        BY <3>2, <3>3, <4>1
      <4> QED
        BY <4>2
    <3>5. [old EXCEPT ![n].value = TRUE] = [old EXCEPT ![n] = e]
      BY <3>3
    <3>6. [old EXCEPT ![n] = e]
            = [i \in 1..(m - less) |-> IF i = n THEN e
                                       ELSE Item(list[less + i].key, list[less + i].done)]
      BY <2>2, <2>4
    <3> QED
      BY <3>4, <3>5, <3>6 DEF Item
  <2> DEFINE A(i) == Item(new[less + i].key, new[less + i].done)
             B(i) == IF i = n THEN Item(key, TRUE)
                     ELSE Item(list[less + i].key, list[less + i].done)
  <2>11. Shown(new, less) = [i \in 1..(m - less) |-> A(i)]
    BY <1>2 DEF Shown
  <2>12. ASSUME NEW i \in 1..(m - less)
         PROVE  A(i) = B(i)
    <3>1. less + i \in 1..m /\ (less + i = j <=> i = n)
      BY <1>0, <1>3, <2>1, <2>2 DEF m
    <3>2. PICK k \in 1..m : k = less + i
      BY <3>1
    <3>3. /\ new[k].key = list[k].key /\ new[k].id = list[k].id
          /\ new[k].done = IF k = j THEN TRUE ELSE list[k].done
      BY <1>1
    <3>4. Item(new[k].key, new[k].done)
            = IF i = n THEN Item(key, TRUE) ELSE Item(list[k].key, list[k].done)
      <4>1. CASE i = n
        <5>1. new[k].key = key /\ new[k].done = TRUE
          BY <2>3, <3>1, <3>2, <3>3, <4>1
        <5> QED
          BY <4>1, <5>1 DEF Item
      <4>2. CASE i # n
        <5>1. new[k].key = list[k].key /\ new[k].done = list[k].done
          BY <3>1, <3>2, <3>3, <4>2
        <5> QED
          BY <4>2, <5>1 DEF Item
      <4> QED
        BY <4>1, <4>2
    <3> QED
      BY <3>2, <3>4, Zenon
  <2>13. Shown(new, less) = [i \in 1..(m - less) |-> B(i)]
    <3> HIDE DEF A, B
    <3> QED
      BY <2>11, <2>12
  <2> QED
    BY <2>3, <2>9, <2>10, <2>13
<1> QED
  BY <1>1, <1>2, <1>4, <1>5, <1>6 DEF Dones, m

\* What a change makes of a tracker's steps and ids when its call has succeeded.
Took(old, new, call, id, change) ==
  \/ /\ change.tool = "create"
     /\ new.tasks = Bounded(Assigned(old.tasks, call, FALSE), MaxSteps)
     /\ new.keys = Bounded(Assigned(old.keys, id, call), MaxSteps)
  \/ /\ change.tool = "update"
     /\ \E key :
          /\ key = Get(old.keys, change.id, NoKey)
          /\ \/ key \notin Keys(old.tasks) /\ new.tasks = old.tasks /\ new.keys = old.keys
             \/ /\ key \in Keys(old.tasks) /\ change.to = "deleted"
                /\ new.tasks = Popped(old.tasks, key)
                /\ new.keys = OtherNames(old.keys, key)
             \/ /\ key \in Keys(old.tasks) /\ change.to # "deleted"
                /\ new.tasks = Assigned(old.tasks, key, TRUE) /\ new.keys = old.keys
  \/ /\ change.tool = "todos"
     /\ \E kept :
          /\ kept = SubSeq(change.steps, 1, IF Len(change.steps) < MaxSteps
                                              THEN Len(change.steps) ELSE MaxSteps)
          /\ kept # <<>> => new.tasks = kept /\ new.keys = <<>>

LEMMA AppliedTakes ==
  ASSUME NEW tracker, IsTracker(tracker), NEW call, NEW id, NEW ok \in BOOLEAN,
         NEW change, call \in Keys(tracker.calls),
         \A i \in 1..Len(tracker.calls) :
           tracker.calls[i].key = call => tracker.calls[i].value = change,
         change.tool \in {"create", "update", "todos"},
         NEW new, new = Applied(tracker, call, ok, id)
  PROVE  IF ok THEN Took(tracker, new, call, id, change)
         ELSE new.tasks = tracker.tasks /\ new.keys = tracker.keys
<1>1. Get(tracker.calls, call, [tool |-> "none"]) = change
  BY GetIs
<1>2. PICK tasks, left, keys :
        tasks = tracker.tasks /\ left = Popped(tracker.calls, call) /\ keys = tracker.keys
  OBVIOUS
<1>3. PICK rest : rest = [tracker EXCEPT !.calls = Popped(@, call)]
  OBVIOUS
<1>4. tracker = [tasks |-> tasks, calls |-> tracker.calls, keys |-> keys]
  BY <1>2 DEF IsTracker
<1>5. rest = [tasks |-> tasks, calls |-> left, keys |-> keys]
  BY <1>2, <1>3, <1>4
<1>6. new = CASE ~ok -> rest
              [] ok /\ change.tool = "create" -> Added(rest, call, id)
              [] ok /\ change.tool = "update" -> Changed(rest, change.id, change.to)
              [] ok /\ change.tool = "todos" -> Rewritten(rest, change.steps)
              [] OTHER -> rest
  BY <1>1, <1>3 DEF Applied
<1>7. CASE ~ok
  <2>1. new = rest
    BY <1>6, <1>7
  <2> QED
    BY <1>2, <1>5, <1>7, <2>1
<1>8. CASE ok /\ change.tool = "create"
  <2>1. new = Added(rest, call, id)
    BY <1>6, <1>8
  <2>2. PICK a, b : /\ a = Bounded(Assigned(tasks, call, FALSE), MaxSteps)
                    /\ b = Bounded(Assigned(keys, id, call), MaxSteps)
    OBVIOUS
  <2>3. new = [rest EXCEPT !.tasks = a, !.keys = b]
    BY <1>5, <2>1, <2>2 DEF Added
  <2>4. new.tasks = a /\ new.keys = b
    BY <1>5, <2>3
  <2> QED
    BY <1>2, <1>8, <2>2, <2>4 DEF Took
<1>9. CASE ok /\ change.tool = "update"
  <2>1. PICK key : key = Get(keys, change.id, NoKey)
    OBVIOUS
  <2>2. new = Changed(rest, change.id, change.to)
    BY <1>6, <1>9
  <2>3. rest.keys = keys /\ rest.tasks = tasks
    BY <1>5
  <2>4. new = CASE key \notin Keys(tasks) -> rest
                [] key \in Keys(tasks) /\ change.to = "deleted" ->
                     [rest EXCEPT !.tasks = Popped(@, key), !.keys = OtherNames(@, key)]
                [] OTHER -> [rest EXCEPT !.tasks = Assigned(@, key, TRUE)]
    BY <2>1, <2>2, <2>3 DEF Changed
  <2>5. CASE key \notin Keys(tasks)
    <3>1. new = rest
      BY <2>4, <2>5
    <3> QED
      BY <1>2, <1>9, <2>1, <2>3, <2>5, <3>1 DEF Took
  <2>6. CASE key \in Keys(tasks) /\ change.to = "deleted"
    <3>1. PICK a, b : a = Popped(tasks, key) /\ b = OtherNames(keys, key)
      OBVIOUS
    <3>2. new = [rest EXCEPT !.tasks = a, !.keys = b]
      BY <2>3, <2>4, <2>6, <3>1
    <3>3. new.tasks = a /\ new.keys = b
      BY <1>5, <3>2
    <3> QED
      BY <1>2, <1>9, <2>1, <2>6, <3>1, <3>3 DEF Took
  <2>7. CASE key \in Keys(tasks) /\ change.to # "deleted"
    <3>1. PICK a : a = Assigned(tasks, key, TRUE)
      OBVIOUS
    <3>2. new = [rest EXCEPT !.tasks = a]
      BY <2>3, <2>4, <2>7, <3>1
    <3>3. new.tasks = a /\ new.keys = keys
      BY <1>5, <3>2
    <3> QED
      BY <1>2, <1>9, <2>1, <2>7, <3>1, <3>3 DEF Took
  <2> QED
    BY <2>5, <2>6, <2>7
<1>10. CASE ok /\ change.tool = "todos"
  <2>1. PICK kept : kept = SubSeq(change.steps, 1, IF Len(change.steps) < MaxSteps
                                                     THEN Len(change.steps) ELSE MaxSteps)
    OBVIOUS
  <2>2. new = Rewritten(rest, change.steps)
    BY <1>6, <1>10
  <2>3. ASSUME kept # <<>> PROVE new.tasks = kept /\ new.keys = <<>>
    <3>1. new = [rest EXCEPT !.tasks = kept, !.keys = <<>>]
      BY <2>1, <2>2, <2>3 DEF Rewritten
    <3> QED
      BY <1>5, <3>1
  <2> QED
    BY <1>10, <2>1, <2>3 DEF Took
<1> QED
  BY <1>7, <1>8, <1>9, <1>10

\* The end of a list, and its ids, place by place.
LEMMA ShownIs ==
  ASSUME NEW list, Len(list) \in Nat, NEW less \in 0..Len(list)
  PROVE  /\ Len(Shown(list, less)) = Len(list) - less
         /\ Len(Named(list, less)) = Len(list) - less
         /\ \A i \in 1..(Len(list) - less) :
              /\ Shown(list, less)[i] = Item(list[less + i].key, list[less + i].done)
              /\ Named(list, less)[i] = Item(list[less + i].id, list[less + i].key)
BY DEF Shown, Named

\* An id names the step that the end of the list has, or none if it lost it.
LEMMA GetNamed ==
  ASSUME NEW list, Len(list) \in Nat, NEW less \in 0..Len(list), Distinct(list),
         \A i \in 1..Len(list) : list[i].key # NoKey,
         NEW j \in 1..Len(list), NEW key,
         key = Get(Named(list, less), list[j].id, NoKey)
  PROVE  /\ j > less => key = list[j].key /\ key \in Keys(Shown(list, less))
         /\ j <= less => key \notin Keys(Shown(list, less))
<1>1. PICK old, keys : old = Shown(list, less) /\ keys = Named(list, less)
  OBVIOUS
<1>2. PICK m : m = Len(list) - less
  OBVIOUS
<1>3. /\ Len(old) = m /\ Len(keys) = m
      /\ \A i \in 1..m : /\ old[i] = Item(list[less + i].key, list[less + i].done)
                         /\ keys[i] = Item(list[less + i].id, list[less + i].key)
  <2>1. /\ Len(Shown(list, less)) = Len(list) - less
        /\ Len(Named(list, less)) = Len(list) - less
        /\ \A i \in 1..(Len(list) - less) :
             /\ Shown(list, less)[i] = Item(list[less + i].key, list[less + i].done)
             /\ Named(list, less)[i] = Item(list[less + i].id, list[less + i].key)
    BY ShownIs
  <2> QED
    BY <1>1, <1>2, <2>1
<1>4. \A i \in 1..m : less + i \in 1..Len(list)
  BY <1>2
<1>5. \A i \in 1..m : /\ old[i].key = list[less + i].key
                      /\ keys[i].key = list[less + i].id
                      /\ keys[i].value = list[less + i].key
  BY <1>3 DEF Item
<1>6. ASSUME NEW i \in 1..m, keys[i].key = list[j].id PROVE less + i = j
  BY <1>4, <1>5, <1>6 DEF Distinct
<1>7. CASE j > less
  <2>1. j - less \in 1..m /\ less + (j - less) = j
    BY <1>2, <1>7
  <2>2. keys[j - less].key = list[j].id /\ old[j - less].key = list[j].key
    BY <1>5, <2>1
  <2>3. list[j].id \in Keys(keys)
    BY <1>3, <2>1, <2>2 DEF Keys
  <2>4. PICK i \in 1..Len(keys) : keys[i].key = list[j].id /\ key = keys[i].value
    BY <1>1, <2>3, GetIs
  <2>5. key = list[j].key
    BY <1>3, <1>5, <1>6, <2>4
  <2>6. list[j].key \in Keys(old)
    BY <1>3, <2>1, <2>2 DEF Keys
  <2> QED
    BY <1>1, <1>7, <2>5, <2>6
<1>8. CASE j <= less
  <2>1. list[j].id \notin Keys(keys)
    <3> SUFFICES ASSUME NEW i \in 1..m, keys[i].key = list[j].id PROVE FALSE
      BY <1>3 DEF Keys
    <3>1. less + i = j
      BY <1>6
    <3> QED
      BY <1>2, <1>8, <3>1
  <2>2. key = NoKey
    BY <1>1, <2>1, GetIs DEF Keys
  <2>3. key \notin Keys(old)
    <3>1. ASSUME NEW i \in 1..m PROVE old[i].key # NoKey
      BY <1>4, <1>5
    <3> QED
      BY <1>3, <2>2, <3>1 DEF Keys
  <2> QED
    BY <1>1, <1>8, <2>3
<1> QED
  BY <1>2, <1>7, <1>8

\* A deleted task is gone from the list, and one that is done is done in it.
LEMMA DeletedIs ==
  ASSUME NEW S, NEW list \in Seq(S), Distinct(list), NEW j \in 1..Len(list), NEW change,
         change.tool = "update", change.to = "deleted", change.id = list[j].id, NEW call
  PROVE  After(list, change, call) = Without(list, j)
<1>1. (CHOOSE i \in 1..Len(list) : list[i].id = change.id) = j
  BY DEF Distinct
<1>2. After(list, change, call) = Popped(list, list[j].key)
  BY <1>1 DEF After
<1>3. Single(list)
  BY DEF Single, Distinct
<1> QED
  BY <1>2, <1>3, PoppedIsWithout

LEMMA DoneIs ==
  ASSUME NEW list, NEW change, NEW call, change.tool = "update", change.to = "done"
  PROVE  After(list, change, call)
           = [i \in 1..Len(list) |-> IF list[i].id = change.id
                                       THEN [list[i] EXCEPT !.done = TRUE] ELSE list[i]]
BY DEF After

\* A list that begins with tasks of the beginning of another.
Begins(after, then, list, less) ==
  /\ then \in 0..Len(after)
  /\ \A i \in 1..then : \E k \in 1..less : after[i].key = list[k].key

\* A tracker that has the end of a list has the end of what an update makes of it.
LEMMA UpdateFits ==
  ASSUME NEW K, NEW I, NEW list \in Seq([key : K, id : I, done : BOOLEAN]), NoKey \notin K,
         Distinct(list), NEW tracker, NEW less, Fit(tracker, list, less),
         NEW j \in 1..Len(list), NEW change, change.tool = "update",
         change.to \in {"done", "deleted"}, change.id = list[j].id,
         NEW new, NEW call, NEW id, Took(tracker, new, call, id, change),
         NEW after, after = After(list, change, call)
  PROVE  \E then : Fit(new, after, then) /\ Begins(after, then, list, less)
<1>1. /\ Len(list) \in Nat
      /\ \A i \in 1..Len(list) : list[i] \in [key : K, id : I, done : BOOLEAN]
  BY LenProperties, ElementOfSeq
<1>2. \A i \in 1..Len(list) : list[i].key # NoKey
  BY <1>1
<1>3. /\ less \in 0..Len(list) /\ Len(list) - less <= MaxSteps
      /\ tracker.tasks = Shown(list, less) /\ tracker.keys = Named(list, less)
  BY DEF Fit
<1>4. PICK key :
        /\ key = Get(tracker.keys, change.id, NoKey)
        /\ \/ key \notin Keys(tracker.tasks) /\ new.tasks = tracker.tasks
                /\ new.keys = tracker.keys
           \/ /\ key \in Keys(tracker.tasks) /\ change.to = "deleted"
              /\ new.tasks = Popped(tracker.tasks, key)
              /\ new.keys = OtherNames(tracker.keys, key)
           \/ /\ key \in Keys(tracker.tasks) /\ change.to # "deleted"
              /\ new.tasks = Assigned(tracker.tasks, key, TRUE)
              /\ new.keys = tracker.keys
  BY DEF Took
<1>5. key = Get(Named(list, less), list[j].id, NoKey)
  BY <1>3, <1>4
<1>6. /\ j > less => key = list[j].key /\ key \in Keys(tracker.tasks)
      /\ j <= less => key \notin Keys(tracker.tasks)
  BY <1>1, <1>2, <1>3, <1>5, GetNamed
<1>7. less \in Nat /\ j \in Nat /\ (j > less \/ j <= less)
  BY <1>1, <1>3
<1>8. CASE change.to = "deleted"
  <2>1. after = Without(list, j)
    BY <1>8, DeletedIs
  <2>2. /\ Len(after) = Len(list) - 1
        /\ j > less => /\ Shown(after, less) = Without(Shown(list, less), j - less)
                       /\ Named(after, less) = Without(Named(list, less), j - less)
        /\ j <= less => /\ Shown(after, less - 1) = Shown(list, less)
                        /\ Named(after, less - 1) = Named(list, less)
    BY <1>1, <1>3, <2>1, ShownWithout
  <2>3. \A i \in 1..Len(after) : after[i] = IF i < j THEN list[i] ELSE list[i + 1]
    BY <2>1, <2>2 DEF Without
  <2>4. CASE j > less
    <3>1. PICK old, keys, m, n : /\ old = tracker.tasks /\ keys = tracker.keys
                                 /\ m = Len(list) - less /\ n = j - less
      OBVIOUS
    <3>2. /\ n \in 1..m /\ m \in Nat /\ less + n = j
          /\ \A i \in 1..m : less + i \in 1..Len(list)
          /\ \A i \in 1..m : less + i = j => i = n
      BY <1>1, <1>3, <2>4, <3>1
    <3>3. /\ Len(old) = m /\ Len(keys) = m
          /\ \A i \in 1..m : /\ old[i] = Item(list[less + i].key, list[less + i].done)
                             /\ keys[i] = Item(list[less + i].id, list[less + i].key)
      <4>1. old = Shown(list, less) /\ keys = Named(list, less)
        BY <1>3, <3>1
      <4> QED
        BY <3>1, <3>2, <4>1 DEF Shown, Named
    <3>4. \A i \in 1..m : old[i].key = list[less + i].key
                          /\ keys[i].value = list[less + i].key
      BY <3>3 DEF Item
    <3>5. key = list[j].key
      BY <1>6, <2>4
    <3>6. \A i \in 1..m : /\ old[i].key = key <=> i = n
                          /\ keys[i].value = key <=> i = n
      BY <3>2, <3>4, <3>5 DEF Distinct
    <3>7. Popped(old, key) = Without(old, n)
      <4>1. Single(old)
        <5>1. ASSUME NEW a \in 1..m, NEW b \in 1..m, old[a].key = old[b].key PROVE a = b
          <6>1. list[less + a].key = list[less + b].key
            BY <3>4, <5>1
          <6>2. less + a = less + b
            BY <3>2, <6>1 DEF Distinct
          <6> QED
            BY <1>7, <6>2
        <5> QED
          BY <3>3, <5>1 DEF Single
      <4>2. old \in Seq({old[i] : i \in 1..m})
        <5>1. old = [i \in 1..m |-> old[i]]
          BY <1>3, <3>1 DEF Shown
        <5>2. PICK T : T = {old[i] : i \in 1..m}
          OBVIOUS
        <5>3. old \in [1..m -> T]
          BY <5>1, <5>2
        <5>4. old \in Seq(T)
          BY <3>2, <5>3, ListedIn
        <5> QED
          BY <5>2, <5>4
      <4> QED
        BY <3>2, <3>3, <3>6, <4>1, <4>2, PoppedIsWithout
    <3>8. OtherNames(keys, key) = Without(keys, n)
      <4>1. /\ Len(keys) \in Nat /\ n \in 1..Len(keys)
            /\ \A i \in 1..Len(keys) : keys[i].value = key <=> i = n
        BY <3>2, <3>3, <3>6
      <4> QED
        BY <4>1, OthersAre
    <3>9. new.tasks = Shown(after, less) /\ new.keys = Named(after, less)
      BY <1>3, <1>4, <1>6, <1>8, <2>2, <2>4, <3>1, <3>7, <3>8
    <3>10. less \in 0..Len(after) /\ Len(after) - less <= MaxSteps
      BY <1>1, <1>3, <2>2, <2>4, TrackerAssumption
    <3>11. \A i \in 1..less : after[i].key = list[i].key
      BY <1>7, <2>3, <2>4, <3>10
    <3> QED
      BY <3>9, <3>10, <3>11 DEF Fit, Begins
  <2>5. CASE j <= less
    <3>1. new.tasks = Shown(after, less - 1) /\ new.keys = Named(after, less - 1)
      BY <1>3, <1>4, <1>6, <2>2, <2>5
    <3>2. less - 1 \in 0..Len(after) /\ Len(after) - (less - 1) <= MaxSteps
      BY <1>1, <1>3, <2>2, <2>5
    <3>3. ASSUME NEW i \in 1..(less - 1) PROVE \E k \in 1..less : after[i].key = list[k].key
      <4>1. i \in 1..Len(after) /\ i \in 1..less /\ i + 1 \in 1..less
        BY <1>1, <1>3, <2>2
      <4> QED
        BY <2>3, <4>1
    <3> QED
      BY <3>1, <3>2, <3>3 DEF Fit, Begins
  <2> QED
    BY <1>7, <2>4, <2>5
<1>9. CASE change.to = "done"
  <2>1. after = [i \in 1..Len(list) |-> IF list[i].id = list[j].id
                                         THEN [list[i] EXCEPT !.done = TRUE] ELSE list[i]]
    BY <1>9, DoneIs
  <2>2. Dones(after, list, less, j)
    <3>1. less \in 0..Len(list)
      BY <1>3
    <3> QED
      BY <2>1, <3>1, ShownDone
  <2>3. new.tasks = Shown(after, less) /\ new.keys = Named(after, less)
    <3>1. CASE j > less
      BY <1>3, <1>4, <1>6, <1>9, <2>2, <3>1 DEF Dones
    <3>2. CASE j <= less
      BY <1>3, <1>4, <1>6, <2>2, <3>2 DEF Dones
    <3> QED
      BY <1>7, <3>1, <3>2
  <2>4. \A i \in 1..less : i \in 1..Len(list)
    BY <1>3
  <2> QED
    BY <1>3, <2>2, <2>3, <2>4 DEF Dones, Fit, Begins
<1> QED
  BY <1>8, <1>9

\* A list that goes on with a step.
Longer(after, list, step) ==
  /\ Len(after) = Len(list) + 1
  /\ \A i \in 1..Len(list) : after[i] = list[i]
  /\ after[Len(list) + 1] = step

\* Which is what a sequence is with one element more.
LEMMA AppendedIs ==
  ASSUME NEW S, NEW list \in Seq(S), NEW step, NEW after, after = Append(list, step)
  PROVE  Longer(after, list, step)
<1>1. PICK T : T = S \cup {step}
  OBVIOUS
<1>2. list \in Seq(T) /\ step \in T
  BY <1>1, SeqMonotonic
<1> QED
  BY <1>2, AppendProperties DEF Longer

\* The end of a list that a key is assigned in that it did not have.
LEMMA EndTakes ==
  ASSUME NEW m \in Nat, NEW less \in 0..m, m - less <= MaxSteps, NEW f,
         NEW s, IsEnd(s, f, m, less),
         NEW key, NEW value, f[m + 1] = Item(key, value),
         \A i \in 1..m : f[i].key # key,
         NEW d, d = IF m - less < MaxSteps THEN 0 ELSE 1
  PROVE  IsEnd(Bounded(Assigned(s, key, value), MaxSteps), f, m + 1, less + d)
<1>1. MaxSteps \in Nat \ {0}
  BY TrackerAssumption
<1>2. \A i \in 1..(m - less) : less + i \in 1..m
  OBVIOUS
<1>3. Len(s) = m - less /\ \A i \in 1..(m - less) : s[i] = f[less + i]
  <2>1. s = [i \in 1..(m - less) |-> f[less + i]] /\ m - less \in Nat
    BY DEF IsEnd
  <2> QED
    BY <2>1
<1>4. key \notin Keys(s)
  <2> SUFFICES ASSUME NEW i \in 1..(m - less) PROVE s[i].key # key
    BY <1>3 DEF Keys
  <2>1. s[i] = f[less + i] /\ less + i \in 1..m
    BY <1>2, <1>3
  <2> QED
    BY <2>1
<1>5. Assigned(s, key, value) = Append(s, f[m + 1])
  BY <1>4 DEF Assigned
<1> QED
  BY <1>1, <1>5, EndGrows

\* A tracker that has the end of a list has the end of the list with a task more, and
\* loses one if it is full.
LEMMA CreateFits ==
  ASSUME NEW S, NEW list \in Seq(S), NEW tracker, NEW less, Fit(tracker, list, less),
         NEW call, NEW id, NEW change, change.tool = "create",
         \A i \in 1..Len(list) : list[i].key # call /\ list[i].id # id,
         NEW after, after = Append(list, Step(call, id, FALSE)),
         NEW new, Took(tracker, new, call, id, change),
         NEW d, d = IF Len(list) - less < MaxSteps THEN 0 ELSE 1
  PROVE  Fit(new, after, less + d)
<1>1. PICK m : m = Len(list)
  OBVIOUS
<1>2. /\ m \in Nat /\ less \in 0..m /\ m - less <= MaxSteps
      /\ tracker.tasks = Shown(list, less) /\ tracker.keys = Named(list, less)
      /\ MaxSteps \in Nat \ {0}
      /\ d = IF m - less < MaxSteps THEN 0 ELSE 1
  BY <1>1, LenProperties, TrackerAssumption DEF Fit
<1>3. /\ Len(after) = m + 1
      /\ \A i \in 1..m : after[i] = list[i]
      /\ after[m + 1] = Step(call, id, FALSE)
  <2>1. PICK step : step = Step(call, id, FALSE)
    OBVIOUS
  <2>2. after = Append(list, step)
    BY <2>1
  <2>3. Longer(after, list, step)
    BY <2>2, AppendedIs
  <2> QED
    BY <1>1, <2>1, <2>3 DEF Longer
<1>4. after[m + 1].key = call /\ after[m + 1].id = id /\ after[m + 1].done = FALSE
  BY <1>3 DEF Step
<1>5. \A i \in 1..(m - less) : less + i \in 1..m
  BY <1>2
<1>6. /\ less + d \in 0..(m + 1) /\ (m + 1) - (less + d) <= MaxSteps
      /\ \A i \in 1..((m + 1) - (less + d)) : less + d + i \in 1..(m + 1)
      /\ m + 1 \in 1..(m + 1) /\ \A i \in 1..m : i \in 1..(m + 1)
  BY <1>2
<1>7. \A i \in 1..m : after[i].key # call /\ after[i].id # id
  BY <1>1, <1>3
<1>8. /\ new.tasks = Bounded(Assigned(tracker.tasks, call, FALSE), MaxSteps)
      /\ new.keys = Bounded(Assigned(tracker.keys, id, call), MaxSteps)
  BY DEF Took
<1>9. new.tasks = Shown(after, less + d)
  <2> DEFINE F(i) == Item(after[i].key, after[i].done)
  <2>1. PICK f : f = [i \in 1..(m + 1) |-> F(i)]
    OBVIOUS
  <2>2. \A i \in 1..(m + 1) : f[i] = F(i)
    <3> HIDE DEF F
    <3> QED
      BY <2>1
  <2>3. PICK s : s = tracker.tasks
    OBVIOUS
  <2>4. \A i \in 1..(m - less) : Item(list[less + i].key, list[less + i].done) = f[less + i]
    BY <1>3, <1>5, <1>6, <2>2
  <2>5. IsEnd(s, f, m, less)
    <3>1. s = [i \in 1..(m - less) |-> Item(list[less + i].key, list[less + i].done)]
      BY <1>1, <1>2, <2>3 DEF Shown
    <3>2. s = [i \in 1..(m - less) |-> f[less + i]]
      BY <2>4, <3>1
    <3> QED
      BY <3>2 DEF IsEnd
  <2>6. f[m + 1] = Item(call, FALSE)
    BY <1>4, <1>6, <2>2
  <2>7. \A i \in 1..m : f[i].key # call
    <3> SUFFICES ASSUME NEW i \in 1..m PROVE f[i].key # call
      OBVIOUS
    <3>1. PICK a, b : a = after[i].key /\ b = after[i].done
      OBVIOUS
    <3>2. f[i] = [key |-> a, value |-> b]
      BY <1>6, <2>2, <3>1 DEF Item
    <3>3. a # call
      BY <1>7, <3>1
    <3> QED
      BY <3>2, <3>3
  <2>8. IsEnd(Bounded(Assigned(s, call, FALSE), MaxSteps), f, m + 1, less + d)
    <3> HIDE DEF F
    <3> QED
      BY <1>2, <2>5, <2>6, <2>7, EndTakes
  <2>9. Shown(after, less + d) = [i \in 1..((m + 1) - (less + d)) |-> F(less + d + i)]
    BY <1>3 DEF Shown
  <2>10. \A i \in 1..((m + 1) - (less + d)) : f[less + d + i] = F(less + d + i)
    <3> HIDE DEF F
    <3> QED
      BY <1>6, <2>2
  <2> HIDE DEF F
  <2> QED
    <3>0. new.tasks = Bounded(Assigned(s, call, FALSE), MaxSteps)
      BY <1>8, <2>3
    <3>1. new.tasks = [i \in 1..((m + 1) - (less + d)) |-> f[less + d + i]]
      BY <2>8, <3>0 DEF IsEnd
    <3> DEFINE A(i) == f[less + d + i]
               B(i) == F(less + d + i)
               places == 1..((m + 1) - (less + d))
    <3>2. \A i \in places : A(i) = B(i)
      BY <2>10
    <3>3. [i \in places |-> A(i)] = [i \in places |-> B(i)]
      <4> HIDE DEF A, B, places
      <4> QED
        BY <3>2
    <3> QED
      BY <2>9, <3>1, <3>3
<1>10. new.keys = Named(after, less + d)
  <2> DEFINE F(i) == Item(after[i].id, after[i].key)
  <2>1. PICK f : f = [i \in 1..(m + 1) |-> F(i)]
    OBVIOUS
  <2>2. \A i \in 1..(m + 1) : f[i] = F(i)
    <3> HIDE DEF F
    <3> QED
      BY <2>1
  <2>3. PICK s : s = tracker.keys
    OBVIOUS
  <2>4. \A i \in 1..(m - less) : Item(list[less + i].id, list[less + i].key) = f[less + i]
    BY <1>3, <1>5, <1>6, <2>2
  <2>5. IsEnd(s, f, m, less)
    <3>1. s = [i \in 1..(m - less) |-> Item(list[less + i].id, list[less + i].key)]
      BY <1>1, <1>2, <2>3 DEF Named
    <3>2. s = [i \in 1..(m - less) |-> f[less + i]]
      BY <2>4, <3>1
    <3> QED
      BY <3>2 DEF IsEnd
  <2>6. f[m + 1] = Item(id, call)
    BY <1>4, <1>6, <2>2
  <2>7. \A i \in 1..m : f[i].key # id
    <3> SUFFICES ASSUME NEW i \in 1..m PROVE f[i].key # id
      OBVIOUS
    <3>1. PICK a, b : a = after[i].id /\ b = after[i].key
      OBVIOUS
    <3>2. f[i] = [key |-> a, value |-> b]
      BY <1>6, <2>2, <3>1 DEF Item
    <3>3. a # id
      BY <1>7, <3>1
    <3> QED
      BY <3>2, <3>3
  <2>8. IsEnd(Bounded(Assigned(s, id, call), MaxSteps), f, m + 1, less + d)
    <3> HIDE DEF F
    <3> QED
      BY <1>2, <2>5, <2>6, <2>7, EndTakes
  <2>9. Named(after, less + d) = [i \in 1..((m + 1) - (less + d)) |-> F(less + d + i)]
    BY <1>3 DEF Named
  <2>10. \A i \in 1..((m + 1) - (less + d)) : f[less + d + i] = F(less + d + i)
    <3> HIDE DEF F
    <3> QED
      BY <1>6, <2>2
  <2> HIDE DEF F
  <2> QED
    <3>0. new.keys = Bounded(Assigned(s, id, call), MaxSteps)
      BY <1>8, <2>3
    <3>1. new.keys = [i \in 1..((m + 1) - (less + d)) |-> f[less + d + i]]
      BY <2>8, <3>0 DEF IsEnd
    <3> DEFINE A(i) == f[less + d + i]
               B(i) == F(less + d + i)
               places == 1..((m + 1) - (less + d))
    <3>2. \A i \in places : A(i) = B(i)
      BY <2>10
    <3>3. [i \in places |-> A(i)] = [i \in places |-> B(i)]
      <4> HIDE DEF A, B, places
      <4> QED
        BY <3>2
    <3> QED
      BY <2>9, <3>1, <3>3
<1> QED
  BY <1>3, <1>6, <1>9, <1>10 DEF Fit

\* The steps of a list were made in its conversation.
Kept(steps, list, v) ==
  \A i \in 1..Len(list) : \E a \in 1..Len(steps) : steps[a] = Item(list[i].key, v)

\* Steps that have all the others had, in the same places.
Grown(then, steps) ==
  \A i \in 1..Len(steps) : i \in 1..Len(then) /\ then[i] = steps[i]

\* Steps made later leave what is behind behind.
LEMMA BehindStays ==
  ASSUME NEW steps, NEW then, Grown(then, steps), NEW key, NEW v, Behind(steps, key, v)
  PROVE  Behind(then, key, v)
<1>1. PICK a \in 1..Len(steps) :
        /\ steps[a].key = key
        /\ \E f \in [1..MaxSteps -> 1..Len(steps)] :
             /\ \A i, j \in 1..MaxSteps : f[i] = f[j] => i = j
             /\ \A i \in 1..MaxSteps : f[i] > a /\ steps[f[i]].value = v
  BY DEF Behind
<1>2. PICK f \in [1..MaxSteps -> 1..Len(steps)] :
        /\ \A i, j \in 1..MaxSteps : f[i] = f[j] => i = j
        /\ \A i \in 1..MaxSteps : f[i] > a /\ steps[f[i]].value = v
  BY <1>1
<1>3. f \in [1..MaxSteps -> 1..Len(then)]
  BY <1>2 DEF Grown
<1>4. \A i \in 1..MaxSteps : f[i] > a /\ then[f[i]].value = v
  BY <1>2 DEF Grown
<1>5. a \in 1..Len(then) /\ then[a].key = key
  BY <1>1 DEF Grown
<1> QED
  BY <1>2, <1>3, <1>4, <1>5 DEF Behind

\* A task that has as many behind it in the list as a tracker holds has as many made
\* since.
LEMMA EvictedIsBehind ==
  ASSUME NEW steps, NEW list, NEW v, Len(list) \in Nat, ByTask(steps, list),
         Distinct(list), Kept(steps, list, v), NEW n \in 1..Len(list),
         n + MaxSteps <= Len(list)
  PROVE  Behind(steps, list[n].key, v)
<1>1. MaxSteps \in Nat \ {0}
  BY TrackerAssumption
<1> DEFINE at(i) == CHOOSE a \in 1..Len(steps) : steps[a] = Item(list[i].key, v)
<1>2. \A i \in 1..Len(list) : /\ at(i) \in 1..Len(steps)
                              /\ steps[at(i)].key = list[i].key
                              /\ steps[at(i)].value = v
  <2>1. \A i \in 1..Len(list) : /\ at(i) \in 1..Len(steps)
                                /\ steps[at(i)] = Item(list[i].key, v)
    BY DEF Kept
  <2> HIDE DEF at
  <2>2. ASSUME NEW i \in 1..Len(list)
        PROVE  steps[at(i)].key = list[i].key /\ steps[at(i)].value = v
    <3>1. steps[at(i)] = [key |-> list[i].key, value |-> v]
      BY <2>1 DEF Item
    <3> QED
      BY <3>1
  <2> QED
    BY <2>1, <2>2
<1> HIDE DEF at
<1>3. \A i, j \in 1..Len(list) : i < j => at(i) < at(j)
  BY <1>2 DEF ByTask
<1>4. \A i \in 1..MaxSteps : n + i \in 1..Len(list) /\ n < n + i
  BY <1>1
<1>5. PICK f : f = [i \in 1..MaxSteps |-> at(n + i)]
  OBVIOUS
<1>6. f \in [1..MaxSteps -> 1..Len(steps)]
  BY <1>2, <1>4, <1>5
<1>7. ASSUME NEW i \in 1..MaxSteps, NEW j \in 1..MaxSteps, f[i] = f[j] PROVE i = j
  <2>1. at(n + i) = at(n + j)
    BY <1>5, <1>7
  <2>2. list[n + i].key = list[n + j].key
    BY <1>2, <1>4, <2>1
  <2>3. n + i = n + j
    BY <1>4, <2>2 DEF Distinct
  <2> QED
    BY <1>1, <2>3
<1>8. \A i \in 1..MaxSteps : f[i] > at(n) /\ steps[f[i]].value = v
  BY <1>2, <1>3, <1>4, <1>5
<1> QED
  BY <1>2, <1>6, <1>7, <1>8 DEF Behind

\* No task of a list kept task by task is there twice.
LEMMA TasksDiffer ==
  ASSUME NEW steps, NEW list, Len(list) \in Nat, ByTask(steps, list), NEW v,
         Kept(steps, list, v)
  PROVE  Distinct(list)
<1>1. ASSUME NEW i \in 1..Len(list), NEW j \in 1..Len(list), i < j
      PROVE  list[i].key # list[j].key
  <2>1. PICK a \in 1..Len(steps) : steps[a] = Item(list[i].key, v)
    BY DEF Kept
  <2>2. steps[a].key = list[i].key
    BY <2>1 DEF Item
  <2> QED
    BY <1>1, <2>2 DEF ByTask
<1>2. \A i, j \in 1..Len(list) : i # j => i < j \/ j < i
  OBVIOUS
<1>3. \A i, j \in 1..Len(list) : list[i].key = list[j].key => i = j
  BY <1>1, <1>2
<1> QED
  BY <1>3 DEF ByTask, Distinct

\* A step that nobody has yet is not in a list.
LEMMA NotYet ==
  ASSUME NEW steps, NEW list, NEW v, Kept(steps, list, v), NEW call,
         \A a \in 1..Len(steps) : steps[a].key # call
  PROVE  \A i \in 1..Len(list) : list[i].key # call
<1> SUFFICES ASSUME NEW i \in 1..Len(list) PROVE list[i].key # call
  OBVIOUS
<1>1. PICK a \in 1..Len(steps) : steps[a] = Item(list[i].key, v)
  BY DEF Kept
<1>2. steps[a].key = list[i].key
  BY <1>1 DEF Item
<1> QED
  BY <1>2

\* A step more leaves the tasks of a list that does not have it in their order.
LEMMA OrderStays ==
  ASSUME NEW steps, Len(steps) \in Nat, NEW then, NEW item, Longer(then, steps, item),
         NEW list, \A i \in 1..Len(list) : list[i].key # item.key, ByTask(steps, list)
  PROVE  ByTask(then, list)
<1>1. /\ Len(then) = Len(steps) + 1 /\ then[Len(steps) + 1] = item
      /\ \A a \in 1..Len(steps) : then[a] = steps[a]
  BY DEF Longer
<1>2. ASSUME NEW i \in 1..Len(list), NEW a \in 1..Len(then), then[a].key = list[i].key
      PROVE  a \in 1..Len(steps) /\ steps[a].key = list[i].key
  <2>1. a # Len(steps) + 1
    BY <1>1, <1>2
  <2>2. a \in 1..Len(steps)
    BY <1>1, <2>1
  <2> QED
    BY <1>1, <1>2, <2>2
<1>3. ASSUME NEW i \in 1..Len(list), NEW j \in 1..Len(list),
             NEW a \in 1..Len(then), NEW b \in 1..Len(then),
             i < j, then[a].key = list[i].key, then[b].key = list[j].key
      PROVE  a < b
  BY <1>2, <1>3 DEF ByTask
<1>4. WritesTasks(list) /\ \A i, j \in 1..Len(list) : list[i].id = list[j].id => i = j
  BY DEF ByTask
<1> QED
  BY <1>3, <1>4 DEF ByTask

\* A step more is a growth.
LEMMA LongerGrows ==
  ASSUME NEW steps, Len(steps) \in Nat, NEW then, NEW item, Longer(then, steps, item)
  PROVE  Grown(then, steps)
BY DEF Longer, Grown

\* A list that a task was added to, with an id it did not use.
Creates(after, list, call, id) ==
  /\ id = FreeId(list) /\ id # NoId
  /\ \A i \in 1..Len(list) : list[i].id # id
  /\ after = Append(list, Step(call, id, FALSE))
  /\ Longer(after, list, Step(call, id, FALSE))

\* The task made last comes last, in the list and among the steps.
LEMMA OrderGrows ==
  ASSUME NEW steps, Len(steps) \in Nat, NEW then, NEW v, NEW call,
         Longer(then, steps, Item(call, v)), \A a \in 1..Len(steps) : steps[a].key # call,
         NEW list, Len(list) \in Nat, Kept(steps, list, v), ByTask(steps, list),
         NEW after, NEW id, Creates(after, list, call, id)
  PROVE  ByTask(then, after)
<1>0. /\ Longer(after, list, Step(call, id, FALSE)) /\ id # NoId
      /\ \A i \in 1..Len(list) : list[i].id # id
  BY DEF Creates
<1>1. \A i \in 1..Len(list) : list[i].key # call
  BY NotYet
<1>2. ByTask(then, list)
  <2>1. Item(call, v).key = call
    BY DEF Item
  <2>2. PICK item : item = Item(call, v)
    OBVIOUS
  <2>3. Longer(then, steps, item) /\ \A i \in 1..Len(list) : list[i].key # item.key
    BY <1>1, <2>1, <2>2
  <2> QED
    BY <2>3, OrderStays
<1>3. /\ Len(after) = Len(list) + 1
      /\ \A i \in 1..Len(list) : after[i] = list[i]
      /\ after[Len(list) + 1].key = call /\ after[Len(list) + 1].id = id
  BY <1>0 DEF Longer, Step
<1>4. /\ Len(then) = Len(steps) + 1 /\ \A a \in 1..Len(steps) : then[a] = steps[a]
      /\ then[Len(steps) + 1].key = call
  BY DEF Longer, Item
<1>5. \A i \in 1..Len(after) : i \in 1..Len(list) \/ i = Len(list) + 1
  BY <1>3
<1>6. WritesTasks(after) /\ \A i, j \in 1..Len(after) : after[i].id = after[j].id => i = j
  BY <1>0, <1>2, <1>3, <1>5 DEF WritesTasks, ByTask
<1>7. ASSUME NEW i \in 1..Len(after), NEW j \in 1..Len(after),
             NEW a \in 1..Len(then), NEW b \in 1..Len(then),
             i < j, then[a].key = after[i].key, then[b].key = after[j].key
      PROVE  a < b
  <2>1. i \in 1..Len(list) /\ after[i] = list[i]
    BY <1>3, <1>7
  <2>2. CASE j \in 1..Len(list)
    <3>1. after[j] = list[j]
      BY <1>3, <2>2
    <3> QED
      BY <1>2, <1>7, <2>1, <2>2, <3>1 DEF ByTask
  <2>3. CASE j = Len(list) + 1
    <3>1. then[b].key = call /\ then[a].key # call
      BY <1>1, <1>3, <1>7, <2>1, <2>3
    <3>2. a # Len(steps) + 1
      BY <1>4, <3>1
    <3>3. b \notin 1..Len(steps)
      BY <1>4, <3>1
    <3> QED
      BY <1>4, <3>2, <3>3
  <2> QED
    BY <1>5, <2>2, <2>3
<1> QED
  BY <1>6, <1>7 DEF ByTask

\* Tasks of a list that are left keep their order.
Thinned(after, list) ==
  \E g \in [1..Len(after) -> 1..Len(list)] :
    /\ \A i, j \in 1..Len(after) : i < j => g[i] < g[j]
    /\ \A i \in 1..Len(after) : /\ after[i].key = list[g[i]].key
                                /\ after[i].id = list[g[i]].id

\* So they are kept task by task as they were.
LEMMA OrderThins ==
  ASSUME NEW steps, NEW list, Len(list) \in Nat, ByTask(steps, list), NEW after,
         Len(after) \in Nat, Thinned(after, list)
  PROVE  ByTask(steps, after)
<1>1. PICK g \in [1..Len(after) -> 1..Len(list)] :
        /\ \A i, j \in 1..Len(after) : i < j => g[i] < g[j]
        /\ \A i \in 1..Len(after) : /\ after[i].key = list[g[i]].key
                                    /\ after[i].id = list[g[i]].id
  BY DEF Thinned
<1>2. \A i \in 1..Len(after) : g[i] \in 1..Len(list)
  OBVIOUS
<1>3. WritesTasks(after)
  BY <1>1, <1>2 DEF ByTask, WritesTasks
<1>4. ASSUME NEW i \in 1..Len(after), NEW j \in 1..Len(after), after[i].id = after[j].id
      PROVE  i = j
  <2>0. PICK p \in 1..Len(list), q \in 1..Len(list) : p = g[i] /\ q = g[j]
    BY <1>2
  <2>1. g[i] = g[j]
    <3>1. list[p].id = list[q].id
      BY <1>1, <1>4, <2>0
    <3>2. p = q
      BY <3>1 DEF ByTask
    <3> QED
      BY <2>0, <3>2
  <2>2. ~(i < j) /\ ~(j < i)
    BY <1>1, <1>2, <2>1
  <2> QED
    BY <2>2
<1>5. ASSUME NEW i \in 1..Len(after), NEW j \in 1..Len(after),
             NEW a \in 1..Len(steps), NEW b \in 1..Len(steps),
             i < j, steps[a].key = after[i].key, steps[b].key = after[j].key
      PROVE  a < b
  <2>1. PICK p \in 1..Len(list), q \in 1..Len(list) : p = g[i] /\ q = g[j]
    BY <1>2
  <2>2. p < q /\ steps[a].key = list[p].key /\ steps[b].key = list[q].key
    BY <1>1, <1>5, <2>1
  <2> QED
    BY <2>2 DEF ByTask
<1> QED
  BY <1>3, <1>4, <1>5 DEF ByTask

\* What an update leaves of a list.
LEMMA UpdateThins ==
  ASSUME NEW K, NEW I, NEW list \in Seq([key : K, id : I, done : BOOLEAN]),
         Distinct(list), NEW j \in 1..Len(list), NEW change, change.tool = "update",
         change.to \in {"done", "deleted"}, change.id = list[j].id, NEW call,
         NEW after, after = After(list, change, call)
  PROVE  Thinned(after, list) /\ Len(after) \in Nat
<1>1. PICK m : m = Len(list)
  OBVIOUS
<1>2. m \in Nat /\ j \in 1..m
  BY <1>1, LenProperties
<1>3. CASE change.to = "deleted"
  <2>0. PICK S : S = [key : K, id : I, done : BOOLEAN]
    OBVIOUS
  <2>1. after = [i \in 1..(m - 1) |-> IF i < j THEN list[i] ELSE list[i + 1]]
    <3>1. list \in Seq(S)
      BY <2>0
    <3>2. After(list, change, call) = Without(list, j)
      BY <1>3, <3>1, DeletedIs
    <3> QED
      BY <1>1, <3>2 DEF Without
  <2>2. Len(after) = m - 1 /\ m - 1 \in Nat
    BY <1>2, <2>1
  <2>3. PICK g : g = [i \in 1..(m - 1) |-> IF i < j THEN i ELSE i + 1]
    OBVIOUS
  <2>4. g \in [1..(m - 1) -> 1..m] /\ \A i, k \in 1..(m - 1) : i < k => g[i] < g[k]
    BY <1>2, <2>3
  <2>5. \A i \in 1..(m - 1) : after[i] = list[g[i]]
    BY <2>1, <2>3
  <2>6. g \in [1..Len(after) -> 1..Len(list)]
    BY <1>1, <2>2, <2>4
  <2>7. \A i \in 1..Len(after) : /\ after[i].key = list[g[i]].key
                                 /\ after[i].id = list[g[i]].id
    BY <2>2, <2>5
  <2>8. \A i, k \in 1..Len(after) : i < k => g[i] < g[k]
    BY <2>2, <2>4
  <2> QED
    BY <2>2, <2>6, <2>7, <2>8 DEF Thinned
<1>4. CASE change.to = "done"
  <2>1. after = [i \in 1..Len(list) |-> IF list[i].id = list[j].id
                                         THEN [list[i] EXCEPT !.done = TRUE] ELSE list[i]]
    BY <1>4, DoneIs
  <2>2. 0 \in 0..Len(list)
    BY <1>1, <1>2
  <2>3. Dones(after, list, 0, j)
    BY <2>1, <2>2, ShownDone
  <2>4. PICK g : g = [i \in 1..m |-> i]
    OBVIOUS
  <2>5. Len(after) = m /\ \A i \in 1..m : /\ after[i].key = list[i].key
                                           /\ after[i].id = list[i].id
    BY <1>1, <2>3 DEF Dones
  <2>6. \A i \in 1..m : g[i] = i
    BY <2>4
  <2>7. g \in [1..Len(after) -> 1..Len(list)]
    BY <1>1, <2>4, <2>5
  <2>8. \A i \in 1..Len(after) : /\ after[i].key = list[g[i]].key
                                 /\ after[i].id = list[g[i]].id
    BY <2>5, <2>6
  <2>9. \A i, k \in 1..Len(after) : i < k => g[i] < g[k]
    BY <2>5, <2>6
  <2> QED
    BY <1>2, <2>5, <2>7, <2>8, <2>9 DEF Thinned
<1> QED
  BY <1>3, <1>4

\* A call that has succeeded makes its step if it is in the list then.
Makes(then, steps, after, call, v) ==
  then = IF \E i \in 1..Len(after) : after[i].key = call
           THEN Append(steps, Item(call, v)) ELSE steps

\* That is what adding a task makes of a list.
LEMMA CreateIs ==
  ASSUME NEW S, NEW list \in Seq(S), NEW change, change.tool = "create", NEW call,
         NEW after, after = After(list, change, call)
  PROVE  \E id : Creates(after, list, call, id)
<1>1. PICK id, step : id = FreeId(list) /\ step = Step(call, id, FALSE)
  OBVIOUS
<1>2. Len(list) \in Nat
  BY LenProperties
<1>3. id \in 1..(Len(list) + 1) /\ \A i \in 1..Len(list) : list[i].id # id
  BY <1>1, <1>2, FreeIdIs
<1>4. id # NoId
  BY <1>2, <1>3 DEF NoId
<1>5. after = Append(list, step)
  BY <1>1 DEF After
<1>6. Longer(after, list, step)
  BY <1>5, AppendedIs
<1> QED
  BY <1>1, <1>3, <1>4, <1>5, <1>6 DEF Creates

\* To add a task makes a step, which comes last.
LEMMA CreateOrders ==
  ASSUME NEW T, NEW steps \in Seq(T), NEW v, NEW call,
         \A a \in 1..Len(steps) : steps[a].key # call,
         NEW S, NEW list \in Seq(S), Kept(steps, list, v), ByTask(steps, list),
         NEW change, change.tool = "create", NEW after, after = After(list, change, call),
         NEW then, Makes(then, steps, after, call, v)
  PROVE  Longer(then, steps, Item(call, v)) /\ ByTask(then, after)
<1>1. PICK id : Creates(after, list, call, id)
  BY CreateIs
<1>2. /\ Longer(after, list, Step(call, id, FALSE)) /\ id # NoId
      /\ \A i \in 1..Len(list) : list[i].id # id
  BY <1>1 DEF Creates
<1>3. Len(list) \in Nat /\ Len(steps) \in Nat
  BY LenProperties
<1>4. Len(list) + 1 \in 1..Len(after) /\ after[Len(list) + 1].key = call
  BY <1>2, <1>3 DEF Longer, Step
<1>5. PICK item : item = Item(call, v)
  OBVIOUS
<1>6. then = Append(steps, item)
  BY <1>4, <1>5 DEF Makes
<1>7. Longer(then, steps, item)
  BY <1>6, AppendedIs
<1>8. Longer(then, steps, Item(call, v))
  BY <1>5, <1>7
<1>9. ByTask(then, after)
  BY <1>1, <1>3, <1>8, OrderGrows
<1> QED
  BY <1>8, <1>9

\* A tracker that has the end of a list has its end when a task is added.
LEMMA CreateSyncs ==
  ASSUME NEW T, NEW steps \in Seq(T), NEW v, NEW call,
         \A a \in 1..Len(steps) : steps[a].key # call,
         NEW S, NEW list \in Seq(S), Kept(steps, list, v), ByTask(steps, list),
         NEW change, change.tool = "create", NEW after, after = After(list, change, call),
         NEW then, Makes(then, steps, after, call, v), Kept(then, after, v),
         NEW tracker, Follows(steps, tracker, list, v),
         NEW new, NEW id, id = FreeId(list), Took(tracker, new, call, id, change)
  PROVE  Follows(then, new, after, v)
<1>1. Creates(after, list, call, id)
  <2>1. PICK free : Creates(after, list, call, free)
    BY CreateIs
  <2> QED
    BY <2>1 DEF Creates
<1>2. Longer(then, steps, Item(call, v)) /\ ByTask(then, after)
  BY CreateOrders
<1>3. PICK less \in 0..Len(list) : /\ Fit(tracker, list, less)
                                   /\ \A i \in 1..less : Behind(steps, list[i].key, v)
  BY DEF Follows
<1>4. Len(list) \in Nat /\ Len(steps) \in Nat /\ MaxSteps \in Nat \ {0}
  BY LenProperties, TrackerAssumption
<1>5. PICK d : d = IF Len(list) - less < MaxSteps THEN 0 ELSE 1
  OBVIOUS
<1>6. \A i \in 1..Len(list) : list[i].key # call
  BY NotYet
<1>7. Fit(new, after, less + d)
  <2>1. /\ after = Append(list, Step(call, id, FALSE))
        /\ \A i \in 1..Len(list) : list[i].key # call /\ list[i].id # id
    BY <1>1, <1>6 DEF Creates
  <2> QED
    BY <1>3, <1>5, <2>1, CreateFits
<1>8. Len(after) = Len(list) + 1 /\ \A i \in 1..Len(list) : after[i] = list[i]
  BY <1>1 DEF Creates, Longer
<1>9. Grown(then, steps)
  BY <1>2, <1>4, LongerGrows
<1>10. less + d \in 0..Len(after)
  BY <1>3, <1>4, <1>5, <1>8
<1>11. ASSUME NEW i \in 1..(less + d) PROVE Behind(then, after[i].key, v)
  <2>1. i \in 1..less \/ (d = 1 /\ i = less + 1)
    BY <1>3, <1>4, <1>5
  <2>2. CASE i \in 1..less
    <3>1. after[i] = list[i]
      BY <1>3, <1>4, <1>8, <2>2
    <3>2. Behind(steps, after[i].key, v)
      BY <1>3, <2>2, <3>1
    <3> QED
      BY <1>9, <3>2, BehindStays
  <2>3. CASE d = 1 /\ i = less + 1
    <3>1. Len(list) - less <= MaxSteps
      BY <1>3 DEF Fit
    <3>2. /\ Len(after) \in Nat /\ i \in 1..Len(after) /\ i + MaxSteps <= Len(after)
      BY <1>3, <1>4, <1>5, <1>8, <2>3, <3>1
    <3>3. Distinct(after)
      BY <1>2, <3>2, TasksDiffer
    <3> QED
      BY <1>2, <3>2, <3>3, EvictedIsBehind
  <2> QED
    BY <2>1, <2>2, <2>3
<1> QED
  BY <1>7, <1>10, <1>11 DEF Follows

\* And when one is done or deleted.
LEMMA UpdateSyncs ==
  ASSUME NEW steps, NEW v,
         NEW K, NEW I, NEW list \in Seq([key : K, id : I, done : BOOLEAN]), NoKey \notin K,
         Kept(steps, list, v), ByTask(steps, list),
         NEW j \in 1..Len(list), NEW change, change.tool = "update",
         change.to \in {"done", "deleted"}, change.id = list[j].id, NEW call,
         NEW after, after = After(list, change, call),
         NEW tracker, Follows(steps, tracker, list, v),
         NEW new, NEW id, Took(tracker, new, call, id, change)
  PROVE  Follows(steps, new, after, v)
<1>1. PICK less \in 0..Len(list) : /\ Fit(tracker, list, less)
                                   /\ \A i \in 1..less : Behind(steps, list[i].key, v)
  BY DEF Follows
<1>2. Distinct(list)
  <2>1. Len(list) \in Nat
    BY LenProperties
  <2> QED
    BY <2>1, TasksDiffer
<1>3. PICK then : Fit(new, after, then) /\ Begins(after, then, list, less)
  BY <1>1, <1>2, UpdateFits
<1>4. then \in 0..Len(after) /\ \A i \in 1..then : \E k \in 1..less : after[i].key = list[k].key
  BY <1>3 DEF Begins
<1>5. \A i \in 1..then : Behind(steps, after[i].key, v)
  BY <1>1, <1>4
<1> QED
  BY <1>3, <1>4, <1>5 DEF Follows

\* Of a list that is written whole a tracker takes the head.
LEMMA TodosSyncs ==
  ASSUME NEW K, NEW change, change.tool = "todos",
         change.steps \in Seq([key : K, value : BOOLEAN]),
         change.steps # <<>>, NEW list, NEW call,
         NEW after, after = After(list, change, call),
         NEW tracker, NEW new, NEW id, Took(tracker, new, call, id, change)
  PROVE  after # <<>> /\ Heads(new.tasks, after)
<1>1. PICK steps, n, kept :
        /\ steps = change.steps
        /\ n = IF Len(steps) < MaxSteps THEN Len(steps) ELSE MaxSteps
        /\ kept = SubSeq(steps, 1, n)
  OBVIOUS
<1>2. Len(steps) \in Nat /\ MaxSteps \in Nat \ {0} /\ Len(steps) # 0
  BY <1>1, LenProperties, EmptySeq, TrackerAssumption
<1>3. n \in Nat /\ n # 0 /\ n <= Len(steps) /\ \A i \in 1..n : i \in 1..Len(steps)
  BY <1>1, <1>2
<1>4. Len(kept) = n /\ \A i \in 1..n : kept[i] = steps[i]
  <2>1. \A i \in 1..n : steps[i] \in [key : K, value : BOOLEAN]
    <3>1. \A i \in 1..Len(steps) : steps[i] \in [key : K, value : BOOLEAN]
      BY <1>1, ElementOfSeq
    <3> QED
      BY <1>3, <3>1
  <2>2. /\ Len(kept) = IF 1 <= n THEN n - 1 + 1 ELSE 0
        /\ \A i \in 1..(n - 1 + 1) : kept[i] = steps[1 + i - 1]
    BY <1>1, <1>3, <2>1, SubSeqProperties
  <2> QED
    BY <1>3, <2>2
<1>5. new.tasks = kept
  <2>1. kept # <<>>
    BY <1>3, <1>4
  <2> QED
    BY <1>1, <2>1 DEF Took
<1>6. after = [i \in 1..Len(steps) |-> Step(steps[i].key, NoId, steps[i].value)]
  BY <1>1 DEF After
<1>7. Len(after) = Len(steps)
  BY <1>2, <1>6
<1>8. ASSUME NEW i \in 1..n PROVE kept[i] = Item(after[i].key, after[i].done)
  <2>1. steps[i] \in [key : K, value : BOOLEAN] /\ kept[i] = steps[i]
    BY <1>1, <1>3, <1>4, ElementOfSeq
  <2>2. PICK key \in K, value \in BOOLEAN : steps[i] = [key |-> key, value |-> value]
    <3>1. PICK e : e = steps[i]
      OBVIOUS
    <3>2. e \in [key : K, value : BOOLEAN]
      BY <2>1, <3>1
    <3>3. \E key \in K, value \in BOOLEAN : e = [key |-> key, value |-> value]
      BY <3>2
    <3> QED
      BY <3>1, <3>3
  <2>3. after[i] = [key |-> key, id |-> NoId, done |-> value]
    BY <1>3, <1>6, <2>2 DEF Step
  <2> QED
    BY <2>1, <2>2, <2>3 DEF Item
<1> QED
  BY <1>1, <1>2, <1>4, <1>5, <1>7, <1>8 DEF Heads

\* A call that has succeeded: what it makes of the list of its conversation, and
\* of the steps.
Succeeds(steps, then, list, after, v, call, change) ==
  /\ \E T : steps \in Seq(T)
  /\ \A a \in 1..Len(steps) : steps[a].key # call
  /\ \E K, I : NoKey \notin K /\ list \in Seq([key : K, id : I, done : BOOLEAN])
  /\ Kept(steps, list, v) /\ Kept(then, after, v)
  /\ WritesWhole(list) \/ ByTask(steps, list)
  /\ change.tool \in {"create", "update", "todos"}
  /\ change.tool = "update" => change.to \in {"done", "deleted"} /\ change.id # NoId
  /\ change.tool = "todos" => \E K : change.steps \in Seq([key : K, value : BOOLEAN])
  /\ Possible(list, change)
  /\ after = After(list, change, call) /\ Makes(then, steps, after, call, v)

\* A list that a task is added to is kept task by task.
LEMMA CreateByTask ==
  ASSUME NEW steps, NEW list, Len(list) \in Nat, WritesWhole(list) \/ ByTask(steps, list),
         WritesTasks(list)
  PROVE  ByTask(steps, list)
<1>1. CASE WritesWhole(list)
  <2>1. \A i \in 1..Len(list) : FALSE
    BY <1>1 DEF WritesWhole, WritesTasks
  <2> QED
    BY <2>1 DEF ByTask
<1> QED
  BY <1>1

\* An update is of a task, so it leaves the steps alone.
LEMMA UpdateIs ==
  ASSUME NEW steps, NEW then, NEW list, NEW after, NEW v, NEW call, NEW change,
         Succeeds(steps, then, list, after, v, call, change), change.tool = "update"
  PROVE  /\ \E j \in 1..Len(list) : change.id = list[j].id
         /\ ByTask(steps, list) /\ then = steps
         /\ Thinned(after, list) /\ Len(after) \in Nat
<1>1. PICK K, I : NoKey \notin K /\ list \in Seq([key : K, id : I, done : BOOLEAN])
  BY DEF Succeeds
<1>2. PICK j \in 1..Len(list) : change.id = list[j].id
  BY DEF Succeeds, Possible
<1>3. ByTask(steps, list)
  BY <1>2 DEF Succeeds, WritesWhole
<1>4. Kept(steps, list, v) /\ \A a \in 1..Len(steps) : steps[a].key # call
  BY DEF Succeeds
<1>5. Distinct(list)
  <2>1. Len(list) \in Nat
    BY <1>1, LenProperties
  <2> QED
    BY <1>3, <1>4, <2>1, TasksDiffer
<1>6. Thinned(after, list) /\ Len(after) \in Nat
  <2>1. change.to \in {"done", "deleted"} /\ after = After(list, change, call)
    BY DEF Succeeds
  <2> QED
    BY <1>1, <1>2, <1>5, <2>1, UpdateThins
<1>7. then = steps
  <2>1. \A i \in 1..Len(list) : list[i].key # call
    BY <1>4, NotYet
  <2>2. \A i \in 1..Len(after) : after[i].key # call
    BY <1>6, <2>1 DEF Thinned
  <2> QED
    BY <2>2 DEF Succeeds, Makes
<1> QED
  BY <1>2, <1>3, <1>6, <1>7

\* A call that succeeds leaves a list either written whole or kept task by task, in
\* the order the tasks were made.
LEMMA ShapeSettles ==
  ASSUME NEW steps, NEW then, NEW list, NEW after, NEW v, NEW call, NEW change,
         Succeeds(steps, then, list, after, v, call, change)
  PROVE  WritesWhole(after) \/ ByTask(then, after)
<1>1. PICK T, K, I : /\ steps \in Seq(T) /\ NoKey \notin K
                     /\ list \in Seq([key : K, id : I, done : BOOLEAN])
  BY DEF Succeeds
<1>2. /\ Kept(steps, list, v) /\ \A a \in 1..Len(steps) : steps[a].key # call
      /\ after = After(list, change, call) /\ Makes(then, steps, after, call, v)
      /\ change.tool \in {"create", "update", "todos"}
  BY DEF Succeeds
<1>3. CASE change.tool = "create"
  <2>1. ByTask(steps, list)
    <3>1. Len(list) \in Nat /\ WritesTasks(list)
      BY <1>1, <1>3, LenProperties DEF Succeeds, Possible
    <3> QED
      BY <3>1, CreateByTask DEF Succeeds
  <2>2. ByTask(then, after)
    BY <1>1, <1>2, <1>3, <2>1, CreateOrders
  <2> QED
    BY <2>2
<1>4. CASE change.tool = "update"
  <2>1. ByTask(steps, list) /\ then = steps /\ Thinned(after, list) /\ Len(after) \in Nat
    BY <1>4, UpdateIs
  <2>2. Len(list) \in Nat
    BY <1>1, LenProperties
  <2>3. ByTask(steps, after)
    BY <2>1, <2>2, OrderThins
  <2> QED
    BY <2>1, <2>3
<1>5. CASE change.tool = "todos"
  <2>1. PICK named : named = change.steps
    OBVIOUS
  <2>2. after = [i \in 1..Len(named) |-> Step(named[i].key, NoId, named[i].value)]
    BY <1>2, <1>5, <2>1 DEF After
  <2>3. Len(named) \in Nat
    BY <1>5, <2>1, LenProperties DEF Succeeds
  <2>4. Len(after) = Len(named)
    BY <2>2, <2>3
  <2>5. \A i \in 1..Len(after) : after[i].id = NoId
    BY <2>2, <2>4 DEF Step
  <2> QED
    BY <2>5 DEF WritesWhole
<1> QED
  BY <1>2, <1>3, <1>4, <1>5

\* And a tracker that takes it over stays in step with the list, unless the list is
\* written empty.
LEMMA SyncSettles ==
  ASSUME NEW steps, NEW then, NEW list, NEW after, NEW v, NEW call, NEW change,
         Succeeds(steps, then, list, after, v, call, change),
         change.tool = "todos" => change.steps # <<>>,
         NEW tracker, InSync(steps, tracker, list, v),
         NEW new, NEW id, id = FreeId(list), Took(tracker, new, call, id, change)
  PROVE  InSync(then, new, after, v)
<1>1. PICK T, K, I : /\ steps \in Seq(T) /\ NoKey \notin K
                     /\ list \in Seq([key : K, id : I, done : BOOLEAN])
  BY DEF Succeeds
<1>2. /\ Kept(steps, list, v) /\ \A a \in 1..Len(steps) : steps[a].key # call
      /\ after = After(list, change, call) /\ Makes(then, steps, after, call, v)
      /\ change.tool \in {"create", "update", "todos"} /\ Kept(then, after, v)
  BY DEF Succeeds
<1>3. Len(list) \in Nat
  BY <1>1, LenProperties
\* Of a list written whole no task has an id.
<1>4. ASSUME WritesTasks(list) PROVE Follows(steps, tracker, list, v)
  <2>1. CASE list # <<>> /\ WritesWhole(list)
    <3>1. \A i \in 1..Len(list) : FALSE
      BY <1>4, <2>1 DEF WritesWhole, WritesTasks
    <3>2. Len(list) = 0
      BY <1>3, <3>1
    <3> QED
      BY <1>1, <2>1, <3>2, EmptySeq
  <2> QED
    BY <2>1 DEF InSync
<1>5. CASE change.tool = "create"
  <2>1. WritesTasks(list)
    BY <1>5 DEF Succeeds, Possible
  <2>2. ByTask(steps, list)
    BY <1>3, <2>1, CreateByTask DEF Succeeds
  <2>3. Follows(steps, tracker, list, v)
    BY <1>4, <2>1
  <2>4. Follows(then, new, after, v)
    BY <1>1, <1>2, <1>5, <2>2, <2>3, CreateSyncs
  <2>5. ByTask(then, after)
    BY <1>1, <1>2, <1>5, <2>2, CreateOrders
  <2> QED
    BY <2>4, <2>5 DEF InSync, ByTask
<1>6. CASE change.tool = "update"
  <2>1. PICK j \in 1..Len(list) : change.id = list[j].id
    BY <1>6, UpdateIs
  <2>2. /\ ByTask(steps, list) /\ then = steps
        /\ Thinned(after, list) /\ Len(after) \in Nat
    BY <1>6, UpdateIs
  <2>3. Follows(steps, tracker, list, v)
    BY <1>4, <2>2 DEF ByTask
  <2>4. change.to \in {"done", "deleted"}
    BY <1>6 DEF Succeeds
  <2>5. Follows(steps, new, after, v)
    BY <1>1, <1>2, <1>6, <2>1, <2>2, <2>3, <2>4, UpdateSyncs
  <2>6. ByTask(steps, after)
    BY <1>3, <2>2, OrderThins
  <2> QED
    BY <2>2, <2>5, <2>6 DEF InSync, ByTask
<1>7. CASE change.tool = "todos"
  <2>1. PICK J : change.steps \in Seq([key : J, value : BOOLEAN])
    BY <1>7 DEF Succeeds
  <2>2. after # <<>> /\ Heads(new.tasks, after)
    BY <1>2, <1>7, <2>1, TodosSyncs
  <2>3. WritesWhole(after)
    <3>1. PICK named : named = change.steps
      OBVIOUS
    <3>2. after = [i \in 1..Len(named) |-> Step(named[i].key, NoId, named[i].value)]
      BY <1>2, <1>7, <3>1 DEF After
    <3>3. Len(named) \in Nat
      BY <2>1, <3>1, LenProperties
    <3>4. Len(after) = Len(named)
      BY <3>2, <3>3
    <3>5. \A i \in 1..Len(after) : after[i].id = NoId
      BY <3>2, <3>4 DEF Step
    <3> QED
      BY <3>5 DEF WritesWhole
  <2> QED
    BY <2>2, <2>3 DEF InSync
<1> QED
  BY <1>2, <1>5, <1>6, <1>7

(***************************************************************************)
(* What a step changes of the turns.                                       *)
(***************************************************************************)
\* A turn is asked for.
Requests(t, x, v) ==
  /\ \A u \in Turns \ {t} : turns'[u] = turns[u]
  /\ turns[t].state = "idle" /\ turns[t].conversation = NoTurn
  /\ turns'[t].state = "requested" /\ turns'[t].context = x /\ turns'[t].resume = v
  /\ turns'[t].conversation = NoTurn
  /\ v # NoTurn => Item(x, v) \in Entries(sessionIds)
  /\ mixed \subseteq mixed'
  /\ UNCHANGED <<sessionIds, plans, trackers, lists, inFlight, calls, made, missed>>

\* It is driven, on the tracker of its conversation or on a new one.
Drives(t, r, v) ==
  /\ \A u \in Turns \ {t} : turns'[u] = turns[u]
  /\ turns[t].state = "requested" /\ turns[t].conversation = NoTurn
  /\ turns'[t].state = "running" /\ turns'[t].tracker = r /\ turns'[t].conversation = v
  /\ turns'[t].context = turns[t].context /\ turns'[t].resume = turns[t].resume
  /\ v = IF turns[t].resume # NoTurn THEN turns[t].resume ELSE t
  /\ r = t /\ turns[t].resume # NoTurn /\ lists[v] # <<>> => v \in missed'
  /\ r # t => Item(turns[t].context, r) \in Entries(plans)
  /\ \A e \in Entries(plans') : \/ e = Item(turns[t].context, r)
                                \/ e \in Entries(plans) /\ e.key # turns[t].context
  /\ missed \subseteq missed'
  /\ UNCHANGED <<sessionIds, trackers, lists, inFlight, calls, made, mixed>>

\* It comes to its end: its conversation may be remembered.
Rests(t) ==
  /\ \A u \in Turns \ {t} : turns'[u] = turns[u]
  /\ turns'[t].state \in {"running", "ended"} => turns[t].state \in {"running", "ended"}
  /\ turns'[t].context = turns[t].context /\ turns'[t].resume = turns[t].resume
  /\ turns'[t].conversation = turns[t].conversation
  /\ turns'[t].tracker = turns[t].tracker
  /\ \A e \in Entries(sessionIds') :
       \/ e \in Entries(sessionIds)
       \/ /\ turns[t].conversation # NoTurn
          /\ e = Item(turns[t].context, turns[t].conversation)
  /\ inFlight' \subseteq inFlight /\ missed \subseteq missed'
  /\ UNCHANGED <<plans, trackers, lists, calls, made, mixed>>

LEMMA RequestActs ==
  ASSUME IInv, CourseInv, NEW t \in Turns, NEW x \in Contexts, Request(t, x)
  PROVE  \E v \in Turns \cup {NoTurn} : Requests(t, x, v)
<1>0. DOMAIN turns = Turns /\ DOMAIN turns[t] = {"state", "context", "resume",
                                                 "conversation", "tracker"}
  BY DEF IInv, TurnsInv
<1>1. PICK v \in Turns \cup {NoTurn} :
         /\ turns' = [turns EXCEPT ![t].state = "requested", ![t].context = x,
                                   ![t].resume = v]
         /\ turns[t].state = "idle" /\ turns[t].conversation = NoTurn
         /\ v # NoTurn => \E s \in Entries(sessionIds) : s = Item(x, v)
         /\ mixed \subseteq mixed'
  BY RequestIs
<1>2. /\ \A u \in Turns \ {t} : turns'[u] = turns[u]
      /\ turns'[t].state = "requested" /\ turns'[t].context = x /\ turns'[t].resume = v
      /\ turns'[t].conversation = NoTurn
  BY <1>0, <1>1
<1>3. UNCHANGED <<sessionIds, plans, trackers, lists, inFlight, calls, made, missed>>
  BY DEF Request, cacheVars, listVars
<1> QED
  BY <1>1, <1>2, <1>3 DEF Requests

LEMMA DriveActs ==
  ASSUME IInv, CourseInv, NEW t \in Turns, Drive(t)
  PROVE  \E r \in Turns, v \in Turns : Drives(t, r, v)
<1>0. DOMAIN turns = Turns /\ DOMAIN turns[t] = {"state", "context", "resume",
                                                 "conversation", "tracker"}
  BY DEF IInv, TurnsInv
<1>1. PICK r \in Turns, v \in Turns : Driven(t, r, v)
  BY DriveIs
<1>2. /\ turns' = [turns EXCEPT ![t].state = "running", ![t].tracker = r,
                                ![t].conversation = v]
      /\ turns[t].state = "requested" /\ turns[t].conversation = NoTurn
      /\ v = IF turns[t].resume # NoTurn THEN turns[t].resume ELSE t
      /\ r = t => ~Inherits(t)
      /\ r # t => Item(turns[t].context, r) \in Entries(plans)
      /\ \A e \in Entries(plans') : \/ e = Item(turns[t].context, r)
                                    \/ e \in Entries(plans) /\ e.key # turns[t].context
  BY <1>1 DEF Driven
<1>3. /\ \A u \in Turns \ {t} : turns'[u] = turns[u]
      /\ turns'[t].state = "running" /\ turns'[t].tracker = r /\ turns'[t].conversation = v
      /\ turns'[t].context = turns[t].context /\ turns'[t].resume = turns[t].resume
  BY <1>0, <1>2
<1>4. /\ missed' = IF turns[t].resume # NoTurn /\ ~Inherits(t) /\ lists[turns[t].resume] # <<>>
                     THEN missed \cup {turns[t].resume} ELSE missed
      /\ UNCHANGED <<sessionIds, trackers, lists, inFlight, calls, made, mixed>>
  BY DEF Drive, listVars
<1>5. missed \subseteq missed'
  BY <1>4
<1>6. r = t /\ turns[t].resume # NoTurn /\ lists[v] # <<>> => v \in missed'
  BY <1>2, <1>4
<1> QED
  BY <1>2, <1>3, <1>4, <1>5, <1>6 DEF Drives

LEMMA RestActs ==
  ASSUME IInv, CourseInv, NEW t \in Turns, End(t) \/ Stop(t) \/ Remember(t)
  PROVE  Rests(t)
<1>0. DOMAIN turns = Turns /\ DOMAIN turns[t] = {"state", "context", "resume",
                                                 "conversation", "tracker"}
  BY DEF IInv, TurnsInv
<1>1. /\ \/ turns' = [turns EXCEPT ![t].state = "ended"] /\ turns[t].state = "running"
         \/ turns' = [turns EXCEPT ![t].state = "over"]
      /\ inFlight' \subseteq inFlight /\ missed \subseteq missed'
      /\ UNCHANGED <<plans, trackers, lists, calls, made, mixed>>
  <2>1. CASE End(t)
    BY <2>1 DEF End, cacheVars, listVars
  <2>2. CASE Stop(t)
    BY <2>2 DEF Stop, cacheVars
  <2>3. CASE Remember(t)
    BY <2>3 DEF Remember, listVars
  <2> QED
    BY <2>1, <2>2, <2>3
<1>2. PICK state : /\ turns' = [turns EXCEPT ![t].state = state]
                   /\ state \in {"running", "ended"} => turns[t].state = "running"
  <2>1. CASE turns' = [turns EXCEPT ![t].state = "over"]
    <3>1. "over" \notin {"running", "ended"}
      OBVIOUS
    <3> QED
      BY <2>1, <3>1
  <2>2. CASE turns' = [turns EXCEPT ![t].state = "ended"] /\ turns[t].state = "running"
    BY <2>2
  <2> QED
    BY <1>1, <2>1, <2>2
<1>3. /\ \A u \in Turns \ {t} : turns'[u] = turns[u]
      /\ turns'[t].state = state
      /\ turns'[t].context = turns[t].context /\ turns'[t].resume = turns[t].resume
      /\ turns'[t].conversation = turns[t].conversation
      /\ turns'[t].tracker = turns[t].tracker
  BY <1>0, <1>2
<1>4. ASSUME NEW e \in Entries(sessionIds')
      PROVE  \/ e \in Entries(sessionIds)
             \/ /\ turns[t].conversation # NoTurn
                /\ e = Item(turns[t].context, turns[t].conversation)
  <2>1. CASE Remember(t)
    <3>1. turns[t].state = "ended"
      BY <2>1 DEF Remember
    <3>2. Course(t)
      BY DEF CourseInv
    <3>3. turns[t].conversation # NoTurn
      BY <3>1, <3>2, TurnsAssumption DEF Course
    <3>4. \A s \in Entries(sessionIds') :
              \/ s = Item(turns[t].context, turns[t].conversation)
              \/ s \in Entries(sessionIds) /\ s.key # turns[t].context
      BY <2>1, RememberIs
    <3> QED
      BY <3>3, <3>4
  <2>2. CASE End(t) \/ Stop(t)
    <3>1. sessionIds' = sessionIds
      BY <2>2 DEF End, Stop, cacheVars
    <3> QED
      BY <3>1
  <2> QED
    BY <2>1, <2>2
<1> QED
  BY <1>1, <1>2, <1>3, <1>4 DEF Rests

\* A call is made, by a turn that works with a tracker on a conversation.
Uses(t, r, v, call, change) ==
  /\ turns[t].state = "running" /\ turns[t].conversation = v /\ turns[t].tracker = r
  /\ turns[r].context = turns[t].context
  /\ change \in Changes(lists[v])
  /\ call = calls + 1 /\ calls' = call
  /\ inFlight' = inFlight \cup {[call |-> call, turn |-> t, change |-> change]}
  /\ \A u \in Turns \ {r} : trackers'[u] = trackers[u]
  /\ trackers'[r] = Noted(trackers[r], call, change)
  /\ \A d \in inFlight : d.turn = t /\ d.call \notin Keys(trackers'[r].calls)
                           => v \in missed'
  /\ missed \subseteq missed'
  /\ UNCHANGED <<turns, sessionIds, plans, lists, made, mixed>>

LEMMA UseActs ==
  ASSUME CourseInv, WorkInv, NEW t \in Turns, turns[t].state = "running",
         NEW change \in Changes(lists[turns[t].conversation]), Use(t, change)
  PROVE  \E r \in Turns, v \in Turns : \E call : Uses(t, r, v, call, change)
<1>1. Course(t)
  BY DEF CourseInv
<1>2. PICK r \in Turns, v \in Turns : r = turns[t].tracker /\ v = turns[t].conversation
  BY <1>1 DEF Course
<1>3. turns[r].context = turns[t].context
  BY <1>1, <1>2 DEF Course
<1>4. PICK call, c, noted : /\ call = calls + 1
                            /\ c = [call |-> call, turn |-> t, change |-> change]
                            /\ noted = Noted(trackers[r], call, change)
  OBVIOUS
<1>5. /\ calls' = call /\ inFlight' = inFlight \cup {c}
      /\ trackers' = [trackers EXCEPT ![r] = noted]
      /\ missed' = IF {d \in InFlight(t) : d.call \notin Keys(noted.calls)} = {}
                     THEN missed ELSE missed \cup {v}
      /\ UNCHANGED <<turns, sessionIds, plans, lists, made, mixed>>
  <2>1. c.call = call /\ c.turn = t /\ c.change = change
    BY <1>4
  <2>2. Use(t, change)
    OBVIOUS
  <2> QED
    BY <1>2, <1>4, <2>1, <2>2 DEF Use, cacheVars
<1>6. DOMAIN trackers = Turns
  BY DEF WorkInv
<1>7. /\ \A u \in Turns \ {r} : trackers'[u] = trackers[u]
      /\ trackers'[r] = noted
  BY <1>5, <1>6
<1>8. missed \subseteq missed'
  <2>1. missed' = missed \/ missed' = missed \cup {v}
    BY <1>5
  <2> QED
    BY <2>1
<1>9. ASSUME NEW d \in inFlight, d.turn = t, d.call \notin Keys(noted.calls)
      PROVE  v \in missed'
  <2>1. d \in {e \in InFlight(t) : e.call \notin Keys(noted.calls)}
    BY <1>9 DEF InFlight
  <2> QED
    BY <1>5, <2>1
<1> QED
  BY <1>2, <1>3, <1>4, <1>5, <1>7, <1>8, <1>9 DEF Uses

\* A call has its result.
Settles(c, ok, r, v) ==
  /\ turns[c.turn].state = "running"
  /\ turns[c.turn].conversation = v /\ turns[c.turn].tracker = r
  /\ turns[r].context = turns[c.turn].context /\ turns[r].conversation \in Turns
  /\ ok => Possible(lists[v], c.change)
  /\ inFlight' = inFlight \ {c}
  /\ \A u \in Turns \ {v} : lists'[u] = lists[u]
  /\ lists'[v] = IF ok THEN After(lists[v], c.change, c.call) ELSE lists[v]
  /\ \A u \in Turns \ {r} : trackers'[u] = trackers[u]
  /\ trackers'[r] = Applied(trackers[r], c.call, ok, FreeId(lists[v]))
  /\ Makes(made', made, lists'[v], c.call, v)
  /\ missed \subseteq missed'
  /\ ok /\ c.change = Todos(<<>>) => v \in missed'
  /\ UNCHANGED <<turns, sessionIds, plans, calls, mixed>>

LEMMA SettleActs ==
  ASSUME CourseInv, WorkInv, NEW c \in inFlight, NEW ok \in BOOLEAN, Settle(c, ok)
  PROVE  c.turn \in Turns /\ \E r \in Turns, v \in Turns : Settles(c, ok, r, v)
<1>1. PICK t : t = c.turn
  OBVIOUS
<1>2. CallInv(c)
  BY DEF WorkInv
<1>3. t \in Turns /\ turns[t].state = "running"
  BY <1>1, <1>2 DEF CallInv
<1>4. Course(t)
  BY <1>3 DEF CourseInv
<1>5. PICK v \in Turns, r \in Turns : v = turns[t].conversation /\ r = turns[t].tracker
  BY <1>3, <1>4 DEF Course
<1>6. turns[r].context = turns[t].context /\ turns[r].conversation \in Turns
  BY <1>3, <1>4, <1>5 DEF Course
<1>7. PICK after, applied : /\ after = After(lists[v], c.change, c.call)
                            /\ applied = Applied(trackers[r], c.call, ok, FreeId(lists[v]))
  OBVIOUS
<1>8. /\ ok => Possible(lists[v], c.change)
      /\ inFlight' = inFlight \ {c}
      /\ lists' = IF ok THEN [lists EXCEPT ![v] = after] ELSE lists
      /\ trackers' = [trackers EXCEPT ![r] = applied]
      /\ made' = IF \E i \in 1..Len(lists'[v]) : lists'[v][i].key = c.call
                   THEN Append(made, Item(c.call, v)) ELSE made
      /\ missed' = IF ok /\ c.change = Todos(<<>>) THEN missed \cup {v} ELSE missed
      /\ UNCHANGED <<turns, sessionIds, plans, calls, mixed>>
  BY <1>1, <1>5, <1>7 DEF Settle, cacheVars
<1>9. DOMAIN lists = Turns /\ DOMAIN trackers = Turns
  BY DEF WorkInv
<1>10. /\ \A u \in Turns \ {v} : lists'[u] = lists[u]
       /\ lists'[v] = IF ok THEN after ELSE lists[v]
  BY <1>8, <1>9
<1>11. /\ \A u \in Turns \ {r} : trackers'[u] = trackers[u]
       /\ trackers'[r] = applied
  BY <1>8, <1>9
<1>12. missed \subseteq missed' /\ (ok /\ c.change = Todos(<<>>) => v \in missed')
  BY <1>8
<1>13. Makes(made', made, lists'[v], c.call, v)
  BY <1>8 DEF Makes
<1>14. /\ turns[c.turn].state = "running"
       /\ turns[c.turn].conversation = v /\ turns[c.turn].tracker = r
       /\ turns[r].context = turns[c.turn].context /\ turns[r].conversation \in Turns
  BY <1>1, <1>3, <1>5, <1>6
<1>15. /\ lists'[v] = IF ok THEN After(lists[v], c.change, c.call) ELSE lists[v]
       /\ trackers'[r] = Applied(trackers[r], c.call, ok, FreeId(lists[v]))
  BY <1>7, <1>10, <1>11
<1>16. /\ ok => Possible(lists[v], c.change)
       /\ inFlight' = inFlight \ {c}
       /\ UNCHANGED <<turns, sessionIds, plans, calls, mixed>>
  BY <1>8
<1>17. Settles(c, ok, r, v)
  BY <1>10, <1>11, <1>12, <1>13, <1>14, <1>15, <1>16 DEF Settles
<1> QED
  BY <1>1, <1>3, <1>17

\* The steps of a change, in one place.
LEMMA StepsAre ==
  ASSUME IInv, CourseInv, WorkInv, [Next]_vars
  PROVE  \/ \E t \in Turns, x \in Contexts, v \in Turns \cup {NoTurn} : Requests(t, x, v)
         \/ \E t, r, v \in Turns : Drives(t, r, v)
         \/ \E t \in Turns : Rests(t)
         \/ \E t, r, v \in Turns : \E call, change : Uses(t, r, v, call, change)
         \/ \E c \in inFlight, ok \in BOOLEAN, r, v \in Turns :
              c.turn \in Turns /\ Settles(c, ok, r, v)
         \/ UNCHANGED vars
<1>1. CASE UNCHANGED vars
  BY <1>1
<1>2. ASSUME NEW t \in Turns, NEW x \in Contexts, Request(t, x)
      PROVE  \E v \in Turns \cup {NoTurn} : Requests(t, x, v)
  BY <1>2, RequestActs
<1>3. ASSUME NEW t \in Turns, Drive(t)
      PROVE  \E r, v \in Turns : Drives(t, r, v)
  BY <1>3, DriveActs
<1>4. ASSUME NEW t \in Turns, End(t) \/ Stop(t) \/ Remember(t) PROVE Rests(t)
  BY <1>4, RestActs
<1>5. ASSUME NEW t \in Turns, turns[t].state = "running",
             NEW change \in Changes(lists[turns[t].conversation]), Use(t, change)
      PROVE  \E r, v \in Turns : \E call : Uses(t, r, v, call, change)
  BY <1>5, UseActs
<1>6. ASSUME NEW c \in inFlight, NEW ok \in BOOLEAN, Settle(c, ok)
      PROVE  c.turn \in Turns /\ \E r, v \in Turns : Settles(c, ok, r, v)
  BY <1>6, SettleActs
<1> QED
  BY <1>1, <1>2, <1>3, <1>4, <1>5, <1>6 DEF Next

\* The turn that began a conversation stays in its context.
LEMMA HomeStep ==
  ASSUME IInv, CourseInv, WorkInv, HomeInv, [Next]_vars
  PROVE  HomeInv'
<1>1. ASSUME NEW t \in Turns, NEW x \in Contexts, NEW v \in Turns \cup {NoTurn},
             Requests(t, x, v)
      PROVE  HomeInv'
  <2>1. /\ \A u \in Turns \ {t} : turns'[u] = turns[u]
        /\ turns[t].conversation = NoTurn /\ turns'[t].conversation = NoTurn
        /\ turns'[t].context = x /\ turns'[t].resume = v
        /\ v # NoTurn => Item(x, v) \in Entries(sessionIds)
        /\ sessionIds' = sessionIds
    BY <1>1 DEF Requests
  <2>2. ASSUME NEW u \in Turns \cup {NoTurn}, NEW y, Home(u, y), u # NoTurn PROVE Home(u, y)'
    <3>1. u # t /\ u \in Turns
      BY <2>1, <2>2, TurnsAssumption DEF Home
    <3> QED
      BY <2>1, <2>2, <3>1 DEF Home
  <2>3. ASSUME NEW u \in Turns
        PROVE  /\ turns'[u].conversation # NoTurn
                    => Home(turns[u].conversation, turns[u].context)'
               /\ turns'[u].resume # NoTurn => Home(turns[u].resume, turns[u].context)'
    <3>1. CASE u = t
      <4>1. v # NoTurn => Home(v, x)
        <5>1. ASSUME v # NoTurn PROVE Home(v, x)
          <6>1. PICK e : e = Item(x, v)
            OBVIOUS
          <6>2. e \in Entries(sessionIds) /\ e.key = x /\ e.value = v
            BY <2>1, <5>1, <6>1 DEF Item
          <6> QED
            BY <6>2 DEF HomeInv
        <5> QED
          BY <5>1
      <4>2. v # NoTurn => Home(v, x)'
        BY <2>2, <4>1
      <4> QED
        BY <2>1, <3>1, <4>2 DEF Home
    <3>2. CASE u # t
      <4>1. turns'[u] = turns[u]
        BY <2>1, <3>2
      <4>2. PICK a, b, y : a = turns[u].conversation /\ b = turns[u].resume
                           /\ y = turns[u].context
        OBVIOUS
      <4>3. (a # NoTurn => Home(a, y)) /\ (b # NoTurn => Home(b, y))
        BY <4>2 DEF HomeInv
      <4>4. a \in Turns \cup {NoTurn} /\ b \in Turns \cup {NoTurn}
        BY <4>2 DEF CourseInv, Course
      <4>5. (a # NoTurn => Home(a, y)') /\ (b # NoTurn => Home(b, y)')
        BY <2>2, <4>3, <4>4
      <4> QED
        BY <4>1, <4>2, <4>5 DEF Home
    <3> QED
      BY <3>1, <3>2
  <2>4. ASSUME NEW e \in Entries(sessionIds) PROVE Home(e.value, e.key)'
    <3>1. e \in Pairs
      BY ElementOfSeq DEF CourseInv, Entries
    <3>2. e.value \in Turns /\ e.value # NoTurn
      BY <3>1, TurnsAssumption DEF Pairs
    <3>3. PICK a, y : a = e.value /\ y = e.key
      OBVIOUS
    <3>4. Home(a, y)
      BY <3>3 DEF HomeInv
    <3>5. Home(a, y)'
      BY <2>2, <3>2, <3>3, <3>4
    <3> QED
      BY <3>3, <3>5 DEF Home
  <2> QED
    BY <2>1, <2>3, <2>4 DEF HomeInv, Entries
<1>2. ASSUME NEW t \in Turns, NEW r \in Turns, NEW v \in Turns, Drives(t, r, v)
      PROVE  HomeInv'
  <2>1. /\ \A u \in Turns \ {t} : turns'[u] = turns[u]
        /\ turns[t].conversation = NoTurn /\ turns'[t].conversation = v
        /\ turns'[t].context = turns[t].context /\ turns'[t].resume = turns[t].resume
        /\ v = IF turns[t].resume # NoTurn THEN turns[t].resume ELSE t
        /\ sessionIds' = sessionIds
    BY <1>2 DEF Drives
  <2>2. ASSUME NEW u \in Turns \cup {NoTurn}, NEW y, Home(u, y), u # NoTurn PROVE Home(u, y)'
    <3>1. u # t /\ u \in Turns
      BY <2>1, <2>2, TurnsAssumption DEF Home
    <3> QED
      BY <2>1, <2>2, <3>1 DEF Home
  <2>3. ASSUME NEW u \in Turns
        PROVE  /\ turns'[u].conversation # NoTurn
                    => Home(turns[u].conversation, turns[u].context)'
               /\ turns'[u].resume # NoTurn => Home(turns[u].resume, turns[u].context)'
    <3>1. PICK a, b, y : a = turns[u].conversation /\ b = turns[u].resume
                         /\ y = turns[u].context
      OBVIOUS
    <3>2. (a # NoTurn => Home(a, y)) /\ (b # NoTurn => Home(b, y))
      BY <3>1 DEF HomeInv
    <3>3. a \in Turns \cup {NoTurn} /\ b \in Turns \cup {NoTurn}
      BY <3>1 DEF CourseInv, Course
    <3>4. (a # NoTurn => Home(a, y)') /\ (b # NoTurn => Home(b, y)')
      BY <2>2, <3>2, <3>3
    <3>5. CASE u = t
      <4>1. turns'[u].resume = b /\ turns'[u].context = y /\ turns'[u].conversation = v
        BY <2>1, <3>1, <3>5
      <4>2. Home(v, y)'
        <5>1. CASE b # NoTurn
          BY <2>1, <3>1, <3>4, <3>5, <5>1
        <5>2. CASE b = NoTurn
          BY <2>1, <3>1, <3>5, <4>1, <5>2 DEF Home
        <5> QED
          BY <5>1, <5>2
      <4> QED
        BY <3>4, <4>1, <4>2 DEF Home
    <3>6. CASE u # t
      <4>1. turns'[u] = turns[u]
        BY <2>1, <3>6
      <4> QED
        BY <3>1, <3>4, <4>1 DEF Home
    <3> QED
      BY <3>5, <3>6
  <2>4. ASSUME NEW e \in Entries(sessionIds) PROVE Home(e.value, e.key)'
    <3>1. e \in Pairs
      BY ElementOfSeq DEF CourseInv, Entries
    <3>2. e.value \in Turns /\ e.value # NoTurn
      BY <3>1, TurnsAssumption DEF Pairs
    <3>3. PICK a, y : a = e.value /\ y = e.key
      OBVIOUS
    <3>4. Home(a, y)
      BY <3>3 DEF HomeInv
    <3>5. Home(a, y)'
      BY <2>2, <3>2, <3>3, <3>4
    <3> QED
      BY <3>3, <3>5 DEF Home
  <2> QED
    BY <2>1, <2>3, <2>4 DEF HomeInv, Entries
<1>3. ASSUME NEW t \in Turns, Rests(t) PROVE HomeInv'
  <2>1. \A u \in Turns : /\ turns'[u].conversation = turns[u].conversation
                         /\ turns'[u].resume = turns[u].resume
                         /\ turns'[u].context = turns[u].context
    BY <1>3 DEF Rests
  <2>2. ASSUME NEW u \in Turns \cup {NoTurn}, NEW y, Home(u, y), u # NoTurn PROVE Home(u, y)'
    BY <2>1, <2>2 DEF Home
  <2>3. ASSUME NEW u \in Turns
        PROVE  /\ turns'[u].conversation # NoTurn
                    => Home(turns[u].conversation, turns[u].context)'
               /\ turns'[u].resume # NoTurn => Home(turns[u].resume, turns[u].context)'
    <3>1. PICK a, b, y : a = turns[u].conversation /\ b = turns[u].resume
                         /\ y = turns[u].context
      OBVIOUS
    <3>2. (a # NoTurn => Home(a, y)) /\ (b # NoTurn => Home(b, y))
      BY <3>1 DEF HomeInv
    <3>3. a \in Turns \cup {NoTurn} /\ b \in Turns \cup {NoTurn}
      BY <3>1 DEF CourseInv, Course
    <3>4. (a # NoTurn => Home(a, y)') /\ (b # NoTurn => Home(b, y)')
      BY <2>2, <3>2, <3>3
    <3>5. turns'[u].conversation = a /\ turns'[u].resume = b /\ turns'[u].context = y
      BY <2>1, <3>1
    <3> QED
      BY <3>4, <3>5 DEF Home
  <2>4. ASSUME NEW e \in Entries(sessionIds') PROVE Home(e.value, e.key)'
    <3>1. PICK a, y : a = e.value /\ y = e.key
      OBVIOUS
    <3>2. Home(a, y) /\ a # NoTurn /\ a \in Turns \cup {NoTurn}
      <4>1. CASE e \in Entries(sessionIds)
        <5>1. e \in Pairs
          BY <4>1, ElementOfSeq DEF CourseInv, Entries
        <5> QED
          BY <3>1, <4>1, <5>1, TurnsAssumption DEF Pairs, HomeInv
      <4>2. CASE /\ turns[t].conversation # NoTurn
                 /\ e = Item(turns[t].context, turns[t].conversation)
        <5>1. a = turns[t].conversation /\ y = turns[t].context
          BY <3>1, <4>2 DEF Item
        <5> QED
          BY <4>2, <5>1 DEF HomeInv, CourseInv, Course
      <4> QED
        BY <1>3, <4>1, <4>2 DEF Rests
    <3>3. Home(a, y)'
      BY <2>2, <3>2
    <3> QED
      BY <3>1, <3>3 DEF Home
  <2> QED
    BY <2>3, <2>4 DEF HomeInv, Entries
<1>4. CASE UNCHANGED <<turns, sessionIds>>
  BY <1>4 DEF HomeInv, Home, Entries
<1>5. ASSUME NEW t \in Turns, NEW r \in Turns, NEW v \in Turns, NEW call, NEW change,
             Uses(t, r, v, call, change)
      PROVE  HomeInv'
  BY <1>4, <1>5 DEF Uses
<1>6. ASSUME NEW c \in inFlight, NEW ok \in BOOLEAN, NEW r \in Turns, NEW v \in Turns,
             Settles(c, ok, r, v)
      PROVE  HomeInv'
  BY <1>4, <1>6 DEF Settles
<1>7. CASE UNCHANGED vars
  BY <1>4, <1>7 DEF vars, cacheVars
<1> QED
  BY <1>1, <1>2, <1>3, <1>5, <1>6, <1>7, StepsAre

\* The plans have no tracker but the one that a turn under way works on.
LEMMA OneStep ==
  ASSUME IInv, CourseInv, LastInv, WorkInv, OneInv, [Next]_vars
  PROVE  OneInv'
<1>1. ASSUME NEW t \in Turns, NEW x \in Contexts, NEW v \in Turns \cup {NoTurn},
             Requests(t, x, v)
      PROVE  OneInv'
  <2> SUFFICES ASSUME NEW u \in Turns, NEW e \in Entries(plans)', Working(u)',
                      turns'[u].context \notin mixed', e.key = turns'[u].context
               PROVE  e.value = turns'[u].tracker
    BY DEF OneInv
  <2>1. u # t
    BY <1>1 DEF Requests, Working
  <2>2. turns'[u] = turns[u] /\ e \in Entries(plans) /\ turns[u].context \notin mixed
    BY <1>1, <2>1 DEF Requests, Entries
  <2> QED
    BY <2>2 DEF OneInv, Working
<1>2. ASSUME NEW t \in Turns, NEW r \in Turns, NEW v \in Turns, Drives(t, r, v)
      PROVE  OneInv'
  <2> SUFFICES ASSUME NEW u \in Turns, NEW e \in Entries(plans)', Working(u)',
                      turns'[u].context \notin mixed', e.key = turns'[u].context
               PROVE  e.value = turns'[u].tracker
    BY DEF OneInv
  <2>1. \/ e = Item(turns[t].context, r)
        \/ e \in Entries(plans) /\ e.key # turns[t].context
    BY <1>2 DEF Drives, Entries
  <2>2. turns'[u].context = turns[u].context /\ turns[u].context \notin mixed
    BY <1>2 DEF Drives
  <2>3. CASE u = t
    <3>1. e = Item(turns[t].context, r)
      BY <2>1, <2>2, <2>3
    <3> QED
      BY <1>2, <2>3, <3>1 DEF Drives, Item
  <2>4. CASE u # t
    <3>1. turns'[u] = turns[u] /\ Working(u)
      BY <1>2, <2>4 DEF Drives, Working
    <3>2. turns[u].context # turns[t].context
      <4> SUFFICES ASSUME turns[u].context = turns[t].context PROVE FALSE
        OBVIOUS
      <4>1. PICK x : x = turns[t].context
        OBVIOUS
      <4>2. t \in UnderWay(x) /\ u \in UnderWay(x)
        BY <1>2, <3>1, <4>1 DEF UnderWay, Drives, Working
      <4>3. x \in Contexts \ mixed
        BY <1>2, <2>2, <4>1 DEF Drives, IInv, TurnsInv
      <4> QED
        BY <2>4, <4>2, <4>3 DEF LastInv, Agree
    <3>3. e \in Entries(plans)
      BY <2>1, <2>2, <3>2 DEF Item
    <3> QED
      BY <2>2, <3>1, <3>3 DEF OneInv
  <2> QED
    BY <2>3, <2>4
<1>3. ASSUME NEW t \in Turns, Rests(t) PROVE OneInv'
  <2> SUFFICES ASSUME NEW u \in Turns, NEW e \in Entries(plans)', Working(u)',
                      turns'[u].context \notin mixed', e.key = turns'[u].context
               PROVE  e.value = turns'[u].tracker
    BY DEF OneInv
  <2>1. /\ turns'[u].context = turns[u].context /\ turns'[u].tracker = turns[u].tracker
        /\ Working(u) /\ e \in Entries(plans) /\ mixed' = mixed
    BY <1>3 DEF Rests, Working, Entries
  <2> QED
    BY <2>1 DEF OneInv
<1>4. CASE UNCHANGED <<turns, plans, mixed>>
  BY <1>4 DEF OneInv, Working, Entries
<1>5. ASSUME NEW t \in Turns, NEW r \in Turns, NEW v \in Turns, NEW call, NEW change,
             Uses(t, r, v, call, change)
      PROVE  OneInv'
  BY <1>4, <1>5 DEF Uses
<1>6. ASSUME NEW c \in inFlight, NEW ok \in BOOLEAN, NEW r \in Turns, NEW v \in Turns,
             Settles(c, ok, r, v)
      PROVE  OneInv'
  BY <1>4, <1>6 DEF Settles
<1>7. CASE UNCHANGED vars
  BY <1>4, <1>7 DEF vars, cacheVars
<1> QED
  BY <1>1, <1>2, <1>3, <1>5, <1>6, <1>7, StepsAre

\* An update names a task, by an id that is one.
LEMMA UpdatesName ==
  ASSUME NEW list, NEW change \in Changes(list), change.tool = "update"
  PROVE  change.id # NoId
<1>1. CASE change = Create
  BY <1>1 DEF Create
<1>2. ASSUME WritesTasks(list), NEW i \in 1..Len(list),
             change = Update(list[i].id, "done") \/ change = Update(list[i].id, "deleted")
      PROVE  change.id # NoId
  BY <1>2 DEF WritesTasks, Update
<1>3. ASSUME NEW steps, change = Todos(steps) PROVE FALSE
  BY <1>3 DEF Todos
<1> QED
  BY <1>1, <1>2, <1>3 DEF Changes

\* A step that makes no step leaves the calls as they are, but for a new one and some
\* that are over.
LEMMA CallsStay ==
  ASSUME CallsInv, made' = made, calls' = calls, inFlight' \subseteq inFlight
  PROVE  CallsInv'
BY DEF CallsInv

\* Each step is made once, and each call has one result.
LEMMA CallsStep ==
  ASSUME IInv, CourseInv, WorkInv, CallsInv, [Next]_vars
  PROVE  CallsInv'
<1>1. ASSUME NEW t \in Turns, NEW x \in Contexts, NEW v \in Turns \cup {NoTurn},
             Requests(t, x, v)
      PROVE  CallsInv'
  BY <1>1, CallsStay DEF Requests
<1>2. ASSUME NEW t \in Turns, NEW r \in Turns, NEW v \in Turns, Drives(t, r, v)
      PROVE  CallsInv'
  BY <1>2, CallsStay DEF Drives
<1>3. ASSUME NEW t \in Turns, Rests(t) PROVE CallsInv'
  BY <1>3, CallsStay DEF Rests
<1>4. CASE UNCHANGED vars
  BY <1>4, CallsStay DEF vars, listVars
<1>5. ASSUME NEW t \in Turns, NEW r \in Turns, NEW v \in Turns, NEW call, NEW change,
             Uses(t, r, v, call, change)
      PROVE  CallsInv'
  <2>1. PICK c : c = [call |-> call, turn |-> t, change |-> change]
    OBVIOUS
  <2>2. /\ call = calls + 1 /\ calls' = call /\ inFlight' = inFlight \cup {c}
        /\ made' = made /\ change \in Changes(lists[v]) /\ calls \in Nat
    BY <1>5, <2>1 DEF Uses, WorkInv
  <2>3. c.call = call /\ c.change = change
    BY <2>1
  <2>4. \A d \in inFlight : d.call \in 1..calls
    BY DEF WorkInv, CallInv
  <2>5. \A i \in 1..Len(made) : made[i].key \in 1..calls'
    BY <2>2 DEF CallsInv
  <2>6. \A d \in inFlight' : \A i \in 1..Len(made) : made[i].key # d.call
    BY <2>2, <2>3 DEF CallsInv
  <2>7. \A d, e \in inFlight' : d.call = e.call => d = e
    BY <2>2, <2>3, <2>4 DEF CallsInv
  <2>8. \A d \in inFlight' : d.change.tool = "update" => d.change.id # NoId
    <3>1. change.tool = "update" => change.id # NoId
      BY <2>2, UpdatesName
    <3> QED
      BY <2>2, <2>3, <3>1 DEF CallsInv
  <2> QED
    BY <2>2, <2>5, <2>6, <2>7, <2>8 DEF CallsInv
<1>6. ASSUME NEW c \in inFlight, NEW ok \in BOOLEAN, NEW r \in Turns, NEW v \in Turns,
             Settles(c, ok, r, v)
      PROVE  CallsInv'
  <2>1. /\ inFlight' = inFlight \ {c} /\ calls' = calls
        /\ Makes(made', made, lists'[v], c.call, v)
    BY <1>6 DEF Settles
  <2>2. CASE made' = made
    BY <2>1, <2>2, CallsStay
  <2>3. CASE made' = Append(made, Item(c.call, v))
    <3>1. PICK S, item : made \in Seq(S) /\ item = Item(c.call, v)
      BY DEF WorkInv
    <3>2. made' = Append(made, item)
      BY <2>3, <3>1
    <3>3. Longer(made', made, item) /\ Len(made) \in Nat
      BY <3>1, <3>2, AppendedIs, LenProperties
    <3>4. /\ Len(made') = Len(made) + 1 /\ made'[Len(made) + 1].key = c.call
          /\ \A i \in 1..Len(made) : made'[i] = made[i]
      BY <3>1, <3>3 DEF Longer, Item
    <3>5. \A i \in 1..Len(made') : i \in 1..Len(made) \/ i = Len(made) + 1
      BY <3>3, <3>4
    <3>6. c.call \in 1..calls
      BY DEF WorkInv, CallInv
    <3>7. \A i \in 1..Len(made') : made'[i].key \in 1..calls'
      BY <2>1, <3>4, <3>5, <3>6 DEF CallsInv
    <3>8. \A i, j \in 1..Len(made') : made'[i].key = made'[j].key => i = j
      BY <3>4, <3>5 DEF CallsInv
    <3>9. \A d \in inFlight' : \A i \in 1..Len(made') : made'[i].key # d.call
      BY <2>1, <3>4, <3>5 DEF CallsInv
    <3>10. /\ \A d, e \in inFlight' : d.call = e.call => d = e
           /\ \A d \in inFlight' : d.change.tool = "update" => d.change.id # NoId
      BY <2>1 DEF CallsInv
    <3> QED
      BY <3>7, <3>8, <3>9, <3>10 DEF CallsInv
  <2> QED
    BY <2>1, <2>2, <2>3 DEF Makes
<1> QED
  BY <1>1, <1>2, <1>3, <1>4, <1>5, <1>6, StepsAre

\* A turn without a conversation has neither a list nor a tracker's ids.
LEMMA NewStep ==
  ASSUME IInv, CourseInv, WorkInv, HomeInv, NewInv, [Next]_vars
  PROVE  NewInv'
<1>1. ASSUME UNCHANGED <<lists, trackers>>,
             \A u \in Turns : turns'[u].conversation = NoTurn
                                => turns[u].conversation = NoTurn
      PROVE  NewInv'
  BY <1>1 DEF NewInv
<1>2. ASSUME NEW t \in Turns, NEW x \in Contexts, NEW v \in Turns \cup {NoTurn},
             Requests(t, x, v)
      PROVE  NewInv'
  BY <1>1, <1>2 DEF Requests
<1>3. ASSUME NEW t \in Turns, NEW r \in Turns, NEW v \in Turns, Drives(t, r, v)
      PROVE  NewInv'
  BY <1>1, <1>3, TurnsAssumption DEF Drives
<1>4. ASSUME NEW t \in Turns, Rests(t) PROVE NewInv'
  BY <1>1, <1>4 DEF Rests
<1>5. CASE UNCHANGED vars
  BY <1>1, <1>5 DEF vars, listVars
<1>6. ASSUME NEW t \in Turns, NEW r \in Turns, NEW v \in Turns, NEW call, NEW change,
             Uses(t, r, v, call, change)
      PROVE  NewInv'
  <2> SUFFICES ASSUME NEW u \in Turns, turns'[u].conversation = NoTurn
               PROVE  lists'[u] = <<>> /\ trackers'[u].keys = <<>>
    BY DEF NewInv
  <2>1. lists[u] = <<>> /\ trackers[u].keys = <<>> /\ lists' = lists
    BY <1>6 DEF Uses, NewInv
  <2>2. IsTracker(trackers[u])
    BY DEF WorkInv, TrackerInv
  <2>3. trackers'[u] = trackers[u] \/ trackers'[u] = Noted(trackers[u], call, change)
    BY <1>6 DEF Uses
  <2> QED
    BY <2>1, <2>2, <2>3, NotedIs
<1>7. ASSUME NEW c \in inFlight, NEW ok \in BOOLEAN, NEW r \in Turns, NEW v \in Turns,
             c.turn \in Turns, Settles(c, ok, r, v)
      PROVE  NewInv'
  <2> SUFFICES ASSUME NEW u \in Turns, turns'[u].conversation = NoTurn
               PROVE  lists'[u] = <<>> /\ trackers'[u].keys = <<>>
    BY DEF NewInv
  <2>1. turns[v].conversation = v
    BY <1>7, TurnsAssumption DEF Settles, HomeInv, Home
  <2>2. turns[r].conversation \in Turns /\ turns' = turns
    BY <1>7 DEF Settles
  <2>3. u # v /\ u # r
    BY <2>1, <2>2, TurnsAssumption
  <2>4. lists'[u] = lists[u] /\ trackers'[u] = trackers[u]
    BY <1>7, <2>3 DEF Settles
  <2> QED
    BY <2>2, <2>4 DEF NewInv
<1> QED
  BY <1>2, <1>3, <1>4, <1>5, <1>6, <1>7, StepsAre

(***************************************************************************)
(* What a step changes of the lists and the trackers.                      *)
(***************************************************************************)
LEMMA KeptIs ==
  ASSUME NEW steps, NEW v, NEW K, K = {key \in Nat : \E i \in 1..Len(steps) :
                                                       steps[i] = Item(key, v)},
         NEW I, NEW list \in Seq([key : K, id : I, done : BOOLEAN])
  PROVE  Kept(steps, list, v)
<1> SUFFICES ASSUME NEW i \in 1..Len(list)
             PROVE  \E a \in 1..Len(steps) : steps[a] = Item(list[i].key, v)
  BY DEF Kept
<1>1. list[i] \in [key : K, id : I, done : BOOLEAN]
  BY ElementOfSeq
<1>2. list[i].key \in K
  BY <1>1
<1> QED
  BY <1>2

\* The list of a conversation, and the steps of it.
LEMMA ListIs ==
  ASSUME WorkInv, CallsInv, NEW v \in Turns
  PROVE  /\ Kept(made, lists[v], v)
         /\ \E T : made \in Seq(T)
         /\ \E K, I : NoKey \notin K /\ lists[v] \in Seq([key : K, id : I, done : BOOLEAN])
<1>1. ListInv(v)
  BY DEF WorkInv
<1>2. PICK K : K = Own(v)
  OBVIOUS
<1>3. PICK I : lists[v] \in Seq([key : K, id : I, done : BOOLEAN])
  BY <1>1, <1>2 DEF ListInv
<1>4. K = {key \in Nat : \E i \in 1..Len(made) : made[i] = Item(key, v)}
  BY <1>2 DEF Own
<1>5. Kept(made, lists[v], v)
  BY <1>3, <1>4, KeptIs
<1>6. NoKey \notin K
  <2> SUFFICES ASSUME NEW i \in 1..Len(made), made[i] = Item(NoKey, v) PROVE FALSE
    BY <1>4
  <2>1. made[i].key = NoKey
    BY DEF Item
  <2>2. made[i].key \in 1..calls /\ calls \in Nat
    BY DEF CallsInv, WorkInv
  <2> QED
    BY <2>1, <2>2 DEF NoKey
<1> QED
  BY <1>3, <1>5, <1>6 DEF WorkInv

\* What a result that is one of success makes of its list.
LEMMA SucceedsIs ==
  ASSUME WorkInv, WorkInv', CallsInv, ShapeInv, NEW c \in inFlight,
         NEW r \in Turns, NEW v \in Turns, Settles(c, TRUE, r, v)
  PROVE  Succeeds(made, made', lists[v], lists'[v], v, c.call, c.change)
<1>1. /\ Kept(made, lists[v], v)
      /\ \E T : made \in Seq(T)
      /\ \E K, I : NoKey \notin K /\ lists[v] \in Seq([key : K, id : I, done : BOOLEAN])
  BY ListIs
<1>2. Kept(made', lists'[v], v)
  <2>1. ListInv(v)'
    BY DEF WorkInv
  <2>2. PICK K : K = Own(v)'
    OBVIOUS
  <2>3. PICK I : lists'[v] \in Seq([key : K, id : I, done : BOOLEAN])
    BY <2>1, <2>2 DEF ListInv
  <2>4. K = {key \in Nat : \E i \in 1..Len(made') : made'[i] = Item(key, v)}
    BY <2>2 DEF Own
  <2> QED
    BY <2>3, <2>4, KeptIs
<1>3. /\ lists'[v] = After(lists[v], c.change, c.call)
      /\ Makes(made', made, lists'[v], c.call, v) /\ Possible(lists[v], c.change)
  BY DEF Settles
<1>4. \A a \in 1..Len(made) : made[a].key # c.call
  BY DEF CallsInv
<1>5. WritesWhole(lists[v]) \/ ByTask(made, lists[v])
  BY DEF ShapeInv
<1>6. PICK keys : Asked(c.change, keys)
  BY DEF WorkInv, CallInv
<1>7. /\ c.change.tool \in {"create", "update", "todos"}
      /\ c.change.tool = "update" => c.change.to \in {"done", "deleted"}
      /\ c.change.tool = "todos" => c.change.steps \in Steps(keys)
  BY <1>6, AskedTools
<1>8. c.change.tool = "update" => c.change.id # NoId
  BY DEF CallsInv
<1> QED
  BY <1>1, <1>2, <1>3, <1>4, <1>5, <1>7, <1>8 DEF Succeeds, Steps

\* A call that fails leaves the list and the steps alone.
LEMMA FailsIs ==
  ASSUME WorkInv, CallsInv, NEW c \in inFlight,
         NEW r \in Turns, NEW v \in Turns, Settles(c, FALSE, r, v)
  PROVE  made' = made /\ lists'[v] = lists[v]
<1>1. Kept(made, lists[v], v) /\ \A a \in 1..Len(made) : made[a].key # c.call
  BY ListIs DEF CallsInv
<1>2. \A i \in 1..Len(lists[v]) : lists[v][i].key # c.call
  BY <1>1, NotYet
<1>3. lists'[v] = lists[v] /\ Makes(made', made, lists'[v], c.call, v)
  BY DEF Settles
<1> QED
  BY <1>2, <1>3 DEF Makes

\* The steps grow by that of the call, if at all.
LEMMA MadeGrows ==
  ASSUME WorkInv, NEW c \in inFlight, NEW ok \in BOOLEAN,
         NEW r \in Turns, NEW v \in Turns, Settles(c, ok, r, v)
  PROVE  /\ made' = made \/ Longer(made', made, Item(c.call, v))
         /\ Grown(made', made)
<1>1. Makes(made', made, lists'[v], c.call, v)
  BY DEF Settles
<1>2. PICK S, item : made \in Seq(S) /\ item = Item(c.call, v)
  BY DEF WorkInv
<1>3. Len(made) \in Nat
  BY <1>2, LenProperties
<1>4. CASE made' = made
  BY <1>4 DEF Grown
<1>5. CASE made' = Append(made, item)
  <2>1. Longer(made', made, item)
    BY <1>2, <1>5, AppendedIs
  <2> QED
    BY <1>2, <1>3, <2>1, LongerGrows
<1> QED
  BY <1>1, <1>2, <1>4, <1>5 DEF Makes

\* Lists stay in shape.
LEMMA ShapeStep ==
  ASSUME IInv, CourseInv, WorkInv, WorkInv', CallsInv, ShapeInv, [Next]_vars
  PROVE  ShapeInv'
<1>1. CASE lists' = lists /\ made' = made
  BY <1>1 DEF ShapeInv
<1>2. ASSUME NEW c \in inFlight, NEW ok \in BOOLEAN, NEW r \in Turns, NEW v \in Turns,
             Settles(c, ok, r, v)
      PROVE  ShapeInv'
  <2> SUFFICES ASSUME NEW u \in Turns
               PROVE  WritesWhole(lists'[u]) \/ ByTask(made', lists'[u])
    BY DEF ShapeInv
  <2>1. CASE u = v /\ ok
    <3>1. Settles(c, TRUE, r, v)
      BY <1>2, <2>1
    <3>2. Succeeds(made, made', lists[v], lists'[v], v, c.call, c.change)
      BY <3>1, SucceedsIs
    <3> QED
      BY <2>1, <3>2, ShapeSettles
  <2>2. CASE u = v /\ ~ok
    <3>1. Settles(c, FALSE, r, v)
      BY <1>2, <2>2
    <3>2. made' = made /\ lists'[v] = lists[v]
      BY <3>1, FailsIs
    <3> QED
      BY <2>2, <3>2 DEF ShapeInv
  <2>3. CASE u # v
    <3>1. lists'[u] = lists[u]
      BY <1>2, <2>3 DEF Settles
    <3>2. WritesWhole(lists[u]) \/ ByTask(made, lists[u])
      BY DEF ShapeInv
    <3>3. ASSUME Longer(made', made, Item(c.call, v)), ByTask(made, lists[u])
          PROVE  ByTask(made', lists[u])
      <4>1. PICK item : item = Item(c.call, v)
        OBVIOUS
      <4>2. item.key = c.call
        BY <4>1 DEF Item
      <4>3. Kept(made, lists[u], u) /\ \A a \in 1..Len(made) : made[a].key # c.call
        BY ListIs DEF CallsInv
      <4>4. \A i \in 1..Len(lists[u]) : lists[u][i].key # item.key
        BY <4>2, <4>3, NotYet
      <4>5. Len(made) \in Nat
        BY LenProperties DEF WorkInv
      <4>6. Longer(made', made, item)
        BY <3>3, <4>1
      <4> QED
        BY <3>3, <4>4, <4>5, <4>6, OrderStays
    <3>4. made' = made \/ Longer(made', made, Item(c.call, v))
      BY <1>2, MadeGrows
    <3> QED
      BY <3>1, <3>2, <3>3, <3>4
  <2> QED
    BY <2>1, <2>2, <2>3
<1>3. CASE UNCHANGED vars
  BY <1>1, <1>3 DEF vars, listVars
<1>4. ASSUME NEW t \in Turns, NEW x \in Contexts, NEW v \in Turns \cup {NoTurn},
             Requests(t, x, v)
      PROVE  ShapeInv'
  BY <1>1, <1>4 DEF Requests
<1>5. ASSUME NEW t \in Turns, NEW r \in Turns, NEW v \in Turns, Drives(t, r, v)
      PROVE  ShapeInv'
  BY <1>1, <1>5 DEF Drives
<1>6. ASSUME NEW t \in Turns, Rests(t) PROVE ShapeInv'
  BY <1>1, <1>6 DEF Rests
<1>7. ASSUME NEW t \in Turns, NEW r \in Turns, NEW v \in Turns, NEW call, NEW change,
             Uses(t, r, v, call, change)
      PROVE  ShapeInv'
  BY <1>1, <1>7 DEF Uses
<1> QED
  BY <1>2, <1>3, <1>4, <1>5, <1>6, <1>7, StepsAre

\* A tracker stays in step as long as its steps and ids stay, and steps are made.
LEMMA SyncSame ==
  ASSUME NEW steps, NEW then, Grown(then, steps), NEW old, NEW new,
         new.tasks = old.tasks, new.keys = old.keys, NEW list, NEW v,
         InSync(steps, old, list, v)
  PROVE  InSync(then, new, list, v)
<1>1. CASE list # <<>> /\ WritesWhole(list) /\ Heads(old.tasks, list)
  BY <1>1 DEF InSync
<1>2. CASE WritesTasks(list) /\ Follows(steps, old, list, v)
  <2>1. PICK less \in 0..Len(list) : /\ Fit(old, list, less)
                                     /\ \A i \in 1..less : Behind(steps, list[i].key, v)
    BY <1>2 DEF Follows
  <2>2. Fit(new, list, less)
    BY <2>1 DEF Fit
  <2>3. \A i \in 1..less : Behind(then, list[i].key, v)
    BY <2>1, BehindStays
  <2> QED
    BY <1>2, <2>2, <2>3 DEF InSync, Follows
<1> QED
  BY <1>1, <1>2 DEF InSync

\* Steps that stay the same have grown by none.
LEMMA GrownSame == \A steps : Grown(steps, steps)
BY DEF Grown

\* A new tracker is in step with an empty list.
LEMMA EmptySyncs ==
  ASSUME NEW steps, NEW tracker, tracker.tasks = <<>>, tracker.keys = <<>>, NEW v
  PROVE  InSync(steps, tracker, <<>>, v)
<1>1. Len(<<>>) = 0 /\ 0 \in 0..0 /\ MaxSteps \in Nat
  BY TrackerAssumption
<1>2. Shown(<<>>, 0) = <<>> /\ Named(<<>>, 0) = <<>>
  BY DEF Shown, Named
<1>3. Fit(tracker, <<>>, 0)
  BY <1>1, <1>2 DEF Fit
<1>4. WritesTasks(<<>>) /\ \A i \in 1..0 : FALSE
  BY DEF WritesTasks
<1> QED
  BY <1>1, <1>3, <1>4 DEF InSync, Follows

\* A tracker of a context was made in it, by a turn of its conversation.
LEMMA CurrentIs ==
  ASSUME IInv, CourseInv, NEW r \in Turns, NEW x, Current(r, x)
  PROVE  turns[r].context = x /\ turns[r].conversation \in Turns
<1>1. CASE Item(x, r) \in Entries(plans)
  <2>1. PICK e : e = Item(x, r)
    OBVIOUS
  <2>2. e \in Entries(plans) /\ e.key = x /\ e.value = r
    BY <1>1, <2>1 DEF Item
  <2> QED
    BY <2>2 DEF CourseInv
<1>2. ASSUME NEW t \in Turns, Working(t), turns[t].context = x, turns[t].tracker = r
      PROVE  turns[r].context = x /\ turns[r].conversation \in Turns
  BY <1>2 DEF CourseInv, Course, Working
<1> QED
  BY <1>1, <1>2 DEF Current

\* A step that leaves lists and trackers alone, and gives no context a tracker it did
\* not have, leaves them in step.
LEMMA SyncStays ==
  ASSUME SyncInv, UNCHANGED <<trackers, lists, made>>,
         mixed \subseteq mixed', missed \subseteq missed',
         \A r \in Turns : turns'[r].conversation = turns[r].conversation,
         \A r \in Turns, x \in Contexts : Current(r, x)' => Current(r, x)
  PROVE  SyncInv'
<1> SUFFICES ASSUME NEW x \in Contexts \ mixed', NEW r \in Turns, NEW v,
                    v = turns'[r].conversation, Current(r, x)', v \notin missed'
             PROVE  InSync(made', trackers'[r], lists'[v], v)
  BY DEF SyncInv
<1>1. x \in Contexts \ mixed /\ v = turns[r].conversation /\ Current(r, x) /\ v \notin missed
  OBVIOUS
<1>2. InSync(made, trackers[r], lists[v], v)
  BY <1>1 DEF SyncInv
<1> QED
  BY <1>2

\* A turn that is driven goes on with a tracker that is in step, or with a new one on a
\* list that is empty or lost sight of.
LEMMA SyncDrives ==
  ASSUME IInv, CourseInv, WorkInv, SyncInv, NewInv,
         NEW t \in Turns, NEW q \in Turns, NEW w \in Turns, Drives(t, q, w)
  PROVE  SyncInv'
<1>1. /\ \A u \in Turns \ {t} : turns'[u] = turns[u]
      /\ turns[t].conversation = NoTurn /\ turns'[t].conversation = w
      /\ turns'[t].context = turns[t].context /\ turns'[t].tracker = q
      /\ missed \subseteq missed'
      /\ UNCHANGED <<trackers, lists, made, mixed>>
  BY DEF Drives
<1> SUFFICES ASSUME NEW x \in Contexts \ mixed', NEW r \in Turns, NEW v,
                    v = turns'[r].conversation, Current(r, x)', v \notin missed'
             PROVE  InSync(made', trackers'[r], lists'[v], v)
  BY DEF SyncInv
<1>2. Current(r, x) \/ (r = q /\ x = turns[t].context)
  <2>1. CASE Item(x, r) \in Entries(plans')
    <3>1. CASE Item(x, r) = Item(turns[t].context, q)
      BY <3>1 DEF Item
    <3>2. CASE Item(x, r) \in Entries(plans)
      BY <3>2 DEF Current
    <3> QED
      BY <2>1, <3>1, <3>2 DEF Drives
  <2>2. ASSUME NEW u \in Turns, Working(u)', turns'[u].context = x, turns'[u].tracker = r
        PROVE  Current(r, x) \/ (r = q /\ x = turns[t].context)
    <3>1. CASE u = t
      BY <1>1, <2>2, <3>1
    <3>2. CASE u # t
      BY <1>1, <2>2, <3>2 DEF Current, Working
    <3> QED
      BY <3>1, <3>2
  <2> QED
    BY <2>1, <2>2 DEF Current, Entries
<1>3. ASSUME Current(r, x) PROVE InSync(made', trackers'[r], lists'[v], v)
  <2>1. turns[r].conversation \in Turns
    BY <1>3, CurrentIs
  <2>2. r # t
    BY <1>1, <2>1, TurnsAssumption
  <2>3. v = turns[r].conversation /\ x \in Contexts \ mixed /\ v \notin missed
    BY <1>1, <2>2
  <2>4. InSync(made, trackers[r], lists[v], v)
    BY <1>3, <2>3 DEF SyncInv
  <2> QED
    BY <1>1, <2>4
<1>4. CASE r = q /\ x = turns[t].context
  <2>1. CASE r # t
    <3>1. Item(x, r) \in Entries(plans)
      BY <1>4, <2>1 DEF Drives
    <3> QED
      BY <1>3, <3>1 DEF Current
  <2>2. CASE r = t
    <3>1. v = w
      BY <1>1, <2>2
    <3>2. trackers[r].tasks = <<>> /\ trackers[r].keys = <<>> /\ lists[t] = <<>>
      BY <1>1, <2>2 DEF NewInv, WorkInv, TrackerInv
    <3>3. lists[v] = <<>>
      <4>1. CASE turns[t].resume # NoTurn
        <5>1. r = t /\ turns[t].resume # NoTurn /\ lists[w] # <<>> => w \in missed'
          BY <1>4 DEF Drives
        <5> QED
          BY <2>2, <3>1, <4>1, <5>1
      <4>2. CASE turns[t].resume = NoTurn
        <5>1. w = t
          BY <4>2 DEF Drives
        <5> QED
          BY <3>1, <3>2, <5>1
      <4> QED
        BY <4>1, <4>2
    <3>4. InSync(made, trackers[r], <<>>, v)
      BY <3>2, EmptySyncs
    <3> QED
      BY <1>1, <3>3, <3>4
  <2> QED
    BY <2>1, <2>2
<1> QED
  BY <1>2, <1>3, <1>4

\* To note a call leaves every tracker in step.
LEMMA SyncUses ==
  ASSUME WorkInv, SyncInv, NEW t \in Turns, NEW q \in Turns, NEW w \in Turns,
         NEW call, NEW change, Uses(t, q, w, call, change)
  PROVE  SyncInv'
<1>1. /\ UNCHANGED <<turns, plans, lists, made, mixed>> /\ missed \subseteq missed'
      /\ \A u \in Turns \ {q} : trackers'[u] = trackers[u]
      /\ trackers'[q] = Noted(trackers[q], call, change)
  BY DEF Uses
<1> SUFFICES ASSUME NEW x \in Contexts \ mixed', NEW r \in Turns, NEW v,
                    v = turns'[r].conversation, Current(r, x)', v \notin missed'
             PROVE  InSync(made', trackers'[r], lists'[v], v)
  BY DEF SyncInv
<1>2. x \in Contexts \ mixed /\ v = turns[r].conversation /\ v \notin missed
  BY <1>1
<1>3. Current(r, x)
  BY <1>1 DEF Current, Working, Entries
<1>4. InSync(made, trackers[r], lists[v], v)
  BY <1>2, <1>3 DEF SyncInv
<1>5. IsTracker(trackers[r])
  BY DEF WorkInv, TrackerInv
<1>6. trackers'[r].tasks = trackers[r].tasks /\ trackers'[r].keys = trackers[r].keys
  BY <1>1, <1>5, NotedIs
<1> QED
  BY <1>1, <1>4, <1>6, SyncSame, GrownSame

\* The tracker that a result comes to has noted the call, as the call in flight asks.
LEMMA NotedCall ==
  ASSUME WorkInv, NEW c \in inFlight, NEW q \in Turns,
         c.call \in Keys(trackers[q].calls), NEW ok \in BOOLEAN,
         NEW new, NEW id, new = Applied(trackers[q], c.call, ok, id)
  PROVE  IF ok THEN Took(trackers[q], new, c.call, id, c.change)
         ELSE new.tasks = trackers[q].tasks /\ new.keys = trackers[q].keys
<1>1. PICK keys : Asked(c.change, keys)
  BY DEF WorkInv, CallInv
<1>2. PICK tracker, call, change :
         tracker = trackers[q] /\ call = c.call /\ change = c.change
  OBVIOUS
<1>3. change.tool \in {"create", "update", "todos"}
  BY <1>1, <1>2, AskedTools
<1>4. IsTracker(tracker) /\ \A noted \in Entries(tracker.calls) : Told(noted)
  BY <1>2 DEF WorkInv, TrackerInv
<1>5. ASSUME NEW i \in 1..Len(tracker.calls), tracker.calls[i].key = call
      PROVE  tracker.calls[i].value = change
  <2>1. PICK noted : noted = tracker.calls[i]
    OBVIOUS
  <2>2. Told(noted) /\ noted.key = call
    BY <1>4, <1>5, <2>1 DEF Entries
  <2>3. c.change = noted.value
    BY <1>2, <2>2 DEF Told
  <2> QED
    BY <1>2, <2>1, <2>3
<1>6. call \in Keys(tracker.calls) /\ new = Applied(tracker, call, ok, id)
  BY <1>2
<1>7. IF ok THEN Took(tracker, new, call, id, change)
      ELSE new.tasks = tracker.tasks /\ new.keys = tracker.keys
  BY <1>3, <1>4, <1>5, <1>6, AppliedTakes
<1> QED
  BY <1>2, <1>7

\* A result leaves the tracker it comes to in step with the list, and every other.
LEMMA SyncSettle ==
  ASSUME IInv, CourseInv, LastInv, WorkInv, WorkInv', HomeInv, OneInv, CallsInv,
         ShapeInv, SyncInv, NotedInv, NEW c \in inFlight, c.turn \in Turns,
         NEW ok \in BOOLEAN, NEW q \in Turns, NEW w \in Turns, Settles(c, ok, q, w)
  PROVE  SyncInv'
<1>0. PICK t \in Turns : t = c.turn
  OBVIOUS
<1>1. /\ turns[t].state = "running" /\ turns[t].conversation = w /\ turns[t].tracker = q
      /\ turns[q].context = turns[t].context
      /\ UNCHANGED <<turns, plans, mixed>> /\ missed \subseteq missed'
      /\ \A u \in Turns \ {q} : trackers'[u] = trackers[u]
      /\ \A u \in Turns \ {w} : lists'[u] = lists[u]
      /\ trackers'[q] = Applied(trackers[q], c.call, ok, FreeId(lists[w]))
      /\ ok /\ c.change = Todos(<<>>) => w \in missed'
  BY <1>0 DEF Settles
<1> SUFFICES ASSUME NEW x \in Contexts \ mixed', NEW r \in Turns, NEW v,
                    v = turns'[r].conversation, Current(r, x)', v \notin missed'
             PROVE  InSync(made', trackers'[r], lists'[v], v)
  BY DEF SyncInv
<1>2. x \in Contexts \ mixed /\ v = turns[r].conversation /\ v \notin missed
  BY <1>1
<1>3. Current(r, x)
  BY <1>1 DEF Current, Working, Entries
<1>4. InSync(made, trackers[r], lists[v], v)
  BY <1>2, <1>3 DEF SyncInv
<1>5. turns[r].context = x /\ v \in Turns
  BY <1>2, <1>3, CurrentIs
<1>6. Grown(made', made)
  BY MadeGrows
<1>7. Agree(x)
  BY <1>2 DEF LastInv
<1>8. turns[t].context = x => t \in UnderWay(x)
  BY <1>1 DEF UnderWay
<1>9. CASE r = q
  <2>1. turns[t].context = x /\ t \in UnderWay(x)
    BY <1>1, <1>5, <1>8, <1>9
  <2>2. turns[q].conversation = w
    BY <1>1, <1>7, <2>1 DEF Agree
  <2>3. v = w
    BY <1>2, <1>9, <2>2
  <2>4. c.call \in Keys(trackers[q].calls)
    BY <1>0, <1>1, <1>2, <2>1, <2>3 DEF NotedInv
  <2>5. CASE ok
    <3>1. Settles(c, TRUE, q, w)
      BY <2>5
    <3>2. Succeeds(made, made', lists[w], lists'[w], w, c.call, c.change)
      BY <3>1, SucceedsIs
    <3>3. Took(trackers[q], trackers'[q], c.call, FreeId(lists[w]), c.change)
      BY <1>1, <2>4, <2>5, NotedCall
    <3>4. c.change.tool = "todos" => c.change.steps # <<>>
      <4>1. PICK keys : Asked(c.change, keys)
        BY DEF WorkInv, CallInv
      <4>2. c.change # Todos(<<>>)
        BY <1>1, <2>3, <2>5
      <4>3. CASE c.change = Create
        BY <4>3 DEF Create
      <4>4. ASSUME NEW id, c.change = Update(id, "done") \/ c.change = Update(id, "deleted")
            PROVE  c.change.tool # "todos"
        BY <4>4 DEF Update
      <4>5. ASSUME NEW steps, c.change = Todos(steps) PROVE c.change.steps # <<>>
        <5>1. c.change.steps = steps
          BY <4>5 DEF Todos
        <5>2. steps # <<>>
          BY <4>2, <4>5
        <5> QED
          BY <5>1, <5>2
      <4> QED
        BY <4>1, <4>3, <4>4, <4>5 DEF Asked
    <3>5. InSync(made, trackers[q], lists[w], w)
      BY <1>4, <1>9, <2>3
    <3>6. InSync(made', trackers'[q], lists'[w], w)
      BY <3>2, <3>3, <3>4, <3>5, SyncSettles
    <3> QED
      BY <1>9, <2>3, <3>6
  <2>6. CASE ~ok
    <3>1. Settles(c, FALSE, q, w)
      BY <2>6
    <3>2. lists'[w] = lists[w]
      BY <3>1, FailsIs
    <3>3. trackers'[q].tasks = trackers[q].tasks /\ trackers'[q].keys = trackers[q].keys
      BY <1>1, <2>4, <2>6, NotedCall
    <3>4. InSync(made', trackers'[q], lists[w], w)
      BY <1>4, <1>6, <1>9, <2>3, <3>3, SyncSame
    <3> QED
      BY <1>9, <2>3, <3>2, <3>4
  <2> QED
    BY <2>5, <2>6
<1>10. CASE r # q
  <2>1. trackers'[r] = trackers[r]
    BY <1>1, <1>10
  <2>2. v # w
    <3> SUFFICES ASSUME v = w PROVE FALSE
      OBVIOUS
    <3>1. Home(w, turns[t].context) /\ Home(w, x)
      <4>1. w # NoTurn
        BY TurnsAssumption
      <4>2. Home(turns[t].conversation, turns[t].context)
        BY <1>1, <4>1 DEF HomeInv
      <4>3. Home(turns[r].conversation, turns[r].context)
        BY <1>2, <4>1 DEF HomeInv
      <4> QED
        BY <1>1, <1>2, <1>5, <4>2, <4>3
    <3>2. turns[t].context = x /\ t \in UnderWay(x)
      BY <1>8, <3>1 DEF Home
    <3>3. CASE Item(x, r) \in Entries(plans)
      <4>1. PICK e : e = Item(x, r)
        OBVIOUS
      <4>2. e \in Entries(plans) /\ e.key = x /\ e.value = r
        BY <3>3, <4>1 DEF Item
      <4> QED
        BY <1>1, <1>2, <1>10, <3>2, <4>2 DEF OneInv, Working
    <3>4. ASSUME NEW u \in Turns, Working(u), turns[u].context = x, turns[u].tracker = r
          PROVE  FALSE
      <4>1. u \in UnderWay(x)
        BY <3>4 DEF UnderWay, Working
      <4>2. u = t
        BY <1>7, <3>2, <4>1 DEF Agree
      <4> QED
        BY <1>1, <1>10, <3>4, <4>2
    <3> QED
      BY <1>3, <3>3, <3>4 DEF Current
  <2>3. lists'[v] = lists[v]
    BY <1>1, <1>5, <2>2
  <2> QED
    BY <1>4, <1>6, <2>1, <2>3, SyncSame
<1> QED
  BY <1>9, <1>10

\* The trackers stay in step with the lists.
LEMMA SyncStep ==
  ASSUME IInv, CourseInv, LastInv, WorkInv, WorkInv', ShownInv, [Next]_vars
  PROVE  SyncInv'
<1>0. /\ HomeInv /\ OneInv /\ CallsInv /\ ShapeInv
      /\ SyncInv /\ NotedInv /\ NewInv
  BY DEF ShownInv
<1>1. ASSUME NEW t \in Turns, NEW x \in Contexts, NEW v \in Turns \cup {NoTurn},
             Requests(t, x, v)
      PROVE  SyncInv'
  <2>1. /\ \A u \in Turns \ {t} : turns'[u] = turns[u]
        /\ turns'[t].state = "requested"
        /\ turns[t].conversation = turns'[t].conversation
        /\ mixed \subseteq mixed'
        /\ UNCHANGED <<plans, trackers, lists, made, missed>>
    BY <1>1 DEF Requests
  <2>2. \A u \in Turns : turns'[u].conversation = turns[u].conversation
    BY <2>1
  <2>3. \A r \in Turns, y \in Contexts : Current(r, y)' => Current(r, y)
    BY <2>1 DEF Current, Working, Entries
  <2> QED
    BY <1>0, <2>1, <2>2, <2>3, SyncStays
<1>2. ASSUME NEW t \in Turns, NEW r \in Turns, NEW v \in Turns, Drives(t, r, v)
      PROVE  SyncInv'
  BY <1>0, <1>2, SyncDrives
<1>3. ASSUME NEW t \in Turns, Rests(t) PROVE SyncInv'
  <2>1. /\ \A u \in Turns : /\ turns'[u].context = turns[u].context
                            /\ turns'[u].tracker = turns[u].tracker
                            /\ turns'[u].conversation = turns[u].conversation
                            /\ Working(u)' => Working(u)
        /\ missed \subseteq missed'
        /\ UNCHANGED <<plans, trackers, lists, made, mixed>>
    BY <1>3 DEF Rests, Working
  <2>2. \A r \in Turns, y \in Contexts : Current(r, y)' => Current(r, y)
    BY <2>1 DEF Current, Entries
  <2> QED
    BY <1>0, <2>1, <2>2, SyncStays
<1>4. ASSUME NEW t \in Turns, NEW r \in Turns, NEW v \in Turns, NEW call, NEW change,
             Uses(t, r, v, call, change)
      PROVE  SyncInv'
  BY <1>0, <1>4, SyncUses
<1>5. ASSUME NEW c \in inFlight, NEW ok \in BOOLEAN, NEW r \in Turns, NEW v \in Turns,
             c.turn \in Turns, Settles(c, ok, r, v)
      PROVE  SyncInv'
  BY <1>0, <1>5, SyncSettle
<1>6. CASE UNCHANGED vars
  <2>1. UNCHANGED <<turns, plans, trackers, lists, made, mixed, missed>>
    BY <1>6 DEF vars, cacheVars, listVars
  <2>2. \A r \in Turns, y \in Contexts : Current(r, y)' => Current(r, y)
    BY <2>1 DEF Current, Working, Entries
  <2> QED
    BY <1>0, <2>1, <2>2, SyncStays
<1> QED
  BY <1>1, <1>2, <1>3, <1>4, <1>5, <1>6, StepsAre

(***************************************************************************)
(* Calls without a result.                                                 *)
(***************************************************************************)
\* To pop a key leaves the others.
LEMMA PoppedKeeps ==
  ASSUME NEW S, NEW dict \in Seq(S), NEW key, NEW other \in Keys(dict), other # key
  PROVE  other \in Keys(Popped(dict, key))
<1>1. CASE key \in Keys(dict)
  <2>1. PICK n \in 1..Len(dict) :
          /\ dict[n].key = key
          /\ Len(Popped(dict, key)) = Len(dict) - 1
          /\ \A i \in 1..(Len(dict) - 1) :
               Popped(dict, key)[i] = IF i < n THEN dict[i] ELSE dict[i + 1]
    BY <1>1, PoppedEntries
  <2>2. PICK i \in 1..Len(dict) : dict[i].key = other
    BY DEF Keys
  <2>3. i # n /\ Len(dict) \in Nat
    BY <2>1, <2>2, LenProperties
  <2>4. \E j \in 1..(Len(dict) - 1) : Popped(dict, key)[j] = dict[i]
    <3>1. CASE i < n
      <4>1. i \in 1..(Len(dict) - 1)
        BY <2>3, <3>1
      <4> QED
        BY <2>1, <3>1, <4>1
    <3>2. CASE ~(i < n)
      <4>1. i - 1 \in 1..(Len(dict) - 1) /\ ~(i - 1 < n) /\ (i - 1) + 1 = i
        BY <2>3, <3>2
      <4> QED
        BY <2>1, <4>1
    <3> QED
      BY <3>1, <3>2
  <2> QED
    BY <2>1, <2>2, <2>4 DEF Keys
<1>2. CASE key \notin Keys(dict)
  BY <1>2 DEF Popped
<1> QED
  BY <1>1, <1>2

\* The key assigned last stays within a bound.
LEMMA LastKeyStays ==
  ASSUME NEW S, NEW dict \in Seq(S), NEW key, key \notin Keys(dict), NEW value,
         NEW cap \in Nat \ {0}
  PROVE  key \in Keys(Bounded(Assigned(dict, key, value), cap))
<1>1. PICK item, long : item = Item(key, value) /\ long = Append(dict, item)
  OBVIOUS
<1>2. Assigned(dict, key, value) = long /\ item.key = key
  BY <1>1 DEF Assigned, Item
<1>3. PICK m \in Nat : m = Len(dict)
  BY LenProperties
<1>4. PICK T : T = S \cup {item}
  OBVIOUS
<1>5. dict \in Seq(T) /\ item \in T
  BY <1>4, SeqMonotonic
<1>6. long \in Seq(T) /\ Len(long) = m + 1 /\ long[m + 1] = item
  BY <1>1, <1>3, <1>5, AppendProperties
<1>7. CASE m + 1 > cap
  <2>1. PICK a \in Nat : a = ((m + 1) - cap) + 1
    BY <1>7
  <2>2. a \in 1..(m + 1) /\ (m + 1) - a + 1 = cap /\ a + cap - 1 = m + 1
    BY <1>7, <2>1
  <2>3. \A i \in a..(m + 1) : long[i] \in T
    BY <1>6, <2>2, ElementOfSeq
  <2>4. PICK new : new = SubSeq(long, a, m + 1)
    OBVIOUS
  <2>5. /\ Len(new) = IF a <= m + 1 THEN (m + 1) - a + 1 ELSE 0
        /\ \A i \in 1..((m + 1) - a + 1) : new[i] = long[a + i - 1]
    BY <2>3, <2>4, SubSeqProperties
  <2>6. Len(new) = cap /\ new[cap] = item
    BY <1>6, <2>2, <2>5
  <2>7. Bounded(long, cap) = new
    BY <1>6, <1>7, <2>1, <2>4 DEF Bounded
  <2> QED
    BY <1>2, <2>6, <2>7 DEF Keys
<1>8. CASE ~(m + 1 > cap)
  <2>1. Bounded(long, cap) = long
    BY <1>6, <1>8 DEF Bounded
  <2>2. m + 1 \in 1..Len(long)
    BY <1>6
  <2> QED
    BY <1>2, <1>6, <2>1, <2>2 DEF Keys
<1> QED
  BY <1>7, <1>8

\* A step that leaves the trackers alone, and adds no call, leaves the calls noted.
LEMMA NotedStays ==
  ASSUME NotedInv, inFlight' \subseteq inFlight, trackers' = trackers,
         mixed \subseteq mixed', missed \subseteq missed',
         \A c \in inFlight : /\ turns'[c.turn].context = turns[c.turn].context
                             /\ turns'[c.turn].conversation = turns[c.turn].conversation
                             /\ turns'[c.turn].tracker = turns[c.turn].tracker
  PROVE  NotedInv'
BY DEF NotedInv

\* A call that is made is noted, and so is every other of the same context, unless
\* too many wait.
LEMMA NotedUses ==
  ASSUME IInv, CourseInv, LastInv, WorkInv, NotedInv,
         NEW t \in Turns, NEW q \in Turns, NEW w \in Turns, NEW call, NEW change,
         Uses(t, q, w, call, change)
  PROVE  NotedInv'
<1>1. /\ turns[t].state = "running" /\ turns[t].conversation = w /\ turns[t].tracker = q
      /\ turns[q].context = turns[t].context /\ call = calls + 1
      /\ UNCHANGED <<turns, mixed>> /\ missed \subseteq missed'
      /\ \A u \in Turns \ {q} : trackers'[u] = trackers[u]
      /\ trackers'[q] = Noted(trackers[q], call, change)
      /\ \A d \in inFlight : d.turn = t /\ d.call \notin Keys(trackers'[q].calls)
                               => w \in missed'
  BY DEF Uses
<1>2. PICK c : /\ c = [call |-> call, turn |-> t, change |-> change]
               /\ inFlight' = inFlight \cup {c}
  BY DEF Uses
<1>3. c.turn = t /\ c.call = call
  BY <1>2
<1>4. call \in Keys(trackers'[q].calls)
  <2>1. PICK tracker, S : tracker = trackers[q] /\ tracker.calls \in Seq(S)
    BY DEF WorkInv, TrackerInv
  <2>2. IsTracker(tracker) /\ \A noted \in Entries(tracker.calls) : Told(noted)
    BY <2>1 DEF WorkInv, TrackerInv
  <2>3. call \notin Keys(tracker.calls)
    <3> SUFFICES ASSUME NEW i \in 1..Len(tracker.calls), tracker.calls[i].key = call
                 PROVE  FALSE
      BY DEF Keys
    <3>1. PICK noted : noted = tracker.calls[i]
      OBVIOUS
    <3>2. Told(noted) /\ noted.key = call
      BY <2>2, <3>1 DEF Entries
    <3>3. call \in 1..calls /\ calls \in Nat
      BY <3>2 DEF Told, WorkInv
    <3> QED
      BY <1>1, <3>3
  <2>4. trackers'[q].calls = Bounded(Assigned(tracker.calls, call, change), MaxPending)
    BY <1>1, <2>1, <2>2, NotedIs
  <2> QED
    BY <2>1, <2>3, <2>4, LastKeyStays, TrackerAssumption
<1> SUFFICES ASSUME NEW d \in inFlight', NEW u, u = d.turn,
                    turns'[u].context \notin mixed', turns'[u].conversation \notin missed'
             PROVE  d.call \in Keys(trackers'[turns'[u].tracker].calls)
  BY DEF NotedInv
<1>5. turns[u].context \notin mixed /\ turns[u].conversation \notin missed
  BY <1>1
<1>6. CASE d = c
  BY <1>1, <1>3, <1>4, <1>6
<1>7. CASE d \in inFlight /\ u = t
  BY <1>1, <1>7
<1>8. CASE d \in inFlight /\ u # t
  <2>1. d.call \in Keys(trackers[turns[u].tracker].calls)
    BY <1>5, <1>8 DEF NotedInv
  <2>2. u \in Turns /\ turns[u].state = "running"
    BY <1>8 DEF WorkInv, CallInv
  <2>3. PICK r \in Turns : r = turns[u].tracker /\ turns[r].context = turns[u].context
    BY <2>2 DEF CourseInv, Course
  <2>4. r # q
    <3> SUFFICES ASSUME r = q PROVE FALSE
      OBVIOUS
    <3>1. PICK x : x = turns[u].context
      OBVIOUS
    <3>2. x = turns[t].context /\ x \in Contexts \ mixed
      BY <1>1, <1>5, <2>2, <2>3, <3>1 DEF IInv, TurnsInv
    <3>3. Agree(x) /\ u \in UnderWay(x) /\ t \in UnderWay(x)
      BY <1>1, <2>2, <3>1, <3>2 DEF LastInv, UnderWay
    <3> QED
      BY <1>8, <3>3 DEF Agree
  <2> QED
    BY <1>1, <2>1, <2>3, <2>4
<1> QED
  BY <1>2, <1>6, <1>7, <1>8

\* A result takes its own call from the tracker, and no other.
LEMMA NotedSettles ==
  ASSUME WorkInv, CourseInv, CallsInv, NotedInv, NEW c \in inFlight, NEW ok \in BOOLEAN,
         NEW q \in Turns, NEW w \in Turns, Settles(c, ok, q, w)
  PROVE  NotedInv'
<1>1. /\ inFlight' = inFlight \ {c}
      /\ UNCHANGED <<turns, mixed>> /\ missed \subseteq missed'
      /\ \A u \in Turns \ {q} : trackers'[u] = trackers[u]
      /\ trackers'[q] = Applied(trackers[q], c.call, ok, FreeId(lists[w]))
  BY DEF Settles
<1> SUFFICES ASSUME NEW d \in inFlight', NEW u, u = d.turn,
                    turns'[u].context \notin mixed', turns'[u].conversation \notin missed'
             PROVE  d.call \in Keys(trackers'[turns'[u].tracker].calls)
  BY DEF NotedInv
<1>2. d \in inFlight /\ d # c
  BY <1>1
<1>3. d.call \in Keys(trackers[turns[u].tracker].calls)
  BY <1>1, <1>2 DEF NotedInv
<1>4. d.call # c.call
  BY <1>2 DEF CallsInv
<1>5. PICK r \in Turns : r = turns[u].tracker
  BY <1>2 DEF WorkInv, CallInv, CourseInv, Course
<1>6. CASE r = q
  <2>1. PICK tracker, S : tracker = trackers[q] /\ tracker.calls \in Seq(S)
    BY DEF WorkInv, TrackerInv
  <2>2. IsTracker(tracker)
    BY <2>1 DEF WorkInv, TrackerInv
  <2>3. trackers'[q].calls = Popped(tracker.calls, c.call)
    BY <1>1, <2>1, <2>2, AppliedIs
  <2> QED
    BY <1>1, <1>3, <1>4, <1>5, <1>6, <2>1, <2>3, PoppedKeeps
<1>7. CASE r # q
  BY <1>1, <1>3, <1>5, <1>7
<1> QED
  BY <1>6, <1>7

\* The calls without a result stay noted.
LEMMA NotedStep ==
  ASSUME IInv, CourseInv, LastInv, WorkInv, CallsInv, NotedInv, [Next]_vars
  PROVE  NotedInv'
<1>0. \A c \in inFlight : c.turn \in Turns /\ turns[c.turn].state = "running"
  BY DEF WorkInv, CallInv
<1>1. ASSUME NEW t \in Turns, NEW x \in Contexts, NEW v \in Turns \cup {NoTurn},
             Requests(t, x, v)
      PROVE  NotedInv'
  <2>1. /\ \A c \in inFlight : turns'[c.turn] = turns[c.turn]
        /\ mixed \subseteq mixed'
        /\ UNCHANGED <<trackers, inFlight, missed>>
    BY <1>0, <1>1 DEF Requests
  <2> QED
    BY <2>1, NotedStays
<1>2. ASSUME NEW t \in Turns, NEW r \in Turns, NEW v \in Turns, Drives(t, r, v)
      PROVE  NotedInv'
  <2>1. /\ \A c \in inFlight : turns'[c.turn] = turns[c.turn]
        /\ missed \subseteq missed'
        /\ UNCHANGED <<trackers, inFlight, mixed>>
    BY <1>0, <1>2 DEF Drives
  <2> QED
    BY <2>1, NotedStays
<1>3. ASSUME NEW t \in Turns, Rests(t) PROVE NotedInv'
  <2>1. /\ \A u \in Turns : /\ turns'[u].context = turns[u].context
                            /\ turns'[u].tracker = turns[u].tracker
                            /\ turns'[u].conversation = turns[u].conversation
        /\ inFlight' \subseteq inFlight /\ missed \subseteq missed'
        /\ UNCHANGED <<trackers, mixed>>
    BY <1>3 DEF Rests
  <2> QED
    BY <1>0, <2>1, NotedStays
<1>4. ASSUME NEW t \in Turns, NEW r \in Turns, NEW v \in Turns, NEW call, NEW change,
             Uses(t, r, v, call, change)
      PROVE  NotedInv'
  BY <1>4, NotedUses
<1>5. ASSUME NEW c \in inFlight, NEW ok \in BOOLEAN, NEW r \in Turns, NEW v \in Turns,
             Settles(c, ok, r, v)
      PROVE  NotedInv'
  BY <1>5, NotedSettles
<1>6. CASE UNCHANGED vars
  BY <1>6, NotedStays DEF vars, listVars
<1> QED
  BY <1>1, <1>2, <1>3, <1>4, <1>5, <1>6, StepsAre

(***************************************************************************)
(* The steps, and what the caller is shown.                                *)
(***************************************************************************)
LEMMA ShownInvInit == Init => ShownInv
<1> SUFFICES ASSUME Init PROVE ShownInv
  OBVIOUS
<1>0. \A t \in Turns : turns[t] = NewTurn
  BY DEF Init
<1>1. Len(<<>>) = 0 /\ Entries(<<>>) = {}
  BY DEF Entries
<1>2. /\ sessionIds = <<>> /\ plans = <<>> /\ made = <<>> /\ inFlight = {}
      /\ \A t \in Turns : lists[t] = <<>>
      /\ \A t \in Turns : trackers[t].keys = <<>>
  BY DEF Init, EmptyTracker
<1>3. HomeInv
  BY <1>0, <1>1, <1>2 DEF HomeInv, NewTurn
<1>4. OneInv
  BY <1>1, <1>2 DEF OneInv
<1>5. CallsInv
  BY <1>1, <1>2 DEF CallsInv
<1>6. ShapeInv
  BY <1>1, <1>2 DEF ShapeInv, WritesWhole
<1>7. SyncInv
  <2>1. \A r \in Turns : \A x : ~Current(r, x)
    BY <1>0, <1>1, <1>2 DEF Current, Working, NewTurn
  <2> QED
    BY <2>1 DEF SyncInv
<1>8. NotedInv
  BY <1>2 DEF NotedInv
<1>9. NewInv
  BY <1>2 DEF NewInv
<1> QED
  BY <1>3, <1>4, <1>5, <1>6, <1>7, <1>8, <1>9 DEF ShownInv

\* The steps keep both invariants.
LEMMA OwnInvStep == OwnInv /\ [Next]_vars => OwnInv'
BY IInvStep, CourseStep, LastStep, WorkStep DEF OwnInv

LEMMA ShownInvStep == OwnInv /\ ShownInv /\ [Next]_vars => ShownInv'
<1> SUFFICES ASSUME OwnInv, ShownInv, [Next]_vars PROVE ShownInv'
  OBVIOUS
<1>1. IInv /\ CourseInv /\ LastInv /\ WorkInv
  BY DEF OwnInv
<1>2. WorkInv'
  BY OwnInvStep DEF OwnInv
<1>3. /\ HomeInv /\ OneInv /\ CallsInv /\ ShapeInv
      /\ SyncInv /\ NotedInv /\ NewInv
  BY DEF ShownInv
<1>4. HomeInv' /\ OneInv' /\ CallsInv' /\ NewInv'
  BY <1>1, <1>3, HomeStep, OneStep, CallsStep, NewStep
<1>5. ShapeInv'
  BY <1>1, <1>2, <1>3, ShapeStep
<1>6. SyncInv'
  BY <1>1, <1>2, SyncStep
<1>7. NotedInv'
  BY <1>1, <1>3, NotedStep
<1> QED
  BY <1>4, <1>5, <1>6, <1>7 DEF ShownInv

\* What a tracker had to lose is not of the steps made last.
LEMMA BehindIsNotLatest ==
  ASSUME CallsInv, NEW len \in Nat, len = Len(made), NEW v, NEW key, Behind(made, key, v)
  PROVE  key \notin Latest(v)
<1> SUFFICES ASSUME key \in Latest(v) PROVE FALSE
  OBVIOUS
<1>1. PICK n \in 1..len :
        /\ made[n].key = key
        /\ Cardinality({j \in (n + 1)..len : made[j].value = v}) < MaxSteps
  BY DEF Latest
<1>2. PICK since : since = {j \in (n + 1)..len : made[j].value = v}
  OBVIOUS
<1>3. PICK a \in 1..len, f \in [1..MaxSteps -> 1..len] :
        /\ made[a].key = key
        /\ \A i, j \in 1..MaxSteps : f[i] = f[j] => i = j
        /\ \A i \in 1..MaxSteps : f[i] > a /\ made[f[i]].value = v
  BY DEF Behind
<1>4. a = n
  BY <1>1, <1>3 DEF CallsInv
<1>5. ASSUME NEW i \in 1..MaxSteps PROVE f[i] \in since
  <2>1. PICK k \in 1..len : k = f[i] /\ k > n /\ made[k].value = v
    BY <1>3, <1>4
  <2>2. k \in (n + 1)..len
    BY <2>1
  <2> QED
    BY <1>2, <2>1, <2>2
<1>6. f \in [1..MaxSteps -> since]
  BY <1>3, <1>5
<1>7. IsFiniteSet(since)
  <2>1. 1 \in Int /\ len \in Int /\ n \in 1..len
    OBVIOUS
  <2>2. IsFiniteSet(1..len)
    BY <2>1, FS_Interval
  <2>3. since \subseteq 1..len
    BY <1>2
  <2> QED
    BY <2>2, <2>3, FS_Subset
<1>8. IsFiniteSet(1..MaxSteps) /\ Cardinality(1..MaxSteps) = MaxSteps
  <2>1. 1 \in Int /\ MaxSteps \in Int /\ ~(1 > MaxSteps) /\ MaxSteps - 1 + 1 = MaxSteps
    BY TrackerAssumption
  <2> QED
    BY <2>1, FS_Interval
<1>9. PICK S : S = 1..MaxSteps
  OBVIOUS
<1>10. Cardinality(since) < Cardinality(S) /\ IsFiniteSet(S) /\ f \in [S -> since]
  BY <1>1, <1>2, <1>6, <1>8, <1>9
<1>11. \E i, j \in S : i # j /\ f[i] = f[j]
  BY <1>7, <1>10, FS_PigeonHole
<1> QED
  BY <1>3, <1>9, <1>11

\* What is to be shown of the list of a conversation.
Shows(shown, list, v) ==
  LET less == Len(list) - Len(shown)
  IN  IF WritesWhole(list)
        THEN /\ Len(shown) = IF Len(list) < MaxSteps THEN Len(list) ELSE MaxSteps
             /\ \A i \in 1..Len(shown) : shown[i] = Item(list[i].key, list[i].done)
        ELSE /\ less >= 0
             /\ \A i \in 1..Len(shown) :
                  shown[i] = Item(list[less + i].key, list[less + i].done)
             /\ \A i \in 1..Len(list) : list[i].key \in Latest(v) => i > less

\* A tracker in step with a list shows of it what is to be shown.
LEMMA SyncShows ==
  ASSUME CallsInv, WorkInv, NEW v \in Turns, NEW tracker, NEW list, list = lists[v],
         InSync(made, tracker, list, v), NEW shown, shown = tracker.tasks
  PROVE  Shows(shown, list, v)
<1>0. PICK n \in Nat : n = Len(list)
  <2>1. \E K, I : NoKey \notin K /\ lists[v] \in Seq([key : K, id : I, done : BOOLEAN])
    BY ListIs
  <2> QED
    BY <2>1, LenProperties
<1>1. CASE list # <<>> /\ WritesWhole(list) /\ Heads(tracker.tasks, list)
  BY <1>1 DEF Heads, Shows
<1>2. CASE WritesTasks(list) /\ Follows(made, tracker, list, v)
  <2>1. PICK h \in 0..Len(list) : /\ Fit(tracker, list, h)
                                  /\ \A i \in 1..h : Behind(made, list[i].key, v)
    BY <1>2 DEF Follows
  <2>2. shown = Shown(list, h) /\ h \in 0..n
    BY <1>0, <2>1 DEF Fit
  <2>3. /\ Len(shown) = n - h
        /\ \A i \in 1..(n - h) : shown[i] = Item(list[h + i].key, list[h + i].done)
    <3>1. Len(list) \in Nat /\ h \in 0..Len(list)
      BY <1>0, <2>2
    <3>2. /\ Len(Shown(list, h)) = Len(list) - h
          /\ \A i \in 1..(Len(list) - h) :
               Shown(list, h)[i] = Item(list[h + i].key, list[h + i].done)
      BY <3>1, ShownIs
    <3> QED
      BY <1>0, <2>2, <3>2
  <2>4. CASE WritesWhole(list)
    <3>1. n = 0
      <4> SUFFICES ASSUME n # 0 PROVE FALSE
        OBVIOUS
      <4>1. 1 \in 1..n
        BY <1>0
      <4> QED
        BY <1>0, <1>2, <2>4, <4>1 DEF WritesWhole, WritesTasks
    <3>2. Len(shown) = 0
      <4>1. h = 0
        BY <2>2, <3>1
      <4> QED
        BY <2>3, <3>1, <4>1
    <3>3. 0 < MaxSteps
      BY TrackerAssumption
    <3> QED
      BY <1>0, <2>4, <3>1, <3>2, <3>3 DEF Shows
  <2>5. CASE ~WritesWhole(list)
    <3>1. PICK less : less = Len(list) - Len(shown)
      OBVIOUS
    <3>2. less = h /\ less >= 0
      BY <1>0, <2>2, <2>3, <3>1
    <3>3. ASSUME NEW i \in 1..n, list[i].key \in Latest(v) PROVE i > less
      <4> SUFFICES ASSUME ~(i > less) PROVE FALSE
        OBVIOUS
      <4>1. i \in 1..h
        BY <2>2, <3>2
      <4>2. Behind(made, list[i].key, v)
        BY <2>1, <4>1
      <4>3. \E T : made \in Seq(T)
        BY DEF WorkInv
      <4>4. PICK len \in Nat : len = Len(made)
        BY <4>3, LenProperties
      <4> QED
        BY <3>3, <4>2, <4>4, BehindIsNotLatest
    <3>4. \A i \in 1..Len(shown) : shown[i] = Item(list[less + i].key, list[less + i].done)
      BY <2>3, <3>2
    <3> QED
      BY <1>0, <2>5, <3>1, <3>2, <3>3, <3>4 DEF Shows
  <2> QED
    BY <2>4, <2>5
<1> QED
  BY <1>1, <1>2 DEF InSync

\* For any bounds, contexts, turns and calls: what the caller is shown of a turn's
\* task list is what the agent has, over turns, failed calls and results in any
\* order; its end has each of the last MaxSteps steps there is (absorb, _plan_for).
THEOREM ShownIsAlwaysAgents == Spec => []ShownIsAgents
<1>1. OwnInv /\ ShownInv => ShownIsAgents
  <2> SUFFICES ASSUME OwnInv, ShownInv PROVE ShownIsAgents
    OBVIOUS
  <2>0. /\ IInv /\ CourseInv /\ LastInv /\ WorkInv /\ CallsInv /\ SyncInv
    BY DEF OwnInv, ShownInv
  <2> SUFFICES ASSUME NEW t \in Turns, AtWork(t), turns[t].conversation \notin missed
               PROVE  Shows(trackers[turns[t].tracker].tasks,
                            lists[turns[t].conversation], turns[t].conversation)
    BY DEF ShownIsAgents, Shows
  <2>1. turns[t].state = "running" /\ turns[t].context \notin mixed
    BY DEF AtWork
  <2>2. Course(t) /\ turns[t].context \in Contexts
    BY <2>0, <2>1 DEF CourseInv, IInv, TurnsInv
  <2>3. PICK r \in Turns, v \in Turns : r = turns[t].tracker /\ v = turns[t].conversation
    BY <2>1, <2>2 DEF Course
  <2>4. PICK x : x = turns[t].context
    OBVIOUS
  <2>5. Agree(x) /\ t \in UnderWay(x) /\ x \in Contexts \ mixed
    BY <2>0, <2>1, <2>2, <2>4 DEF LastInv, UnderWay
  <2>6. turns[r].conversation = v
    BY <2>1, <2>3, <2>5 DEF Agree
  <2>7. Current(r, x)
    BY <2>1, <2>3, <2>4 DEF Current, Working
  <2>8. InSync(made, trackers[r], lists[v], v)
    BY <2>0, <2>3, <2>5, <2>6, <2>7 DEF SyncInv
  <2> QED
    BY <2>0, <2>3, <2>8, SyncShows
<1>2. ShownInv /\ OwnInv /\ [Next]_vars => ShownInv' /\ OwnInv'
  BY OwnInvStep, ShownInvStep
<1> QED
  BY <1>1, <1>2, OwnInvInit, ShownInvInit, PTL DEF Spec
=============================================================================
