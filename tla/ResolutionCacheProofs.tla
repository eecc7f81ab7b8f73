----------------------- MODULE ResolutionCacheProofs -----------------------
(***************************************************************************)
(* The cache of PortoResolver for any requests, keys, configuration and    *)
(* clock.                                                                  *)
(***************************************************************************)
EXTENDS ResolutionCache, SequenceTheorems, TLAPS

(***************************************************************************)
(* A sequence without its ith element.                                     *)
(***************************************************************************)
LEMMA RemoveAtProps ==
    ASSUME NEW S, NEW s \in Seq(S), NEW i \in 1 .. Len(s)
    PROVE  /\ RemoveAt(s, i) \in Seq(S)
           /\ Len(RemoveAt(s, i)) = Len(s) - 1
           /\ \A j \in 1 .. Len(s) - 1 :
                 RemoveAt(s, i)[j] = s[IF j < i THEN j ELSE j + 1]
  <1> DEFINE a == SubSeq(s, 1, i - 1)
             b == SubSeq(s, i + 1, Len(s))
  <1>1. /\ a \in Seq(S)
        /\ Len(a) = i - 1
        /\ \A j \in 1 .. i - 1 : a[j] = s[j]
    OBVIOUS
  <1>2. /\ b \in Seq(S)
        /\ Len(b) = Len(s) - i
        /\ \A j \in 1 .. Len(s) - i : b[j] = s[i + j]
    OBVIOUS
  <1>3. RemoveAt(s, i) = a \o b
    BY DEF RemoveAt
  <1> HIDE DEF a, b
  <1>4. /\ a \o b \in Seq(S)
        /\ Len(a \o b) = Len(s) - 1
        /\ \A j \in 1 .. Len(s) - 1 : (a \o b)[j] = IF j <= i - 1 THEN a[j] ELSE b[j - (i - 1)]
    <2>1. /\ a \o b \in Seq(S)
          /\ Len(a \o b) = Len(a) + Len(b)
          /\ \A j \in 1 .. Len(a) + Len(b) :
                (a \o b)[j] = IF j <= Len(a) THEN a[j] ELSE b[j - Len(a)]
      BY <1>1, <1>2, ConcatProperties
    <2>2. Len(a) + Len(b) = Len(s) - 1
      BY <1>1, <1>2
    <2> QED BY <1>1, <2>1, <2>2
  <1>5. ASSUME NEW j \in 1 .. Len(s) - 1
        PROVE  (a \o b)[j] = s[IF j < i THEN j ELSE j + 1]
    <2>1. CASE j < i
      BY <1>1, <1>4, <2>1
    <2>2. CASE ~(j < i)
      <3>1. (a \o b)[j] = b[j - (i - 1)]
        BY <1>4, <2>2
      <3>2. j - (i - 1) \in 1 .. Len(s) - i /\ i + (j - (i - 1)) = j + 1
        BY <2>2
      <3> QED BY <1>2, <2>2, <3>1, <3>2
    <2> QED BY <2>1, <2>2
  <1> QED BY <1>3, <1>4, <1>5

(***************************************************************************)
(* A cache in order: no key twice, each key used before those after it,    *)
(* and the clock of each entry off by no more than it may be.              *)
(***************************************************************************)
Dated(e, t) == e.born <= e.at /\ e.at <= e.born + Drift /\ e.born <= t

InOrder(c, u, t) ==
    /\ c \in Seq(Entries)
    /\ \A i \in 1 .. Len(c) : Dated(c[i], t)
    /\ \A i, j \in 1 .. Len(c) :
          i < j => c[i].key # c[j].key /\ <<c[i].key, c[j].key>> \in u

Elements(c) == {c[i] : i \in 1 .. Len(c)}

LEMMA RemoveInOrder ==
    ASSUME NEW u, NEW t \in Nat, NEW c, InOrder(c, u, t), NEW i \in 1 .. Len(c)
    PROVE  /\ InOrder(RemoveAt(c, i), u, t)
           /\ Len(RemoveAt(c, i)) = Len(c) - 1
           /\ c[i].key \notin KeysIn(RemoveAt(c, i))
           /\ \A x : x \in Elements(RemoveAt(c, i)) <=> x \in Elements(c) /\ x # c[i]
  <1> DEFINE d == RemoveAt(c, i)
             f(j) == IF j < i THEN j ELSE j + 1
  <1>1. /\ d \in Seq(Entries)
        /\ Len(d) = Len(c) - 1
        /\ \A j \in 1 .. Len(c) - 1 : d[j] = c[f(j)]
    BY RemoveAtProps DEF InOrder
  <1>2. \A j \in 1 .. Len(c) - 1 : f(j) \in 1 .. Len(c) /\ f(j) # i
    BY DEF InOrder
  <1>3. \A j, l \in 1 .. Len(c) - 1 : j < l => f(j) < f(l)
    BY DEF InOrder
  <1>4. ASSUME NEW j \in (1 .. Len(c)) \ {i}
        PROVE  \E l \in 1 .. Len(c) - 1 : f(l) = j
    <2> Len(c) \in Nat
      BY DEF InOrder
    <2>1. CASE j < i
      <3>1. j \in 1 .. Len(c) - 1 /\ f(j) = j
        BY <2>1
      <3> QED BY <3>1
    <2>2. CASE j > i
      <3>1. j - 1 \in 1 .. Len(c) - 1 /\ f(j - 1) = j
        BY <2>2
      <3> QED BY <3>1
    <2> QED BY <2>1, <2>2
  <1> HIDE DEF d, f
  <1>5. ASSUME NEW j \in 1 .. Len(c) - 1
        PROVE  d[j].key # c[i].key
    <2>1. d[j] = c[f(j)] /\ f(j) \in 1 .. Len(c) /\ f(j) # i
      BY <1>1, <1>2
    <2>2. f(j) < i \/ i < f(j)
      BY <2>1
    <2> QED BY <2>1, <2>2 DEF InOrder
  <1>6. InOrder(d, u, t)
    <2>1. \A j \in 1 .. Len(d) : Dated(d[j], t)
      BY <1>1, <1>2 DEF InOrder
    <2>2. ASSUME NEW j \in 1 .. Len(d), NEW l \in 1 .. Len(d), j < l
          PROVE  d[j].key # d[l].key /\ <<d[j].key, d[l].key>> \in u
      <3>1. f(j) \in 1 .. Len(c) /\ f(l) \in 1 .. Len(c) /\ f(j) < f(l)
        BY <1>1, <1>2, <1>3, <2>2
      <3> QED BY <1>1, <3>1 DEF InOrder
    <2> QED BY <1>1, <2>1, <2>2 DEF InOrder
  <1>7. Elements(d) = Elements(c) \ {c[i]}
    <2>1. ASSUME NEW j \in 1 .. Len(c), c[j] # c[i]
          PROVE  c[j] \in Elements(d)
      <3>1. PICK l \in 1 .. Len(c) - 1 : f(l) = j
        BY <1>4, <2>1
      <3> QED BY <1>1, <3>1 DEF Elements
    <2>2. ASSUME NEW j \in 1 .. Len(d)
          PROVE  d[j] \in Elements(c) \ {c[i]}
      <3>1. d[j] = c[f(j)] /\ f(j) \in 1 .. Len(c) /\ d[j].key # c[i].key
        BY <1>1, <1>2, <1>5
      <3> QED BY <3>1 DEF Elements
    <2> QED BY <2>1, <2>2 DEF Elements
  <1>8. c[i].key \notin KeysIn(d)
    <2>1. DOMAIN d = 1 .. Len(c) - 1
      BY <1>1
    <2> QED BY <1>5, <2>1 DEF KeysIn
  <1> QED BY <1>1, <1>6, <1>7, <1>8 DEF d

(***************************************************************************)
(* Making room drops the entries at the front.                             *)
(***************************************************************************)
IsTail(d, c) ==
    \E n \in Nat : Len(d) = Len(c) - n /\ \A j \in 1 .. Len(d) : d[j] = c[j + n]

LEMMA RoomInOrder ==
    ASSUME NEW u, NEW t \in Nat, NEW c, InOrder(c, u, t)
    PROVE  /\ InOrder(Room(c), u, t)
           /\ Len(c) <= MaxSize \/ Len(c) <= 1 =>
                 Len(Room(c)) < MaxSize \/ Len(Room(c)) = 0
           /\ IsTail(Room(c), c)
           /\ Len(c) < MaxSize => Room(c) = c
  <1>1. CASE ~(Len(c) >= MaxSize)
    <2>1. Room(c) = c
      BY <1>1 DEF Room
    <2>2. Len(c) = Len(c) - 0 /\ \A j \in 1 .. Len(c) : c[j] = c[j + 0]
      BY DEF InOrder
    <2>3. IsTail(c, c)
      BY <2>2 DEF IsTail
    <2>4. Len(c) < MaxSize
      BY <1>1, ConfigAssumption DEF InOrder
    <2> QED BY <2>1, <2>3, <2>4
  <1>2. CASE Len(c) >= MaxSize
    <2> DEFINE d == SubSeq(c, Batch + 1, Len(c))
               n == IF Batch < Len(c) THEN Batch ELSE Len(c)
    <2>1. Room(c) = d
      BY <1>2 DEF Room
    <2>2. /\ d \in Seq(Entries)
          /\ Len(d) = Len(c) - n
          /\ \A j \in 1 .. Len(c) - n : d[j] = c[j + n]
      <3>1. c \in Seq(Entries) /\ Len(c) \in Nat /\ \A j \in 1 .. Len(c) : c[j] \in Entries
        BY DEF InOrder
      <3>2. \A j \in Batch + 1 .. Len(c) : c[j] \in Entries
        BY <3>1, ConfigAssumption
      <3>3. /\ d \in Seq(Entries)
            /\ Len(d) = IF Batch + 1 <= Len(c) THEN Len(c) - (Batch + 1) + 1 ELSE 0
            /\ \A j \in 1 .. Len(c) - (Batch + 1) + 1 : d[j] = c[(Batch + 1) + j - 1]
        BY <3>1, <3>2, SubSeqProperties, ConfigAssumption
      <3> HIDE DEF d
      <3>4. Len(d) = Len(c) - n
        <4>1. CASE Batch < Len(c)
          <5>1. n = Batch /\ Batch + 1 <= Len(c)
            BY <3>1, <4>1, ConfigAssumption
          <5>2. Len(d) = Len(c) - (Batch + 1) + 1
            BY <3>3, <5>1
          <5> QED BY <3>1, <5>1, <5>2, ConfigAssumption
        <4>2. CASE ~(Batch < Len(c))
          <5>1. n = Len(c) /\ ~(Batch + 1 <= Len(c))
            BY <3>1, <4>2, ConfigAssumption
          <5>2. Len(d) = 0
            BY <3>3, <5>1
          <5> QED BY <3>1, <5>1, <5>2
        <4> QED BY <4>1, <4>2
      <3>5. ASSUME NEW j \in 1 .. Len(c) - n
            PROVE  d[j] = c[j + n]
        <4>1. Batch < Len(c) /\ n = Batch
          BY <3>1, <3>5, ConfigAssumption
        <4>2. j \in 1 .. Len(c) - (Batch + 1) + 1 /\ (Batch + 1) + j - 1 = j + n
          BY <3>1, <4>1, ConfigAssumption
        <4> QED BY <3>3, <4>2
      <3> QED BY <3>3, <3>4, <3>5
    <2>3. n \in Nat /\ Len(c) \in Nat /\ \A j \in 1 .. Len(c) - n : j + n \in 1 .. Len(c)
      BY ConfigAssumption DEF InOrder
    <2>4. n = Batch \/ n = Len(c)
      OBVIOUS
    <2> HIDE DEF d, n
    <2>5. \A j \in 1 .. Len(d) : Dated(d[j], t)
      BY <2>2, <2>3 DEF InOrder
    <2>6. ASSUME NEW j \in 1 .. Len(d), NEW l \in 1 .. Len(d), j < l
          PROVE  d[j].key # d[l].key /\ <<d[j].key, d[l].key>> \in u
      <3>1. j + n \in 1 .. Len(c) /\ l + n \in 1 .. Len(c) /\ j + n < l + n
        BY <2>2, <2>3, <2>6
      <3>2. d[j] = c[j + n] /\ d[l] = c[l + n]
        BY <2>2
      <3> QED BY <3>1, <3>2 DEF InOrder
    <2>7. InOrder(d, u, t)
      BY <2>2, <2>5, <2>6 DEF InOrder
    <2>8. Len(c) <= MaxSize \/ Len(c) <= 1 => Len(d) < MaxSize \/ Len(d) = 0
      BY <2>2, <2>3, <2>4, ConfigAssumption
    <2>9. IsTail(d, c)
      BY <2>2, <2>3 DEF IsTail
    <2>10. ~(Len(c) < MaxSize)
      BY <1>2, <2>3, ConfigAssumption
    <2> QED BY <2>1, <2>7, <2>8, <2>9, <2>10
  <1> QED BY <1>1, <1>2, ConfigAssumption DEF InOrder

LEMMA KeysElements ==
    ASSUME NEW u, NEW t, NEW c, InOrder(c, u, t)
    PROVE  KeysIn(c) = {e.key : e \in Elements(c)}
  BY DEF InOrder, KeysIn, Elements

(***************************************************************************)
(* What is dropped was used before what stays.                             *)
(***************************************************************************)
LEMMA TailUsedLater ==
    ASSUME NEW u, NEW t \in Nat, NEW c, NEW d, InOrder(c, u, t), InOrder(d, u, t), IsTail(d, c)
    PROVE  /\ Elements(d) \subseteq Elements(c)
           /\ \A x \in Elements(c) \ Elements(d), y \in Elements(d) : <<x.key, y.key>> \in u
  <1>1. PICK n \in Nat : Len(d) = Len(c) - n /\ \A j \in 1 .. Len(d) : d[j] = c[j + n]
    BY DEF IsTail
  <1>2. Len(c) \in Nat /\ Len(d) \in Nat
    BY DEF InOrder
  <1>3. \A j \in 1 .. Len(d) : j + n \in 1 .. Len(c)
    BY <1>1, <1>2
  <1>4. ASSUME NEW i \in 1 .. Len(c), c[i] \notin Elements(d), NEW j \in 1 .. Len(d)
        PROVE  <<c[i].key, d[j].key>> \in u
    <2>1. ~(i > n)
      <3> SUFFICES ASSUME i > n PROVE FALSE
        OBVIOUS
      <3>1. i - n \in 1 .. Len(d) /\ (i - n) + n = i
        BY <1>1, <1>2
      <3>2. d[i - n] = c[i]
        BY <1>1, <3>1
      <3> QED BY <1>4, <3>1, <3>2 DEF Elements
    <2>2. i < j + n /\ j + n \in 1 .. Len(c) /\ d[j] = c[j + n]
      BY <1>1, <1>3, <2>1
    <2> QED BY <2>2 DEF InOrder
  <1> QED BY <1>1, <1>3, <1>4 DEF Elements

(***************************************************************************)
(* A key that is used goes to the end.                                     *)
(***************************************************************************)
LEMMA AppendInOrder ==
    ASSUME NEW u, NEW t \in Nat, NEW c, InOrder(c, u, t), NEW e \in Entries,
           Dated(e, t),
           e.key \notin KeysIn(c)
    PROVE  /\ InOrder(Append(c, e), Using(u, e.key), t)
           /\ Len(Append(c, e)) = Len(c) + 1
           /\ Elements(Append(c, e)) = Elements(c) \union {e}
  <1> DEFINE d == Append(c, e)
  <1>1. /\ d \in Seq(Entries)
        /\ Len(d) = Len(c) + 1
        /\ \A i \in 1 .. Len(c) : d[i] = c[i]
        /\ d[Len(c) + 1] = e
        /\ Len(c) \in Nat
    BY DEF InOrder
  <1> HIDE DEF d
  <1> \A i \in 1 .. Len(c) : c[i].key # e.key
    BY DEF KeysIn, InOrder
  <1>2. \A i \in 1 .. Len(d) : Dated(d[i], t)
    BY <1>1 DEF InOrder
  <1>3. ASSUME NEW i \in 1 .. Len(d), NEW j \in 1 .. Len(d), i < j
        PROVE  d[i].key # d[j].key /\ <<d[i].key, d[j].key>> \in Using(u, e.key)
    <2>1. i \in 1 .. Len(c) /\ d[i] = c[i] /\ c[i] \in Entries
      BY <1>1, <1>3 DEF InOrder
    <2>2. CASE j = Len(c) + 1
      BY <1>1, <2>1, <2>2 DEF Using, Entries
    <2>3. CASE j # Len(c) + 1
      <3>1. j \in 1 .. Len(c) /\ d[j] = c[j]
        BY <1>1, <2>3
      <3> QED BY <1>3, <2>1, <3>1 DEF InOrder, Using
    <2> QED BY <2>2, <2>3
  <1>4. Elements(d) = Elements(c) \union {e}
    <2>1. \A x : x \in Elements(d) <=> \E i \in 1 .. Len(c) + 1 : x = d[i]
      BY <1>1 DEF Elements
    <2>2. \A x : x \in Elements(c) <=> \E i \in 1 .. Len(c) : x = d[i]
      BY <1>1 DEF Elements
    <2>3. \A i \in 1 .. Len(c) + 1 : i \in 1 .. Len(c) \/ i = Len(c) + 1
      BY <1>1
    <2>4. 1 .. Len(c) \subseteq 1 .. Len(c) + 1 /\ Len(c) + 1 \in 1 .. Len(c) + 1
      BY <1>1
    <2> QED BY <1>1, <2>1, <2>2, <2>3, <2>4
  <1> QED BY <1>1, <1>2, <1>3, <1>4 DEF InOrder, d

CacheInv ==
    /\ TypeOK
    /\ SizeBounded
    /\ InOrder(cache, used, now)
    /\ NotOverAge

LEMMA CacheInvInit == Init => CacheInv
  <1> SUFFICES ASSUME Init PROVE CacheInv
    OBVIOUS
  <1>1. Len(cache) = 0 /\ cache \in Seq(Entries)
    BY DEF Init
  <1>2. InOrder(cache, used, now)
    BY <1>1 DEF InOrder
  <1> QED BY <1>1, <1>2, ConfigAssumption DEF Init, CacheInv, TypeOK, SizeBounded, NotOverAge

(***************************************************************************)
(* The pipeline's answer goes into what get() left of the cache.           *)
(***************************************************************************)
LEMMA ComputeKeeps ==
    ASSUME CacheInv, NEW r \in Requests, NEW c, InOrder(c, used, now),
           Len(c) <= MaxSize \/ Len(c) <= 1,
           KeyOf[r] \notin KeysIn(c),
           enabled' = enabled, Compute(r, c)
    PROVE  /\ CacheInv'
           /\ returned' = {[request |-> r, answer |-> Answer[r], age |-> 0]}
           /\ \/ cache' = c
              \/ /\ Answer[r] \notin Refusals
                 /\ Elements(cache') = Elements(Room(c)) \union {NewEntry(r)}
  <1>1. /\ returned' = {[request |-> r, answer |-> Answer[r], age |-> 0]}
        /\ UNCHANGED <<enabled, now, shift>>
    BY DEF Compute, Return
  <1>2. /\ returned' \subseteq [request : Requests, answer : Portos \union Refusals, age : Nat]
        /\ NotOverAge'
    BY <1>1, RequestsAssumption, ConfigAssumption DEF NotOverAge
  <1> now \in Nat
    BY DEF CacheInv, TypeOK
  <1>3. CASE Answer[r] \in Refusals
    <2>1. cache' = c /\ used' = used
      BY <1>3 DEF Compute
    <2>2. InOrder(cache', used', now') /\ SizeBounded'
      BY <1>1, <2>1 DEF SizeBounded
    <2> QED BY <1>1, <1>2, <2>1, <2>2 DEF CacheInv, TypeOK, InOrder
  <1>4. CASE Answer[r] \notin Refusals
    <2> DEFINE d == Room(c)
               e == NewEntry(r)
    <2>1. cache' = Append(d, e) /\ used' = Using(used, KeyOf[r])
      BY <1>4 DEF Compute, Use
    <2>2. /\ e \in Entries
          /\ e.key = KeyOf[r]
          /\ Dated(e, now)
      BY <1>4, RequestsAssumption, ConfigAssumption DEF NewEntry, Entries, Clock, CacheInv, TypeOK, Dated
    <2>3. /\ InOrder(d, used, now)
          /\ Len(d) < MaxSize \/ Len(d) = 0
          /\ IsTail(d, c)
      BY RoomInOrder
    <2> HIDE DEF d, e
    <2>4. Len(d) \in Nat /\ Len(c) \in Nat
      BY <2>3 DEF InOrder
    <2>5. e.key \notin KeysIn(d)
      <3>1. Elements(d) \subseteq Elements(c)
        BY <2>3, TailUsedLater
      <3> QED BY <2>2, <2>3, <3>1, KeysElements
    <2>6. /\ InOrder(cache', used', now')
          /\ Elements(cache') = Elements(d) \union {e}
      BY <1>1, <2>1, <2>2, <2>3, <2>5, AppendInOrder
    <2>7. Len(cache') = Len(d) + 1
      BY <2>1, <2>2, <2>3 DEF InOrder
    <2>8. SizeBounded'
      BY <2>3, <2>4, <2>7, ConfigAssumption DEF SizeBounded
    <2>9. used' \subseteq Keys \X Keys
      BY <2>1, RequestsAssumption DEF Using, CacheInv, TypeOK
    <2>10. CacheInv'
      BY <1>1, <1>2, <2>6, <2>8, <2>9 DEF CacheInv, TypeOK, InOrder
    <2> QED BY <1>1, <1>4, <2>6, <2>10 DEF d, e
  <1> QED BY <1>3, <1>4

(***************************************************************************)
(* A fresh entry moves to the end.                                         *)
(***************************************************************************)
LEMMA HitKeeps ==
    ASSUME CacheInv, NEW r \in Requests, Hit(r)
    PROVE  /\ CacheInv'
           /\ Elements(cache') = Elements(cache)
           /\ \E e \in Elements(cache) :
                 /\ e.key = KeyOf[r]
                 /\ returned' = {[request |-> r, answer |-> e.data, age |-> now - e.born]}
  <1>1. PICK i \in Held(KeyOf[r]) :
          /\ ~Expired(cache[i])
          /\ cache' = Append(RemoveAt(cache, i), cache[i])
          /\ returned' = {[request |-> r, answer |-> cache[i].data, age |-> now - cache[i].born]}
    BY DEF Hit, Return
  <1>2. /\ UNCHANGED <<enabled, now, shift>>
        /\ used' = Using(used, KeyOf[r])
    BY DEF Hit, Use
  <1> DEFINE d == RemoveAt(cache, i)
             e == cache[i]
  <1> now \in Nat
    BY DEF CacheInv, TypeOK
  <1>3. i \in 1 .. Len(cache) /\ e \in Entries /\ e.key = KeyOf[r]
    BY DEF Held, CacheInv, InOrder
  <1>4. Dated(e, now)
    BY <1>3 DEF CacheInv, InOrder
  <1>5. /\ InOrder(d, used, now)
        /\ Len(d) = Len(cache) - 1
        /\ e.key \notin KeysIn(d)
        /\ Elements(d) = Elements(cache) \ {e}
    <2>1. InOrder(cache, used, now) /\ i \in 1 .. Len(cache) /\ now \in Nat
      BY <1>3 DEF CacheInv
    <2>2. /\ InOrder(RemoveAt(cache, i), used, now)
          /\ Len(RemoveAt(cache, i)) = Len(cache) - 1
          /\ cache[i].key \notin KeysIn(RemoveAt(cache, i))
          /\ Elements(RemoveAt(cache, i)) = Elements(cache) \ {cache[i]}
      <3>1. InOrder(RemoveAt(cache, i), used, now)
        BY ONLY <2>1, RemoveInOrder
      <3>2. Len(RemoveAt(cache, i)) = Len(cache) - 1
        BY ONLY <2>1, RemoveInOrder
      <3>3. cache[i].key \notin KeysIn(RemoveAt(cache, i))
        BY ONLY <2>1, RemoveInOrder
      <3>4. Elements(RemoveAt(cache, i)) = Elements(cache) \ {cache[i]}
        <4>1. \A x : x \in Elements(RemoveAt(cache, i)) <=> x \in Elements(cache) /\ x # cache[i]
          BY ONLY <2>1, RemoveInOrder
        <4> QED BY <4>1
      <3> QED BY <3>1, <3>2, <3>3, <3>4
    <2> QED BY <2>2
  <1>6. cache' = Append(d, e) /\ used' = Using(used, e.key) /\ Len(cache) \in Nat
    BY <1>1, <1>2, <1>3 DEF CacheInv, InOrder
  <1>7. now - e.born <= TTL + Drift /\ now - e.born \in Nat
    <2>1. /\ e.born \in Nat /\ e.at \in Nat /\ shift \in Nat /\ TTL \in Nat /\ Drift \in Nat
      BY <1>3, ConfigAssumption DEF Entries, CacheInv, TypeOK
    <2>2. now + shift - e.at <= TTL
      BY <1>1, <2>1 DEF Expired, Clock
    <2> QED BY <1>4, <2>1, <2>2 DEF Dated
  <1>8. /\ NotOverAge'
        /\ returned' \subseteq [request : Requests, answer : Portos \union Refusals, age : Nat]
    BY <1>1, <1>3, <1>7 DEF NotOverAge, Entries
  <1>9. e \in Elements(cache)
    BY <1>3 DEF Elements
  <1> HIDE DEF d, e
  <1>10. /\ InOrder(cache', used', now')
         /\ Len(cache') = Len(cache)
         /\ Elements(cache') = Elements(cache)
    <2>1. /\ InOrder(Append(d, e), Using(used, e.key), now)
          /\ Len(Append(d, e)) = Len(d) + 1
          /\ Elements(Append(d, e)) = Elements(d) \union {e}
      <3>1. InOrder(Append(d, e), Using(used, e.key), now)
        BY <1>3, <1>4, <1>5, AppendInOrder
      <3>2. Len(Append(d, e)) = Len(d) + 1
        BY <1>3, <1>4, <1>5, AppendInOrder
      <3>3. Elements(Append(d, e)) = Elements(d) \union {e}
        BY <1>3, <1>4, <1>5, AppendInOrder
      <3> QED BY <3>1, <3>2, <3>3
    <2> QED BY <1>2, <1>5, <1>6, <1>9, <2>1
  <1>11. used' \subseteq Keys \X Keys
    BY <1>2, RequestsAssumption DEF Using, CacheInv, TypeOK
  <1>12. CacheInv'
    BY <1>2, <1>8, <1>10, <1>11 DEF CacheInv, TypeOK, InOrder, SizeBounded
  <1> QED BY <1>1, <1>3, <1>9, <1>10, <1>12 DEF e

(***************************************************************************)
(* Each way a request is answered from the pipeline, with what it does to  *)
(* the entries.                                                            *)
(***************************************************************************)
LEMMA MissKeeps ==
    ASSUME CacheInv, NEW r \in Requests, Miss(r)
    PROVE  /\ CacheInv'
           /\ returned' = {[request |-> r, answer |-> Answer[r], age |-> 0]}
           /\ \/ cache' = cache
              \/ /\ Answer[r] \notin Refusals
                 /\ Elements(cache') = Elements(Room(cache)) \union {NewEntry(r)}
  <1>1. InOrder(cache, used, now) /\ (Len(cache) <= MaxSize \/ Len(cache) <= 1)
    BY DEF CacheInv, SizeBounded
  <1>2. KeyOf[r] \notin KeysIn(cache)
    BY DEF Miss, Held, KeysIn
  <1>3. Compute(r, cache) /\ enabled' = enabled
    BY DEF Miss, Compute
  <1> QED BY <1>1, <1>2, <1>3, ComputeKeeps

LEMMA RenewKeeps ==
    ASSUME CacheInv, NEW r \in Requests, Renew(r)
    PROVE  /\ CacheInv'
           /\ returned' = {[request |-> r, answer |-> Answer[r], age |-> 0]}
           /\ \A x \in Elements(cache) : x.key # KeyOf[r] => x \in Elements(cache')
           /\ \A x \in Elements(cache') : x \in Elements(cache) \/ (x = NewEntry(r) /\ Answer[r] \notin Refusals)
  <1>1. PICK i \in Held(KeyOf[r]) : Compute(r, RemoveAt(cache, i))
    BY DEF Renew
  <1> DEFINE c == RemoveAt(cache, i)
  <1>2. /\ InOrder(cache, used, now)
        /\ now \in Nat
        /\ i \in 1 .. Len(cache)
        /\ cache[i].key = KeyOf[r]
        /\ Len(cache) <= MaxSize \/ Len(cache) <= 1
    BY DEF Held, CacheInv, InOrder, SizeBounded, TypeOK
  <1>3. /\ InOrder(c, used, now)
        /\ Len(c) = Len(cache) - 1
        /\ KeyOf[r] \notin KeysIn(c)
    BY <1>2, RemoveInOrder
  <1>4. \A x : x \in Elements(c) <=> x \in Elements(cache) /\ x # cache[i]
    BY <1>2, RemoveInOrder
  <1>5. Len(cache) \in Nat /\ Len(c) \in Nat
    BY <1>2, <1>3 DEF InOrder
  <1>6. Len(c) < MaxSize \/ Len(c) = 0
    BY <1>2, <1>3, <1>5, ConfigAssumption
  <1>7. Room(c) = c
    <2>1. CASE Len(c) < MaxSize
      BY <1>2, <1>3, <2>1, RoomInOrder
    <2>2. CASE Len(c) = 0
      <3>1. InOrder(Room(c), used, now) /\ IsTail(Room(c), c)
        BY <1>2, <1>3, RoomInOrder
      <3> HIDE DEF c
      <3>2. c \in Seq(Entries) /\ Room(c) \in Seq(Entries) /\ Len(Room(c)) \in Nat
        BY <1>3, <3>1 DEF InOrder
      <3>3. Len(Room(c)) = 0
        BY <2>2, <3>1, <3>2 DEF IsTail
      <3>4. Room(c) = <<>> /\ c = <<>>
        BY <2>2, <3>2, <3>3
      <3> QED BY <3>4
    <2> QED BY <1>6, <2>1, <2>2
  <1>8. enabled' = enabled
    BY <1>1 DEF Compute
  <1> HIDE DEF c
  <1>9. /\ CacheInv'
        /\ returned' = {[request |-> r, answer |-> Answer[r], age |-> 0]}
        /\ \/ cache' = c
           \/ /\ Answer[r] \notin Refusals
              /\ Elements(cache') = Elements(Room(c)) \union {NewEntry(r)}
    <2>1. Compute(r, c) /\ (Len(c) <= MaxSize \/ Len(c) <= 1)
      BY <1>1, <1>5, <1>6, ConfigAssumption DEF c
    <2> QED BY <1>3, <1>8, <2>1, ComputeKeeps
  <1>10. \A x \in Elements(cache) : x.key # KeyOf[r] => x \in Elements(c)
    BY <1>2, <1>4
  <1>11. \/ cache' = c
        \/ /\ Answer[r] \notin Refusals
           /\ Elements(cache') = Elements(c) \union {NewEntry(r)}
    <2>1. Elements(Room(c)) = Elements(c)
      BY <1>7
    <2> QED BY <1>9, <2>1
  <1>12. \A x \in Elements(cache) : x.key # KeyOf[r] => x \in Elements(cache')
    BY <1>10, <1>11
  <1>13. \A x \in Elements(cache') : x \in Elements(cache) \/ (x = NewEntry(r) /\ Answer[r] \notin Refusals)
    BY <1>4, <1>11
  <1> QED BY <1>9, <1>12, <1>13

LEMMA CacheInvStep ==
    ASSUME CacheInv, [Next]_vars
    PROVE  CacheInv'
  <1>1. ASSUME NEW r \in Requests, Hit(r) \/ Miss(r) \/ Renew(r)
        PROVE  CacheInv'
    BY <1>1, HitKeeps, MissKeeps, RenewKeeps
  <1>2. ASSUME NEW r \in Requests, Uncached(r)
        PROVE  CacheInv'
    <2>1. /\ returned' = {[request |-> r, answer |-> Answer[r], age |-> 0]}
          /\ UNCHANGED <<enabled, cache, now, shift, used>>
      BY <1>2 DEF Uncached, Return
    <2>2. NotOverAge'
      BY <2>1, ConfigAssumption DEF NotOverAge
    <2>3. TypeOK'
      BY <2>1, RequestsAssumption DEF CacheInv, TypeOK
    <2> QED BY <2>1, <2>2, <2>3 DEF CacheInv, SizeBounded
  <1>3. CASE ClearCache
    <2>1. cache' = <<>> /\ UNCHANGED <<enabled, now, shift, returned, used>>
      BY <1>3 DEF ClearCache
    <2>2. Len(cache') = 0 /\ cache' \in Seq(Entries)
      BY <2>1
    <2>3. InOrder(cache', used', now')
      BY <2>2 DEF InOrder
    <2> QED BY <2>1, <2>2, <2>3 DEF CacheInv, TypeOK, SizeBounded, NotOverAge
  <1>4. CASE Tick
    <2>1. now' = now + 1 /\ now \in Nat /\ UNCHANGED <<enabled, cache, shift, returned, used>>
      BY <1>4 DEF Tick, CacheInv, TypeOK
    <2>2. ASSUME NEW i \in 1 .. Len(cache)
          PROVE  Dated(cache[i], now')
      <3>1. cache[i] \in Entries /\ Dated(cache[i], now)
        BY DEF CacheInv, InOrder
      <3>2. cache[i].born \in Nat
        BY <3>1 DEF Entries
      <3> QED BY <2>1, <3>1, <3>2 DEF Dated
    <2>3. InOrder(cache', used', now')
      BY <2>1, <2>2 DEF CacheInv, InOrder
    <2> QED BY <2>1, <2>3 DEF CacheInv, TypeOK, SizeBounded, NotOverAge
  <1>5. CASE AdjustClock
    BY <1>5 DEF AdjustClock, CacheInv, TypeOK, SizeBounded, NotOverAge
  <1>6. CASE UNCHANGED vars
    BY <1>6 DEF vars, CacheInv, TypeOK, SizeBounded, NotOverAge
  <1> QED BY <1>1, <1>2, <1>3, <1>4, <1>5, <1>6 DEF Next

(***************************************************************************)
(* Types, the size and the age hold in every reachable state, for every    *)
(* configuration and clock (cache.py:66-97).                               *)
(***************************************************************************)
THEOREM CacheCorrect == Spec => [](TypeOK /\ SizeBounded /\ NotOverAge)
  <1>1. CacheInv /\ [Next]_vars => CacheInv'
    BY CacheInvStep
  <1>2. CacheInv => TypeOK /\ SizeBounded /\ NotOverAge
    BY DEF CacheInv
  <1> QED BY CacheInvInit, <1>1, <1>2, PTL DEF Spec

(***************************************************************************)
(* The types of the cache alone (cache.py:66-97).                          *)
(***************************************************************************)
THEOREM CacheTypeCorrect == Spec => []TypeOK
  BY CacheCorrect, PTL

(***************************************************************************)
(* The cache never holds more entries than it may, whatever is asked and   *)
(* however the clock is set (cache.py:94-97).                              *)
(***************************************************************************)
THEOREM SizeCorrect == Spec => []SizeBounded
  BY CacheCorrect, PTL

(***************************************************************************)
(* What a miss drops was used before what it keeps.                        *)
(***************************************************************************)
LEMMA MissDropsOldest ==
    ASSUME CacheInv, NEW r \in Requests, Miss(r),
           NEW k \in KeysIn(cache), k \notin KeysIn(cache'),
           NEW l \in KeysIn(cache), l \in KeysIn(cache')
    PROVE  <<k, l>> \in used
  <1>1. InOrder(cache, used, now) /\ now \in Nat
    BY DEF CacheInv, TypeOK
  <1>2. InOrder(Room(cache), used, now) /\ IsTail(Room(cache), cache)
    BY <1>1, RoomInOrder
  <1>3. cache' # cache /\ CacheInv'
    BY MissKeeps
  <1>4. Elements(cache') = Elements(Room(cache)) \union {NewEntry(r)}
    BY <1>3, MissKeeps
  <1>5. InOrder(cache', used', now')
    BY <1>3 DEF CacheInv
  <1>6. KeysIn(cache') = {e.key : e \in Elements(cache')}
    BY <1>5, KeysElements
  <1>7. KeysIn(cache) = {e.key : e \in Elements(cache)}
    BY <1>1, KeysElements
  <1>8. KeyOf[r] \notin KeysIn(cache) /\ NewEntry(r).key = KeyOf[r]
    BY DEF Miss, Held, KeysIn, NewEntry
  <1>9. PICK y \in Elements(Room(cache)) : y.key = l
    BY <1>4, <1>6, <1>8
  <1>10. PICK x \in Elements(cache) \ Elements(Room(cache)) : x.key = k
    BY <1>4, <1>6, <1>7
  <1> QED BY <1>1, <1>2, <1>9, <1>10, TailUsedLater

(***************************************************************************)
(* The entries that make way were used before those that stay, for every   *)
(* batch and size (cache.py:78, 89, 94-97).                                *)
(***************************************************************************)
THEOREM LeastRecentlyUsedCorrect == Spec => LeastRecentlyUsedGo
  <1> DEFINE Goes ==
        \A got \in returned',
           k \in KeysIn(cache) \ KeysIn(cache'),
           l \in KeysIn(cache) \intersect KeysIn(cache') :
              KeyOf[got.request] # k => <<k, l>> \in used
  <1>1. CacheInv /\ [Next]_vars => [Goes]_vars
    <2> SUFFICES ASSUME CacheInv, [Next]_vars PROVE Goes
      OBVIOUS
    <2>1. ASSUME cache' = cache PROVE Goes
      BY <2>1
    <2>2. ASSUME CacheInv', NEW r \in Requests,
                 returned' = {[request |-> r, answer |-> Answer[r], age |-> 0]},
                 \A x \in Elements(cache) : x.key # KeyOf[r] => x \in Elements(cache')
          PROVE  Goes
      <3>1. KeysIn(cache') = {e.key : e \in Elements(cache')}
        BY <2>2, KeysElements DEF CacheInv
      <3>2. KeysIn(cache) = {e.key : e \in Elements(cache)}
        BY KeysElements DEF CacheInv
      <3>3. \A k \in KeysIn(cache) : k # KeyOf[r] => k \in KeysIn(cache')
        BY <2>2, <3>1, <3>2
      <3>4. \A got \in returned' : got.request = r
        BY <2>2
      <3> QED BY <3>3, <3>4
    <2>3. ASSUME NEW r \in Requests, Hit(r) PROVE Goes
      <3>1. CacheInv' /\ Elements(cache') = Elements(cache)
        BY <2>3, HitKeeps
      <3>2. KeysIn(cache') = {e.key : e \in Elements(cache')}
        BY <3>1, KeysElements DEF CacheInv
      <3>3. KeysIn(cache) = {e.key : e \in Elements(cache)}
        BY KeysElements DEF CacheInv
      <3>4. KeysIn(cache') = KeysIn(cache)
        BY <3>1, <3>2, <3>3
      <3> QED BY <3>4
    <2>4. ASSUME NEW r \in Requests, Miss(r) PROVE Goes
      BY <2>4, MissDropsOldest
    <2>5. ASSUME NEW r \in Requests, Renew(r) PROVE Goes
      BY <2>2, <2>5, RenewKeeps
    <2>6. ASSUME ClearCache PROVE Goes
      <3>1. KeysIn(cache') = {}
        BY <2>6 DEF ClearCache, KeysIn
      <3> QED BY <3>1
    <2> QED BY <2>1, <2>3, <2>4, <2>5, <2>6 DEF Next, vars, Uncached, Tick, AdjustClock
  <1>2. CacheInv /\ [Next]_vars => CacheInv'
    BY CacheInvStep
  <1>3. Spec => [][Goes]_vars
    BY CacheInvInit, <1>1, <1>2, PTL DEF Spec
  <1> QED BY <1>3 DEF LeastRecentlyUsedGo

(***************************************************************************)
(* Each entry holds the porto of a request with its key; an answer is the  *)
(* request's own or such a porto.                                          *)
(***************************************************************************)
Keyed(key, data) == data \in Portos /\ \E q \in Requests : KeyOf[q] = key /\ data = Answer[q]

Faithful(c) == \A e \in Elements(c) : Keyed(e.key, e.data)

AnswersByKey ==
    \A got \in returned :
        /\ got.request \in Requests
        /\ got.answer = Answer[got.request] \/ Keyed(KeyOf[got.request], got.answer)

AnswerInv == CacheInv /\ Faithful(cache) /\ AnswersByKey

LEMMA AnswerInvStep ==
    ASSUME AnswerInv, [Next]_vars
    PROVE  AnswerInv'
  <1>1. CacheInv /\ CacheInv'
    BY CacheInvStep DEF AnswerInv
  <1>2. ASSUME NEW r \in Requests, Answer[r] \notin Refusals, NEW x, x = NewEntry(r) PROVE Keyed(x.key, x.data)
    BY <1>2, RequestsAssumption DEF Keyed, NewEntry
  <1>3. ASSUME NEW r \in Requests, Hit(r) PROVE AnswerInv'
    <2>1. Elements(cache') = Elements(cache)
      BY <1>1, <1>3, HitKeeps
    <2>2. PICK e \in Elements(cache) :
            /\ e.key = KeyOf[r]
            /\ returned' = {[request |-> r, answer |-> e.data, age |-> now - e.born]}
      BY <1>1, <1>3, HitKeeps
    <2>3. AnswersByKey'
      BY <2>2 DEF AnswerInv, Faithful, AnswersByKey, Keyed
    <2>4. Faithful(cache')
      BY <2>1 DEF AnswerInv, Faithful
    <2> QED BY <1>1, <2>3, <2>4 DEF AnswerInv
  <1>4. ASSUME NEW r \in Requests,
               returned' = {[request |-> r, answer |-> Answer[r], age |-> 0]},
               \A x \in Elements(cache') : x \in Elements(cache) \/ (x = NewEntry(r) /\ Answer[r] \notin Refusals)
        PROVE  AnswerInv'
    <2>1. AnswersByKey'
      BY <1>4 DEF AnswersByKey, Keyed
    <2>2. Faithful(cache')
      BY <1>2, <1>4 DEF AnswerInv, Faithful
    <2> QED BY <1>1, <2>1, <2>2 DEF AnswerInv
  <1>5. ASSUME NEW r \in Requests, Miss(r) PROVE AnswerInv'
    <2>1. InOrder(cache, used, now) /\ now \in Nat
      BY <1>1 DEF CacheInv, TypeOK
    <2>2. InOrder(Room(cache), used, now) /\ IsTail(Room(cache), cache)
      BY <2>1, RoomInOrder
    <2>3. Elements(Room(cache)) \subseteq Elements(cache)
      BY <2>1, <2>2, TailUsedLater
    <2>4. \/ cache' = cache
          \/ Answer[r] \notin Refusals /\ Elements(cache') = Elements(Room(cache)) \union {NewEntry(r)}
      BY <1>1, <1>5, MissKeeps
    <2>5. \A x \in Elements(cache') : x \in Elements(cache) \/ (x = NewEntry(r) /\ Answer[r] \notin Refusals)
      BY <2>3, <2>4
    <2>6. returned' = {[request |-> r, answer |-> Answer[r], age |-> 0]}
      BY <1>1, <1>5, MissKeeps
    <2> QED BY <1>4, <2>5, <2>6
  <1>6. ASSUME NEW r \in Requests, Renew(r) PROVE AnswerInv'
    BY <1>1, <1>4, <1>6, RenewKeeps
  <1>7. ASSUME NEW r \in Requests, Uncached(r) PROVE AnswerInv'
    BY <1>4, <1>7 DEF Uncached, Return
  <1>8. CASE ClearCache
    <2>1. Elements(cache') = {} /\ returned' = returned
      BY <1>8 DEF ClearCache, Elements
    <2> QED BY <1>1, <2>1 DEF AnswerInv, Faithful, AnswersByKey, Keyed
  <1>9. ASSUME cache' = cache, returned' = returned PROVE AnswerInv'
    BY <1>1, <1>9 DEF AnswerInv, Faithful, AnswersByKey, Keyed
  <1> QED BY <1>3, <1>5, <1>6, <1>7, <1>8, <1>9 DEF Next, vars, Tick, AdjustClock

LEMMA AnswerInvAlways == Spec => []AnswerInv
  <1>1. Init => AnswerInv
    <2> SUFFICES ASSUME Init PROVE AnswerInv
      OBVIOUS
    <2>1. Elements(cache) = {} /\ returned = {}
      BY DEF Init, Elements
    <2> QED BY <2>1, CacheInvInit DEF AnswerInv, Faithful, AnswersByKey
  <1>2. AnswerInv /\ [Next]_vars => AnswerInv'
    BY AnswerInvStep
  <1> QED BY <1>1, <1>2, PTL DEF Spec
=============================================================================
