----------------------------- MODULE DataLemmas -----------------------------
(***************************************************************************)
(* What the proofs of several modules need to know of their data: least    *)
(* and greatest numbers, induction and recursion on the naturals, and the  *)
(* type and the range of the sequences that the models compute.            *)
(*                                                                         *)
(* The library states induction for an operator P(_).  Here it is a lemma  *)
(* about a set T of numbers: the least number outside T would be neither 0 *)
(* nor the successor of one in T.                                          *)
(***************************************************************************)
EXTENDS Sublists, SequencesExt, WellFoundedInduction, FiniteSetTheorems, TLAPS

Less == OpToRel(<, Nat)

LEMMA LessPairs == \A i, j \in Nat : <<i, j>> \in Less <=> i < j
  BY DEF Less, OpToRel

LEMMA Least ==
    ASSUME NEW T, T \subseteq Nat, T # {}
    PROVE  \E m \in T : \A n \in T : m <= n
  <1>1. IsWellFoundedOn(Less, Nat)
    BY NatLessThanWellFounded DEF Less
  <1>2. PICK m \in T : \A n \in T : ~(<<n, m>> \in Less)
    BY <1>1, WFMin
  <1>3. \A n \in T : m <= n
    <2> TAKE n \in T
    <2>1. ~(n < m)
      BY <1>2, LessPairs
    <2> QED BY <2>1
  <1> QED BY <1>3

LEMMA Induction ==
    ASSUME NEW T, 0 \in T, \A n \in Nat : n \in T => n + 1 \in T
    PROVE  Nat \subseteq T
  <1> SUFFICES ASSUME Nat \ T # {} PROVE FALSE
    OBVIOUS
  <1>1. PICK m \in Nat \ T : \A n \in Nat \ T : m <= n
    <2>1. Nat \ T \subseteq Nat
      OBVIOUS
    <2> QED BY <2>1, Least
  <1>2. m # 0 /\ m - 1 \in Nat
    BY <1>1
  <1>3. m - 1 \in T
    BY <1>1, <1>2
  <1>4. (m - 1) + 1 \in T
    BY <1>2, <1>3
  <1> QED BY <1>1, <1>4

Iterates(f, V, a, n, step) ==
    /\ f \in [0 .. n -> V]
    /\ f[0] = a
    /\ \A i \in 1 .. n : f[i] = step[<<i, f[i - 1]>>]

LEMMA Recursion ==
    ASSUME NEW V, NEW a \in V, NEW n \in Nat, NEW step \in [(1 .. n) \X V -> V]
    PROVE  \E f : Iterates(f, V, a, n, step)
  <1> DEFINE Upto(m) == \E f \in [0 .. m -> V] :
                           f[0] = a /\ \A i \in 1 .. m : f[i] = step[<<i, f[i - 1]>>]
             T == {m \in Nat : m <= n => Upto(m)}
  <1>1. 0 \in T
    <2> DEFINE f == [i \in 0 .. 0 |-> a]
    <2>1. f \in [0 .. 0 -> V] /\ f[0] = a /\ \A i \in 1 .. 0 : FALSE
      OBVIOUS
    <2>2. Upto(0)
      BY <2>1
    <2> QED BY <2>2
  <1>2. ASSUME NEW m \in Nat, m \in T PROVE m + 1 \in T
    <2> SUFFICES ASSUME m + 1 <= n PROVE Upto(m + 1)
      OBVIOUS
    <2>1. PICK f \in [0 .. m -> V] : f[0] = a /\ \A i \in 1 .. m : f[i] = step[<<i, f[i - 1]>>]
      BY <1>2
    <2> DEFINE g == [i \in 0 .. m + 1 |-> IF i = m + 1 THEN step[<<m + 1, f[m]>>] ELSE f[i]]
    <2>2. <<m + 1, f[m]>> \in (1 .. n) \X V
      BY <2>1
    <2>3. step[<<m + 1, f[m]>>] \in V
      BY <2>2
    <2>4. g \in [0 .. m + 1 -> V]
      BY <2>1, <2>3
    <2>5. g[0] = a
      BY <2>1
    <2>6. \A i \in 1 .. m + 1 : g[i] = step[<<i, g[i - 1]>>]
      <3> TAKE i \in 1 .. m + 1
      <3>1. CASE i = m + 1
        <4>1. g[i - 1] = f[m] /\ g[i] = step[<<m + 1, f[m]>>]
          BY <3>1
        <4> QED BY <3>1, <4>1
      <3>2. CASE i # m + 1
        <4>1. i \in 1 .. m /\ i - 1 \in 0 .. m
          BY <3>2
        <4>2. g[i] = f[i] /\ g[i - 1] = f[i - 1]
          BY <4>1
        <4> QED BY <2>1, <4>1, <4>2
      <3> QED BY <3>1, <3>2
    <2> HIDE DEF g
    <2> QED BY <2>4, <2>5, <2>6
  <1> HIDE DEF T
  <1>3. n \in T
    BY <1>1, <1>2, Induction
  <1>4. Upto(n)
    BY <1>3 DEF T
  <1> QED BY <1>4 DEF Iterates
LEMMA ToSetAppend ==
    ASSUME NEW S, NEW s \in Seq(S), NEW x \in S
    PROVE  /\ Append(s, x) \in Seq(S)
           /\ ToSet(Append(s, x)) = ToSet(s) \union {x}
  <1>1. /\ Append(s, x) \in Seq(S)
        /\ DOMAIN s = 1 .. Len(s) /\ Len(s) \in Nat
        /\ DOMAIN Append(s, x) = 1 .. Len(s) + 1
        /\ \A i \in 1 .. Len(s) : Append(s, x)[i] = s[i]
        /\ Append(s, x)[Len(s) + 1] = x
    OBVIOUS
  <1> QED BY <1>1 DEF ToSet

Joins(u, s, t) ==
    /\ Len(u) = Len(s) + Len(t)
    /\ \A i \in 1 .. Len(s) : u[i] = s[i]
    /\ \A k \in 1 .. Len(t) : u[Len(s) + k] = t[k]

LEMMA Concatenation ==
    ASSUME NEW S, NEW s, NEW t, s \in Seq(S), t \in Seq(S)
    PROVE  s \o t \in Seq(S) /\ Joins(s \o t, s, t)
  <1>1. s \o t \in Seq(S) /\ Len(s \o t) = Len(s) + Len(t) /\ Len(s) \in Nat /\ Len(t) \in Nat
    OBVIOUS
  <1>2. \A i \in 1 .. Len(s) : (s \o t)[i] = s[i]
    OBVIOUS
  <1>3. \A i \in 1 .. Len(s) + Len(t) : i > Len(s) => (s \o t)[i] = t[i - Len(s)]
    OBVIOUS
  <1>4. \A k \in 1 .. Len(t) : Len(s) + k \in 1 .. Len(s) + Len(t) /\ Len(s) + k > Len(s) /\ (Len(s) + k) - Len(s) = k
    BY <1>1
  <1> QED BY <1>1, <1>2, <1>3, <1>4 DEF Joins

(***************************************************************************)
(* Keep goes through the list, element by element.                         *)
(***************************************************************************)
KeepStep(s, kept, i, sofar) == IF s[i] \in kept THEN Append(sofar, s[i]) ELSE sofar

KeepRun(f, V, s, kept) ==
    /\ f \in [0 .. Len(s) -> Seq(V)]
    /\ f[0] = <<>>
    /\ \A i \in 1 .. Len(s) : f[i] = KeepStep(s, kept, i, f[i - 1])
    /\ Keep(s, kept) = f[Len(s)]

LEMMA KeepSteps ==
    ASSUME NEW V, NEW s \in Seq(V), NEW kept
    PROVE  \E f : KeepRun(f, V, s, kept)
  <1> DEFINE n == Len(s)
             W == Seq(V)
             step == [p \in (1 .. n) \X W |-> KeepStep(s, kept, p[1], p[2])]
             Body(g) == [i \in 0 .. n |-> IF i = 0 THEN <<>>
                                          ELSE IF s[i] \in kept THEN Append(g[i - 1], s[i]) ELSE g[i - 1]]
             all == CHOOSE g : g = Body(g)
  <1>1. n \in Nat /\ <<>> \in W
    OBVIOUS
  <1>2. \A i \in 1 .. n, w \in W : KeepStep(s, kept, i, w) \in W
    BY DEF KeepStep
  <1>3. Keep(s, kept) = all[n]
    BY DEF Keep
  <1> HIDE DEF n, W
  <1>4. step \in [(1 .. n) \X W -> W]
    BY <1>2
  <1>5. PICK f : f \in [0 .. n -> W] /\ f[0] = <<>> /\ \A i \in 1 .. n : f[i] = step[<<i, f[i - 1]>>]
    <2> HIDE DEF step
    <2>1. \E f : Iterates(f, W, <<>>, n, step)
      BY <1>1, <1>4, Recursion
    <2> QED BY <2>1 DEF Iterates
  <1>6. \A i \in 1 .. n : i - 1 \in 0 .. n
    BY <1>1
  <1>7. \A i \in 1 .. n : f[i] = KeepStep(s, kept, i, f[i - 1])
    <2> TAKE i \in 1 .. n
    <2>1. <<i, f[i - 1]>> \in (1 .. n) \X W
      BY <1>5, <1>6
    <2>2. step[<<i, f[i - 1]>>] = KeepStep(s, kept, i, f[i - 1])
      BY <2>1
    <2> QED BY <1>5, <2>2
  <1> HIDE DEF step
  <1>8. f = Body(f)
    <2>1. \A i \in 0 .. n : f[i] = Body(f)[i]
      <3> TAKE i \in 0 .. n
      <3>1. CASE i = 0
        BY <1>5, <3>1
      <3>2. CASE i # 0
        <4>1. i \in 1 .. n
          BY <1>1, <3>2
        <4>2. f[i] = KeepStep(s, kept, i, f[i - 1])
          BY <1>7, <4>1
        <4> QED BY <3>2, <4>2 DEF KeepStep
      <3> QED BY <3>1, <3>2
    <2> QED BY <1>5, <2>1
  <1>9. all = Body(all)
    <2> HIDE DEF Body
    <2> QED BY <1>8
  <1> HIDE DEF all
  <1>10. all[0] = <<>> /\ \A i \in 1 .. n : all[i] = KeepStep(s, kept, i, all[i - 1])
    <2>1. DOMAIN all = 0 .. n /\ \A i \in 0 .. n : all[i] = Body(all)[i]
      BY <1>9
    <2>2. \A i \in 1 .. n : i \in 0 .. n /\ i # 0
      BY <1>1
    <2>3. 0 \in 0 .. n
      BY <1>1
    <2> QED BY <2>1, <2>2, <2>3 DEF KeepStep
  <1> DEFINE T == {m \in Nat : m <= n => all[m] = f[m]}
  <1>11. 0 \in T
    BY <1>5, <1>10
  <1>12. ASSUME NEW m \in Nat, m \in T PROVE m + 1 \in T
    <2> SUFFICES ASSUME m + 1 <= n PROVE all[m + 1] = f[m + 1]
      OBVIOUS
    <2>1. m + 1 \in 1 .. n /\ (m + 1) - 1 = m /\ m <= n
      BY <1>1
    <2>2. all[m] = f[m]
      BY <1>12, <2>1
    <2> HIDE DEF T
    <2>3. f[m + 1] = KeepStep(s, kept, m + 1, f[(m + 1) - 1])
      BY <1>7, <2>1
    <2>4. all[m + 1] = KeepStep(s, kept, m + 1, all[(m + 1) - 1])
      BY <1>10, <2>1
    <2> QED BY <2>1, <2>2, <2>3, <2>4
  <1>13. n \in T
    <2> HIDE DEF T
    <2> QED BY <1>1, <1>11, <1>12, Induction
  <1>14. all[n] = f[n]
    BY <1>1, <1>13
  <1> QED BY <1>3, <1>5, <1>7, <1>14 DEF n, W, KeepRun

LEMMA KeepType ==
    ASSUME NEW V, NEW s \in Seq(V), NEW kept
    PROVE  Keep(s, kept) \in Seq(V \cap kept) /\ ToSet(Keep(s, kept)) = ToSet(s) \cap kept
  <1> DEFINE n == Len(s)
             Before(m) == {s[j] : j \in 1 .. m}
  <1>1. PICK f : /\ f \in [0 .. n -> Seq(V)]
                 /\ f[0] = <<>>
                 /\ \A i \in 1 .. n : f[i] = KeepStep(s, kept, i, f[i - 1])
                 /\ Keep(s, kept) = f[n]
    <2>1. \E f : KeepRun(f, V, s, kept)
      BY KeepSteps
    <2> QED BY <2>1 DEF KeepRun
  <1>2. n \in Nat /\ \A i \in 1 .. n : s[i] \in V
    OBVIOUS
  <1> DEFINE T == {m \in Nat : m <= n => /\ f[m] \in Seq(V \cap kept)
                                          /\ ToSet(f[m]) = Before(m) \cap kept}
  <1>3. 0 \in T
    BY <1>1 DEF ToSet
  <1>4. ASSUME NEW m \in Nat, m \in T PROVE m + 1 \in T
    <2> SUFFICES ASSUME m + 1 <= n
                 PROVE  f[m + 1] \in Seq(V \cap kept) /\ ToSet(f[m + 1]) = Before(m + 1) \cap kept
      OBVIOUS
    <2>1. /\ f[m] \in Seq(V \cap kept)
          /\ ToSet(f[m]) = Before(m) \cap kept
          /\ f[m + 1] = KeepStep(s, kept, m + 1, f[m])
          /\ s[m + 1] \in V
      BY <1>1, <1>2, <1>4
    <2>2. Before(m + 1) = Before(m) \union {s[m + 1]}
      OBVIOUS
    <2>3. CASE s[m + 1] \in kept
      <3>1. f[m + 1] = Append(f[m], s[m + 1])
        BY <2>1, <2>3 DEF KeepStep
      <3> DEFINE K == V \cap kept
                 g == f[m]
                 x == s[m + 1]
      <3>2. g \in Seq(K) /\ x \in K
        BY <2>1, <2>3
      <3>3. Append(g, x) \in Seq(K) /\ ToSet(Append(g, x)) = ToSet(g) \union {x}
        <4> HIDE DEF K, g, x
        <4> QED BY <3>2, ToSetAppend
      <3> HIDE DEF Before
      <3> QED BY <2>1, <2>2, <2>3, <3>1, <3>3
    <2>4. CASE s[m + 1] \notin kept
      <3>1. f[m + 1] = f[m]
        BY <2>1, <2>4 DEF KeepStep
      <3> HIDE DEF Before
      <3> QED BY <2>1, <2>2, <2>4, <3>1
    <2> QED BY <2>3, <2>4
  <1>5. n \in T
    <2> HIDE DEF T
    <2> QED BY <1>2, <1>3, <1>4, Induction
  <1>6. Before(n) = ToSet(s)
    BY <1>2 DEF ToSet
  <1> HIDE DEF Before
  <1> QED BY <1>1, <1>2, <1>5, <1>6
LEMMA KeepPrefix ==
    ASSUME NEW V, NEW s \in Seq(V), NEW t \in Seq(V), NEW kept, NEW other,
           Len(s) <= Len(t),
           \A i \in 1 .. Len(s) : t[i] = s[i] /\ (s[i] \in kept <=> s[i] \in other)
    PROVE  /\ Len(Keep(s, kept)) <= Len(Keep(t, other))
           /\ \A i \in 1 .. Len(Keep(s, kept)) : Keep(t, other)[i] = Keep(s, kept)[i]
  <1> DEFINE n == Len(s)
             o == Len(t)
             W == Seq(V)
             Begins(p, q) == Len(p) <= Len(q) /\ \A i \in 1 .. Len(p) : q[i] = p[i]
  <1>1. PICK f : /\ f \in [0 .. n -> W]
                 /\ f[0] = <<>>
                 /\ \A i \in 1 .. n : f[i] = KeepStep(s, kept, i, f[i - 1])
                 /\ Keep(s, kept) = f[n]
    <2>1. \E f : KeepRun(f, V, s, kept)
      BY KeepSteps
    <2> QED BY <2>1 DEF KeepRun
  <1>2. PICK g : /\ g \in [0 .. o -> W]
                 /\ g[0] = <<>>
                 /\ \A i \in 1 .. o : g[i] = KeepStep(t, other, i, g[i - 1])
                 /\ Keep(t, other) = g[o]
    <2>1. \E g : KeepRun(g, V, t, other)
      BY KeepSteps
    <2> QED BY <2>1 DEF KeepRun
  <1>3. n \in Nat /\ o \in Nat /\ n <= o /\ \A i \in 1 .. o : t[i] \in V
    OBVIOUS
  <1>4. \A i \in 1 .. n : \A w : KeepStep(s, kept, i, w) = KeepStep(t, other, i, w)
    BY DEF KeepStep
  <1>5. \A i \in 1 .. o : \A w \in W : Begins(w, KeepStep(t, other, i, w))
    BY <1>3 DEF KeepStep
  <1>6. \A p, q, r \in W : Begins(p, q) /\ Begins(q, r) => Begins(p, r)
    OBVIOUS
  <1> DEFINE T == {m \in Nat : m <= o => IF m <= n THEN g[m] = f[m] ELSE Begins(f[n], g[m])}
  <1> HIDE DEF Begins, W, n, o
  <1>7. 0 \in T
    BY <1>1, <1>2, <1>3
  <1>8. \A w \in W : Begins(w, w)
    BY DEF Begins, W
  <1>9. ASSUME NEW m \in Nat, m \in T PROVE m + 1 \in T
    <2> SUFFICES ASSUME m + 1 <= o
                 PROVE  IF m + 1 <= n THEN g[m + 1] = f[m + 1] ELSE Begins(f[n], g[m + 1])
      OBVIOUS
    <2>1. m \in 0 .. o /\ m + 1 \in 1 .. o /\ m + 1 \in 0 .. o /\ (m + 1) - 1 = m
      BY <1>3
    <2>2. IF m <= n THEN g[m] = f[m] ELSE Begins(f[n], g[m])
      BY <1>9, <2>1
    <2> HIDE DEF T
    <2>3. g[m + 1] = KeepStep(t, other, m + 1, g[m]) /\ g[m] \in W /\ g[m + 1] \in W
      BY <1>2, <2>1
    <2>4. CASE m + 1 <= n
      <3>1. f[m + 1] = KeepStep(s, kept, m + 1, f[m]) /\ g[m] = f[m] /\ m + 1 \in 1 .. n
        BY <1>1, <1>3, <2>1, <2>2, <2>4
      <3> QED BY <1>4, <2>3, <2>4, <3>1
    <2>5. CASE ~(m + 1 <= n)
      <3>1. f[n] \in W /\ Begins(f[n], g[m])
        <4>1. f[n] \in W
          BY <1>1, <1>3
        <4>2. CASE m <= n
          <5>1. m = n
            BY <1>3, <2>5, <4>2
          <5> QED BY <1>8, <2>2, <4>1, <5>1
        <4> QED BY <2>2, <4>1, <4>2
      <3>2. Begins(g[m], g[m + 1])
        BY <1>5, <2>1, <2>3
      <3> QED BY <1>6, <2>3, <2>5, <3>1, <3>2
    <2> QED BY <2>4, <2>5
  <1>10. o \in T
    <2> HIDE DEF T
    <2> QED BY <1>3, <1>7, <1>9, Induction
  <1>11. Begins(f[n], g[o])
    <2>1. CASE o <= n
      <3>1. o = n /\ f[n] \in W
        BY <1>1, <1>3, <2>1
      <3> QED BY <1>8, <1>10, <3>1
    <2> QED BY <1>3, <1>10, <2>1
  <1> QED BY <1>1, <1>2, <1>11 DEF Begins

\* What is kept stands in its order.
LEMMA KeepOrder ==
    ASSUME NEW V, NEW s \in Seq(V), NEW kept
    PROVE  LET k == Keep(s, kept)
           IN  \A a, b \in 1 .. Len(k) : a < b =>
                  \E p, q \in 1 .. Len(s) : p < q /\ k[a] = s[p] /\ k[b] = s[q]
  <1> DEFINE n == Len(s)
             W == Seq(V)
             Among(k, m) == /\ \A b \in 1 .. Len(k) : \E q \in 1 .. m : k[b] = s[q]
                            /\ \A a, b \in 1 .. Len(k) : a < b =>
                                  \E p, q \in 1 .. m : p < q /\ k[a] = s[p] /\ k[b] = s[q]
  <1>1. PICK f : /\ f \in [0 .. n -> W]
                 /\ f[0] = <<>>
                 /\ \A i \in 1 .. n : f[i] = KeepStep(s, kept, i, f[i - 1])
                 /\ Keep(s, kept) = f[n]
    <2>1. \E f : KeepRun(f, V, s, kept)
      BY KeepSteps
    <2> QED BY <2>1 DEF KeepRun
  <1>2. n \in Nat /\ \A i \in 1 .. n : s[i] \in V
    OBVIOUS
  <1>3. ASSUME NEW m \in Nat, NEW k, Among(k, m) PROVE Among(k, m + 1)
    <2>1. \A q \in 1 .. m : q \in 1 .. m + 1
      OBVIOUS
    <2> QED BY <1>3, <2>1
  <1>4. ASSUME NEW m \in Nat, NEW k \in W, Among(k, m), s[m + 1] \in V PROVE Among(Append(k, s[m + 1]), m + 1)
    <2> DEFINE x == s[m + 1]
               l == Append(k, x)
    <2>1. /\ Len(k) \in Nat /\ Len(l) = Len(k) + 1 /\ l[Len(k) + 1] = x
          /\ \A b \in 1 .. Len(k) : l[b] = k[b]
      BY <1>4
    <2> HIDE DEF l
    <2>2. ASSUME NEW b \in 1 .. Len(l) PROVE \E q \in 1 .. m + 1 : l[b] = s[q]
      <3>1. CASE b \in 1 .. Len(k)
        <4>1. PICK q \in 1 .. m : k[b] = s[q]
          BY <1>4, <3>1
        <4> QED BY <2>1, <3>1, <4>1
      <3>2. CASE b = Len(k) + 1
        BY <2>1, <3>2
      <3> QED BY <2>1, <3>1, <3>2
    <2>3. ASSUME NEW a \in 1 .. Len(l), NEW b \in 1 .. Len(l), a < b
          PROVE  \E p, q \in 1 .. m + 1 : p < q /\ l[a] = s[p] /\ l[b] = s[q]
      <3>1. a \in 1 .. Len(k)
        BY <2>1, <2>3
      <3>2. CASE b \in 1 .. Len(k)
        <4>1. PICK p \in 1 .. m, q \in 1 .. m : p < q /\ k[a] = s[p] /\ k[b] = s[q]
          BY <1>4, <2>3, <3>1, <3>2
        <4>2. p \in 1 .. m + 1 /\ q \in 1 .. m + 1 /\ l[a] = s[p] /\ l[b] = s[q]
          BY <2>1, <3>1, <3>2, <4>1
        <4> QED BY <4>1, <4>2
      <3>3. CASE b = Len(k) + 1
        <4>1. PICK p \in 1 .. m : k[a] = s[p]
          BY <1>4, <3>1
        <4>2. p \in 1 .. m + 1 /\ m + 1 \in 1 .. m + 1 /\ p < m + 1 /\ l[a] = s[p] /\ l[b] = s[m + 1]
          BY <2>1, <3>1, <3>3, <4>1
        <4> QED BY <4>2
      <3> QED BY <2>1, <3>2, <3>3
    <2> QED BY <2>2, <2>3 DEF l
  <1> DEFINE T == {m \in Nat : m <= n => Among(f[m], m)}
  <1>5. 0 \in T
    BY <1>1
  <1> HIDE DEF Among, n, W
  <1>6. ASSUME NEW m \in Nat, m \in T PROVE m + 1 \in T
    <2> SUFFICES ASSUME m + 1 <= n PROVE Among(f[m + 1], m + 1)
      OBVIOUS
    <2>1. m + 1 \in 1 .. n /\ m \in 0 .. n /\ (m + 1) - 1 = m
      BY <1>2
    <2>2. Among(f[m], m) /\ f[m] \in W /\ s[m + 1] \in V /\ f[m + 1] = KeepStep(s, kept, m + 1, f[m])
      BY <1>1, <1>2, <1>6, <2>1
    <2>3. f[m + 1] \in {f[m], Append(f[m], s[m + 1])}
      BY <2>2 DEF KeepStep
    <2> QED BY <1>3, <1>4, <2>2, <2>3
  <1>7. n \in T
    <2> HIDE DEF T
    <2> QED BY <1>2, <1>5, <1>6, Induction
  <1>8. Among(Keep(s, kept), n)
    BY <1>1, <1>2, <1>7
  <1> QED BY <1>8 DEF Among, n

Once(s) == \A i, j \in 1 .. Len(s) : s[i] = s[j] => i = j

LEMMA KeepOnce ==
    ASSUME NEW V, NEW s \in Seq(V), NEW kept, Once(s)
    PROVE  Once(Keep(s, kept))
  <1> DEFINE k == Keep(s, kept)
             U == V \cap kept
  <1>1. k \in Seq(U)
    BY KeepType
  <1>2. \A a, b \in 1 .. Len(k) : a < b =>
           \E p, q \in 1 .. Len(s) : p < q /\ k[a] = s[p] /\ k[b] = s[q]
    BY KeepOrder
  <1> HIDE DEF k, U
  <1>3. ASSUME NEW a \in 1 .. Len(k), NEW b \in 1 .. Len(k), a < b PROVE k[a] # k[b]
    BY <1>2, <1>3 DEF Once
  <1>4. \A a, b \in 1 .. Len(k) : a = b \/ a < b \/ b < a
    BY <1>1
  <1>5. Once(k)
    BY <1>3, <1>4 DEF Once
  <1> QED BY <1>5 DEF k
-----------------------------------------------------------------------------
(* Sets *)

LEMMA Greatest ==
    ASSUME NEW S, IsFiniteSet(S), S \subseteq Nat, S # {}
    PROVE  \E m \in S : \A n \in S : n <= m
  <1> DEFINE Bounded(U) == \E m \in U : \A n \in U : n <= m
             T == {k \in Nat : \A U \in SUBSET Nat :
                                  IsFiniteSet(U) /\ Cardinality(U) = k /\ U # {} => Bounded(U)}
  <1>1. 0 \in T
    BY FS_EmptySet
  <1>2. ASSUME NEW k \in Nat, k \in T PROVE k + 1 \in T
    <2> SUFFICES ASSUME NEW U \in SUBSET Nat, IsFiniteSet(U), Cardinality(U) = k + 1, U # {}
                 PROVE  Bounded(U)
      OBVIOUS
    <2>1. PICK x \in U : TRUE
      OBVIOUS
    <2> DEFINE V == U \ {x}
    <2>2. V \in SUBSET Nat /\ IsFiniteSet(V) /\ Cardinality(V) = k
      <3>1. IsFiniteSet(V) /\ Cardinality(V) = IF x \in U THEN Cardinality(U) - 1 ELSE Cardinality(U)
        BY FS_RemoveElement
      <3> QED BY <2>1, <3>1
    <2>3. CASE V = {}
      BY <2>1, <2>3
    <2>4. CASE V # {}
      <3>1. PICK m \in V : \A n \in V : n <= m
        BY <1>2, <2>2, <2>4
      <3>2. CASE x <= m
        <4>1. m \in U /\ \A n \in U : n <= m
          BY <3>1, <3>2
        <4> QED BY <4>1
      <3>3. CASE m <= x
        <4>1. x \in U /\ \A n \in U : n <= x
          BY <2>1, <3>1, <3>3
        <4> QED BY <4>1
      <3> QED BY <2>1, <3>1, <3>2, <3>3
    <2> QED BY <2>3, <2>4
  <1> HIDE DEF T
  <1>3. Cardinality(S) \in T
    BY <1>1, <1>2, Induction, FS_CardinalityType
  <1> QED BY <1>3 DEF T

LEMMA ToSetFinite ==
    ASSUME NEW V, NEW s \in Seq(V)
    PROVE  IsFiniteSet(ToSet(s)) /\ ToSet(s) \subseteq V
  <1>1. s \in [1 .. Len(s) -> V] /\ Len(s) \in Nat /\ DOMAIN s = 1 .. Len(s)
    OBVIOUS
  <1>2. IsFiniteSet(1 .. Len(s))
    BY <1>1, FS_Interval
  <1>3. s \in Surjection(1 .. Len(s), ToSet(s))
    BY <1>1 DEF ToSet, Surjection
  <1> QED BY <1>1, <1>2, <1>3, FS_Surjection DEF ToSet

LEMMA Emptiness ==
    ASSUME NEW V, NEW s \in Seq(V)
    PROVE  s = <<>> <=> ToSet(s) = {}
  <1>1. DOMAIN s = 1 .. Len(s) /\ Len(s) \in Nat /\ (s = <<>> <=> Len(s) = 0)
    OBVIOUS
  <1>2. CASE Len(s) = 0
    <2>1. DOMAIN s = {}
      BY <1>1, <1>2
    <2> QED BY <1>1, <1>2, <2>1 DEF ToSet
  <1>3. CASE Len(s) # 0
    <2>1. 1 \in DOMAIN s
      BY <1>1, <1>3
    <2>2. s[1] \in ToSet(s)
      BY <2>1 DEF ToSet
    <2> QED BY <1>1, <1>3, <2>2
  <1> QED BY <1>2, <1>3

LEMMA SetToSeqRange ==
    ASSUME NEW S, IsFiniteSet(S)
    PROVE  SetToSeq(S) \in Seq(S) /\ ToSet(SetToSeq(S)) = S
  <1> DEFINE D == 1 .. Cardinality(S)
  <1>1. Cardinality(S) \in Nat /\ ExistsBijection(D, S)
    BY FS_CardinalityType
  <1>2. PICK b \in Bijection(D, S) : TRUE
    BY <1>1 DEF ExistsBijection
  <1>3. b \in [D -> S] /\ IsInjective(b)
    BY <1>2 DEF Bijection, Injection
  <1>4. SetToSeq(S) \in [D -> S] /\ IsInjective(SetToSeq(S))
    BY <1>3 DEF SetToSeq
  <1>5. SetToSeq(S) \in Injection(D, S)
    BY <1>4 DEF Injection, IsInjective
  <1>6. IsFiniteSet(D) /\ Cardinality(D) = Cardinality(S)
    BY <1>1, FS_Interval
  <1>7. SetToSeq(S) \in Surjection(D, S)
    BY <1>5, <1>6, FS_Injection
  <1>8. SetToSeq(S) \in Seq(S) /\ DOMAIN SetToSeq(S) = D
    BY <1>1, <1>4
  <1> QED BY <1>7, <1>8 DEF Surjection, ToSet

LEMMA KeepOne ==
    ASSUME NEW p, NEW kept, p \in kept
    PROVE  Keep(<<p>>, kept) = <<p>>
  <1> DEFINE s == <<p>>
  <1>1. s \in Seq({p}) /\ Len(s) = 1 /\ s[1] = p
    OBVIOUS
  <1>2. PICK f : KeepRun(f, {p}, s, kept)
    <2> HIDE DEF s
    <2> QED BY <1>1, KeepSteps
  <1>3. Keep(s, kept) = f[1] /\ f[0] = <<>> /\ f[1] = KeepStep(s, kept, 1, f[0])
    <2>1. 1 \in 1 .. 1 /\ 1 - 1 = 0
      OBVIOUS
    <2> QED BY <1>1, <1>2, <2>1 DEF KeepRun
  <1> QED BY <1>1, <1>3 DEF KeepStep

LEMMA ToSetConcat ==
    ASSUME NEW V, NEW s \in Seq(V), NEW t \in Seq(V)
    PROVE  /\ s \o t \in Seq(V)
           /\ ToSet(s \o t) = ToSet(s) \union ToSet(t)
  <1>1. /\ s \o t \in Seq(V)
        /\ Len(s) \in Nat /\ Len(t) \in Nat
        /\ DOMAIN s = 1 .. Len(s) /\ DOMAIN t = 1 .. Len(t)
        /\ DOMAIN (s \o t) = 1 .. Len(s) + Len(t)
        /\ \A i \in 1 .. Len(s) + Len(t) : (s \o t)[i] = IF i <= Len(s) THEN s[i] ELSE t[i - Len(s)]
    OBVIOUS
  <1>2. ToSet(s \o t) \subseteq ToSet(s) \union ToSet(t)
    <2> SUFFICES ASSUME NEW i \in 1 .. Len(s) + Len(t)
                 PROVE  (s \o t)[i] \in ToSet(s) \union ToSet(t)
      BY <1>1 DEF ToSet
    <2>1. CASE i <= Len(s)
      BY <1>1, <2>1 DEF ToSet
    <2>2. CASE ~(i <= Len(s))
      <3>1. i - Len(s) \in 1 .. Len(t)
        BY <1>1, <2>2
      <3> QED BY <1>1, <2>2, <3>1 DEF ToSet
    <2> QED BY <2>1, <2>2
  <1>3. ToSet(s) \subseteq ToSet(s \o t)
    <2> SUFFICES ASSUME NEW i \in 1 .. Len(s) PROVE s[i] \in ToSet(s \o t)
      BY <1>1 DEF ToSet
    <2>1. i \in 1 .. Len(s) + Len(t) /\ (s \o t)[i] = s[i]
      BY <1>1
    <2> QED BY <1>1, <2>1 DEF ToSet
  <1>4. ToSet(t) \subseteq ToSet(s \o t)
    <2> SUFFICES ASSUME NEW i \in 1 .. Len(t) PROVE t[i] \in ToSet(s \o t)
      BY <1>1 DEF ToSet
    <2>1. i + Len(s) \in 1 .. Len(s) + Len(t) /\ (s \o t)[i + Len(s)] = t[i]
      BY <1>1
    <2> QED BY <1>1, <2>1 DEF ToSet
  <1> QED BY <1>1, <1>2, <1>3, <1>4

LEMMA DistinctRange ==
    ASSUME NEW V, NEW s \in Seq(V)
    PROVE  Distinct(s) \in Seq(V) /\ ToSet(Distinct(s)) = ToSet(s)
<1> DEFINE D == DOMAIN s
           all == [i \in D |-> i]
           once == {i \in D : \A j \in 1 .. i - 1 : s[j] # s[i]}
           first == Keep(all, once)
<1>1. D = 1 .. Len(s) /\ Len(s) \in Nat /\ D \subseteq Nat /\ \A i \in D : s[i] \in V
  OBVIOUS
<1>2. all \in Seq(D) /\ ToSet(all) = D
  BY <1>1 DEF ToSet
<1>3. first \in Seq(once) /\ ToSet(first) = once
  <2> HIDE DEF all, D, once
  <2>1. first \in Seq(D \cap once) /\ ToSet(first) = D \cap once
    BY <1>2, KeepType
  <2>2. once \subseteq D
    BY DEF once
  <2>3. D \cap once = once
    BY <2>2
  <2>4. QED
    BY <2>1, <2>3
<1>4. Distinct(s) = [n \in DOMAIN first |-> s[first[n]]]
  BY DEF Distinct
<1>5. once \subseteq D
  OBVIOUS
<1>6. \A i \in D : \E m \in once : s[m] = s[i]
  <2> TAKE i \in D
  <2> DEFINE same == {j \in D : s[j] = s[i]}
  <2>1. same \subseteq Nat /\ same # {}
    BY <1>1
  <2>2. PICK m \in same : \A n \in same : m <= n
    <3> HIDE DEF same
    <3>1. QED
      BY <2>1, Least
  <2>3. \A j \in 1 .. m - 1 : s[j] # s[m]
    <3> SUFFICES ASSUME NEW j \in 1 .. m - 1, s[j] = s[m] PROVE FALSE
      OBVIOUS
    <3>1. j \in D /\ j < m
      BY <1>1, <2>2
    <3>2. j \in same
      BY <2>2, <3>1
    <3>3. QED
      BY <1>1, <2>2, <3>1, <3>2
  <2>4. QED
    BY <2>2, <2>3
<1> HIDE DEF first, once, D, all
<1>7. DOMAIN first = 1 .. Len(first) /\ Len(first) \in Nat /\ \A n \in DOMAIN first : first[n] \in once
  BY <1>3
<1>8. Distinct(s) \in Seq(V)
  <2>1. \A n \in 1 .. Len(first) : s[first[n]] \in V
    BY <1>1, <1>5, <1>7
  <2>2. QED
    BY <1>4, <1>7, <2>1
<1>9. ToSet(Distinct(s)) = {s[i] : i \in once}
  <2>1. DOMAIN Distinct(s) = DOMAIN first /\ \A n \in DOMAIN first : Distinct(s)[n] = s[first[n]]
    BY <1>4
  <2>2. once = {first[n] : n \in DOMAIN first}
    BY <1>3 DEF ToSet
  <2>3. QED
    BY <2>1, <2>2 DEF ToSet
<1>10. {s[i] : i \in once} = {s[i] : i \in D}
  BY <1>5, <1>6
<1>11. QED
  BY <1>8, <1>9, <1>10 DEF ToSet, D

LEMMA DistinctOnce == ASSUME NEW V, NEW s \in Seq(V) PROVE Once(Distinct(s))
  <1> DEFINE D == DOMAIN s
             all == [i \in D |-> i]
             once == {i \in D : \A j \in 1 .. i - 1 : s[j] # s[i]}
             first == Keep(all, once)
  <1>1. all \in Seq(D) /\ Len(all) = Len(s) /\ Len(s) \in Nat /\ D = 1 .. Len(s) /\ \A i \in 1 .. Len(s) : all[i] = i
    OBVIOUS
  <1>2. first \in Seq(D \cap once)
    <2> HIDE DEF all, D, once
    <2> QED BY <1>1, KeepType
  <1>3. Once(first)
    <2>1. Once(all)
      <3> HIDE DEF all
      <3> QED BY <1>1 DEF Once
    <2> HIDE DEF all, D, once
    <2> QED BY <1>1, <2>1, KeepOnce
  <1>4. Distinct(s) = [n \in DOMAIN first |-> s[first[n]]]
    BY DEF Distinct
  <1> HIDE DEF first
  <1>5. DOMAIN first = 1 .. Len(first) /\ Len(first) \in Nat /\ \A n \in 1 .. Len(first) : first[n] \in once
    <2> HIDE DEF D, once
    <2> QED BY <1>2
  <1>6. Len(Distinct(s)) = Len(first) /\ \A n \in 1 .. Len(first) : Distinct(s)[n] = s[first[n]]
    <2> DEFINE d == [n \in 1 .. Len(first) |-> s[first[n]]]
    <2>1. d = Distinct(s)
      BY <1>4, <1>5
    <2>2. \A n \in 1 .. Len(first) : s[first[n]] \in V
      BY <1>1, <1>5
    <2>3. d \in Seq(V)
      BY <1>5, <2>2
    <2>4. DOMAIN d = 1 .. Len(first)
      OBVIOUS
    <2>5. Len(d) = Len(first)
      <3> HIDE DEF d
      <3> QED BY <1>5, <2>3, <2>4
    <2> QED BY <2>1, <2>5
  <1>7. \A i, j \in once : s[i] = s[j] => i = j
    <2> SUFFICES ASSUME NEW i \in once, NEW j \in once, s[i] = s[j], i # j PROVE FALSE
      OBVIOUS
    <2>1. i \in Nat /\ j \in Nat /\ i >= 1 /\ j >= 1
      BY <1>1
    <2>2. i \in 1 .. j - 1 \/ j \in 1 .. i - 1
      BY <2>1
    <2> QED BY <2>2
  <1> HIDE DEF once
  <1> QED BY <1>3, <1>5, <1>6, <1>7 DEF Once

LEMMA OwnRange == ASSUME NEW V, NEW s \in Seq(V) PROVE s \in Seq(ToSet(s))
  <1>1. s \in [1 .. Len(s) -> V] /\ Len(s) \in Nat /\ DOMAIN s = 1 .. Len(s)
    OBVIOUS
  <1>2. \A i \in 1 .. Len(s) : s[i] \in ToSet(s)
    BY <1>1 DEF ToSet
  <1> DEFINE T == ToSet(s)
  <1> HIDE DEF T
  <1>3. s \in Seq(T)
    BY <1>1, <1>2 DEF T
  <1> QED BY <1>3 DEF T

LEMMA OnceAppend ==
    ASSUME NEW V, NEW s \in Seq(V), Once(s), NEW x \in V, x \notin ToSet(s)
    PROVE  Once(Append(s, x))
  <1> DEFINE u == Append(s, x)
  <1>1. /\ Len(u) = Len(s) + 1 /\ Len(s) \in Nat /\ u[Len(s) + 1] = x
        /\ \A i \in 1 .. Len(s) : u[i] = s[i] /\ s[i] # x
    BY DEF ToSet
  <1> HIDE DEF u
  <1>2. \A i \in 1 .. Len(u) : i \in 1 .. Len(s) \/ i = Len(s) + 1
    BY <1>1
  <1>3. Once(u)
    BY <1>1, <1>2 DEF Once
  <1> QED BY <1>3 DEF u

LEMMA OnceTail ==
    ASSUME NEW V, NEW s \in Seq(V), Once(s), s # <<>>
    PROVE  /\ Head(s) \in V /\ Head(s) \in ToSet(s)
           /\ Tail(s) \in Seq(V) /\ Once(Tail(s))
           /\ ToSet(Tail(s)) = ToSet(s) \ {Head(s)}
  <1> DEFINE t == Tail(s)
  <1>1. /\ Len(s) \in Nat /\ Len(s) # 0 /\ Head(s) = s[1] /\ DOMAIN s = 1 .. Len(s) /\ \A i \in 1 .. Len(s) : s[i] \in V
        /\ t \in Seq(V) /\ Len(t) = Len(s) - 1 /\ DOMAIN t = 1 .. Len(t) /\ \A i \in 1 .. Len(t) : t[i] = s[i + 1]
    OBVIOUS
  <1> HIDE DEF t
  <1>2. \A i \in 1 .. Len(t) : i + 1 \in 1 .. Len(s) /\ i + 1 # 1
    BY <1>1
  <1>3. \A i \in 1 .. Len(s) : i = 1 \/ (i - 1 \in 1 .. Len(t) /\ (i - 1) + 1 = i)
    BY <1>1
  <1>4. 1 \in 1 .. Len(s)
    BY <1>1
  <1>5. Once(t)
    <2> SUFFICES ASSUME NEW i \in 1 .. Len(t), NEW j \in 1 .. Len(t), t[i] = t[j] PROVE i = j
      BY DEF Once
    <2>1. i + 1 = j + 1
      BY <1>1, <1>2 DEF Once
    <2> QED BY <2>1
  <1>6. \A i \in 1 .. Len(t) : t[i] # s[1]
    BY <1>1, <1>2, <1>4 DEF Once
  <1>7. ToSet(t) = ToSet(s) \ {s[1]}
    <2>1. ASSUME NEW i \in 1 .. Len(s), s[i] # s[1] PROVE s[i] \in ToSet(t)
      <3>1. i - 1 \in 1 .. Len(t) /\ (i - 1) + 1 = i
        BY <1>3, <2>1
      <3>2. s[i] = t[i - 1]
        BY <1>1, <3>1
      <3> QED BY <1>1, <3>1, <3>2 DEF ToSet
    <2>2. \A i \in 1 .. Len(t) : t[i] \in ToSet(s)
      BY <1>1, <1>2 DEF ToSet
    <2>3. ToSet(t) = {t[i] : i \in 1 .. Len(t)} /\ ToSet(s) = {s[i] : i \in 1 .. Len(s)}
      BY <1>1 DEF ToSet
    <2> QED BY <1>6, <2>1, <2>2, <2>3
  <1>8. s[1] \in ToSet(s)
    BY <1>1, <1>4 DEF ToSet
  <1> QED BY <1>1, <1>4, <1>5, <1>7, <1>8 DEF t

LEMMA OnceConcat ==
    ASSUME NEW V, NEW s \in Seq(V), NEW t \in Seq(V), Once(s), Once(t), ToSet(s) \cap ToSet(t) = {}
    PROVE  Once(s \o t)
  <1> DEFINE u == s \o t
  <1>1. Joins(u, s, t) /\ Len(s) \in Nat /\ Len(t) \in Nat
    BY Concatenation
  <1>2. \A i \in 1 .. Len(s), j \in 1 .. Len(t) : s[i] # t[j]
    BY DEF ToSet
  <1> HIDE DEF u
  <1>3. \A i \in 1 .. Len(u) : i \in 1 .. Len(s) \/ \E k \in 1 .. Len(t) : i = Len(s) + k
    <2> TAKE i \in 1 .. Len(u)
    <2>1. i \in 1 .. Len(s) \/ (i - Len(s) \in 1 .. Len(t) /\ i = Len(s) + (i - Len(s)))
      BY <1>1 DEF Joins
    <2> QED BY <2>1
  <1>4. Once(u)
    BY <1>1, <1>2, <1>3 DEF Once, Joins
  <1> QED BY <1>4 DEF u

LEMMA CountOnce ==
    ASSUME NEW V, NEW s \in Seq(V), Once(s)
    PROVE  IsFiniteSet(ToSet(s)) /\ Cardinality(ToSet(s)) = Len(s)
  <1> DEFINE n == Len(s)
             S == ToSet(s)
  <1>1. n \in Nat /\ DOMAIN s = 1 .. n /\ S = {s[i] : i \in 1 .. n}
    BY DEF ToSet
  <1>2. s \in Bijection(1 .. n, S)
    <2>1. \A i \in 1 .. n : s[i] \in S
      BY <1>1
    <2>2. s \in [1 .. n -> S]
      <3> HIDE DEF S
      <3> QED BY <1>1, <2>1
    <2>3. s \in Injection(1 .. n, S)
      BY <2>2 DEF Injection, IsInjective, Once
    <2>4. s \in Surjection(1 .. n, S)
      BY <1>1, <2>2 DEF Surjection
    <2> QED BY <2>3, <2>4 DEF Bijection
  <1> HIDE DEF S, n
  <1>3. IsFiniteSet(1 .. n) /\ Cardinality(1 .. n) = n
    BY <1>1, FS_Interval
  <1>4. IsFiniteSet(S) /\ Cardinality(S) = n
    <2> DEFINE D == 1 .. n
    <2>1. ExistsBijection(D, S)
      BY <1>2 DEF ExistsBijection
    <2> HIDE DEF D
    <2>2. IsFiniteSet(D) /\ Cardinality(D) = n
      BY <1>3 DEF D
    <2> QED BY <2>1, <2>2, FS_Bijection
  <1> QED BY <1>4 DEF S, n

(***************************************************************************)
(* FlattenSeq adds one list after the other.                               *)
(***************************************************************************)
FlattenRun(f, seqs) ==
    /\ f[1] = seqs[1]
    /\ \A i \in 1 .. Len(seqs) : i # 1 => f[i] = f[i - 1] \o seqs[i]
    /\ FlattenSeq(seqs) = f[Len(seqs)]

LEMMA FlattenSteps ==
    ASSUME NEW V, NEW seqs \in Seq(Seq(V)), seqs # <<>>
    PROVE  \E f : FlattenRun(f, seqs)
  <1> DEFINE n == Len(seqs)
             W == Seq(V)
             k == n - 1
             step == [p \in (1 .. k) \X W |-> p[2] \o seqs[p[1] + 1]]
             Body(g) == [i \in 1 .. n |-> IF i = 1 THEN seqs[i] ELSE g[i - 1] \o seqs[i]]
             all == CHOOSE g : g = Body(g)
  <1>1. n \in Nat /\ n # 0 /\ \A i \in 1 .. n : seqs[i] \in W
    OBVIOUS
  <1>2. FlattenSeq(seqs) = all[n]
    BY <1>1 DEF FlattenSeq
  <1>3. \A v, w \in W : v \o w \in W
    OBVIOUS
  <1> HIDE DEF n, W
  <1>4. k \in Nat /\ n = k + 1 /\ \A i \in 1 .. k : i + 1 \in 1 .. n
    BY <1>1
  <1>5. step \in [(1 .. k) \X W -> W]
    <2>1. \A i \in 1 .. k, w \in W : w \o seqs[i + 1] \in W
      BY <1>1, <1>3, <1>4
    <2> HIDE DEF k
    <2> QED BY <2>1
  <1>6. PICK h : h \in [0 .. k -> W] /\ h[0] = seqs[1] /\ \A i \in 1 .. k : h[i] = step[<<i, h[i - 1]>>]
    <2> HIDE DEF step, k
    <2>1. 1 \in 1 .. n
      BY <1>4
    <2>2. \E h : Iterates(h, W, seqs[1], k, step)
      BY <1>1, <1>4, <1>5, <2>1, Recursion
    <2> QED BY <2>2 DEF Iterates
  <1>7. \A i \in 1 .. k : h[i] = h[i - 1] \o seqs[i + 1]
    <2> TAKE i \in 1 .. k
    <2> HIDE DEF k
    <2>1. i - 1 \in 0 .. k
      BY <1>4
    <2>2. <<i, h[i - 1]>> \in (1 .. k) \X W
      <3> HIDE DEF step
      <3> QED BY <1>6, <2>1
    <2> QED BY <1>6, <2>2
  <1> HIDE DEF step
  <1> DEFINE f == [i \in 1 .. n |-> h[i - 1]]
  <1>8. f = Body(f)
    <2>1. \A i \in 1 .. n : f[i] = IF i = 1 THEN seqs[i] ELSE f[i - 1] \o seqs[i]
      <3> TAKE i \in 1 .. n
      <3>1. CASE i = 1
        BY <1>6, <3>1
      <3>2. CASE i # 1
        <4>1. i - 1 \in 1 .. k /\ i - 1 \in 1 .. n /\ (i - 1) + 1 = i
          BY <1>4, <3>2
        <4>2. h[i - 1] = h[(i - 1) - 1] \o seqs[(i - 1) + 1]
          BY <1>7, <4>1
        <4>3. f[i] = h[i - 1] /\ f[i - 1] = h[(i - 1) - 1]
          BY <4>1
        <4> HIDE DEF f
        <4> QED BY <3>2, <4>1, <4>2, <4>3
      <3> QED BY <3>1, <3>2
    <2> DEFINE g == f
    <2>2. DOMAIN g = 1 .. n /\ g = [i \in 1 .. n |-> g[i]]
      OBVIOUS
    <2> QED BY <2>1, <2>2
  <1>9. all = Body(all)
    <2> HIDE DEF Body, f
    <2> QED BY <1>8
  <1> HIDE DEF all
  <1>10. all[1] = seqs[1] /\ \A i \in 1 .. n : i # 1 => all[i] = all[i - 1] \o seqs[i]
    <2>1. \A i \in 1 .. n : all[i] = Body(all)[i]
      BY <1>9
    <2>2. 1 \in 1 .. n
      BY <1>1
    <2> QED BY <2>1, <2>2
  <1> QED BY <1>2, <1>10 DEF n, FlattenRun

LEMMA FlattenRange ==
    ASSUME NEW V, NEW seqs \in Seq(Seq(V))
    PROVE  /\ FlattenSeq(seqs) \in Seq(V)
           /\ ToSet(FlattenSeq(seqs)) = UNION {ToSet(seqs[i]) : i \in DOMAIN seqs}
  <1>1. CASE seqs = <<>>
    BY <1>1 DEF FlattenSeq, ToSet
  <1>2. CASE seqs # <<>>
    <2> DEFINE n == Len(seqs)
               Upto(m) == UNION {ToSet(seqs[i]) : i \in 1 .. m}
    <2>1. PICK f : FlattenRun(f, seqs)
      BY <1>2, FlattenSteps
    <2>2. /\ n \in Nat /\ n # 0 /\ DOMAIN seqs = 1 .. n
          /\ \A i \in 1 .. n : seqs[i] \in Seq(V)
      BY <1>2
    <2>3. /\ f[1] = seqs[1]
          /\ \A i \in 1 .. n : i # 1 => f[i] = f[i - 1] \o seqs[i]
          /\ FlattenSeq(seqs) = f[n]
      BY <2>1 DEF FlattenRun
    <2> HIDE DEF n
    <2> DEFINE T == {m \in Nat : m + 1 <= n => f[m + 1] \in Seq(V) /\ ToSet(f[m + 1]) = Upto(m + 1)}
    <2>4. 0 \in T
      <3>1. Upto(1) = ToSet(seqs[1])
        <4>1. 1 .. 1 = {1}
          OBVIOUS
        <4> QED BY <4>1
      <3>2. 1 \in 1 .. n
        BY <2>2
      <3> QED BY <2>2, <2>3, <3>1, <3>2
    <2>5. ASSUME NEW m \in Nat, m \in T PROVE m + 1 \in T
      <3> SUFFICES ASSUME (m + 1) + 1 <= n
                   PROVE  f[(m + 1) + 1] \in Seq(V) /\ ToSet(f[(m + 1) + 1]) = Upto((m + 1) + 1)
        OBVIOUS
      <3> DEFINE k == m + 1
                 t == seqs[k + 1]
      <3>1. k \in Nat /\ k + 1 \in 1 .. n /\ k + 1 # 1 /\ (k + 1) - 1 = k
        BY <2>2
      <3>2. f[k] \in Seq(V) /\ ToSet(f[k]) = Upto(k)
        BY <2>2, <2>5
      <3>3. f[k + 1] = f[k] \o t /\ t \in Seq(V)
        BY <2>2, <2>3, <3>1
      <3>4. Upto(k + 1) = Upto(k) \union ToSet(t)
        <4>1. 1 .. k + 1 = (1 .. k) \union {k + 1}
          BY <3>1
        <4> QED BY <4>1
      <3> HIDE DEF Upto, k, t
      <3>5. f[k] \o t \in Seq(V) /\ ToSet(f[k] \o t) = ToSet(f[k]) \union ToSet(t)
        BY <3>2, <3>3, ToSetConcat
      <3>6. f[k + 1] \in Seq(V) /\ ToSet(f[k + 1]) = Upto(k + 1)
        BY <3>2, <3>3, <3>4, <3>5
      <3> QED BY <3>6 DEF k
    <2> HIDE DEF T
    <2>6. n - 1 \in T /\ (n - 1) + 1 = n
      BY <2>2, <2>4, <2>5, Induction
    <2>7. f[n] \in Seq(V) /\ ToSet(f[n]) = Upto(n)
      BY <2>2, <2>6 DEF T
    <2> QED BY <2>2, <2>3, <2>7
  <1> QED BY <1>1, <1>2
-----------------------------------------------------------------------------
(* Sums *)

LEMMA SetInduction ==
    ASSUME NEW D, IsFiniteSet(D), NEW T, {} \in T,
           \A S \in SUBSET D : S # {} /\ (\A x \in S : S \ {x} \in T) => S \in T
    PROVE  SUBSET D \subseteq T
  <1> DEFINE N == {m \in Nat : \A S \in SUBSET D : Cardinality(S) = m => S \in T}
  <1>1. \A S \in SUBSET D : IsFiniteSet(S) /\ Cardinality(S) \in Nat
    BY FS_Subset, FS_CardinalityType
  <1>2. 0 \in N
    BY <1>1, FS_EmptySet
  <1>3. ASSUME NEW m \in Nat, m \in N PROVE m + 1 \in N
    <2> SUFFICES ASSUME NEW S \in SUBSET D, Cardinality(S) = m + 1 PROVE S \in T
      OBVIOUS
    <2>1. S # {}
      BY FS_EmptySet
    <2>2. \A x \in S : S \ {x} \in SUBSET D /\ Cardinality(S \ {x}) = m
      <3> TAKE x \in S
      <3>1. Cardinality(S \ {x}) = Cardinality(S) - 1
        BY <1>1, FS_RemoveElement
      <3> QED BY <3>1
    <2> QED BY <1>3, <2>1, <2>2
  <1>4. Nat \subseteq N
    <2> HIDE DEF N
    <2> QED BY <1>2, <1>3, Induction
  <1> QED BY <1>1, <1>4

Chosen(S) == CHOOSE x \in S : TRUE

SumStep(f, S, it) ==
    IF S = {} THEN 0
    ELSE f[Chosen(S)] + it[S \ {Chosen(S)}]

SumRun(it, f, D) ==
    /\ it \in [SUBSET D -> Nat]
    /\ \A S \in SUBSET D : it[S] = SumStep(f, S, it)

LEMMA SumSteps ==
    ASSUME NEW D, IsFiniteSet(D), NEW f, \A x \in D : f[x] \in Nat
    PROVE  \E it : SumRun(it, f, D) /\ SumFunctionOnSet(f, D) = it[D]
  <1> DEFINE Body(g) == [S \in SUBSET D |-> IF S = {} THEN 0
                                            ELSE LET x == CHOOSE x \in S : TRUE IN f[x] + g[S \ {x}]]
             all == CHOOSE g : g = Body(g)
             W == [SUBSET D -> Nat]
             Right(g, m) == \A S \in SUBSET D : Cardinality(S) <= m => g[S] = SumStep(f, S, g)
             N == {m \in Nat : \E g \in W : Right(g, m)}
  <1>1. SumFunctionOnSet(f, D) = all[D]
    BY DEF SumFunctionOnSet, FoldFunctionOnSet, MapThenFoldSet
  <1>2. \A S \in SUBSET D :
           /\ IsFiniteSet(S) /\ Cardinality(S) \in Nat /\ Cardinality(S) <= Cardinality(D)
           /\ S # {} => /\ Chosen(S) \in S /\ S \ {Chosen(S)} \in SUBSET D
                        /\ Cardinality(S \ {Chosen(S)}) = Cardinality(S) - 1
    <2> TAKE S \in SUBSET D
    <2>1. IsFiniteSet(S) /\ Cardinality(S) \in Nat /\ Cardinality(S) <= Cardinality(D)
      BY FS_Subset, FS_CardinalityType
    <2>2. ASSUME S # {} PROVE Chosen(S) \in S
      BY <2>2 DEF Chosen
    <2>3. ASSUME S # {} PROVE Cardinality(S \ {Chosen(S)}) = Cardinality(S) - 1
      <3> QED BY <2>1, <2>2, <2>3, FS_RemoveElement
    <2> QED BY <2>1, <2>2, <2>3
  <1>3. \A g : \A S : SumStep(f, S, g) = IF S = {} THEN 0 ELSE f[Chosen(S)] + g[S \ {Chosen(S)}]
    BY DEF SumStep
  <1>4. \A g, S : S \in SUBSET D => Body(g)[S] = SumStep(f, S, g)
    BY DEF SumStep, Chosen
  <1>5. \A g \in W, S \in SUBSET D : SumStep(f, S, g) \in Nat
    <2> TAKE g \in W, S \in SUBSET D
    <2>1. CASE S = {}
      BY <1>3, <2>1
    <2>2. CASE S # {}
      <3>1. Chosen(S) \in S /\ S \ {Chosen(S)} \in SUBSET D
        BY <1>2, <2>2
      <3>2. f[Chosen(S)] \in Nat /\ g[S \ {Chosen(S)}] \in Nat
        BY <3>1
      <3> QED BY <1>3, <2>2, <3>2
    <2> QED BY <2>1, <2>2
  <1>6. 0 \in N
    <2> DEFINE g == [S \in SUBSET D |-> 0]
    <2>1. g \in W
      OBVIOUS
    <2>2. \A S \in SUBSET D : Cardinality(S) <= 0 => S = {}
      <3> SUFFICES ASSUME NEW S \in SUBSET D, Cardinality(S) <= 0 PROVE S = {}
        OBVIOUS
      <3>1. IsFiniteSet(S) /\ Cardinality(S) \in Nat
        BY <1>2, Zenon
      <3>2. Cardinality(S) = 0
        BY <3>1
      <3> QED BY <3>1, <3>2, FS_EmptySet
    <2>3. Right(g, 0)
      BY <1>3, <2>2
    <2> HIDE DEF g, Right
    <2> QED BY <2>1, <2>3
  <1>7. ASSUME NEW m \in Nat, m \in N PROVE m + 1 \in N
    <2>1. PICK g \in W : Right(g, m)
      BY <1>7
    <2> DEFINE h == [S \in SUBSET D |-> IF Cardinality(S) <= m THEN g[S] ELSE SumStep(f, S, g)]
    <2>2. h \in W
      BY <1>5
    <2>3. \A S \in SUBSET D : h[S] = SumStep(f, S, g)
      BY <2>1
    <2>4. \A S \in SUBSET D : Cardinality(S) <= m => h[S] = g[S]
      OBVIOUS
    <2> HIDE DEF h
    <2>5. \A S \in SUBSET D : Cardinality(S) <= m + 1 => SumStep(f, S, h) = SumStep(f, S, g)
      <3> SUFFICES ASSUME NEW S \in SUBSET D, Cardinality(S) <= m + 1
                   PROVE  SumStep(f, S, h) = SumStep(f, S, g)
        OBVIOUS
      <3>1. CASE S = {}
        BY <1>3, <3>1
      <3>2. CASE S # {}
        <4>1. S \ {Chosen(S)} \in SUBSET D /\ Cardinality(S \ {Chosen(S)}) <= m
          BY <1>2, <3>2
        <4>2. h[S \ {Chosen(S)}] = g[S \ {Chosen(S)}]
          BY <2>4, <4>1
        <4> QED BY <1>3, <3>2, <4>2
      <3> QED BY <3>1, <3>2
    <2>6. Right(h, m + 1)
      BY <2>3, <2>5
    <2> HIDE DEF Right
    <2> QED BY <2>2, <2>6
  <1>8. Cardinality(D) \in Nat
    BY FS_CardinalityType
  <1>9. Cardinality(D) \in N
    <2> HIDE DEF N
    <2> QED BY <1>6, <1>7, <1>8, Induction
  <1>10. PICK it \in W : \A S \in SUBSET D : it[S] = SumStep(f, S, it)
    BY <1>2, <1>9
  <1>11. it = Body(it)
    <2>1. \A S \in SUBSET D : it[S] = Body(it)[S]
      <3> HIDE DEF Body
      <3> QED BY <1>4, <1>10
    <2> QED BY <1>10, <2>1
  <1>12. all = Body(all)
    <2> HIDE DEF Body
    <2> QED BY <1>11
  <1>13. \A S \in SUBSET D : all[S] = SumStep(f, S, all)
    BY <1>4, <1>12
  <1> HIDE DEF all, Body
  <1> DEFINE T == {S \in SUBSET D : all[S] = it[S]}
  <1>14. {} \in T
    BY <1>3, <1>10, <1>13
  <1>15. ASSUME NEW S \in SUBSET D, S # {}, \A x \in S : S \ {x} \in T PROVE S \in T
    <2>1. S \ {Chosen(S)} \in T
      BY <1>2, <1>15
    <2>2. SumStep(f, S, all) = SumStep(f, S, it)
      BY <1>3, <1>15, <2>1
    <2> QED BY <1>10, <1>13, <2>2
  <1>16. D \in T
    <2> HIDE DEF T
    <2>1. SUBSET D \subseteq T
      BY <1>14, <1>15, SetInduction
    <2> QED BY <2>1
  <1> QED BY <1>1, <1>10, <1>16 DEF SumRun

\* What is summed, and on which larger set, does not matter.
LEMMA SumRunsAgree ==
    ASSUME NEW D, IsFiniteSet(D), NEW E \in SUBSET D, NEW f, NEW g, \A x \in E : f[x] = g[x],
           NEW it, SumRun(it, f, D), NEW other, SumRun(other, g, E)
    PROVE  it[E] = other[E]
  <1> DEFINE T == {S \in SUBSET E : it[S] = other[S]}
  <1>1. \A h, w, S : SumStep(h, S, w) = IF S = {} THEN 0 ELSE h[Chosen(S)] + w[S \ {Chosen(S)}]
    BY DEF SumStep
  <1>2. \A S : S # {} => Chosen(S) \in S
    BY DEF Chosen
  <1>3. \A S \in SUBSET E : it[S] = SumStep(f, S, it) /\ other[S] = SumStep(g, S, other)
    BY DEF SumRun
  <1>4. {} \in T
    BY <1>1, <1>3
  <1>5. ASSUME NEW S \in SUBSET E, S # {}, \A x \in S : S \ {x} \in T PROVE S \in T
    BY <1>1, <1>2, <1>3, <1>5
  <1>6. IsFiniteSet(E)
    BY FS_Subset
  <1>7. SUBSET E \subseteq T
    <2> HIDE DEF T
    <2> QED BY <1>4, <1>5, <1>6, SetInduction
  <1> QED BY <1>7

LEMMA SumSame ==
    ASSUME NEW S, IsFiniteSet(S), NEW f, NEW g, \A x \in S : f[x] \in Nat /\ g[x] = f[x]
    PROVE  SumFunctionOnSet(f, S) = SumFunctionOnSet(g, S)
  <1>1. PICK it : SumRun(it, f, S) /\ SumFunctionOnSet(f, S) = it[S]
    BY SumSteps
  <1>2. PICK other : SumRun(other, g, S) /\ SumFunctionOnSet(g, S) = other[S]
    BY SumSteps
  <1> QED BY <1>1, <1>2, SumRunsAgree

LEMMA SumEmpty == ASSUME NEW f PROVE SumFunctionOnSet(f, {}) = 0
  <1>1. PICK it : SumRun(it, f, {}) /\ SumFunctionOnSet(f, {}) = it[{}]
    BY SumSteps, FS_EmptySet
  <1> QED BY <1>1 DEF SumRun, SumStep

LEMMA SumTakes ==
    ASSUME NEW S, IsFiniteSet(S), NEW f, \A y \in S : f[y] \in Nat, NEW x \in S
    PROVE  /\ SumFunctionOnSet(f, S) \in Nat
           /\ SumFunctionOnSet(f, S) = f[x] + SumFunctionOnSet(f, S \ {x})
  <1>1. PICK it : SumRun(it, f, S) /\ SumFunctionOnSet(f, S) = it[S]
    BY SumSteps
  <1>2. \A R : SumStep(f, R, it) = IF R = {} THEN 0 ELSE f[Chosen(R)] + it[R \ {Chosen(R)}]
    BY DEF SumStep
  <1>3. \A R : R # {} => Chosen(R) \in R
    BY DEF Chosen
  <1>4. it \in [SUBSET S -> Nat] /\ \A R \in SUBSET S : it[R] = SumStep(f, R, it)
    BY <1>1 DEF SumRun
  <1> DEFINE T == {R \in SUBSET S : \A y \in R : it[R] = f[y] + it[R \ {y}]}
  <1>5. {} \in T
    OBVIOUS
  <1>6. ASSUME NEW R \in SUBSET S, R # {}, \A y \in R : R \ {y} \in T PROVE R \in T
    <2> SUFFICES ASSUME NEW y \in R PROVE it[R] = f[y] + it[R \ {y}]
      OBVIOUS
    <2> DEFINE c == Chosen(R)
    <2>1. c \in R /\ it[R] = f[c] + it[R \ {c}]
      BY <1>2, <1>3, <1>4
    <2> HIDE DEF c
    <2>2. CASE y = c
      BY <2>1, <2>2
    <2>3. CASE y # c
      <3> DEFINE rest == (R \ {c}) \ {y}
      <3>1. it[R \ {c}] = f[y] + it[rest]
        BY <1>6, <2>1, <2>3
      <3>2. (R \ {y}) \ {c} = rest
        OBVIOUS
      <3>3. it[R \ {y}] = f[c] + it[rest]
        <4> HIDE DEF rest
        <4>1. R \ {y} \in T /\ c \in R \ {y}
          BY <1>6, <2>1, <2>3
        <4> QED BY <3>2, <4>1
      <3>4. f[c] \in Nat /\ f[y] \in Nat /\ it[rest] \in Nat
        BY <1>4, <2>1
      <3> HIDE DEF rest
      <3>5. it[R] = f[c] + (f[y] + it[rest])
        BY <2>1, <3>1
      <3>6. it[R] = f[y] + (f[c] + it[rest])
        BY <3>4, <3>5
      <3> QED BY <3>3, <3>6
    <2> QED BY <2>2, <2>3
  <1>7. S \in T
    <2> HIDE DEF T
    <2>1. SUBSET S \subseteq T
      BY <1>5, <1>6, SetInduction
    <2> QED BY <2>1
  <1>8. IsFiniteSet(S \ {x}) /\ S \ {x} \in SUBSET S
    BY FS_RemoveElement
  <1>9. PICK other : SumRun(other, f, S \ {x}) /\ SumFunctionOnSet(f, S \ {x}) = other[S \ {x}]
    BY <1>8, SumSteps
  <1>10. it[S \ {x}] = other[S \ {x}]
    BY <1>1, <1>8, <1>9, SumRunsAgree
  <1>11. it[S] = f[x] + it[S \ {x}]
    BY <1>7
  <1>12. it[S] \in Nat
    BY <1>4
  <1> QED BY <1>1, <1>9, <1>10, <1>11, <1>12

LEMMA SumOne ==
    ASSUME NEW x, NEW f, f[x] \in Nat
    PROVE  SumFunctionOnSet(f, {x}) = f[x]
  <1>1. SumFunctionOnSet(f, {x}) = f[x] + SumFunctionOnSet(f, {x} \ {x})
    BY FS_Singleton, SumTakes
  <1>2. {x} \ {x} = {}
    OBVIOUS
  <1> QED BY <1>1, <1>2, SumEmpty
=============================================================================
