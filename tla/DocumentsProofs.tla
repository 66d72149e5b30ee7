--------------------------- MODULE DocumentsProofs ---------------------------
(***************************************************************************)
(* Proofs about Documents, for any configurations, requests and order of   *)
(* segments: how routes are chosen, what documents say of them, and that   *)
(* endpoints made of requests answer these.                                *)
(***************************************************************************)
EXTENDS Documents, SequenceTheorems, FiniteSetTheorems, WellFoundedInduction, TLAPS

LEMMA LeastExists ==
  ASSUME NEW S, S \subseteq Nat, S # {}
  PROVE  \E x \in S : \A y \in S : x <= y
<1> DEFINE Less == {p \in Nat \X Nat : p[1] < p[2]}
<1>1. IsWellFoundedOn(Less, Nat)
  BY NatLessThanWellFounded DEF OpToRel
<1>2. PICK x \in S : \A y \in S : <<y, x>> \notin Less
  <2> HIDE DEF Less
  <2> QED BY <1>1, WFMin
<1>3. ASSUME NEW y \in S PROVE x <= y
  <2>1. x \in Nat /\ y \in Nat
    OBVIOUS
  <2>2. ~(y < x)
    BY <1>2, <2>1
  <2> QED BY <2>1, <2>2
<1> QED BY <1>3

-----------------------------------------------------------------------------
(***************************************************************************)
(* Sequences of sequences, one after the other.                            *)
(***************************************************************************)
\* f joins the first n parts of q, each at its place.
Joins(f, q, n) ==
  \A i \in 1..n : f[i] = IF i = 1 THEN q[i] ELSE f[i - 1] \o q[i]

LEMMA JoinExists ==
  ASSUME NEW S, NEW q \in Seq(Seq(S)), NEW n \in 0..Len(q)
  PROVE  \E f \in [1..n -> Seq(S)] : Joins(f, q, n)
<1> DEFINE Has(m) == \E f \in [1..m -> Seq(S)] : Joins(f, q, m)
           Bad == {m \in 0..Len(q) : ~Has(m)}
<1> SUFFICES ASSUME ~Has(n) PROVE FALSE
  OBVIOUS
<1>1. Bad \subseteq Nat /\ Bad # {}
  <2>1. n \in Bad /\ 0..Len(q) \subseteq Nat
    OBVIOUS
  <2> HIDE DEF Has
  <2> QED BY <2>1
<1>2. PICK m \in Bad : \A k \in Bad : m <= k
  <2> HIDE DEF Bad
  <2> QED BY <1>1, LeastExists
<1>3. CASE m = 0
  <2>1. [i \in 1..0 |-> <<>>] \in [1..0 -> Seq(S)]
    OBVIOUS
  <2>2. Joins([i \in 1..0 |-> <<>>], q, 0)
    BY DEF Joins
  <2> QED BY <1>2, <1>3, <2>1, <2>2
<1>4. CASE m # 0
  <2>1. m \in 1..Len(q) /\ m - 1 \in 0..Len(q) /\ ~(m <= m - 1)
    BY <1>2, <1>4
  <2>2. PICK f \in [1..(m - 1) -> Seq(S)] : Joins(f, q, m - 1)
    BY <1>2, <2>1
  <2> DEFINE last == IF m = 1 THEN q[m] ELSE f[m - 1] \o q[m]
             g == [i \in 1..m |-> IF i = m THEN last ELSE f[i]]
  <2>3. last \in Seq(S)
    <3>1. q[m] \in Seq(S)
      BY <2>1
    <3>2. CASE m # 1
      <4>1. f[m - 1] \in Seq(S)
        BY <2>1, <3>2
      <4> QED BY <3>1, <3>2, <4>1
    <3> QED BY <3>1, <3>2
  <2>4. g \in [1..m -> Seq(S)]
    <3>1. \A i \in 1..m : i # m => i \in 1..(m - 1)
      BY <2>1
    <3> HIDE DEF last
    <3> QED BY <2>3, <3>1
  <2>5. Joins(g, q, m)
    <3> SUFFICES ASSUME NEW i \in 1..m
                 PROVE  g[i] = IF i = 1 THEN q[i] ELSE g[i - 1] \o q[i]
      BY DEF Joins
    <3>1. CASE i = m
      <4>1. m # 1 => m - 1 \in 1..m /\ m - 1 # m
        BY <2>1
      <4> QED BY <3>1, <4>1
    <3>2. CASE i # m
      <4>1. i \in 1..(m - 1) /\ (i # 1 => i - 1 \in 1..m /\ i - 1 # m)
        BY <2>1, <3>2
      <4>2. f[i] = IF i = 1 THEN q[i] ELSE f[i - 1] \o q[i]
        BY <2>2, <4>1 DEF Joins
      <4> HIDE DEF last
      <4> QED BY <3>2, <4>1, <4>2
    <3> QED BY <3>1, <3>2
  <2> QED BY <1>2, <2>4, <2>5
<1> QED BY <1>3, <1>4

LEMMA JoinUnique ==
  ASSUME NEW n \in Nat, NEW q, NEW f, NEW g, Joins(f, q, n), Joins(g, q, n)
  PROVE  \A i \in 1..n : f[i] = g[i]
<1> DEFINE Bad == {i \in 1..n : f[i] # g[i]}
<1> SUFFICES ASSUME Bad # {} PROVE FALSE
  OBVIOUS
<1>1. Bad \subseteq Nat
  OBVIOUS
<1>2. PICK m \in Bad : \A k \in Bad : m <= k
  <2> HIDE DEF Bad
  <2> QED BY <1>1, LeastExists
<1>3. m # 1 => f[m - 1] = g[m - 1]
  <2>1. m # 1 => m - 1 \in 1..n /\ ~(m <= m - 1)
    BY <1>2
  <2> QED BY <1>2, <2>1
<1> QED BY <1>2, <1>3 DEF Joins

LEMMA FlattenJoins ==
  ASSUME NEW S, NEW q \in Seq(Seq(S)), q # <<>>
  PROVE  \E f : /\ \A i \in 1..Len(q) : f[i] \in Seq(S)
                /\ Joins(f, q, Len(q)) /\ FlattenSeq(q) = f[Len(q)]
<1> DEFINE Is(f) == f = [i \in 1..Len(q) |-> IF i = 1 THEN q[i] ELSE f[i - 1] \o q[i]]
           c == CHOOSE f : Is(f)
<1>1. Len(q) \in Nat /\ Len(q) # 0
  OBVIOUS
<1>2. PICK f \in [1..Len(q) -> Seq(S)] : Joins(f, q, Len(q))
  <2>1. Len(q) \in 0..Len(q)
    BY <1>1
  <2> QED BY <2>1, JoinExists
<1>3. Is(f)
  BY <1>2 DEF Joins
<1>4. Is(c)
  <2> HIDE DEF Is
  <2> QED BY <1>3
<1>5. FlattenSeq(q) = c[Len(q)]
  BY <1>1 DEF FlattenSeq
<1>6. Joins(c, q, Len(q))
  <2>1. \A i \in 1..Len(q) :
          c[i] = [k \in 1..Len(q) |-> IF k = 1 THEN q[k] ELSE c[k - 1] \o q[k]][i]
    <3> HIDE DEF c
    <3> QED BY <1>4
  <2> HIDE DEF c
  <2> QED BY <2>1 DEF Joins
<1>7. \A i \in 1..Len(q) : c[i] = f[i]
  <2> HIDE DEF c
  <2> QED BY <1>1, <1>2, <1>6, JoinUnique
<1>8. Len(q) \in 1..Len(q)
  BY <1>1
<1>9. FlattenSeq(q) = f[Len(q)]
  BY <1>5, <1>7, <1>8
<1> QED BY <1>2, <1>9

LEMMA Concatenated ==
  ASSUME NEW S, NEW s \in Seq(S), NEW t \in Seq(S), NEW u, u = s \o t
  PROVE  /\ u \in Seq(S) /\ Len(s) \in Nat /\ Len(t) \in Nat /\ Len(u) = Len(s) + Len(t)
         /\ \A i \in 1..Len(s) : u[i] = s[i]
         /\ \A i \in 1..Len(t) : u[Len(s) + i] = t[i]
OBVIOUS

\* Each element of each part has its place after those of the parts before.
Starts(at, q) ==
  /\ at[1] = 0
  /\ \A k \in 1..Len(q) : at[k] \in Nat /\ at[k + 1] = at[k] + Len(q[k])

Places(c, q) ==
  \E at \in [1..Len(q) + 1 -> Nat] :
    /\ Starts(at, q) /\ Len(c) = at[Len(q) + 1]
    /\ \A k \in 1..Len(q) : \A i \in 1..Len(q[k]) :
         at[k] + i \in 1..Len(c) /\ c[at[k] + i] = q[k][i]

LEMMA FlattenPlaces ==
  ASSUME NEW S, NEW q \in Seq(Seq(S))
  PROVE  FlattenSeq(q) \in Seq(S) /\ Places(FlattenSeq(q), q)
<1>1. CASE q = <<>>
  <2> DEFINE at == [n \in 1..Len(q) + 1 |-> 0]
  <2>1. FlattenSeq(q) = <<>> /\ Len(q) = 0 /\ 1..Len(q) = {}
    BY <1>1 DEF FlattenSeq
  <2>2. at \in [1..Len(q) + 1 -> Nat] /\ at[1] = 0 /\ at[Len(q) + 1] = 0
    BY <2>1
  <2>3. FlattenSeq(q) \in Seq(S) /\ Len(FlattenSeq(q)) = 0
    BY <2>1
  <2> HIDE DEF at
  <2>4. Starts(at, q)
    BY <2>1, <2>2 DEF Starts
  <2> QED BY <2>1, <2>2, <2>3, <2>4 DEF Places
<1>2. CASE q # <<>>
  <2>1. PICK f : /\ \A i \in 1..Len(q) : f[i] \in Seq(S)
                 /\ Joins(f, q, Len(q)) /\ FlattenSeq(q) = f[Len(q)]
    BY <1>2, FlattenJoins
  <2>2. Len(q) \in Nat /\ Len(q) # 0 /\ \A k \in 1..Len(q) : q[k] \in Seq(S)
    BY <1>2
  <2> DEFINE at == [n \in 1..Len(q) + 1 |-> IF n = 1 THEN 0 ELSE Len(f[n - 1])]
  <2>3. at \in [1..Len(q) + 1 -> Nat]
    <3>1. \A n \in 1..Len(q) + 1 : n # 1 => n - 1 \in 1..Len(q)
      BY <2>2
    <3>2. \A n \in 1..Len(q) : Len(f[n]) \in Nat
      BY <2>1
    <3> QED BY <3>1, <3>2
  <2>4. \A k \in 1..Len(q) : at[k + 1] = Len(f[k]) /\ at[k] = IF k = 1 THEN 0 ELSE Len(f[k - 1])
    BY <2>2
  <2>5. at[1] = 0 /\ at[Len(q) + 1] = Len(f[Len(q)])
    BY <2>2
  <2> HIDE DEF at
  <2>6. ASSUME NEW k \in 1..Len(q)
        PROVE  /\ Len(f[k]) = at[k] + Len(q[k]) /\ at[k] \in Nat
               /\ \A i \in 1..Len(q[k]) : f[k][at[k] + i] = q[k][i]
               /\ k # 1 => \A i \in 1..Len(f[k - 1]) : f[k][i] = f[k - 1][i]
    <3>1. k # 1 => k - 1 \in 1..Len(q) /\ f[k - 1] \in Seq(S)
      BY <2>1, <2>2
    <3>2. f[k] = IF k = 1 THEN q[k] ELSE f[k - 1] \o q[k]
      BY <2>1 DEF Joins
    <3>3. q[k] \in Seq(S)
      BY <2>2
    <3>4. CASE k = 1
      BY <2>4, <3>2, <3>3, <3>4
    <3>5. CASE k # 1
      <4>1. at[k] = Len(f[k - 1]) /\ f[k] = f[k - 1] \o q[k]
        BY <2>4, <3>2, <3>5
      <4>2. PICK s \in Seq(S) : s = f[k - 1]
        BY <3>1, <3>5
      <4>3. PICK t \in Seq(S) : t = q[k]
        BY <3>3
      <4>4. f[k] = s \o t /\ at[k] = Len(s)
        BY <4>1, <4>2, <4>3
      <4>5. /\ Len(s) \in Nat /\ Len(f[k]) = Len(s) + Len(t)
            /\ \A i \in 1..Len(s) : f[k][i] = s[i]
            /\ \A i \in 1..Len(t) : f[k][Len(s) + i] = t[i]
        BY <4>4, Concatenated
      <4> QED BY <4>2, <4>3, <4>4, <4>5
    <3> QED BY <3>4, <3>5
  <2>7. Starts(at, q)
    BY <2>4, <2>5, <2>6 DEF Starts
  <2>8. ASSUME NEW k \in 1..Len(q), NEW i \in 1..Len(q[k])
        PROVE  \A m \in k..Len(q) : at[k] + i \in 1..Len(f[m]) /\ f[m][at[k] + i] = q[k][i]
    <3> DEFINE Bad == {m \in k..Len(q) :
                         ~(at[k] + i \in 1..Len(f[m]) /\ f[m][at[k] + i] = q[k][i])}
    <3> SUFFICES ASSUME Bad # {} PROVE FALSE
      OBVIOUS
    <3>1. Bad \subseteq Nat
      OBVIOUS
    <3>2. PICK m \in Bad : \A n \in Bad : m <= n
      <4> HIDE DEF Bad
      <4> QED BY <3>1, LeastExists
    <3>3. m \in k..Len(q) /\ ~(at[k] + i \in 1..Len(f[m]) /\ f[m][at[k] + i] = q[k][i])
      BY <3>2
    <3> HIDE DEF Bad
    <3>4. CASE m = k
      <4>1. q[k] \in Seq(S) /\ Len(q[k]) \in Nat
        BY <2>2
      <4>2. PICK a \in Nat, l \in Nat : a = at[k] /\ l = Len(q[k]) /\ i \in 1..l
        BY <2>6, <4>1
      <4>3. a + i \in 1..(a + l)
        BY <4>2
      <4>4. Len(f[k]) = a + l /\ f[k][a + i] = q[k][i]
        BY <2>6, <4>2
      <4>5. at[k] + i \in 1..Len(f[k]) /\ f[k][at[k] + i] = q[k][i]
        BY <4>2, <4>3, <4>4
      <4> QED BY <3>3, <3>4, <4>5, Zenon
    <3>5. CASE m # k
      <4>1. m - 1 \in k..Len(q) /\ m \in 1..Len(q) /\ m # 1 /\ ~(m <= m - 1)
        BY <2>2, <3>3, <3>5
      <4>2. at[k] + i \in 1..Len(f[m - 1]) /\ f[m - 1][at[k] + i] = q[k][i]
        BY <3>2, <4>1 DEF Bad
      <4>3. \A j \in 1..Len(f[m - 1]) : f[m][j] = f[m - 1][j]
        BY <2>6, <4>1
      <4>4. Len(f[m - 1]) \in Nat /\ Len(f[m]) \in Nat /\ Len(f[m - 1]) <= Len(f[m])
        <5>1. Joins(f, q, Len(q)) /\ m - 1 \in 1..Len(q)
          BY <2>1, <4>1
        <5>2. f[m] = f[m - 1] \o q[m] /\ f[m - 1] \in Seq(S) /\ q[m] \in Seq(S)
          BY <2>1, <2>2, <4>1, <5>1 DEF Joins
        <5>3. PICK s \in Seq(S), t \in Seq(S) : s = f[m - 1] /\ t = q[m] /\ f[m] = s \o t
          BY <5>2
        <5>4. Len(s) \in Nat /\ Len(t) \in Nat /\ Len(f[m]) = Len(s) + Len(t)
          BY <5>3, Concatenated
        <5>5. Len(s) <= Len(f[m])
          BY <5>4
        <5>6. Len(f[m - 1]) = Len(s)
          BY <5>3
        <5>7. Len(f[m]) \in Nat
          BY <5>4
        <5> QED BY <5>4, <5>5, <5>6, <5>7
      <4>5. PICK a \in Nat, b \in Nat : a = Len(f[m - 1]) /\ b = Len(f[m]) /\ a <= b
        BY <4>4
      <4>6. at[k] + i \in 1..b
        BY <4>2, <4>5
      <4> QED BY <3>3, <4>2, <4>3, <4>5, <4>6
    <3> QED BY <3>4, <3>5
  <2>9. Len(q) \in 1..Len(q)
    BY <2>2
  <2>10. \A k \in 1..Len(q) : Len(q) \in k..Len(q)
    BY <2>2
  <2>11. ASSUME NEW k \in 1..Len(q), NEW i \in 1..Len(q[k])
         PROVE  /\ at[k] + i \in 1..Len(FlattenSeq(q))
                /\ FlattenSeq(q)[at[k] + i] = q[k][i]
    <3>1. FlattenSeq(q) = f[Len(q)] /\ Len(q) \in k..Len(q)
      BY <2>1, <2>10
    <3> HIDE DEF FlattenSeq
    <3> QED BY <2>8, <3>1
  <2>12. FlattenSeq(q) \in Seq(S) /\ Len(FlattenSeq(q)) = at[Len(q) + 1]
    BY <2>1, <2>5, <2>9
  <2> HIDE DEF FlattenSeq
  <2> QED BY <2>3, <2>7, <2>11, <2>12 DEF Places
<1> QED BY <1>1, <1>2
-----------------------------------------------------------------------------
(***************************************************************************)
(* The priority of a path, in closed form.                                 *)
(***************************************************************************)
LEMMA PriorityIs ==
  ASSUME NEW path, Len(path) \in Nat
  PROVE  Priority(path) = IF \E i \in 1..Len(path) : path[i].name # "" THEN 2
                          ELSE IF \E i \in 1..Len(path) : path[i].braces THEN 1 ELSE 0
<1> DEFINE N == Len(path)
           step(f, n) == IF n = 0 THEN 0
                         ELSE IF path[n].name # "" THEN 2
                         ELSE IF f[n - 1] = 0 /\ path[n].braces THEN 1 ELSE f[n - 1]
           named(n) == \E i \in 1..n : path[i].name # ""
           braced(n) == \E i \in 1..n : path[i].braces
           Is(f) == f = [n \in 0..N |-> step(f, n)]
           c == CHOOSE f : Is(f)
           closed(n) == IF named(n) THEN 2 ELSE IF braced(n) THEN 1 ELSE 0
           g == [n \in 0..N |-> closed(n)]
<1>0. N \in Nat
  OBVIOUS
<1>1. Priority(path) = c[N]
  BY DEF Priority
<1> HIDE DEF N
<1>2. ASSUME NEW n \in 0..N, n # 0
      PROVE  closed(n) = IF path[n].name # "" THEN 2
                         ELSE IF closed(n - 1) = 0 /\ path[n].braces THEN 1 ELSE closed(n - 1)
  <2>1. n \in Nat /\ n >= 1
    BY <1>0, <1>2
  <2>2. \A i \in 1..n : i = n \/ i \in 1..(n - 1)
    BY <2>1
  <2>3. n \in 1..n /\ \A i \in 1..(n - 1) : i \in 1..n
    BY <2>1
  <2>4. CASE path[n].name # ""
    BY <2>3, <2>4
  <2>5. CASE path[n].name = ""
    <3>1. named(n) <=> named(n - 1)
      BY <2>2, <2>3, <2>5
    <3>2. braced(n) <=> (path[n].braces \/ braced(n - 1))
      BY <2>2, <2>3
    <3> HIDE DEF named, braced
    <3>3. CASE named(n)
      <4>1. closed(n) = 2 /\ closed(n - 1) = 2
        BY <3>1, <3>3
      <4>2. closed(n - 1) # 0
        BY <4>1
      <4> HIDE DEF closed
      <4>3. ~(closed(n - 1) = 0 /\ path[n].braces)
        BY <4>2
      <4> QED BY <2>5, <4>1, <4>3, Zenon
    <3>4. CASE ~named(n) /\ braced(n - 1)
      BY <2>5, <3>1, <3>2, <3>4
    <3>5. CASE ~named(n) /\ ~braced(n - 1) /\ path[n].braces
      BY <2>5, <3>1, <3>2, <3>5
    <3>6. CASE ~named(n) /\ ~braced(n - 1) /\ ~path[n].braces
      BY <2>5, <3>1, <3>2, <3>6
    <3> QED BY <3>3, <3>4, <3>5, <3>6
  <2> QED BY <2>4, <2>5
<1>3. closed(0) = 0
  OBVIOUS
<1> HIDE DEF closed
<1>4. ASSUME NEW n \in 0..N PROVE g[n] = step(g, n)
  <2>1. CASE n = 0
    BY <1>3, <2>1
  <2>2. CASE n # 0
    <3>1. n - 1 \in 0..N
      BY <1>0, <2>2
    <3>2. g[n] = closed(n) /\ g[n - 1] = closed(n - 1)
      BY <3>1
    <3> QED BY <1>2, <2>2, <3>2
  <2> QED BY <2>1, <2>2
<1>5. Is(g)
  <2>1. g = [n \in 0..N |-> g[n]]
    OBVIOUS
  <2> HIDE DEF g
  <2> QED BY <1>4, <2>1
<1>6. Is(c)
  <2> HIDE DEF Is
  <2> QED BY <1>5
<1>7. \A n \in 0..N : c[n] = step(c, n)
  <2> HIDE DEF c
  <2>1. \A n \in 0..N : c[n] = [k \in 0..N |-> step(c, k)][n]
    BY <1>6
  <2> QED BY <2>1
<1> HIDE DEF c, g, Is
<1>8. \A n \in 0..N : c[n] = g[n]
  <2> DEFINE Bad == {n \in 0..N : c[n] # g[n]}
  <2> SUFFICES ASSUME Bad # {} PROVE FALSE
    OBVIOUS
  <2>1. Bad \subseteq Nat
    OBVIOUS
  <2>2. PICK n \in Bad : \A k \in Bad : n <= k
    <3> HIDE DEF Bad
    <3> QED BY <2>1, LeastExists
  <2>3. n \in 0..N /\ c[n] # g[n]
    BY <2>2
  <2>4. n # 0 => c[n - 1] = g[n - 1]
    <3>1. n # 0 => n - 1 \in 0..N /\ ~(n <= n - 1)
      BY <1>0, <2>3
    <3> QED BY <2>2, <3>1
  <2>5. c[n] = step(c, n) /\ g[n] = step(g, n)
    BY <1>4, <1>7, <2>3
  <2>6. c[n] = g[n]
    <3>1. CASE n = 0
      BY <2>5, <3>1
    <3>2. CASE n # 0
      <4>1. PICK v : v = c[n - 1] /\ v = g[n - 1]
        BY <2>4, <3>2
      <4>2. c[n] = IF path[n].name # "" THEN 2 ELSE IF v = 0 /\ path[n].braces THEN 1 ELSE v
        BY <2>5, <3>2, <4>1
      <4>3. g[n] = IF path[n].name # "" THEN 2 ELSE IF v = 0 /\ path[n].braces THEN 1 ELSE v
        BY <2>5, <3>2, <4>1
      <4> QED BY <4>2, <4>3
    <3> QED BY <3>1, <3>2
  <2> QED BY <2>3, <2>6
<1>9. c[N] = closed(N)
  <2>1. N \in 0..N
    BY <1>0
  <2> QED BY <1>8, <2>1 DEF g
<1> QED BY <1>1, <1>9 DEF closed, N
-----------------------------------------------------------------------------
(***************************************************************************)
(* A finite set in the order of its elements: each has a number of its own, *)
(* that of those before it.                                                *)
(***************************************************************************)
Orders(R, S) ==
  /\ \A x \in S : <<x, x>> \notin R
  /\ \A x, y \in S : x # y => <<x, y>> \in R \/ <<y, x>> \in R
  /\ \A x, y, z \in S : <<x, y>> \in R /\ <<y, z>> \in R => <<x, z>> \in R

LEMMA InOrderIs ==
  ASSUME NEW S, IsFiniteSet(S), NEW R, Orders(R, S)
  PROVE  /\ Cardinality(S) \in Nat
         /\ InOrder(S, R) \in [1..Cardinality(S) -> S]
         /\ \A x \in S : \E n \in 1..Cardinality(S) : InOrder(S, R)[n] = x
         /\ \A m, n \in 1..Cardinality(S) : m < n => <<InOrder(S, R)[m], InOrder(S, R)[n]>> \in R
<1> DEFINE N == Cardinality(S)
           below(x) == {y \in S : <<y, x>> \in R}
           rank == [x \in S |-> Cardinality(below(x))]
<1>1. N \in Nat
  BY FS_CardinalityType
<1>2. ASSUME NEW x \in S PROVE IsFiniteSet(below(x)) /\ rank[x] \in 0..(N - 1)
  <2>1. IsFiniteSet(below(x))
    BY FS_Subset
  <2>2. below(x) \in SUBSET (S \ {x})
    BY DEF Orders
  <2>3. IsFiniteSet(S \ {x}) /\ Cardinality(S \ {x}) = N - 1
    BY FS_RemoveElement
  <2>4. Cardinality(below(x)) <= N - 1 /\ Cardinality(below(x)) \in Nat
    <3> HIDE DEF below
    <3>1. Cardinality(below(x)) <= Cardinality(S \ {x})
      BY <2>2, <2>3, FS_Subset
    <3>2. Cardinality(below(x)) \in Nat
      BY <2>1, FS_CardinalityType
    <3> QED BY <2>3, <3>1, <3>2
  <2> QED BY <1>1, <2>1, <2>4
<1>3. ASSUME NEW x \in S, NEW y \in S, <<x, y>> \in R PROVE rank[x] < rank[y]
  <2>1. below(x) \in SUBSET below(y) /\ x \in below(y) /\ x \notin below(x)
    BY <1>3 DEF Orders
  <2>2. IsFiniteSet(below(y)) /\ IsFiniteSet(below(x))
    BY <1>2
  <2>3. Cardinality(below(x)) <= Cardinality(below(y)) /\ Cardinality(below(x)) # Cardinality(below(y))
    <3> HIDE DEF below
    <3> QED BY <2>1, <2>2, FS_Subset
  <2>4. rank[x] = Cardinality(below(x)) /\ rank[y] = Cardinality(below(y))
    OBVIOUS
  <2>5. rank[x] \in Nat /\ rank[y] \in Nat
    BY <1>1, <1>2
  <2> HIDE DEF rank, below
  <2> QED BY <2>3, <2>4, <2>5
<1>4. rank \in Injection(S, 0..(N - 1))
  <2>1. rank \in [S -> 0..(N - 1)]
    BY <1>2
  <2>2. \A x, y \in S : x # y => rank[x] # rank[y]
    <3> SUFFICES ASSUME NEW x \in S, NEW y \in S, x # y PROVE rank[x] # rank[y]
      OBVIOUS
    <3>1. rank[x] \in Nat /\ rank[y] \in Nat
      BY <1>1, <1>2
    <3>2. <<x, y>> \in R \/ <<y, x>> \in R
      BY Zenon DEF Orders
    <3> HIDE DEF rank
    <3>3. rank[x] < rank[y] \/ rank[y] < rank[x]
      BY <1>3, <3>2
    <3> QED BY <3>1, <3>3
  <2> HIDE DEF rank
  <2>3. DOMAIN rank = S
    BY <2>1
  <2>4. IsInjective(rank)
    BY <2>2, <2>3, Zenon DEF IsInjective
  <2> QED BY <2>1, <2>4 DEF Injection
<1>5. IsFiniteSet(0..(N - 1)) /\ Cardinality(0..(N - 1)) = N
  <2>1. PICK n \in Nat : n = N
    BY <1>1
  <2>2. PICK m \in Int : m = n - 1
    OBVIOUS
  <2>3. /\ IsFiniteSet(0..m)
        /\ Cardinality(0..m) = IF 0 > m THEN 0 ELSE m - 0 + 1
    BY FS_Interval
  <2>4. Cardinality(0..m) = n
    BY <2>2, <2>3
  <2> HIDE DEF N
  <2> QED BY <2>1, <2>2, <2>3, <2>4
<1>6. rank \in Surjection(S, 0..(N - 1))
  <2> HIDE DEF rank
  <2> QED BY <1>4, <1>5, FS_Injection
<1> DEFINE q == InOrder(S, R)
<1>7. q = [n \in 1..N |-> CHOOSE x \in S : Cardinality(below(x)) = n - 1]
  BY DEF InOrder
<1>8. ASSUME NEW n \in 1..N PROVE q[n] \in S /\ rank[q[n]] = n - 1
  <2>1. n - 1 \in 0..(N - 1)
    BY <1>1
  <2>2. \E x \in S : rank[x] = n - 1
    <3> HIDE DEF rank
    <3> QED BY <1>6, <2>1 DEF Surjection
  <2>3. \E x \in S : Cardinality(below(x)) = n - 1
    BY <2>2
  <2>4. q[n] = CHOOSE x \in S : Cardinality(below(x)) = n - 1
    <3> HIDE DEF q, below
    <3> QED BY <1>7
  <2>5. q[n] \in S /\ Cardinality(below(q[n])) = n - 1
    <3> HIDE DEF q, below
    <3> QED BY <2>3, <2>4
  <2> HIDE DEF q
  <2> QED BY <2>5
<1> HIDE DEF rank, below
<1>9. q \in [1..N -> S]
  <2> HIDE DEF q
  <2> QED BY <1>7, <1>8
<1>10. ASSUME NEW x \in S PROVE \E n \in 1..N : q[n] = x
  <2>1. rank[x] + 1 \in 1..N
    BY <1>1, <1>2
  <2>2. PICK n \in 1..N : n = rank[x] + 1
    BY <2>1
  <2>3. rank[q[n]] = rank[x] /\ q[n] \in S
    <3> HIDE DEF q
    <3> QED BY <1>1, <1>2, <1>8, <2>2
  <2>4. q[n] = x
    <3> HIDE DEF q
    <3> QED BY <1>4, <2>3 DEF Injection, IsInjective
  <2> QED BY <2>4
<1>11. ASSUME NEW m \in 1..N, NEW n \in 1..N, m < n PROVE <<q[m], q[n]>> \in R
  <2> HIDE DEF q
  <2>1. q[m] \in S /\ q[n] \in S /\ rank[q[m]] = m - 1 /\ rank[q[n]] = n - 1
    BY <1>8
  <2>2. q[m] # q[n] /\ ~(rank[q[n]] < rank[q[m]])
    BY <1>1, <1>11, <2>1
  <2> QED BY <1>3, <2>1, <2>2 DEF Orders
<1> QED BY <1>1, <1>9, <1>10, <1>11
-----------------------------------------------------------------------------
(***************************************************************************)
(* Paths of text, and those written by documents.                          *)
(***************************************************************************)
LEMMA FormIs ==
  ASSUME NEW path, IsPath(path)
  PROVE  /\ path \in Seq(Range(path))
         /\ Len(path) \in Nat /\ DOMAIN path = 1..Len(path)
         /\ Form(path) \in Seq(DOMAIN Rank)
         /\ Len(Form(path)) = Len(path) /\ DOMAIN Form(path) = 1..Len(path)
         /\ Len(Pattern(path)) = Len(path) /\ DOMAIN Pattern(path) = 1..Len(path)
         /\ \A i \in 1..Len(path) :
              /\ path[i].name # "" => path[i].braces
              /\ Form(path)[i].param = path[i].braces
              /\ ~path[i].braces => Form(path)[i].is = path[i].compiled
              /\ Pattern(path)[i] = path[i].compiled
<1>1. /\ path \in Seq(Range(path))
      /\ Len(path) \in Nat /\ DOMAIN path = 1..Len(path)
      /\ Form(path) \in Seq(DOMAIN Rank)
      /\ \A i \in 1..Len(path) : path[i].braces \in BOOLEAN /\ (path[i].name # "" => path[i].braces)
  <2>1. /\ path \in Seq(Range(path))
        /\ Form(path) \in Seq(DOMAIN Rank)
        /\ \A i \in DOMAIN path : path[i].braces \in BOOLEAN /\ (path[i].name # "" => path[i].braces)
    BY Zenon DEF IsPath
  <2>2. Len(path) \in Nat /\ DOMAIN path = 1..Len(path)
    <3>1. path \in Seq(Range(path))
      BY <2>1
    <3> HIDE DEF Range
    <3> QED BY <3>1
  <2> QED BY <2>1, <2>2, Zenon
<1>2. /\ DOMAIN Form(path) = 1..Len(path)
      /\ \A i \in 1..Len(path) :
           Form(path)[i] = IF ~path[i].braces THEN Segment(path[i].compiled)
                           ELSE Param(IF path[i].name # "" THEN path[i].name
                                      ELSE Numbered[Cardinality({j \in 1..i : path[j].braces})])
  BY <1>1, Zenon DEF Form
<1>3. ASSUME NEW i \in 1..Len(path)
      PROVE  /\ Form(path)[i].param = path[i].braces
             /\ ~path[i].braces => Form(path)[i].is = path[i].compiled
  <2>1. path[i].braces \in BOOLEAN
    BY <1>1
  <2>2. CASE path[i].braces
    <3>1. PICK n : Form(path)[i] = Param(n)
      BY <1>2, <2>2, Zenon
    <3>2. Form(path)[i].param = TRUE
      BY <3>1 DEF Param
    <3> QED BY <2>1, <2>2, <3>2, Zenon
  <2>3. CASE ~path[i].braces
    <3>1. Form(path)[i] = Segment(path[i].compiled)
      BY <1>2, <2>3, Zenon
    <3>2. Form(path)[i].param = FALSE /\ Form(path)[i].is = path[i].compiled
      BY <3>1 DEF Segment
    <3> QED BY <2>1, <2>3, <3>2, Zenon
  <2> QED BY <2>2, <2>3
<1>4. DOMAIN Pattern(path) = 1..Len(path) /\ \A i \in 1..Len(path) : Pattern(path)[i] = path[i].compiled
  BY <1>1, Zenon DEF Pattern
<1>5. Len(Form(path)) = Len(path)
  <2>1. PICK s \in Seq(DOMAIN Rank) : s = Form(path)
    BY <1>1
  <2>2. DOMAIN s = 1..Len(s) /\ Len(s) \in Nat
    BY <2>1
  <2>3. Len(s) = Len(path)
    <3>1. PICK n \in Nat, m \in Nat : n = Len(s) /\ m = Len(path)
      BY <1>1, <2>2
    <3>2. 1..n = 1..m
      BY <1>2, <2>1, <2>2, <3>1
    <3> QED BY <3>1, <3>2
  <2> QED BY <2>1, <2>3
<1>6. Len(Pattern(path)) = Len(path)
  <2>1. PICK n \in Nat : n = Len(path)
    BY <1>1
  <2>2. Pattern(path) = [i \in 1..n |-> path[i].compiled]
    BY <1>1, <2>1, Zenon DEF Pattern
  <2> QED BY <2>1, <2>2
<1> QED BY <1>1, <1>2, <1>3, <1>4, <1>5, <1>6

LEMMA HandlebarsIs ==
  ASSUME NEW f \in Seq(DOMAIN Rank)
  PROVE  /\ IsPath(Handlebars(f)) /\ Form(Handlebars(f)) = f
         /\ DOMAIN Handlebars(f) = 1..Len(f)
         /\ Pattern(Handlebars(f)) = [i \in 1..Len(f) |-> IF f[i].param THEN AnySegment ELSE f[i].is]
<1> DEFINE path == Handlebars(f)
<1>1. Len(f) \in Nat /\ DOMAIN f = 1..Len(f) /\ \A i \in 1..Len(f) : f[i] \in DOMAIN Rank
  OBVIOUS
<1>2. \A i \in 1..Len(f) : /\ f[i] \in {Segment(f[i].is), Param(f[i].is)}
                           /\ f[i].is # (IF f[i].param THEN "" ELSE AnySegment)
  BY <1>1, DocumentsAssumption, Zenon
<1>3. DOMAIN path = 1..Len(f)
      /\ \A i \in 1..Len(f) : path[i] = IF f[i].param THEN Var(f[i].is) ELSE Text(f[i].is)
  BY <1>1, Zenon DEF Handlebars
<1>4. \A i \in 1..Len(f) :
        /\ f[i].param \in BOOLEAN
        /\ path[i].braces = f[i].param
        /\ path[i].compiled = IF f[i].param THEN AnySegment ELSE f[i].is
        /\ path[i].name = IF f[i].param THEN f[i].is ELSE ""
  <2> SUFFICES ASSUME NEW i \in 1..Len(f)
               PROVE  /\ f[i].param \in BOOLEAN
                      /\ path[i].braces = f[i].param
                      /\ path[i].compiled = IF f[i].param THEN AnySegment ELSE f[i].is
                      /\ path[i].name = IF f[i].param THEN f[i].is ELSE ""
    OBVIOUS
  <2>1. PICK n : n = f[i].is /\ f[i] \in {Segment(n), Param(n)}
    BY <1>2
  <2>2. path[i] = IF f[i].param THEN Var(n) ELSE Text(n)
    BY <1>3, <2>1
  <2> HIDE DEF path
  <2>3. CASE f[i] = Param(n)
    <3>1. f[i].param = TRUE
      BY <2>3 DEF Param
    <3>2. path[i] = Var(n)
      BY <2>2, <3>1, Zenon
    <3>3. path[i].braces = TRUE /\ path[i].compiled = AnySegment /\ path[i].name = n
      BY <3>2 DEF Var
    <3> QED BY <2>1, <3>1, <3>3, Zenon
  <2>4. CASE f[i] = Segment(n)
    <3>1. f[i].param = FALSE
      BY <2>4 DEF Segment
    <3>2. path[i] = Text(n)
      BY <2>2, <3>1, Zenon
    <3>3. path[i].braces = FALSE /\ path[i].compiled = n /\ path[i].name = ""
      <4>1. Text(n).braces = FALSE /\ Text(n).compiled = n /\ Text(n).name = ""
        BY DEF Text
      <4> QED BY <3>2, <4>1, Zenon
    <3> QED BY <2>1, <3>1, <3>3, Zenon
  <2> QED BY <2>1, <2>3, <2>4
<1>5. path = [i \in 1..Len(f) |-> path[i]]
  BY <1>1 DEF Handlebars
<1>6. path \in Seq(Range(path))
  <2> HIDE DEF path
  <2>1. \A i \in 1..Len(f) : path[i] \in Range(path)
    BY <1>3 DEF Range
  <2> HIDE DEF Range
  <2> QED BY <1>1, <1>5, <2>1
<1>7. \A n : Segment(n).param = FALSE /\ Param(n).param = TRUE
  BY DEF Segment, Param
<1>8. \A i \in 1..Len(f) : f[i] = IF f[i].param THEN Param(f[i].is) ELSE Segment(f[i].is)
  BY <1>2, <1>7, Zenon
<1> HIDE DEF path
<1>9. Form(path) = f
  <2>1. \A i \in 1..Len(f) :
          (IF ~path[i].braces THEN Segment(path[i].compiled)
           ELSE Param(IF path[i].name # "" THEN path[i].name
                      ELSE Numbered[Cardinality({j \in 1..i : path[j].braces})])) = f[i]
    <3> SUFFICES ASSUME NEW i \in 1..Len(f)
                 PROVE  (IF ~path[i].braces THEN Segment(path[i].compiled)
                         ELSE Param(IF path[i].name # "" THEN path[i].name
                              ELSE Numbered[Cardinality({j \in 1..i : path[j].braces})])) = f[i]
      OBVIOUS
    <3>1. CASE f[i].param
      <4>1. path[i].braces /\ path[i].name = f[i].is /\ path[i].name # ""
        BY <1>2, <1>4, <3>1
      <4> QED BY <1>8, <3>1, <4>1, Zenon
    <3>2. CASE ~f[i].param
      <4>1. ~path[i].braces /\ path[i].compiled = f[i].is
        BY <1>2, <1>4, <3>2
      <4> QED BY <1>8, <3>2, <4>1, Zenon
    <3> QED BY <3>1, <3>2
  <2>2. Form(path) = [i \in 1..Len(f) |-> f[i]]
    BY <1>3, <2>1, Zenon DEF Form
  <2> QED BY <1>1, <2>2
<1>10. IsPath(path)
  <2>1. \A i \in DOMAIN path : path[i].braces \in BOOLEAN /\ (path[i].name # "" => path[i].braces)
    BY <1>3, <1>4, Zenon
  <2> QED BY <1>6, <1>9, <2>1, Zenon DEF IsPath
<1>11. Pattern(path) = [i \in 1..Len(f) |-> IF f[i].param THEN AnySegment ELSE f[i].is]
  BY <1>3, <1>4, Zenon DEF Pattern
<1> QED BY <1>3, <1>9, <1>10, <1>11 DEF path

LEMMA TextIs ==
  ASSUME NEW url \in Seq(STRING), \A i \in DOMAIN url : Segment(url[i]) \in DOMAIN Rank
  PROVE  /\ IsPath([i \in DOMAIN url |-> Text(url[i])])
         /\ Pattern([i \in DOMAIN url |-> Text(url[i])]) = url
<1> DEFINE path == [i \in DOMAIN url |-> Text(url[i])]
<1>1. Len(url) \in Nat /\ DOMAIN url = 1..Len(url) /\ \A i \in 1..Len(url) : url[i] \in STRING
  OBVIOUS
<1>2. path = [i \in 1..Len(url) |-> path[i]]
  BY <1>1
<1>3. DOMAIN path = 1..Len(url)
      /\ \A i \in 1..Len(url) : path[i].name = "" /\ path[i].compiled = url[i] /\ path[i].braces = FALSE
  BY <1>1 DEF Text
<1> HIDE DEF path
<1>4. Form(path) = [i \in 1..Len(url) |-> Segment(url[i])]
  BY <1>3, Zenon DEF Form
<1>5. Form(path) \in Seq(DOMAIN Rank)
  <2> DEFINE e(i) == Segment(url[i])
             S == DOMAIN Rank
  <2>1. \A i \in 1..Len(url) : e(i) \in S
    BY <1>1
  <2>2. Form(path) = [i \in 1..Len(url) |-> e(i)]
    BY <1>4
  <2> HIDE DEF e, S
  <2>3. Form(path) \in Seq(S)
    BY <1>1, <2>1, <2>2
  <2> QED BY <2>3 DEF S
<1>6. IsPath(path)
  <2>1. path \in Seq(Range(path))
    <3>1. \A i \in 1..Len(url) : path[i] \in Range(path)
      BY <1>3 DEF Range
    <3> HIDE DEF Range
    <3> QED BY <1>1, <1>2, <3>1
  <2> QED BY <1>3, <1>5, <2>1, Zenon DEF IsPath
<1>7. Pattern(path) = [i \in 1..Len(url) |-> url[i]]
  BY <1>3, Zenon DEF Pattern
<1>8. Pattern(path) = url
  BY <1>1, <1>7
<1> QED BY <1>6, <1>8 DEF path
-----------------------------------------------------------------------------
(***************************************************************************)
(* Routes: the endpoints of a pattern, of which the first counts.          *)
(***************************************************************************)
LEMMA ConfigurationIs ==
  ASSUME NEW c, IsConfiguration(c)
  PROVE  /\ Len(c) \in Nat /\ DOMAIN c = 1..Len(c) /\ c \in Seq(Range(c))
         /\ \A i \in 1..Len(c) : IsPath(c[i].path)
<1>1. c \in Seq(Range(c)) /\ \A i \in DOMAIN c : IsPath(c[i].path)
  BY DEF IsConfiguration
<1>2. Len(c) \in Nat /\ DOMAIN c = 1..Len(c)
  <2> HIDE DEF Range
  <2> QED BY <1>1
<1> QED BY <1>1, <1>2

LEMMA MinIs ==
  ASSUME NEW S, S \subseteq Nat, S # {}
  PROVE  Min(S) \in S /\ \A x \in S : Min(S) <= x
BY LeastExists DEF Min

LEMMA FirstIs ==
  ASSUME IsConfiguration(endpoints), NEW p \in Patterns
  PROVE  /\ Of(p) \subseteq 1..Len(endpoints) /\ Len(endpoints) \in Nat
         /\ FirstOf(p) \in Of(p) /\ FirstOf(p) \in Nat /\ \A i \in Of(p) : FirstOf(p) <= i
         /\ PatternOf(FirstOf(p)) = p /\ p = Pattern(endpoints[FirstOf(p)].path)
         /\ PriorityOf(p) \in 0..2
<1>1. Len(endpoints) \in Nat /\ DOMAIN endpoints = 1..Len(endpoints)
      /\ \A i \in 1..Len(endpoints) : IsPath(endpoints[i].path)
  BY ConfigurationIs
<1>2. Of(p) \subseteq 1..Len(endpoints) /\ Of(p) \subseteq Nat /\ Of(p) # {}
  BY <1>1 DEF Of, Patterns
<1>3. FirstOf(p) \in Of(p) /\ \A i \in Of(p) : FirstOf(p) <= i
  BY <1>2, MinIs DEF FirstOf
<1>4. PatternOf(FirstOf(p)) = p
  BY <1>3, Zenon DEF Of
<1>5. p = Pattern(endpoints[FirstOf(p)].path)
  BY <1>4, Zenon DEF PatternOf
<1>6. Len(endpoints[FirstOf(p)].path) \in Nat
  BY <1>1, <1>2, <1>3, FormIs
<1>7. PriorityOf(p) \in {0, 1, 2}
  BY <1>6, PriorityIs, Zenon DEF PriorityOf
<1> QED BY <1>1, <1>2, <1>3, <1>4, <1>5, <1>7

\* Of any patterns there is one before all of them.
LEMMA LeastPattern ==
  ASSUME IsConfiguration(endpoints), NEW P, P \subseteq Patterns, P # {}
  PROVE  \E p \in P : \A q \in P : Before(p, q)
<1>1. \A p \in P : PriorityOf(p) \in Nat /\ FirstOf(p) \in Nat
  <2>1. \A p \in P : PriorityOf(p) \in 0..2 /\ FirstOf(p) \in Nat
    BY FirstIs
  <2> QED BY <2>1
<1>2. PICK m \in P : loaded => \A q \in P : PriorityOf(m) <= PriorityOf(q)
  <2> DEFINE S == {PriorityOf(q) : q \in P}
  <2>1. S \subseteq Nat /\ S # {}
    BY <1>1
  <2>2. PICK x \in S : \A y \in S : x <= y
    <3> HIDE DEF S
    <3> QED BY <2>1, LeastExists
  <2> QED BY <2>2
<1> DEFINE Q == {q \in P : loaded => PriorityOf(q) = PriorityOf(m)}
<1>3. PICK p \in Q : \A q \in Q : FirstOf(p) <= FirstOf(q)
  <2> DEFINE S == {FirstOf(q) : q \in Q}
  <2>1. S \subseteq Nat /\ S # {}
    BY <1>1
  <2>2. PICK x \in S : \A y \in S : x <= y
    <3> HIDE DEF S
    <3> QED BY <2>1, LeastExists
  <2> QED BY <2>2
<1>4. ASSUME NEW q \in P PROVE Before(p, q)
  <2>1. CASE loaded /\ PriorityOf(p) # PriorityOf(q)
    <3>1. PriorityOf(p) = PriorityOf(m) /\ PriorityOf(m) <= PriorityOf(q)
      BY <1>2, <1>3, <2>1
    <3>2. PriorityOf(p) \in Nat /\ PriorityOf(q) \in Nat
      BY <1>1, <1>3
    <3>3. PriorityOf(p) < PriorityOf(q)
      BY <2>1, <3>1, <3>2
    <3> QED BY <2>1, <3>3, Zenon DEF Before
  <2>2. CASE ~(loaded /\ PriorityOf(p) # PriorityOf(q))
    <3>1. q \in Q
      BY <1>3, <2>2
    <3>2. FirstOf(p) <= FirstOf(q)
      BY <1>3, <3>1
    <3> QED BY <2>2, <3>2, Zenon DEF Before
  <2> QED BY <2>1, <2>2
<1> QED BY <1>3, <1>4

LEMMA RouteIs ==
  ASSUME IsConfiguration(endpoints), NEW url, Fitting(url) # {}
  PROVE  /\ Route(url) \in Fitting(url) /\ Route(url) \in Patterns
         /\ FitsPath(Route(url), url)
         /\ \A q \in Fitting(url) : Before(Route(url), q)
<1>1. Fitting(url) \subseteq Patterns /\ \A p \in Fitting(url) : FitsPath(p, url)
  BY DEF Fitting
<1>2. \E p \in Fitting(url) : \A q \in Fitting(url) : Before(p, q)
  BY <1>1, LeastPattern
<1>3. Route(url) \in Fitting(url) /\ \A q \in Fitting(url) : Before(Route(url), q)
  BY <1>2, Zenon DEF Route
<1> QED BY <1>1, <1>3

-----------------------------------------------------------------------------
(***************************************************************************)
(* Static paths.                                                           *)
(***************************************************************************)
LEMMA StaticIs ==
  ASSUME NEW path, IsPath(path)
  PROVE  Static(path) <=> Priority(path) = 0
<1>1. /\ Len(path) \in Nat /\ DOMAIN path = 1..Len(path)
      /\ \A i \in 1..Len(path) : path[i].name # "" => path[i].braces
  BY FormIs
<1>2. CASE \E i \in 1..Len(path) : path[i].braces
  <2>1. Priority(path) \in {1, 2}
    BY <1>1, <1>2, PriorityIs, Zenon
  <2>2. ~Static(path)
    BY <1>1, <1>2, Zenon DEF Static
  <2> QED BY <2>1, <2>2
<1>3. CASE ~\E i \in 1..Len(path) : path[i].braces
  <2>1. Priority(path) = 0
    BY <1>1, <1>3, PriorityIs, Zenon
  <2>2. Static(path)
    BY <1>1, <1>3, Zenon DEF Static
  <2> QED BY <2>1, <2>2
<1> QED BY <1>2, <1>3

LEMMA StaticGoesFirst == IsConfiguration(endpoints) => StaticFirst
<1> SUFFICES ASSUME IsConfiguration(endpoints), loaded, NEW u \in Urls,
                    NEW p \in Fitting(u), Static(endpoints[FirstOf(p)].path)
             PROVE  Static(endpoints[FirstOf(Route(u))].path)
  BY DEF StaticFirst
<1>1. Route(u) \in Patterns /\ Before(Route(u), p) /\ p \in Patterns
  BY RouteIs DEF Fitting
<1>2. \A q \in Patterns : IsPath(endpoints[FirstOf(q)].path) /\ PriorityOf(q) \in 0..2
  BY FirstIs, ConfigurationIs
<1>3. PriorityOf(p) = 0
  BY <1>1, <1>2, StaticIs DEF PriorityOf
<1>4. PriorityOf(Route(u)) = 0
  <2>1. PriorityOf(Route(u)) \in 0..2
    BY <1>1, <1>2
  <2>2. ~(PriorityOf(Route(u)) < PriorityOf(p))
    BY <1>3, <2>1
  <2>3. PriorityOf(Route(u)) = PriorityOf(p)
    BY <1>1, <2>2, Zenon DEF Before
  <2> QED BY <1>3, <2>3
<1> QED BY <1>1, <1>2, <1>4, StaticIs DEF PriorityOf
-----------------------------------------------------------------------------
(***************************************************************************)
(* Documents: the operations of a path, one for each of its methods.       *)
(***************************************************************************)
LEMMA IncreasingIs ==
  ASSUME NEW S, S \subseteq Nat, IsFiniteSet(S)
  PROVE  /\ Cardinality(S) \in Nat
         /\ Increasing(S) \in [1..Cardinality(S) -> S]
         /\ \A x \in S : \E n \in 1..Cardinality(S) : Increasing(S)[n] = x
         /\ \A m, n \in 1..Cardinality(S) : m < n => Increasing(S)[m] < Increasing(S)[n]
<1> DEFINE R == {e \in S \X S : e[1] < e[2]}
<1>1. Orders(R, S)
  BY DEF Orders
<1>2. Increasing(S) = InOrder(S, R)
  BY Zenon DEF Increasing
<1>3. \A x, y : <<x, y>> \in R => x < y
  OBVIOUS
<1> HIDE DEF R
<1>4. /\ Cardinality(S) \in Nat
      /\ InOrder(S, R) \in [1..Cardinality(S) -> S]
      /\ \A x \in S : \E n \in 1..Cardinality(S) : InOrder(S, R)[n] = x
      /\ \A m, n \in 1..Cardinality(S) : m < n => <<InOrder(S, R)[m], InOrder(S, R)[n]>> \in R
  BY <1>1, InOrderIs
<1>5. \A m, n \in 1..Cardinality(S) : m < n => InOrder(S, R)[m] < InOrder(S, R)[n]
  BY <1>3, <1>4
<1> QED BY <1>2, <1>4, <1>5, Zenon

FirstsOf(p) ==
  {i \in Of(p) : \A j \in Of(p) : endpoints[j].method = endpoints[i].method => i <= j}

LEMMA FirstMethodsAre ==
  ASSUME IsConfiguration(endpoints), NEW p \in Patterns
  PROVE  /\ Cardinality(FirstsOf(p)) \in Nat
         /\ FirstOfMethods(p) \in [1..Cardinality(FirstsOf(p)) -> FirstsOf(p)]
         /\ \A x \in FirstsOf(p) : \E n \in 1..Cardinality(FirstsOf(p)) : FirstOfMethods(p)[n] = x
         /\ \A m, n \in 1..Cardinality(FirstsOf(p)) :
              m < n => FirstOfMethods(p)[m] < FirstOfMethods(p)[n]
<1>1. FirstsOf(p) \subseteq 1..Len(endpoints) /\ Len(endpoints) \in Nat
  BY FirstIs DEF FirstsOf
<1>2. FirstsOf(p) \subseteq Nat /\ IsFiniteSet(FirstsOf(p))
  <2>1. IsFiniteSet(1..Len(endpoints)) /\ FirstsOf(p) \in SUBSET (1..Len(endpoints))
    BY <1>1, FS_Interval
  <2>2. IsFiniteSet(FirstsOf(p))
    BY <2>1, FS_Subset
  <2> QED BY <1>1, <2>2
<1>3. FirstOfMethods(p) = Increasing(FirstsOf(p))
  BY Zenon DEF FirstOfMethods, FirstsOf
<1> QED BY <1>2, <1>3, IncreasingIs, Zenon

LEMMA OperationsAre ==
  ASSUME IsConfiguration(endpoints), NEW p \in Patterns
  PROVE  LET first == FirstOfMethods(p) IN
         /\ DOMAIN Operations(p) = 1..Cardinality(FirstsOf(p))
         /\ \A k \in 1..Cardinality(FirstsOf(p)) :
              /\ Operations(p)[k] =
                   [method |-> endpoints[first[k]].method,
                    headers |-> DOMAIN endpoints[first[k]].headers,
                    query |-> UNION {DOMAIN endpoints[first[j]].query : j \in 1..k},
                    response |-> Described(endpoints[first[k]].response)]
<1>1. DOMAIN FirstOfMethods(p) = 1..Cardinality(FirstsOf(p))
  BY FirstMethodsAre
<1> QED BY <1>1, Zenon DEF Operations

LEMMA DocumentIs ==
  ASSUME IsConfiguration(endpoints),
         NEW p \in Patterns, \A q \in Patterns : FormOf(q) = FormOf(p) => q = p
  PROVE  FormOf(p) \in DOMAIN Document /\ Document[FormOf(p)] = Operations(p)
<1> DEFINE alike == {q \in Patterns : FormOf(q) = FormOf(p)}
           last == CHOOSE q \in alike : \A r \in alike : Before(r, q)
<1>1. alike = {p}
  OBVIOUS
<1>2. Before(p, p)
  <2>1. FirstOf(p) \in Nat
    BY FirstIs
  <2>2. FirstOf(p) <= FirstOf(p)
    BY <2>1
  <2> QED BY <2>2, Zenon DEF Before
<1>3. FormOf(p) \in DOMAIN Document /\ Document[FormOf(p)] = Operations(last)
  BY Zenon DEF Document
<1>4. last = p
  <2>1. \E q \in alike : \A r \in alike : Before(r, q)
    BY <1>1, <1>2
  <2>2. last \in alike
    <3> HIDE DEF alike
    <3> QED BY <2>1
  <2> QED BY <1>1, <2>2
<1> QED BY <1>3, <1>4

LEMMA AllDocumented == IsConfiguration(endpoints) => Documented
<1> SUFFICES ASSUME IsConfiguration(endpoints), NEW u \in Urls, Fitting(u) # {}
             PROVE  LET p == Route(u)
                        f == FormOf(p)
                    IN  /\ f \in DOMAIN Document /\ FitsForm(f, u)
                        /\ (\A q \in Patterns : FormOf(q) = f => q = p) =>
                             \A i \in Of(p) : \E k \in DOMAIN Document[f] :
                               /\ Document[f][k].method = endpoints[i].method
                               /\ (\A j \in Of(p) : j < i => endpoints[j].method # endpoints[i].method)
                                    => DOMAIN endpoints[i].query \subseteq Document[f][k].query
  BY Zenon DEF Documented
<1> DEFINE p == Route(u)
           path == endpoints[FirstOf(p)].path
<1>1. p \in Patterns /\ FitsPath(p, u)
  BY RouteIs
<1> HIDE DEF p
<1>2. p = Pattern(path) /\ IsPath(path)
  BY <1>1, FirstIs, ConfigurationIs
<1>3. FormOf(p) = Form(path)
  BY DEF FormOf
<1>4. FormOf(p) \in DOMAIN Document
  BY <1>1 DEF Document
<1>5. FitsForm(FormOf(p), u)
  <2> HIDE DEF path
  <2>1. /\ Len(Form(path)) = Len(path) /\ DOMAIN Form(path) = 1..Len(path)
        /\ Len(p) = Len(path) /\ DOMAIN p = 1..Len(path)
        /\ \A i \in 1..Len(path) :
             Form(path)[i].param \/ Form(path)[i].is = p[i]
    <3>1. /\ Len(Form(path)) = Len(path) /\ DOMAIN Form(path) = 1..Len(path)
          /\ Len(Pattern(path)) = Len(path) /\ DOMAIN Pattern(path) = 1..Len(path)
          /\ \A i \in 1..Len(path) :
               /\ Form(path)[i].param = path[i].braces
               /\ ~path[i].braces => Form(path)[i].is = path[i].compiled
               /\ Pattern(path)[i] = path[i].compiled
      BY <1>2, FormIs, Zenon
    <3> QED BY <1>2, <3>1, Zenon
  <2>2. Len(p) = Len(u) /\ \A i \in DOMAIN u : FitsSegment(p[i], u[i])
    BY <1>1 DEF FitsPath
  <2> QED BY <1>3, <2>1, <2>2 DEF FitsForm
<1>6. ASSUME \A q \in Patterns : FormOf(q) = FormOf(p) => q = p, NEW i \in Of(p)
      PROVE  \E k \in DOMAIN Document[FormOf(p)] :
               /\ Document[FormOf(p)][k].method = endpoints[i].method
               /\ (\A j \in Of(p) : j < i => endpoints[j].method # endpoints[i].method)
                    => DOMAIN endpoints[i].query \subseteq Document[FormOf(p)][k].query
  <2> DEFINE S == {m \in Of(p) : endpoints[m].method = endpoints[i].method}
             first == FirstOfMethods(p)
             n == Cardinality(FirstsOf(p))
  <2>1. Of(p) \subseteq Nat
    <3>1. Of(p) \subseteq 1..Len(endpoints) /\ Len(endpoints) \in Nat
      BY <1>1, FirstIs
    <3> QED BY <3>1
  <2>2. PICK m \in S : \A j \in S : m <= j
    <3>1. S \subseteq Nat /\ S # {}
      BY <1>6, <2>1
    <3> HIDE DEF S
    <3> QED BY <3>1, LeastExists
  <2>3. m \in FirstsOf(p) /\ m <= i /\ m \in Nat /\ i \in Nat
    BY <1>6, <2>1, <2>2 DEF FirstsOf
  <2>4. PICK k \in 1..n : first[k] = m /\ n \in Nat
    BY <1>1, <2>3, FirstMethodsAre
  <2>5. /\ Document[FormOf(p)] = Operations(p)
        /\ DOMAIN Operations(p) = 1..n
    BY <1>1, <1>6, DocumentIs, OperationsAre
  <2>6. /\ Operations(p)[k].method = endpoints[m].method
        /\ Operations(p)[k].query = UNION {DOMAIN endpoints[first[j]].query : j \in 1..k}
    <3> DEFINE o == Operations(p)[k]
    <3>1. o = [method |-> endpoints[first[k]].method,
               headers |-> DOMAIN endpoints[first[k]].headers,
               query |-> UNION {DOMAIN endpoints[first[j]].query : j \in 1..k},
               response |-> Described(endpoints[first[k]].response)]
      BY <1>1, OperationsAre, Zenon
    <3> HIDE DEF o, first
    <3>2. o.method = endpoints[first[k]].method
          /\ o.query = UNION {DOMAIN endpoints[first[j]].query : j \in 1..k}
      BY <3>1
    <3> QED BY <2>4, <3>2 DEF o
  <2>7. ASSUME \A j \in Of(p) : j < i => endpoints[j].method # endpoints[i].method
        PROVE  DOMAIN endpoints[i].query \subseteq Operations(p)[k].query
    <3>1. m = i
      BY <2>1, <2>2, <2>3, <2>7
    <3>2. k \in 1..k
      BY <2>4
    <3> QED BY <2>4, <2>6, <3>1, <3>2
  <2>8. endpoints[m].method = endpoints[i].method
    BY <2>2
  <2> QED BY <2>4, <2>5, <2>6, <2>7, <2>8, Zenon
<1> QED BY <1>4, <1>5, <1>6 DEF p
-----------------------------------------------------------------------------
(***************************************************************************)
(* The paths of a document in their order.                                 *)
(***************************************************************************)
LEMMA RankIs ==
  ASSUME NEW f \in Seq(DOMAIN Rank)
  PROVE  /\ Len(f) \in Nat /\ DOMAIN f = 1..Len(f)
         /\ \A i \in 1..Len(f) : f[i] \in DOMAIN Rank /\ Rank[f[i]] \in Nat
<1>1. Len(f) \in Nat /\ DOMAIN f = 1..Len(f) /\ \A i \in 1..Len(f) : f[i] \in DOMAIN Rank
  OBVIOUS
<1>2. \A s \in DOMAIN Rank : Rank[s] \in Nat
  BY DocumentsAssumption, Zenon
<1> QED BY <1>1, <1>2

LEMMA SoonerTotal ==
  ASSUME NEW f \in Seq(DOMAIN Rank), NEW g \in Seq(DOMAIN Rank), f # g
  PROVE  Sooner(f, g) \/ Sooner(g, f)
<1> DEFINE Differ == {i \in DOMAIN f \cap DOMAIN g : f[i] # g[i]}
<1>1. PICK a \in Nat, b \in Nat : /\ a = Len(f) /\ b = Len(g) /\ DOMAIN f = 1..a /\ DOMAIN g = 1..b
                                  /\ f = [i \in 1..a |-> f[i]] /\ g = [i \in 1..b |-> g[i]]
  OBVIOUS
<1>2. CASE Differ # {}
  <2>1. Differ \subseteq Nat
    BY <1>1
  <2>2. PICK i \in Differ : \A j \in Differ : i <= j
    <3> HIDE DEF Differ
    <3> QED BY <1>2, <2>1, LeastExists
  <2>3. i \in 1..a /\ i \in 1..b /\ f[i] # g[i]
    BY <1>1, <2>2
  <2>4. ASSUME NEW j \in 1..(i - 1) PROVE f[j] = g[j]
    <3>1. j \in 1..a /\ j \in 1..b /\ ~(i <= j)
      BY <2>3
    <3>2. j \in DOMAIN f /\ j \in DOMAIN g
      BY <1>1, <3>1
    <3> QED BY <2>2, <3>1, <3>2, Zenon
  <2>5. Rank[f[i]] \in Nat /\ Rank[g[i]] \in Nat /\ f[i] \in DOMAIN Rank /\ g[i] \in DOMAIN Rank
    BY <1>1, <2>3, RankIs
  <2>6. Rank[f[i]] # Rank[g[i]]
    BY <2>3, <2>5, DocumentsAssumption, Zenon
  <2>7. Rank[f[i]] < Rank[g[i]] \/ Rank[g[i]] < Rank[f[i]]
    BY <2>5, <2>6
  <2>8. i \in DOMAIN f \cap DOMAIN g /\ i \in DOMAIN g \cap DOMAIN f
    BY <2>2
  <2> QED BY <2>4, <2>7, <2>8, Zenon DEF Sooner
<1>3. CASE Differ = {}
  <2>1. CASE a < b
    <3>1. \A i \in DOMAIN f : f[i] = g[i]
      <4>1. \A i \in DOMAIN f : i \in DOMAIN g
        BY <1>1, <2>1
      <4> QED BY <1>3, <4>1, Zenon
    <3> QED BY <1>1, <2>1, <3>1, Zenon DEF Sooner
  <2>2. CASE b < a
    <3>1. \A i \in DOMAIN g : g[i] = f[i]
      <4>1. \A i \in DOMAIN g : i \in DOMAIN f
        BY <1>1, <2>2
      <4> QED BY <1>3, <4>1, Zenon
    <3> QED BY <1>1, <2>2, <3>1, Zenon DEF Sooner
  <2>3. CASE a = b
    <3>1. \A i \in 1..a : f[i] = g[i]
      BY <1>1, <1>3, <2>3
    <3>2. f = g
      BY <1>1, <2>3, <3>1, Zenon
    <3> QED BY <3>2
  <2> QED BY <1>1, <2>1, <2>2, <2>3
<1> QED BY <1>2, <1>3

LEMMA SoonerTransitive ==
  ASSUME NEW f \in Seq(DOMAIN Rank), NEW g \in Seq(DOMAIN Rank), NEW h \in Seq(DOMAIN Rank),
         Sooner(f, g), Sooner(g, h)
  PROVE  Sooner(f, h)
<1> DEFINE At(x, y, i) == Rank[x[i]] < Rank[y[i]] /\ \A j \in 1..(i - 1) : x[j] = y[j]
<1>1. PICK a \in Nat, b \in Nat, c \in Nat :
        /\ a = Len(f) /\ b = Len(g) /\ c = Len(h)
        /\ DOMAIN f = 1..a /\ DOMAIN g = 1..b /\ DOMAIN h = 1..c
  OBVIOUS
<1>2. /\ \A i \in 1..a : Rank[f[i]] \in Nat
      /\ \A i \in 1..b : Rank[g[i]] \in Nat
      /\ \A i \in 1..c : Rank[h[i]] \in Nat
  BY <1>1, RankIs
<1>3. ASSUME NEW i \in 1..a, i \in 1..c, At(f, h, i) PROVE Sooner(f, h)
  <2>1. i \in DOMAIN f \cap DOMAIN h
    BY <1>1, <1>3
  <2> QED BY <1>3, <2>1, Zenon DEF Sooner
<1>4. ASSUME a < c, \A i \in 1..a : f[i] = h[i] PROVE Sooner(f, h)
  BY <1>1, <1>4, Zenon DEF Sooner
<1>5. \/ \E i \in 1..a : i \in 1..b /\ At(f, g, i)
      \/ a < b /\ \A i \in 1..a : f[i] = g[i]
  BY <1>1 DEF Sooner
<1>6. \/ \E i \in 1..b : i \in 1..c /\ At(g, h, i)
      \/ b < c /\ \A i \in 1..b : g[i] = h[i]
  BY <1>1 DEF Sooner
<1>7. ASSUME NEW i \in 1..a, i \in 1..b, At(f, g, i), NEW k \in 1..b, k \in 1..c, At(g, h, k)
      PROVE  Sooner(f, h)
  <2>1. CASE i < k
    <3>1. i \in 1..c /\ i \in 1..(k - 1) /\ \A j \in 1..(i - 1) : j \in 1..(k - 1)
      BY <1>7, <2>1
    <3>2. Rank[f[i]] < Rank[h[i]]
      BY <1>7, <3>1
    <3>3. \A j \in 1..(i - 1) : f[j] = h[j]
      BY <1>7, <3>1
    <3> QED BY <1>3, <3>1, <3>2, <3>3
  <2>2. CASE i = k
    <3>1. Rank[f[i]] < Rank[h[i]]
      BY <1>2, <1>7, <2>2
    <3>2. At(f, h, i)
      BY <1>7, <2>2, <3>1
    <3> QED BY <1>3, <1>7, <2>2, <3>2
  <2>3. CASE k < i
    <3>1. k \in 1..a /\ k \in 1..(i - 1) /\ \A j \in 1..(k - 1) : j \in 1..(i - 1)
      BY <1>7, <2>3
    <3>2. Rank[f[k]] < Rank[h[k]]
      BY <1>7, <3>1
    <3>3. \A j \in 1..(k - 1) : f[j] = h[j]
      BY <1>7, <3>1
    <3> QED BY <1>3, <1>7, <3>1, <3>2, <3>3
  <2> QED BY <2>1, <2>2, <2>3
<1>8. ASSUME NEW i \in 1..a, i \in 1..b, At(f, g, i), b < c, \A j \in 1..b : g[j] = h[j]
      PROVE  Sooner(f, h)
  <2>1. i \in 1..c /\ \A j \in 1..(i - 1) : j \in 1..b
    BY <1>8
  <2>2. At(f, h, i)
    BY <1>8, <2>1
  <2> QED BY <1>3, <2>1, <2>2
<1>9. ASSUME a < b, \A j \in 1..a : f[j] = g[j], NEW k \in 1..b, k \in 1..c, At(g, h, k)
      PROVE  Sooner(f, h)
  <2>1. CASE k \in 1..a
    <3>1. \A j \in 1..(k - 1) : j \in 1..a
      BY <2>1
    <3>2. At(f, h, k)
      BY <1>9, <2>1, <3>1
    <3> QED BY <1>3, <1>9, <2>1, <3>2
  <2>2. CASE k \notin 1..a
    <3>1. a < c /\ \A j \in 1..a : j \in 1..(k - 1)
      BY <1>9, <2>2
    <3> QED BY <1>4, <1>9, <3>1
  <2> QED BY <2>1, <2>2
<1>10. ASSUME a < b, \A j \in 1..a : f[j] = g[j], b < c, \A j \in 1..b : g[j] = h[j]
       PROVE  Sooner(f, h)
  <2>1. a < c /\ \A j \in 1..a : j \in 1..b
    BY <1>10
  <2> QED BY <1>4, <1>10, <2>1
<1> HIDE DEF At
<1> QED BY <1>5, <1>6, <1>7, <1>8, <1>9, <1>10

LEMMA SoonerStrict ==
  ASSUME NEW f \in Seq(DOMAIN Rank)
  PROVE  ~Sooner(f, f)
<1>1. \A i \in DOMAIN f : ~(Rank[f[i]] < Rank[f[i]])
  <2>1. \A i \in DOMAIN f : Rank[f[i]] \in Nat
    BY RankIs
  <2> QED BY <2>1
<1>2. ~(Len(f) < Len(f))
  OBVIOUS
<1> QED BY <1>1, <1>2 DEF Sooner

LEMMA SortedIs ==
  ASSUME NEW F, IsFiniteSet(F), F \subseteq Seq(DOMAIN Rank)
  PROVE  /\ Cardinality(F) \in Nat
         /\ Sorted(F) \in [1..Cardinality(F) -> F]
         /\ \A f \in F : \E n \in 1..Cardinality(F) : Sorted(F)[n] = f
         /\ \A m, n \in 1..Cardinality(F) : Sorted(F)[m] = Sorted(F)[n] => m = n
<1> DEFINE R == {e \in F \X F : Sooner(e[1], e[2])}
           q == InOrder(F, R)
<1>1. \A x, y \in F : <<x, y>> \in R <=> Sooner(x, y)
  OBVIOUS
<1>2. \A x \in F : x \in Seq(DOMAIN Rank)
  OBVIOUS
<1>3. Sorted(F) = q
  BY Zenon DEF Sorted
<1> HIDE DEF R
<1>4. Orders(R, F)
  <2>1. \A x \in F : <<x, x>> \notin R
    BY <1>1, <1>2, SoonerStrict, Zenon
  <2>2. \A x, y \in F : x # y => <<x, y>> \in R \/ <<y, x>> \in R
    BY <1>1, <1>2, SoonerTotal, Zenon
  <2>3. \A x, y, z \in F : <<x, y>> \in R /\ <<y, z>> \in R => <<x, z>> \in R
    BY <1>1, <1>2, SoonerTransitive, Zenon
  <2> QED BY <2>1, <2>2, <2>3, Zenon DEF Orders
<1>5. /\ Cardinality(F) \in Nat /\ q \in [1..Cardinality(F) -> F]
      /\ \A x \in F : \E n \in 1..Cardinality(F) : q[n] = x
      /\ \A m, n \in 1..Cardinality(F) : m < n => <<q[m], q[n]>> \in R
  BY <1>4, InOrderIs
<1> HIDE DEF q
<1>6. ASSUME NEW m \in 1..Cardinality(F), NEW n \in 1..Cardinality(F), q[m] = q[n]
      PROVE  m = n
  <2>1. q[m] \in F /\ <<q[m], q[m]>> \notin R
    BY <1>4, <1>5 DEF Orders
  <2>2. ~(m < n) /\ ~(n < m)
    BY <1>5, <1>6, <2>1
  <2> QED BY <1>5, <2>2
<1> QED BY <1>3, <1>5, <1>6
-----------------------------------------------------------------------------
(***************************************************************************)
(* What documents look like: of finitely many paths, each with operations  *)
(* of different methods whose query strings ask for more and more.         *)
(***************************************************************************)
GoodOperations(ops) ==
  \E n \in Nat \ {0} :
    /\ DOMAIN ops = 1..n
    /\ \A k \in 1..n :
         /\ ops[k] = [method |-> ops[k].method, headers |-> ops[k].headers,
                      query |-> ops[k].query, response |-> ops[k].response]
         /\ ops[k].query = UNION {ops[j].query : j \in 1..k}
    /\ \A j, k \in 1..n : j # k => ops[j].method # ops[k].method
    /\ ops = [k \in 1..n |-> ops[k]]
GoodDocument(d) ==
  /\ IsFiniteSet(DOMAIN d) /\ DOMAIN d \subseteq Seq(DOMAIN Rank)
  /\ d = [f \in DOMAIN d |-> d[f]]
  /\ \A f \in DOMAIN d : GoodOperations(d[f])

LEMMA GreatestExists ==
  ASSUME NEW S, S # {}, NEW N \in Nat, S \subseteq 0..N
  PROVE  \E x \in S : \A y \in S : y <= x
<1> DEFINE T == {N - x : x \in S}
<1>1. T \subseteq Nat /\ T # {}
  <2>1. \A x \in S : x \in 0..N /\ N - x \in Nat
    OBVIOUS
  <2> QED BY <2>1
<1>2. PICK t \in T : \A u \in T : t <= u
  <2> HIDE DEF T
  <2> QED BY <1>1, LeastExists
<1>3. PICK x \in S : t = N - x
  BY <1>2
<1>4. ASSUME NEW y \in S PROVE y <= x
  <2>1. N - y \in T
    OBVIOUS
  <2>2. N - x <= N - y
    BY <1>2, <1>3, <2>1
  <2>3. x \in Int /\ y \in Int
    OBVIOUS
  <2> QED BY <2>2, <2>3
<1> QED BY <1>4

LEMMA GreatestPattern ==
  ASSUME IsConfiguration(endpoints), NEW P, P \subseteq Patterns, P # {}
  PROVE  \E p \in P : \A q \in P : Before(q, p)
<1>1. Len(endpoints) \in Nat
      /\ \A p \in P : PriorityOf(p) \in 0..2 /\ FirstOf(p) \in 0..Len(endpoints)
  <2>1. Len(endpoints) \in Nat
    BY ConfigurationIs
  <2>2. \A p \in P : PriorityOf(p) \in 0..2 /\ FirstOf(p) \in 1..Len(endpoints)
    BY FirstIs
  <2> QED BY <2>1, <2>2
<1>2. PICK m \in P : loaded => \A q \in P : PriorityOf(q) <= PriorityOf(m)
  <2> DEFINE S == {PriorityOf(q) : q \in P}
  <2>1. S \subseteq 0..2 /\ S # {} /\ 2 \in Nat
    BY <1>1
  <2>2. PICK x \in S : \A y \in S : y <= x
    <3> HIDE DEF S
    <3> QED BY <2>1, GreatestExists
  <2> QED BY <2>2
<1> DEFINE Q == {q \in P : loaded => PriorityOf(q) = PriorityOf(m)}
<1>3. PICK p \in Q : \A q \in Q : FirstOf(q) <= FirstOf(p)
  <2> DEFINE S == {FirstOf(q) : q \in Q}
  <2>1. S \subseteq 0..Len(endpoints) /\ S # {}
    BY <1>1
  <2>2. PICK x \in S : \A y \in S : y <= x
    <3> HIDE DEF S
    <3> QED BY <1>1, <2>1, GreatestExists
  <2> QED BY <2>2
<1>4. ASSUME NEW q \in P PROVE Before(q, p)
  <2>1. CASE loaded /\ PriorityOf(q) # PriorityOf(p)
    <3>1. PriorityOf(p) = PriorityOf(m) /\ PriorityOf(q) <= PriorityOf(m)
      BY <1>2, <1>3, <2>1
    <3>2. PriorityOf(p) \in Nat /\ PriorityOf(q) \in Nat
      <4>1. PriorityOf(p) \in 0..2 /\ PriorityOf(q) \in 0..2
        BY <1>1, <1>3
      <4> QED BY <4>1
    <3>3. PriorityOf(q) < PriorityOf(p)
      BY <2>1, <3>1, <3>2
    <3> QED BY <2>1, <3>3, Zenon DEF Before
  <2>2. CASE ~(loaded /\ PriorityOf(q) # PriorityOf(p))
    <3>1. q \in Q
      BY <1>3, <2>2
    <3>2. FirstOf(q) <= FirstOf(p)
      BY <1>3, <3>1
    <3> QED BY <2>2, <3>2, Zenon DEF Before
  <2> QED BY <2>1, <2>2
<1> QED BY <1>3, <1>4

LEMMA OperationsGood ==
  ASSUME IsConfiguration(endpoints), NEW p \in Patterns
  PROVE  GoodOperations(Operations(p))
<1> DEFINE n == Cardinality(FirstsOf(p))
           first == FirstOfMethods(p)
           ops == Operations(p)
           e(k) == endpoints[first[k]]
<1>1. /\ n \in Nat /\ first \in [1..n -> FirstsOf(p)]
      /\ \A x \in FirstsOf(p) : \E k \in 1..n : first[k] = x
      /\ \A j, k \in 1..n : j < k => first[j] < first[k]
  BY FirstMethodsAre
<1>2. FirstOf(p) \in FirstsOf(p) /\ FirstsOf(p) \subseteq Nat
  <2>1. FirstOf(p) \in Of(p) /\ \A i \in Of(p) : FirstOf(p) <= i
    BY FirstIs
  <2>2. Of(p) \subseteq 1..Len(endpoints) /\ Len(endpoints) \in Nat
    BY FirstIs
  <2> QED BY <2>1, <2>2 DEF FirstsOf
<1>3. n # 0
  BY <1>1, <1>2
<1>4. DOMAIN ops = 1..n
      /\ \A k \in 1..n :
           ops[k] = [method |-> e(k).method, headers |-> DOMAIN e(k).headers,
                     query |-> UNION {DOMAIN e(j).query : j \in 1..k},
                     response |-> Described(e(k).response)]
  BY OperationsAre, Zenon
<1>5. ops = [k \in 1..n |-> ops[k]]
  BY <1>1 DEF Operations
<1> HIDE DEF ops, n, first
<1>6. \A k \in 1..n : /\ ops[k].method = e(k).method
                      /\ ops[k].headers = DOMAIN e(k).headers
                      /\ ops[k].query = UNION {DOMAIN e(j).query : j \in 1..k}
                      /\ ops[k].response = Described(e(k).response)
  <2> SUFFICES ASSUME NEW k \in 1..n
               PROVE  /\ ops[k].method = e(k).method
                      /\ ops[k].headers = DOMAIN e(k).headers
                      /\ ops[k].query = UNION {DOMAIN e(j).query : j \in 1..k}
                      /\ ops[k].response = Described(e(k).response)
    OBVIOUS
  <2>1. PICK a, b, c, d :
          /\ a = e(k).method /\ b = DOMAIN e(k).headers
          /\ c = UNION {DOMAIN e(j).query : j \in 1..k} /\ d = Described(e(k).response)
    OBVIOUS
  <2>2. ops[k] = [method |-> a, headers |-> b, query |-> c, response |-> d]
    BY <1>4, <2>1, Zenon
  <2>3. ops[k].method = a /\ ops[k].headers = b /\ ops[k].query = c /\ ops[k].response = d
    BY <2>2
  <2> QED BY <2>1, <2>3, Zenon
<1>7. ASSUME NEW j \in 1..n, NEW k \in 1..n, j # k PROVE ops[j].method # ops[k].method
  <2>1. first[j] \in FirstsOf(p) /\ first[k] \in FirstsOf(p)
        /\ first[j] \in Nat /\ first[k] \in Nat
    BY <1>1, <1>2
  <2>2. first[j] < first[k] \/ first[k] < first[j]
    <3>1. j < k \/ k < j
      BY <1>1, <1>7
    <3> QED BY <1>1, <3>1
  <2>3. e(j).method = e(k).method => first[j] <= first[k] /\ first[k] <= first[j]
    BY <2>1, Zenon DEF FirstsOf
  <2>4. e(j).method # e(k).method
    BY <2>1, <2>2, <2>3
  <2> QED BY <1>6, <2>4, Zenon
<1>8. ASSUME NEW k \in 1..n PROVE ops[k].query = UNION {ops[j].query : j \in 1..k}
  <2>1. \A j \in 1..k : j \in 1..n /\ k \in 1..k /\ \A i \in 1..j : i \in 1..k
    BY <1>1
  <2> DEFINE q(j) == DOMAIN e(j).query
  <2>2. \A j \in 1..k : ops[j].query = UNION {q(i) : i \in 1..j}
    BY <1>6, <2>1, Zenon
  <2>3. k \in 1..k
    BY <1>1
  <2>4. ops[k].query = UNION {q(i) : i \in 1..k}
    BY <2>2, <2>3, Zenon
  <2> HIDE DEF q
  <2> QED BY <2>1, <2>2, <2>3, <2>4
<1>9. ASSUME NEW k \in 1..n
      PROVE  ops[k] = [method |-> ops[k].method, headers |-> ops[k].headers,
                       query |-> ops[k].query, response |-> ops[k].response]
  BY <1>4, <1>6, Zenon
<1>11. GoodOperations(ops)
  <2>1. n \in Nat \ {0}
    BY <1>1, <1>3
  <2> QED BY <1>4, <1>5, <1>7, <1>8, <1>9, <2>1, Zenon DEF GoodOperations
<1> QED BY <1>11 DEF ops

LEMMA DocumentGood == IsConfiguration(endpoints) => GoodDocument(Document)
<1> SUFFICES ASSUME IsConfiguration(endpoints) PROVE GoodDocument(Document)
  OBVIOUS
<1> DEFINE alike(f) == {p \in Patterns : FormOf(p) = f}
           last(f) == CHOOSE p \in alike(f) : \A q \in alike(f) : Before(q, p)
<1>1. /\ DOMAIN Document = {FormOf(p) : p \in Patterns}
      /\ \A f \in DOMAIN Document : Document[f] = Operations(last(f))
      /\ Document = [f \in DOMAIN Document |-> Document[f]]
  <2>1. Document = [f \in {FormOf(p) : p \in Patterns} |-> Operations(last(f))]
    BY DEF Document
  <2>2. DOMAIN Document = {FormOf(p) : p \in Patterns}
    BY <2>1
  <2>3. \A f \in DOMAIN Document : Document[f] = Operations(last(f))
    <3> HIDE DEF last
    <3> QED BY <2>1
  <2>4. Document = [f \in DOMAIN Document |-> Document[f]]
    <3> HIDE DEF last
    <3> QED BY <2>1
  <2> QED BY <2>2, <2>3, <2>4
<1>2. IsFiniteSet(DOMAIN Document)
  <2>1. Len(endpoints) \in Nat /\ DOMAIN endpoints = 1..Len(endpoints)
    BY ConfigurationIs
  <2> DEFINE N == Len(endpoints)
             T == {FormOf(PatternOf(i)) : i \in 1..N}
  <2>2. IsFiniteSet(1..N)
    BY <2>1, FS_Interval
  <2>3. IsFiniteSet(T)
    <3> DEFINE F == [i \in 1..N |-> FormOf(PatternOf(i))]
    <3>1. F \in Surjection(1..N, T)
      BY DEF Surjection
    <3> HIDE DEF N, F, T
    <3> QED BY <2>2, <3>1, FS_Surjection
  <2>4. DOMAIN Document = T
    BY <1>1, <2>1 DEF Patterns
  <2> QED BY <2>3, <2>4
<1>3. DOMAIN Document \subseteq Seq(DOMAIN Rank)
  <2>1. \A p \in Patterns : FormOf(p) \in Seq(DOMAIN Rank)
    <3> SUFFICES ASSUME NEW p \in Patterns PROVE FormOf(p) \in Seq(DOMAIN Rank)
      OBVIOUS
    <3>1. IsPath(endpoints[FirstOf(p)].path)
      BY FirstIs, ConfigurationIs
    <3> QED BY <3>1, FormIs DEF FormOf
  <2> QED BY <1>1, <2>1
<1>4. ASSUME NEW f \in DOMAIN Document PROVE GoodOperations(Document[f])
  <2>1. alike(f) \subseteq Patterns /\ alike(f) # {}
    BY <1>1
  <2>2. \E p \in alike(f) : \A q \in alike(f) : Before(q, p)
    <3> HIDE DEF alike
    <3> QED BY <2>1, GreatestPattern
  <2>3. last(f) \in alike(f)
    <3> HIDE DEF alike
    <3> QED BY <2>2
  <2>4. last(f) \in Patterns
    BY <2>1, <2>3
  <2> HIDE DEF last
  <2> QED BY <1>1, <2>4, OperationsGood
<1> QED BY <1>1, <1>2, <1>3, <1>4, Zenon DEF GoodDocument
-----------------------------------------------------------------------------
(***************************************************************************)
(* What services are made of: documents, and prototypes.                   *)
(***************************************************************************)
LEMMA ConfigurationFrom ==
  ASSUME NEW S, NEW c \in Seq(S), \A e \in S : IsPath(e.path)
  PROVE  IsConfiguration(c)
<1>1. c \in Seq(Range(c))
  <2>1. /\ Len(c) \in Nat /\ DOMAIN c = 1..Len(c) /\ c = [i \in 1..Len(c) |-> c[i]]
    OBVIOUS
  <2>2. \A i \in 1..Len(c) : c[i] \in Range(c)
    BY <2>1 DEF Range
  <2> HIDE DEF Range
  <2> QED BY <2>1, <2>2
<1>2. \A i \in DOMAIN c : IsPath(c[i].path)
  OBVIOUS
<1> QED BY <1>1, <1>2 DEF IsConfiguration

Flattened(c, q) ==
  \E at :
    /\ \A k \in 1..Len(q) :
         /\ at[k] \in Nat
         /\ \A i \in 1..Len(q[k]) : at[k] + i \in 1..Len(c) /\ c[at[k] + i] = q[k][i]
    /\ \A j \in 1..Len(c) : \E k \in 1..Len(q) : \E i \in 1..Len(q[k]) : j = at[k] + i

LEMMA FlattenIs ==
  ASSUME NEW S, NEW q \in Seq(Seq(S))
  PROVE  FlattenSeq(q) \in Seq(S) /\ Flattened(FlattenSeq(q), q)
<1>0. PICK c : c = FlattenSeq(q)
  OBVIOUS
<1>1. c \in Seq(S) /\ Places(c, q)
  BY <1>0, FlattenPlaces
<1>2. PICK at \in [1..Len(q) + 1 -> Nat] :
        /\ Starts(at, q) /\ Len(c) = at[Len(q) + 1]
        /\ \A k \in 1..Len(q) : \A i \in 1..Len(q[k]) :
             at[k] + i \in 1..Len(c) /\ c[at[k] + i] = q[k][i]
  BY <1>1 DEF Places
<1>3. PICK n \in Nat : n = Len(q)
  OBVIOUS
<1>4. /\ c \in Seq(S) /\ Len(c) = at[n + 1]
      /\ \A k \in 1..n : \A i \in 1..Len(q[k]) : at[k] + i \in 1..Len(c) /\ c[at[k] + i] = q[k][i]
  BY <1>1, <1>2, <1>3
<1>5. /\ \A m \in 1..(n + 1) : at[m] \in Nat
      /\ at[1] = 0 /\ \A k \in 1..n : at[k + 1] = at[k] + Len(q[k])
  BY <1>2, <1>3 DEF Starts
<1>6. \A k \in 1..n : Len(q[k]) \in Nat
  <2>1. \A k \in 1..n : q[k] \in Seq(S)
    BY <1>3
  <2> QED BY <2>1
<1>7. ASSUME NEW j \in 1..Len(c)
      PROVE  \E k \in 1..n : \E i \in 1..Len(q[k]) : j = at[k] + i
  <2> DEFINE T == {m \in 1..(n + 1) : j <= at[m]}
  <2>1. T \subseteq Nat /\ n + 1 \in T
    BY <1>4, <1>5
  <2>2. PICK m \in T : \A k \in T : m <= k
    <3> HIDE DEF T
    <3> QED BY <2>1, LeastExists
  <2>3. m \in 1..(n + 1) /\ j <= at[m] /\ j \in Nat /\ j >= 1
    BY <1>4, <1>5, <2>2
  <2>4. m # 1
    BY <1>5, <2>3
  <2>5. PICK k \in 1..n : m = k + 1
    <3>1. m - 1 \in 1..n /\ m = (m - 1) + 1
      BY <2>3, <2>4
    <3> QED BY <3>1
  <2>6. k \in 1..(n + 1) /\ ~(m <= k)
    BY <2>3, <2>5
  <2>7. ~(j <= at[k])
    BY <2>2, <2>6
  <2>8. PICK a \in Nat, l \in Nat : a = at[k] /\ l = Len(q[k])
    BY <1>5, <1>6, <2>6
  <2>9. at[m] = a + l
    BY <1>5, <2>5, <2>8
  <2>10. j \in Nat /\ j <= a + l /\ ~(j <= a)
    BY <2>3, <2>7, <2>8, <2>9
  <2>11. j - a \in 1..l /\ j = a + (j - a)
    <3>1. PICK x \in Nat : x = j
      BY <2>10
    <3>2. x <= a + l /\ ~(x <= a)
      BY <2>10, <3>1
    <3>3. x - a \in 1..l /\ x = a + (x - a)
      BY <3>2
    <3> QED BY <3>1, <3>3
  <2> QED BY <2>8, <2>11
<1>8. Flattened(c, q)
  <2>1. \A k \in 1..Len(q) :
          /\ at[k] \in Nat
          /\ \A i \in 1..Len(q[k]) : at[k] + i \in 1..Len(c) /\ c[at[k] + i] = q[k][i]
    <3>1. \A k \in 1..n : at[k] \in Nat
      BY <1>5
    <3> QED BY <1>3, <1>4, <3>1
  <2>2. \A j \in 1..Len(c) : \E k \in 1..Len(q) : \E i \in 1..Len(q[k]) : j = at[k] + i
    BY <1>3, <1>7
  <2> QED BY <2>1, <2>2, Zenon DEF Flattened
<1> QED BY <1>0, <1>1, <1>8

LEMMA TranspileIs ==
  ASSUME NEW d, GoodDocument(d)
  PROVE  /\ IsConfiguration(Transpile(d))
         /\ \E at :
              /\ \A f \in DOMAIN d :
                   /\ at[f] \in Nat
                   /\ \A i \in DOMAIN d[f] :
                        /\ at[f] + i \in DOMAIN Transpile(d)
                        /\ Transpile(d)[at[f] + i] = Transpiled(f, d[f][i])
              /\ \A j \in DOMAIN Transpile(d) : \E f \in DOMAIN d : \E i \in DOMAIN d[f] :
                   j = at[f] + i
<1> DEFINE paths == Sorted(DOMAIN d)
           K == Cardinality(DOMAIN d)
           part(f) == [i \in DOMAIN d[f] |-> Transpiled(f, d[f][i])]
           q == [k \in DOMAIN paths |-> part(paths[k])]
           S == UNION {{Transpiled(f, d[f][i]) : i \in DOMAIN d[f]} : f \in DOMAIN d}
<1>1. /\ IsFiniteSet(DOMAIN d) /\ DOMAIN d \subseteq Seq(DOMAIN Rank)
      /\ \A f \in DOMAIN d : GoodOperations(d[f])
  BY DEF GoodDocument
<1>2. /\ K \in Nat /\ paths \in [1..K -> DOMAIN d]
      /\ \A f \in DOMAIN d : \E n \in 1..K : paths[n] = f
      /\ \A m, n \in 1..K : paths[m] = paths[n] => m = n
  BY <1>1, SortedIs
<1>3. Transpile(d) = FlattenSeq(q)
  BY Zenon DEF Transpile
<1>4. ASSUME NEW f \in DOMAIN d
      PROVE  part(f) \in Seq(S) /\ Len(part(f)) \in Nat /\ DOMAIN d[f] = 1..Len(part(f))
  <2>1. PICK n \in Nat : DOMAIN d[f] = 1..n
    BY <1>1, Zenon DEF GoodOperations
  <2>2. \A i \in 1..n : Transpiled(f, d[f][i]) \in S
    BY <2>1
  <2> DEFINE e(i) == Transpiled(f, d[f][i])
  <2>3. part(f) = [i \in 1..n |-> e(i)]
    BY <2>1
  <2>4. \A i \in 1..n : e(i) \in S
    BY <2>2
  <2> HIDE DEF S, part, e
  <2>5. part(f) \in Seq(S) /\ Len(part(f)) = n
    BY <2>3, <2>4
  <2> QED BY <2>1, <2>5
<1>5. ASSUME NEW e \in S PROVE IsPath(e.path)
  <2>1. PICK f \in DOMAIN d : \E i \in DOMAIN d[f] : e = Transpiled(f, d[f][i])
    OBVIOUS
  <2>2. e.path = Handlebars(f)
    <3>1. PICK o : e = Transpiled(f, o)
      BY <2>1
    <3> QED BY <3>1 DEF Transpiled
  <2>3. f \in Seq(DOMAIN Rank)
    BY <1>1
  <2> QED BY <2>2, <2>3, HandlebarsIs
<1> HIDE DEF S, part, paths, K
<1>6. /\ q \in Seq(Seq(S)) /\ Len(q) = K
      /\ \A k \in 1..K : q[k] = part(paths[k]) /\ paths[k] \in DOMAIN d
  <2>1. DOMAIN paths = 1..K /\ \A k \in 1..K : paths[k] \in DOMAIN d /\ part(paths[k]) \in Seq(S)
    BY <1>2, <1>4
  <2> DEFINE e(k) == part(paths[k])
  <2>2. q = [k \in 1..K |-> e(k)]
    BY <2>1
  <2>3. \A k \in 1..K : e(k) \in Seq(S)
    BY <2>1
  <2> HIDE DEF q, e
  <2>4. q \in Seq(Seq(S)) /\ Len(q) = K /\ \A k \in 1..K : q[k] = e(k)
    BY <1>2, <2>2, <2>3
  <2> QED BY <2>1, <2>4 DEF e
<1> HIDE DEF q
<1>7. PICK c : c = FlattenSeq(q)
  OBVIOUS
<1>8. c \in Seq(S) /\ Flattened(c, q)
  BY <1>6, <1>7, FlattenIs
<1>9. PICK at :
        /\ \A k \in 1..K :
             /\ at[k] \in Nat
             /\ \A i \in 1..Len(q[k]) : at[k] + i \in 1..Len(c) /\ c[at[k] + i] = q[k][i]
        /\ \A j \in 1..Len(c) : \E k \in 1..K : \E i \in 1..Len(q[k]) : j = at[k] + i
  BY <1>6, <1>8 DEF Flattened
<1>10. IsConfiguration(c) /\ DOMAIN c = 1..Len(c)
  BY <1>5, <1>8, ConfigurationFrom
<1>11. \A k \in 1..K : \A i \in DOMAIN d[paths[k]] : q[k][i] = Transpiled(paths[k], d[paths[k]][i])
  BY <1>6 DEF part
<1>12. \A k \in 1..K : DOMAIN d[paths[k]] = 1..Len(q[k])
  BY <1>4, <1>6
<1> DEFINE from == [f \in DOMAIN d |-> at[CHOOSE k \in 1..K : paths[k] = f]]
<1>13. ASSUME NEW k \in 1..K PROVE from[paths[k]] = at[k] /\ paths[k] \in DOMAIN d
  <2>1. paths[k] \in DOMAIN d
    BY <1>6
  <2>2. (CHOOSE m \in 1..K : paths[m] = paths[k]) = k
    BY <1>2
  <2> QED BY <2>1, <2>2
<1> HIDE DEF from
<1>14. ASSUME NEW f \in DOMAIN d
       PROVE  /\ from[f] \in Nat
              /\ \A i \in DOMAIN d[f] :
                   from[f] + i \in DOMAIN c /\ c[from[f] + i] = Transpiled(f, d[f][i])
  <2>1. PICK k \in 1..K : paths[k] = f
    BY <1>2
  <2>2. from[f] = at[k] /\ at[k] \in Nat
    BY <1>9, <1>13, <2>1
  <2>3. ASSUME NEW i \in DOMAIN d[f]
        PROVE  at[k] + i \in DOMAIN c /\ c[at[k] + i] = Transpiled(f, d[f][i])
    <3>1. i \in 1..Len(q[k]) /\ q[k][i] = Transpiled(f, d[f][i])
      BY <1>11, <1>12, <2>1, <2>3
    <3> QED BY <1>9, <1>10, <3>1
  <2> QED BY <2>2, <2>3
<1>15. ASSUME NEW j \in DOMAIN c
       PROVE  \E f \in DOMAIN d : \E i \in DOMAIN d[f] : j = from[f] + i
  <2>1. PICK k \in 1..K : \E i \in 1..Len(q[k]) : j = at[k] + i
    BY <1>9, <1>10
  <2>2. PICK i \in 1..Len(q[k]) : j = at[k] + i
    BY <2>1
  <2>3. i \in DOMAIN d[paths[k]] /\ paths[k] \in DOMAIN d /\ from[paths[k]] = at[k]
    BY <1>12, <1>13, <2>2
  <2> QED BY <2>2, <2>3
<1>16. Transpile(d) = c
  BY <1>3, <1>7
<1> QED BY <1>10, <1>14, <1>15, <1>16

\* Requests are recorded under what identifies them.
Entries ==
  {e \in [id : {Identifier(r) : r \in Requests}, rows : Seq(Requests)] :
     \A j \in DOMAIN e.rows : Identifier(e.rows[j]) = e.id}
Recorded == unhandled \in Seq(Entries)

LEMMA EntryIs ==
  ASSUME NEW e \in Entries
  PROVE  /\ e.rows \in Seq(Requests) /\ Len(e.rows) \in Nat /\ DOMAIN e.rows = 1..Len(e.rows)
         /\ e.id \in {Identifier(r) : r \in Requests}
         /\ \A j \in DOMAIN e.rows : e.rows[j] \in Requests /\ Identifier(e.rows[j]) = e.id
         /\ e.rows # <<>> => Len(e.rows) \in DOMAIN e.rows
         /\ e = [id |-> e.id, rows |-> e.rows]
<1>1. e.rows \in Seq(Requests) /\ e.id \in {Identifier(r) : r \in Requests}
      /\ e = [id |-> e.id, rows |-> e.rows]
  BY DEF Entries
<1>2. \A j \in DOMAIN e.rows : Identifier(e.rows[j]) = e.id
  BY DEF Entries
<1>3. PICK s \in Seq(Requests) : s = e.rows
  BY <1>1
<1>4. /\ Len(s) \in Nat /\ DOMAIN s = 1..Len(s) /\ \A j \in DOMAIN s : s[j] \in Requests
      /\ s # <<>> => Len(s) \in DOMAIN s
  OBVIOUS
<1> QED BY <1>1, <1>2, <1>3, <1>4

LEMMA EntryOf ==
  ASSUME NEW id \in {Identifier(r) : r \in Requests}, NEW rows \in Seq(Requests),
         \A j \in DOMAIN rows : Identifier(rows[j]) = id
  PROVE  [id |-> id, rows |-> rows] \in Entries
<1> DEFINE e == [id |-> id, rows |-> rows]
<1>1. e \in [id : {Identifier(r) : r \in Requests}, rows : Seq(Requests)] /\ e.id = id /\ e.rows = rows
  OBVIOUS
<1> HIDE DEF e
<1>2. e \in Entries
  BY <1>1 DEF Entries
<1> QED BY <1>2 DEF e

LEMMA PrototypeIs ==
  ASSUME NEW rows \in Seq(Requests), rows # <<>>
  PROVE  LET r == rows[Len(rows)] IN
         /\ r \in Requests /\ Len(rows) \in DOMAIN rows
         /\ IsPath(Prototype(rows).path)
         /\ Pattern(Prototype(rows).path) = r.url
         /\ Prototype(rows).method = r.method
         /\ Prototype(rows).headers = CommonHeaders(rows)
         /\ Prototype(rows).query = [q \in DOMAIN r.query |-> Head(r.query[q])]
<1> DEFINE r == rows[Len(rows)]
<1>1. r \in Requests /\ Len(rows) \in DOMAIN rows
  OBVIOUS
<1>2. Last(rows) = r
  BY DEF Last
<1> HIDE DEF r
<1>3. r.url \in Seq(STRING) /\ \A i \in DOMAIN r.url : Segment(r.url[i]) \in DOMAIN Rank
  BY <1>1, DocumentsAssumption, Zenon
<1>4. /\ Prototype(rows).path = [i \in DOMAIN r.url |-> Text(r.url[i])]
      /\ Prototype(rows).method = r.method
      /\ Prototype(rows).headers = CommonHeaders(rows)
      /\ Prototype(rows).query = [q \in DOMAIN r.query |-> Head(r.query[q])]
  <2>1. PICK a, b, c, d : /\ a = [i \in DOMAIN r.url |-> Text(r.url[i])] /\ b = r.method
                          /\ c = CommonHeaders(rows) /\ d = [q \in DOMAIN r.query |-> Head(r.query[q])]
    OBVIOUS
  <2>2. Prototype(rows) = [path |-> a, method |-> b, headers |-> c, query |-> d,
                           response |-> Single("200")]
    BY <1>2, <2>1, Zenon DEF Prototype
  <2>3. /\ Prototype(rows).path = a /\ Prototype(rows).method = b
        /\ Prototype(rows).headers = c /\ Prototype(rows).query = d
    BY <2>2
  <2> QED BY <2>1, <2>3, Zenon
<1>5. /\ IsPath([i \in DOMAIN r.url |-> Text(r.url[i])])
      /\ Pattern([i \in DOMAIN r.url |-> Text(r.url[i])]) = r.url
  BY <1>3, TextIs
<1> QED BY <1>1, <1>4, <1>5, Zenon DEF r

LEMMA PrototypesAre ==
  ASSUME Recorded
  PROVE  /\ IsConfiguration(Prototypes)
         /\ \A i \in DOMAIN unhandled : unhandled[i].rows # <<>> =>
              \E k \in DOMAIN Prototypes : Prototypes[k] = Prototype(unhandled[i].rows)
<1> DEFINE S == {Prototype(rows) : rows \in {s \in Seq(Requests) : s # <<>>}}
           part(i) == IF unhandled[i].rows = <<>> THEN <<>> ELSE <<Prototype(unhandled[i].rows)>>
           q == [i \in DOMAIN unhandled |-> part(i)]
<1>1. Len(unhandled) \in Nat /\ DOMAIN unhandled = 1..Len(unhandled)
      /\ \A i \in 1..Len(unhandled) : unhandled[i] \in Entries
  <2> HIDE DEF S, q, part
  <2> QED BY DEF Recorded
<1>2. ASSUME NEW i \in 1..Len(unhandled) PROVE part(i) \in Seq(S)
  <2>1. unhandled[i].rows \in Seq(Requests)
    BY <1>1, EntryIs
  <2>2. CASE unhandled[i].rows = <<>>
    <3>1. part(i) = <<>>
      BY <2>2
    <3> HIDE DEF S, part
    <3> QED BY <3>1
  <2>3. CASE unhandled[i].rows # <<>>
    <3>1. part(i) = <<Prototype(unhandled[i].rows)>> /\ Prototype(unhandled[i].rows) \in S
      BY <2>1, <2>3
    <3> HIDE DEF S, part
    <3> QED BY <3>1
  <2> QED BY <2>2, <2>3
<1>3. \A e \in S : IsPath(e.path)
  <2> SUFFICES ASSUME NEW rows \in Seq(Requests), rows # <<>> PROVE IsPath(Prototype(rows).path)
    OBVIOUS
  <2> QED BY PrototypeIs
<1>4. Prototypes = FlattenSeq(q)
  BY Zenon DEF Prototypes
<1> HIDE DEF S
<1>5. q \in Seq(Seq(S)) /\ Len(q) = Len(unhandled) /\ \A i \in 1..Len(unhandled) : q[i] = part(i)
  <2> HIDE DEF part
  <2> QED BY <1>1, <1>2
<1> HIDE DEF q
<1>6. PICK c : c = FlattenSeq(q)
  OBVIOUS
<1> HIDE DEF part
<1>7. /\ c \in Seq(S)
      /\ \A k \in 1..Len(q) : \E a \in Nat : \A i \in 1..Len(q[k]) :
           a + i \in 1..Len(c) /\ c[a + i] = q[k][i]
  <2>1. c \in Seq(S) /\ Flattened(c, q)
    BY <1>5, <1>6, FlattenIs
  <2>2. PICK at : \A k \in 1..Len(q) :
                    /\ at[k] \in Nat
                    /\ \A i \in 1..Len(q[k]) : at[k] + i \in 1..Len(c) /\ c[at[k] + i] = q[k][i]
    BY <2>1 DEF Flattened
  <2> QED BY <2>1, <2>2
<1>8. IsConfiguration(c) /\ DOMAIN c = 1..Len(c)
  BY <1>3, <1>7, ConfigurationFrom
<1>9. ASSUME NEW i \in DOMAIN unhandled, unhandled[i].rows # <<>>
      PROVE  \E k \in DOMAIN c : c[k] = Prototype(unhandled[i].rows)
  <2>1. i \in 1..Len(q) /\ q[i] = <<Prototype(unhandled[i].rows)>>
    BY <1>1, <1>5, <1>9 DEF part
  <2>2. 1 \in 1..Len(q[i]) /\ q[i][1] = Prototype(unhandled[i].rows)
    BY <2>1
  <2>3. \E k \in 1..Len(c) : c[k] = q[i][1]
    BY <1>7, <2>1, <2>2
  <2> QED BY <1>8, <2>2, <2>3, Zenon
<1> QED BY <1>4, <1>6, <1>8, <1>9

LEMMA BothConfigured ==
  ASSUME NEW a, NEW b, IsConfiguration(a), IsConfiguration(b)
  PROVE  /\ IsConfiguration(a \o b)
         /\ \A k \in DOMAIN b : \E i \in DOMAIN (a \o b) : (a \o b)[i] = b[k]
<1> DEFINE S == Range(a) \cup Range(b)
<1>1. /\ a \in Seq(Range(a)) /\ \A i \in DOMAIN a : IsPath(a[i].path)
      /\ b \in Seq(Range(b)) /\ \A i \in DOMAIN b : IsPath(b[i].path)
  BY DEF IsConfiguration
<1>2. \A e \in S : IsPath(e.path)
  BY <1>1 DEF Range
<1> HIDE DEF Range
<1>3. a \in Seq(S) /\ b \in Seq(S)
  BY <1>1
<1> HIDE DEF S
<1>4. PICK u : u = a \o b
  OBVIOUS
<1>5. /\ u \in Seq(S) /\ Len(a) \in Nat /\ Len(b) \in Nat /\ Len(u) = Len(a) + Len(b)
      /\ \A i \in 1..Len(b) : u[Len(a) + i] = b[i]
  BY <1>3, <1>4, Concatenated
<1>6. DOMAIN u = 1..Len(u) /\ DOMAIN b = 1..Len(b)
  BY <1>3, <1>5
<1>7. ASSUME NEW k \in DOMAIN b PROVE \E i \in DOMAIN u : u[i] = b[k]
  <2>1. Len(a) + k \in 1..Len(u)
    BY <1>5, <1>6
  <2> QED BY <1>5, <1>6, <2>1
<1>8. IsConfiguration(u)
  BY <1>2, <1>5, ConfigurationFrom
<1> QED BY <1>4, <1>7, <1>8
-----------------------------------------------------------------------------
(***************************************************************************)
(* Endpoints made of requests, and these.                                  *)
(***************************************************************************)
Learnt ==
  \A r \in learnt : \E rows \in Seq(Requests) :
    /\ Range(rows) \subseteq learnt /\ r \in Range(rows)
    /\ \A s \in Range(rows) : Identifier(s) = Identifier(r)
    /\ \E i \in DOMAIN endpoints : endpoints[i] = Prototype(rows)

LEMMA AllAnswered == IsConfiguration(endpoints) /\ Learnt => LearntAnswered
<1> SUFFICES ASSUME IsConfiguration(endpoints), Learnt,
                    NEW r \in learnt, Replayable(r), ~Hidden(r)
             PROVE  Answered(r)
  BY DEF LearntAnswered
<1>1. PICK rows \in Seq(Requests) :
        /\ Range(rows) \subseteq learnt /\ r \in Range(rows)
        /\ \A s \in Range(rows) : Identifier(s) = Identifier(r)
        /\ \E i \in DOMAIN endpoints : endpoints[i] = Prototype(rows)
  BY DEF Learnt
<1>2. PICK e \in DOMAIN endpoints : endpoints[e] = Prototype(rows)
  BY <1>1
<1>3. PICK j \in DOMAIN rows : r = rows[j]
  BY <1>1 DEF Range
<1>4. rows # <<>> /\ Len(rows) \in DOMAIN rows
  BY <1>3
<1> DEFINE l == rows[Len(rows)]
<1>5. l \in learnt /\ Identifier(l) = Identifier(r) /\ Last(rows) = l
  BY <1>1, <1>4 DEF Range, Last
<1> HIDE DEF l
<1>6. l.method = r.method /\ l.url = r.url
  BY <1>5 DEF Identifier
<1>7. /\ Pattern(endpoints[e].path) = r.url
      /\ endpoints[e].method = r.method
      /\ endpoints[e].headers = CommonHeaders(rows)
      /\ endpoints[e].query = [q \in DOMAIN l.query |-> Head(l.query[q])]
  BY <1>2, <1>4, <1>6, PrototypeIs, Zenon DEF l
<1>8. r.url \in Patterns /\ e \in Of(r.url)
  BY <1>2, <1>7 DEF Patterns, Of, PatternOf
<1>9. r.url \in Fitting(r.url)
  BY <1>8 DEF Fitting, Replayable
<1>10. Route(r.url) = r.url
  <2>1. Route(r.url) \in Fitting(r.url) /\ Before(Route(r.url), r.url)
    BY <1>9, RouteIs
  <2> QED BY <2>1, Zenon DEF Hidden
<1>11. e \in Alternatives(r)
  BY <1>7, <1>8, <1>10, Zenon DEF Alternatives
<1>12. FitsHeaders(endpoints[e], r)
  <2> DEFINE h == l.headers
             common == {n \in DOMAIN h \ Ignored : \A i \in DOMAIN rows :
                          n \in DOMAIN rows[i].headers /\ rows[i].headers[n] = h[n]}
  <2>1. CommonHeaders(rows) = [k \in common |-> h[k]]
    BY <1>5 DEF CommonHeaders
  <2>2. \A k \in common : k \in DOMAIN r.headers /\ h[k] = r.headers[k]
    BY <1>3
  <2> HIDE DEF common
  <2>3. \A k \in DOMAIN endpoints[e].headers :
          k \in DOMAIN r.headers /\ endpoints[e].headers[k] = r.headers[k]
    BY <1>7, <2>1, <2>2
  <2> QED BY <2>3, Zenon DEF FitsHeaders
<1>13. FitsQuery(endpoints[e], r)
  <2>1. l.query = r.query /\ \A q \in DOMAIN r.query : Len(r.query[q]) = 1
    BY <1>5 DEF Replayable
  <2>2. ASSUME NEW q \in DOMAIN endpoints[e].query
        PROVE  q \in DOMAIN r.query /\ endpoints[e].query[q] = Last(r.query[q])
    <3>1. q \in DOMAIN r.query /\ endpoints[e].query[q] = Head(r.query[q])
      BY <1>7, <2>1, <2>2
    <3>2. PICK s : s = r.query[q] /\ Len(s) = 1
      BY <2>1, <3>1
    <3>3. Head(s) = s[1] /\ Last(s) = s[1]
      BY <3>2 DEF Last
    <3> QED BY <3>1, <3>2, <3>3
  <2> QED BY <2>2, Zenon DEF FitsQuery
<1>14. Accepts(endpoints[e], r)
  BY <1>12, <1>13 DEF Accepts
<1> QED BY <1>9, <1>11, <1>14 DEF Answered
-----------------------------------------------------------------------------
(***************************************************************************)
(* The document of a service that a document was made into.                *)
(***************************************************************************)
LEMMA IncreasingInterval ==
  ASSUME NEW a \in Nat, NEW n \in Nat
  PROVE  Increasing((a + 1)..(a + n)) = [k \in 1..n |-> a + k]
<1> DEFINE S == (a + 1)..(a + n)
           R == {e \in S \X S : e[1] < e[2]}
           below(x) == {y \in S : <<y, x>> \in R}
<1>1. Cardinality(S) = n
  <2>1. Cardinality(S) = IF a + 1 > a + n THEN 0 ELSE (a + n) - (a + 1) + 1
    BY FS_Interval
  <2> QED BY <2>1
<1>2. ASSUME NEW x \in S PROVE Cardinality(below(x)) = x - a - 1
  <2>1. x \in Nat /\ x - 1 \in Int /\ a + 1 \in Int
    OBVIOUS
  <2>2. below(x) = (a + 1)..(x - 1)
    BY <2>1
  <2>3. Cardinality((a + 1)..(x - 1)) = IF a + 1 > x - 1 THEN 0 ELSE (x - 1) - (a + 1) + 1
    <3> HIDE DEF S
    <3> QED BY <2>1, FS_Interval
  <2>4. x >= a + 1
    OBVIOUS
  <2> HIDE DEF S, below
  <2> QED BY <2>1, <2>2, <2>3, <2>4
<1>3. Increasing(S) = [k \in 1..Cardinality(S) |-> CHOOSE x \in S : Cardinality(below(x)) = k - 1]
  BY Zenon DEF Increasing, InOrder
<1>4. ASSUME NEW k \in 1..n PROVE (CHOOSE x \in S : Cardinality(below(x)) = k - 1) = a + k
  <2>1. a + k \in S
    OBVIOUS
  <2>2. \A x \in S : Cardinality(below(x)) = k - 1 <=> x = a + k
    <3> HIDE DEF below
    <3> QED BY <1>2
  <2> HIDE DEF S, below
  <2> QED BY <2>1, <2>2
<1> HIDE DEF S, below
<1>5. Increasing(S) = [k \in 1..n |-> a + k]
  BY <1>1, <1>3, <1>4
<1> QED BY <1>5 DEF S

\* Paths that patterns tell apart: but for the names of parameters.
LEMMA PatternTells ==
  ASSUME NEW f \in Seq(DOMAIN Rank), NEW g \in Seq(DOMAIN Rank),
         Pattern(Handlebars(f)) = Pattern(Handlebars(g))
  PROVE  Unnamed(f) = Unnamed(g)
<1>1. PICK a \in Nat, b \in Nat : a = Len(f) /\ b = Len(g) /\ DOMAIN f = 1..a /\ DOMAIN g = 1..b
  OBVIOUS
<1>2. /\ Pattern(Handlebars(f)) = [i \in 1..a |-> IF f[i].param THEN AnySegment ELSE f[i].is]
      /\ Pattern(Handlebars(g)) = [i \in 1..b |-> IF g[i].param THEN AnySegment ELSE g[i].is]
  BY <1>1, HandlebarsIs, Zenon
<1>3. 1..a = 1..b
  <2> DEFINE u(i) == IF f[i].param THEN AnySegment ELSE f[i].is
             v(i) == IF g[i].param THEN AnySegment ELSE g[i].is
  <2>1. [i \in 1..a |-> u(i)] = [i \in 1..b |-> v(i)]
    BY <1>2
  <2> HIDE DEF u, v
  <2> QED BY <2>1
<1>4. \A s \in DOMAIN Rank :
        /\ s \in {Segment(s.is), Param(s.is)}
        /\ s.is # (IF s.param THEN "" ELSE AnySegment)
  BY DocumentsAssumption, Zenon
<1>5. \A n : Segment(n).param = FALSE /\ Param(n).param = TRUE
  BY DEF Segment, Param
<1>6. ASSUME NEW i \in 1..a
      PROVE  (IF f[i].param THEN Param("") ELSE f[i]) = (IF g[i].param THEN Param("") ELSE g[i])
  <2>1. f[i] \in DOMAIN Rank /\ g[i] \in DOMAIN Rank
    BY <1>1, <1>3
  <2>2. (IF f[i].param THEN AnySegment ELSE f[i].is) = (IF g[i].param THEN AnySegment ELSE g[i].is)
    BY <1>2, <1>3, Zenon
  <2>3. CASE f[i].param /\ g[i].param
    BY <2>3, Zenon
  <2>4. CASE f[i].param /\ ~g[i].param
    BY <1>4, <2>1, <2>2, <2>4, Zenon
  <2>5. CASE ~f[i].param /\ g[i].param
    BY <1>4, <2>1, <2>2, <2>5, Zenon
  <2>6. CASE ~f[i].param /\ ~g[i].param
    <3>1. f[i] = Segment(f[i].is) /\ g[i] = Segment(g[i].is)
      BY <1>4, <1>5, <2>1, <2>6, Zenon
    <3>2. f[i].is = g[i].is
      BY <2>2, <2>6, Zenon
    <3> QED BY <2>6, <3>1, <3>2, Zenon
  <2> QED BY <2>3, <2>4, <2>5, <2>6, Zenon
<1>7. Unnamed(f) = [i \in 1..a |-> IF f[i].param THEN Param("") ELSE f[i]]
  BY <1>1, Zenon DEF Unnamed
<1>8. Unnamed(g) = [i \in 1..a |-> IF g[i].param THEN Param("") ELSE g[i]]
  BY <1>1, <1>3, Zenon DEF Unnamed
<1> DEFINE u(i) == IF f[i].param THEN Param("") ELSE f[i]
           v(i) == IF g[i].param THEN Param("") ELSE g[i]
<1>9. \A i \in 1..a : u(i) = v(i)
  BY <1>6
<1>10. Unnamed(f) = [i \in 1..a |-> u(i)] /\ Unnamed(g) = [i \in 1..a |-> v(i)]
  BY <1>7, <1>8
<1> HIDE DEF u, v
<1> QED BY <1>9, <1>10
LEMMA TranspiledIs ==
  ASSUME NEW f, NEW o
  PROVE  /\ Transpiled(f, o).path = Handlebars(f) /\ Transpiled(f, o).method = o.method
         /\ DOMAIN Transpiled(f, o).headers = o.headers /\ DOMAIN Transpiled(f, o).query = o.query
         /\ Transpiled(f, o).response.status = StatusOut(o.response.status)
         /\ Described(Transpiled(f, o).response) = Plain
<1>1. PICK a, b, c, d, e :
        /\ a = Handlebars(f) /\ b = o.method
        /\ c = [h \in o.headers |-> AnyValue] /\ d = [q \in o.query |-> AnyValue]
        /\ e = Listed(o.response)
  OBVIOUS
<1>2. Transpiled(f, o) = [path |-> a, method |-> b, headers |-> c, query |-> d, response |-> e]
  BY <1>1, Zenon DEF Transpiled
<1>3. /\ Transpiled(f, o).path = a /\ Transpiled(f, o).method = b
      /\ Transpiled(f, o).headers = c /\ Transpiled(f, o).query = d
      /\ Transpiled(f, o).response = e
  BY <1>2
<1>4. DOMAIN c = o.headers /\ DOMAIN d = o.query
  BY <1>1
<1>5. e.listed /\ e.status = StatusOut(o.response.status)
  <2>1. PICK s : s = StatusOut(o.response.status)
    OBVIOUS
  <2>2. e = [[status |-> s, listed |-> FALSE, headers |-> FALSE] EXCEPT !.listed = TRUE]
    BY <1>1, <2>1 DEF Listed, Single
  <2> QED BY <2>1, <2>2
<1>6. Described(e) = Plain
  BY <1>5 DEF Described
<1> QED BY <1>1, <1>3, <1>4, <1>5, <1>6, Zenon

\* The endpoints of one path of the document, of which it is made again.
LEMMA PathReturns ==
  ASSUME NEW d, GoodDocument(d), endpoints = Transpile(d),
         \A f, g \in DOMAIN d : Unnamed(f) = Unnamed(g) => f = g,
         NEW f \in DOMAIN d
  PROVE  /\ Pattern(Handlebars(f)) \in Patterns
         /\ FormOf(Pattern(Handlebars(f))) = f
         /\ Operations(Pattern(Handlebars(f)))
              = [k \in DOMAIN d[f] |-> [d[f][k] EXCEPT !.response = Plain]]
<1> DEFINE p == Pattern(Handlebars(f))
           ops == d[f]
<1>1. PICK at :
        /\ \A g \in DOMAIN d :
             /\ at[g] \in Nat
             /\ \A i \in DOMAIN d[g] :
                  at[g] + i \in DOMAIN endpoints /\ endpoints[at[g] + i] = Transpiled(g, d[g][i])
        /\ \A j \in DOMAIN endpoints : \E g \in DOMAIN d : \E i \in DOMAIN d[g] : j = at[g] + i
  BY TranspileIs
<1>2. IsConfiguration(endpoints) /\ \A g \in DOMAIN d : g \in Seq(DOMAIN Rank) /\ GoodOperations(d[g])
  BY TranspileIs DEF GoodDocument
<1>3. PICK n \in Nat \ {0} :
        /\ DOMAIN ops = 1..n
        /\ \A k \in 1..n :
             /\ ops[k] = [method |-> ops[k].method, headers |-> ops[k].headers,
                          query |-> ops[k].query, response |-> ops[k].response]
                 /\ ops[k].query = UNION {ops[j].query : j \in 1..k}
        /\ \A j, k \in 1..n : j # k => ops[j].method # ops[k].method
  BY <1>2 DEF GoodOperations
<1>4. PICK a \in Nat : a = at[f]
  BY <1>1
<1> HIDE DEF ops
<1>5. \A i \in 1..n : a + i \in DOMAIN endpoints /\ endpoints[a + i] = Transpiled(f, ops[i])
  BY <1>1, <1>3, <1>4 DEF ops
<1>6. \A i \in 1..n : /\ endpoints[a + i].path = Handlebars(f)
                      /\ endpoints[a + i].method = ops[i].method
                      /\ DOMAIN endpoints[a + i].headers = ops[i].headers
                      /\ DOMAIN endpoints[a + i].query = ops[i].query
                      /\ Described(endpoints[a + i].response) = Plain
  <2> SUFFICES ASSUME NEW i \in 1..n
               PROVE  /\ endpoints[a + i].path = Handlebars(f)
                      /\ endpoints[a + i].method = ops[i].method
                      /\ DOMAIN endpoints[a + i].headers = ops[i].headers
                      /\ DOMAIN endpoints[a + i].query = ops[i].query
                      /\ Described(endpoints[a + i].response) = Plain
    OBVIOUS
  <2>1. endpoints[a + i] = Transpiled(f, ops[i])
    BY <1>5
  <2> QED BY <2>1, TranspiledIs
<1>7. Of(p) = {a + i : i \in 1..n}
  <2>1. ASSUME NEW i \in 1..n PROVE a + i \in Of(p)
    BY <1>5, <1>6 DEF Of, PatternOf
  <2>2. ASSUME NEW j \in Of(p) PROVE \E i \in 1..n : j = a + i
    <3>1. j \in DOMAIN endpoints /\ Pattern(endpoints[j].path) = p
      BY DEF Of, PatternOf
    <3>2. PICK g \in DOMAIN d : \E i \in DOMAIN d[g] : j = at[g] + i
      BY <1>1, <3>1
    <3>3. PICK i \in DOMAIN d[g] : j = at[g] + i
      BY <3>2
    <3>4. endpoints[j] = Transpiled(g, d[g][i])
      BY <1>1, <3>3
    <3>5. endpoints[j].path = Handlebars(g)
      BY <3>4, TranspiledIs
    <3>6. Unnamed(g) = Unnamed(f)
      BY <1>2, <3>1, <3>5, PatternTells
    <3>7. g = f
      BY <3>6
    <3> QED BY <1>3, <1>4, <3>3, <3>7 DEF ops
  <2> HIDE DEF p
  <2> QED BY <2>1, <2>2
<1>8. p \in Patterns
  <2>1. 1 \in 1..n
    BY <1>3
  <2> QED BY <1>5, <1>6, <2>1 DEF Patterns, PatternOf
<1> HIDE DEF p
<1>9. FirstOf(p) = a + 1
  <2>1. FirstOf(p) \in Of(p) /\ \A i \in Of(p) : FirstOf(p) <= i
    BY <1>2, <1>8, FirstIs
  <2>2. PICK i \in 1..n : FirstOf(p) = a + i
    BY <1>7, <2>1
  <2>3. a + 1 \in Of(p)
    BY <1>3, <1>7
  <2>4. a + i <= a + 1
    BY <2>1, <2>2, <2>3
  <2> QED BY <2>2, <2>4
<1>10. FormOf(p) = f
  <2>1. endpoints[a + 1].path = Handlebars(f)
    BY <1>3, <1>6
  <2>2. Form(Handlebars(f)) = f
    BY <1>2, HandlebarsIs
  <2> QED BY <1>9, <2>1, <2>2, Zenon DEF FormOf
<1>11. FirstsOf(p) = (a + 1)..(a + n)
  <2>1. Of(p) = (a + 1)..(a + n)
    <3>1. ASSUME NEW j \in (a + 1)..(a + n) PROVE j \in Of(p)
      <4>1. j - a \in 1..n /\ j = a + (j - a)
        BY <1>3
      <4> QED BY <1>7, <4>1
    <3>2. ASSUME NEW j \in Of(p) PROVE j \in (a + 1)..(a + n)
      <4>1. PICK i \in 1..n : j = a + i
        BY <1>7
      <4> QED BY <1>3, <4>1
    <3> QED BY <3>1, <3>2
  <2>2. ASSUME NEW i \in Of(p), NEW j \in Of(p), endpoints[j].method = endpoints[i].method
        PROVE  i <= j
    <3>1. PICK x \in 1..n, y \in 1..n : i = a + x /\ j = a + y
      BY <1>7
    <3>2. ops[x].method = ops[y].method
      BY <1>6, <2>2, <3>1
    <3>3. x = y
      BY <1>3, <3>2
    <3> QED BY <3>1, <3>3
  <2>3. FirstsOf(p) = Of(p)
    BY <2>2 DEF FirstsOf
  <2> QED BY <2>1, <2>3
<1>12. FirstOfMethods(p) = [k \in 1..n |-> a + k]
  <2>1. FirstOfMethods(p) = Increasing(FirstsOf(p))
    BY Zenon DEF FirstOfMethods, FirstsOf
  <2> QED BY <1>3, <1>11, <2>1, IncreasingInterval
<1> DEFINE e(k) == endpoints[a + k]
           op(k) == [method |-> e(k).method, headers |-> DOMAIN e(k).headers,
                     query |-> UNION {DOMAIN e(j).query : j \in 1..k},
                     response |-> Described(e(k).response)]
           new(k) == [ops[k] EXCEPT !.response = Plain]
<1>13. Operations(p) = [k \in 1..n |-> op(k)]
  <2> DEFINE first == FirstOfMethods(p)
  <2>1. DOMAIN first = 1..n /\ \A k \in 1..n : first[k] = a + k
    BY <1>12
  <2>2. Operations(p) =
          [k \in DOMAIN first |->
             [method |-> endpoints[first[k]].method,
              headers |-> DOMAIN endpoints[first[k]].headers,
              query |-> UNION {DOMAIN endpoints[first[j]].query : j \in 1..k},
              response |-> Described(endpoints[first[k]].response)]]
    BY DEF Operations
  <2>3. ASSUME NEW k \in 1..n
        PROVE  UNION {DOMAIN endpoints[first[j]].query : j \in 1..k} = UNION {DOMAIN e(j).query : j \in 1..k}
    <3>1. \A j \in 1..k : first[j] = a + j
      <4>1. \A j \in 1..k : j \in 1..n
        BY <1>3
      <4> QED BY <2>1, <4>1
    <3> HIDE DEF first
    <3> QED BY <3>1
  <2> HIDE DEF first
  <2> QED BY <2>1, <2>2, <2>3
<1>14. ASSUME NEW k \in 1..n PROVE op(k) = new(k)
  <2>1. /\ e(k).method = ops[k].method /\ DOMAIN e(k).headers = ops[k].headers
        /\ Described(e(k).response) = Plain
    BY <1>6
  <2>2. UNION {DOMAIN e(j).query : j \in 1..k} = ops[k].query
    <3>1. \A j \in 1..k : DOMAIN e(j).query = ops[j].query
      <4>1. \A j \in 1..k : j \in 1..n
        BY <1>3
      <4> QED BY <1>6, <4>1
    <3>2. ops[k].query = UNION {ops[j].query : j \in 1..k}
      BY <1>3
    <3> HIDE DEF e
    <3> QED BY <3>1, <3>2
  <2>4. PICK m, h, q, s :
          m = ops[k].method /\ h = ops[k].headers /\ q = ops[k].query /\ s = ops[k].response
    OBVIOUS
  <2>5. ops[k] = [method |-> m, headers |-> h, query |-> q, response |-> s]
    BY <1>3, <2>4
  <2>6. PICK t : t = Plain
    OBVIOUS
  <2>7. op(k) = [method |-> m, headers |-> h, query |-> q, response |-> t]
    BY <2>1, <2>2, <2>4, <2>6, Zenon
  <2>8. new(k) = [method |-> m, headers |-> h, query |-> q, response |-> t]
    BY <2>5, <2>6
  <2> HIDE DEF op, new
  <2> QED BY <2>7, <2>8
<1>15. Operations(p) = [k \in DOMAIN ops |-> new(k)]
  <2> HIDE DEF op, new
  <2> QED BY <1>3, <1>13, <1>14
<1> QED BY <1>8, <1>10, <1>15 DEF p, ops
Came == source # NoDocument => GoodDocument(source) /\ endpoints = Transpile(source)

\* Each operation has its endpoint, with its status.
LEMMA StatusKept ==
  ASSUME Came, source # NoDocument, NEW f \in DOMAIN source, NEW k \in DOMAIN source[f]
  PROVE  \E e \in Range(endpoints) :
           /\ e.path = Handlebars(f) /\ e.method = source[f][k].method
           /\ e.response.status = StatusOut(source[f][k].response.status)
<1>1. GoodDocument(source) /\ endpoints = Transpile(source)
  BY DEF Came
<1>2. PICK j \in DOMAIN endpoints : endpoints[j] = Transpiled(f, source[f][k])
  BY <1>1, TranspileIs
<1>3. endpoints[j] \in Range(endpoints)
  BY DEF Range
<1> QED BY <1>2, <1>3, TranspiledIs

LEMMA Returns == Came => ComesBack
<1> SUFFICES ASSUME Came, source # NoDocument,
                    \A f, g \in DOMAIN source : Unnamed(f) = Unnamed(g) => f = g
             PROVE  Document = Retold(source)
  BY StatusKept DEF ComesBack
<1>1. GoodDocument(source) /\ endpoints = Transpile(source)
  BY DEF Came
<1>2. IsConfiguration(endpoints)
  BY <1>1, TranspileIs
<1> DEFINE pat(f) == Pattern(Handlebars(f))
           same(f) == [k \in DOMAIN source[f] |-> [source[f][k] EXCEPT !.response = Plain]]
<1>3. \A f \in DOMAIN source :
        /\ pat(f) \in Patterns /\ FormOf(pat(f)) = f
        /\ Operations(pat(f)) = same(f)
  BY <1>1, PathReturns
<1>4. ASSUME NEW p \in Patterns PROVE \E f \in DOMAIN source : p = pat(f)
  <2>1. PICK j \in DOMAIN endpoints : p = Pattern(endpoints[j].path)
    BY DEF Patterns, PatternOf
  <2>2. PICK f \in DOMAIN source : \E i \in DOMAIN source[f] : endpoints[j] = Transpiled(f, source[f][i])
    <3>1. PICK at :
            /\ \A f \in DOMAIN source :
                 \A i \in DOMAIN source[f] : endpoints[at[f] + i] = Transpiled(f, source[f][i])
            /\ \A k \in DOMAIN endpoints : \E f \in DOMAIN source : \E i \in DOMAIN source[f] :
                 k = at[f] + i
      BY <1>1, TranspileIs
    <3> QED BY <3>1
  <2>3. endpoints[j].path = Handlebars(f)
    BY <2>2, TranspiledIs
  <2> QED BY <2>1, <2>3
<1>5. DOMAIN Document = DOMAIN source
  <2>1. DOMAIN Document = {FormOf(p) : p \in Patterns}
    BY DEF Document
  <2>2. \A f \in DOMAIN source : pat(f) \in Patterns /\ FormOf(pat(f)) = f
    BY <1>3
  <2> HIDE DEF pat, same
  <2> QED BY <1>4, <2>1, <2>2
<1>6. ASSUME NEW f \in DOMAIN source PROVE Document[f] = same(f)
  <2>1. \A q \in Patterns : FormOf(q) = FormOf(pat(f)) => q = pat(f)
    <3> HIDE DEF pat
    <3> QED BY <1>3, <1>4
  <2>2. Document[FormOf(pat(f))] = Operations(pat(f))
    BY <1>2, <1>3, <2>1, DocumentIs
  <2> HIDE DEF pat, same
  <2> QED BY <1>3, <2>2
<1>7. Document = [f \in DOMAIN Document |-> Document[f]]
  BY <1>2, DocumentGood, Zenon DEF GoodDocument
<1>8. Retold(source) = [f \in DOMAIN source |-> same(f)]
  BY Zenon DEF Retold
<1> HIDE DEF same
<1> QED BY <1>5, <1>6, <1>7, <1>8

-----------------------------------------------------------------------------
(***************************************************************************)
(* The steps.                                                              *)
(***************************************************************************)
Inv == IsConfiguration(endpoints) /\ Recorded /\ Learnt /\ Came

LEMMA Initial == Init => Inv
<1> SUFFICES ASSUME Init PROVE Inv
  OBVIOUS
<1>1. endpoints \in Files /\ unhandled = <<>> /\ learnt = {} /\ source = NoDocument
  BY DEF Init
<1>2. IsConfiguration(endpoints)
  BY <1>1, DocumentsAssumption, Zenon
<1>3. Recorded
  BY <1>1 DEF Recorded
<1> QED BY <1>1, <1>2, <1>3 DEF Inv, Learnt, Came

LEMMA AppendIs ==
  ASSUME NEW S, NEW s \in Seq(S), NEW r \in S
  PROVE  /\ Append(s, r) \in Seq(S)
         /\ \A j \in DOMAIN Append(s, r) : Append(s, r)[j] = r \/ (j \in DOMAIN s /\ Append(s, r)[j] = s[j])
<1>1. PICK n \in Nat : n = Len(s) /\ DOMAIN s = 1..n
  OBVIOUS
<1>2. PICK t : t = Append(s, r)
  OBVIOUS
<1>3. t \in Seq(S) /\ Len(t) = n + 1
  BY <1>1, <1>2
<1>4. DOMAIN t = 1..(n + 1)
  BY <1>3
<1>5. t[n + 1] = r /\ \A j \in 1..n : t[j] = s[j]
  BY <1>1, <1>2
<1>6. \A j \in 1..(n + 1) : j = n + 1 \/ j \in 1..n
  OBVIOUS
<1>7. ASSUME NEW j \in DOMAIN t PROVE t[j] = r \/ (j \in DOMAIN s /\ t[j] = s[j])
  <2>1. j = n + 1 \/ j \in 1..n
    BY <1>4, <1>6
  <2>2. CASE j = n + 1
    <3>1. t[j] = t[n + 1]
      BY <2>2
    <3>2. t[n + 1] = r
      BY <1>5
    <3> QED BY <3>1, <3>2
  <2>3. CASE j \in 1..n
    BY <1>1, <1>5, <2>3, Zenon
  <2> QED BY <2>1, <2>2, <2>3, Zenon
<1> QED BY <1>2, <1>3, <1>7, Zenon

\* What is recorded stays with its identifier.
LEMMA InsertKeeps ==
  ASSUME Recorded, NEW r \in Requests
  PROVE  Insert(r) \in Seq(Entries)
<1> DEFINE known == {i \in DOMAIN unhandled : unhandled[i].id = Identifier(r)}
<1>1. /\ unhandled \in Seq(Entries) /\ Len(unhandled) \in Nat
      /\ DOMAIN unhandled = 1..Len(unhandled)
      /\ \A i \in 1..Len(unhandled) : unhandled[i] \in Entries
  BY DEF Recorded
<1>2. CASE known = {}
  <2>1. Insert(r) = Append(unhandled, [id |-> Identifier(r), rows |-> <<r>>])
    BY <1>2, Zenon DEF Insert
  <2>2. <<r>> \in Seq(Requests) /\ \A j \in DOMAIN <<r>> : Identifier(<<r>>[j]) = Identifier(r)
    OBVIOUS
  <2>3. [id |-> Identifier(r), rows |-> <<r>>] \in Entries
    BY <2>2, EntryOf
  <2> QED BY <1>1, <2>1, <2>3
<1>3. CASE known # {}
  <2>1. Insert(r) = [unhandled EXCEPT ![Min(known)].rows = Append(@, r)]
    BY <1>3, Zenon DEF Insert
  <2>2. Min(known) \in known
    <3>1. known \subseteq Nat
      BY <1>1
    <3> HIDE DEF known
    <3> QED BY <1>3, <3>1, MinIs
  <2>3. PICK m \in 1..Len(unhandled) : m = Min(known) /\ unhandled[m].id = Identifier(r)
    BY <1>1, <2>2
  <2>4. PICK e \in Entries : e = unhandled[m]
    BY <1>1
  <2>5. /\ e.rows \in Seq(Requests) /\ e.id = Identifier(r)
        /\ \A j \in DOMAIN e.rows : Identifier(e.rows[j]) = e.id
        /\ e = [id |-> e.id, rows |-> e.rows]
    BY <2>3, <2>4, EntryIs
  <2>6. PICK s \in Seq(Requests) : s = e.rows
    BY <2>5
  <2>7. /\ Append(s, r) \in Seq(Requests)
        /\ \A j \in DOMAIN Append(s, r) : Append(s, r)[j] = r \/ (j \in DOMAIN s /\ Append(s, r)[j] = s[j])
    BY AppendIs
  <2>8. \A j \in DOMAIN Append(s, r) : Identifier(Append(s, r)[j]) = Identifier(r)
    BY <2>5, <2>6, <2>7
  <2>9. [id |-> Identifier(r), rows |-> Append(s, r)] \in Entries
    BY <2>7, <2>8, EntryOf
  <2>10. [e EXCEPT !.rows = Append(@, r)] = [id |-> Identifier(r), rows |-> Append(s, r)]
    <3>1. PICK i, w, v : i = e.id /\ w = e.rows /\ v = Append(w, r)
      OBVIOUS
    <3>2. e = [id |-> i, rows |-> w]
      BY <2>5, <3>1
    <3>3. [e EXCEPT !.rows = v] = [id |-> i, rows |-> v]
      BY <3>2
    <3> QED BY <2>5, <2>6, <3>1, <3>3
  <2>11. Insert(r) = [unhandled EXCEPT ![m] = [e EXCEPT !.rows = Append(@, r)]]
    BY <2>1, <2>3, <2>4
  <2>12. PICK x \in Entries : x = [e EXCEPT !.rows = Append(@, r)]
    BY <2>9, <2>10
  <2>13. Insert(r) = [unhandled EXCEPT ![m] = x]
    BY <2>11, <2>12
  <2> QED BY <1>1, <2>13
<1> QED BY <1>2, <1>3

LEMMA DeleteKeeps ==
  ASSUME Recorded
  PROVE  [i \in DOMAIN unhandled |-> [unhandled[i] EXCEPT !.rows = <<>>]] \in Seq(Entries)
<1> DEFINE e(i) == [unhandled[i] EXCEPT !.rows = <<>>]
<1>1. /\ Len(unhandled) \in Nat /\ DOMAIN unhandled = 1..Len(unhandled)
      /\ \A i \in 1..Len(unhandled) : unhandled[i] \in Entries
  BY DEF Recorded
<1>2. ASSUME NEW i \in 1..Len(unhandled) PROVE e(i) \in Entries
  <2>1. PICK u \in Entries : u = unhandled[i]
    BY <1>1
  <2>2. PICK d, w : d \in {Identifier(r) : r \in Requests} /\ u = [id |-> d, rows |-> w]
    BY EntryIs
  <2>3. e(i) = [id |-> d, rows |-> <<>>]
    BY <2>1, <2>2
  <2>4. <<>> \in Seq(Requests) /\ \A j \in DOMAIN <<>> : Identifier(<<>>[j]) = d
    OBVIOUS
  <2>5. [id |-> d, rows |-> <<>>] \in Entries
    BY <2>2, <2>4, EntryOf
  <2> QED BY <2>3, <2>5
<1>3. [i \in 1..Len(unhandled) |-> e(i)] \in Seq(Entries)
  <2> HIDE DEF e
  <2> QED BY <1>1, <1>2
<1> QED BY <1>1, <1>3
\* The prototypes are endpoints of the requests they were made from.
LEMMA AdoptKeeps == Inv /\ Adopt => IsConfiguration(endpoints') /\ Learnt'
<1> SUFFICES ASSUME Inv, Adopt PROVE IsConfiguration(endpoints') /\ Learnt'
  OBVIOUS
<1>1. PICK kept \in {<<>>, endpoints} : endpoints' = kept \o Prototypes
  BY DEF Adopt, PostConfig, Start, Becomes
<1>2. learnt' = UNION {Range(unhandled[i].rows) : i \in DOMAIN unhandled}
  BY DEF Adopt
<1>3. IsConfiguration(Prototypes)
      /\ \A i \in DOMAIN unhandled : unhandled[i].rows # <<>> =>
           \E k \in DOMAIN Prototypes : Prototypes[k] = Prototype(unhandled[i].rows)
  BY PrototypesAre DEF Inv
<1>4. IsConfiguration(kept)
  <2>1. IsConfiguration(<<>>)
    <3>1. <<>> \in Seq(Range(<<>>)) /\ DOMAIN <<>> = {}
      OBVIOUS
    <3> QED BY <3>1 DEF IsConfiguration
  <2> QED BY <1>1, <2>1 DEF Inv
<1>5. /\ IsConfiguration(endpoints')
      /\ \A k \in DOMAIN Prototypes : \E i \in DOMAIN endpoints' : endpoints'[i] = Prototypes[k]
  <2>1. /\ IsConfiguration(kept \o Prototypes)
        /\ \A k \in DOMAIN Prototypes :
             \E i \in DOMAIN (kept \o Prototypes) : (kept \o Prototypes)[i] = Prototypes[k]
    BY <1>3, <1>4, BothConfigured
  <2> QED BY <1>1, <2>1
<1>6. ASSUME NEW r \in learnt'
      PROVE  \E rows \in Seq(Requests) :
               /\ Range(rows) \subseteq learnt' /\ r \in Range(rows)
               /\ \A s \in Range(rows) : Identifier(s) = Identifier(r)
               /\ \E i \in DOMAIN endpoints' : endpoints'[i] = Prototype(rows)
  <2>1. PICK i \in DOMAIN unhandled : r \in Range(unhandled[i].rows)
    BY <1>2
  <2>2. unhandled[i] \in Entries
    <3>1. unhandled \in Seq(Entries)
      BY DEF Inv, Recorded
    <3> QED BY <3>1
  <2>3. PICK rows \in Seq(Requests) :
          rows = unhandled[i].rows /\ \A j \in DOMAIN rows : Identifier(rows[j]) = unhandled[i].id
    BY <2>2, EntryIs
  <2>4. Range(rows) \subseteq learnt' /\ r \in Range(rows)
    BY <1>2, <2>1, <2>3
  <2>5. \A s \in Range(rows) : Identifier(s) = unhandled[i].id
    BY <2>3 DEF Range
  <2>6. \A s \in Range(rows) : Identifier(s) = Identifier(r)
    BY <2>4, <2>5
  <2>7. rows # <<>>
    BY <2>4 DEF Range
  <2>8. PICK k \in DOMAIN Prototypes : Prototypes[k] = Prototype(rows)
    BY <1>3, <2>3, <2>7
  <2>9. \E m \in DOMAIN endpoints' : endpoints'[m] = Prototype(rows)
    BY <1>5, <2>8
  <2> QED BY <2>4, <2>6, <2>9
<1>7. Learnt'
  BY <1>6 DEF Learnt
<1> QED BY <1>5, <1>7

LEMMA StepKeeps == Inv /\ [Next]_vars => Inv'
<1> SUFFICES ASSUME Inv, [Next]_vars PROVE Inv'
  OBVIOUS
<1>1. ASSUME NEW r \in Requests, Ask(r) PROVE Inv'
  <2>1. UNCHANGED <<endpoints, learnt, source>> /\ unhandled' \in {Insert(r), unhandled}
    BY <1>1 DEF Ask
  <2>2. Recorded'
    BY <2>1, InsertKeeps DEF Inv, Recorded
  <2> QED BY <2>1, <2>2 DEF Inv, Learnt, Came
<1>2. ASSUME NEW on \in BOOLEAN, SetCapture(on) PROVE Inv'
  <2>1. UNCHANGED <<endpoints, learnt, source, unhandled>>
    BY <1>2 DEF SetCapture
  <2> QED BY <2>1 DEF Inv, Recorded, Learnt, Came
<1>3. CASE DeleteUnhandled
  <2>1. UNCHANGED <<endpoints, learnt, source>>
    BY <1>3 DEF DeleteUnhandled
  <2>2. Recorded'
    BY <1>3, DeleteKeeps DEF DeleteUnhandled, Inv, Recorded
  <2> QED BY <2>1, <2>2 DEF Inv, Learnt, Came
<1>4. ASSUME NEW c \in Posted, Post(c) PROVE Inv'
  <2>1. endpoints' = c /\ learnt' = {} /\ source' = NoDocument /\ unhandled' = unhandled
    BY <1>4 DEF Post, PostConfig, Becomes
  <2>2. IsConfiguration(endpoints')
    BY <2>1, DocumentsAssumption, Zenon
  <2> QED BY <2>1, <2>2 DEF Inv, Recorded, Learnt, Came
<1>5. CASE Adopt
  <2>1. IsConfiguration(endpoints') /\ Learnt'
    BY <1>5, AdoptKeeps
  <2>2. source' = NoDocument /\ unhandled' \in {unhandled, <<>>}
    BY <1>5 DEF Adopt, PostConfig, Start
  <2>3. Recorded'
    <3>1. unhandled \in Seq(Entries) /\ <<>> \in Seq(Entries)
      BY DEF Inv, Recorded
    <3> QED BY <2>2, <3>1 DEF Recorded
  <2> QED BY <2>1, <2>2, <2>3 DEF Inv, Came
<1>6. CASE Import
  <2>1. /\ endpoints' = Transpile(Document) /\ unhandled' = <<>>
        /\ learnt' = {} /\ source' = Document
    BY <1>6 DEF Import, Start, Becomes
  <2>2. GoodDocument(Document)
    BY DocumentGood DEF Inv
  <2>3. GoodDocument(source') /\ endpoints' = Transpile(source')
    BY <2>1, <2>2
  <2>4. IsConfiguration(endpoints')
    BY <2>1, <2>2, TranspileIs
  <2>5. Recorded' /\ Learnt'
    BY <2>1 DEF Recorded, Learnt
  <2>6. Came'
    BY <2>3 DEF Came
  <2> QED BY <2>4, <2>5, <2>6 DEF Inv
<1>7. CASE UNCHANGED vars
  BY <1>7 DEF vars, Inv, Recorded, Learnt, Came
<1> QED BY <1>1, <1>2, <1>3, <1>4, <1>5, <1>6, <1>7 DEF Next

(***************************************************************************)
(* Theorems.                                                               *)
(***************************************************************************)
\* Endpoints always are a configuration whose paths documents can write,
\* whatever was posted, adopted or imported; requests are recorded under what
\* identifies them, and those adopted have an endpoint made of theirs; a
\* service that came from a document has its endpoints.
THEOREM Configured == Spec => []Inv
<1>1. Init => Inv
  BY Initial
<1>2. Inv /\ [Next]_vars => Inv'
  BY StepKeeps
<1> QED BY <1>1, <1>2, PTL DEF Spec

\* A request that an all-static path fits is routed to none with parameters.
THEOREM StaticPathsFirst == Spec => []StaticFirst
<1>1. Inv => StaticFirst
  BY StaticGoesFirst DEF Inv
<1> QED BY <1>1, Configured, PTL

\* The requests behind the prototypes of GET /unhandled are answered by them.
THEOREM PrototypesAnswer == Spec => []LearntAnswered
<1>1. Inv => LearntAnswered
  BY AllAnswered DEF Inv
<1> QED BY <1>1, Configured, PTL

\* GET /oas has the path of every route, and under it each of its methods.
THEOREM PathsDocumented == Spec => []Documented
<1>1. Inv => Documented
  BY AllDocumented DEF Inv
<1> QED BY <1>1, Configured, PTL

\* A service started from a document answers with the statuses of it, and describes
\* itself by that document with 200 in their place.
THEOREM DocumentsReturn == Spec => []ComesBack
<1>1. Inv => ComesBack
  BY Returns DEF Inv
<1> QED BY <1>1, Configured, PTL
=============================================================================
