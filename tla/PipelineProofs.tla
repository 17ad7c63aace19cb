--------------------------- MODULE PipelineProofs ----------------------------
(***************************************************************************)
(* Theorems about Pipeline, whatever dies and restarts while it runs: what *)
(* the sort, the grouping and the merge of a batch keep of its reports;    *)
(* the mapping in force follows its files; rows cut off by a death are no  *)
(* more than the deaths; every report is in memory, in one row, or lost    *)
(* with a batch; contradicting reports go to an operator; and the tables   *)
(* agree with each other, up to the statement that is under way.           *)
(***************************************************************************)
EXTENDS Pipeline, SequenceTheorems, FiniteSetTheorems, WellFoundedInduction,
        FunctionTheorems, TLAPS

-----------------------------------------------------------------------------
(* INDUCTION *)

LessThan == {p \in Nat \X Nat : p[1] < p[2]}

(* Induction over the numbers, on the least one outside a set. *)
LEMMA Induction ==
  ASSUME NEW T, 0 \in T, \A n \in Nat : n \in T => n + 1 \in T
  PROVE  Nat \subseteq T
<1>1. IsWellFoundedOn(LessThan, Nat)
  <2>1. OpToRel(<, Nat) = LessThan
    BY DEF OpToRel, LessThan
  <2> QED
    BY <2>1, NatLessThanWellFounded
<1> DEFINE Out == Nat \ T
<1> SUFFICES ASSUME Out # {} PROVE FALSE
  OBVIOUS
<1>2. PICK m \in Out : \A y \in Out : ~(<<y, m>> \in LessThan)
  <2>1. Out \subseteq Nat
    OBVIOUS
  <2> HIDE DEF Out
  <2> QED
    BY <1>1, <2>1, WFMin
<1>3. m \in Nat /\ m # 0 /\ m - 1 \in Nat /\ <<m - 1, m>> \in LessThan
  BY DEF LessThan
<1> QED
  BY <1>2, <1>3

-----------------------------------------------------------------------------
(* SEQUENCES IN THE ORDER OF A KEY *)

(* The places that come before place i. *)
Earlier(key, i) == {j \in DOMAIN key : key[j] < key[i] \/ (key[j] = key[i] /\ j < i)}
PlaceOf(key, p) == CHOOSE i \in DOMAIN key : Cardinality(Earlier(key, i)) + 1 = p

LEMMA OrderedByPlace ==
  \A s, key : Ordered(s, key) = [p \in 1 .. Cardinality(DOMAIN key) |-> s[PlaceOf(key, p)]]
BY DEF Ordered, PlaceOf, Earlier

(* Each place has a rank of its own, so the ranks are the places of the result. *)
LEMMA Ranked ==
  ASSUME NEW D, IsFiniteSet(D), D \in SUBSET Nat, NEW key \in [D -> Int]
  PROVE  /\ Cardinality(D) \in Nat
         /\ \A p \in 1 .. Cardinality(D) : PlaceOf(key, p) \in D
         /\ \A p, q \in 1 .. Cardinality(D) : PlaceOf(key, p) = PlaceOf(key, q) => p = q
         /\ \A i \in D : \E p \in 1 .. Cardinality(D) : PlaceOf(key, p) = i
<1> DEFINE n == Cardinality(D)
           r == [i \in D |-> Cardinality(Earlier(key, i)) + 1]
<1>1. n \in Nat
  BY FS_CardinalityType
<1>2. ASSUME NEW i \in D
      PROVE  /\ Earlier(key, i) \subseteq D \ {i} /\ IsFiniteSet(Earlier(key, i))
             /\ Cardinality(Earlier(key, i)) \in Nat /\ r[i] \in 1 .. n
  <2>1. Earlier(key, i) \subseteq D \ {i}
    BY DEF Earlier
  <2>2. IsFiniteSet(D \ {i}) /\ Cardinality(D \ {i}) = n - 1
    BY FS_RemoveElement
  <2>3. IsFiniteSet(Earlier(key, i)) /\ Cardinality(Earlier(key, i)) <= n - 1
    BY <2>1, <2>2, FS_Subset
  <2>4. Cardinality(Earlier(key, i)) \in Nat
    BY <2>3, FS_CardinalityType
  <2> HIDE DEF n
  <2> QED
    BY <1>1, <2>1, <2>3, <2>4
<1>3. ASSUME NEW i \in D, NEW j \in D, j \in Earlier(key, i)
      PROVE  r[j] < r[i]
  <2>1. Earlier(key, j) \subseteq Earlier(key, i) /\ j \notin Earlier(key, j)
    <3>1. D = DOMAIN key /\ (\A x \in D : key[x] \in Int /\ x \in Nat)
      OBVIOUS
    <3>2. key[j] < key[i] \/ (key[j] = key[i] /\ j < i)
      BY <1>3 DEF Earlier
    <3>3. ASSUME NEW x \in D, key[x] < key[j] \/ (key[x] = key[j] /\ x < j)
          PROVE  key[x] < key[i] \/ (key[x] = key[i] /\ x < i)
      BY <3>1, <3>2, <3>3
    <3>4. Earlier(key, j) \subseteq Earlier(key, i)
      BY <3>1, <3>3 DEF Earlier
    <3>5. j \notin Earlier(key, j)
      BY <3>1 DEF Earlier
    <3> QED
      BY <3>4, <3>5
  <2>2. /\ Cardinality(Earlier(key, j)) <= Cardinality(Earlier(key, i))
        /\ Cardinality(Earlier(key, i)) # Cardinality(Earlier(key, j))
    BY <1>2, <1>3, <2>1, FS_Subset
  <2> QED
    BY <1>2, <2>2
<1>4. ASSUME NEW i \in D, NEW j \in D, i # j
      PROVE  r[i] # r[j]
  <2>1. i \in Earlier(key, j) \/ j \in Earlier(key, i)
    BY <1>4 DEF Earlier
  <2>2. r[i] \in Nat /\ r[j] \in Nat
    BY <1>1, <1>2
  <2> QED
    BY <1>3, <2>1, <2>2
<1>5. r \in Injection(D, 1 .. n)
  BY <1>2, <1>4 DEF Injection, IsInjective
<1>6. IsFiniteSet(1 .. n) /\ Cardinality(1 .. n) = n
  <2> HIDE DEF n
  <2> QED
    BY <1>1, FS_Interval
<1>7. r \in Surjection(D, 1 .. n)
  BY <1>5, <1>6, FS_Injection
<1>8. \A p \in 1 .. n : \E i \in D : r[i] = p
  BY <1>7 DEF Surjection
<1>9. ASSUME NEW p \in 1 .. n
      PROVE  PlaceOf(key, p) \in D /\ r[PlaceOf(key, p)] = p
  <2>1. \E i \in DOMAIN key : Cardinality(Earlier(key, i)) + 1 = p
    BY <1>8, <1>9
  <2>2. PlaceOf(key, p) \in DOMAIN key /\ Cardinality(Earlier(key, PlaceOf(key, p))) + 1 = p
    BY <2>1 DEF PlaceOf
  <2> QED
    BY <2>2
<1>10. ASSUME NEW i \in D
       PROVE  PlaceOf(key, r[i]) = i
  <2>1. r[i] \in 1 .. n
    BY <1>2
  <2> QED
    BY <1>4, <1>9, <2>1
<1> HIDE DEF r, n
<1>11. \A p, q \in 1 .. n : PlaceOf(key, p) = PlaceOf(key, q) => p = q
  BY <1>9
<1>12. \A i \in D : \E p \in 1 .. n : PlaceOf(key, p) = i
  BY <1>2, <1>10
<1> QED
  BY <1>1, <1>9, <1>11, <1>12 DEF n

(* t is the elements of s at the places D, in some order. *)
Arranges(t, s, D) ==
  /\ t \in Seq(Range(t))
  /\ \E f \in [DOMAIN t -> D] :
       /\ \A p \in DOMAIN t : t[p] = s[f[p]]
       /\ \A p, q \in DOMAIN t : f[p] = f[q] => p = q
       /\ \A i \in D : \E p \in DOMAIN t : f[p] = i

LEMMA OrderedArranges ==
  ASSUME NEW s, s \in Seq(Range(s)), NEW D \in SUBSET (DOMAIN s), NEW key \in [D -> Int]
  PROVE  Arranges(Ordered(s, key), s, D)
<1> DEFINE n == Cardinality(D)
           t == Ordered(s, key)
           f == [p \in 1 .. n |-> PlaceOf(key, p)]
           N == Len(s)
<1>1. N \in Nat /\ DOMAIN s = 1 .. N
  OBVIOUS
<1>2. IsFiniteSet(D) /\ D \in SUBSET Nat
  <2> HIDE DEF N
  <2>1. IsFiniteSet(1 .. N)
    BY <1>1, FS_Interval
  <2> QED
    BY <1>1, <2>1, FS_Subset
<1>3. t = [p \in 1 .. n |-> s[PlaceOf(key, p)]]
  BY OrderedByPlace
<1>4. /\ n \in Nat
      /\ \A p \in 1 .. n : PlaceOf(key, p) \in D
      /\ \A p, q \in 1 .. n : PlaceOf(key, p) = PlaceOf(key, q) => p = q
      /\ \A i \in D : \E p \in 1 .. n : PlaceOf(key, p) = i
  <2> HIDE DEF n, t, f, N
  <2> QED
    BY <1>2, Ranked DEF n
<1>5. DOMAIN t = 1 .. n /\ f \in [DOMAIN t -> D] /\ \A p \in DOMAIN t : t[p] = s[f[p]]
  BY <1>3, <1>4
<1>6. t \in Seq(Range(t))
  <2> DEFINE R == Range(t)
  <2>1. t = [p \in 1 .. n |-> t[p]] /\ \A p \in 1 .. n : t[p] \in R
    BY <1>3, <1>5 DEF Range
  <2> HIDE DEF t, n, R, f
  <2>2. t \in [1 .. n -> R]
    BY <2>1
  <2>3. t \in Seq(R)
    BY <1>4, <2>2, SeqDef
  <2> QED
    BY <2>3 DEF R
<1>7. /\ \A p, q \in DOMAIN t : f[p] = f[q] => p = q
      /\ \A i \in D : \E p \in DOMAIN t : f[p] = i
  BY <1>4, <1>5
<1> HIDE DEF t, f, n
<1> QED
  BY <1>5, <1>6, <1>7 DEF Arranges, t

LEMMA ChosenArranges ==
  ASSUME NEW s, s \in Seq(Range(s)), NEW D \in SUBSET (DOMAIN s)
  PROVE  Arranges(Chosen(s, D), s, D)
<1>1. [k \in D |-> k] \in [D -> Int]
  OBVIOUS
<1> QED
  BY <1>1, OrderedArranges DEF Chosen

-----------------------------------------------------------------------------
(* SEQUENCES OF SEQUENCES *)

IsFlattening(f, s) == f = [i \in 1 .. Len(s) |-> IF i = 1 THEN s[i] ELSE f[i - 1] \o s[i]]
Flattens(f, s, k)  == \A i \in 1 .. k : f[i] = IF i = 1 THEN s[i] ELSE f[i - 1] \o s[i]

LEMMA FlattenType ==
  ASSUME NEW S, NEW s \in Seq(Seq(S))
  PROVE  FlattenSeq(s) \in Seq(S)
<1> DEFINE n == Len(s)
           step(f, i) == IF i = 1 THEN s[i] ELSE f[i - 1] \o s[i]
           g == CHOOSE f : IsFlattening(f, s)
<1>1. n \in Nat /\ \A i \in 1 .. n : s[i] \in Seq(S)
  OBVIOUS
<1>2. FlattenSeq(s) = IF n = 0 THEN s ELSE g[n]
  BY DEF FlattenSeq, IsFlattening
<1>3. CASE n = 0
  <2>1. s = <<>>
    BY <1>3
  <2> QED
    BY <1>2, <1>3, <2>1
<1> DEFINE T == {k \in Nat : k <= n => \E f \in [1 .. k -> Seq(S)] : Flattens(f, s, k)}
<1>4. 0 \in T
  <2>1. 1 .. 0 = {} /\ [x \in {} |-> s] \in [{} -> Seq(S)]
    OBVIOUS
  <2> QED
    BY <2>1 DEF Flattens
<1>5. ASSUME NEW k \in Nat, k \in T PROVE k + 1 \in T
  <2>2. ASSUME k + 1 <= n PROVE \E f \in [1 .. k + 1 -> Seq(S)] : Flattens(f, s, k + 1)
    <3>0. PICK f \in [1 .. k -> Seq(S)] : Flattens(f, s, k)
      BY <1>1, <1>5, <2>2
    <3>1. \A i \in 1 .. k : f[i] = step(f, i)
      BY <3>0 DEF Flattens
    <3> DEFINE h == [i \in 1 .. k + 1 |-> IF i = k + 1 THEN step(f, i) ELSE f[i]]
    <3>2. step(f, k + 1) \in Seq(S)
      <4>1. CASE k = 0
        BY <1>1, <2>2, <4>1
      <4>2. CASE k # 0
        <5>1. f[k] \in Seq(S) /\ s[k + 1] \in Seq(S)
          BY <1>1, <2>2, <4>2
        <5> HIDE DEF n
        <5> QED
          BY <4>2, <5>1, ConcatProperties
      <4> QED
        BY <4>1, <4>2
    <3>3. h \in [1 .. k + 1 -> Seq(S)]
      <4> HIDE DEF step
      <4> QED
        BY <3>2
    <3>4. \A i \in 1 .. k + 1 : i # 1 => h[i - 1] = f[i - 1]
      <4> HIDE DEF step
      <4> QED
        OBVIOUS
    <3>5. \A i \in 1 .. k + 1 : h[i] = step(f, i)
      <4>1. \A i \in 1 .. k : h[i] = f[i]
        <5> HIDE DEF step
        <5> QED
          OBVIOUS
      <4>2. h[k + 1] = step(f, k + 1)
        <5> HIDE DEF step
        <5> QED
          OBVIOUS
      <4> HIDE DEF h, step
      <4> QED
        BY <3>1, <4>1, <4>2
    <3> HIDE DEF h
    <3>6. Flattens(h, s, k + 1)
      BY <3>4, <3>5 DEF Flattens
    <3> QED
      BY <3>3, <3>6
  <2> HIDE DEF n
  <2> QED
    BY <2>2
<1> HIDE DEF T
<1>6. n \in T
  BY <1>1, <1>4, <1>5, Induction
<1>7. PICK f \in [1 .. n -> Seq(S)] : \A i \in 1 .. n : f[i] = step(f, i)
  BY <1>1, <1>6 DEF T, Flattens
<1>8. IsFlattening(f, s)
  <2>1. f = [i \in 1 .. n |-> f[i]]
    BY <1>7
  <2> DEFINE q == [i \in 1 .. n |-> step(f, i)]
  <2>2. f = q
    <3> HIDE DEF step
    <3> QED
      BY <1>7, <2>1
  <2> QED
    BY <2>2 DEF IsFlattening
<1>9. IsFlattening(g, s)
  BY <1>8
<1> HIDE DEF g
<1>10. \A i \in 1 .. n : g[i] = step(g, i)
  BY <1>9 DEF IsFlattening
<1> DEFINE Q == {k \in Nat : k \in 1 .. n => g[k] \in Seq(S)}
<1>11. 0 \in Q
  BY <1>1
<1>12. ASSUME NEW k \in Nat, k \in Q PROVE k + 1 \in Q
  <2> SUFFICES ASSUME k + 1 \in 1 .. n PROVE g[k + 1] \in Seq(S)
    OBVIOUS
  <2>1. g[k + 1] = step(g, k + 1) /\ s[k + 1] \in Seq(S)
    BY <1>1, <1>10
  <2>2. CASE k = 0
    BY <2>1, <2>2
  <2>3. CASE k # 0
    <3>0. k \in 1 .. n /\ k + 1 # 1 /\ (k + 1) - 1 = k
      BY <1>1, <2>3
    <3>1. g[k] \in Seq(S) /\ g[k + 1] = g[k] \o s[k + 1]
      BY <1>12, <2>1, <3>0
    <3> HIDE DEF n, step, Q
    <3> QED
      BY <2>1, <3>1, ConcatProperties
  <2> QED
    BY <2>2, <2>3
<1> HIDE DEF Q
<1>13. CASE n # 0
  <2>1. Nat \subseteq Q
    BY <1>11, <1>12, Induction
  <2>2. n \in Q /\ n \in 1 .. n
    BY <1>1, <1>13, <2>1
  <2> QED
    BY <1>2, <1>13, <2>2 DEF Q
<1> QED
  BY <1>3, <1>13

-----------------------------------------------------------------------------
(* GROUPS *)

Elements(gs) == UNION {Range(gs[x]) : x \in DOMAIN gs}

(* Groups of updates of U, none of them empty, and no update twice; an update *)
(* without an entity to refer to is alone.                                    *)
Keyed(s) == \A i \in DOMAIN s : i # 1 => EntityKey(s[i]) # None /\ EntityKey(s[1]) # None
Flock(gs, U) ==
  /\ gs \in Seq(Seq(U))
  /\ \A x \in DOMAIN gs : gs[x] # <<>> /\ Keyed(gs[x])
  /\ \A x, y \in DOMAIN gs : \A i \in DOMAIN gs[x], j \in DOMAIN gs[y] :
       gs[x][i] = gs[y][j] => x = y /\ i = j

LEMMA Extend ==
  ASSUME NEW U, NEW s \in Seq(U), NEW u \in U
  PROVE  /\ Append(s, u) \in Seq(U) /\ Append(s, u) # <<>>
         /\ Len(s) \in Nat /\ DOMAIN s = 1 .. Len(s)
         /\ DOMAIN Append(s, u) = 1 .. Len(s) + 1
         /\ \A i \in DOMAIN s : Append(s, u)[i] = s[i]
         /\ Append(s, u)[Len(s) + 1] = u
         /\ Range(Append(s, u)) = Range(s) \union {u}
<1> DEFINE r == Append(s, u)
           n == Len(s)
<1>1. n \in Nat /\ DOMAIN s = 1 .. n
  OBVIOUS
<1>2. r \in Seq(U) /\ Len(r) = n + 1 /\ (\A i \in 1 .. n : r[i] = s[i]) /\ r[n + 1] = u
  BY AppendProperties
<1>3. DOMAIN r = 1 .. n + 1 /\ r # <<>>
  BY <1>1, <1>2
<1> HIDE DEF r, n
<1>4. Range(r) = Range(s) \union {u}
  <2>1. \A x \in Range(r) : x \in Range(s) \union {u}
    BY <1>1, <1>2, <1>3 DEF Range
  <2>2. \A x \in Range(s) \union {u} : x \in Range(r)
    BY <1>1, <1>2, <1>3 DEF Range
  <2> QED
    BY <2>1, <2>2
<1> QED
  BY <1>1, <1>2, <1>3, <1>4 DEF r, n

(* The next update goes into one group, and nothing else changes. *)
LEMMA PlaceFlock ==
  ASSUME NEW U, NEW gs, Flock(gs, U), NEW u \in U, u \notin Elements(gs)
  PROVE  Flock(Place(gs, u), U) /\ Elements(Place(gs, u)) = Elements(gs) \union {u}
<1> DEFINE hs == Place(gs, u)
           n  == Len(gs)
<1>1. n \in Nat /\ DOMAIN gs = 1 .. n /\ gs \in Seq(Seq(U)) /\ \A x \in DOMAIN gs : gs[x] \in Seq(U)
  BY DEF Flock
<1>2. \A x \in DOMAIN gs : \A i \in DOMAIN gs[x] : gs[x][i] # u
  BY DEF Elements, Range
<1>3. CASE \E g \in DOMAIN gs : Joins(u, gs[g])
  <2> DEFINE g == CHOOSE g \in DOMAIN gs : Joins(u, gs[g])
  <2>1. g \in DOMAIN gs /\ hs = [gs EXCEPT ![g] = Append(@, u)]
    BY <1>3 DEF Place
  <2>c. EntityKey(u) # None /\ EntityKey(u) = EntityKey(gs[g][1])
    BY <1>3 DEF Joins
  <2> HIDE DEF g, hs, n
  <2> DEFINE w == gs[g]
             r == Append(w, u)
             m == Len(w)
  <2>a. w \in Seq(U)
    BY <1>1, <2>1
  <2> HIDE DEF w
  <2>2. /\ r \in Seq(U) /\ r # <<>> /\ m \in Nat /\ DOMAIN w = 1 .. m /\ DOMAIN r = 1 .. m + 1
        /\ \A i \in DOMAIN w : r[i] = w[i]
        /\ r[m + 1] = u
        /\ Range(r) = Range(w) \union {u}
    BY <2>a, Extend
  <2>b. hs = [gs EXCEPT ![g] = r]
    BY <2>1 DEF w
  <2> HIDE DEF r, m
  <2>3. /\ hs \in Seq(Seq(U)) /\ DOMAIN hs = DOMAIN gs /\ hs[g] = r
        /\ \A x \in DOMAIN gs : x # g => hs[x] = gs[x]
    BY <1>1, <2>1, <2>2, <2>b
  <2>4. ASSUME NEW x \in DOMAIN hs PROVE hs[x] # <<>> /\ Keyed(hs[x])
    <3>1. CASE x = g
      <4>1. Keyed(w) /\ w # <<>>
        BY <2>1 DEF Flock, w
      <4>2. 1 \in DOMAIN w
        BY <2>2, <4>1
      <4>3. \A i \in DOMAIN r : i \in DOMAIN w \/ i = m + 1
        BY <2>2
      <4>4. EntityKey(u) # None /\ EntityKey(w[1]) # None
        BY <2>c DEF w
      <4> HIDE DEF w
      <4>5. Keyed(r)
        BY <2>2, <4>1, <4>2, <4>3, <4>4 DEF Keyed
      <4> QED
        BY <2>2, <2>3, <3>1, <4>5
    <3>2. CASE x # g
      BY <2>3, <3>2 DEF Flock
    <3> QED
      BY <3>1, <3>2
  <2>5. ASSUME NEW x \in DOMAIN hs, NEW i \in DOMAIN hs[x]
        PROVE  \/ i \in DOMAIN gs[x] /\ hs[x][i] = gs[x][i]
               \/ x = g /\ i = m + 1 /\ hs[x][i] = u
    <3>1. CASE x = g
      <4>1. i \in DOMAIN w \/ i = m + 1
        BY <2>2, <2>3, <3>1
      <4> QED
        BY <2>2, <2>3, <3>1, <4>1 DEF w
    <3>2. CASE x # g
      BY <2>3, <3>2
    <3> QED
      BY <3>1, <3>2
  <2>6. ASSUME NEW x \in DOMAIN hs, NEW y \in DOMAIN hs,
               NEW i \in DOMAIN hs[x], NEW j \in DOMAIN hs[y], hs[x][i] = hs[y][j]
        PROVE  x = y /\ i = j
    <3>1. \/ i \in DOMAIN gs[x] /\ hs[x][i] = gs[x][i]
          \/ x = g /\ i = m + 1 /\ hs[x][i] = u
      BY <2>5
    <3>2. \/ j \in DOMAIN gs[y] /\ hs[y][j] = gs[y][j]
          \/ y = g /\ j = m + 1 /\ hs[y][j] = u
      BY <2>5
    <3>3. x \in DOMAIN gs /\ y \in DOMAIN gs
      BY <2>3
    <3> QED
      BY <1>2, <2>6, <3>1, <3>2, <3>3 DEF Flock
  <2>7. Elements(hs) = Elements(gs) \union {u}
    <3>1. \A x \in DOMAIN gs : Range(hs[x]) = IF x = g THEN Range(gs[x]) \union {u} ELSE Range(gs[x])
      BY <2>2, <2>3 DEF w
    <3>2. \A e \in Elements(hs) : e \in Elements(gs) \union {u}
      BY <2>3, <3>1 DEF Elements
    <3>3. ASSUME NEW e \in Elements(gs) \union {u} PROVE e \in Elements(hs)
      <4>1. CASE e = u
        <5>1. g \in DOMAIN hs /\ u \in Range(hs[g])
          BY <2>1, <2>3, <3>1
        <5> QED
          BY <4>1, <5>1 DEF Elements
      <4>2. CASE e \in Elements(gs)
        <5>1. PICK x \in DOMAIN gs : e \in Range(gs[x])
          BY <4>2 DEF Elements
        <5>2. x \in DOMAIN hs /\ e \in Range(hs[x])
          BY <2>3, <3>1, <5>1
        <5> QED
          BY <5>2 DEF Elements
      <4> QED
        BY <4>1, <4>2
    <3> QED
      BY <3>2, <3>3
  <2> QED
    BY <2>3, <2>4, <2>6, <2>7 DEF Flock, hs
<1>4. CASE ~\E g \in DOMAIN gs : Joins(u, gs[g])
  <2>1. hs = Append(gs, <<u>>)
    BY <1>4 DEF Place
  <2> HIDE DEF hs
  <2>2. <<u>> \in Seq(U) /\ <<u>> # <<>> /\ DOMAIN <<u>> = {1} /\ <<u>>[1] = u
    OBVIOUS
  <2> DEFINE v == <<u>>
             V == Seq(U)
  <2>3. v \in V /\ gs \in Seq(V)
    BY <1>1, <2>2
  <2> HIDE DEF v, V
  <2>4. /\ hs \in Seq(V) /\ DOMAIN hs = 1 .. n + 1 /\ n \in Nat /\ DOMAIN gs = 1 .. n
        /\ \A x \in DOMAIN gs : hs[x] = gs[x]
        /\ hs[n + 1] = v
    BY <2>1, <2>3, Extend DEF v
  <2> HIDE DEF n
  <2>6. \A x \in DOMAIN hs : x \in DOMAIN gs \/ x = n + 1
    BY <2>4
  <2>5. \A x \in DOMAIN hs : hs[x] # <<>> /\ Keyed(hs[x])
    <3>1. v # <<>> /\ Keyed(v)
      BY <2>2 DEF v, Keyed
    <3> QED
      BY <2>4, <2>6, <3>1 DEF Flock
  <2>7. ASSUME NEW x \in DOMAIN hs, NEW y \in DOMAIN hs,
               NEW i \in DOMAIN hs[x], NEW j \in DOMAIN hs[y], hs[x][i] = hs[y][j]
        PROVE  x = y /\ i = j
    <3>1. CASE x \in DOMAIN gs /\ y \in DOMAIN gs
      BY <2>4, <2>7, <3>1 DEF Flock
    <3>2. CASE x = n + 1 /\ y = n + 1
      BY <2>2, <2>4, <3>2 DEF v
    <3>3. CASE x \in DOMAIN gs /\ y = n + 1
      BY <1>2, <2>2, <2>4, <2>7, <3>3 DEF v
    <3>4. CASE y \in DOMAIN gs /\ x = n + 1
      BY <1>2, <2>2, <2>4, <2>7, <3>4 DEF v
    <3> QED
      BY <2>6, <3>1, <3>2, <3>3, <3>4
  <2>8. Elements(hs) = Elements(gs) \union {u}
    <3>1. Range(v) = {u}
      BY <2>2 DEF Range, v
    <3>2. \A x \in DOMAIN gs : x \in DOMAIN hs /\ Range(hs[x]) = Range(gs[x])
      BY <2>4
    <3>3. n + 1 \in DOMAIN hs /\ Range(hs[n + 1]) = {u}
      BY <2>4, <3>1
    <3> QED
      BY <2>6, <3>2, <3>3 DEF Elements
  <2> QED
    BY <2>4, <2>5, <2>7, <2>8 DEF Flock, hs, V
<1> QED
  BY <1>3, <1>4

(* The groups after each of the updates. *)
IsPlaced(g, s) ==
  g = [n \in 0 .. Len(s) |-> IF n = 0 THEN <<>> ELSE Place(g[n - 1], s[n])]
PlacesUpTo(g, s, k) == g[0] = <<>> /\ \A n \in 1 .. k : g[n] = Place(g[n - 1], s[n])

LEMMA PlacedExists ==
  ASSUME NEW s, Len(s) \in Nat
  PROVE  \E g : IsPlaced(g, s)
<1> DEFINE N == Len(s)
           T == {k \in Nat : \E g : DOMAIN g = 0 .. k /\ PlacesUpTo(g, s, k)}
<1>1. 0 \in T
  <2> DEFINE g == [n \in 0 .. 0 |-> <<>>]
  <2>1. DOMAIN g = 0 .. 0 /\ g[0] = <<>>
    OBVIOUS
  <2>2. 1 .. 0 = {}
    OBVIOUS
  <2> HIDE DEF g
  <2>3. PlacesUpTo(g, s, 0)
    BY <2>1, <2>2 DEF PlacesUpTo
  <2> QED
    BY <2>1, <2>3
<1>2. ASSUME NEW k \in Nat, k \in T PROVE k + 1 \in T
  <2>1. PICK g : DOMAIN g = 0 .. k /\ PlacesUpTo(g, s, k)
    BY <1>2
  <2> DEFINE h == [n \in 0 .. k + 1 |-> IF n = k + 1 THEN Place(g[k], s[k + 1]) ELSE g[n]]
  <2>2. DOMAIN h = 0 .. k + 1 /\ h[k + 1] = Place(g[k], s[k + 1]) /\ \A n \in 0 .. k : h[n] = g[n]
    OBVIOUS
  <2> HIDE DEF h
  <2>3. h[0] = <<>>
    BY <2>1, <2>2 DEF PlacesUpTo
  <2>4. ASSUME NEW n \in 1 .. k + 1 PROVE h[n] = Place(h[n - 1], s[n])
    <3>1. n - 1 \in 0 .. k /\ h[n - 1] = g[n - 1]
      BY <2>2
    <3>2. CASE n = k + 1
      BY <2>2, <3>1, <3>2
    <3>3. CASE n # k + 1
      <4>1. n \in 1 .. k /\ n \in 0 .. k
        BY <3>3
      <4> QED
        BY <2>1, <2>2, <3>1, <4>1 DEF PlacesUpTo
    <3> QED
      BY <3>2, <3>3
  <2>5. PlacesUpTo(h, s, k + 1)
    BY <2>3, <2>4 DEF PlacesUpTo
  <2> QED
    BY <2>2, <2>5
<1> HIDE DEF T
<1>3. N \in T
  BY <1>1, <1>2, Induction
<1>4. PICK g : DOMAIN g = 0 .. N /\ PlacesUpTo(g, s, N)
  BY <1>3 DEF T
<1> DEFINE h == [n \in 0 .. N |-> g[n]]
           q == [n \in 0 .. N |-> IF n = 0 THEN <<>> ELSE Place(h[n - 1], s[n])]
<1> HIDE DEF N
<1>5. ASSUME NEW n \in 0 .. N PROVE h[n] = q[n]
  <2>1. CASE n = 0
    BY <1>4, <2>1 DEF PlacesUpTo
  <2>2. CASE n # 0
    <3>1. n \in 1 .. N /\ n - 1 \in 0 .. N
      BY <2>2 DEF N
    <3> QED
      BY <1>4, <2>2, <3>1 DEF PlacesUpTo
  <2> QED
    BY <2>1, <2>2
<1>6. h = [n \in 0 .. N |-> h[n]] /\ q = [n \in 0 .. N |-> q[n]]
  OBVIOUS
<1>7. h = q
  <2> HIDE DEF h, q
  <2> QED
    BY <1>5, <1>6
<1>8. IsPlaced(h, s)
  <2>1. h = [n \in 0 .. N |-> IF n = 0 THEN <<>> ELSE Place(h[n - 1], s[n])]
    BY <1>7
  <2> HIDE DEF h, q
  <2> QED
    BY <2>1 DEF IsPlaced, N
<1> HIDE DEF h
<1> QED
  BY <1>8

(* Every update of a batch is in one place of one group, and nothing else is. *)
LEMMA GroupsFlock ==
  ASSUME NEW U, NEW s \in Seq(U), \A i, j \in DOMAIN s : s[i] = s[j] => i = j
  PROVE  Flock(GroupsOf(s), U) /\ Elements(GroupsOf(s)) = Range(s)
<1> DEFINE g == CHOOSE g : IsPlaced(g, s)
           N == Len(s)
<1>1. N \in Nat /\ DOMAIN s = 1 .. N /\ \A i \in 1 .. N : s[i] \in U
  OBVIOUS
<1>2. GroupsOf(s) = g[N]
  BY DEF GroupsOf, IsPlaced
<1>3. IsPlaced(g, s)
  BY <1>1, PlacedExists
<1> HIDE DEF g
<1>4. g[0] = <<>> /\ \A n \in 1 .. N : g[n] = Place(g[n - 1], s[n])
  BY <1>1, <1>3 DEF IsPlaced
<1> HIDE DEF N
<1> DEFINE First(k) == {s[i] : i \in 1 .. k}
           T == {k \in Nat : k <= N => Flock(g[k], U) /\ Elements(g[k]) = First(k)}
<1>5. 0 \in T
  <2>1. <<>> \in Seq(Seq(U)) /\ DOMAIN <<>> = {} /\ 1 .. 0 = {}
    OBVIOUS
  <2>2. Flock(<<>>, U) /\ Elements(<<>>) = {} /\ First(0) = {}
    BY <2>1 DEF Flock, Elements
  <2> QED
    BY <1>4, <2>2
<1>6. ASSUME NEW k \in Nat, k \in T PROVE k + 1 \in T
  <2>1. ASSUME k + 1 <= N
        PROVE  Flock(g[k + 1], U) /\ Elements(g[k + 1]) = First(k + 1)
    <3>1. Flock(g[k], U) /\ Elements(g[k]) = First(k)
      BY <1>1, <1>6, <2>1
    <3>2. k + 1 \in 1 .. N /\ s[k + 1] \in U
      BY <1>1, <2>1
    <3>3. g[k + 1] = Place(g[k], s[k + 1])
      <4>1. (k + 1) - 1 = k
        OBVIOUS
      <4> QED
        BY <1>4, <3>2, <4>1
    <3>4. s[k + 1] \notin First(k)
      BY <1>1, <3>2
    <3>5. First(k + 1) = First(k) \union {s[k + 1]}
      OBVIOUS
    <3> HIDE DEF First
    <3> DEFINE gs == g[k]
               u  == s[k + 1]
    <3>6. Flock(gs, U) /\ u \in U /\ u \notin Elements(gs)
      BY <3>1, <3>2, <3>4
    <3> HIDE DEF gs, u
    <3>7. Flock(Place(gs, u), U) /\ Elements(Place(gs, u)) = Elements(gs) \union {u}
      BY <3>6, PlaceFlock
    <3> QED
      BY <3>1, <3>3, <3>5, <3>7 DEF gs, u
  <2> HIDE DEF First
  <2> QED
    BY <2>1
<1> HIDE DEF T
<1>7. N \in T
  BY <1>1, <1>5, <1>6, Induction
<1>8. First(N) = Range(s)
  BY <1>1 DEF Range
<1> HIDE DEF First
<1> QED
  BY <1>1, <1>2, <1>7, <1>8 DEF T

-----------------------------------------------------------------------------
(* UPDATES AND THEIR REPORTS *)

Whole(u) == IsUpdate(u) /\ (u.kind = "none" => u.entities = <<>>)

(* An update that nothing was merged into: it stands for one report. *)
Alone(u) == Whole(u) /\ u.from \in Seq(Nat) /\ Len(u.from) = 1
Own(u)   == u.from[1]

IsFresh(batch) ==
  /\ batch \in Seq(Range(batch))
  /\ \A k \in DOMAIN batch : Alone(batch[k])
  /\ \A k, l \in DOMAIN batch : Own(batch[k]) = Own(batch[l]) => k = l

StatsOK == speakerStats \in [Speakers -> [confirmed : Nat, total : Nat]]

LEMMA ClampType == \A c \in Int : Clamp(c) \in 0 .. 1000
BY DEF Clamp

LEMMA AdjustmentType ==
  ASSUME NEW s \in [confirmed : Nat, total : Nat]
  PROVE  Adjustment(s) \in Int
<1>1. s.confirmed \in Nat /\ s.total \in Nat
  OBVIOUS
<1>2. CASE s.total = 0
  BY <1>2 DEF Adjustment
<1>3. CASE s.total # 0
  <2> DEFINE a == 200 * s.confirmed
             b == s.total
  <2>1. a \in Int /\ b \in Nat \ {0}
    BY <1>1, <1>3
  <2> HIDE DEF a, b
  <2>2. a \div b \in Int
    BY <2>1
  <2>3. Adjustment(s) = (a \div b) - 100
    BY <1>3 DEF Adjustment, a, b
  <2> QED
    BY <2>2, <2>3
<1> QED
  BY <1>2, <1>3

(* The scores change the confidence alone. *)
SameBut(v, u) ==
  /\ DOMAIN v = DOMAIN u
  /\ \A x \in DOMAIN u : x # "conf" => v[x] = u[x]

LEMMA NewConfidence ==
  ASSUME NEW u, IsUpdate(u), NEW c \in Int
  PROVE  /\ IsUpdate([u EXCEPT !.conf = Clamp(c)])
         /\ SameBut([u EXCEPT !.conf = Clamp(c)], u)
<1> DEFINE v == [u EXCEPT !.conf = Clamp(c)]
<1>1. "conf" \in DOMAIN u
  BY DEF IsUpdate
<1>2. DOMAIN v = DOMAIN u /\ v.conf = Clamp(c) /\ \A x \in DOMAIN u : x # "conf" => v[x] = u[x]
  BY <1>1
<1>3. v.conf \in 0 .. 1000
  BY <1>2, ClampType
<1> HIDE DEF v
<1>4. SameBut(v, u)
  BY <1>2 DEF SameBut
<1>5. /\ v.ts = u.ts /\ v.channel = u.channel /\ v.speaker = u.speaker /\ v.kind = u.kind
      /\ v.suspect = u.suspect /\ v.entities = u.entities
  BY <1>2 DEF IsUpdate
<1>6. IsUpdate(v)
  BY <1>2, <1>3, <1>5 DEF IsUpdate
<1> QED
  BY <1>4, <1>6 DEF v

LEMMA SameButTwice ==
  ASSUME NEW u, NEW v, NEW w, SameBut(v, u), SameBut(w, v)
  PROVE  SameBut(w, u)
BY DEF SameBut

LEMMA UpdateBut ==
  ASSUME NEW u, NEW v, IsUpdate(u), DOMAIN v = DOMAIN u,
         v.ts = u.ts, v.channel = u.channel, v.speaker = u.speaker, v.kind = u.kind,
         v.suspect = u.suspect, v.entities = u.entities, v.conf = u.conf
  PROVE  IsUpdate(v)
<1>1. v.conf \in 0 .. 1000 /\ v.ts \in Nat
  BY Zenon DEF IsUpdate
<1>2. v.entities \in Seq({v.entities[k] : k \in DOMAIN v.entities})
  <2> DEFINE Sequence(s) == s \in Seq({s[k] : k \in DOMAIN s})
  <2>1. Sequence(u.entities)
    BY Zenon DEF IsUpdate
  <2> HIDE DEF Sequence
  <2>2. Sequence(v.entities)
    BY <2>1
  <2> QED
    BY <2>2 DEF Sequence
<1> QED
  BY <1>1, <1>2, Zenon DEF IsUpdate

LEMMA UpdateFields ==
  ASSUME NEW u, IsUpdate(u)
  PROVE  u.conf \in Int /\ u.conf \in 0 .. 1000 /\ u.speaker \in Speakers
<1>1. u.conf \in 0 .. 1000 /\ u.speaker \in Speakers
  BY Zenon DEF IsUpdate
<1> QED
  BY <1>1

LEMMA ScoredUpdate ==
  ASSUME StatsOK, NEW u, IsUpdate(u)
  PROVE  LET v == Trusted(Penalised(Scanned(u)))
         IN  IsUpdate(v) /\ SameBut(v, u)
<1>1. ASSUME NEW x, IsUpdate(x) PROVE IsUpdate(Scanned(x)) /\ SameBut(Scanned(x), x)
  <2>1. x.conf - InjectionPenalty \in Int
    BY <1>1, UpdateFields DEF InjectionPenalty
  <2>2. SameBut(x, x)
    BY DEF SameBut
  <2> QED
    BY <1>1, <2>1, <2>2, NewConfidence DEF Scanned
<1>2. ASSUME NEW x, IsUpdate(x) PROVE IsUpdate(Penalised(x)) /\ SameBut(Penalised(x), x)
  <2>1. x.conf - SttPenalty \in Int
    BY <1>2, UpdateFields DEF SttPenalty
  <2>2. SameBut(x, x)
    BY DEF SameBut
  <2> QED
    BY <1>2, <2>1, <2>2, NewConfidence DEF Penalised
<1>3. ASSUME NEW x, IsUpdate(x) PROVE IsUpdate(Trusted(x)) /\ SameBut(Trusted(x), x)
  <2>1. speakerStats[x.speaker] \in [confirmed : Nat, total : Nat] /\ x.conf \in Int
    BY <1>3, UpdateFields DEF StatsOK
  <2>2. x.conf + Adjustment(speakerStats[x.speaker]) \in Int
    BY <2>1, AdjustmentType
  <2> QED
    BY <1>3, <2>2, NewConfidence DEF Trusted
<1> DEFINE a == Scanned(u)
           b == Penalised(a)
           c == Trusted(b)
<1>4. IsUpdate(a) /\ SameBut(a, u)
  BY <1>1
<1>5. IsUpdate(b) /\ SameBut(b, a)
  BY <1>2, <1>4
<1>6. IsUpdate(c) /\ SameBut(c, b)
  BY <1>3, <1>5
<1> HIDE DEF a, b, c
<1>7. IsUpdate(c) /\ SameBut(c, u)
  BY <1>4, <1>5, <1>6, SameButTwice
<1> QED
  BY <1>7 DEF a, b, c

LEMMA ScoredFresh ==
  ASSUME StatsOK, NEW batch, IsFresh(batch)
  PROVE  /\ IsFresh(Scored(batch)) /\ DOMAIN Scored(batch) = DOMAIN batch
         /\ \A k \in DOMAIN batch : /\ Scored(batch)[k].from = batch[k].from
                                    /\ Scored(batch)[k].entities = batch[k].entities
                                    /\ Scored(batch)[k].kind = batch[k].kind
<1> DEFINE s == Scored(batch)
           N == Len(batch)
<1>1. N \in Nat /\ DOMAIN batch = 1 .. N
  BY DEF IsFresh
<1>2. DOMAIN s = 1 .. N /\ s = [k \in 1 .. N |-> s[k]]
      /\ \A k \in 1 .. N : s[k] = Trusted(Penalised(Scanned(batch[k])))
  BY <1>1 DEF Scored
<1> HIDE DEF s, N
<1>3. ASSUME NEW k \in 1 .. N
      PROVE  /\ IsUpdate(s[k]) /\ s[k].from = batch[k].from /\ s[k].entities = batch[k].entities
             /\ s[k].kind = batch[k].kind
  <2> DEFINE u == batch[k]
             v == s[k]
  <2>1. IsUpdate(u)
    BY <1>1 DEF IsFresh, Alone, Whole
  <2>2. v = Trusted(Penalised(Scanned(u)))
    BY <1>2
  <2> HIDE DEF u, v
  <2>3. IsUpdate(v) /\ SameBut(v, u)
    BY <2>1, <2>2, ScoredUpdate
  <2>4. v.from = u.from /\ v.entities = u.entities /\ v.kind = u.kind
    BY <2>1, <2>3 DEF SameBut, IsUpdate
  <2> QED
    BY <2>3, <2>4 DEF u, v
<1>4. s \in Seq(Range(s))
  <2> DEFINE R == Range(s)
  <2>1. \A k \in 1 .. N : s[k] \in R
    BY <1>2 DEF Range
  <2> HIDE DEF R
  <2>2. s \in [1 .. N -> R]
    BY <1>2, <2>1
  <2>3. s \in Seq(R)
    BY <1>1, <2>2, SeqDef
  <2> QED
    BY <2>3 DEF R
<1>5. \A k \in DOMAIN s : Alone(s[k])
  BY <1>1, <1>2, <1>3 DEF IsFresh, Alone, Whole
<1>6. \A k, l \in DOMAIN s : Own(s[k]) = Own(s[l]) => k = l
  BY <1>1, <1>2, <1>3 DEF IsFresh, Own
<1>7. IsFresh(s)
  BY <1>4, <1>5, <1>6 DEF IsFresh
<1> QED
  BY <1>1, <1>2, <1>3, <1>7 DEF s

-----------------------------------------------------------------------------
(* MERGING *)

(* What is kept of a group stands for each of its reports once; if two of them *)
(* contradict each other it has lost confidence; and it is of kind "none" when *)
(* all of them are.                                                            *)
Keeps(u, G) ==
  /\ Whole(u) /\ u.from \in Seq(Nat)
  /\ u.kind = "none" => \A v \in G : v.kind = "none"
  /\ \A i, j \in DOMAIN u.from : u.from[i] = u.from[j] => i = j
  /\ Range(u.from) = {Own(v) : v \in G}
  /\ (\E a, b \in G : a # b /\ Contradict(a, b)) => u.conf <= 1000 - ContradictionPenalty

Feedback == [channel : Channels, speaker : Speakers,
             type : {"contradicted", "corroborated", "deduplicated"}]

LEMMA SignalsType ==
  ASSUME NEW s, s \in Seq(Range(s)), \A k \in DOMAIN s : IsUpdate(s[k]),
         NEW what \in {"contradicted", "corroborated", "deduplicated"}
  PROVE  Signals(s, what) \in Seq(Feedback)
<1> DEFINE n == Len(s)
           t == Signals(s, what)
<1>1. n \in Nat /\ DOMAIN s = 1 .. n
  OBVIOUS
<1>2. t = [k \in 1 .. n |-> Signal(s[k], what)]
  BY <1>1 DEF Signals
<1>3. ASSUME NEW k \in 1 .. n PROVE Signal(s[k], what) \in Feedback
  <2>1. IsUpdate(s[k])
    BY <1>1
  <2>2. s[k].channel \in Channels /\ s[k].speaker \in Speakers
    BY <2>1, Zenon DEF IsUpdate
  <2> QED
    BY <2>2 DEF Signal, Feedback
<1> HIDE DEF t, n
<1>4. t \in [1 .. n -> Feedback]
  BY <1>2, <1>3
<1> QED
  BY <1>1, <1>4, SeqDef DEF t

LEMMA OnlyElement ==
  ASSUME NEW x \in Seq(Nat), Len(x) = 1
  PROVE  x[1] \in Nat /\ Head(x) = x[1]
<1>1. x \in [1 .. Len(x) -> Nat]
  BY LenProperties
<1>2. x \in [1 .. 1 -> Nat] /\ 1 \in 1 .. 1
  BY <1>1
<1> QED
  BY <1>2

(* The heads of the sorted group. *)
LEMMA Provenance ==
  ASSUME NEW s, s \in Seq(Range(s)), s # <<>>, \A k \in DOMAIN s : Alone(s[k])
  PROVE  LET f == s[1].from \o [k \in DOMAIN Tail(s) |-> Head(Tail(s)[k].from)]
         IN  f \in Seq(Nat) /\ DOMAIN f = DOMAIN s /\ \A k \in DOMAIN s : f[k] = Own(s[k])
<1> DEFINE n == Len(s)
           h == [k \in DOMAIN Tail(s) |-> Head(Tail(s)[k].from)]
           g == s[1].from
           f == g \o h
<1>1. n \in Nat \ {0} /\ DOMAIN s = 1 .. n
  OBVIOUS
<1>2. DOMAIN Tail(s) = 1 .. n - 1 /\ \A k \in 1 .. n - 1 : Tail(s)[k] = s[k + 1]
  BY <1>1
<1>3. ASSUME NEW k \in 1 .. n
      PROVE  s[k].from \in Seq(Nat) /\ Len(s[k].from) = 1 /\ Own(s[k]) \in Nat
             /\ Head(s[k].from) = Own(s[k])
  <2>1. s[k].from \in Seq(Nat) /\ Len(s[k].from) = 1
    BY <1>1 DEF Alone
  <2> DEFINE x == s[k].from
  <2>2. Own(s[k]) = x[1]
    BY DEF Own
  <2> HIDE DEF x
  <2>3. x \in Seq(Nat) /\ Len(x) = 1
    BY <2>1 DEF x
  <2>4. x[1] \in Nat /\ Head(x) = x[1]
    BY <2>3, OnlyElement
  <2> QED
    BY <2>1, <2>2, <2>4 DEF x
<1>4. h = [k \in 1 .. n - 1 |-> Own(s[k + 1])]
  <2>1. \A k \in 1 .. n - 1 : k + 1 \in 1 .. n /\ Head(Tail(s)[k].from) = Own(s[k + 1])
    BY <1>1, <1>2, <1>3
  <2> QED
    BY <1>2, <2>1
<1>5. g \in Seq(Nat) /\ Len(g) = 1 /\ g[1] = Own(s[1])
  BY <1>1, <1>3 DEF Own
<1> HIDE DEF g, h, n
<1>6. h \in Seq(Nat) /\ Len(h) = n - 1
  <2>1. n - 1 \in Nat /\ \A k \in 1 .. n - 1 : Own(s[k + 1]) \in Nat
    BY <1>1, <1>3
  <2>2. h \in [1 .. n - 1 -> Nat]
    BY <1>4, <2>1
  <2>3. h \in Seq(Nat)
    BY <2>1, <2>2, SeqDef
  <2> QED
    BY <2>1, <2>2, <2>3
<1> HIDE DEF f
<1>7. /\ f \in Seq(Nat) /\ Len(f) = n
      /\ \A k \in 1 .. n : f[k] = IF k <= Len(g) THEN g[k] ELSE h[k - Len(g)]
  <2>1. /\ g \o h \in Seq(Nat) /\ Len(g \o h) = Len(g) + Len(h)
        /\ \A k \in 1 .. Len(g) + Len(h) : (g \o h)[k] = IF k <= Len(g) THEN g[k] ELSE h[k - Len(g)]
    BY <1>5, <1>6, ConcatProperties
  <2>2. Len(g) + Len(h) = n
    BY <1>1, <1>5, <1>6
  <2> QED
    BY <2>1, <2>2 DEF f
<1>8. ASSUME NEW k \in 1 .. n PROVE f[k] = Own(s[k])
  <2>1. f[k] = IF k <= Len(g) THEN g[k] ELSE h[k - Len(g)]
    BY <1>7
  <2>2. CASE k = 1
    BY <1>5, <2>1, <2>2
  <2>3. CASE k # 1
    <3>1. k - 1 \in 1 .. n - 1 /\ (k - 1) + 1 = k
      BY <1>1, <2>3
    <3> QED
      BY <1>4, <1>5, <2>1, <2>3, <3>1
  <2> QED
    BY <2>2, <2>3
<1>9. DOMAIN f = 1 .. n
  BY <1>7
<1> QED
  BY <1>1, <1>7, <1>8, <1>9 DEF f, g, h

(* The update that is kept of a group. *)
LEMMA MergeKeeps ==
  ASSUME NEW group, IsFresh(group), group # <<>>, \A v \in Range(group) : v.kind # "none"
  PROVE  /\ Keeps(Merge(group).kept, Range(group))
         /\ Merge(group).feedback \in Seq(Feedback)
<1> DEFINE key     == [k \in DOMAIN group |-> -group[k].conf]
           s       == Ordered(group, key)
           primary == Head(s)
           others  == Tail(s)
           disputed == \E a, b \in Range(group) : a # b /\ Contradict(a, b)
           verdict == Verdict(disputed, Cardinality({u.channel : u \in Range(group)}) > 1)
           change  == CASE verdict = "contradicted" -> -ContradictionPenalty
                        [] verdict = "corroborated" -> CorroborationBoost
                        [] verdict = "deduplicated" -> 0
           losers  == Chosen(others, {k \in DOMAIN others : Contradict(primary, others[k])})
           from    == primary.from \o [k \in DOMAIN others |-> Head(others[k].from)]
           kept    == [primary EXCEPT !.conf = Clamp(@ + change),
                          !.from = @ \o [k \in DOMAIN others |-> Head(others[k].from)]]
           feedback == IF verdict = "contradicted"
                       THEN Append(Signals(losers, verdict), Signal(primary, "corroborated"))
                       ELSE Signals(s, verdict)
<1>1. Merge(group).kept = kept /\ Merge(group).feedback = feedback
  BY DEF Merge
<1>2. key \in [DOMAIN group -> Int]
  <2>1. \A k \in DOMAIN group : group[k].conf \in 0 .. 1000
    BY DEF IsFresh, Alone, Whole, IsUpdate
  <2>2. \A c \in 0 .. 1000 : -c \in Int
    OBVIOUS
  <2>3. \A k \in DOMAIN group : -group[k].conf \in Int
    BY <2>1, <2>2
  <2> QED
    BY <2>3
<1>3. Arranges(s, group, DOMAIN group)
  <2> HIDE DEF key
  <2> QED
    BY <1>2, OrderedArranges DEF IsFresh
<1> HIDE DEF s, key
<1>4. PICK f \in [DOMAIN s -> DOMAIN group] :
        /\ \A p \in DOMAIN s : s[p] = group[f[p]]
        /\ \A p, q \in DOMAIN s : f[p] = f[q] => p = q
        /\ \A i \in DOMAIN group : \E p \in DOMAIN s : f[p] = i
  BY <1>3 DEF Arranges
<1>5. /\ s \in Seq(Range(s)) /\ Len(s) \in Nat /\ DOMAIN s = 1 .. Len(s) /\ s # <<>>
  <2>1. s \in Seq(Range(s))
    BY <1>3 DEF Arranges
  <2>2. 1 \in DOMAIN group
    BY DEF IsFresh
  <2>3. DOMAIN s # {}
    BY <1>4, <2>2
  <2>4. DOMAIN <<>> = {}
    OBVIOUS
  <2>5. Len(s) \in Nat /\ DOMAIN s = 1 .. Len(s)
    BY <2>1, LenProperties
  <2> QED
    BY <2>1, <2>3, <2>4, <2>5
<1>6. \A p \in DOMAIN s : Alone(s[p]) /\ s[p] \in Range(group)
  BY <1>4 DEF IsFresh, Range
<1>7. \A p, q \in DOMAIN s : Own(s[p]) = Own(s[q]) => p = q
  BY <1>4 DEF IsFresh
<1>8. /\ 1 \in DOMAIN s /\ primary = s[1]
      /\ others \in Seq(Range(others))
      /\ \A k \in DOMAIN others : k + 1 \in DOMAIN s /\ others[k] = s[k + 1]
  <2>1. others \in Seq(Range(s)) /\ Len(others) = Len(s) - 1 /\ DOMAIN others = 1 .. Len(s) - 1
    BY <1>5, HeadTailProperties
  <2>2. \A k \in DOMAIN others : k + 1 \in DOMAIN s /\ others[k] = s[k + 1]
    BY <1>5, <2>1
  <2>3. 1 \in DOMAIN s /\ primary = s[1]
    BY <1>5
  <2>4. others \in Seq(Range(others))
    <3> DEFINE R == Range(others)
               m == Len(s) - 1
    <3>1. m \in Nat
      BY <1>5, <2>3
    <3>2. others \in [1 .. m -> R]
      <4>1. others = [k \in 1 .. m |-> others[k]]
        <5> DEFINE S == Range(s)
        <5>1. others \in Seq(S) /\ Len(others) = m
          BY <2>1
        <5> HIDE DEF others, m, S
        <5>2. others \in [1 .. m -> S]
          BY <5>1, LenProperties
        <5> QED
          BY <5>2
      <4>2. \A k \in 1 .. m : others[k] \in R
        BY <2>1 DEF Range
      <4> HIDE DEF others, m, R
      <4> QED
        BY <4>1, <4>2
    <3> HIDE DEF R, m, others
    <3>3. others \in Seq(R)
      BY <3>1, <3>2, SeqDef
    <3> QED
      BY <3>3 DEF R
  <2> QED
    BY <2>2, <2>3, <2>4
<1>9. from \in Seq(Nat) /\ DOMAIN from = DOMAIN s /\ \A k \in DOMAIN s : from[k] = Own(s[k])
  BY <1>5, <1>6, <1>8, Provenance
<1> HIDE DEF others, primary
<1>10. verdict \in {"contradicted", "corroborated", "deduplicated"} /\ (disputed => verdict = "contradicted")
  BY DEF Verdict
<1> HIDE DEF verdict
<1>11. change \in Int /\ (disputed => change = -200)
  BY <1>10 DEF ContradictionPenalty, CorroborationBoost
<1>12. Whole(primary) /\ primary.kind # "none"
  BY <1>6, <1>8 DEF Alone
<1> DEFINE c == primary.conf + change
           u == [primary EXCEPT !.conf = Clamp(c)]
<1> HIDE DEF change
<1>13. c \in Int /\ primary.conf <= 1000
  <2> DEFINE w == primary.conf
  <2>1. w \in 0 .. 1000
    BY <1>12 DEF Whole, IsUpdate
  <2> HIDE DEF w
  <2>2. w \in Int /\ w <= 1000 /\ w + change \in Int
    BY <1>11, <2>1
  <2> QED
    BY <2>2 DEF w
<1>14. /\ kept.from = from /\ kept.conf = Clamp(c) /\ DOMAIN kept = DOMAIN u
       /\ \A x \in DOMAIN u : x # "from" => kept[x] = u[x]
  <2>1. "conf" \in DOMAIN primary /\ "from" \in DOMAIN primary
    BY <1>12 DEF Whole, IsUpdate
  <2> QED
    BY <2>1
<1> HIDE DEF from, kept
<1>15. Whole(kept) /\ kept.kind # "none"
  <2> HIDE DEF c
  <2>1. IsUpdate(u) /\ SameBut(u, primary)
    BY <1>12, <1>13, NewConfidence DEF Whole
  <2>2. u.kind # "none"
    BY <1>12, <2>1 DEF SameBut, Whole, IsUpdate
  <2> HIDE DEF u
  <2>3. /\ DOMAIN kept = DOMAIN u /\ kept.ts = u.ts /\ kept.channel = u.channel
        /\ kept.speaker = u.speaker /\ kept.kind = u.kind /\ kept.suspect = u.suspect
        /\ kept.entities = u.entities /\ kept.conf = u.conf
    <3>1. DOMAIN u = {"from", "ts", "channel", "speaker", "kind", "conf", "suspect", "entities"}
      BY <2>1, Zenon DEF IsUpdate
    <3> QED
      BY <1>14, <3>1
  <2>4. IsUpdate(kept)
    BY <2>1, <2>3, UpdateBut
  <2> QED
    BY <2>2, <2>3, <2>4 DEF Whole
<1>16. \A i, j \in DOMAIN kept.from : kept.from[i] = kept.from[j] => i = j
  BY <1>7, <1>9, <1>14
<1>17. Range(kept.from) = {Own(v) : v \in Range(group)}
  <2>1. \A x \in Range(kept.from) : x \in {Own(v) : v \in Range(group)}
    BY <1>6, <1>9, <1>14 DEF Range
  <2>2. ASSUME NEW i \in DOMAIN group PROVE Own(group[i]) \in Range(kept.from)
    <3>1. PICK p \in DOMAIN s : f[p] = i
      BY <1>4
    <3>2. s[p] = group[i]
      BY <1>4, <3>1
    <3> QED
      BY <1>9, <1>14, <3>2 DEF Range
  <2>3. \A v \in Range(group) : \E i \in DOMAIN group : v = group[i]
    BY DEF Range
  <2> QED
    BY <2>1, <2>2, <2>3
<1>18. disputed => kept.conf <= 1000 - ContradictionPenalty
  <2> SUFFICES ASSUME disputed PROVE kept.conf <= 1000 - ContradictionPenalty
    OBVIOUS
  <2>1. c <= 800
    <3> DEFINE w == primary.conf
    <3>1. change = -200 /\ w <= 1000 /\ w \in Int
      <4>1. w \in 0 .. 1000
        BY <1>12 DEF Whole, IsUpdate
      <4> HIDE DEF w
      <4>2. w <= 1000 /\ w \in Int
        BY <4>1
      <4> QED
        BY <1>11, <4>2
    <3> HIDE DEF w
    <3>2. w + change <= 800
      BY <3>1
    <3> QED
      BY <3>2 DEF w
  <2> HIDE DEF c
  <2> QED
    BY <1>13, <1>14, <2>1 DEF Clamp, ContradictionPenalty
<1>19. feedback \in Seq(Feedback)
  <2>1. \A k \in DOMAIN s : IsUpdate(s[k])
    BY <1>6 DEF Alone, Whole
  <2>2. Signals(s, verdict) \in Seq(Feedback)
    BY <1>5, <1>10, <2>1, SignalsType
  <2> DEFINE D == {k \in DOMAIN others : Contradict(primary, others[k])}
  <2>3. Arranges(losers, others, D)
    BY <1>8, ChosenArranges
  <2> HIDE DEF losers
  <2>4. losers \in Seq(Range(losers)) /\ \A k \in DOMAIN losers : IsUpdate(losers[k])
    <3>1. losers \in Seq(Range(losers)) /\ \A k \in DOMAIN losers : \E i \in D : losers[k] = others[i]
      BY <2>3 DEF Arranges
    <3>2. \A i \in D : IsUpdate(others[i])
      BY <1>8, <2>1
    <3> HIDE DEF D
    <3> QED
      BY <3>1, <3>2
  <2>5. Signals(losers, verdict) \in Seq(Feedback)
    BY <1>10, <2>4, SignalsType
  <2>6. Signal(primary, "corroborated") \in Feedback
    BY <1>12 DEF Signal, Feedback, Whole, IsUpdate
  <2>7. Append(Signals(losers, verdict), Signal(primary, "corroborated")) \in Seq(Feedback)
    BY <2>5, <2>6, AppendProperties
  <2> QED
    BY <2>2, <2>7
<1>20. kept.from \in Seq(Nat)
  BY <1>9, <1>14
<1> HIDE DEF feedback
<1> QED
  BY <1>1, <1>15, <1>16, <1>17, <1>18, <1>19, <1>20 DEF Keeps

LEMMA NoneHasNoKey ==
  ASSUME NEW u, Whole(u), u.kind = "none"
  PROVE  EntityKey(u) = None
<1>1. DOMAIN u.entities = {}
  BY DEF Whole
<1> QED
  BY <1>1 DEF EntityKey

LEMMA ResolveKeeps ==
  ASSUME NEW group, IsFresh(group), group # <<>>, Keyed(group)
  PROVE  /\ Keeps(Resolve(group).kept, Range(group))
         /\ Resolve(group).feedback \in Seq(Feedback)
<1>1. CASE Len(group) # 1
  <2>1. group \in Seq(Range(group)) /\ Len(group) \in Nat /\ DOMAIN group = 1 .. Len(group)
    BY DEF IsFresh
  <2>2. 2 \in DOMAIN group
    BY <1>1, <2>1
  <2>3. \A k \in DOMAIN group : EntityKey(group[k]) # None
    BY <2>2 DEF Keyed
  <2>4. ASSUME NEW k \in DOMAIN group PROVE group[k].kind # "none"
    BY <2>3, NoneHasNoKey DEF IsFresh, Alone
  <2>5. \A v \in Range(group) : v.kind # "none"
    BY <2>4 DEF Range
  <2> QED
    BY <1>1, <2>5, MergeKeeps DEF Resolve
<1>2. CASE Len(group) = 1
  <2> DEFINE u == group[1]
  <2>1. Resolve(group) = [kept |-> u, feedback |-> <<>>]
    BY <1>2 DEF Resolve
  <2>2. group \in Seq(Range(group)) /\ DOMAIN group = 1 .. 1
    BY <1>2 DEF IsFresh
  <2>3. Alone(u) /\ Range(group) = {u}
    <3>1. \A k \in DOMAIN group : k = 1
      BY <2>2
    <3> QED
      BY <2>2, <3>1 DEF IsFresh, Range
  <2> HIDE DEF u
  <2>4. u.from \in Seq(Nat) /\ DOMAIN u.from = 1 .. 1
    BY <2>3 DEF Alone
  <2>5. \A k \in DOMAIN u.from : k = 1
    BY <2>4
  <2>6. Range(u.from) = {Own(u)}
    <3>1. 1 \in DOMAIN u.from
      BY <2>4
    <3> QED
      BY <2>5, <3>1 DEF Range, Own
  <2>7. {Own(v) : v \in {u}} = {Own(u)}
    OBVIOUS
  <2>8. Keeps(u, Range(group))
    BY <2>3, <2>4, <2>5, <2>6, <2>7 DEF Keeps, Alone
  <2>9. <<>> \in Seq(Feedback)
    OBVIOUS
  <2> QED
    BY <2>1, <2>8, <2>9
<1> QED
  BY <1>1, <1>2

-----------------------------------------------------------------------------
(* WHAT FUSION RETURNS *)

Reports(us) == UNION {Range(us[k].from) : k \in DOMAIN us}

(* No report is there twice. *)
Spread(us) ==
  \A k, l \in DOMAIN us : \A i \in DOMAIN us[k].from, j \in DOMAIN us[l].from :
    us[k].from[i] = us[l].from[j] => k = l /\ i = j

Sound(us) ==
  /\ us \in Seq(Range(us)) /\ Spread(us)
  /\ \A k \in DOMAIN us : Whole(us[k]) /\ us[k].from \in Seq(Nat)

(* The updates that stand for contradicting ones of the batch have lost confidence. *)
Doubted(us, batch) ==
  \A k \in DOMAIN us :
    (\E a, b \in Range(batch) : /\ Own(a) # Own(b) /\ Contradict(a, b)
                                /\ Own(a) \in Range(us[k].from) /\ Own(b) \in Range(us[k].from))
      => us[k].conf <= 1000 - ContradictionPenalty

(* Those of kind "none" stand for such ones of the batch. *)
Silent(us, batch) ==
  \A k \in DOMAIN us : \A v \in Range(batch) :
    us[k].kind = "none" /\ Own(v) \in Range(us[k].from) => v.kind = "none"

LEMMA FreshReports ==
  ASSUME NEW b, IsFresh(b)
  PROVE  /\ Sound(b) /\ Reports(b) = {Own(u) : u \in Range(b)}
         /\ \A k \in DOMAIN b : Range(b[k].from) = {Own(b[k])}
<1>1. ASSUME NEW k \in DOMAIN b
      PROVE  /\ b[k].from \in Seq(Nat) /\ DOMAIN b[k].from = {1} /\ b[k].from[1] = Own(b[k])
             /\ Range(b[k].from) = {Own(b[k])}
  <2> DEFINE f == b[k].from
  <2>1. f \in Seq(Nat) /\ Len(f) = 1
    BY DEF IsFresh, Alone
  <2>2. f[1] = Own(b[k])
    BY DEF Own
  <2> HIDE DEF f
  <2>3. DOMAIN f = {1}
    BY <2>1
  <2>4. Range(f) = {f[1]}
    BY <2>3 DEF Range
  <2> QED
    BY <2>1, <2>2, <2>3, <2>4 DEF f
<1>2. Spread(b)
  BY <1>1 DEF Spread, IsFresh
<1>3. Sound(b)
  BY <1>1, <1>2 DEF Sound, IsFresh, Alone
<1>4. Reports(b) = {Own(u) : u \in Range(b)}
  <2>1. Reports(b) = UNION {{Own(b[k])} : k \in DOMAIN b}
    BY <1>1 DEF Reports
  <2>2. \A u \in Range(b) : \E k \in DOMAIN b : u = b[k]
    BY DEF Range
  <2>3. \A k \in DOMAIN b : b[k] \in Range(b)
    BY DEF Range
  <2> QED
    BY <2>1, <2>2, <2>3
<1> QED
  BY <1>1, <1>3, <1>4

(* One group each is kept of fused updates. *)
LEMMA FusedKeeps ==
  ASSUME NEW b, IsFresh(b), NEW gs, Flock(gs, Range(b)), Elements(gs) = Range(b)
  PROVE  LET us == [g \in DOMAIN gs |-> Resolve(gs[g]).kept]
             fs == [g \in DOMAIN gs |-> Resolve(gs[g]).feedback]
         IN  /\ Sound(us) /\ Reports(us) = Reports(b) /\ Doubted(us, b) /\ Silent(us, b)
             /\ fs \in Seq(Seq(Feedback))
<1> DEFINE us == [g \in DOMAIN gs |-> Resolve(gs[g]).kept]
           fs == [g \in DOMAIN gs |-> Resolve(gs[g]).feedback]
           U  == Range(b)
           n  == Len(gs)
<1>1. n \in Nat /\ DOMAIN gs = 1 .. n /\ gs \in Seq(Seq(U))
  BY DEF Flock
<1>2. \A u, v \in U : Own(u) = Own(v) => u = v
  BY DEF IsFresh, Range
<1>3. \A u \in U : Alone(u)
  BY DEF IsFresh, Range
<1>4. ASSUME NEW g \in DOMAIN gs
      PROVE  IsFresh(gs[g]) /\ gs[g] # <<>> /\ Keyed(gs[g]) /\ Range(gs[g]) \subseteq U
  <2> DEFINE s == gs[g]
  <2>1. s \in Seq(U) /\ s # <<>> /\ Keyed(s)
    BY <1>1 DEF Flock
  <2>2. \A i, j \in DOMAIN s : s[i] = s[j] => i = j
    BY DEF Flock
  <2> HIDE DEF s, U
  <2>3. DOMAIN s = 1 .. Len(s) /\ Len(s) \in Nat /\ \A i \in DOMAIN s : s[i] \in U
    BY <2>1, LenProperties
  <2>4. s \in Seq(Range(s))
    <3> DEFINE R == Range(s)
               N == Len(s)
    <3>1. s \in [1 .. N -> U]
      BY <2>1, LenProperties
    <3>2. \A i \in 1 .. N : s[i] \in R
      BY <2>3 DEF Range
    <3> HIDE DEF R, N
    <3>3. s \in [1 .. N -> R]
      BY <3>1, <3>2
    <3>4. s \in Seq(R)
      BY <2>3, <3>3, SeqDef DEF N
    <3> QED
      BY <3>4 DEF R
  <2>5. IsFresh(s)
    BY <1>2, <1>3, <2>2, <2>3, <2>4 DEF IsFresh
  <2>6. Range(s) \subseteq U
    BY <2>3 DEF Range
  <2> QED
    BY <2>1, <2>5, <2>6 DEF s
<1>5. ASSUME NEW g \in DOMAIN gs
      PROVE  Keeps(us[g], Range(gs[g])) /\ fs[g] \in Seq(Feedback)
  <2>1. us[g] = Resolve(gs[g]).kept /\ fs[g] = Resolve(gs[g]).feedback
    OBVIOUS
  <2> HIDE DEF us, fs
  <2> QED
    BY <1>4, <2>1, ResolveKeeps
<1>6. /\ DOMAIN us = 1 .. n /\ us = [g \in 1 .. n |-> us[g]]
      /\ fs = [g \in 1 .. n |-> fs[g]]
  BY <1>1
<1> HIDE DEF us, fs, n
<1>7. us \in Seq(Range(us))
  <2> DEFINE R == Range(us)
  <2>1. \A g \in 1 .. n : us[g] \in R
    BY <1>6 DEF Range
  <2> HIDE DEF R
  <2>2. us \in [1 .. n -> R]
    BY <1>6, <2>1
  <2>3. us \in Seq(R)
    BY <1>1, <2>2, SeqDef
  <2> QED
    BY <2>3 DEF R
<1>8. fs \in Seq(Seq(Feedback))
  <2> DEFINE F == Seq(Feedback)
  <2>1. \A g \in 1 .. n : fs[g] \in F
    BY <1>1, <1>5
  <2> HIDE DEF F
  <2>2. fs \in [1 .. n -> F]
    BY <1>6, <2>1
  <2>3. fs \in Seq(F)
    BY <1>1, <2>2, SeqDef
  <2> QED
    BY <2>3 DEF F
<1>9. ASSUME NEW g \in DOMAIN gs, NEW m \in Range(us[g].from)
      PROVE  \E u \in Range(gs[g]) : u \in U /\ Own(u) = m
  <2>1. Range(us[g].from) = {Own(v) : v \in Range(gs[g])}
    BY <1>5 DEF Keeps
  <2>2. PICK u \in Range(gs[g]) : Own(u) = m
    BY <2>1
  <2>3. u \in U
    BY <1>4
  <2> QED
    BY <2>2, <2>3
<1>10. ASSUME NEW g \in DOMAIN gs, NEW h \in DOMAIN gs,
              NEW u, u \in Range(gs[g]), u \in Range(gs[h])
       PROVE  g = h
  <2>1. PICK i \in DOMAIN gs[g] : gs[g][i] = u
    BY <1>10 DEF Range
  <2>2. PICK j \in DOMAIN gs[h] : gs[h][j] = u
    BY <1>10 DEF Range
  <2> QED
    BY <2>1, <2>2 DEF Flock
<1>11. Spread(us)
  <2> SUFFICES ASSUME NEW g \in DOMAIN us, NEW h \in DOMAIN us, NEW i \in DOMAIN us[g].from,
                      NEW j \in DOMAIN us[h].from, us[g].from[i] = us[h].from[j]
               PROVE  g = h /\ i = j
    BY DEF Spread
  <2> DEFINE m == us[g].from[i]
  <2>1. m \in Range(us[g].from) /\ m \in Range(us[h].from)
    BY DEF Range
  <2>2. g \in DOMAIN gs /\ h \in DOMAIN gs
    BY <1>1, <1>6
  <2>3. PICK u \in Range(gs[g]) : u \in U /\ Own(u) = m
    <3> HIDE DEF m, U
    <3> QED
      BY <1>9, <2>1, <2>2
  <2>4. PICK v \in Range(gs[h]) : v \in U /\ Own(v) = m
    <3> HIDE DEF m, U
    <3> QED
      BY <1>9, <2>1, <2>2
  <2>5. u = v
    <3> HIDE DEF m, U
    <3> QED
      BY <1>2, <2>3, <2>4
  <2>6. g = h
    BY <1>10, <2>2, <2>3, <2>4, <2>5
  <2>7. Keeps(us[g], Range(gs[g]))
    BY <1>5, <2>2
  <2> QED
    BY <2>6, <2>7 DEF Keeps
<1>12. Sound(us)
  BY <1>1, <1>5, <1>6, <1>7, <1>11 DEF Sound, Keeps
<1>13. Reports(us) = Reports(b)
  <2>1. Reports(b) = {Own(u) : u \in U}
    BY FreshReports
  <2>2. ASSUME NEW x \in Reports(us) PROVE x \in Reports(b)
    <3>1. PICK g \in DOMAIN us : x \in Range(us[g].from)
      BY DEF Reports
    <3>2. \E u \in U : Own(u) = x
      BY <1>1, <1>6, <1>9, <3>1
    <3> QED
      BY <2>1, <3>2
  <2>3. ASSUME NEW x \in Reports(b) PROVE x \in Reports(us)
    <3>1. PICK u \in U : x = Own(u)
      BY <2>1
    <3>2. PICK g \in DOMAIN gs : u \in Range(gs[g])
      BY DEF Elements
    <3>3. Range(us[g].from) = {Own(v) : v \in Range(gs[g])} /\ g \in DOMAIN us
      BY <1>1, <1>5, <1>6 DEF Keeps
    <3>4. x \in Range(us[g].from)
      BY <3>1, <3>2, <3>3
    <3> QED
      BY <3>3, <3>4 DEF Reports
  <2> QED
    BY <2>2, <2>3
<1>14. Doubted(us, b)
  <2> SUFFICES ASSUME NEW g \in DOMAIN us, NEW v \in U, NEW w \in U,
                      Own(v) # Own(w), Contradict(v, w),
                      Own(v) \in Range(us[g].from), Own(w) \in Range(us[g].from)
               PROVE  us[g].conf <= 1000 - ContradictionPenalty
    BY DEF Doubted
  <2>1. g \in DOMAIN gs
    BY <1>1, <1>6
  <2> HIDE DEF U
  <2>2. v \in Range(gs[g]) /\ w \in Range(gs[g])
    BY <1>2, <1>9, <2>1
  <2>3. v # w
    OBVIOUS
  <2> QED
    BY <1>5, <2>1, <2>2, <2>3 DEF Keeps
<1>15. Silent(us, b)
  <2> SUFFICES ASSUME NEW g \in DOMAIN us, NEW v \in U, us[g].kind = "none",
                      Own(v) \in Range(us[g].from)
               PROVE  v.kind = "none"
    BY DEF Silent
  <2>1. g \in DOMAIN gs
    BY <1>1, <1>6
  <2> HIDE DEF U
  <2>2. v \in Range(gs[g])
    BY <1>2, <1>9, <2>1
  <2> QED
    BY <1>5, <2>1, <2>2 DEF Keeps
<1> QED
  BY <1>8, <1>12, <1>13, <1>14, <1>15 DEF us, fs

LEMMA ArrangedSound ==
  ASSUME NEW s, Sound(s), NEW D, D \subseteq DOMAIN s, NEW t, Arranges(t, s, D)
  PROVE  /\ Sound(t) /\ Reports(t) = UNION {Range(s[k].from) : k \in D}
         /\ \A batch : Doubted(s, batch) => Doubted(t, batch)
<1>1. PICK f \in [DOMAIN t -> D] :
        /\ \A p \in DOMAIN t : t[p] = s[f[p]]
        /\ \A p, q \in DOMAIN t : f[p] = f[q] => p = q
        /\ \A i \in D : \E p \in DOMAIN t : f[p] = i
  BY DEF Arranges
<1>2. \A p \in DOMAIN t : f[p] \in D /\ f[p] \in DOMAIN s
  OBVIOUS
<1>3. Spread(t)
  BY <1>1, <1>2 DEF Sound, Spread
<1>4. Sound(t)
  BY <1>1, <1>2, <1>3 DEF Sound, Arranges
<1>5. Reports(t) = UNION {Range(s[k].from) : k \in D}
  <2>1. ASSUME NEW x \in Reports(t) PROVE \E k \in D : x \in Range(s[k].from)
    <3>1. PICK p \in DOMAIN t : x \in Range(t[p].from)
      BY DEF Reports
    <3> QED
      BY <1>1, <1>2, <3>1
  <2>2. ASSUME NEW k \in D, NEW x \in Range(s[k].from) PROVE x \in Reports(t)
    <3>1. PICK p \in DOMAIN t : f[p] = k
      BY <1>1
    <3>2. x \in Range(t[p].from)
      BY <1>1, <3>1
    <3> QED
      BY <3>2 DEF Reports
  <2> QED
    BY <2>1, <2>2
<1>6. ASSUME NEW batch, Doubted(s, batch) PROVE Doubted(t, batch)
  BY <1>1, <1>2, <1>6 DEF Doubted
<1> QED
  BY <1>4, <1>5, <1>6

(* _fuse, on a batch with its scores. *)
LEMMA FuseKeeps ==
  ASSUME NEW b, IsFresh(b)
  PROVE  LET gs == Groups(b)
             us == [g \in DOMAIN gs |-> Resolve(gs[g]).kept]
             fs == [g \in DOMAIN gs |-> Resolve(gs[g]).feedback]
         IN  /\ Sound(us) /\ Reports(us) = Reports(b) /\ Doubted(us, b) /\ Silent(us, b)
             /\ fs \in Seq(Seq(Feedback))
<1> DEFINE key == [k \in DOMAIN b |-> b[k].ts]
           s   == Ordered(b, key)
           gs  == Groups(b)
           U   == Range(b)
<1>1. gs = GroupsOf(s)
  BY DEF Groups
<1>2. key \in [DOMAIN b -> Int]
  <2>1. \A k \in DOMAIN b : b[k].ts \in Nat
    BY DEF IsFresh, Alone, Whole, IsUpdate
  <2> QED
    BY <2>1
<1>3. Arranges(s, b, DOMAIN b)
  <2> HIDE DEF key
  <2> QED
    BY <1>2, OrderedArranges DEF IsFresh
<1> HIDE DEF s, gs
<1>4. PICK f \in [DOMAIN s -> DOMAIN b] :
        /\ \A p \in DOMAIN s : s[p] = b[f[p]]
        /\ \A p, q \in DOMAIN s : f[p] = f[q] => p = q
        /\ \A i \in DOMAIN b : \E p \in DOMAIN s : f[p] = i
  BY <1>3 DEF Arranges
<1>5. \A p \in DOMAIN s : f[p] \in DOMAIN b
  OBVIOUS
<1>6. Range(s) = U
  <2>1. \A x \in Range(s) : x \in U
    BY <1>4, <1>5 DEF Range
  <2>2. \A x \in U : x \in Range(s)
    BY <1>4 DEF Range
  <2> QED
    BY <2>1, <2>2
<1>7. s \in Seq(U)
  BY <1>3, <1>6 DEF Arranges
<1>8. \A i, j \in DOMAIN s : s[i] = s[j] => i = j
  BY <1>4, <1>5 DEF IsFresh
<1>9. Flock(gs, U) /\ Elements(gs) = U
  <2> HIDE DEF U
  <2> QED
    BY <1>1, <1>6, <1>7, <1>8, GroupsFlock
<1>10. LET us == [g \in DOMAIN gs |-> Resolve(gs[g]).kept]
           fs == [g \in DOMAIN gs |-> Resolve(gs[g]).feedback]
       IN  /\ Sound(us) /\ Reports(us) = Reports(b) /\ Doubted(us, b) /\ Silent(us, b)
           /\ fs \in Seq(Seq(Feedback))
  BY <1>9, FusedKeeps
<1> QED
  BY <1>10 DEF gs

(* What process_updates returns for a batch, whether or not _fuse raises, stands   *)
(* for each report of the batch exactly once; an update that stands for reports    *)
(* which contradict each other has lost confidence; one of kind "none", which the  *)
(* filter takes out, stands for such ones alone; and the feedback is a list of     *)
(* judgements.                                                                     *)
THEOREM OutcomeKeeps ==
  ASSUME StatsOK, NEW batch, IsFresh(batch), NEW fails \in BOOLEAN
  PROVE  /\ Sound(Outcome(batch, fails)) /\ Reports(Outcome(batch, fails)) = Reports(batch)
         /\ Doubted(Outcome(batch, fails), batch) /\ Silent(Outcome(batch, fails), batch)
         /\ Fused(batch).feedback \in Seq(Feedback)
<1> DEFINE b  == Scored(batch)
           gs == Groups(b)
           us == [g \in DOMAIN gs |-> Resolve(gs[g]).kept]
           fs == [g \in DOMAIN gs |-> Resolve(gs[g]).feedback]
<1>1. /\ IsFresh(b) /\ DOMAIN b = DOMAIN batch
      /\ \A k \in DOMAIN batch : /\ b[k].from = batch[k].from /\ b[k].entities = batch[k].entities
                                 /\ b[k].kind = batch[k].kind
  BY ScoredFresh
<1>2. Fused(batch).out = us /\ Fused(batch).feedback = FlattenSeq(fs)
  <2> DEFINE results == [g \in DOMAIN gs |-> Resolve(gs[g])]
  <2>1. /\ Fused(batch).out = [g \in DOMAIN results |-> results[g].kept]
        /\ Fused(batch).feedback = FlattenSeq([g \in DOMAIN results |-> results[g].feedback])
    BY DEF Fused
  <2>2. DOMAIN results = DOMAIN gs /\ \A g \in DOMAIN gs : results[g] = Resolve(gs[g])
    OBVIOUS
  <2> HIDE DEF results, gs
  <2>3. [g \in DOMAIN results |-> results[g].kept] = us
        /\ [g \in DOMAIN results |-> results[g].feedback] = fs
    BY <2>2
  <2> QED
    BY <2>1, <2>3
<1> HIDE DEF b
<1>3. Sound(us) /\ Reports(us) = Reports(b) /\ Doubted(us, b) /\ Silent(us, b) /\ fs \in Seq(Seq(Feedback))
  BY <1>1, FuseKeeps
<1> HIDE DEF us, fs, gs
<1>4. Fused(batch).feedback \in Seq(Feedback)
  BY <1>2, <1>3, FlattenType
<1>5. Reports(b) = Reports(batch)
  BY <1>1 DEF Reports
<1>a. ASSUME NEW x \in Range(batch)
      PROVE  \E y \in Range(b) : Own(y) = Own(x) /\ y.entities = x.entities /\ y.kind = x.kind
  <2>1. PICK k \in DOMAIN batch : x = batch[k]
    BY DEF Range
  <2>2. b[k] \in Range(b)
    BY <1>1 DEF Range
  <2> QED
    BY <1>1, <2>1, <2>2 DEF Own
<1>6. ASSUME NEW o, Doubted(o, b) PROVE Doubted(o, batch)
  <2> SUFFICES ASSUME NEW k \in DOMAIN o, NEW x \in Range(batch), NEW y \in Range(batch),
                      Own(x) # Own(y), Contradict(x, y),
                      Own(x) \in Range(o[k].from), Own(y) \in Range(o[k].from)
               PROVE  o[k].conf <= 1000 - ContradictionPenalty
    BY DEF Doubted
  <2>2. PICK v \in Range(b) : Own(v) = Own(x) /\ v.entities = x.entities
    BY <1>a
  <2>3. PICK w \in Range(b) : Own(w) = Own(y) /\ w.entities = y.entities
    BY <1>a
  <2>4. Contradict(v, w)
    BY <2>2, <2>3 DEF Contradict
  <2> QED
    BY <1>6, <2>2, <2>3, <2>4 DEF Doubted
<1>b. ASSUME NEW o, Silent(o, b) PROVE Silent(o, batch)
  BY <1>a, <1>b DEF Silent
<1>c. Silent(b, b)
  <2> SUFFICES ASSUME NEW k \in DOMAIN b, NEW v \in Range(b), b[k].kind = "none",
                      Own(v) \in Range(b[k].from)
               PROVE  v.kind = "none"
    BY DEF Silent
  <2>1. Own(v) = Own(b[k])
    BY <1>1, FreshReports
  <2>2. v = b[k]
    BY <1>1, <2>1 DEF IsFresh, Range
  <2> QED
    BY <2>2
<1>7. Doubted(b, b)
  <2> SUFFICES ASSUME NEW k \in DOMAIN b, NEW v \in Range(b), NEW w \in Range(b), Own(v) # Own(w),
                      Own(v) \in Range(b[k].from), Own(w) \in Range(b[k].from)
               PROVE  FALSE
    BY DEF Doubted
  <2>1. Range(b[k].from) = {Own(b[k])}
    BY <1>1, FreshReports
  <2> QED
    BY <2>1
<1>8. CASE fails
  <2>1. Outcome(batch, fails) = b
    BY <1>8 DEF Outcome, b
  <2>2. Sound(b)
    BY <1>1, FreshReports
  <2> QED
    BY <1>4, <1>5, <1>6, <1>7, <1>b, <1>c, <2>1, <2>2
<1>9. CASE ~fails
  <2>1. Outcome(batch, fails) = us
    BY <1>2, <1>9 DEF Outcome
  <2> QED
    BY <1>3, <1>4, <1>5, <1>6, <1>b, <2>1
<1> QED
  BY <1>8, <1>9

LEMMA CountType ==
  ASSUME NEW s, Len(s) \in Nat, DOMAIN s = 1 .. Len(s), NEW D, D \subseteq DOMAIN s
  PROVE  Cardinality(D) \in Nat
<1> DEFINE n == Len(s)
<1>1. n \in Nat /\ D \subseteq 1 .. n
  OBVIOUS
<1> HIDE DEF n
<1>2. IsFiniteSet(1 .. n)
  BY <1>1, FS_Interval
<1>3. IsFiniteSet(D)
  BY <1>1, <1>2, FS_Subset
<1> QED
  BY <1>3, FS_CardinalityType

LEMMA ProcessStats ==
  ASSUME StatsOK, NEW batch, IsFresh(batch), NEW fails \in BOOLEAN, ProcessUpdates(batch, fails)
  PROVE  StatsOK'
<1> DEFINE feedback == Fused(batch).feedback
<1>1. feedback \in Seq(Feedback)
  BY OutcomeKeeps
<1>2. speakerStats' = IF fails THEN speakerStats ELSE Judged(feedback)
  BY DEF ProcessUpdates
<1> HIDE DEF feedback
<1>3. Len(feedback) \in Nat /\ DOMAIN feedback = 1 .. Len(feedback)
  BY <1>1, LenProperties
<1> DEFINE about(s) == {k \in DOMAIN feedback : /\ feedback[k].speaker = s
                                                /\ feedback[k].type # "deduplicated"}
           good(s)  == {k \in about(s) : feedback[k].type = "corroborated"}
<1>4. \A s : about(s) \subseteq DOMAIN feedback /\ good(s) \subseteq DOMAIN feedback
  OBVIOUS
<1>5. Judged(feedback) = [s \in Speakers |->
                           [confirmed |-> speakerStats[s].confirmed + Cardinality(good(s)),
                            total     |-> speakerStats[s].total + Cardinality(about(s))]]
  BY DEF Judged
<1> HIDE DEF about, good
<1>6. ASSUME NEW s \in Speakers
      PROVE  /\ speakerStats[s].confirmed + Cardinality(good(s)) \in Nat
             /\ speakerStats[s].total + Cardinality(about(s)) \in Nat
  <2>1. Cardinality(good(s)) \in Nat /\ Cardinality(about(s)) \in Nat
    BY <1>3, <1>4, CountType
  <2>2. speakerStats[s].confirmed \in Nat /\ speakerStats[s].total \in Nat
    BY DEF StatsOK
  <2> QED
    BY <2>1, <2>2
<1>7. Judged(feedback) \in [Speakers -> [confirmed : Nat, total : Nat]]
  BY <1>5, <1>6
<1> QED
  BY <1>2, <1>7 DEF StatsOK

-----------------------------------------------------------------------------
(* THE MAPPING IN FORCE *)

Starting == {"boot", "building", "built"}
Settled  == writing \in {"nothing", "done"}

(* A version of the file has one content, but for the empty one before it.   *)
Versions ==
  /\ versions \in Nat \ {0}
  /\ file.version \in 1 .. versions /\ inner.version \in 1 .. versions
  /\ lastMtime \in 0 .. versions /\ mtime \in 0 .. versions
  /\ backup.version = 1 /\ backup.content # Malformed
  /\ file.version = 1 => file = backup
  /\ inner.version = 1 => inner.content = backup.content
  /\ inner.version = file.version => inner.content = file.content
  /\ writing = "emptied" => file.content = Malformed /\ file.version = versions
  /\ writing \in {"nothing", "schema", "mapping", "emptied", "done"}

(* The time the adapter has noted is that of the mapping it read, but in a gap. *)
Noted == pc \notin Starting \/ checked => inner.version = lastMtime \/ gap = lastMtime

(* A schema that was read still is the file's, unless the mapping's version   *)
(* has changed or will; likewise the schema in force.                         *)
Reading ==
  pc = "reload" /\ mtime = file.version /\ file.version # 1 /\ (Settled \/ writing = "emptied")
    => read = schema

Matching ==
  (pc = "built" \/ inner.version = lastMtime) /\ inner.version = file.version
  /\ file.version # 1 /\ Settled
    => inner.schema = schema \/ gap = file.version

(* After a check the adapter has noted the file's time, if the file is valid. *)
Known == checked => pc # "built" /\ (Valid(file.content, schema) => lastMtime = file.version)

AInv ==
  /\ Valid(inner.content, inner.schema)
  /\ Versions /\ Noted /\ Reading /\ Matching /\ Known

LEMMA ValidFiles == \A m, s : Valid(m, s) => m # Malformed /\ s # Malformed
BY DEF Valid

LEMMA InitAInv == Init => AInv
<1> SUFFICES ASSUME Init PROVE AInv
  OBVIOUS
<1>1. /\ schema = FirstSchema /\ versions = 1 /\ file = [version |-> 1, content |-> FirstMapping]
      /\ backup = file /\ writing = "nothing" /\ Valid(file.content, schema)
      /\ inner = [schema |-> schema, version |-> file.version, content |-> file.content]
      /\ lastMtime = 0 /\ mtime = 0 /\ checked = FALSE /\ pc = "boot"
  BY DEF Init, AdapterInit, FilesInit
<1>2. inner.schema = schema /\ inner.version = 1 /\ inner.content = FirstMapping
      /\ file.version = 1 /\ file.content = FirstMapping
  BY <1>1
<1>3. Valid(inner.content, inner.schema)
  BY <1>1, <1>2
<1>4. inner.content # Malformed
  BY <1>3, ValidFiles
<1>5. gap = 0
  BY DEF Init, AdapterInit
<1>6. Versions
  BY <1>1, <1>2, <1>4 DEF Versions
<1>7. Noted
  BY <1>1 DEF Noted, Starting
<1>8. Reading
  BY <1>1 DEF Reading
<1>9. Matching
  BY <1>1, <1>2 DEF Matching
<1>10. Known
  BY <1>1 DEF Known
<1> QED
  BY <1>3, <1>6, <1>7, <1>8, <1>9, <1>10 DEF AInv

(* Nothing the adapter knows of depends on the rest of a turn. *)
LEMMA SameAdapter ==
  ASSUME AInv, UNCHANGED adapter,
         pc' = pc \/ (pc' \notin {"built", "reload"} /\ (pc \in Starting => pc' \in Starting))
  PROVE  AInv'
<1>1. UNCHANGED <<file, schema, backup, versions, writing, inner, lastMtime, mtime, read, checked, gap>>
  BY DEF adapter, disk
<1>2. Valid(inner.content, inner.schema)' /\ (Valid(file.content, schema)' <=> Valid(file.content, schema))
  BY <1>1 DEF AInv, Valid
<1>3. Versions'
  BY <1>1 DEF AInv, Versions
<1>4. Noted'
  BY <1>1 DEF AInv, Noted, Starting
<1>5. Reading'
  BY <1>1 DEF AInv, Reading, Settled
<1>6. Matching'
  BY <1>1 DEF AInv, Matching, Settled
<1>7. Known'
  BY <1>1, <1>2 DEF AInv, Known
<1> QED
  BY <1>2, <1>3, <1>4, <1>5, <1>6, <1>7 DEF AInv

(* The files change. *)
LEMMA ChangeAInv ==
  ASSUME AInv, Change, UNCHANGED pc
  PROVE  AInv'
<1>1. checked' = FALSE /\ UNCHANGED <<inner, lastMtime, mtime, read, gap>>
  BY DEF Change
<1>2. Valid(inner.content, inner.schema)'
  BY <1>1 DEF AInv, Valid
<1>3. Noted' /\ Known'
  BY <1>1 DEF AInv, Noted, Known, Starting
<1>4. inner.content # Malformed
  BY ValidFiles DEF AInv
<1>5. CASE EditMapping
  <2>1. /\ writing # "emptied" /\ UNCHANGED <<schema, backup, writing>>
        /\ \/ file'.version = versions + 1 /\ versions' = versions + 1
           \/ file' = backup /\ versions' = versions
    BY <1>5 DEF EditMapping
  <2>2. CASE file'.version = versions + 1 /\ versions' = versions + 1
    <3>1. file'.version # 1 /\ inner.version # file'.version /\ mtime # file'.version
      BY <2>2 DEF AInv, Versions
    <3> QED
      BY <1>1, <1>2, <1>3, <2>1, <2>2, <3>1 DEF AInv, Versions, Reading, Matching
  <2>3. CASE file' = backup /\ versions' = versions
    BY <1>1, <1>2, <1>3, <2>1, <2>3 DEF AInv, Versions, Reading, Matching
  <2> QED
    BY <2>1, <2>2, <2>3
<1>6. CASE MakeMapping \/ FillSchema
  <2>1. writing' \in {"schema", "mapping"} /\ UNCHANGED <<file, backup, versions>>
    BY <1>6 DEF MakeMapping, FillSchema
  <2> QED
    BY <1>1, <1>2, <1>3, <2>1 DEF AInv, Versions, Reading, Matching, Settled
<1>7. CASE EmptyMapping
  <2>1. /\ writing' = "emptied" /\ file'.version = versions + 1 /\ file'.content = Malformed
        /\ versions' = versions + 1 /\ UNCHANGED <<schema, backup>>
    BY <1>7 DEF EmptyMapping
  <2>2. file'.version # 1 /\ inner.version # file'.version /\ mtime # file'.version
    BY <2>1 DEF AInv, Versions
  <2> QED
    BY <1>1, <1>2, <1>3, <2>1, <2>2 DEF AInv, Versions, Reading, Matching, Settled
<1>8. ASSUME NEW later \in BOOLEAN, FillMapping(later) PROVE AInv'
  <2>1. /\ writing = "emptied" /\ writing' = "done" /\ UNCHANGED <<schema, backup>>
        /\ versions' = versions \/ versions' = versions + 1
        /\ file'.version = versions'
    BY <1>8 DEF FillMapping
  <2>2. inner.version # file.version /\ file.version # 1
    BY <1>4, <2>1 DEF AInv, Versions
  <2>3. Versions'
    BY <1>1, <2>1, <2>2 DEF AInv, Versions
  <2>4. Reading'
    BY <1>1, <2>1, <2>2 DEF AInv, Versions, Reading, Settled
  <2>5. Matching'
    BY <1>1, <2>1, <2>2 DEF AInv, Versions, Matching
  <2> QED
    BY <1>2, <1>3, <2>3, <2>4, <2>5 DEF AInv
<1> QED
  BY <1>5, <1>6, <1>7, <1>8 DEF Change

(* The constructor. *)
LEMMA BuildAInv ==
  ASSUME AInv, \/ ReadSchema /\ pc = "boot" /\ pc' = "building"
               \/ ReadMapping /\ pc = "building" /\ pc' = "built"
               \/ NoteMtime /\ pc = "built" /\ pc' = "ready"
  PROVE  AInv'
<1> USE DEF disk, Starting, Settled
<1>1. CASE ReadSchema /\ pc = "boot" /\ pc' = "building"
  BY <1>1 DEF ReadSchema, AInv, Versions, Noted, Reading, Matching, Known, Valid
<1>2. CASE ReadMapping /\ pc = "building" /\ pc' = "built"
  <2>1. /\ Valid(file.content, read) /\ checked' = FALSE
        /\ inner' = [schema |-> read, version |-> file.version, content |-> file.content]
        /\ gap' = IF read # schema THEN file.version ELSE 0
        /\ UNCHANGED <<file, schema, backup, versions, writing, lastMtime, mtime>>
    BY <1>2 DEF ReadMapping
  <2>2. inner'.schema = read /\ inner'.version = file.version /\ inner'.content = file.content
    BY <2>1
  <2>3. Valid(inner.content, inner.schema)'
    BY <2>1, <2>2 DEF Valid
  <2>4. Versions'
    BY <2>1, <2>2 DEF AInv, Versions
  <2> QED
    BY <1>2, <2>1, <2>2, <2>3, <2>4 DEF AInv, Noted, Reading, Matching, Known
<1>3. CASE NoteMtime /\ pc = "built" /\ pc' = "ready"
  <2>1. /\ lastMtime' = file.version
        /\ gap' = IF inner.version # file.version THEN file.version ELSE gap
        /\ UNCHANGED <<file, schema, backup, versions, writing, inner, mtime, checked>>
    BY <1>3 DEF NoteMtime
  <2>2. Valid(inner.content, inner.schema)'
    BY <2>1 DEF AInv, Valid
  <2>3. Versions'
    BY <2>1 DEF AInv, Versions
  <2> QED
    BY <1>3, <2>1, <2>2, <2>3 DEF AInv, Noted, Reading, Matching, Known
<1> QED
  BY <1>1, <1>2, <1>3

(* A check: its look at the time, at the schema, and the reload. *)
LEMMA CheckAInv ==
  ASSUME AInv, pc \notin Starting, pc' \notin Starting,
         \/ CheckMtime /\ pc' = "check"
         \/ ReadSchema /\ pc' = "reload"
         \/ Reload /\ pc' # "reload" /\ (pc = "reload" \/ ~Changed)
  PROVE  AInv'
<1> USE DEF disk, Starting, Settled
<1>1. CASE CheckMtime /\ pc' = "check"
  BY <1>1 DEF CheckMtime, AInv, Versions, Noted, Reading, Matching, Known, Valid
<1>2. CASE ReadSchema /\ pc' = "reload"
  BY <1>2 DEF ReadSchema, AInv, Versions, Noted, Reading, Matching, Known, Valid
<1>3. CASE Reload /\ pc' # "reload" /\ Changed /\ Valid(file.content, read) /\ pc = "reload"
  <2>1. /\ inner' = [schema |-> read, version |-> file.version, content |-> file.content]
        /\ lastMtime' = mtime /\ gap' = IF mtime # file.version THEN mtime ELSE 0
        /\ checked' = (mtime = file.version /\ (Changed => read = schema))
        /\ UNCHANGED <<file, schema, backup, versions, writing, mtime>>
    BY <1>3 DEF Reload
  <2>2. inner'.schema = read /\ inner'.version = file.version /\ inner'.content = file.content
    BY <2>1
  <2>3. Valid(inner.content, inner.schema)'
    BY <1>3, <2>1, <2>2 DEF Valid
  <2>4. Versions'
    BY <2>1, <2>2 DEF AInv, Versions
  <2> QED
    BY <1>3, <2>1, <2>2, <2>3, <2>4 DEF AInv, Noted, Reading, Matching, Known
<1>4. CASE Reload /\ pc' # "reload" /\ ~(Changed /\ Valid(file.content, read))
  <2>1. /\ checked' = (mtime = file.version /\ (Changed => read = schema))
        /\ UNCHANGED <<file, schema, backup, versions, writing, inner, lastMtime, mtime, gap>>
    BY <1>4 DEF Reload
  <2>2. Valid(inner.content, inner.schema)' /\ (Valid(file.content, schema)' <=> Valid(file.content, schema))
    BY <2>1 DEF AInv, Valid
  <2>3. Versions'
    BY <2>1 DEF AInv, Versions
  <2>4. Known'
    BY <1>4, <2>1, <2>2 DEF Known, Changed
  <2> QED
    BY <1>4, <2>1, <2>2, <2>3, <2>4 DEF AInv, Noted, Reading, Matching
<1> QED
  BY <1>1, <1>2, <1>3, <1>4

-----------------------------------------------------------------------------
(* THE PAYLOADS *)

(* A payload has the fields the schema requires, and none it does not know.  *)
Fits(payload, s) ==
  /\ s.required \subseteq DOMAIN payload
  /\ s.properties # {} => DOMAIN payload \subseteq s.properties

PayloadsFit ==
  /\ pushed \in Seq(Range(pushed))
  /\ \A k \in DOMAIN pushed : \A payload \in Range(pushed[k].sent) \ {Failed} :
       Fits(payload, pushed[k].schema)

(* map, with a mapping that is valid for its schema. *)
LEMMA PayloadFits ==
  ASSUME NEW force, Valid(force.content, force.schema), NEW record,
         Payload(force, record) # Failed
  PROVE  Fits(Payload(force, record), force.schema)
<1> DEFINE mapping  == Normalized(force.content)
           value(t) == ResolveSource(record, mapping[t].source)
           sent     == {t \in DOMAIN mapping : value(t) # Null \/ t \in force.schema.required}
           payload  == [t \in sent |-> Transformed(TransformOf(mapping[t]), value(t))]
<1>1. /\ force.schema.properties # {} => DOMAIN mapping \subseteq force.schema.properties
      /\ force.schema.required \subseteq DOMAIN mapping
  BY DEF Valid
<1>2. Payload(force, record) = IF Failed \in Range(payload) THEN Failed ELSE payload
  BY DEF Payload
<1>3. Payload(force, record) = payload
  BY <1>2
<1>4. DOMAIN payload = sent
  OBVIOUS
<1> QED
  BY <1>1, <1>3, <1>4 DEF Fits

(* The payloads of an update, whether or not the first one was lost to the    *)
(* check of the file.                                                         *)
LEMMA SentFits ==
  ASSUME NEW u, NEW force, Valid(force.content, force.schema), NEW blocked \in BOOLEAN,
         NEW payload \in Range(Sent(u, force, blocked)) \ {Failed}
  PROVE  Fits(payload, force.schema)
<1> DEFINE records == RecordsOf(u)
           s == Sent(u, force, blocked)
<1>1. CASE TierOf(u) = "human"
  <2>1. s = <<>>
    BY <1>1 DEF Sent
  <2>2. Range(s) = {}
    BY <2>1 DEF Range
  <2> QED
    BY <2>2
<1>2. CASE TierOf(u) # "human"
  <2>1. s = [k \in DOMAIN records |-> IF k = 1 /\ blocked THEN Failed ELSE Payload(force, records[k])]
    BY <1>2 DEF Sent
  <2>2. PICK k \in DOMAIN records : payload = IF k = 1 /\ blocked THEN Failed ELSE Payload(force, records[k])
    BY <2>1 DEF Range
  <2>3. payload = Payload(force, records[k])
    BY <2>2
  <2> HIDE DEF records
  <2> QED
    BY <2>3, PayloadFits
<1> QED
  BY <1>1, <1>2

LEMMA AppendRange ==
  ASSUME NEW s, s \in Seq(Range(s)), NEW x
  PROVE  /\ Append(s, x) \in Seq(Range(Append(s, x)))
         /\ DOMAIN Append(s, x) = DOMAIN s \union {Len(s) + 1}
         /\ \A k \in DOMAIN s : Append(s, x)[k] = s[k]
         /\ Append(s, x)[Len(s) + 1] = x
<1> DEFINE X == Range(s) \union {x}
           r == Append(s, x)
<1>1. s \in Seq(X) /\ Len(s) \in Nat /\ DOMAIN s = 1 .. Len(s)
  OBVIOUS
<1>2. /\ r \in Seq(X) /\ Len(r) = Len(s) + 1 /\ DOMAIN r = 1 .. Len(s) + 1
      /\ \A k \in 1 .. Len(s) : r[k] = s[k]
      /\ r[Len(s) + 1] = x
  BY <1>1, AppendProperties
<1>3. \A k \in 1 .. Len(r) : r[k] \in Range(r)
  BY <1>2 DEF Range
<1> HIDE DEF X, r
<1>4. r \in Seq(Range(r))
  BY <1>2, <1>3
<1> QED
  BY <1>1, <1>2, <1>4 DEF r

LEMMA PushFits ==
  ASSUME PayloadsFit, NEW blocked \in BOOLEAN, Pushed(blocked), Valid(inner.content, inner.schema)'
  PROVE  PayloadsFit'
<1> DEFINE p == [row |-> Len(rows), tier |-> TierOf(Head(out)), schema |-> inner'.schema,
                 sent |-> Sent(Head(out), inner', blocked)]
<1>1. pushed' = Append(pushed, p)
  BY DEF Pushed
<1>2. p.schema = inner'.schema /\ p.sent = Sent(Head(out), inner', blocked)
  OBVIOUS
<1>3. Valid(inner'.content, inner'.schema)
  BY DEF Valid
<1> HIDE DEF p
<1>4. \A payload \in Range(p.sent) \ {Failed} : Fits(payload, p.schema)
  BY <1>2, <1>3, SentFits
<1>5. /\ pushed' \in Seq(Range(pushed')) /\ DOMAIN pushed' = DOMAIN pushed \union {Len(pushed) + 1}
      /\ \A k \in DOMAIN pushed : pushed'[k] = pushed[k]
      /\ pushed'[Len(pushed) + 1] = p
  BY <1>1, AppendRange DEF PayloadsFit
<1>6. \A k \in DOMAIN pushed' : \A payload \in Range(pushed'[k].sent) \ {Failed} :
        Fits(payload, pushed'[k].schema)
  BY <1>4, <1>5 DEF PayloadsFit
<1> QED
  BY <1>5, <1>6 DEF PayloadsFit

-----------------------------------------------------------------------------
(* THE STEPS *)

Up == {"ready", "routing", "row", "entities", "push", "check", "reload", "done"}

MInv == AInv /\ PayloadsFit

LEMMA InitMInv == Init => MInv
<1> SUFFICES ASSUME Init PROVE MInv
  OBVIOUS
<1>1. pushed = <<>>
  BY DEF Init
<1>2. <<>> \in Seq(Range(<<>>)) /\ DOMAIN <<>> = {}
  OBVIOUS
<1> QED
  BY <1>1, <1>2, InitAInv DEF MInv, PayloadsFit

(* The steps that neither touch the files nor look at them. *)
LEMMA QuietMInv ==
  ASSUME MInv, UNCHANGED <<adapter, pushed>>,
         pc' = pc \/ (pc' \notin {"built", "reload"} /\ (pc \in Starting => pc' \in Starting))
  PROVE  MInv'
BY SameAdapter DEF MInv, PayloadsFit

LEMMA NextMInv == MInv /\ [Next]_vars => MInv'
<1> SUFFICES ASSUME MInv, [Next]_vars PROVE MInv'
  OBVIOUS
<1> USE DEF history, Starting
<1>1. CASE Boot
  BY <1>1, BuildAInv DEF Boot, MInv, PayloadsFit
<1>2. CASE BootFails
  BY <1>2, QuietMInv DEF BootFails
<1>3. CASE Built
  BY <1>3, BuildAInv DEF Built, MInv, PayloadsFit
<1>4. CASE Read
  BY <1>4, QuietMInv DEF Read
<1>5. ASSUME NEW batch, Fuse(batch) PROVE pc' \in {"ready", "row"}
  BY <1>5 DEF Fuse
<1>6. CASE Route
  BY <1>5, <1>6, QuietMInv DEF Route
<1>7. CASE Exhausted
  BY <1>5, <1>7, QuietMInv DEF Exhausted
<1>8. CASE WriteRow
  BY <1>8, QuietMInv DEF WriteRow
<1>9. CASE WriteEntity
  BY <1>9, QuietMInv DEF WriteEntity
<1>10. CASE Push
  <2>1. pc = "push" /\ pc' \in {"ready", "row"} /\ UNCHANGED adapter /\ Pushed(FALSE)
    BY <1>10 DEF Push, Pushed
  <2>2. AInv'
    BY <2>1, SameAdapter DEF MInv
  <2>3. Valid(inner.content, inner.schema)'
    BY <2>2 DEF AInv
  <2> QED
    BY <2>1, <2>2, <2>3, PushFits DEF MInv
<1>11. CASE Check
  BY <1>11, CheckAInv DEF Check, MInv, PayloadsFit
<1>12. CASE CheckFurther
  BY <1>12, CheckAInv DEF CheckFurther, MInv, PayloadsFit
<1>13. CASE PushAfterCheck
  <2>1. /\ pc \in {"reload", "check"} /\ pc' \in {"ready", "row"}
        /\ pc = "reload" \/ ~Changed
        /\ Reload /\ Pushed(Blocked) /\ Blocked \in BOOLEAN
    BY <1>13 DEF PushAfterCheck, Pushed, Blocked
  <2>2. AInv'
    BY <2>1, CheckAInv DEF MInv
  <2>3. Valid(inner.content, inner.schema)'
    BY <2>2 DEF AInv
  <2> QED
    BY <2>1, <2>2, <2>3, PushFits DEF MInv
<1>14. CASE Dies
  BY <1>14, QuietMInv DEF Dies
<1>15. CASE Missed
  BY <1>15, QuietMInv DEF Missed, loop
<1>16. CASE Operators
  <2>1. UNCHANGED <<pc, pushed>> /\ (Change \/ UNCHANGED adapter)
    BY <1>16 DEF Operators, loop
  <2>2. CASE Change
    BY <2>1, <2>2, ChangeAInv DEF MInv, PayloadsFit
  <2> QED
    BY <2>1, <2>2, QuietMInv
<1>17. CASE UNCHANGED vars
  BY <1>17, QuietMInv DEF vars, loop
<1> QED
  BY <1>1, <1>2, <1>3, <1>4, <1>6, <1>7, <1>8, <1>9, <1>10, <1>11, <1>12, <1>13, <1>14,
     <1>15, <1>16, <1>17 DEF Next, Turn

(* Whatever the operator and the tool do to the two files and whenever the    *)
(* process dies, the mapping in force after a check is the file's, and what   *)
(* was sent fits the schema it was made for (HotReloadAdapter._maybe_reload,  *)
(* JsonSchemaAdapter.map).                                                    *)
THEOREM MappingCorrect == Spec => []MappingIsCurrent
<1>1. MInv => MappingIsCurrent
  <2> SUFFICES ASSUME MInv PROVE MappingIsCurrent
    OBVIOUS
  <2>1. ASSUME checked, gap # file.version, Settled, Valid(file.content, schema)
        PROVE  /\ inner.content = file.content
               /\ file = backup \/ inner.schema = schema
    BY <2>1 DEF MInv, AInv, Versions, Noted, Matching, Known
  <2>2. \A k \in DOMAIN pushed : \A payload \in Range(pushed[k].sent) \ {Failed} :
          Fits(payload, pushed[k].schema)
    BY DEF MInv, PayloadsFit
  <2> QED
    BY <2>1, <2>2 DEF MappingIsCurrent, Fits, Settled
<1> QED
  BY <1>1, InitMInv, NextMInv, PTL DEF Spec

-----------------------------------------------------------------------------
(* THE ROWS AND THEIR ENTITIES *)

\* A row whose entities are being written.
Open == IF pc = "entities" THEN {Len(rows)} ELSE {}

RowTypes ==
  /\ rows \in Seq(Range(rows)) /\ written \in Seq(Nat) /\ Len(written) = Len(rows)
  /\ at \in Nat /\ deaths \in Nat

WInv ==
  /\ RowTypes
  /\ pc = "entities" => rows # <<>> /\ rows[Len(rows)] = Head(out)
  /\ Cardinality(CutRows \ Open) <= deaths

LEMMA CutRowsFinite ==
  ASSUME RowTypes, NEW T, T \subseteq CutRows
  PROVE  IsFiniteSet(T) /\ Cardinality(T) \in Nat
<1> DEFINE n == Len(rows)
<1>1. T \subseteq 1 .. n /\ n \in Nat
  BY DEF CutRows, RowTypes
<1> HIDE DEF n
<1>2. IsFiniteSet(1 .. n)
  BY <1>1, FS_Interval
<1>3. IsFiniteSet(T)
  BY <1>1, <1>2, FS_Subset
<1> QED
  BY <1>3, FS_CardinalityType

(* The steps that write no row and no entity of one. *)
LEMMA QuietWInv ==
  ASSUME WInv, UNCHANGED <<rows, written, deaths>>, at' = at \/ at' = 1,
         \/ pc # "entities" /\ pc' # "entities"
         \/ UNCHANGED <<pc, out>>
  PROVE  WInv'
<1>1. RowTypes'
  BY DEF WInv, RowTypes
<1>2. CutRows' = CutRows /\ Open' = Open
  BY DEF CutRows, Open
<1> QED
  BY <1>1, <1>2 DEF WInv

LEMMA WriteRowWInv ==
  ASSUME WInv, WriteRow
  PROVE  WInv'
<1> DEFINE n == Len(rows) + 1
           u == Head(out)
<1>1. /\ pc = "row" /\ rows' = Append(rows, u) /\ written' = Append(written, 0) /\ at' = 1
      /\ pc' = IF u.entities = <<>> THEN "push" ELSE "entities"
      /\ UNCHANGED <<out, deaths>>
  BY DEF WriteRow, InsertRow
<1>2. /\ rows \in Seq(Range(rows)) /\ written \in Seq(Nat) /\ Len(written) = Len(rows)
      /\ deaths \in Nat
  BY DEF WInv, RowTypes
<1>3. /\ rows' \in Seq(Range(rows')) /\ DOMAIN rows' = DOMAIN rows \union {n}
      /\ rows'[n] = u /\ (\A k \in DOMAIN rows : rows'[k] = rows[k])
  <2> HIDE DEF u
  <2> QED
    BY <1>1, <1>2, AppendRange
<1>4. /\ Len(rows') = n /\ n \in Nat /\ n \notin DOMAIN rows
      /\ written' \in Seq(Nat) /\ Len(written') = n /\ written'[n] = 0
      /\ \A k \in DOMAIN rows : written'[k] = written[k]
  <2> HIDE DEF u
  <2> QED
    BY <1>1, <1>2
<1>5. RowTypes'
  BY <1>1, <1>2, <1>3, <1>4 DEF RowTypes
<1>6. pc' = "entities" => rows' # <<>> /\ rows'[Len(rows')] = Head(out')
  BY <1>1, <1>3, <1>4
<1>7. CutRows' \ Open' = CutRows \ Open
  <2>1. \A r \in DOMAIN rows : r \in CutRows' <=> r \in CutRows
    <3> HIDE DEF u, n
    <3> QED
      BY <1>3, <1>4 DEF CutRows
  <2>2. n \in CutRows' => u.entities # <<>>
    <3>1. Len(<<>>) = 0
      OBVIOUS
    <3> HIDE DEF u, n
    <3> QED
      BY <1>3, <1>4, <3>1 DEF CutRows
  <2>3. n \notin CutRows' \ Open'
    <3> HIDE DEF u, n
    <3> QED
      BY <1>1, <1>4, <2>2 DEF Open
  <2>4. Open = {} /\ Open' \subseteq {n}
    <3> HIDE DEF u, n
    <3> QED
      BY <1>1, <1>4 DEF Open
  <2>5. CutRows \subseteq DOMAIN rows /\ CutRows' \subseteq DOMAIN rows \union {n}
    <3> HIDE DEF u, n
    <3> QED
      BY <1>3 DEF CutRows
  <2> HIDE DEF u, n
  <2> QED
    BY <1>4, <2>1, <2>3, <2>4, <2>5
<1> QED
  BY <1>1, <1>5, <1>6, <1>7 DEF WInv

LEMMA WriteEntityWInv ==
  ASSUME WInv, WriteEntity
  PROVE  WInv'
<1> DEFINE n == Len(rows)
           u == Head(out)
<1>1. /\ pc = "entities" /\ written' = [written EXCEPT ![n] = at] /\ at' = at + 1
      /\ pc' = IF at = Len(u.entities) THEN "push" ELSE "entities"
      /\ UNCHANGED <<rows, out, deaths>>
  BY DEF WriteEntity, UpsertEntity
<1>2. /\ rows \in Seq(Range(rows)) /\ written \in Seq(Nat) /\ Len(written) = n
      /\ at \in Nat /\ deaths \in Nat /\ rows # <<>> /\ rows[n] = u
  BY <1>1 DEF WInv, RowTypes
<1>3. n \in 1 .. n /\ DOMAIN rows = 1 .. n
  BY <1>2
<1> HIDE DEF u
<1>4. /\ written' \in Seq(Nat) /\ Len(written') = n /\ written'[n] = at
      /\ \A k \in DOMAIN rows \ {n} : written'[k] = written[k]
  BY <1>1, <1>2, <1>3
<1>5. RowTypes'
  BY <1>1, <1>2, <1>4 DEF RowTypes
<1>6. pc' = "entities" => rows' # <<>> /\ rows'[Len(rows')] = Head(out')
  BY <1>1, <1>2 DEF u
<1>7. CutRows' \ Open' = CutRows \ Open
  <2>1. Open = {n} /\ Open' \subseteq {n}
    BY <1>1 DEF Open
  <2>2. n \in CutRows' => pc' = "entities"
    BY <1>1, <1>2, <1>3, <1>4 DEF CutRows
  <2>3. n \notin CutRows' \ Open'
    BY <1>1, <2>2 DEF Open
  <2>4. \A r : r # n => (r \in CutRows' <=> r \in CutRows)
    BY <1>1, <1>4 DEF CutRows
  <2> QED
    BY <2>1, <2>3, <2>4
<1> QED
  BY <1>1, <1>5, <1>6, <1>7 DEF WInv

LEMMA CutCount == WInv => Cardinality(CutRows) <= deaths + (IF pc = "entities" THEN 1 ELSE 0)
<1> SUFFICES ASSUME WInv PROVE Cardinality(CutRows) <= deaths + (IF pc = "entities" THEN 1 ELSE 0)
  OBVIOUS
<1> DEFINE S == CutRows \ Open
           n == Len(rows)
<1>1. IsFiniteSet(S) /\ Cardinality(S) \in Nat /\ Cardinality(S) <= deaths /\ deaths \in Nat
  BY CutRowsFinite DEF WInv, RowTypes
<1>2. CASE pc # "entities"
  <2>1. S = CutRows
    BY <1>2 DEF Open
  <2> QED
    BY <1>1, <1>2, <2>1
<1>3. CASE pc = "entities"
  <2>1. CutRows \subseteq S \union {n}
    BY <1>3 DEF Open
  <2> HIDE DEF S, n
  <2>2. IsFiniteSet(S \union {n})
        /\ Cardinality(S \union {n}) = IF n \in S THEN Cardinality(S) ELSE Cardinality(S) + 1
    BY <1>1, FS_AddElement
  <2>3. Cardinality(CutRows) <= Cardinality(S \union {n}) /\ Cardinality(CutRows) \in Nat
    BY <2>1, <2>2, FS_Subset, CutRowsFinite DEF WInv
  <2> QED
    BY <1>1, <1>3, <2>2, <2>3
<1> QED
  BY <1>2, <1>3

LEMMA DiesWInv ==
  ASSUME WInv, Dies
  PROVE  WInv'
<1>1. /\ deaths' = deaths + 1 /\ at' = 1 /\ pc' # "entities" /\ UNCHANGED <<rows, written>>
  BY DEF Dies, tables
<1>2. RowTypes'
  BY <1>1 DEF WInv, RowTypes
<1>3. CutRows' = CutRows /\ Open' = {}
  BY <1>1 DEF CutRows, Open
<1>4. Cardinality(CutRows) <= deaths + 1
  BY CutCount, CutRowsFinite DEF WInv, RowTypes
<1>5. CutRows' \ Open' = CutRows
  BY <1>3
<1> QED
  BY <1>1, <1>2, <1>4, <1>5 DEF WInv

LEMMA InitWInv == Init => WInv
<1> SUFFICES ASSUME Init PROVE WInv
  OBVIOUS
<1>1. rows = <<>> /\ written = <<>> /\ at = 1 /\ deaths = 0 /\ pc = "boot"
  BY DEF Init, StoreInit
<1>2. <<>> \in Seq(Range(<<>>)) /\ <<>> \in Seq(Nat) /\ DOMAIN <<>> = {}
  OBVIOUS
<1>3. RowTypes
  BY <1>1, <1>2 DEF RowTypes
<1>4. CutRows \ Open = {}
  BY <1>1, <1>2 DEF CutRows
<1> QED
  BY <1>1, <1>3, <1>4, FS_EmptySet DEF WInv

LEMMA NextWInv == WInv /\ [Next]_vars => WInv'
<1> SUFFICES ASSUME WInv, [Next]_vars PROVE WInv'
  OBVIOUS
<1> USE DEF history, tables
<1>1. CASE Boot
  BY <1>1, QuietWInv DEF Boot
<1>2. CASE BootFails
  BY <1>2, QuietWInv DEF BootFails
<1>3. CASE Built
  BY <1>3, QuietWInv DEF Built
<1>4. CASE Read
  BY <1>4, QuietWInv DEF Read, WriteAudit
<1>5. ASSUME NEW batch, Fuse(batch) PROVE pc' \in {"ready", "row"}
  BY <1>5 DEF Fuse
<1>6. CASE Route
  BY <1>5, <1>6, QuietWInv DEF Route
<1>7. CASE Exhausted
  BY <1>5, <1>7, QuietWInv DEF Exhausted
<1>8. CASE WriteRow
  BY <1>8, WriteRowWInv
<1>9. CASE WriteEntity
  BY <1>9, WriteEntityWInv
<1>10. ASSUME NEW blocked, Pushed(blocked), pc # "entities" PROVE WInv'
  BY <1>10, QuietWInv DEF Pushed
<1>11. CASE Push
  BY <1>10, <1>11 DEF Push
<1>12. CASE Check
  BY <1>12, QuietWInv DEF Check
<1>13. CASE CheckFurther
  BY <1>13, QuietWInv DEF CheckFurther
<1>14. CASE PushAfterCheck
  BY <1>10, <1>14 DEF PushAfterCheck
<1>15. CASE Dies
  BY <1>15, DiesWInv
<1>16. CASE Missed
  BY <1>16, QuietWInv DEF Missed, loop
<1>17. CASE Operators
  BY <1>17, QuietWInv DEF Operators, loop, WriteCorrection, RecordOverride
<1>18. CASE UNCHANGED vars
  BY <1>18, QuietWInv DEF vars, loop
<1> QED
  BY <1>1, <1>2, <1>3, <1>4, <1>6, <1>7, <1>8, <1>9, <1>11, <1>12, <1>13, <1>14,
     <1>15, <1>16, <1>17, <1>18 DEF Next, Turn

(* The part of StoreIsConsistent about rows and their entities: write_update   *)
(* commits the row before its entities, so a death of the process may leave a  *)
(* row without all of them, but no more rows than there were deaths, whatever  *)
(* the feed brings and however fusion, pushes and restarts interleave with it. *)
THEOREM RowsCorrect == Spec => []RowsAreComplete
<1>1. WInv => RowsAreComplete
  BY CutCount DEF RowsAreComplete
<1> QED
  BY <1>1, InitWInv, NextWInv, PTL DEF Spec

-----------------------------------------------------------------------------
(* WHERE THE REPORTS ARE *)

Writing == {"row", "entities", "push", "check", "reload"}

(* How many messages the source has given or lost. *)
Given == Len(log) - Len(source)

(* The source gives the rest of the log, in order, and only what it gave was   *)
(* audited; the message that is being routed is the next of the rest.          *)
Feed ==
  /\ log \in Seq(Range(log)) /\ \A n \in DOMAIN log : IsUpdate(Report(log, n))
  /\ source \in Seq(Nat) /\ Len(source) <= Len(log)
  /\ \A k \in DOMAIN source : source[k] = Given + k
  /\ pc = "routing" => source # <<>>
  /\ audit \in Seq(Nat)
  /\ \A n \in Range(audit) : n \in 1 .. Given \/ (pc = "routing" /\ n = Given + 1)

(* A batch is the reports of different messages. *)
IsBatch(b) ==
  /\ IsFresh(b)
  /\ \A k \in DOMAIN b : /\ Own(b[k]) \in DOMAIN log
                         /\ b[k].entities = log[Own(b[k])].entities
                         /\ b[k].kind = log[Own(b[k])].kind

(* What the loop and the table hold. *)
Lists ==
  /\ IsBatch(pending) /\ Sound(out) /\ Sound(rows) /\ StatsOK
  /\ out # <<>> <=> pc \in Writing
  /\ pc \in Writing \ {"row"} => rows # <<>> /\ rows[Len(rows)] = Head(out)

(* The reports in a row, in memory and lost are different ones, and those of all *)
(* messages that were given; while a batch is written, what is in memory is the  *)
(* part of it that no row stands for, but for what the filter took out.          *)
Apart ==
  /\ Reports(rows) \cap Reports(InMemory) = {}
  /\ lost \cap (Reports(rows) \union Reports(InMemory)) = {}
  /\ Reports(rows) \union Reports(InMemory) \union lost \subseteq 1 .. Given
  /\ Reports(pending) \subseteq 1 .. Given

Everywhere ==
  \A n \in Range(audit) :
    log[n].kind # "none" =>
      \/ n \in Reports(rows) \union Reports(InMemory) \union lost
      \/ pc = "routing" /\ n = Given + 1

Batched ==
  out # <<>> => /\ Reports(InMemory) \subseteq Reports(pending)
                /\ \A n \in Reports(pending) :
                     log[n].kind # "none" => n \in Reports(InMemory) \union Reports(rows)

(* An update that stands for reports which contradict each other has lost       *)
(* confidence, before it is written and after.                                  *)
Disputed(u) == \E i, j \in Range(u.from) : i # j /\ Contradict(log[i], log[j])
Penalties ==
  /\ \A k \in DOMAIN out : Disputed(out[k]) => out[k].conf <= 1000 - ContradictionPenalty
  /\ \A r \in DOMAIN rows : Disputed(rows[r]) => rows[r].conf <= 1000 - ContradictionPenalty

Tiers ==
  /\ pushed \in Seq(Range(pushed))
  /\ \A k \in DOMAIN pushed : /\ pushed[k].row \in DOMAIN rows
                              /\ pushed[k].tier = TierOf(rows[pushed[k].row])

EInv == Feed /\ Lists /\ Apart /\ Everywhere /\ Batched /\ Penalties /\ Tiers

LEMMA QuietEInv ==
  ASSUME EInv, UNCHANGED <<log, source, audit, pending, out, rows, lost, pushed, speakerStats>>,
         \/ pc' = pc
         \/ {pc, pc'} \subseteq Writing \ {"row"}
         \/ {pc, pc'} \subseteq Starting \union {"ready", "done"}
  PROVE  EInv'
<1> USE DEF Writing, Starting
<1>1. /\ Given' = Given /\ (pc' = "routing" <=> pc = "routing")
      /\ (pc' = "row" <=> pc = "row") /\ (pc' \in Writing <=> pc \in Writing)
  BY DEF Given
<1>2. InMemory' = InMemory
  BY <1>1 DEF InMemory
<1>3. Feed'
  BY <1>1 DEF EInv, Feed, Report
<1>4. StatsOK'
  BY DEF EInv, Lists, StatsOK
<1>5. Lists'
  BY <1>1, <1>4 DEF EInv, Lists, IsBatch
<1>6. Apart'
  BY <1>1, <1>2 DEF EInv, Apart
<1>7. Everywhere'
  BY <1>1, <1>2 DEF EInv, Everywhere
<1>8. Batched'
  BY <1>2 DEF EInv, Batched
<1>9. Penalties'
  BY DEF EInv, Penalties, Disputed
<1>10. Tiers'
  BY DEF EInv, Tiers
<1> QED
  BY <1>3, <1>5, <1>6, <1>7, <1>8, <1>9, <1>10 DEF EInv

(* The source gives its first message. *)
LEMMA NextGiven ==
  ASSUME Feed, source # <<>>
  PROVE  /\ Head(source) = Given + 1 /\ Given + 1 \in DOMAIN log /\ Given \in Nat
         /\ DOMAIN log = 1 .. Len(log)
         /\ Tail(source) \in Seq(Nat) /\ Len(Tail(source)) = Len(source) - 1
         /\ \A k \in DOMAIN Tail(source) : Tail(source)[k] = (Given + 1) + k
         /\ Len(source) \in Nat /\ Len(log) \in Nat
<1>1. /\ source \in Seq(Nat) /\ Len(source) \in Nat \ {0} /\ DOMAIN source = 1 .. Len(source)
      /\ Len(log) \in Nat /\ DOMAIN log = 1 .. Len(log) /\ Len(source) <= Len(log)
  BY DEF Feed
<1>2. Given \in Nat /\ Given + 1 \in DOMAIN log
  BY <1>1 DEF Given
<1>3. \A k \in 1 .. Len(source) : source[k] = Given + k
  BY <1>1 DEF Feed
<1>4. Head(source) = Given + 1
  BY <1>1, <1>3
<1>5. /\ Tail(source) \in Seq(Nat) /\ Len(Tail(source)) = Len(source) - 1
      /\ \A k \in 1 .. Len(source) - 1 : Tail(source)[k] = source[k + 1]
  BY <1>1, HeadTailProperties
<1>6. \A k \in 1 .. Len(source) - 1 : Tail(source)[k] = (Given + 1) + k
  BY <1>1, <1>2, <1>3, <1>5
<1>7. DOMAIN Tail(source) = 1 .. Len(source) - 1
  BY <1>5
<1> QED
  BY <1>1, <1>2, <1>4, <1>5, <1>6, <1>7

(* What goes with it in the invariant. *)
LEMMA FeedMoves ==
  ASSUME Feed, source # <<>>, source' = Tail(source), UNCHANGED <<log, audit>>, pc' # "routing",
         pc # "routing" => \A n \in Range(audit) : n \in 1 .. Given
  PROVE  Feed' /\ Given' = Given + 1
<1>1. Given' = Given + 1
  BY NextGiven DEF Given
<1>2. ASSUME NEW n \in Range(audit) PROVE n \in 1 .. Given + 1
  BY <1>2, NextGiven DEF Feed
<1>3. source' \in Seq(Nat) /\ Len(source') <= Len(log) /\ \A k \in DOMAIN source' : source'[k] = Given' + k
  BY <1>1, NextGiven DEF Feed
<1>4. \A n \in DOMAIN log : IsUpdate(Report(log, n))'
  BY DEF Feed, Report
<1> QED
  BY <1>1, <1>2, <1>3, <1>4 DEF Feed

(* A message the feed brings while nothing listens. *)
LEMMA MissedEInv ==
  ASSUME EInv, Missed
  PROVE  EInv'
<1> USE DEF Writing
<1>1. /\ source # <<>> /\ source' = Tail(source) /\ pc \in {"boot", "building", "built"}
      /\ UNCHANGED <<log, audit, pending, out, rows, lost, pushed, speakerStats, pc>>
  BY DEF Missed, loop, history, tables, fusion
<1>2. Feed' /\ Given' = Given + 1 /\ Given \in Nat
  BY <1>1, FeedMoves, NextGiven DEF EInv, Feed
<1>3. InMemory' = InMemory
  BY <1>1 DEF InMemory
<1>4. StatsOK'
  BY <1>1 DEF EInv, Lists, StatsOK
<1>5. Lists'
  BY <1>1, <1>4 DEF EInv, Lists, IsBatch
<1>6. Apart'
  BY <1>1, <1>2, <1>3 DEF EInv, Apart
<1>7. Everywhere'
  BY <1>1, <1>3 DEF EInv, Everywhere
<1>8. Batched'
  BY <1>1, <1>3 DEF EInv, Batched
<1>9. Penalties' /\ Tiers'
  BY <1>1 DEF EInv, Penalties, Disputed, Tiers
<1> QED
  BY <1>2, <1>5, <1>6, <1>7, <1>8, <1>9 DEF EInv

LEMMA ReadEInv ==
  ASSUME EInv, Read
  PROVE  EInv'
<1> USE DEF Writing
<1>1. /\ source # <<>> /\ pc = "ready" /\ pc' = "routing" /\ audit' = Append(audit, Head(source))
      /\ UNCHANGED <<log, source, pending, out, rows, lost, pushed, speakerStats>>
  BY DEF Read, WriteAudit, history, fusion
<1>2. Head(source) = Given + 1 /\ Given \in Nat /\ Given' = Given
  BY <1>1, NextGiven DEF EInv, Given
<1>3. audit' \in Seq(Nat) /\ Range(audit') = Range(audit) \union {Given + 1}
  <2>1. audit \in Seq(Nat) /\ Given + 1 \in Nat
    BY <1>2 DEF EInv, Feed
  <2> QED
    BY <1>1, <1>2, <2>1, Extend
<1>4. Feed'
  BY <1>1, <1>2, <1>3 DEF EInv, Feed, Report
<1>5. InMemory' = InMemory
  BY <1>1 DEF InMemory, EInv, Lists
<1>6. StatsOK'
  BY <1>1 DEF EInv, Lists, StatsOK
<1>7. Lists'
  BY <1>1, <1>6 DEF EInv, Lists, IsBatch
<1>8. Apart'
  BY <1>1, <1>2, <1>5 DEF EInv, Apart
<1>9. Everywhere'
  BY <1>1, <1>2, <1>3, <1>5 DEF EInv, Everywhere
<1>10. Batched'
  BY <1>1, <1>5 DEF EInv, Batched
<1>11. Penalties' /\ Tiers'
  BY <1>1 DEF EInv, Penalties, Disputed, Tiers
<1> QED
  BY <1>4, <1>7, <1>8, <1>9, <1>10, <1>11 DEF EInv

(* The report of a message. *)
LEMMA ReportAlone ==
  ASSUME Feed, NEW n \in DOMAIN log, log[n].kind # "none" \/ Passthrough(log[n])
  PROVE  LET r == Report(log, n)
         IN  Alone(r) /\ Own(r) = n /\ r.entities = log[n].entities /\ r.kind = log[n].kind
<1> DEFINE r == Report(log, n)
<1>1. /\ DOMAIN r = {"from"} \union DOMAIN log[n] /\ r.from = <<n>>
      /\ \A x \in DOMAIN log[n] : x # "from" => r[x] = log[n][x]
  BY DEF Report
<1> HIDE DEF r
<1>4. IsUpdate(r)
  BY DEF Feed, r
<1>5. r.kind = log[n].kind /\ r.entities = log[n].entities
  BY <1>1, <1>4 DEF IsUpdate
<1>6. n \in Nat
  BY DEF Feed
<1>7. <<n>> \in Seq(Nat) /\ Len(<<n>>) = 1 /\ <<n>>[1] = n
  BY <1>6
<1> QED
  BY <1>1, <1>4, <1>5, <1>7 DEF Alone, Whole, Own, Passthrough, r

LEMMA RoutedBatch ==
  ASSUME Feed, IsBatch(pending), source # <<>>, Reports(pending) \subseteq 1 .. Given
  PROVE  LET b == pending \o Routed(Head(source))
         IN  /\ IsBatch(b)
             /\ Reports(b) \in {Reports(pending), Reports(pending) \union {Given + 1}}
             /\ log[Given + 1].kind # "none" => Given + 1 \in Reports(b)
<1> DEFINE n == Given + 1
           b == pending \o Routed(n)
           r == Report(log, n)
<1>1. Head(source) = n /\ n \in DOMAIN log /\ Given \in Nat
  BY NextGiven
<1>2. pending \in Seq(Range(pending))
  BY DEF IsBatch, IsFresh
<1>3. CASE log[n].kind = "none" /\ ~Passthrough(log[n])
  <2>1. b = pending
    BY <1>2, <1>3, ConcatEmptySeq DEF Routed
  <2> HIDE DEF b
  <2> QED
    BY <1>1, <1>3, <2>1 DEF b
<1>4. CASE log[n].kind # "none" \/ Passthrough(log[n])
  <2>1. b = Append(pending, r)
    <3> DEFINE S == Range(pending) \union {r}
    <3>1. pending \in Seq(S) /\ r \in S
      BY <1>2, SeqMonotonic
    <3> HIDE DEF S, r
    <3>2. Append(pending, r) = pending \o <<r>>
      BY <3>1, AppendIsConcat
    <3> QED
      BY <1>4, <3>2 DEF Routed, r
  <2>2. Alone(r) /\ Own(r) = n /\ r.entities = log[n].entities /\ r.kind = log[n].kind
    BY <1>1, <1>4, ReportAlone
  <2> HIDE DEF b, r
  <2>3. /\ b \in Seq(Range(b)) /\ DOMAIN b = DOMAIN pending \union {Len(pending) + 1}
        /\ (\A k \in DOMAIN pending : b[k] = pending[k])
        /\ b[Len(pending) + 1] = r
    BY <1>2, <2>1, AppendRange
  <2>4. \A k \in DOMAIN pending : Own(pending[k]) # n
    <3>1. Reports(pending) = {Own(u) : u \in Range(pending)}
      BY FreshReports DEF IsBatch
    <3>2. \A k \in DOMAIN pending : Own(pending[k]) \in 1 .. Given
      BY <3>1 DEF Range
    <3> QED
      BY <1>1, <3>2
  <2>5. \A k, l \in DOMAIN b : Own(b[k]) = Own(b[l]) => k = l
    BY <2>2, <2>3, <2>4 DEF IsBatch, IsFresh
  <2>6. \A k \in DOMAIN b : Alone(b[k])
    BY <2>2, <2>3 DEF IsBatch, IsFresh
  <2>7. IsBatch(b)
    BY <1>1, <2>2, <2>3, <2>5, <2>6 DEF IsBatch, IsFresh
  <2>8. Reports(b) = Reports(pending) \union {n}
    <3>1. Reports(pending) = {Own(u) : u \in Range(pending)} /\ Reports(b) = {Own(u) : u \in Range(b)}
      BY <2>7, FreshReports DEF IsBatch
    <3>2. Range(b) = Range(pending) \union {r}
      BY <2>3 DEF Range
    <3> QED
      BY <2>2, <3>1, <3>2
  <2> QED
    BY <1>1, <1>4, <2>7, <2>8 DEF b
<1> QED
  BY <1>3, <1>4

(* A fusion: what comes out of it has the reports of the batch, but for those of *)
(* kind "none".                                                                  *)
LEMMA FuseOut ==
  ASSUME Feed, StatsOK, NEW batch, IsBatch(batch), Fuse(batch), UNCHANGED log
  PROVE  /\ Sound(out') /\ IsBatch(pending)' /\ StatsOK' /\ pc' \in {"row", "ready"}
         /\ (out' # <<>> <=> pc' = "row")
         /\ Reports(InMemory') \subseteq Reports(batch)
         /\ \A n \in Reports(batch) : log[n].kind # "none" => n \in Reports(InMemory')
         /\ out' # <<>> => Reports(pending') = Reports(batch)
         /\ Reports(pending') \subseteq Reports(batch)
         /\ \A k \in DOMAIN out' : Disputed(out'[k]) => out'[k].conf <= 1000 - ContradictionPenalty
<1>1. PICK fails \in BOOLEAN :
        /\ ProcessUpdates(batch, fails)
        /\ out' = Storable(Outcome(batch, fails))
        /\ IF out' = <<>> THEN pc' = "ready" /\ pending' = <<>> ELSE pc' = "row" /\ pending' = batch
  BY DEF Fuse
<1> DEFINE o == Outcome(batch, fails)
<1>2. Sound(o) /\ Reports(o) = Reports(batch) /\ Doubted(o, batch) /\ Silent(o, batch)
  BY OutcomeKeeps DEF IsBatch
<1> HIDE DEF o
<1> DEFINE D == {k \in DOMAIN o : o[k].kind # "none"}
<1>3. Arranges(out', o, D)
  <2>1. out' = Chosen(o, D)
    BY <1>1 DEF Storable, o
  <2>2. o \in Seq(Range(o)) /\ D \subseteq DOMAIN o
    BY <1>2 DEF Sound
  <2> HIDE DEF D
  <2> QED
    BY <2>1, <2>2, ChosenArranges
<1>4. /\ Sound(out') /\ Doubted(out', batch)
      /\ Reports(out') = UNION {Range(o[k].from) : k \in D}
  <2>1. D \subseteq DOMAIN o
    OBVIOUS
  <2> HIDE DEF D
  <2> QED
    BY <1>2, <1>3, <2>1, ArrangedSound
<1>a. Reports(out') \subseteq Reports(batch)
  BY <1>2, <1>4 DEF Reports
<1>b. ASSUME NEW n \in Reports(batch), log[n].kind # "none" PROVE n \in Reports(out')
  <2>1. PICK k \in DOMAIN o : n \in Range(o[k].from)
    BY <1>2 DEF Reports
  <2>2. PICK j \in DOMAIN batch : Own(batch[j]) = n /\ batch[j].kind = log[n].kind
    <3>1. Reports(batch) = {Own(u) : u \in Range(batch)}
      BY FreshReports DEF IsBatch
    <3> QED
      BY <3>1 DEF IsBatch, Range
  <2>3. batch[j] \in Range(batch)
    BY DEF Range
  <2>4. o[k].kind # "none"
    BY <1>2, <1>b, <2>1, <2>2, <2>3 DEF Silent
  <2> QED
    BY <1>4, <2>1, <2>4
<1> HIDE DEF D
<1>5. StatsOK'
  BY <1>1, ProcessStats DEF IsBatch
<1>6. DOMAIN <<>> = {} /\ <<>> \in Seq(Range(<<>>))
  OBVIOUS
<1>7. IsBatch(pending)'
  <2>1. pending' = <<>> \/ pending' = batch
    BY <1>1
  <2> QED
    BY <1>6, <2>1 DEF IsBatch, IsFresh
<1>8. Reports(InMemory') = Reports(out')
  BY <1>1, <1>6 DEF InMemory, Reports
<1>c. Reports(pending') \subseteq Reports(batch)
  <2>1. Reports(<<>>) = {}
    BY <1>6 DEF Reports
  <2>2. pending' = <<>> \/ pending' = batch
    BY <1>1
  <2> QED
    BY <2>1, <2>2
<1>9. ASSUME NEW k \in DOMAIN out', Disputed(out'[k])
      PROVE  out'[k].conf <= 1000 - ContradictionPenalty
  <2>1. PICK i, j \in Range(out'[k].from) : i # j /\ Contradict(log[i], log[j])
    BY <1>9 DEF Disputed
  <2>2. Reports(batch) = {Own(u) : u \in Range(batch)}
    BY FreshReports DEF IsBatch
  <2>3. \A m \in Range(out'[k].from) : m \in Reports(batch)
    BY <1>a DEF Reports
  <2>4. \A u \in Range(batch) : u.entities = log[Own(u)].entities
    BY DEF IsBatch, Range
  <2>5. PICK a \in Range(batch) : Own(a) = i
    BY <2>2, <2>3
  <2>6. PICK b \in Range(batch) : Own(b) = j
    BY <2>2, <2>3
  <2>7. Contradict(a, b)
    BY <2>1, <2>4, <2>5, <2>6 DEF Contradict
  <2> QED
    BY <1>4, <2>1, <2>5, <2>6, <2>7 DEF Doubted
<1> QED
  BY <1>1, <1>4, <1>5, <1>7, <1>8, <1>9, <1>a, <1>b, <1>c

(* The invariant when the reports of a batch are in memory, fused or not yet. *)
LEMMA BatchEInv ==
  ASSUME EInv, UNCHANGED <<log, rows, lost, pushed, audit>>, Feed',
         NEW batch, IsBatch(pending)', Sound(out'), StatsOK', pc' \in {"row", "ready"},
         out' # <<>> <=> pc' = "row",
         Reports(InMemory') \subseteq Reports(batch),
         \A n \in Reports(batch) : log[n].kind # "none" => n \in Reports(InMemory'),
         Reports(pending') \subseteq Reports(batch),
         out' # <<>> => Reports(pending') = Reports(batch),
         \A k \in DOMAIN out' : Disputed(out'[k]) => out'[k].conf <= 1000 - ContradictionPenalty,
         Reports(rows) \cap Reports(batch) = {},
         lost \cap (Reports(rows) \union Reports(batch)) = {},
         Reports(rows) \union Reports(batch) \union lost \subseteq 1 .. Given',
         \A n \in Range(audit) :
            log[n].kind # "none" => n \in Reports(rows) \union Reports(batch) \union lost
  PROVE  EInv'
<1>1. Lists'
  BY DEF EInv, Lists, Writing
<1>2. Apart'
  BY DEF Apart
<1>3. Everywhere'
  BY DEF Everywhere
<1>4. Batched'
  BY DEF Batched
<1>5. Penalties'
  BY DEF EInv, Penalties, Disputed
<1>6. Tiers'
  BY DEF EInv, Tiers
<1> QED
  BY <1>1, <1>2, <1>3, <1>4, <1>5, <1>6 DEF EInv

LEMMA RouteEInv ==
  ASSUME EInv, Route
  PROVE  EInv'
<1> DEFINE batch == pending \o Routed(Head(source))
<1>1. /\ pc = "routing" /\ source' = Tail(source)
      /\ UNCHANGED <<log, rows, lost, pushed, audit>>
      /\ \/ Fuse(batch)
         \/ /\ pending' = batch /\ pc' = "ready"
            /\ UNCHANGED <<out, speakerStats>>
  <2>1. /\ pc = "routing" /\ source' = Tail(source)
        /\ UNCHANGED <<log, rows, lost, pushed, audit>>
    BY DEF Route, tables, history
  <2>2. IF total % Batch = 0 /\ batch # <<>> THEN Fuse(batch)
        ELSE pending' = batch /\ pc' = "ready" /\ UNCHANGED <<out, failures, fusion>>
    BY DEF Route
  <2> HIDE DEF batch
  <2> QED
    BY <2>1, <2>2 DEF fusion
<1>2. source # <<>> /\ Feed /\ IsBatch(pending) /\ StatsOK /\ out = <<>>
  BY <1>1 DEF EInv, Feed, Lists, Writing
<1>3. InMemory = pending
  BY <1>2 DEF InMemory
<1>4. Given \in Nat /\ Given + 1 \in DOMAIN log
  BY <1>2, NextGiven
<1>5. Reports(pending) \subseteq 1 .. Given
  BY <1>3 DEF EInv, Apart
<1>6. /\ IsBatch(batch)
      /\ Reports(batch) \in {Reports(pending), Reports(pending) \union {Given + 1}}
      /\ log[Given + 1].kind # "none" => Given + 1 \in Reports(batch)
  BY <1>2, <1>5, RoutedBatch
<1> HIDE DEF batch
<1>7. pc' \in {"row", "ready"}
  <2>1. CASE Fuse(batch)
    BY <2>1, <1>1, <1>2, <1>6, FuseOut
  <2> QED
    BY <1>1, <2>1
<1>8. Feed' /\ Given' = Given + 1
  BY <1>1, <1>2, <1>7, FeedMoves
<1>9. Reports(rows) \union Reports(pending) \union lost \subseteq 1 .. Given
  BY <1>3 DEF EInv, Apart
<1>10. /\ Reports(rows) \cap Reports(batch) = {}
       /\ lost \cap (Reports(rows) \union Reports(batch)) = {}
  BY <1>3, <1>4, <1>6, <1>9 DEF EInv, Apart
<1>11. Reports(rows) \union Reports(batch) \union lost \subseteq 1 .. Given'
  BY <1>4, <1>6, <1>8, <1>9
<1>12. \A n \in Range(audit) :
          log[n].kind # "none" => n \in Reports(rows) \union Reports(batch) \union lost
  BY <1>3, <1>6 DEF EInv, Everywhere
<1>13. CASE Fuse(batch)
  BY <1>1, <1>2, <1>6, <1>8, <1>10, <1>11, <1>12, <1>13, FuseOut, BatchEInv
<1>14. CASE pending' = batch /\ pc' = "ready" /\ UNCHANGED <<out, speakerStats>>
  <2>1. InMemory' = batch
    BY <1>2, <1>14 DEF InMemory
  <2>2. IsBatch(pending)'
    BY <1>1, <1>6, <1>14 DEF IsBatch
  <2>3. out' = <<>> /\ Sound(out') /\ DOMAIN out' = {}
    BY <1>2, <1>14 DEF EInv, Lists
  <2>4. StatsOK'
    BY <1>2, <1>14 DEF StatsOK
  <2> QED
    BY <1>1, <1>8, <1>10, <1>11, <1>12, <1>14, <2>1, <2>2, <2>3, <2>4, BatchEInv
<1> QED
  BY <1>1, <1>13, <1>14

LEMMA ExhaustedEInv ==
  ASSUME EInv, Exhausted
  PROVE  EInv'
<1>1. /\ pc = "ready"
      /\ UNCHANGED <<log, source, rows, lost, pushed, audit>>
      /\ Fuse(pending) \/ (pc' = "done" /\ UNCHANGED <<pending, out, speakerStats>>)
  BY DEF Exhausted, tables, fusion, history
<1>2. Feed /\ IsBatch(pending) /\ StatsOK /\ out = <<>>
  BY <1>1 DEF EInv, Lists, Writing
<1>3. InMemory = pending /\ Given' = Given
  BY <1>1, <1>2 DEF InMemory, Given
<1>4. CASE Fuse(pending)
  <2>1. /\ Reports(rows) \cap Reports(pending) = {}
        /\ lost \cap (Reports(rows) \union Reports(pending)) = {}
        /\ Reports(rows) \union Reports(pending) \union lost \subseteq 1 .. Given'
    BY <1>3 DEF EInv, Apart
  <2>2. \A n \in Range(audit) :
          log[n].kind # "none" => n \in Reports(rows) \union Reports(pending) \union lost
    BY <1>1, <1>3 DEF EInv, Everywhere
  <2>3. pc' \in {"row", "ready"}
    BY <1>1, <1>2, <1>4, FuseOut
  <2>4. Feed'
    BY <1>1, <1>2, <1>3, <2>3 DEF Feed, Report
  <2> QED
    BY <1>1, <1>2, <1>4, <2>1, <2>2, <2>4, FuseOut, BatchEInv
<1>5. CASE pc' = "done" /\ UNCHANGED <<pending, out, speakerStats>>
  BY <1>1, <1>5, QuietEInv
<1> QED
  BY <1>1, <1>4, <1>5

(* The first of several updates, and the others. *)
LEMMA SoundRest ==
  ASSUME NEW s, Sound(s), s # <<>>
  PROVE  /\ Sound(Tail(s))
         /\ Reports(s) = Range(Head(s).from) \union Reports(Tail(s))
         /\ Range(Head(s).from) \cap Reports(Tail(s)) = {}
         /\ Head(s) = s[1] /\ 1 \in DOMAIN s
         /\ \A k \in DOMAIN Tail(s) : k + 1 \in DOMAIN s /\ Tail(s)[k] = s[k + 1]
<1> DEFINE t == Tail(s)
<1>1. s \in Seq(Range(s)) /\ Len(s) \in Nat \ {0} /\ DOMAIN s = 1 .. Len(s)
  BY DEF Sound
<1>2. Head(s) = s[1] /\ 1 \in DOMAIN s
  BY <1>1
<1>3. /\ t \in Seq(Range(s)) /\ Len(t) = Len(s) - 1 /\ DOMAIN t = 1 .. Len(s) - 1
      /\ \A k \in 1 .. Len(s) - 1 : t[k] = s[k + 1]
  BY <1>1, HeadTailProperties
<1> HIDE DEF t
<1>4. \A k \in DOMAIN t : k + 1 \in DOMAIN s /\ t[k] = s[k + 1]
  BY <1>1, <1>3
<1>5. t \in Seq(Range(t))
  <2>1. \A k \in 1 .. Len(t) : t[k] \in Range(t)
    BY <1>1, <1>3 DEF Range
  <2> QED
    BY <1>3, <2>1
<1>6. Spread(t)
  <2> SUFFICES ASSUME NEW k \in DOMAIN t, NEW l \in DOMAIN t,
                      NEW i \in DOMAIN t[k].from, NEW j \in DOMAIN t[l].from,
                      t[k].from[i] = t[l].from[j]
               PROVE  k = l /\ i = j
    BY DEF Spread
  <2>1. k + 1 = l + 1 /\ i = j
    BY <1>4 DEF Sound, Spread
  <2> QED
    BY <1>1, <1>3, <2>1
<1>7. Sound(t)
  BY <1>4, <1>5, <1>6 DEF Sound
<1>8. Reports(s) = Range(s[1].from) \union Reports(t)
  <2>1. ASSUME NEW k \in DOMAIN s PROVE k = 1 \/ (k - 1 \in DOMAIN t /\ s[k] = t[k - 1])
    BY <1>1, <1>3
  <2>2. Reports(s) \subseteq Range(s[1].from) \union Reports(t)
    BY <2>1 DEF Reports
  <2>3. Reports(t) \subseteq Reports(s) /\ Range(s[1].from) \subseteq Reports(s)
    BY <1>2, <1>4 DEF Reports
  <2> QED
    BY <2>2, <2>3
<1>9. Range(s[1].from) \cap Reports(t) = {}
  <2> SUFFICES ASSUME NEW i \in DOMAIN s[1].from, NEW k \in DOMAIN t, NEW j \in DOMAIN t[k].from,
                      s[1].from[i] = t[k].from[j]
               PROVE  FALSE
    BY DEF Reports, Range
  <2>1. 1 = k + 1
    BY <1>2, <1>4 DEF Sound, Spread
  <2> QED
    BY <1>1, <1>3, <2>1
<1> QED
  BY <1>2, <1>4, <1>7, <1>8, <1>9 DEF t

(* One more update. *)
LEMMA SoundMore ==
  ASSUME NEW s, Sound(s), NEW t, Sound(t), t # <<>>, Range(Head(t).from) \cap Reports(s) = {}
  PROVE  LET r == Append(s, Head(t))
         IN  /\ Sound(r) /\ Reports(r) = Reports(s) \union Range(Head(t).from)
             /\ DOMAIN r = DOMAIN s \union {Len(s) + 1} /\ Len(r) = Len(s) + 1
             /\ \A k \in DOMAIN s : r[k] = s[k]
             /\ r[Len(s) + 1] = Head(t)
<1> DEFINE u == Head(t)
           r == Append(s, u)
<1>1. s \in Seq(Range(s)) /\ Len(s) \in Nat /\ DOMAIN s = 1 .. Len(s)
  BY DEF Sound
<1>2. /\ Whole(u) /\ u.from \in Seq(Nat)
      /\ \A i, j \in DOMAIN u.from : u.from[i] = u.from[j] => i = j
  BY SoundRest DEF Sound, Spread
<1>3. Range(u.from) \cap Reports(s) = {}
  OBVIOUS
<1> HIDE DEF u
<1>4. /\ r \in Seq(Range(r)) /\ DOMAIN r = DOMAIN s \union {Len(s) + 1}
      /\ \A k \in DOMAIN s : r[k] = s[k]
      /\ r[Len(s) + 1] = u
  BY <1>1, AppendRange
<1>5. Len(r) = Len(s) + 1
  BY <1>1
<1> HIDE DEF r
<1>6. Spread(r)
  <2> SUFFICES ASSUME NEW k \in DOMAIN r, NEW l \in DOMAIN r,
                      NEW i \in DOMAIN r[k].from, NEW j \in DOMAIN r[l].from,
                      r[k].from[i] = r[l].from[j]
               PROVE  k = l /\ i = j
    BY DEF Spread
  <2>1. CASE k \in DOMAIN s /\ l \in DOMAIN s
    BY <1>4, <2>1 DEF Sound, Spread
  <2>2. CASE k = Len(s) + 1 /\ l = Len(s) + 1
    <3>1. r[k] = u /\ r[l] = u
      BY <1>4, <2>2
    <3>2. i \in DOMAIN u.from /\ j \in DOMAIN u.from /\ u.from[i] = u.from[j]
      BY <3>1
    <3> QED
      BY <1>2, <2>2, <3>2
  <2>3. CASE k \in DOMAIN s /\ l = Len(s) + 1
    <3>1. r[k] = s[k] /\ r[l] = u
      BY <1>4, <2>3
    <3>2. s[k].from[i] \in Reports(s)
      BY <2>3, <3>1 DEF Reports, Range
    <3>3. u.from[j] \in Range(u.from)
      BY <3>1 DEF Range
    <3> QED
      BY <1>3, <3>1, <3>2, <3>3
  <2>4. CASE l \in DOMAIN s /\ k = Len(s) + 1
    <3>1. r[l] = s[l] /\ r[k] = u
      BY <1>4, <2>4
    <3>2. s[l].from[j] \in Reports(s)
      BY <2>4, <3>1 DEF Reports, Range
    <3>3. u.from[i] \in Range(u.from)
      BY <3>1 DEF Range
    <3> QED
      BY <1>3, <3>1, <3>2, <3>3
  <2> QED
    BY <1>4, <2>1, <2>2, <2>3, <2>4
<1>7. \A k \in DOMAIN r : Whole(r[k]) /\ r[k].from \in Seq(Nat)
  BY <1>2, <1>4 DEF Sound
<1>8. Reports(r) = Reports(s) \union Range(u.from)
  BY <1>4 DEF Reports
<1> QED
  BY <1>4, <1>5, <1>6, <1>7, <1>8 DEF Sound, r, u

LEMMA WriteRowEInv ==
  ASSUME EInv, WriteRow
  PROVE  EInv'
<1> USE DEF Writing
<1>1. /\ pc = "row" /\ rows' = Append(rows, Head(out)) /\ pc' \in {"push", "entities"}
      /\ UNCHANGED <<log, source, audit, pending, out, lost, pushed, speakerStats>>
  BY DEF WriteRow, InsertRow, fusion, judgements
<1>2. out # <<>> /\ Sound(out) /\ Sound(rows)
  BY <1>1 DEF EInv, Lists
<1>3. InMemory = out /\ InMemory' = Tail(out) /\ Given' = Given
  BY <1>1, <1>2 DEF InMemory, Given
<1> DEFINE new == Range(Head(out).from)
           rest == Reports(Tail(out))
<1>4. /\ Reports(InMemory) = new \union rest /\ new \cap rest = {} /\ Reports(InMemory') = rest
      /\ Sound(Tail(out)) /\ Head(out) = out[1] /\ 1 \in DOMAIN out
  BY <1>2, <1>3, SoundRest
<1>5. new \cap Reports(rows) = {}
  BY <1>4 DEF EInv, Apart
<1>6. /\ Sound(rows') /\ Reports(rows') = Reports(rows) \union new
      /\ DOMAIN rows' = DOMAIN rows \union {Len(rows) + 1} /\ Len(rows') = Len(rows) + 1
      /\ \A k \in DOMAIN rows : rows'[k] = rows[k]
      /\ rows'[Len(rows) + 1] = Head(out)
  BY <1>1, <1>2, <1>5, SoundMore
<1> HIDE DEF new, rest
<1>7. Feed'
  BY <1>1, <1>3 DEF EInv, Feed, Report
<1>8. Lists'
  <2>1. StatsOK' /\ IsBatch(pending)'
    BY <1>1 DEF EInv, Lists, StatsOK, IsBatch
  <2>2. rows' # <<>>
    BY <1>6
  <2>3. rows'[Len(rows')] = Head(out')
    BY <1>1, <1>6
  <2> QED
    BY <1>1, <1>2, <1>6, <2>1, <2>2, <2>3 DEF Lists
<1>9. Apart'
  BY <1>1, <1>3, <1>4, <1>6 DEF EInv, Apart
<1>10. Everywhere'
  BY <1>1, <1>3, <1>4, <1>6 DEF EInv, Everywhere
<1>11. Batched'
  BY <1>1, <1>2, <1>4, <1>6 DEF EInv, Batched
<1>12. Penalties'
  BY <1>1, <1>4, <1>6 DEF EInv, Penalties, Disputed
<1>13. Tiers'
  BY <1>1, <1>6 DEF EInv, Tiers
<1> QED
  BY <1>7, <1>8, <1>9, <1>10, <1>11, <1>12, <1>13 DEF EInv

LEMMA PushedEInv ==
  ASSUME EInv, NEW blocked, Pushed(blocked), pc \in Writing \ {"row"}
  PROVE  EInv'
<1> USE DEF Writing
<1> DEFINE p == [row |-> Len(rows), tier |-> TierOf(Head(out)), schema |-> inner'.schema,
                 sent |-> Sent(Head(out), inner', blocked)]
<1>1. pushed' = Append(pushed, p)
  BY DEF Pushed
<1>2. p.row = Len(rows) /\ p.tier = TierOf(Head(out))
  OBVIOUS
<1> HIDE DEF p
<1>3. /\ out' = Tail(out)
      /\ IF Len(out) = 1 THEN pc' = "ready" /\ pending' = <<>>
         ELSE pc' = "row" /\ UNCHANGED pending
      /\ UNCHANGED <<log, source, audit, rows, lost, speakerStats>>
  BY DEF Pushed, fusion, tables
<1>4. /\ out # <<>> /\ Sound(out) /\ Sound(rows)
      /\ rows # <<>> /\ rows[Len(rows)] = Head(out)
  BY DEF EInv, Lists
<1>5. /\ Sound(Tail(out))
      /\ \A k \in DOMAIN Tail(out) : k + 1 \in DOMAIN out /\ Tail(out)[k] = out[k + 1]
  BY <1>4, SoundRest
<1>6. InMemory = Tail(out) /\ Given' = Given
  BY <1>3, <1>4 DEF InMemory, Given
<1>7. Tail(out) = <<>> <=> Len(out) = 1
  <2>1. Len(out) \in Nat \ {0} /\ out \in Seq(Range(out))
    BY <1>4 DEF Sound
  <2> DEFINE t == Tail(out)
  <2>2. Len(t) = Len(out) - 1 /\ t \in Seq(Range(out))
    BY <2>1, HeadTailProperties
  <2> HIDE DEF t
  <2>3. t = <<>> <=> Len(t) = 0
    BY <2>2, EmptySeq
  <2> QED
    BY <2>1, <2>2, <2>3 DEF t
<1>8. InMemory' = Tail(out)
  BY <1>3, <1>7 DEF InMemory
<1>9. Feed'
  BY <1>3, <1>6 DEF EInv, Feed, Report
<1>10. Lists'
  <2>1. StatsOK'
    BY <1>3 DEF EInv, Lists, StatsOK
  <2>2. IsBatch(pending)'
    <3>1. CASE pending' = <<>>
      BY <3>1 DEF IsBatch, IsFresh
    <3>2. CASE pending' = pending
      BY <1>3, <3>2 DEF EInv, Lists, IsBatch
    <3> QED
      BY <1>3, <3>1, <3>2
  <2> QED
    BY <1>3, <1>4, <1>5, <1>7, <2>1, <2>2 DEF Lists
<1>11. Apart'
  <2>1. Reports(pending') \subseteq Reports(pending)
    <3>1. <<>> = pending' => DOMAIN pending' = {}
      OBVIOUS
    <3>2. CASE pending' = <<>>
      BY <3>1, <3>2 DEF Reports
    <3> QED
      BY <1>3, <3>2
  <2> QED
    BY <1>3, <1>6, <1>8, <2>1 DEF EInv, Apart
<1>12. Everywhere'
  BY <1>3, <1>6, <1>8 DEF EInv, Everywhere
<1>13. Batched'
  BY <1>3, <1>4, <1>6, <1>7, <1>8 DEF EInv, Batched
<1>14. Penalties'
  BY <1>3, <1>5 DEF EInv, Penalties, Disputed
<1>15. Tiers'
  <2>1. /\ pushed' \in Seq(Range(pushed')) /\ DOMAIN pushed' = DOMAIN pushed \union {Len(pushed) + 1}
        /\ \A k \in DOMAIN pushed : pushed'[k] = pushed[k]
        /\ pushed'[Len(pushed) + 1] = p
    BY <1>1, AppendRange DEF EInv, Tiers
  <2>2. Len(rows) \in DOMAIN rows
    BY <1>4 DEF Sound
  <2> QED
    BY <1>2, <1>3, <1>4, <2>1, <2>2 DEF EInv, Tiers
<1> QED
  BY <1>9, <1>10, <1>11, <1>12, <1>13, <1>14, <1>15 DEF EInv

LEMMA DiesEInv ==
  ASSUME EInv, Dies
  PROVE  EInv'
<1> USE DEF Writing
<1>1. /\ lost' = lost \union Unwritten
      /\ source' = IF pc = "routing" THEN Tail(source) ELSE source
      /\ pending' = <<>> /\ out' = <<>> /\ pc' \in {"boot", "done"}
      /\ speakerStats' = [s \in Speakers |-> [confirmed |-> 0, total |-> 0]]
      /\ UNCHANGED <<log, pushed, audit, rows>>
  BY DEF Dies, tables
<1>2. Given \in Nat /\ DOMAIN log = 1 .. Len(log) /\ Len(log) \in Nat /\ Given <= Len(log)
  BY DEF EInv, Feed, Given
<1>3. pc = "routing" => source # <<>> /\ Head(source) = Given + 1
  BY NextGiven DEF EInv, Feed
<1>4. /\ Feed' /\ Given' = IF pc = "routing" THEN Given + 1 ELSE Given
  <2>1. CASE pc = "routing"
    BY <1>1, <1>3, <2>1, FeedMoves DEF EInv
  <2>2. CASE pc # "routing"
    BY <1>1, <2>2 DEF EInv, Feed, Given, Report
  <2> QED
    BY <2>1, <2>2
<1> DEFINE next == IF pc = "routing" THEN {Given + 1} ELSE {}
<1>5. Held = Reports(pending)
  <2>1. IsFresh(pending) /\ \A k \in DOMAIN pending : Own(pending[k]) \in DOMAIN log
    BY DEF EInv, Lists, IsBatch
  <2>2. \A k \in DOMAIN pending : Range(pending[k].from) \subseteq DOMAIN log
    BY <2>1, FreshReports
  <2> QED
    BY <2>2 DEF Held, Reports
<1>6. Kept = Reports(rows)
  <2>1. Reports(rows) \subseteq DOMAIN log
    BY <1>2 DEF EInv, Apart
  <2> QED
    BY <2>1 DEF Kept, Reports
<1>7. Reports(InMemory) \subseteq Reports(pending) \ Reports(rows)
  <2>1. Reports(InMemory) \cap Reports(rows) = {}
    BY DEF EInv, Apart
  <2>2. CASE out = <<>>
    BY <2>1, <2>2 DEF InMemory
  <2>3. CASE out # <<>>
    BY <2>1, <2>3 DEF EInv, Batched
  <2> QED
    BY <2>2, <2>3
<1>8. Reports(rows) \union Reports(pending) \union lost \subseteq 1 .. Given
  BY DEF EInv, Apart
<1>9. Unwritten = (Reports(pending) \ Reports(rows)) \union next
  <2>1. next \cap Reports(rows) = {}
    BY <1>2, <1>8
  <2> QED
    BY <1>3, <1>5, <1>6, <2>1 DEF Unwritten
<1>10. /\ InMemory' = <<>> /\ Reports(InMemory') = {} /\ Reports(pending') = {}
       /\ IsBatch(pending)' /\ Sound(out)' /\ StatsOK' /\ DOMAIN out' = {}
  <2>1. InMemory' = <<>>
    BY <1>1 DEF InMemory
  <2>2. <<>> \in Seq(Range(<<>>)) /\ DOMAIN <<>> = {}
    OBVIOUS
  <2>3. StatsOK'
    BY <1>1 DEF StatsOK
  <2> QED
    BY <1>1, <2>1, <2>2, <2>3 DEF Reports, IsBatch, IsFresh, Sound, Spread
<1> HIDE DEF next
<1>11. Lists'
  BY <1>1, <1>10 DEF EInv, Lists
<1>12. Apart'
  <2>1. next \cap Reports(rows) = {} /\ next \subseteq 1 .. Given' /\ 1 .. Given \subseteq 1 .. Given'
    BY <1>2, <1>4, <1>8 DEF next
  <2> QED
    BY <1>1, <1>8, <1>9, <1>10, <2>1 DEF EInv, Apart
<1>13. Everywhere'
  BY <1>1, <1>7, <1>9, <1>10 DEF EInv, Everywhere, next
<1>14. Batched'
  BY <1>1 DEF Batched
<1>15. Penalties'
  BY <1>1, <1>10 DEF EInv, Penalties, Disputed
<1>16. Tiers'
  BY <1>1 DEF EInv, Tiers
<1> QED
  BY <1>4, <1>11, <1>12, <1>13, <1>14, <1>15, <1>16 DEF EInv

LEMMA InitEInv == Init => EInv
<1> SUFFICES ASSUME Init PROVE EInv
  OBVIOUS
<1>1. PICK f \in Feeds : log = Log(f)
  BY DEF Init
<1>2. /\ source = [n \in DOMAIN log |-> n] /\ pc = "boot" /\ pending = <<>> /\ out = <<>>
      /\ pushed = <<>> /\ lost = {} /\ audit = <<>> /\ rows = <<>>
      /\ speakerStats = [s \in Speakers |-> [confirmed |-> 0, total |-> 0]]
  BY DEF Init, FusionInit, StoreInit
<1>3. /\ log \in Seq(Range(log)) /\ \A n \in DOMAIN log : IsUpdate(Report(log, n))
  BY <1>1, PipelineAssumption
<1>4. Len(log) \in Nat /\ DOMAIN log = 1 .. Len(log)
  BY <1>3
<1>5. source \in Seq(Nat) /\ Len(source) = Len(log) /\ DOMAIN source = 1 .. Len(log)
  <2>1. source \in [1 .. Len(log) -> Nat]
    BY <1>2, <1>4
  <2> QED
    BY <1>4, <2>1, SeqDef
<1>6. Given = 0
  BY <1>4, <1>5 DEF Given
<1>7. <<>> \in Seq(Range(<<>>)) /\ DOMAIN <<>> = {} /\ Range(<<>>) = {} /\ <<>> \in Seq(Nat)
  BY DEF Range
<1>8. Feed
  BY <1>2, <1>3, <1>4, <1>5, <1>6, <1>7 DEF Feed
<1>9. Lists
  BY <1>2, <1>7 DEF Lists, IsBatch, IsFresh, Sound, Spread, StatsOK, Writing
<1>10. Reports(InMemory) = {} /\ Reports(rows) = {} /\ Reports(pending) = {}
  BY <1>2, <1>7 DEF Reports, InMemory
<1>11. Apart /\ Everywhere /\ Batched /\ Penalties /\ Tiers
  BY <1>2, <1>7, <1>10 DEF Apart, Everywhere, Batched, Penalties, Tiers
<1> QED
  BY <1>8, <1>9, <1>11 DEF EInv

LEMMA NextEInv == EInv /\ [Next]_vars => EInv'
<1> SUFFICES ASSUME EInv, [Next]_vars PROVE EInv'
  OBVIOUS
<1> USE DEF Writing, Starting
<1>1. CASE Boot
  BY <1>1, QuietEInv DEF Boot, history, fusion, tables
<1>2. CASE BootFails
  BY <1>2, QuietEInv DEF BootFails, history, fusion, tables
<1>3. CASE Built
  BY <1>3, QuietEInv DEF Built, history, fusion, tables
<1>4. CASE Read
  BY <1>4, ReadEInv
<1>5. CASE Turn
  <2>1. CASE Route
    BY <2>1, RouteEInv
  <2>2. CASE Exhausted
    BY <2>2, ExhaustedEInv
  <2>3. CASE WriteRow
    BY <2>3, WriteRowEInv
  <2>4. CASE WriteEntity
    <3>1. /\ pc = "entities" /\ pc' \in {"push", "entities"}
          /\ UNCHANGED <<log, source, audit, pending, out, rows, lost, pushed, speakerStats>>
      BY <2>4 DEF WriteEntity, UpsertEntity, fusion
    <3> QED
      BY <3>1, QuietEInv
  <2>5. CASE Push
    BY <2>5, PushedEInv DEF Push
  <2>6. CASE Check
    BY <2>6, QuietEInv DEF Check, history, fusion, tables
  <2>7. CASE CheckFurther
    BY <2>7, QuietEInv DEF CheckFurther, history, fusion, tables
  <2>8. CASE PushAfterCheck
    BY <2>8, PushedEInv DEF PushAfterCheck
  <2> QED
    BY <1>5, <2>1, <2>2, <2>3, <2>4, <2>5, <2>6, <2>7, <2>8 DEF Turn
<1>6. CASE Dies
  BY <1>6, DiesEInv
<1>7. CASE Missed
  BY <1>7, MissedEInv
<1>8. CASE Operators
  <2>1. UNCHANGED <<audit, rows>>
    BY <1>8 DEF Operators, WriteCorrection, RecordOverride, tables
  <2>2. UNCHANGED <<log, source, pending, out, lost, pushed, speakerStats, pc>>
    BY <1>8 DEF Operators, loop, history, fusion
  <2> QED
    BY <2>1, <2>2, QuietEInv
<1>9. CASE UNCHANGED vars
  BY <1>9, QuietEInv DEF vars, loop, history, fusion, tables
<1> QED
  BY <1>1, <1>2, <1>3, <1>4, <1>5, <1>6, <1>7, <1>8, <1>9 DEF Next

LEMMA Reachable == Spec => []EInv
<1> QED
  BY InitEInv, NextEInv, PTL DEF Spec

(* How often a report occurs in a sound list. *)
LEMMA CopiesCount ==
  ASSUME NEW us, Sound(us), NEW n
  PROVE  Cardinality(Copies(n, us)) = IF n \in Reports(us) THEN 1 ELSE 0
<1>1. CASE n \in Reports(us)
  <2>1. PICK k \in DOMAIN us : \E i \in DOMAIN us[k].from : us[k].from[i] = n
    BY <1>1 DEF Reports, Range
  <2>2. PICK i \in DOMAIN us[k].from : us[k].from[i] = n
    BY <2>1
  <2>3. <<k, i>> \in Copies(n, us)
    BY <2>2 DEF Copies
  <2>4. ASSUME NEW p \in Copies(n, us) PROVE p = <<k, i>>
    <3>1. PICK l \in DOMAIN us : p \in {l} \X DOMAIN us[l].from /\ us[p[1]].from[p[2]] = n
      BY DEF Copies
    <3>2. l = k /\ p[2] = i
      BY <2>2, <3>1 DEF Sound, Spread
    <3> QED
      BY <3>1, <3>2
  <2>5. Copies(n, us) = {<<k, i>>}
    BY <2>3, <2>4
  <2> QED
    BY <1>1, <2>5, FS_Singleton
<1>2. CASE n \notin Reports(us)
  <2>1. Copies(n, us) = {}
    BY <1>2 DEF Copies, Reports, Range
  <2> QED
    BY <1>2, <2>1, FS_EmptySet
<1> QED
  BY <1>1, <1>2

(* No report is dropped or repeated: that of a message which was read is in exactly   *)
(* one place, whatever the batches, the merges, failed fusions and restarts.          *)
THEOREM ReportsAreKept == Spec => []EveryReportOnce
<1>1. EInv => EveryReportOnce
  <2> SUFFICES ASSUME EInv, NEW n \in Range(audit), log[n].kind # "none"
               PROVE  Cardinality(Copies(n, rows)) + Cardinality(Copies(n, InMemory))
                        + (IF n \in lost THEN 1 ELSE 0)
                        + (IF pc = "routing" /\ n = Head(source) THEN 1 ELSE 0) = 1
    BY DEF EveryReportOnce
  <2>1. Sound(rows) /\ Sound(InMemory)
    <3>1. Sound(rows) /\ Sound(out) /\ IsFresh(pending)
      BY DEF EInv, Lists, IsBatch
    <3>2. Sound(pending) /\ (out # <<>> => Sound(Tail(out)))
      BY <3>1, FreshReports, SoundRest
    <3> QED
      BY <3>1, <3>2 DEF InMemory
  <2>2. /\ Cardinality(Copies(n, rows)) = IF n \in Reports(rows) THEN 1 ELSE 0
        /\ Cardinality(Copies(n, InMemory)) = IF n \in Reports(InMemory) THEN 1 ELSE 0
    BY <2>1, CopiesCount
  <2>3. pc = "routing" => Head(source) = Given + 1
    BY NextGiven DEF EInv, Feed
  <2>4. Given \in Nat
    BY DEF EInv, Feed, Given
  <2>5. /\ n \in Reports(rows) => n \notin Reports(InMemory) /\ n \notin lost /\ n # Given + 1
        /\ n \in Reports(InMemory) => n \notin lost /\ n # Given + 1
        /\ n \in lost => n # Given + 1
    BY <2>4 DEF EInv, Apart
  <2>6. \/ n \in Reports(rows) \union Reports(InMemory) \union lost
        \/ pc = "routing" /\ n = Given + 1
    BY DEF EInv, Everywhere
  <2> QED
    BY <2>2, <2>3, <2>5, <2>6
<1> QED
  BY <1>1, Reachable, PTL

(* Contradictions never go out unmarked, whatever the speaker's record adds to the    *)
(* confidence, where the threshold for an unmarked update is above what a penalised   *)
(* one can have.  It is for the default of 0.85 in the configuration; with one of 0.8 *)
(* or less a contradiction can go out unmarked.                                       *)
THEOREM ContradictionsHeld ==
  ASSUME AutoThreshold > 1000 - ContradictionPenalty
  PROVE  Spec => []ContradictionsAreReviewed
<1>1. EInv => ContradictionsAreReviewed
  <2> SUFFICES ASSUME EInv, NEW k \in DOMAIN pushed,
                      Disputed(rows[pushed[k].row])
               PROVE  pushed[k].tier # "auto"
    BY DEF ContradictionsAreReviewed, Disputed
  <2> DEFINE u == rows[pushed[k].row]
  <2>1. /\ pushed[k].row \in DOMAIN rows /\ pushed[k].tier = TierOf(u)
    BY DEF EInv, Tiers
  <2>2. u.conf <= 1000 - ContradictionPenalty
    BY <2>1 DEF EInv, Penalties
  <2>3. u.conf \in 0 .. 1000
    <3>1. IsUpdate(u)
      BY <2>1 DEF EInv, Lists, Sound, Whole
    <3> HIDE DEF u
    <3> QED
      BY <3>1 DEF IsUpdate
  <2> HIDE DEF u
  <2>4. u.conf < AutoThreshold
    <3> DEFINE w == u.conf
    <3>1. w \in 0 .. 1000 /\ w <= 1000 - ContradictionPenalty
      BY <2>2, <2>3
    <3> HIDE DEF w
    <3>2. w < AutoThreshold
      BY <3>1, RecordsAssumption DEF ContradictionPenalty
    <3> QED
      BY <3>2 DEF w
  <2> QED
    BY <2>1, <2>4 DEF TierOf
<1> QED
  BY <1>1, Reachable, PTL

-----------------------------------------------------------------------------
(* THE TABLES *)

(* How much of the row in hand is written, and of those that went out.          *)
Progress ==
  /\ \A r \in DOMAIN rows : written[r] <= Len(rows[r].entities)
  /\ pc = "entities" => /\ at \in 1 .. Len(Head(out).entities)
                        /\ written[Len(rows)] = at - 1
  /\ pc \in {"push", "check", "reload"} => written[Len(rows)] = Len(Head(out).entities)
  /\ \A k \in DOMAIN pushed : written[pushed[k].row] = Len(rows[pushed[k].row].entities)

(* Of any mentions one is the last.                                              *)
Sequenced == \A ms \in SUBSET Mentions : ms # {} => \E m \in ms : \A n \in ms \ {m} : Later(m, n)

(* The operators judge rows of the table.                                        *)
Judgements ==
  \A list \in {corrections, overrides} :
    list \in Seq(Range(list)) /\ \A j \in DOMAIN list : list[j].update \in DOMAIN rows

SInv == Progress /\ Sequenced /\ Judgements /\ EntitiesFollowRows

(* What the rows are, by the invariants before.                                  *)
LEMMA RowShapes ==
  ASSUME EInv, WInv
  PROVE  /\ RowTypes /\ DOMAIN rows = 1 .. Len(rows) /\ DOMAIN written = 1 .. Len(rows)
         /\ Len(rows) \in Nat
         /\ \A r \in DOMAIN rows : written[r] \in Nat
         /\ \A r \in DOMAIN rows : /\ Len(rows[r].entities) \in Nat
                                   /\ DOMAIN rows[r].entities = 1 .. Len(rows[r].entities)
                                   /\ \A k \in DOMAIN rows[r].entities :
                                        DOMAIN rows[r].entities[k] = EntityFields
<1>1. RowTypes
  BY DEF WInv
<1>2. /\ rows \in Seq(Range(rows)) /\ written \in Seq(Nat) /\ Len(written) = Len(rows)
  BY <1>1 DEF RowTypes
<1>3. /\ DOMAIN rows = 1 .. Len(rows) /\ DOMAIN written = 1 .. Len(rows) /\ Len(rows) \in Nat
      /\ \A r \in DOMAIN rows : written[r] \in Nat
  BY <1>2
<1>4. ASSUME NEW r \in DOMAIN rows
      PROVE  /\ Len(rows[r].entities) \in Nat
             /\ DOMAIN rows[r].entities = 1 .. Len(rows[r].entities)
             /\ \A k \in DOMAIN rows[r].entities : DOMAIN rows[r].entities[k] = EntityFields
  <2> DEFINE u == rows[r]
             es == u.entities
             S == {es[k] : k \in DOMAIN es}
  <2>1. IsUpdate(u)
    BY DEF EInv, Lists, Sound, Whole
  <2> HIDE DEF u
  <2>2. es \in Seq(S) /\ \A k \in DOMAIN es : IsEntity(es[k])
    BY <2>1, Zenon DEF IsUpdate
  <2> HIDE DEF es, S
  <2>3. Len(es) \in Nat /\ DOMAIN es = 1 .. Len(es)
    BY <2>2
  <2>4. \A k \in DOMAIN es : DOMAIN es[k] = EntityFields
    BY <2>2 DEF IsEntity
  <2> QED
    BY <2>3, <2>4 DEF es, u
<1> QED
  BY <1>1, <1>3, <1>4

(* The places in some rows as far as each was written.                           *)
LEMMA PlacesIn ==
  ASSUME NEW D, NEW W, NEW m
  PROVE  m \in UNION {{r} \X (1 .. W[r]) : r \in D}
           <=> \E r \in D : \E k \in 1 .. W[r] : m = <<r, k>>
OBVIOUS

LEMMA MentionPlaces ==
  ASSUME EInv, WInv
  PROVE  /\ Mentions \subseteq Nat \X Nat
         /\ \A m \in Mentions : /\ m[1] \in 1 .. Len(rows) /\ m[2] \in 1 .. written[m[1]]
                                /\ Named(Entity(m))
<1> SUFFICES ASSUME NEW m \in Mentions
             PROVE  /\ m \in Nat \X Nat
                    /\ m[1] \in 1 .. Len(rows) /\ m[2] \in 1 .. written[m[1]]
                    /\ Named(Entity(m))
  OBVIOUS
<1>1. m \in UNION {{r} \X (1 .. written[r]) : r \in DOMAIN rows} /\ Named(Entity(m))
  BY DEF Mentions
<1>2. PICK r \in DOMAIN rows : \E k \in 1 .. written[r] : m = <<r, k>>
  BY <1>1, PlacesIn
<1>3. PICK k \in 1 .. written[r] : m = <<r, k>>
  BY <1>2
<1>4. r \in 1 .. Len(rows) /\ written[r] \in Nat /\ Len(rows) \in Nat
  BY RowShapes
<1> QED
  BY <1>1, <1>3, <1>4

(* The one that is later than the others is the latest.                          *)
LEMMA LatestIs ==
  ASSUME NEW ms \in SUBSET (Nat \X Nat), NEW m \in ms, \A n \in ms \ {m} : Later(m, n)
  PROVE  Latest(ms) = m
<1> DEFINE x == Latest(ms)
<1>1. x \in ms /\ \A n \in ms \ {x} : Later(x, n)
  BY DEF Latest
<1> HIDE DEF x
<1> SUFFICES ASSUME x # m PROVE FALSE
  BY DEF x
<1>2. Later(m, x) /\ Later(x, m)
  BY <1>1
<1>3. m[1] \in Nat /\ m[2] \in Nat /\ x[1] \in Nat /\ x[2] \in Nat
  BY <1>1
<1> QED
  BY <1>2, <1>3 DEF Later

(* A mention is latest in what contains one.                                     *)
LEMMA LatestIn ==
  ASSUME Sequenced, NEW ms \in SUBSET Mentions, ms # {}
  PROVE  Latest(ms) \in ms
<1>1. PICK m \in ms : \A n \in ms \ {m} : Later(m, n)
  BY DEF Sequenced
<1> QED
  BY <1>1 DEF Latest

(* Where no mention is new, and the rows mentioned are the same.                 *)
LEMMA SameMentions ==
  ASSUME EntitiesFollowRows, Sequenced, Mentions' = Mentions, entities' = entities,
         \A m \in Mentions : rows'[m[1]] = rows[m[1]]
  PROVE  EntitiesFollowRows' /\ Sequenced'
<1>1. \A m \in Mentions : Entity(m)' = Entity(m)
  BY DEF Entity
<1>2. \A key : About(key)' = About(key) /\ About(key) \subseteq Mentions
  BY <1>1 DEF About
<1>3. \A key, f : Giving(key, f)' = Giving(key, f) /\ Giving(key, f) \subseteq Mentions
  BY <1>1, <1>2 DEF Giving
<1>4. \A key, f : LastGiven(key, f)' = LastGiven(key, f)
  <2> SUFFICES ASSUME NEW key, NEW f PROVE LastGiven(key, f)' = LastGiven(key, f)
    OBVIOUS
  <2>1. CASE Giving(key, f) = {}
    BY <1>3, <2>1 DEF LastGiven
  <2>2. CASE Giving(key, f) # {}
    <3> DEFINE m == Latest(Giving(key, f))
    <3>1. m \in Mentions
      BY <1>3, <2>2, LatestIn
    <3>2. Latest(Giving(key, f)') = m
      BY <1>3
    <3>3. rows'[m[1]].entities[m[2]] = Entity(m)
      BY <3>1 DEF Entity
    <3> QED
      BY <1>3, <2>2, <3>2, <3>3 DEF LastGiven, Entity
  <2> QED
    BY <2>1, <2>2
<1>5. DOMAIN entities = {StoreKey(Entity(m)) : m \in Mentions}
  BY DEF EntitiesFollowRows
<1>6. ASSUME NEW key \in DOMAIN entities
      PROVE  rows'[Latest(About(key))[1]] = rows[Latest(About(key))[1]]
  <2>1. About(key) # {}
    BY <1>5 DEF About
  <2> QED
    BY <1>2, <2>1, LatestIn
<1>7. {StoreKey(Entity(m)') : m \in Mentions} = {StoreKey(Entity(m)) : m \in Mentions}
  BY <1>1
<1>8. EntitiesFollowRows'
  <2>1. DOMAIN entities' = {StoreKey(Entity(m)') : m \in Mentions'}
    BY <1>5, <1>7
  <2>2. ASSUME NEW key \in DOMAIN entities'
        PROVE  /\ \A f \in Fields : entities'[key].data[f] = LastGiven(key, f)'
               /\ entities'[key].updated = rows'[Latest(About(key)')[1]].ts
    BY <1>2, <1>4, <1>6 DEF EntitiesFollowRows
  <2> QED
    BY <2>1, <2>2 DEF EntitiesFollowRows
<1> QED
  BY <1>8 DEF Sequenced

(* The steps that leave the rows and the entities alone.                         *)
LEMMA QuietSInv ==
  ASSUME EInv, SInv, UNCHANGED <<rows, written, entities, pushed, corrections, overrides>>,
         \/ UNCHANGED <<pc, at, out>>
         \/ pc' \notin {"entities", "push", "check", "reload"}
         \/ {pc, pc'} \subseteq {"push", "check", "reload"} /\ UNCHANGED out
  PROVE  SInv'
<1>1. Progress'
  BY DEF SInv, Progress
<1>2. Mentions' = Mentions
  BY DEF Mentions, Entity
<1>3. EntitiesFollowRows' /\ Sequenced'
  BY <1>2, SameMentions DEF SInv
<1>4. Judgements'
  BY DEF SInv, Judgements
<1> QED
  BY <1>1, <1>3, <1>4 DEF SInv

(* A row without any of its entities.                                            *)
LEMMA WriteRowSInv ==
  ASSUME EInv, WInv, SInv, WriteRow, EInv', WInv'
  PROVE  SInv'
<1> DEFINE n == Len(rows) + 1
           u == Head(out)
           es == u.entities
<1>1. /\ pc = "row" /\ rows' = Append(rows, u) /\ written' = Append(written, 0) /\ at' = 1
      /\ pc' = IF es = <<>> THEN "push" ELSE "entities"
      /\ UNCHANGED <<out, entities, pushed, corrections, overrides>>
  BY DEF WriteRow, InsertRow, judgements
<1>2. /\ rows \in Seq(Range(rows)) /\ written \in Seq(Nat) /\ Len(written) = Len(rows)
      /\ Len(rows) \in Nat /\ DOMAIN rows = 1 .. Len(rows)
      /\ \A r \in DOMAIN rows : written[r] \in Nat
  BY RowShapes DEF RowTypes
<1>3. /\ DOMAIN rows' = DOMAIN rows \union {n} /\ n \notin DOMAIN rows /\ Len(rows') = n
      /\ rows'[n] = u /\ (\A k \in DOMAIN rows : rows'[k] = rows[k])
      /\ written'[n] = 0 /\ (\A k \in DOMAIN rows : written'[k] = written[k])
  <2> HIDE DEF u
  <2>1. /\ DOMAIN rows' = DOMAIN rows \union {n} /\ rows'[n] = u
        /\ (\A k \in DOMAIN rows : rows'[k] = rows[k])
    BY <1>1, <1>2, AppendRange
  <2>2. /\ n \notin DOMAIN rows /\ Len(rows') = n
        /\ written'[n] = 0 /\ (\A k \in DOMAIN rows : written'[k] = written[k])
    BY <1>1, <1>2
  <2> QED
    BY <2>1, <2>2
<1>4. Len(es) \in Nat /\ (es = <<>> <=> Len(es) = 0)
  <2>1. IsUpdate(u)
    BY <1>1, SoundRest DEF EInv, Lists, Sound, Whole, Writing
  <2> DEFINE S == {es[k] : k \in DOMAIN es}
  <2> HIDE DEF u
  <2>2. es \in Seq(S)
    BY <2>1, Zenon DEF IsUpdate
  <2> HIDE DEF es, S
  <2>3. es # <<>> => Len(es) \in Nat \ {0}
    BY <2>2, EmptySeq
  <2>4. Len(<<>>) = 0
    OBVIOUS
  <2> QED
    BY <2>2, <2>3, <2>4
<1> HIDE DEF u, n
<1>5. Mentions' = Mentions
  <2>1. ASSUME NEW m
        PROVE  m \in UNION {{r} \X (1 .. written'[r]) : r \in DOMAIN rows'}
                 <=> m \in UNION {{r} \X (1 .. written[r]) : r \in DOMAIN rows}
    <3>1. 1 .. written'[n] = {}
      BY <1>3
    <3>2. (\E r \in DOMAIN rows' : \E k \in 1 .. written'[r] : m = <<r, k>>)
            <=> (\E r \in DOMAIN rows : \E k \in 1 .. written[r] : m = <<r, k>>)
      BY <1>3, <3>1
    <3> QED
      BY <3>2, PlacesIn
  <2>2. ASSUME NEW m, m \in UNION {{r} \X (1 .. written[r]) : r \in DOMAIN rows}
        PROVE  rows'[m[1]].entities[m[2]] = rows[m[1]].entities[m[2]]
    <3>1. PICK r \in DOMAIN rows : \E k \in 1 .. written[r] : m = <<r, k>>
      BY <2>2, PlacesIn
    <3>2. m[1] = r
      BY <3>1
    <3> QED
      BY <1>3, <3>2
  <2> DEFINE P == UNION {{r} \X (1 .. written[r]) : r \in DOMAIN rows}
             Q == UNION {{r} \X (1 .. written'[r]) : r \in DOMAIN rows'}
  <2>3. P = Q
    BY <2>1
  <2>4. \A m \in P : rows'[m[1]].entities[m[2]] = rows[m[1]].entities[m[2]]
    BY <2>2
  <2>5. /\ Mentions = {m \in P : Named(rows[m[1]].entities[m[2]])}
        /\ Mentions' = {m \in Q : Named(rows'[m[1]].entities[m[2]])}
    BY DEF Mentions, Entity
  <2> HIDE DEF P, Q
  <2> QED
    BY <2>3, <2>4, <2>5
<1>6. EntitiesFollowRows' /\ Sequenced'
  <2>1. \A m \in Mentions : rows'[m[1]] = rows[m[1]]
    BY <1>2, <1>3, MentionPlaces
  <2> QED
    BY <1>1, <1>5, <2>1, SameMentions DEF SInv
<1>7. Progress'
  <2>1. \A r \in DOMAIN rows' : written'[r] <= Len(rows'[r].entities)
    BY <1>3, <1>4 DEF SInv, Progress, es
  <2>2. pc' = "entities" => at' \in 1 .. Len(es) /\ written'[Len(rows')] = at' - 1
    <3> HIDE DEF es
    <3>1. at' = 1 /\ Len(rows') = n /\ written'[n] = 0
      BY <1>1, <1>3
    <3>2. pc' = "entities" => Len(es) \in Nat \ {0}
      BY <1>1, <1>4
    <3>3. pc' = "entities" => 1 \in 1 .. Len(es)
      BY <3>2
    <3> QED
      BY <3>1, <3>3
  <2>3. pc' \in {"push", "check", "reload"} => written'[Len(rows')] = Len(es)
    BY <1>1, <1>3, <1>4
  <2>4. ASSUME NEW k \in DOMAIN pushed
        PROVE  written'[pushed[k].row] = Len(rows'[pushed[k].row].entities)
    <3>1. pushed[k].row \in DOMAIN rows
      BY DEF EInv, Tiers
    <3>2. written[pushed[k].row] = Len(rows[pushed[k].row].entities)
      BY DEF SInv, Progress
    <3> QED
      BY <1>3, <3>1, <3>2
  <2> QED
    BY <1>1, <2>1, <2>2, <2>3, <2>4 DEF Progress, es, u
<1>8. Judgements'
  BY <1>1, <1>3 DEF SInv, Judgements
<1> QED
  BY <1>6, <1>7, <1>8 DEF SInv

(* An entity of the row in hand: the latest mention of its key.                  *)
LEMMA WriteEntitySInv ==
  ASSUME EInv, WInv, SInv, WriteEntity
  PROVE  SInv'
<1> DEFINE n == Len(rows)
           u == Head(out)
           len == Len(u.entities)
           e == u.entities[at]
           key == StoreKey(e)
           new == <<n, at>>
<1>1. /\ pc = "entities" /\ written' = [written EXCEPT ![n] = at] /\ at' = at + 1
      /\ pc' = IF at = len THEN "push" ELSE "entities"
      /\ UNCHANGED <<rows, out, pushed, corrections, overrides>>
  BY DEF WriteEntity, UpsertEntity, judgements
<1>2. entities' = IF Named(e)
                  THEN With(key, [data |-> IF key \in DOMAIN entities
                                           THEN [f \in Fields |-> Coalesce(e[f], entities[key].data[f])]
                                           ELSE Restrict(e, Fields),
                                  updated |-> u.ts])
                  ELSE entities
  BY DEF WriteEntity, UpsertEntity
<1>3. /\ DOMAIN rows = 1 .. n /\ DOMAIN written = 1 .. n /\ n \in Nat /\ n \in DOMAIN rows
      /\ \A r \in DOMAIN rows : written[r] \in Nat
      /\ rows[n] = u /\ written[n] = at - 1 /\ at \in 1 .. len /\ len \in Nat
  <2>1. rows # <<>> /\ rows[n] = u
    BY <1>1 DEF EInv, Lists, Writing
  <2>2. n \in DOMAIN rows
    BY <2>1, RowShapes DEF RowTypes
  <2>3. len \in Nat
    BY <2>1, <2>2, RowShapes
  <2>4. written[n] = at - 1 /\ at \in 1 .. len
    BY <1>1 DEF SInv, Progress
  <2> QED
    BY <2>1, <2>2, <2>3, <2>4, RowShapes
<1> HIDE DEF len, n, u
<1>4. at \in Nat /\ at # 0
  BY <1>3
<1>5. written'[n] = at /\ (\A r \in DOMAIN rows \ {n} : written'[r] = written[r])
  BY <1>1, <1>3
<1>6. \A m : Entity(m)' = Entity(m)
  BY <1>1 DEF Entity
<1>7. Entity(new) = e
  BY <1>3 DEF Entity
<1>8. Mentions' = Mentions \union (IF Named(e) THEN {new} ELSE {})
  <2>1. ASSUME NEW m
        PROVE  m \in UNION {{r} \X (1 .. written'[r]) : r \in DOMAIN rows}
                 <=> \/ m \in UNION {{r} \X (1 .. written[r]) : r \in DOMAIN rows}
                     \/ m = new
    <3>1. 1 .. written'[n] = (1 .. written[n]) \union {at}
      BY <1>3, <1>4, <1>5
    <3>2. (\E r \in DOMAIN rows : \E k \in 1 .. written'[r] : m = <<r, k>>)
            <=> (\E r \in DOMAIN rows : \E k \in 1 .. written[r] : m = <<r, k>>) \/ m = new
      BY <1>3, <1>5, <3>1
    <3> QED
      BY <3>2, PlacesIn
  <2> DEFINE P == UNION {{r} \X (1 .. written[r]) : r \in DOMAIN rows}
             Q == UNION {{r} \X (1 .. written'[r]) : r \in DOMAIN rows}
  <2>2. Q = P \union {new}
    BY <2>1
  <2>3. Mentions = {m \in P : Named(Entity(m))} /\ Mentions' = {m \in Q : Named(Entity(m))}
    BY <1>1 DEF Mentions, Entity
  <2> HIDE DEF P, Q, e, new
  <2> QED
    BY <1>7, <2>2, <2>3
<1>9. \A m \in Mentions : Later(new, m)
  <2> SUFFICES ASSUME NEW m \in Mentions PROVE Later(new, m)
    OBVIOUS
  <2>1. m[1] \in 1 .. n /\ m[2] \in 1 .. written[m[1]]
    BY MentionPlaces DEF n
  <2> QED
    BY <1>3, <1>4, <2>1 DEF Later
<1>10. new \in Nat \X Nat /\ Mentions \subseteq Nat \X Nat
  BY <1>3, <1>4, MentionPlaces
<1> HIDE DEF e, new, key
<1>11. Sequenced'
  <2> SUFFICES ASSUME NEW ms \in SUBSET Mentions', ms # {}
               PROVE  \E m \in ms : \A x \in ms \ {m} : Later(m, x)
    BY DEF Sequenced
  <2>1. CASE new \in ms
    BY <1>8, <1>9, <2>1
  <2>2. CASE new \notin ms
    BY <1>8, <2>2 DEF SInv, Sequenced
  <2> QED
    BY <2>1, <2>2
<1>12. EntitiesFollowRows'
  <2>1. CASE ~Named(e)
    BY <1>1, <1>2, <1>8, <2>1, SameMentions DEF SInv
  <2>2. CASE Named(e)
    <3>1. PICK K : K = key
      OBVIOUS
    <3>2. Mentions' = Mentions \union {new}
      BY <1>8, <2>2
    <3>3. \A k, f : /\ About(k)' = About(k) \union (IF k = key THEN {new} ELSE {})
                    /\ About(k) \subseteq Mentions
      BY <1>6, <1>7, <3>2 DEF About, key
    <3>4. \A k, f : /\ Giving(k, f)' = Giving(k, f)
                         \union (IF k = key /\ e[f] # None THEN {new} ELSE {})
                    /\ Giving(k, f) \subseteq Mentions
      BY <1>6, <1>7, <3>3 DEF Giving
    <3>5. \A ms \in SUBSET Mentions : Latest(ms \union {new}) = new
      <4> SUFFICES ASSUME NEW ms \in SUBSET Mentions PROVE Latest(ms \union {new}) = new
        OBVIOUS
      <4>1. ms \union {new} \in SUBSET (Nat \X Nat) /\ \A x \in (ms \union {new}) \ {new} : Later(new, x)
        BY <1>9, <1>10
      <4> QED
        BY <4>1, LatestIs
    <3>6. DOMAIN entities = {StoreKey(Entity(m)) : m \in Mentions}
      BY DEF SInv, EntitiesFollowRows
    <3>7. /\ DOMAIN entities' = DOMAIN entities \union {key}
          /\ \A k \in DOMAIN entities \ {key} : entities'[k] = entities[k]
          /\ entities'[key].updated = u.ts
          /\ entities'[key].data = IF key \in DOMAIN entities
                                   THEN [f \in Fields |-> Coalesce(e[f], entities[key].data[f])]
                                   ELSE Restrict(e, Fields)
      BY <1>2, <2>2 DEF With
    <3>8. DOMAIN entities' = {StoreKey(Entity(m)') : m \in Mentions'}
      BY <1>6, <1>7, <3>2, <3>6, <3>7 DEF key
    <3>9. ASSUME NEW k \in DOMAIN entities', k # key
          PROVE  /\ \A f \in Fields : entities'[k].data[f] = LastGiven(k, f)'
                 /\ entities'[k].updated = rows[Latest(About(k)')[1]].ts
      <4>1. k \in DOMAIN entities /\ entities'[k] = entities[k] /\ About(k)' = About(k)
        BY <3>3, <3>7, <3>9
      <4>2. \A f : LastGiven(k, f)' = LastGiven(k, f)
        BY <1>1, <3>4, <3>9 DEF LastGiven, Entity
      <4> QED
        BY <4>1, <4>2 DEF SInv, EntitiesFollowRows
    <3>10. entities'[K].updated = rows[Latest(About(K)')[1]].ts
      <4>1. Latest(About(K)') = new
        BY <3>1, <3>3, <3>5
      <4> QED
        BY <1>3, <3>1, <3>7, <4>1 DEF new
    <3>11. ASSUME NEW f \in Fields PROVE entities'[K].data[f] = LastGiven(K, f)'
      <4>1. CASE e[f] # None
        <5>1. Giving(K, f)' = Giving(K, f) \union {new}
          BY <3>1, <3>4, <4>1
        <5>2. Latest(Giving(K, f)') = new /\ Giving(K, f)' # {}
          BY <3>1, <3>4, <3>5, <5>1
        <5>3. rows'[new[1]].entities[new[2]] = e
          BY <1>1, <1>7 DEF Entity
        <5>4. LastGiven(K, f)' = e[f]
          BY <5>2, <5>3 DEF LastGiven, Entity
        <5>5. entities'[K].data[f] = e[f]
          BY <3>1, <3>7, <4>1 DEF Coalesce, Restrict
        <5> QED
          BY <5>4, <5>5
      <4>2. CASE e[f] = None
        <5>1. Giving(K, f)' = Giving(K, f)
          BY <3>1, <3>4, <4>2
        <5>2. LastGiven(K, f)' = LastGiven(K, f)
          BY <1>1, <5>1 DEF LastGiven, Entity
        <5>3. CASE K \in DOMAIN entities
          <6>1. entities[K].data[f] = LastGiven(K, f)
            BY <5>3 DEF SInv, EntitiesFollowRows
          <6> QED
            BY <3>1, <3>7, <4>2, <5>2, <5>3, <6>1 DEF Coalesce
        <5>4. CASE K \notin DOMAIN entities
          <6>1. Giving(K, f) = {}
            BY <3>1, <3>6, <5>4 DEF Giving, About
          <6>2. LastGiven(K, f)' = None
            BY <5>2, <6>1 DEF LastGiven
          <6> QED
            BY <3>1, <3>7, <4>2, <5>4, <6>2 DEF Restrict
        <5> QED
          BY <5>3, <5>4
      <4> QED
        BY <4>1, <4>2
    <3> QED
      BY <1>1, <3>1, <3>8, <3>9, <3>10, <3>11 DEF EntitiesFollowRows
  <2> QED
    BY <2>1, <2>2
<1>13. Progress'
  <2>1. \A r \in DOMAIN rows : written'[r] <= Len(rows[r].entities)
    BY <1>3, <1>5 DEF SInv, Progress, len
  <2>2. pc' = "entities" => at' \in 1 .. len /\ written'[n] = at' - 1
    BY <1>1, <1>3, <1>5
  <2>3. pc' \in {"push", "check", "reload"} => written'[n] = len
    BY <1>1, <1>5
  <2>4. ASSUME NEW k \in DOMAIN pushed
        PROVE  written'[pushed[k].row] = Len(rows[pushed[k].row].entities)
    <3>1. pushed[k].row \in DOMAIN rows
      BY DEF EInv, Tiers
    <3>2. written[pushed[k].row] = Len(rows[pushed[k].row].entities)
      BY DEF SInv, Progress
    <3>3. pushed[k].row # n
      BY <1>3, <3>2 DEF len
    <3> QED
      BY <1>5, <3>1, <3>2, <3>3
  <2> QED
    BY <1>1, <2>1, <2>2, <2>3, <2>4 DEF Progress, len, n, u
<1>14. Judgements'
  BY <1>1 DEF SInv, Judgements
<1> QED
  BY <1>11, <1>12, <1>13, <1>14 DEF SInv

(* The sizes of the classes of a finite set add up to its own.                   *)
LEMMA ClassesAddUp ==
  ASSUME NEW D, IsFiniteSet(D), NEW X, NEW g \in [D -> X]
  PROVE  AddedUp([x \in X |-> Cardinality({d \in D : g[d] = x})]) = Cardinality(D)
<1> DEFINE J(x) == {d \in D : g[d] = x}
           f == [x \in X |-> Cardinality(J(x))]
           b == [x \in X |-> CHOOSE h : h \in Bijection(1 .. f[x], J(x))]
           P == UNION {{x} \X (1 .. f[x]) : x \in DOMAIN f}
           F == [p \in P |-> b[p[1]][p[2]]]
<1>1. ASSUME NEW x \in X
      PROVE  /\ b[x] \in [1 .. f[x] -> J(x)]
             /\ \A i, j \in 1 .. f[x] : b[x][i] = b[x][j] => i = j
             /\ \A d \in J(x) : \E i \in 1 .. f[x] : b[x][i] = d
  <2>1. IsFiniteSet(J(x))
    BY FS_Subset
  <2>2. ExistsBijection(1 .. f[x], J(x))
    BY <2>1, FS_CardinalityType
  <2>3. b[x] \in Bijection(1 .. f[x], J(x))
    BY <2>2 DEF ExistsBijection
  <2> HIDE DEF b, J, f
  <2> QED
    BY <2>3 DEF Bijection, Injection, Surjection, IsInjective
<1>2. \A p : p \in P <=> \E x \in X : \E i \in 1 .. f[x] : p = <<x, i>>
  <2>1. DOMAIN f = X
    OBVIOUS
  <2> HIDE DEF f
  <2> QED
    BY <2>1, PlacesIn
<1> HIDE DEF b, f, P
<1>3. \A p \in P : F[p] \in D /\ g[F[p]] = p[1] /\ p[1] \in X /\ p[2] \in 1 .. f[p[1]] /\ p = <<p[1], p[2]>>
  <2> SUFFICES ASSUME NEW p \in P
               PROVE  /\ F[p] \in D /\ g[F[p]] = p[1]
                      /\ p[1] \in X /\ p[2] \in 1 .. f[p[1]] /\ p = <<p[1], p[2]>>
    OBVIOUS
  <2>1. PICK x \in X : \E i \in 1 .. f[x] : p = <<x, i>>
    BY <1>2
  <2>2. PICK i \in 1 .. f[x] : p = <<x, i>>
    BY <2>1
  <2>3. b[x][i] \in J(x)
    BY <1>1
  <2> QED
    BY <2>2, <2>3
<1>4. F \in [P -> D]
  BY <1>3
<1>5. ASSUME NEW p \in P, NEW q \in P, F[p] = F[q]
      PROVE  p = q
  <2>1. p[1] = q[1]
    BY <1>3, <1>5
  <2>2. b[p[1]][p[2]] = b[p[1]][q[2]]
    BY <1>5, <2>1
  <2> QED
    BY <1>1, <1>3, <2>1, <2>2
<1>6. ASSUME NEW d \in D PROVE \E p \in P : F[p] = d
  <2>1. g[d] \in X /\ d \in J(g[d])
    OBVIOUS
  <2>2. PICK i \in 1 .. f[g[d]] : b[g[d]][i] = d
    BY <1>1, <2>1
  <2>3. <<g[d], i>> \in P
    BY <1>2, <2>1
  <2> QED
    BY <2>2, <2>3
<1>7. F \in Bijection(P, D)
  <2> HIDE DEF F
  <2> QED
    BY <1>4, <1>5, <1>6 DEF Bijection, Injection, Surjection, IsInjective
<1>8. ExistsBijection(D, P)
  BY <1>7, Fun_ExistsBijSymmetric DEF ExistsBijection
<1>9. Cardinality(P) = Cardinality(D)
  BY <1>8, FS_Bijection
<1> QED
  BY <1>9 DEF AddedUp, P, f

(* The judgements of a list are all joined.                                      *)
LEMMA AllJoined ==
  ASSUME EInv, WInv, SInv, NEW list \in {corrections, overrides}
  PROVE  /\ Joined(list) = DOMAIN list /\ IsFiniteSet(Joined(list))
         /\ Cardinality(Joined(list)) = Len(list) /\ Len(list) \in Nat
<1>1. list \in Seq(Range(list)) /\ \A j \in DOMAIN list : list[j].update \in DOMAIN rows
  BY DEF SInv, Judgements
<1>2. Joined(list) = DOMAIN list
  BY <1>1 DEF Joined
<1>3. DOMAIN list = 1 .. Len(list) /\ Len(list) \in Nat
  BY <1>1
<1>4. IsFiniteSet(1 .. Len(list)) /\ Cardinality(1 .. Len(list)) = Len(list)
  <2> DEFINE n == Len(list)
  <2>1. n \in Nat
    BY <1>3
  <2> HIDE DEF n
  <2>2. IsFiniteSet(1 .. n) /\ Cardinality(1 .. n) = n
    BY <2>1, FS_Interval
  <2> QED
    BY <2>2 DEF n
<1> QED
  BY <1>2, <1>3, <1>4

LEMMA StatsCount ==
  ASSUME EInv, WInv, SInv, NEW list \in {corrections, overrides}
  PROVE  /\ AddedUp(Stats(list).by_channel) = Stats(list).total
         /\ AddedUp(Stats(list).by_speaker) = Stats(list).total
<1> DEFINE J == Joined(list)
           c == [j \in J |-> rows[list[j].update].channel]
           s == [j \in J |-> rows[list[j].update].speaker]
<1>1. /\ IsFiniteSet(J) /\ Cardinality(J) = Len(list)
      /\ \A j \in J : list[j].update \in DOMAIN rows
  BY AllJoined DEF Joined
<1>2. \A r \in DOMAIN rows : rows[r].channel \in Channels /\ rows[r].speaker \in Speakers
  <2> SUFFICES ASSUME NEW r \in DOMAIN rows
               PROVE  rows[r].channel \in Channels /\ rows[r].speaker \in Speakers
    OBVIOUS
  <2> DEFINE u == rows[r]
  <2>1. IsUpdate(u)
    BY DEF EInv, Lists, Sound, Whole
  <2> HIDE DEF u
  <2>2. u.channel \in Channels /\ u.speaker \in Speakers
    BY <2>1, Zenon DEF IsUpdate
  <2> QED
    BY <2>2 DEF u
<1>3. c \in [J -> Channels] /\ s \in [J -> Speakers]
  BY <1>1, <1>2
<1>4. /\ Stats(list).total = Len(list)
      /\ Stats(list).by_channel = [x \in Channels |-> Cardinality({j \in J : c[j] = x})]
      /\ Stats(list).by_speaker = [x \in Speakers |-> Cardinality({j \in J : s[j] = x})]
  <2>1. \A x : {j \in J : c[j] = x} = {j \in J : rows[list[j].update].channel = x}
    OBVIOUS
  <2>2. \A x : {j \in J : s[j] = x} = {j \in J : rows[list[j].update].speaker = x}
    OBVIOUS
  <2> HIDE DEF c, s
  <2> QED
    BY <2>1, <2>2 DEF Stats
<1> HIDE DEF J, c, s
<1>5. /\ AddedUp([x \in Channels |-> Cardinality({j \in J : c[j] = x})]) = Cardinality(J)
      /\ AddedUp([x \in Speakers |-> Cardinality({j \in J : s[j] = x})]) = Cardinality(J)
  BY <1>1, <1>3, ClassesAddUp
<1> QED
  BY <1>1, <1>4, <1>5

LEMMA AnalysisCount ==
  ASSUME EInv, WInv, SInv, NEW group
  PROVE  LET by == AnalysisBy(group)
         IN  /\ AddedUp([g \in DOMAIN by |-> by[g].overridden]) <= Len(overrides)
             /\ \A g \in DOMAIN by : by[g].overridden \in 1 .. by[g].total
<1> DEFINE by == AnalysisBy(group)
           O == Overridden
           G == {rows[r][group] : r \in O}
           c == [r \in O |-> rows[r][group]]
           J == Joined(overrides)
           f == [j \in J |-> overrides[j].update]
<1>1. IsFiniteSet(J) /\ Cardinality(J) = Len(overrides) /\ Len(overrides) \in Nat
  BY AllJoined
<1>2. O \subseteq DOMAIN rows
  BY DEF Overridden, Joined
<1>3. IsFiniteSet(O) /\ Cardinality(O) <= Len(overrides) /\ Cardinality(O) \in Nat
  <2>1. f \in Surjection(J, O)
    BY DEF Surjection, Overridden
  <2> HIDE DEF f, J, O
  <2>2. IsFiniteSet(O) /\ Cardinality(O) <= Cardinality(J)
    BY <1>1, <2>1, FS_Surjection
  <2> QED
    BY <1>1, <2>2, FS_CardinalityType
<1>4. /\ DOMAIN by = G
      /\ \A g \in G : /\ by[g].overridden = Cardinality({r \in O : rows[r][group] = g})
                      /\ by[g].total = Cardinality({r \in DOMAIN rows : rows[r][group] = g})
  BY DEF AnalysisBy
<1> HIDE DEF by, O, J, f
<1>5. AddedUp([g \in DOMAIN by |-> by[g].overridden]) = Cardinality(O)
  <2>1. c \in [O -> G]
    OBVIOUS
  <2>2. \A g : {r \in O : c[r] = g} = {r \in O : rows[r][group] = g}
    OBVIOUS
  <2>3. [g \in DOMAIN by |-> by[g].overridden] = [g \in G |-> Cardinality({r \in O : c[r] = g})]
    <3> HIDE DEF c, G
    <3> QED
      BY <1>4, <2>2
  <2> HIDE DEF c, G
  <2> QED
    BY <1>3, <2>1, <2>3, ClassesAddUp
<1>6. ASSUME NEW g \in G PROVE by[g].overridden \in 1 .. by[g].total
  <2> DEFINE A == {r \in O : rows[r][group] = g}
             B == {r \in DOMAIN rows : rows[r][group] = g}
  <2>1. A \subseteq B /\ A # {}
    BY <1>2
  <2>2. IsFiniteSet(B)
    <3>1. IsFiniteSet(DOMAIN rows)
      BY RowShapes, FS_Interval
    <3> QED
      BY <3>1, FS_Subset
  <2>3. by[g].overridden = Cardinality(A) /\ by[g].total = Cardinality(B)
    BY <1>4
  <2> HIDE DEF A, B
  <2>4. IsFiniteSet(A) /\ Cardinality(A) <= Cardinality(B)
    BY <2>1, <2>2, FS_Subset
  <2>5. Cardinality(A) # 0 /\ Cardinality(A) \in Nat /\ Cardinality(B) \in Nat
    BY <2>1, <2>2, <2>4, FS_EmptySet, FS_CardinalityType
  <2> QED
    BY <2>3, <2>4, <2>5
<1> QED
  BY <1>3, <1>4, <1>5, <1>6 DEF by

LEMMA PushedSInv ==
  ASSUME EInv, SInv, NEW blocked, Pushed(blocked), pc \in {"push", "check", "reload"}
  PROVE  SInv'
<1> DEFINE p == [row |-> Len(rows), tier |-> TierOf(Head(out)), schema |-> inner'.schema,
                 sent |-> Sent(Head(out), inner', blocked)]
<1>1. pushed' = Append(pushed, p)
  BY DEF Pushed
<1>2. p.row = Len(rows)
  OBVIOUS
<1> HIDE DEF p
<1>3. /\ pc' \in {"ready", "row"}
      /\ UNCHANGED <<rows, written, entities, corrections, overrides>>
  BY DEF Pushed, tables
<1>4. written[Len(rows)] = Len(rows[Len(rows)].entities)
  BY DEF SInv, Progress, EInv, Lists, Writing
<1>5. /\ DOMAIN pushed' = DOMAIN pushed \union {Len(pushed) + 1}
      /\ \A k \in DOMAIN pushed : pushed'[k] = pushed[k]
      /\ pushed'[Len(pushed) + 1] = p
  BY <1>1, AppendRange DEF EInv, Tiers
<1>6. Progress'
  BY <1>2, <1>3, <1>4, <1>5 DEF SInv, Progress
<1>7. Mentions' = Mentions
  BY <1>3 DEF Mentions, Entity
<1>8. EntitiesFollowRows' /\ Sequenced'
  BY <1>3, <1>7, SameMentions DEF SInv
<1>9. Judgements'
  BY <1>3 DEF SInv, Judgements
<1> QED
  BY <1>6, <1>8, <1>9 DEF SInv

(* What the operators do to the tables.                                          *)
LEMMA OperatorsSInv ==
  ASSUME EInv, SInv, Operators
  PROVE  SInv'
<1>1. UNCHANGED <<rows, written, entities, pushed, pc, at, out>>
  BY DEF Operators, loop, history, WriteCorrection, RecordOverride, tables
<1>2. PICK id :
        \/ UNCHANGED <<corrections, overrides>>
        \/ /\ id \in DOMAIN rows /\ UNCHANGED overrides
           /\ corrections' = Append(corrections, [update |-> id])
        \/ /\ id \in DOMAIN rows /\ UNCHANGED corrections
           /\ overrides' = Append(overrides, [update |-> id, original |-> rows[id]])
  BY DEF Operators, WriteCorrection, RecordOverride, tables
<1>3. ASSUME NEW list \in {corrections, overrides}, NEW x, x.update \in DOMAIN rows
      PROVE  LET more == Append(list, x)
             IN  more \in Seq(Range(more)) /\ \A j \in DOMAIN more : more[j].update \in DOMAIN rows
  <2>1. list \in Seq(Range(list)) /\ \A j \in DOMAIN list : list[j].update \in DOMAIN rows
    BY DEF SInv, Judgements
  <2> QED
    BY <1>3, <2>1, AppendRange
<1>4. Judgements'
  <2> DEFINE c == [update |-> id]
             o == [update |-> id, original |-> rows[id]]
  <2>1. c.update = id /\ o.update = id
    OBVIOUS
  <2> HIDE DEF c, o
  <2>2. CASE UNCHANGED <<corrections, overrides>>
    BY <1>1, <2>2 DEF SInv, Judgements
  <2>3. CASE id \in DOMAIN rows /\ UNCHANGED overrides /\ corrections' = Append(corrections, c)
    BY <1>1, <1>3, <2>1, <2>3 DEF SInv, Judgements
  <2>4. CASE id \in DOMAIN rows /\ UNCHANGED corrections /\ overrides' = Append(overrides, o)
    BY <1>1, <1>3, <2>1, <2>4 DEF SInv, Judgements
  <2> QED
    BY <1>2, <2>2, <2>3, <2>4 DEF c, o
<1>5. Progress'
  BY <1>1 DEF SInv, Progress
<1>6. Mentions' = Mentions
  BY <1>1 DEF Mentions, Entity
<1>7. EntitiesFollowRows' /\ Sequenced'
  BY <1>1, <1>6, SameMentions DEF SInv
<1> QED
  BY <1>4, <1>5, <1>7 DEF SInv

LEMMA InitSInv == Init => SInv
<1> SUFFICES ASSUME Init PROVE SInv
  OBVIOUS
<1>1. /\ rows = <<>> /\ written = <<>> /\ entities = <<>> /\ corrections = <<>>
      /\ overrides = <<>> /\ pushed = <<>> /\ pc = "boot"
  BY DEF Init, StoreInit
<1>2. <<>> \in Seq(Range(<<>>)) /\ DOMAIN <<>> = {}
  OBVIOUS
<1>3. Mentions = {}
  BY <1>1, <1>2 DEF Mentions
<1>4. EntitiesFollowRows
  BY <1>1, <1>2, <1>3 DEF EntitiesFollowRows
<1>5. Progress /\ Sequenced /\ Judgements
  BY <1>1, <1>2, <1>3 DEF Progress, Sequenced, Judgements
<1> QED
  BY <1>4, <1>5 DEF SInv

LEMMA NextSInv == EInv /\ WInv /\ SInv /\ [Next]_vars /\ EInv' /\ WInv' => SInv'
<1> SUFFICES ASSUME EInv, WInv, SInv, [Next]_vars, EInv', WInv' PROVE SInv'
  OBVIOUS
<1> USE DEF history, tables
<1>1. CASE Boot
  BY <1>1, QuietSInv DEF Boot
<1>2. CASE BootFails
  BY <1>2, QuietSInv DEF BootFails
<1>3. CASE Built
  BY <1>3, QuietSInv DEF Built
<1>4. CASE Read
  BY <1>4, QuietSInv DEF Read, WriteAudit, judgements
<1>5. ASSUME NEW batch, Fuse(batch) PROVE pc' \in {"ready", "row"}
  BY <1>5 DEF Fuse
<1>6. CASE Route
  BY <1>5, <1>6, QuietSInv DEF Route
<1>7. CASE Exhausted
  BY <1>5, <1>7, QuietSInv DEF Exhausted
<1>8. CASE WriteRow
  BY <1>8, WriteRowSInv
<1>9. CASE WriteEntity
  BY <1>9, WriteEntitySInv
<1>10. CASE Push
  BY <1>10, PushedSInv DEF Push
<1>11. CASE Check
  BY <1>11, QuietSInv DEF Check
<1>12. CASE CheckFurther
  BY <1>12, QuietSInv DEF CheckFurther
<1>13. CASE PushAfterCheck
  BY <1>13, PushedSInv DEF PushAfterCheck
<1>14. CASE Dies
  BY <1>14, QuietSInv DEF Dies
<1>15. CASE Missed
  BY <1>15, QuietSInv DEF Missed, loop
<1>16. CASE Operators
  BY <1>16, OperatorsSInv
<1>17. CASE UNCHANGED vars
  BY <1>17, QuietSInv DEF vars, loop
<1> QED
  BY <1>1, <1>2, <1>3, <1>4, <1>6, <1>7, <1>8, <1>9, <1>10, <1>11, <1>12, <1>13, <1>14,
     <1>15, <1>16, <1>17 DEF Next, Turn

LEMMA TablesReachable == Spec => [](EInv /\ WInv /\ SInv)
<1>1. EInv /\ WInv /\ SInv /\ [Next]_vars => (EInv /\ WInv /\ SInv)'
  BY NextEInv, NextWInv, NextSInv
<1> QED
  BY <1>1, InitEInv, InitWInv, InitSInv, PTL DEF Spec

(* The tables agree with each other and with what was pushed, in every state that    *)
(* a crash can leave and another process can read: each entity has the last value    *)
(* given for each field, the judgements add up by channel, speaker and type, and     *)
(* what went out has the keys of the store.                                          *)
THEOREM TablesAgree == Spec => []StoreIsConsistent
<1>1. EInv /\ WInv /\ SInv => StoreIsConsistent
  <2> SUFFICES ASSUME EInv, WInv, SInv PROVE StoreIsConsistent
    OBVIOUS
  <2>1. EntitiesFollowRows /\ RowsAreComplete
    BY CutCount DEF SInv, RowsAreComplete
  <2>2. StatsAddUp
    <3>1. /\ Analyze.by_speaker = AnalysisBy("speaker") /\ Analyze.by_type = AnalysisBy("kind")
          /\ Analyze.by_channel = AnalysisBy("channel")
          /\ Analyze.total_overrides = Len(overrides)
      BY DEF Analyze
    <3>2. ASSUME NEW by \in {Analyze.by_speaker, Analyze.by_type, Analyze.by_channel}
          PROVE  /\ AddedUp([g \in DOMAIN by |-> by[g].overridden]) <= Analyze.total_overrides
                 /\ \A g \in DOMAIN by : by[g].overridden \in 1 .. by[g].total
      <4>1. PICK group : by = AnalysisBy(group)
        BY <3>1, <3>2
      <4> QED
        BY <3>1, <4>1, AnalysisCount
    <3>3. \A list \in {corrections, overrides} :
             /\ AddedUp(Stats(list).by_channel) = Stats(list).total
             /\ AddedUp(Stats(list).by_speaker) = Stats(list).total
      BY StatsCount
    <3> QED
      BY <3>2, <3>3 DEF StatsAddUp
  <2>3. CoPHasSameKeys
    <3> SUFFICES ASSUME NEW k \in DOMAIN pushed,
                        NEW e \in Range(rows[pushed[k].row].entities), Named(e)
                 PROVE  TrackId(e) \in DOMAIN entities
      BY DEF CoPHasSameKeys
    <3> DEFINE r == pushed[k].row
    <3>1. r \in DOMAIN rows /\ written[r] = Len(rows[r].entities)
      BY DEF EInv, Tiers, SInv, Progress
    <3>2. PICK i \in DOMAIN rows[r].entities : rows[r].entities[i] = e
      BY DEF Range
    <3>3. i \in 1 .. written[r]
      BY <3>1, <3>2, RowShapes
    <3>4. <<r, i>> \in UNION {{q} \X (1 .. written[q]) : q \in DOMAIN rows}
      BY <3>1, <3>3, PlacesIn
    <3>5. <<r, i>> \in Mentions /\ Entity(<<r, i>>) = e
      BY <3>2, <3>4 DEF Mentions, Entity
    <3>6. StoreKey(e) \in DOMAIN entities
      BY <3>5 DEF SInv, EntitiesFollowRows
    <3> QED
      BY <3>6 DEF TrackId, StoreKey, Named
  <2> QED
    BY <2>1, <2>2, <2>3 DEF StoreIsConsistent
<1> QED
  BY <1>1, TablesReachable, PTL
=============================================================================
