--------------------------- MODULE IRCClientProofs ---------------------------
(***************************************************************************)
(* Theorems about IRCClient: what disconnect leaves behind, which channels *)
(* the client is in, how many discovery adds, and that no chat message of  *)
(* a connection is lost, repeated or reordered.  The inductive invariant   *)
(* is TInv /\ ConnOK /\ ChannelsOK /\ SInv; its parts are used separately. *)
(***************************************************************************)
EXTENDS IRCClient, SequenceTheorems, FiniteSetTheorems, WellFoundedInduction, TLAPS

(* Lines and frames.  A frame has at most one end of a LIST. *)
Lines == [kind : {"ping", "pong", "list", "end", "binary"}] \union [kind : {"chat"}, id : Nat]

IsEnd(l)    == l.kind = "end"
EndsOnce(f) == \A i, j \in DOMAIN f : IsEnd(f[i]) /\ IsEnd(f[j]) => i = j
HasEnd(f)   == \E i \in DOMAIN f : IsEnd(f[i])

Framed(f) == f \in Seq(Lines) /\ EndsOnce(f)
Queue(q)  == q \in Seq(Seq(Lines)) /\ \A k \in DOMAIN q : Framed(q[k])

FramesOK ==
  /\ Framed(lines) /\ Queue(inbox)
  /\ pc \notin {"flush", "lines", "yielded"} => lines = <<>>
  /\ pc \in {"joining", "flush"} => at >= 1

(* The connection, and who has stopped it. *)
ConnOK ==
  /\ conn = "open" => connected
  /\ pc \in {"top", "retry", "opening"} => conn # "open"
  /\ closing # "no" => stop
  /\ raced => closing # "no"
  /\ raced \in BOOLEAN
  /\ stop /\ ~raced => pc # "opening"
  /\ closing \in {"closing", "done"} /\ ~raced => conn # "open"
  /\ ~raced => "disconnect" \notin leaked

(* The channels: where the client is, and which of its joins are still to come. *)
Open == conn = "open" /\ ~parted

ChannelsOK ==
  /\ parted \in BOOLEAN
  /\ ~parted => Range(pendingJoins) \subseteq Range(channels)
  /\ Open => joined \subseteq Range(channels)
  /\ Open /\ pc = "joining" => \A i \in DOMAIN channels : i < at => channels[i] \in joined
  /\ Open /\ pc \in Streaming => Range(channels) \subseteq joined \cup Range(pendingJoins)
  /\ Open /\ pc = "flush" => \A i \in DOMAIN pendingJoins : i < at => pendingJoins[i] \in joined
  /\ pc \in {"lines", "yielded"} /\ pendingJoins # <<>> => ~HasEnd(lines)

-----------------------------------------------------------------------------
(* LEMMAS ON SEQUENCES OF CHANNELS *)

Lists == {s \in Seq(Channels) : IsInjective(s)}

LEMMA ListRange ==
  ASSUME NEW S, NEW s \in Seq(S)
  PROVE  /\ Len(s) \in Nat /\ DOMAIN s = 1 .. Len(s)
         /\ Range(s) \subseteq S
         /\ \A i \in 1 .. Len(s) : s[i] \in Range(s)
         /\ \A x \in Range(s) : \E i \in 1 .. Len(s) : s[i] = x
<1>1. Len(s) \in Nat /\ DOMAIN s = 1 .. Len(s) /\ s \in [1 .. Len(s) -> S]
  BY LenProperties
<1> QED
  BY <1>1 DEF Range

LEMMA RangeIsFinite ==
  ASSUME NEW S, NEW s \in Seq(S)
  PROVE  /\ IsFiniteSet(Range(s)) /\ Cardinality(Range(s)) \in Nat
         /\ Cardinality(Range(s)) <= Len(s)
<1>1. Len(s) \in Nat /\ DOMAIN s = 1 .. Len(s) /\ s \in [1 .. Len(s) -> S]
  BY LenProperties
<1>2. s \in Surjection(1 .. Len(s), Range(s))
  BY <1>1, ListRange DEF Surjection
<1>3. IsFiniteSet(1 .. Len(s)) /\ Cardinality(1 .. Len(s)) = Len(s)
  BY <1>1, FS_Interval
<1>4. IsFiniteSet(Range(s)) /\ Cardinality(Range(s)) <= Len(s)
  BY <1>2, <1>3, FS_Surjection
<1> QED
  BY <1>4, FS_CardinalityType

LEMMA LongerSeq ==
  ASSUME NEW S, NEW s \in Seq(S), NEW e \in S
  PROVE  /\ Append(s, e) \in Seq(S)
         /\ DOMAIN s = 1 .. Len(s) /\ Len(s) \in Nat
         /\ DOMAIN Append(s, e) = DOMAIN s \union {Len(s) + 1}
         /\ \A i \in DOMAIN s : Append(s, e)[i] = s[i]
         /\ Append(s, e)[Len(s) + 1] = e
<1>1. /\ Append(s, e) \in Seq(S) /\ Len(Append(s, e)) = Len(s) + 1
      /\ \A i \in 1 .. Len(s) : Append(s, e)[i] = s[i]
      /\ Append(s, e)[Len(s) + 1] = e
      /\ DOMAIN s = 1 .. Len(s) /\ Len(s) \in Nat
  BY AppendProperties, LenProperties
<1>2. DOMAIN Append(s, e) = 1 .. Len(s) + 1
  BY <1>1, LenProperties
<1> QED
  BY <1>1, <1>2

LEMMA StartOfSeq ==
  ASSUME NEW S, NEW s \in Seq(S), NEW n \in 0 .. Len(s)
  PROVE  /\ SubSeq(s, 1, n) \in Seq(S) /\ n \in Nat
         /\ DOMAIN s = 1 .. Len(s) /\ Len(s) \in Nat
         /\ DOMAIN SubSeq(s, 1, n) = 1 .. n
         /\ \A i \in 1 .. n : i \in DOMAIN s /\ SubSeq(s, 1, n)[i] = s[i]
<1>1. /\ Len(s) \in Nat /\ DOMAIN s = 1 .. Len(s) /\ n \in Int /\ n \in Nat /\ 1 \in Int
      /\ n - 1 + 1 = n /\ (~(1 <= n) => n = 0)
      /\ \A i \in 1 .. n : 1 + i - 1 = i /\ i \in DOMAIN s /\ s[i] \in S
  BY LenProperties, ElementOfSeq
<1> DEFINE u == SubSeq(s, 1, n)
<1>2. /\ u \in Seq(S) /\ Len(u) = IF 1 <= n THEN n - 1 + 1 ELSE 0
      /\ \A i \in 1 .. n - 1 + 1 : u[i] = s[1 + i - 1]
  BY ONLY <1>1, SubSeqProperties
<1> HIDE DEF u
<1>3. DOMAIN u = 1 .. Len(u) /\ Len(u) = n
  BY <1>1, <1>2, LenProperties
<1> QED
  BY <1>1, <1>2, <1>3 DEF u

LEMMA AppendToList ==
  ASSUME NEW s \in Lists, NEW c \in Channels, c \notin Range(s)
  PROVE  /\ Append(s, c) \in Lists /\ Range(Append(s, c)) = Range(s) \union {c}
         /\ Len(Append(s, c)) = Len(s) + 1
         /\ \A i \in DOMAIN s : Append(s, c)[i] = s[i]
<1>1. /\ s \in Seq(Channels) /\ Len(s) \in Nat /\ DOMAIN s = 1 .. Len(s)
      /\ \A i \in 1 .. Len(s) : s[i] \in Range(s)
      /\ \A x \in Range(s) : \E i \in 1 .. Len(s) : s[i] = x
  BY ListRange DEF Lists
<1> DEFINE t == Append(s, c)
<1>2. /\ t \in Seq(Channels) /\ Len(t) = Len(s) + 1
      /\ \A i \in 1 .. Len(s) : t[i] = s[i]
      /\ t[Len(s) + 1] = c
  BY <1>1, AppendProperties DEF Lists
<1>3. /\ DOMAIN t = 1 .. Len(t)
      /\ \A i \in 1 .. Len(t) : t[i] \in Range(t)
      /\ \A x \in Range(t) : \E i \in 1 .. Len(t) : t[i] = x
  BY <1>2, ListRange
<1> HIDE DEF t
<1>4. Range(t) = Range(s) \union {c}
  BY <1>1, <1>2, <1>3
<1>5. IsInjective(t)
  BY <1>1, <1>2, <1>3 DEF IsInjective, Lists
<1> QED
  BY <1>1, <1>2, <1>4, <1>5 DEF Lists, t

LEMMA ConcatLists ==
  ASSUME NEW s \in Lists, NEW t \in Lists, Range(s) \intersect Range(t) = {}
  PROVE  s \o t \in Lists /\ Range(s \o t) = Range(s) \union Range(t)
<1>1. /\ s \in Seq(Channels) /\ Len(s) \in Nat /\ DOMAIN s = 1 .. Len(s)
      /\ \A i \in 1 .. Len(s) : s[i] \in Range(s)
      /\ \A x \in Range(s) : \E i \in 1 .. Len(s) : s[i] = x
      /\ t \in Seq(Channels) /\ Len(t) \in Nat /\ DOMAIN t = 1 .. Len(t)
      /\ \A i \in 1 .. Len(t) : t[i] \in Range(t)
      /\ \A x \in Range(t) : \E i \in 1 .. Len(t) : t[i] = x
  BY ListRange DEF Lists
<1> DEFINE u == s \o t
<1>2. /\ u \in Seq(Channels) /\ Len(u) = Len(s) + Len(t)
      /\ \A i \in 1 .. Len(s) + Len(t) : u[i] = IF i <= Len(s) THEN s[i] ELSE t[i - Len(s)]
  BY ConcatProperties DEF Lists
<1>3. /\ DOMAIN u = 1 .. Len(u)
      /\ \A i \in 1 .. Len(u) : u[i] \in Range(u)
      /\ \A x \in Range(u) : \E i \in 1 .. Len(u) : u[i] = x
  BY <1>2, ListRange
<1> HIDE DEF u
<1>4. \A i \in 1 .. Len(s) : u[i] = s[i] /\ u[i] \in Range(s)
  BY <1>1, <1>2
<1>5. \A i \in 1 .. Len(t) : u[Len(s) + i] = t[i]
  <2> SUFFICES ASSUME NEW i \in 1 .. Len(t) PROVE u[Len(s) + i] = t[i]
    OBVIOUS
  <2>1. Len(s) + i \in 1 .. Len(s) + Len(t) /\ ~(Len(s) + i <= Len(s)) /\ Len(s) + i - Len(s) = i
    BY <1>1
  <2> QED
    BY <1>2, <2>1
<1>6. \A i \in 1 .. Len(s) + Len(t) :
         i \notin 1 .. Len(s) => i - Len(s) \in 1 .. Len(t) /\ u[i] = t[i - Len(s)] /\ u[i] \in Range(t)
  BY <1>1, <1>2
<1>7. Range(u) \subseteq Range(s) \union Range(t)
  BY <1>2, <1>3, <1>4, <1>6
<1>8. Range(s) \subseteq Range(u)
  BY <1>1, <1>2, <1>3, <1>4
<1>9. Range(t) \subseteq Range(u)
  <2>1. \A i \in 1 .. Len(t) : Len(s) + i \in 1 .. Len(s) + Len(t)
    BY <1>1
  <2> QED
    BY <1>1, <1>2, <1>3, <1>5, <2>1
<1>10. IsInjective(u)
  <2> SUFFICES ASSUME NEW i \in 1 .. Len(s) + Len(t), NEW j \in 1 .. Len(s) + Len(t), u[i] = u[j]
               PROVE  i = j
    BY <1>2, <1>3 DEF IsInjective
  <2>1. CASE i \in 1 .. Len(s) /\ j \in 1 .. Len(s)
    BY <1>1, <1>4, <2>1 DEF IsInjective, Lists
  <2>2. CASE i \notin 1 .. Len(s) /\ j \notin 1 .. Len(s)
    <3>1. t[i - Len(s)] = t[j - Len(s)] /\ i - Len(s) \in DOMAIN t /\ j - Len(s) \in DOMAIN t
      BY <1>1, <1>6, <2>2
    <3>2. i - Len(s) = j - Len(s)
      BY <3>1 DEF IsInjective, Lists
    <3> QED
      BY <1>1, <3>2
  <2>3. CASE i \in 1 .. Len(s) /\ j \notin 1 .. Len(s)
    BY <1>4, <1>6, <2>3
  <2>4. CASE i \notin 1 .. Len(s) /\ j \in 1 .. Len(s)
    BY <1>4, <1>6, <2>4
  <2> QED
    BY <2>1, <2>2, <2>3, <2>4
<1> QED
  BY <1>2, <1>7, <1>8, <1>9, <1>10 DEF Lists, u

LEMMA PartOfList ==
  ASSUME NEW s \in Lists, NEW m \in 1 .. Len(s) + 1, NEW n \in m - 1 .. Len(s)
  PROVE  /\ SubSeq(s, m, n) \in Lists /\ Len(SubSeq(s, m, n)) = n - m + 1
         /\ \A i \in 1 .. n - m + 1 : SubSeq(s, m, n)[i] = s[m + i - 1]
         /\ Range(SubSeq(s, m, n)) \subseteq Range(s)
<1>1. /\ s \in Seq(Channels) /\ Len(s) \in Nat /\ DOMAIN s = 1 .. Len(s)
      /\ \A i \in 1 .. Len(s) : s[i] \in Range(s)
  BY ListRange DEF Lists
<1> DEFINE u == SubSeq(s, m, n)
           k == n - m + 1
<1>2. m \in Int /\ n \in Int /\ k \in Nat /\ (m <= n \/ k = 0) /\ (m <= n => k > 0)
  BY <1>1
<1>3. /\ \A i \in m .. n : i \in 1 .. Len(s) /\ s[i] \in Channels
      /\ \A i \in 1 .. k : m + i - 1 \in 1 .. Len(s)
      /\ \A i, j \in 1 .. k : m + i - 1 = m + j - 1 => i = j
  BY <1>1, <1>2, ElementOfSeq
<1>4. /\ u \in Seq(Channels) /\ Len(u) = (IF m <= n THEN k ELSE 0)
      /\ \A i \in 1 .. k : u[i] = s[m + i - 1]
  BY ONLY <1>2, <1>3, SubSeqProperties
<1> HIDE DEF u, k
<1>5. Len(u) = k
  BY <1>2, <1>4
<1>6. DOMAIN u = 1 .. k /\ \A x \in Range(u) : \E i \in 1 .. k : u[i] = x
  BY <1>4, <1>5, ListRange
<1>7. IsInjective(u)
  <2> SUFFICES ASSUME NEW i \in 1 .. k, NEW j \in 1 .. k, u[i] = u[j] PROVE i = j
    BY <1>6 DEF IsInjective
  <2>1. s[m + i - 1] = s[m + j - 1] /\ m + i - 1 \in DOMAIN s /\ m + j - 1 \in DOMAIN s
    BY <1>1, <1>3, <1>4
  <2>2. m + i - 1 = m + j - 1
    BY <2>1 DEF Lists, IsInjective
  <2> QED
    BY <1>3, <2>2
<1>8. Range(u) \subseteq Range(s)
  BY <1>1, <1>3, <1>4, <1>6
<1> QED
  BY <1>4, <1>5, <1>7, <1>8 DEF Lists, u, k

LEMMA RemoveFromList ==
  ASSUME NEW s \in Lists, NEW c
  PROVE  /\ RemoveFirst(s, c) \in Lists
         /\ Range(RemoveFirst(s, c)) = Range(s) \ {c}
<1>1. /\ s \in Seq(Channels) /\ Len(s) \in Nat /\ DOMAIN s = 1 .. Len(s)
      /\ \A i \in 1 .. Len(s) : s[i] \in Range(s)
      /\ \A x \in Range(s) : \E i \in 1 .. Len(s) : s[i] = x
  BY ListRange DEF Lists
<1>2. CASE ~ \E i \in 1 .. Len(s) : s[i] = c
  BY <1>1, <1>2 DEF RemoveFirst
<1>3. CASE \E i \in 1 .. Len(s) : s[i] = c
  <2>1. PICK i \in 1 .. Len(s) : s[i] = c
    BY <1>3
  <2>2. {j \in 1 .. Len(s) : s[j] = c} = {i}
    BY <1>1, <2>1 DEF IsInjective, Lists
  <2>3. Min({i}) = i
    BY DEF Min
  <2>4. SelectInSeq(s, LAMBDA v : v = c) = i
    BY <2>2, <2>3 DEF SelectInSeq
  <2> DEFINE u == SubSeq(s, 1, i - 1)
             v == SubSeq(s, i + 1, Len(s))
  <2>5. RemoveFirst(s, c) = u \o v
    BY <1>3, <2>4 DEF RemoveFirst, RemoveAt
  <2>5a. /\ i - 1 \in 1 - 1 .. Len(s) /\ 1 \in 1 .. Len(s) + 1 /\ i - 1 - 1 + 1 = i - 1
         /\ i + 1 \in 1 .. Len(s) + 1 /\ Len(s) \in i + 1 - 1 .. Len(s)
         /\ Len(s) - (i + 1) + 1 = Len(s) - i
         /\ \A j \in 1 .. i - 1 : 1 + j - 1 = j
         /\ \A j \in 1 .. Len(s) - i : i + 1 + j - 1 = i + j
    BY <1>1
  <2>5b. u \in Lists /\ Len(u) = i - 1 /\ \A j \in 1 .. i - 1 : u[j] = s[1 + j - 1]
    <3> DEFINE m == 1
               n == i - 1
    <3>1. m \in 1 .. Len(s) + 1 /\ n \in m - 1 .. Len(s) /\ n - m + 1 = i - 1
      BY <2>5a
    <3> HIDE DEF m, n
    <3>2. /\ SubSeq(s, m, n) \in Lists /\ Len(SubSeq(s, m, n)) = n - m + 1
          /\ \A j \in 1 .. n - m + 1 : SubSeq(s, m, n)[j] = s[m + j - 1]
      BY <3>1, PartOfList
    <3>3. u = SubSeq(s, m, n) /\ m = 1
      BY DEF m, n, u
    <3> QED
      BY <3>1, <3>2, <3>3
  <2>5c. v \in Lists /\ Len(v) = Len(s) - i /\ \A j \in 1 .. Len(s) - i : v[j] = s[i + 1 + j - 1]
    <3> DEFINE m == i + 1
               n == Len(s)
    <3>1. m \in 1 .. Len(s) + 1 /\ n \in m - 1 .. Len(s)
      BY <2>5a
    <3> HIDE DEF m, n
    <3>2. /\ SubSeq(s, m, n) \in Lists /\ Len(SubSeq(s, m, n)) = n - m + 1
          /\ \A j \in 1 .. n - m + 1 : SubSeq(s, m, n)[j] = s[m + j - 1]
      BY <3>1, PartOfList
    <3>3. n - m + 1 = Len(s) - i
      BY <2>5a DEF m, n
    <3>4. v = SubSeq(s, m, n) /\ m = i + 1
      BY DEF m, n, v
    <3> QED
      BY <3>2, <3>3, <3>4
  <2>6. /\ u \in Lists /\ v \in Lists /\ Len(u) = i - 1 /\ Len(v) = Len(s) - i
        /\ \A j \in 1 .. i - 1 : u[j] = s[j]
        /\ \A j \in 1 .. Len(s) - i : v[j] = s[i + j]
    <3> HIDE DEF u, v
    <3> QED
      BY <2>5a, <2>5b, <2>5c
  <2> HIDE DEF u, v
  <2>7. Range(u) = {s[j] : j \in 1 .. i - 1}
    <3>1. Len(u) \in Nat /\ \A x : x \in Range(u) <=> \E j \in 1 .. Len(u) : u[j] = x
      BY <2>6, ListRange DEF Lists
    <3> QED
      BY <2>6, <3>1
  <2>8. Range(v) = {s[j] : j \in i + 1 .. Len(s)}
    <3>1. v \in Seq(Channels) /\ Len(v) \in Nat
      BY <2>6, LenProperties DEF Lists
    <3>1a. \A x : x \in Range(v) <=> \E j \in 1 .. Len(v) : v[j] = x
      BY <3>1, ListRange
    <3>2. \A j \in 1 .. Len(s) - i : i + j \in i + 1 .. Len(s) /\ s[i + j] = v[j]
      BY <1>1, <2>6
    <3>3. \A j \in i + 1 .. Len(s) : j - i \in 1 .. Len(s) - i /\ s[j] = v[j - i]
      BY <1>1, <2>6
    <3>4. \A x : x \in Range(v) <=> \E j \in 1 .. Len(s) - i : v[j] = x
      BY <2>6, <3>1a
    <3>5. \A x : (\E j \in 1 .. Len(s) - i : v[j] = x) <=> \E j \in i + 1 .. Len(s) : s[j] = x
      BY <3>2, <3>3
    <3> QED
      BY <3>4, <3>5
  <2>9. Range(u) \intersect Range(v) = {}
    BY <1>1, <2>7, <2>8 DEF IsInjective, Lists
  <2>10. Range(u) \union Range(v) = Range(s) \ {c}
    <3>1. \A j \in 1 .. Len(s) : s[j] = c <=> j = i
      BY <1>1, <2>1 DEF IsInjective, Lists
    <3>2. Range(s) \ {c} = {s[j] : j \in (1 .. Len(s)) \ {i}}
      BY <1>1, <3>1
    <3>3. (1 .. Len(s)) \ {i} = (1 .. i - 1) \union (i + 1 .. Len(s))
      BY <1>1
    <3> QED
      BY <2>7, <2>8, <3>2, <3>3
  <2> QED
    BY <2>5, <2>6, <2>9, <2>10, ConcatLists
<1> QED
  BY <1>2, <1>3

(* Discovery takes channels the client is not in, up to max_channels.        *)
LEMMA Discovered ==
  ASSUME channels \in Lists, pendingJoins \in Lists, NEW list \in Seq(Channels),
         FinishDiscovery(list)
  PROVE  \/ UNCHANGED <<channels, pendingJoins>>
         \/ /\ channels' \in Lists /\ pendingJoins' \in Lists
            /\ Range(channels') = Range(channels) \union Range(pendingJoins')
            /\ Cardinality(Range(channels')) <= MaxChannels
<1> DEFINE C == Range(channels)
           S == NewChannels(list, C)
           slots == MaxChannels - Cardinality(C)
<1>1. /\ C \subseteq Channels /\ IsFiniteSet(C) /\ Cardinality(C) \in Nat
      /\ Range(list) \subseteq Channels /\ IsFiniteSet(Range(list))
  BY ListRange, RangeIsFinite DEF Lists
<1>2. S \subseteq Range(list) /\ S \subseteq Channels /\ S \intersect C = {}
  BY <1>1 DEF NewChannels
<1>3. IsFiniteSet(S) /\ Cardinality(S) \in Nat
  BY <1>1, <1>2, FS_Subset, FS_CardinalityType
<1> HIDE DEF S
<1>4. PICK new \in MostUsersFirst(S) :
         LET chosen == SubSeq(new, 1, IF slots < Len(new) THEN slots ELSE Len(new))
         IN  IF new = <<>> \/ slots <= 0
             THEN UNCHANGED <<channels, pendingJoins>>
             ELSE channels' = channels \o chosen /\ pendingJoins' = chosen
  BY DEF FinishDiscovery, S
<1>5. new \in [1 .. Cardinality(S) -> S] /\ IsInjective(new)
  BY <1>4 DEF MostUsersFirst, SetToSeqs, IsInjective
<1>6. new \in Seq(S) /\ Len(new) = Cardinality(S)
  BY <1>3, <1>5
<1>7. new \in Lists /\ Range(new) \subseteq S /\ Len(new) \in Nat
  BY <1>2, <1>3, <1>5, <1>6, SeqMonotonic, ListRange DEF Lists
<1>8. CASE new = <<>> \/ slots <= 0
  BY <1>4, <1>8
<1>9. CASE ~(new = <<>> \/ slots <= 0)
  <2> DEFINE n == IF slots < Len(new) THEN slots ELSE Len(new)
             chosen == SubSeq(new, 1, n)
  <2>1. slots \in Nat /\ n \in 1 - 1 .. Len(new) /\ 1 \in 1 .. Len(new) + 1
        /\ n <= slots /\ n - 1 + 1 = n /\ n \in Nat
    BY <1>1, <1>7, <1>9, ChannelsAssumption
  <2>2. channels' = channels \o chosen /\ pendingJoins' = chosen
    BY <1>4, <1>9
  <2> HIDE DEF n, slots
  <2>3. chosen \in Lists /\ Len(chosen) = n /\ Range(chosen) \subseteq Range(new)
    BY <1>7, <2>1, PartOfList
  <2> HIDE DEF chosen
  <2>4. Range(channels) \intersect Range(chosen) = {}
    BY <1>2, <1>7, <2>3
  <2>5. channels' \in Lists /\ Range(channels') = C \union Range(chosen)
    BY <2>2, <2>3, <2>4, ConcatLists
  <2>6. /\ IsFiniteSet(Range(chosen)) /\ Cardinality(Range(chosen)) \in Nat
        /\ Cardinality(Range(chosen)) <= n
    BY <2>3, RangeIsFinite DEF Lists
  <2>7. Cardinality(C \union Range(chosen)) = Cardinality(C) + Cardinality(Range(chosen)) - Cardinality(C \intersect Range(chosen))
    BY <1>1, <2>6, FS_Union
  <2>8. Cardinality(C \intersect Range(chosen)) = 0
    BY <2>4, FS_EmptySet
  <2>9. Cardinality(Range(channels')) <= MaxChannels
    BY <1>1, <2>1, <2>5, <2>6, <2>7, <2>8, ChannelsAssumption DEF slots
  <2> QED
    BY <2>2, <2>3, <2>5, <2>9
<1> QED
  BY <1>8, <1>9

-----------------------------------------------------------------------------
(* THE TYPES, AND THE SHAPE OF THE FRAMES *)

LEMMA NoFrame == Framed(<<>>) /\ \A k \in DOMAIN <<>> : FALSE
BY DEF Framed, EndsOnce

LEMMA RestOfFrame ==
  ASSUME NEW f, Framed(f), f # <<>>
  PROVE  /\ Head(f) \in Lines /\ Framed(Tail(f)) /\ Len(Tail(f)) = Len(f) - 1 /\ Len(f) \in Nat
         /\ \A i \in 1 .. Len(f) - 1 : Tail(f)[i] = f[i + 1]
         /\ HasEnd(Tail(f)) => HasEnd(f)
         /\ IsEnd(Head(f)) => ~HasEnd(Tail(f))
<1>1. /\ Head(f) \in Lines /\ Tail(f) \in Seq(Lines) /\ Len(Tail(f)) = Len(f) - 1
      /\ \A i \in 1 .. Len(Tail(f)) : Tail(f)[i] = f[i + 1]
      /\ Len(f) \in Nat /\ Len(f) >= 1 /\ Head(f) = f[1] /\ DOMAIN f = 1 .. Len(f)
  BY HeadTailProperties, EmptySeq, LenProperties DEF Framed
<1>2. DOMAIN Tail(f) = 1 .. Len(f) - 1
  BY <1>1, LenProperties
<1>3. \A i \in 1 .. Len(f) - 1 : i + 1 \in DOMAIN f /\ i + 1 # 1
  BY <1>1
<1>4. \A i, j \in 1 .. Len(f) - 1 : i + 1 = j + 1 => i = j
  BY <1>1
<1>5. EndsOnce(Tail(f))
  BY <1>1, <1>2, <1>3, <1>4 DEF EndsOnce, Framed
<1>6. HasEnd(Tail(f)) => HasEnd(f)
  BY <1>1, <1>2, <1>3 DEF HasEnd
<1>7. IsEnd(Head(f)) => ~HasEnd(Tail(f))
  <2>1. 1 \in DOMAIN f
    BY <1>1
  <2> QED
    BY <1>1, <1>2, <1>3, <2>1 DEF EndsOnce, Framed, HasEnd
<1> QED
  BY <1>1, <1>5, <1>6, <1>7 DEF Framed

LEMMA Lines1 ==
  /\ Ping \in Lines /\ Pong \in Lines /\ ListOf \in Lines /\ ListEnd \in Lines /\ Binary \in Lines
  /\ \A n \in Nat : Chat(n) \in Lines
  /\ IsEnd(ListEnd) /\ ~IsEnd(Ping) /\ ~IsEnd(Pong) /\ ~IsEnd(ListOf) /\ ~IsEnd(Binary)
  /\ \A n : ~IsEnd(Chat(n))
BY DEF Lines, IsEnd, Ping, Pong, ListOf, ListEnd, Binary, Chat

LEMMA ShortFrames ==
  ASSUME NEW a \in Lines, NEW b \in Lines, ~(IsEnd(a) /\ IsEnd(b))
  PROVE  Framed(<<a>>) /\ Framed(<<a, b>>)
BY DEF Framed, EndsOnce

LEMMA ShortQueues ==
  ASSUME NEW f, Framed(f), NEW g, Framed(g)
  PROVE  Queue(<<f>>) /\ Queue(<<f, g>>)
<1>1. f \in Seq(Lines) /\ g \in Seq(Lines)
  BY DEF Framed
<1>2. <<f>> \in Seq(Seq(Lines)) /\ <<f, g>> \in Seq(Seq(Lines))
  BY <1>1
<1>3. /\ DOMAIN <<f>> = {1} /\ <<f>>[1] = f
      /\ DOMAIN <<f, g>> = {1, 2} /\ <<f, g>>[1] = f /\ <<f, g>>[2] = g
  BY <1>1
<1> QED
  BY <1>2, <1>3 DEF Queue

LEMMA ServerFrames ==
  /\ \A n \in Nat : \A some \in 1..2 : \A f \in Frames(n, some) : Framed(f)
  /\ Framed(<<Pong>>) /\ Framed(<<Binary>>)
  /\ \A r \in ListReplies : Queue(r)
<1>1. \A n \in Nat : n + 1 \in Nat
  OBVIOUS
<1>2. ASSUME NEW n \in Nat, NEW some \in 1..2, NEW f \in Frames(n, some)
      PROVE  Framed(f)
  <2>1. Chat(n) \in Lines /\ Chat(n + 1) \in Lines /\ ~IsEnd(Chat(n))
    BY <1>1, Lines1
  <2>2. f \in {<<Chat(n)>>, <<Ping, Chat(n)>>, <<Chat(n), Chat(n + 1)>>}
    BY DEF Frames
  <2> QED
    BY <2>1, <2>2, Lines1, ShortFrames
<1>3. Framed(<<Pong>>) /\ Framed(<<Binary>>) /\ Framed(<<ListOf, ListEnd>>)
      /\ Framed(<<ListOf>>) /\ Framed(<<ListEnd>>)
  BY Lines1, ShortFrames
<1>4. ASSUME NEW r \in ListReplies
      PROVE  Queue(r)
  <2>1. CASE r = <<<<ListOf, ListEnd>>>>
    BY <1>3, <2>1, ShortQueues
  <2>2. CASE r = <<<<ListOf>>, <<ListEnd>>>>
    BY <1>3, <2>2, ShortQueues
  <2> QED
    BY <2>1, <2>2 DEF ListReplies
<1> QED
  BY <1>2, <1>3, <1>4

LEMMA QueueFacts ==
  /\ Queue(<<>>) /\ \A f : Framed(f) => Queue(<<f>>)
  /\ \A q, f : Queue(q) /\ Framed(f) => Queue(Append(q, f))
  /\ \A q, r : Queue(q) /\ Queue(r) => Queue(q \o r)
  /\ \A q : Queue(q) /\ q # <<>> => Framed(Head(q)) /\ Queue(Tail(q))
  /\ \A q : \A n \in 0..Len(q) : Queue(q) => Queue(SubSeq(q, 1, n))
<1>1. Queue(<<>>) /\ \A f : Framed(f) => Queue(<<f>>)
  BY DEF Queue, Framed
<1>2. ASSUME NEW q, NEW f, Queue(q), Framed(f)
      PROVE  Queue(Append(q, f))
  <2>1. /\ Append(q, f) \in Seq(Seq(Lines))
        /\ DOMAIN Append(q, f) = DOMAIN q \union {Len(q) + 1}
        /\ \A i \in DOMAIN q : Append(q, f)[i] = q[i]
        /\ Append(q, f)[Len(q) + 1] = f
    BY <1>2, LongerSeq DEF Queue, Framed
  <2> QED
    BY <1>2, <2>1 DEF Queue
<1>3. ASSUME NEW q, NEW r, Queue(q), Queue(r)
      PROVE  Queue(q \o r)
  <2>1. /\ q \o r \in Seq(Seq(Lines)) /\ Len(q \o r) = Len(q) + Len(r)
        /\ Len(q) \in Nat /\ Len(r) \in Nat /\ DOMAIN q = 1 .. Len(q) /\ DOMAIN r = 1 .. Len(r)
        /\ \A i \in 1 .. Len(q) + Len(r) : (q \o r)[i] = IF i <= Len(q) THEN q[i] ELSE r[i - Len(q)]
    BY <1>3, ConcatProperties, LenProperties DEF Queue
  <2>2. DOMAIN (q \o r) = 1 .. Len(q) + Len(r)
    BY <2>1, LenProperties
  <2>3. ASSUME NEW i \in 1 .. Len(q) + Len(r) PROVE Framed((q \o r)[i])
    <3>1. i \in DOMAIN q \/ (~(i <= Len(q)) /\ i - Len(q) \in DOMAIN r)
      BY <2>1
    <3>2. i \in DOMAIN q => i <= Len(q)
      BY <2>1
    <3> QED
      BY <1>3, <2>1, <3>1, <3>2 DEF Queue
  <2> QED
    BY <2>1, <2>2, <2>3 DEF Queue
<1>4. ASSUME NEW q, Queue(q), q # <<>>
      PROVE  Framed(Head(q)) /\ Queue(Tail(q))
  <2>1. /\ Head(q) \in Seq(Lines) /\ Tail(q) \in Seq(Seq(Lines)) /\ Len(Tail(q)) = Len(q) - 1
        /\ \A i \in 1 .. Len(Tail(q)) : Tail(q)[i] = q[i + 1]
        /\ Len(q) \in Nat /\ Len(q) >= 1 /\ Head(q) = q[1] /\ DOMAIN q = 1 .. Len(q)
    BY <1>4, HeadTailProperties, EmptySeq, LenProperties DEF Queue
  <2>2. DOMAIN Tail(q) = 1 .. Len(q) - 1 /\ 1 \in DOMAIN q
    BY <2>1, LenProperties
  <2>3. \A i \in 1 .. Len(q) - 1 : i + 1 \in DOMAIN q
    BY <2>1
  <2> QED
    BY <1>4, <2>1, <2>2, <2>3 DEF Queue
<1>5. ASSUME NEW q, NEW n \in 0..Len(q), Queue(q)
      PROVE  Queue(SubSeq(q, 1, n))
  <2>1. /\ SubSeq(q, 1, n) \in Seq(Seq(Lines)) /\ DOMAIN SubSeq(q, 1, n) = 1 .. n
        /\ \A i \in 1 .. n : i \in DOMAIN q /\ SubSeq(q, 1, n)[i] = q[i]
    BY <1>5, StartOfSeq DEF Queue
  <2> QED
    BY <1>5, <2>1 DEF Queue
<1> QED
  BY <1>1, <1>2, <1>3, <1>4, <1>5

TInv == TypeOK /\ FramesOK

LEMMA TypesOf ==
  ASSUME TInv
  PROVE  /\ channels \in Lists /\ pendingJoins \in Lists
         /\ Len(channels) \in Nat /\ DOMAIN channels = 1 .. Len(channels)
         /\ Len(pendingJoins) \in Nat /\ DOMAIN pendingJoins = 1 .. Len(pendingJoins)
         /\ at \in Nat /\ at + 1 \in Nat /\ posted + 1 \in Nat
BY LenProperties, BoundsAssumption DEF TInv, TypeOK, Lists

LEMMA TypesFrom ==
  ASSUME channels \in Lists, pendingJoins \in Lists
  PROVE  /\ channels \in Seq(Channels) /\ pendingJoins \in Seq(Channels)
         /\ IsInjective(channels) /\ IsInjective(pendingJoins)
BY DEF Lists

LEMMA EmptyList == <<>> \in Lists /\ Range(<<>>) = {} /\ Len(<<>>) = 0
BY DEF Lists, IsInjective, Range

LEMMA FailTypes ==
  ASSUME TInv, Fail
  PROVE  TInv'
BY NoFrame, QueueFacts
DEF TInv, TypeOK, FramesOK, Fail, Places

LEMMA ListTypes ==
  ASSUME TInv, HandleListLine
  PROVE  TInv'
<1>1. /\ channels \in Lists /\ pendingJoins \in Lists
      /\ Framed(lines) /\ lines # <<>> /\ Queue(inbox)
      /\ listing = Absent \/ listing \in Seq(Channels)
      /\ Framed(Tail(lines))
  BY TypesOf, RestOfFrame DEF TInv, FramesOK, TypeOK, HandleListLine
<1>2. /\ pc = "lines" /\ lines' = Tail(lines)
      /\ UNCHANGED <<conn, connected, stop, discovery, pc, at, closing, inbox, joined, posted, first, got,
                     cutList, raced, parted, leaked, faults, calls>>
  BY DEF HandleListLine, server
<1>3. /\ channels' \in Lists /\ pendingJoins' \in Lists
      /\ listing' = Absent \/ listing' \in Seq(Channels)
  <2>1. CASE listing # Absent /\ Head(lines).kind = "end"
    <3>1. FinishDiscovery(listing) /\ listing' = Absent
      BY <2>1 DEF HandleListLine
    <3> QED
      BY <1>1, <2>1, <3>1, Discovered
  <2>2. CASE listing # Absent /\ Head(lines).kind = "list"
    <3>1. /\ listing' = listing \o Directory /\ UNCHANGED <<channels, pendingJoins>>
      BY <2>2 DEF HandleListLine
    <3>2. listing' \in Seq(Channels)
      BY <1>1, <2>2, <3>1, ChannelsAssumption, ConcatProperties
    <3> QED
      BY <1>1, <3>1, <3>2
  <2>3. CASE ~(listing # Absent /\ Head(lines).kind = "end") /\ ~(listing # Absent /\ Head(lines).kind = "list")
    <3>1. UNCHANGED <<listing, channels, pendingJoins>>
      BY <2>3 DEF HandleListLine
    <3> QED
      BY <1>1, <3>1
  <2> QED
    BY <2>1, <2>2, <2>3
<1>4. FramesOK'
  BY <1>1, <1>2 DEF FramesOK
<1>5. TypeOK'
  BY <1>2, <1>3 DEF TInv, TypeOK, Lists
<1> QED
  BY <1>4, <1>5 DEF TInv

LEMMA TypesInit == Init => TInv
<1> SUFFICES ASSUME Init PROVE TInv
  OBVIOUS
<1>1. Framed(lines) /\ Queue(inbox)
  BY NoFrame, QueueFacts DEF Init
<1>2. /\ channels \in Seq(Channels) /\ IsInjective(channels)
      /\ pendingJoins \in Seq(Channels) /\ IsInjective(pendingJoins)
  BY ChannelsAssumption, EmptyList DEF Init, Lists
<1>3. 0 \in 0..MaxFaults /\ 0 \in 0..MaxCalls /\ 0 \in 0..MaxMessages
  BY BoundsAssumption
<1>4. TypeOK
  BY <1>2, <1>3 DEF Init, TypeOK, Places
<1>5. FramesOK
  BY <1>1 DEF Init, FramesOK
<1> QED
  BY <1>4, <1>5 DEF TInv

LEMMA TypesStep == TInv /\ [Next]_vars => TInv'
<1> SUFFICES ASSUME TInv, [Next]_vars PROVE TInv'
  OBVIOUS
<1> USE DEF client, reader, server, history
<1>1. CASE Attempt
  BY <1>1 DEF Attempt, TInv, TypeOK, FramesOK, Places
<1>2. CASE Opened
  BY <1>2, QueueFacts DEF Opened, TInv, TypeOK, FramesOK, Places
<1>3. CASE JoinNext
  <2>1. at \in 1 .. Len(channels) /\ at + 1 \in Nat /\ at + 1 >= 1
    BY <1>3, TypesOf DEF JoinNext, TInv, TypeOK, FramesOK
  <2>2. channels[at] \in Channels
    BY <2>1, ElementOfSeq DEF TInv, TypeOK
  <2>3. joined' \subseteq Channels
    BY <1>3, <2>2 DEF JoinNext, JoinedWith, TInv, TypeOK
  <2> QED
    BY <1>3, <2>1, <2>3 DEF JoinNext, TInv, TypeOK, FramesOK, Places
<1>4. CASE Ready
  BY <1>4 DEF Ready, TInv, TypeOK, FramesOK, Places
<1>5. CASE Receive
  <2>1. Framed(Head(inbox)) /\ Queue(Tail(inbox))
    BY <1>5, QueueFacts DEF Receive, TInv, FramesOK
  <2> QED
    BY <1>5, <2>1 DEF Receive, TInv, TypeOK, FramesOK, Places
<1>6. CASE Lost
  BY <1>6, FailTypes DEF Lost
<1>7. CASE Heartbeat
  BY <1>7, ServerFrames, QueueFacts DEF Heartbeat, TInv, TypeOK, FramesOK, Places
<1>8. CASE FlushNext
  <2>1. CASE Fail
    BY <2>1, FailTypes
  <2>2. CASE /\ at <= Len(pendingJoins) /\ ~Raises
             /\ joined' = JoinedWith(pendingJoins[at]) /\ at' = at + 1
             /\ UNCHANGED <<client, pc, lines, inbox, posted, history>>
             /\ UNCHANGED <<closing, faults, calls>>
    <3>1. at \in 1 .. Len(pendingJoins) /\ at + 1 \in Nat /\ at + 1 >= 1
      BY <1>8, <2>2, TypesOf DEF FlushNext, TInv, TypeOK, FramesOK
    <3>2. pendingJoins[at] \in Channels
      BY <3>1, ElementOfSeq DEF TInv, TypeOK
    <3>3. joined' \subseteq Channels
      BY <2>2, <3>2 DEF JoinedWith, TInv, TypeOK
    <3> QED
      BY <2>2, <3>1, <3>3 DEF TInv, TypeOK, FramesOK, Places
  <2>3. CASE /\ at > Len(pendingJoins)
             /\ pendingJoins' = <<>> /\ pc' = "lines"
             /\ UNCHANGED <<channels, conn, connected, stop, listing, discovery, at,
                            lines, server, history, closing, faults, calls>>
    BY <2>3, EmptyList DEF TInv, TypeOK, FramesOK, Places, Lists
  <2> QED
    BY <1>8, <2>1, <2>2, <2>3 DEF FlushNext
<1>9. CASE BadFrame
  BY <1>9, FailTypes DEF BadFrame
<1>10. CASE HandlePing
  <2>1. Framed(Tail(lines))
    BY <1>10, RestOfFrame DEF HandlePing, TInv, FramesOK
  <2> QED
    BY <1>10, <2>1, FailTypes DEF HandlePing, TInv, TypeOK, FramesOK, Places
<1>11. CASE HandleListLine
  BY <1>11, ListTypes
<1>12. CASE Yield
  <2>1. Framed(Tail(lines))
    BY <1>12, RestOfFrame DEF Yield, TInv, FramesOK
  <2> QED
    BY <1>12, <2>1 DEF Yield, TInv, TypeOK, FramesOK, Places
<1>13. CASE Resume
  BY <1>13 DEF Resume, TInv, TypeOK, FramesOK, Places
<1>14. CASE FrameDone
  BY <1>14 DEF FrameDone, TInv, TypeOK, FramesOK, Places
<1>15. CASE OpenFailed
  BY <1>15, BoundsAssumption DEF OpenFailed, TInv, TypeOK, FramesOK, Places
<1>16. CASE DiscoveryRound
  <2>1. Queue(inbox') /\ listing' \in Seq(Channels)
    BY <1>16, ServerFrames, QueueFacts DEF DiscoveryRound, TInv, FramesOK
  <2> QED
    BY <1>16, <2>1 DEF DiscoveryRound, TInv, TypeOK, FramesOK, Places
<1>17. ASSUME NEW c \in Requested, Join(c) PROVE TInv'
  <2>1. channels' \in Lists
    BY <1>17, TypesOf, AppendToList, ChannelsAssumption DEF Join
  <2>2. joined' \subseteq Channels /\ calls' \in 0..MaxCalls
    BY <1>17, ChannelsAssumption, BoundsAssumption DEF Join, JoinedWith, TInv, TypeOK
  <2> QED
    BY <1>17, <2>1, <2>2 DEF Join, TInv, TypeOK, FramesOK, Places, Lists
<1>18. ASSUME NEW c \in Requested, Part(c) PROVE TInv'
  <2>1. channels' \in Lists
    BY <1>18, TypesOf, RemoveFromList DEF Part
  <2>2. joined' \subseteq Channels /\ calls' \in 0..MaxCalls
    BY <1>18, BoundsAssumption DEF Part, TInv, TypeOK
  <2> QED
    BY <1>18, <2>1, <2>2 DEF Part, TInv, TypeOK, FramesOK, Places, Lists
<1>19. CASE Disconnect
  BY <1>19 DEF Disconnect, TInv, TypeOK, FramesOK, Places
<1>20. CASE Goodbye
  BY <1>20 DEF Goodbye, TInv, TypeOK, FramesOK, Places
<1>21. CASE Disconnected
  BY <1>21 DEF Disconnected, TInv, TypeOK, FramesOK, Places
<1>22. CASE Post
  <2>0. PICK some \in 1..2 : \E f \in Frames(posted + 1, some) :
           /\ posted + some <= MaxMessages
           /\ inbox' = Append(inbox, f) /\ posted' = posted + some
    BY <1>22 DEF Post
  <2>1. PICK f \in Frames(posted + 1, some) :
           /\ posted + some <= MaxMessages
           /\ inbox' = Append(inbox, f) /\ posted' = posted + some
    BY <2>0
  <2>2. posted' \in 0..MaxMessages
    BY <2>1, BoundsAssumption DEF TInv, TypeOK
  <2>3. Queue(inbox')
    BY <2>1, TypesOf, ServerFrames, QueueFacts DEF TInv, FramesOK
  <2> QED
    BY <1>22, <2>2, <2>3 DEF Post, TInv, TypeOK, FramesOK, Places
<1>23. CASE PostBinary
  <2>1. Queue(inbox')
    BY <1>23, ServerFrames, QueueFacts DEF PostBinary, TInv, FramesOK
  <2> QED
    BY <1>23, <2>1, BoundsAssumption DEF PostBinary, TInv, TypeOK, FramesOK, Places
<1>24. CASE Drop
  <2>1. Queue(inbox')
    BY <1>24, QueueFacts DEF Drop, TInv, FramesOK
  <2> QED
    BY <1>24, <2>1, BoundsAssumption DEF Drop, TInv, TypeOK, FramesOK, Places
<1>25. CASE UNCHANGED vars
  BY <1>25 DEF vars, TInv, TypeOK, FramesOK
<1> QED
  BY <1>1, <1>2, <1>3, <1>4, <1>5, <1>6, <1>7, <1>8, <1>9, <1>10, <1>11, <1>12, <1>13, <1>14,
     <1>15, <1>16, <1>17, <1>18, <1>19, <1>20, <1>21, <1>22, <1>23, <1>24, <1>25
  DEF Next, Reader

-----------------------------------------------------------------------------
(* THE CONNECTION *)

LEMMA ConnInit == Init => ConnOK
BY DEF Init, ConnOK

LEMMA ConnStep == TypeOK /\ ConnOK /\ [Next]_vars => ConnOK'
<1> SUFFICES ASSUME TypeOK, ConnOK, [Next]_vars PROVE ConnOK'
  OBVIOUS
<1> USE DEF client, reader, server, history, ConnOK
<1>1. CASE Attempt
  BY <1>1 DEF Attempt
<1>2. CASE Opened
  BY <1>2 DEF Opened
<1>3. CASE JoinNext
  BY <1>3 DEF JoinNext, Raises
<1>4. CASE Ready
  BY <1>4 DEF Ready
<1>5. CASE Receive
  BY <1>5 DEF Receive
<1>0. CASE Fail
  BY <1>0 DEF Fail
<1>6. CASE Lost
  BY <1>0, <1>6 DEF Lost
<1>7. CASE Heartbeat
  BY <1>7 DEF Heartbeat
<1>8. CASE FlushNext
  BY <1>0, <1>8 DEF FlushNext
<1>9. CASE BadFrame
  BY <1>0, <1>9 DEF BadFrame
<1>10. CASE HandlePing
  BY <1>0, <1>10 DEF HandlePing
<1>11. CASE HandleListLine
  BY <1>11 DEF HandleListLine
<1>12. CASE Yield
  BY <1>12 DEF Yield
<1>13. CASE Resume
  BY <1>13 DEF Resume
<1>14. CASE FrameDone
  BY <1>14 DEF FrameDone
<1>15. CASE OpenFailed
  BY <1>15 DEF OpenFailed
<1>16. CASE DiscoveryRound
  BY <1>16 DEF DiscoveryRound
<1>17. CASE \E c \in Requested : Join(c) \/ Part(c)
  BY <1>17 DEF Join, Part
<1>18. CASE Disconnect
  BY <1>18 DEF Disconnect, TypeOK
<1>19. CASE Goodbye
  BY <1>19 DEF Goodbye
<1>20. CASE Disconnected
  BY <1>20 DEF Disconnected
<1>21. CASE Post
  BY <1>21 DEF Post
<1>22. CASE PostBinary
  BY <1>22 DEF PostBinary
<1>23. CASE Drop
  BY <1>23 DEF Drop
<1>24. CASE UNCHANGED vars
  BY <1>24 DEF vars
<1> QED
  BY <1>1, <1>2, <1>3, <1>4, <1>5, <1>6, <1>7, <1>8, <1>9, <1>10, <1>11, <1>12, <1>13,
     <1>14, <1>15, <1>16, <1>17, <1>18, <1>19, <1>20, <1>21, <1>22, <1>23, <1>24
  DEF Next, Reader

(* disconnect leaves no connection open, however it interleaves with the     *)
(* reader, callers and faults, unless it came during an attempt to connect   *)
(* (disconnect, lines 178-197).                                              *)
THEOREM DisconnectCorrect == Spec => []DisconnectLeavesNothing
<1>1. TInv /\ ConnOK => DisconnectLeavesNothing
  BY DEF ConnOK, DisconnectLeavesNothing
<1> QED
  BY <1>1, TypesInit, TypesStep, ConnInit, ConnStep, PTL DEF Spec, TInv

(* What a step may do to the channels that wait to be joined. *)
Respects ==
  Len(pendingJoins') > 0 /\ pendingJoins' # pendingJoins
    => Cardinality(Range(channels')) <= MaxChannels

LEMMA DiscoveryStep == TInv /\ [Next]_vars => [Respects]_vars
<1> SUFFICES ASSUME TInv, Next PROVE Respects
  OBVIOUS
<1> USE DEF client, reader, server, history
<1>0. pendingJoins' = pendingJoins \/ pendingJoins' = <<>> => Respects
  BY EmptyList DEF Respects
<1>1. CASE HandleListLine
  <2>1. CASE listing # Absent /\ Head(lines).kind = "end"
    <3>1. FinishDiscovery(listing) /\ listing \in Seq(Channels)
      BY <1>1, <2>1 DEF HandleListLine, TInv, TypeOK
    <3> QED
      BY <3>1, <1>0, TypesOf, Discovered DEF Respects
  <2>2. CASE ~(listing # Absent /\ Head(lines).kind = "end")
    BY <1>0, <1>1, <2>2 DEF HandleListLine
  <2> QED
    BY <2>1, <2>2
<1>2. CASE ~HandleListLine
  BY <1>0, <1>2 DEF Next, Reader, Attempt, Opened, JoinNext, Ready, Receive, Lost, Fail, Heartbeat,
     FlushNext, BadFrame, HandlePing, Yield, Resume, FrameDone, OpenFailed, DiscoveryRound, Join, Part,
     Disconnect, Goodbye, Disconnected, Post, PostBinary, Drop
<1> QED
  BY <1>1, <1>2

(* Discovery respects max_channels, whatever was joined or left between the  *)
(* LIST and its end (_finish_discovery, lines 251-269).                      *)
THEOREM DiscoveryCorrect == Spec => DiscoveryRespectsMax
BY TypesInit, TypesStep, DiscoveryStep, PTL DEF Spec, DiscoveryRespectsMax, Respects

-----------------------------------------------------------------------------
(* THE CHANNELS *)

LEMMA ChannelsInit == Init => ChannelsOK
BY EmptyList DEF Init, ChannelsOK, Open, Streaming

LEMMA ListChannels ==
  ASSUME TInv, ConnOK, ChannelsOK, HandleListLine
  PROVE  ChannelsOK'
<1>1. /\ pc = "lines" /\ lines # <<>> /\ lines' = Tail(lines)
      /\ UNCHANGED <<conn, pc, at, joined, parted>>
  BY DEF HandleListLine, server
<1>2. /\ HasEnd(lines') => HasEnd(lines)
      /\ IsEnd(Head(lines)) => ~HasEnd(lines')
  BY <1>1, RestOfFrame DEF TInv, FramesOK
<1>3. CASE UNCHANGED <<channels, pendingJoins>>
  BY <1>1, <1>2, <1>3 DEF ChannelsOK, Open, Streaming
<1>4. CASE ~UNCHANGED <<channels, pendingJoins>>
  <2>1. listing # Absent /\ Head(lines).kind = "end" /\ FinishDiscovery(listing)
    BY <1>4 DEF HandleListLine
  <2>2. Range(channels') = Range(channels) \union Range(pendingJoins')
    BY <1>4, <2>1, TypesOf, Discovered DEF TInv, TypeOK
  <2>3. HasEnd(lines)
    <3>1. 1 \in DOMAIN lines /\ Head(lines) = lines[1]
      BY <1>1, EmptySeq, HeadTailProperties, LenProperties DEF TInv, FramesOK, Framed
    <3> QED
      BY <2>1, <3>1 DEF HasEnd, IsEnd
  <2>4. pendingJoins = <<>>
    BY <1>1, <2>3 DEF ChannelsOK
  <2>5. ~HasEnd(lines')
    BY <1>2, <2>1 DEF IsEnd
  <2> QED
    BY <1>1, <2>2, <2>4, <2>5, EmptyList DEF ChannelsOK, Open, Streaming
<1> QED
  BY <1>3, <1>4

LEMMA ChannelsStep == TInv /\ ConnOK /\ ChannelsOK /\ [Next]_vars => ChannelsOK'
<1> SUFFICES ASSUME TInv, ConnOK, ChannelsOK, [Next]_vars PROVE ChannelsOK'
  OBVIOUS
<1> USE DEF client, reader, server, history
<1>0. CASE Fail
  BY <1>0 DEF Fail, ChannelsOK, Open, Streaming
<1>1. CASE UNCHANGED <<channels, pendingJoins, joined, conn, parted, pc, at, lines>>
  BY <1>1 DEF ChannelsOK, Open
<1>2. CASE Attempt \/ Goodbye \/ Disconnected \/ Drop
  BY <1>2 DEF Attempt, Goodbye, Disconnected, Drop, ChannelsOK, ConnOK, Open, Streaming
<1>3. CASE Opened
  <2>1. \A i \in DOMAIN channels : ~(i < 1)
    BY TypesOf
  <2> QED
    BY <1>3, <2>1 DEF Opened, ChannelsOK, Open, Streaming
<1>4. CASE JoinNext
  <2>1. CASE Raises
    BY <1>4, <2>1 DEF JoinNext, Raises, ChannelsOK, Open, Streaming
  <2>2. CASE ~Raises
    <3>1. /\ joined' = JoinedWith(channels[at]) /\ at' = at + 1 /\ pc = "joining"
          /\ UNCHANGED <<channels, pendingJoins, conn, parted, pc, lines>>
      BY <1>4, <2>2 DEF JoinNext
    <3>2. at \in DOMAIN channels /\ at \in Nat /\ DOMAIN channels \subseteq Nat
      BY <1>4, TypesOf DEF JoinNext, TInv, FramesOK
    <3>3. channels[at] \in Range(channels)
      BY <3>2 DEF Range
    <3>4. \A i \in DOMAIN channels : i < at + 1 => i < at \/ i = at
      BY <3>2
    <3> QED
      BY <3>1, <3>3, <3>4 DEF JoinedWith, ChannelsOK, Open, Streaming
  <2> QED
    BY <2>1, <2>2
<1>5. CASE Ready
  <2>1. Open => Range(channels) \subseteq joined
    <3>1. \A i \in DOMAIN channels : i < at
      BY <1>5, TypesOf DEF Ready
    <3> QED
      BY <1>5, <3>1 DEF Ready, ChannelsOK, Range
  <2> QED
    BY <1>5, <2>1 DEF Ready, ChannelsOK, Open, Streaming
<1>6. CASE Receive
  <2>1. \A i \in DOMAIN pendingJoins : ~(i < 1)
    BY TypesOf
  <2> QED
    BY <1>6, <2>1 DEF Receive, ChannelsOK, Open, Streaming
<1>7. CASE Heartbeat
  BY <1>7 DEF Heartbeat, ChannelsOK, Open, Streaming
<1>8. CASE FlushNext
  <2>2. CASE /\ at <= Len(pendingJoins) /\ ~Raises
             /\ joined' = JoinedWith(pendingJoins[at]) /\ at' = at + 1
             /\ UNCHANGED <<client, pc, lines, inbox, posted, history>>
             /\ UNCHANGED <<closing, faults, calls>>
    <3>1. at \in DOMAIN pendingJoins /\ at \in Nat /\ DOMAIN pendingJoins \subseteq Nat
      BY <1>8, <2>2, TypesOf DEF FlushNext, TInv, FramesOK
    <3>2. pendingJoins[at] \in Range(pendingJoins)
      BY <3>1 DEF Range
    <3>3. \A i \in DOMAIN pendingJoins : i < at + 1 => i < at \/ i = at
      BY <3>1
    <3>4. pc = "flush"
      BY <1>8 DEF FlushNext
    <3> QED
      BY <2>2, <3>2, <3>3, <3>4 DEF JoinedWith, ChannelsOK, Open, Streaming
  <2>3. CASE /\ at > Len(pendingJoins)
             /\ pendingJoins' = <<>> /\ pc' = "lines"
             /\ UNCHANGED <<channels, conn, connected, stop, listing, discovery, at,
                            lines, server, history, closing, faults, calls>>
    <3>1. \A i \in DOMAIN pendingJoins : i < at
      BY <2>3, TypesOf DEF TInv, TypeOK
    <3>2. Open => Range(pendingJoins) \subseteq joined
      BY <1>8, <3>1 DEF FlushNext, ChannelsOK, Range
    <3>3. pc = "flush"
      BY <1>8 DEF FlushNext
    <3> QED
      BY <2>3, <3>2, <3>3, EmptyList DEF ChannelsOK, Open, Streaming
  <2> QED
    BY <1>0, <1>8, <2>2, <2>3 DEF FlushNext
<1>9. CASE Lost \/ BadFrame
  BY <1>0, <1>9 DEF Lost, BadFrame
<1>10. CASE HandlePing \/ Yield
  <2>1. CASE Fail
    BY <1>0, <2>1
  <2>2. CASE ~Fail
    <3>1. HasEnd(Tail(lines)) => HasEnd(lines)
      BY <1>10, RestOfFrame DEF HandlePing, Yield, TInv, FramesOK
    <3> QED
      BY <1>10, <2>2, <3>1 DEF HandlePing, Yield, ChannelsOK, Open, Streaming
  <2> QED
    BY <2>1, <2>2
<1>11. CASE HandleListLine
  BY <1>11, ListChannels
<1>12. CASE Resume \/ FrameDone \/ OpenFailed
  BY <1>12 DEF Resume, FrameDone, OpenFailed, ChannelsOK, Open, Streaming
<1>13. ASSUME NEW c \in Requested, Join(c) PROVE ChannelsOK'
  <2>1. /\ UNCHANGED <<conn, pendingJoins, pc, at, lines, parted>>
        /\ joined' = IF connected THEN JoinedWith(c) ELSE joined
        /\ channels' = IF c \in Range(channels) THEN channels ELSE Append(channels, c)
    BY <1>13 DEF Join
  <2>2. Open => joined' = joined \union {c}
    BY <2>1 DEF JoinedWith, ConnOK, Open
  <2>3. /\ Range(channels') = Range(channels) \union {c}
        /\ \A i \in DOMAIN channels' : i \notin DOMAIN channels => channels'[i] = c
        /\ \A i \in DOMAIN channels' : i \in DOMAIN channels => channels'[i] = channels[i]
    <3>1. CASE c \in Range(channels)
      BY <2>1, <3>1
    <3>2. CASE c \notin Range(channels)
      <4>1. /\ channels \in Seq(Channels) /\ c \in Channels
        BY ChannelsAssumption DEF TInv, TypeOK
      <4>2. /\ DOMAIN Append(channels, c) = 1 .. Len(channels) + 1
            /\ Append(channels, c)[Len(channels) + 1] = c
            /\ \A i \in DOMAIN channels : Append(channels, c)[i] = channels[i]
            /\ Range(Append(channels, c)) = Range(channels) \union {c}
        BY <3>2, <4>1, TypesOf, AppendToList, AppendProperties, LenProperties
      <4> QED
        BY <2>1, <3>2, <4>2, TypesOf
    <3> QED
      BY <3>1, <3>2
  <2>4. Open' = Open
    BY <2>1 DEF Open
  <2>5. Open' /\ pc' = "joining" => \A i \in DOMAIN channels' : i < at' => channels'[i] \in joined'
    BY <2>1, <2>2, <2>3, <2>4 DEF ChannelsOK
  <2>6. Open' /\ pc' = "flush" => \A i \in DOMAIN pendingJoins' : i < at' => pendingJoins'[i] \in joined'
    BY <2>1, <2>2, <2>4 DEF ChannelsOK
  <2> HIDE DEF client, reader, server, history
  <2> QED
    BY <2>1, <2>2, <2>3, <2>4, <2>5, <2>6 DEF ChannelsOK
<1>14. ASSUME NEW c \in Requested, Part(c) PROVE ChannelsOK'
  <2>1. /\ UNCHANGED <<conn, pendingJoins, pc, at, lines>>
        /\ joined' = IF connected /\ conn = "open" THEN joined \ {c} ELSE joined
        /\ Range(channels') = Range(channels) \ {c}
        /\ parted' = (parted \/ pc = "joining" \/ c \in Range(pendingJoins))
    BY <1>14, TypesOf, RemoveFromList DEF Part
  <2>2. parted' \in BOOLEAN /\ (~parted' => ~parted /\ pc # "joining" /\ c \notin Range(pendingJoins))
    BY <2>1 DEF ChannelsOK
  <2>3. Open' => Open /\ joined' = joined \ {c} /\ pc # "joining" /\ c \notin Range(pendingJoins)
    BY <2>1, <2>2 DEF Open, ConnOK
  <2>4. Open' /\ pc' = "flush" => \A i \in DOMAIN pendingJoins' : i < at' => pendingJoins'[i] \in joined'
    BY <2>1, <2>3 DEF ChannelsOK, Range
  <2> QED
    BY <2>1, <2>2, <2>3, <2>4 DEF ChannelsOK
<1>15. CASE DiscoveryRound \/ Disconnect \/ Post \/ PostBinary
  BY <1>1, <1>15 DEF DiscoveryRound, Disconnect, Post, PostBinary
<1>16. CASE UNCHANGED vars
  BY <1>1, <1>16 DEF vars
<1> QED
  BY <1>2, <1>3, <1>4, <1>5, <1>6, <1>7, <1>8, <1>9, <1>10, <1>11, <1>12, <1>13, <1>14,
     <1>15, <1>16 DEF Next, Reader

(* While it reads, the client is in all its channels, or is about to join    *)
(* those discovery found, and in no other, after any reconnections and calls *)
(* of join; part during a round of joins is the one exception                *)
(* (_join_channels, iter_messages, join, part, _finish_discovery).           *)
THEOREM SubscriptionsCorrect == Spec => []SubscribedToAll
<1>1. TInv /\ ChannelsOK => SubscribedToAll
  BY DEF ChannelsOK, SubscribedToAll, Open
<1> QED
  BY <1>1, TypesInit, TypesStep, ConnInit, ConnStep, ChannelsInit, ChannelsStep, PTL DEF Spec, TInv

-----------------------------------------------------------------------------
(* THE STREAM OF MESSAGES *)

(* The messages of a queue of frames, and that they are in order in it. *)
QueueIds(q)     == UNION {ChatIds(q[k]) : k \in DOMAIN q}
QueueInOrder(q) == /\ \A k \in DOMAIN q : InOrder(q[k])
                   /\ \A j, k \in DOMAIN q : j < k => Precedes(q[j], q[k])

LEMMA IdsType == \A f : Framed(f) => ChatIds(f) \subseteq Nat
<1> SUFFICES ASSUME NEW f, Framed(f), NEW k \in DOMAIN f, IsChat(f[k]) PROVE f[k].id \in Nat
  BY DEF ChatIds
<1>1. f[k] \in Lines
  BY LenProperties, ElementOfSeq DEF Framed
<1> QED
  BY <1>1 DEF Lines, IsChat

LEMMA NoIds ==
  /\ ChatIds(<<>>) = {} /\ InOrder(<<>>)
  /\ QueueIds(<<>>) = {} /\ QueueInOrder(<<>>)
BY DEF ChatIds, InOrder, QueueIds, QueueInOrder

LEMMA RestOfIds ==
  ASSUME NEW f, Framed(f), f # <<>>, InOrder(f)
  PROVE  /\ InOrder(Tail(f))
         /\ ~IsChat(Head(f)) => ChatIds(Tail(f)) = ChatIds(f)
         /\ IsChat(Head(f)) => /\ ChatIds(f) = ChatIds(Tail(f)) \union {Head(f).id}
                               /\ \A n \in ChatIds(Tail(f)) : Head(f).id < n
<1> DEFINE t == Tail(f)
<1>1. /\ t \in Seq(Lines) /\ Len(t) = Len(f) - 1 /\ Len(f) \in Nat /\ Len(f) >= 1
      /\ \A i \in 1 .. Len(f) - 1 : t[i] = f[i + 1]
      /\ Head(f) = f[1] /\ DOMAIN f = 1 .. Len(f)
  BY RestOfFrame, HeadTailProperties, EmptySeq, LenProperties DEF Framed
<1>2. DOMAIN t = 1 .. Len(f) - 1
  BY <1>1, LenProperties
<1> HIDE DEF t
<1>3. /\ \A i \in DOMAIN t : i + 1 \in DOMAIN f /\ t[i] = f[i + 1] /\ 1 < i + 1
      /\ \A i, j \in DOMAIN t : i < j => i + 1 < j + 1
      /\ 1 \in DOMAIN f
  BY <1>1, <1>2
<1>4. \A i \in DOMAIN f : i = 1 \/ \E j \in DOMAIN t : f[i] = t[j]
  <2> SUFFICES ASSUME NEW i \in DOMAIN f, i # 1 PROVE \E j \in DOMAIN t : f[i] = t[j]
    OBVIOUS
  <2>1. i - 1 \in 1 .. Len(f) - 1 /\ i - 1 + 1 = i
    BY <1>1
  <2> QED
    BY <1>2, <1>3, <2>1
<1>5. InOrder(t)
  BY <1>3 DEF InOrder
<1>6. ChatIds(t) \subseteq ChatIds(f)
  BY <1>3 DEF ChatIds
<1>7. \A n \in ChatIds(f) : n \in ChatIds(t) \/ (IsChat(Head(f)) /\ n = Head(f).id)
  <2> SUFFICES ASSUME NEW i \in DOMAIN f, IsChat(f[i])
               PROVE  f[i].id \in ChatIds(t) \/ (IsChat(Head(f)) /\ f[i].id = Head(f).id)
    BY DEF ChatIds
  <2> QED
    BY <1>1, <1>4 DEF ChatIds
<1>8. IsChat(Head(f)) => Head(f).id \in ChatIds(f) /\ \A n \in ChatIds(t) : Head(f).id < n
  BY <1>1, <1>3 DEF InOrder, ChatIds
<1> QED
  BY <1>5, <1>6, <1>7, <1>8 DEF t

LEMMA PostedIds ==
  ASSUME NEW n \in Nat, NEW some \in 1..2, NEW f \in Frames(n, some)
  PROVE  ChatIds(f) = n .. n + some - 1 /\ InOrder(f)
<1>1. IsChat(Chat(n)) /\ IsChat(Chat(n + 1)) /\ ~IsChat(Ping) /\ Chat(n).id = n /\ Chat(n + 1).id = n + 1
  BY DEF IsChat, Chat, Ping
<1>2. CASE some = 1 /\ f = <<Chat(n)>>
  BY <1>1, <1>2 DEF ChatIds, InOrder
<1>3. CASE some = 1 /\ f = <<Ping, Chat(n)>>
  BY <1>1, <1>3 DEF ChatIds, InOrder
<1>4. CASE some = 2 /\ f = <<Chat(n), Chat(n + 1)>>
  BY <1>1, <1>4 DEF ChatIds, InOrder
<1> QED
  BY <1>2, <1>3, <1>4 DEF Frames

LEMMA SilentFrames ==
  /\ ChatIds(<<Pong>>) = {} /\ InOrder(<<Pong>>)
  /\ ChatIds(<<Binary>>) = {} /\ InOrder(<<Binary>>)
  /\ \A r \in ListReplies : Queue(r) /\ QueueIds(r) = {} /\ \A k \in DOMAIN r : ChatIds(r[k]) = {} /\ InOrder(r[k])
<1>1. ~IsChat(Pong) /\ ~IsChat(Binary) /\ ~IsChat(ListOf) /\ ~IsChat(ListEnd)
  BY DEF IsChat, Pong, Binary, ListOf, ListEnd
<1>2. \A l : ~IsChat(l) => ChatIds(<<l>>) = {} /\ InOrder(<<l>>)
  BY DEF ChatIds, InOrder
<1>3. \A l, m : ~IsChat(l) /\ ~IsChat(m) => ChatIds(<<l, m>>) = {} /\ InOrder(<<l, m>>)
  BY DEF ChatIds, InOrder
<1>4. ASSUME NEW r \in ListReplies, NEW k \in DOMAIN r
      PROVE  ChatIds(r[k]) = {} /\ InOrder(r[k])
  BY <1>1, <1>2, <1>3 DEF ListReplies
<1> QED
  BY <1>1, <1>2, <1>4, ServerFrames DEF QueueIds

LEMMA QueueIdsFacts ==
  ASSUME NEW q, Queue(q)
  PROVE  /\ \A f : Framed(f) => QueueIds(Append(q, f)) = QueueIds(q) \union ChatIds(f)
         /\ \A f : Framed(f) /\ QueueInOrder(q) /\ InOrder(f) /\ (\A n \in QueueIds(q), m \in ChatIds(f) : n < m)
                     => QueueInOrder(Append(q, f))
         /\ QueueIds(q) \subseteq Nat
<1>1. q \in Seq(Seq(Lines)) /\ Len(q) \in Nat /\ DOMAIN q = 1 .. Len(q) /\ Len(q) + 1 \notin DOMAIN q
  BY LenProperties DEF Queue
<1>2. ASSUME NEW f, Framed(f)
      PROVE  /\ DOMAIN Append(q, f) = DOMAIN q \union {Len(q) + 1}
             /\ \A k \in DOMAIN q : Append(q, f)[k] = q[k]
             /\ Append(q, f)[Len(q) + 1] = f
  BY <1>1, <1>2, LongerSeq DEF Framed
<1>3. ASSUME NEW f, Framed(f)
      PROVE  QueueIds(Append(q, f)) = QueueIds(q) \union ChatIds(f)
  <2> DEFINE a == Append(q, f)
             l == Len(q) + 1
  <2>1. DOMAIN a = DOMAIN q \union {l} /\ a[l] = f /\ \A k \in DOMAIN q : a[k] = q[k]
    BY <1>2, <1>3
  <2> HIDE DEF a, l
  <2> QED
    BY <2>1 DEF QueueIds, a
<1>4. ASSUME NEW f, Framed(f), QueueInOrder(q), InOrder(f), \A n \in QueueIds(q), m \in ChatIds(f) : n < m
      PROVE  QueueInOrder(Append(q, f))
  <2> DEFINE a == Append(q, f)
             l == Len(q) + 1
  <2>1. DOMAIN a = DOMAIN q \union {l} /\ a[l] = f /\ \A k \in DOMAIN q : a[k] = q[k]
    BY <1>2, <1>4
  <2>2. /\ \A k \in DOMAIN q : ~(l < k) /\ k # l
        /\ ~(l < l)
    BY <1>1
  <2>3. \A k \in DOMAIN q : Precedes(q[k], f)
    BY <1>4 DEF Precedes, QueueIds
  <2> HIDE DEF a, l
  <2> QED
    BY <1>4, <2>1, <2>2, <2>3 DEF QueueInOrder, a
<1>5. QueueIds(q) \subseteq Nat
  BY IdsType DEF QueueIds, Queue
<1> QED
  BY <1>3, <1>4, <1>5

(* The first frame of a queue, and its rest.                                 *)
LEMMA NextFrame ==
  ASSUME NEW q, Queue(q), q # <<>>
  PROVE  /\ QueueIds(q) = ChatIds(Head(q)) \union QueueIds(Tail(q))
         /\ QueueInOrder(q) => /\ InOrder(Head(q)) /\ QueueInOrder(Tail(q))
                               /\ \A k \in DOMAIN Tail(q) : Precedes(Head(q), Tail(q)[k])
<1> DEFINE t == Tail(q)
<1>1. /\ t \in Seq(Seq(Lines)) /\ Len(t) = Len(q) - 1 /\ Len(q) \in Nat /\ Len(q) >= 1
      /\ \A i \in 1 .. Len(t) : t[i] = q[i + 1]
      /\ Head(q) = q[1] /\ DOMAIN q = 1 .. Len(q)
  BY HeadTailProperties, EmptySeq, LenProperties DEF Queue
<1>2. DOMAIN t = 1 .. Len(q) - 1
  BY <1>1, LenProperties
<1> HIDE DEF t
<1>3. /\ \A i \in DOMAIN t : i + 1 \in DOMAIN q /\ t[i] = q[i + 1] /\ 1 < i + 1
      /\ \A i, j \in DOMAIN t : i < j => i + 1 < j + 1
      /\ 1 \in DOMAIN q
  BY <1>1, <1>2
<1>4. \A i \in DOMAIN q : i = 1 \/ \E j \in DOMAIN t : q[i] = t[j]
  <2> SUFFICES ASSUME NEW i \in DOMAIN q, i # 1 PROVE \E j \in DOMAIN t : q[i] = t[j]
    OBVIOUS
  <2>1. i - 1 \in 1 .. Len(q) - 1 /\ i - 1 + 1 = i
    BY <1>1
  <2> QED
    BY <1>2, <1>3, <2>1
<1>5. QueueIds(q) \subseteq ChatIds(Head(q)) \union QueueIds(t)
  BY <1>1, <1>4 DEF QueueIds
<1>6. ChatIds(Head(q)) \union QueueIds(t) \subseteq QueueIds(q)
  BY <1>1, <1>3 DEF QueueIds
<1>7. QueueInOrder(q) => /\ InOrder(Head(q)) /\ QueueInOrder(t)
                         /\ \A k \in DOMAIN t : Precedes(Head(q), t[k])
  BY <1>1, <1>3 DEF QueueInOrder
<1> QED
  BY <1>5, <1>6, <1>7 DEF t

(* Frames without messages may be put behind a queue. *)
LEMMA SilentTail ==
  ASSUME NEW q, Queue(q), NEW r, Queue(r),
         \A k \in DOMAIN r : ChatIds(r[k]) = {} /\ InOrder(r[k])
  PROVE  QueueIds(q \o r) = QueueIds(q) /\ (QueueInOrder(q) => QueueInOrder(q \o r))
         /\ \A f : (\A k \in DOMAIN q : Precedes(f, q[k])) => \A k \in DOMAIN (q \o r) : Precedes(f, (q \o r)[k])
<1> DEFINE u == q \o r
<1>1. /\ u \in Seq(Seq(Lines)) /\ Len(u) = Len(q) + Len(r)
      /\ Len(q) \in Nat /\ Len(r) \in Nat /\ DOMAIN q = 1 .. Len(q) /\ DOMAIN r = 1 .. Len(r)
      /\ \A i \in 1 .. Len(q) + Len(r) : u[i] = IF i <= Len(q) THEN q[i] ELSE r[i - Len(q)]
  BY ConcatProperties, LenProperties DEF Queue
<1>2. DOMAIN u = 1 .. Len(q) + Len(r)
  BY <1>1, LenProperties
<1> HIDE DEF u
<1>3. \A i \in DOMAIN q : i \in DOMAIN u /\ u[i] = q[i]
  BY <1>1, <1>2
<1>4. ASSUME NEW i \in DOMAIN u, i \notin DOMAIN q
      PROVE  ChatIds(u[i]) = {} /\ InOrder(u[i])
  <2>1. ~(i <= Len(q)) /\ i - Len(q) \in DOMAIN r
    BY <1>1, <1>2, <1>4
  <2> QED
    BY <1>1, <1>2, <2>1
<1>5. QueueIds(u) \subseteq QueueIds(q)
  BY <1>3, <1>4 DEF QueueIds
<1>6. QueueIds(q) \subseteq QueueIds(u)
  BY <1>3 DEF QueueIds
<1>7. QueueInOrder(q) => QueueInOrder(u)
  <2> SUFFICES ASSUME QueueInOrder(q) PROVE QueueInOrder(u)
    OBVIOUS
  <2>1. \A k \in DOMAIN u : InOrder(u[k])
    BY <1>3, <1>4 DEF QueueInOrder
  <2>2. ASSUME NEW j \in DOMAIN u, NEW k \in DOMAIN u, j < k PROVE Precedes(u[j], u[k])
    <3>1. CASE j \in DOMAIN q /\ k \in DOMAIN q
      BY <1>3, <2>2, <3>1 DEF QueueInOrder
    <3>2. CASE j \notin DOMAIN q \/ k \notin DOMAIN q
      BY <1>4, <3>2 DEF Precedes
    <3> QED
      BY <3>1, <3>2
  <2> QED
    BY <2>1, <2>2 DEF QueueInOrder
<1>8. \A f : (\A k \in DOMAIN q : Precedes(f, q[k])) => \A k \in DOMAIN u : Precedes(f, u[k])
  BY <1>3, <1>4 DEF Precedes
<1> QED
  BY <1>5, <1>6, <1>7, <1>8 DEF u

(* Numbers that are a part of an interval, below the rest of it, are an      *)
(* interval themselves.                                                      *)
Splits(P, R, a, b) == P \union R = a .. b /\ \A n \in P, m \in R : n < m
EndsAt(P, a, c)    == a <= c + 1 /\ P = a .. c

LEMMA LowPart ==
  ASSUME NEW a \in Nat \ {0}, NEW b \in Nat, a <= b + 1, NEW P, NEW R, Splits(P, R, a, b)
  PROVE  \E c \in 0 .. b : EndsAt(P, a, c)
<1> USE DEF Splits, EndsAt
<1>1. CASE P = a .. b
  BY <1>1
<1>2. CASE P # a .. b
  <2> DEFINE Out == (a .. b) \ P
  <2>0. a .. b \subseteq Nat /\ P \subseteq a .. b
    OBVIOUS
  <2>1. Out \subseteq Nat /\ Out # {}
    BY <1>2, <2>0
  <2> HIDE DEF Out
  <2>2. PICK x \in Out : \A y \in Out : ~(<<y, x>> \in OpToRel(<, Nat))
    BY <2>1, NatLessThanWellFounded, WFMin
  <2>3. \A y \in Out : ~(y < x)
    BY <2>1, <2>2 DEF OpToRel
  <2>4. x \in R /\ x \in Nat /\ a <= x /\ x <= b
    BY <2>1 DEF Out
  <2>5. P = a .. x - 1
    <3>1. \A n \in P : n < x /\ n \in a .. b
      BY <2>4
    <3>2. \A n \in a .. x - 1 : n \in a .. b /\ n < x
      BY <2>4
    <3>3. \A n \in a .. x - 1 : n \in P
      BY <2>3, <3>2 DEF Out
    <3>4. \A n \in P : n \in a .. x - 1
      BY <2>4, <3>1
    <3> QED
      BY <3>3, <3>4
  <2> QED
    BY <2>4, <2>5
<1> QED
  BY <1>1, <1>2

(* What is still to be read is the messages from one number to another.      *)
Streamed(l, q, from, to) ==
  /\ ChatIds(l) \union QueueIds(q) = from .. to
  /\ InOrder(l) /\ QueueInOrder(q)
  /\ \A k \in DOMAIN q : Precedes(l, q[k])

NextId == first + Len(got)

Upto(last) ==
  /\ last \in 0 .. posted /\ (conn = "open" => last = posted) /\ NextId <= last + 1
  /\ Streamed(lines, inbox, NextId, last)

SInv ==
  /\ first \in Nat \ {0} /\ got \in Seq(Nat)
  /\ \A k \in DOMAIN got : got[k] = first + k - 1
  /\ \E last \in Nat : Upto(last)

LEMMA NoStream ==
  \A a, b : a \in Nat /\ b \in Int /\ a = b + 1 => Streamed(<<>>, <<>>, a, b)
<1> SUFFICES ASSUME NEW a \in Nat, NEW b \in Int, a = b + 1 PROVE Streamed(<<>>, <<>>, a, b)
  OBVIOUS
<1>1. a .. b = {}
  OBVIOUS
<1> QED
  BY <1>1, NoIds DEF Streamed

LEMMA StreamInit == Init => SInv
<1> SUFFICES ASSUME Init PROVE SInv
  OBVIOUS
<1>1. /\ first = 1 /\ got = <<>> /\ posted = 0 /\ lines = <<>> /\ inbox = <<>> /\ conn = "none"
  BY DEF Init
<1>2. NextId = 1 /\ got \in Seq(Nat) /\ DOMAIN got = {}
  BY <1>1 DEF NextId
<1>3. Upto(0)
  BY <1>1, <1>2, NoStream DEF Upto
<1> QED
  BY <1>1, <1>2, <1>3 DEF SInv

LEMMA SameStream ==
  ASSUME SInv, UNCHANGED <<first, got, posted>>, conn' = "open" => conn = "open",
         \A a, b : Streamed(lines, inbox, a, b) => Streamed(lines', inbox', a, b)
  PROVE  SInv'
BY DEF SInv, Upto, NextId

(* The rest of the stream is forgotten with its connection. *)
LEMMA Forgotten ==
  ASSUME SInv, posted \in Nat, UNCHANGED <<first, got, posted>>, conn' # "open", lines' = <<>>, inbox' = <<>>
  PROVE  SInv'
<1>1. PICK last \in Nat : Upto(last)
  BY DEF SInv
<1>2. Len(got) \in Nat /\ first \in Nat \ {0}
  BY LenProperties DEF SInv
<1>3. NextId \in Nat /\ NextId - 1 \in 0 .. posted /\ NextId = NextId - 1 + 1 /\ NextId' = NextId
  BY <1>1, <1>2 DEF NextId, Upto
<1>4. PICK c \in 0 .. posted : NextId = c + 1
  BY <1>3
<1>5. Streamed(<<>>, <<>>, NextId, c)
  BY <1>3, <1>4, NoStream
<1>6. Upto(c)'
  BY <1>3, <1>4, <1>5 DEF Upto
<1> QED
  BY <1>6 DEF SInv

(* Lines that are no chat are taken out of a frame. *)
LEMMA TakeSilent ==
  ASSUME Framed(lines), lines # <<>>, ~IsChat(Head(lines)), lines' = Tail(lines), inbox' = inbox,
         NEW a, NEW b, Streamed(lines, inbox, a, b)
  PROVE  Streamed(lines', inbox', a, b)
BY RestOfIds DEF Streamed, Precedes

LEMMA YieldStream ==
  ASSUME SInv, FramesOK, posted \in Nat, Yield
  PROVE  SInv'
<1>1. PICK last \in Nat : Upto(last)
  BY DEF SInv
<1> DEFINE i == Head(lines).id
<1>2. /\ Framed(lines) /\ lines # <<>> /\ IsChat(Head(lines)) /\ lines' = Tail(lines)
      /\ got' = Append(got, i) /\ UNCHANGED <<first, posted, inbox, conn>>
  BY DEF Yield, FramesOK, client, server, IsChat
<1>3. /\ Len(got) \in Nat /\ first \in Nat \ {0} /\ NextId \in Nat /\ DOMAIN got = 1 .. Len(got)
      /\ Streamed(lines, inbox, NextId, last)
  BY <1>1, LenProperties DEF SInv, NextId, Upto
<1>4. /\ InOrder(Tail(lines))
      /\ ChatIds(lines) = ChatIds(Tail(lines)) \union {i}
      /\ \A n \in ChatIds(Tail(lines)) : i < n
  BY <1>2, <1>3, RestOfIds DEF Streamed
<1>5. i \in NextId .. last /\ i \in Nat /\ ChatIds(Tail(lines)) \union QueueIds(inbox) \subseteq NextId .. last
  <2>1. i \in NextId .. last
    BY <1>3, <1>4 DEF Streamed
  <2> QED
    BY <1>3, <1>4, <2>1 DEF Streamed
<1>6. \A n \in ChatIds(Tail(lines)) \union QueueIds(inbox) : i < n
  <2>1. \A k \in DOMAIN inbox : \A n \in ChatIds(inbox[k]) : i < n
    BY <1>3, <1>4 DEF Streamed, Precedes
  <2> QED
    BY <1>4, <2>1 DEF QueueIds
<1> HIDE DEF i
<1>7. i = NextId
  <2>1. NextId \in NextId .. last
    BY <1>3, <1>5
  <2>2. NextId = i \/ NextId \in ChatIds(Tail(lines)) \union QueueIds(inbox)
    BY <1>3, <1>4, <2>1 DEF Streamed
  <2> QED
    BY <1>3, <1>5, <1>6, <2>2
<1>8. ChatIds(Tail(lines)) \union QueueIds(inbox) = NextId + 1 .. last
  <2>1. ChatIds(Tail(lines)) \union QueueIds(inbox) \subseteq NextId + 1 .. last
    BY <1>3, <1>5, <1>6, <1>7
  <2>2. \A n \in NextId + 1 .. last : n \in NextId .. last /\ n # i
    BY <1>3, <1>7
  <2>3. NextId + 1 .. last \subseteq ChatIds(Tail(lines)) \union QueueIds(inbox)
    BY <1>3, <1>4, <2>2 DEF Streamed
  <2> QED
    BY <2>1, <2>3
<1>9. /\ got' \in Seq(Nat) /\ Len(got') = Len(got) + 1
      /\ \A k \in 1 .. Len(got) : got'[k] = got[k]
      /\ got'[Len(got) + 1] = NextId
  BY <1>2, <1>5, <1>7, AppendProperties DEF SInv
<1>10. DOMAIN got' = 1 .. Len(got) + 1
  BY <1>9, LenProperties
<1>11. \A k \in DOMAIN got' : got'[k] = first' + k - 1
  <2> SUFFICES ASSUME NEW k \in 1 .. Len(got) + 1 PROVE got'[k] = first + k - 1
    BY <1>2, <1>10
  <2>1. CASE k \in 1 .. Len(got)
    BY <1>3, <1>9, <2>1 DEF SInv
  <2>2. CASE k = Len(got) + 1
    BY <1>3, <1>9, <2>2 DEF NextId
  <2> QED
    BY <1>3, <2>1, <2>2
<1>12. NextId' = NextId + 1 /\ NextId + 1 <= last + 1
  BY <1>2, <1>3, <1>5, <1>7, <1>9 DEF NextId
<1>13. Streamed(lines', inbox', NextId', last)
  BY <1>2, <1>3, <1>4, <1>8, <1>12 DEF Streamed, Precedes
<1>14. Upto(last)'
  BY <1>1, <1>2, <1>12, <1>13 DEF Upto
<1> QED
  BY <1>2, <1>9, <1>11, <1>14 DEF SInv

LEMMA PostStream ==
  ASSUME SInv, TInv, Post
  PROVE  SInv'
<1>1. /\ conn = "open" /\ UNCHANGED <<first, got, conn, lines>>
      /\ posted \in Nat /\ Framed(lines) /\ Queue(inbox) /\ posted + 1 \in Nat
  BY DEF Post, TInv, TypeOK, FramesOK, client, reader, history
<1>2. PICK some \in 1..2 : \E f \in Frames(posted + 1, some) :
         inbox' = Append(inbox, f) /\ posted' = posted + some
  BY DEF Post
<1>3. PICK f \in Frames(posted + 1, some) : inbox' = Append(inbox, f) /\ posted' = posted + some
  BY <1>2
<1>4. Upto(posted) /\ NextId \in Nat /\ NextId' = NextId
  BY <1>1, LenProperties DEF SInv, Upto, NextId
<1>5. Framed(f) /\ ChatIds(f) = posted + 1 .. posted + 1 + some - 1 /\ InOrder(f)
  BY <1>1, ServerFrames, PostedIds
<1>6. /\ posted' \in Nat /\ posted <= posted' /\ \A n \in ChatIds(f) : posted < n
      /\ ChatIds(f) = posted + 1 .. posted'
  BY <1>1, <1>3, <1>5
<1>7. /\ ChatIds(lines) \union QueueIds(inbox) = NextId .. posted /\ InOrder(lines) /\ QueueInOrder(inbox)
      /\ \A k \in DOMAIN inbox : Precedes(lines, inbox[k])
      /\ NextId <= posted + 1
  BY <1>4 DEF Upto, Streamed
<1>8. \A n \in NextId .. posted, m \in ChatIds(f) : n < m
  BY <1>1, <1>4, <1>6, IdsType, <1>5
<1>9. QueueInOrder(inbox')
  BY <1>1, <1>3, <1>5, <1>7, <1>8, QueueIdsFacts
<1>10. ChatIds(lines) \union QueueIds(inbox') = NextId .. posted'
  <2>1. QueueIds(inbox') = QueueIds(inbox) \union ChatIds(f)
    BY <1>1, <1>3, <1>5, QueueIdsFacts
  <2>2. NextId .. posted' = (NextId .. posted) \union (posted + 1 .. posted')
    BY <1>1, <1>4, <1>6, <1>7
  <2> QED
    BY <1>6, <1>7, <2>1, <2>2
<1>11. \A k \in DOMAIN inbox' : Precedes(lines, inbox'[k])
  <2>1. Precedes(lines, f)
    BY <1>7, <1>8 DEF Precedes
  <2>2. \A k \in DOMAIN inbox' : (k \in DOMAIN inbox /\ inbox'[k] = inbox[k]) \/ inbox'[k] = f
    BY <1>1, <1>3, <1>5, LongerSeq DEF Queue, Framed
  <2> QED
    BY <1>7, <2>1, <2>2
<1>12. PICK last \in Nat : last = posted'
  BY <1>6
<1>13. Streamed(lines', inbox', NextId', last)
  BY <1>1, <1>4, <1>7, <1>9, <1>10, <1>11, <1>12 DEF Streamed
<1>14. last \in 0 .. posted' /\ NextId' <= last + 1
  <2>1. /\ posted' \in Nat /\ posted \in Nat /\ posted <= posted' /\ last = posted'
        /\ NextId \in Nat /\ NextId <= posted + 1 /\ NextId' = NextId
    BY <1>1, <1>4, <1>6, <1>7, <1>12
  <2>2. \A n, x, y \in Nat : n <= x + 1 /\ x <= y => n <= y + 1 /\ y \in 0 .. y
    OBVIOUS
  <2> QED
    BY <2>1, <2>2
<1>15. Upto(last)'
  BY <1>12, <1>13, <1>14 DEF Upto
<1> QED
  BY <1>1, <1>15 DEF SInv

(* The frames that do not arrive are the last ones. *)
LEMMA DropStream ==
  ASSUME SInv, TInv, Drop
  PROVE  SInv'
<1>1. /\ conn' = "closed" /\ UNCHANGED <<first, got, lines, posted>>
      /\ posted \in Nat /\ Framed(lines) /\ Queue(inbox)
  BY DEF Drop, TInv, TypeOK, FramesOK, reader, history
<1>2. PICK k \in 0..Len(inbox) : inbox' = SubSeq(inbox, 1, k)
  BY DEF Drop
<1>3. PICK last \in Nat : Upto(last)
  BY DEF SInv
<1>4. /\ NextId \in Nat \ {0} /\ NextId' = NextId /\ NextId <= last + 1 /\ last \in 0 .. posted
      /\ Streamed(lines, inbox, NextId, last)
  BY <1>1, <1>3, LenProperties DEF SInv, Upto, NextId
<1>5. /\ DOMAIN inbox' = 1 .. k /\ k \in Nat /\ Len(inbox) \in Nat /\ DOMAIN inbox = 1 .. Len(inbox)
      /\ \A j \in 1 .. k : inbox'[j] = inbox[j]
  BY <1>1, <1>2, StartOfSeq DEF Queue
<1> DEFINE P == ChatIds(lines) \union QueueIds(inbox')
           R == UNION {ChatIds(inbox[j]) : j \in k + 1 .. Len(inbox)}
<1>6. P \union R = NextId .. last
  <2>1. 1 .. Len(inbox) = (1 .. k) \union (k + 1 .. Len(inbox))
    BY <1>5
  <2>2. QueueIds(inbox) = QueueIds(inbox') \union R
    BY <1>5, <2>1 DEF QueueIds
  <2> QED
    BY <1>4, <2>2 DEF Streamed
<1>7. \A n \in P, m \in R : n < m
  <2> SUFFICES ASSUME NEW j \in k + 1 .. Len(inbox), NEW m \in ChatIds(inbox[j]), NEW n \in P PROVE n < m
    OBVIOUS
  <2>1. j \in DOMAIN inbox /\ \A i \in 1 .. k : i \in DOMAIN inbox /\ i < j
    BY <1>5
  <2>2. CASE n \in ChatIds(lines)
    BY <1>4, <2>1, <2>2 DEF Streamed, Precedes
  <2>3. CASE n \in QueueIds(inbox')
    <3>1. PICK i \in 1 .. k : n \in ChatIds(inbox[i])
      BY <1>5, <2>3 DEF QueueIds
    <3> QED
      BY <1>4, <2>1, <3>1 DEF Streamed, QueueInOrder, Precedes
  <2> QED
    BY <2>2, <2>3
<1> HIDE DEF P, R
<1>8. PICK c \in 0 .. last : NextId <= c + 1 /\ P = NextId .. c
  <2>1. last \in Nat /\ NextId \in Nat \ {0} /\ NextId <= last + 1
    BY <1>3, <1>4
  <2>2. Splits(P, R, NextId, last)
    BY <1>6, <1>7 DEF Splits
  <2>3. \E c \in 0 .. last : EndsAt(P, NextId, c)
    BY ONLY <2>1, <2>2, LowPart
  <2> QED
    BY <2>3 DEF EndsAt
<1>9. Streamed(lines', inbox', NextId', c)
  <2>1. QueueInOrder(inbox')
    BY <1>4, <1>5 DEF Streamed, QueueInOrder
  <2> QED
    BY <1>1, <1>4, <1>5, <1>8, <2>1 DEF Streamed, P
<1>10. Upto(c)'
  BY <1>1, <1>4, <1>8, <1>9 DEF Upto
<1> QED
  BY <1>1, <1>8, <1>10 DEF SInv

LEMMA StreamStep == TInv /\ ConnOK /\ SInv /\ [Next]_vars => SInv'
<1> SUFFICES ASSUME TInv, ConnOK, SInv, [Next]_vars PROVE SInv'
  OBVIOUS
<1> USE DEF client, reader, server, history
<1>0. /\ posted \in Nat /\ FramesOK /\ Framed(lines) /\ Queue(inbox)
  BY DEF TInv, TypeOK, FramesOK
<1>1. CASE UNCHANGED <<first, got, posted, lines, inbox>> /\ (conn' = "open" => conn = "open")
  BY <1>1, SameStream
<1>2. CASE Fail
  BY <1>0, <1>2, Forgotten DEF Fail
<1>3. CASE \/ Attempt \/ JoinNext \/ Ready \/ Resume \/ FrameDone \/ OpenFailed
           \/ Disconnect \/ Goodbye \/ Disconnected \/ UNCHANGED vars
           \/ \E c \in Requested : Join(c) \/ Part(c)
  BY <1>1, <1>3 DEF Attempt, JoinNext, Ready, Resume, FrameDone, OpenFailed, Disconnect, Goodbye,
                    Disconnected, Join, Part, vars
<1>4. CASE Opened
  <2>1. /\ conn' = "open" /\ first' = posted + 1 /\ got' = <<>> /\ posted' = posted
        /\ lines' = <<>> /\ inbox' = <<>>
    BY <1>0, <1>4 DEF Opened, FramesOK
  <2>2. /\ posted + 1 \in Nat \ {0} /\ posted \in Int /\ posted \in 0 .. posted
        /\ posted + 1 + 0 = posted + 1 /\ posted + 1 <= posted + 1
    BY <1>0
  <2>3. got' \in Seq(Nat) /\ DOMAIN got' = {} /\ Len(got') = 0
    BY <2>1
  <2>4. NextId' = posted + 1
    BY <2>1, <2>2, <2>3 DEF NextId
  <2>5. Streamed(lines', inbox', NextId', posted)
    BY <2>1, <2>2, <2>4, NoStream
  <2>6. PICK last \in Nat : last = posted
    BY <1>0
  <2>7. Upto(last)'
    BY <2>1, <2>2, <2>4, <2>5, <2>6 DEF Upto
  <2> QED
    BY <2>1, <2>2, <2>3, <2>7 DEF SInv
<1>5. CASE Receive
  <2>1. /\ lines = <<>> /\ inbox # <<>> /\ lines' = Head(inbox) /\ inbox' = Tail(inbox)
        /\ UNCHANGED <<first, got, posted, conn>>
    BY <1>0, <1>5 DEF Receive, FramesOK
  <2>2. \A a, b : Streamed(lines, inbox, a, b) => Streamed(lines', inbox', a, b)
    BY <1>0, <2>1, NextFrame, NoIds DEF Streamed
  <2> QED
    BY <2>1, <2>2, SameStream
<1>6. CASE Lost \/ BadFrame
  BY <1>2, <1>6 DEF Lost, BadFrame
<1>7. CASE Heartbeat
  <2>1. CASE stop
    BY <1>1, <1>7, <2>1 DEF Heartbeat
  <2>2. CASE ~stop
    <3>1. /\ lines = <<>> /\ lines' = <<>> /\ inbox = <<>> /\ inbox' = <<<<Pong>>>>
          /\ UNCHANGED <<first, got, posted, conn>>
      BY <1>0, <1>7, <2>2 DEF Heartbeat, FramesOK
    <3>2. QueueIds(<<<<Pong>>>>) = {} /\ QueueInOrder(<<<<Pong>>>>)
      BY SilentFrames DEF QueueIds, QueueInOrder
    <3>3. Precedes(<<>>, <<Pong>>)
      BY NoIds DEF Precedes
    <3>4. \A a, b : Streamed(lines, inbox, a, b) => Streamed(lines', inbox', a, b)
      BY <3>1, <3>2, <3>3, NoIds DEF Streamed
    <3> QED
      BY <3>1, <3>4, SameStream
  <2> QED
    BY <2>1, <2>2
<1>8. CASE FlushNext
  BY <1>1, <1>2, <1>8 DEF FlushNext
<1>9. CASE HandlePing
  <2>1. CASE Fail
    BY <1>2, <2>1
  <2>2. CASE ~Fail
    <3>1. /\ lines # <<>> /\ ~IsChat(Head(lines)) /\ lines' = Tail(lines)
          /\ UNCHANGED <<inbox, first, got, posted, conn>>
      BY <1>9, <2>2 DEF HandlePing, IsChat
    <3> QED
      BY <1>0, <3>1, TakeSilent, SameStream
  <2> QED
    BY <2>1, <2>2
<1>10. CASE HandleListLine
  <2>1. /\ lines # <<>> /\ ~IsChat(Head(lines)) /\ lines' = Tail(lines)
        /\ UNCHANGED <<inbox, first, got, posted, conn>>
    BY <1>10 DEF HandleListLine, IsChat
  <2> QED
    BY <1>0, <2>1, TakeSilent, SameStream
<1>11. CASE Yield
  BY <1>0, <1>11, YieldStream
<1>12. CASE DiscoveryRound
  <2>1. PICK reply \in ListReplies : inbox' = inbox \o reply
    BY <1>12 DEF DiscoveryRound
  <2>2. UNCHANGED <<lines, first, got, posted, conn>>
    BY <1>12 DEF DiscoveryRound
  <2>3. /\ QueueIds(inbox') = QueueIds(inbox) /\ (QueueInOrder(inbox) => QueueInOrder(inbox'))
        /\ \A f : (\A k \in DOMAIN inbox : Precedes(f, inbox[k])) => \A k \in DOMAIN inbox' : Precedes(f, inbox'[k])
    BY <1>0, <2>1, SilentFrames, SilentTail
  <2>4. \A a, b : Streamed(lines, inbox, a, b) => Streamed(lines', inbox', a, b)
    BY <2>2, <2>3 DEF Streamed
  <2> QED
    BY <2>2, <2>4, SameStream
<1>13. CASE Post
  BY <1>13, PostStream
<1>14. CASE PostBinary
  <2>1. inbox' = Append(inbox, <<Binary>>) /\ UNCHANGED <<lines, first, got, posted, conn>>
    BY <1>14 DEF PostBinary
  <2>2. Framed(<<Binary>>) /\ ChatIds(<<Binary>>) = {} /\ InOrder(<<Binary>>)
    BY ServerFrames, SilentFrames
  <2>3. QueueIds(inbox') = QueueIds(inbox) /\ (QueueInOrder(inbox) => QueueInOrder(inbox'))
    BY <1>0, <2>1, <2>2, QueueIdsFacts
  <2>4. \A k \in DOMAIN inbox' : (k \in DOMAIN inbox /\ inbox'[k] = inbox[k]) \/ inbox'[k] = <<Binary>>
    BY <1>0, <2>1, <2>2, LongerSeq DEF Queue, Framed
  <2>5. \A f : Precedes(f, <<Binary>>)
    BY <2>2 DEF Precedes
  <2>6. \A a, b : Streamed(lines, inbox, a, b) => Streamed(lines', inbox', a, b)
    BY <2>1, <2>3, <2>4, <2>5 DEF Streamed
  <2> QED
    BY <2>1, <2>6, SameStream
<1>15. CASE Drop
  BY <1>0, <1>15, DropStream
<1> QED
  BY <1>3, <1>4, <1>5, <1>6, <1>7, <1>8, <1>9, <1>10, <1>11, <1>12, <1>13, <1>14, <1>15
  DEF Next, Reader

(* Every chat message sent on a connection is yielded once and in order, or  *)
(* is still to be read, whatever PINGs, LISTs, joins and errors come between *)
(* (iter_messages, lines 289-375).                                           *)
THEOREM StreamCorrect == Spec => []StreamIsWhole
<1>1. SInv /\ TInv => StreamIsWhole
  BY DEF SInv, StreamIsWhole, Upto, Streamed, NextId, QueueIds, QueueInOrder
<1> QED
  BY <1>1, TypesInit, TypesStep, ConnInit, ConnStep, StreamInit, StreamStep, PTL DEF Spec, TInv
=============================================================================
