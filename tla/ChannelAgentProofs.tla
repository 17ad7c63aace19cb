------------------------- MODULE ChannelAgentProofs --------------------------
(***************************************************************************)
(* Theorems about ChannelAgent, whatever comes late, fails or is replaced  *)
(* while it runs: what the model is shown and what an update names as its  *)
(* origin is the recent conversation, and what the agent has learned of    *)
(* speakers and of its model follows from what happened.                   *)
(***************************************************************************)
EXTENDS ChannelAgent, SequenceTheorems, FiniteSetTheorems, WellFoundedInduction,
        TLAPS

-----------------------------------------------------------------------------
(* THE LATEST OF SOME MESSAGES *)

Numbers == Nat \ {0}

(* u is what remains of s behind its first d items. *)
Behind(u, s, d) ==
    /\ u \in Seq(Numbers) /\ Len(u) = Len(s) - d
    /\ \A k \in 1 .. Len(u) : u[k] = s[k + d]

LEMMA RangeOf ==
  ASSUME NEW s \in Seq(Numbers)
  PROVE  /\ Len(s) \in Nat /\ DOMAIN s = 1 .. Len(s)
         /\ \A k \in 1 .. Len(s) : s[k] \in Numbers /\ s[k] \in Range(s)
         /\ \A n \in Range(s) : \E k \in 1 .. Len(s) : s[k] = n
         /\ s # <<>> <=> Len(s) > 0
<1>1. Len(s) \in Nat /\ DOMAIN s = 1 .. Len(s)
  BY LenProperties
<1>2. \A k \in 1 .. Len(s) : s[k] \in Numbers
  BY ElementOfSeq
<1>3. s # <<>> <=> Len(s) > 0
  BY <1>1, EmptySeq
<1> QED
  BY <1>1, <1>2, <1>3 DEF Range

LEMMA SuffixAt ==
  ASSUME NEW s \in Seq(Numbers), NEW m \in 1 .. Len(s) + 1
  PROVE  Behind(SubSeq(s, m, Len(s)), s, m - 1)
<1>1. Len(s) \in Nat /\ \A i \in m .. Len(s) : s[i] \in Numbers
  BY RangeOf
<1>2. /\ SubSeq(s, m, Len(s)) \in Seq(Numbers)
      /\ Len(SubSeq(s, m, Len(s))) = IF m <= Len(s) THEN Len(s) - m + 1 ELSE 0
      /\ \A i \in 1 .. Len(s) - m + 1 : SubSeq(s, m, Len(s))[i] = s[m + i - 1]
  BY <1>1, SubSeqProperties
<1>3. Len(SubSeq(s, m, Len(s))) = Len(s) - (m - 1)
  BY <1>1, <1>2
<1>4. \A i \in 1 .. Len(SubSeq(s, m, Len(s))) : SubSeq(s, m, Len(s))[i] = s[i + (m - 1)]
  <2> TAKE i \in 1 .. Len(SubSeq(s, m, Len(s)))
  <2>1. i \in 1 .. Len(s) - m + 1 /\ m + i - 1 = i + (m - 1)
    BY <1>1, <1>3
  <2> QED
    BY <1>2, <2>1
<1> QED
  BY <1>2, <1>3, <1>4 DEF Behind

LEMMA LastOfBehind ==
  ASSUME NEW s \in Seq(Numbers), NEW n \in Numbers
  PROVE  \E d \in 0 .. Len(s) :
            /\ Behind(LastOf(s, n), s, d) /\ d = IF Len(s) > n THEN Len(s) - n ELSE 0
<1>1. Len(s) \in Nat
  BY RangeOf
<1> DEFINE m == IF Len(s) > n THEN Len(s) - n + 1 ELSE 1
<1>2. m \in 1 .. Len(s) + 1 /\ m - 1 \in 0 .. Len(s) /\ m - 1 = IF Len(s) > n THEN Len(s) - n ELSE 0
  BY <1>1 DEF Numbers
<1>3. LastOf(s, n) = SubSeq(s, m, Len(s))
  BY DEF LastOf
<1> HIDE DEF m
<1>4. Behind(LastOf(s, n), s, m - 1)
  BY <1>2, <1>3, SuffixAt
<1> QED
  BY <1>2, <1>4

(* A suffix of the latest is the latest, and leaves out what it is cut of. *)
LEMMA SuffixIsLatest ==
  ASSUME NEW s \in Seq(Numbers), NEW ns, Latest(s, ns), NEW u,
         NEW d \in 0 .. Len(s), Behind(u, s, d), Len(u) > 0
  PROVE  /\ Latest(u, ns) /\ Last(u) = Last(s) /\ Head(u) = s[d + 1]
         /\ \A gone \in ns \ Range(u) : gone \notin Range(s) \/ \E k \in 1 .. d : gone = s[k]
<1> USE DEF Numbers
<1>1. /\ u \in Seq(Numbers) /\ Len(u) = Len(s) - d
      /\ \A k \in 1 .. Len(u) : u[k] = s[k + d]
  BY DEF Behind
<1>2. /\ Len(u) \in Nat /\ DOMAIN u = 1 .. Len(u)
      /\ \A k \in 1 .. Len(u) : u[k] \in Range(u)
      /\ \A n \in Range(u) : \E k \in 1 .. Len(u) : u[k] = n
      /\ u # <<>>
  BY <1>1, RangeOf
<1>3. /\ Len(s) \in Nat /\ DOMAIN s = 1 .. Len(s)
      /\ \A k \in 1 .. Len(s) : s[k] \in Nat /\ s[k] \in Range(s)
      /\ \A n \in Range(s) : \E k \in 1 .. Len(s) : s[k] = n
  BY RangeOf
<1>4. /\ \A j, k \in 1 .. Len(s) : j < k => s[j] < s[k]
      /\ Range(s) \subseteq ns
      /\ \A gone \in ns \ Range(s), k \in 1 .. Len(s) : gone < s[k]
  BY <1>3 DEF Latest
<1>5. \A k \in 1 .. Len(u) : k + d \in 1 .. Len(s)
  BY <1>1, <1>3
<1>6. \A gone \in ns \ Range(u) : gone \notin Range(s) \/ \E k \in 1 .. d : gone = s[k]
  <2> SUFFICES ASSUME NEW gone \in ns \ Range(u), gone \in Range(s)
               PROVE  \E k \in 1 .. d : gone = s[k]
    OBVIOUS
  <2>1. PICK k \in 1 .. Len(s) : s[k] = gone
    BY <1>3
  <2>2. CASE k \in 1 .. d
    BY <2>1, <2>2
  <2>3. CASE k \notin 1 .. d
    <3>1. k - d \in 1 .. Len(u) /\ (k - d) + d = k
      BY <1>1, <1>3, <2>3
    <3>2. u[k - d] = gone
      BY <1>1, <2>1, <3>1
    <3> QED
      BY <1>2, <3>1, <3>2
  <2> QED
    BY <2>2, <2>3
<1>7. \A j, k \in DOMAIN u : j < k => u[j] < u[k]
  <2> SUFFICES ASSUME NEW j \in 1 .. Len(u), NEW k \in 1 .. Len(u), j < k
               PROVE  u[j] < u[k]
    BY <1>2
  <2>1. j + d < k + d
    OBVIOUS
  <2> QED
    BY <1>1, <1>4, <1>5, <2>1
<1>8. Range(u) \subseteq ns
  BY <1>1, <1>2, <1>3, <1>4, <1>5
<1>9. \A gone \in ns \ Range(u), k \in DOMAIN u : gone < u[k]
  <2> SUFFICES ASSUME NEW gone \in ns \ Range(u), NEW k \in 1 .. Len(u)
               PROVE  gone < u[k]
    BY <1>2
  <2>1. u[k] = s[k + d] /\ k + d \in 1 .. Len(s)
    BY <1>1, <1>5
  <2>2. CASE gone \notin Range(s)
    BY <1>4, <2>1, <2>2
  <2>3. ASSUME NEW j \in 1 .. d, gone = s[j] PROVE gone < u[k]
    <3>1. j \in 1 .. Len(s) /\ j < k + d
      BY <1>3
    <3> QED
      BY <1>4, <2>1, <2>3, <3>1
  <2> QED
    BY <1>6, <2>2, <2>3
<1>10. Latest(u, ns)
  BY <1>2, <1>7, <1>8, <1>9 DEF Latest
<1>11. Last(u) = Last(s)
  <2>1. Len(u) \in 1 .. Len(u) /\ Len(u) + d = Len(s)
    BY <1>1, <1>2, <1>3
  <2> QED
    BY <1>1, <2>1 DEF Last
<1>12. Head(u) = s[d + 1]
  <2>1. Head(u) = u[1] /\ 1 \in 1 .. Len(u) /\ 1 + d = d + 1
    BY <1>1, <1>2
  <2> QED
    BY <1>1, <2>1
<1> QED
  BY <1>6, <1>10, <1>11, <1>12

(* So is the latest with one that comes later. *)
LEMMA AppendIsLatest ==
  ASSUME NEW s \in Seq(Numbers), NEW ns, Latest(s, ns), NEW n \in Numbers,
         \A m \in ns : m < n
  PROVE  /\ Append(s, n) \in Seq(Numbers) /\ Len(Append(s, n)) = Len(s) + 1
         /\ Append(s, n)[Len(s) + 1] = n /\ \A k \in 1 .. Len(s) : Append(s, n)[k] = s[k]
         /\ Latest(Append(s, n), ns \cup {n}) /\ Last(Append(s, n)) = n
         /\ Range(Append(s, n)) = Range(s) \cup {n}
<1> USE DEF Numbers
<1> DEFINE u == Append(s, n)
<1>1. /\ u \in Seq(Numbers) /\ Len(u) = Len(s) + 1 /\ u # <<>>
      /\ u[Len(s) + 1] = n /\ \A k \in 1 .. Len(s) : u[k] = s[k]
  BY AppendProperties
<1> HIDE DEF u
<1>2. /\ Len(u) \in Nat /\ DOMAIN u = 1 .. Len(u)
      /\ \A k \in 1 .. Len(u) : u[k] \in Range(u)
      /\ \A m \in Range(u) : \E k \in 1 .. Len(u) : u[k] = m
  BY <1>1, RangeOf
<1>3. /\ Len(s) \in Nat /\ DOMAIN s = 1 .. Len(s)
      /\ \A k \in 1 .. Len(s) : s[k] \in Nat /\ s[k] \in Range(s)
      /\ \A m \in Range(s) : \E k \in 1 .. Len(s) : s[k] = m
  BY RangeOf
<1>4. /\ \A j, k \in 1 .. Len(s) : j < k => s[j] < s[k]
      /\ Range(s) \subseteq ns
      /\ \A gone \in ns \ Range(s), k \in 1 .. Len(s) : gone < s[k]
  BY <1>3 DEF Latest
<1>5. \A k \in 1 .. Len(u) : k \in 1 .. Len(s) \/ k = Len(s) + 1
  BY <1>1, <1>3
<1>6. Range(u) = Range(s) \cup {n}
  <2>1. \A m \in Range(u) : m \in Range(s) \cup {n}
    BY <1>1, <1>2, <1>3, <1>5
  <2>2. \A m \in Range(s) : m \in Range(u)
    <3> TAKE m \in Range(s)
    <3>1. PICK k \in 1 .. Len(s) : s[k] = m
      BY <1>3
    <3>2. k \in 1 .. Len(u) /\ u[k] = m
      BY <1>1, <1>3, <3>1
    <3> QED
      BY <1>2, <3>2
  <2>3. n \in Range(u)
    BY <1>1, <1>2, <1>3
  <2> QED
    BY <2>1, <2>2, <2>3
<1>7. \A j, k \in DOMAIN u : j < k => u[j] < u[k]
  <2> SUFFICES ASSUME NEW j \in 1 .. Len(u), NEW k \in 1 .. Len(u), j < k
               PROVE  u[j] < u[k]
    BY <1>2
  <2>1. j \in 1 .. Len(s) /\ u[j] = s[j] /\ s[j] \in ns
    BY <1>1, <1>3, <1>4, <1>5
  <2> QED
    BY <1>1, <1>4, <1>5, <2>1
<1>8. \A gone \in (ns \cup {n}) \ Range(u), k \in DOMAIN u : gone < u[k]
  <2> SUFFICES ASSUME NEW gone \in ns \ Range(s), NEW k \in 1 .. Len(u)
               PROVE  gone < u[k]
    BY <1>2, <1>6
  <2> QED
    BY <1>1, <1>4, <1>5
<1>9. Latest(u, ns \cup {n})
  BY <1>1, <1>4, <1>6, <1>7, <1>8 DEF Latest
<1>10. Last(u) = n
  BY <1>1 DEF Last
<1> QED
  BY <1>1, <1>6, <1>9, <1>10 DEF u

LEMMA NothingYet == Latest(<<>>, {})
BY DEF Latest, Range

-----------------------------------------------------------------------------
(* THE WINDOW *)

LessThan == {p \in Nat \X Nat : p[1] < p[2]}

LEMMA LeastOne ==
  ASSUME NEW S \in SUBSET Nat, S # {}
  PROVE  \E m \in S : \A k \in S : m <= k
<1>1. IsWellFoundedOn(LessThan, Nat)
  <2>1. OpToRel(<, Nat) = LessThan
    BY DEF OpToRel, LessThan
  <2> QED
    BY <2>1, NatLessThanWellFounded
<1>2. PICK m \in S : \A y \in S : ~(<<y, m>> \in LessThan)
  BY ONLY <1>1, S \subseteq Nat, S # {}, WFMin
<1>3. ASSUME NEW k \in S PROVE m <= k
  <2>1. k \in Nat /\ m \in Nat /\ ~(<<k, m>> \in LessThan)
    BY <1>2
  <2>2. ~(k < m)
    BY <2>1 DEF LessThan
  <2> QED
    BY <2>1, <2>2
<1> QED
  BY <1>3

(* What WindowIsRecent says, of a window w that messages ns have joined. *)
Recent(c, w, ns) ==
    /\ Latest(w, ns) /\ Len(w) <= WindowSize
    /\ w # <<>> => c[Head(w)].ts >= c[Last(w)].ts - WindowSpan
    /\ (\A j, k \in ns : j < k => c[j].ts <= c[k].ts) /\ Len(w) < WindowSize
         => \A gone \in ns \ Range(w) : c[gone].ts < c[Last(w)].ts - WindowSpan

JoinedIn(got, place, i) ==
    {n \in DOMAIN got : got[n] = i /\ ~(n = Len(got) /\ place = "inferring")}

LEMMA RecentAs ==
  \A i : /\ Joined(i) = JoinedIn(served, pc, i)
         /\ WindowIsRecent(i) <=> Recent(chat, agents[i].window, JoinedIn(served, pc, i))
BY DEF Joined, JoinedIn, Now, WindowIsRecent, Recent, InOrder, Ts

(* A window that a message has joined still is recent. *)
LEMMA TrimmedIsRecent ==
  ASSUME chat \in Seq(Messages), NEW w \in Seq(Numbers), NEW ns, ns \subseteq DOMAIN chat,
         NEW n \in DOMAIN chat, \A m \in ns : m < n, Recent(chat, w, ns)
  PROVE  /\ Recent(chat, Trimmed(w, n), ns \cup {n})
         /\ Trimmed(w, n) \in Seq(Numbers) /\ Trimmed(w, n) # <<>> /\ Last(Trimmed(w, n)) = n
<1>1. /\ WindowSize \in Numbers /\ WindowSize \in Nat /\ WindowSize > 0 /\ n \in Numbers /\ WindowSpan \in Nat
      /\ DOMAIN chat = 1 .. Len(chat) /\ Len(chat) \in Nat
      /\ \A m \in DOMAIN chat : chat[m].ts \in Nat
  <2>1. DOMAIN chat = 1 .. Len(chat) /\ Len(chat) \in Nat /\ \A m \in DOMAIN chat : chat[m] \in Messages
    BY LenProperties, ElementOfSeq
  <2> QED
    BY <2>1, AgentAssumption DEF Messages, Numbers
<1>2. Latest(w, ns) /\ Len(w) <= WindowSize
  BY DEF Recent
<1> DEFINE a   == Append(w, n)
           all == LastOf(a, WindowSize)
           fresh == {k \in DOMAIN all : Ts(all[k]) >= Ts(n) - WindowSpan}
           f   == CHOOSE k \in fresh : \A j \in fresh : k <= j
           u   == SubSeq(all, f, Len(all))
<1> HIDE DEF all, fresh, f, u
<1>3. /\ a \in Seq(Numbers) /\ Len(a) = Len(w) + 1
      /\ a[Len(w) + 1] = n /\ \A k \in 1 .. Len(w) : a[k] = w[k]
      /\ Latest(a, ns \cup {n}) /\ Last(a) = n /\ Range(a) = Range(w) \cup {n}
  <2> HIDE DEF a
  <2>1. a = Append(w, n)
    BY DEF a
  <2> QED
    BY <1>1, <1>2, <2>1, AppendIsLatest
<1>4. Len(w) \in Nat /\ \A k \in 1 .. Len(w) : w[k] \in Nat /\ w[k] \in Range(w) /\ w[k] \in ns
  BY <1>2, RangeOf DEF Latest, Numbers
<1> HIDE DEF a
<1>5. PICK d \in 0 .. Len(a) :
         Behind(all, a, d) /\ d = IF Len(a) > WindowSize THEN Len(a) - WindowSize ELSE 0
  BY <1>1, <1>3, LastOfBehind DEF all
<1>6. /\ all \in Seq(Numbers) /\ Len(all) = Len(a) - d
      /\ \A k \in 1 .. Len(all) : all[k] = a[k + d]
  BY <1>5 DEF Behind
<1>7. /\ Len(all) \in Nat /\ DOMAIN all = 1 .. Len(all) /\ Len(all) > 0 /\ Len(all) <= WindowSize
      /\ Len(all) + d = Len(w) + 1
  <2>1. /\ Len(all) \in Nat /\ DOMAIN all = 1 .. Len(all)
    BY <1>6, RangeOf
  <2> QED
    <3>1. /\ Len(w) + 1 > WindowSize => d = Len(w) + 1 - WindowSize
          /\ ~(Len(w) + 1 > WindowSize) => d = 0
      BY <1>1, <1>3, <1>4, <1>5
    <3>2. Len(all) = Len(w) + 1 - d
      BY <1>3, <1>6
    <3> QED
      <4>1. Len(w) \in Nat /\ WindowSize \in Nat /\ WindowSize > 0
        BY <1>1, <1>4
      <4>2. d \in Nat /\ Len(w) + 1 - d > 0 /\ Len(w) + 1 - d <= WindowSize
        <5>1. CASE Len(w) + 1 > WindowSize
          BY <3>1, <4>1, <5>1
        <5>2. CASE ~(Len(w) + 1 > WindowSize)
          BY <3>1, <4>1, <5>2
        <5> QED
          BY <5>1, <5>2
      <4> QED
        BY ONLY <2>1, <3>2, <4>1, <4>2
<1>8. /\ Latest(all, ns \cup {n}) /\ Last(all) = n /\ all[Len(all)] = n
      /\ \A gone \in (ns \cup {n}) \ Range(all) : gone \notin Range(a) \/ \E k \in 1 .. d : gone = a[k]
  <2>1. all[Len(all)] = Last(all)
    BY DEF Last
  <2> DEFINE ms == ns \cup {n}
  <2>2. Latest(a, ms)
    BY <1>3
  <2> HIDE DEF ms
  <2>3. /\ Latest(all, ms) /\ Last(all) = Last(a)
        /\ \A gone \in ms \ Range(all) : gone \notin Range(a) \/ \E k \in 1 .. d : gone = a[k]
    BY ONLY <1>3, <1>5, <1>7, <2>2, SuffixIsLatest
  <2> QED
    BY <1>3, <2>1, <2>3 DEF ms
<1>9. /\ f \in fresh /\ \A j \in fresh : f <= j
      /\ \A k \in 1 .. f - 1 : ~(Ts(all[k]) >= Ts(n) - WindowSpan)
      /\ f \in 1 .. Len(all)
  <2>1. fresh \in SUBSET Nat /\ fresh \subseteq 1 .. Len(all)
    BY <1>7 DEF fresh
  <2>2. Len(all) \in fresh
    BY <1>1, <1>7, <1>8 DEF Ts, fresh
  <2>3. \E m \in fresh : \A k \in fresh : m <= k
    BY <2>1, <2>2, LeastOne
  <2>4. f \in fresh /\ \A j \in fresh : f <= j
    BY <2>3 DEF f
  <2>5. f \in 1 .. Len(all)
    BY <2>1, <2>4
  <2>6. ASSUME NEW k \in 1 .. f - 1 PROVE ~(Ts(all[k]) >= Ts(n) - WindowSpan)
    <3>1. k \notin fresh /\ k \in 1 .. Len(all)
      BY <1>7, <2>4, <2>5
    <3> QED
      BY <1>7, <3>1 DEF fresh
  <2> QED
    BY <2>4, <2>5, <2>6
<1>10. Ts(all[f]) >= Ts(n) - WindowSpan
  BY <1>9 DEF fresh
<1>11. Behind(u, all, f - 1)
  <2>1. f \in 1 .. Len(all) + 1
    BY <1>7, <1>9
  <2> QED
    BY <1>6, <2>1, SuffixAt DEF u
<1>12. /\ u \in Seq(Numbers) /\ Len(u) = Len(all) - (f - 1) /\ Len(u) > 0 /\ Len(u) \in Nat
  BY <1>7, <1>9, <1>11, RangeOf DEF Behind
<1>13. /\ Latest(u, ns \cup {n}) /\ Last(u) = n /\ Head(u) = all[f]
       /\ \A gone \in (ns \cup {n}) \ Range(u) : gone \notin Range(all) \/ \E k \in 1 .. f - 1 : gone = all[k]
  <2>1. f - 1 \in 0 .. Len(all) /\ (f - 1) + 1 = f
    BY <1>7, <1>9
  <2> DEFINE ms == ns \cup {n}
             e  == f - 1
  <2>2. Latest(all, ms) /\ e \in 0 .. Len(all) /\ Behind(u, all, e)
    BY <1>8, <1>11, <2>1
  <2> HIDE DEF ms, e
  <2>3. /\ Latest(u, ms) /\ Last(u) = Last(all) /\ Head(u) = all[e + 1]
        /\ \A gone \in ms \ Range(u) : gone \notin Range(all) \/ \E k \in 1 .. e : gone = all[k]
    BY ONLY <1>6, <1>12, <2>2, SuffixIsLatest
  <2> QED
    BY <1>8, <2>1, <2>3 DEF ms, e
<1>14. u # <<>>
  BY <1>12, RangeOf
<1>15. Len(u) <= WindowSize
  BY <1>1, <1>7, <1>9, <1>12
<1>16. chat[Head(u)].ts >= chat[Last(u)].ts - WindowSpan
  BY <1>10, <1>13 DEF Ts
<1>17. ASSUME \A j, k \in ns \cup {n} : j < k => chat[j].ts <= chat[k].ts, Len(u) < WindowSize,
              NEW gone \in (ns \cup {n}) \ Range(u)
       PROVE  chat[gone].ts < chat[n].ts - WindowSpan
  <2>1. \A k \in 1 .. Len(a) : a[k] \in ns \cup {n}
    BY <1>3, <1>4
  <2>2. \A k \in 1 .. Len(all) : all[k] \in ns \cup {n} /\ all[k] \in DOMAIN chat
    <3>1. \A k \in 1 .. Len(all) : k + d \in 1 .. Len(a)
      BY <1>3, <1>4, <1>5, <1>7
    <3> QED
      BY <1>6, <2>1, <3>1
  <2>3. gone \in DOMAIN chat /\ chat[gone].ts \in Nat /\ chat[n].ts \in Nat
    BY <1>1
  (* Trimmed by time, or older than one that is. *)
  <2>4. ASSUME NEW k \in 1 .. f - 1, gone <= all[k] PROVE chat[gone].ts < chat[n].ts - WindowSpan
    <3>1. k \in 1 .. Len(all) /\ all[k] \in DOMAIN chat /\ all[k] \in ns \cup {n}
      BY <1>7, <1>9, <2>2
    <3>2. chat[all[k]].ts < chat[n].ts - WindowSpan /\ chat[all[k]].ts \in Nat
      <4> DEFINE t == chat[all[k]].ts
                 u2 == chat[n].ts - WindowSpan
      <4>1. t \in Nat /\ u2 \in Int
        BY <1>1, <2>3, <3>1
      <4>2. ~(t >= u2)
        BY <1>9 DEF Ts
      <4> HIDE DEF t, u2
      <4>3. t < u2 /\ t \in Nat
        BY ONLY <4>1, <4>2
      <4> QED
        BY ONLY <4>3 DEF t, u2
    <3>3. chat[gone].ts <= chat[all[k]].ts
      <4>1. gone \in Nat /\ all[k] \in Nat
        BY <1>1, <2>3, <3>1
      <4> QED
        BY <1>17, <2>4, <3>1, <3>2, <2>3, <4>1
    <3> QED
      BY <1>1, <2>3, <3>2, <3>3
  <2>5. CASE gone \in Range(all)
    <3>1. PICK k \in 1 .. f - 1 : gone = all[k]
      BY <1>13, <2>5
    <3>2. gone <= all[k]
      BY <1>1, <2>3, <3>1
    <3> QED
      BY <2>4, <3>2
  <2>6. CASE gone \notin Range(all)
    <3>1. CASE f > 1
      <4>1. 1 \in 1 .. f - 1 /\ 1 \in 1 .. Len(all)
        BY <1>7, <1>9, <3>1
      <4>2. gone < all[1]
        BY <1>7, <1>8, <2>6, <4>1 DEF Latest
      <4>3. gone <= all[1]
        BY <1>1, <2>2, <2>3, <4>1, <4>2
      <4> QED
        BY <2>4, <4>1, <4>3
    <3>2. CASE f = 1
      <4>1. Len(all) < WindowSize
        BY <1>12, <1>17, <3>2, <1>7
      <4>2. d = 0 /\ Len(w) < WindowSize
        BY <1>1, <1>3, <1>4, <1>5, <1>7, <4>1
      <4>3. gone \notin Range(a)
        BY <1>8, <2>6, <4>2
      <4>4. gone \in ns \ Range(w)
        BY <1>3, <4>3
      <4>5. chat[gone].ts < chat[Last(w)].ts - WindowSpan
        BY <1>17, <4>2, <4>4 DEF Recent
      <4>6. Last(w) \in ns
        <5>1. w # <<>>
          BY <1>2, <4>4 DEF Latest
        <5>2. Len(w) \in 1 .. Len(w)
          BY <1>4, <5>1, RangeOf
        <5> QED
          BY <1>4, <5>2 DEF Last
      <4>7. chat[Last(w)].ts <= chat[n].ts /\ chat[Last(w)].ts \in Nat
        BY <1>1, <1>17, <4>6
      <4> DEFINE t == chat[gone].ts
                 late == chat[n].ts
                 last == chat[Last(w)].ts
      <4>8. t \in Nat /\ late \in Nat /\ last \in Nat /\ WindowSpan \in Nat
        BY <1>1, <2>3, <4>7
      <4>9. t < last - WindowSpan /\ last <= late
        BY <4>5, <4>7
      <4> HIDE DEF t, late, last
      <4>10. t < late - WindowSpan
        BY ONLY <4>8, <4>9
      <4> QED
        BY ONLY <4>10 DEF t, late
    <3> QED
      BY <1>7, <1>9, <3>1, <3>2
  <2> QED
    BY <2>5, <2>6
<1>18. Recent(chat, u, ns \cup {n})
  BY <1>13, <1>15, <1>16, <1>17 DEF Recent
<1>19. Trimmed(w, n) = u
  BY DEF Trimmed, a, all, fresh, f, u
<1> QED
  BY <1>12, <1>13, <1>14, <1>18, <1>19
-----------------------------------------------------------------------------
(* THE CONTEXT OF AN UPDATE *)

Calling == {"inferring", "extracting"}

IsAgent(a) ==
    /\ a = [window |-> a.window, count |-> a.count, failures |-> a.failures,
            speakers |-> a.speakers]
    /\ a.window \in Seq(Numbers)

(* Where a call is, whose it is, and what the agents are. *)
Places ==
    /\ chat \in Seq(Messages) /\ pc \in {"starting", "idle"} \cup Calling
    /\ agents \in Seq(Range(agents)) /\ \A i \in DOMAIN agents : IsAgent(agents[i])
    /\ Len(agents) > 0 /\ served \in Seq(DOMAIN agents) /\ Len(served) <= Len(chat)
    /\ pc = "starting" => served = <<>>
    /\ pc \in Calling => Len(served) > 0

(* An answer is there between two calls only. *)
CInv ==
    /\ Places /\ ContextIsHonest
    /\ answer # Nothing => pc = "idle" /\ Len(served) > 0

LEMMA ServedFacts ==
  ASSUME Places
  PROVE  /\ Now \in Nat /\ DOMAIN served = 1 .. Now /\ DOMAIN chat = 1 .. Len(chat)
         /\ Len(chat) \in Nat /\ DOMAIN served \subseteq DOMAIN chat
         /\ DOMAIN agents = 1 .. Len(agents) /\ Len(agents) \in Nat /\ Len(agents) \in DOMAIN agents
         /\ \A n \in DOMAIN served : served[n] \in DOMAIN agents /\ n \in Numbers
         /\ \A n \in DOMAIN chat : chat[n] \in Messages
<1>1. /\ chat \in Seq(Messages) /\ agents \in Seq(Range(agents)) /\ served \in Seq(DOMAIN agents)
      /\ Len(agents) > 0 /\ Len(served) <= Len(chat)
  BY DEF Places
<1>2. /\ Len(served) \in Nat /\ DOMAIN served = 1 .. Len(served)
      /\ DOMAIN chat = 1 .. Len(chat) /\ Len(chat) \in Nat
      /\ DOMAIN agents = 1 .. Len(agents) /\ Len(agents) \in Nat
  BY ONLY <1>1, LenProperties
<1>3. /\ \A n \in 1 .. Len(served) : served[n] \in DOMAIN agents
      /\ \A n \in 1 .. Len(chat) : chat[n] \in Messages
  BY ONLY <1>1, ElementOfSeq
<1> QED
  BY <1>1, <1>2, <1>3 DEF Now, Numbers

LEMMA RecentNext ==
  \A i : /\ Joined(i)' = JoinedIn(served', pc', i)
         /\ WindowIsRecent(i)' <=> Recent(chat', agents'[i].window, JoinedIn(served', pc', i))
BY DEF Joined, JoinedIn, Now, WindowIsRecent, Recent, InOrder, Ts

(* Nothing has joined the window of a new agent, whatever the channel brings. *)
LEMMA EmptyIsRecent ==
  ASSUME NEW c, NEW w \in Seq(Numbers), Latest(w, {})
  PROVE  w = <<>> /\ Recent(c, w, {})
<1>1. w = <<>>
  BY RangeOf DEF Latest
<1>2. Len(w) = 0 /\ WindowSize \in Nat
  BY <1>1, AgentAssumption
<1> QED
  BY <1>1, <1>2 DEF Recent

(* A step that appends to no window, but may replace what else agents hold. *)
LEMMA WindowsKept ==
  ASSUME \A i \in DOMAIN agents : WindowIsRecent(i), chat' = chat, DOMAIN agents' = DOMAIN agents,
         \A i \in DOMAIN agents : /\ agents'[i].window = agents[i].window
                                  /\ JoinedIn(served', pc', i) = JoinedIn(served, pc, i)
  PROVE  \A i \in DOMAIN agents' : WindowIsRecent(i)'
BY RecentAs, RecentNext

LEMMA IsSeqOf ==
  ASSUME NEW n \in Nat, NEW S, NEW f \in [1 .. n -> S]
  PROVE  f \in Seq(Range(f)) /\ Len(f) = n
<1>1. f \in [1 .. n -> Range(f)]
  BY DEF Range
<1> QED
  BY <1>1

LEMMA Replaced ==
  ASSUME Places, NEW i \in DOMAIN agents, NEW b, IsAgent(b),
         agents' = [agents EXCEPT ![i] = b]
  PROVE  /\ DOMAIN agents' = DOMAIN agents /\ Len(agents') = Len(agents)
         /\ agents' \in Seq(Range(agents')) /\ agents'[i] = b
         /\ \A j \in DOMAIN agents : j # i => agents'[j] = agents[j]
         /\ \A j \in DOMAIN agents' : IsAgent(agents'[j])
<1>1. DOMAIN agents = 1 .. Len(agents) /\ Len(agents) \in Nat
  BY ServedFacts
<1>2. /\ agents \in Seq(Range(agents)) /\ \A j \in DOMAIN agents : IsAgent(agents[j])
  BY DEF Places
<1>3. DOMAIN agents' = DOMAIN agents /\ agents'[i] = b
      /\ \A j \in DOMAIN agents : j # i => agents'[j] = agents[j]
  BY <1>1, <1>2
<1>4. agents' \in Seq(Range(agents')) /\ Len(agents') = Len(agents)
  <2>1. agents' \in [1 .. Len(agents) -> Range(agents) \cup {b}]
    BY <1>1, <1>2
  <2> QED
    BY <1>1, <2>1, IsSeqOf
<1> QED
  BY <1>2, <1>3, <1>4

LEMMA Added ==
  ASSUME Places, NEW b, IsAgent(b), agents' = Append(agents, b)
  PROVE  /\ DOMAIN agents' = 1 .. Len(agents) + 1 /\ Len(agents') = Len(agents) + 1
         /\ agents' \in Seq(Range(agents')) /\ agents'[Len(agents) + 1] = b
         /\ \A j \in DOMAIN agents : agents'[j] = agents[j]
         /\ \A j \in DOMAIN agents' : IsAgent(agents'[j])
<1>1. DOMAIN agents = 1 .. Len(agents) /\ Len(agents) \in Nat
  BY ServedFacts
<1>2. /\ agents \in Seq(Range(agents)) /\ \A j \in DOMAIN agents : IsAgent(agents[j])
  BY DEF Places
<1> DEFINE S == Range(agents) \cup {b}
<1>3. agents \in Seq(S) /\ b \in S
  BY <1>2
<1> HIDE DEF S
<1>4. /\ agents' \in Seq(S) /\ Len(agents') = Len(agents) + 1
      /\ \A i \in 1 .. Len(agents) : agents'[i] = agents[i]
      /\ agents'[Len(agents) + 1] = b
  BY <1>3, AppendProperties
<1>5. DOMAIN agents' = 1 .. Len(agents) + 1
  BY <1>4, LenProperties
<1>6. agents' \in Seq(Range(agents'))
  <2>1. agents' \in [1 .. Len(agents) + 1 -> S] /\ Len(agents) + 1 \in Nat
    BY <1>1, <1>4, LenProperties
  <2> QED
    BY <2>1, IsSeqOf
<1>7. \A j \in DOMAIN agents' : IsAgent(agents'[j])
  <2> TAKE j \in DOMAIN agents'
  <2>1. j \in DOMAIN agents \/ j = Len(agents) + 1
    BY <1>1, <1>5
  <2> QED
    BY <1>1, <1>2, <1>4, <2>1
<1> QED
  BY <1>1, <1>4, <1>5, <1>6, <1>7

(* The messages that have joined came before the one that is to be read, or is  *)
(* about to join.                                                               *)
LEMMA JoinedFacts ==
  ASSUME Places
  PROVE  \A i : /\ JoinedIn(served, pc, i) \subseteq DOMAIN served
                /\ pc = "inferring" => Now \notin JoinedIn(served, pc, i)
BY DEF JoinedIn, Now

(* A message joins the window of an agent; then it ends, or is extracted. *)
LEMMA AdmittedKeeps ==
  ASSUME Places, \A j \in DOMAIN agents : WindowIsRecent(j), chat' = chat,
         NEW i \in DOMAIN agents, NEW n \in DOMAIN chat, NEW a, IsAgent(a),
         a.window = agents[i].window, Admitted(a, i, n),
         Len(served') = n, served'[n] = i, \A m \in JoinedIn(served, pc, i) : m < n,
         \A j \in DOMAIN agents : JoinedIn(served', "idle", j) =
            IF j = i THEN JoinedIn(served, pc, j) \cup {n} ELSE JoinedIn(served, pc, j)
  PROVE  /\ \A j \in DOMAIN agents' : WindowIsRecent(j)'
         /\ pc' \in {"idle", "extracting"} /\ agents' \in Seq(Range(agents'))
         /\ DOMAIN agents' = DOMAIN agents /\ Len(agents') = Len(agents)
         /\ \A j \in DOMAIN agents' : IsAgent(agents'[j])
         /\ pc' = "extracting" => Last(prompt'.lines) = n /\ prompt'.lines = agents'[i].window
<1> DEFINE w == Trimmed(a.window, n)
           b == [a EXCEPT !.window = Trimmed(@, n)]
<1>1. /\ agents' = [agents EXCEPT ![i] = b]
      /\ pc' = "idle" \/ (pc' = "extracting" /\ prompt' = PromptOf(b))
  BY DEF Admitted, Idles, Asks
<1>2. Recent(chat, a.window, JoinedIn(served, pc, i)) /\ a.window \in Seq(Numbers)
  BY RecentAs DEF IsAgent
<1>3. JoinedIn(served, pc, i) \subseteq DOMAIN chat
  BY JoinedFacts, ServedFacts
<1>4. chat \in Seq(Messages)
  BY DEF Places
<1>5. /\ Recent(chat, w, JoinedIn(served, pc, i) \cup {n})
      /\ w \in Seq(Numbers) /\ w # <<>> /\ Last(w) = n
  <2> DEFINE v == a.window
             ns == JoinedIn(served, pc, i)
  <2>1. v \in Seq(Numbers) /\ ns \subseteq DOMAIN chat /\ Recent(chat, v, ns) /\ \A m \in ns : m < n
    BY <1>2, <1>3
  <2> HIDE DEF v, ns
  <2>2. /\ Recent(chat, Trimmed(v, n), ns \cup {n})
        /\ Trimmed(v, n) \in Seq(Numbers) /\ Trimmed(v, n) # <<>> /\ Last(Trimmed(v, n)) = n
    BY <1>4, <2>1, TrimmedIsRecent
  <2> QED
    BY <2>2 DEF v, ns
<1>6. b.window = w /\ IsAgent(b)
  <2>1. a = [window |-> a.window, count |-> a.count, failures |-> a.failures,
             speakers |-> a.speakers]
    BY DEF IsAgent
  <2> HIDE DEF w
  <2>2. b = [window |-> w, count |-> a.count, failures |-> a.failures, speakers |-> a.speakers]
    BY <2>1 DEF w
  <2> HIDE DEF b
  <2> QED
    BY <1>5, <2>2 DEF IsAgent
<1> HIDE DEF w, b
<1>7. /\ DOMAIN agents' = DOMAIN agents /\ Len(agents') = Len(agents)
      /\ agents' \in Seq(Range(agents')) /\ agents'[i] = b
      /\ \A j \in DOMAIN agents : j # i => agents'[j] = agents[j]
      /\ \A j \in DOMAIN agents' : IsAgent(agents'[j])
  BY <1>1, <1>6, Replaced
<1>8. \A j : JoinedIn(served', pc', j) = JoinedIn(served', "idle", j)
  BY <1>1 DEF JoinedIn
<1>9. ASSUME NEW j \in DOMAIN agents' PROVE WindowIsRecent(j)'
  <2>1. CASE j = i
    BY <1>5, <1>6, <1>7, <1>8, <2>1, RecentNext
  <2>2. CASE j # i
    BY <1>7, <1>8, <2>2, RecentAs, RecentNext
  <2> QED
    BY <2>1, <2>2
<1>10. prompt' = PromptOf(b) => prompt'.lines = b.window
  BY DEF PromptOf
<1> QED
  BY <1>1, <1>5, <1>6, <1>7, <1>9, <1>10

LEMMA RegexFinds ==
  \A lines, says : \A e \in RegexExtract(lines, says).entities : e.message \in Range(lines)
<1> TAKE lines, says
<1> TAKE e \in RegexExtract(lines, says).entities
<1>1. RegexExtract(lines, says).entities =
         UNION {{[found |-> x, message |-> n] : n \in Found(x, lines, says)} : x \in Range(Extractors)}
  BY DEF RegexExtract
<1>2. PICK x \in Range(Extractors) :
         e \in {[found |-> x, message |-> n] : n \in Found(x, lines, says)}
  BY <1>1
<1>3. PICK n \in Found(x, lines, says) : e = [found |-> x, message |-> n]
  BY <1>2
<1> QED
  BY <1>3 DEF Found

(* Whatever the model or the fallback found, it was in the prompt. *)
LEMMA ExtractedFromPrompt ==
  ASSUME Places, ContextIsHonest, pc = "extracting", NEW r,
         r = OfRegex \/ \E a : r = Cascade(a)
  PROVE  \A e \in r.entities : e.message \in Range(agents[Hand].window)
<1>1. prompt.lines = agents[Hand].window /\ Last(prompt.lines) = Now
  BY DEF ContextIsHonest
<1>2. Hand \in DOMAIN agents /\ agents[Hand].window \in Seq(Numbers)
  <2>1. Now \in DOMAIN served
    BY ServedFacts DEF Places, Now, Calling
  <2> QED
    BY <2>1, ServedFacts DEF Places, IsAgent, Hand
<1>3. \A e \in OfRegex.entities : e.message \in Range(prompt.lines)
  BY RegexFinds DEF OfRegex
<1>4. CASE r = OfRegex
  BY <1>1, <1>3, <1>4
<1>5. ASSUME NEW a, r = Cascade(a), r # OfRegex
      PROVE  \A e \in r.entities : e.message \in Range(agents[Hand].window)
  <2>1. r = OfModel(a)
    BY <1>5 DEF Cascade
  <2>2. \A e \in r.entities : e.message = Now
    BY <2>1 DEF OfModel
  <2>3. Hand \in DOMAIN agents /\ WindowIsRecent(Hand)
    BY <1>2 DEF ContextIsHonest
  <2>4. Now \in JoinedIn(served, pc, Hand)
    BY ServedFacts DEF Places, Now, Calling, JoinedIn, Hand
  <2>5. agents[Hand].window # <<>>
    BY <2>3, <2>4, RecentAs DEF Recent, Latest
  <2>6. Last(agents[Hand].window) \in Range(agents[Hand].window)
    BY <1>2, <2>5, RangeOf DEF Last
  <2> QED
    BY <1>1, <2>2, <2>6
<1> QED
  BY <1>4, <1>5

(* What an update gives as its origin. *)
LEMMA OriginIsHonest ==
  ASSUME Places, ContextIsHonest, pc = "extracting"
  PROVE  /\ Last(LastOf(agents[Hand].window, ContextLength)) = Now
         /\ Latest(LastOf(agents[Hand].window, ContextLength), JoinedIn(served, pc, Hand))
<1> DEFINE w == agents[Hand].window
           u == LastOf(w, ContextLength)
           ns == JoinedIn(served, pc, Hand)
<1>1. Now \in DOMAIN served /\ Hand \in DOMAIN agents
  BY ServedFacts DEF Places, Now, Calling, Hand
<1>2. w \in Seq(Numbers) /\ Latest(w, ns) /\ Last(w) = Now /\ w # <<>>
  <2>1. w \in Seq(Numbers)
    BY <1>1 DEF Places, IsAgent
  <2>2. Latest(w, ns)
    BY <1>1, RecentAs DEF ContextIsHonest, Recent
  <2>3. Now \in ns
    BY <1>1 DEF JoinedIn, Now, Hand
  <2>4. Last(w) = Now
    BY DEF ContextIsHonest
  <2> HIDE DEF w, ns
  <2> QED
    BY <2>1, <2>2, <2>3, <2>4 DEF Latest
<1> HIDE DEF w, u, ns
<1>3. ContextLength \in Numbers /\ ContextLength > 0 /\ ContextLength \in Nat
  BY AgentAssumption DEF Numbers
<1>4. Len(w) \in Nat /\ Len(w) > 0
  BY <1>2, RangeOf
<1>5. PICK d \in 0 .. Len(w) :
         Behind(u, w, d) /\ d = IF Len(w) > ContextLength THEN Len(w) - ContextLength ELSE 0
  BY <1>2, <1>3, LastOfBehind DEF u
<1>6. Len(u) > 0
  <2>1. Len(u) = Len(w) - d
    BY <1>5 DEF Behind
  <2> QED
    BY <1>3, <1>4, <1>5, <2>1
<1>7. Latest(u, ns) /\ Last(u) = Last(w)
  BY <1>2, <1>5, <1>6, SuffixIsLatest
<1> QED
  BY <1>2, <1>7 DEF w, u, ns
LEMMA InitCInv == Init => CInv
<1> SUFFICES ASSUME Init PROVE CInv
  OBVIOUS
<1>1. /\ chat = <<>> /\ agents = <<NewAgent>> /\ served = <<>> /\ pc = "starting"
      /\ answer = Nothing
  BY DEF Init
<1>2. /\ chat \in Seq(Messages) /\ Len(chat) = 0 /\ served \in Seq(DOMAIN agents)
      /\ Len(served) = 0 /\ DOMAIN served = {}
  BY <1>1
<1>3. IsAgent(NewAgent) /\ NewAgent.window = <<>>
  BY DEF IsAgent, NewAgent, Numbers
<1>4. /\ Len(agents) = 1 /\ DOMAIN agents = {1} /\ agents[1] = NewAgent
      /\ agents \in Seq({NewAgent}) /\ Range(agents) = {NewAgent}
  <2> HIDE DEF NewAgent
  <2> QED
    BY <1>1 DEF Range
<1>5. Places
  BY <1>1, <1>2, <1>3, <1>4 DEF Places, Calling
<1>6. ASSUME NEW i \in DOMAIN agents PROVE WindowIsRecent(i)
  <2>1. JoinedIn(served, pc, i) = {}
    BY <1>2 DEF JoinedIn
  <2>2. agents[i].window = <<>> /\ agents[i].window \in Seq(Numbers)
    <3>1. agents[i] = NewAgent
      BY <1>4
    <3> QED
      BY <1>3, <3>1 DEF IsAgent
  <2>3. Latest(agents[i].window, {})
    BY <2>2, NothingYet
  <2> QED
    BY <2>1, <2>2, <2>3, EmptyIsRecent, RecentAs
<1> QED
  BY <1>1, <1>5, <1>6 DEF CInv, ContextIsHonest

LEMMA LoadCInv == CInv /\ Load => CInv'
<1> SUFFICES ASSUME CInv, Load PROVE CInv'
  OBVIOUS
<1>1. /\ pc = "starting" /\ pc' = "idle" /\ chat' \in Chats /\ agents' = agents
      /\ served' = served /\ answer' = answer
  BY DEF Load, learned
<1>2. served = <<>> /\ answer = Nothing /\ Places
  BY <1>1 DEF CInv, Places
<1>3. Len(served) = 0 /\ DOMAIN served = {}
  BY <1>2
<1>4. chat' \in Seq(Messages) /\ Len(chat') \in Nat
  <2>1. chat' \in Seq(Messages)
    BY <1>1, AgentAssumption
  <2> QED
    BY <2>1, LenProperties
<1>5. Places'
  BY <1>1, <1>2, <1>3, <1>4 DEF Places, Calling, IsAgent
<1>6. ASSUME NEW i \in DOMAIN agents' PROVE WindowIsRecent(i)'
  <2>1. JoinedIn(served, pc, i) = {} /\ JoinedIn(served', pc', i) = {}
    BY <1>1, <1>3 DEF JoinedIn
  <2>2. Latest(agents[i].window, {}) /\ agents[i].window \in Seq(Numbers)
    BY <1>1, <1>2, <2>1, RecentAs DEF CInv, ContextIsHonest, Recent, Places, IsAgent
  <2>3. Recent(chat', agents[i].window, {})
    BY <2>2, EmptyIsRecent
  <2> QED
    BY <1>1, <2>1, <2>3, RecentNext
<1> QED
  BY <1>1, <1>2, <1>5, <1>6 DEF CInv, ContextIsHonest

LEMMA HearingKeeps ==
  ASSUME NEW a, IsAgent(a), NEW n
  PROVE  IsAgent(Hearing(a, n)) /\ Hearing(a, n).window = a.window
<1>1. a = [window |-> a.window, count |-> a.count, failures |-> a.failures,
           speakers |-> a.speakers]
  BY DEF IsAgent
<1>2. PICK known : Hearing(a, n) = [a EXCEPT !.count = @ + 1, !.speakers = known]
  BY DEF Hearing
<1>3. Hearing(a, n) = [window |-> a.window, count |-> a.count + 1, failures |-> a.failures,
                       speakers |-> known]
  BY <1>1, <1>2
<1> QED
  BY <1>3 DEF IsAgent

(* The next message: it joins the window now or after an inference. *)
LEMMA NextMessage ==
  ASSUME Places, pc = "idle", Now < Len(chat), served' = Append(served, Len(agents))
  PROVE  /\ Now + 1 \in DOMAIN chat /\ Len(served') = Now + 1 /\ served'[Now + 1] = Len(agents)
         /\ served' \in Seq(DOMAIN agents) /\ Len(served') <= Len(chat) /\ DOMAIN served' = 1 .. Now + 1
         /\ \A n \in DOMAIN served : served'[n] = served[n]
         /\ \A j : JoinedIn(served', "inferring", j) = JoinedIn(served, pc, j)
         /\ \A j \in DOMAIN agents : JoinedIn(served', "idle", j) =
               IF j = Len(agents) THEN JoinedIn(served, pc, j) \cup {Now + 1}
               ELSE JoinedIn(served, pc, j)
         /\ \A m \in JoinedIn(served, pc, Len(agents)) : m < Now + 1
<1>1. /\ Now \in Nat /\ DOMAIN served = 1 .. Now /\ DOMAIN chat = 1 .. Len(chat)
      /\ Len(chat) \in Nat /\ Len(agents) \in DOMAIN agents
  BY ServedFacts
<1>2. /\ served' \in Seq(DOMAIN agents) /\ Len(served') = Now + 1
      /\ served'[Now + 1] = Len(agents) /\ \A n \in 1 .. Now : served'[n] = served[n]
  BY <1>1, AppendProperties DEF Places, Now
<1>3. DOMAIN served' = 1 .. Now + 1
  BY <1>2, LenProperties
<1>4. \A n : n \in DOMAIN served' <=> n \in DOMAIN served \/ n = Now + 1
  BY <1>1, <1>3
<1>5. ASSUME NEW j PROVE JoinedIn(served', "inferring", j) = JoinedIn(served, pc, j)
  <2>1. JoinedIn(served, pc, j) = {n \in DOMAIN served : served[n] = j}
    BY DEF JoinedIn
  <2>2. JoinedIn(served', "inferring", j) = {n \in DOMAIN served' : served'[n] = j /\ n # Now + 1}
    BY <1>2 DEF JoinedIn
  <2>3. Now + 1 \notin DOMAIN served
    BY <1>1
  <2> QED
    BY <1>1, <1>2, <1>4, <2>1, <2>2, <2>3
<1>6. ASSUME NEW j \in DOMAIN agents
      PROVE  JoinedIn(served', "idle", j) = IF j = Len(agents) THEN JoinedIn(served, pc, j) \cup {Now + 1}
                                            ELSE JoinedIn(served, pc, j)
  <2>1. JoinedIn(served, pc, j) = {n \in DOMAIN served : served[n] = j}
    BY DEF JoinedIn
  <2>2. JoinedIn(served', "idle", j) = {n \in DOMAIN served' : served'[n] = j}
    BY DEF JoinedIn
  <2>3. CASE j = Len(agents)
    BY <1>1, <1>2, <1>4, <2>1, <2>2, <2>3
  <2>4. CASE j # Len(agents)
    BY <1>1, <1>2, <1>4, <2>1, <2>2, <2>4
  <2> QED
    BY <2>3, <2>4
<1>7. \A m \in JoinedIn(served, pc, Len(agents)) : m < Now + 1
  BY <1>1 DEF JoinedIn
<1> QED
  BY <1>1, <1>2, <1>3, <1>5, <1>6, <1>7

LEMMA ReceiveCInv == CInv /\ Receive => CInv'
<1> SUFFICES ASSUME CInv, Receive PROVE CInv'
  OBVIOUS
<1> DEFINE n == Now + 1
           i == Len(agents)
           a == Hearing(agents[i], n)
<1>1. /\ pc = "idle" /\ Now < Len(chat) /\ served' = Append(served, i) /\ answer' = Nothing
      /\ chat' = chat /\ Places
      /\ \/ agents' = [agents EXCEPT ![i] = a] /\ pc' = "inferring"
         \/ Admitted(a, i, n)
  BY DEF Receive, CInv, config, Asks
<1>2. /\ n \in DOMAIN chat /\ Len(served') = n /\ served'[n] = i
      /\ served' \in Seq(DOMAIN agents) /\ Len(served') <= Len(chat)
      /\ \A j : JoinedIn(served', "inferring", j) = JoinedIn(served, pc, j)
      /\ \A j \in DOMAIN agents : JoinedIn(served', "idle", j) =
            IF j = i THEN JoinedIn(served, pc, j) \cup {n} ELSE JoinedIn(served, pc, j)
      /\ \A m \in JoinedIn(served, pc, i) : m < n
  BY <1>1, NextMessage
<1>3. i \in DOMAIN agents /\ IsAgent(agents[i]) /\ Now \in Nat /\ n > 0
  BY <1>1, ServedFacts DEF Places
<1>4. IsAgent(a) /\ a.window = agents[i].window
  BY <1>3, HearingKeeps
<1>5. \A j \in DOMAIN agents : WindowIsRecent(j)
  BY DEF CInv, ContextIsHonest
<1>6. chat \in Seq(Messages) /\ i > 0
  BY <1>1 DEF Places
<1> HIDE DEF a, n, i
<1>7. CASE agents' = [agents EXCEPT ![i] = a] /\ pc' = "inferring"
  <2>1. /\ DOMAIN agents' = DOMAIN agents /\ Len(agents') = Len(agents)
        /\ agents' \in Seq(Range(agents')) /\ agents'[i] = a
        /\ \A j \in DOMAIN agents : j # i => agents'[j] = agents[j]
        /\ \A j \in DOMAIN agents' : IsAgent(agents'[j])
    BY <1>1, <1>3, <1>4, <1>7, Replaced
  <2>2. \A j \in DOMAIN agents : agents'[j].window = agents[j].window
    BY <1>4, <2>1
  <2>3. \A j \in DOMAIN agents' : WindowIsRecent(j)'
    BY <1>1, <1>2, <1>5, <1>7, <2>1, <2>2, WindowsKept
  <2>4. Places'
    BY <1>1, <1>2, <1>3, <1>6, <1>7, <2>1 DEF Places, Calling, i
  <2> QED
    BY <1>1, <1>7, <2>3, <2>4 DEF CInv, ContextIsHonest
<1>8. CASE Admitted(a, i, n)
  <2>1. /\ \A j \in DOMAIN agents' : WindowIsRecent(j)'
        /\ pc' \in {"idle", "extracting"} /\ agents' \in Seq(Range(agents'))
        /\ DOMAIN agents' = DOMAIN agents /\ Len(agents') = Len(agents)
        /\ \A j \in DOMAIN agents' : IsAgent(agents'[j])
        /\ pc' = "extracting" => Last(prompt'.lines) = n /\ prompt'.lines = agents'[i].window
    BY <1>1, <1>2, <1>3, <1>4, <1>5, <1>8, AdmittedKeeps
  <2>2. Places'
    BY <1>1, <1>2, <1>3, <1>6, <2>1 DEF Places, Calling, i
  <2>3. Now' = n /\ Hand' = i
    BY <1>2 DEF Now, Hand
  <2> QED
    BY <1>1, <2>1, <2>2, <2>3 DEF CInv, ContextIsHonest
<1> QED
  BY <1>1, <1>7, <1>8

LEMMA UnchangedCInv ==
  ASSUME CInv, UNCHANGED <<chat, agents, served, pc, prompt, answer>>
  PROVE  CInv'
<1>1. Places'
  BY DEF CInv, Places, IsAgent
<1>2. \A i \in DOMAIN agents' : WindowIsRecent(i)'
  BY RecentAs, RecentNext DEF CInv, ContextIsHonest
<1>3. /\ Now' = Now /\ Hand' = Hand /\ \A i : Joined(i)' = Joined(i)
  BY DEF Now, Hand, Joined
<1> QED
  BY <1>1, <1>2, <1>3 DEF CInv, ContextIsHonest

(* The call in hand after an inference, for the message that was held back. *)
LEMMA AfterInference ==
  ASSUME CInv, pc = "inferring", UNCHANGED <<chat, served, answer>>, NEW a, IsAgent(a),
         a.window = agents[Hand].window, Admitted(a, Hand, Now)
  PROVE  CInv'
<1>1. /\ Places /\ \A j \in DOMAIN agents : WindowIsRecent(j) /\ answer = Nothing
  BY DEF CInv, ContextIsHonest
<1>2. /\ Now \in Nat /\ DOMAIN served = 1 .. Now /\ Now > 0 /\ Now \in DOMAIN served
      /\ Now \in DOMAIN chat /\ Hand \in DOMAIN agents
  <2>1. Now > 0
    BY <1>1 DEF Places, Now, Calling
  <2> QED
    BY <1>1, <2>1, ServedFacts DEF Hand
<1>3. Len(served') = Now /\ served'[Now] = Hand
  BY DEF Now, Hand
<1>4. ASSUME NEW j
      PROVE  JoinedIn(served', "idle", j) =
                IF j = Hand THEN JoinedIn(served, pc, j) \cup {Now} ELSE JoinedIn(served, pc, j)
  <2>1. JoinedIn(served, pc, j) = {n \in DOMAIN served : served[n] = j /\ n # Now}
    BY DEF JoinedIn, Now
  <2>2. JoinedIn(served', "idle", j) = {n \in DOMAIN served : served[n] = j}
    BY DEF JoinedIn
  <2>3. CASE j = Hand
    BY <1>2, <2>1, <2>2, <2>3 DEF Hand
  <2>4. CASE j # Hand
    BY <1>2, <2>1, <2>2, <2>4 DEF Hand
  <2> QED
    BY <2>3, <2>4
<1>5. \A m \in JoinedIn(served, pc, Hand) : m < Now
  BY <1>2 DEF JoinedIn, Now
<1>6. /\ \A j \in DOMAIN agents' : WindowIsRecent(j)'
      /\ pc' \in {"idle", "extracting"} /\ agents' \in Seq(Range(agents'))
      /\ DOMAIN agents' = DOMAIN agents /\ Len(agents') = Len(agents)
      /\ \A j \in DOMAIN agents' : IsAgent(agents'[j])
      /\ pc' = "extracting" => Last(prompt'.lines) = Now /\ prompt'.lines = agents'[Hand].window
  <2> DEFINE i == Hand
             n == Now
  <2>1. /\ i \in DOMAIN agents /\ n \in DOMAIN chat /\ a.window = agents[i].window /\ Admitted(a, i, n)
        /\ Len(served') = n /\ served'[n] = i /\ \A m \in JoinedIn(served, pc, i) : m < n
        /\ \A j \in DOMAIN agents : JoinedIn(served', "idle", j) =
              IF j = i THEN JoinedIn(served, pc, j) \cup {n} ELSE JoinedIn(served, pc, j)
    BY <1>2, <1>3, <1>4, <1>5
  <2> HIDE DEF i, n
  <2>2. /\ \A j \in DOMAIN agents' : WindowIsRecent(j)'
        /\ pc' \in {"idle", "extracting"} /\ agents' \in Seq(Range(agents'))
        /\ DOMAIN agents' = DOMAIN agents /\ Len(agents') = Len(agents)
        /\ \A j \in DOMAIN agents' : IsAgent(agents'[j])
        /\ pc' = "extracting" => Last(prompt'.lines) = n /\ prompt'.lines = agents'[i].window
    BY <1>1, <2>1, AdmittedKeeps
  <2> QED
    BY <2>2 DEF i, n
<1>7. Places'
  BY <1>1, <1>2, <1>6 DEF Places, Calling, Now
<1>8. Now' = Now /\ Hand' = Hand
  BY DEF Now, Hand
<1> QED
  BY <1>1, <1>6, <1>7, <1>8 DEF CInv, ContextIsHonest

LEMMA CalledKeeps ==
  ASSUME Places, Hand \in DOMAIN agents, NEW ending, NEW known
  PROVE  /\ IsAgent(Called(ending)) /\ Called(ending).window = agents[Hand].window
         /\ IsAgent([Called(ending) EXCEPT !.speakers = known])
         /\ [Called(ending) EXCEPT !.speakers = known].window = agents[Hand].window
         /\ Called(ending).speakers = agents[Hand].speakers
<1> DEFINE a == agents[Hand]
           b == Called(ending)
           c == [b EXCEPT !.speakers = known]
           k == FailuresAfter(a.failures, ending)
<1>1. /\ a = [window |-> a.window, count |-> a.count, failures |-> a.failures,
              speakers |-> a.speakers]
      /\ a.window \in Seq(Numbers)
  BY DEF Places, IsAgent
<1>2. b = [a EXCEPT !.failures = k]
  BY DEF Called
<1> HIDE DEF a, b, k
<1>3. b = [window |-> a.window, count |-> a.count, failures |-> k, speakers |-> a.speakers]
  BY <1>1, <1>2
<1>4. c = [window |-> a.window, count |-> a.count, failures |-> k, speakers |-> known]
  BY <1>3
<1> HIDE DEF c
<1>5. IsAgent(b) /\ IsAgent(c) /\ b.window = a.window /\ c.window = a.window /\ b.speakers = a.speakers
  BY <1>1, <1>3, <1>4 DEF IsAgent
<1> QED
  BY <1>5 DEF a, b, c
LEMMA InferCInv ==
  ASSUME CInv, NEW ending, Infer(ending)
  PROVE  CInv'
<1>1. /\ pc = "inferring" /\ UNCHANGED <<chat, served, answer>> /\ Places
  BY DEF Infer, config, CInv
<1>2. Hand \in DOMAIN agents
  BY <1>1, ServedFacts DEF Places, Calling, Now, Hand
<1>3. CASE Admitted(Called(ending), Hand, Now)
  BY <1>1, <1>2, <1>3, CalledKeeps, AfterInference
<1>4. ASSUME NEW r, Admitted([Called(ending) EXCEPT !.speakers[chat[Now].sender] = Learned(@, r)],
                             Hand, Now)
      PROVE  CInv'
  <2> DEFINE known == [Called(ending).speakers EXCEPT ![chat[Now].sender] = Learned(@, r)]
             a     == [Called(ending) EXCEPT !.speakers = known]
  <2>1. [Called(ending) EXCEPT !.speakers[chat[Now].sender] = Learned(@, r)] = a
    OBVIOUS
  <2>2. IsAgent(a) /\ a.window = agents[Hand].window
    <3> HIDE DEF known
    <3> QED
      BY <1>1, <1>2, CalledKeeps
  <2> HIDE DEF a
  <2> QED
    BY <1>1, <1>4, <2>1, <2>2, AfterInference
<1> QED
  BY <1>3, <1>4 DEF Infer

(* What is returned names as its origin what was joined last. *)
LEMMA ReturnKeeps ==
  ASSUME CInv, pc = "extracting", UNCHANGED <<chat, served>>, NEW r, Return(r),
         r = OfRegex \/ \E a : r = Cascade(a), NEW b, IsAgent(b), b.window = agents[Hand].window,
         agents' = [agents EXCEPT ![Hand] = b]
  PROVE  CInv'
<1>1. /\ Places /\ ContextIsHonest /\ pc' = "idle"
  BY DEF CInv, Return, Idles
<1>2. /\ Now \in Nat /\ Now > 0 /\ Now \in DOMAIN served /\ Hand \in DOMAIN agents
  <2>1. Now > 0
    BY <1>1 DEF Places, Now, Calling
  <2> QED
    BY <1>1, <2>1, ServedFacts DEF Hand
<1>3. /\ DOMAIN agents' = DOMAIN agents /\ Len(agents') = Len(agents)
      /\ agents' \in Seq(Range(agents')) /\ agents'[Hand] = b
      /\ \A j \in DOMAIN agents : j # Hand => agents'[j] = agents[j]
      /\ \A j \in DOMAIN agents' : IsAgent(agents'[j])
  <2> DEFINE i == Hand
  <2>1. i \in DOMAIN agents /\ agents' = [agents EXCEPT ![i] = b]
    BY <1>2
  <2> HIDE DEF i
  <2>2. /\ DOMAIN agents' = DOMAIN agents /\ Len(agents') = Len(agents)
        /\ agents' \in Seq(Range(agents')) /\ agents'[i] = b
        /\ \A j \in DOMAIN agents : j # i => agents'[j] = agents[j]
        /\ \A j \in DOMAIN agents' : IsAgent(agents'[j])
    BY <1>1, <2>1, Replaced
  <2> QED
    BY <2>2 DEF i
<1>4. \A j : JoinedIn(served', pc', j) = JoinedIn(served, pc, j)
  BY <1>1 DEF JoinedIn
<1>5. \A j \in DOMAIN agents : agents'[j].window = agents[j].window
  BY <1>3
<1>6. \A j \in DOMAIN agents' : WindowIsRecent(j)'
  BY <1>1, <1>3, <1>4, <1>5, WindowsKept DEF ContextIsHonest
<1>7. Places'
  BY <1>1, <1>2, <1>3 DEF Places, Calling, Now
<1>8. Now' = Now /\ Hand' = Hand /\ Joined(Hand)' = JoinedIn(served, pc, Hand)
      /\ agents'[Hand'].window = agents[Hand].window
  <2>1. Now' = Now /\ Hand' = Hand
    BY DEF Now, Hand
  <2> QED
    BY <1>2, <1>4, <1>5, <2>1, RecentNext
<1>9. answer' # Nothing =>
        /\ Last(answer'.context) = answer'.message
        /\ Latest(answer'.context, Joined(Hand)')
        /\ \A e \in answer'.entities : e.message \in Range(agents'[Hand'].window)
  <2> SUFFICES ASSUME answer' # Nothing
               PROVE  /\ Last(answer'.context) = answer'.message
                      /\ Latest(answer'.context, Joined(Hand)')
                      /\ \A e \in answer'.entities : e.message \in Range(agents'[Hand'].window)
    OBVIOUS
  <2>1. /\ answer'.message = Now /\ answer'.entities = r.entities
        /\ answer'.context = LastOf(agents[Hand].window, ContextLength)
    BY DEF Return
  <2> QED
    BY <1>1, <1>8, <2>1, OriginIsHonest, ExtractedFromPrompt
<1> QED
  BY <1>1, <1>2, <1>6, <1>7, <1>9 DEF CInv, ContextIsHonest, Now, Hand, Joined

LEMMA ExtractCInv ==
  ASSUME CInv, NEW ending, Extract(ending)
  PROVE  CInv'
<1>1. /\ pc = "extracting" /\ UNCHANGED <<chat, served>> /\ Places
      /\ agents' = [agents EXCEPT ![Hand] = Called(ending)]
      /\ \E r : Return(r) /\ (r = OfRegex \/ \E a : r = Cascade(a))
  BY DEF Extract, config, CInv
<1>2. Hand \in DOMAIN agents
  BY <1>1, ServedFacts DEF Places, Calling, Now, Hand
<1>3. IsAgent(Called(ending)) /\ Called(ending).window = agents[Hand].window
  BY <1>1, <1>2, CalledKeeps
<1>4. PICK r : Return(r) /\ (r = OfRegex \/ \E a : r = Cascade(a))
  BY <1>1
<1> QED
  BY <1>1, <1>3, <1>4, ReturnKeeps

LEMMA SkipModelCInv == CInv /\ SkipModel => CInv'
<1> SUFFICES ASSUME CInv, SkipModel PROVE CInv'
  OBVIOUS
<1>1. /\ pc \in Calling /\ UNCHANGED <<chat, served>> /\ Places
      /\ pc = "inferring" => Admitted(agents[Hand], Hand, Now) /\ UNCHANGED answer
      /\ pc # "inferring" => Return(OfRegex) /\ UNCHANGED agents
  BY DEF SkipModel, config, CInv, Calling
<1>2. Hand \in DOMAIN agents
  BY <1>1, ServedFacts DEF Places, Now, Hand
<1>3. IsAgent(agents[Hand])
  BY <1>1, <1>2 DEF Places
<1>4. CASE pc = "inferring"
  BY <1>1, <1>3, <1>4, AfterInference
<1>5. CASE pc # "inferring"
  <2>1. pc = "extracting" /\ agents' = [agents EXCEPT ![Hand] = agents[Hand]]
    <3>1. agents \in Seq(Range(agents))
      BY <1>1 DEF Places
    <3>2. agents = [agents EXCEPT ![Hand] = agents[Hand]]
      BY <3>1, <1>2
    <3> QED
      BY <1>1, <1>5, <3>2 DEF Calling
  <2> QED
    BY <1>1, <1>3, <1>5, <2>1, ReturnKeeps
<1> QED
  BY <1>4, <1>5

LEMMA RestartCInv == CInv /\ Restart => CInv'
<1> SUFFICES ASSUME CInv, Restart PROVE CInv'
  OBVIOUS
<1>1. /\ agents' = Append(agents, NewAgent) /\ Places /\ ContextIsHonest
      /\ UNCHANGED <<chat, served, pc, prompt, answer>>
  BY DEF Restart, CInv, config, call
<1>2. IsAgent(NewAgent) /\ NewAgent.window = <<>> /\ <<>> \in Seq(Numbers)
  BY DEF IsAgent, NewAgent
<1>3. /\ DOMAIN agents' = 1 .. Len(agents) + 1 /\ Len(agents') = Len(agents) + 1
      /\ agents' \in Seq(Range(agents')) /\ agents'[Len(agents) + 1] = NewAgent
      /\ \A j \in DOMAIN agents : agents'[j] = agents[j]
      /\ \A j \in DOMAIN agents' : IsAgent(agents'[j])
  <2> HIDE DEF NewAgent
  <2> QED
    BY <1>1, <1>2, Added
<1>4. /\ DOMAIN agents = 1 .. Len(agents) /\ Len(agents) \in Nat
      /\ \A n \in DOMAIN served : served[n] \in DOMAIN agents
  BY <1>1, ServedFacts
<1>5. ASSUME NEW j \in DOMAIN agents' PROVE WindowIsRecent(j)'
  <2>1. JoinedIn(served', pc', j) = JoinedIn(served, pc, j)
    BY <1>1
  <2>2. CASE j \in DOMAIN agents
    BY <1>1, <1>3, <2>1, <2>2, RecentAs, RecentNext DEF ContextIsHonest
  <2>3. CASE j = Len(agents) + 1
    <3>1. JoinedIn(served, pc, j) = {}
      BY <1>4, <2>3 DEF JoinedIn
    <3>2. Recent(chat', <<>>, {})
      BY <1>2, NothingYet, EmptyIsRecent
    <3> QED
      BY <1>2, <1>3, <2>1, <2>3, <3>1, <3>2, RecentNext
  <2> QED
    BY <1>3, <1>4, <2>2, <2>3
<1>6. served \in Seq(DOMAIN agents')
  <2>1. served \in Seq(DOMAIN agents) /\ DOMAIN agents \subseteq DOMAIN agents'
    BY <1>1, <1>3, <1>4 DEF Places
  <2> QED
    BY <2>1
<1>7. Places'
  BY <1>1, <1>3, <1>4, <1>6 DEF Places
<1>8. /\ Now' = Now /\ Hand' = Hand /\ Joined(Hand)' = Joined(Hand)
      /\ Len(served) > 0 => agents'[Hand] = agents[Hand]
  <2>1. Now' = Now /\ Hand' = Hand /\ Joined(Hand)' = Joined(Hand)
    BY <1>1 DEF Now, Hand, Joined
  <2>2. Len(served) > 0 => Hand \in DOMAIN agents
    BY <1>1, <1>4, ServedFacts DEF Now, Hand
  <2> QED
    BY <1>3, <2>1, <2>2
<1>9. pc = "extracting" \/ answer # Nothing => Len(served) > 0
  BY <1>1 DEF CInv, Places, Calling
<1> QED
  BY <1>1, <1>5, <1>7, <1>8, <1>9 DEF CInv, ContextIsHonest

LEMMA FeedbackCInv ==
  ASSUME CInv, NEW n, NEW type, Feedback(n, type)
  PROVE  CInv'
<1> DEFINE i == Len(agents)
           known == [s \in DOMAIN agents[i].speakers |->
                        IF s = chat[n].sender THEN Reviewed(agents[i].speakers[s], type)
                        ELSE agents[i].speakers[s]]
           b == [agents[i] EXCEPT !.speakers = known]
<1>1. Places /\ i \in DOMAIN agents /\ agents \in Seq(Range(agents))
  BY ServedFacts DEF CInv, Places
<1>2. /\ agents' = [agents EXCEPT ![i] = b] /\ UNCHANGED <<chat, served, pc, prompt, answer>>
  BY <1>1 DEF Feedback, config, call
<1>3. IsAgent(b) /\ b.window = agents[i].window
  <2> DEFINE a == agents[i]
  <2>1. /\ a = [window |-> a.window, count |-> a.count, failures |-> a.failures,
                speakers |-> a.speakers]
        /\ a.window \in Seq(Numbers)
    BY <1>1 DEF Places, IsAgent
  <2> HIDE DEF known, i, a
  <2>2. b = [window |-> a.window, count |-> a.count, failures |-> a.failures, speakers |-> known]
    BY <2>1 DEF a
  <2> QED
    BY <2>1, <2>2 DEF IsAgent, a
<1> HIDE DEF b, i
<1>4. /\ DOMAIN agents' = DOMAIN agents /\ Len(agents') = Len(agents)
      /\ agents' \in Seq(Range(agents')) /\ agents'[i] = b
      /\ \A j \in DOMAIN agents : j # i => agents'[j] = agents[j]
      /\ \A j \in DOMAIN agents' : IsAgent(agents'[j])
  BY <1>1, <1>2, <1>3, Replaced
<1>5. \A j \in DOMAIN agents : agents'[j].window = agents[j].window
  BY <1>3, <1>4
<1>6. \A j : JoinedIn(served', pc', j) = JoinedIn(served, pc, j)
  BY <1>2
<1>7. \A j \in DOMAIN agents' : WindowIsRecent(j)'
  BY <1>2, <1>4, <1>5, <1>6, WindowsKept DEF CInv, ContextIsHonest
<1>8. Places'
  BY <1>1, <1>2, <1>4 DEF Places
<1>9. /\ Now' = Now /\ Hand' = Hand /\ Joined(Hand)' = Joined(Hand)
      /\ Len(served) > 0 => agents'[Hand].window = agents[Hand].window
  <2>1. Now' = Now /\ Hand' = Hand /\ Joined(Hand)' = Joined(Hand)
    BY <1>2 DEF Now, Hand, Joined
  <2>2. Len(served) > 0 => Hand \in DOMAIN agents
    BY <1>1, ServedFacts DEF Now, Hand
  <2> QED
    BY <1>5, <2>1, <2>2
<1>10. pc = "extracting" \/ answer # Nothing => Len(served) > 0
  BY <1>1 DEF CInv, Places, Calling
<1> QED
  BY <1>2, <1>7, <1>8, <1>9, <1>10 DEF CInv, ContextIsHonest

LEMMA NextCInv == CInv /\ [Next]_vars => CInv'
<1> SUFFICES ASSUME CInv, [Next]_vars PROVE CInv'
  OBVIOUS
<1>1. CASE Load
  BY <1>1, LoadCInv
<1>2. CASE Receive
  BY <1>2, ReceiveCInv
<1>3. CASE AskAgain
  BY <1>3, UnchangedCInv DEF AskAgain, config, learned
<1>4. CASE SkipModel
  BY <1>4, SkipModelCInv
<1>5. CASE Restart
  BY <1>5, RestartCInv
<1>6. ASSUME NEW ending \in Endings, Infer(ending) PROVE CInv'
  BY <1>6, InferCInv
<1>7. ASSUME NEW ending \in Endings, Extract(ending) PROVE CInv'
  BY <1>7, ExtractCInv
<1>8. ASSUME NEW n \in reports, NEW type, Feedback(n, type) PROVE CInv'
  BY <1>8, FeedbackCInv
<1>9. CASE UNCHANGED vars
  BY <1>9, UnchangedCInv DEF vars, config, learned, call
<1> QED
  BY <1>1, <1>2, <1>3, <1>4, <1>5, <1>6, <1>7, <1>8, <1>9 DEF Next

(* What the model is shown and what an update gives as its origin is the recent *)
(* conversation of its channel, whatever comes late and whatever is restarted   *)
(* during a call (ChannelAgent.process_message, _trim_window_by_time).          *)
THEOREM ContextCorrect == Spec => []ContextIsHonest
<1>1. CInv => ContextIsHonest
  BY DEF CInv
<1> QED
  BY <1>1, InitCInv, NextCInv, PTL DEF Spec
-----------------------------------------------------------------------------
(* SPEAKER PROFILES *)

LEMMA DivStep ==
  ASSUME NEW a \in Nat, NEW d \in Nat, d > 0
  PROVE  /\ (a + 1) \div d >= a \div d
         /\ (a + 1) % d = 0 => (a + 1) \div d >= (a \div d) + 1
<1> DEFINE q == a \div d
           r == a % d
           p == (a + 1) \div d
           t == (a + 1) % d
<1>1. /\ q \in Int /\ r \in Int /\ a = d * q + r /\ 0 <= r /\ r < d
      /\ p \in Int /\ t \in Int /\ a + 1 = d * p + t /\ 0 <= t /\ t < d
  OBVIOUS
<1> HIDE DEF q, r, p, t
<1>2. ASSUME p < q PROVE FALSE
  <2>1. p + 1 <= q
    BY <1>1, <1>2
  <2>2. d * (p + 1) <= d * q
    BY <1>1, <2>1
  <2>3. d * (p + 1) = d * p + d
    BY <1>1
  <2> QED
    BY <1>1, <2>2, <2>3
<1>3. ASSUME t = 0, p <= q PROVE FALSE
  <2>1. d * p <= d * q
    BY <1>1, <1>3
  <2> QED
    BY <1>1, <1>3, <2>1
<1>4. p >= q /\ (t = 0 => p >= q + 1)
  BY <1>1, <1>2, <1>3
<1> QED
  BY <1>4 DEF p, q, t

(* How many inferences were due after so many messages. *)
Due(n) == IF n < FirstInferenceAt THEN 0
          ELSE 1 + (n - FirstInferenceAt) \div InferenceInterval

LEMMA SpeakerConstants ==
  /\ FirstInferenceAt \in Nat /\ FirstInferenceAt > 0
  /\ InferenceInterval \in Nat /\ InferenceInterval > 0 /\ MaxRecent \in Numbers
BY SpeakerAssumption DEF Numbers

LEMMA DueStep ==
  ASSUME NEW n \in Nat
  PROVE  /\ Due(n) \in Int /\ Due(n + 1) \in Int /\ Due(n + 1) >= Due(n) /\ Due(0) = 0
         /\ \/ n + 1 = FirstInferenceAt
            \/ n + 1 > FirstInferenceAt /\ (n + 1 - FirstInferenceAt) % InferenceInterval = 0
            => Due(n + 1) >= Due(n) + 1
<1> DEFINE F == FirstInferenceAt
           d == InferenceInterval
<1>1. F \in Nat /\ F > 0 /\ d \in Nat /\ d > 0
  BY SpeakerConstants
<1>2. /\ \A m \in Nat : m < F => Due(m) = 0
      /\ \A m \in Nat : ~(m < F) => Due(m) = 1 + (m - F) \div d
  BY DEF Due
<1> HIDE DEF F, d
<1>3. Due(0) = 0
  BY <1>1, <1>2
<1>4. CASE n + 1 < F
  <2>1. Due(n) = 0 /\ Due(n + 1) = 0
    BY <1>1, <1>2, <1>4
  <2> QED
    BY <1>1, <1>3, <1>4, <2>1 DEF F
<1>5. CASE n + 1 = F
  <2>1. Due(n) = 0 /\ Due(n + 1) = 1 + 0 \div d
    BY <1>1, <1>2, <1>5
  <2>2. 0 \div d = 0
    BY <1>1
  <2> QED
    BY <1>1, <1>3, <2>1, <2>2
<1>6. CASE n >= F
  <2> DEFINE a == n - F
  <2>1. a \in Nat /\ n + 1 - F = a + 1
    BY <1>1, <1>6
  <2>2. Due(n) = 1 + a \div d /\ Due(n + 1) = 1 + (a + 1) \div d
    <3>1. ~(n < F) /\ ~(n + 1 < F) /\ n + 1 \in Nat
      BY <1>1, <1>6
    <3>2. Due(n) = 1 + (n - F) \div d /\ Due(n + 1) = 1 + (n + 1 - F) \div d
      <4>1. Due(n) = 1 + (n - F) \div d
        BY <3>1, <1>1 DEF Due, F, d
      <4> DEFINE m == n + 1
      <4>2. ~(m < F)
        BY <3>1
      <4> HIDE DEF m
      <4>3. Due(m) = 1 + (m - F) \div d
        BY <4>2 DEF Due, F, d
      <4> QED
        BY <1>1, <4>1, <4>3 DEF m
    <3> HIDE DEF a
    <3>3. n + 1 - F = a + 1 /\ n - F = a
      BY <2>1 DEF a
    <3> QED
      BY ONLY <3>2, <3>3
  <2> HIDE DEF a
  <2>3. /\ a \div d \in Int /\ (a + 1) \div d \in Int /\ (a + 1) \div d >= a \div d
        /\ (a + 1) % d = 0 => (a + 1) \div d >= (a \div d) + 1
    BY <1>1, <2>1, DivStep
  <2>4. n + 1 # F
    BY <1>1, <1>6
  <2> QED
    BY <1>1, <1>3, <2>1, <2>2, <2>3, <2>4 DEF F, d
<1> QED
  BY <1>1, <1>4, <1>5, <1>6

IsProfile(p) ==
    /\ p = [first |-> p.first, last |-> p.last, count |-> p.count, role |-> p.role,
            notes |-> p.notes, activity |-> p.activity, corroborated |-> p.corroborated,
            contradicted |-> p.contradicted, score |-> p.score, recent |-> p.recent]
    /\ p.count \in Nat /\ p.corroborated \in Nat /\ p.contradicted \in Nat
    /\ p.score \in 0 .. 1000 /\ p.recent \in Seq(Numbers)
    /\ p.activity \in [Range(Activities) -> Nat]

(* What a profile says of the messages it was made from, and of the feedback. *)
Counts(p, heard) ==
    /\ p.count = Cardinality(heard) /\ IsFiniteSet(heard) /\ Latest(p.recent, heard)
    /\ Len(p.recent) = IF p.count < MaxRecent THEN p.count ELSE MaxRecent
    /\ Classified(p) <= Due(p.count)
    /\ (p.score > 500 => p.corroborated > 0) /\ (p.score < 500 => p.contradicted > 0)

Tells(c, p, heard) ==
    /\ Counts(p, heard)
    /\ \E n \in heard : (\A m \in heard : n <= m) /\ p.first = c[n].ts
    /\ p.last = c[Last(p.recent)].ts

LEMMA FourActivities ==
  Range(Activities) = {"sensing", "deciding", "acting", "collaborating"}
BY DEF Activities, Range

LEMMA ClassifiedType ==
  ASSUME NEW p, IsProfile(p)
  PROVE  Classified(p) \in Nat
BY FourActivities DEF IsProfile, Classified

LEMMA NewCounts ==
  ASSUME NEW ts
  PROVE  /\ IsProfile(NewProfile(ts)) /\ Counts(NewProfile(ts), {})
         /\ NewProfile(ts).first = ts /\ NewProfile(ts).corroborated = 0
         /\ NewProfile(ts).contradicted = 0
<1> DEFINE p == NewProfile(ts)
<1>1. p = [first |-> ts, last |-> ts, count |-> 0, role |-> Nothing, notes |-> <<>>,
           activity |-> [a \in Range(Activities) |-> 0],
           corroborated |-> 0, contradicted |-> 0, score |-> 500, recent |-> <<>>]
  BY DEF NewProfile
<1> HIDE DEF p
<1>2. /\ p.first = ts /\ p.last = ts /\ p.count = 0 /\ p.role = Nothing /\ p.notes = <<>>
      /\ p.activity = [a \in Range(Activities) |-> 0] /\ p.corroborated = 0
      /\ p.contradicted = 0 /\ p.score = 500 /\ p.recent = <<>>
  BY <1>1
<1>3. <<>> \in Seq(Numbers) /\ p.activity \in [Range(Activities) -> Nat]
  BY <1>2
<1>4. IsProfile(p)
  BY <1>1, <1>2, <1>3 DEF IsProfile
<1>5. Classified(p) = 0
  BY <1>2, FourActivities DEF Classified
<1>6. Due(0) = 0
  BY DueStep
<1>7. 0 < MaxRecent /\ Len(<<>>) = 0
  BY SpeakerConstants DEF Numbers
<1>8. Cardinality({}) = 0 /\ IsFiniteSet({})
  BY FS_EmptySet
<1>9. Counts(p, {})
  BY <1>2, <1>5, <1>6, <1>7, <1>8, NothingYet DEF Counts
<1> QED
  BY <1>2, <1>4, <1>9 DEF p

(* A message more: the profile counts it, and one inference more if one is due. *)
LEMMA HeardCounts ==
  ASSUME NEW p, IsProfile(p), NEW heard, Counts(p, heard), NEW n \in Numbers,
         \A m \in heard : m < n, NEW ts
  PROVE  LET q == Heard(p, n, ts) IN
         /\ IsProfile(q) /\ Counts(q, heard \cup {n}) /\ q.first = p.first /\ q.last = ts
         /\ Last(q.recent) = n /\ q.corroborated = p.corroborated
         /\ q.contradicted = p.contradicted
         /\ InferenceDue(q) => Classified(q) + 1 <= Due(q.count)
<1> DEFINE q == Heard(p, n, ts)
           s == Append(p.recent, n)
           u == LastOf(s, MaxRecent)
<1>1. /\ p.count \in Nat /\ p.recent \in Seq(Numbers) /\ p.activity \in [Range(Activities) -> Nat]
      /\ p.corroborated \in Nat /\ p.contradicted \in Nat /\ p.score \in 0 .. 1000
      /\ p = [first |-> p.first, last |-> p.last, count |-> p.count, role |-> p.role,
              notes |-> p.notes, activity |-> p.activity, corroborated |-> p.corroborated,
              contradicted |-> p.contradicted, score |-> p.score, recent |-> p.recent]
  BY DEF IsProfile
<1>2. q = [p EXCEPT !.last = ts, !.count = p.count + 1, !.recent = u]
  BY DEF Heard
<1> HIDE DEF u, s, q
<1>3. q = [first |-> p.first, last |-> ts, count |-> p.count + 1, role |-> p.role,
           notes |-> p.notes, activity |-> p.activity, corroborated |-> p.corroborated,
           contradicted |-> p.contradicted, score |-> p.score, recent |-> u]
  BY <1>1, <1>2
<1>4. /\ q.first = p.first /\ q.last = ts /\ q.count = p.count + 1 /\ q.role = p.role
      /\ q.notes = p.notes /\ q.activity = p.activity /\ q.corroborated = p.corroborated
      /\ q.contradicted = p.contradicted /\ q.score = p.score /\ q.recent = u
  BY <1>3
<1>5. /\ Latest(p.recent, heard) /\ IsFiniteSet(heard) /\ p.count = Cardinality(heard)
      /\ Len(p.recent) = IF p.count < MaxRecent THEN p.count ELSE MaxRecent
      /\ Classified(p) <= Due(p.count)
      /\ (p.score > 500 => p.corroborated > 0) /\ (p.score < 500 => p.contradicted > 0)
  BY DEF Counts
<1>6. /\ s \in Seq(Numbers) /\ Len(s) = Len(p.recent) + 1 /\ Latest(s, heard \cup {n}) /\ Last(s) = n
  <2> DEFINE v == p.recent
  <2>1. v \in Seq(Numbers) /\ Latest(v, heard)
    BY <1>1, <1>5
  <2> HIDE DEF v
  <2>2. /\ Append(v, n) \in Seq(Numbers) /\ Len(Append(v, n)) = Len(v) + 1
        /\ Latest(Append(v, n), heard \cup {n}) /\ Last(Append(v, n)) = n
    BY <2>1, AppendIsLatest
  <2> QED
    BY <2>2 DEF v, s
<1>7. MaxRecent \in Numbers /\ MaxRecent \in Nat /\ MaxRecent > 0 /\ Len(p.recent) \in Nat
  BY <1>1, SpeakerConstants, RangeOf DEF Numbers
<1>8. PICK d \in 0 .. Len(s) :
         Behind(u, s, d) /\ d = IF Len(s) > MaxRecent THEN Len(s) - MaxRecent ELSE 0
  BY <1>6, <1>7, LastOfBehind DEF u
<1>9. /\ u \in Seq(Numbers) /\ Len(u) > 0
      /\ Len(u) = IF p.count + 1 < MaxRecent THEN p.count + 1 ELSE MaxRecent
  <2>1. u \in Seq(Numbers) /\ Len(u) = Len(s) - d
    BY <1>8 DEF Behind
  <2>2. CASE p.count < MaxRecent
    <3>1. Len(s) = p.count + 1 /\ ~(Len(s) > MaxRecent) /\ d = 0
      BY <1>1, <1>5, <1>6, <1>7, <1>8, <2>2
    <3> QED
      BY <1>1, <1>7, <2>1, <2>2, <3>1
  <2>3. CASE ~(p.count < MaxRecent)
    <3>1. Len(s) = MaxRecent + 1 /\ d = 1
      BY <1>1, <1>5, <1>6, <1>7, <1>8, <2>3
    <3> QED
      BY <1>1, <1>7, <2>1, <2>3, <3>1
  <2> QED
    BY <2>2, <2>3
<1>10. Latest(u, heard \cup {n}) /\ Last(u) = n
  <2> DEFINE ns == heard \cup {n}
  <2>1. Latest(s, ns)
    BY <1>6
  <2> HIDE DEF ns
  <2>2. Latest(u, ns) /\ Last(u) = Last(s)
    BY ONLY <1>6, <1>8, <1>9, <2>1, SuffixIsLatest
  <2> QED
    BY <1>6, <2>2 DEF ns
<1>11. Cardinality(heard \cup {n}) = p.count + 1 /\ IsFiniteSet(heard \cup {n})
  <2>1. n \notin heard
    BY DEF Numbers
  <2> QED
    BY <1>5, <2>1, FS_AddElement
<1>12. Classified(q) = Classified(p) /\ Classified(p) \in Nat
  BY <1>4, ClassifiedType DEF Classified
<1>13. /\ Due(p.count) \in Int /\ Due(p.count + 1) \in Int /\ Due(p.count + 1) >= Due(p.count)
       /\ InferenceDue(q) => Due(p.count + 1) >= Due(p.count) + 1
  <2> DEFINE m == p.count
  <2>1. m \in Nat
    BY <1>1
  <2>2. InferenceDue(q) => \/ m + 1 = FirstInferenceAt
                           \/ /\ m + 1 > FirstInferenceAt
                              /\ (m + 1 - FirstInferenceAt) % InferenceInterval = 0
    <3> DEFINE k == q.count
    <3>1. InferenceDue(q) <=> \/ k = FirstInferenceAt
                              \/ /\ k > FirstInferenceAt
                                 /\ (k - FirstInferenceAt) % InferenceInterval = 0
      BY DEF InferenceDue
    <3>2. k = m + 1
      BY <1>4
    <3> HIDE DEF k, m
    <3> QED
      <4>1. k - FirstInferenceAt = m + 1 - FirstInferenceAt
        BY <2>1, <3>2, SpeakerConstants
      <4> DEFINE x == k - FirstInferenceAt
                 y == m + 1 - FirstInferenceAt
      <4>2. InferenceDue(q) => k = FirstInferenceAt \/ (k > FirstInferenceAt /\ x % InferenceInterval = 0)
        BY <3>1
      <4>3. x = y
        BY <4>1
      <4> HIDE DEF x, y
      <4>4. x % InferenceInterval = 0 => y % InferenceInterval = 0
        BY ONLY <4>3
      <4>5. InferenceDue(q) => m + 1 = FirstInferenceAt \/ (m + 1 > FirstInferenceAt /\ y % InferenceInterval = 0)
        BY <3>2, <4>2, <4>4
      <4> QED
        BY <4>5 DEF y
  <2> HIDE DEF m
  <2>3. /\ Due(m) \in Int /\ Due(m + 1) \in Int /\ Due(m + 1) >= Due(m)
        /\ InferenceDue(q) => Due(m + 1) >= Due(m) + 1
    BY <2>1, <2>2, DueStep
  <2> QED
    BY <2>3 DEF m
<1>14. /\ Classified(q) <= Due(q.count)
       /\ InferenceDue(q) => Classified(q) + 1 <= Due(q.count)
  BY <1>4, <1>5, <1>12, <1>13
<1>15. IsProfile(q)
  <2>1. q.count \in Nat
    BY <1>1, <1>4
  <2>2. q = [first |-> q.first, last |-> q.last, count |-> q.count, role |-> q.role,
             notes |-> q.notes, activity |-> q.activity, corroborated |-> q.corroborated,
             contradicted |-> q.contradicted, score |-> q.score, recent |-> q.recent]
    BY <1>3, <1>4
  <2> QED
    BY <1>1, <1>4, <1>9, <2>1, <2>2 DEF IsProfile
<1>16. Counts(q, heard \cup {n})
  <2>1. /\ q.count = Cardinality(heard \cup {n}) /\ Latest(q.recent, heard \cup {n})
        /\ Len(q.recent) = IF q.count < MaxRecent THEN q.count ELSE MaxRecent
    BY <1>4, <1>9, <1>10, <1>11
  <2>2. (q.score > 500 => q.corroborated > 0) /\ (q.score < 500 => q.contradicted > 0)
    BY <1>4, <1>5
  <2> QED
    BY <1>11, <1>14, <2>1, <2>2 DEF Counts
<1>17. Last(q.recent) = n
  BY <1>4, <1>10
<1> QED
  BY <1>4, <1>14, <1>15, <1>16, <1>17 DEF q

(* An inference counts one activity more, or none. *)
LEMMA LearnedCounts ==
  ASSUME NEW p, IsProfile(p), NEW heard, NEW c, Tells(c, p, heard), NEW r,
         Classified(p) + 1 <= Due(p.count)
  PROVE  LET q == Learned(p, r) IN
         /\ IsProfile(q) /\ Tells(c, q, heard) /\ q.corroborated = p.corroborated
         /\ q.contradicted = p.contradicted
<1> DEFINE q == Learned(p, r)
           f == [a \in DOMAIN p.activity |-> IF a = r.activity THEN p.activity[a] + 1 ELSE p.activity[a]]
<1>1. /\ p.count \in Nat /\ p.recent \in Seq(Numbers) /\ p.activity \in [Range(Activities) -> Nat]
      /\ p.corroborated \in Nat /\ p.contradicted \in Nat /\ p.score \in 0 .. 1000
      /\ p = [first |-> p.first, last |-> p.last, count |-> p.count, role |-> p.role,
              notes |-> p.notes, activity |-> p.activity, corroborated |-> p.corroborated,
              contradicted |-> p.contradicted, score |-> p.score, recent |-> p.recent]
  BY DEF IsProfile
<1>2. PICK role, notes : q = [p EXCEPT !.role = role, !.notes = notes, !.activity = f]
  BY DEF Learned
<1> HIDE DEF q, f
<1>3. q = [first |-> p.first, last |-> p.last, count |-> p.count, role |-> role,
           notes |-> notes, activity |-> f, corroborated |-> p.corroborated,
           contradicted |-> p.contradicted, score |-> p.score, recent |-> p.recent]
  BY <1>1, <1>2
<1>4. /\ q.first = p.first /\ q.last = p.last /\ q.count = p.count /\ q.role = role
      /\ q.notes = notes /\ q.activity = f /\ q.corroborated = p.corroborated
      /\ q.contradicted = p.contradicted /\ q.score = p.score /\ q.recent = p.recent
  BY <1>3
<1>5. /\ f \in [Range(Activities) -> Nat]
      /\ \A a \in Range(Activities) : f[a] = p.activity[a] \/ (a = r.activity /\ f[a] = p.activity[a] + 1)
  BY <1>1 DEF f
<1>6. Classified(q) <= Classified(p) + 1
  <2> DEFINE g == p.activity
  <2>1. g \in [{"sensing", "deciding", "acting", "collaborating"} -> Nat]
    BY <1>1, FourActivities
  <2>2. \A a \in {"sensing", "deciding", "acting", "collaborating"} :
           f[a] = g[a] \/ (a = r.activity /\ f[a] = g[a] + 1)
    BY <1>5, FourActivities
  <2>3. /\ Classified(p) = g["sensing"] + g["deciding"] + g["acting"] + g["collaborating"]
        /\ Classified(q) = f["sensing"] + f["deciding"] + f["acting"] + f["collaborating"]
    BY <1>4 DEF Classified
  <2> HIDE DEF g
  <2> QED
    BY <2>1, <2>2, <2>3
<1>7. IsProfile(q)
  <2>1. q = [first |-> q.first, last |-> q.last, count |-> q.count, role |-> q.role,
             notes |-> q.notes, activity |-> q.activity, corroborated |-> q.corroborated,
             contradicted |-> q.contradicted, score |-> q.score, recent |-> q.recent]
    BY <1>3, <1>4
  <2> QED
    BY <1>1, <1>4, <1>5, <2>1 DEF IsProfile
<1>8. Classified(q) <= Due(q.count)
  <2>1. Classified(p) \in Nat /\ Classified(q) \in Nat /\ Due(p.count) \in Int
    BY <1>1, <1>7, ClassifiedType, DueStep
  <2> QED
    BY <1>4, <1>6, <2>1
<1>9. Tells(c, q, heard)
  BY <1>4, <1>8 DEF Tells, Counts
<1> QED
  BY <1>4, <1>7, <1>9 DEF q

LEMMA ScoreStep ==
  ASSUME NEW x \in 0 .. 1000
  PROVE  /\ (9 * x + 1000) \div 10 \in 0 .. 1000 /\ ((9 * x + 1000) \div 10 < 500 => x < 500)
         /\ (9 * x) \div 10 \in 0 .. 1000 /\ ((9 * x) \div 10 > 500 => x > 500)
<1>1. 9 * x \in Int /\ 0 <= 9 * x /\ 9 * x <= 9000
  OBVIOUS
<1>2. /\ (9 * x + 1000) \div 10 \in Int
      /\ 10 * ((9 * x + 1000) \div 10) <= 9 * x + 1000
      /\ 9 * x + 1000 < 10 * ((9 * x + 1000) \div 10) + 10
  BY <1>1
<1>3. /\ (9 * x) \div 10 \in Int
      /\ 10 * ((9 * x) \div 10) <= 9 * x
      /\ 9 * x < 10 * ((9 * x) \div 10) + 10
  BY <1>1
<1> DEFINE y == (9 * x + 1000) \div 10
           z == (9 * x) \div 10
<1>4. /\ y \in Int /\ 10 * y <= 9 * x + 1000 /\ 9 * x + 1000 < 10 * y + 10
      /\ z \in Int /\ 10 * z <= 9 * x /\ 9 * x < 10 * z + 10
  BY <1>2, <1>3
<1> HIDE DEF y, z
<1>5. y \in 0 .. 1000 /\ (y < 500 => x < 500) /\ z \in 0 .. 1000 /\ (z > 500 => x > 500)
  BY <1>4
<1> QED
  BY <1>5 DEF y, z

(* Feedback of a kind is counted, and moves the score that way. *)
LEMMA ReviewedCounts ==
  ASSUME NEW p, IsProfile(p), NEW heard, NEW c, Tells(c, p, heard),
         NEW type \in {"corroborated", "contradicted", "deduplicated"}
  PROVE  LET q == Reviewed(p, type) IN
         /\ IsProfile(q) /\ Tells(c, q, heard)
         /\ q.corroborated + q.contradicted <= p.corroborated + p.contradicted + 1
         /\ Classified(q) = Classified(p) /\ q.count = p.count
<1> DEFINE q == Reviewed(p, type)
           Rescored(k, l, z) ==
             /\ k + l <= p.corroborated + p.contradicted + 1
             /\ q = [first |-> p.first, last |-> p.last, count |-> p.count, role |-> p.role,
                     notes |-> p.notes, activity |-> p.activity, corroborated |-> k,
                     contradicted |-> l, score |-> z, recent |-> p.recent]
             /\ (z > 500 => k > 0) /\ (z < 500 => l > 0)
           Good ==
             /\ IsProfile(q) /\ Tells(c, q, heard)
             /\ q.corroborated + q.contradicted <= p.corroborated + p.contradicted + 1
             /\ Classified(q) = Classified(p) /\ q.count = p.count
<1>1. /\ p.count \in Nat /\ p.recent \in Seq(Numbers) /\ p.activity \in [Range(Activities) -> Nat]
      /\ p.corroborated \in Nat /\ p.contradicted \in Nat /\ p.score \in 0 .. 1000
      /\ p = [first |-> p.first, last |-> p.last, count |-> p.count, role |-> p.role,
              notes |-> p.notes, activity |-> p.activity, corroborated |-> p.corroborated,
              contradicted |-> p.contradicted, score |-> p.score, recent |-> p.recent]
  BY DEF IsProfile
<1>2. ASSUME NEW k \in Nat, NEW l \in Nat, NEW z \in 0 .. 1000, Rescored(k, l, z)
      PROVE  Good
  <2> HIDE DEF q
  <2>1. /\ q.first = p.first /\ q.last = p.last /\ q.count = p.count /\ q.role = p.role
        /\ q.notes = p.notes /\ q.activity = p.activity /\ q.corroborated = k
        /\ q.contradicted = l /\ q.score = z /\ q.recent = p.recent
    BY <1>2
  <2>2. q = [first |-> q.first, last |-> q.last, count |-> q.count, role |-> q.role,
             notes |-> q.notes, activity |-> q.activity, corroborated |-> q.corroborated,
             contradicted |-> q.contradicted, score |-> q.score, recent |-> q.recent]
    BY <1>2, <2>1
  <2>3. IsProfile(q)
    BY <1>1, <1>2, <2>1, <2>2 DEF IsProfile
  <2>4. Classified(q) = Classified(p)
    BY <2>1 DEF Classified
  <2>5. Tells(c, q, heard)
    BY <1>2, <2>1, <2>4 DEF Tells, Counts
  <2> QED
    BY <1>2, <2>1, <2>3, <2>4, <2>5
<1>3. (p.score > 500 => p.corroborated > 0) /\ (p.score < 500 => p.contradicted > 0)
  BY DEF Tells, Counts
<1>7. Good
  <2>4. CASE type = "corroborated"
    <3> DEFINE k == p.corroborated + 1
               z == (9 * p.score + 1000) \div 10
    <3>1. z \in 0 .. 1000 /\ (z < 500 => p.score < 500)
      <4> DEFINE x == p.score
      <4>1. x \in 0 .. 1000
        BY <1>1
      <4> HIDE DEF x
      <4>2. /\ (9 * x + 1000) \div 10 \in 0 .. 1000 /\ ((9 * x + 1000) \div 10 < 500 => x < 500)
            /\ (9 * x) \div 10 \in 0 .. 1000 /\ ((9 * x) \div 10 > 500 => x > 500)
        BY <4>1, ScoreStep
      <4> QED
        BY <4>2 DEF x
    <3>5. k \in Nat /\ k > 0
      BY <1>1
    <3>2. q = [p EXCEPT !.corroborated = k, !.score = z]
      BY <2>4 DEF Reviewed
    <3> HIDE DEF k, z, q
    <3>3. q = [first |-> p.first, last |-> p.last, count |-> p.count, role |-> p.role,
               notes |-> p.notes, activity |-> p.activity, corroborated |-> k,
               contradicted |-> p.contradicted, score |-> z, recent |-> p.recent]
      BY <1>1, <3>2
    <3>4. k + p.contradicted <= p.corroborated + p.contradicted + 1
      BY <1>1 DEF k
    <3>6. p.corroborated \in Nat /\ p.contradicted \in Nat
      BY <1>1
    <3>7. (z > 500 => k > 0) /\ (z < 500 => p.contradicted > 0)
      BY <1>3, <3>1, <3>5
    <3>8. Rescored(k, p.contradicted, z)
      BY <3>3, <3>4, <3>7
    <3> HIDE DEF Rescored, Good
    <3>9. z \in 0 .. 1000 /\ k \in Nat /\ p.contradicted \in Nat
      BY <3>1, <3>5, <3>6
    <3> QED
      BY ONLY <1>2, <3>8, <3>9
  <2>5. CASE type = "contradicted"
    <3> DEFINE l == p.contradicted + 1
               z == (9 * p.score) \div 10
    <3>1. z \in 0 .. 1000 /\ (z > 500 => p.score > 500)
      <4> DEFINE x == p.score
      <4>1. x \in 0 .. 1000
        BY <1>1
      <4> HIDE DEF x
      <4>2. /\ (9 * x + 1000) \div 10 \in 0 .. 1000 /\ ((9 * x + 1000) \div 10 < 500 => x < 500)
            /\ (9 * x) \div 10 \in 0 .. 1000 /\ ((9 * x) \div 10 > 500 => x > 500)
        BY <4>1, ScoreStep
      <4> QED
        BY <4>2 DEF x
    <3>5. l \in Nat /\ l > 0
      BY <1>1
    <3>2. q = [p EXCEPT !.contradicted = l, !.score = z]
      BY <2>5 DEF Reviewed
    <3> HIDE DEF l, z, q
    <3>3. q = [first |-> p.first, last |-> p.last, count |-> p.count, role |-> p.role,
               notes |-> p.notes, activity |-> p.activity, corroborated |-> p.corroborated,
               contradicted |-> l, score |-> z, recent |-> p.recent]
      BY <1>1, <3>2
    <3>4. p.corroborated + l <= p.corroborated + p.contradicted + 1
      BY <1>1 DEF l
    <3>6. p.corroborated \in Nat /\ p.contradicted \in Nat
      BY <1>1
    <3>7. (z > 500 => p.corroborated > 0) /\ (z < 500 => l > 0)
      BY <1>3, <3>1, <3>5
    <3>8. Rescored(p.corroborated, l, z)
      BY <3>3, <3>4, <3>7
    <3> HIDE DEF Rescored, Good
    <3> QED
      BY ONLY <1>2, <3>1, <3>5, <3>6, <3>8
  <2>6. CASE type = "deduplicated"
    <3>1. q = p
      BY <2>6 DEF Reviewed
    <3> QED
      BY <1>1, <3>1
  <2> QED
    BY <2>4, <2>5, <2>6
<1> QED
  BY <1>7 DEF q
(* The messages of a speaker; those that an agent got; those that are done with. *)
From(c, ns, s)         == {n \in ns : c[n].sender = s}
HeardIn(c, got, i, s)  == {n \in DOMAIN got : got[n] = i /\ c[n].sender = s}
Past(got, place)       == 1 .. (IF place \in Calling THEN Len(got) - 1 ELSE Len(got))

(* Each message gets feedback once, so what is to come and what was counted are *)
(* no more than the messages.                                                   *)
Backed(c, p, fed, past, s) ==
    p.corroborated + p.contradicted + Cardinality(From(c, fed, s)) <= Cardinality(From(c, past, s))

Knows(models, c, sp, heard, fed, past, s) ==
    IF s \in DOMAIN sp
    THEN models /\ IsProfile(sp[s]) /\ Tells(c, sp[s], heard) /\ Backed(c, sp[s], fed, past, s)
    ELSE ~models \/ heard = {}

(* While an inference is under way it has not been counted. *)
Owed(sp, s) == s \in DOMAIN sp /\ Classified(sp[s]) + 1 <= Due(sp[s].count)

SInv ==
    /\ useSpeakerModels \in BOOLEAN /\ reports \subseteq Past(served, pc)
    /\ \A i \in DOMAIN agents : \A s \in Senders :
          Knows(useSpeakerModels, chat, agents[i].speakers, HeardIn(chat, served, i, s),
                reports, Past(served, pc), s)
    /\ pc = "inferring" => Owed(agents[Hand].speakers, chat[Now].sender)

LEMMA PastFacts ==
  ASSUME Places
  PROVE  /\ Past(served, pc) \subseteq DOMAIN served /\ IsFiniteSet(DOMAIN served)
         /\ IsFiniteSet(Past(served, pc))
         /\ pc \in Calling => Past(served, pc) = 1 .. Now - 1 /\ Now \in DOMAIN served
                              /\ 1 .. Now = Past(served, pc) \cup {Now} /\ Now \notin Past(served, pc)
         /\ pc \notin Calling => Past(served, pc) = DOMAIN served
<1>1. Now \in Nat /\ DOMAIN served = 1 .. Now /\ Len(served) = Now
  BY ServedFacts DEF Now
<1>2. pc \in Calling => Now > 0
  BY DEF Places, Now
<1>3. IsFiniteSet(1 .. Now)
  BY <1>1, FS_Interval
<1>4. Past(served, pc) \subseteq DOMAIN served
  BY <1>1, <1>2 DEF Past
<1>5. IsFiniteSet(Past(served, pc))
  BY <1>1, <1>3, <1>4, FS_Subset
<1>6. pc \notin Calling => Past(served, pc) = DOMAIN served
  BY <1>1 DEF Past
<1>7. pc \in Calling => /\ Past(served, pc) = 1 .. Now - 1 /\ Now \in DOMAIN served
                        /\ 1 .. Now = Past(served, pc) \cup {Now} /\ Now \notin Past(served, pc)
  BY <1>1, <1>2 DEF Past
<1> QED
  BY <1>1, <1>3, <1>4, <1>5, <1>6, <1>7

LEMMA FromFinite ==
  ASSUME NEW c, NEW s, NEW ns, IsFiniteSet(ns)
  PROVE  IsFiniteSet(From(c, ns, s)) /\ Cardinality(From(c, ns, s)) \in Nat
<1>1. From(c, ns, s) \in SUBSET ns
  BY DEF From
<1> QED
  BY <1>1, FS_Subset, FS_CardinalityType

(* One message more, or one feedback more to come. *)
LEMMA FromAdd ==
  ASSUME NEW c, NEW s, NEW ns, IsFiniteSet(ns), NEW n, n \notin ns
  PROVE  Cardinality(From(c, ns \cup {n}, s)) =
            IF c[n].sender = s THEN Cardinality(From(c, ns, s)) + 1 ELSE Cardinality(From(c, ns, s))
<1>1. IsFiniteSet(From(c, ns, s)) /\ n \notin From(c, ns, s)
  BY FromFinite DEF From
<1>2. CASE c[n].sender = s
  <2>1. From(c, ns \cup {n}, s) = From(c, ns, s) \cup {n}
    BY <1>2 DEF From
  <2> QED
    <3>1. Cardinality(From(c, ns, s) \cup {n}) = Cardinality(From(c, ns, s)) + 1
      BY <1>1, FS_AddElement
    <3> QED
      BY <1>2, <2>1, <3>1
<1>3. CASE c[n].sender # s
  <2>1. From(c, ns \cup {n}, s) = From(c, ns, s)
    BY <1>3 DEF From
  <2> QED
    BY <1>3, <2>1
<1> QED
  BY <1>2, <1>3

LEMMA FromMonotone ==
  ASSUME NEW c, NEW s, NEW ms, IsFiniteSet(ms), NEW ns, ns \subseteq ms
  PROVE  Cardinality(From(c, ns, s)) <= Cardinality(From(c, ms, s))
<1>1. From(c, ns, s) \in SUBSET From(c, ms, s)
  BY DEF From
<1> QED
  BY <1>1, FromFinite, FS_Subset

(* What an agent knows stays true when more messages are done with, and of them *)
(* as many more may get feedback.                                               *)
LEMMA KnowsLater ==
  ASSUME NEW models, NEW c, NEW sp, NEW heard, NEW s, NEW fed, NEW past,
         IsFiniteSet(fed), IsFiniteSet(past), Knows(models, c, sp, heard, fed, past, s),
         NEW fed2, NEW past2, IsFiniteSet(fed2), IsFiniteSet(past2),
         Cardinality(From(c, fed2, s)) + Cardinality(From(c, past, s))
           <= Cardinality(From(c, fed, s)) + Cardinality(From(c, past2, s))
  PROVE  Knows(models, c, sp, heard, fed2, past2, s)
<1> DEFINE a == Cardinality(From(c, fed, s))
           b == Cardinality(From(c, past, s))
           d == Cardinality(From(c, fed2, s))
           e == Cardinality(From(c, past2, s))
<1>1. a \in Nat /\ b \in Nat /\ d \in Nat /\ e \in Nat /\ d + b <= a + e
  BY FromFinite
<1>2. CASE s \in DOMAIN sp
  <2>1. models /\ IsProfile(sp[s]) /\ Tells(c, sp[s], heard) /\ Backed(c, sp[s], fed, past, s)
    BY <1>2 DEF Knows
  <2>2. sp[s].corroborated \in Nat /\ sp[s].contradicted \in Nat
    BY <2>1 DEF IsProfile
  <2>3. sp[s].corroborated + sp[s].contradicted + a <= b
    BY <2>1 DEF Backed
  <2> HIDE DEF a, b, d, e
  <2>4. sp[s].corroborated + sp[s].contradicted + d <= e
    BY <1>1, <2>2, <2>3
  <2>5. Backed(c, sp[s], fed2, past2, s)
    BY <2>4 DEF Backed, d, e
  <2> QED
    BY <1>2, <2>1, <2>5 DEF Knows
<1>3. CASE s \notin DOMAIN sp
  BY <1>3 DEF Knows
<1> QED
  BY <1>2, <1>3

LEMMA KnowsMore ==
  ASSUME NEW models, NEW c, NEW sp, NEW heard, NEW s, NEW fed, NEW past,
         IsFiniteSet(fed), Knows(models, c, sp, heard, fed, past, s),
         NEW past2, past \subseteq past2, IsFiniteSet(past2)
  PROVE  Knows(models, c, sp, heard, fed, past2, s)
<1>1. IsFiniteSet(past)
  BY FS_Subset
<1>2. Cardinality(From(c, past, s)) <= Cardinality(From(c, past2, s))
  BY FromMonotone
<1>3. /\ Cardinality(From(c, past, s)) \in Nat /\ Cardinality(From(c, past2, s)) \in Nat
      /\ Cardinality(From(c, fed, s)) \in Nat
  BY <1>1, FromFinite
<1>4. Cardinality(From(c, fed, s)) + Cardinality(From(c, past, s))
        <= Cardinality(From(c, fed, s)) + Cardinality(From(c, past2, s))
  BY <1>2, <1>3
<1> QED
  BY <1>1, <1>4, KnowsLater

LEMMA InitSInv == Init => SInv
<1> SUFFICES ASSUME Init PROVE SInv
  OBVIOUS
<1>1. /\ useSpeakerModels = FALSE /\ agents = <<NewAgent>> /\ served = <<>> /\ pc = "starting"
      /\ reports = {}
  BY DEF Init
<1>2. DOMAIN served = {}
  BY <1>1
<1>3. DOMAIN agents = {1} /\ agents[1].speakers = <<>> /\ DOMAIN <<>> = {}
  BY <1>1 DEF NewAgent
<1>4. \A i \in DOMAIN agents : \A s \in Senders :
         Knows(useSpeakerModels, chat, agents[i].speakers, HeardIn(chat, served, i, s),
               reports, Past(served, pc), s)
  BY <1>1, <1>2, <1>3 DEF Knows, HeardIn
<1> QED
  BY <1>1, <1>4 DEF SInv

LEMMA SInvProfiles ==
  ASSUME Places, SInv
  PROVE  \A i \in DOMAIN agents : \A s \in Senders : ProfileIsEarned(i, s)
<1> SUFFICES ASSUME NEW i \in DOMAIN agents, NEW s \in Senders PROVE ProfileIsEarned(i, s)
  OBVIOUS
<1> DEFINE p == agents[i].speakers[s]
           heard == HeardIn(chat, served, i, s)
           past == Past(served, pc)
<1>1. Knows(useSpeakerModels, chat, agents[i].speakers, heard, reports, past, s)
  BY DEF SInv
<1>2. CASE s \notin DOMAIN agents[i].speakers
  BY <1>1, <1>2 DEF Knows, HeardIn, ProfileIsEarned
<1>3. CASE s \in DOMAIN agents[i].speakers
  <2>1. IsProfile(p) /\ Tells(chat, p, heard) /\ Backed(chat, p, reports, past, s)
    BY <1>1, <1>3 DEF Knows
  <2>2. p.corroborated + p.contradicted <= Cardinality(From(chat, DOMAIN served, s))
    <3>1. /\ IsFiniteSet(past) /\ IsFiniteSet(DOMAIN served) /\ past \subseteq DOMAIN served
      BY PastFacts
    <3>2. reports \subseteq past /\ IsFiniteSet(reports)
      BY <3>1, FS_Subset DEF SInv
    <3>3. Cardinality(From(chat, past, s)) <= Cardinality(From(chat, DOMAIN served, s))
      BY <3>1, FromMonotone
    <3>4. /\ Cardinality(From(chat, past, s)) \in Nat /\ Cardinality(From(chat, reports, s)) \in Nat
          /\ Cardinality(From(chat, DOMAIN served, s)) \in Nat
      BY <3>1, <3>2, FromFinite
    <3>5. p.corroborated \in Nat /\ p.contradicted \in Nat
      BY <2>1 DEF IsProfile
    <3> HIDE DEF p, past
    <3> QED
      BY <2>1, <3>3, <3>4, <3>5 DEF Backed
  <2> HIDE DEF p
  <2>3. /\ p.count = Cardinality(heard) /\ Latest(p.recent, heard)
        /\ Len(p.recent) = IF p.count < MaxRecent THEN p.count ELSE MaxRecent
        /\ Classified(p) <= Due(p.count)
        /\ (p.score > 500 => p.corroborated > 0) /\ (p.score < 500 => p.contradicted > 0)
        /\ \E n \in heard : (\A m \in heard : n <= m) /\ p.first = Ts(n)
        /\ p.last = Ts(Last(p.recent))
    BY <2>1 DEF Tells, Counts, Ts
  <2> QED
    BY <1>3, <2>2, <2>3 DEF ProfileIsEarned, Due, From, HeardIn, p
<1> QED
  BY <1>2, <1>3

LEMMA LoadSInv == Places /\ SInv /\ Load => SInv'
<1> SUFFICES ASSUME Places, SInv, Load PROVE SInv'
  OBVIOUS
<1>1. /\ pc = "starting" /\ pc' = "idle" /\ useSpeakerModels' \in Configs /\ agents' = agents
      /\ served' = served /\ reports' = reports
  BY DEF Load, learned
<1>2. served = <<>> /\ DOMAIN served = {} /\ Past(served, pc) = {} /\ Past(served', pc') = {}
  BY <1>1 DEF Places, Past, Calling
<1>3. useSpeakerModels' \in BOOLEAN
  BY <1>1, AgentAssumption
<1>4. ASSUME NEW i \in DOMAIN agents', NEW s \in Senders
      PROVE  Knows(useSpeakerModels', chat', agents'[i].speakers, HeardIn(chat', served', i, s),
                   reports', Past(served', pc'), s)
  <2>1. /\ Knows(useSpeakerModels, chat, agents[i].speakers, HeardIn(chat, served, i, s),
                 reports, Past(served, pc), s)
        /\ HeardIn(chat, served, i, s) = {} /\ HeardIn(chat', served', i, s) = {}
    BY <1>1, <1>2 DEF SInv, HeardIn
  <2>2. s \notin DOMAIN agents[i].speakers
    BY <2>1 DEF Knows, Tells
  <2> QED
    BY <1>1, <2>1, <2>2 DEF Knows
<1> QED
  BY <1>1, <1>2, <1>3, <1>4 DEF SInv
(* An inference keeps the speakers; a message that is admitted too. *)
LEMMA AdmittedSpeakers ==
  ASSUME Places, NEW i \in DOMAIN agents, NEW n, NEW a, IsAgent(a), Admitted(a, i, n)
  PROVE  /\ DOMAIN agents' = DOMAIN agents /\ agents'[i].speakers = a.speakers
         /\ agents'[i].failures = a.failures
         /\ \A j \in DOMAIN agents : j # i => agents'[j] = agents[j]
         /\ pc' = "idle" \/ (pc' = "extracting" /\ budget' = EffectiveRetries(a.failures) /\ tries' = 1)
<1> DEFINE b == [a EXCEPT !.window = Trimmed(@, n)]
<1>1. /\ agents' = [agents EXCEPT ![i] = b]
      /\ \/ pc' = "idle"
         \/ pc' = "extracting" /\ budget' = EffectiveRetries(b.failures) /\ tries' = 1
  BY DEF Admitted, Idles, Asks
<1>2. a = [window |-> a.window, count |-> a.count, failures |-> a.failures,
           speakers |-> a.speakers]
  BY DEF IsAgent
<1>3. b.speakers = a.speakers /\ b.failures = a.failures
  <2> DEFINE w == Trimmed(a.window, n)
  <2>1. b = [a EXCEPT !.window = w]
    OBVIOUS
  <2> HIDE DEF w, b
  <2>2. b = [window |-> w, count |-> a.count, failures |-> a.failures, speakers |-> a.speakers]
    BY <1>2, <2>1
  <2> QED
    BY <2>2
<1> HIDE DEF b
<1>4. agents \in Seq(Range(agents))
  BY DEF Places
<1>5. /\ DOMAIN agents' = DOMAIN agents /\ agents'[i] = b
      /\ \A j \in DOMAIN agents : j # i => agents'[j] = agents[j]
  BY <1>1, <1>4
<1> QED
  BY <1>1, <1>3, <1>5

(* What an agent knows when a message comes in. *)
LEMMA ReceiveKnows ==
  ASSUME Places, SInv, pc = "idle", Now < Len(chat), served' = Append(served, Len(agents)),
         NEW sp, sp = Hearing(agents[Len(agents)], Now + 1).speakers
  PROVE  /\ \A j \in DOMAIN agents : \A s \in Senders :
               Knows(useSpeakerModels, chat, IF j = Len(agents) THEN sp ELSE agents[j].speakers,
                     HeardIn(chat, served', j, s), reports, DOMAIN served, s)
         /\ useSpeakerModels /\ InferenceDue(sp[chat[Now + 1].sender])
              => Owed(sp, chat[Now + 1].sender)
<1> DEFINE i == Len(agents)
           n == Now + 1
           t == chat[n].sender
           old == agents[i].speakers
           heard(j, s) == HeardIn(chat, served, j, s)
<1>1. /\ n \in DOMAIN chat /\ served'[n] = i /\ DOMAIN served' = 1 .. n
      /\ \A m \in DOMAIN served : served'[m] = served[m]
  BY NextMessage
<1>2. /\ Now \in Nat /\ DOMAIN served = 1 .. Now /\ i \in DOMAIN agents /\ n \in Numbers
      /\ chat[n] \in Messages
  BY <1>1, ServedFacts DEF Numbers
<1>3. t \in Senders /\ useSpeakerModels \in BOOLEAN
  BY <1>2 DEF Messages, SInv
<1>4. \A j \in DOMAIN agents : \A s \in Senders :
         Knows(useSpeakerModels, chat, agents[j].speakers, heard(j, s), reports, DOMAIN served, s)
  BY PastFacts DEF SInv, Calling
<1>5. ASSUME NEW j, NEW s
      PROVE  HeardIn(chat, served', j, s) = IF j = i /\ s = t THEN heard(j, s) \cup {n} ELSE heard(j, s)
  <2>1. \A m : m \in DOMAIN served' <=> m \in DOMAIN served \/ m = n
    BY <1>1, <1>2
  <2>2. n \notin DOMAIN served
    BY <1>2
  <2>3. CASE j = i /\ s = t
    BY <1>1, <2>1, <2>2, <2>3 DEF HeardIn
  <2>4. CASE ~(j = i /\ s = t)
    BY <1>1, <2>1, <2>2, <2>4 DEF HeardIn
  <2> QED
    BY <2>3, <2>4
<1>6. \A j, s : \A m \in heard(j, s) : m < n
  BY <1>2 DEF HeardIn
<1>7. agents[i] = [window |-> agents[i].window, count |-> agents[i].count,
                   failures |-> agents[i].failures, speakers |-> old]
  BY <1>2 DEF Places, IsAgent
<1> DEFINE profile == Heard(IF t \in DOMAIN old THEN old[t] ELSE NewProfile(Ts(n)), n, Ts(n))
           with    == [s \in DOMAIN old \cup {t} |-> IF s = t THEN profile ELSE old[s]]
<1>8. sp = IF useSpeakerModels THEN with ELSE old
  <2>1. Hearing(agents[i], n) =
          [agents[i] EXCEPT !.count = @ + 1, !.speakers = IF useSpeakerModels THEN with ELSE old]
    BY DEF Hearing
  <2> DEFINE a == agents[i]
             v == IF useSpeakerModels THEN with ELSE old
  <2> HIDE DEF with, old, a, v
  <2>2. Hearing(a, n) = [window |-> a.window, count |-> a.count + 1, failures |-> a.failures,
                         speakers |-> v]
    BY <1>7, <2>1 DEF a, v, old
  <2>3. Hearing(a, n).speakers = v
    BY <2>2
  <2> QED
    BY <2>3 DEF a, v
<1> HIDE DEF with
<1>9. CASE ~useSpeakerModels
  <2>1. sp = old
    BY <1>8, <1>9
  <2>2. ASSUME NEW j \in DOMAIN agents, NEW s \in Senders
        PROVE  Knows(useSpeakerModels, chat, IF j = i THEN sp ELSE agents[j].speakers,
                     HeardIn(chat, served', j, s), reports, DOMAIN served, s)
    <3>1. (IF j = i THEN sp ELSE agents[j].speakers) = agents[j].speakers
      BY <2>1
    <3>2. s \notin DOMAIN agents[j].speakers
      BY <1>4, <1>9 DEF Knows
    <3> QED
      BY <1>9, <3>1, <3>2 DEF Knows
  <2> QED
    BY <1>9, <2>2
<1>10. CASE useSpeakerModels
  <2>1. sp = with
    BY <1>8, <1>10
  <2>2. DOMAIN with = DOMAIN old \cup {t} /\ with[t] = profile /\ \A s \in DOMAIN old : s # t => with[s] = old[s]
    BY DEF with
  <2>3. Knows(useSpeakerModels, chat, old, heard(i, t), reports, DOMAIN served, t)
    BY <1>2, <1>3, <1>4
  (* The profile before it hears this message, whether there was one or not. *)
  <2>4. PICK p : /\ p = IF t \in DOMAIN old THEN old[t] ELSE NewProfile(Ts(n))
                 /\ IsProfile(p) /\ Counts(p, heard(i, t)) /\ Backed(chat, p, reports, DOMAIN served, t)
                 /\ \E m \in heard(i, t) \cup {n} : (\A k \in heard(i, t) \cup {n} : m <= k) /\ p.first = Ts(m)
    <3>1. CASE t \in DOMAIN old
      <4>1. IsProfile(old[t]) /\ Tells(chat, old[t], heard(i, t)) /\ Backed(chat, old[t], reports, DOMAIN served, t)
        BY <2>3, <3>1 DEF Knows
      <4>2. PICK m \in heard(i, t) : (\A k \in heard(i, t) : m <= k) /\ old[t].first = chat[m].ts
        BY <4>1 DEF Tells
      <4>3. m <= n
        BY <1>2, <4>2 DEF HeardIn
      <4> HIDE DEF old, n, i, t, heard
      <4> QED
        BY <3>1, <4>1, <4>2, <4>3 DEF Tells, Ts
    <3>2. CASE t \notin DOMAIN old
      <4>1. heard(i, t) = {}
        BY <1>10, <2>3, <3>2 DEF Knows
      <4> DEFINE p == NewProfile(Ts(n))
      <4>2. /\ IsProfile(p) /\ Counts(p, {}) /\ p.first = Ts(n) /\ p.corroborated = 0 /\ p.contradicted = 0
        BY NewCounts
      <4> HIDE DEF p
      <4>3. Backed(chat, p, reports, DOMAIN served, t)
        <5>1. reports \subseteq DOMAIN served /\ IsFiniteSet(DOMAIN served)
          BY PastFacts DEF SInv
        <5>2. Cardinality(From(chat, reports, t)) <= Cardinality(From(chat, DOMAIN served, t))
          BY <5>1, FromMonotone
        <5>3. Cardinality(From(chat, reports, t)) \in Nat
          BY <5>1, FS_Subset, FromFinite
        <5> QED
          BY <4>2, <5>2, <5>3 DEF Backed
      <4>4. n <= n
        BY <1>2
      <4> HIDE DEF old, n, i, t, heard
      <4> QED
        BY <3>2, <4>1, <4>2, <4>3, <4>4 DEF p
    <3> QED
      BY <3>1, <3>2
  <2> DEFINE q == Heard(p, n, Ts(n))
  <2>5. profile = q
    BY <2>4
  <2> HIDE DEF profile
  <2>6. /\ IsProfile(q) /\ Counts(q, heard(i, t) \cup {n}) /\ q.first = p.first /\ q.last = Ts(n)
        /\ Last(q.recent) = n /\ q.corroborated = p.corroborated
        /\ q.contradicted = p.contradicted
        /\ InferenceDue(q) => Classified(q) + 1 <= Due(q.count)
    <3> DEFINE hs == heard(i, t)
               ts == Ts(n)
    <3>1. IsProfile(p) /\ Counts(p, hs) /\ n \in Numbers /\ \A m \in hs : m < n
      BY <1>2, <1>6, <2>4
    <3> HIDE DEF hs, ts, n
    <3>2. LET r == Heard(p, n, ts) IN
          /\ IsProfile(r) /\ Counts(r, hs \cup {n}) /\ r.first = p.first /\ r.last = ts
          /\ Last(r.recent) = n /\ r.corroborated = p.corroborated
          /\ r.contradicted = p.contradicted
          /\ InferenceDue(r) => Classified(r) + 1 <= Due(r.count)
      BY <3>1, HeardCounts
    <3> QED
      BY <3>2 DEF hs, ts
  <2> HIDE DEF q
  <2>7. Tells(chat, q, heard(i, t) \cup {n})
    BY <2>4, <2>6 DEF Tells, Ts
  <2>8. Backed(chat, q, reports, DOMAIN served, t)
    BY <2>4, <2>6 DEF Backed
  <2>9. Knows(useSpeakerModels, chat, sp, heard(i, t) \cup {n}, reports, DOMAIN served, t)
    BY <1>10, <2>1, <2>2, <2>5, <2>6, <2>7, <2>8 DEF Knows
  <2>10. ASSUME NEW j \in DOMAIN agents, NEW s \in Senders
         PROVE  Knows(useSpeakerModels, chat, IF j = i THEN sp ELSE agents[j].speakers,
                      HeardIn(chat, served', j, s), reports, DOMAIN served, s)
    <3>1. CASE j = i /\ s = t
      BY <1>5, <2>9, <3>1
    <3>2. CASE j = i /\ s # t
      <4>1. Knows(useSpeakerModels, chat, old, heard(i, s), reports, DOMAIN served, s)
        BY <1>2, <1>4
      <4>2. /\ s \in DOMAIN sp <=> s \in DOMAIN old
            /\ s \in DOMAIN old => sp[s] = old[s]
        BY <2>1, <2>2, <3>2
      <4>3. Knows(useSpeakerModels, chat, sp, heard(i, s), reports, DOMAIN served, s)
        BY <4>1, <4>2 DEF Knows
      <4> QED
        BY <1>5, <3>2, <4>3
    <3>3. CASE j # i
      BY <1>4, <1>5, <3>3
    <3> QED
      BY <3>1, <3>2, <3>3
  <2>11. InferenceDue(sp[t]) => Owed(sp, t)
    BY <2>1, <2>2, <2>5, <2>6 DEF Owed
  <2> QED
    BY <2>10, <2>11
<1> QED
  BY <1>3, <1>9, <1>10

LEMMA ReceiveSInv == Places /\ SInv /\ Receive => SInv'
<1> SUFFICES ASSUME Places, SInv, Receive PROVE SInv'
  OBVIOUS
<1> DEFINE i == Len(agents)
           n == Now + 1
           t == chat[n].sender
           a == Hearing(agents[i], n)
           sp == a.speakers
<1>1. /\ pc = "idle" /\ Now < Len(chat) /\ served' = Append(served, i)
      /\ chat' = chat /\ useSpeakerModels' = useSpeakerModels /\ reports' = reports
      /\ \/ /\ useSpeakerModels /\ InferenceDue(sp[t])
            /\ agents' = [agents EXCEPT ![i] = a] /\ pc' = "inferring"
         \/ Admitted(a, i, n)
  BY DEF Receive, config, Asks
<1>2. /\ \A j \in DOMAIN agents : \A s \in Senders :
            Knows(useSpeakerModels, chat, IF j = i THEN sp ELSE agents[j].speakers,
                  HeardIn(chat, served', j, s), reports, DOMAIN served, s)
      /\ useSpeakerModels /\ InferenceDue(sp[t]) => Owed(sp, t)
  BY <1>1, ReceiveKnows
<1>3. /\ Len(served') = n /\ served'[n] = i /\ DOMAIN served' = 1 .. n /\ Now \in Nat
      /\ DOMAIN served = 1 .. Now /\ i \in DOMAIN agents /\ IsAgent(agents[i])
  BY <1>1, NextMessage, ServedFacts DEF Places
<1>4. IsAgent(a) /\ agents \in Seq(Range(agents))
  BY <1>3, HearingKeeps DEF Places
<1> HIDE DEF a
<1>5. /\ DOMAIN agents' = DOMAIN agents /\ agents'[i].speakers = sp
      /\ \A j \in DOMAIN agents : j # i => agents'[j] = agents[j]
      /\ pc' = "inferring" => useSpeakerModels /\ InferenceDue(sp[t])
  <2>1. CASE Admitted(a, i, n)
    BY <1>3, <1>4, <2>1, AdmittedSpeakers
  <2>2. CASE /\ useSpeakerModels /\ InferenceDue(sp[t])
             /\ agents' = [agents EXCEPT ![i] = a] /\ pc' = "inferring"
    BY <1>3, <1>4, <2>2
  <2> QED
    BY <1>1, <2>1, <2>2
<1>6. /\ DOMAIN served \subseteq Past(served', pc') /\ IsFiniteSet(Past(served', pc'))
      /\ reports' \subseteq Past(served', pc') /\ IsFiniteSet(reports)
  <2>1. Past(served', pc') = 1 .. Now \/ Past(served', pc') = 1 .. n
    BY <1>3 DEF Past
  <2>2. DOMAIN served \subseteq Past(served', pc') /\ IsFiniteSet(Past(served', pc'))
    <3>1. IsFiniteSet(1 .. Now) /\ IsFiniteSet(1 .. (Now + 1))
      <4>1. 1 \in Int /\ Now \in Int /\ Now + 1 \in Int
        BY <1>3
      <4> QED
        BY ONLY <4>1, FS_Interval
    <3>2. 1 .. Now \subseteq 1 .. (Now + 1)
      BY ONLY <1>3
    <3> QED
      BY <1>3, <2>1, <3>1, <3>2
  <2>3. reports \subseteq DOMAIN served /\ IsFiniteSet(DOMAIN served)
    BY PastFacts DEF SInv
  <2> QED
    BY <1>1, <2>2, <2>3, FS_Subset
<1>7. ASSUME NEW j \in DOMAIN agents', NEW s \in Senders
      PROVE  Knows(useSpeakerModels', chat', agents'[j].speakers, HeardIn(chat', served', j, s),
                   reports', Past(served', pc'), s)
  <2>1. Knows(useSpeakerModels, chat, IF j = i THEN sp ELSE agents[j].speakers,
              HeardIn(chat, served', j, s), reports, DOMAIN served, s)
    BY <1>2, <1>5
  <2>2. (IF j = i THEN sp ELSE agents[j].speakers) = agents'[j].speakers
    BY <1>5
  <2>3. Knows(useSpeakerModels, chat, agents'[j].speakers,
              HeardIn(chat, served', j, s), reports, DOMAIN served, s)
    BY <2>1, <2>2
  <2>4. Knows(useSpeakerModels, chat, agents'[j].speakers,
              HeardIn(chat, served', j, s), reports, Past(served', pc'), s)
    BY <1>6, <2>3, KnowsMore
  <2> QED
    BY <1>1, <2>4
<1>8. pc' = "inferring" => Owed(agents'[Hand'].speakers, chat'[Now'].sender)
  <2>1. Now' = n /\ Hand' = i
    BY <1>3 DEF Now, Hand
  <2> QED
    BY <1>1, <1>2, <1>5, <2>1
<1> QED
  BY <1>1, <1>6, <1>7, <1>8 DEF SInv
LEMMA UnchangedSInv ==
  ASSUME SInv, UNCHANGED <<chat, useSpeakerModels, agents, served, pc, reports>>
  PROVE  SInv'
BY DEF SInv, HeardIn, Hand, Now

(* After an inference its message is extracted from, with what the agent knows now. *)
LEMMA InferredSInv ==
  ASSUME Places, SInv, pc = "inferring", UNCHANGED <<chat, served, useSpeakerModels, reports>>,
         NEW a, IsAgent(a), Admitted(a, Hand, Now),
         \A s \in Senders : Knows(useSpeakerModels, chat, a.speakers, HeardIn(chat, served, Hand, s),
                                  reports, Past(served, pc), s)
  PROVE  SInv'
<1> DEFINE h == Hand
           past == Past(served, pc)
           later == Past(served, pc')
<1>1. /\ h \in DOMAIN agents /\ IsFiniteSet(past) /\ IsFiniteSet(DOMAIN served)
      /\ past \subseteq DOMAIN served
  BY PastFacts, ServedFacts DEF Calling, Hand
<1>2. /\ DOMAIN agents' = DOMAIN agents /\ agents'[h].speakers = a.speakers
      /\ \A j \in DOMAIN agents : j # h => agents'[j] = agents[j]
      /\ pc' = "idle" \/ pc' = "extracting"
  <2>1. Places /\ h \in DOMAIN agents /\ IsAgent(a) /\ Admitted(a, h, Now)
    BY <1>1
  <2> HIDE DEF h
  <2> QED
    BY <2>1, AdmittedSpeakers
<1>3. past \subseteq later /\ IsFiniteSet(later)
  <2>1. past = 1 .. Len(served) - 1 /\ (later = 1 .. Len(served) - 1 \/ later = 1 .. Len(served))
    BY <1>2 DEF Past, Calling
  <2>2. Len(served) \in Nat /\ DOMAIN served = 1 .. Len(served)
    BY ServedFacts DEF Now
  <2>3. 1 .. Len(served) - 1 \subseteq 1 .. Len(served)
    BY ONLY <2>2
  <2> HIDE DEF past, later
  <2> QED
    BY <1>1, <2>1, <2>2, <2>3
<1>4. reports \subseteq later /\ IsFiniteSet(reports)
  <2>1. reports \subseteq past
    BY DEF SInv
  <2> HIDE DEF past, later
  <2> QED
    BY <1>1, <1>3, <2>1, FS_Subset
<1>5. ASSUME NEW j \in DOMAIN agents, NEW s \in Senders
      PROVE  Knows(useSpeakerModels, chat, agents'[j].speakers, HeardIn(chat, served, j, s),
                   reports, later, s)
  <2>1. Knows(useSpeakerModels, chat, agents'[j].speakers, HeardIn(chat, served, j, s),
              reports, past, s)
    <3>1. CASE j = h
      BY <1>2, <3>1
    <3>2. CASE j # h
      BY <1>2, <3>2 DEF SInv
    <3> QED
      BY <3>1, <3>2
  <2> HIDE DEF past, later
  <2> QED
    BY <1>3, <1>4, <2>1, KnowsMore
<1>6. useSpeakerModels \in BOOLEAN
  BY DEF SInv
<1> QED
  BY <1>2, <1>4, <1>5, <1>6 DEF SInv, HeardIn

LEMMA InferSInv ==
  ASSUME Places, SInv, NEW ending, Infer(ending)
  PROVE  SInv'
<1> DEFINE h == Hand
           t == chat[Now].sender
           past == Past(served, pc)
<1>1. pc = "inferring" /\ UNCHANGED <<chat, served, useSpeakerModels, reports>>
  BY DEF Infer, config
<1>2. h \in DOMAIN agents /\ t \in Senders
  BY <1>1, PastFacts, ServedFacts DEF Calling, Hand, Messages
<1>3. \A s \in Senders : Knows(useSpeakerModels, chat, agents[h].speakers,
                               HeardIn(chat, served, h, s), reports, past, s)
  BY <1>2 DEF SInv
<1>4. IsAgent(Called(ending)) /\ Called(ending).speakers = agents[Hand].speakers
  BY <1>2, CalledKeeps
<1>5. CASE Admitted(Called(ending), Hand, Now)
  <2>1. \A s \in Senders : Knows(useSpeakerModels, chat, Called(ending).speakers,
                                 HeardIn(chat, served, Hand, s), reports, Past(served, pc), s)
    BY <1>3, <1>4
  <2> QED
    BY <1>1, <1>4, <1>5, <2>1, InferredSInv
<1>6. ASSUME NEW r, Admitted([Called(ending) EXCEPT !.speakers[chat[Now].sender] = Learned(@, r)],
                             Hand, Now)
      PROVE  SInv'
  <2> DEFINE old   == agents[h].speakers
             known == [Called(ending).speakers EXCEPT ![t] = Learned(@, r)]
             a     == [Called(ending) EXCEPT !.speakers = known]
  <2>1. [Called(ending) EXCEPT !.speakers[chat[Now].sender] = Learned(@, r)] = a
    OBVIOUS
  <2>2. IsAgent(a) /\ a.speakers = known
    <3> DEFINE b == Called(ending)
    <3>1. b = [window |-> b.window, count |-> b.count, failures |-> b.failures,
               speakers |-> b.speakers]
      BY <1>4 DEF IsAgent
    <3>2. IsAgent(a)
      <4> HIDE DEF known
      <4> QED
        BY <1>2, CalledKeeps
    <3> HIDE DEF b, known
    <3>3. [b EXCEPT !.speakers = known] =
            [window |-> b.window, count |-> b.count, failures |-> b.failures, speakers |-> known]
      BY <3>1
    <3>4. [b EXCEPT !.speakers = known].speakers = known
      BY <3>3
    <3> QED
      BY <3>2, <3>4 DEF b
  <2>3. Owed(old, t)
    BY <1>1 DEF SInv
  <2>4. known = [old EXCEPT ![t] = Learned(old[t], r)]
    BY <1>4, <2>3 DEF Owed
  <2>5. /\ DOMAIN known = DOMAIN old /\ known[t] = Learned(old[t], r)
        /\ \A s \in DOMAIN old : s # t => known[s] = old[s]
    <3>1. known = [s \in DOMAIN old |-> IF s = t THEN Learned(old[t], r) ELSE old[s]]
      BY <2>4
    <3>2. t \in DOMAIN old
      BY <2>3 DEF Owed
    <3> HIDE DEF known, old, t
    <3> QED
      BY <3>1, <3>2
  <2> HIDE DEF a, known
  <2>6. ASSUME NEW s \in Senders
        PROVE  Knows(useSpeakerModels, chat, known, HeardIn(chat, served, h, s), reports, past, s)
    <3> DEFINE heard == HeardIn(chat, served, h, s)
    <3>1. Knows(useSpeakerModels, chat, old, heard, reports, past, s)
      BY <1>3
    <3>2. CASE s = t
      <4> DEFINE p == old[t]
                 q == Learned(p, r)
      <4>1. /\ useSpeakerModels /\ IsProfile(p) /\ Tells(chat, p, heard)
            /\ Backed(chat, p, reports, past, s) /\ Classified(p) + 1 <= Due(p.count)
        BY <2>3, <3>1, <3>2 DEF Knows, Owed
      <4>2. /\ IsProfile(q) /\ Tells(chat, q, heard) /\ q.corroborated = p.corroborated
            /\ q.contradicted = p.contradicted
        <5> HIDE DEF p, heard
        <5> QED
          BY <4>1, LearnedCounts
      <4>3. Backed(chat, q, reports, past, s)
        BY <4>1, <4>2 DEF Backed
      <4>4. t \in DOMAIN known /\ known[t] = q
        BY <2>3, <2>5 DEF Owed
      <4> HIDE DEF q, past, t, p, old, h
      <4> QED
        BY ONLY <3>2, <4>1, <4>2, <4>3, <4>4 DEF Knows
    <3>3. CASE s # t
      <4>1. /\ s \in DOMAIN known <=> s \in DOMAIN old
            /\ s \in DOMAIN old => known[s] = old[s]
        BY <2>5, <3>3
      <4>2. useSpeakerModels \in BOOLEAN
        BY DEF SInv
      <4> HIDE DEF old, past, t, h
      <4> QED
        BY ONLY <3>1, <4>1, <4>2 DEF Knows
    <3> QED
      BY <3>2, <3>3
  <2>7. \A s \in Senders : Knows(useSpeakerModels, chat, a.speakers,
                                 HeardIn(chat, served, Hand, s), reports, Past(served, pc), s)
    BY <2>2, <2>6
  <2> QED
    BY <1>1, <1>6, <2>1, <2>2, <2>7, InferredSInv
<1> QED
  BY <1>5, <1>6 DEF Infer

(* An update that is returned may get feedback, one for each message. *)
LEMMA ReturnedSInv ==
  ASSUME Places, SInv, pc = "extracting", UNCHANGED <<chat, served, useSpeakerModels>>,
         NEW r, Return(r), DOMAIN agents' = DOMAIN agents,
         \A j \in DOMAIN agents : agents'[j].speakers = agents[j].speakers
  PROVE  SInv'
<1> DEFINE past == Past(served, pc)
           later == Past(served, pc')
           fed == reports
           fed2 == reports'
<1>1. pc' = "idle" /\ (reports' = reports \/ reports' = reports \cup {Now})
  BY DEF Return, Idles
<1>2. /\ later = past \cup {Now} /\ Now \notin past /\ IsFiniteSet(past)
      /\ useSpeakerModels \in BOOLEAN /\ fed \subseteq past
  <2>1. Now \in Nat /\ later = 1 .. Now
    BY <1>1, ServedFacts DEF Past, Calling, Now
  <2> QED
    BY <2>1, PastFacts DEF Calling, SInv
<1> HIDE DEF past, later
<1>3. IsFiniteSet(fed) /\ IsFiniteSet(later) /\ past \subseteq later /\ fed2 \subseteq later /\ Now \notin fed
  BY <1>1, <1>2, FS_Subset, FS_AddElement
<1>4. IsFiniteSet(fed2)
  BY <1>3, FS_Subset
<1>5. ASSUME NEW j \in DOMAIN agents, NEW s \in Senders
      PROVE  Knows(useSpeakerModels, chat, agents'[j].speakers, HeardIn(chat, served, j, s),
                   fed2, later, s)
  <2>1. Knows(useSpeakerModels, chat, agents'[j].speakers, HeardIn(chat, served, j, s),
              fed, past, s)
    BY DEF SInv, past
  <2>2. CASE fed2 = fed
    BY <1>2, <1>3, <2>1, <2>2, KnowsMore
  <2>3. CASE fed2 = fed \cup {Now}
    <3>1. /\ Cardinality(From(chat, fed, s)) \in Nat /\ Cardinality(From(chat, past, s)) \in Nat
      BY <1>2, <1>3, FromFinite
    <3>2. Cardinality(From(chat, fed2, s)) =
            IF chat[Now].sender = s THEN Cardinality(From(chat, fed, s)) + 1
            ELSE Cardinality(From(chat, fed, s))
      BY <1>3, <2>3, FromAdd
    <3>3. Cardinality(From(chat, later, s)) =
            IF chat[Now].sender = s THEN Cardinality(From(chat, past, s)) + 1
            ELSE Cardinality(From(chat, past, s))
      BY <1>2, FromAdd
    <3>4. Cardinality(From(chat, fed2, s)) + Cardinality(From(chat, past, s))
            <= Cardinality(From(chat, fed, s)) + Cardinality(From(chat, later, s))
      BY ONLY <3>1, <3>2, <3>3
    <3> QED
      BY <1>2, <1>3, <1>4, <2>1, <3>4, KnowsLater
  <2> QED
    BY <1>1, <2>2, <2>3
<1> QED
  BY <1>1, <1>2, <1>3, <1>5 DEF SInv, HeardIn, later

LEMMA ExtractSInv ==
  ASSUME Places, SInv, NEW ending, Extract(ending)
  PROVE  SInv'
<1>1. /\ pc = "extracting" /\ UNCHANGED <<chat, served, useSpeakerModels>>
      /\ agents' = [agents EXCEPT ![Hand] = Called(ending)]
  BY DEF Extract, config
<1>2. PICK r : Return(r)
  BY DEF Extract
<1>3. Hand \in DOMAIN agents /\ agents \in Seq(Range(agents))
  BY <1>1, PastFacts, ServedFacts DEF Calling, Hand, Places
<1>4. Called(ending).speakers = agents[Hand].speakers
  BY <1>3, CalledKeeps
<1>5. /\ DOMAIN agents' = DOMAIN agents
      /\ \A j \in DOMAIN agents : agents'[j].speakers = agents[j].speakers
  BY <1>1, <1>3, <1>4
<1> QED
  BY <1>1, <1>2, <1>5, ReturnedSInv

LEMMA SkipModelSInv == Places /\ SInv /\ SkipModel => SInv'
<1> SUFFICES ASSUME Places, SInv, SkipModel PROVE SInv'
  OBVIOUS
<1>1. pc \in Calling /\ UNCHANGED <<chat, served, useSpeakerModels>>
  BY DEF SkipModel, config, Calling
<1>2. Hand \in DOMAIN agents
  BY <1>1, PastFacts, ServedFacts DEF Hand
<1>3. CASE pc = "inferring"
  <2>1. /\ Admitted(agents[Hand], Hand, Now) /\ reports' = reports
    BY <1>3 DEF SkipModel
  <2>2. IsAgent(agents[Hand])
    BY <1>2 DEF Places
  <2>3. \A s \in Senders : Knows(useSpeakerModels, chat, agents[Hand].speakers,
                                 HeardIn(chat, served, Hand, s), reports, Past(served, pc), s)
    BY <1>2 DEF SInv
  <2> QED
    BY <1>1, <1>3, <2>1, <2>2, <2>3, InferredSInv
<1>4. CASE pc = "extracting"
  <2>1. Return(OfRegex) /\ agents' = agents
    BY <1>4 DEF SkipModel
  <2> QED
    BY <1>1, <1>4, <2>1, ReturnedSInv
<1> QED
  BY <1>1, <1>3, <1>4 DEF Calling

LEMMA RestartSInv == Places /\ SInv /\ Restart => SInv'
<1> SUFFICES ASSUME Places, SInv, Restart PROVE SInv'
  OBVIOUS
<1>1. /\ agents' = Append(agents, NewAgent)
      /\ UNCHANGED <<chat, served, useSpeakerModels, pc, reports>>
  BY DEF Restart, config, call
<1>2. NewAgent.speakers = <<>> /\ DOMAIN <<>> = {}
  BY DEF NewAgent
<1>3. /\ DOMAIN agents' = 1 .. Len(agents) + 1 /\ agents'[Len(agents) + 1] = NewAgent
      /\ \A j \in DOMAIN agents : agents'[j] = agents[j]
      /\ DOMAIN agents = 1 .. Len(agents) /\ Len(agents) \in Nat
  BY <1>1, ServedFacts DEF Places
<1>4. \A n \in DOMAIN served : served[n] \in DOMAIN agents
  BY ServedFacts
<1>5. ASSUME NEW j \in DOMAIN agents', NEW s \in Senders
      PROVE  Knows(useSpeakerModels, chat, agents'[j].speakers, HeardIn(chat, served, j, s),
                   reports, Past(served, pc), s)
  <2>1. CASE j \in DOMAIN agents
    BY <1>3, <2>1 DEF SInv
  <2>2. CASE j = Len(agents) + 1
    <3>1. HeardIn(chat, served, j, s) = {}
      BY <1>3, <1>4, <2>2 DEF HeardIn
    <3> QED
      BY <1>2, <1>3, <2>2, <3>1 DEF Knows
  <2> QED
    BY <1>3, <2>1, <2>2
<1>6. pc = "inferring" => agents'[Hand] = agents[Hand]
  BY <1>3, PastFacts, <1>4 DEF Calling, Hand
<1> QED
  BY <1>1, <1>5, <1>6 DEF SInv, HeardIn, Hand, Now
(* Feedback about an update is counted in one profile, and is not given again. *)
LEMMA FeedbackSInv ==
  ASSUME Places, SInv, NEW n \in reports,
         NEW type \in {"corroborated", "contradicted", "deduplicated"}, Feedback(n, type)
  PROVE  SInv'
<1> DEFINE i == Len(agents)
           t == chat[n].sender
           old == agents[i].speakers
           known == [s \in DOMAIN old |-> IF s = t THEN Reviewed(old[s], type) ELSE old[s]]
           b == [agents[i] EXCEPT !.speakers = known]
           fed == reports
           fed2 == reports'
           past == Past(served, pc)
<1>1. /\ pc = "idle" /\ fed2 = fed \ {n} /\ agents' = [agents EXCEPT ![i] = b]
      /\ UNCHANGED <<chat, served, pc, useSpeakerModels>>
  <2>1. i \in DOMAIN agents /\ agents \in Seq(Range(agents))
    BY ServedFacts DEF Places
  <2> QED
    BY <2>1 DEF Feedback, config, call
<1>2. i \in DOMAIN agents /\ IsAgent(agents[i]) /\ agents \in Seq(Range(agents))
  BY ServedFacts DEF Places
<1>3. b.speakers = known
  <2> DEFINE a == agents[i]
  <2>1. a = [window |-> a.window, count |-> a.count, failures |-> a.failures,
             speakers |-> a.speakers]
    BY <1>2 DEF IsAgent
  <2> HIDE DEF known, i, a
  <2>2. b = [window |-> a.window, count |-> a.count, failures |-> a.failures, speakers |-> known]
    BY <2>1 DEF a
  <2> QED
    BY <2>2
<1> HIDE DEF b
<1>4. /\ DOMAIN agents' = DOMAIN agents /\ agents'[i].speakers = known
      /\ \A j \in DOMAIN agents : j # i => agents'[j] = agents[j]
  BY <1>1, <1>2, <1>3
<1>5. /\ DOMAIN known = DOMAIN old
      /\ t \in DOMAIN old => known[t] = Reviewed(old[t], type)
      /\ \A s \in DOMAIN old : s # t => known[s] = old[s]
  <2> HIDE DEF old, t
  <2> QED
    OBVIOUS
<1> HIDE DEF known
<1>6. IsFiniteSet(past) /\ fed \subseteq past /\ useSpeakerModels \in BOOLEAN
  BY PastFacts DEF SInv
<1>7. IsFiniteSet(fed) /\ IsFiniteSet(fed2) /\ fed2 \subseteq past /\ n \notin fed2
      /\ fed = fed2 \cup {n} /\ fed2 \subseteq fed
  <2>1. fed2 \subseteq fed /\ n \notin fed2 /\ fed = fed2 \cup {n}
    BY <1>1
  <2> HIDE DEF past
  <2> QED
    BY <1>6, <2>1, FS_Subset
<1>8. ASSUME NEW s
      PROVE  /\ Cardinality(From(chat, fed, s)) \in Nat /\ Cardinality(From(chat, past, s)) \in Nat
             /\ Cardinality(From(chat, fed2, s)) \in Nat
             /\ Cardinality(From(chat, fed, s)) = IF t = s THEN Cardinality(From(chat, fed2, s)) + 1
                                                  ELSE Cardinality(From(chat, fed2, s))
  <2>1. Cardinality(From(chat, fed2 \cup {n}, s)) =
          IF chat[n].sender = s THEN Cardinality(From(chat, fed2, s)) + 1
          ELSE Cardinality(From(chat, fed2, s))
    BY <1>7, FromAdd
  <2>2. Cardinality(From(chat, fed, s)) = IF t = s THEN Cardinality(From(chat, fed2, s)) + 1
                                          ELSE Cardinality(From(chat, fed2, s))
    BY <1>7, <2>1
  <2> HIDE DEF past
  <2> QED
    BY <1>6, <1>7, <2>2, FromFinite
<1>9. ASSUME NEW sp, NEW heard, NEW s, Knows(useSpeakerModels, chat, sp, heard, fed, past, s)
      PROVE  Knows(useSpeakerModels, chat, sp, heard, fed2, past, s)
  <2>1. Cardinality(From(chat, fed2, s)) + Cardinality(From(chat, past, s))
          <= Cardinality(From(chat, fed, s)) + Cardinality(From(chat, past, s))
    <3> HIDE DEF t, past
    <3> QED
      BY <1>8
  <2> HIDE DEF past
  <2> QED
    BY <1>6, <1>7, <1>9, <2>1, KnowsLater
<1>10. ASSUME NEW j \in DOMAIN agents, NEW s \in Senders
       PROVE  Knows(useSpeakerModels, chat, agents'[j].speakers, HeardIn(chat, served, j, s),
                    fed2, past, s)
  <2> DEFINE heard == HeardIn(chat, served, j, s)
  <2>1. Knows(useSpeakerModels, chat, agents[j].speakers, heard, fed, past, s)
    BY DEF SInv
  <2>2. Knows(useSpeakerModels, chat, agents[j].speakers, heard, fed2, past, s)
    <3> HIDE DEF heard, past
    <3> QED
      BY <1>9, <2>1
  <2>3. CASE j # i
    BY <1>4, <2>2, <2>3
  <2>4. CASE j = i /\ (s # t \/ s \notin DOMAIN old)
    <3>1. /\ s \in DOMAIN known <=> s \in DOMAIN old
          /\ s \in DOMAIN old => known[s] = old[s]
      BY <1>5, <2>4
    <3>2. Knows(useSpeakerModels, chat, old, heard, fed2, past, s) /\ agents'[j].speakers = known
      BY <1>4, <2>2, <2>4
    <3> HIDE DEF past, old
    <3>3. Knows(useSpeakerModels, chat, known, heard, fed2, past, s)
      BY ONLY <1>6, <3>1, <3>2 DEF Knows
    <3> QED
      BY <3>2, <3>3
  <2>5. CASE j = i /\ s = t /\ s \in DOMAIN old
    <3> DEFINE p == old[s]
               q == Reviewed(p, type)
    <3>1. useSpeakerModels /\ IsProfile(p) /\ Tells(chat, p, heard) /\ Backed(chat, p, fed, past, s)
      BY <2>1, <2>5 DEF Knows
    <3>2. /\ IsProfile(q) /\ Tells(chat, q, heard)
          /\ q.corroborated + q.contradicted <= p.corroborated + p.contradicted + 1
      <4> HIDE DEF p, heard
      <4> QED
        BY <3>1, ReviewedCounts
    <3>3. s \in DOMAIN known /\ known[s] = q /\ agents'[j].speakers = known
      BY <1>4, <1>5, <2>5
    <3> HIDE DEF past, old, p, q
    <3>4. Backed(chat, q, fed2, past, s)
      <4>1. /\ p.corroborated \in Nat /\ p.contradicted \in Nat /\ q.corroborated \in Nat
            /\ q.contradicted \in Nat
        BY <3>1, <3>2 DEF IsProfile
      <4>2. p.corroborated + p.contradicted + Cardinality(From(chat, fed, s))
              <= Cardinality(From(chat, past, s))
        BY <3>1 DEF Backed
      <4>3. /\ Cardinality(From(chat, fed, s)) = Cardinality(From(chat, fed2, s)) + 1
            /\ Cardinality(From(chat, fed2, s)) \in Nat /\ Cardinality(From(chat, past, s)) \in Nat
        BY <1>8, <2>5
      <4>4. q.corroborated + q.contradicted + Cardinality(From(chat, fed2, s))
              <= Cardinality(From(chat, past, s))
        BY ONLY <3>2, <4>1, <4>2, <4>3
      <4> QED
        BY <4>4 DEF Backed
    <3>5. Knows(useSpeakerModels, chat, known, heard, fed2, past, s)
      BY ONLY <3>1, <3>2, <3>3, <3>4 DEF Knows
    <3> QED
      BY <3>3, <3>5
  <2> QED
    BY <2>3, <2>4, <2>5
<1>11. /\ reports' \subseteq Past(served', pc') /\ useSpeakerModels' \in BOOLEAN
       /\ pc' # "inferring"
  <2>1. Past(served', pc') = past
    BY <1>1
  <2> HIDE DEF past
  <2> QED
    BY <1>1, <1>6, <1>7, <2>1
<1>12. ASSUME NEW j \in DOMAIN agents', NEW s \in Senders
       PROVE  Knows(useSpeakerModels', chat', agents'[j].speakers, HeardIn(chat', served', j, s),
                    reports', Past(served', pc'), s)
  <2>1. Knows(useSpeakerModels, chat, agents'[j].speakers, HeardIn(chat, served, j, s),
              reports', Past(served, pc), s)
    BY <1>4, <1>10
  <2> QED
    BY <1>1, <2>1
<1> QED
  BY <1>11, <1>12 DEF SInv

LEMMA NextSInv == Places /\ SInv /\ [Next]_vars => SInv'
<1> SUFFICES ASSUME Places, SInv, [Next]_vars PROVE SInv'
  OBVIOUS
<1>1. CASE Load
  BY <1>1, LoadSInv
<1>2. CASE Receive
  BY <1>2, ReceiveSInv
<1>3. CASE AskAgain
  BY <1>3, UnchangedSInv DEF AskAgain, config, learned
<1>4. CASE SkipModel
  BY <1>4, SkipModelSInv
<1>5. CASE Restart
  BY <1>5, RestartSInv
<1>6. ASSUME NEW ending \in Endings, Infer(ending) PROVE SInv'
  BY <1>6, InferSInv
<1>7. ASSUME NEW ending \in Endings, Extract(ending) PROVE SInv'
  BY <1>7, ExtractSInv
<1>8. ASSUME NEW n \in reports, NEW type \in {"corroborated", "contradicted", "deduplicated"},
             Feedback(n, type)
      PROVE  SInv'
  BY <1>8, FeedbackSInv
<1>9. CASE UNCHANGED vars
  BY <1>9, UnchangedSInv DEF vars, config, learned, call
<1> QED
  BY <1>1, <1>2, <1>3, <1>4, <1>5, <1>6, <1>7, <1>8, <1>9 DEF Next
-----------------------------------------------------------------------------
(* RETRIES *)

TextLast(o) == o # <<>> /\ Last(o) = "text"

(* A call has the retries that the answers before it left it. *)
RInv ==
    /\ outcomes \in Seq(Seq({"good", "text"})) /\ Len(outcomes) = Len(agents)
    /\ \A i \in DOMAIN agents : /\ agents[i].failures \in Nat
                                /\ agents[i].failures > 0 <=> TextLast(outcomes[i])
    /\ pc \in Calling => /\ budget = EffectiveRetries(agents[Hand].failures)
                         /\ tries \in Nat /\ tries <= budget + 1

LEMMA InitRInv == Init => RInv
<1> SUFFICES ASSUME Init PROVE RInv
  OBVIOUS
<1>1. agents = <<NewAgent>> /\ outcomes = <<<<>>>> /\ pc = "starting" /\ NewAgent.failures = 0
  BY DEF Init, NewAgent
<1>2. <<>> \in Seq({"good", "text"})
  OBVIOUS
<1> HIDE DEF NewAgent
<1>3. DOMAIN agents = {1} /\ agents[1].failures = 0 /\ outcomes[1] = <<>> /\ Len(outcomes) = Len(agents)
      /\ outcomes \in Seq(Seq({"good", "text"}))
  BY <1>1, <1>2
<1> QED
  BY <1>1, <1>3 DEF RInv, TextLast, Calling

LEMMA RInvRetries ==
  ASSUME Places, RInv
  PROVE  RetriesFollowOutcomes
<1> SUFFICES ASSUME NEW i \in DOMAIN agents
             PROVE  /\ agents[i].failures > 0 <=> TextLast(outcomes[i])
                    /\ pc \in {"inferring", "extracting"} /\ i = Hand
                         => tries <= 1 + (IF TextLast(outcomes[i]) THEN 0 ELSE MaxRetries)
  BY DEF RetriesFollowOutcomes, TextLast
<1>1. agents[i].failures \in Nat /\ (agents[i].failures > 0 <=> TextLast(outcomes[i]))
  BY DEF RInv
<1>2. ASSUME pc \in {"inferring", "extracting"}, i = Hand
      PROVE  tries <= 1 + (IF TextLast(outcomes[i]) THEN 0 ELSE MaxRetries)
  <2>1. /\ budget = (IF agents[i].failures > 0 THEN 0 ELSE MaxRetries)
        /\ tries \in Nat /\ tries <= budget + 1 /\ MaxRetries \in Nat
    BY <1>2, BackendAssumption DEF RInv, Calling, EffectiveRetries
  <2> QED
    BY <1>1, <2>1
<1> QED
  BY <1>1, <1>2

(* A step that keeps the failures, the answers and the call. *)
LEMMA KeptRInv ==
  ASSUME RInv, UNCHANGED <<outcomes, served, pc, budget, tries>>, Len(agents') = Len(agents),
         DOMAIN agents' = DOMAIN agents,
         \A j \in DOMAIN agents : agents'[j].failures = agents[j].failures,
         pc \in Calling => Hand \in DOMAIN agents
  PROVE  RInv'
<1>1. Hand' = Hand
  BY DEF Hand, Now
<1> QED
  BY <1>1 DEF RInv

LEMMA HandThere == Places /\ pc \in Calling => Hand \in DOMAIN agents
BY PastFacts, ServedFacts DEF Hand

(* A message that is admitted begins a call with the retries its agent has. *)
LEMMA AdmittedRInv ==
  ASSUME Places, NEW i \in DOMAIN agents, NEW n, NEW a, IsAgent(a), Admitted(a, i, n),
         Len(served') > 0, served'[Len(served')] = i, Len(outcomes') = Len(outcomes),
         outcomes' \in Seq(Seq({"good", "text"})), Len(outcomes) = Len(agents), a.failures \in Nat,
         a.failures > 0 <=> TextLast(outcomes'[i]),
         \A j \in DOMAIN agents : j # i =>
            /\ agents[j].failures \in Nat
            /\ agents[j].failures > 0 <=> TextLast(outcomes'[j])
  PROVE  RInv'
<1>1. /\ DOMAIN agents' = DOMAIN agents /\ agents'[i].failures = a.failures
      /\ \A j \in DOMAIN agents : j # i => agents'[j] = agents[j]
      /\ pc' = "idle" \/ (pc' = "extracting" /\ budget' = EffectiveRetries(a.failures) /\ tries' = 1)
  BY AdmittedSpeakers
<1>2. Len(agents') = Len(agents)
  <2>1. agents' = [agents EXCEPT ![i] = [a EXCEPT !.window = Trimmed(@, n)]]
    BY DEF Admitted
  <2> QED
    BY <2>1 DEF Places
<1>3. Hand' = i
  BY DEF Hand, Now
<1>4. \A j \in DOMAIN agents' : /\ agents'[j].failures \in Nat
                                /\ agents'[j].failures > 0 <=> TextLast(outcomes'[j])
  BY <1>1
<1>5. EffectiveRetries(a.failures) \in Nat
  BY BackendAssumption DEF EffectiveRetries
<1>6. pc' \in Calling => /\ budget' = EffectiveRetries(agents'[Hand'].failures)
                         /\ tries' \in Nat /\ tries' <= budget' + 1
  BY <1>1, <1>3, <1>5 DEF Calling
<1> QED
  BY <1>2, <1>4, <1>6 DEF RInv, TextLast

LEMMA ReceiveRInv == Places /\ RInv /\ Receive => RInv'
<1> SUFFICES ASSUME Places, RInv, Receive PROVE RInv'
  OBVIOUS
<1> DEFINE i == Len(agents)
           n == Now + 1
           a == Hearing(agents[i], n)
<1>1. /\ pc = "idle" /\ Now < Len(chat) /\ served' = Append(served, i) /\ outcomes' = outcomes
      /\ \/ agents' = [agents EXCEPT ![i] = a] /\ Asks(a, "inferring")
         \/ Admitted(a, i, n)
  BY DEF Receive
<1>2. /\ Len(served') = n /\ served'[n] = i /\ n > 0 /\ i \in DOMAIN agents /\ IsAgent(agents[i])
  BY <1>1, NextMessage, ServedFacts DEF Places
<1>3. IsAgent(a) /\ agents \in Seq(Range(agents))
  BY <1>2, HearingKeeps DEF Places
<1>4. a.failures = agents[i].failures
  <2> DEFINE b == agents[i]
  <2>1. b = [window |-> b.window, count |-> b.count, failures |-> b.failures,
             speakers |-> b.speakers]
    BY <1>2 DEF IsAgent
  <2>2. PICK known : a = [b EXCEPT !.count = @ + 1, !.speakers = known]
    BY DEF Hearing
  <2> HIDE DEF b, a
  <2>3. a = [window |-> b.window, count |-> b.count + 1, failures |-> b.failures,
             speakers |-> known]
    BY <2>1, <2>2
  <2>4. a.failures = b.failures
    BY <2>3
  <2> QED
    BY <2>4 DEF b
<1> HIDE DEF a
<1>5. CASE Admitted(a, i, n)
  <2>1. /\ Len(outcomes') = Len(outcomes) /\ outcomes' \in Seq(Seq({"good", "text"}))
        /\ Len(outcomes) = Len(agents) /\ a.failures \in Nat
        /\ a.failures > 0 <=> TextLast(outcomes'[i])
        /\ \A j \in DOMAIN agents : /\ agents[j].failures \in Nat
                                    /\ agents[j].failures > 0 <=> TextLast(outcomes'[j])
    BY <1>1, <1>2, <1>4 DEF RInv
  <2> HIDE DEF i, n
  <2> QED
    BY <1>2, <1>3, <1>5, <2>1, AdmittedRInv
<1>6. CASE agents' = [agents EXCEPT ![i] = a] /\ Asks(a, "inferring")
  <2>1. /\ DOMAIN agents' = DOMAIN agents /\ agents'[i] = a /\ Len(agents') = Len(agents)
        /\ \A j \in DOMAIN agents : j # i => agents'[j] = agents[j]
    BY <1>2, <1>3, <1>6
  <2>2. Hand' = i
    BY <1>2 DEF Hand, Now
  <2>3. \A j \in DOMAIN agents : agents'[j].failures = agents[j].failures
    BY <1>4, <2>1
  <2>4. /\ budget' = EffectiveRetries(a.failures) /\ tries' = 1
        /\ EffectiveRetries(a.failures) \in Nat
    BY <1>6, BackendAssumption DEF Asks, EffectiveRetries
  <2>5. /\ budget' = EffectiveRetries(agents'[Hand'].failures) /\ tries' \in Nat
        /\ tries' <= budget' + 1
    BY <2>1, <2>2, <2>4
  <2> HIDE DEF i
  <2>6. outcomes' = outcomes /\ Len(agents') = Len(agents)
    BY <1>1, <2>1
  <2> QED
    BY <2>1, <2>3, <2>5, <2>6 DEF RInv, TextLast
<1> QED
  BY <1>1, <1>5, <1>6

(* What a call of the model leaves: its failures, and what it adds to the answers. *)
LEMMA CalledFailures ==
  ASSUME Places, RInv, Hand \in DOMAIN agents, NEW ending, Noted(ending), NEW known
  PROVE  /\ Called(ending).failures \in Nat
         /\ Called(ending).failures > 0 <=> TextLast(outcomes'[Hand])
         /\ [Called(ending) EXCEPT !.speakers = known].failures = Called(ending).failures
         /\ outcomes' \in Seq(Seq({"good", "text"})) /\ Len(outcomes') = Len(outcomes)
         /\ \A j \in DOMAIN agents : j # Hand => outcomes'[j] = outcomes[j]
<1> DEFINE h == Hand
           a == agents[h]
           b == Called(ending)
           k == FailuresAfter(a.failures, ending)
           E == {"good", "text"}
<1>1. a = [window |-> a.window, count |-> a.count, failures |-> a.failures,
           speakers |-> a.speakers]
  BY DEF Places, IsAgent
<1>2. b = [a EXCEPT !.failures = k]
  BY DEF Called
<1>3. /\ outcomes \in Seq(Seq(E)) /\ h \in DOMAIN outcomes /\ a.failures \in Nat
      /\ a.failures > 0 <=> TextLast(outcomes[h])
      /\ DOMAIN outcomes = DOMAIN agents
  <2>1. DOMAIN agents = 1 .. Len(agents)
    BY ServedFacts
  <2> QED
    BY <2>1 DEF RInv
<1>4. b.failures = k /\ [b EXCEPT !.speakers = known].failures = k
  <2> HIDE DEF a, b, k
  <2>1. b = [window |-> a.window, count |-> a.count, failures |-> k, speakers |-> a.speakers]
    BY <1>1, <1>2
  <2>2. [b EXCEPT !.speakers = known] =
          [window |-> a.window, count |-> a.count, failures |-> k, speakers |-> known]
    BY <2>1
  <2> QED
    BY <2>1, <2>2
<1>5. k \in Nat
  BY <1>3 DEF FailuresAfter
<1>6. CASE ending \in E
  <2> DEFINE o == outcomes[h]
             o2 == Append(o, ending)
  <2>1. outcomes' = [outcomes EXCEPT ![h] = o2]
    BY <1>6 DEF Noted
  <2>2. o \in Seq(E) /\ o2 \in Seq(E) /\ o2 # <<>> /\ Last(o2) = ending
    <3>1. o \in Seq(E) /\ ending \in E
      BY <1>3, <1>6
    <3> HIDE DEF o, E
    <3>2. /\ o2 \in Seq(E) /\ Len(o2) = Len(o) + 1 /\ o2[Len(o) + 1] = ending
          /\ Len(o) \in Nat
      BY ONLY <3>1, AppendProperties, LenProperties
    <3> HIDE DEF o2
    <3>3. o2 # <<>>
      BY ONLY <3>2
    <3> QED
      BY <3>1, <3>2, <3>3 DEF Last
  <2> HIDE DEF o2, E, h
  <2>3. outcomes'[h] = o2 /\ outcomes' \in Seq(Seq(E)) /\ Len(outcomes') = Len(outcomes)
        /\ \A j \in DOMAIN agents : j # h => outcomes'[j] = outcomes[j]
    BY <1>3, <2>1, <2>2
  <2>4. k > 0 <=> TextLast(outcomes'[h])
    BY <1>3, <1>6, <2>2, <2>3 DEF TextLast, FailuresAfter, E
  <2> QED
    BY <1>4, <1>5, <2>3, <2>4 DEF h, E
<1>7. CASE ending \notin E
  <2>1. outcomes' = outcomes /\ k = a.failures
    BY <1>7 DEF Noted, FailuresAfter
  <2> QED
    BY <1>3, <1>4, <1>5, <2>1 DEF RInv
<1> QED
  BY <1>6, <1>7
LEMMA InferRInv ==
  ASSUME Places, RInv, NEW ending, Infer(ending)
  PROVE  RInv'
<1> DEFINE h == Hand
<1>1. /\ pc = "inferring" /\ served' = served /\ Noted(ending)
  BY DEF Infer
<1>2. h \in DOMAIN agents /\ Len(served') > 0 /\ served'[Len(served')] = h
  BY <1>1, HandThere DEF Places, Calling, Hand, Now
<1>3. /\ Len(outcomes') = Len(outcomes) /\ outcomes' \in Seq(Seq({"good", "text"}))
      /\ Len(outcomes) = Len(agents)
      /\ Called(ending).failures \in Nat
      /\ Called(ending).failures > 0 <=> TextLast(outcomes'[h])
      /\ \A j \in DOMAIN agents : j # h => /\ agents[j].failures \in Nat
                                           /\ agents[j].failures > 0 <=> TextLast(outcomes'[j])
  BY <1>1, <1>2, CalledFailures DEF RInv
<1>4. CASE Admitted(Called(ending), h, Now)
  <2>1. IsAgent(Called(ending))
    BY <1>2, CalledKeeps
  <2> HIDE DEF h
  <2> QED
    BY <1>2, <1>3, <1>4, <2>1, AdmittedRInv
<1>5. ASSUME NEW r, Admitted([Called(ending) EXCEPT !.speakers[chat[Now].sender] = Learned(@, r)],
                             h, Now)
      PROVE  RInv'
  <2> DEFINE known == [Called(ending).speakers EXCEPT ![chat[Now].sender] = Learned(@, r)]
             a     == [Called(ending) EXCEPT !.speakers = known]
  <2>1. [Called(ending) EXCEPT !.speakers[chat[Now].sender] = Learned(@, r)] = a
    OBVIOUS
  <2>2. IsAgent(a) /\ a.failures = Called(ending).failures
    <3> HIDE DEF known
    <3> QED
      BY <1>1, <1>2, CalledKeeps, CalledFailures
  <2>3. Admitted(a, h, Now)
    BY <1>5, <2>1
  <2> HIDE DEF a, h
  <2> QED
    BY <1>2, <1>3, <2>2, <2>3, AdmittedRInv
<1> QED
  BY <1>4, <1>5 DEF Infer

LEMMA ExtractRInv ==
  ASSUME Places, RInv, NEW ending, Extract(ending)
  PROVE  RInv'
<1>1. /\ pc = "extracting" /\ served' = served /\ Noted(ending)
      /\ agents' = [agents EXCEPT ![Hand] = Called(ending)]
  BY DEF Extract
<1>2. pc' = "idle"
  BY DEF Extract, Return, Idles
<1>3. Hand \in DOMAIN agents /\ agents \in Seq(Range(agents))
  BY <1>1, HandThere DEF Places, Calling
<1>4. /\ DOMAIN agents' = DOMAIN agents /\ agents'[Hand] = Called(ending)
      /\ Len(agents') = Len(agents)
      /\ \A j \in DOMAIN agents : j # Hand => agents'[j] = agents[j]
  BY <1>1, <1>3
<1>5. /\ outcomes' \in Seq(Seq({"good", "text"})) /\ Len(outcomes') = Len(agents')
      /\ Called(ending).failures \in Nat
      /\ Called(ending).failures > 0 <=> TextLast(outcomes'[Hand])
      /\ \A j \in DOMAIN agents : j # Hand => /\ agents[j].failures \in Nat
                                              /\ agents[j].failures > 0 <=> TextLast(outcomes'[j])
  BY <1>1, <1>3, <1>4, CalledFailures DEF RInv
<1>6. \A j \in DOMAIN agents' : /\ agents'[j].failures \in Nat
                                /\ agents'[j].failures > 0 <=> TextLast(outcomes'[j])
  BY <1>4, <1>5
<1> QED
  BY <1>2, <1>5, <1>6 DEF RInv, Calling

LEMMA SkipModelRInv == Places /\ RInv /\ SkipModel => RInv'
<1> SUFFICES ASSUME Places, RInv, SkipModel PROVE RInv'
  OBVIOUS
<1>1. pc \in Calling /\ UNCHANGED <<served, outcomes>>
  BY DEF SkipModel, Calling
<1>2. Hand \in DOMAIN agents /\ Len(served') > 0 /\ served'[Len(served')] = Hand
      /\ IsAgent(agents[Hand])
  BY <1>1, HandThere DEF Places, Hand, Now
<1>3. /\ Len(outcomes) = Len(agents) /\ outcomes' \in Seq(Seq({"good", "text"}))
      /\ Len(outcomes') = Len(outcomes)
      /\ \A j \in DOMAIN agents : /\ agents[j].failures \in Nat
                                  /\ agents[j].failures > 0 <=> TextLast(outcomes'[j])
  BY <1>1 DEF RInv
<1>4. CASE pc = "inferring"
  <2>1. Admitted(agents[Hand], Hand, Now)
    BY <1>4 DEF SkipModel
  <2> QED
    BY <1>2, <1>3, <2>1, AdmittedRInv
<1>5. CASE pc = "extracting"
  <2>1. agents' = agents /\ pc' = "idle"
    BY <1>5 DEF SkipModel, Return, Idles
  <2> QED
    BY <1>3, <2>1 DEF RInv, Calling
<1> QED
  BY <1>1, <1>4, <1>5 DEF Calling

LEMMA RestartRInv == Places /\ RInv /\ Restart => RInv'
<1> SUFFICES ASSUME Places, RInv, Restart PROVE RInv'
  OBVIOUS
<1> DEFINE i == Len(agents) + 1
           E == {"good", "text"}
<1>1. /\ agents' = Append(agents, NewAgent) /\ outcomes' = Append(outcomes, <<>>)
      /\ UNCHANGED <<served, pc, budget, tries>>
  BY DEF Restart, call
<1>2. NewAgent.failures = 0 /\ ~TextLast(<<>>)
  BY DEF NewAgent, TextLast
<1>3. /\ DOMAIN agents' = 1 .. i /\ agents'[i] = NewAgent /\ Len(agents') = i
      /\ \A j \in DOMAIN agents : agents'[j] = agents[j]
      /\ DOMAIN agents = 1 .. Len(agents) /\ Len(agents) \in Nat
  BY <1>1, ServedFacts DEF Places
<1>4. /\ outcomes' \in Seq(Seq(E)) /\ Len(outcomes') = i /\ outcomes'[i] = <<>>
      /\ \A j \in DOMAIN agents : outcomes'[j] = outcomes[j]
  <2>1. outcomes \in Seq(Seq(E)) /\ <<>> \in Seq(E) /\ Len(outcomes) = Len(agents)
    BY DEF RInv
  <2> HIDE DEF E
  <2> QED
    BY <1>1, <1>3, <2>1, AppendProperties
<1>5. \A j \in DOMAIN agents' : /\ agents'[j].failures \in Nat
                                /\ agents'[j].failures > 0 <=> TextLast(outcomes'[j])
  <2> TAKE j \in DOMAIN agents'
  <2>1. CASE j \in DOMAIN agents
    BY <1>3, <1>4, <2>1 DEF RInv
  <2>2. CASE j = i
    BY <1>2, <1>3, <1>4, <2>2
  <2> QED
    BY <1>3, <2>1, <2>2
<1>6. pc \in Calling => Hand' = Hand /\ agents'[Hand] = agents[Hand]
  BY <1>1, <1>3, HandThere DEF Hand, Now
<1> QED
  BY <1>1, <1>3, <1>4, <1>5, <1>6 DEF RInv

LEMMA FeedbackRInv ==
  ASSUME Places, RInv, NEW n, NEW type, Feedback(n, type)
  PROVE  RInv'
<1> DEFINE i == Len(agents)
           known == [s \in DOMAIN agents[i].speakers |->
                        IF s = chat[n].sender THEN Reviewed(agents[i].speakers[s], type)
                        ELSE agents[i].speakers[s]]
           b == [agents[i] EXCEPT !.speakers = known]
<1>1. i \in DOMAIN agents /\ agents \in Seq(Range(agents)) /\ IsAgent(agents[i])
  BY ServedFacts DEF Places
<1>2. /\ agents' = [agents EXCEPT ![i] = b] /\ UNCHANGED <<outcomes, served, pc, budget, tries>>
  BY <1>1 DEF Feedback, call
<1>3. b.failures = agents[i].failures
  <2> DEFINE a == agents[i]
  <2>1. a = [window |-> a.window, count |-> a.count, failures |-> a.failures,
             speakers |-> a.speakers]
    BY <1>1 DEF IsAgent
  <2> HIDE DEF known, i, a
  <2>2. b = [window |-> a.window, count |-> a.count, failures |-> a.failures, speakers |-> known]
    BY <2>1 DEF a
  <2>3. b.failures = a.failures
    BY <2>2
  <2> QED
    BY <2>3 DEF a
<1> HIDE DEF b, i
<1>4. /\ DOMAIN agents' = DOMAIN agents /\ Len(agents') = Len(agents) /\ agents'[i] = b
      /\ \A j \in DOMAIN agents : j # i => agents'[j] = agents[j]
  BY <1>1, <1>2
<1>5. \A j \in DOMAIN agents : agents'[j].failures = agents[j].failures
  BY <1>3, <1>4
<1> QED
  BY <1>2, <1>4, <1>5, HandThere, KeptRInv

LEMMA NextRInv == Places /\ RInv /\ [Next]_vars => RInv'
<1> SUFFICES ASSUME Places, RInv, [Next]_vars PROVE RInv'
  OBVIOUS
<1>1. CASE Load
  <2>1. /\ agents' = agents /\ outcomes' = outcomes /\ pc' = "idle"
    BY <1>1 DEF Load, learned
  <2> QED
    BY <2>1 DEF RInv, Calling
<1>2. CASE Receive
  BY <1>2, ReceiveRInv
<1>3. CASE AskAgain
  <2>1. /\ agents' = agents /\ outcomes' = outcomes /\ pc' = pc /\ served' = served
        /\ budget' = budget /\ tries' = tries + 1 /\ tries <= budget /\ pc \in Calling
    BY <1>3 DEF AskAgain, learned, AsksAgain, Calling
  <2>2. Hand' = Hand
    BY <2>1 DEF Hand, Now
  <2>3. budget \in Nat /\ tries \in Nat
    BY <2>1, BackendAssumption DEF RInv, EffectiveRetries
  <2> QED
    BY <2>1, <2>2, <2>3 DEF RInv
<1>4. CASE SkipModel
  BY <1>4, SkipModelRInv
<1>5. CASE Restart
  BY <1>5, RestartRInv
<1>6. ASSUME NEW ending \in Endings, Infer(ending) PROVE RInv'
  BY <1>6, InferRInv
<1>7. ASSUME NEW ending \in Endings, Extract(ending) PROVE RInv'
  BY <1>7, ExtractRInv
<1>8. ASSUME NEW n \in reports, NEW type, Feedback(n, type) PROVE RInv'
  BY <1>8, FeedbackRInv
<1>9. CASE UNCHANGED vars
  <2>1. UNCHANGED <<agents, outcomes, served, pc, budget, tries>>
    BY <1>9 DEF vars, learned, call
  <2> QED
    BY <2>1 DEF RInv, Hand, Now
<1> QED
  BY <1>1, <1>2, <1>3, <1>4, <1>5, <1>6, <1>7, <1>8, <1>9 DEF Next

(* What an agent has learned follows from what happened: its profiles tell of   *)
(* every message it got of their speakers, move by feedback only, and its model *)
(* is asked again as the answers before allow (SpeakerModel.update_from_*,      *)
(* _structured_output_failures), across restarts, inferences and late feedback. *)
THEOREM LearningCorrect == Spec => []LearningFollowsEvidence
<1> DEFINE LInv == CInv /\ SInv /\ RInv
<1>1. Init => LInv
  BY InitCInv, InitSInv, InitRInv
<1>2. LInv /\ [Next]_vars => LInv'
  BY NextCInv, NextSInv, NextRInv DEF CInv
<1>3. LInv => LearningFollowsEvidence
  BY SInvProfiles, RInvRetries DEF CInv, LearningFollowsEvidence
<1> QED
  BY <1>1, <1>2, <1>3, PTL DEF Spec
==============================================================================
