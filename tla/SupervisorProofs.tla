--------------------------- MODULE SupervisorProofs ---------------------------
(***************************************************************************)
(* Theorems about Supervisor: its variables keep their types, the pool of  *)
(* agents stays consistent, a health check sheds LOW channels before       *)
(* MEDIUM ones, and a restart loses no update.  None depends on what the   *)
(* metrics say.                                                            *)
(***************************************************************************)
EXTENDS Supervisor, SequenceTheorems, FiniteSetTheorems, TLAPS

USE SupervisorAssumption

(* The inductive invariant: the pool's types make its updates meaningful. *)
PoolTypeOK ==
  /\ agents \subseteq Channels
  /\ active \in [Channels -> BOOLEAN]

IInv == PoolTypeOK /\ ShedIsConsistent

-----------------------------------------------------------------------------
(* LEMMAS ON LOAD SHEDDING *)

(* Shedding adds channels of the pool that are not HIGH; restoring adds none. *)
LEMMA SheddingStaysInPool ==
  ASSUME NEW S, S \subseteq agents, agents \subseteq Channels,
         \A ch \in S : Priority[ch] # "HIGH"
  PROVE  /\ Shedding(S) \subseteq agents
         /\ \A ch \in Shedding(S) : Priority[ch] # "HIGH"
<1>1. CASE Overloaded(S)
  <2>1. Shedding(S) = ShedMore(S)
    BY <1>1 DEF Shedding
  <2>2. ShedMore(S) \subseteq S \union Of(agents, "LOW") \union Of(agents, "MEDIUM")
    BY DEF ShedMore
  <2> QED
    BY <2>1, <2>2 DEF Of
<1>2. CASE ~Overloaded(S)
  <2>1. Shedding(S) = Restore(S)
    BY <1>2 DEF Shedding
  <2>2. Restore(S) \subseteq S
    BY DEF Restore
  <2> QED
    BY <2>1, <2>2
<1> QED
  BY <1>1, <1>2

(* A MEDIUM channel is left shed only together with every LOW one: shedding     *)
(* begins with LOW, and restoring takes up MEDIUM before anything below it.     *)
LEMMA SheddingSparesMedium ==
  ASSUME NEW S, S \subseteq agents, \A ch \in S : Priority[ch] # "HIGH",
         Of(Shedding(S), "MEDIUM") # {}
  PROVE  Of(agents, "LOW") \subseteq Shedding(S)
<1>1. CASE Overloaded(S)
  <2>1. Shedding(S) = ShedMore(S)
    BY <1>1 DEF Shedding
  <2>2. Of(agents, "LOW") \subseteq ShedMore(S)
    BY DEF ShedMore
  <2> QED
    BY <2>1, <2>2
<1>2. CASE ~Overloaded(S)
  <2>1. Of(S, "HIGH") = {}
    BY DEF Of
  <2>2. Shedding(S) = S \ Of(S, IF Of(S, "MEDIUM") # {} THEN "MEDIUM" ELSE "LOW")
    BY <1>2, <2>1 DEF Shedding, Restore
  <2>3. Of(Shedding(S), "MEDIUM") = {}
    <3>1. CASE Of(S, "MEDIUM") = {}
      BY <3>1, <2>2 DEF Of
    <3>2. CASE Of(S, "MEDIUM") # {}
      BY <3>2, <2>2 DEF Of
    <3> QED
      BY <3>1, <3>2
  <2> QED
    BY <2>3
<1> QED
  BY <1>1, <1>2

-----------------------------------------------------------------------------
(* CONSISTENCY OF THE POOL *)

LEMMA InitIInv == Init => IInv
BY DEF Init, IInv, PoolTypeOK, ShedIsConsistent

(* A message that finds no agent starts one, and it is not shed. *)
LEMMA EnsureAgentIInv ==
  ASSUME IInv, NEW ch \in Channels, EnsureAgent(ch)
  PROVE  IInv'
<1>1. CASE ch \in agents
  <2>1. UNCHANGED <<agents, active, shed>>
    BY <1>1 DEF EnsureAgent
  <2> QED
    BY <2>1 DEF IInv, PoolTypeOK, ShedIsConsistent
<1>2. CASE ch \notin agents
  <2>1. /\ agents' = agents \union {ch}
        /\ active' = [active EXCEPT ![ch] = TRUE]
        /\ shed' = shed
    BY <1>2 DEF EnsureAgent
  <2>2. ch \notin shed
    BY <1>2 DEF IInv, ShedIsConsistent
  <2>3. PoolTypeOK'
    BY <2>1 DEF IInv, PoolTypeOK
  <2>4. ShedIsConsistent'
    BY <2>1, <2>2 DEF IInv, PoolTypeOK, ShedIsConsistent
  <2> QED
    BY <2>3, <2>4 DEF IInv
<1> QED
  BY <1>1, <1>2

LEMMA StopAgentIInv ==
  ASSUME IInv, NEW ch \in Channels, StopAgent(ch)
  PROVE  IInv'
BY DEF IInv, PoolTypeOK, ShedIsConsistent, StopAgent

(* A restarted channel is no longer shed and its new agent is active; then the *)
(* check sheds or restores, and records either in is_active.                   *)
LEMMA HealthCheckIInv ==
  ASSUME IInv, HealthCheck
  PROVE  IInv'
<1> DEFINE S == shed \ Restarted
<1>1. /\ agents' = agents
      /\ shed' = Shedding(S)
      /\ active' = [ch \in Channels |->
                      IF ch \in shed' \ S THEN FALSE
                      ELSE IF ch \in Restarted \union (S \ shed') THEN TRUE
                      ELSE active[ch]]
  BY DEF HealthCheck
<1>2. S \subseteq agents /\ \A ch \in S : Priority[ch] # "HIGH"
  BY DEF IInv, ShedIsConsistent
<1>3. shed' \subseteq agents /\ \A ch \in shed' : Priority[ch] # "HIGH"
  BY <1>1, <1>2, SheddingStaysInPool DEF IInv, PoolTypeOK
<1>4. PoolTypeOK'
  BY <1>1 DEF IInv, PoolTypeOK
<1>5. ASSUME NEW ch \in agents'
      PROVE  active'[ch] <=> ch \notin shed'
  <2>1. ch \in agents /\ ch \in Channels /\ (active[ch] <=> ch \notin shed)
    BY <1>1 DEF IInv, PoolTypeOK, ShedIsConsistent
  <2> HIDE DEF S
  <2>2. active'[ch] = IF ch \in shed' \ S THEN FALSE
                      ELSE IF ch \in Restarted \union (S \ shed') THEN TRUE
                      ELSE active[ch]
    BY <1>1, <2>1
  <2>3. CASE ch \in shed' \ S
    BY <2>2, <2>3
  <2>4. CASE ch \in S \ shed'
    BY <2>2, <2>4
  <2>5. CASE ch \in S /\ ch \in shed'
    <3>1. ch \in shed /\ ch \notin Restarted
      BY <2>5 DEF S
    <3> QED
      BY <2>1, <2>2, <2>5, <3>1
  <2>6. CASE ch \notin S /\ ch \notin shed'
    <3>1. ch \in Restarted \/ ch \notin shed
      BY <2>6 DEF S
    <3> QED
      BY <2>1, <2>2, <2>6, <3>1
  <2> QED
    BY <2>3, <2>4, <2>5, <2>6
<1> QED
  BY <1>1, <1>3, <1>4, <1>5 DEF IInv, ShedIsConsistent

LEMMA NextIInv == IInv /\ [Next]_vars => IInv'
<1> SUFFICES ASSUME IInv, [Next]_vars
             PROVE  IInv'
  OBVIOUS
<1>1. ASSUME NEW c \in Callers, Step(c)
      PROVE  IInv'
  <2>1. UNCHANGED poolVars
    BY <1>1 DEF Step, Inferred, Extracted, Raised
  <2> QED
    BY <2>1 DEF poolVars, IInv, PoolTypeOK, ShedIsConsistent
<1>2. ASSUME NEW c \in Callers, NEW ch \in Channels, Route(c, ch)
      PROVE  IInv'
  BY <1>2, EnsureAgentIInv DEF Route
<1>3. ASSUME NEW ch \in Channels, StopAgent(ch)
      PROVE  IInv'
  BY <1>3, StopAgentIInv
<1>4. CASE HealthCheck
  BY <1>4, HealthCheckIInv
<1>5. CASE Tick
  BY <1>5 DEF Tick, poolVars, IInv, PoolTypeOK, ShedIsConsistent
<1>6. CASE UNCHANGED vars
  BY <1>6 DEF vars, poolVars, IInv, PoolTypeOK, ShedIsConsistent
<1> QED
  BY <1>1, <1>2, <1>3, <1>4, <1>5, <1>6 DEF Next

LEMMA InvariantIInv == Spec => []IInv
BY InitIInv, NextIInv, PTL DEF Spec

(* Whatever the order of messages, stops, restarts and health checks, only      *)
(* channels with an agent are shed, none of them HIGH, and is_active agrees.    *)
THEOREM PoolIsConsistent == Spec => []ShedIsConsistent
<1>1. IInv => ShedIsConsistent
  BY DEF IInv
<1> QED
  BY <1>1, InvariantIInv, PTL

-----------------------------------------------------------------------------
(* PRIORITY *)

(* A health check leaves a MEDIUM channel shed only when every LOW one is. *)
THEOREM PriorityIsKept == Spec => LowGoesFirst
<1>1. ASSUME IInv, HealthCheck, Of(shed', "MEDIUM") # {}
      PROVE  Of(agents', "LOW") \subseteq shed'
  <2> DEFINE S == shed \ Restarted
  <2>1. agents' = agents /\ shed' = Shedding(S)
    BY <1>1 DEF HealthCheck
  <2>2. S \subseteq agents /\ \A ch \in S : Priority[ch] # "HIGH"
    BY <1>1 DEF IInv, ShedIsConsistent
  <2> QED
    BY <1>1, <2>1, <2>2, SheddingSparesMedium
<1>2. IInv => [HealthCheck /\ Of(shed', "MEDIUM") # {}
                 => Of(agents', "LOW") \subseteq shed']_vars
  BY <1>1
<1> QED
  BY <1>2, InvariantIInv, PTL DEF LowGoesFirst

-----------------------------------------------------------------------------
(* THE ALARM'S WINDOW *)

Records == [kind : Kinds, age : 0 .. WindowTicks]

(* The oldest first. *)
Ages(w) == \A i, j \in DOMAIN w : i < j => w[i].age >= w[j].age

LEMMA AppendToWindow ==
  ASSUME NEW w \in Seq(Records), Ages(w), NEW kind \in Kinds
  PROVE  /\ Append(w, [kind |-> kind, age |-> 0]) \in Seq(Records)
         /\ Ages(Append(w, [kind |-> kind, age |-> 0]))
<1> DEFINE r == [kind |-> kind, age |-> 0]
           v == Append(w, r)
<1>1. r \in Records /\ r.age = 0
  BY AlarmAssumption DEF Records
<1> HIDE DEF r
<1>2. /\ v \in Seq(Records) /\ DOMAIN v = 1 .. Len(w) + 1 /\ DOMAIN w = 1 .. Len(w)
      /\ Len(w) \in Nat /\ v[Len(w) + 1] = r
      /\ \A i \in 1 .. Len(w) : v[i] = w[i] /\ w[i].age \in Nat
  <2>1. \A i \in 1 .. Len(w) : w[i] \in Records
    BY ElementOfSeq
  <2> QED
    BY <1>1, <2>1, AppendProperties, LenProperties DEF Records
<1> HIDE DEF v
<1>3. Ages(v)
  <2> SUFFICES ASSUME NEW i \in DOMAIN v, NEW j \in DOMAIN v, i < j
               PROVE  v[i].age >= v[j].age
    BY DEF Ages
  <2>1. i \in 1 .. Len(w)
    BY <1>2
  <2>2. CASE j \in 1 .. Len(w)
    BY <1>2, <2>1, <2>2 DEF Ages
  <2>3. CASE j = Len(w) + 1
    BY <1>1, <1>2, <2>1, <2>3
  <2> QED
    BY <1>2, <2>2, <2>3
<1> QED
  BY <1>2, <1>3 DEF v, r

LEMMA CountUpTo ==
  ASSUME NEW k \in Nat
  PROVE  IsFiniteSet(1 .. k) /\ Cardinality(1 .. k) = k
<1>1. 1 \in Int /\ k \in Int /\ (1 > k => k = 0) /\ k - 1 + 1 = k
  OBVIOUS
<1> QED
  BY <1>1, FS_Interval

(* Pruning from the front leaves no record that is out of the window, because *)
(* the oldest come first.                                                     *)
LEMMA AgedWindow ==
  ASSUME NEW w \in Seq(Records), Ages(w)
  PROVE  Aged(w) \in Seq(Records) /\ Ages(Aged(w))
<1> DEFINE n == Cardinality(Expired(w))
           kept == SubSeq(w, n + 1, Len(w))
<1>1. /\ Len(w) \in Nat /\ DOMAIN w = 1 .. Len(w)
      /\ \A i \in 1 .. Len(w) : w[i] \in Records
  BY LenProperties, ElementOfSeq
<1>2. /\ Expired(w) \subseteq 1 .. Len(w)
      /\ \A i \in Expired(w) : 1 .. i \subseteq Expired(w)
  BY <1>1 DEF Expired
<1>3. IsFiniteSet(1 .. Len(w)) /\ Cardinality(1 .. Len(w)) = Len(w)
  BY <1>1, CountUpTo
<1>4. IsFiniteSet(Expired(w)) /\ n \in Nat /\ n <= Len(w)
  BY <1>2, <1>3, FS_Subset, FS_CardinalityType
<1>5. \A i \in Expired(w) : i <= n
  <2> SUFFICES ASSUME NEW i \in Expired(w) PROVE i <= n
    OBVIOUS
  <2>1. i \in Nat /\ 1 .. i \subseteq Expired(w)
    BY <1>1, <1>2
  <2>2. IsFiniteSet(1 .. i) /\ Cardinality(1 .. i) = i
    BY <2>1, CountUpTo
  <2> QED
    BY <1>4, <2>1, <2>2, FS_Subset
<1> HIDE DEF n
<1>6. \A i \in n + 1 .. Len(w) : w[i].age \in Nat /\ w[i].age < WindowTicks
  <2> SUFFICES ASSUME NEW i \in n + 1 .. Len(w)
               PROVE  w[i].age \in Nat /\ w[i].age < WindowTicks
    OBVIOUS
  <2>1. i \in 1 .. Len(w) /\ i \notin Expired(w)
    BY <1>1, <1>4, <1>5
  <2>2. PICK j \in 1 .. i : w[j].age # WindowTicks
    BY <1>1, <2>1 DEF Expired
  <2>3. j \in 1 .. Len(w) /\ (j = i \/ j < i)
    BY <1>1, <2>1, <2>2
  <2>4. w[j].age \in 0 .. WindowTicks /\ w[i].age \in 0 .. WindowTicks
    BY <1>1, <2>1, <2>3 DEF Records
  <2>5. w[j].age >= w[i].age
    BY <1>1, <2>1, <2>3, <2>4, AlarmAssumption DEF Ages
  <2> QED
    BY <2>2, <2>4, <2>5, AlarmAssumption
<1>7. /\ DOMAIN kept = 1 .. Len(w) - n /\ Len(w) - n \in Nat
      /\ \A i \in 1 .. Len(w) - n : kept[i] = w[n + i] /\ n + i \in n + 1 .. Len(w)
  <2>1. \A i \in n + 1 .. Len(w) : w[i] \in Records
    BY <1>1, <1>4
  <2>2. kept \in Seq(Records) /\ Len(kept) = Len(w) - n
        /\ \A i \in 1 .. Len(w) - n : kept[i] = w[n + i]
    <3>1. n + 1 \in Int /\ Len(w) \in Int
      BY <1>1, <1>4
    <3>2. /\ kept \in Seq(Records)
          /\ Len(kept) = IF n + 1 <= Len(w) THEN Len(w) - (n + 1) + 1 ELSE 0
          /\ \A i \in 1 .. Len(w) - (n + 1) + 1 : kept[i] = w[n + 1 + i - 1]
      BY <2>1, <3>1, SubSeqProperties
    <3>3. Len(w) - (n + 1) + 1 = Len(w) - n /\ (n + 1 <= Len(w) \/ Len(w) - n = 0)
      <4>1. Len(w) \in Int /\ n \in Int /\ n <= Len(w)
        BY <1>1, <1>4
      <4> QED
        BY <4>1
    <3>4. \A i \in 1 .. Len(w) - n : n + 1 + i - 1 = n + i
      BY <1>1, <1>4
    <3> QED
      BY <3>2, <3>3, <3>4
  <2>3. DOMAIN kept = 1 .. Len(kept)
    BY <2>2, LenProperties
  <2>4. Len(w) - n \in Nat /\ \A i \in 1 .. Len(w) - n : n + i \in n + 1 .. Len(w)
    BY <1>1, <1>4
  <2> QED
    BY <2>2, <2>3, <2>4
<1> DEFINE a == [i \in 1 .. Len(w) - n |-> [w[n + i] EXCEPT !.age = @ + 1]]
<1>8. Aged(w) = a
  BY <1>7 DEF Aged, n
<1>9. \A i \in 1 .. Len(w) - n : a[i] \in Records /\ a[i].age = w[n + i].age + 1
  <2> SUFFICES ASSUME NEW i \in 1 .. Len(w) - n
               PROVE  a[i] \in Records /\ a[i].age = w[n + i].age + 1
    OBVIOUS
  <2>1. w[n + i] \in Records /\ w[n + i].age + 1 \in 0 .. WindowTicks
    BY <1>1, <1>4, <1>6, <1>7, AlarmAssumption
  <2> QED
    BY <2>1 DEF Records
<1> HIDE DEF a, kept
<1>10. a \in Seq(Records) /\ DOMAIN a = 1 .. Len(w) - n
  BY <1>7, <1>9 DEF a
<1>11. Ages(a)
  <2> SUFFICES ASSUME NEW i \in 1 .. Len(w) - n, NEW j \in 1 .. Len(w) - n, i < j
               PROVE  a[i].age >= a[j].age
    BY <1>10 DEF Ages
  <2>1. w[n + i].age >= w[n + j].age /\ w[n + i].age \in Nat /\ w[n + j].age \in Nat
    <3>1. /\ n + i \in n + 1 .. Len(w) /\ n + j \in n + 1 .. Len(w)
          /\ n + i < n + j /\ n + i \in 1 .. Len(w) /\ n + j \in 1 .. Len(w)
      BY <1>1, <1>4
    <3>2. w[n + i].age \in Nat /\ w[n + j].age \in Nat
      BY <1>6, <3>1
    <3> QED
      BY <1>1, <3>1, <3>2 DEF Ages
  <2>2. a[i].age = w[n + i].age + 1 /\ a[j].age = w[n + j].age + 1
    BY <1>9
  <2> QED
    BY <2>1, <2>2
<1> QED
  BY <1>8, <1>10, <1>11

-----------------------------------------------------------------------------
(* TYPES, AND THE AGENTS OF THE CALLS UNDER WAY *)

(* A call that waits for a backend has a channel, whose agent is still in the *)
(* pool unless it was stopped for good.                                       *)
InCall ==
  \A c \in Callers : pc[c] # "idle" =>
    chan[c] \in Channels /\ (chan[c] \in agents \/ pulled[c])

TInv == TypeOK /\ Ages(window) /\ Ages(outcomes) /\ InCall

CallTypeOK ==
  /\ pc \in [Callers -> {"idle", "inferring", "extracting"}]
  /\ chan \in [Callers -> Channels \union {NoChannel}]
  /\ answer \in [Callers -> Answers]
  /\ pulled \in [Callers -> BOOLEAN]

LEMMA NoteWindow ==
  ASSUME TInv, NEW kind \in Kinds, Note(kind)
  PROVE  outcomes' \in Seq(Records) /\ Ages(outcomes)'
<1>1. outcomes \in Seq(Records) /\ Ages(outcomes)
  BY DEF TInv, TypeOK, Records
<1>2. /\ outcomes' = Append(outcomes, [kind |-> kind, age |-> 0])
      /\ outcomes' \in Seq(Records) /\ Ages(Append(outcomes, [kind |-> kind, age |-> 0]))
  BY <1>1, AppendToWindow DEF Note
<1> QED
  BY <1>2 DEF Ages

(* An answer ends the call of one caller. *)
LEMMA AnswerTypes ==
  ASSUME TInv, NEW c \in Callers, NEW a \in Answers, Answer(c, a)
  PROVE  /\ AlarmTypeOK' /\ Ages(window)' /\ CallTypeOK'
         /\ \A d \in Callers : pc'[d] # "idle" =>
              d # c /\ UNCHANGED <<pc[d], chan[d], pulled[d]>>
<1>1. /\ window \in Seq(Records) /\ Ages(window) /\ quiet \in -1 .. IdleTicks + 1
      /\ CallTypeOK
  BY DEF TInv, TypeOK, AlarmTypeOK, Records, CallTypeOK
<1>2. AlarmTypeOK' /\ Ages(window)'
  <2>1. CASE a \in Kinds
    <3>1. /\ window' = Append(window, [kind |-> a, age |-> 0]) /\ quiet' = 0
          /\ window' \in Seq(Records) /\ Ages(Append(window, [kind |-> a, age |-> 0]))
      BY <1>1, <2>1, AppendToWindow DEF Answer, AlarmRecord
    <3>2. quiet' \in -1 .. IdleTicks + 1
      BY <3>1, AlarmAssumption
    <3> QED
      BY <3>1, <3>2 DEF AlarmTypeOK, Ages, Records
  <2>2. CASE a \notin Kinds
    BY <1>1, <2>2 DEF Answer, alarmVars, AlarmTypeOK, Ages, Records
  <2> QED
    BY <2>1, <2>2
<1>3. CallTypeOK'
  BY <1>1 DEF Answer, CallTypeOK
<1>4. \A d \in Callers : pc'[d] # "idle" =>
        d # c /\ pc'[d] = pc[d] /\ chan'[d] = chan[d] /\ pulled'[d] = pulled[d]
  BY <1>1 DEF Answer, CallTypeOK
<1> QED
  BY <1>2, <1>3, <1>4

LEMMA RouteTInv ==
  ASSUME TInv, NEW c \in Callers, NEW ch \in Channels, Route(c, ch)
  PROVE  TInv'
<1>1. /\ agents' = agents \union {ch} /\ agents' \subseteq Channels
      /\ active' \in [Channels -> BOOLEAN] /\ UNCHANGED <<shed, restarts, stops>>
      /\ routed' \in 0 .. MaxMessages
  BY DEF Route, EnsureAgent, TInv, TypeOK
<1>2. "shed" \in Kinds /\ "shed" \in Answers /\ "nothing" \in Answers /\ "nothing" \notin Kinds
  BY DEF Kinds, Silent, Extractions, Answers
<1>3. CASE TurnAway(c, ch)
  <2>1. Answer(c, "shed") /\ Note("shed") /\ UNCHANGED metricVars
    BY <1>3 DEF TurnAway
  <2>2. /\ AlarmTypeOK' /\ Ages(window)' /\ CallTypeOK' /\ Ages(outcomes)'
        /\ outcomes' \in Seq(Records)
        /\ \A d \in Callers : pc'[d] # "idle" =>
             d # c /\ UNCHANGED <<pc[d], chan[d], pulled[d]>>
    BY <1>2, <2>1, AnswerTypes, NoteWindow
  <2>3. TypeOK'
    BY <1>1, <2>1, <2>2 DEF TInv, TypeOK, metricVars, CallTypeOK, Records
  <2>4. InCall'
    BY <1>1, <2>2 DEF TInv, InCall
  <2> QED
    BY <2>2, <2>3, <2>4 DEF TInv
<1>4. CASE Deliver(c, ch)
  <2>1. /\ received' \in [Channels -> Nat] /\ UNCHANGED <<failed, slow, outcomes>>
        /\ outcomes' \in Seq(Records) /\ Ages(outcomes)'
    BY <1>4 DEF Deliver, TInv, TypeOK, Records, Ages
  <2>2. CASE Answer(c, "nothing")
    <3>1. /\ AlarmTypeOK' /\ Ages(window)' /\ CallTypeOK'
          /\ \A d \in Callers : pc'[d] # "idle" =>
               d # c /\ UNCHANGED <<pc[d], chan[d], pulled[d]>>
      BY <1>2, <2>2, AnswerTypes
    <3>2. TypeOK'
      BY <1>1, <2>1, <3>1 DEF TInv, TypeOK, CallTypeOK, Records
    <3>3. InCall'
      BY <1>1, <3>1 DEF TInv, InCall
    <3> QED
      BY <2>1, <3>1, <3>2, <3>3 DEF TInv
  <2>3. ASSUME NEW p \in {"inferring", "extracting"},
               pc' = [pc EXCEPT ![c] = p], chan' = [chan EXCEPT ![c] = ch],
               answer' = [answer EXCEPT ![c] = "nothing"], UNCHANGED <<alarmVars, pulled>>
        PROVE  TInv'
    <3>1. CallTypeOK /\ CallTypeOK'
      BY <1>2, <2>3 DEF TInv, TypeOK, CallTypeOK
    <3>2. AlarmTypeOK' /\ Ages(window)'
      BY <2>3 DEF TInv, TypeOK, AlarmTypeOK, alarmVars, Ages
    <3>3. TypeOK'
      BY <1>1, <2>1, <3>1, <3>2 DEF TInv, TypeOK, CallTypeOK, Records
    <3>4. InCall'
      BY <1>1, <2>3, <3>1 DEF TInv, InCall, CallTypeOK
    <3> QED
      BY <2>1, <3>2, <3>3, <3>4 DEF TInv
  <2> QED
    BY <1>4, <2>2, <2>3 DEF Deliver
<1> QED
  BY <1>3, <1>4 DEF Route

(* What process_message returns is an answer. *)
LEMMA ReturnAnswers ==
  ASSUME NEW c, NEW r \in Answers, Return(c, r)
  PROVE  \E a \in Answers : Answer(c, a)
BY DEF Return, Answers, Kinds, Silent

LEMMA StepTInv ==
  ASSUME TInv, NEW c \in Callers, Step(c)
  PROVE  TInv'
<1>1. UNCHANGED <<agents, active, shed, restarts, received, routed, stops>>
  BY DEF Step, Inferred, Extracted, Raised, poolVars, metricVars
<1>2. /\ failed' \in [Channels -> Nat] /\ slow' \in [Channels -> BOOLEAN]
      /\ outcomes' \in Seq(Records) /\ Ages(outcomes)'
  <2>1. CASE Inferred(c)
    BY <2>1 DEF Inferred, metricVars, TInv, TypeOK, Records, Ages
  <2>2. CASE Extracted(c)
    <3>1. failed' \in [Channels -> Nat] /\ slow' \in [Channels -> BOOLEAN]
      BY <2>2 DEF Extracted, TInv, TypeOK
    <3>2. PICK r \in Extractions \union {"passthrough", "nothing"} :
            IF r = "nothing" THEN UNCHANGED outcomes ELSE Note(r)
      BY <2>2 DEF Extracted
    <3>3. CASE r = "nothing"
      BY <3>1, <3>2, <3>3 DEF TInv, TypeOK, Records, Ages
    <3>4. CASE r # "nothing"
      <4>1. r \in Kinds /\ Note(r)
        BY <3>2, <3>4 DEF Kinds, Silent
      <4> QED
        BY <3>1, <4>1, NoteWindow
    <3> QED
      BY <3>3, <3>4
  <2>3. CASE Raised(c)
    <3>1. "error" \in Kinds /\ Note("error")
      BY <2>3 DEF Raised, Kinds, Silent
    <3>2. failed' \in [Channels -> Nat] /\ slow' \in [Channels -> BOOLEAN]
      <4>1. chan[c] \in Channels /\ failed \in [Channels -> Nat]
        BY <2>3 DEF Raised, TInv, InCall, TypeOK
      <4> QED
        BY <2>3, <4>1 DEF Raised, TInv, TypeOK
    <3> QED
      BY <3>1, <3>2, NoteWindow
  <2> QED
    BY <2>1, <2>2, <2>3 DEF Step
<1>3. CASE \E a \in Answers : Answer(c, a)
  <2>1. /\ AlarmTypeOK' /\ Ages(window)' /\ CallTypeOK'
        /\ \A d \in Callers : pc'[d] # "idle" =>
             d # c /\ UNCHANGED <<pc[d], chan[d], pulled[d]>>
    BY <1>3, AnswerTypes
  <2>2. TypeOK'
    BY <1>1, <1>2, <2>1 DEF TInv, TypeOK, CallTypeOK, Records
  <2>3. InCall'
    BY <1>1, <2>1 DEF TInv, InCall
  <2> QED
    BY <1>2, <2>1, <2>2, <2>3 DEF TInv
<1>4. CASE pc' = [pc EXCEPT ![c] = "extracting"] /\ pc[c] = "inferring"
             /\ UNCHANGED <<alarmVars, chan, answer, pulled>>
  <2>1. CallTypeOK' /\ AlarmTypeOK' /\ Ages(window)'
    BY <1>4 DEF TInv, TypeOK, CallTypeOK, AlarmTypeOK, alarmVars, Ages
  <2>2. TypeOK'
    BY <1>1, <1>2, <2>1 DEF TInv, TypeOK, CallTypeOK, Records
  <2>3. InCall'
    BY <1>1, <1>4 DEF TInv, TypeOK, InCall
  <2> QED
    BY <1>2, <2>1, <2>2, <2>3 DEF TInv
<1>5. "nothing" \in Answers /\ "error" \in Answers
      /\ \A r \in Extractions \union {"passthrough", "nothing"} : Emitted(r) \in Answers
  BY DEF Answers, Kinds, Silent, Emitted
<1>6. \/ \E a \in Answers : Answer(c, a)
      \/ pc' = [pc EXCEPT ![c] = "extracting"] /\ pc[c] = "inferring"
           /\ UNCHANGED <<alarmVars, chan, answer, pulled>>
  BY <1>5, ReturnAnswers DEF Step, Inferred, Extracted, Raised
<1> QED
  BY <1>3, <1>4, <1>6

LEMMA InitTInv == Init => TInv
<1> SUFFICES ASSUME Init PROVE TInv
  OBVIOUS
<1>1. /\ window = <<>> /\ outcomes = <<>> /\ <<>> \in Seq(Records)
      /\ quiet \in -1 .. IdleTicks + 1 /\ Ages(window) /\ Ages(outcomes)
  BY EmptySeq, AlarmAssumption DEF Init, AlarmInit, NeverRecorded, Ages
<1>2. TypeOK
  BY <1>1 DEF Init, TypeOK, AlarmTypeOK, Answers, Records
<1> QED
  BY <1>1, <1>2 DEF Init, TInv, InCall

LEMMA NextTInv == TInv /\ [Next]_vars => TInv'
<1> SUFFICES ASSUME TInv, [Next]_vars PROVE TInv'
  OBVIOUS
<1>1. ASSUME NEW ch \in Channels, StopAgent(ch) PROVE TInv'
  <2>1. TypeOK'
    BY <1>1 DEF StopAgent, TInv, TypeOK, AlarmTypeOK, alarmVars, metricVars
  <2>2. Ages(window)' /\ Ages(outcomes)'
    BY <1>1 DEF StopAgent, TInv, Ages, alarmVars
  <2>3. InCall'
    BY <1>1 DEF StopAgent, TInv, InCall
  <2> QED
    BY <2>1, <2>2, <2>3 DEF TInv
<1>2. CASE HealthCheck
  <2> DEFINE S == shed \ Restarted
  <2>1. restarts' \in [Channels -> 0 .. MaxRestarts]
    <3>1. \A ch \in Restarted : restarts[ch] + 1 \in 0 .. MaxRestarts
      BY DEF Restarted, TInv, TypeOK
    <3> QED
      BY <1>2, <3>1 DEF HealthCheck, TInv, TypeOK
  <2>2. shed' \subseteq Channels
    <3>1. S \subseteq Channels /\ agents \subseteq Channels
      BY DEF TInv, TypeOK
    <3> HIDE DEF S
    <3>2. Shedding(S) \subseteq S \union agents
      BY DEF Shedding, ShedMore, Restore, Of
    <3>3. shed' = Shedding(S)
      BY <1>2 DEF HealthCheck, S
    <3> QED
      BY <3>1, <3>2, <3>3
  <2>3. active' \in [Channels -> BOOLEAN]
    BY <1>2 DEF HealthCheck, TInv, TypeOK
  <2>4. UNCHANGED <<window, quiet, agents, received, failed, slow, pc, chan, answer, pulled,
                    routed, stops, outcomes>>
    BY <1>2 DEF HealthCheck, alarmVars, metricVars, callVars
  <2>5. TypeOK'
    BY <2>1, <2>2, <2>3, <2>4 DEF TInv, TypeOK, AlarmTypeOK
  <2> QED
    BY <2>4, <2>5 DEF TInv, Ages, InCall
<1>3. CASE Tick
  <2>1. /\ outcomes' = Aged(outcomes) /\ window' = Aged(window)
        /\ outcomes \in Seq(Records) /\ window \in Seq(Records)
    BY <1>3 DEF Tick, AlarmTick, TInv, TypeOK, AlarmTypeOK, Records
  <2>2. /\ outcomes' \in Seq(Records) /\ window' \in Seq(Records)
        /\ Ages(window)' /\ Ages(outcomes)'
    <3>1. /\ Aged(outcomes) \in Seq(Records) /\ Aged(window) \in Seq(Records)
          /\ Ages(Aged(outcomes)) /\ Ages(Aged(window))
      BY <2>1, AgedWindow DEF TInv
    <3> QED
      BY <2>1, <3>1 DEF Ages
  <2>3. quiet' \in -1 .. IdleTicks + 1
    BY <1>3, AlarmAssumption DEF Tick, AlarmTick, TInv, TypeOK, AlarmTypeOK, NeverRecorded
  <2>4. UNCHANGED <<agents, active, shed, restarts, received, failed, slow, pc, chan, answer,
                    pulled, routed, stops>>
    BY <1>3 DEF Tick, poolVars, metricVars, callVars
  <2>5. TypeOK'
    BY <2>2, <2>3, <2>4 DEF TInv, TypeOK, AlarmTypeOK, Records
  <2> QED
    BY <2>2, <2>4, <2>5 DEF TInv, InCall
<1>4. CASE UNCHANGED vars
  BY <1>4 DEF vars, alarmVars, poolVars, metricVars, callVars, TInv, TypeOK, AlarmTypeOK,
              Ages, InCall
<1> QED
  BY <1>1, <1>2, <1>3, <1>4, StepTInv, RouteTInv DEF Next

LEMMA InvariantTInv == Spec => []TInv
BY InitTInv, NextTInv, PTL DEF Spec

(* In every run the supervisor's variables keep their types; in particular no   *)
(* agent is restarted more than max_restart_attempts times, and the alarm's     *)
(* window holds no record that is older than it (_prune, _evaluate_restarts).   *)
THEOREM TypeCorrect == Spec => []TypeOK
<1>1. TInv => TypeOK
  BY DEF TInv
<1> QED
  BY <1>1, InvariantTInv, PTL

-----------------------------------------------------------------------------
(* RESTARTS *)

AnswerKept ==
  \A c \in Callers, u \in Extractions :
    pc[c] = "extracting" /\ pc'[c] = "idle" /\ Note(u) /\ ~pulled[c] => answer'[c] = u

LEMMA NextAnswerKept == TInv /\ [Next]_vars => AnswerKept
<1> SUFFICES ASSUME TInv, [Next]_vars, NEW c \in Callers, NEW u \in Extractions,
                    pc[c] = "extracting", pc'[c] = "idle", Note(u), ~pulled[c]
             PROVE  answer'[c] = u
  BY DEF AnswerKept
<1>1. /\ pc \in [Callers -> {"idle", "inferring", "extracting"}]
      /\ answer \in [Callers -> Answers]
      /\ chan[c] \in agents
  BY DEF TInv, TypeOK, InCall
<1>2. \A r : outcomes' = outcomes \/ Note(r) => outcomes' # outcomes /\ (Note(r) => r = u)
  <2> SUFFICES ASSUME NEW r
               PROVE  outcomes' # outcomes /\ (Note(r) => r = u)
    OBVIOUS
  <2> DEFINE S == Range(outcomes) \union {[kind |-> u, age |-> 0], [kind |-> r, age |-> 0]}
  <2>1. outcomes \in Seq(Records)
    BY DEF TInv, TypeOK, Records
  <2>2. outcomes \in Seq(S)
    BY <2>1, SeqOfRange, SeqMonotonic
  <2>3. [kind |-> u, age |-> 0] \in S /\ [kind |-> r, age |-> 0] \in S
    OBVIOUS
  <2> HIDE DEF S
  <2>4. outcomes' # outcomes
    BY <2>2, <2>3, AppendProperties, LenProperties DEF Note
  <2>5. Note(r) => [kind |-> r, age |-> 0] = [kind |-> u, age |-> 0]
    BY <2>2, <2>3, AppendInjective DEF Note
  <2> QED
    BY <2>4, <2>5
<1>3. ASSUME NEW d \in Callers, Extracted(d) PROVE answer'[c] = u
  <2>1. PICK r \in Extractions \union {"passthrough", "nothing"} :
          /\ IF r = "nothing" THEN UNCHANGED outcomes ELSE Note(r)
          /\ Return(d, Emitted(r))
    BY <1>3 DEF Extracted
  <2>2. r = u /\ Emitted(r) = u
    BY <1>2, <2>1 DEF Emitted
  <2>3. d = c
    BY <1>1, <2>1 DEF Return, Answer
  <2> QED
    BY <1>1, <2>1, <2>2, <2>3 DEF Return, Answer
<1>4. ASSUME NEW d \in Callers, Raised(d) PROVE FALSE
  BY <1>2, <1>4 DEF Raised, Extractions
<1>5. ASSUME NEW d \in Callers, NEW ch \in Channels, Route(d, ch) PROVE FALSE
  <2>1. d # c
    BY <1>5 DEF Route
  <2> QED
    BY <1>1, <1>5, <2>1 DEF Route, TurnAway, Deliver, Answer
<1>6. ASSUME NEW d \in Callers, Inferred(d) PROVE FALSE
  BY <1>2, <1>6 DEF Inferred
<1>7. (\E ch \in Channels : StopAgent(ch)) \/ HealthCheck \/ Tick \/ UNCHANGED vars => pc' = pc
  BY DEF StopAgent, HealthCheck, Tick, vars, callVars
<1> QED
  BY <1>3, <1>4, <1>5, <1>6, <1>7 DEF Next, Step

(* Whatever restarts, stops and other callers do meanwhile, an update that the  *)
(* backend gives is the answer of its call, unless the agent was stopped for    *)
(* good during the call (route_message, restart_agent).                         *)
THEOREM RestartsAreSafe == Spec => RestartsLoseNoUpdate
<1>1. TInv /\ [Next]_vars => [AnswerKept]_vars
  BY NextAnswerKept
<1>2. [][AnswerKept]_vars => RestartsLoseNoUpdate
  BY PTL DEF AnswerKept, RestartsLoseNoUpdate
<1> QED
  BY <1>1, <1>2, InvariantTInv, PTL DEF Spec
===============================================================================
