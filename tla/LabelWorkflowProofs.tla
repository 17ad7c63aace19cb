------------------------- MODULE LabelWorkflowProofs --------------------------
(***************************************************************************)
(* Theorems about LabelWorkflow: what a job that labels an export leaves   *)
(* in its file, however often it is killed and started again, and what is  *)
(* read where annotators have added labels of their own; and what the      *)
(* measuring tools count.                                                  *)
(***************************************************************************)
EXTENDS LabelWorkflow, SequenceTheorems, FiniteSetTheorems, WellFoundedInduction, TLAPS

-----------------------------------------------------------------------------
(* WHAT IS IN A FILE *)

Methods == {"llm", "error", "noise_filter"}

\* The filter's labels are of noise, and say nothing.
FilterIsRight(line) ==
  line.method = "noise_filter" => line.extracted = "none" /\ line.keys = {} /\ IsNoise(line.raw)

\* A label of the job, with the end of its line or without.
Written(raw, method, e, kind) ==
  [kind |-> kind, raw |-> raw, source |-> "llm_judge", method |-> method,
   expected |-> NoType, extracted |-> e.type, keys |-> e.keys]

Kinds == {"label", "unended"}

JobLines ==
  {line \in {Written(raw, method, e, kind) :
               raw \in RawLines, method \in Methods, e \in Extractions \union {Nothing},
               kind \in Kinds} :
     FilterIsRight(line)}

LabelLines ==
  JobLines \union {HumanLabel(raw, type) : raw \in RawLines, type \in UpdateTypes}

Lines == LabelLines \union {Garbled, Cut, SplitCharacter}

\* The labels of the job for a raw line, and the lines validate_file complains of.
JobLabels(file, raw) ==
  {i \in DOMAIN file : IsLabel(file[i]) /\ file[i].raw = raw /\ file[i].source = "llm_judge"}

Bad(file) == {i \in DOMAIN file : ~(IsLabel(file[i]) /\ IsValid(file[i]))}

LabelsIn(file) == {file[i] : i \in {i \in DOMAIN file : IsLabel(file[i])}}

\* Whether the file's last line is a label that lacks its end: the next writer makes it
\* one more bad line; and how many labels the next writer loses, its own among them.
Spoils(file)  == IF EndsOpen(file) /\ Last(file).kind = "unended" THEN 1 ELSE 0
Pending(file) == IF EndsOpen(file) THEN 1 + Spoils(file) ELSE 0

Spoiled(file) == IF Spoils(file) = 1 THEN {Last(file).raw} ELSE {}

-----------------------------------------------------------------------------
(* THE JOB *)

JobTypes ==
  /\ silver \in Seq(Lines)
  /\ phase \in {"idle", "looping", "calling", "backoff"}
  /\ at \in Nat \ {0} /\ limit \in 0 .. Len(Messages) /\ finished \in 0 .. Len(Messages)
  /\ cuts \in Nat
  /\ phase \in {"calling", "backoff"} => at <= limit /\ Messages[at].raw \notin existing

Positions(raw) == {i \in DOMAIN Messages : Messages[i].raw = raw}

\* The messages a job got through, this one or one that was not killed.
Past    == {i \in DOMAIN Messages : phase # "idle" /\ i < at}
Through == {Messages[i].raw : i \in Past \union {i \in DOMAIN Messages : i <= finished}}

(* Of a raw line without a label at its start, the job has written one for each *)
(* message it is past, or fewer.                                                *)
AtMostOnce(raw) ==
  /\ Cardinality(JobLabels(silver, raw)) <= Cardinality(Positions(raw))
  /\ phase # "idle" /\ raw \notin existing =>
       Cardinality(JobLabels(silver, raw)) <= Cardinality(Positions(raw) \intersect Past)

(* What should have a label and has none: the messages that a job got through, *)
(* and those that the running one had read a label of.  There are no more than *)
(* two for each line cut off, and fewer while such a line is still to be       *)
(* continued.                                                                  *)
Known   == IF phase = "idle" THEN {} ELSE existing
Missing == (Through \union Known) \ ExistingLabels(silver)

NoneForgotten ==
  /\ IsFiniteSet(Missing)
  /\ Cardinality(Missing) + Pending(silver) <= 2 * cuts

LInv ==
  /\ JobTypes
  /\ \A raw \in RawLines : AtMostOnce(raw)
  /\ NoneForgotten
  /\ Cardinality(Bad(silver)) + Spoils(silver) <= cuts

-----------------------------------------------------------------------------
(* WHAT IS APPENDED *)

LEMMA WrittenLine ==
  ASSUME NEW raw, NEW method, NEW e
  PROVE  /\ Label(raw, method, e) = Written(raw, method, e, "label")
         /\ Unended(Label(raw, method, e)) = Written(raw, method, e, "unended")
BY DEF Label, Unended, Written

LEMMA WrittenFields ==
  ASSUME NEW raw, NEW method, NEW e, NEW kind
  PROVE  LET line == Written(raw, method, e, kind)
         IN  /\ line.kind = kind /\ line.raw = raw /\ line.source = "llm_judge"
             /\ line.method = method /\ line.expected = NoType
             /\ line.extracted = e.type /\ line.keys = e.keys
BY DEF Written

\* An annotator's or the job's label has the fields and values required of one.
LEMMA LabelsAreValid ==
  ASSUME NEW line \in LabelLines
  PROVE  /\ IsLabel(line) /\ IsValid(line) /\ line.raw \in RawLines
         /\ line.kind = "unended" => line.source = "llm_judge"
<1>1. CASE \E raw \in RawLines, method \in Methods, e \in Extractions \union {Nothing},
             kind \in Kinds : line = Written(raw, method, e, kind)
  <2>1. PICK raw \in RawLines, method \in Methods, e \in Extractions \union {Nothing},
             kind \in Kinds : line = Written(raw, method, e, kind)
    BY <1>1
  <2>2. e.type \in UpdateTypes
    BY JobAssumption, TypeAssumption DEF Nothing
  <2>3. /\ line.kind = kind /\ line.raw = raw /\ line.source = "llm_judge"
        /\ line.expected = NoType /\ line.extracted = e.type
    BY <2>1, WrittenFields
  <2> QED
    BY <2>2, <2>3 DEF IsLabel, IsValid, Sources, Kinds
<1>2. CASE \E raw \in RawLines, type \in UpdateTypes : line = HumanLabel(raw, type)
  <2>1. PICK raw \in RawLines, type \in UpdateTypes : line = HumanLabel(raw, type)
    BY <1>2
  <2>2. /\ line.kind = "label" /\ line.raw = raw /\ line.source = "human"
        /\ line.expected = type /\ line.extracted = NoType
    BY <2>1 DEF HumanLabel
  <2> QED
    BY <2>2 DEF IsLabel, IsValid, Sources
<1> QED
  BY <1>1, <1>2 DEF LabelLines, JobLines

LEMMA BrokenLines ==
  /\ ~IsLabel(Cut) /\ ~IsLabel(Garbled) /\ ~IsLabel(SplitCharacter)
  /\ Cut.kind = "cut" /\ Garbled.kind = "garbled" /\ SplitCharacter.kind = "split character"
BY DEF IsLabel, Cut, Garbled, SplitCharacter

LEMMA KindsOfLines ==
  ASSUME NEW line \in Lines
  PROVE  /\ IsLabel(line) => line \in LabelLines
         /\ line.kind = "cut" => ~IsLabel(line)
         /\ line.kind = "unended" => line \in LabelLines
BY BrokenLines DEF Lines, IsLabel

\* The sets a file is measured by are finite.
LEMMA FileIsFinite ==
  ASSUME NEW file \in Seq(Lines)
  PROVE  /\ IsFiniteSet(DOMAIN file) /\ Cardinality(DOMAIN file) = Len(file)
         /\ IsFiniteSet(Bad(file))
         /\ \A raw : IsFiniteSet(JobLabels(file, raw))
<1>1. DOMAIN file = 1 .. Len(file) /\ Len(file) \in Nat
  OBVIOUS
<1> DEFINE n == Len(file)
<1>2. n \in Nat /\ IsFiniteSet(1 .. n) /\ Cardinality(1 .. n) = n
  <2> HIDE DEF n
  <2>1. n \in Nat
    BY <1>1 DEF n
  <2> QED
    BY <2>1, FS_Interval
<1>3. Bad(file) \subseteq DOMAIN file /\ \A raw : JobLabels(file, raw) \subseteq DOMAIN file
  BY DEF Bad, JobLabels
<1> QED
  BY <1>1, <1>2, <1>3, FS_Subset

LEMMA Fewer ==
  ASSUME NEW S, IsFiniteSet(S), NEW T, T \subseteq S
  PROVE  /\ IsFiniteSet(T)
         /\ Cardinality(S) \in Nat /\ Cardinality(T) \in Nat
         /\ Cardinality(T) <= Cardinality(S)
BY FS_Subset, FS_CardinalityType

LEMMA OneAtMost ==
  ASSUME NEW S, IsFiniteSet(S), NEW x
  PROVE  /\ IsFiniteSet(S \union {x})
         /\ Cardinality(S) \in Nat /\ Cardinality(S \union {x}) \in Nat
         /\ Cardinality(S \union {x}) <= Cardinality(S) + 1
<1>1. /\ IsFiniteSet(S \union {x}) /\ Cardinality(S) \in Nat
      /\ Cardinality(S \union {x}) = IF x \in S THEN Cardinality(S) ELSE Cardinality(S) + 1
  BY FS_AddElement, FS_CardinalityType
<1> QED
  BY <1>1

\* A line without its end, once it is continued, is no label: the file has at most that
\* label less, and at most that bad line more.
LEMMA OpenContinued ==
  ASSUME NEW file \in Seq(Lines), EndsOpen(file),
         NEW rest \in Lines, ~IsLabel(rest)
  PROVE  LET new == Append(Front(file), rest)
         IN  /\ new \in Seq(Lines) /\ new # <<>> /\ Last(new) = rest
             /\ \A raw : JobLabels(new, raw) \subseteq JobLabels(file, raw)
             /\ ExistingLabels(file) \subseteq ExistingLabels(new) \union Spoiled(file)
             /\ Cardinality(Bad(new)) \in Nat
             /\ Cardinality(Bad(new)) <= Cardinality(Bad(file)) + Spoils(file)
             /\ {x \in LabelsIn(new) : x.source = "human"} = {x \in LabelsIn(file) : x.source = "human"}
<1> DEFINE n     == Len(file)
           front == SubSeq(file, 1, n - 1)
           new   == Append(Front(file), rest)
<1>1. n \in Nat /\ n # 0 /\ DOMAIN file = 1 .. n /\ Last(file) = file[n] /\ file[n] \in Lines
      /\ file[n].kind \in {"cut", "unended"}
  BY DEF EndsOpen, Last
<1>2. new = Append(front, rest)
  BY DEF Front
<1>3. front \in Seq(Lines) /\ Len(front) = n - 1 /\ \A i \in 1 .. n - 1 : front[i] = file[i]
  BY <1>1
<1> HIDE DEF front, new, n
<1>4. /\ Append(front, rest) \in Seq(Lines) /\ Len(Append(front, rest)) = n
      /\ Append(front, rest)[n] = rest
      /\ \A i \in 1 .. n - 1 : Append(front, rest)[i] = front[i]
  BY <1>1, <1>3
<1>5. /\ new \in Seq(Lines) /\ Len(new) = n /\ DOMAIN new = 1 .. n /\ new[n] = rest
      /\ \A i \in 1 .. n - 1 : new[i] = file[i]
  BY <1>1, <1>2, <1>3, <1>4
<1>6. new # <<>> /\ Last(new) = rest
  BY <1>1, <1>5 DEF Last
<1>7. \A i \in 1 .. n : i = n \/ new[i] = file[i]
  BY <1>1, <1>5
<1>8. \A raw : JobLabels(new, raw) \subseteq JobLabels(file, raw)
  BY <1>1, <1>5, <1>7 DEF JobLabels
<1>9. CASE file[n].kind = "cut"
  <2>1. ~IsLabel(file[n])
    BY <1>1, <1>9, KindsOfLines
  <2>2. Spoils(file) = 0
    BY <1>1, <1>9 DEF Spoils
  <2>3. ExistingLabels(new) = ExistingLabels(file) /\ Bad(new) = Bad(file) /\ LabelsIn(new) = LabelsIn(file)
    BY <1>1, <1>5, <1>7, <2>1 DEF ExistingLabels, Bad, LabelsIn
  <2>4. Cardinality(Bad(file)) \in Nat
    BY FileIsFinite, FS_CardinalityType
  <2> QED
    BY <1>5, <1>6, <1>8, <2>2, <2>3, <2>4 DEF new
<1>10. CASE file[n].kind = "unended"
  <2>1. file[n] \in LabelLines /\ file[n].source = "llm_judge" /\ IsLabel(file[n]) /\ IsValid(file[n])
    BY <1>1, <1>10, KindsOfLines, LabelsAreValid
  <2>2. Spoils(file) = 1 /\ Spoiled(file) = {file[n].raw}
    BY <1>1, <1>10 DEF Spoils, Spoiled
  <2>3. ExistingLabels(file) \subseteq ExistingLabels(new) \union {file[n].raw}
    BY <1>1, <1>5, <1>7 DEF ExistingLabels
  <2>4. {x \in LabelsIn(new) : x.source = "human"} = {x \in LabelsIn(file) : x.source = "human"}
    <3>1. {i \in DOMAIN new : IsLabel(new[i]) /\ new[i].source = "human"}
            = {i \in DOMAIN file : IsLabel(file[i]) /\ file[i].source = "human"}
      BY <1>1, <1>5, <1>7, <2>1
    <3>2. \A i \in DOMAIN new : IsLabel(new[i]) => new[i] = file[i]
      BY <1>5, <1>7
    <3> QED
      BY <3>1, <3>2 DEF LabelsIn
  <2>5. Bad(new) = Bad(file) \union {n}
    BY <1>1, <1>5, <1>7, <2>1 DEF Bad
  <2>6. IsFiniteSet(Bad(file))
    BY FileIsFinite
  <2>7. Cardinality(Bad(new)) \in Nat /\ Cardinality(Bad(new)) <= Cardinality(Bad(file)) + 1
    BY <2>5, <2>6, OneAtMost
  <2> QED
    BY <1>5, <1>6, <1>8, <2>2, <2>3, <2>4, <2>7 DEF new
<1> QED
  BY <1>1, <1>9, <1>10

\* What an appended line adds to a file whose last line has its end.
LEMMA AppendedLine ==
  ASSUME NEW file \in Seq(Lines), NEW line \in Lines
  PROVE  LET new == Append(file, line)
             n   == Len(file) + 1
         IN  /\ new \in Seq(Lines) /\ new # <<>> /\ Last(new) = line
             /\ \A raw : JobLabels(new, raw) = JobLabels(file, raw)
                  \union {i \in {n} : IsLabel(line) /\ line.raw = raw /\ line.source = "llm_judge"}
             /\ ExistingLabels(new) = ExistingLabels(file) \union {l.raw : l \in {l \in {line} : IsLabel(l)}}
             /\ Bad(new) = Bad(file) \union {i \in {n} : ~(IsLabel(line) /\ IsValid(line))}
             /\ LabelsIn(new) = LabelsIn(file) \union {l \in {line} : IsLabel(l)}
             /\ n \notin DOMAIN file
<1> DEFINE n   == Len(file) + 1
           new == Append(file, line)
<1>1. new \in Seq(Lines) /\ DOMAIN new = DOMAIN file \union {n} /\ n \notin DOMAIN file
      /\ new[n] = line /\ Len(new) = n /\ \A i \in DOMAIN file : new[i] = file[i]
  OBVIOUS
<1>2. new # <<>> /\ Last(new) = line
  BY DEF Last
<1> HIDE DEF new, n
<1>3. \A raw : JobLabels(new, raw) = JobLabels(file, raw)
        \union {i \in {n} : IsLabel(line) /\ line.raw = raw /\ line.source = "llm_judge"}
  BY <1>1 DEF JobLabels
<1>4. ExistingLabels(new) = ExistingLabels(file) \union {l.raw : l \in {l \in {line} : IsLabel(l)}}
  BY <1>1 DEF ExistingLabels
<1>5. Bad(new) = Bad(file) \union {i \in {n} : ~(IsLabel(line) /\ IsValid(line))}
  BY <1>1 DEF Bad
<1>6. LabelsIn(new) = LabelsIn(file) \union {l \in {line} : IsLabel(l)}
  BY <1>1 DEF LabelsIn
<1> QED
  BY <1>1, <1>2, <1>3, <1>4, <1>5, <1>6 DEF new, n

-----------------------------------------------------------------------------
(* THE STEPS *)

LEMMA FinitePositions ==
  ASSUME NEW raw
  PROVE  /\ IsFiniteSet(Positions(raw))
         /\ Cardinality(Positions(raw)) \in Nat
<1> DEFINE n == Len(Messages)
<1>1. Positions(raw) \subseteq 1 .. n /\ n \in Nat
  BY JobAssumption DEF Positions
<1> HIDE DEF n
<1>2. IsFiniteSet(1 .. n)
  BY <1>1, FS_Interval
<1>3. IsFiniteSet(Positions(raw))
  BY <1>1, <1>2, Fewer
<1> QED
  BY <1>3, FS_CardinalityType

(* A step at which the job writes no label. *)
LEMMA NothingWritten ==
  ASSUME LInv, JobTypes', NoneForgotten',
         \A raw : JobLabels(silver', raw) \subseteq JobLabels(silver, raw),
         Cardinality(Bad(silver')) + Spoils(silver') <= cuts',
         \/ phase' = "idle"
         \/ phase # "idle" /\ existing' = existing /\ Past \subseteq Past'
         \/ \A raw \in RawLines \ existing' : JobLabels(silver, raw) = {}
  PROVE  LInv'
<1>1. ASSUME NEW raw \in RawLines
      PROVE  AtMostOnce(raw)'
  <2>1. IsFiniteSet(JobLabels(silver, raw)) /\ silver \in Seq(Lines)
    BY FileIsFinite DEF LInv, JobTypes
  <2>2. /\ Cardinality(JobLabels(silver', raw)) <= Cardinality(JobLabels(silver, raw))
        /\ Cardinality(JobLabels(silver', raw)) \in Nat /\ Cardinality(JobLabels(silver, raw)) \in Nat
    BY <2>1, Fewer
  <2>3. AtMostOnce(raw) /\ Cardinality(Positions(raw)) \in Nat
    BY FinitePositions DEF LInv
  <2>4. Cardinality(JobLabels(silver', raw)) <= Cardinality(Positions(raw))
    BY <2>2, <2>3 DEF AtMostOnce
  <2>5. ASSUME phase' # "idle", raw \notin existing'
        PROVE  Cardinality(JobLabels(silver', raw)) <= Cardinality(Positions(raw) \intersect Past')
    <3>1. CASE phase # "idle" /\ existing' = existing /\ Past \subseteq Past'
      <4>1. /\ Cardinality(Positions(raw) \intersect Past) <= Cardinality(Positions(raw) \intersect Past')
            /\ Cardinality(Positions(raw) \intersect Past) \in Nat
            /\ Cardinality(Positions(raw) \intersect Past') \in Nat
        <5>1. /\ IsFiniteSet(Positions(raw) \intersect Past')
              /\ Positions(raw) \intersect Past \subseteq Positions(raw) \intersect Past'
          BY <3>1, FinitePositions, Fewer
        <5> QED
          BY <5>1, Fewer
      <4>2. Cardinality(JobLabels(silver, raw)) <= Cardinality(Positions(raw) \intersect Past)
        BY <2>3, <2>5, <3>1 DEF AtMostOnce
      <4> QED
        BY <2>2, <4>1, <4>2
    <3>2. CASE \A r \in RawLines \ existing' : JobLabels(silver, r) = {}
      <4>1. Cardinality(JobLabels(silver', raw)) = 0
        <5>1. JobLabels(silver', raw) = {}
          BY <2>5, <3>2
        <5> QED
          BY <5>1, FS_EmptySet
      <4>2. Cardinality(Positions(raw) \intersect Past') \in Nat
        BY FinitePositions, Fewer
      <4> QED
        BY <4>1, <4>2
    <3> QED
      BY <2>5, <3>1, <3>2
  <2> QED
    BY <2>4, <2>5 DEF AtMostOnce, Positions
<1> QED
  BY <1>1 DEF LInv

LEMMA PendingNat ==
  ASSUME NEW file
  PROVE  /\ Spoils(file) \in 0 .. 1 /\ Pending(file) \in 0 .. 2
         /\ EndsOpen(file) => Pending(file) = 1 + Spoils(file)
         /\ ~EndsOpen(file) => Pending(file) = 0 /\ Spoils(file) = 0 /\ Spoiled(file) = {}
         /\ IsFiniteSet(Spoiled(file)) /\ Cardinality(Spoiled(file)) = Spoils(file)
<1>1. Spoils(file) = 0 \/ Spoils(file) = 1
  BY DEF Spoils
<1>2. CASE Spoils(file) = 0
  <2>1. Spoiled(file) = {}
    BY <1>2 DEF Spoiled
  <2> QED
    BY <1>2, <2>1, FS_EmptySet DEF Pending
<1>3. CASE Spoils(file) = 1
  <2>1. Spoiled(file) = {Last(file).raw} /\ EndsOpen(file)
    BY <1>3 DEF Spoiled, Spoils
  <2>2. IsFiniteSet(Spoiled(file)) /\ Cardinality(Spoiled(file)) = 1
    BY <2>1, FS_Singleton
  <2> QED
    BY <1>3, <2>1, <2>2 DEF Pending
<1> QED
  BY <1>1, <1>2, <1>3

(* The file stays, and no more is missing. *)
LEMMA NoMoreMissing ==
  ASSUME LInv, UNCHANGED <<silver, cuts>>, Missing' \subseteq Missing
  PROVE  NoneForgotten' /\ Cardinality(Bad(silver')) + Spoils(silver') <= cuts'
<1>1. IsFiniteSet(Missing) /\ Cardinality(Missing) + Pending(silver) <= 2 * cuts /\ cuts \in Nat
  BY DEF LInv, NoneForgotten, JobTypes
<1>2. IsFiniteSet(Missing') /\ Cardinality(Missing') <= Cardinality(Missing)
      /\ Cardinality(Missing') \in Nat /\ Cardinality(Missing) \in Nat
  BY <1>1, Fewer
<1>3. Pending(silver') = Pending(silver) /\ Spoils(silver') = Spoils(silver) /\ Bad(silver') = Bad(silver)
  OBVIOUS
<1>4. Pending(silver) \in Nat
  BY PendingNat
<1>5. Cardinality(Missing') + Pending(silver') <= 2 * cuts'
  BY <1>1, <1>2, <1>3, <1>4
<1> QED
  BY <1>2, <1>3, <1>5 DEF LInv, NoneForgotten

(* What is missing more is the label that was whole but for its end. *)
LEMMA MissingMore ==
  ASSUME LInv, cuts' \in Nat, NEW S, S = {} \/ \E x : S = {x},
         NEW k \in Nat, S = {} \/ k = 1,
         Missing' \subseteq (Missing \union Spoiled(silver)) \union S,
         Spoils(silver) + k + Pending(silver') <= Pending(silver) + 2 * (cuts' - cuts)
  PROVE  NoneForgotten'
<1> DEFINE more == Missing \union Spoiled(silver)
<1>1. IsFiniteSet(Missing) /\ Cardinality(Missing) + Pending(silver) <= 2 * cuts /\ cuts \in Nat
  BY DEF LInv, NoneForgotten, JobTypes
<1>2. /\ Pending(silver) \in Nat /\ Pending(silver') \in Nat /\ Spoils(silver) \in 0 .. 1
  BY PendingNat
<1>3. IsFiniteSet(more) /\ Cardinality(more) \in Nat /\ Cardinality(Missing) \in Nat
      /\ Cardinality(more) <= Cardinality(Missing) + Spoils(silver)
  <2>1. CASE Spoils(silver) = 0
    <3>1. more = Missing
      BY <2>1 DEF Spoiled
    <3>2. Cardinality(Missing) \in Nat
      BY <1>1, FS_CardinalityType
    <3> HIDE DEF more
    <3> QED
      BY <1>1, <2>1, <3>1, <3>2
  <2>2. CASE Spoils(silver) = 1
    <3>1. more = Missing \union {Last(silver).raw}
      BY <2>2 DEF Spoiled
    <3>2. /\ IsFiniteSet(more) /\ Cardinality(more) \in Nat /\ Cardinality(Missing) \in Nat
          /\ Cardinality(more) <= Cardinality(Missing) + 1
      <4> HIDE DEF more
      <4> QED
        BY <1>1, <3>1, OneAtMost
    <3> QED
      BY <2>2, <3>2
  <2> QED
    BY <1>2, <2>1, <2>2
<1> HIDE DEF more
<1>4. IsFiniteSet(more \union S) /\ Cardinality(more \union S) \in Nat
      /\ Cardinality(more \union S) <= Cardinality(more) + k
  <2>1. CASE S = {}
    <3>1. more \union S = more
      BY <2>1
    <3>2. Cardinality(more) <= Cardinality(more) + k
      BY <1>3
    <3> QED
      BY <1>3, <3>1, <3>2
  <2>2. CASE S # {}
    <3>1. PICK x : S = {x}
      BY <2>2
    <3>2. k = 1
      BY <2>2
    <3>3. /\ IsFiniteSet(more \union {x}) /\ Cardinality(more \union {x}) \in Nat
          /\ Cardinality(more \union {x}) <= Cardinality(more) + 1
      BY <1>3, OneAtMost
    <3> QED
      BY <3>1, <3>2, <3>3
  <2> QED
    BY <2>1, <2>2
<1>5. IsFiniteSet(Missing') /\ Cardinality(Missing') \in Nat
      /\ Cardinality(Missing') <= Cardinality(more \union S)
  <2>1. Missing' \subseteq more \union S
    BY DEF more
  <2> QED
    BY <1>4, <2>1, Fewer
<1>6. Cardinality(Missing') + Pending(silver') <= 2 * cuts'
  BY <1>1, <1>2, <1>3, <1>4, <1>5
<1> QED
  BY <1>5, <1>6 DEF NoneForgotten

(* A label with its end is appended. *)
LEMMA LabelAppended ==
  ASSUME NEW file \in Seq(Lines), NEW line \in LabelLines, line.kind = "label"
  PROVE  LET new == AppendLine(file, line)
             n   == Len(file) + 1
         IN  /\ new \in Seq(Lines) /\ ~EndsOpen(new)
             /\ \A raw : JobLabels(new, raw) \subseteq JobLabels(file, raw)
                  \union {i \in {n} : line.raw = raw /\ line.source = "llm_judge"}
             /\ EndsOpen(file) => \A raw : JobLabels(new, raw) \subseteq JobLabels(file, raw)
             /\ ExistingLabels(file) \subseteq ExistingLabels(new) \union Spoiled(file)
             /\ ~EndsOpen(file) => line.raw \in ExistingLabels(new)
             /\ Cardinality(Bad(new)) <= Cardinality(Bad(file)) + Spoils(file)
             /\ {x \in LabelsIn(new) : x.source = "human"} =
                  {x \in LabelsIn(file) : x.source = "human"}
                    \union {x \in {line} : x.source = "human" /\ ~EndsOpen(file)}
<1> DEFINE n   == Len(file) + 1
           new == AppendLine(file, line)
<1>1. IsLabel(line) /\ IsValid(line) /\ line \in Lines
  BY LabelsAreValid DEF Lines
<1>2. CASE EndsOpen(file)
  <2> DEFINE g == Append(Front(file), Garbled)
  <2>1. new = g
    BY <1>2 DEF AppendLine
  <2>2. Garbled \in Lines /\ ~IsLabel(Garbled) /\ Garbled.kind = "garbled"
    BY BrokenLines DEF Lines
  <2>3. /\ g \in Seq(Lines) /\ g # <<>> /\ Last(g) = Garbled
        /\ \A raw : JobLabels(g, raw) \subseteq JobLabels(file, raw)
        /\ ExistingLabels(file) \subseteq ExistingLabels(g) \union Spoiled(file)
        /\ Cardinality(Bad(g)) <= Cardinality(Bad(file)) + Spoils(file)
        /\ {x \in LabelsIn(g) : x.source = "human"} = {x \in LabelsIn(file) : x.source = "human"}
    BY <1>2, <2>2, OpenContinued
  <2> HIDE DEF g, new, n
  <2>4. ~EndsOpen(g)
    BY <2>2, <2>3 DEF EndsOpen
  <2>5. {x \in {line} : x.source = "human" /\ ~EndsOpen(file)} = {}
    BY <1>2
  <2>6. /\ new \in Seq(Lines) /\ ~EndsOpen(new)
        /\ \A raw : JobLabels(new, raw) \subseteq JobLabels(file, raw)
        /\ ExistingLabels(file) \subseteq ExistingLabels(new) \union Spoiled(file)
        /\ Cardinality(Bad(new)) <= Cardinality(Bad(file)) + Spoils(file)
        /\ {x \in LabelsIn(new) : x.source = "human"} = {x \in LabelsIn(file) : x.source = "human"}
    BY <2>1, <2>3, <2>4
  <2>7. \A raw : JobLabels(new, raw) \subseteq JobLabels(file, raw)
                  \union {i \in {n} : line.raw = raw /\ line.source = "llm_judge"}
    BY <2>6
  <2> QED
    BY <1>2, <2>5, <2>6, <2>7 DEF new, n
<1>3. CASE ~EndsOpen(file)
  <2> DEFINE app == Append(file, line)
  <2>1. new = app
    BY <1>3 DEF AppendLine
  <2>2. /\ app \in Seq(Lines) /\ app # <<>> /\ Last(app) = line
        /\ \A raw : JobLabels(app, raw) = JobLabels(file, raw)
             \union {i \in {n} : IsLabel(line) /\ line.raw = raw /\ line.source = "llm_judge"}
        /\ ExistingLabels(app) = ExistingLabels(file) \union {l.raw : l \in {l \in {line} : IsLabel(l)}}
        /\ Bad(app) = Bad(file) \union {i \in {n} : ~(IsLabel(line) /\ IsValid(line))}
        /\ LabelsIn(app) = LabelsIn(file) \union {l \in {line} : IsLabel(l)}
    BY <1>1, AppendedLine
  <2> HIDE DEF app, n
  <2>3. ~EndsOpen(app)
    BY <2>2 DEF EndsOpen
  <2>4. \A raw : JobLabels(app, raw) \subseteq JobLabels(file, raw)
                  \union {i \in {n} : line.raw = raw /\ line.source = "llm_judge"}
    BY <1>1, <2>2
  <2>5. ExistingLabels(file) \subseteq ExistingLabels(app) /\ line.raw \in ExistingLabels(app)
    BY <1>1, <2>2
  <2>6. Cardinality(Bad(app)) <= Cardinality(Bad(file)) + Spoils(file)
    <3>1. {i \in {n} : ~(IsLabel(line) /\ IsValid(line))} = {}
      BY <1>1
    <3>2. Bad(app) = Bad(file)
      BY <2>2, <3>1
    <3>3. Cardinality(Bad(file)) \in Nat
      BY FileIsFinite, FS_CardinalityType
    <3> QED
      BY <3>2, <3>3, PendingNat
  <2>7. {x \in LabelsIn(app) : x.source = "human"} =
          {x \in LabelsIn(file) : x.source = "human"}
            \union {x \in {line} : x.source = "human" /\ ~EndsOpen(file)}
    BY <1>1, <1>3, <2>2
  <2> QED
    BY <1>3, <2>1, <2>2, <2>3, <2>4, <2>5, <2>6, <2>7 DEF n
<1> QED
  BY <1>2, <1>3

LEMMA BadCount ==
  ASSUME LInv
  PROVE  /\ silver \in Seq(Lines) /\ cuts \in Nat /\ Spoils(silver) \in 0 .. 1
         /\ Cardinality(Bad(silver)) \in Nat /\ Cardinality(Bad(silver)) + Spoils(silver) <= cuts
<1>1. silver \in Seq(Lines) /\ cuts \in Nat /\ Cardinality(Bad(silver)) + Spoils(silver) <= cuts
  BY DEF LInv, JobTypes
<1>2. Cardinality(Bad(silver)) \in Nat
  BY <1>1, FileIsFinite, FS_CardinalityType
<1> QED
  BY <1>1, <1>2, PendingNat

(* The job's label is one for the message it is at, and is read if it does not *)
(* continue another line.                                                      *)
LEMMA LabelWritten ==
  ASSUME LInv, phase # "idle", at <= limit, Messages[at].raw \notin existing,
         NEW label \in LabelLines, label.kind = "label",
         label.raw = Messages[at].raw, label.source = "llm_judge",
         Write(label), Advance, UNCHANGED <<limit, existing, finished>>
  PROVE  LInv'
<1> DEFINE raw0 == Messages[at].raw
           n    == Len(silver) + 1
<1>1. /\ silver \in Seq(Lines) /\ at \in DOMAIN Messages /\ at \in Nat /\ raw0 \in RawLines
      /\ cuts \in Nat /\ silver' = AppendLine(silver, label) /\ cuts' = cuts
      /\ at' = at + 1 /\ phase' = "looping" /\ existing' = existing
  BY JobAssumption DEF LInv, JobTypes, Write, Advance, RawLines
<1>2. /\ silver' \in Seq(Lines) /\ ~EndsOpen(silver')
      /\ \A raw : JobLabels(silver', raw) \subseteq JobLabels(silver, raw)
           \union {i \in {n} : raw = raw0}
      /\ ExistingLabels(silver) \subseteq ExistingLabels(silver') \union Spoiled(silver)
      /\ ~EndsOpen(silver) => raw0 \in ExistingLabels(silver')
      /\ Cardinality(Bad(silver')) <= Cardinality(Bad(silver)) + Spoils(silver)
  <2> DEFINE new == AppendLine(silver, label)
  <2>1. /\ new \in Seq(Lines) /\ ~EndsOpen(new)
        /\ \A raw : JobLabels(new, raw) \subseteq JobLabels(silver, raw)
             \union {i \in {n} : label.raw = raw /\ label.source = "llm_judge"}
        /\ ExistingLabels(silver) \subseteq ExistingLabels(new) \union Spoiled(silver)
        /\ ~EndsOpen(silver) => label.raw \in ExistingLabels(new)
        /\ Cardinality(Bad(new)) <= Cardinality(Bad(silver)) + Spoils(silver)
    BY <1>1, LabelAppended
  <2>2. silver' = new
    BY <1>1
  <2> HIDE DEF new, n
  <2> QED
    BY <2>1, <2>2
<1> HIDE DEF n
<1>3. Past' = Past \union {at} /\ at \notin Past
  BY <1>1, JobAssumption DEF Past
<1>4. JobTypes'
  BY <1>1, <1>2 DEF LInv, JobTypes
<1>5. ASSUME NEW raw \in RawLines
      PROVE  AtMostOnce(raw)'
  <2> DEFINE had  == JobLabels(silver, raw)
             has  == JobLabels(silver', raw)
             gone == Positions(raw) \intersect Past
             is   == Positions(raw) \intersect Past'
  <2>1. IsFiniteSet(had) /\ IsFiniteSet(gone) /\ IsFiniteSet(is) /\ IsFiniteSet(Positions(raw))
        /\ gone \subseteq is /\ is \subseteq Positions(raw)
    BY <1>1, <1>3, FileIsFinite, FinitePositions, Fewer
  <2>2. Cardinality(had) \in Nat /\ Cardinality(gone) \in Nat /\ Cardinality(is) \in Nat
        /\ Cardinality(Positions(raw)) \in Nat
        /\ Cardinality(gone) <= Cardinality(is) /\ Cardinality(is) <= Cardinality(Positions(raw))
    BY <2>1, Fewer
  <2>3. /\ Cardinality(had) <= Cardinality(Positions(raw))
        /\ raw \notin existing => Cardinality(had) <= Cardinality(gone)
    BY DEF LInv, AtMostOnce
  <2>4. CASE raw # raw0
    <3>1. has \subseteq had
      BY <1>2, <2>4
    <3>2. Cardinality(has) \in Nat /\ Cardinality(has) <= Cardinality(had)
      <4> HIDE DEF has, had
      <4> QED
        BY <2>1, <3>1, Fewer
    <3> QED
      BY <1>1, <2>2, <2>3, <3>2 DEF AtMostOnce, Positions
  <2>5. CASE raw = raw0
    <3>1. has \subseteq had \union {n}
      BY <1>2, <2>5
    <3>2. is = gone \union {at} /\ at \notin gone
      BY <1>1, <1>3, <2>5 DEF Positions
    <3>3. Cardinality(has) \in Nat /\ Cardinality(has) <= Cardinality(had) + 1
      <4> HIDE DEF has, had
      <4>1. IsFiniteSet(had \union {n}) /\ Cardinality(had \union {n}) \in Nat
            /\ Cardinality(had \union {n}) <= Cardinality(had) + 1
        BY <2>1, OneAtMost
      <4>2. Cardinality(has) \in Nat /\ Cardinality(has) <= Cardinality(had \union {n})
        BY <3>1, <4>1, Fewer
      <4> QED
        BY <2>2, <4>1, <4>2
    <3>4. Cardinality(is) = Cardinality(gone) + 1
      <4> HIDE DEF is, gone
      <4> QED
        BY <2>1, <3>2, FS_AddElement
    <3>5. Cardinality(has) <= Cardinality(is)
      BY <1>1, <2>2, <2>3, <2>5, <3>3, <3>4
    <3> QED
      BY <2>2, <3>3, <3>5 DEF AtMostOnce, Positions
  <2> QED
    BY <2>4, <2>5
<1>6. NoneForgotten'
  <2> DEFINE S == IF EndsOpen(silver) THEN {raw0} ELSE {}
             k == IF EndsOpen(silver) THEN 1 ELSE 0
  <2>1. Through' \subseteq Through \union {raw0} /\ Known' = Known
    <3>1. Through' \subseteq Through \union {raw0}
      BY <1>3 DEF Through
    <3>2. Known' = Known
      BY <1>1 DEF Known
    <3> QED
      BY <3>1, <3>2
  <2>2. Missing' \subseteq (Missing \union Spoiled(silver)) \union S
    BY <1>2, <2>1 DEF Missing
  <2>3. Spoils(silver) + k + Pending(silver') <= Pending(silver) + 2 * (cuts' - cuts)
    BY <1>1, <1>2, PendingNat
  <2>4. k \in Nat /\ (S = {} \/ \E x : S = {x}) /\ (S = {} \/ k = 1) /\ cuts' \in Nat
    BY <1>1
  <2> HIDE DEF S, k
  <2> QED
    BY <2>2, <2>3, <2>4, MissingMore
<1>7. Cardinality(Bad(silver')) + Spoils(silver') <= cuts'
  <2>1. Spoils(silver') = 0 /\ Cardinality(Bad(silver')) \in Nat
    BY <1>2, PendingNat, FileIsFinite, FS_CardinalityType
  <2> QED
    BY <1>1, <1>2, <2>1, BadCount
<1> QED
  BY <1>4, <1>5, <1>6, <1>7 DEF LInv

LEMMA InitLInv == Init => LInv
<1> SUFFICES ASSUME Init PROVE LInv
  OBVIOUS
<1>1. silver = <<>> /\ phase = "idle" /\ at = 1 /\ limit = 0 /\ cuts = 0 /\ finished = 0
  BY DEF Init, InitLabels
<1>2. JobTypes
  BY <1>1, JobAssumption DEF JobTypes
<1>3. ASSUME NEW raw \in RawLines PROVE AtMostOnce(raw)
  <2>1. JobLabels(silver, raw) = {} /\ Cardinality(Positions(raw)) \in Nat
    BY <1>1, FinitePositions DEF JobLabels
  <2>2. Cardinality(JobLabels(silver, raw)) = 0
    BY <2>1, FS_EmptySet
  <2> QED
    BY <1>1, <2>1, <2>2 DEF AtMostOnce
<1>4. ~EndsOpen(silver)
  BY <1>1 DEF EndsOpen
<1>5. NoneForgotten
  <2>1. {i \in DOMAIN Messages : i <= finished} = {}
    BY <1>1, JobAssumption
  <2>2. Missing = {}
    BY <1>1, <2>1 DEF Missing, Known, Through, Past
  <2>3. IsFiniteSet(Missing) /\ Cardinality(Missing) = 0 /\ Pending(silver) = 0
    BY <1>4, <2>2, FS_EmptySet, PendingNat
  <2> QED
    BY <1>1, <2>3 DEF NoneForgotten
<1>6. Cardinality(Bad(silver)) = 0 /\ Spoils(silver) = 0
  <2>1. Bad(silver) = {}
    BY <1>1 DEF Bad
  <2> QED
    BY <1>4, <2>1, FS_EmptySet, PendingNat
<1> QED
  BY <1>1, <1>2, <1>3, <1>5, <1>6 DEF LInv

LEMMA StartLInv ==
  ASSUME LInv, NEW s, NEW count \in CountOptions, StartJob(s, count)
  PROVE  LInv'
<1>1. /\ phase = "idle" /\ phase' = "looping" /\ at' = 1
      /\ limit' = UpTo(count, Len(Messages))
      /\ existing' = ExistingLabels(silver)
      /\ UNCHANGED <<silver, cuts, finished>>
  BY DEF StartJob, fileVars
<1>2. limit' \in 0 .. Len(Messages)
  BY <1>1, JobAssumption DEF UpTo
<1>3. JobTypes'
  BY <1>1, <1>2 DEF LInv, JobTypes
<1>4. Missing' \subseteq Missing
  <2>1. Past' = {}
    BY <1>1, JobAssumption DEF Past
  <2>2. Through' \subseteq Through
    BY <1>1, <2>1 DEF Through
  <2>3. Known' = ExistingLabels(silver)
    BY <1>1 DEF Known
  <2> QED
    BY <1>1, <2>2, <2>3 DEF Missing
<1>5. \A raw \in RawLines \ existing' : JobLabels(silver, raw) = {}
  BY <1>1 DEF JobLabels, ExistingLabels
<1> QED
  BY <1>1, <1>3, <1>4, <1>5, NoMoreMissing, NothingWritten

(* The file stays, and so do the messages the job is past. *)
LEMMA WaitingLInv ==
  ASSUME LInv, phase \notin {"idle"}, phase' \in {"calling", "backoff"}, at <= limit,
         Messages[at].raw \notin existing,
         UNCHANGED <<at, limit, existing, silver, cuts, finished>>
  PROVE  LInv'
<1>1. JobTypes'
  BY DEF LInv, JobTypes
<1>2. Past' = Past /\ Missing' = Missing
  BY DEF Past, Missing, Known, Through
<1> QED
  BY <1>1, <1>2, NoMoreMissing, NothingWritten

LEMMA SkipLInv ==
  ASSUME LInv, SkipLabelled
  PROVE  LInv'
<1>1. /\ phase = "looping" /\ at <= limit /\ Messages[at].raw \in existing
      /\ phase' = "looping" /\ at' = at + 1
      /\ UNCHANGED <<limit, existing, silver, cuts, finished>>
  BY DEF SkipLabelled, AtMessage, HasLabel, Advance, fileVars
<1>2. JobTypes'
  BY <1>1 DEF LInv, JobTypes
<1>3. Past' = Past \union {at}
  BY <1>1, JobAssumption DEF Past, LInv, JobTypes
<1>4. Through' \subseteq Through \union {Messages[at].raw}
  BY <1>1, <1>3 DEF Through
<1>5. Known' = Known /\ Messages[at].raw \in Known
  BY <1>1 DEF Known
<1>6. Missing' \subseteq Missing
  BY <1>1, <1>4, <1>5 DEF Missing
<1> QED
  BY <1>1, <1>2, <1>3, <1>6, NoMoreMissing, NothingWritten

LEMMA JobLabelLine ==
  ASSUME NEW raw \in RawLines, NEW method \in Methods, NEW e \in Extractions \union {Nothing},
         method = "noise_filter" => e = Nothing /\ IsNoise(raw)
  PROVE  LET label == Label(raw, method, e)
         IN  /\ label \in LabelLines /\ label.kind = "label"
             /\ label.raw = raw /\ label.source = "llm_judge"
             /\ Unended(label) \in LabelLines /\ Unended(label).kind = "unended"
             /\ Unended(label).raw = raw
<1>1. ASSUME NEW kind \in Kinds
      PROVE  LET line == Written(raw, method, e, kind)
             IN  line \in LabelLines /\ line.kind = kind /\ line.raw = raw /\ line.source = "llm_judge"
  <2> DEFINE line == Written(raw, method, e, kind)
  <2>1. /\ line.kind = kind /\ line.raw = raw /\ line.source = "llm_judge" /\ line.method = method
        /\ line.extracted = e.type /\ line.keys = e.keys
    BY WrittenFields
  <2>2. Nothing.type = "none" /\ Nothing.keys = {}
    BY DEF Nothing
  <2>3. FilterIsRight(line)
    <3> HIDE DEF line
    <3> QED
      BY <2>1, <2>2 DEF FilterIsRight
  <2>4. line \in JobLines
    BY <2>3 DEF JobLines
  <2> QED
    BY <2>1, <2>4 DEF LabelLines
<1>2. "label" \in Kinds /\ "unended" \in Kinds
  BY DEF Kinds
<1> QED
  BY <1>1, <1>2, WrittenLine

LEMMA WriteLInv ==
  ASSUME LInv, phase # "idle", at <= limit, Messages[at].raw \notin existing,
         NEW method \in Methods, NEW e \in Extractions \union {Nothing},
         method = "noise_filter" => e = Nothing /\ IsNoise(Messages[at].raw),
         Write(Label(Messages[at].raw, method, e)), Advance,
         UNCHANGED <<limit, existing, finished>>
  PROVE  LInv'
<1> DEFINE label == Label(Messages[at].raw, method, e)
<1>1. Messages[at].raw \in RawLines
  BY JobAssumption DEF LInv, JobTypes, RawLines
<1>2. label \in LabelLines /\ label.kind = "label" /\ label.raw = Messages[at].raw
      /\ label.source = "llm_judge" /\ Write(label)
  BY <1>1, JobLabelLine
<1> HIDE DEF label
<1> QED
  BY <1>2, LabelWritten

LEMMA WriteErrorLInv ==
  ASSUME LInv, phase = "calling", WriteError
  PROVE  LInv'
<1>1. /\ at <= limit /\ Messages[at].raw \notin existing
      /\ "error" \in Methods /\ "error" # "noise_filter"
  BY DEF LInv, JobTypes, Methods
<1> QED
  BY <1>1, WriteLInv DEF WriteError

LEMMA FinishLInv ==
  ASSUME LInv, FinishJob
  PROVE  LInv'
<1>1. /\ phase = "looping" /\ at > limit /\ phase' = "idle" /\ at' = 1 /\ limit' = 0
      /\ finished' = IF limit > finished THEN limit ELSE finished
      /\ UNCHANGED <<silver, cuts>>
  BY DEF FinishJob, NoJob, fileVars
<1>2. JobTypes'
  BY <1>1 DEF LInv, JobTypes
<1>3. Past' \union {i \in DOMAIN Messages : i <= finished'}
        \subseteq Past \union {i \in DOMAIN Messages : i <= finished}
  BY <1>1, JobAssumption DEF LInv, JobTypes, Past
<1>4. Through' \subseteq Through /\ Known' = {}
  BY <1>1, <1>3 DEF Through, Known
<1>5. Missing' \subseteq Missing
  BY <1>1, <1>4 DEF Missing
<1> QED
  BY <1>1, <1>2, <1>5, NoMoreMissing, NothingWritten

(* A writer is cut off: one more line is not valid, or will not be once it is *)
(* continued; the label that is left whole is one more of the job.            *)
LEMMA CutOff ==
  ASSUME NEW file \in Seq(Lines), NEW label, NEW rest \in Remains(label),
         Unended(label) \in LabelLines, Unended(label).kind = "unended"
  PROVE  LET new == CutLine(file, rest)
             n   == Len(file) + 1
         IN  /\ new \in Seq(Lines)
             /\ \A raw : JobLabels(new, raw) \subseteq JobLabels(file, raw)
                  \union {i \in {n} : raw = Unended(label).raw}
             /\ ExistingLabels(file) \subseteq ExistingLabels(new) \union Spoiled(file)
             /\ Spoils(file) + Pending(new) <= Pending(file) + 2
             /\ Cardinality(Bad(new)) + Spoils(new) <= Cardinality(Bad(file)) + Spoils(file) + 1
             /\ {x \in LabelsIn(new) : x.source = "human"} = {x \in LabelsIn(file) : x.source = "human"}
<1> DEFINE n   == Len(file) + 1
           new == CutLine(file, rest)
<1>1. rest \in {Cut, SplitCharacter, Unended(label)} /\ rest \in Lines
  BY DEF Remains, Lines
<1>2. CASE EndsOpen(file)
  <2> DEFINE left == IF rest = SplitCharacter THEN rest ELSE Cut
             g    == Append(Front(file), left)
  <2>1. new = g
    BY <1>2 DEF CutLine
  <2>2. left \in Lines /\ ~IsLabel(left) /\ left.kind \in {"cut", "split character"}
    BY BrokenLines DEF Lines
  <2> HIDE DEF left
  <2>3. /\ g \in Seq(Lines) /\ g # <<>> /\ Last(g) = left
        /\ \A raw : JobLabels(g, raw) \subseteq JobLabels(file, raw)
        /\ ExistingLabels(file) \subseteq ExistingLabels(g) \union Spoiled(file)
        /\ Cardinality(Bad(g)) \in Nat
        /\ Cardinality(Bad(g)) <= Cardinality(Bad(file)) + Spoils(file)
        /\ {x \in LabelsIn(g) : x.source = "human"} = {x \in LabelsIn(file) : x.source = "human"}
    BY <1>2, <2>2, OpenContinued
  <2> HIDE DEF g, new, n
  <2>4. Spoils(g) = 0
    BY <2>2, <2>3 DEF Spoils
  <2>5. Pending(g) <= 1 /\ Pending(g) \in Nat /\ Pending(file) = 1 + Spoils(file) /\ Spoils(file) \in Nat
    <3>1. Pending(g) <= 1 /\ Pending(g) \in Nat
      BY <2>4, PendingNat
    <3> QED
      BY <1>2, <3>1, PendingNat
  <2>6. Cardinality(Bad(file)) \in Nat
    BY FileIsFinite, FS_CardinalityType
  <2>7. /\ new \in Seq(Lines)
        /\ \A raw : JobLabels(new, raw) \subseteq JobLabels(file, raw)
             \union {i \in {n} : raw = Unended(label).raw}
        /\ ExistingLabels(file) \subseteq ExistingLabels(new) \union Spoiled(file)
        /\ {x \in LabelsIn(new) : x.source = "human"} = {x \in LabelsIn(file) : x.source = "human"}
    BY <2>1, <2>3
  <2>8. /\ Spoils(file) + Pending(new) <= Pending(file) + 2
        /\ Cardinality(Bad(new)) + Spoils(new) <= Cardinality(Bad(file)) + Spoils(file) + 1
    BY <2>1, <2>3, <2>4, <2>5, <2>6
  <2> QED
    BY <2>7, <2>8 DEF new, n
<1>3. CASE ~EndsOpen(file)
  <2> DEFINE g == Append(file, rest)
  <2>1. new = g
    BY <1>3 DEF CutLine
  <2>2. /\ g \in Seq(Lines) /\ g # <<>> /\ Last(g) = rest
        /\ \A raw : JobLabels(g, raw) = JobLabels(file, raw)
             \union {i \in {n} : IsLabel(rest) /\ rest.raw = raw /\ rest.source = "llm_judge"}
        /\ ExistingLabels(g) = ExistingLabels(file) \union {l.raw : l \in {l \in {rest} : IsLabel(l)}}
        /\ Bad(g) = Bad(file) \union {i \in {n} : ~(IsLabel(rest) /\ IsValid(rest))}
        /\ LabelsIn(g) = LabelsIn(file) \union {l \in {rest} : IsLabel(l)}
    BY <1>1, AppendedLine
  <2> HIDE DEF g, new, n
  <2>3. IsLabel(rest) => rest = Unended(label)
    BY <1>1, BrokenLines
  <2>4. /\ IsLabel(Unended(label)) /\ IsValid(Unended(label)) /\ Unended(label).source = "llm_judge"
    BY LabelsAreValid
  <2>5. \A raw : JobLabels(g, raw) \subseteq JobLabels(file, raw)
                   \union {i \in {n} : raw = Unended(label).raw}
    BY <2>2, <2>3
  <2>6. {x \in LabelsIn(g) : x.source = "human"} = {x \in LabelsIn(file) : x.source = "human"}
    BY <2>2, <2>3, <2>4
  <2>7. Pending(file) = 0 /\ Spoils(file) = 0 /\ Pending(g) <= 2 /\ Pending(g) \in Nat
    BY <1>3, PendingNat
  <2>8. Cardinality(Bad(g)) + Spoils(g) <= Cardinality(Bad(file)) + 1
    <3>1. IsFiniteSet(Bad(file)) /\ Cardinality(Bad(file)) \in Nat
      BY FileIsFinite, FS_CardinalityType
    <3>2. CASE rest = Unended(label)
      <4>1. Bad(g) = Bad(file) /\ Spoils(g) \in 0 .. 1
        BY <2>2, <2>4, <3>2, PendingNat
      <4> QED
        BY <3>1, <4>1
    <3>3. CASE rest # Unended(label)
      <4>1. ~IsLabel(rest) /\ rest.kind # "unended"
        BY <1>1, <2>3, <3>3, BrokenLines
      <4>2. Bad(g) = Bad(file) \union {n}
        BY <2>2, <4>1
      <4>3. Spoils(g) = 0
        BY <2>2, <4>1 DEF Spoils
      <4>4. Cardinality(Bad(g)) \in Nat /\ Cardinality(Bad(g)) <= Cardinality(Bad(file)) + 1
        BY <3>1, <4>2, OneAtMost
      <4> QED
        BY <3>1, <4>3, <4>4
    <3> QED
      BY <3>2, <3>3
  <2>9. /\ g \in Seq(Lines) /\ ExistingLabels(file) \subseteq ExistingLabels(g)
        /\ Spoils(file) + Pending(g) <= Pending(file) + 2
        /\ Cardinality(Bad(g)) + Spoils(g) <= Cardinality(Bad(file)) + Spoils(file) + 1
    <3>1. Spoils(file) + Pending(g) <= Pending(file) + 2
      BY <2>7
    <3>2. Cardinality(Bad(g)) + Spoils(g) <= Cardinality(Bad(file)) + Spoils(file) + 1
      <4>1. Cardinality(Bad(file)) \in Nat
        BY FileIsFinite, FS_CardinalityType
      <4> QED
        BY <2>7, <2>8, <4>1
    <3> QED
      BY <2>2, <3>1, <3>2
  <2> QED
    BY <2>1, <2>5, <2>6, <2>9 DEF n, new
<1> QED
  BY <1>2, <1>3

(* What the job may be writing is a label for the message it is at, which has *)
(* none yet.                                                                  *)
LEMMA LabelBeingWritten ==
  ASSUME LInv, NEW label \in BeingWritten
  PROVE  /\ phase # "idle" /\ at \in DOMAIN Messages /\ Messages[at].raw \notin existing
         /\ Unended(label) \in LabelLines /\ Unended(label).kind = "unended"
         /\ Unended(label).raw = Messages[at].raw
<1> DEFINE raw == Messages[at].raw
<1>1. CASE phase = "calling"
  <2>1. label \in {Label(raw, "llm", e) : e \in Extractions} \union {Label(raw, "error", Nothing)}
    BY <1>1 DEF BeingWritten, AtMessage
  <2>2. at \in DOMAIN Messages /\ raw \notin existing /\ raw \in RawLines
    BY <1>1, JobAssumption DEF LInv, JobTypes, RawLines
  <2>3. PICK method \in Methods, e \in Extractions \union {Nothing} :
          method # "noise_filter" /\ label = Label(raw, method, e)
    BY <2>1 DEF Methods
  <2>4. /\ Unended(label) \in LabelLines /\ Unended(label).kind = "unended"
        /\ Unended(label).raw = raw
    BY <2>2, <2>3, JobLabelLine
  <2> QED
    BY <1>1, <2>2, <2>4
<1>2. CASE phase # "calling"
  <2>1. /\ AtMessage /\ Messages[at].noise /\ ~HasLabel(Messages[at])
        /\ label = Label(raw, "noise_filter", Nothing)
    BY <1>2 DEF BeingWritten
  <2>2. phase # "idle" /\ at \in DOMAIN Messages /\ raw \notin existing /\ raw \in RawLines
    BY <2>1, JobAssumption DEF AtMessage, HasLabel, LInv, JobTypes, RawLines
  <2>3. IsNoise(raw) /\ "noise_filter" \in Methods /\ Nothing \in Extractions \union {Nothing}
    BY <2>1, <2>2 DEF IsNoise, Methods
  <2>4. /\ Unended(label) \in LabelLines /\ Unended(label).kind = "unended"
        /\ Unended(label).raw = raw
    BY <2>1, <2>2, <2>3, JobLabelLine
  <2> QED
    BY <2>2, <2>4
<1> QED
  BY <1>1, <1>2

LEMMA KilledLInv ==
  ASSUME LInv, phase' = "idle", at' = 1, limit' = 0, UNCHANGED finished, cuts' = cuts + 1,
         NEW label \in BeingWritten, NEW rest \in Remains(label), silver' = CutLine(silver, rest)
  PROVE  LInv'
<1> DEFINE raw0 == Messages[at].raw
           n    == Len(silver) + 1
<1>1. /\ phase # "idle" /\ at \in DOMAIN Messages /\ raw0 \notin existing
      /\ Unended(label) \in LabelLines /\ Unended(label).kind = "unended" /\ Unended(label).raw = raw0
  BY LabelBeingWritten
<1>2. /\ silver \in Seq(Lines) /\ cuts \in Nat /\ Spoils(silver) \in 0 .. 1
      /\ Cardinality(Bad(silver)) \in Nat /\ Cardinality(Bad(silver)) + Spoils(silver) <= cuts
  BY BadCount
<1>3. /\ silver' \in Seq(Lines)
      /\ \A raw : JobLabels(silver', raw) \subseteq JobLabels(silver, raw)
           \union {i \in {n} : raw = raw0}
      /\ ExistingLabels(silver) \subseteq ExistingLabels(silver') \union Spoiled(silver)
      /\ Spoils(silver) + Pending(silver') <= Pending(silver) + 2
      /\ Cardinality(Bad(silver')) + Spoils(silver') <= Cardinality(Bad(silver)) + Spoils(silver) + 1
  <2> DEFINE new == CutLine(silver, rest)
  <2>1. /\ new \in Seq(Lines)
        /\ \A raw : JobLabels(new, raw) \subseteq JobLabels(silver, raw)
             \union {i \in {n} : raw = Unended(label).raw}
        /\ ExistingLabels(silver) \subseteq ExistingLabels(new) \union Spoiled(silver)
        /\ Spoils(silver) + Pending(new) <= Pending(silver) + 2
        /\ Cardinality(Bad(new)) + Spoils(new) <= Cardinality(Bad(silver)) + Spoils(silver) + 1
    BY <1>1, <1>2, CutOff
  <2>2. silver' = new
    OBVIOUS
  <2> HIDE DEF new, n
  <2> QED
    BY <1>1, <2>1, <2>2
<1> HIDE DEF n
<1>4. JobTypes'
  BY <1>2, <1>3 DEF LInv, JobTypes
<1>5. ASSUME NEW raw \in RawLines
      PROVE  AtMostOnce(raw)'
  <2> DEFINE had == JobLabels(silver, raw)
             has == JobLabels(silver', raw)
             all == Positions(raw)
  <2>1. IsFiniteSet(had) /\ IsFiniteSet(all) /\ Cardinality(had) \in Nat /\ Cardinality(all) \in Nat
    BY <1>2, FileIsFinite, FinitePositions, FS_CardinalityType
  <2>2. Cardinality(has) <= Cardinality(all)
    <3>1. CASE raw # raw0
      <4>0. {i \in {n} : raw = raw0} = {}
        BY <3>1
      <4>1. has \subseteq had /\ Cardinality(had) <= Cardinality(all)
        <5>1. has \subseteq had \union {i \in {n} : raw = raw0}
          BY <1>3
        <5>2. Cardinality(had) <= Cardinality(all)
          BY DEF LInv, AtMostOnce
        <5> HIDE DEF has, had, all
        <5> QED
          BY <4>0, <5>1, <5>2
      <4> HIDE DEF has, had, all
      <4>2. Cardinality(has) \in Nat /\ Cardinality(has) <= Cardinality(had)
        BY <2>1, <4>1, Fewer
      <4> QED
        BY <2>1, <4>1, <4>2
    <3>2. CASE raw = raw0
      <4> DEFINE gone == Positions(raw) \intersect Past
      <4>1. Cardinality(had) <= Cardinality(gone)
        BY <1>1, <3>2 DEF LInv, AtMostOnce
      <4>2. has \subseteq had \union {n}
        BY <1>3, <3>2
      <4>3. at \notin gone /\ gone \union {at} \subseteq all
        BY <1>1, <3>2, JobAssumption DEF Past, Positions
      <4> HIDE DEF has, had, all, gone
      <4>4. Cardinality(has) \in Nat /\ Cardinality(has) <= Cardinality(had) + 1
        <5>1. IsFiniteSet(had \union {n}) /\ Cardinality(had \union {n}) \in Nat
              /\ Cardinality(had \union {n}) <= Cardinality(had) + 1
          BY <2>1, OneAtMost
        <5>2. Cardinality(has) \in Nat /\ Cardinality(has) <= Cardinality(had \union {n})
          BY <4>2, <5>1, Fewer
        <5> QED
          BY <2>1, <5>1, <5>2
      <4>5. Cardinality(gone) \in Nat /\ Cardinality(gone) + 1 <= Cardinality(all)
        <5>1. IsFiniteSet(gone) /\ Cardinality(gone) \in Nat
          BY <2>1, <4>3, Fewer
        <5>2. Cardinality(gone \union {at}) = Cardinality(gone) + 1
          BY <4>3, <5>1, FS_AddElement
        <5>3. Cardinality(gone \union {at}) <= Cardinality(all)
          BY <2>1, <4>3, Fewer
        <5> QED
          BY <5>1, <5>2, <5>3
      <4> QED
        BY <2>1, <4>1, <4>4, <4>5
    <3> QED
      BY <3>1, <3>2
  <2> QED
    BY <2>2 DEF AtMostOnce, Positions
<1>6. NoneForgotten'
  <2>1. Through' \subseteq Through /\ Known' = {}
    BY DEF Through, Past, Known
  <2> DEFINE S == {}
             k == 0
  <2>2. Missing' \subseteq (Missing \union Spoiled(silver)) \union S
    BY <1>3, <2>1 DEF Missing
  <2>3. Spoils(silver) + k + Pending(silver') <= Pending(silver) + 2 * (cuts' - cuts)
    <3>1. Spoils(silver) \in Nat /\ Pending(silver) \in Nat /\ Pending(silver') \in Nat
      BY PendingNat
    <3> QED
      BY <1>2, <1>3, <3>1
  <2>4. k \in Nat /\ (S = {} \/ \E x : S = {x}) /\ (S = {} \/ k = 1) /\ cuts' \in Nat
    BY <1>2
  <2> HIDE DEF S, k
  <2> QED
    BY <2>2, <2>3, <2>4, MissingMore
<1>7. Cardinality(Bad(silver')) + Spoils(silver') <= cuts'
  <2>1. Spoils(silver') \in Nat /\ Cardinality(Bad(silver')) \in Nat
    BY <1>3, PendingNat, FileIsFinite, FS_CardinalityType
  <2> QED
    BY <1>2, <1>3, <2>1
<1> QED
  BY <1>4, <1>5, <1>6, <1>7 DEF LInv

LEMMA KillLInv ==
  ASSUME LInv, KillJob
  PROVE  LInv'
<1>1. phase' = "idle" /\ at' = 1 /\ limit' = 0 /\ UNCHANGED finished
  BY DEF KillJob, NoJob
<1>2. CASE UNCHANGED fileVars
  <2>1. UNCHANGED <<silver, cuts>>
    BY <1>2 DEF fileVars
  <2>2. JobTypes'
    BY <1>1, <2>1 DEF LInv, JobTypes
  <2>3. Missing' \subseteq Missing
    <3>1. Through' \subseteq Through /\ Known' = {}
      BY <1>1 DEF Through, Past, Known
    <3> QED
      BY <2>1, <3>1 DEF Missing
  <2> QED
    BY <1>1, <2>1, <2>2, <2>3, NoMoreMissing, NothingWritten
<1>3. CASE /\ cuts' = cuts + 1
           /\ \E label \in BeingWritten : \E rest \in Remains(label) : silver' = CutLine(silver, rest)
  BY <1>1, <1>3, KilledLInv
<1> QED
  BY <1>2, <1>3 DEF KillJob

LEMMA HumanIsLine ==
  ASSUME NEW raw \in RawLines, NEW type \in UpdateTypes
  PROVE  LET x == HumanLabel(raw, type)
         IN  /\ x \in LabelLines /\ x \in Lines /\ IsLabel(x)
             /\ x.kind = "label" /\ x.raw = raw /\ x.source = "human"
<1> DEFINE x == HumanLabel(raw, type)
<1>1. x \in LabelLines
  BY DEF LabelLines
<1>2. x.kind = "label" /\ x.raw = raw /\ x.source = "human"
  BY DEF HumanLabel
<1> QED
  BY <1>1, <1>2 DEF Lines, IsLabel

(* An annotator's label is none of the job's. *)
LEMMA MergeLInv ==
  ASSUME LInv, NEW raw0 \in RawLines, NEW type \in UpdateTypes, NEW b \in BOOLEAN,
         MergeHuman(raw0, type, b)
  PROVE  LInv'
<1> DEFINE label == HumanLabel(raw0, type)
<1>1. /\ silver' = silver \/ silver' = AppendLine(silver, label)
      /\ UNCHANGED <<phase, at, limit, existing, cuts, finished>>
  BY DEF MergeHuman, MergeInto, jobVars
<1>2. label \in LabelLines /\ label.kind = "label" /\ label.source = "human"
  BY HumanIsLine
<1> HIDE DEF label
<1>3. Past' = Past /\ Through' = Through /\ Known' = Known
  BY <1>1 DEF Past, Through, Known
<1>4. CASE silver' = silver
  <2>1. JobTypes'
    BY <1>1, <1>4 DEF LInv, JobTypes
  <2>2. Missing' = Missing
    BY <1>3, <1>4 DEF Missing
  <2> QED
    BY <1>1, <1>3, <1>4, <2>1, <2>2, NoMoreMissing, NothingWritten DEF LInv, JobTypes
<1>5. CASE silver' = AppendLine(silver, label)
  <2>1. /\ silver \in Seq(Lines) /\ cuts \in Nat /\ Spoils(silver) \in 0 .. 1
        /\ Cardinality(Bad(silver)) \in Nat /\ Cardinality(Bad(silver)) + Spoils(silver) <= cuts
    BY BadCount
  <2> DEFINE new == AppendLine(silver, label)
             n   == Len(silver) + 1
  <2>2. /\ new \in Seq(Lines) /\ ~EndsOpen(new)
        /\ \A raw : JobLabels(new, raw) \subseteq JobLabels(silver, raw)
             \union {i \in {n} : label.raw = raw /\ label.source = "llm_judge"}
        /\ ExistingLabels(silver) \subseteq ExistingLabels(new) \union Spoiled(silver)
        /\ Cardinality(Bad(new)) <= Cardinality(Bad(silver)) + Spoils(silver)
    BY <1>2, <2>1, LabelAppended
  <2>3. silver' = new
    BY <1>5
  <2> HIDE DEF new, n
  <2>4. /\ silver' \in Seq(Lines) /\ ~EndsOpen(silver')
        /\ \A raw : JobLabels(silver', raw) \subseteq JobLabels(silver, raw)
        /\ ExistingLabels(silver) \subseteq ExistingLabels(silver') \union Spoiled(silver)
        /\ Cardinality(Bad(silver')) <= Cardinality(Bad(silver)) + Spoils(silver)
    BY <1>2, <2>2, <2>3
  <2>5. JobTypes'
    BY <1>1, <2>4 DEF LInv, JobTypes
  <2>6. NoneForgotten'
    <3> DEFINE S == {}
               k == 0
    <3>1. Missing' \subseteq (Missing \union Spoiled(silver)) \union S
      BY <1>3, <2>4 DEF Missing
    <3>2. Spoils(silver) + k + Pending(silver') <= Pending(silver) + 2 * (cuts' - cuts)
      BY <1>1, <2>1, <2>4, PendingNat
    <3>3. k \in Nat /\ (S = {} \/ \E x : S = {x}) /\ (S = {} \/ k = 1) /\ cuts' \in Nat
      BY <1>1, <2>1
    <3> HIDE DEF S, k
    <3> QED
      BY <3>1, <3>2, <3>3, MissingMore
  <2>7. Cardinality(Bad(silver')) + Spoils(silver') <= cuts'
    <3>1. Spoils(silver') = 0 /\ Cardinality(Bad(silver')) \in Nat
      BY <2>4, PendingNat, FileIsFinite, FS_CardinalityType
    <3> QED
      BY <1>1, <2>1, <2>4, <3>1
  <2>8. phase' = "idle" \/ (phase # "idle" /\ existing' = existing /\ Past \subseteq Past')
    BY <1>1, <1>3
  <2> QED
    BY <2>4, <2>5, <2>6, <2>7, <2>8, NothingWritten
<1> QED
  BY <1>1, <1>4, <1>5

LEMMA IdleStep ==
  ASSUME LInv, UNCHANGED labelVars
  PROVE  LInv'
<1>1. UNCHANGED <<silver, phase, at, limit, existing, cuts, finished>>
  BY DEF labelVars, jobVars, fileVars
<1>2. JobTypes' /\ NoneForgotten' /\ Cardinality(Bad(silver')) + Spoils(silver') <= cuts'
  <2>1. Missing' = Missing /\ Pending(silver') = Pending(silver)
    BY <1>1 DEF Missing, Known, Through, Past
  <2> QED
    BY <1>1, <2>1 DEF LInv, JobTypes, NoneForgotten
<1>3. \A raw \in RawLines : AtMostOnce(raw)'
  BY <1>1 DEF LInv, AtMostOnce, Past
<1> QED
  BY <1>2, <1>3 DEF LInv

LEMMA NoiseAt ==
  ASSUME LInv, LabelNoise
  PROVE  IsNoise(Messages[at].raw)
<1>1. at \in DOMAIN Messages /\ Messages[at].noise
  BY JobAssumption DEF LabelNoise, AtMessage, LInv, JobTypes
<1> QED
  BY <1>1 DEF IsNoise

LEMMA JobLInv ==
  ASSUME LInv, JobStep
  PROVE  LInv'
<1>1. CASE SkipLabelled
  BY <1>1, SkipLInv
<1>2. CASE LabelNoise
  <2>1. phase = "looping" /\ at <= limit /\ Messages[at].raw \notin existing
        /\ Write(Label(Messages[at].raw, "noise_filter", Nothing)) /\ Advance
        /\ UNCHANGED <<limit, existing, finished>>
    BY <1>2 DEF LabelNoise, AtMessage, HasLabel
  <2>2. "noise_filter" \in Methods /\ Nothing \in Extractions \union {Nothing}
    BY DEF Methods
  <2>3. IsNoise(Messages[at].raw)
    BY <1>2, NoiseAt
  <2> QED
    BY <2>1, <2>2, <2>3, WriteLInv
<1>3. CASE AskModel
  BY <1>3, WaitingLInv DEF AskModel, AtMessage, HasLabel, fileVars
<1>4. ASSUME NEW e \in Extractions, Extracted(e)
      PROVE  LInv'
  <2>1. phase = "calling" /\ at <= limit /\ Messages[at].raw \notin existing
        /\ Write(Label(Messages[at].raw, "llm", e)) /\ Advance
        /\ UNCHANGED <<limit, existing, finished>>
    BY <1>4 DEF Extracted, LInv, JobTypes
  <2>2. "llm" \in Methods /\ "llm" # "noise_filter" /\ e \in Extractions \union {Nothing}
    BY DEF Methods
  <2> QED
    BY <2>1, <2>2, WriteLInv
<1>5. CASE Busy
  <2>1. phase = "calling" /\ at <= limit /\ Messages[at].raw \notin existing
    BY <1>5 DEF Busy, LInv, JobTypes
  <2>2. CASE MayRetry
    <3>1. phase' = "backoff" /\ UNCHANGED <<at, limit, existing, silver, cuts, finished>>
      BY <1>5, <2>2 DEF Busy, fileVars
    <3> QED
      BY <2>1, <3>1, WaitingLInv
  <2>3. CASE ~MayRetry
    <3>1. WriteError
      BY <1>5, <2>3 DEF Busy
    <3> QED
      BY <2>1, <3>1, WriteErrorLInv
  <2> QED
    BY <2>2, <2>3
<1>6. CASE Refused
  BY <1>6, WriteErrorLInv DEF Refused
<1>7. CASE BackedOff
  <2>1. phase = "backoff" /\ phase' = "calling" /\ at <= limit /\ Messages[at].raw \notin existing
        /\ UNCHANGED <<at, limit, existing, silver, cuts, finished>>
    BY <1>7 DEF BackedOff, fileVars, LInv, JobTypes
  <2> QED
    BY <2>1, WaitingLInv
<1>8. CASE FinishJob
  BY <1>8, FinishLInv
<1> QED
  BY <1>1, <1>2, <1>3, <1>4, <1>5, <1>6, <1>7, <1>8 DEF JobStep

LEMMA EvaluationOnlyReads == EvalNext => UNCHANGED labelVars
BY DEF EvalNext, EvalStep, BeginAgainst, BeginRecalibrate, BeginModels, Begin,
       AgainstNoise, AgainstFiltered, AskAbout, Answer, GiveUpItem, ModelBusy, ModelRefuses,
       AskAgain, AgentAnswers, AgentReturns, Report, Done

LEMMA NextLInv == LInv /\ [Next]_vars => LInv'
<1> SUFFICES ASSUME LInv, [Next]_vars PROVE LInv'
  OBVIOUS
<1>1. CASE \E s \in {"openai", "asksage"}, count \in CountOptions : StartJob(s, count)
  BY <1>1, StartLInv
<1>2. CASE JobStep
  BY <1>2, JobLInv
<1>3. CASE KillJob
  BY <1>3, KillLInv
<1>4. CASE \E raw \in RawLines, type \in UpdateTypes, b \in BOOLEAN : MergeHuman(raw, type, b)
  BY <1>4, MergeLInv
<1>5. CASE EvalNext
  BY <1>5, EvaluationOnlyReads, IdleStep
<1>6. CASE UNCHANGED vars
  BY <1>6, IdleStep DEF vars
<1> QED
  BY <1>1, <1>2, <1>3, <1>4, <1>5, <1>6 DEF Next, LabelNext

-----------------------------------------------------------------------------
(* THE THEOREM *)

LEMMA WhatIsNotValid ==
  ASSUME NEW file \in Seq(Lines)
  PROVE  ValidateFile(file).total - ValidateFile(file).valid = Cardinality(Bad(file))
<1> DEFINE all  == DOMAIN file
           good == {i \in DOMAIN file : IsLabel(file[i]) /\ IsValid(file[i])}
<1>1. IsFiniteSet(all) /\ Cardinality(all) = Len(file) /\ Len(file) \in Nat
  BY FileIsFinite
<1>2. Bad(file) = all \ good /\ good \subseteq all
  BY DEF Bad
<1>3. ValidateFile(file).total = Cardinality(all) /\ ValidateFile(file).valid = Cardinality(good)
  BY <1>1 DEF ValidateFile
<1> HIDE DEF all, good
<1>4. IsFiniteSet(good) /\ Cardinality(good) \in Nat /\ Cardinality(all) \in Nat
  BY <1>1, <1>2, Fewer
<1>5. Cardinality(all \ good) = Cardinality(all) - Cardinality(all \intersect good)
  BY <1>1, <1>4, FS_Difference
<1>6. all \intersect good = good
  BY <1>2
<1> QED
  BY <1>2, <1>3, <1>5, <1>6

(* However often a job is killed, perhaps in the middle of a line or before its *)
(* end, and started again: it labels no message twice and forgets no more than  *)
(* two for each line cut off, and its file has no more bad lines than were cut  *)
(* off (generate_silver_labels.py, the existing labels read at the start and    *)
(* the skip of each labelled line).                                             *)
THEOREM ResumeCorrect == Spec => []ResumeIsExact
<1>1. LInv => ResumeIsExact
  <2> SUFFICES ASSUME LInv PROVE ResumeIsExact
    OBVIOUS
  <2>1. LabelledOnce
    <3>1. \A raw : Readable(raw) = JobLabels(silver, raw)
      BY DEF Readable, JobLabels
    <3> QED
      BY <3>1 DEF LInv, AtMostOnce, LabelledOnce, Positions
  <2>2. Cardinality(Unlabelled) <= 2 * cuts
    <3>1. Unlabelled \subseteq Missing
      BY JobAssumption DEF Unlabelled, Missing, Through, LInv, JobTypes
    <3>2. IsFiniteSet(Missing) /\ Cardinality(Missing) + Pending(silver) <= 2 * cuts /\ cuts \in Nat
      BY DEF LInv, NoneForgotten, JobTypes
    <3>3. /\ Cardinality(Unlabelled) \in Nat /\ Cardinality(Missing) \in Nat
          /\ Cardinality(Unlabelled) <= Cardinality(Missing)
      BY <3>1, <3>2, Fewer
    <3>4. Pending(silver) \in Nat
      BY PendingNat
    <3> QED
      BY <3>2, <3>3, <3>4
  <2>3. ValidateFile(silver).total - ValidateFile(silver).valid <= cuts
    <3>1. ValidateFile(silver).total - ValidateFile(silver).valid = Cardinality(Bad(silver))
      BY WhatIsNotValid DEF LInv, JobTypes
    <3> QED
      BY <3>1, BadCount
  <2> QED
    BY <2>1, <2>2, <2>3 DEF ResumeIsExact
<1> QED
  BY <1>1, InitLInv, NextLInv, PTL DEF Spec

-----------------------------------------------------------------------------
(* WHAT IS READ *)

LessThan == {p \in Nat \X Nat : p[1] < p[2]}

(* Induction over the numbers, on the least one outside a set. *)
LEMMA Induction ==
  ASSUME NEW T, 0 \in T, \A n \in Nat : n \in T => n + 1 \in T
  PROVE  Nat \subseteq T
<1>1. IsWellFoundedOn(LessThan, Nat)
  <2>1. OpToRel(<, Nat) = LessThan
    BY DEF OpToRel, LessThan
  <2> QED
    BY <2>1, NatLessThanWellFounded
<1> DEFINE Out == Nat \ T
<1> SUFFICES ASSUME Out # {} PROVE FALSE
  OBVIOUS
<1>2. PICK m \in Out : \A y \in Out : ~(<<y, m>> \in LessThan)
  <2>1. Out \subseteq Nat
    OBVIOUS
  <2> HIDE DEF Out
  <2> QED
    BY <1>1, <2>1, WFMin
<1>3. m \in Nat /\ m # 0 /\ m - 1 \in Nat /\ <<m - 1, m>> \in LessThan
  BY DEF LessThan
<1> QED
  BY <1>2, <1>3

(* A function on 0 .. N is given by its first value and the step to the next. *)
LEMMA Stepwise ==
  ASSUME NEW S, NEW base \in S, NEW N \in Nat, NEW f \in [1 .. N -> [S -> S]]
  PROVE  \E g \in [0 .. N -> S] : g[0] = base /\ \A n \in 1 .. N : g[n] = f[n][g[n - 1]]
<1> DEFINE Up(g, k) == g[0] = base /\ \A n \in 1 .. k : g[n] = f[n][g[n - 1]]
           T == {k \in Nat : k <= N => \E g \in [0 .. k -> S] : Up(g, k)}
<1>1. 0 \in T
  <2> DEFINE g == [n \in 0 .. 0 |-> base]
  <2>1. g \in [0 .. 0 -> S] /\ g[0] = base /\ 1 .. 0 = {}
    OBVIOUS
  <2> HIDE DEF g
  <2>2. Up(g, 0)
    BY <2>1
  <2> HIDE DEF Up
  <2> QED
    BY <2>1, <2>2
<1>2. ASSUME NEW k \in Nat, k \in T PROVE k + 1 \in T
  <2> SUFFICES ASSUME k + 1 <= N PROVE \E h \in [0 .. k + 1 -> S] : Up(h, k + 1)
    OBVIOUS
  <2>1. PICK g \in [0 .. k -> S] : Up(g, k)
    BY <1>2
  <2> DEFINE h == [n \in 0 .. k + 1 |-> IF n = k + 1 THEN f[k + 1][g[k]] ELSE g[n]]
  <2>2. f[k + 1][g[k]] \in S
    <3>1. k + 1 \in 1 .. N /\ g[k] \in S
      OBVIOUS
    <3> QED
      BY <3>1
  <2>3. h \in [0 .. k + 1 -> S] /\ h[k + 1] = f[k + 1][g[k]] /\ \A n \in 0 .. k : h[n] = g[n]
    BY <2>2
  <2> HIDE DEF h
  <2>4. ASSUME NEW n \in 1 .. k + 1 PROVE h[n] = f[n][h[n - 1]]
    <3>1. n - 1 \in 0 .. k /\ h[n - 1] = g[n - 1]
      BY <2>3
    <3>2. CASE n = k + 1
      BY <2>3, <3>1, <3>2
    <3>3. CASE n # k + 1
      <4>1. n \in 1 .. k /\ n \in 0 .. k
        BY <3>3
      <4> QED
        BY <2>1, <2>3, <3>1, <4>1
    <3> QED
      BY <3>2, <3>3
  <2>5. h[0] = base
    BY <2>1, <2>3
  <2> QED
    BY <2>3, <2>4, <2>5
<1> HIDE DEF T
<1>3. N \in T
  BY <1>1, <1>2, Induction
<1> QED
  BY <1>3 DEF T

LEMMA LabelsAreLines ==
  ASSUME NEW file \in Seq(Lines)
  PROVE  LabelsIn(file) \subseteq LabelLines
BY KindsOfLines DEF LabelsIn

ChosenStep(g, s, P, n) == IF n \in P THEN Append(g[n - 1], s[n]) ELSE g[n - 1]
IsChosen(g, s, P) ==
  g = [n \in 0 .. Len(s) |->
         IF n = 0 THEN <<>>
         ELSE IF n \in P THEN Append(g[n - 1], s[n]) ELSE g[n - 1]]

LEMMA ChosenExists ==
  ASSUME NEW Es, NEW s \in Seq(Es), NEW P
  PROVE  \E g : IsChosen(g, s, P)
<1> DEFINE N == Len(s)
           S == Seq(Es)
           f == [n \in 1 .. N |-> [t \in S |-> IF n \in P THEN Append(t, s[n]) ELSE t]]
<1>1. N \in Nat /\ \A n \in 1 .. N : s[n] \in Es
  OBVIOUS
<1>2. <<>> \in S /\ f \in [1 .. N -> [S -> S]]
  <2>1. ASSUME NEW n \in 1 .. N, NEW t \in S
        PROVE  (IF n \in P THEN Append(t, s[n]) ELSE t) \in S
    BY <1>1
  <2> HIDE DEF N, S
  <2>2. f \in [1 .. N -> [S -> S]]
    BY <2>1
  <2> QED
    BY <2>2 DEF S
<1>3. \A n \in 1 .. N, t \in S : f[n][t] = IF n \in P THEN Append(t, s[n]) ELSE t
  OBVIOUS
<1> HIDE DEF S, f, N
<1>4. \E g \in [0 .. N -> S] : g[0] = <<>> /\ \A n \in 1 .. N : g[n] = f[n][g[n - 1]]
  <2> DEFINE base == <<>>
  <2>1. N \in Nat /\ base \in S /\ f \in [1 .. N -> [S -> S]]
    BY <1>1, <1>2
  <2> HIDE DEF base
  <2>2. \E g \in [0 .. N -> S] : g[0] = base /\ \A n \in 1 .. N : g[n] = f[n][g[n - 1]]
    BY <2>1, Stepwise
  <2> QED
    BY <2>2 DEF base
<1>5. PICK g \in [0 .. N -> S] : g[0] = <<>> /\ \A n \in 1 .. N : g[n] = f[n][g[n - 1]]
  BY <1>4, Zenon
<1> DEFINE q == [n \in 0 .. N |->
                   IF n = 0 THEN <<>>
                   ELSE IF n \in P THEN Append(g[n - 1], s[n]) ELSE g[n - 1]]
<1>6. ASSUME NEW n \in 0 .. N PROVE g[n] = q[n]
  <2>1. CASE n = 0
    BY <1>5, <2>1
  <2>2. CASE n # 0
    <3>1. n \in 1 .. N /\ n - 1 \in 0 .. N /\ g[n - 1] \in S
      BY <1>1, <2>2
    <3> QED
      BY <1>3, <1>5, <2>2, <3>1
  <2> QED
    BY <2>1, <2>2
<1>7. g = q
  BY <1>6
<1> QED
  BY <1>7 DEF IsChosen, N

LEMMA ChosenSteps ==
  ASSUME NEW Es, NEW s \in Seq(Es), NEW P
  PROVE  \E g : /\ Chosen(s, P) = g[Len(s)] /\ g[0] = <<>>
                /\ \A n \in 1 .. Len(s) : g[n] = ChosenStep(g, s, P, n)
<1> DEFINE g == CHOOSE g : IsChosen(g, s, P)
           N == Len(s)
<1>1. N \in Nat
  OBVIOUS
<1>2. Chosen(s, P) = g[N]
  BY DEF Chosen, IsChosen
<1>3. IsChosen(g, s, P)
  BY ChosenExists
<1> HIDE DEF g, N
<1>4. g = [n \in 0 .. N |->
             IF n = 0 THEN <<>>
             ELSE IF n \in P THEN Append(g[n - 1], s[n]) ELSE g[n - 1]]
  BY <1>3 DEF IsChosen, N
<1>5. 0 \in 0 .. N /\ \A n \in 1 .. N : n \in 0 .. N /\ n # 0
  BY <1>1
<1>6. \A n \in 0 .. N : g[n] = IF n = 0 THEN <<>>
             ELSE IF n \in P THEN Append(g[n - 1], s[n]) ELSE g[n - 1]
  BY <1>4, Zenon
<1>7. g[0] = <<>> /\ \A n \in 1 .. N : g[n] = ChosenStep(g, s, P, n)
  BY <1>5, <1>6, Zenon DEF ChosenStep
<1> QED
  BY <1>2, <1>7, Zenon DEF N

LEMMA AppendedRange ==
  ASSUME NEW Es, NEW s \in Seq(Es), NEW e \in Es
  PROVE  /\ Append(s, e) \in Seq(Es) /\ Append(s, e)[Len(s) + 1] = e
         /\ Len(s) \in Nat /\ Len(Append(s, e)) = Len(s) + 1
         /\ DOMAIN Append(s, e) = DOMAIN s \union {Len(s) + 1}
         /\ \A i \in DOMAIN s : Append(s, e)[i] = s[i]
         /\ Range(Append(s, e)) = Range(s) \union {e}
<1>1. /\ Append(s, e) \in Seq(Es) /\ Append(s, e)[Len(s) + 1] = e
      /\ Len(s) \in Nat /\ Len(Append(s, e)) = Len(s) + 1
      /\ DOMAIN Append(s, e) = DOMAIN s \union {Len(s) + 1}
      /\ \A i \in DOMAIN s : Append(s, e)[i] = s[i]
  OBVIOUS
<1> DEFINE t == Append(s, e)
<1>2. t[Len(s) + 1] = e /\ DOMAIN t = DOMAIN s \union {Len(s) + 1} /\ \A i \in DOMAIN s : t[i] = s[i]
  BY <1>1
<1> HIDE DEF t
<1>3. Range(t) = Range(s) \union {e}
  BY <1>2 DEF Range
<1> QED
  BY <1>1, <1>3 DEF t

(* The chosen elements, and nothing else. *)
LEMMA ChosenRange ==
  ASSUME NEW Es, NEW s \in Seq(Es), NEW P, P \subseteq DOMAIN s
  PROVE  /\ Chosen(s, P) \in Seq({s[i] : i \in P})
         /\ Range(Chosen(s, P)) = {s[i] : i \in P}
<1> DEFINE N == Len(s)
           U == {s[i] : i \in P}
<1>1. N \in Nat /\ P \subseteq 1 .. N
  OBVIOUS
<1>2. PICK g : /\ Chosen(s, P) = g[N] /\ g[0] = <<>>
               /\ \A n \in 1 .. N : g[n] = ChosenStep(g, s, P, n)
  BY ChosenSteps
<1> HIDE DEF N
<1> DEFINE First(k) == {s[i] : i \in {i \in P : i <= k}}
           T == {k \in Nat : k <= N => g[k] \in Seq(U) /\ Range(g[k]) = First(k)}
<1>3. 0 \in T
  <2>1. <<>> \in Seq(U) /\ DOMAIN <<>> = {} /\ \A i \in P : ~(i <= 0)
    BY <1>1
  <2>2. Range(<<>>) = {} /\ First(0) = {}
    BY <2>1 DEF Range
  <2> QED
    BY <1>2, <2>1, <2>2
<1>4. ASSUME NEW k \in Nat, k \in T PROVE k + 1 \in T
  <2> SUFFICES ASSUME k + 1 <= N PROVE g[k + 1] \in Seq(U) /\ Range(g[k + 1]) = First(k + 1)
    OBVIOUS
  <2>1. g[k] \in Seq(U) /\ Range(g[k]) = First(k)
    BY <1>1, <1>4
  <2>2. k + 1 \in 1 .. N /\ (k + 1) - 1 = k
    BY <1>1
  <2>3. g[k + 1] = IF k + 1 \in P THEN Append(g[k], s[k + 1]) ELSE g[k]
    BY <1>2, <2>2 DEF ChosenStep
  <2>4. First(k + 1) = First(k) \union {s[i] : i \in {i \in P : i = k + 1}}
    <3>1. \A i \in P : i <= k + 1 <=> i <= k \/ i = k + 1
      BY <1>1
    <3> QED
      BY <3>1
  <2>5. CASE k + 1 \in P
    <3>1. First(k + 1) = First(k) \union {s[k + 1]} /\ s[k + 1] \in U
      BY <2>4, <2>5
    <3> HIDE DEF First, U
    <3> DEFINE t == g[k]
               e == s[k + 1]
    <3>2. t \in Seq(U) /\ e \in U
      BY <2>1, <3>1
    <3> HIDE DEF t, e
    <3>3. Append(t, e) \in Seq(U) /\ Range(Append(t, e)) = Range(t) \union {e}
      BY <3>2, AppendedRange
    <3> QED
      BY <2>1, <2>3, <2>5, <3>1, <3>3 DEF t, e
  <2>6. CASE k + 1 \notin P
    <3>1. First(k + 1) = First(k)
      BY <2>4, <2>6
    <3> HIDE DEF First
    <3> QED
      BY <2>1, <2>3, <2>6, <3>1
  <2> QED
    BY <2>5, <2>6
<1> HIDE DEF T
<1>5. N \in T
  BY <1>1, <1>3, <1>4, Induction
<1>6. First(N) = U
  <2>1. \A i \in P : i <= N
    BY <1>1
  <2> QED
    BY <2>1
<1>7. g[N] \in Seq(U) /\ Range(g[N]) = First(N)
  <2> HIDE DEF First, U
  <2> QED
    BY <1>1, <1>5 DEF T
<1> QED
  BY <1>2, <1>6, <1>7

(* A reader gets the lines that parse, and nothing else. *)
LEMMA ReadLabels ==
  ASSUME NEW file \in Seq(Lines)
  PROVE  ReadFile(file) \in Seq(LabelLines) /\ Range(ReadFile(file)) = LabelsIn(file)
<1> DEFINE P == {i \in DOMAIN file : IsLabel(file[i])}
<1>1. /\ Chosen(file, P) \in Seq({file[i] : i \in P})
      /\ Range(Chosen(file, P)) = {file[i] : i \in P}
  <2> HIDE DEF P
  <2>1. P \subseteq DOMAIN file
    BY DEF P
  <2> QED
    BY <2>1, ChosenRange
<1>2. {file[i] : i \in P} = LabelsIn(file)
  BY DEF LabelsIn
<1>3. LabelsIn(file) \subseteq LabelLines
  BY LabelsAreLines
<1> HIDE DEF P
<1>4. Seq(LabelsIn(file)) \subseteq Seq(LabelLines)
  BY <1>3
<1> QED
  BY <1>1, <1>2, <1>4 DEF ReadFile, P

(* One label of L for each raw line of L, of the source that is trusted most. *)
Best(b, L) ==
  /\ b \in Seq(LabelLines) /\ Range(b) \subseteq L
  /\ \A k, l \in DOMAIN b : b[k].raw = b[l].raw => k = l
  /\ \A x \in L : \E k \in DOMAIN b : b[k].raw = x.raw /\ TrustRank(b[k].source) <= TrustRank(x.source)

LEMMA TheirSources ==
  ASSUME NEW line \in LabelLines
  PROVE  line.source \in {"human", "llm_judge"} /\ TrustRank(line.source) \in Nat
<1>1. line.source \in {"human", "llm_judge"}
  <2>1. CASE \E raw \in RawLines, method \in Methods, e \in Extractions \union {Nothing},
               kind \in Kinds : line = Written(raw, method, e, kind)
    BY <2>1, WrittenFields
  <2>2. CASE \E raw \in RawLines, type \in UpdateTypes : line = HumanLabel(raw, type)
    BY <2>2 DEF HumanLabel
  <2> QED
    BY <2>1, <2>2 DEF LabelLines, JobLines
<1>2. TrustRank("human") = 0 /\ TrustRank("llm_judge") = 1
  BY DEF TrustRank
<1> QED
  BY <1>1, <1>2

LEMMA KeepBest ==
  ASSUME NEW b, NEW L, Best(b, L), L \subseteq LabelLines, NEW x \in LabelLines
  PROVE  Best(Keep(b, x), L \union {x})
<1> DEFINE n == Len(b)
           c == Keep(b, x)
           R(k) == TrustRank(b[k].source)
           r == TrustRank(x.source)
<1>1. n \in Nat /\ DOMAIN b = 1 .. n /\ \A k \in DOMAIN b : b[k] \in LabelLines
  BY DEF Best
<1>2. r \in Nat /\ \A k \in DOMAIN b : R(k) \in Nat
  BY <1>1, TheirSources
<1>3. \A y \in L : TrustRank(y.source) \in Nat
  BY TheirSources
<1>4. CASE \E k \in DOMAIN b : b[k].raw = x.raw
  <2>1. PICK m \in DOMAIN b : b[m].raw = x.raw
    BY <1>4
  <2>2. \A k \in DOMAIN b : b[k].raw = x.raw => k = m
    BY <2>1 DEF Best
  <2>3. c = [k \in DOMAIN b |-> IF b[k].raw = x.raw /\ Prefers(x, b[k]) THEN x ELSE b[k]]
    BY <1>4 DEF Keep
  <2>4. DOMAIN c = DOMAIN b /\ c[m] \in {x, b[m]} /\ \A k \in DOMAIN b : k # m => c[k] = b[k]
    BY <2>1, <2>2, <2>3
  <2>5. c[m] = IF r < R(m) THEN x ELSE b[m]
    BY <2>1, <2>3 DEF Prefers
  <2> HIDE DEF c, n
  <2>6. \A k \in DOMAIN b : c[k] \in LabelLines /\ c[k].raw = b[k].raw
    BY <1>1, <2>1, <2>4
  <2>7. c \in Seq(LabelLines)
    <3>1. c = [k \in 1 .. n |-> c[k]]
      BY <1>1, <2>3, <2>4
    <3>2. c \in [1 .. n -> LabelLines]
      BY <1>1, <2>6, <3>1
    <3> QED
      BY <1>1, <3>2, SeqDef
  <2>8. Range(c) \subseteq L \union {x}
    <3>1. Range(b) \subseteq L
      BY DEF Best
    <3> QED
      BY <2>1, <2>4, <3>1 DEF Range
  <2>9. \A k, l \in DOMAIN c : c[k].raw = c[l].raw => k = l
    BY <2>4, <2>6 DEF Best
  <2>10. TrustRank(c[m].source) <= r /\ TrustRank(c[m].source) <= R(m)
    BY <1>2, <2>1, <2>5
  <2>11. ASSUME NEW y \in L \union {x}
         PROVE  \E k \in DOMAIN c : c[k].raw = y.raw /\ TrustRank(c[k].source) <= TrustRank(y.source)
    <3>1. CASE y = x
      BY <2>1, <2>4, <2>6, <2>10, <3>1
    <3>2. CASE y # x
      <4>1. PICK k \in DOMAIN b : b[k].raw = y.raw /\ R(k) <= TrustRank(y.source)
        BY <3>2 DEF Best
      <4>2. c[k].raw = y.raw
        BY <2>6, <4>1
      <4>3. TrustRank(c[k].source) <= R(k) /\ TrustRank(c[k].source) \in Nat
        BY <1>2, <2>4, <2>6, <2>10, TheirSources
      <4>4. TrustRank(c[k].source) <= TrustRank(y.source)
        <5>1. y \in L
          BY <3>2
        <5>2. TrustRank(y.source) \in Nat /\ R(k) \in Nat
          BY <1>2, <1>3, <5>1
        <5> QED
          BY <4>1, <4>3, <5>2
      <4> QED
        BY <2>4, <4>2, <4>4
    <3> QED
      BY <3>1, <3>2
  <2> QED
    BY <2>7, <2>8, <2>9, <2>11 DEF Best, c
<1>5. CASE ~ \E k \in DOMAIN b : b[k].raw = x.raw
  <2>1. c = Append(b, x)
    BY <1>5 DEF Keep
  <2>2. b \in Seq(LabelLines)
    BY DEF Best
  <2>3. /\ c \in Seq(LabelLines) /\ DOMAIN c = DOMAIN b \union {n + 1} /\ c[n + 1] = x
        /\ \A k \in DOMAIN b : c[k] = b[k]
    BY <2>1, <2>2
  <2> HIDE DEF c, n
  <2>4. Range(c) \subseteq L \union {x}
    <3>1. Range(b) \subseteq L
      BY DEF Best
    <3> QED
      BY <2>3, <3>1 DEF Range
  <2>5. \A k, l \in DOMAIN c : c[k].raw = c[l].raw => k = l
    <3>1. \A k, l \in DOMAIN b : b[k].raw = b[l].raw => k = l
      BY DEF Best
    <3> QED
      BY <1>5, <2>3, <3>1
  <2>6. ASSUME NEW y \in L \union {x}
        PROVE  \E k \in DOMAIN c : c[k].raw = y.raw /\ TrustRank(c[k].source) <= TrustRank(y.source)
    <3>1. CASE y = x
      <4>1. r <= r
        BY <1>2
      <4> QED
        BY <2>3, <3>1, <4>1
    <3>2. CASE y # x
      <4>1. PICK k \in DOMAIN b : b[k].raw = y.raw /\ R(k) <= TrustRank(y.source)
        BY <3>2 DEF Best
      <4> QED
        BY <2>3, <4>1
    <3> QED
      BY <3>1, <3>2
  <2> QED
    BY <2>3, <2>4, <2>5, <2>6 DEF Best, c
<1> QED
  BY <1>4, <1>5

IsLoading(g, labels) ==
  g = [n \in 0 .. Len(labels) |-> IF n = 0 THEN <<>> ELSE Keep(g[n - 1], labels[n])]

LEMMA LoadingExists ==
  ASSUME NEW labels \in Seq(LabelLines)
  PROVE  \E g : IsLoading(g, labels)
<1> DEFINE N == Len(labels)
           S == {b \in Seq(LabelLines) : Best(b, Range(b))}
           f == [n \in 1 .. N |-> [s \in S |-> Keep(s, labels[n])]]
<1>1. N \in Nat /\ \A n \in 1 .. N : labels[n] \in LabelLines
  OBVIOUS
<1>2. <<>> \in S
  <2>1. <<>> \in Seq(LabelLines) /\ DOMAIN <<>> = {} /\ Range(<<>>) = {}
    BY DEF Range
  <2>2. Best(<<>>, Range(<<>>))
    BY <2>1 DEF Best
  <2> QED
    BY <2>1, <2>2
<1>3. ASSUME NEW n \in 1 .. N, NEW s \in S PROVE Keep(s, labels[n]) \in S
  <2>1. Best(s, Range(s)) /\ Range(s) \subseteq LabelLines
    BY DEF Range
  <2>2. Best(Keep(s, labels[n]), Range(s) \union {labels[n]})
    BY <1>1, <2>1, KeepBest
  <2> DEFINE c == Keep(s, labels[n])
  <2>3. Best(c, Range(s) \union {labels[n]})
    BY <2>2
  <2> HIDE DEF c
  <2>4. Best(c, Range(c))
    <3>1. c \in Seq(LabelLines) /\ \A k, l \in DOMAIN c : c[k].raw = c[l].raw => k = l
      BY <2>3 DEF Best
    <3>2. \A k \in DOMAIN c : TrustRank(c[k].source) <= TrustRank(c[k].source)
      BY <3>1, TheirSources
    <3>3. \A x \in Range(c) : \E k \in DOMAIN c : x = c[k]
      BY DEF Range
    <3> QED
      BY <3>1, <3>2, <3>3 DEF Best
  <2> QED
    BY <2>3, <2>4 DEF Best, c
<1>4. f \in [1 .. N -> [S -> S]] /\ \A n \in 1 .. N, s \in S : f[n][s] = Keep(s, labels[n])
  <2> HIDE DEF N, S
  <2> QED
    BY <1>3
<1> HIDE DEF S, f, N
<1>5. \E g \in [0 .. N -> S] : g[0] = <<>> /\ \A n \in 1 .. N : g[n] = f[n][g[n - 1]]
  <2> DEFINE base == <<>>
  <2>1. N \in Nat /\ base \in S /\ f \in [1 .. N -> [S -> S]]
    BY <1>1, <1>2, <1>4
  <2> HIDE DEF base
  <2>2. \E g \in [0 .. N -> S] : g[0] = base /\ \A n \in 1 .. N : g[n] = f[n][g[n - 1]]
    BY <2>1, Stepwise
  <2> QED
    BY <2>2 DEF base
<1>6. PICK g \in [0 .. N -> S] : g[0] = <<>> /\ \A n \in 1 .. N : g[n] = f[n][g[n - 1]]
  BY <1>5, Zenon
<1> DEFINE q == [n \in 0 .. N |-> IF n = 0 THEN <<>> ELSE Keep(g[n - 1], labels[n])]
<1>7. ASSUME NEW n \in 0 .. N PROVE g[n] = q[n]
  <2>1. CASE n = 0
    BY <1>6, <2>1
  <2>2. CASE n # 0
    <3>1. n \in 1 .. N /\ n - 1 \in 0 .. N /\ g[n - 1] \in S
      BY <1>1, <2>2
    <3> QED
      BY <1>4, <1>6, <2>2, <3>1
  <2> QED
    BY <2>1, <2>2
<1>8. g = q
  BY <1>7
<1> QED
  BY <1>8 DEF IsLoading, N

(* load_labels has one label for each raw line, the most trusted of the first read. *)
LEMMA LoadKeeps ==
  ASSUME NEW lines \in Seq(Lines)
  PROVE  Best(LoadLabels(lines), LabelsIn(lines))
<1> DEFINE labels == ReadFile(lines)
           N == Len(labels)
           g == CHOOSE g : IsLoading(g, labels)
<1>1. labels \in Seq(LabelLines) /\ Range(labels) = LabelsIn(lines)
  BY ReadLabels
<1>2. LoadLabels(lines) = g[N]
  BY DEF LoadLabels, IsLoading
<1> HIDE DEF labels
<1>3. IsLoading(g, labels)
  BY <1>1, LoadingExists
<1>4. N \in Nat /\ DOMAIN labels = 1 .. N /\ \A n \in 1 .. N : labels[n] \in LabelLines
  BY <1>1
<1> HIDE DEF g, N
<1>5. g[0] = <<>> /\ \A n \in 1 .. N : g[n] = Keep(g[n - 1], labels[n])
  <2>1. g = [n \in 0 .. N |-> IF n = 0 THEN <<>> ELSE Keep(g[n - 1], labels[n])]
    BY <1>3 DEF IsLoading, N
  <2>2. 0 \in 0 .. N /\ \A n \in 1 .. N : n \in 0 .. N /\ n # 0
    BY <1>4
  <2>3. \A n \in 0 .. N : g[n] = IF n = 0 THEN <<>> ELSE Keep(g[n - 1], labels[n])
    BY <2>1, Zenon
  <2> QED
    BY <2>2, <2>3, Zenon
<1> DEFINE First(k) == {labels[i] : i \in 1 .. k}
           T == {k \in Nat : k <= N => Best(g[k], First(k))}
<1>6. 0 \in T
  <2>1. <<>> \in Seq(LabelLines) /\ DOMAIN <<>> = {} /\ 1 .. 0 = {}
    OBVIOUS
  <2>2. Range(<<>>) = {} /\ First(0) = {}
    BY <2>1 DEF Range
  <2>3. Best(<<>>, {})
    BY <2>1, <2>2 DEF Best
  <2> QED
    BY <1>5, <2>2, <2>3
<1>7. ASSUME NEW k \in Nat, k \in T PROVE k + 1 \in T
  <2> SUFFICES ASSUME k + 1 <= N PROVE Best(g[k + 1], First(k + 1))
    OBVIOUS
  <2>1. Best(g[k], First(k))
    BY <1>4, <1>7
  <2>2. k + 1 \in 1 .. N /\ (k + 1) - 1 = k
    BY <1>4
  <2>3. g[k + 1] = Keep(g[k], labels[k + 1])
    BY <1>5, <2>2
  <2>4. First(k + 1) = First(k) \union {labels[k + 1]}
    OBVIOUS
  <2>5. First(k) \subseteq LabelLines /\ labels[k + 1] \in LabelLines
    BY <1>4, <2>2
  <2> HIDE DEF First
  <2> QED
    BY <2>1, <2>3, <2>4, <2>5, KeepBest
<1> HIDE DEF T
<1>8. N \in T
  BY <1>4, <1>6, <1>7, Induction
<1>9. First(N) = Range(labels)
  BY <1>4 DEF Range
<1>10. Best(g[N], First(N))
  <2> HIDE DEF First
  <2> QED
    BY <1>4, <1>8 DEF T
<1> QED
  BY <1>1, <1>2, <1>9, <1>10

-----------------------------------------------------------------------------
(* ANNOTATORS *)

HumanLines == {HumanLabel(raw, type) : raw \in RawLines, type \in UpdateTypes}

HumansIn(file) == {x.raw : x \in {x \in LabelsIn(file) : x.source = "human"}}

(* The labels of annotators that can be read are those that were adopted. *)
HInv ==
  /\ gold \in Seq(HumanLines)
  /\ adopted = HumansIn(silver) \union HumansIn(gold)

LEMMA HumanLinesAre ==
  ASSUME NEW x \in HumanLines
  PROVE  x \in LabelLines /\ x \in Lines /\ IsLabel(x) /\ x.source = "human" /\ x.kind = "label"
BY HumanIsLine DEF HumanLines

LEMMA HumansRead ==
  ASSUME NEW f, NEW g, NEW S,
         {x \in LabelsIn(g) : x.source = "human"} = {x \in LabelsIn(f) : x.source = "human"} \union S
  PROVE  HumansIn(g) = HumansIn(f) \union {x.raw : x \in S}
BY DEF HumansIn

LEMMA InitHInv == Init => HInv
<1> SUFFICES ASSUME Init PROVE HInv
  OBVIOUS
<1>1. silver = <<>> /\ gold = <<>> /\ adopted = {}
  BY DEF Init, InitLabels
<1>2. LabelsIn(<<>>) = {}
  BY DEF LabelsIn
<1> QED
  BY <1>1, <1>2 DEF HInv, HumansIn

(* The job's labels are its own. *)
LEMMA WriteHInv ==
  ASSUME LInv, HInv, at <= limit, NEW method \in Methods, NEW e \in Extractions \union {Nothing},
         method = "noise_filter" => e = Nothing /\ IsNoise(Messages[at].raw),
         Write(Label(Messages[at].raw, method, e)), adopted' = adopted
  PROVE  HInv'
<1> DEFINE line == Label(Messages[at].raw, method, e)
<1>1. Messages[at].raw \in RawLines
  BY JobAssumption DEF LInv, JobTypes, RawLines
<1>2. line \in LabelLines /\ line.source = "llm_judge" /\ line.kind = "label"
  BY <1>1, JobLabelLine
<1>3. silver \in Seq(Lines) /\ silver' = AppendLine(silver, line) /\ gold' = gold
  BY DEF LInv, JobTypes, Write
<1> HIDE DEF line
<1>4. {x \in LabelsIn(AppendLine(silver, line)) : x.source = "human"} =
        {x \in LabelsIn(silver) : x.source = "human"}
          \union {x \in {line} : x.source = "human" /\ ~EndsOpen(silver)}
  BY <1>2, <1>3, LabelAppended
<1>5. {x \in LabelsIn(silver') : x.source = "human"} = {x \in LabelsIn(silver) : x.source = "human"}
  BY <1>2, <1>3, <1>4
<1> QED
  BY <1>3, <1>5 DEF HInv, HumansIn

LEMMA QuietHInv ==
  ASSUME HInv, {x \in LabelsIn(silver') : x.source = "human"} = {x \in LabelsIn(silver) : x.source = "human"},
         UNCHANGED <<gold, adopted>>
  PROVE  HInv'
BY DEF HInv, HumansIn

LEMMA MergeHInv ==
  ASSUME LInv, HInv, NEW raw \in RawLines, NEW type \in UpdateTypes, NEW b \in BOOLEAN,
         MergeHuman(raw, type, b)
  PROVE  HInv'
<1> DEFINE line == HumanLabel(raw, type)
           file == IF b THEN silver ELSE gold
<1>1. line \in HumanLines /\ line.raw = raw
  <2>1. line \in HumanLines
    BY DEF HumanLines
  <2> QED
    BY <2>1, HumanIsLine
<1>2. silver \in Seq(Lines) /\ gold \in Seq(HumanLines)
  BY DEF LInv, JobTypes, HInv
<1>3. gold \in Seq(Lines) /\ ~EndsOpen(gold)
  <2>1. HumanLines \subseteq Lines
    BY HumanLinesAre
  <2>2. gold \in Seq(Lines)
    BY <1>2, <2>1
  <2>3. gold # <<>> => gold[Len(gold)] \in HumanLines
    BY <1>2
  <2> QED
    BY <2>2, <2>3, HumanLinesAre DEF EndsOpen, Last
<1>4. /\ IF b THEN silver' = MergeInto(silver, line) /\ UNCHANGED gold
              ELSE gold' = MergeInto(gold, line) /\ UNCHANGED silver
      /\ adopted' = IF Merges(file, line) /\ ~EndsOpen(file) THEN adopted \union {raw} ELSE adopted
  BY DEF MergeHuman
<1>5. line \in LabelLines /\ line.source = "human" /\ line.kind = "label"
  BY <1>1, HumanLinesAre
<1> HIDE DEF line
<1>6. ASSUME NEW f \in Seq(Lines)
      PROVE  HumansIn(AppendLine(f, line)) = HumansIn(f) \union (IF EndsOpen(f) THEN {} ELSE {raw})
  <2>1. {x \in LabelsIn(AppendLine(f, line)) : x.source = "human"} =
          {x \in LabelsIn(f) : x.source = "human"}
            \union {x \in {line} : x.source = "human" /\ ~EndsOpen(f)}
    BY <1>5, LabelAppended
  <2>2. HumansIn(AppendLine(f, line)) = HumansIn(f)
          \union {x.raw : x \in {x \in {line} : x.source = "human" /\ ~EndsOpen(f)}}
    BY <2>1, HumansRead
  <2>3. {x.raw : x \in {x \in {line} : x.source = "human" /\ ~EndsOpen(f)}}
          = IF EndsOpen(f) THEN {} ELSE {raw}
    BY <1>1, <1>5
  <2> QED
    BY <2>2, <2>3
<1>7. CASE ~Merges(file, line)
  <2>1. UNCHANGED <<silver, gold, adopted>>
    BY <1>4, <1>7 DEF MergeInto
  <2> QED
    BY <2>1, QuietHInv
<1>8. CASE Merges(file, line) /\ b
  <2>1. silver' = AppendLine(silver, line) /\ gold' = gold
        /\ adopted' = IF EndsOpen(silver) THEN adopted ELSE adopted \union {raw}
    BY <1>4, <1>8 DEF MergeInto
  <2>2. HumansIn(silver') = HumansIn(silver) \union (IF EndsOpen(silver) THEN {} ELSE {raw})
    BY <1>2, <1>6, <2>1
  <2> QED
    BY <2>1, <2>2 DEF HInv
<1>9. CASE Merges(file, line) /\ ~b
  <2>1. gold' = AppendLine(gold, line) /\ silver' = silver /\ adopted' = adopted \union {raw}
    BY <1>3, <1>4, <1>9 DEF MergeInto
  <2>2. HumansIn(gold') = HumansIn(gold) \union {raw}
    BY <1>3, <1>6, <2>1
  <2>3. gold' = Append(gold, line)
    BY <1>3, <2>1 DEF AppendLine
  <2>4. gold' \in Seq(HumanLines)
    BY <1>1, <1>2, <2>3
  <2> QED
    BY <2>1, <2>2, <2>4 DEF HInv
<1> QED
  BY <1>7, <1>8, <1>9

LEMMA JobHInv ==
  ASSUME LInv, HInv, JobStep
  PROVE  HInv'
<1>1. CASE SkipLabelled \/ AskModel \/ BackedOff \/ FinishJob
  <2>1. UNCHANGED <<silver, gold, adopted>>
    BY <1>1 DEF SkipLabelled, AskModel, BackedOff, FinishJob, fileVars
  <2> QED
    BY <2>1, QuietHInv
<1>2. Nothing \in Extractions \union {Nothing} /\ Methods = {"llm", "error", "noise_filter"}
  BY DEF Methods
<1>9. "llm" # "noise_filter" /\ "error" # "noise_filter"
  OBVIOUS
<1>3. CASE LabelNoise
  <2>1. at <= limit /\ Write(Label(Messages[at].raw, "noise_filter", Nothing)) /\ adopted' = adopted
    BY <1>3 DEF LabelNoise, AtMessage
  <2>2. IsNoise(Messages[at].raw)
    BY <1>3, NoiseAt
  <2> QED
    BY <1>2, <2>1, <2>2, WriteHInv
<1>4. ASSUME NEW e \in Extractions, Extracted(e)
      PROVE  HInv'
  <2>1. at <= limit /\ Write(Label(Messages[at].raw, "llm", e)) /\ adopted' = adopted
    BY <1>4 DEF Extracted, LInv, JobTypes
  <2> QED
    BY <1>2, <1>9, <2>1, WriteHInv
<1>5. ASSUME phase = "calling", WriteError
      PROVE  HInv'
  <2>1. at <= limit /\ Write(Label(Messages[at].raw, "error", Nothing)) /\ adopted' = adopted
    BY <1>5 DEF WriteError, LInv, JobTypes
  <2> QED
    BY <1>2, <1>9, <2>1, WriteHInv
<1>6. CASE Busy
  <2>1. CASE MayRetry
    <3>1. UNCHANGED <<silver, gold, adopted>>
      BY <1>6, <2>1 DEF Busy, fileVars
    <3> QED
      BY <3>1, QuietHInv
  <2>2. CASE ~MayRetry
    BY <1>5, <1>6, <2>2 DEF Busy
  <2> QED
    BY <2>1, <2>2
<1>7. CASE Refused
  BY <1>5, <1>7 DEF Refused
<1> QED
  BY <1>1, <1>3, <1>4, <1>6, <1>7 DEF JobStep

LEMMA NextHInv == LInv /\ HInv /\ [Next]_vars => HInv'
<1> SUFFICES ASSUME LInv, HInv, [Next]_vars PROVE HInv'
  OBVIOUS
<1>1. CASE \E s \in {"openai", "asksage"}, count \in CountOptions : StartJob(s, count)
  <2>1. UNCHANGED <<silver, gold, adopted>>
    BY <1>1 DEF StartJob, fileVars
  <2> QED
    BY <2>1, QuietHInv
<1>2. CASE JobStep
  BY <1>2, JobHInv
<1>3. CASE KillJob
  <2>1. silver \in Seq(Lines)
    BY DEF LInv, JobTypes
  <2>2. UNCHANGED <<gold, adopted>>
    BY <1>3 DEF KillJob, fileVars
  <2>3. CASE silver' = silver
    BY <2>2, <2>3, QuietHInv
  <2>4. ASSUME NEW label \in BeingWritten, NEW rest \in Remains(label),
               silver' = CutLine(silver, rest)
        PROVE  HInv'
    <3>1. Unended(label) \in LabelLines /\ Unended(label).kind = "unended"
      BY LabelBeingWritten
    <3>2. {x \in LabelsIn(CutLine(silver, rest)) : x.source = "human"}
            = {x \in LabelsIn(silver) : x.source = "human"}
      BY <2>1, <3>1, CutOff
    <3> QED
      BY <2>2, <2>4, <3>2, QuietHInv
  <2> QED
    BY <1>3, <2>3, <2>4 DEF KillJob, fileVars
<1>4. CASE \E raw \in RawLines, type \in UpdateTypes, b \in BOOLEAN : MergeHuman(raw, type, b)
  BY <1>4, MergeHInv
<1>5. CASE EvalNext \/ UNCHANGED vars
  <2>1. UNCHANGED <<silver, gold, adopted>>
    BY <1>5, EvaluationOnlyReads DEF vars, labelVars, fileVars
  <2> QED
    BY <2>1, QuietHInv
<1> QED
  BY <1>1, <1>2, <1>3, <1>4, <1>5 DEF Next, LabelNext

-----------------------------------------------------------------------------
(* WHAT THE TOOLS GET *)

(* Places of a sequence, unless there are none, have a last one. *)
LEMMA LastPlace ==
  ASSUME NEW N \in Nat, NEW P, P \subseteq 1 .. N, P # {}
  PROVE  \E k \in P : \A j \in P : j <= k
<1>1. IsWellFoundedOn(LessThan, Nat)
  <2>1. OpToRel(<, Nat) = LessThan
    BY DEF OpToRel, LessThan
  <2> QED
    BY <2>1, NatLessThanWellFounded
<1> DEFINE D == {N - k : k \in P}
<1>2. D \subseteq Nat /\ D # {}
  <2>1. \A k \in P : N - k \in Nat
    OBVIOUS
  <2>2. PICK k \in P : TRUE
    OBVIOUS
  <2>3. N - k \in D
    OBVIOUS
  <2> QED
    BY <2>1, <2>3
<1>3. PICK m \in D : \A y \in D : ~(<<y, m>> \in LessThan)
  <2> HIDE DEF D
  <2> QED
    BY <1>1, <1>2, WFMin
<1>4. PICK k \in P : m = N - k
  OBVIOUS
<1>5. ASSUME NEW j \in P PROVE j <= k
  <2>1. N - j \in D /\ N - j \in Nat /\ m \in Nat
    BY <1>2
  <2>2. ~(N - j < m)
    BY <1>3, <2>1 DEF LessThan
  <2> QED
    BY <1>4, <2>2
<1> QED
  BY <1>5

(* The last label of a raw line is one of its labels. *)
LEMMA LastOfIs ==
  ASSUME NEW s \in Seq(LabelLines), NEW raw, \E k \in DOMAIN s : s[k].raw = raw
  PROVE  \E k \in DOMAIN s : s[k].raw = raw /\ LastOf(s, raw) = s[k]
<1> DEFINE N == Len(s)
           P == {k \in DOMAIN s : s[k].raw = raw}
           k == CHOOSE k \in P : \A j \in P : j <= k
<1>1. N \in Nat /\ P \subseteq 1 .. N /\ P # {}
  OBVIOUS
<1>2. LastOf(s, raw) = s[k]
  BY DEF LastOf
<1> HIDE DEF P, N
<1>3. \E p \in P : \A j \in P : j <= p
  BY <1>1, LastPlace
<1>4. k \in P
  BY <1>3
<1> HIDE DEF k
<1> QED
  BY <1>2, <1>4 DEF P

(* Two files one after the other have the labels of both. *)
LEMMA JoinedLines ==
  ASSUME NEW s \in Seq(Lines), NEW t \in Seq(Lines)
  PROVE  s \o t \in Seq(Lines) /\ LabelsIn(s \o t) = LabelsIn(s) \union LabelsIn(t)
<1> DEFINE both == s \o t
           a == Len(s)
           b == Len(t)
<1>1. a \in Nat /\ b \in Nat /\ DOMAIN s = 1 .. a /\ DOMAIN t = 1 .. b
      /\ DOMAIN both = 1 .. a + b /\ both \in Seq(Lines)
      /\ \A i \in 1 .. a : both[i] = s[i]
  OBVIOUS
<1>2. \A j \in 1 .. b : a + j \in 1 .. a + b /\ both[a + j] = t[j]
  OBVIOUS
<1>3. \A i \in 1 .. a + b : i \in 1 .. a \/ \E j \in 1 .. b : i = a + j
  <2> SUFFICES ASSUME NEW i \in 1 .. a + b, i \notin 1 .. a PROVE i - a \in 1 .. b /\ i = a + (i - a)
    OBVIOUS
  <2> HIDE DEF a, b
  <2> QED
    BY <1>1
<1> HIDE DEF a, b, both
<1>4. \A i \in 1 .. a : i \in 1 .. a + b
  BY <1>1
<1>5. ASSUME NEW x \in LabelsIn(both) PROVE x \in LabelsIn(s) \union LabelsIn(t)
  <2>1. PICK i \in 1 .. a + b : x = both[i] /\ IsLabel(both[i])
    BY <1>1 DEF LabelsIn
  <2>2. CASE i \in 1 .. a
    BY <1>1, <2>1, <2>2 DEF LabelsIn
  <2>3. CASE \E j \in 1 .. b : i = a + j
    <3>1. PICK j \in 1 .. b : i = a + j
      BY <2>3
    <3>2. x = t[j] /\ IsLabel(t[j]) /\ j \in DOMAIN t
      BY <1>1, <1>2, <2>1, <3>1
    <3> QED
      BY <3>2 DEF LabelsIn
  <2> QED
    BY <1>3, <2>2, <2>3
<1>6. \A x \in LabelsIn(s) \union LabelsIn(t) : x \in LabelsIn(both)
  BY <1>1, <1>2, <1>4 DEF LabelsIn
<1>7. LabelsIn(both) = LabelsIn(s) \union LabelsIn(t)
  BY <1>5, <1>6
<1> QED
  BY <1>1, <1>7 DEF both

LEMMA TheirLines ==
  ASSUME LInv, HInv
  PROVE  /\ silver \in Seq(Lines) /\ gold \in Seq(Lines)
         /\ LabelsIn(silver) \subseteq LabelLines /\ LabelsIn(gold) \subseteq HumanLines
         /\ Best(TheirLabels, LabelsIn(silver) \union LabelsIn(gold))
<1>1. silver \in Seq(Lines) /\ gold \in Seq(HumanLines)
  BY DEF LInv, JobTypes, HInv
<1>2. gold \in Seq(Lines)
  <2>1. HumanLines \subseteq Lines
    BY HumanLinesAre
  <2> QED
    BY <1>1, <2>1
<1>3. LabelsIn(silver) \subseteq LabelLines
  BY <1>1, LabelsAreLines
<1>4. LabelsIn(gold) \subseteq HumanLines
  BY <1>1 DEF LabelsIn
<1>5. /\ Directory \in Seq(Lines)
      /\ LabelsIn(Directory) = LabelsIn(silver) \union LabelsIn(gold)
  <2>1. Directory = silver \o gold \/ Directory = gold \o silver
    BY JobAssumption DEF Directory
  <2>2. /\ silver \o gold \in Seq(Lines)
        /\ LabelsIn(silver \o gold) = LabelsIn(silver) \union LabelsIn(gold)
    BY <1>1, <1>2, JoinedLines
  <2>3. /\ gold \o silver \in Seq(Lines)
        /\ LabelsIn(gold \o silver) = LabelsIn(gold) \union LabelsIn(silver)
    BY <1>1, <1>2, JoinedLines
  <2>4. LabelsIn(gold) \union LabelsIn(silver) = LabelsIn(silver) \union LabelsIn(gold)
    OBVIOUS
  <2>5. CASE Directory = silver \o gold
    BY <2>2, <2>5
  <2>6. CASE Directory = gold \o silver
    BY <2>3, <2>4, <2>6
  <2> QED
    BY <2>1, <2>5, <2>6
<1>6. Best(TheirLabels, LabelsIn(Directory))
  BY <1>5, LoadKeeps DEF TheirLabels
<1> QED
  BY <1>1, <1>2, <1>3, <1>4, <1>5, <1>6

LEMMA Ranks == TrustRank("human") = 0 /\ TrustRank("llm_judge") = 1
BY DEF TrustRank

(* What everyone reads of a raw line that has a label. *)
LEMMA TheirLast ==
  ASSUME LInv, HInv, NEW x \in LabelsIn(silver) \union LabelsIn(gold)
  PROVE  LET last == LastOf(TheirLabels, x.raw)
         IN  /\ last \in LabelsIn(silver) \union LabelsIn(gold) /\ last.raw = x.raw
             /\ last \in LabelLines /\ TrustRank(last.source) <= TrustRank(x.source)
<1> DEFINE b == TheirLabels
           L == LabelsIn(silver) \union LabelsIn(gold)
<1>1. Best(b, L) /\ L \subseteq LabelLines
  BY TheirLines, HumanLinesAre
<1> HIDE DEF b, L
<1>2. PICK k \in DOMAIN b : b[k].raw = x.raw /\ TrustRank(b[k].source) <= TrustRank(x.source)
  BY <1>1 DEF Best, L
<1>3. PICK l \in DOMAIN b : b[l].raw = x.raw /\ LastOf(b, x.raw) = b[l]
  BY <1>1, <1>2, LastOfIs DEF Best
<1>4. k = l
  BY <1>1, <1>2, <1>3 DEF Best
<1>5. b[l] \in L
  BY <1>1 DEF Best, Range
<1> QED
  BY <1>1, <1>2, <1>3, <1>4, <1>5 DEF b, L

LEMMA RawLinesFinite == IsFiniteSet(RawLines)
<1> DEFINE n == Len(Messages)
           f == [i \in 1 .. n |-> Messages[i].raw]
<1>1. n \in Nat /\ DOMAIN Messages = 1 .. n
  BY JobAssumption
<1> HIDE DEF n
<1>2. IsFiniteSet(1 .. n)
  BY <1>1, FS_Interval
<1>3. f \in Surjection(1 .. n, RawLines)
  BY <1>1 DEF Surjection, RawLines
<1> HIDE DEF f
<1> QED
  BY <1>2, <1>3, FS_Surjection

(* Where no annotator decided and the job has labelled a line once, its file and what *)
(* everyone reads have the same label.                                               *)
LEMMA SameLabel ==
  ASSUME LInv, HInv, NEW x \in LabelsIn(silver), x.raw \notin adopted, x.raw \notin Repeated
  PROVE  LastOf(TheirLabels, x.raw) = LastOf(ReadFile(silver), x.raw)
<1> DEFINE raw   == x.raw
           their == LastOf(TheirLabels, raw)
           read  == ReadFile(silver)
           ours  == LastOf(read, raw)
<1>1. silver \in Seq(Lines) /\ LabelsIn(silver) \subseteq LabelLines /\ LabelsIn(gold) \subseteq HumanLines
  BY TheirLines
<1>2. their \in LabelsIn(silver) \union LabelsIn(gold) /\ their.raw = raw
  BY TheirLast
<1>3. read \in Seq(LabelLines) /\ Range(read) = LabelsIn(silver)
  BY <1>1, ReadLabels
<1> HIDE DEF their, read
<1>4. \E k \in DOMAIN read : read[k].raw = raw
  BY <1>3 DEF Range
<1>5. PICK l \in DOMAIN read : read[l].raw = raw /\ ours = read[l]
  BY <1>3, <1>4, LastOfIs
<1>6. ours \in LabelsIn(silver) /\ ours.raw = raw
  BY <1>3, <1>5 DEF Range
<1> HIDE DEF ours
<1>7. ASSUME NEW y \in LabelsIn(silver) \union LabelsIn(gold), y.raw = raw
      PROVE  y \in LabelsIn(silver) /\ y.source = "llm_judge"
  <2>1. y.source # "human"
    <3>1. CASE y.source = "human"
      <4>1. raw \in HumansIn(silver) \union HumansIn(gold)
        BY <1>7, <3>1 DEF HumansIn
      <4> QED
        BY <4>1 DEF HInv
    <3> QED
      BY <3>1
  <2>2. y \notin LabelsIn(gold)
    BY <1>1, <2>1, HumanLinesAre
  <2> QED
    BY <1>1, <2>1, <2>2, TheirSources
<1>8. their \in LabelsIn(silver) /\ their.source = "llm_judge" /\ ours.source = "llm_judge"
  BY <1>2, <1>6, <1>7
<1>9. PICK i \in DOMAIN silver : IsLabel(silver[i]) /\ their = silver[i]
  BY <1>8 DEF LabelsIn
<1>10. PICK j \in DOMAIN silver : IsLabel(silver[j]) /\ ours = silver[j]
  BY <1>6 DEF LabelsIn
<1>11. {i, j} \subseteq Readable(raw)
  BY <1>2, <1>6, <1>8, <1>9, <1>10 DEF Readable
<1>12. raw \in RawLines
  BY <1>1, LabelsAreValid
<1>13. ~(Cardinality(Readable(raw)) > 1) /\ IsFiniteSet(Readable(raw))
  <2>1. Readable(raw) = JobLabels(silver, raw)
    BY DEF Readable, JobLabels
  <2> QED
    BY <1>1, <1>12, <2>1, FileIsFinite DEF Repeated
<1>14. i = j
  <2> SUFFICES ASSUME i # j PROVE FALSE
    OBVIOUS
  <2> DEFINE S == Readable(raw)
  <2>1. IsFiniteSet(S) /\ ~(Cardinality(S) > 1) /\ {i, j} \subseteq S
    BY <1>11, <1>13
  <2> HIDE DEF S
  <2>2. IsFiniteSet({i}) /\ Cardinality({i}) = 1
    BY FS_Singleton
  <2>3. Cardinality({i} \union {j}) = 2
    <3> DEFINE I == {i}
    <3>1. IsFiniteSet(I) /\ Cardinality(I) = 1 /\ j \notin I
      BY <2>2
    <3> HIDE DEF I
    <3>2. Cardinality(I \union {j}) = IF j \in I THEN Cardinality(I) ELSE Cardinality(I) + 1
      BY <3>1, FS_AddElement
    <3>3. Cardinality(I \union {j}) = 2
      BY <3>1, <3>2
    <3> QED
      BY <3>3 DEF I
  <2>4. {i} \union {j} \subseteq S
    BY <2>1
  <2>5. Cardinality({i} \union {j}) <= Cardinality(S) /\ Cardinality(S) \in Nat
    BY <2>1, <2>4, Fewer
  <2> QED
    BY <2>1, <2>3, <2>5
<1> QED
  BY <1>9, <1>10, <1>14 DEF their, ours, read

(* Once an annotator's label has been added, everything that reads the directory gets *)
(* it, whatever the job appends before or after it and wherever it is cut off; and    *)
(* the directory disagrees with the job's file only where an annotator decided or the *)
(* job has labelled a line more than once (load_labels, merge_labels, compare_labels).*)
THEOREM AnnotatorsPrevail == Spec => []HumanLabelsPrevail
<1>1. LInv /\ HInv => HumanLabelsPrevail
  <2> SUFFICES ASSUME LInv, HInv PROVE HumanLabelsPrevail
    OBVIOUS
  <2> DEFINE L == LabelsIn(silver) \union LabelsIn(gold)
  <2>1. ASSUME NEW raw \in adopted PROVE LastOf(TheirLabels, raw).source = "human"
    <3>1. PICK x \in L : x.source = "human" /\ x.raw = raw
      BY DEF HInv, HumansIn
    <3> DEFINE last == LastOf(TheirLabels, raw)
    <3>2. last \in LabelLines /\ TrustRank(last.source) <= TrustRank(x.source)
      BY <3>1, TheirLast
    <3>3. TrustRank(x.source) = 0
      BY <3>1, Ranks
    <3> HIDE DEF last
    <3>4. last.source # "llm_judge"
      BY <3>2, <3>3, Ranks
    <3>5. last.source = "human"
      BY <3>2, <3>4, TheirSources
    <3> QED
      BY <3>5 DEF last
  <2>2. ASSUME NEW raw \in ExistingLabels(silver) \ adopted
        PROVE  LastOf(TheirLabels, raw).source = "llm_judge"
    <3>1. PICK x \in LabelsIn(silver) : x.raw = raw
      BY DEF ExistingLabels, LabelsIn
    <3> DEFINE last == LastOf(TheirLabels, raw)
    <3>2. last \in L /\ last.raw = raw /\ last \in LabelLines
      BY <3>1, TheirLast
    <3> HIDE DEF last
    <3>3. last.source # "human"
      <4>1. CASE last.source = "human"
        <5>1. raw \in HumansIn(silver) \union HumansIn(gold)
          BY <3>2, <4>1 DEF HumansIn
        <5> QED
          BY <5>1 DEF HInv
      <4> QED
        BY <4>1
    <3>4. last.source = "llm_judge"
      BY <3>2, <3>3, TheirSources
    <3> QED
      BY <3>4 DEF last
  <2>3. CompareLabels(TheirLabels, ReadFile(silver)).disagreed <= Cardinality(adopted \union Repeated)
    <3> DEFINE raws(labels) == {label.raw : label \in ToSet(labels)}
               a == TheirLabels
               b == ReadFile(silver)
               shared == raws(a) \intersect raws(b)
               agreed == {raw \in shared : StatsType(LastOf(a, raw)) = StatsType(LastOf(b, raw))}
    <3>1. CompareLabels(a, b).disagreed = Cardinality(shared \ agreed)
      BY DEF CompareLabels
    <3>2. ASSUME NEW raw \in shared \ agreed PROVE raw \in adopted \union Repeated
      <4>1. silver \in Seq(Lines)
        BY DEF LInv, JobTypes
      <4>2. PICK k \in DOMAIN b : b[k].raw = raw
        BY DEF ToSet
      <4>3. Range(b) = LabelsIn(silver)
        BY <4>1, ReadLabels
      <4>4. b[k] \in LabelsIn(silver)
        <5> HIDE DEF b
        <5> QED
          BY <4>2, <4>3 DEF Range
      <4>5. PICK x \in LabelsIn(silver) : x.raw = raw
        BY <4>2, <4>4
      <4>6. LastOf(a, raw) # LastOf(b, raw)
        <5>1. raw \in shared /\ raw \notin agreed
          OBVIOUS
        <5> HIDE DEF shared, a, b
        <5> QED
          BY <5>1
      <4> QED
        BY <4>5, <4>6, SameLabel
    <3>3. IsFiniteSet(adopted \union Repeated)
      <4>1. adopted \subseteq RawLines
        <5>1. \A x \in LabelsIn(silver) \union LabelsIn(gold) : x \in LabelLines
          BY TheirLines, HumanLinesAre
        <5>2. \A x \in LabelsIn(silver) \union LabelsIn(gold) : x.raw \in RawLines
          BY <5>1, LabelsAreValid
        <5> QED
          BY <5>2 DEF HInv, HumansIn
      <4>2. Repeated \subseteq RawLines
        BY DEF Repeated
      <4> QED
        BY <4>1, <4>2, RawLinesFinite, FS_Subset
    <3> HIDE DEF shared, agreed
    <3>4. Cardinality(shared \ agreed) <= Cardinality(adopted \union Repeated)
      BY <3>2, <3>3, Fewer
    <3> QED
      BY <3>1, <3>4
  <2> QED
    BY <2>1, <2>2, <2>3 DEF HumanLabelsPrevail
<1> QED
  BY <1>1, InitLInv, NextLInv, InitHInv, NextHInv, PTL DEF Spec

-----------------------------------------------------------------------------
(* TALLIES *)

(* SumOf counts the units of a function: one for each point below its graph. *)
Units(f) == UNION {{x} \X (1 .. f[x]) : x \in DOMAIN f}

Sums == {f \in [UpdateTypes -> Nat] : IsFiniteSet(Units(f))}

KeySets  == {e.keys : e \in Extractions \union {Nothing}}
Overlaps == {Overlap(a, b) : a \in KeySets, b \in KeySets}

\* What eval_against_labels and eval_speaker_models count.
Tallies ==
  [seen : Nat, exact : Nat, relaxed : Nat, errors : Nat, noise : Nat,
   typeTotal : Sums, typeCorrect : Sums, overlaps : Seq(Overlaps)]

RunTallies ==
  [seen : Nat, matched : Nat, exact : Nat, relaxed : Nat, noise : Nat,
   typeTotal : Sums, typeCorrect : Sums, overlaps : Seq(Overlaps)]

LEMMA SumNat ==
  ASSUME NEW f \in Sums
  PROVE  SumOf(f) \in Nat
<1>1. IsFiniteSet(Units(f))
  BY DEF Sums
<1>2. SumOf(f) = Cardinality(Units(f))
  BY DEF SumOf, Units
<1> QED
  BY <1>1, <1>2, FS_CardinalityType

LEMMA NoUnits ==
  LET z == [u \in UpdateTypes |-> 0] IN z \in Sums /\ SumOf(z) = 0
<1> DEFINE z == [u \in UpdateTypes |-> 0]
<1>1. Units(z) = {}
  BY DEF Units
<1>2. SumOf(z) = Cardinality(Units(z))
  BY DEF SumOf, Units
<1>3. IsFiniteSet(Units(z)) /\ Cardinality(Units(z)) = 0
  BY <1>1, FS_EmptySet
<1>4. z \in [UpdateTypes -> Nat]
  OBVIOUS
<1> QED
  BY <1>2, <1>3, <1>4 DEF Sums

LEMMA OneMore ==
  ASSUME NEW f \in Sums, NEW u \in UpdateTypes
  PROVE  LET g == [f EXCEPT ![u] = @ + 1] IN g \in Sums /\ SumOf(g) = SumOf(f) + 1
<1> DEFINE g == [f EXCEPT ![u] = @ + 1]
           F == Units(f)
           p == <<u, f[u] + 1>>
<1>1. f \in [UpdateTypes -> Nat] /\ IsFiniteSet(F)
  BY DEF Sums
<1>2. /\ g \in [UpdateTypes -> Nat] /\ g[u] = f[u] + 1
      /\ \A x \in UpdateTypes : x # u => g[x] = f[x]
  BY <1>1
<1>3. f[u] \in Nat /\ DOMAIN f = UpdateTypes
  BY <1>1
<1> HIDE DEF g
<1>4. p \notin F
  <2> SUFFICES ASSUME p \in F PROVE FALSE
    OBVIOUS
  <2>1. PICK x \in UpdateTypes : p \in {x} \X (1 .. f[x])
    BY <1>3 DEF Units
  <2>2. x = u /\ f[u] + 1 \in 1 .. f[u]
    BY <2>1
  <2> QED
    BY <1>3, <2>2
<1>5. Units(g) = F \union {p}
  <2>1. 1 .. f[u] + 1 = (1 .. f[u]) \union {f[u] + 1}
    BY <1>3
  <2>2. \A x \in UpdateTypes :
          {x} \X (1 .. g[x]) = ({x} \X (1 .. f[x])) \union (IF x = u THEN {p} ELSE {})
    <3> SUFFICES ASSUME NEW x \in UpdateTypes
                 PROVE {x} \X (1 .. g[x]) = ({x} \X (1 .. f[x])) \union (IF x = u THEN {p} ELSE {})
      OBVIOUS
    <3>1. CASE x = u
      <4>1. 1 .. g[x] = (1 .. f[x]) \union {f[x] + 1}
        BY <1>2, <2>1, <3>1
      <4> QED
        BY <3>1, <4>1
    <3>2. CASE x # u
      BY <1>2, <3>2
    <3> QED
      BY <3>1, <3>2
  <2>3. DOMAIN g = UpdateTypes
    BY <1>2
  <2> HIDE DEF p
  <2>4. Units(g) = UNION {({x} \X (1 .. f[x])) \union (IF x = u THEN {p} ELSE {}) : x \in UpdateTypes}
    BY <2>2, <2>3 DEF Units
  <2> QED
    BY <1>3, <2>4 DEF Units
<1>6. IsFiniteSet(F \union {p}) /\ Cardinality(F \union {p}) = Cardinality(F) + 1
  <2> HIDE DEF F, p
  <2>1. IsFiniteSet(F \union {p})
    BY <1>1, FS_AddElement
  <2>2. Cardinality(F \union {p}) = IF p \in F THEN Cardinality(F) ELSE Cardinality(F) + 1
    BY <1>1, FS_AddElement
  <2> QED
    BY <1>4, <2>1, <2>2
<1>7. SumOf(g) = Cardinality(Units(g)) /\ SumOf(f) = Cardinality(F)
  BY DEF SumOf, Units
<1>8. g \in Sums
  BY <1>2, <1>5, <1>6 DEF Sums
<1>9. SumOf(g) = SumOf(f) + 1
  BY <1>5, <1>6, <1>7
<1> QED
  BY <1>8, <1>9 DEF g

LEMMA Bumped ==
  ASSUME NEW f \in Sums, NEW u \in UpdateTypes, NEW c \in BOOLEAN
  PROVE  LET g == [f EXCEPT ![u] = Bump(c, @)] IN g \in Sums /\ SumOf(g) = Bump(c, SumOf(f))
<1>1. CASE c
  <2>1. [f EXCEPT ![u] = Bump(c, @)] = [f EXCEPT ![u] = @ + 1]
    BY <1>1 DEF Bump
  <2>2. Bump(c, SumOf(f)) = SumOf(f) + 1
    BY <1>1 DEF Bump
  <2> QED
    BY <2>1, <2>2, OneMore
<1>2. CASE ~c
  <2>1. f \in [UpdateTypes -> Nat]
    BY DEF Sums
  <2>2. [f EXCEPT ![u] = Bump(c, @)] = f
    BY <1>2, <2>1 DEF Bump
  <2>3. Bump(c, SumOf(f)) = SumOf(f)
    BY <1>2 DEF Bump
  <2> QED
    BY <2>2, <2>3
<1> QED
  BY <1>1, <1>2

(* One item more that is counted by its type: what the four counters gain. *)
Marked(s, t, exact, relaxed) ==
  /\ s.exact = Bump(exact, t.exact) /\ s.relaxed = Bump(relaxed, t.relaxed)
  /\ SumOf(s.typeTotal) = SumOf(t.typeTotal) + 1
  /\ SumOf(s.typeCorrect) = Bump(relaxed, SumOf(t.typeCorrect))

LEMMA BumpNat ==
  ASSUME NEW n \in Nat, NEW c
  PROVE  Bump(c, n) \in Nat
BY DEF Bump

LEMMA TypeScored ==
  ASSUME NEW t \in Tallies, NEW l \in UpdateTypes, NEW c
  PROVE  LET s == ScoreType(t, l, c)
         IN  /\ s \in Tallies /\ Marked(s, t, c = l, TypesMatchRelaxed(c, l))
             /\ s.seen = t.seen /\ s.errors = t.errors /\ s.overlaps = t.overlaps
<1> DEFINE r == TypesMatchRelaxed(c, l)
           x == ExactMatch(c, l)
           s == ScoreType(t, l, c)
           total == [t.typeTotal EXCEPT ![l] = @ + 1]
           right == [t.typeCorrect EXCEPT ![l] = Bump(r, @)]
<1>1. r \in BOOLEAN /\ (x <=> c = l)
  BY DEF TypesMatchRelaxed, ExactMatch
<1>2. /\ t.typeTotal \in Sums /\ t.typeCorrect \in Sums /\ t.exact \in Nat /\ t.relaxed \in Nat
      /\ t.seen \in Nat /\ t.errors \in Nat /\ t.noise \in Nat /\ t.overlaps \in Seq(Overlaps)
  BY DEF Tallies
<1>3. s = [seen |-> t.seen, exact |-> Bump(x, t.exact), relaxed |-> Bump(r, t.relaxed),
           errors |-> t.errors, noise |-> t.noise, typeTotal |-> total, typeCorrect |-> right,
           overlaps |-> t.overlaps]
  <2>1. s = [t EXCEPT !.exact = Bump(x, @), !.relaxed = Bump(r, @), !.typeTotal[l] = @ + 1,
                      !.typeCorrect[l] = Bump(r, @)]
    BY DEF ScoreType
  <2>2. t = [seen |-> t.seen, exact |-> t.exact, relaxed |-> t.relaxed, errors |-> t.errors,
             noise |-> t.noise, typeTotal |-> t.typeTotal, typeCorrect |-> t.typeCorrect,
             overlaps |-> t.overlaps]
    BY DEF Tallies
  <2> HIDE DEF s, r, x
  <2> QED
    BY <2>1, <2>2
<1> HIDE DEF r, x
<1>4. total \in Sums /\ SumOf(total) = SumOf(t.typeTotal) + 1
  BY <1>2, OneMore
<1>5. right \in Sums /\ SumOf(right) = Bump(r, SumOf(t.typeCorrect))
  BY <1>1, <1>2, Bumped
<1>6. Bump(x, t.exact) \in Nat /\ Bump(r, t.relaxed) \in Nat /\ Bump(x, t.exact) = Bump(c = l, t.exact)
  BY <1>1, <1>2, BumpNat DEF Bump
<1> HIDE DEF s, total, right
<1>7. s \in Tallies
  BY <1>2, <1>3, <1>4, <1>5, <1>6 DEF Tallies
<1>8. /\ s.exact = Bump(c = l, t.exact) /\ s.relaxed = Bump(r, t.relaxed)
      /\ s.typeTotal = total /\ s.typeCorrect = right
      /\ s.seen = t.seen /\ s.errors = t.errors /\ s.overlaps = t.overlaps
  BY <1>3, <1>6
<1> QED
  BY <1>4, <1>5, <1>7, <1>8 DEF Marked, s, r
LEMMA TypeScoredRun ==
  ASSUME NEW t \in RunTallies, NEW l \in UpdateTypes, NEW c
  PROVE  LET s == ScoreType(t, l, c)
         IN  /\ s \in RunTallies /\ Marked(s, t, c = l, TypesMatchRelaxed(c, l))
             /\ s.seen = t.seen /\ s.matched = t.matched /\ s.overlaps = t.overlaps
<1> DEFINE r == TypesMatchRelaxed(c, l)
           x == ExactMatch(c, l)
           s == ScoreType(t, l, c)
           total == [t.typeTotal EXCEPT ![l] = @ + 1]
           right == [t.typeCorrect EXCEPT ![l] = Bump(r, @)]
<1>1. r \in BOOLEAN /\ (x <=> c = l)
  BY DEF TypesMatchRelaxed, ExactMatch
<1>2. /\ t.typeTotal \in Sums /\ t.typeCorrect \in Sums /\ t.exact \in Nat /\ t.relaxed \in Nat
      /\ t.seen \in Nat /\ t.matched \in Nat /\ t.noise \in Nat /\ t.overlaps \in Seq(Overlaps)
  BY DEF RunTallies
<1>3. s = [seen |-> t.seen, exact |-> Bump(x, t.exact), relaxed |-> Bump(r, t.relaxed),
           matched |-> t.matched, noise |-> t.noise, typeTotal |-> total, typeCorrect |-> right,
           overlaps |-> t.overlaps]
  <2>1. s = [t EXCEPT !.exact = Bump(x, @), !.relaxed = Bump(r, @), !.typeTotal[l] = @ + 1,
                      !.typeCorrect[l] = Bump(r, @)]
    BY DEF ScoreType
  <2>2. t = [seen |-> t.seen, exact |-> t.exact, relaxed |-> t.relaxed, matched |-> t.matched,
             noise |-> t.noise, typeTotal |-> t.typeTotal, typeCorrect |-> t.typeCorrect,
             overlaps |-> t.overlaps]
    BY DEF RunTallies
  <2> HIDE DEF s, r, x
  <2> QED
    BY <2>1, <2>2
<1> HIDE DEF r, x
<1>4. total \in Sums /\ SumOf(total) = SumOf(t.typeTotal) + 1
  BY <1>2, OneMore
<1>5. right \in Sums /\ SumOf(right) = Bump(r, SumOf(t.typeCorrect))
  BY <1>1, <1>2, Bumped
<1>6. Bump(x, t.exact) \in Nat /\ Bump(r, t.relaxed) \in Nat /\ Bump(x, t.exact) = Bump(c = l, t.exact)
  BY <1>1, <1>2, BumpNat DEF Bump
<1> HIDE DEF s, total, right
<1>7. s \in RunTallies
  BY <1>2, <1>3, <1>4, <1>5, <1>6 DEF RunTallies
<1>8. /\ s.exact = Bump(c = l, t.exact) /\ s.relaxed = Bump(r, t.relaxed)
      /\ s.typeTotal = total /\ s.typeCorrect = right
      /\ s.seen = t.seen /\ s.matched = t.matched /\ s.overlaps = t.overlaps
  BY <1>3, <1>6
<1> QED
  BY <1>4, <1>5, <1>7, <1>8 DEF Marked, s, r
LEMMA NoiseScored ==
  ASSUME NEW t \in Tallies, NEW c \in BOOLEAN
  PROVE  LET s == ScoreNoise(t, c)
         IN  /\ s \in Tallies /\ Marked(s, t, c, c)
             /\ s.seen = t.seen + 1 /\ s.errors = t.errors /\ s.overlaps = t.overlaps
<1> DEFINE l == "none"
           s == ScoreNoise(t, c)
           total == [t.typeTotal EXCEPT ![l] = @ + 1]
           right == [t.typeCorrect EXCEPT ![l] = Bump(c, @)]
<1>1. l \in UpdateTypes
  BY TypeAssumption
<1>2. /\ t.typeTotal \in Sums /\ t.typeCorrect \in Sums /\ t.exact \in Nat /\ t.relaxed \in Nat
      /\ t.seen \in Nat /\ t.errors \in Nat /\ t.noise \in Nat /\ t.overlaps \in Seq(Overlaps)
  BY DEF Tallies
<1>3. s = [seen |-> t.seen + 1, exact |-> Bump(c, t.exact), relaxed |-> Bump(c, t.relaxed),
           errors |-> t.errors, noise |-> t.noise + 1, typeTotal |-> total, typeCorrect |-> right,
           overlaps |-> t.overlaps]
  <2>1. s = [t EXCEPT !.seen = @ + 1, !.noise = @ + 1, !.typeTotal[l] = @ + 1,
                      !.exact = Bump(c, @), !.relaxed = Bump(c, @),
                      !.typeCorrect[l] = Bump(c, @)]
    BY DEF ScoreNoise
  <2>2. t = [seen |-> t.seen, exact |-> t.exact, relaxed |-> t.relaxed, errors |-> t.errors,
             noise |-> t.noise, typeTotal |-> t.typeTotal, typeCorrect |-> t.typeCorrect,
             overlaps |-> t.overlaps]
    BY DEF Tallies
  <2> HIDE DEF s
  <2> QED
    BY <2>1, <2>2
<1> HIDE DEF l
<1>4. total \in Sums /\ SumOf(total) = SumOf(t.typeTotal) + 1
  BY <1>1, <1>2, OneMore
<1>5. right \in Sums /\ SumOf(right) = Bump(c, SumOf(t.typeCorrect))
  BY <1>1, <1>2, Bumped
<1>6. Bump(c, t.exact) \in Nat /\ Bump(c, t.relaxed) \in Nat
  BY <1>2, BumpNat
<1> HIDE DEF s, total, right
<1>7. s \in Tallies
  BY <1>2, <1>3, <1>4, <1>5, <1>6 DEF Tallies
<1>8. /\ s.exact = Bump(c, t.exact) /\ s.relaxed = Bump(c, t.relaxed)
      /\ s.typeTotal = total /\ s.typeCorrect = right
      /\ s.seen = t.seen + 1 /\ s.errors = t.errors /\ s.overlaps = t.overlaps
  BY <1>3
<1> QED
  BY <1>4, <1>5, <1>7, <1>8 DEF Marked, s

LEMMA NoiseScoredRun ==
  ASSUME NEW t \in RunTallies, NEW c \in BOOLEAN
  PROVE  LET s == ScoreNoise(t, c)
         IN  /\ s \in RunTallies /\ Marked(s, t, c, c)
             /\ s.seen = t.seen + 1 /\ s.matched = t.matched /\ s.overlaps = t.overlaps
<1> DEFINE l == "none"
           s == ScoreNoise(t, c)
           total == [t.typeTotal EXCEPT ![l] = @ + 1]
           right == [t.typeCorrect EXCEPT ![l] = Bump(c, @)]
<1>1. l \in UpdateTypes
  BY TypeAssumption
<1>2. /\ t.typeTotal \in Sums /\ t.typeCorrect \in Sums /\ t.exact \in Nat /\ t.relaxed \in Nat
      /\ t.seen \in Nat /\ t.matched \in Nat /\ t.noise \in Nat /\ t.overlaps \in Seq(Overlaps)
  BY DEF RunTallies
<1>3. s = [seen |-> t.seen + 1, exact |-> Bump(c, t.exact), relaxed |-> Bump(c, t.relaxed),
           matched |-> t.matched, noise |-> t.noise + 1, typeTotal |-> total, typeCorrect |-> right,
           overlaps |-> t.overlaps]
  <2>1. s = [t EXCEPT !.seen = @ + 1, !.noise = @ + 1, !.typeTotal[l] = @ + 1,
                      !.exact = Bump(c, @), !.relaxed = Bump(c, @),
                      !.typeCorrect[l] = Bump(c, @)]
    BY DEF ScoreNoise
  <2>2. t = [seen |-> t.seen, exact |-> t.exact, relaxed |-> t.relaxed, matched |-> t.matched,
             noise |-> t.noise, typeTotal |-> t.typeTotal, typeCorrect |-> t.typeCorrect,
             overlaps |-> t.overlaps]
    BY DEF RunTallies
  <2> HIDE DEF s
  <2> QED
    BY <2>1, <2>2
<1> HIDE DEF l
<1>4. total \in Sums /\ SumOf(total) = SumOf(t.typeTotal) + 1
  BY <1>1, <1>2, OneMore
<1>5. right \in Sums /\ SumOf(right) = Bump(c, SumOf(t.typeCorrect))
  BY <1>1, <1>2, Bumped
<1>6. Bump(c, t.exact) \in Nat /\ Bump(c, t.relaxed) \in Nat
  BY <1>2, BumpNat
<1> HIDE DEF s, total, right
<1>7. s \in RunTallies
  BY <1>2, <1>3, <1>4, <1>5, <1>6 DEF RunTallies
<1>8. /\ s.exact = Bump(c, t.exact) /\ s.relaxed = Bump(c, t.relaxed)
      /\ s.typeTotal = total /\ s.typeCorrect = right
      /\ s.seen = t.seen + 1 /\ s.matched = t.matched /\ s.overlaps = t.overlaps
  BY <1>3
<1> QED
  BY <1>4, <1>5, <1>7, <1>8 DEF Marked, s

LEMMA EntitiesScored ==
  ASSUME NEW t \in Tallies, NEW a \in KeySets, NEW b \in KeySets
  PROVE  LET s == ScoreEntities(t, a, b)
         IN  /\ s \in Tallies
             /\ s.exact = t.exact /\ s.relaxed = t.relaxed
             /\ s.typeTotal = t.typeTotal /\ s.typeCorrect = t.typeCorrect
             /\ s.seen = t.seen /\ s.errors = t.errors
             /\ Len(s.overlaps) <= Len(t.overlaps) + 1 /\ Len(s.overlaps) \in Nat
<1> DEFINE s == ScoreEntities(t, a, b)
           o == Overlap(a, b)
           more == Append(t.overlaps, o)
<1>1. t.overlaps \in Seq(Overlaps) /\ o \in Overlaps
  BY DEF Tallies, Overlaps
<1>2. more \in Seq(Overlaps) /\ Len(more) = Len(t.overlaps) + 1 /\ Len(t.overlaps) \in Nat
  <2> HIDE DEF o
  <2> QED
    BY <1>1
<1>3. s = t \/ s = [t EXCEPT !.overlaps = more]
  BY DEF ScoreEntities
<1> HIDE DEF more, o, s
<1>4. s \in Tallies /\ (s.overlaps = t.overlaps \/ s.overlaps = more)
  BY <1>2, <1>3 DEF Tallies
<1>5. /\ s.exact = t.exact /\ s.relaxed = t.relaxed
      /\ s.typeTotal = t.typeTotal /\ s.typeCorrect = t.typeCorrect
      /\ s.seen = t.seen /\ s.errors = t.errors
  BY <1>3 DEF Tallies
<1> QED
  BY <1>2, <1>4, <1>5 DEF s

LEMMA EntitiesScoredRun ==
  ASSUME NEW t \in RunTallies, NEW a \in KeySets, NEW b \in KeySets
  PROVE  LET s == ScoreEntities(t, a, b)
         IN  /\ s \in RunTallies
             /\ s.exact = t.exact /\ s.relaxed = t.relaxed
             /\ s.typeTotal = t.typeTotal /\ s.typeCorrect = t.typeCorrect
             /\ s.seen = t.seen /\ s.matched = t.matched
             /\ Len(s.overlaps) <= Len(t.overlaps) + 1 /\ Len(s.overlaps) \in Nat
<1> DEFINE s == ScoreEntities(t, a, b)
           o == Overlap(a, b)
           more == Append(t.overlaps, o)
<1>1. t.overlaps \in Seq(Overlaps) /\ o \in Overlaps
  BY DEF RunTallies, Overlaps
<1>2. more \in Seq(Overlaps) /\ Len(more) = Len(t.overlaps) + 1 /\ Len(t.overlaps) \in Nat
  <2> HIDE DEF o
  <2> QED
    BY <1>1
<1>3. s = t \/ s = [t EXCEPT !.overlaps = more]
  BY DEF ScoreEntities
<1> HIDE DEF more, o, s
<1>4. s \in RunTallies /\ (s.overlaps = t.overlaps \/ s.overlaps = more)
  BY <1>2, <1>3 DEF RunTallies
<1>5. /\ s.exact = t.exact /\ s.relaxed = t.relaxed
      /\ s.typeTotal = t.typeTotal /\ s.typeCorrect = t.typeCorrect
      /\ s.seen = t.seen /\ s.matched = t.matched
  BY <1>3 DEF RunTallies
<1> QED
  BY <1>2, <1>4, <1>5 DEF s

LEMMA LineFields ==
  ASSUME NEW line \in LabelLines
  PROVE  /\ line.keys \in KeySets /\ SilverType(line) \in UpdateTypes
         /\ line.raw \in RawLines /\ FilterIsRight(line)
         /\ line.source # "human" => ExpectedType(line) = SilverType(line)
         /\ Nothing.keys \in KeySets
<1>1. Nothing.keys = {} /\ Nothing.type = "none" /\ Nothing.keys \in KeySets
  BY DEF Nothing, KeySets
<1>2. CASE line \in JobLines
  <2>1. PICK raw \in RawLines, method \in Methods, e \in Extractions \union {Nothing},
             kind \in Kinds : line = Written(raw, method, e, kind)
    BY <1>2 DEF JobLines
  <2>2. e.type \in UpdateTypes /\ e.keys \in KeySets
    BY JobAssumption, TypeAssumption DEF Nothing, KeySets
  <2>3. /\ line.raw = raw /\ line.expected = NoType
        /\ line.extracted = e.type /\ line.keys = e.keys
    BY <2>1, WrittenFields
  <2>4. line.extracted # NoType
    BY <2>2, <2>3, TypeAssumption
  <2>5. SilverType(line) = e.type /\ ExpectedType(line) = e.type
    BY <2>3, <2>4 DEF SilverType, ExpectedType
  <2>6. FilterIsRight(line)
    BY <1>2 DEF JobLines
  <2> QED
    BY <1>1, <2>2, <2>3, <2>5, <2>6
<1>3. CASE \E raw \in RawLines, type \in UpdateTypes : line = HumanLabel(raw, type)
  <2>1. PICK raw \in RawLines, type \in UpdateTypes : line = HumanLabel(raw, type)
    BY <1>3
  <2>2. /\ line.raw = raw /\ line.source = "human" /\ line.method = "human"
        /\ line.extracted = NoType /\ line.keys = {}
    BY <2>1 DEF HumanLabel
  <2>3. SilverType(line) = "none"
    BY <2>2 DEF SilverType
  <2>4. FilterIsRight(line)
    BY <2>2 DEF FilterIsRight
  <2> QED
    BY <1>1, <2>2, <2>3, <2>4, TypeAssumption
<1> QED
  BY <1>2, <1>3 DEF LabelLines

(* One answer to a label, or one stored update that has it. *)
LEMMA AnswerScored ==
  ASSUME NEW t \in Tallies, NEW line \in LabelLines, NEW e, e.keys \in KeySets
  PROVE  LET s == ScoreAgainst(t, line, e)
         IN  /\ s \in Tallies
             /\ Marked(s, t, e.type = SilverType(line), TypesMatchRelaxed(e.type, SilverType(line)))
             /\ s.seen = t.seen + 1 /\ s.errors = t.errors
<1> DEFINE l  == SilverType(line)
           t1 == [t EXCEPT !.seen = @ + 1]
           t2 == ScoreType(t1, l, e.type)
           s  == ScoreAgainst(t, line, e)
<1>1. l \in UpdateTypes /\ line.keys \in KeySets
  BY LineFields
<1>2. /\ t1 \in Tallies /\ t1.seen = t.seen + 1 /\ t1.errors = t.errors
      /\ t1.exact = t.exact /\ t1.relaxed = t.relaxed
      /\ t1.typeTotal = t.typeTotal /\ t1.typeCorrect = t.typeCorrect
  BY DEF Tallies
<1>3. s = ScoreEntities(t2, line.keys, e.keys)
  BY DEF ScoreAgainst
<1> HIDE DEF l, t1, s
<1>4. /\ t2 \in Tallies /\ Marked(t2, t1, e.type = l, TypesMatchRelaxed(e.type, l))
      /\ t2.seen = t1.seen /\ t2.errors = t1.errors
  BY <1>1, <1>2, TypeScored
<1> HIDE DEF t2
<1>5. /\ s \in Tallies /\ s.seen = t2.seen /\ s.errors = t2.errors
      /\ s.exact = t2.exact /\ s.relaxed = t2.relaxed
      /\ s.typeTotal = t2.typeTotal /\ s.typeCorrect = t2.typeCorrect
  BY <1>1, <1>3, <1>4, EntitiesScored
<1>6. Marked(s, t, e.type = l, TypesMatchRelaxed(e.type, l))
  BY <1>2, <1>4, <1>5 DEF Marked
<1> QED
  BY <1>2, <1>4, <1>5, <1>6 DEF l, s

-----------------------------------------------------------------------------
(* THE MEASURING TOOLS *)

InFiles == ToSet(TheirLabels) \union ToSet(ReadFile(silver))

PairTallies == [correct : Nat, pairs : Nat, errors : Nat]

Metrics ==
  [total : Nat, TP : Nat, FP : Nat, FN : Nat, TN : Nat, ERROR : Nat,
   matched : Nat, expected : Nat, extracted : Nat]

\* What holds of a tally between any two items.
AgainstAdds ==
  /\ tally \in Tallies
  /\ OfMachines => tally.exact = earned
  /\ tally.exact <= tally.relaxed
  /\ SumOf(tally.typeTotal) + tally.errors = tally.seen
  /\ SumOf(tally.typeCorrect) = tally.relaxed

ModelsAdd ==
  /\ tally \in Metrics
  /\ tally.TP + tally.FP + tally.FN + tally.TN + tally.ERROR = tally.total
  /\ tally.matched <= tally.expected /\ tally.matched <= tally.extracted
  /\ earned <= tally.total
  /\ earned = tally.total =>
       /\ tally.FP + tally.FN + tally.ERROR = 0
       /\ tally.matched = tally.expected /\ tally.matched = tally.extracted

(* While a tool runs no file changes, so what it goes through is what the files *)
(* hold; it waits for the model only about an item.                             *)
MInv ==
  /\ tool \in {"off", "against", "recalibrate", "models"}
  /\ asking \in {"next", "calling", "backoff"} /\ earned \in Nat
  /\ asking # "next" => tool \in {"against", "recalibrate"} /\ items # <<>>
  /\ tool \in {"against", "recalibrate"} =>
       items \in Seq(LabelLines) /\ Range(items) \subseteq InFiles
  /\ tool = "models" => items \in Seq(DOMAIN Messages)
  /\ tool = "against" => AgainstAdds
  /\ tool = "recalibrate" => tally \in PairTallies /\ tally.correct = earned
  /\ tool = "models" => ModelsAdd

LEMMA KnownLines ==
  ASSUME LInv, HInv
  PROVE  TheirLabels \in Seq(LabelLines) /\ ReadFile(silver) \in Seq(LabelLines)
<1>1. silver \in Seq(Lines) /\ Best(TheirLabels, LabelsIn(silver) \union LabelsIn(gold))
  BY TheirLines
<1> QED
  BY <1>1, ReadLabels DEF Best

LEMMA ToSetIsRange == \A s : ToSet(s) = Range(s)
BY DEF ToSet, Range

LEMMA ChosenLabels ==
  ASSUME NEW s \in Seq(LabelLines), NEW P, P \subseteq DOMAIN s
  PROVE  Chosen(s, P) \in Seq(LabelLines) /\ Range(Chosen(s, P)) \subseteq Range(s)
<1> DEFINE U == {s[i] : i \in P}
           c == Chosen(s, P)
<1>1. c \in Seq(U) /\ Range(c) = U
  BY ChosenRange
<1>2. U \subseteq LabelLines /\ U \subseteq Range(s)
  BY DEF Range
<1> HIDE DEF U, c
<1>3. c \in Seq(LabelLines) /\ Range(c) \subseteq Range(s)
  BY <1>1, <1>2
<1> QED
  BY <1>3 DEF c

(* What a tool takes of the labels. *)
LEMMA KeptLabels ==
  ASSUME NEW labels \in Seq(LabelLines)
  PROVE  /\ WithoutErrors(labels) \in Seq(LabelLines)
         /\ Range(WithoutErrors(labels)) \subseteq Range(labels)
<1> DEFINE P == {i \in DOMAIN labels : labels[i].method # "error"}
<1>1. WithoutErrors(labels) = Chosen(labels, P) /\ P \subseteq DOMAIN labels
  BY DEF WithoutErrors
<1> HIDE DEF P
<1> QED
  BY <1>1, ChosenLabels

LEMMA Taken ==
  ASSUME NEW labels \in Seq(LabelLines)
  PROVE  /\ \A n \in 0 .. Len(labels) :
              LET todo == WithoutErrors(SubSeq(labels, 1, n))
              IN  todo \in Seq(LabelLines) /\ Range(todo) \subseteq ToSet(labels)
         /\ Scorable(labels) \in Seq(LabelLines) /\ Range(Scorable(labels)) \subseteq ToSet(labels)
<1>1. ASSUME NEW n \in 0 .. Len(labels)
      PROVE  LET todo == WithoutErrors(SubSeq(labels, 1, n))
             IN  todo \in Seq(LabelLines) /\ Range(todo) \subseteq ToSet(labels)
  <2> DEFINE s == SubSeq(labels, 1, n)
  <2>1. s \in Seq(LabelLines)
    OBVIOUS
  <2>2. \A i \in DOMAIN s : i \in DOMAIN labels /\ s[i] = labels[i]
    OBVIOUS
  <2> HIDE DEF s
  <2>3. Range(s) \subseteq Range(labels)
    BY <2>2 DEF Range
  <2>4. WithoutErrors(s) \in Seq(LabelLines) /\ Range(WithoutErrors(s)) \subseteq Range(labels)
    BY <2>1, <2>3, KeptLabels
  <2> QED
    BY <2>4, ToSetIsRange DEF s
<1>2. Scorable(labels) \in Seq(LabelLines) /\ Range(Scorable(labels)) \subseteq ToSet(labels)
  <2> DEFINE P == {i \in DOMAIN labels : labels[i].method \notin {"error", "noise_filter"}}
  <2>1. Scorable(labels) = Chosen(labels, P) /\ P \subseteq DOMAIN labels
    BY DEF Scorable
  <2> HIDE DEF P
  <2> QED
    BY <2>1, ChosenLabels, ToSetIsRange
<1> QED
  BY <1>1, <1>2

LEMMA NoTallyAdds ==
  /\ NoTally \in Tallies /\ NoTally.exact = 0 /\ NoTally.relaxed = 0 /\ NoTally.errors = 0
  /\ NoTally.seen = 0 /\ SumOf(NoTally.typeTotal) = 0 /\ SumOf(NoTally.typeCorrect) = 0
<1> DEFINE z == [u \in UpdateTypes |-> 0]
<1>1. z \in Sums /\ SumOf(z) = 0
  BY NoUnits
<1>2. NoTally = [seen |-> 0, exact |-> 0, relaxed |-> 0, errors |-> 0, noise |-> 0,
                 typeTotal |-> z, typeCorrect |-> z, overlaps |-> <<>>]
  BY DEF NoTally
<1>3. <<>> \in Seq(Overlaps)
  OBVIOUS
<1> HIDE DEF z
<1> QED
  BY <1>1, <1>2, <1>3 DEF Tallies

LEMMA InitMInv == Init => MInv
<1> SUFFICES ASSUME Init PROVE MInv
  OBVIOUS
<1>1. tool = "off" /\ items = <<>> /\ asking = "next" /\ earned = 0
  BY DEF Init, InitEvaluation
<1> QED
  BY <1>1 DEF MInv

LEMMA FilesStay ==
  ASSUME UNCHANGED labelVars
  PROVE  InFiles' = InFiles /\ OfMachines' = OfMachines /\ silver' = silver /\ gold' = gold
<1>1. silver' = silver /\ gold' = gold
  BY DEF labelVars, fileVars
<1> QED
  BY <1>1 DEF InFiles, OfMachines, TheirLabels, Directory

LEMMA BeginMInv ==
  ASSUME LInv, HInv, MInv, EvalNext, Ready
  PROVE  MInv'
<1>0. InFiles' = InFiles /\ OfMachines' = OfMachines
  BY EvaluationOnlyReads, FilesStay
<1>1. CASE \E labels \in {ReadFile(silver), LoadLabels(Directory)} :
             \E count \in CountOptions : BeginAgainst(labels, count)
  <2>1. PICK labels \in {ReadFile(silver), TheirLabels} :
          \E count \in CountOptions : BeginAgainst(labels, count)
    BY <1>1 DEF TheirLabels
  <2>2. PICK count \in CountOptions : BeginAgainst(labels, count)
    BY <2>1
  <2> DEFINE n    == UpTo(count, Len(labels))
             todo == WithoutErrors(SubSeq(labels, 1, n))
  <2>3. /\ tool' = "against" /\ items' = todo /\ tally' = NoTally /\ asking' = "next" /\ earned' = 0
    BY <2>2 DEF BeginAgainst, Begin
  <2>4. labels \in Seq(LabelLines) /\ ToSet(labels) \subseteq InFiles
    BY KnownLines DEF InFiles
  <2>5. todo \in Seq(LabelLines) /\ Range(todo) \subseteq ToSet(labels)
    <3>1. n \in 0 .. Len(labels)
      BY <2>4, JobAssumption DEF UpTo
    <3> HIDE DEF n
    <3> QED
      BY <2>4, <3>1, Taken
  <2> HIDE DEF todo
  <2>6. items' \in Seq(LabelLines) /\ Range(items') \subseteq InFiles'
    BY <1>0, <2>3, <2>4, <2>5
  <2>7. AgainstAdds'
    BY <2>3, NoTallyAdds DEF AgainstAdds
  <2> QED
    BY <2>3, <2>6, <2>7 DEF MInv
<1>2. CASE BeginRecalibrate
  <2> DEFINE todo == Scorable(TheirLabels)
  <2>1. tool' = "recalibrate" /\ items' = todo /\ tally' = NoPairs /\ asking' = "next" /\ earned' = 0
    BY <1>2 DEF BeginRecalibrate, Begin, TheirLabels
  <2>2. todo \in Seq(LabelLines) /\ Range(todo) \subseteq InFiles
    BY KnownLines, Taken DEF InFiles
  <2> HIDE DEF todo
  <2>3. items' \in Seq(LabelLines) /\ Range(items') \subseteq InFiles'
    BY <1>0, <2>1, <2>2
  <2>4. tally' \in PairTallies /\ tally'.correct = 0
    BY <2>1 DEF PairTallies, NoPairs
  <2> QED
    BY <2>1, <2>3, <2>4 DEF MInv
<1>3. CASE BeginModels
  <2>1. /\ tool' = "models" /\ items' = [i \in DOMAIN Messages |-> i] /\ tally' = NoMetrics
        /\ asking' = "next" /\ earned' = 0
    BY <1>3 DEF BeginModels, Begin
  <2>2. items' \in Seq(DOMAIN Messages)
    BY <2>1, JobAssumption
  <2>3. ModelsAdd'
    BY <2>1 DEF ModelsAdd, NoMetrics, Metrics
  <2> QED
    BY <2>1, <2>2, <2>3 DEF MInv
<1>4. ~EvalStep
  BY DEF MInv, Ready, EvalStep, AgainstNoise, AgainstFiltered, AskAbout, AtItem, Answer, ModelBusy,
         ModelRefuses, AskAgain, AgentAnswers, Report
<1> QED
  BY <1>1, <1>2, <1>3, <1>4 DEF EvalNext

(* An item is done: it leaves the list. *)
LEMMA ItemDone ==
  ASSUME MInv, items # <<>>, tool # "off", NEW t, NEW c \in BOOLEAN, Done(t, c),
         tool = "against" => AgainstAdds', tool = "models" => ModelsAdd',
         tool = "recalibrate" => tally' \in PairTallies /\ tally'.correct = earned'
  PROVE  MInv'
<1>1. /\ tool' = tool /\ items' = Tail(items) /\ asking' = "next" /\ UNCHANGED labelVars
      /\ earned' = Bump(c, earned)
  BY DEF Done
<1>2. earned' \in Nat
  BY <1>1, BumpNat DEF MInv
<1>3. InFiles' = InFiles
  BY <1>1, FilesStay
<1>4. ASSUME tool \in {"against", "recalibrate"}
      PROVE  items' \in Seq(LabelLines) /\ Range(items') \subseteq InFiles'
  <2>1. items \in Seq(LabelLines) /\ Range(items) \subseteq InFiles
    BY <1>4 DEF MInv
  <2>2. /\ Tail(items) \in Seq(LabelLines)
        /\ \A i \in DOMAIN Tail(items) : i + 1 \in DOMAIN items /\ Tail(items)[i] = items[i + 1]
    BY <2>1
  <2>3. Range(Tail(items)) \subseteq Range(items)
    BY <2>2 DEF Range
  <2> QED
    BY <1>1, <1>3, <2>1, <2>2, <2>3
<1>5. tool = "models" => items' \in Seq(DOMAIN Messages)
  BY <1>1 DEF MInv
<1> QED
  BY <1>1, <1>2, <1>4, <1>5 DEF MInv

LEMMA AtHead ==
  ASSUME MInv, items # <<>>, tool \in {"against", "recalibrate"}
  PROVE  /\ Head(items) \in LabelLines
         /\ OfMachines => Head(items).source # "human"
<1>1. items \in Seq(LabelLines) /\ Range(items) \subseteq InFiles
  BY DEF MInv
<1>2. Head(items) \in LabelLines /\ Head(items) = items[1] /\ 1 \in DOMAIN items
  BY <1>1
<1>3. Head(items) \in InFiles
  BY <1>1, <1>2 DEF Range
<1> QED
  BY <1>2, <1>3 DEF OfMachines, InFiles

(* One item of eval_against_labels that was scored. *)
LEMMA AgainstDone ==
  ASSUME MInv, items # <<>>, tool = "against", NEW t, NEW c \in BOOLEAN, Done(t, c),
         NEW exact \in BOOLEAN, NEW relaxed \in BOOLEAN, exact => relaxed,
         OfMachines => exact = c,
         t \in Tallies, Marked(t, tally, exact, relaxed),
         t.seen = tally.seen + 1, t.errors = tally.errors
  PROVE  MInv'
<1>1. tally' = t /\ earned' = Bump(c, earned) /\ UNCHANGED labelVars
  BY DEF Done
<1>2. OfMachines' = OfMachines
  BY <1>1, FilesStay
<1>3. AgainstAdds /\ earned \in Nat
  BY DEF MInv
<1>4. /\ tally.exact \in Nat /\ tally.relaxed \in Nat /\ tally.errors \in Nat /\ tally.seen \in Nat
      /\ SumOf(tally.typeTotal) \in Nat /\ SumOf(tally.typeCorrect) \in Nat
  <2>1. tally \in Tallies
    BY <1>3 DEF AgainstAdds
  <2> QED
    BY <2>1, SumNat DEF Tallies
<1>5. AgainstAdds'
  <2>1. OfMachines => t.exact = earned'
    BY <1>1, <1>3 DEF Marked, AgainstAdds
  <2>2. t.exact <= t.relaxed
    BY <1>3, <1>4 DEF Marked, AgainstAdds, Bump
  <2>3. SumOf(t.typeTotal) + t.errors = t.seen
    BY <1>3, <1>4 DEF Marked, AgainstAdds
  <2>4. SumOf(t.typeCorrect) = t.relaxed
    BY <1>3 DEF Marked, AgainstAdds
  <2> QED
    BY <1>1, <1>2, <2>1, <2>2, <2>3, <2>4 DEF AgainstAdds
<1> QED
  BY <1>5, ItemDone

LEMMA Relaxes == \A a, b : TypesMatchRelaxed(a, b) \in BOOLEAN /\ (a = b => TypesMatchRelaxed(a, b))
BY DEF TypesMatchRelaxed

LEMMA AgainstMInv ==
  ASSUME MInv, AgainstNoise \/ AgainstFiltered
  PROVE  MInv'
<1> DEFINE label == Head(items)
<1>0. /\ tool = "against" /\ items # <<>> /\ tally \in Tallies
      /\ label \in LabelLines /\ (OfMachines => label.source # "human")
  <2>1. tool = "against" /\ items # <<>>
    BY DEF AgainstNoise, AgainstFiltered, AtItem
  <2> QED
    BY <2>1, AtHead DEF MInv, AgainstAdds
<1>1. CASE AgainstNoise
  <2> DEFINE agrees == IsNoise(label.raw)
  <2>1. Done(ScoreNoise(tally, agrees), agrees) /\ agrees \in BOOLEAN
    BY <1>1 DEF AgainstNoise, IsNoise
  <2> HIDE DEF agrees
  <2> DEFINE t == ScoreNoise(tally, agrees)
  <2>2. /\ t \in Tallies /\ Marked(t, tally, agrees, agrees)
        /\ t.seen = tally.seen + 1 /\ t.errors = tally.errors
    BY <1>0, <2>1, NoiseScored
  <2> HIDE DEF t
  <2>3. Done(t, agrees)
    BY <2>1 DEF t
  <2> QED
    BY <1>0, <2>1, <2>2, <2>3, AgainstDone
<1>2. CASE AgainstFiltered
  <2> DEFINE c == ExpectedType(label) = "none"
             exact == Nothing.type = SilverType(label)
             relaxed == TypesMatchRelaxed(Nothing.type, SilverType(label))
             t == ScoreAgainst(tally, label, Nothing)
  <2>1. Done(t, c)
    BY <1>2 DEF AgainstFiltered
  <2>2. Nothing.type = "none" /\ Nothing.keys \in KeySets
    BY DEF Nothing, KeySets
  <2>3. OfMachines => exact = c
    BY <1>0, <2>2, LineFields
  <2>4. c \in BOOLEAN /\ exact \in BOOLEAN /\ relaxed \in BOOLEAN /\ (exact => relaxed)
    BY Relaxes
  <2>5. t \in Tallies /\ Marked(t, tally, exact, relaxed)
        /\ t.seen = tally.seen + 1 /\ t.errors = tally.errors
    BY <1>0, <2>2, AnswerScored
  <2> HIDE DEF c, exact, relaxed, t
  <2> QED
    BY <1>0, <2>1, <2>3, <2>4, <2>5, AgainstDone
<1> QED
  BY <1>1, <1>2

LEMMA AnswerMInv ==
  ASSUME MInv, NEW e \in Extractions, Answer(e)
  PROVE  MInv'
<1> DEFINE label == Head(items)
           c == e.type = ExpectedType(label)
<1>0. /\ tool \in {"against", "recalibrate"} /\ items # <<>>
      /\ label \in LabelLines /\ (OfMachines => label.source # "human")
  <2>1. tool \in {"against", "recalibrate"} /\ items # <<>>
    BY DEF Answer, MInv
  <2> QED
    BY <2>1, AtHead
<1>1. CASE tool = "against"
  <2> DEFINE exact == e.type = SilverType(label)
             relaxed == TypesMatchRelaxed(e.type, SilverType(label))
             t == ScoreAgainst(tally, label, e)
  <2>1. Done(t, c) /\ tally \in Tallies
    BY <1>1 DEF Answer, MInv, AgainstAdds
  <2>2. e.keys \in KeySets
    BY DEF KeySets
  <2>3. OfMachines => exact = c
    BY <1>0, LineFields
  <2>4. c \in BOOLEAN /\ exact \in BOOLEAN /\ relaxed \in BOOLEAN /\ (exact => relaxed)
    BY Relaxes
  <2>5. t \in Tallies /\ Marked(t, tally, exact, relaxed)
        /\ t.seen = tally.seen + 1 /\ t.errors = tally.errors
    BY <1>0, <2>1, <2>2, AnswerScored
  <2> HIDE DEF c, exact, relaxed, t
  <2> QED
    BY <1>0, <1>1, <2>1, <2>3, <2>4, <2>5, AgainstDone
<1>2. CASE tool # "against"
  <2> DEFINE t == [tally EXCEPT !.pairs = @ + 1, !.correct = Bump(c, @)]
  <2>1. tool = "recalibrate" /\ Done(t, c) /\ c \in BOOLEAN
    BY <1>0, <1>2 DEF Answer
  <2>2. tally \in PairTallies /\ tally.correct = earned
    BY <2>1 DEF MInv
  <2> HIDE DEF c
  <2>3. t \in PairTallies /\ t.correct = Bump(c, earned)
    <3>1. /\ tally.correct \in Nat /\ tally.pairs \in Nat /\ tally.errors \in Nat
          /\ tally = [correct |-> tally.correct, pairs |-> tally.pairs, errors |-> tally.errors]
      BY <2>2 DEF PairTallies
    <3>2. Bump(c, tally.correct) \in Nat
      BY <3>1, BumpNat
    <3>3. t.correct = Bump(c, tally.correct) /\ t.pairs = tally.pairs + 1 /\ t.errors = tally.errors
          /\ DOMAIN t = {"correct", "pairs", "errors"} /\ t = [x \in DOMAIN t |-> t[x]]
      BY <2>2 DEF PairTallies
    <3> HIDE DEF t
    <3>4. t = [correct |-> t.correct, pairs |-> t.pairs, errors |-> t.errors]
      BY <3>3
    <3> QED
      BY <2>2, <3>1, <3>2, <3>3, <3>4 DEF PairTallies
  <2>4. tally' = t /\ earned' = Bump(c, earned)
    BY <2>1 DEF Done
  <2>5. tally' \in PairTallies /\ tally'.correct = earned'
    BY <2>3, <2>4
  <2> HIDE DEF t
  <2> QED
    BY <1>0, <2>1, <2>5, ItemDone
<1> QED
  BY <1>1, <1>2

LEMMA GiveUpMInv ==
  ASSUME MInv, asking # "next", GiveUpItem
  PROVE  MInv'
<1>0. tool \in {"against", "recalibrate"} /\ items # <<>>
  BY DEF MInv
<1>1. CASE tool = "against"
  <2> DEFINE t == [tally EXCEPT !.seen = @ + 1, !.errors = @ + 1]
  <2>1. Done(t, FALSE) /\ AgainstAdds /\ earned \in Nat
    BY <1>1 DEF GiveUpItem, MInv
  <2>2. tally' = t /\ earned' = earned /\ UNCHANGED labelVars
    BY <2>1 DEF Done, Bump
  <2>3. OfMachines' = OfMachines
    BY <2>2, FilesStay
  <2>4. /\ t \in Tallies /\ t.seen = tally.seen + 1 /\ t.errors = tally.errors + 1
        /\ t.exact = tally.exact /\ t.relaxed = tally.relaxed
        /\ t.typeTotal = tally.typeTotal /\ t.typeCorrect = tally.typeCorrect
    <3>1. tally \in Tallies
      BY <2>1 DEF AgainstAdds
    <3>2. tally.seen \in Nat /\ tally.errors \in Nat
      BY <3>1 DEF Tallies
    <3>3. t \in Tallies
      <4>1. t = [tally EXCEPT !.seen = tally.seen + 1, !.errors = tally.errors + 1]
        BY <3>1 DEF Tallies
      <4>2. tally.seen + 1 \in Nat /\ tally.errors + 1 \in Nat
        BY <3>2
      <4> DEFINE a == tally.seen + 1
                 b == tally.errors + 1
      <4> HIDE DEF t, a, b
      <4>3. t = [tally EXCEPT !.seen = a, !.errors = b]
        BY <4>1 DEF a, b
      <4>4. a \in Nat /\ b \in Nat
        BY <4>2 DEF a, b
      <4> QED
        BY <3>1, <4>3, <4>4 DEF Tallies
    <3>4. /\ t.seen = tally.seen + 1 /\ t.errors = tally.errors + 1
          /\ t.exact = tally.exact /\ t.relaxed = tally.relaxed
          /\ t.typeTotal = tally.typeTotal /\ t.typeCorrect = tally.typeCorrect
      BY <3>1 DEF Tallies
    <3> QED
      BY <3>3, <3>4
  <2>5. SumOf(tally.typeTotal) \in Nat /\ tally.errors \in Nat /\ tally.seen \in Nat
    BY <2>1, SumNat DEF AgainstAdds, Tallies
  <2> HIDE DEF t
  <2>6. SumOf(t.typeTotal) + t.errors = t.seen
    BY <2>1, <2>4, <2>5 DEF AgainstAdds
  <2>7. AgainstAdds'
    BY <2>1, <2>2, <2>3, <2>4, <2>6 DEF AgainstAdds
  <2> QED
    BY <1>0, <1>1, <2>1, <2>7, ItemDone
<1>2. CASE tool # "against"
  <2> DEFINE t == [tally EXCEPT !.errors = @ + 1]
  <2>1. tool = "recalibrate" /\ Done(t, FALSE)
    BY <1>0, <1>2 DEF GiveUpItem
  <2>2. tally \in PairTallies /\ tally.correct = earned
    BY <2>1 DEF MInv
  <2>3. t \in PairTallies /\ t.correct = earned
    BY <2>2 DEF PairTallies
  <2>4. tally' = t /\ earned' = earned
    BY <2>1 DEF Done, Bump
  <2>5. tally' \in PairTallies /\ tally'.correct = earned'
    BY <2>3, <2>4
  <2> HIDE DEF t
  <2> QED
    BY <1>0, <2>1, <2>5, ItemDone
<1> QED
  BY <1>1, <1>2

Verdicts == {"TP", "FP", "FN", "TN", "ERROR"}

\* What one message adds to the metrics.
Adds(t, m, v, a, b, c) ==
  /\ t \in Metrics
  /\ t.TP = Bump(v = "TP", m.TP) /\ t.FP = Bump(v = "FP", m.FP) /\ t.FN = Bump(v = "FN", m.FN)
  /\ t.TN = Bump(v = "TN", m.TN) /\ t.ERROR = Bump(v = "ERROR", m.ERROR)
  /\ t.total = m.total + 1
  /\ t.matched = m.matched + a /\ t.expected = m.expected + b /\ t.extracted = m.extracted + c

LEMMA ModelScored ==
  ASSUME NEW m \in Metrics, NEW v \in Verdicts, NEW a \in Nat, NEW b \in Nat, NEW c \in Nat
  PROVE  Adds([m EXCEPT ![v] = @ + 1, !.total = @ + 1, !.matched = @ + a, !.expected = @ + b,
                        !.extracted = @ + c], m, v, a, b, c)
<1>1. /\ m.total \in Nat /\ m.TP \in Nat /\ m.FP \in Nat /\ m.FN \in Nat /\ m.TN \in Nat
      /\ m.ERROR \in Nat /\ m.matched \in Nat /\ m.expected \in Nat /\ m.extracted \in Nat
  BY DEF Metrics
<1> DEFINE t == [m EXCEPT ![v] = @ + 1, !.total = @ + 1, !.matched = @ + a, !.expected = @ + b,
                          !.extracted = @ + c]
<1>3. /\ t.TP = Bump(v = "TP", m.TP) /\ t.FP = Bump(v = "FP", m.FP)
      /\ t.FN = Bump(v = "FN", m.FN) /\ t.TN = Bump(v = "TN", m.TN)
      /\ t.ERROR = Bump(v = "ERROR", m.ERROR)
  BY DEF Verdicts, Metrics, Bump
<1>4. t.total = m.total + 1 /\ t.matched = m.matched + a
  BY DEF Verdicts, Metrics
<1>5. t.expected = m.expected + b /\ t.extracted = m.extracted + c
  BY DEF Verdicts, Metrics
<1>6. t = [total |-> t.total, TP |-> t.TP, FP |-> t.FP, FN |-> t.FN, TN |-> t.TN, ERROR |-> t.ERROR,
           matched |-> t.matched, expected |-> t.expected, extracted |-> t.extracted]
  <2>1. /\ DOMAIN t = {"total", "TP", "FP", "FN", "TN", "ERROR", "matched", "expected", "extracted"}
        /\ t = [x \in DOMAIN t |-> t[x]]
    BY DEF Metrics
  <2> HIDE DEF t
  <2> QED
    BY <2>1
<1> HIDE DEF t
<1>7. /\ t.total \in Nat /\ t.TP \in Nat /\ t.FP \in Nat /\ t.FN \in Nat /\ t.TN \in Nat
      /\ t.ERROR \in Nat /\ t.matched \in Nat /\ t.expected \in Nat /\ t.extracted \in Nat
  BY <1>1, <1>3, <1>4, <1>5 DEF Bump
<1>8. t \in Metrics
  BY <1>6, <1>7 DEF Metrics
<1> QED
  BY <1>3, <1>4, <1>5, <1>8 DEF Adds, t

LEMMA Shared ==
  ASSUME NEW A, NEW B, IsFiniteSet(A), IsFiniteSet(B)
  PROVE  /\ Cardinality(A \intersect B) \in Nat /\ Cardinality(A) \in Nat /\ Cardinality(B) \in Nat
         /\ Cardinality(A \intersect B) <= Cardinality(A)
         /\ Cardinality(A \intersect B) <= Cardinality(B)
<1>1. A \intersect B \subseteq A /\ A \intersect B \subseteq B
  OBVIOUS
<1> QED
  BY <1>1, Fewer, FS_CardinalityType

(* The verdict on what an agent returned; the expected answer is never a wrong one. *)
LEMMA Judged ==
  ASSUME NEW truth \in Extractions \union {NoTruth}, NEW got \in AgentReturns
  PROVE  LET right == IF truth = NoTruth THEN got = Filtered ELSE got = Update(truth)
         IN  /\ Score(truth, got) \in Verdicts
             /\ right => Score(truth, got) \in {"TP", "TN"} /\ GotKeys(got) = truth.keys
             /\ IsFiniteSet(truth.keys) /\ IsFiniteSet(GotKeys(got))
<1>1. \A e : Update(e).method = "llm" /\ Update(e).type = e.type /\ Update(e).keys = e.keys
  BY DEF Update
<1>2. Filtered.method = "none" /\ Failed.method = "error"
  BY DEF Filtered, Failed
<1>3. \A e : Update(e) # Filtered /\ Update(e) # Failed
  BY <1>1, <1>2
<1>4. Filtered # Failed
  BY <1>2
<1>5. Score(truth, got) \in Verdicts
  <2>1. CASE got = Filtered
    BY <1>4, <2>1 DEF Score, Verdicts
  <2>2. CASE got = Failed
    BY <1>4, <2>2 DEF Score, Verdicts
  <2>3. CASE got # Filtered /\ got # Failed
    BY <2>3 DEF Score, Verdicts
  <2> QED
    BY <2>1, <2>2, <2>3
<1>6. NoTruth.keys = {} /\ IsFiniteSet({})
  BY FS_EmptySet DEF NoTruth
<1>7. IsFiniteSet(truth.keys)
  BY <1>6, JobAssumption
<1>8. IsFiniteSet(GotKeys(got))
  <2>1. CASE got \in {Filtered, Failed}
    BY <1>6, <2>1 DEF GotKeys
  <2>2. CASE got \notin {Filtered, Failed}
    <3>1. PICK e \in Extractions : got = Update(e)
      BY <2>2 DEF AgentReturns
    <3>2. GotKeys(got) = e.keys
      BY <1>1, <2>2, <3>1 DEF GotKeys
    <3> QED
      BY <3>2, JobAssumption
  <2> QED
    BY <2>1, <2>2
<1>9. CASE truth = NoTruth /\ got = Filtered
  <2>1. Score(truth, got) = "TN"
    BY <1>4, <1>9 DEF Score
  <2>2. GotKeys(got) = truth.keys
    BY <1>6, <1>9 DEF GotKeys
  <2> QED
    BY <1>5, <1>7, <1>8, <2>1, <2>2
<1>10. CASE truth # NoTruth /\ got = Update(truth)
  <2>1. got # Filtered /\ got # Failed /\ got.type = truth.type /\ got.keys = truth.keys
    BY <1>1, <1>3, <1>10
  <2>2. Score(truth, got) = "TP"
    BY <1>10, <2>1, Relaxes DEF Score
  <2>3. GotKeys(got) = truth.keys
    BY <2>1 DEF GotKeys
  <2> QED
    BY <1>5, <1>7, <1>8, <2>2, <2>3
<1> QED
  BY <1>5, <1>7, <1>8, <1>9, <1>10

LEMMA ModelsMInv ==
  ASSUME MInv, NEW got \in AgentReturns, AgentAnswers(got)
  PROVE  MInv'
<1> DEFINE truth == Truth[Head(items)]
           v == Score(truth, got)
           c == IF truth = NoTruth THEN got = Filtered ELSE got = Update(truth)
           n == EntityScore(truth, got)
           t == ScoreModel(tally, truth, got)
<1>1. tool = "models" /\ items # <<>> /\ Done(t, c) /\ ModelsAdd /\ earned \in Nat
  BY DEF AgentAnswers, AtItem, MInv
<1>2. truth \in Extractions \union {NoTruth}
  <2>1. items \in Seq(DOMAIN Messages)
    BY <1>1 DEF MInv
  <2>2. Head(items) \in DOMAIN Messages
    BY <1>1, <2>1
  <2> QED
    BY <2>2, TruthAssumption
<1>3. c \in BOOLEAN
  OBVIOUS
<1> HIDE DEF truth
<1>4. /\ v \in Verdicts /\ (c => v \in {"TP", "TN"} /\ GotKeys(got) = truth.keys)
      /\ IsFiniteSet(truth.keys) /\ IsFiniteSet(GotKeys(got))
  BY <1>2, Judged
<1>5. /\ n.matched = Cardinality(truth.keys \intersect GotKeys(got))
      /\ n.expected = Cardinality(truth.keys) /\ n.extracted = Cardinality(GotKeys(got))
  BY DEF EntityScore
<1>6. /\ n.matched \in Nat /\ n.expected \in Nat /\ n.extracted \in Nat
      /\ n.matched <= n.expected /\ n.matched <= n.extracted
  <2> HIDE DEF n
  <2> QED
    BY <1>4, <1>5, Shared
<1>7. c => n.matched = n.expected /\ n.matched = n.extracted
  <2> HIDE DEF n, c
  <2>1. c => truth.keys \intersect GotKeys(got) = truth.keys
    BY <1>4
  <2> QED
    BY <1>4, <1>5, <2>1
<1>8. t = [tally EXCEPT ![v] = @ + 1, !.total = @ + 1, !.matched = @ + n.matched,
                        !.expected = @ + n.expected, !.extracted = @ + n.extracted]
  BY DEF ScoreModel
<1> HIDE DEF v, c, n, t
<1>9. Adds(t, tally, v, n.matched, n.expected, n.extracted)
  BY <1>1, <1>4, <1>6, <1>8, ModelScored DEF ModelsAdd
<1>10. tally' = t /\ earned' = Bump(c, earned)
  BY <1>1 DEF Done
<1>11. /\ tally.total \in Nat /\ tally.TP \in Nat /\ tally.FP \in Nat /\ tally.FN \in Nat
       /\ tally.TN \in Nat /\ tally.ERROR \in Nat /\ tally.matched \in Nat
       /\ tally.expected \in Nat /\ tally.extracted \in Nat
  BY <1>1 DEF ModelsAdd, Metrics
<1>12. t.TP + t.FP + t.FN + t.TN + t.ERROR = t.total
  <2>1. tally.TP + tally.FP + tally.FN + tally.TN + tally.ERROR = tally.total
    BY <1>1 DEF ModelsAdd
  <2> QED
    BY <1>4, <1>9, <1>11, <2>1 DEF Adds, Bump, Verdicts
<1>13. t.matched <= t.expected /\ t.matched <= t.extracted
  <2>1. tally.matched <= tally.expected /\ tally.matched <= tally.extracted
    BY <1>1 DEF ModelsAdd
  <2>2. /\ t.matched = tally.matched + n.matched /\ t.expected = tally.expected + n.expected
        /\ t.extracted = tally.extracted + n.extracted
    BY <1>9 DEF Adds
  <2> QED
    BY <1>6, <1>11, <2>1, <2>2
<1>14. earned' <= t.total
  <2>1. earned <= tally.total
    BY <1>1 DEF ModelsAdd
  <2>2. t.total = tally.total + 1
    BY <1>9 DEF Adds
  <2> QED
    BY <1>1, <1>10, <1>11, <2>1, <2>2 DEF Bump
<1>15. ASSUME earned' = t.total
       PROVE  /\ t.FP + t.FN + t.ERROR = 0
              /\ t.matched = t.expected /\ t.matched = t.extracted
  <2>1. c /\ earned = tally.total
    BY <1>1, <1>9, <1>10, <1>11, <1>15 DEF Adds, ModelsAdd, Bump
  <2>2. /\ tally.FP + tally.FN + tally.ERROR = 0
        /\ tally.matched = tally.expected /\ tally.matched = tally.extracted
    BY <1>1, <2>1 DEF ModelsAdd
  <2>3. t.FP = tally.FP /\ t.FN = tally.FN /\ t.ERROR = tally.ERROR
    BY <1>4, <1>9, <2>1 DEF Adds, Bump
  <2> QED
    BY <1>6, <1>7, <1>9, <1>11, <2>1, <2>2, <2>3 DEF Adds
<1>16. ModelsAdd'
  <2>1. t \in Metrics
    BY <1>9 DEF Adds
  <2> QED
    BY <1>10, <1>12, <1>13, <1>14, <1>15, <2>1 DEF ModelsAdd
<1> QED
  BY <1>1, <1>3, <1>16, ItemDone

LEMMA NextMInv == LInv /\ HInv /\ MInv /\ [Next]_vars => MInv'
<1> SUFFICES ASSUME LInv, HInv, MInv, [Next]_vars PROVE MInv'
  OBVIOUS
<1>1. CASE LabelNext /\ tool = "off" /\ UNCHANGED evalVars
  BY <1>1 DEF evalVars, MInv
<1>2. CASE EvalNext /\ Ready
  BY <1>2, BeginMInv
<1>3. CASE EvalNext /\ ~Ready
  <2>1. EvalStep
    BY <1>3 DEF EvalNext, BeginAgainst, BeginRecalibrate, BeginModels, Begin
  <2>2. CASE AgainstNoise \/ AgainstFiltered
    BY <2>2, AgainstMInv
  <2>3. CASE AskAbout \/ AskAgain
    <3>1. /\ asking' = "calling" /\ UNCHANGED <<tool, items, tally, earned, labelVars>>
          /\ tool \in {"against", "recalibrate"} /\ items # <<>>
      BY <2>3 DEF AskAbout, AskAgain, AtItem, MInv
    <3>2. InFiles' = InFiles /\ OfMachines' = OfMachines
      BY <3>1, FilesStay
    <3> QED
      BY <3>1, <3>2 DEF MInv, AgainstAdds
  <2>4. CASE \E e \in Extractions : Answer(e)
    BY <2>4, AnswerMInv
  <2>5. CASE ModelBusy /\ tries < MaxRetries
    <3>1. /\ asking' = "backoff" /\ UNCHANGED <<tool, items, tally, earned, labelVars>>
          /\ tool \in {"against", "recalibrate"} /\ items # <<>>
      BY <2>5 DEF ModelBusy, MInv
    <3>2. InFiles' = InFiles /\ OfMachines' = OfMachines
      BY <3>1, FilesStay
    <3> QED
      BY <3>1, <3>2 DEF MInv, AgainstAdds
  <2>6. CASE (ModelBusy /\ ~(tries < MaxRetries)) \/ ModelRefuses
    <3>1. asking # "next" /\ GiveUpItem
      BY <2>6 DEF ModelBusy, ModelRefuses
    <3> QED
      BY <3>1, GiveUpMInv
  <2>7. CASE \E got \in AgentReturns : AgentAnswers(got)
    BY <2>7, ModelsMInv
  <2>8. CASE Report
    <3>1. tool' = "off" /\ earned' = 0 /\ asking' = asking /\ items = <<>>
      BY <2>8 DEF Report
    <3> QED
      BY <3>1 DEF MInv
  <2> QED
    BY <2>1, <2>2, <2>3, <2>4, <2>5, <2>6, <2>7, <2>8 DEF EvalStep
<1>4. CASE UNCHANGED vars
  <2>1. UNCHANGED labelVars /\ UNCHANGED evalVars
    BY <1>4 DEF vars
  <2>2. InFiles' = InFiles /\ OfMachines' = OfMachines
    BY <2>1, FilesStay
  <2> QED
    BY <2>1, <2>2 DEF MInv, AgainstAdds, ModelsAdd, evalVars
<1> QED
  BY <1>1, <1>2, <1>3, <1>4 DEF Next

-----------------------------------------------------------------------------
(* THE SCORES OF A REPLAY *)

(* Of a raw line the chosen elements have the last one that s has. *)
LEMMA LastChosen ==
  ASSUME NEW Es, NEW s \in Seq(Es), NEW P, P \subseteq DOMAIN s, NEW raw,
         \E i \in P : s[i].raw = raw
  PROVE  \E m \in P : /\ s[m].raw = raw /\ (\A i \in P : s[i].raw = raw => i <= m)
                      /\ LastOf(Chosen(s, P), raw) = s[m]
<1> DEFINE N == Len(s)
<1>1. N \in Nat /\ P \subseteq 1 .. N /\ \A i \in 1 .. N : s[i] \in Es
  OBVIOUS
<1>2. PICK g : /\ Chosen(s, P) = g[N] /\ g[0] = <<>>
               /\ \A n \in 1 .. N : g[n] = ChosenStep(g, s, P, n)
  BY ChosenSteps
<1> HIDE DEF N
<1> DEFINE Mine(k) == {i \in P : i <= k /\ s[i].raw = raw}
           None(k) == Mine(k) = {} /\ \A p \in DOMAIN g[k] : g[k][p].raw # raw
           Some(k) == \E m \in Mine(k), p \in DOMAIN g[k] :
                        /\ \A i \in Mine(k) : i <= m
                        /\ g[k][p] = s[m]
                        /\ \A q \in DOMAIN g[k] : g[k][q].raw = raw => q <= p
           T == {k \in Nat : k <= N => g[k] \in Seq(Es) /\ (None(k) \/ Some(k))}
<1>3. 0 \in T
  <2>1. Mine(0) = {} /\ DOMAIN g[0] = {} /\ g[0] \in Seq(Es)
    BY <1>1, <1>2
  <2> QED
    BY <2>1
<1>4. ASSUME NEW k \in Nat, k \in T PROVE k + 1 \in T
  <2> SUFFICES ASSUME k + 1 <= N PROVE g[k + 1] \in Seq(Es) /\ (None(k + 1) \/ Some(k + 1))
    OBVIOUS
  <2> DEFINE t == g[k]
             u == g[k + 1]
             e == s[k + 1]
  <2>1. t \in Seq(Es) /\ (None(k) \/ Some(k))
    BY <1>1, <1>4
  <2>2. k + 1 \in 1 .. N /\ (k + 1) - 1 = k /\ e \in Es
    BY <1>1
  <2>3. u = IF k + 1 \in P THEN Append(t, e) ELSE t
    BY <1>2, <2>2 DEF ChosenStep
  <2>4. Mine(k + 1) = Mine(k) \union {i \in P : i = k + 1 /\ s[i].raw = raw}
    <3>1. \A i \in P : i <= k + 1 <=> i <= k \/ i = k + 1
      BY <1>1
    <3> QED
      BY <3>1
  <2> HIDE DEF T
  <2>5. CASE k + 1 \notin P
    <3>1. u = t /\ Mine(k + 1) = Mine(k)
      BY <2>3, <2>4, <2>5
    <3> HIDE DEF Mine
    <3> QED
      BY <2>1, <3>1
  <2>6. CASE k + 1 \in P
    <3> DEFINE l == Len(t) + 1
    <3>1. u = Append(t, e)
      BY <2>3, <2>6
    <3> HIDE DEF t, u, e
    <3>2. /\ u \in Seq(Es) /\ u[l] = e /\ Len(t) \in Nat
          /\ DOMAIN u = DOMAIN t \union {l} /\ \A i \in DOMAIN t : u[i] = t[i] /\ i <= l
      <4>1. /\ Append(t, e) \in Seq(Es) /\ Append(t, e)[Len(t) + 1] = e
            /\ Len(t) \in Nat /\ DOMAIN Append(t, e) = DOMAIN t \union {Len(t) + 1}
            /\ \A i \in DOMAIN t : Append(t, e)[i] = t[i]
        BY <2>1, <2>2, AppendedRange
      <4>2. \A i \in DOMAIN t : i <= Len(t) + 1
        BY <2>1
      <4> QED
        BY <3>1, <4>1, <4>2
    <3>3. l \in Nat /\ l \notin DOMAIN t /\ l \in DOMAIN u
      BY <2>1, <3>2
    <3> HIDE DEF l
    <3>4. CASE e.raw = raw
      <4>1. Mine(k + 1) = Mine(k) \union {k + 1}
        BY <2>4, <2>6, <3>4 DEF e
      <4>2. \A i \in Mine(k + 1) : i <= k + 1
        BY <1>1
      <4>3. k + 1 \in Mine(k + 1) /\ u[l] = s[k + 1]
        BY <3>2, <4>1 DEF e
      <4>4. \A q \in DOMAIN u : q <= l
        BY <3>2, <3>3
      <4> HIDE DEF Mine
      <4>5. Some(k + 1)
        BY <3>3, <4>2, <4>3, <4>4 DEF u
      <4> HIDE DEF Some, None
      <4> QED
        BY <3>2, <4>5 DEF u
    <3>5. CASE e.raw # raw
      <4>1. Mine(k + 1) = Mine(k)
        BY <2>4, <3>5 DEF e
      <4> HIDE DEF Mine
      <4>2. CASE None(k)
        <5>1. \A p \in DOMAIN u : u[p].raw # raw
          BY <3>2, <3>5, <4>2 DEF t
        <5>2. None(k + 1)
          BY <4>1, <4>2, <5>1 DEF u
        <5> HIDE DEF None, Some
        <5> QED
          BY <3>2, <5>2 DEF u
      <4>3. CASE Some(k)
        <5>1. PICK m \in Mine(k), p \in DOMAIN t :
                /\ \A i \in Mine(k) : i <= m
                /\ t[p] = s[m]
                /\ \A q \in DOMAIN t : t[q].raw = raw => q <= p
          BY <4>3 DEF t
        <5>2. u[p] = s[m] /\ p \in DOMAIN u /\ \A q \in DOMAIN u : u[q].raw = raw => q <= p
          BY <3>2, <3>5, <5>1
        <5>3. Some(k + 1)
          BY <4>1, <5>1, <5>2 DEF u
        <5> HIDE DEF None, Some
        <5> QED
          BY <3>2, <5>3 DEF u
      <4> QED
        BY <2>1, <4>2, <4>3
    <3> QED
      BY <3>4, <3>5
  <2> QED
    BY <2>5, <2>6
<1> HIDE DEF T
<1>5. N \in T
  BY <1>1, <1>3, <1>4, Induction
<1>6. g[N] \in Seq(Es) /\ (None(N) \/ Some(N))
  <2> HIDE DEF None, Some
  <2> QED
    BY <1>1, <1>5 DEF T
<1>7. Mine(N) # {} /\ \A i \in P : s[i].raw = raw => i \in Mine(N)
  BY <1>1
<1> DEFINE c == g[N]
<1>8. PICK m \in Mine(N), p \in DOMAIN c :
        /\ \A i \in Mine(N) : i <= m
        /\ c[p] = s[m]
        /\ \A q \in DOMAIN c : c[q].raw = raw => q <= p
  BY <1>6, <1>7
<1>9. m \in P /\ s[m].raw = raw
  OBVIOUS
<1> HIDE DEF Mine, c
<1>10. LastOf(c, raw) = s[m]
  <2> DEFINE places == {q \in DOMAIN c : c[q].raw = raw}
  <2>1. p \in places /\ \A q \in places : q <= p
    BY <1>8, <1>9
  <2>2. places \subseteq Nat
    BY <1>6 DEF c
  <2>3. LastOf(c, raw) = c[CHOOSE q \in places : \A j \in places : j <= q]
    BY DEF LastOf
  <2> HIDE DEF places
  <2>4. \A q \in places : (\A j \in places : j <= q) => q = p
    BY <2>1, <2>2
  <2>5. (CHOOSE q \in places : \A j \in places : j <= q) = p
    BY <2>1, <2>4
  <2> QED
    BY <1>8, <2>3, <2>5
<1> QED
  BY <1>2, <1>7, <1>8, <1>9, <1>10 DEF c

IsReplay(replay) == replay \in [DOMAIN Messages -> Extractions \union {Nothing}]

(* What the index has of a raw line: the last answer that was stored. *)
LEMMA Indexed ==
  ASSUME NEW replay, IsReplay(replay)
  PROVE  LET index == IndexUpdatesByMessage(StoredUpdates(replay))
         IN  \A raw :
               /\ raw \in DOMAIN index <=> Answers(replay, raw) # {}
               /\ raw \in DOMAIN index =>
                    /\ index[raw].type = Said(replay, raw).type
                    /\ index[raw].type \in UpdateTypes /\ index[raw].keys \in KeySets
<1> DEFINE Es == {[raw |-> r, type |-> y, keys |-> z] : r \in RawLines, y \in UpdateTypes, z \in KeySets}
           s == [i \in DOMAIN Messages |->
                   [raw |-> Messages[i].raw, type |-> replay[i].type, keys |-> replay[i].keys]]
           P == {i \in DOMAIN Messages : ~Messages[i].noise /\ replay[i].type # "none"}
           stored == StoredUpdates(replay)
           index == IndexUpdatesByMessage(stored)
<1>1. \A i \in DOMAIN Messages :
        replay[i].type \in UpdateTypes /\ replay[i].keys \in KeySets /\ Messages[i].raw \in RawLines
  <2>1. \A e \in Extractions \union {Nothing} : e.type \in UpdateTypes /\ e.keys \in KeySets
    BY JobAssumption, TypeAssumption DEF Nothing, KeySets
  <2> QED
    BY <2>1 DEF IsReplay, RawLines
<1>2. /\ DOMAIN s = DOMAIN Messages
      /\ \A i \in DOMAIN Messages : /\ s[i].raw = Messages[i].raw /\ s[i].type = replay[i].type
                                    /\ s[i].keys = replay[i].keys
  OBVIOUS
<1>3. s \in Seq(Es)
  <2>1. \A i \in DOMAIN Messages : s[i] \in Es
    BY <1>1
  <2>2. Len(Messages) \in Nat /\ DOMAIN Messages = 1 .. Len(Messages)
    BY JobAssumption
  <2> HIDE DEF Es
  <2>3. s \in [1 .. Len(Messages) -> Es]
    BY <2>1, <2>2
  <2> HIDE DEF s
  <2> QED
    BY <2>2, <2>3
<1>4. stored = Chosen(s, P)
  BY DEF StoredUpdates
<1>5. P \subseteq DOMAIN s
  BY <1>2
<1>6. \A raw : \A i \in DOMAIN Messages : i \in Answers(replay, raw) <=> i \in P /\ s[i].raw = raw
  BY <1>2 DEF Answers
<1>7. index = [raw \in {u.raw : u \in Range(stored)} |-> LastOf(stored, raw)]
  BY DEF IndexUpdatesByMessage
<1> HIDE DEF Es, s, P, stored, index
<1>8. Range(stored) = {s[i] : i \in P}
  BY <1>3, <1>4, <1>5, ChosenRange
<1>9. DOMAIN index = {s[i].raw : i \in P}
  BY <1>7, <1>8
<1>10. \A raw : raw \in DOMAIN index <=> Answers(replay, raw) # {}
  <2> SUFFICES ASSUME NEW raw
               PROVE  (\E i \in P : s[i].raw = raw) <=> (\E i \in Answers(replay, raw) : TRUE)
    BY <1>9
  <2>1. Answers(replay, raw) \subseteq DOMAIN Messages /\ P \subseteq DOMAIN Messages
    BY <1>2, <1>5 DEF Answers
  <2>2. \A i \in DOMAIN Messages : i \in Answers(replay, raw) <=> i \in P /\ s[i].raw = raw
    BY <1>6
  <2> QED
    BY <2>1, <2>2
<1>11. ASSUME NEW raw \in DOMAIN index
       PROVE  /\ index[raw].type = Said(replay, raw).type
              /\ index[raw].type \in UpdateTypes /\ index[raw].keys \in KeySets
  <2>1. \E i \in P : s[i].raw = raw
    BY <1>9, <1>11
  <2>2. PICK m \in P : /\ s[m].raw = raw /\ (\A i \in P : s[i].raw = raw => i <= m)
                       /\ LastOf(stored, raw) = s[m]
    BY <1>3, <1>4, <1>5, <2>1, LastChosen
  <2>3. index[raw] = s[m] /\ m \in DOMAIN Messages
    BY <1>2, <1>5, <1>7, <1>11, <2>2
  <2>4. index[raw].type = replay[m].type /\ index[raw].keys = replay[m].keys
    BY <1>2, <2>3
  <2> DEFINE S == Answers(replay, raw)
  <2>5. m \in S /\ (\A i \in S : i <= m) /\ S \subseteq Nat
    <3>1. S \subseteq DOMAIN Messages
      BY DEF Answers
    <3>2. DOMAIN Messages \subseteq Nat
      BY JobAssumption
    <3> HIDE DEF S
    <3>3. \A i \in S : i \in P /\ s[i].raw = raw
      BY <1>6, <3>1 DEF S
    <3>4. m \in S
      BY <1>6, <2>2, <2>3 DEF S
    <3> QED
      BY <2>2, <3>1, <3>2, <3>3, <3>4
  <2>6. Said(replay, raw) = replay[Max(S)]
    BY <2>5 DEF Said
  <2> HIDE DEF S
  <2>7. Max(S) = m
    <3>1. \A x \in S : (\A y \in S : x >= y) => x = m
      BY <2>5
    <3>2. \A y \in S : m >= y
      BY <2>5
    <3> QED
      BY <2>5, <3>1, <3>2 DEF Max
  <2> QED
    BY <1>1, <2>3, <2>4, <2>6, <2>7
<1> QED
  BY <1>10, <1>11 DEF index, stored

IsIndex(index) ==
  \A raw \in DOMAIN index : index[raw].type \in UpdateTypes /\ index[raw].keys \in KeySets

RunAdds(m) ==
  /\ m \in RunTallies
  /\ SumOf(m.typeTotal) = m.seen /\ SumOf(m.typeCorrect) = m.relaxed
  /\ m.exact <= m.relaxed /\ Len(m.overlaps) <= m.matched

\* What score_run counts as exact.
ReplayRight(line, index) ==
  IF line.method = "noise_filter" THEN line.raw \notin DOMAIN index
  ELSE line.raw \in DOMAIN index /\ index[line.raw].type = SilverType(line)

LEMMA RunNats ==
  ASSUME NEW m \in RunTallies
  PROVE  /\ m.seen \in Nat /\ m.matched \in Nat /\ m.exact \in Nat /\ m.relaxed \in Nat
         /\ SumOf(m.typeTotal) \in Nat /\ SumOf(m.typeCorrect) \in Nat
         /\ m.typeTotal \in Sums /\ m.typeCorrect \in Sums
         /\ m.overlaps \in Seq(Overlaps) /\ Len(m.overlaps) \in Nat
<1>1. /\ m.seen \in Nat /\ m.matched \in Nat /\ m.exact \in Nat /\ m.relaxed \in Nat
      /\ m.typeTotal \in Sums /\ m.typeCorrect \in Sums /\ m.overlaps \in Seq(Overlaps)
  BY DEF RunTallies
<1>2. Len(m.overlaps) \in Nat
  BY <1>1
<1> QED
  BY <1>1, <1>2, SumNat

LEMMA ReplayedStep ==
  ASSUME NEW m \in RunTallies, NEW line \in LabelLines, NEW index, IsIndex(index)
  PROVE  LET s == ScoreReplayed(m, line, index)
         IN  /\ s \in RunTallies /\ s.seen = m.seen + 1
             /\ s.exact = Bump(ReplayRight(line, index), m.exact)
             /\ RunAdds(m) => RunAdds(s)
<1> DEFINE l == SilverType(line)
           found == line.raw \in DOMAIN index
           right == ReplayRight(line, index)
           s == ScoreReplayed(m, line, index)
<1>1. l \in UpdateTypes /\ line.keys \in KeySets /\ FilterIsRight(line)
  BY LineFields
<1>2. line.method = "noise_filter" => l = "none"
  BY <1>1, TypeAssumption DEF FilterIsRight, SilverType
<1>3. RunAdds(m) => m.exact <= m.relaxed /\ Len(m.overlaps) <= m.matched
  BY DEF RunAdds
<1>4. CASE line.method = "noise_filter"
  <2> DEFINE c == ~found
  <2>1. s = ScoreNoise(m, c) /\ right = c /\ c \in BOOLEAN
    BY <1>2, <1>4 DEF ScoreReplayed, ReplayRight
  <2> HIDE DEF c, s, right, l, found
  <2>2. /\ s \in RunTallies /\ Marked(s, m, c, c)
        /\ s.seen = m.seen + 1 /\ s.matched = m.matched /\ s.overlaps = m.overlaps
    BY <2>1, NoiseScoredRun
  <2>3. RunAdds(m) => RunAdds(s)
    <3>1. RunAdds(m) => SumOf(s.typeTotal) = s.seen /\ SumOf(s.typeCorrect) = s.relaxed
      BY <2>2 DEF Marked, RunAdds
    <3>2. RunAdds(m) => s.exact <= s.relaxed
      BY <1>3, <2>1, <2>2, RunNats DEF Marked, Bump
    <3>3. RunAdds(m) => Len(s.overlaps) <= s.matched
      BY <1>3, <2>2
    <3> QED
      BY <2>2, <3>1, <3>2, <3>3 DEF RunAdds
  <2> QED
    BY <2>1, <2>2, <2>3 DEF s, right, Marked
<1>5. CASE line.method # "noise_filter" /\ found
  <2> DEFINE t0 == [m EXCEPT !.seen = @ + 1]
             t1 == [t0 EXCEPT !.matched = @ + 1]
             y  == index[line.raw].type
             k  == index[line.raw].keys
             t2 == ScoreType(t1, l, y)
             r  == TypesMatchRelaxed(y, l)
  <2>1. s = ScoreEntities(t2, line.keys, k)
    BY <1>5 DEF ScoreReplayed
  <2>2. y \in UpdateTypes /\ k \in KeySets /\ (right <=> y = l)
    BY <1>5 DEF IsIndex, ReplayRight
  <2>3. /\ t1 \in RunTallies /\ t1.seen = m.seen + 1 /\ t1.matched = m.matched + 1
        /\ t1.exact = m.exact /\ t1.relaxed = m.relaxed /\ t1.overlaps = m.overlaps
        /\ t1.typeTotal = m.typeTotal /\ t1.typeCorrect = m.typeCorrect
    <3>1. /\ t0 \in RunTallies /\ t0.seen = m.seen + 1 /\ t0.matched = m.matched
          /\ t0.exact = m.exact /\ t0.relaxed = m.relaxed /\ t0.overlaps = m.overlaps
          /\ t0.typeTotal = m.typeTotal /\ t0.typeCorrect = m.typeCorrect
      BY DEF RunTallies
    <3> HIDE DEF t0
    <3>2. /\ t1 \in RunTallies /\ t1.seen = t0.seen /\ t1.matched = t0.matched + 1
          /\ t1.exact = t0.exact /\ t1.relaxed = t0.relaxed /\ t1.overlaps = t0.overlaps
          /\ t1.typeTotal = t0.typeTotal /\ t1.typeCorrect = t0.typeCorrect
      BY <3>1 DEF RunTallies
    <3> QED
      BY <3>1, <3>2
  <2> HIDE DEF t0, t1, s, l, y, k, found, right
  <2>4. /\ t2 \in RunTallies /\ Marked(t2, t1, y = l, r)
        /\ t2.seen = t1.seen /\ t2.matched = t1.matched /\ t2.overlaps = t1.overlaps
    BY <1>1, <2>3, TypeScoredRun
  <2>5. r \in BOOLEAN /\ (y = l => r)
    BY Relaxes
  <2> HIDE DEF t2, r
  <2>6. /\ s \in RunTallies /\ s.seen = t2.seen /\ s.matched = t2.matched
        /\ s.exact = t2.exact /\ s.relaxed = t2.relaxed
        /\ s.typeTotal = t2.typeTotal /\ s.typeCorrect = t2.typeCorrect
        /\ Len(s.overlaps) <= Len(t2.overlaps) + 1 /\ Len(s.overlaps) \in Nat
    BY <1>1, <2>1, <2>2, <2>4, EntitiesScoredRun
  <2>7. Marked(s, m, y = l, r)
    BY <2>3, <2>4, <2>6 DEF Marked
  <2>8. s.seen = m.seen + 1 /\ s.matched = m.matched + 1 /\ Len(s.overlaps) <= Len(m.overlaps) + 1
    BY <2>3, <2>4, <2>6
  <2>9. RunAdds(m) => RunAdds(s)
    <3>1. RunAdds(m) => SumOf(s.typeTotal) = s.seen /\ SumOf(s.typeCorrect) = s.relaxed
      BY <2>7, <2>8 DEF Marked, RunAdds
    <3>2. RunAdds(m) => s.exact <= s.relaxed
      BY <1>3, <2>5, <2>7, RunNats DEF Marked, Bump
    <3>3. RunAdds(m) => Len(s.overlaps) <= s.matched
      BY <1>3, <2>6, <2>8, RunNats
    <3> QED
      BY <2>6, <3>1, <3>2, <3>3 DEF RunAdds
  <2>10. s.exact = Bump(right, m.exact)
    BY <2>2, <2>7 DEF Marked, Bump
  <2> QED
    BY <2>6, <2>8, <2>9, <2>10 DEF s, right
<1>6. CASE line.method # "noise_filter" /\ ~found
  <2> DEFINE t == [m EXCEPT !.seen = @ + 1]
             total == [m.typeTotal EXCEPT ![l] = @ + 1]
  <2>1. s = [t EXCEPT !.typeTotal[l] = @ + 1]
    BY <1>6 DEF ScoreReplayed
  <2>2. ~right
    BY <1>6 DEF ReplayRight
  <2> HIDE DEF l, found, right
  <2>3. total \in Sums /\ SumOf(total) = SumOf(m.typeTotal) + 1
    BY <1>1, OneMore, RunNats
  <2>4. s = [m EXCEPT !.seen = @ + 1, !.typeTotal = total]
    <3> HIDE DEF s
    <3> QED
      BY <2>1 DEF RunTallies
  <2> HIDE DEF s, t, total
  <2>5. /\ s.seen = m.seen + 1 /\ s.matched = m.matched
        /\ s.exact = m.exact /\ s.relaxed = m.relaxed /\ s.overlaps = m.overlaps
        /\ s.typeTotal = total /\ s.typeCorrect = m.typeCorrect
    BY <2>4 DEF RunTallies
  <2>6. s \in RunTallies
    <3> DEFINE a == m.seen + 1
    <3>1. a \in Nat
      BY RunNats
    <3>2. s = [m EXCEPT !.seen = a, !.typeTotal = total]
      BY <2>4
    <3> HIDE DEF a
    <3> QED
      BY <2>3, <3>1, <3>2 DEF RunTallies
  <2>7. RunAdds(m) => RunAdds(s)
    BY <2>3, <2>5, <2>6 DEF RunAdds
  <2> QED
    BY <2>2, <2>5, <2>6, <2>7 DEF s, right, Bump
<1> QED
  BY <1>4, <1>5, <1>6

LEMMA NoRunAdds == RunAdds(NoRun) /\ NoRun.seen = 0 /\ NoRun.exact = 0
<1> DEFINE z == [u \in UpdateTypes |-> 0]
<1>1. z \in Sums /\ SumOf(z) = 0
  BY NoUnits
<1>2. NoRun = [seen |-> 0, matched |-> 0, exact |-> 0, relaxed |-> 0, noise |-> 0,
               typeTotal |-> z, typeCorrect |-> z, overlaps |-> <<>>]
  BY DEF NoRun
<1>3. <<>> \in Seq(Overlaps) /\ Len(<<>>) = 0
  OBVIOUS
<1> HIDE DEF z
<1>4. /\ NoRun.seen = 0 /\ NoRun.matched = 0 /\ NoRun.exact = 0 /\ NoRun.relaxed = 0
      /\ NoRun.typeTotal = z /\ NoRun.typeCorrect = z /\ NoRun.overlaps = <<>>
  BY <1>2
<1>5. NoRun \in RunTallies
  BY <1>1, <1>2, <1>3 DEF RunTallies
<1> QED
  BY <1>1, <1>3, <1>4, <1>5 DEF RunAdds

IsRun(g, labels, index) ==
  g = [n \in 0 .. Len(labels) |->
         IF n = 0 THEN NoRun ELSE ScoreReplayed(g[n - 1], labels[n], index)]

LEMMA RunExists ==
  ASSUME NEW labels \in Seq(LabelLines), NEW index, IsIndex(index)
  PROVE  \E g : IsRun(g, labels, index)
<1> DEFINE N == Len(labels)
           S == RunTallies
           base == NoRun
           f == [n \in 1 .. N |-> [t \in S |-> ScoreReplayed(t, labels[n], index)]]
<1>1. N \in Nat /\ \A n \in 1 .. N : labels[n] \in LabelLines
  OBVIOUS
<1>2. base \in S
  BY NoRunAdds DEF RunAdds
<1> HIDE DEF N, base
<1>3. \A n \in 1 .. N, t \in S : ScoreReplayed(t, labels[n], index) \in S
  BY <1>1, ReplayedStep
<1> HIDE DEF S
<1>4. f \in [1 .. N -> [S -> S]] /\ \A n \in 1 .. N, t \in S : f[n][t] = ScoreReplayed(t, labels[n], index)
  BY <1>3
<1> HIDE DEF f
<1>8. N \in Nat /\ base \in S /\ f \in [1 .. N -> [S -> S]]
  BY <1>1, <1>2, <1>4
<1>9. \E g \in [0 .. N -> S] : g[0] = base /\ \A n \in 1 .. N : g[n] = f[n][g[n - 1]]
  BY <1>8, Stepwise
<1>5. PICK g \in [0 .. N -> S] : g[0] = base /\ \A n \in 1 .. N : g[n] = f[n][g[n - 1]]
  BY <1>9, Zenon
<1> DEFINE q == [n \in 0 .. N |->
                   IF n = 0 THEN NoRun ELSE ScoreReplayed(g[n - 1], labels[n], index)]
<1>6. ASSUME NEW n \in 0 .. N PROVE g[n] = q[n]
  <2>1. CASE n = 0
    BY <1>5, <2>1 DEF base
  <2>2. CASE n # 0
    <3>1. n \in 1 .. N /\ n - 1 \in 0 .. N /\ g[n - 1] \in S
      BY <1>1, <2>2
    <3> QED
      BY <1>4, <1>5, <2>2, <3>1
  <2> QED
    BY <2>1, <2>2
<1>7. g = q
  BY <1>6
<1> QED
  BY <1>7 DEF IsRun, N

LEMMA RunSteps ==
  ASSUME NEW labels \in Seq(LabelLines), NEW index, IsIndex(index)
  PROVE  \E g : /\ ScoreRun(labels, index) = g[Len(labels)] /\ g[0] = NoRun
                /\ \A n \in 1 .. Len(labels) : g[n] = ScoreReplayed(g[n - 1], labels[n], index)
<1> DEFINE g == CHOOSE g : IsRun(g, labels, index)
           N == Len(labels)
<1>1. N \in Nat
  OBVIOUS
<1>2. ScoreRun(labels, index) = g[N]
  BY DEF ScoreRun, IsRun
<1>3. IsRun(g, labels, index)
  BY RunExists
<1> HIDE DEF g, N
<1>4. g = [n \in 0 .. N |->
             IF n = 0 THEN NoRun ELSE ScoreReplayed(g[n - 1], labels[n], index)]
  BY <1>3 DEF IsRun, N
<1>5. 0 \in 0 .. N /\ \A n \in 1 .. N : n \in 0 .. N /\ n # 0
  BY <1>1
<1>6. \A n \in 0 .. N : g[n] = IF n = 0 THEN NoRun ELSE ScoreReplayed(g[n - 1], labels[n], index)
  BY <1>4, Zenon
<1>7. g[0] = NoRun /\ \A n \in 1 .. N : g[n] = ScoreReplayed(g[n - 1], labels[n], index)
  BY <1>5, <1>6, Zenon
<1> QED
  BY <1>2, <1>7, Zenon DEF N

AskedRight(line, replay) ==
  IF line.method = "noise_filter" THEN IsNoise(line.raw)
  ELSE Said(replay, line.raw).type = SilverType(line)

LEMMA SaidTyped ==
  ASSUME NEW replay, IsReplay(replay), NEW raw
  PROVE  Said(replay, raw).keys \in KeySets
<1> DEFINE S == Answers(replay, raw)
           N == Len(Messages)
<1>1. N \in Nat /\ DOMAIN Messages = 1 .. N /\ S \subseteq 1 .. N
  BY JobAssumption DEF Answers
<1>2. CASE S = {}
  <2>1. Said(replay, raw) = Nothing
    BY <1>2 DEF Said
  <2> QED
    BY <2>1 DEF KeySets
<1>3. CASE S # {}
  <2>1. Said(replay, raw) = replay[Max(S)]
    BY <1>3 DEF Said
  <2> HIDE DEF S, N
  <2>2. PICK k \in S : \A j \in S : j <= k
    BY <1>1, <1>3, LastPlace
  <2>3. \A j \in S : k >= j
    BY <1>1, <2>2
  <2>4. Max(S) \in S
    BY <2>3 DEF Max
  <2>5. Max(S) \in DOMAIN Messages
    BY <1>1, <2>4
  <2>6. replay[Max(S)] \in Extractions \union {Nothing}
    BY <2>5 DEF IsReplay
  <2> QED
    BY <2>1, <2>6 DEF KeySets
<1> QED
  BY <1>2, <1>3

LEMMA AskedStep ==
  ASSUME NEW t \in Tallies, NEW line \in LabelLines, NEW replay, IsReplay(replay)
  PROVE  LET s == ScoreSaid(t, line, replay)
         IN  s \in Tallies /\ s.exact = Bump(AskedRight(line, replay), t.exact)
<1> DEFINE s == ScoreSaid(t, line, replay)
<1>1. CASE line.method = "noise_filter"
  <2> DEFINE c == IsNoise(line.raw)
  <2>1. s = ScoreNoise(t, c) /\ AskedRight(line, replay) = c /\ c \in BOOLEAN
    BY <1>1 DEF ScoreSaid, AskedRight, IsNoise
  <2> HIDE DEF c, s
  <2>2. s \in Tallies /\ Marked(s, t, c, c)
    BY <2>1, NoiseScored
  <2>3. s.exact = Bump(c, t.exact)
    BY <2>2 DEF Marked
  <2> QED
    BY <2>1, <2>2, <2>3 DEF s
<1>2. CASE line.method # "noise_filter"
  <2> DEFINE e == Said(replay, line.raw)
             l == SilverType(line)
  <2>1. s = ScoreAgainst(t, line, e) /\ AskedRight(line, replay) = (e.type = l)
    BY <1>2 DEF ScoreSaid, AskedRight
  <2>2. e.keys \in KeySets
    BY SaidTyped
  <2> HIDE DEF e, s
  <2>3. s \in Tallies /\ Marked(s, t, e.type = l, TypesMatchRelaxed(e.type, l))
    BY <2>1, <2>2, AnswerScored
  <2>4. s.exact = Bump(e.type = l, t.exact)
    BY <2>3 DEF Marked
  <2> QED
    BY <2>1, <2>3, <2>4 DEF s
<1> QED
  BY <1>1, <1>2

IsAsked(g, labels, replay) ==
  g = [n \in 0 .. Len(labels) |->
         IF n = 0 THEN NoTally ELSE ScoreSaid(g[n - 1], labels[n], replay)]

LEMMA AskedExists ==
  ASSUME NEW labels \in Seq(LabelLines), NEW replay, IsReplay(replay)
  PROVE  \E g : IsAsked(g, labels, replay)
<1> DEFINE N == Len(labels)
           S == Tallies
           base == NoTally
           f == [n \in 1 .. N |-> [t \in S |-> ScoreSaid(t, labels[n], replay)]]
<1>1. N \in Nat /\ \A n \in 1 .. N : labels[n] \in LabelLines
  OBVIOUS
<1>2. base \in S
  BY NoTallyAdds
<1> HIDE DEF N, base
<1>3. \A n \in 1 .. N, t \in S : ScoreSaid(t, labels[n], replay) \in S
  BY <1>1, AskedStep
<1> HIDE DEF S
<1>4. f \in [1 .. N -> [S -> S]] /\ \A n \in 1 .. N, t \in S : f[n][t] = ScoreSaid(t, labels[n], replay)
  BY <1>3
<1> HIDE DEF f
<1>5. N \in Nat /\ base \in S /\ f \in [1 .. N -> [S -> S]]
  BY <1>1, <1>2, <1>4
<1>6. \E g \in [0 .. N -> S] : g[0] = base /\ \A n \in 1 .. N : g[n] = f[n][g[n - 1]]
  BY <1>5, Stepwise
<1>7. PICK g \in [0 .. N -> S] : g[0] = base /\ \A n \in 1 .. N : g[n] = f[n][g[n - 1]]
  BY <1>6, Zenon
<1> DEFINE q == [n \in 0 .. N |->
                   IF n = 0 THEN NoTally ELSE ScoreSaid(g[n - 1], labels[n], replay)]
<1>8. ASSUME NEW n \in 0 .. N PROVE g[n] = q[n]
  <2>1. CASE n = 0
    BY <1>7, <2>1 DEF base
  <2>2. CASE n # 0
    <3>1. n \in 1 .. N /\ n - 1 \in 0 .. N /\ g[n - 1] \in S
      BY <1>1, <2>2
    <3> QED
      BY <1>4, <1>7, <2>2, <3>1
  <2> QED
    BY <2>1, <2>2
<1>9. g = q
  BY <1>8
<1> QED
  BY <1>9 DEF IsAsked, N

LEMMA AskedSteps ==
  ASSUME NEW labels \in Seq(LabelLines), NEW replay, IsReplay(replay)
  PROVE  \E g : /\ Asked(labels, replay) = g[Len(labels)] /\ g[0] = NoTally
                /\ \A n \in 1 .. Len(labels) : g[n] = ScoreSaid(g[n - 1], labels[n], replay)
<1> DEFINE g == CHOOSE g : IsAsked(g, labels, replay)
           N == Len(labels)
<1>1. N \in Nat
  OBVIOUS
<1>2. Asked(labels, replay) = g[N]
  BY DEF Asked, IsAsked
<1>3. IsAsked(g, labels, replay)
  BY AskedExists
<1> HIDE DEF g, N
<1>4. g = [n \in 0 .. N |->
             IF n = 0 THEN NoTally ELSE ScoreSaid(g[n - 1], labels[n], replay)]
  BY <1>3 DEF IsAsked, N
<1>5. 0 \in 0 .. N /\ \A n \in 1 .. N : n \in 0 .. N /\ n # 0
  BY <1>1
<1>6. \A n \in 0 .. N : g[n] = IF n = 0 THEN NoTally ELSE ScoreSaid(g[n - 1], labels[n], replay)
  BY <1>4, Zenon
<1>7. g[0] = NoTally /\ \A n \in 1 .. N : g[n] = ScoreSaid(g[n - 1], labels[n], replay)
  BY <1>5, <1>6, Zenon
<1> QED
  BY <1>2, <1>7, Zenon DEF N

(* Both scripts give the same mark for a label, but for one of nothing. *)
LEMMA SameMark ==
  ASSUME NEW line \in LabelLines, NEW replay, IsReplay(replay)
  PROVE  LET index == IndexUpdatesByMessage(StoredUpdates(replay))
             both  == ReplayRight(line, index)
             none  == OfNothing(line, replay)
         IN  /\ AskedRight(line, replay) <=> both \/ none
             /\ ~(both /\ none)
<1> DEFINE index == IndexUpdatesByMessage(StoredUpdates(replay))
           raw   == line.raw
<1>1. /\ raw \in DOMAIN index <=> Answers(replay, raw) # {}
      /\ raw \in DOMAIN index => index[raw].type = Said(replay, raw).type
  BY Indexed
<1>2. FilterIsRight(line)
  BY LineFields
<1> HIDE DEF index
<1>3. CASE line.method = "noise_filter"
  <2>1. IsNoise(raw)
    BY <1>2, <1>3 DEF FilterIsRight
  <2>2. Answers(replay, raw) = {}
    BY <2>1, JobAssumption DEF IsNoise, Answers
  <2>3. AskedRight(line, replay) /\ ReplayRight(line, index) /\ ~OfNothing(line, replay)
    BY <1>1, <1>3, <2>1, <2>2 DEF AskedRight, ReplayRight, OfNothing
  <2> QED
    BY <2>3 DEF index
<1>4. CASE line.method # "noise_filter" /\ Answers(replay, raw) # {}
  <2>1. ~OfNothing(line, replay) /\ (AskedRight(line, replay) <=> ReplayRight(line, index))
    BY <1>1, <1>4 DEF AskedRight, ReplayRight, OfNothing
  <2> QED
    BY <2>1 DEF index
<1>5. CASE line.method # "noise_filter" /\ Answers(replay, raw) = {}
  <2>1. Said(replay, raw).type = "none"
    BY <1>5 DEF Said, Nothing
  <2>2. ~ReplayRight(line, index) /\ (AskedRight(line, replay) <=> OfNothing(line, replay))
    BY <1>1, <1>5, <2>1 DEF AskedRight, ReplayRight, OfNothing
  <2> QED
    BY <2>2 DEF index
<1> QED
  BY <1>3, <1>4, <1>5

LEMMA Replayed ==
  ASSUME NEW labels \in Seq(LabelLines), NEW replay, IsReplay(replay)
  PROVE  LET run == ScoreRun(labels, IndexUpdatesByMessage(StoredUpdates(replay)))
         IN  RunAdds(run) /\ run.seen = Len(labels)
<1> DEFINE index == IndexUpdatesByMessage(StoredUpdates(replay))
           N == Len(labels)
<1>1. IsIndex(index)
  BY Indexed DEF IsIndex
<1>2. N \in Nat /\ \A n \in 1 .. N : labels[n] \in LabelLines
  OBVIOUS
<1> HIDE DEF index
<1>3. PICK g : /\ ScoreRun(labels, index) = g[N] /\ g[0] = NoRun
               /\ \A n \in 1 .. N : g[n] = ScoreReplayed(g[n - 1], labels[n], index)
  BY <1>1, RunSteps
<1> HIDE DEF N
<1> DEFINE T == {k \in Nat : k <= N => RunAdds(g[k]) /\ g[k].seen = k}
<1>4. 0 \in T
  BY <1>3, NoRunAdds
<1>5. ASSUME NEW k \in Nat, k \in T PROVE k + 1 \in T
  <2> SUFFICES ASSUME k + 1 <= N PROVE RunAdds(g[k + 1]) /\ g[k + 1].seen = k + 1
    OBVIOUS
  <2>1. RunAdds(g[k]) /\ g[k].seen = k
    BY <1>2, <1>5
  <2>2. k + 1 \in 1 .. N /\ (k + 1) - 1 = k
    BY <1>2
  <2>3. g[k + 1] = ScoreReplayed(g[k], labels[k + 1], index) /\ labels[k + 1] \in LabelLines
    BY <1>2, <1>3, <2>2
  <2>4. g[k] \in RunTallies
    BY <2>1 DEF RunAdds
  <2> QED
    BY <1>1, <2>1, <2>3, <2>4, ReplayedStep
<1> HIDE DEF T
<1>6. N \in T
  BY <1>2, <1>4, <1>5, Induction
<1> QED
  BY <1>2, <1>3, <1>6 DEF T, N, index

LEMMA MarksAgree ==
  ASSUME NEW labels \in Seq(LabelLines), NEW replay, IsReplay(replay)
  PROVE  SameMarks(labels, replay)
<1> DEFINE index == IndexUpdatesByMessage(StoredUpdates(replay))
           N == Len(labels)
<1>1. IsIndex(index)
  BY Indexed DEF IsIndex
<1>2. N \in Nat /\ DOMAIN labels = 1 .. N /\ \A n \in 1 .. N : labels[n] \in LabelLines
  OBVIOUS
<1>3. ASSUME NEW n \in 1 .. N
      PROVE  /\ AskedRight(labels[n], replay) <=>
                  ReplayRight(labels[n], index) \/ OfNothing(labels[n], replay)
             /\ ~(ReplayRight(labels[n], index) /\ OfNothing(labels[n], replay))
  BY <1>2, SameMark
<1> HIDE DEF index
<1>4. PICK r : /\ ScoreRun(labels, index) = r[N] /\ r[0] = NoRun
               /\ \A n \in 1 .. N : r[n] = ScoreReplayed(r[n - 1], labels[n], index)
  BY <1>1, RunSteps
<1>5. PICK a : /\ Asked(labels, replay) = a[N] /\ a[0] = NoTally
               /\ \A n \in 1 .. N : a[n] = ScoreSaid(a[n - 1], labels[n], replay)
  BY AskedSteps
<1> HIDE DEF N
<1> DEFINE Nones(k) == {n \in 1 .. N : n <= k /\ OfNothing(labels[n], replay)}
           T == {k \in Nat : k <= N =>
                   /\ r[k] \in RunTallies /\ a[k] \in Tallies /\ IsFiniteSet(Nones(k))
                   /\ a[k].exact = r[k].exact + Cardinality(Nones(k))}
<1>6. 0 \in T
  <2>1. Nones(0) = {}
    OBVIOUS
  <2>2. r[0] \in RunTallies /\ a[0] \in Tallies /\ r[0].exact = 0 /\ a[0].exact = 0
    BY <1>4, <1>5, NoRunAdds, NoTallyAdds DEF RunAdds
  <2>3. IsFiniteSet(Nones(0)) /\ Cardinality(Nones(0)) = 0
    BY <2>1, FS_EmptySet
  <2> HIDE DEF Nones
  <2> QED
    BY <2>2, <2>3
<1>7. ASSUME NEW k \in Nat, k \in T PROVE k + 1 \in T
  <2> DEFINE line == labels[k + 1]
             C == Nones(k)
             D == Nones(k + 1)
             x == ReplayRight(line, index)
             y == OfNothing(line, replay)
             z == AskedRight(line, replay)
  <2> SUFFICES ASSUME k + 1 <= N
               PROVE  /\ r[k + 1] \in RunTallies /\ a[k + 1] \in Tallies /\ IsFiniteSet(D)
                      /\ a[k + 1].exact = r[k + 1].exact + Cardinality(D)
    OBVIOUS
  <2>1. /\ r[k] \in RunTallies /\ a[k] \in Tallies /\ IsFiniteSet(C)
        /\ a[k].exact = r[k].exact + Cardinality(C)
    BY <1>2, <1>7
  <2>2. k + 1 \in 1 .. N /\ (k + 1) - 1 = k
    BY <1>2
  <2>3. /\ r[k + 1] = ScoreReplayed(r[k], line, index) /\ a[k + 1] = ScoreSaid(a[k], line, replay)
        /\ line \in LabelLines
    BY <1>2, <1>4, <1>5, <2>2
  <2>4. D = C \union (IF y THEN {k + 1} ELSE {}) /\ k + 1 \notin C
    <3>1. \A n \in 1 .. N : n <= k + 1 <=> n <= k \/ n = k + 1
      BY <1>2
    <3> QED
      BY <2>2, <3>1
  <2>5. (z <=> x \/ y) /\ ~(x /\ y)
    BY <1>3, <2>2
  <2> HIDE DEF T, Nones, line, C, D, x, y, z
  <2>6. r[k + 1] \in RunTallies /\ r[k + 1].exact = Bump(x, r[k].exact)
    BY <1>1, <2>1, <2>3, ReplayedStep DEF x
  <2>7. a[k + 1] \in Tallies /\ a[k + 1].exact = Bump(z, a[k].exact)
    BY <2>1, <2>3, AskedStep DEF z
  <2>8. Cardinality(C) \in Nat /\ IsFiniteSet(D)
        /\ Cardinality(D) = IF y THEN Cardinality(C) + 1 ELSE Cardinality(C)
    <3> DEFINE p == k + 1
    <3> HIDE DEF p
    <3>1. Cardinality(C) \in Nat /\ IsFiniteSet(C \union {p})
      BY <2>1, FS_AddElement, FS_CardinalityType
    <3>2. Cardinality(C \union {p}) = IF p \in C THEN Cardinality(C) ELSE Cardinality(C) + 1
      BY <2>1, FS_AddElement
    <3>3. D = IF y THEN C \union {p} ELSE C
      BY <2>4 DEF p
    <3>4. p \notin C
      BY <2>4 DEF p
    <3> QED
      BY <2>1, <3>1, <3>2, <3>3, <3>4
  <2>9. r[k].exact \in Nat /\ a[k].exact \in Nat
    BY <2>1 DEF RunTallies, Tallies
  <2>10. a[k + 1].exact = r[k + 1].exact + Cardinality(D)
    <3>1. CASE x
      <4>1. z /\ ~y
        BY <2>5, <3>1
      <4>2. /\ r[k + 1].exact = r[k].exact + 1 /\ a[k + 1].exact = a[k].exact + 1
            /\ Cardinality(D) = Cardinality(C)
        BY <2>6, <2>7, <2>8, <3>1, <4>1 DEF Bump
      <4> QED
        BY <2>1, <2>8, <2>9, <4>2
    <3>2. CASE ~x /\ y
      <4>1. z
        BY <2>5, <3>2
      <4>2. /\ r[k + 1].exact = r[k].exact /\ a[k + 1].exact = a[k].exact + 1
            /\ Cardinality(D) = Cardinality(C) + 1
        BY <2>6, <2>7, <2>8, <3>2, <4>1 DEF Bump
      <4> QED
        BY <2>1, <2>8, <2>9, <4>2
    <3>3. CASE ~x /\ ~y
      <4>1. ~z
        BY <2>5, <3>3
      <4>2. /\ r[k + 1].exact = r[k].exact /\ a[k + 1].exact = a[k].exact
            /\ Cardinality(D) = Cardinality(C)
        BY <2>6, <2>7, <2>8, <3>3, <4>1 DEF Bump
      <4> QED
        BY <2>1, <2>8, <2>9, <4>2
    <3> QED
      BY <3>1, <3>2, <3>3
  <2> QED
    BY <2>6, <2>7, <2>8, <2>10
<1> HIDE DEF T
<1>8. N \in T
  BY <1>2, <1>6, <1>7, Induction
<1>9. a[N].exact = r[N].exact + Cardinality(Nones(N))
  <2> HIDE DEF Nones
  <2> QED
    BY <1>2, <1>8 DEF T
<1>10. Nones(N) = {n \in DOMAIN labels : OfNothing(labels[n], replay)}
  BY <1>2
<1> HIDE DEF Nones
<1>11. Asked(labels, replay).exact = ScoreRun(labels, index).exact
         + Cardinality({n \in DOMAIN labels : OfNothing(labels[n], replay)})
  BY <1>4, <1>5, <1>9, <1>10
<1> QED
  BY <1>11 DEF SameMarks, index

LEMMA ReplayEarns ==
  ASSUME NEW labels \in Seq(LabelLines)
  PROVE  ReplayMarks(labels)
<1> SUFFICES ASSUME NEW replay \in [DOMAIN Messages -> Extractions \union {Nothing}]
             PROVE  LET run == ScoreRun(labels, IndexUpdatesByMessage(StoredUpdates(replay)))
                    IN  /\ run.seen = Len(labels) /\ SumOf(run.typeTotal) = run.seen
                        /\ SumOf(run.typeCorrect) = run.relaxed /\ run.exact <= run.relaxed
                        /\ Len(run.overlaps) <= run.matched
                        /\ SameMarks(WithoutErrors(labels), replay)
  BY DEF ReplayMarks
<1>1. IsReplay(replay)
  BY DEF IsReplay
<1> DEFINE run == ScoreRun(labels, IndexUpdatesByMessage(StoredUpdates(replay)))
           kept == WithoutErrors(labels)
<1>2. RunAdds(run) /\ run.seen = Len(labels)
  BY <1>1, Replayed
<1>3. kept \in Seq(LabelLines)
  BY KeptLabels
<1> HIDE DEF run, kept
<1>4. SameMarks(kept, replay)
  BY <1>1, <1>3, MarksAgree
<1> QED
  BY <1>2, <1>4 DEF RunAdds, run, kept

(* Every item is counted once, and what eval_against_labels and recalibrate count as *)
(* right are exactly the answers that were the expected ones, however many calls are *)
(* retried or given up; a model that makes no mistake gets full marks; and           *)
(* eval_speaker_models gives the marks that eval_against_labels would, but for the   *)
(* labels of nothing (the loops of the four scripts and their scores).               *)
THEOREM MarksCorrect == Spec => []MarksAreEarned
<1>1. LInv /\ HInv /\ MInv => MarksAreEarned
  <2> SUFFICES ASSUME LInv, HInv, MInv PROVE MarksAreEarned
    OBVIOUS
  <2>1. ReplayMarks(ReadFile(silver)) /\ ReplayMarks(TheirLabels)
    BY KnownLines, ReplayEarns
  <2>2. tool = "against" => AgainstAdds
    BY DEF MInv
  <2>3. tool = "recalibrate" => tally.correct = earned
    BY DEF MInv
  <2>4. tool = "models" => ModelsAdd
    BY DEF MInv
  <2> QED
    BY <2>1, <2>2, <2>3, <2>4 DEF MarksAreEarned, AgainstAdds, ModelsAdd
<1> QED
  BY <1>1, InitLInv, NextLInv, InitHInv, NextHInv, InitMInv, NextMInv, PTL DEF Spec
===============================================================================
