--------------------------- MODULE MultilineProofs ---------------------------
(***************************************************************************)
(* Theorems about Multiline: no message is lost, repeated or reordered,    *)
(* what is yielded as one message is one numbered block, and its text has  *)
(* the last line of each number, for any senders, line numbers and number  *)
(* of messages.                                                            *)
(***************************************************************************)
EXTENDS Multiline, SequenceTheorems, WellFoundedInduction, TLAPS

USE MultilineAssumption

Blocks == Seq(Nat)
IsSeq(s) == s \in Seq(Range(s))

(* The types the other invariants rest on, and where something is held. *)
Shape ==
  /\ sent \in Seq(Messages)
  /\ fetch \in {"none", "waiting", "ready", "ended", "raised"}
  /\ pc \in {"consumer", "awaiting", "done"}
  /\ buffer \in Blocks
  /\ held \in Blocks
  /\ IsSeq(out)
  /\ fetch = "ready" => Len(sent) > 0
  /\ held # <<>> => pc = "consumer" /\ buffer = <<>> /\ Len(held) = 1

(* What EveryMessageOnce says, with the bound it puts on the blocks. *)
Lasts == \A k \in DOMAIN out : Last(out[k].block) \in 0 .. Taken

-----------------------------------------------------------------------------
(* LEMMAS *)

LEMMA Singleton ==
  ASSUME NEW i \in Nat
  PROVE  /\ <<i>> \in Blocks /\ Len(<<i>>) = 1 /\ Append(<<>>, i) = <<i>>
         /\ \A n \in Nat : n + 1 = i => Follows(<<i>>, n)
BY DEF Blocks, Follows

LEMMA Nothing == <<>> \in Blocks /\ Len(<<>>) = 0 /\ \A n : Follows(<<>>, n)
BY DEF Blocks, Follows

LEMMA AppendIsSeq ==
  ASSUME NEW s, IsSeq(s), NEW e
  PROVE  /\ IsSeq(Append(s, e)) /\ Len(Append(s, e)) = Len(s) + 1
         /\ DOMAIN Append(s, e) = DOMAIN s \union {Len(s) + 1}
         /\ \A k \in DOMAIN s : Append(s, e)[k] = s[k]
         /\ Append(s, e)[Len(s) + 1] = e
         /\ Len(s) \in Nat /\ DOMAIN s = 1 .. Len(s)
<1> DEFINE S == Range(s) \union {e}
<1>1. s \in Seq(S) /\ e \in S
  BY SeqMonotonic DEF IsSeq
<1> HIDE DEF S
<1>2. Append(s, e) \in Seq(S)
  BY <1>1
<1>3. IsSeq(Append(s, e))
  BY <1>2, SeqOfRange DEF IsSeq
<1> QED
  BY <1>1, <1>3

(* A block that follows a position ends its own length after it. *)
LEMMA LastOfBlock ==
  ASSUME NEW b \in Blocks, b # <<>>, NEW n \in Nat, Follows(b, n)
  PROVE  Last(b) = n + Len(b) /\ Len(b) > 0
BY DEF Last, Follows, Blocks

(* The end of what was yielded is a position of the source. *)
LEMMA UptoType ==
  ASSUME Shape, Lasts, NEW k \in 0 .. Len(out)
  PROVE  Upto(k) \in 0 .. Taken /\ Taken \in Nat
<1>1. Taken \in Nat
  BY DEF Taken, Shape
<1>2. CASE k = 0
  BY <1>1, <1>2 DEF Upto
<1>3. CASE k # 0
  <2>1. k \in DOMAIN out
    BY <1>3, AppendIsSeq DEF Shape
  <2> QED
    BY <1>1, <1>3, <2>1 DEF Upto, Lasts
<1> QED
  BY <1>2, <1>3

(* Yielding a block that follows the last one keeps the order of the outputs. *)
LEMMA YieldInOrder ==
  ASSUME Shape, Lasts, EveryMessageOnce, NEW b \in Blocks, b # <<>>,
         Follows(b, Upto(Len(out))), NEW cut \in BOOLEAN, Yield(b, cut),
         Taken' \in Nat, Taken <= Taken', Upto(Len(out)) + Len(b) <= Taken'
  PROVE  /\ IsSeq(out') /\ Len(out') = Len(out) + 1
         /\ \A k \in DOMAIN out : out'[k] = out[k]
         /\ out'[Len(out')].block = b /\ out'[Len(out')].timedOut = cut
         /\ \A k \in DOMAIN out' :
              out'[k].block # <<>> /\ Follows(out'[k].block, Upto(k - 1)')
         /\ Upto(Len(out))' = Upto(Len(out)) + Len(b)
         /\ Lasts'
<1> DEFINE o == [block |-> b, text |-> Merge(b), timedOut |-> cut]
<1>1. /\ IsSeq(out) /\ out' = Append(out, o)
      /\ Len(out) \in Nat /\ DOMAIN out = 1 .. Len(out)
  BY AppendIsSeq DEF Shape, Yield
<1> HIDE DEF o
<1>3. /\ IsSeq(out') /\ Len(out') = Len(out) + 1
      /\ \A k \in DOMAIN out : out'[k] = out[k]
      /\ out'[Len(out')] = o /\ DOMAIN out' = DOMAIN out \union {Len(out')}
  BY <1>1, AppendIsSeq
<1>4. o.block = b /\ o.timedOut = cut
  BY DEF o
<1>5. \A k \in 0 .. Len(out) : Upto(k)' = Upto(k)
  BY <1>1, <1>3 DEF Upto
<1>6. Upto(Len(out)) \in Nat
  BY UptoType, <1>1
<1>7. Last(b) = Upto(Len(out)) + Len(b) /\ Len(b) > 0
  BY <1>6, LastOfBlock
<1>8. Upto(Len(out))' = Last(b)
  BY <1>1, <1>3, <1>4 DEF Upto
<1>9. ASSUME NEW k \in DOMAIN out'
      PROVE  out'[k].block # <<>> /\ Follows(out'[k].block, Upto(k - 1)')
  <2>1. CASE k \in DOMAIN out
    <3>1. k - 1 \in 0 .. Len(out)
      BY <1>1, <2>1
    <3>2. Upto(k - 1)' = Upto(k - 1)
      BY <1>5, <3>1 DEF Upto
    <3> QED
      BY <1>3, <2>1, <3>2 DEF EveryMessageOnce
  <2>2. CASE k = Len(out')
    <3>1. k - 1 = Len(out) /\ Len(out) \in 0 .. Len(out)
      BY <1>1, <1>3, <2>2
    <3>2. Upto(k - 1)' = Upto(Len(out))
      BY <1>5, <3>1 DEF Upto
    <3> QED
      BY <1>3, <1>4, <2>2, <3>2
  <2> QED
    BY <1>3, <2>1, <2>2
<1>10. Lasts'
  <2>1. ASSUME NEW k \in DOMAIN out
        PROVE  Last(out'[k].block) \in 0 .. Taken'
    BY <1>3, <2>1, UptoType DEF Lasts, Taken, Shape
  <2>2. Last(out'[Len(out')].block) \in 0 .. Taken'
    BY <1>3, <1>4, <1>6, <1>7
  <2> QED
    BY <1>3, <2>1, <2>2 DEF Lasts
<1> QED
  BY <1>3, <1>4, <1>7, <1>8, <1>9, <1>10

-----------------------------------------------------------------------------
(* ORDER *)

OInv == Shape /\ Lasts /\ EveryMessageOnce

LEMMA InitOInv == Init => OInv
<1>1. IsSeq(<<>>) /\ Len(<<>>) = 0
  BY EmptySeq DEF IsSeq
<1> QED
  BY <1>1, Nothing DEF Init, OInv, Shape, Lasts, EveryMessageOnce, Taken, Upto

(* The source does not change what was taken from it. *)
LEMMA SourceOInv ==
  ASSUME OInv, (\E m \in Messages : Arrive(m)) \/ (\E how \in {"ended", "raised"} : Cease(how))
  PROVE  OInv'
<1>1. Taken' = Taken
  BY DEF Arrive, Cease, Taken, OInv, Shape
<1>2. UNCHANGED <<pc, buffer, context, held, out>>
  BY DEF Arrive, Cease
<1>3. Shape'
  BY <1>2 DEF Arrive, Cease, OInv, Shape
<1> QED
  BY <1>1, <1>2, <1>3 DEF OInv, Lasts, EveryMessageOnce, Upto, Follows

(* What Take adds is the next position; nothing else is held then. *)
LEMMA NextPosition ==
  ASSUME OInv, pc = "awaiting", fetch = "ready"
  PROVE  /\ Len(sent) \in Nat /\ Len(sent) = Taken + 1 /\ held = <<>>
         /\ Len(sent) = Upto(Len(out)) + Len(buffer) + 1
         /\ Follows(buffer, Upto(Len(out)))
         /\ Upto(Len(out)) \in Nat
<1>1. held = <<>> /\ Len(held) = 0
  BY DEF OInv, Shape
<1>2. Len(sent) \in Nat /\ Len(sent) = Taken + 1
  BY DEF OInv, Shape, Taken
<1>3. Upto(Len(out)) \in Nat
  BY UptoType DEF OInv, Shape
<1> QED
  BY <1>1, <1>2, <1>3 DEF OInv, Shape, Blocks, EveryMessageOnce, Follows

LEMMA CollectOInv ==
  ASSUME OInv, pc = "awaiting", fetch = "ready", Collect(Len(sent)), UNCHANGED sent
  PROVE  OInv'
<1> DEFINE i == Len(sent)
<1>1. UNCHANGED <<pc, held, out, sent>> /\ fetch' = "waiting"
  BY DEF Collect
<1>2. buffer' = Append(buffer, i)
  BY NextPosition, Singleton DEF Collect, Extends, Buffer
<1>3. Taken' = Taken + 1 /\ Taken \in Nat
  BY <1>1 DEF Taken, OInv, Shape
<1>4. Shape'
  BY <1>1, <1>2, NextPosition DEF OInv, Shape, Blocks
<1>5. Lasts'
  BY <1>1, <1>3 DEF OInv, Lasts
<1>6. Follows(buffer', Upto(Len(out)))
  <2>1. buffer \in Seq(Nat) /\ i \in Nat /\ i = Upto(Len(out)) + Len(buffer) + 1
        /\ Follows(buffer, Upto(Len(out)))
    BY NextPosition DEF OInv, Shape, Blocks
  <2>2. /\ Len(buffer) \in Nat /\ DOMAIN buffer = 1 .. Len(buffer)
        /\ DOMAIN buffer' = 1 .. Len(buffer) + 1
        /\ \A j \in DOMAIN buffer : buffer'[j] = buffer[j]
        /\ buffer'[Len(buffer) + 1] = i
    BY <1>2, <2>1
  <2> HIDE DEF i
  <2>3. ASSUME NEW j \in DOMAIN buffer'
        PROVE  buffer'[j] = Upto(Len(out)) + j
    <3>1. CASE j \in DOMAIN buffer
      BY <2>1, <2>2, <3>1 DEF Follows
    <3>2. CASE j = Len(buffer) + 1
      BY <2>1, <2>2, <3>2, NextPosition
    <3> QED
      BY <2>2, <3>1, <3>2
  <2> QED
    BY <2>3 DEF Follows
<1>7. Len(buffer') = Len(buffer) + 1
  BY <1>2 DEF OInv, Shape, Blocks
<1>8. \A k \in 0 .. Len(out) : Upto(k)' = Upto(k)
  BY <1>1 DEF Upto
<1>9. EveryMessageOnce'
  <2>1. \A k \in DOMAIN out' : out'[k].block # <<>> /\ Follows(out'[k].block, Upto(k - 1)')
    BY <1>1 DEF OInv, EveryMessageOnce, Upto
  <2>2. Upto(Len(out))' = Upto(Len(out)) /\ Len(held') = 0 /\ held' = <<>>
    BY <1>1, NextPosition DEF Upto
  <2>3. Taken' = Upto(Len(out)) + Len(buffer')
    BY <1>3, <1>7, NextPosition DEF OInv, Shape, Blocks
  <2>4. Follows(held', Upto(Len(out))) /\ Follows(buffer', Upto(Len(out)) + 0)
    BY <1>6, <2>2, NextPosition DEF Follows
  <2>5. Taken' = Upto(Len(out)) + 0 + Len(buffer')
    BY <2>3, NextPosition
  <2> QED
    BY <2>1, <2>2, <2>4, <2>5 DEF EveryMessageOnce
<1> QED
  BY <1>4, <1>5, <1>9 DEF OInv

(* A step that yields the buffer, or the first thing there is, and leaves the *)
(* blocks in held and buffer to follow it.                                    *)
LEMMA YieldOInv ==
  ASSUME OInv, Shape', NEW b \in Blocks, b # <<>>, NEW cut \in BOOLEAN, Yield(b, cut),
         Follows(b, Upto(Len(out))), Taken <= Taken',
         Follows(held', Upto(Len(out)) + Len(b)),
         Follows(buffer', Upto(Len(out)) + Len(b) + Len(held')),
         Taken' = Upto(Len(out)) + Len(b) + Len(held') + Len(buffer')
  PROVE  OInv'
<1>1. Upto(Len(out)) \in Nat /\ Len(b) \in Nat /\ Len(held') \in Nat /\ Len(buffer') \in Nat
  <2>1. Len(out) \in 0 .. Len(out)
    BY AppendIsSeq DEF OInv, Shape
  <2>2. Upto(Len(out)) \in Nat
    BY <2>1, UptoType DEF OInv
  <2>3. b \in Seq(Nat) /\ held' \in Seq(Nat) /\ buffer' \in Seq(Nat)
    BY DEF Shape, Blocks
  <2> QED
    BY <2>2, <2>3
<1>2. Taken' \in Nat /\ Upto(Len(out)) + Len(b) <= Taken'
  BY <1>1
<1>3. /\ \A k \in DOMAIN out' : out'[k].block # <<>> /\ Follows(out'[k].block, Upto(k - 1)')
      /\ Upto(Len(out))' = Upto(Len(out)) + Len(b)
      /\ Lasts'
  BY <1>2, YieldInOrder DEF OInv
<1>4. EveryMessageOnce'
  BY <1>3 DEF EveryMessageOnce
<1> QED
  BY <1>3, <1>4 DEF OInv

(* A block yielded by a step is a sequence of positions, in its record too. *)
LEMMA YieldShape ==
  ASSUME Shape, NEW b \in Blocks, NEW cut \in BOOLEAN, Yield(b, cut)
  PROVE  IsSeq(out') /\ pc' = "consumer"
BY AppendIsSeq DEF Yield, Shape

LEMMA DisplaceOInv ==
  ASSUME OInv, pc = "awaiting", fetch = "ready", Displace(Len(sent)), UNCHANGED sent
  PROVE  OInv'
<1> DEFINE i == Len(sent)
<1>1. /\ Yield(buffer, FALSE) /\ buffer # <<>> /\ buffer \in Blocks
      /\ buffer' = <<i>> /\ held' = <<>> /\ fetch' = "none"
  BY NextPosition DEF Displace, Buffer, OInv, Shape
<1>2. Taken' = i /\ Taken <= Taken'
  BY <1>1, NextPosition DEF Taken
<1>3. Shape'
  BY <1>1, YieldShape, NextPosition, Singleton, Nothing DEF OInv, Shape
<1>4. Len(held') = 0 /\ Len(buffer') = 1 /\ Len(buffer) \in Nat
  BY <1>1, NextPosition, Singleton DEF Blocks
<1>5. Follows(held', Upto(Len(out)) + Len(buffer))
  BY <1>1 DEF Follows
<1>6. Follows(buffer', Upto(Len(out)) + Len(buffer) + Len(held'))
  BY <1>1, <1>4, NextPosition DEF Follows
<1>7. Taken' = Upto(Len(out)) + Len(buffer) + Len(held') + Len(buffer')
  BY <1>2, <1>4, NextPosition
<1> QED
  BY <1>1, <1>2, <1>3, <1>5, <1>6, <1>7, NextPosition, YieldOInv

LEMMA PassThroughOInv ==
  ASSUME OInv, pc = "awaiting", fetch = "ready", PassThrough(Len(sent)), UNCHANGED sent
  PROVE  OInv'
<1> DEFINE i == Len(sent)
<1>1. buffer' = <<>> /\ fetch' = "none" /\ buffer \in Blocks /\ Len(buffer) \in Nat
  BY DEF PassThrough, OInv, Shape, Blocks
<1>2. Taken' = i /\ Taken <= Taken' /\ i \in Nat
  BY <1>1, NextPosition DEF Taken
<1>3. CASE buffer = <<>>
  <2>1. Yield(<<i>>, FALSE) /\ held' = <<>> /\ <<i>> \in Blocks /\ Len(<<i>>) = 1
    BY <1>2, <1>3, NextPosition, Singleton DEF PassThrough
  <2>2. Shape'
    BY <1>1, <2>1, YieldShape, NextPosition DEF OInv, Shape
  <2>3. Follows(<<i>>, Upto(Len(out)))
    BY <1>3, NextPosition DEF Follows
  <2>4. /\ Follows(held', Upto(Len(out)) + Len(<<i>>))
        /\ Follows(buffer', Upto(Len(out)) + Len(<<i>>) + Len(held'))
    BY <1>1, <2>1 DEF Follows
  <2>5. Taken' = Upto(Len(out)) + Len(<<i>>) + Len(held') + Len(buffer')
    BY <1>1, <1>2, <1>3, <2>1, NextPosition
  <2> QED
    BY <1>2, <2>1, <2>2, <2>3, <2>4, <2>5, YieldOInv
<1>4. CASE buffer # <<>>
  <2>1. Yield(buffer, FALSE) /\ held' = <<i>> /\ <<i>> \in Blocks /\ Len(<<i>>) = 1
    BY <1>2, <1>4, Singleton DEF PassThrough
  <2>2. Shape'
    BY <1>1, <2>1, YieldShape DEF OInv, Shape
  <2>3. Follows(held', Upto(Len(out)) + Len(buffer))
    BY <2>1, NextPosition DEF Follows
  <2>4. Follows(buffer', Upto(Len(out)) + Len(buffer) + Len(held'))
    BY <1>1 DEF Follows
  <2>5. Taken' = Upto(Len(out)) + Len(buffer) + Len(held') + Len(buffer')
    BY <1>1, <1>2, <2>1, NextPosition
  <2> QED
    BY <1>1, <1>2, <1>4, <2>1, <2>2, <2>3, <2>4, <2>5, NextPosition, YieldOInv
<1> QED
  BY <1>3, <1>4

(* A timeout, or the end of the source, yields the buffer. *)
LEMMA FlushOInv ==
  ASSUME OInv, Flush \/ Finish
  PROVE  OInv'
<1>1. /\ pc = "awaiting" /\ UNCHANGED <<sent, fetch, held>> /\ buffer' = <<>>
      /\ held = <<>> /\ held' = <<>> /\ Taken' = Taken
  BY DEF Flush, Finish, Taken, OInv, Shape
<1>2. /\ buffer \in Blocks /\ Len(buffer) \in Nat /\ Upto(Len(out)) \in Nat
      /\ Follows(buffer, Upto(Len(out))) /\ Taken = Upto(Len(out)) + Len(buffer)
  <2>1. buffer \in Blocks /\ Len(buffer) \in Nat /\ Upto(Len(out)) \in Nat
    BY UptoType DEF OInv, Shape, Blocks
  <2> QED
    BY <1>1, <2>1 DEF OInv, EveryMessageOnce, Follows
<1>3. CASE buffer = <<>>
  <2>1. UNCHANGED <<out, buffer>> /\ pc' = "done"
    BY <1>1, <1>3 DEF Flush, Finish
  <2> QED
    BY <1>1, <2>1 DEF OInv, Shape, Lasts, EveryMessageOnce, Upto, Follows
<1>4. CASE buffer # <<>>
  <2>1. PICK cut \in BOOLEAN : Yield(buffer, cut)
    BY <1>4 DEF Flush, Finish
  <2>2. Shape'
    BY <1>1, <1>2, <2>1, YieldShape DEF OInv, Shape
  <2>3. /\ Follows(held', Upto(Len(out)) + Len(buffer))
        /\ Follows(buffer', Upto(Len(out)) + Len(buffer) + Len(held'))
    BY <1>1 DEF Follows
  <2>4. Taken' = Upto(Len(out)) + Len(buffer) + Len(held') + Len(buffer')
    BY <1>1, <1>2
  <2> QED
    BY <1>1, <1>2, <1>4, <2>1, <2>2, <2>3, <2>4, YieldOInv
<1> QED
  BY <1>3, <1>4

LEMMA ResumeOInv ==
  ASSUME OInv, Resume
  PROVE  OInv'
<1>1. UNCHANGED <<sent, buffer>> /\ Taken' = Taken /\ Taken \in Nat
  <2>1. UNCHANGED <<sent, buffer>> /\ ((fetch' = "ready") <=> (fetch = "ready"))
    BY DEF Resume, OInv, Shape
  <2>2. Len(sent) \in Nat /\ (fetch = "ready" => Len(sent) > 0)
    BY DEF OInv, Shape
  <2> QED
    BY <2>1, <2>2 DEF Taken
<1>2. CASE held = <<>>
  <2>1. UNCHANGED <<held, out>> /\ Shape'
    BY <1>1, <1>2 DEF Resume, OInv, Shape, Yield
  <2> QED
    BY <1>1, <2>1 DEF OInv, Lasts, EveryMessageOnce, Upto, Follows
<1>3. CASE held # <<>>
  <2>1. /\ Yield(held, FALSE) /\ held' = <<>> /\ UNCHANGED fetch /\ buffer' = <<>> /\ buffer = <<>>
    BY <1>1, <1>3 DEF Resume, OInv, Shape
  <2>6. held \in Blocks /\ Len(held) \in Nat /\ Upto(Len(out)) \in Nat
    <3>1. held \in Seq(Nat) /\ Len(out) \in 0 .. Len(out)
      BY AppendIsSeq DEF OInv, Shape, Blocks
    <3> QED
      BY <3>1, UptoType DEF OInv, Blocks
  <2>2. Shape'
    BY <1>1, <2>1, YieldShape DEF OInv, Shape
  <2>3. Follows(held, Upto(Len(out))) /\ Taken = Upto(Len(out)) + Len(held)
    BY <2>1, <2>6, Nothing DEF OInv, EveryMessageOnce
  <2>4. /\ Follows(held', Upto(Len(out)) + Len(held))
        /\ Follows(buffer', Upto(Len(out)) + Len(held) + Len(held'))
        /\ Len(held') = 0 /\ Len(buffer') = 0
    BY <2>1, Nothing
  <2>5. Taken' = Upto(Len(out)) + Len(held) + Len(held') + Len(buffer')
    BY <1>1, <2>3, <2>4, <2>6
  <2>7. Taken <= Taken'
    BY <1>1
  <2> QED
    BY <1>3, <2>1, <2>2, <2>3, <2>4, <2>5, <2>6, <2>7, YieldOInv
<1> QED
  BY <1>2, <1>3

LEMMA NextOInv == OInv /\ [Next]_vars => OInv'
<1> SUFFICES ASSUME OInv, [Next]_vars
             PROVE  OInv'
  OBVIOUS
<1>1. CASE Take
  BY <1>1, CollectOInv, DisplaceOInv, PassThroughOInv DEF Take
<1>2. CASE Raise \/ UNCHANGED vars
  BY <1>2 DEF Raise, vars, OInv, Shape, Lasts, EveryMessageOnce, Taken, Upto, Follows
<1> QED
  BY <1>1, <1>2, SourceOInv, FlushOInv, ResumeOInv DEF Next

LEMMA InvariantOInv == Spec => []OInv
BY InitOInv, NextOInv, PTL DEF Spec

(* Every message is yielded, held or buffered exactly once and in its order,    *)
(* for any senders, any line numbers and any interleaving with the timeouts.    *)
THEOREM OrderIsKept == Spec => []EveryMessageOnce
<1>1. OInv => EveryMessageOnce
  BY DEF OInv
<1> QED
  BY <1>1, InvariantOInv, PTL

-----------------------------------------------------------------------------
(* WHOLE BLOCKS *)

(* Messages the source has given. *)
Given(b) == b \in Blocks /\ \A j \in DOMAIN b : b[j] \in 1 .. Len(sent)

(* The buffer is a block of the buffer's context; what is held is no line.   *)
Contents ==
  /\ \A k \in DOMAIN out : Given(out[k].block) /\ out[k].block # <<>>
  /\ Given(buffer) /\ Given(held)
  /\ IsBlock(buffer)
  /\ \A j \in DOMAIN buffer : IsLine(buffer[j])
  /\ buffer # <<>> => sent[buffer[1]].context = context
  /\ \A j \in DOMAIN held : ~IsLine(held[j])

(* The last output against what comes after it: the block in the buffer, or,  *)
(* when nothing is held, any line that is still to come.                      *)
Border ==
  out # <<>> =>
    LET last == out[Len(out)]
    IN  /\ buffer # <<>> /\ Continues(last.block, buffer) => last.timedOut
        /\ buffer = <<>> /\ held = <<>> =>
             last.timedOut \/ ~IsLine(last.block[1]) \/ fetch = "ended"

WInv == OInv /\ Contents /\ Border /\ BlocksAreWhole

LEMMA InitWInv == Init => WInv
<1> SUFFICES ASSUME Init PROVE Contents /\ Border /\ BlocksAreWhole
  BY InitOInv DEF WInv
<1> QED
  BY Nothing DEF Init, Contents, Border, BlocksAreWhole, Given, IsBlock

(* What was said of given messages stays true as the source goes on. *)
LEMMA GivenStays ==
  ASSUME sent \in Seq(Messages), sent' = sent \/ \E m \in Messages : sent' = Append(sent, m),
         NEW b, Given(b)
  PROVE  /\ b \in Blocks /\ \A j \in DOMAIN b : b[j] \in 1 .. Len(sent')
         /\ \A j \in DOMAIN b : sent'[b[j]] = sent[b[j]]
<1>1. b \in Blocks /\ \A j \in DOMAIN b : b[j] \in 1 .. Len(sent) /\ b[j] \in Nat
  BY DEF Given, Blocks
<1>2. Len(sent) \in Nat /\ Len(sent') >= Len(sent) /\ Len(sent') \in Nat
      /\ \A i \in 1 .. Len(sent) : sent'[i] = sent[i]
  OBVIOUS
<1> QED
  BY <1>1, <1>2

LEMMA FirstOfBlock ==
  ASSUME NEW b \in Blocks, b # <<>>
  PROVE  1 \in DOMAIN b /\ Len(b) \in Nat /\ Len(b) >= 1 /\ DOMAIN b = 1 .. Len(b)
BY DEF Blocks

(* A block that is yielded borders on the output before it as it should. *)
LEMMA YieldWhole ==
  ASSUME WInv, UNCHANGED sent, NEW b, Given(b), b # <<>>, IsBlock(b),
         NEW cut \in BOOLEAN, Yield(b, cut),
         out # <<>> => (Continues(out[Len(out)].block, b) => out[Len(out)].timedOut)
  PROVE  /\ BlocksAreWhole'
         /\ \A k \in DOMAIN out' : Given(out[k].block)' /\ out'[k].block # <<>>
         /\ out' # <<>> /\ out'[Len(out')].block = b /\ out'[Len(out')].timedOut = cut
<1> DEFINE o == [block |-> b, text |-> Merge(b), timedOut |-> cut]
<1>1. IsSeq(out) /\ out' = Append(out, o)
  BY DEF Yield, WInv, OInv, Shape
<1>2. o.block = b /\ o.timedOut = cut
  OBVIOUS
<1> HIDE DEF o
<1>3. /\ DOMAIN out' = DOMAIN out \union {Len(out')} /\ Len(out') = Len(out) + 1
      /\ \A k \in DOMAIN out : out'[k] = out[k]
      /\ out'[Len(out')] = o /\ Len(out) \in Nat /\ DOMAIN out = 1 .. Len(out)
  BY <1>1, AppendIsSeq
<1>4. out' # <<>>
  <2>1. Len(<<>>) = 0
    BY Nothing
  <2> QED
    BY <1>3, <2>1
<1>5. \A k \in DOMAIN out' : Given(out[k].block)' /\ out'[k].block # <<>>
  <2>1. ASSUME NEW k \in DOMAIN out PROVE Given(out[k].block)' /\ out'[k].block # <<>>
    BY <1>3, <2>1 DEF WInv, Contents, Given
  <2>2. Given(out[Len(out)].block)' /\ out'[Len(out')].block # <<>>
    BY <1>2, <1>3 DEF Given
  <2> QED
    BY <1>3, <2>1, <2>2
<1>6. \A k \in DOMAIN out' : IsBlock(out'[k].block)
  BY <1>2, <1>3 DEF WInv, BlocksAreWhole
<1>7. ASSUME NEW k \in DOMAIN out' \ {1}, Continues(out'[k - 1].block, out'[k].block)
      PROVE  out'[k - 1].timedOut
  <2>1. k - 1 \in DOMAIN out /\ out'[k - 1] = out[k - 1]
    BY <1>3
  <2>2. CASE k \in DOMAIN out
    BY <1>3, <1>7, <2>1, <2>2 DEF WInv, BlocksAreWhole
  <2>3. CASE k = Len(out')
    <3>1. k - 1 = Len(out) /\ out # <<>>
      BY <1>3, <2>1, <2>3, Nothing
    <3> QED
      BY <1>2, <1>3, <1>7, <2>1, <2>3, <3>1
  <2> QED
    BY <1>3, <2>2, <2>3
<1>8. BlocksAreWhole'
  BY <1>6, <1>7 DEF BlocksAreWhole, IsBlock, Continues, IsLine, Number
<1> QED
  BY <1>2, <1>3, <1>4, <1>5, <1>8

(* The source says nothing new of the messages it has given. *)
LEMMA SourceWhole ==
  ASSUME WInv, OInv', UNCHANGED <<buffer, context, held, out>>,
         sent' = sent \/ \E m \in Messages : sent' = Append(sent, m),
         fetch = "ended" => fetch' = "ended"
  PROVE  WInv'
<1>1. sent \in Seq(Messages)
  BY DEF WInv, OInv, Shape
<1>2. \A b : Given(b) => /\ Given(b)'
                         /\ \A j \in DOMAIN b : sent'[b[j]] = sent[b[j]]
  BY <1>1, GivenStays DEF Given
<1>3. /\ Given(buffer) /\ Given(held)
      /\ \A k \in DOMAIN out : Given(out[k].block) /\ out[k].block # <<>>
      /\ \A b : Given(b) /\ b # <<>> => 1 \in DOMAIN b
      /\ buffer # <<>> => 1 \in DOMAIN buffer
  BY FirstOfBlock DEF WInv, Contents, Given
<1>4. Contents'
  BY <1>2, <1>3 DEF WInv, Contents, Given, IsBlock, IsLine, Number
<1>5. IsSeq(out) /\ (out # <<>> => Len(out) \in DOMAIN out)
  <2>1. IsSeq(out)
    BY DEF WInv, OInv, Shape
  <2> QED
    BY <2>1 DEF IsSeq
<1>6. Border'
  BY <1>2, <1>3, <1>5 DEF WInv, Border, Continues, IsLine, Number
<1>7. BlocksAreWhole'
  <2>1. ASSUME NEW k \in DOMAIN out PROVE IsBlock(out[k].block)'
    BY <1>2, <1>3 DEF WInv, BlocksAreWhole, IsBlock, IsLine, Number
  <2>2. ASSUME NEW k \in DOMAIN out \ {1}, Continues(out[k - 1].block, out[k].block)'
        PROVE  out[k - 1].timedOut
    <3>1. k - 1 \in DOMAIN out
      BY <1>5 DEF IsSeq
    <3> QED
      BY <1>2, <1>3, <2>2, <3>1 DEF WInv, BlocksAreWhole, Continues, IsLine, Number
  <2> QED
    BY <2>1, <2>2 DEF BlocksAreWhole, IsBlock, Continues, IsLine, Number
<1> QED
  BY <1>4, <1>6, <1>7 DEF WInv

(* A line joins the buffer. *)
LEMMA CollectWhole ==
  ASSUME WInv, OInv', pc = "awaiting", fetch = "ready", Collect(Len(sent)), UNCHANGED sent
  PROVE  WInv'
<1> DEFINE i == Len(sent)
<1>0. i \in Nat /\ i >= 1 /\ held = <<>> /\ buffer \in Blocks
  BY NextPosition DEF WInv, OInv, Shape, Blocks
<1>1. /\ UNCHANGED <<pc, held, out, sent>> /\ fetch' = "waiting" /\ IsLine(i)
      /\ i \in Nat /\ i >= 1 /\ held = <<>> /\ buffer \in Blocks
      /\ buffer' = Append(buffer, i) /\ Append(buffer, i) # <<>>
  <2>1. Append(buffer, i) # <<>> /\ Append(<<>>, i) = <<i>>
    BY <1>0, Singleton DEF Blocks
  <2>2. buffer' = Append(buffer, i)
    BY <2>1 DEF Collect, Buffer
  <2> QED
    BY <1>0, <2>1, <2>2 DEF Collect, Extends
<1>2. /\ Len(buffer) \in Nat /\ DOMAIN buffer = 1 .. Len(buffer)
      /\ DOMAIN buffer' = 1 .. Len(buffer) + 1
      /\ \A j \in DOMAIN buffer : buffer'[j] = buffer[j]
      /\ buffer'[Len(buffer) + 1] = i /\ buffer' \in Blocks
  BY <1>1 DEF Blocks
<1>3. \A j \in DOMAIN buffer' : j \in DOMAIN buffer \/ j = Len(buffer) + 1
  BY <1>2
<1> HIDE DEF i
<1>4. Given(buffer)' /\ \A j \in DOMAIN buffer' : IsLine(buffer'[j])
  BY <1>1, <1>2, <1>3 DEF WInv, Contents, Given, i
<1>5. CASE buffer = <<>>
  <2>1. Len(buffer) = 0 /\ context' = sent[i].context /\ buffer'[1] = i
    BY <1>2, <1>5, Nothing DEF Collect, Extends, Buffer, i
  <2>2. Contents'
    BY <1>1, <1>2, <1>4, <2>1
       DEF WInv, Contents, Given, IsBlock, IsLine, Number
  <2>3. Border'
    <3>1. ASSUME out # <<>>, Continues(out[Len(out)].block, buffer')
          PROVE  out[Len(out)].timedOut
      <4>1. IsLine(out[Len(out)].block[1]) /\ fetch # "ended"
        BY <3>1 DEF Continues
      <4> QED
        BY <1>1, <1>5, <3>1, <4>1 DEF WInv, Border
    <3> QED
      BY <1>1, <3>1 DEF Border, Continues, IsLine, Number
  <2>4. BlocksAreWhole'
    BY <1>1 DEF WInv, BlocksAreWhole, IsBlock, Continues, IsLine, Number
  <2> QED
    BY <2>2, <2>3, <2>4 DEF WInv
<1>6. CASE buffer # <<>>
  <2>1. /\ 1 \in DOMAIN buffer /\ buffer'[1] = buffer[1]
        /\ sent[i].context = context /\ context' = context /\ Number(i) # 0
    BY <1>1, <1>2, <1>6, FirstOfBlock DEF Collect, Extends, i
  <2>2. IsBlock(buffer')
    BY <1>1, <1>2, <1>3, <1>4, <2>1, <1>6 DEF WInv, Contents, IsBlock
  <2>3. Contents'
    BY <1>1, <1>4, <1>6, <2>1, <2>2
       DEF WInv, Contents, Given, IsBlock, IsLine, Number
  <2>4. Border'
    BY <1>1, <1>6, <2>1 DEF WInv, Border, Continues, IsLine, Number
  <2>5. BlocksAreWhole'
    BY <1>1 DEF WInv, BlocksAreWhole, IsBlock, Continues, IsLine, Number
  <2> QED
    BY <2>3, <2>4, <2>5 DEF WInv
<1> QED
  BY <1>5, <1>6

(* A block is yielded, and what is left in buffer and held borders on it. *)
LEMMA YieldWInv ==
  ASSUME WInv, OInv', UNCHANGED sent, NEW b, Given(b), b # <<>>, IsBlock(b),
         NEW cut \in BOOLEAN, Yield(b, cut),
         out # <<>> => (Continues(out[Len(out)].block, b) => out[Len(out)].timedOut),
         Given(buffer)', Given(held)', IsBlock(buffer'),
         \A j \in DOMAIN buffer' : IsLine(buffer'[j]),
         buffer' # <<>> => sent[buffer'[1]].context = context',
         \A j \in DOMAIN held' : ~IsLine(held'[j]),
         buffer' # <<>> /\ Continues(b, buffer') => cut,
         buffer' = <<>> /\ held' = <<>> => cut \/ ~IsLine(b[1]) \/ fetch' = "ended"
  PROVE  WInv'
<1>1. /\ BlocksAreWhole'
      /\ \A k \in DOMAIN out' : Given(out[k].block)' /\ out'[k].block # <<>>
      /\ out'[Len(out')].block = b /\ out'[Len(out')].timedOut = cut
  BY YieldWhole
<1>2. Contents'
  BY <1>1 DEF Contents, IsBlock, IsLine, Number
<1>3. Border'
  BY <1>1 DEF Border, Continues, IsLine, Number
<1> QED
  BY <1>1, <1>2, <1>3 DEF WInv

LEMMA SingletonGiven ==
  ASSUME WInv, sent' = sent, NEW i, i = Len(sent), i \in Nat, i >= 1
  PROVE  /\ Given(<<i>>) /\ <<i>> # <<>> /\ IsBlock(<<i>>) /\ <<i>>[1] = i
         /\ DOMAIN <<i>> = {1}
BY Singleton DEF Given, IsBlock, Blocks

LEMMA NothingGiven ==
  Given(<<>>) /\ IsBlock(<<>>) /\ DOMAIN <<>> = {}
BY Nothing DEF Given, IsBlock

LEMMA DisplaceWhole ==
  ASSUME WInv, OInv', pc = "awaiting", fetch = "ready", Displace(Len(sent)), UNCHANGED sent
  PROVE  WInv'
<1> DEFINE i == Len(sent)
<1>0. held = <<>> /\ i \in Nat /\ i >= 1
  BY NextPosition DEF WInv, OInv, Shape
<1>1. /\ Yield(buffer, FALSE) /\ buffer # <<>> /\ buffer' = <<i>> /\ context' = sent[i].context
      /\ held' = <<>> /\ IsLine(i) /\ ~Extends(i) /\ i \in Nat /\ i >= 1
  BY <1>0 DEF Displace, Buffer
<1>2. /\ Given(buffer) /\ IsBlock(buffer)
      /\ out # <<>> => (Continues(out[Len(out)].block, buffer) => out[Len(out)].timedOut)
  BY <1>1 DEF WInv, Contents, Border
<1>3. /\ Given(buffer') /\ buffer' # <<>> /\ IsBlock(buffer') /\ buffer'[1] = i
      /\ DOMAIN buffer' = {1}
  BY <1>1, SingletonGiven
<1>4. ~Continues(buffer, buffer')
  BY <1>1, <1>3 DEF Extends, Continues, WInv, Contents
<1>5. Given(held') /\ DOMAIN held' = {}
  BY <1>1, NothingGiven
<1>6. Given(buffer)' /\ Given(held)'
  BY <1>3, <1>5 DEF Given
<1> HIDE DEF i
<1> QED
  BY <1>1, <1>2, <1>3, <1>4, <1>5, <1>6, YieldWInv DEF i

LEMMA PassThroughWhole ==
  ASSUME WInv, OInv', pc = "awaiting", fetch = "ready", PassThrough(Len(sent)), UNCHANGED sent
  PROVE  WInv'
<1> DEFINE i == Len(sent)
<1>1. buffer' = <<>> /\ ~IsLine(i) /\ i \in Nat /\ i >= 1 /\ held = <<>>
  BY NextPosition DEF PassThrough, WInv, OInv, Shape
<1>2. /\ Given(buffer)' /\ IsBlock(buffer') /\ DOMAIN buffer' = {}
  BY <1>1, NothingGiven DEF Given
<1>3. Given(<<i>>) /\ <<i>> # <<>> /\ IsBlock(<<i>>) /\ <<i>>[1] = i /\ DOMAIN <<i>> = {1}
  BY <1>1, SingletonGiven
<1>4. CASE buffer = <<>>
  <2>1. Yield(<<i>>, FALSE) /\ held' = <<>>
    BY <1>1, <1>4 DEF PassThrough
  <2>2. \A b : ~Continues(b, <<i>>)
    BY <1>1, <1>3 DEF Continues
  <2>3. Given(held)' /\ DOMAIN held' = {}
    BY <2>1, NothingGiven DEF Given
  <2> HIDE DEF i
  <2> QED
    BY <1>1, <1>2, <1>3, <2>1, <2>2, <2>3, YieldWInv DEF i
<1>5. CASE buffer # <<>>
  <2>1. Yield(buffer, FALSE) /\ held' = <<i>>
    BY <1>5 DEF PassThrough
  <2>2. /\ Given(buffer) /\ IsBlock(buffer)
        /\ out # <<>> => (Continues(out[Len(out)].block, buffer) => out[Len(out)].timedOut)
    BY <1>5 DEF WInv, Contents, Border
  <2>3. Given(held)' /\ held' # <<>> /\ \A j \in DOMAIN held' : ~IsLine(held'[j])
    BY <1>1, <1>3, <2>1 DEF Given
  <2> HIDE DEF i
  <2> QED
    BY <1>1, <1>2, <1>5, <2>1, <2>2, <2>3, YieldWInv DEF i
<1> QED
  BY <1>4, <1>5

(* After a timeout any line may come; after the end of the source, none. *)
LEMMA FlushWhole ==
  ASSUME WInv, OInv', Flush \/ Finish
  PROVE  WInv'
<1>1. /\ UNCHANGED <<sent, fetch, held, context>> /\ buffer' = <<>> /\ held = <<>>
  BY DEF Flush, Finish, WInv, OInv, Shape
<1>2. Given(buffer') /\ Given(held') /\ IsBlock(buffer') /\ DOMAIN buffer' = {} /\ DOMAIN held' = {}
  BY <1>1, NothingGiven
<1>3. Given(buffer)' /\ Given(held)'
  BY <1>1, <1>2 DEF Given
<1>4. CASE buffer = <<>>
  <2>1. UNCHANGED <<out, buffer>>
    BY <1>1, <1>4 DEF Flush, Finish
  <2> QED
    BY <1>1, <2>1, SourceWhole DEF WInv
<1>5. CASE buffer # <<>>
  <2>1. PICK cut \in BOOLEAN : Yield(buffer, cut) /\ (cut \/ fetch' = "ended")
    BY <1>5 DEF Flush, Finish
  <2>2. /\ Given(buffer) /\ IsBlock(buffer)
        /\ out # <<>> => (Continues(out[Len(out)].block, buffer) => out[Len(out)].timedOut)
    BY <1>5 DEF WInv, Contents, Border
  <2> QED
    BY <1>1, <1>2, <1>3, <1>5, <2>1, <2>2, YieldWInv
<1> QED
  BY <1>4, <1>5

LEMMA ResumeWhole ==
  ASSUME WInv, OInv', Resume
  PROVE  WInv'
<1>1. UNCHANGED <<sent, buffer, context>>
  BY DEF Resume
<1>2. CASE held = <<>>
  BY <1>1, <1>2, SourceWhole DEF Resume, WInv, Yield
<1>3. CASE held # <<>>
  <2>1. /\ Yield(held, FALSE) /\ held' = <<>> /\ buffer = <<>> /\ buffer' = <<>>
        /\ held \in Blocks /\ Len(held) = 1
    BY <1>1, <1>3 DEF Resume, WInv, OInv, Shape
  <2>2. /\ Given(held) /\ 1 \in DOMAIN held /\ ~IsLine(held[1]) /\ DOMAIN held = {1}
    BY <1>3, <2>1, FirstOfBlock DEF WInv, Contents
  <2>3. IsBlock(held) /\ \A b : ~Continues(b, held)
    BY <2>2 DEF IsBlock, Continues
  <2>4. /\ Given(buffer') /\ Given(held') /\ IsBlock(buffer')
        /\ DOMAIN buffer' = {} /\ DOMAIN held' = {}
    BY <2>1, NothingGiven
  <2>5. Given(buffer)' /\ Given(held)'
    BY <1>1, <2>4 DEF Given
  <2> QED
    BY <1>1, <1>3, <2>1, <2>2, <2>3, <2>4, <2>5, YieldWInv
<1> QED
  BY <1>2, <1>3

LEMMA NextWInv == WInv /\ [Next]_vars => WInv'
<1> SUFFICES ASSUME WInv, [Next]_vars PROVE WInv'
  OBVIOUS
<1>0. OInv'
  BY NextOInv DEF WInv
<1>1. CASE Take
  BY <1>0, <1>1, CollectWhole, DisplaceWhole, PassThroughWhole DEF Take
<1>2. ASSUME NEW m \in Messages, Arrive(m) PROVE WInv'
  BY <1>0, <1>2, SourceWhole DEF Arrive
<1>3. ASSUME NEW how \in {"ended", "raised"}, Cease(how) PROVE WInv'
  BY <1>0, <1>3, SourceWhole DEF Cease
<1>4. CASE Raise \/ UNCHANGED vars
  BY <1>0, <1>4, SourceWhole DEF Raise, vars
<1> QED
  BY <1>0, <1>1, <1>2, <1>3, <1>4, FlushWhole, ResumeWhole DEF Next

LEMMA InvariantWInv == Spec => []WInv
BY InitWInv, NextWInv, PTL DEF Spec

(* A yielded block is lines of one sender and channel, with LINE 0 only in      *)
(* front, and a line apart from the block it continues had a timeout before it, *)
(* for any senders, line numbers and interleaving (LineBuffer.add).             *)
THEOREM BlocksAreKeptWhole == Spec => []BlocksAreWhole
<1>1. WInv => BlocksAreWhole
  BY DEF WInv
<1> QED
  BY <1>1, InvariantWInv, PTL

-----------------------------------------------------------------------------
(* INDUCTION *)

LessThan == {p \in Nat \X Nat : p[1] < p[2]}

(* Induction over the numbers, on the least one outside a set. *)
LEMMA Induction ==
  ASSUME NEW T, 0 \in T, \A n \in Nat : n \in T => n + 1 \in T
  PROVE  Nat \subseteq T
<1>1. IsWellFoundedOn(LessThan, Nat)
  <2>1. OpToRel(<, Nat) = LessThan
    BY DEF OpToRel, LessThan
  <2> QED
    BY <2>1, NatLessThanWellFounded
<1> DEFINE Out == Nat \ T
<1> SUFFICES ASSUME Out # {} PROVE FALSE
  OBVIOUS
<1>2. PICK m \in Out : \A y \in Out : ~(<<y, m>> \in LessThan)
  <2>1. Out \subseteq Nat
    OBVIOUS
  <2> HIDE DEF Out
  <2> QED
    BY <1>1, <2>1, WFMin
<1>3. m \in Nat /\ m # 0 /\ m - 1 \in Nat /\ <<m - 1, m>> \in LessThan
  BY DEF LessThan
<1> QED
  BY <1>2, <1>3

LEMMA Greatest ==
  ASSUME NEW n \in Nat, NEW s \in SUBSET (1 .. n), s # {}
  PROVE  Max(s) \in s /\ \A i \in s : i <= Max(s)
<1> DEFINE Bounds == {k \in Nat : \A t \in SUBSET (1 .. k) : t # {} => \E m \in t : \A i \in t : i <= m}
<1>1. 0 \in Bounds
  <2>1. 1 .. 0 = {}
    OBVIOUS
  <2> QED
    BY <2>1
<1>2. ASSUME NEW k \in Nat, k \in Bounds PROVE k + 1 \in Bounds
  <2> SUFFICES ASSUME NEW t \in SUBSET (1 .. k + 1), t # {} PROVE \E m \in t : \A i \in t : i <= m
    OBVIOUS
  <2>1. CASE k + 1 \in t
    BY <2>1
  <2>2. CASE k + 1 \notin t
    <3>1. t \in SUBSET (1 .. k)
      BY <2>2
    <3> QED
      BY <1>2, <3>1
  <2> QED
    BY <2>1, <2>2
<1> HIDE DEF Bounds
<1>3. n \in Bounds
  BY <1>1, <1>2, Induction
<1>4. \E m \in s : \A i \in s : m >= i
  BY <1>3 DEF Bounds
<1>5. s \subseteq Nat
  OBVIOUS
<1> QED
  BY <1>4, <1>5 DEF Max

-----------------------------------------------------------------------------
(* THE TEXT OF A BLOCK *)

(* What a merged text says of the places s of a block, and of all of it. *)
Put(d, i)  == [m \in DOMAIN d \union {Number(i)} |-> IF m = Number(i) THEN i ELSE d[m]]
Part(b, s) == [m \in {Number(b[j]) : j \in s} |-> b[Max({j \in s : Number(b[j]) = m})]]

IsMerge(g, b) ==
  g = [s \in SUBSET DOMAIN b |-> IF s = {} THEN <<>> ELSE Put(g[s \ {Max(s)}], b[Max(s)])]

LEMMA MergeFolds == \A b : Merge(b) = (CHOOSE g : IsMerge(g, b))[DOMAIN b]
BY DEF Merge, FoldLeft, MapThenFoldSet, Put, IsMerge

LEMMA PartGrows ==
  ASSUME NEW b, NEW n \in Nat, DOMAIN b = 1 .. n, NEW s \in SUBSET DOMAIN b, s # {}
  PROVE  Part(b, s) = Put(Part(b, s \ {Max(s)}), b[Max(s)])
<1> DEFINE x == Max(s)
           r == s \ {x}
           At(t, m) == {j \in t : Number(b[j]) = m}
<1>1. x \in s /\ \A i \in s : i <= x
  BY Greatest
<1> HIDE DEF x
<1>2. At(s, Number(b[x])) # {} /\ At(s, Number(b[x])) \in SUBSET (1 .. n) /\ x \in At(s, Number(b[x]))
  BY <1>1
<1>3. Max(At(s, Number(b[x]))) = x
  <2>1. Max(At(s, Number(b[x]))) \in At(s, Number(b[x])) /\ x <= Max(At(s, Number(b[x])))
    BY <1>2, Greatest
  <2>2. x \in Nat /\ Max(At(s, Number(b[x]))) \in s /\ Max(At(s, Number(b[x]))) \in Nat
    BY <1>1, <2>1
  <2> HIDE DEF At
  <2> QED
    BY <1>1, <2>1, <2>2
<1>4. \A m : m # Number(b[x]) => At(s, m) = At(r, m)
  OBVIOUS
<1>5. {Number(b[j]) : j \in s} = {Number(b[j]) : j \in r} \union {Number(b[x])}
  BY <1>1
<1>6. Part(b, s) = [m \in {Number(b[j]) : j \in s} |-> b[Max(At(s, m))]]
      /\ Part(b, r) = [m \in {Number(b[j]) : j \in r} |-> b[Max(At(r, m))]]
  BY DEF Part
<1>7. Put(Part(b, r), b[x]) = [m \in DOMAIN Part(b, r) \union {Number(b[x])} |->
                                 IF m = Number(b[x]) THEN b[x] ELSE Part(b, r)[m]]
  BY DEF Put
<1> HIDE DEF At
<1>8. Part(b, s) = Put(Part(b, r), b[x])
  <2> DEFINE D == {Number(b[j]) : j \in s}
             E == {Number(b[j]) : j \in r}
             P == Put(Part(b, r), b[x])
  <2>1. DOMAIN Part(b, s) = D /\ DOMAIN Part(b, r) = E /\ D = E \union {Number(b[x])}
    BY <1>5, <1>6
  <2>2. ASSUME NEW m \in D PROVE Part(b, s)[m] = P[m]
    <3>1. Part(b, s)[m] = b[Max(At(s, m))]
      BY <1>6
    <3>2. CASE m = Number(b[x])
      BY <1>3, <1>7, <2>1, <3>1, <3>2
    <3>3. CASE m # Number(b[x])
      <4>1. m \in E /\ Part(b, r)[m] = b[Max(At(r, m))]
        BY <1>6, <2>1, <3>3
      <4>2. P[m] = Part(b, r)[m]
        BY <1>7, <2>1, <3>3
      <4> QED
        BY <1>4, <3>1, <3>3, <4>1, <4>2
    <3> QED
      BY <3>2, <3>3
  <2>3. DOMAIN P = D /\ P = [m \in D |-> P[m]]
    BY <1>7, <2>1
  <2>4. Part(b, s) = [m \in D |-> Part(b, s)[m]]
    BY <1>6
  <2> HIDE DEF D, E, P
  <2>5. Part(b, s) = P
    BY <2>2, <2>3, <2>4
  <2> QED
    BY <2>5 DEF P
<1> QED
  BY <1>8 DEF x

LEMMA NoPart == \A b : Part(b, {}) = <<>>
BY DEF Part

LEMMA MergeIsPart ==
  ASSUME NEW b, NEW n \in Nat, DOMAIN b = 1 .. n
  PROVE  Merge(b) = Part(b, DOMAIN b)
<1> DEFINE g == CHOOSE g : IsMerge(g, b)
<1>1. IsMerge([s \in SUBSET DOMAIN b |-> Part(b, s)], b)
  <2> DEFINE p == [s \in SUBSET DOMAIN b |-> Part(b, s)]
  <2>1. \A s \in SUBSET DOMAIN b : p[s] = Part(b, s) /\ s \ {Max(s)} \in SUBSET DOMAIN b
                                   /\ p[s \ {Max(s)}] = Part(b, s \ {Max(s)})
    OBVIOUS
  <2>2. \A s \in SUBSET DOMAIN b : s # {} => p[s] = Put(p[s \ {Max(s)}], b[Max(s)])
    BY <2>1, PartGrows
  <2>3. p[{}] = <<>>
    BY <2>1, NoPart
  <2>4. p = [s \in SUBSET DOMAIN b |-> p[s]]
    OBVIOUS
  <2> DEFINE q == [s \in SUBSET DOMAIN b |-> IF s = {} THEN <<>> ELSE Put(p[s \ {Max(s)}], b[Max(s)])]
  <2>5. \A s \in SUBSET DOMAIN b : p[s] = q[s]
    BY <2>2, <2>3
  <2>6. q = [s \in SUBSET DOMAIN b |-> q[s]]
    OBVIOUS
  <2>7. p = q
    <3> HIDE DEF p, q
    <3> QED
      BY <2>4, <2>5, <2>6
  <2>8. IsMerge(p, b)
    <3> HIDE DEF p
    <3> QED
      BY <2>7 DEF IsMerge
  <2> QED
    BY <2>8
<1>2. IsMerge(g, b)
  BY <1>1
<1> HIDE DEF g
<1>3. g[{}] = <<>> /\ \A s \in SUBSET DOMAIN b : s # {} => g[s] = Put(g[s \ {Max(s)}], b[Max(s)])
  BY <1>2 DEF IsMerge
<1> DEFINE T == {k \in Nat : \A s \in SUBSET DOMAIN b : s \subseteq 1 .. k => g[s] = Part(b, s)}
<1>4. 0 \in T
  <2>1. 1 .. 0 = {}
    OBVIOUS
  <2> QED
    BY <1>3, <2>1, NoPart
<1>5. ASSUME NEW k \in Nat, k \in T PROVE k + 1 \in T
  <2> SUFFICES ASSUME NEW s \in SUBSET DOMAIN b, s \subseteq 1 .. k + 1 PROVE g[s] = Part(b, s)
    OBVIOUS
  <2>1. CASE s = {}
    BY <1>3, <2>1, NoPart
  <2>2. CASE s # {}
    <3>1. Max(s) \in s /\ \A i \in s : i <= Max(s)
      BY <2>2, Greatest
    <3>2. s \ {Max(s)} \in SUBSET DOMAIN b /\ s \ {Max(s)} \subseteq 1 .. k
      BY <3>1
    <3>3. g[s \ {Max(s)}] = Part(b, s \ {Max(s)})
      BY <1>5, <3>2
    <3> HIDE DEF T
    <3> QED
      BY <1>3, <2>2, <3>3, PartGrows
  <2> QED
    BY <2>1, <2>2
<1> HIDE DEF T
<1>6. n \in T
  BY <1>4, <1>5, Induction
<1>7. g[DOMAIN b] = Part(b, DOMAIN b)
  BY <1>6 DEF T
<1> QED
  BY <1>7, MergeFolds DEF g

(* The text of a block: for each of its numbers, that of its last message.   *)
TextOf(b, d) ==
  /\ DOMAIN d = {Number(b[j]) : j \in DOMAIN b}
  /\ \A j \in DOMAIN b : \/ d[Number(b[j])] = b[j]
                         \/ \E l \in DOMAIN b : l > j /\ Number(b[l]) = Number(b[j])

LEMMA MergedText == \A b \in Blocks : TextOf(b, Merge(b))
<1> SUFFICES ASSUME NEW b \in Blocks PROVE TextOf(b, Merge(b))
  OBVIOUS
<1>1. Len(b) \in Nat /\ DOMAIN b = 1 .. Len(b)
  BY DEF Blocks
<1> DEFINE At(m) == {j \in DOMAIN b : Number(b[j]) = m}
           d     == Merge(b)
<1>2. d = Part(b, DOMAIN b)
  BY <1>1, MergeIsPart
<1>3. DOMAIN d = {Number(b[j]) : j \in DOMAIN b} /\ \A j \in DOMAIN b : d[Number(b[j])] = b[Max(At(Number(b[j])))]
  BY <1>2 DEF Part
<1> HIDE DEF d
<1>4. ASSUME NEW j \in DOMAIN b
      PROVE  d[Number(b[j])] = b[j] \/ \E l \in DOMAIN b : l > j /\ Number(b[l]) = Number(b[j])
  <2> DEFINE l == Max(At(Number(b[j])))
  <2>1. At(Number(b[j])) \in SUBSET (1 .. Len(b)) /\ j \in At(Number(b[j]))
    BY <1>1
  <2>2. l \in At(Number(b[j])) /\ j <= l
    <3> HIDE DEF At
    <3> QED
      BY <1>1, <2>1, Greatest
  <2>3. l \in DOMAIN b /\ Number(b[l]) = Number(b[j]) /\ d[Number(b[j])] = b[l]
    BY <1>3, <2>2
  <2>4. j \in Nat /\ l \in Nat
    BY <1>1, <2>3
  <2> HIDE DEF l
  <2> QED
    BY <2>2, <2>3, <2>4
<1> QED
  BY <1>3, <1>4 DEF TextOf, d

(* Only Yield adds an output, and not while the source gives a message. *)
LEMMA NextOutput ==
  ASSUME OInv, [Next]_vars
  PROVE  /\ sent' = sent \/ \E m \in Messages : sent' = Append(sent, m)
         /\ out' = out \/ (sent' = sent /\ \E b \in Blocks, cut \in BOOLEAN : Yield(b, cut))
<1> USE DEF OInv, Shape
<1>1. CASE Take
  <2>1. \A i \in Nat : <<i>> \in Blocks
    BY Singleton
  <2>2. Len(sent) \in Nat
    OBVIOUS
  <2> QED
    BY <1>1, <2>1, <2>2 DEF Take, Collect, Displace, PassThrough, Buffer
<1>2. CASE Flush
  BY <1>2 DEF Flush
<1>3. CASE Finish
  BY <1>3 DEF Finish
<1>4. CASE Resume
  BY <1>4 DEF Resume
<1>5. ASSUME NEW m \in Messages, Arrive(m)
      PROVE  sent' = Append(sent, m) /\ out' = out
  BY <1>5 DEF Arrive
<1>6. ASSUME NEW how \in {"ended", "raised"}, Cease(how)
      PROVE  sent' = sent /\ out' = out
  BY <1>6 DEF Cease
<1>7. CASE Raise \/ UNCHANGED vars
  BY <1>7 DEF Raise, vars
<1> QED
  BY <1>1, <1>2, <1>3, <1>4, <1>5, <1>6, <1>7 DEF Next

LEMMA NextText == WInv /\ LastTextWins /\ [Next]_vars => LastTextWins'
<1> SUFFICES ASSUME WInv, LastTextWins, [Next]_vars PROVE LastTextWins'
  OBVIOUS
<1>1. /\ sent' = sent \/ \E m \in Messages : sent' = Append(sent, m)
      /\ out' = out \/ (sent' = sent /\ \E b \in Blocks, cut \in BOOLEAN : Yield(b, cut))
      /\ sent \in Seq(Messages) /\ IsSeq(out)
  BY NextOutput DEF WInv, OInv, Shape
<1>2. ASSUME NEW k \in DOMAIN out, out'[k] = out[k]
      PROVE  TextOf(out[k].block, out[k].text)'
  <2> DEFINE b == out[k].block
             d == out[k].text
  <2>1. TextOf(b, d) /\ Given(b)
    BY DEF LastTextWins, TextOf, WInv, Contents
  <2>2. \A j \in DOMAIN b : sent'[b[j]] = sent[b[j]]
    BY <1>1, <2>1, GivenStays
  <2> HIDE DEF b, d
  <2>3. /\ DOMAIN d = {sent'[b[j]].number : j \in DOMAIN b}
        /\ \A j \in DOMAIN b : \/ d[sent'[b[j]].number] = b[j]
                               \/ \E l \in DOMAIN b : l > j /\ sent'[b[l]].number = sent'[b[j]].number
    BY <2>1, <2>2 DEF TextOf, Number
  <2>4. out'[k].block = b /\ out'[k].text = d
    BY <1>2 DEF b, d
  <2> QED
    BY <2>3, <2>4 DEF TextOf, Number
<1>3. CASE out' = out
  BY <1>2, <1>3 DEF LastTextWins, TextOf
<1>4. CASE sent' = sent /\ \E b \in Blocks, cut \in BOOLEAN : Yield(b, cut)
  <2>1. PICK b \in Blocks, cut \in BOOLEAN : Yield(b, cut)
    BY <1>4
  <2> DEFINE o == [block |-> b, text |-> Merge(b), timedOut |-> cut]
  <2>2. out' = Append(out, o)
    BY <2>1 DEF Yield
  <2>3. o.block = b /\ o.text = Merge(b)
    OBVIOUS
  <2> HIDE DEF o
  <2>4. /\ DOMAIN out' = DOMAIN out \union {Len(out')}
        /\ \A k \in DOMAIN out : out'[k] = out[k]
        /\ out'[Len(out')] = o
    BY <1>1, <2>2, AppendIsSeq
  <2>5. TextOf(o.block, o.text)
    BY <2>3, MergedText
  <2>6. \A k \in DOMAIN out' : TextOf(out[k].block, out[k].text)'
    <3> SUFFICES ASSUME NEW k \in DOMAIN out' PROVE TextOf(out[k].block, out[k].text)'
      OBVIOUS
    <3>2. CASE k \in DOMAIN out
      BY <1>2, <2>4, <3>2
    <3>3. CASE k = Len(out')
      <4>1. TextOf(out'[k].block, out'[k].text)
        BY <2>4, <2>5, <3>3
      <4> QED
        BY <1>4, <4>1 DEF TextOf, Number
    <3> QED
      BY <2>4, <3>2, <3>3
  <2> QED
    BY <2>6 DEF LastTextWins, TextOf
<1> QED
  BY <1>1, <1>3, <1>4

(* In a yielded message each line number has the text of the last of its        *)
(* messages in the block, for blocks of any length (LineBuffer._merge).         *)
THEOREM LastTextIsKept == Spec => []LastTextWins
<1>1. Init => LastTextWins
  BY DEF Init, LastTextWins
<1> QED
  BY <1>1, InvariantWInv, NextText, PTL DEF Spec

==============================================================================
