------------------------------ MODULE Multiline ------------------------------
(***************************************************************************)
(* Reassembly of numbered LINE messages (ingestion/multiline.py): a        *)
(* generator between a message source and the pipeline.  It fetches one    *)
(* message at a time in a task of its own, which goes on while the         *)
(* pipeline has an output and while the generator waits with a timeout.    *)
(* A message is known by its position in what the source has given.        *)
(***************************************************************************)
EXTENDS Naturals, Sequences, SequencesExt

CONSTANTS
  Contexts,     \* a channel and a sender on it
  Numbers,      \* numbers of LINE messages
  Plain,        \* in place of a number: the message has no LINE prefix
  NoContext,    \* the empty _channel and _sender
  MaxMessages   \* bound: messages the source gives

ASSUME MultilineAssumption ==
  /\ Numbers \subseteq Nat
  /\ Plain \notin Numbers
  /\ NoContext \notin Contexts
  /\ MaxMessages \in Nat

VARIABLES
  sent,     \* the messages of the source, in order
  fetch,    \* the state of pending_next
  pc,       \* where the generator is
  buffer,   \* _buffer
  context,  \* _channel and _sender
  held,     \* a message to be yielded after the block before it, or none
  out       \* history: what was yielded, and whether a timeout had cut it off

vars == <<sent, fetch, pc, buffer, context, held, out>>

Messages == [context : Contexts, number : Numbers \union {Plain}]
Positions == 1 .. MaxMessages

(* A yielded message: the messages it stands for and its text, which for each *)
(* line number is that of one of them.                                        *)
Outputs ==
  [block    : Seq(Positions),
   text     : UNION {[N -> Positions] : N \in SUBSET (Numbers \union {Plain})},
   timedOut : BOOLEAN]

TypeOK ==
  /\ sent \in Seq(Messages) /\ Len(sent) <= MaxMessages
  /\ fetch \in {"none", "waiting", "ready", "ended", "raised"}
  /\ pc \in {"consumer", "awaiting", "done"}
  /\ buffer \in Seq(Positions)
  /\ context \in Contexts \union (IF buffer = <<>> THEN {NoContext} ELSE {})
  /\ held \in Seq(Positions) /\ Len(held) <= 1
  /\ \A k \in DOMAIN out : out[k] \in Outputs

Init ==
  /\ sent = <<>>
  /\ fetch = "none"
  /\ pc = "consumer"
  /\ buffer = <<>>
  /\ context = NoContext
  /\ held = <<>>
  /\ out = <<>>

-----------------------------------------------------------------------------
(* THE SOURCE, which runs only while it is being fetched from. *)

Arrive(m) ==
  /\ fetch = "waiting"
  /\ Len(sent) < MaxMessages
  /\ sent' = Append(sent, m)
  /\ fetch' = "ready"
  /\ UNCHANGED <<pc, buffer, context, held, out>>

(* It ends, or raises. *)
Cease(how) ==
  /\ fetch = "waiting"
  /\ fetch' = how
  /\ UNCHANGED <<sent, pc, buffer, context, held, out>>

-----------------------------------------------------------------------------
(* THE BUFFER *)

Number(i) == sent[i].number
IsLine(i) == Number(i) # Plain

\* Fault: a number that is taken keeps its first text.
Merge_KeepsFirst(block) ==
  LET Put(d, i) == [n \in DOMAIN d \union {Number(i)} |-> IF n \in DOMAIN d THEN d[n] ELSE i]
  IN  FoldLeft(Put, <<>>, block)

(* _merge: lines_by_num, which is then written out by number. *)
Merge(block) ==
  LET Put(d, i) == [n \in DOMAIN d \union {Number(i)} |-> IF n = Number(i) THEN i ELSE d[n]]
  IN  FoldLeft(Put, <<>>, block)

(* The generator yields a block: of a buffer with one message, that message. *)
Yield(block, cut) ==
  /\ out' = Append(out, [block |-> block, text |-> Merge(block), timedOut |-> cut])
  /\ pc' = "consumer"

(* A block begins. *)
Buffer(i) ==
  /\ buffer' = <<i>>
  /\ context' = sent[i].context

\* Fault: LINE 0 does not begin a new block.
Extends_PastZero(i) ==
  /\ IsLine(i)
  /\ buffer # <<>>
  /\ sent[i].context = context

(* The message continues the block in the buffer. *)
Extends(i) ==
  /\ IsLine(i)
  /\ buffer # <<>>
  /\ sent[i].context = context
  /\ Number(i) # 0

(* No output: the next message is fetched in the same turn. *)
Collect(i) ==
  /\ \/ /\ Extends(i)
        /\ buffer' = Append(buffer, i)
        /\ UNCHANGED context
     \/ /\ IsLine(i)
        /\ buffer = <<>>
        /\ Buffer(i)
  /\ fetch' = "waiting"
  /\ UNCHANGED <<pc, held, out>>

(* A line of another block pushes the block in the buffer out. *)
Displace(i) ==
  /\ IsLine(i)
  /\ buffer # <<>>
  /\ ~Extends(i)
  /\ Yield(buffer, FALSE)
  /\ Buffer(i)
  /\ fetch' = "none"
  /\ UNCHANGED held

\* Fault: add's caller forgets the message that displaced the block.
PassThrough_DropsDisplacer(i) ==
  /\ ~IsLine(i)
  /\ \/ /\ buffer = <<>>
        /\ Yield(<<i>>, FALSE)
        /\ UNCHANGED context
     \/ /\ buffer # <<>>
        /\ Yield(buffer, FALSE)
        /\ context' = NoContext
  /\ buffer' = <<>>
  /\ fetch' = "none"
  /\ UNCHANGED held

(* Any other message goes through, after the block in the buffer. *)
PassThrough(i) ==
  /\ ~IsLine(i)
  /\ \/ /\ buffer = <<>>
        /\ Yield(<<i>>, FALSE)
        /\ UNCHANGED <<context, held>>
     \/ /\ buffer # <<>>
        /\ Yield(buffer, FALSE)
        /\ held' = <<i>>
        /\ context' = NoContext
  /\ buffer' = <<>>
  /\ fetch' = "none"

-----------------------------------------------------------------------------
(* THE GENERATOR *)

(* The fetched message is taken: add, and the yields that follow from it. *)
Take ==
  /\ pc = "awaiting"
  /\ fetch = "ready"
  /\ LET i == Len(sent) IN Collect(i) \/ Displace(i) \/ PassThrough(i)
  /\ UNCHANGED sent

\* Fault: a single line is no block, and is not waited for with a timeout.
Flush_LongBlocksOnly ==
  /\ pc = "awaiting"
  /\ fetch = "waiting"
  /\ Len(buffer) > 1
  /\ Yield(buffer, TRUE)
  /\ buffer' = <<>>
  /\ UNCHANGED <<sent, fetch, context, held>>

(* The timeout of a wait with lines in the buffer; the fetch goes on. *)
Flush ==
  /\ pc = "awaiting"
  /\ fetch = "waiting"
  /\ buffer # <<>>
  /\ Yield(buffer, TRUE)
  /\ buffer' = <<>>
  /\ UNCHANGED <<sent, fetch, context, held>>

(* The source has ended: what is left is yielded, then the generator ends... *)
Finish ==
  /\ pc = "awaiting"
  /\ fetch = "ended"
  /\ IF buffer = <<>> THEN pc' = "done" /\ UNCHANGED out ELSE Yield(buffer, FALSE)
  /\ buffer' = <<>>
  /\ UNCHANGED <<sent, fetch, context, held>>

(* ...or it has raised, and its exception ends the generator as it is. *)
Raise ==
  /\ pc = "awaiting"
  /\ fetch = "raised"
  /\ pc' = "done"
  /\ UNCHANGED <<sent, fetch, buffer, context, held, out>>

(* The pipeline asks for the next message: the one held, or what is to come. *)
Resume ==
  /\ pc = "consumer"
  /\ \/ /\ held # <<>>
        /\ Yield(held, FALSE)
        /\ held' = <<>>
        /\ UNCHANGED fetch
     \/ /\ held = <<>>
        /\ pc' = "awaiting"
        /\ fetch' = IF fetch = "none" THEN "waiting" ELSE fetch
        /\ UNCHANGED <<held, out>>
  /\ UNCHANGED <<sent, buffer, context>>

Next ==
  \/ \E m \in Messages : Arrive(m)
  \/ \E how \in {"ended", "raised"} : Cease(how)
  \/ Take
  \/ Flush
  \/ Finish
  \/ Raise
  \/ Resume

Spec == Init /\ [][Next]_vars

(* The pipeline goes on asking, and timers fire; the source may stay silent. *)
FairSpec == Spec /\ WF_vars(Take) /\ WF_vars(Flush) /\ WF_vars(Finish)
                 /\ WF_vars(Raise) /\ WF_vars(Resume)

-----------------------------------------------------------------------------
(* PROPERTIES *)

Taken == IF fetch = "ready" THEN Len(sent) - 1 ELSE Len(sent)

(* The last message of the first k outputs; b holds the messages after it. *)
Upto(k) == IF k = 0 THEN 0 ELSE Last(out[k].block)
Follows(b, last) == \A j \in DOMAIN b : b[j] = last + j

(* Every message the source has given is yielded once, held or buffered, in   *)
(* the order it came, however arrivals, timeouts and the pipeline's requests  *)
(* interleave (reassemble_multiline, lines 149-181).                          *)
EveryMessageOnce ==
  LET yielded == Upto(Len(out))
  IN  /\ \A k \in DOMAIN out :
           out[k].block # <<>> /\ Follows(out[k].block, Upto(k - 1))
      /\ Follows(held, yielded)
      /\ Follows(buffer, yielded + Len(held))
      /\ Taken = yielded + Len(held) + Len(buffer)

(* A block is what its messages say: lines of one sender and channel, with    *)
(* LINE 0 only in front; and it is whole: a line that continues the block     *)
(* before it is apart from it only when a timeout came between.               *)
IsBlock(b) ==
  \A j \in DOMAIN b \ {1} :
    /\ IsLine(b[j]) /\ IsLine(b[1])
    /\ Number(b[j]) # 0
    /\ sent[b[j]].context = sent[b[1]].context

Continues(b, c) ==
  /\ IsLine(b[1]) /\ IsLine(c[1])
  /\ Number(c[1]) # 0
  /\ sent[c[1]].context = sent[b[1]].context

BlocksAreWhole ==
  /\ \A k \in DOMAIN out : IsBlock(out[k].block)
  /\ \A k \in DOMAIN out \ {1} :
       Continues(out[k - 1].block, out[k].block) => out[k - 1].timedOut

(* The text of a message is lost only to a later line with its number in the  *)
(* same block (lines_by_num, lines 54-65).                                    *)
LastTextWins ==
  \A k \in DOMAIN out :
    LET b == out[k].block
    IN  /\ DOMAIN out[k].text = {Number(b[j]) : j \in DOMAIN b}
        /\ \A j \in DOMAIN b :
             \/ out[k].text[Number(b[j])] = b[j]
             \/ \E l \in DOMAIN b : l > j /\ Number(b[l]) = Number(b[j])

(* No message is kept for good while the source is silent, as long as the     *)
(* source does not raise.                                                     *)
IsOut(i) == \E k \in DOMAIN out : \E j \in DOMAIN out[k].block : out[k].block[j] = i

EveryMessageComesOut ==
  \A i \in Positions : Len(sent) >= i ~> IsOut(i) \/ fetch = "raised"
===============================================================================
