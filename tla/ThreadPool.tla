------------------------------ MODULE ThreadPool ------------------------------
(***************************************************************************)
(* The default thread pool of the event loop, as the backends with a       *)
(* blocking client use it (backend/bedrock.py, anthropic_direct.py,        *)
(* asksage.py): a call of the client is queued, runs on a thread, and goes *)
(* on there when its caller has given it up.                               *)
(***************************************************************************)
EXTENDS Naturals, FiniteSets

CONSTANTS
  Callers,       \* tasks that call a backend
  Threads,       \* threads of the pool
  QueryRetries   \* max_retries of AskSageBackend

ASSUME PoolAssumption == Threads \in Nat \ {0} /\ QueryRetries \in Nat

(* Who waits for a call that runs, how many threads run a call nobody waits *)
(* for, and how often each caller's query was repeated.                     *)
Pool == [busy : SUBSET Callers, stuck : Nat, tries : [Callers -> Nat]]

IdlePool == [busy |-> {}, stuck |-> 0, tries |-> [c \in Callers |-> 0]]

Full(p) == Cardinality(p.busy) + p.stuck >= Threads

(* run_in_executor: the first query of a call is queued. *)
Submitted(p, c) == [p EXCEPT !.tries[c] = 0]

(* A thread takes it... *)
Started(p, c) == [p EXCEPT !.busy = @ \union {c}]

(* ...and ends it. *)
Freed(p, c) == [p EXCEPT !.busy = @ \ {c}]

(* AskSageBackend queries again. *)
Requeued(p, c) == [Freed(p, c) EXCEPT !.tries[c] = @ + 1]

(* wait_for cancels: a call still in the queue is withdrawn, one that runs    *)
(* cannot be and keeps its thread.                                            *)
Abandoned(p, c) ==
  [p EXCEPT !.busy = @ \ {c}, !.stuck = IF c \in p.busy THEN @ + 1 ELSE @]
==============================================================================
