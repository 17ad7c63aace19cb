---------------------------- MODULE CoPRESTClient ----------------------------
(***************************************************************************)
(* Sending one record to the CoP REST API (output/cop_rest_client.py), as  *)
(* seen by the asyncio task that awaits it.  A call suspends its task only *)
(* while a POST is outstanding ("posting") or while tenacity sleeps before *)
(* the next attempt ("backoff"); every other path completes at once.       *)
(*                                                                         *)
(* The CoP server is external: a POST it receives is applied or not, and   *)
(* one that failed or timed out may have been applied.                     *)
(***************************************************************************)
EXTENDS CoPSchema

CONSTANTS
  Pipeline,       \* the task that runs run_replay: the only caller of push_update
  Operators,      \* tasks that serve requests to the admin API
  RetryAttempts   \* retry_attempts

Tasks == {Pipeline} \union Operators

ASSUME ClientAssumption == RetryAttempts \in Nat \ {0}

VARIABLES
  transport,  \* how the writer was constructed; never changes
  client,     \* CoPRESTClient._client is not None
  send,       \* per task: the state of its current send
  attempt,    \* per task: tenacity's attempt number
  cop         \* how many times the server applied each record

restVars == <<transport, client, send, attempt, cop>>

Transports == {"live", "dry_run", "legacy", "local"}
SendStates == {"none", "posting", "backoff", "ok", "failed"}

RestTypeOK ==
  /\ transport \in Transports
  /\ client \in BOOLEAN
  /\ send \in [Tasks -> SendStates]
  /\ attempt \in [Tasks -> 0 .. RetryAttempts]
  /\ cop \in [Records -> Nat]

RestInit ==
  /\ transport \in Transports
  /\ client = FALSE
  /\ send = [t \in Tasks |-> "none"]
  /\ attempt = [t \in Tasks |-> 0]
  /\ cop = [r \in Records |-> 0]

(* The task has to wait for the network or for a timer. *)
Suspended(t) == send[t] \in {"posting", "backoff"}

(* open: in dry-run mode no client is created. *)
Open ==
  /\ transport = "live"
  /\ client' = TRUE
  /\ UNCHANGED <<transport, send, attempt, cop>>

Close ==
  /\ client
  /\ client' = FALSE
  /\ UNCHANGED <<transport, send, attempt, cop>>

(* _do_post: without a client the attempt raises AttributeError, which is no  *)
(* transient failure, so the send fails at once.                              *)
DoPost(t, n) ==
  /\ send' = [send EXCEPT ![t] = IF client THEN "posting" ELSE "failed"]
  /\ attempt' = [attempt EXCEPT ![t] = n]

(* The adapter's map raises (a transform of the mapping does not take the     *)
(* value, for instance): nothing is sent, and the writer counts an error.     *)
MapRaises(t) ==
  /\ send' = [send EXCEPT ![t] = "failed"]
  /\ UNCHANGED attempt

(* send_record *)
SendRecord(t) ==
  /\ send[t] = "none"
  /\ \/ /\ transport \in {"dry_run", "live"}
        /\ MapRaises(t)
     \/ /\ transport = "dry_run"
        /\ send' = [send EXCEPT ![t] = "ok"]
        /\ UNCHANGED attempt
     \/ /\ transport = "live"
        /\ DoPost(t, 1)
  /\ UNCHANGED <<transport, client, cop>>

\* Fault: any response counts as a success.
Respond_AnyStatus(t, r) ==
  /\ send[t] = "posting"
  /\ send' = [send EXCEPT ![t] = "ok"]
  /\ cop' \in {cop, [cop EXCEPT ![r] = @ + 1]}
  /\ UNCHANGED <<transport, client, attempt>>

(* The POST of record r returns a response: 2xx, or any other status (5xx     *)
(* included, which is not retried), or an exception that is not transient.    *)
(* The server may have applied the record before either of these.             *)
Respond(t, r) ==
  /\ send[t] = "posting"
  /\ \/ /\ send' = [send EXCEPT ![t] = "ok"]
        /\ cop' = [cop EXCEPT ![r] = @ + 1]
     \/ /\ send' = [send EXCEPT ![t] = "failed"]
        /\ cop' \in {cop, [cop EXCEPT ![r] = @ + 1]}
  /\ UNCHANGED <<transport, client, attempt>>

\* Fault: one attempt too many.
MayRetry_OffByOne(t) == transport = "live" /\ attempt[t] <= RetryAttempts

(* Only the REST client retries, and only this often. *)
MayRetry(t) == transport = "live" /\ attempt[t] < RetryAttempts

(* TimeoutException or ConnectError: the server may have applied the record.  *)
Expire(t, r) ==
  /\ send[t] = "posting"
  /\ cop' \in {cop, [cop EXCEPT ![r] = @ + 1]}
  /\ send' = [send EXCEPT ![t] = IF MayRetry(t) THEN "backoff" ELSE "failed"]
  /\ UNCHANGED <<transport, client, attempt>>

\* Fault: attempts are not counted, so the client never gives up.
Retry_Forever(t) ==
  /\ send[t] = "backoff"
  /\ DoPost(t, attempt[t])
  /\ UNCHANGED <<transport, client, cop>>

(* The backoff sleep ends and tenacity calls _do_post again. *)
Retry(t) ==
  /\ send[t] = "backoff"
  /\ DoPost(t, attempt[t] + 1)
  /\ UNCHANGED <<transport, client, cop>>
==============================================================================
