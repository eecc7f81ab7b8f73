----------------------------- MODULE HttpClient -----------------------------
(***************************************************************************)
(* HttpClient.request: one logical request of a call becomes up to         *)
(* Attempts(c, r) attempts on the wire.  A 5xx answer and a network error  *)
(* are tried again after a backoff while attempts are left; the last       *)
(* attempt hands its answer, or its error, to the caller.                  *)
(*                                                                         *)
(* The caller (a module that EXTENDS this one) conjoins its own reaction   *)
(* to HttpReturn, HttpRaise, HttpRefuse and HttpCancel, and owns the       *)
(* server: it takes attempts off `wire' and puts answers into `reply'.     *)
(* An attempt the client has given up on stays on the wire: the server may *)
(* still execute it, late, or never.                                       *)
(***************************************************************************)
EXTENDS Naturals

CONSTANTS
    Calls,      \* the calls in progress, each of them a task with one request at a time
    Retries,    \* RetryPolicy.max_retries of the client each call uses
    NoKey,      \* the idempotency key of a request that carries none
    NoRequest,  \* pending[c] when c is not inside HttpClient.request
    NoReply     \* reply[c] while the server has not answered the attempt

VARIABLES
    pending,  \* the request c is executing
    attempt,  \* the number of the attempt in progress, 0 outside request()
    phase,    \* "quiet" outside request(), "sent" or "backoff" inside
    reply,    \* the answer of the server to the attempt in progress
    wire      \* the attempts the server has not executed yet

httpVars == <<pending, attempt, phase, reply, wire>>

Phases == {"quiet", "sent", "backoff"}

HttpInit ==
    /\ pending = [c \in Calls |-> NoRequest]
    /\ attempt = [c \in Calls |-> 0]
    /\ phase = [c \in Calls |-> "quiet"]
    /\ reply = [c \in Calls |-> NoReply]
    /\ wire = {}

Message(c, r, n) == [call |-> c, attempt |-> n, request |-> r]

BugRetryEverything(c, r) == Retries[c]

\* A request that is neither idempotent nor keyed has exactly one attempt.
Attempts(c, r) ==
    IF r.idempotent \/ r.key # NoKey THEN Retries[c] ELSE 1

\* The test `attempt < attempts' of the loop.
MoreAttempts(c) == attempt[c] < Attempts(c, pending[c])

Leave(c) ==
    /\ pending' = [pending EXCEPT ![c] = NoRequest]
    /\ attempt' = [attempt EXCEPT ![c] = 0]
    /\ phase' = [phase EXCEPT ![c] = "quiet"]
    /\ reply' = [reply EXCEPT ![c] = NoReply]
    /\ wire' = wire

\* Enter the loop with its first attempt.
HttpSend(c, r) ==
    /\ phase[c] = "quiet"
    /\ Attempts(c, r) >= 1
    /\ pending' = [pending EXCEPT ![c] = r]
    /\ attempt' = [attempt EXCEPT ![c] = 1]
    /\ phase' = [phase EXCEPT ![c] = "sent"]
    /\ wire' = wire \union {Message(c, r, 1)}
    /\ UNCHANGED reply

\* Zero attempts configured: the loop body never runs, request() raises
\* "Unknown transport error" and nothing was sent.
HttpRefuse(c, r) ==
    /\ phase[c] = "quiet"
    /\ Attempts(c, r) = 0
    /\ UNCHANGED httpVars

\* A 5xx answer with attempts left.
HttpRetryAnswer(c) ==
    /\ phase[c] = "sent"
    /\ reply[c] # NoReply
    /\ reply[c].status >= 500
    /\ MoreAttempts(c)
    /\ phase' = [phase EXCEPT ![c] = "backoff"]
    /\ reply' = [reply EXCEPT ![c] = NoReply]
    /\ UNCHANGED <<pending, attempt, wire>>

\* httpx raised TimeoutException or another HTTPError, with attempts left.  An
\* answer the server has sent may be the one that is lost.
HttpRetryError(c) ==
    /\ phase[c] = "sent"
    /\ MoreAttempts(c)
    /\ phase' = [phase EXCEPT ![c] = "backoff"]
    /\ reply' = [reply EXCEPT ![c] = NoReply]
    /\ UNCHANGED <<pending, attempt, wire>>

BugHttpResend(c) ==
    /\ phase[c] = "backoff"
    /\ phase' = [phase EXCEPT ![c] = "sent"]
    /\ wire' = wire \union {Message(c, pending[c], attempt[c])}
    /\ UNCHANGED <<pending, attempt, reply>>

\* The backoff sleep is over: next iteration of the loop.
HttpResend(c) ==
    /\ phase[c] = "backoff"
    /\ attempt' = [attempt EXCEPT ![c] = @ + 1]
    /\ phase' = [phase EXCEPT ![c] = "sent"]
    /\ wire' = wire \union {Message(c, pending[c], attempt[c] + 1)}
    /\ UNCHANGED <<pending, reply>>

\* request() returns reply[c]: any answer below 500, or the last 5xx.
HttpReturn(c) ==
    /\ phase[c] = "sent"
    /\ reply[c] # NoReply
    /\ reply[c].status >= 500 => ~MoreAttempts(c)
    /\ Leave(c)

\* request() raises a TransportError: a network error on the last attempt.
HttpRaise(c) ==
    /\ phase[c] = "sent"
    /\ ~MoreAttempts(c)
    /\ Leave(c)

\* The task of c is cancelled while it awaits the answer or the backoff.
HttpCancel(c) ==
    /\ phase[c] # "quiet"
    /\ Leave(c)

BugRaisedRetryable(c) == TRUE

\* `retryable=attempt < attempts' of the TransportError that leaves request().
RaisedRetryable(c) == MoreAttempts(c)
=============================================================================
