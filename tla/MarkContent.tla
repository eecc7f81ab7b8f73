---------------------------- MODULE MarkContent ----------------------------
(***************************************************************************)
(* The document of a mark is fetched from PortoMark.content, by a          *)
(* coroutine that goes through HttpClient or by a plain function that goes *)
(* through httpx itself, and is then checked to be one.  Both ways have a  *)
(* loop of their own.  They are put before the same server here, which     *)
(* gives the n-th request of either the n-th answer of a script.           *)
(*                                                                         *)
(* The pauses between the attempts, and the clients, which are closed at   *)
(* the end whatever happens, are left out.                                 *)
(***************************************************************************)
EXTENDS Naturals, Sequences

CONSTANTS
    Answers,     \* [lost: {"no", "timeout", "network"}, status: Nat, body: Bodies] 
    MaxRetries   \* bound on the retries that a caller asks for, and on those of a client

VARIABLES
    mark,      \* the mark, with what the caller asks of both ways
    script,    \* the answers of the server
    requests,  \* how many requests each way has made
    outcome    \* what each way has ended with

contentVars == <<mark, script, requests, outcome>>

Ways == {"async", "sync"}

Bodies == {"pdf", "png", "other", "none"}

\* content: what PortoMark.content holds; pdf: whether content_type says so;
\* normalize: what the adapter does with other documents; own: whether the
\* coroutine makes a client of its own; injected: the retries of one it is given.
Marks ==
    [content : {"empty", "local", "remote"}, pdf : BOOLEAN, normalize : {"none", "accepts", "raises"},
     retries : 0 .. MaxRetries, own : BOOLEAN, injected : 1 .. MaxRetries]

ASSUME ContentAssumption == MaxRetries \in Nat

NoMark == [content |-> "empty", pdf |-> FALSE, normalize |-> "none", retries |-> 0, own |-> TRUE, injected |-> 1]

Outcome(code, retryable, body) == [code |-> code, retryable |-> retryable, body |-> body]

Unfinished == Outcome("none", FALSE, "none")

Cancelled == Outcome("CancelledError", FALSE, "none")

Unsupported == Outcome("PORTO_MARK_FAILED", FALSE, "none")

\* normalize_mark_document: what the mark declares a PDF is not looked at.
Normalized(m, body) ==
    IF m.pdf \/ body \in {"pdf", "png"} THEN Outcome("ok", FALSE, body)
    ELSE IF m.normalize = "accepts" THEN Outcome("ok", FALSE, "png")
    ELSE Unsupported

Refused(status) ==
    Outcome(IF status < 500 THEN "PORTO_MARK_FAILED" ELSE "PORTO_NETWORK_UNAVAILABLE",
            status >= 500 \/ status = 429, "none")

LostCode(lost) == IF lost = "timeout" THEN "PORTO_NETWORK_TIMEOUT" ELSE "PORTO_NETWORK_UNAVAILABLE"

\* No attempt at all.
Untried == Outcome("PORTO_NETWORK_UNAVAILABLE", FALSE, "none")
-----------------------------------------------------------------------------
Attempts(m, way) == IF way = "async" /\ ~m.own THEN m.injected ELSE m.retries

\* HttpClient repeats what was lost and what the server failed at ...
AsyncRepeats(answer) == answer.lost # "no" \/ answer.status >= 500

BugSyncRepeats(answer) == answer.lost = "network" \/ answer.status >= 500 \/ answer.status = 429

\* ... the plain function also what came too soon.
SyncRepeats(answer) == answer.lost # "no" \/ answer.status >= 500 \/ answer.status = 429

Repeats(way, answer) == IF way = "async" THEN AsyncRepeats(answer) ELSE SyncRepeats(answer)

\* The outcome of the n-th attempt for m when it is the last one.
Final(m, way, answer, n) ==
    IF answer.lost # "no" THEN Outcome(LostCode(answer.lost), n < Attempts(m, way), "none")
    ELSE IF answer.status >= 400 THEN Refused(answer.status)
    ELSE Normalized(m, answer.body)
-----------------------------------------------------------------------------
ContentInit ==
    /\ mark = NoMark
    /\ script = <<>>
    /\ requests = [way \in Ways |-> 0]
    /\ outcome = [way \in Ways |-> Unfinished]

Ask ==
    /\ script = <<>>
    /\ mark' \in Marks
    /\ script' \in [1 .. MaxRetries -> Answers]
    /\ UNCHANGED <<requests, outcome>>

Running(way) == script # <<>> /\ outcome[way] = Unfinished

End(way, result) == outcome' = [outcome EXCEPT ![way] = result]

\* Nothing to fetch, or nowhere to fetch it from.
RefuseContent(way) ==
    /\ Running(way)
    /\ mark.content # "remote"
    /\ End(way, Unsupported)
    /\ UNCHANGED <<mark, script, requests>>

NoAttempt(way) ==
    /\ Running(way)
    /\ mark.content = "remote"
    /\ Attempts(mark, way) = 0
    /\ End(way, Untried)
    /\ UNCHANGED <<mark, script, requests>>

Attempt(way) ==
    /\ Running(way)
    /\ mark.content = "remote"
    /\ requests[way] < Attempts(mark, way)
    /\ LET n      == requests[way] + 1
           answer == script[n]
       IN  /\ requests' = [requests EXCEPT ![way] = n]
           /\ IF Repeats(way, answer) /\ n < Attempts(mark, way)
              THEN UNCHANGED outcome
              ELSE End(way, Final(mark, way, answer, n))
    /\ UNCHANGED <<mark, script>>

\* The task of the coroutine is cancelled while it waits.
CancelFetch ==
    /\ Running("async")
    /\ End("async", Cancelled)
    /\ UNCHANGED <<mark, script, requests>>

ContentNext ==
    \/ Ask
    \/ \E way \in Ways : RefuseContent(way) \/ NoAttempt(way) \/ Attempt(way)
    \/ CancelFetch

ContentSpec == ContentInit /\ [][ContentNext]_contentVars
-----------------------------------------------------------------------------
(* Properties *)

\* Before the same server the two ways end alike after as many requests, as long
\* as the coroutine makes its own client and the server does not say 429, which
\* only the plain function repeats; it never makes fewer requests than the
\* coroutine (mark_content.py:101-124 with http_client.py:83-146, and
\* mark_content.py:157-214).
WaysAgree ==
    /\ mark.own
    /\ Unfinished # outcome["sync"]
    /\ outcome["async"] \notin {Unfinished, Cancelled}
    => /\ requests["async"] <= requests["sync"]
       /\ (\A n \in 1 .. requests["async"] : script[n].status # 429) =>
             outcome["async"] = outcome["sync"] /\ requests["async"] = requests["sync"]
=============================================================================
