---------------------------- MODULE ServicesProofs ----------------------------
(***************************************************************************)
(* The services that share no state, each for every value of its           *)
(* constants: the document of a mark, the address check, what a client     *)
(* states it can do, the restrictions on a destination and the tracking of *)
(* a shipment.                                                             *)
(***************************************************************************)
EXTENDS MarkContent, Datafactory, Capabilities, Restrictions, Tracking, DataLemmas
-----------------------------------------------------------------------------
(***************************************************************************)
(* A mark's document, for every script of answers and every number of      *)
(* retries: the two loops that fetch it end alike. The invariant says of   *)
(* each way on its own where in the script it is and why: every answer     *)
(* before the last one was repeated, and the last one was not, or was the  *)
(* last that the caller asks for. What one way repeats the other does, but *)
(* for 429.                                                                *)
(***************************************************************************)

\* Every answer so far was one to ask again after.
Asking(way) ==
    /\ requests[way] # 0 => mark.content = "remote" /\ requests[way] < Attempts(mark, way)
    /\ \A n \in 1 .. requests[way] : Repeats(way, script[n])

\* The last answer ends it.
Ended(way) ==
    /\ \A n \in 1 .. (requests[way] - 1) : Repeats(way, script[n])
    /\ \/ mark.content # "remote" /\ requests[way] = 0 /\ outcome[way] = Unsupported
       \/ mark.content = "remote" /\ Attempts(mark, way) = 0 /\ requests[way] = 0 /\ outcome[way] = Untried
       \/ /\ mark.content = "remote"
          /\ requests[way] \in 1 .. Attempts(mark, way)
          /\ outcome[way] = Final(mark, way, script[requests[way]], requests[way])
          /\ requests[way] = Attempts(mark, way) \/ ~Repeats(way, script[requests[way]])

ContentInv ==
    /\ requests \in [Ways -> Nat]
    /\ DOMAIN outcome = Ways
    /\ mark.retries \in Nat /\ mark.injected \in Nat
    /\ script = <<>> => \A way \in Ways : requests[way] = 0 /\ outcome[way] = Unfinished
    /\ \A way \in Ways :
          /\ outcome[way] = Unfinished => Asking(way)
          /\ outcome[way] \notin {Unfinished, Cancelled} => Ended(way)
          /\ outcome[way] = Cancelled => way = "async"

LEMMA CancelledIsAnEnd == Unfinished # Cancelled
BY DEF Unfinished, Cancelled, Outcome

LEMMA AttemptsType == ASSUME ContentInv, NEW way \in Ways PROVE Attempts(mark, way) \in Nat
BY DEF ContentInv, Attempts

LEMMA FinalFinishes ==
    ASSUME NEW m, NEW way, NEW reply, NEW n
    PROVE  Final(m, way, reply, n) \notin {Unfinished, Cancelled}
<1>1. \A code, retryable, body :
         code \notin {"none", "CancelledError"} => Outcome(code, retryable, body) \notin {Unfinished, Cancelled}
  BY DEF Outcome, Unfinished, Cancelled
<1>2. LostCode(reply.lost) \notin {"none", "CancelledError"}
  BY DEF LostCode
<1>3. Refused(reply.status) \notin {Unfinished, Cancelled}
  BY <1>1 DEF Refused
<1>4. Normalized(m, reply.body) \notin {Unfinished, Cancelled}
  BY <1>1 DEF Normalized, Unsupported
<1>5. QED
  BY <1>1, <1>2, <1>3, <1>4 DEF Final

LEMMA ContentInitially == ContentInit => ContentInv
BY CancelledIsAnEnd DEF ContentInit, ContentInv, NoMark, Asking

LEMMA AskKeeps == ASSUME ContentInv, Ask PROVE ContentInv'
<1>1. /\ mark' \in Marks /\ UNCHANGED <<requests, outcome>>
      /\ \A way \in Ways : requests[way] = 0 /\ outcome[way] = Unfinished
  BY DEF Ask, ContentInv
<1>2. mark'.retries \in Nat /\ mark'.injected \in Nat
  BY <1>1, ContentAssumption DEF Marks
<1>3. ASSUME NEW way \in Ways PROVE Asking(way)'
  BY <1>1 DEF Asking
<1>4. QED
  BY <1>1, <1>2, <1>3, CancelledIsAnEnd DEF ContentInv

\* A way that ends leaves the other where it is.
LEMMA EndKeeps ==
    ASSUME ContentInv, NEW way \in Ways, NEW result, Running(way), End(way, result),
           UNCHANGED <<mark, script>>, requests' \in [Ways -> Nat],
           \A other \in Ways : other # way => requests'[other] = requests[other],
           result # Unfinished, result # Cancelled => Ended(way)', result = Cancelled => way = "async"
    PROVE  ContentInv'
<1>1. outcome' = [outcome EXCEPT ![way] = result] /\ DOMAIN outcome = Ways /\ script' # <<>>
  BY DEF End, ContentInv, Running
<1>2. outcome'[way] = result /\ \A other \in Ways : other # way => outcome'[other] = outcome[other]
  BY <1>1
<1>3. ASSUME NEW other \in Ways, other # way
      PROVE  /\ outcome'[other] = Unfinished => Asking(other)'
             /\ outcome'[other] \notin {Unfinished, Cancelled} => Ended(other)'
             /\ outcome'[other] = Cancelled => other = "async"
  <2>1. /\ outcome[other] = Unfinished => Asking(other)
        /\ outcome[other] \notin {Unfinished, Cancelled} => Ended(other)
        /\ outcome[other] = Cancelled => other = "async"
    BY DEF ContentInv
  <2>2. outcome'[other] = outcome[other] /\ requests'[other] = requests[other]
    BY <1>2, <1>3
  <2>3. Asking(other) => Asking(other)'
    BY <2>2 DEF Asking
  <2>4. Ended(other) => Ended(other)'
    BY <2>2 DEF Ended
  <2>5. QED
    BY <2>1, <2>2, <2>3, <2>4
<1>4. QED
  BY <1>1, <1>2, <1>3 DEF ContentInv

LEMMA RefuseContentKeeps == ASSUME ContentInv, NEW way \in Ways, RefuseContent(way) PROVE ContentInv'
<1>1. /\ Running(way) /\ End(way, Unsupported) /\ UNCHANGED <<mark, script, requests>>
      /\ mark.content # "remote" /\ outcome[way] = Unfinished /\ requests \in [Ways -> Nat]
  BY DEF RefuseContent, Running, ContentInv
<1>2. Asking(way) /\ DOMAIN outcome = Ways
  BY <1>1 DEF ContentInv
<1>3. requests[way] = 0
  BY <1>1, <1>2 DEF Asking
<1>4. Unsupported \notin {Unfinished, Cancelled}
  BY DEF Unsupported, Unfinished, Cancelled, Outcome
<1>5. Ended(way)'
  BY <1>1, <1>2, <1>3 DEF Ended, End
<1>6. QED
  BY <1>1, <1>4, <1>5, EndKeeps

LEMMA NoAttemptKeeps == ASSUME ContentInv, NEW way \in Ways, NoAttempt(way) PROVE ContentInv'
<1>1. /\ Running(way) /\ End(way, Untried) /\ UNCHANGED <<mark, script, requests>>
      /\ mark.content = "remote" /\ Attempts(mark, way) = 0 /\ outcome[way] = Unfinished /\ requests \in [Ways -> Nat]
  BY DEF NoAttempt, Running, ContentInv
<1>2. Asking(way) /\ DOMAIN outcome = Ways
  BY <1>1 DEF ContentInv
<1>3. requests[way] = 0
  BY <1>1, <1>2 DEF Asking
<1>4. Untried \notin {Unfinished, Cancelled}
  BY DEF Untried, Unfinished, Cancelled, Outcome
<1>5. Ended(way)'
  BY <1>1, <1>2, <1>3 DEF Ended, End
<1>6. QED
  BY <1>1, <1>4, <1>5, EndKeeps

LEMMA AttemptKeeps == ASSUME ContentInv, NEW way \in Ways, Attempt(way) PROVE ContentInv'
<1>1. PICK n : n = requests[way] + 1
  OBVIOUS
<1>2. PICK reply : reply = script[n]
  OBVIOUS
<1>3. /\ Running(way) /\ mark.content = "remote" /\ requests[way] < Attempts(mark, way)
      /\ UNCHANGED <<mark, script>> /\ requests' = [requests EXCEPT ![way] = n]
      /\ outcome[way] = Unfinished /\ requests[way] \in Nat /\ n \in Nat /\ Attempts(mark, way) \in Nat
  BY <1>1, AttemptsType DEF Attempt, Running, ContentInv
<1>4. /\ requests' \in [Ways -> Nat] /\ requests'[way] = n
      /\ \A other \in Ways : other # way => requests'[other] = requests[other]
  BY <1>3 DEF ContentInv
<1>5. \A k \in 1 .. (n - 1) : Repeats(way, script[k])
  BY <1>1, <1>3 DEF ContentInv, Asking
<1>6. CASE Repeats(way, reply) /\ n < Attempts(mark, way)
  <2>1. outcome' = outcome
    BY <1>1, <1>2, <1>6 DEF Attempt
  <2>2. Asking(way)'
    <3>1. \A k \in 1 .. n : Repeats(way, script[k])
      BY <1>2, <1>3, <1>5, <1>6
    <3>2. QED
      BY <1>3, <1>4, <1>6, <3>1 DEF Asking
  <2>3. ASSUME NEW other \in Ways, other # way
        PROVE  /\ outcome'[other] = Unfinished => Asking(other)'
               /\ outcome'[other] \notin {Unfinished, Cancelled} => Ended(other)'
               /\ outcome'[other] = Cancelled => other = "async"
    <3>1. /\ outcome[other] = Unfinished => Asking(other)
          /\ outcome[other] \notin {Unfinished, Cancelled} => Ended(other)
          /\ outcome[other] = Cancelled => other = "async"
      BY DEF ContentInv
    <3>2. requests'[other] = requests[other] /\ UNCHANGED <<mark, script, outcome>>
      BY <1>3, <1>4, <2>1, <2>3
    <3>3. Asking(other) => Asking(other)'
      BY <3>2 DEF Asking
    <3>4. Ended(other) => Ended(other)'
      BY <3>2 DEF Ended
    <3>5. QED
      BY <2>1, <3>1, <3>3, <3>4
  <2>4. script' # <<>>
    BY <1>3 DEF Running
  <2>5. outcome'[way] = Unfinished
    BY <1>3, <2>1
  <2>6. QED
    BY <1>3, <1>4, <2>1, <2>2, <2>3, <2>4, <2>5, CancelledIsAnEnd DEF ContentInv
<1>7. CASE ~(Repeats(way, reply) /\ n < Attempts(mark, way))
  <2>1. End(way, Final(mark, way, reply, n))
    BY <1>1, <1>2, <1>7 DEF Attempt
  <2>2. Final(mark, way, reply, n) \notin {Unfinished, Cancelled}
    BY FinalFinishes
  <2>3. outcome'[way] = Final(mark, way, reply, n)
    BY <2>1 DEF End, ContentInv
  <2>4. n \in 1 .. Attempts(mark, way) /\ (n = Attempts(mark, way) \/ ~Repeats(way, script[n]))
    BY <1>1, <1>2, <1>3, <1>7
  <2>5. Ended(way)'
    BY <1>2, <1>3, <1>4, <1>5, <2>3, <2>4 DEF Ended
  <2>6. QED
    BY <1>3, <1>4, <2>1, <2>2, <2>5, EndKeeps
<1>8. QED
  BY <1>6, <1>7

LEMMA CancelFetchKeeps == ASSUME ContentInv, CancelFetch PROVE ContentInv'
<1>1. Cancelled # Unfinished /\ "async" \in Ways
  BY DEF Cancelled, Unfinished, Outcome, Ways
<1>2. Running("async") /\ End("async", Cancelled) /\ UNCHANGED <<mark, script, requests>>
  BY DEF CancelFetch
<1>3. requests' \in [Ways -> Nat]
  BY <1>2 DEF ContentInv
<1>4. QED
  BY <1>1, <1>2, <1>3, EndKeeps

LEMMA ContentPreserved == ContentInv /\ [ContentNext]_contentVars => ContentInv'
<1> SUFFICES ASSUME ContentInv, [ContentNext]_contentVars PROVE ContentInv'
  OBVIOUS
<1>1. ASSUME NEW way \in Ways, RefuseContent(way) PROVE ContentInv'
  BY <1>1, RefuseContentKeeps
<1>2. ASSUME NEW way \in Ways, NoAttempt(way) PROVE ContentInv'
  BY <1>2, NoAttemptKeeps
<1>3. ASSUME NEW way \in Ways, Attempt(way) PROVE ContentInv'
  BY <1>3, AttemptKeeps
<1>4. CASE UNCHANGED contentVars
  BY <1>4 DEF contentVars, ContentInv, Asking, Ended
<1>5. QED
  BY <1>1, <1>2, <1>3, <1>4, AskKeeps, CancelFetchKeeps DEF ContentNext

\* Two ends before the same answers.
LEMMA EndsAgree ==
    ASSUME ContentInv, mark.own, Ended("async"), Ended("sync")
    PROVE  /\ requests["async"] <= requests["sync"]
           /\ (\A n \in 1 .. requests["async"] : script[n].status # 429) =>
                 outcome["async"] = outcome["sync"] /\ requests["async"] = requests["sync"]
<1>1. /\ Attempts(mark, "async") = Attempts(mark, "sync") /\ Attempts(mark, "sync") \in Nat
      /\ requests["async"] \in Nat /\ requests["sync"] \in Nat
  BY AttemptsType DEF Attempts, ContentInv, Ways
<1>2. \A reply : Repeats("async", reply) => Repeats("sync", reply)
  BY DEF Repeats, AsyncRepeats, SyncRepeats
<1>3. \A reply : Repeats("sync", reply) /\ reply.status # 429 => Repeats("async", reply)
  BY DEF Repeats, AsyncRepeats, SyncRepeats
<1>4. CASE mark.content = "remote" /\ Attempts(mark, "sync") # 0
  <2>1. /\ requests["async"] \in 1 .. Attempts(mark, "sync") /\ requests["sync"] \in 1 .. Attempts(mark, "sync")
        /\ outcome["async"] = Final(mark, "async", script[requests["async"]], requests["async"])
        /\ outcome["sync"] = Final(mark, "sync", script[requests["sync"]], requests["sync"])
        /\ requests["async"] = Attempts(mark, "sync") \/ ~Repeats("async", script[requests["async"]])
        /\ requests["sync"] = Attempts(mark, "sync") \/ ~Repeats("sync", script[requests["sync"]])
    BY <1>1, <1>4 DEF Ended
  <2>2. /\ \A n \in 1 .. (requests["async"] - 1) : Repeats("async", script[n])
        /\ \A n \in 1 .. (requests["sync"] - 1) : Repeats("sync", script[n])
    BY DEF Ended
  <2>3. requests["async"] <= requests["sync"]
    <3>1. ASSUME requests["sync"] < requests["async"] PROVE FALSE
      <4>1. requests["sync"] \in 1 .. (requests["async"] - 1) /\ requests["sync"] # Attempts(mark, "sync")
        BY <2>1, <3>1, <1>1
      <4>2. QED
        BY <1>2, <2>1, <2>2, <4>1
    <3>2. QED
      BY <1>1, <3>1
  <2>4. ASSUME \A n \in 1 .. requests["async"] : script[n].status # 429
        PROVE  requests["async"] = requests["sync"]
    <3>1. ASSUME requests["async"] < requests["sync"] PROVE FALSE
      <4>1. /\ requests["async"] \in 1 .. (requests["sync"] - 1) /\ requests["async"] # Attempts(mark, "sync")
            /\ requests["async"] \in 1 .. requests["async"]
        BY <1>1, <2>1, <3>1
      <4>2. Repeats("async", script[requests["async"]])
        BY <1>3, <2>2, <2>4, <4>1
      <4>3. QED
        BY <2>1, <4>1, <4>2
    <3>2. QED
      BY <1>1, <2>3, <3>1
  <2>5. \A reply, n : Final(mark, "async", reply, n) = Final(mark, "sync", reply, n)
    BY <1>1 DEF Final
  <2>6. QED
    BY <2>1, <2>3, <2>4, <2>5
<1>5. CASE ~(mark.content = "remote" /\ Attempts(mark, "sync") # 0)
  BY <1>1, <1>5 DEF Ended
<1>6. QED
  BY <1>4, <1>5

\* The two ways to fetch a document agree for every script of answers and number
\* of retries (mark_content.py:101-124 and 157-214, http_client.py:83-146).
THEOREM WaysAgreeCorrect == ContentSpec => []WaysAgree
<1>1. ContentInv => WaysAgree
  <2> SUFFICES ASSUME ContentInv, mark.own, Unfinished # outcome["sync"],
                      outcome["async"] \notin {Unfinished, Cancelled}
               PROVE  /\ requests["async"] <= requests["sync"]
                      /\ (\A n \in 1 .. requests["async"] : script[n].status # 429) =>
                            outcome["async"] = outcome["sync"] /\ requests["async"] = requests["sync"]
    BY DEF WaysAgree
  <2>1. Ended("async")
    BY DEF ContentInv, Ways
  <2>2. Ended("sync")
    BY DEF ContentInv, Ways
  <2>3. QED
    BY <2>1, <2>2, EndsAgree
<1>2. QED
  BY <1>1, ContentInitially, ContentPreserved, PTL DEF ContentSpec
-----------------------------------------------------------------------------
(***************************************************************************)
(* The address check, for any number of checks, whatever lifetimes the     *)
(* server gives and however late its answers are received: no check is     *)
(* sent with a token that had ended more than Lag before. The property     *)
(* says nothing of the token that is kept nor of the answers under way;    *)
(* the invariant does: the expiry that is kept is never later than the end *)
(* of the token that is kept, but for the lag, and an answer under way is  *)
(* not older.                                                              *)
(***************************************************************************)

AnswerOK(c) ==
    answer[c].kind = "token" =>
        /\ now <= answer[c].made + Lag
        /\ answer[c].token # 0 => ends[answer[c].token] = answer[c].made + answer[c].life

KeptOK == token # 0 => expiry <= ends[token] + Lag

SentOK(c) == used[c] # 0 => sentAt[c] <= ends[used[c]] + Lag

DatafactoryInv ==
    /\ DatafactoryTypeOK
    /\ KeptOK
    /\ \A c \in Checks : AnswerOK(c) /\ SentOK(c)

LEMMA DatafactoryInitially == DatafactoryInit => DatafactoryInv
BY DatafactoryAssumption
   DEF DatafactoryInit, DatafactoryInv, DatafactoryTypeOK, KeptOK, AnswerOK, SentOK, NoAnswer, Steps

\* A step that sends keeps the property, if its token is not older than Lag.
LEMMA SendKeeps ==
    ASSUME DatafactoryInv, NEW c \in Checks, NEW t \in 0 .. Len(ends), Send(c, t),
           now' = now, ends' = ends, t # 0 => now <= ends[t] + Lag
    PROVE  /\ step' \in [Checks -> Steps]
           /\ used' \in [Checks -> 0 .. Len(ends)]
           /\ sentAt' \in [Checks -> Nat]
           /\ \A d \in Checks : SentOK(d)'
<1>1. /\ step' \in [Checks -> Steps]
      /\ used' \in [Checks -> 0 .. Len(ends)]
      /\ sentAt' \in [Checks -> Nat]
  BY DEF DatafactoryInv, DatafactoryTypeOK, Send, Go, Steps
<1>2. ASSUME NEW d \in Checks PROVE SentOK(d)'
  <2>1. SentOK(d)
    BY DEF DatafactoryInv
  <2>2. CASE d = c
    BY <2>2 DEF DatafactoryInv, DatafactoryTypeOK, Send, SentOK
  <2>3. CASE d # c
    BY <2>1, <2>3 DEF DatafactoryInv, DatafactoryTypeOK, Send, SentOK
  <2>4. QED
    BY <2>2, <2>3
<1>3. QED
  BY <1>1, <1>2

LEMMA CheckWithTokenKeeps ==
    ASSUME DatafactoryInv, NEW c \in Checks, CheckWithToken(c) PROVE DatafactoryInv'
<1>1. Send(c, token) /\ UNCHANGED <<now, ends, token, expiry, answer>> /\ token \in 0 .. Len(ends)
  BY DEF CheckWithToken, DatafactoryInv, DatafactoryTypeOK
<1>2. token # 0 => now <= ends[token] + Lag
  <2>1. ASSUME token # 0 PROVE ends[token] \in Nat
    BY <2>1 DEF DatafactoryInv, DatafactoryTypeOK
  <2>2. QED
    BY <2>1, DatafactoryAssumption DEF CheckWithToken, Fresh, DatafactoryInv, DatafactoryTypeOK, KeptOK
<1>3. /\ step' \in [Checks -> Steps] /\ used' \in [Checks -> 0 .. Len(ends)] /\ sentAt' \in [Checks -> Nat]
      /\ \A d \in Checks : SentOK(d)'
  BY <1>1, <1>2, SendKeeps
<1>4. DatafactoryTypeOK' /\ KeptOK'
  BY <1>1, <1>3 DEF DatafactoryInv, DatafactoryTypeOK, KeptOK
<1>5. \A d \in Checks : AnswerOK(d)'
  BY <1>1 DEF DatafactoryInv, AnswerOK
<1>6. QED
  BY <1>3, <1>4, <1>5 DEF DatafactoryInv

LEMMA RenewedKeeps ==
    ASSUME DatafactoryInv, NEW c \in Checks, Renewed(c) PROVE DatafactoryInv'
<1>1. PICK got : got = answer[c]
  OBVIOUS
<1>2. /\ got.kind = "token" /\ got.token \in 0 .. Len(ends) /\ got.life \in Nat /\ got.made \in Nat
      /\ now \in Nat /\ now <= got.made + Lag
      /\ got.token # 0 => ends[got.token] = got.made + got.life
  BY <1>1 DEF Renewed, DatafactoryInv, DatafactoryTypeOK, AnswerOK
<1>3. /\ token' = got.token /\ expiry' = now + got.life /\ Send(c, got.token)
      /\ answer' = [answer EXCEPT ![c] = NoAnswer] /\ now' = now /\ ends' = ends
  BY <1>1 DEF Renewed
<1>4. got.token # 0 => now <= ends[got.token] + Lag
  BY <1>2, DatafactoryAssumption
<1>5. /\ step' \in [Checks -> Steps] /\ used' \in [Checks -> 0 .. Len(ends)] /\ sentAt' \in [Checks -> Nat]
      /\ \A d \in Checks : SentOK(d)'
  BY <1>2, <1>3, <1>4, SendKeeps
<1>6. KeptOK'
  BY <1>2, <1>3, DatafactoryAssumption DEF KeptOK
<1>7. DatafactoryTypeOK'
  <2>1. answer' \in [Checks -> [kind : {"none", "refused", "token"}, token : 0 .. Len(ends), life : Nat, made : Nat]]
    BY <1>2, <1>3 DEF DatafactoryInv, DatafactoryTypeOK, NoAnswer
  <2>2. expiry' \in Nat /\ token' \in 0 .. Len(ends)
    BY <1>2, <1>3
  <2>3. QED
    BY <1>3, <1>5, <2>1, <2>2 DEF DatafactoryInv, DatafactoryTypeOK
<1>8. \A d \in Checks : AnswerOK(d)'
  BY <1>3 DEF DatafactoryInv, DatafactoryTypeOK, AnswerOK, NoAnswer
<1>9. QED
  BY <1>5, <1>6, <1>7, <1>8 DEF DatafactoryInv

LEMMA IssueKeeps ==
    ASSUME DatafactoryInv, NEW c \in Checks, NEW life \in Lifetimes, Issue(c, life) PROVE DatafactoryInv'
<1>1. life \in Nat /\ Lag \in Nat /\ now \in Nat /\ ends \in Seq(Nat)
  BY DatafactoryAssumption DEF DatafactoryInv, DatafactoryTypeOK
<1>2. /\ ends' \in Seq(Nat) /\ Len(ends') = Len(ends) + 1
      /\ \A i \in 1 .. Len(ends) : ends'[i] = ends[i]
      /\ ends'[Len(ends) + 1] = now + life
  BY <1>1 DEF Issue
<1>3. /\ answer' = [answer EXCEPT ![c] = Token(Len(ends) + 1, life)]
      /\ UNCHANGED <<now, token, expiry, step, used, sentAt>>
  BY DEF Issue
<1>4. DatafactoryTypeOK'
  <2>1. 0 .. Len(ends) \subseteq 0 .. Len(ends') /\ Len(ends) + 1 \in 0 .. Len(ends')
    BY <1>1, <1>2
  <2>2. used' \in [Checks -> 0 .. Len(ends')] /\ token' \in 0 .. Len(ends')
    BY <1>3, <2>1 DEF DatafactoryInv, DatafactoryTypeOK
  <2>3. answer' \in [Checks -> [kind : {"none", "refused", "token"}, token : 0 .. Len(ends'), life : Nat, made : Nat]]
    BY <1>1, <1>3, <2>1 DEF DatafactoryInv, DatafactoryTypeOK, Token
  <2>4. QED
    BY <1>2, <1>3, <2>2, <2>3 DEF DatafactoryInv, DatafactoryTypeOK
<1>5. KeptOK'
  <2>1. token \in 0 .. Len(ends) /\ KeptOK /\ Len(ends) \in Nat
    BY <1>1 DEF DatafactoryInv, DatafactoryTypeOK
  <2>2. token # 0 => ends'[token] = ends[token]
    BY <1>2, <2>1
  <2>3. QED
    BY <1>3, <2>1, <2>2 DEF KeptOK
<1>6. ASSUME NEW d \in Checks PROVE SentOK(d)'
  <2>1. SentOK(d) /\ used[d] \in 0 .. Len(ends)
    BY DEF DatafactoryInv, DatafactoryTypeOK
  <2>2. QED
    BY <1>1, <1>2, <1>3, <2>1 DEF SentOK
<1>7. ASSUME NEW d \in Checks PROVE AnswerOK(d)'
  <2>1. CASE d = c
    <3>1. answer'[d] = Token(Len(ends) + 1, life)
      BY <1>3, <2>1 DEF DatafactoryInv, DatafactoryTypeOK
    <3>2. QED
      BY <1>1, <1>2, <1>3, <3>1 DEF AnswerOK, Token
  <2>2. CASE d # c
    <3>1. AnswerOK(d) /\ answer'[d] = answer[d] /\ answer[d].token \in 0 .. Len(ends)
      BY <1>3, <2>2 DEF DatafactoryInv, DatafactoryTypeOK
    <3>2. answer[d].token # 0 => answer[d].token \in 1 .. Len(ends)
      BY <1>1, <3>1
    <3>3. answer[d].token # 0 => ends'[answer[d].token] = ends[answer[d].token]
      BY <1>2, <3>2
    <3>4. QED
      BY <1>3, <3>1, <3>3 DEF AnswerOK
  <2>3. QED
    BY <2>1, <2>2
<1>8. QED
  BY <1>4, <1>5, <1>6, <1>7 DEF DatafactoryInv

\* The steps that change nothing but where a check is and what it was answered.
LEMMA OthersKeep ==
    ASSUME DatafactoryInv, NEW c \in Checks, UNCHANGED <<now, ends, token, expiry>>,
           NEW s \in Steps, step' = step \/ step' = [step EXCEPT ![c] = s],
           NEW a, a \in {NoAnswer, Refusal} \/ \E life \in Lifetimes : a = Token(0, life),
           answer' = answer \/ answer' = [answer EXCEPT ![c] = a],
           \/ UNCHANGED <<used, sentAt>>
           \/ used' = [used EXCEPT ![c] = 0] /\ sentAt' = [sentAt EXCEPT ![c] = 0]
    PROVE  DatafactoryInv'
<1>1. /\ a \in [kind : {"none", "refused", "token"}, token : {0}, life : Nat, made : Nat]
      /\ a.kind = "token" => a.made = now
  BY DatafactoryAssumption DEF NoAnswer, Refusal, Token, DatafactoryInv, DatafactoryTypeOK
<1>2. DatafactoryTypeOK'
  <2>1. step' \in [Checks -> Steps] /\ used' \in [Checks -> 0 .. Len(ends)] /\ sentAt' \in [Checks -> Nat]
    <3>1. step' \in [Checks -> Steps]
      BY DEF DatafactoryInv, DatafactoryTypeOK
    <3>2. 0 \in 0 .. Len(ends)
      BY DEF DatafactoryInv, DatafactoryTypeOK
    <3>3. used' \in [Checks -> 0 .. Len(ends)]
      BY <3>2 DEF DatafactoryInv, DatafactoryTypeOK
    <3>4. sentAt' \in [Checks -> Nat]
      <4>1. sentAt \in [Checks -> Nat] /\ 0 \in Nat
        BY DEF DatafactoryInv, DatafactoryTypeOK
      <4>2. QED
        BY <4>1
    <3>5. QED
      BY <3>1, <3>3, <3>4
  <2>2. answer' \in [Checks -> [kind : {"none", "refused", "token"}, token : 0 .. Len(ends), life : Nat, made : Nat]]
    <3>1. 0 \in 0 .. Len(ends)
      BY DEF DatafactoryInv, DatafactoryTypeOK
    <3>2. a \in [kind : {"none", "refused", "token"}, token : 0 .. Len(ends), life : Nat, made : Nat]
      BY <1>1, <3>1
    <3>3. QED
      BY <3>2 DEF DatafactoryInv, DatafactoryTypeOK
  <2>3. QED
    BY <2>1, <2>2 DEF DatafactoryInv, DatafactoryTypeOK
<1>3. KeptOK'
  BY DEF DatafactoryInv, KeptOK
<1>4. ASSUME NEW d \in Checks PROVE SentOK(d)'
  <2>1. SentOK(d)
    BY DEF DatafactoryInv
  <2>2. used'[d] = 0 \/ (used'[d] = used[d] /\ sentAt'[d] = sentAt[d])
    BY DEF DatafactoryInv, DatafactoryTypeOK
  <2>3. QED
    BY <2>1, <2>2 DEF SentOK
<1>5. ASSUME NEW d \in Checks PROVE AnswerOK(d)'
  <2>1. AnswerOK(d) /\ now \in Nat /\ Lag \in Nat
    BY DatafactoryAssumption DEF DatafactoryInv, DatafactoryTypeOK
  <2>2. answer'[d] \in {answer[d], a}
    BY DEF DatafactoryInv, DatafactoryTypeOK
  <2>3. CASE answer'[d] = answer[d]
    BY <2>1, <2>3 DEF AnswerOK
  <2>4. CASE answer'[d] = a
    BY <1>1, <2>1, <2>4 DEF AnswerOK
  <2>5. QED
    BY <2>2, <2>3, <2>4
<1>6. QED
  BY <1>2, <1>3, <1>4, <1>5 DEF DatafactoryInv

LEMMA TickKeeps == ASSUME DatafactoryInv, Tick PROVE DatafactoryInv'
<1>1. /\ now' = now + 1 /\ now \in Nat /\ UNCHANGED <<ends, token, expiry, step, answer, used, sentAt>>
      /\ Lag \in Nat
  BY DatafactoryAssumption DEF Tick, DatafactoryInv, DatafactoryTypeOK
<1>2. DatafactoryTypeOK' /\ KeptOK' /\ \A d \in Checks : SentOK(d)'
  BY <1>1 DEF DatafactoryInv, DatafactoryTypeOK, KeptOK, SentOK
<1>3. ASSUME NEW d \in Checks PROVE AnswerOK(d)'
  <2>1. AnswerOK(d) /\ answer[d].made \in Nat /\ (answer[d].kind = "token" => now < answer[d].made + Lag)
    BY DEF DatafactoryInv, DatafactoryTypeOK, Tick
  <2>2. QED
    BY <1>1, <2>1 DEF AnswerOK
<1>4. QED
  BY <1>2, <1>3 DEF DatafactoryInv

\* The other steps of a check, each an instance of OthersKeep.
LEMMA OtherStepsKeep ==
    ASSUME DatafactoryInv, NEW c \in Checks,
           \/ StartRenewal(c) \/ RefuseToken(c) \/ AskAgain(c) \/ RenewalFails(c) \/ Judge(c)
           \/ \E life \in Lifetimes : IssueNone(c, life)
    PROVE  DatafactoryInv'
<1>1. CASE StartRenewal(c)
  BY <1>1, OthersKeep, "renewing" \in Steps DEF StartRenewal, Go, Steps
<1>2. CASE RefuseToken(c)
  BY <1>2, OthersKeep, "idle" \in Steps DEF RefuseToken, Steps
<1>3. CASE AskAgain(c)
  BY <1>3, OthersKeep, "idle" \in Steps DEF AskAgain, Steps
<1>4. CASE RenewalFails(c)
  BY <1>4, OthersKeep, "failed" \in Steps DEF RenewalFails, Go, Steps
<1>5. CASE Judge(c)
  <2>1. PICK s \in {"checked", "failed"} : step' = [step EXCEPT ![c] = s]
    BY <1>5 DEF Judge, Go
  <2>2. s \in Steps
    BY <2>1 DEF Steps
  <2>3. QED
    BY <1>5, <2>1, <2>2, OthersKeep DEF Judge
<1>6. ASSUME NEW life \in Lifetimes, IssueNone(c, life) PROVE DatafactoryInv'
  BY <1>6, OthersKeep, "idle" \in Steps DEF IssueNone, Steps
<1>7. QED
  BY <1>1, <1>2, <1>3, <1>4, <1>5, <1>6

LEMMA DatafactoryPreserved == DatafactoryInv /\ [DatafactoryNext]_datafactoryVars => DatafactoryInv'
<1> SUFFICES ASSUME DatafactoryInv, [DatafactoryNext]_datafactoryVars PROVE DatafactoryInv'
  OBVIOUS
<1>1. ASSUME NEW c \in Checks, CheckWithToken(c) PROVE DatafactoryInv'
  BY <1>1, CheckWithTokenKeeps
<1>2. ASSUME NEW c \in Checks, Renewed(c) PROVE DatafactoryInv'
  BY <1>2, RenewedKeeps
<1>3. ASSUME NEW c \in Checks, NEW life \in Lifetimes, Issue(c, life) PROVE DatafactoryInv'
  BY <1>3, IssueKeeps
<1>4. ASSUME NEW c \in Checks,
             \/ StartRenewal(c) \/ RefuseToken(c) \/ AskAgain(c) \/ RenewalFails(c) \/ Judge(c)
             \/ \E life \in Lifetimes : IssueNone(c, life)
      PROVE DatafactoryInv'
  BY <1>4, OtherStepsKeep
<1>5. CASE Tick
  BY <1>5, TickKeeps
<1>6. CASE UNCHANGED datafactoryVars
  BY <1>6 DEF datafactoryVars, DatafactoryInv, DatafactoryTypeOK, KeptOK, AnswerOK, SentOK
<1>7. QED
  BY <1>1, <1>2, <1>3, <1>4, <1>5, <1>6 DEF DatafactoryNext

\* The types, with every token that is kept, answered or used one that the server
\* has issued (datafactory.py:34-61).
THEOREM DatafactoryTypes == DatafactorySpec => []DatafactoryTypeOK
<1>1. DatafactoryInv => DatafactoryTypeOK
  BY DEF DatafactoryInv
<1>2. QED
  BY <1>1, DatafactoryInitially, DatafactoryPreserved, PTL DEF DatafactorySpec

\* However many checks renew the token of one another, none is sent with one that
\* had ended more than Lag before (datafactory.py:34-37 and 58-61).
THEOREM TokensAlive == DatafactorySpec => []SentWithALiveToken
<1>1. DatafactoryInv => SentWithALiveToken
  BY DEF DatafactoryInv, SentOK, SentWithALiveToken
<1>2. QED
  BY <1>1, DatafactoryInitially, DatafactoryPreserved, PTL DEF DatafactorySpec
-----------------------------------------------------------------------------
(***************************************************************************)
(* What a client states and what it does agree, for every manifest, every  *)
(* list of wires and every set of adapters: what was stated and the last   *)
(* outcome are always those of the manifest and the wires as they stand.   *)
(***************************************************************************)

StatedNow == stated # <<>> => stated = [operation \in Operations |-> Supports(operation)]

AttemptedNow ==
    attempt # <<>> =>
        /\ attempt.operation \in Operations
        /\ attempt.outcome = Conclusion(attempt.operation, attempt.pin)

CapabilitiesInv == StatedNow /\ AttemptedNow

LEMMA CapabilitiesPreserved == CapabilitiesInv /\ [CapabilitiesNext]_capabilitiesVars => CapabilitiesInv'
<1> SUFFICES ASSUME CapabilitiesInv, [CapabilitiesNext]_capabilitiesVars PROVE CapabilitiesInv'
  OBVIOUS
<1>1. ASSUME NEW m \in Manifests, UpgradeManifest(m) PROVE CapabilitiesInv'
  BY <1>1 DEF UpgradeManifest, CapabilitiesInv, StatedNow, AttemptedNow
<1>2. ASSUME NEW wires \in WireLists, MakeClient(wires) PROVE CapabilitiesInv'
  BY <1>2 DEF MakeClient, CapabilitiesInv, StatedNow, AttemptedNow
<1>3. CASE StateCapabilities
  <2>1. StatedNow'
    BY <1>3 DEF StateCapabilities, StatedNow, Supports, Methods, ActiveWire
  <2>2. AttemptedNow'
    BY <1>3 DEF StateCapabilities, CapabilitiesInv, AttemptedNow, Conclusion, Selected, Applicable, Methods
  <2>3. QED
    BY <2>1, <2>2 DEF CapabilitiesInv
<1>4. ASSUME NEW operation \in Operations, NEW pin, Try(operation, pin) PROVE CapabilitiesInv'
  <2>1. StatedNow'
    BY <1>4 DEF Try, CapabilitiesInv, StatedNow, Supports, Methods, ActiveWire
  <2>2. AttemptedNow'
    <3>1. /\ attempt'.operation = operation /\ attempt'.pin = pin
          /\ attempt'.outcome = Conclusion(operation, pin)
          /\ UNCHANGED <<manifest, wired>>
      BY <1>4 DEF Try
    <3>2. Conclusion(operation, pin)' = Conclusion(operation, pin)
      BY <3>1 DEF Conclusion, Selected, Applicable, Methods
    <3>3. QED
      BY <3>1, <3>2 DEF AttemptedNow
  <2>3. QED
    BY <2>1, <2>2 DEF CapabilitiesInv
<1>5. CASE UNCHANGED capabilitiesVars
  BY <1>5 DEF capabilitiesVars, CapabilitiesInv, StatedNow, AttemptedNow, Supports, Methods, ActiveWire,
              Conclusion, Selected, Applicable
<1>6. QED
  BY <1>1, <1>2, <1>3, <1>4, <1>5 DEF CapabilitiesNext

\* A wire that states an operation does it, whether it is pinned or not.
LEMMA StatedIsDone ==
    ASSUME NEW operation \in Operations, NEW pin \in {"none", wired.wire},
           wired.real, wired.wire = manifest.wire, Supports(operation)
    PROVE  Conclusion(operation, pin) = "done"
<1>1. manifest.wire # "none" /\ operation \in Methods(manifest.wire, operation)
  BY DEF Supports, Methods
<1>2. Selected(operation, pin) = {wired.wire}
  BY <1>1 DEF Selected, Applicable
<1>3. QED
  BY <1>2 DEF Conclusion

\* What is done was stated, unless the wire is not configured.
LEMMA DoneIsStated ==
    ASSUME NEW operation \in Operations, NEW pin, wired.wire = manifest.wire,
           Conclusion(operation, pin) = "done",
           configured = <<>> \/ wired.wire \in ToSet(configured)
    PROVE  Supports(operation)
<1>1. wired.wire \in Selected(operation, pin)
  BY DEF Conclusion
<1>2. operation \in Methods(manifest.wire, operation)
  BY <1>1 DEF Selected, Applicable
<1>3. ActiveWire = manifest.wire
  BY DEF ActiveWire
<1>4. QED
  BY <1>2, <1>3 DEF Supports

\* capabilities() and mark() or balance() agree, for every manifest, list of wires
\* and adapter (execution_registry.py:63-80 and 111-188, wire_selection.py:9-45).
THEOREM CapabilitiesHonest == CapabilitiesSpec => []CapabilitiesAreHonest
<1>1. CapabilitiesInit => CapabilitiesInv
  BY DEF CapabilitiesInit, CapabilitiesInv, StatedNow, AttemptedNow
<1>2. CapabilitiesInv => CapabilitiesAreHonest
  <2> SUFFICES ASSUME CapabilitiesInv, stated # <<>>, attempt # <<>>, wired.real, wired.wire = manifest.wire
               PROVE  /\ stated[attempt.operation] /\ attempt.pin \in {"none", wired.wire} => attempt.outcome = "done"
                      /\ attempt.outcome = "done" =>
                            \/ stated[attempt.operation]
                            \/ configured # <<>> /\ wired.wire \notin ToSet(configured)
    BY DEF CapabilitiesAreHonest
  <2>1. /\ attempt.operation \in Operations
        /\ attempt.outcome = Conclusion(attempt.operation, attempt.pin)
        /\ stated[attempt.operation] = Supports(attempt.operation)
    BY DEF CapabilitiesInv, StatedNow, AttemptedNow
  <2>2. QED
    BY <2>1, StatedIsDone, DoneIsStated
<1>3. QED
  BY <1>1, <1>2, CapabilitiesPreserved, PTL DEF CapabilitiesSpec
-----------------------------------------------------------------------------
(***************************************************************************)
(* Restrictions on a destination, for every policy, bloc and day: what was *)
(* accepted stays as it was accepted, and the answer to the last question  *)
(* is the one for the policy, the provider and the day as they are.        *)
(***************************************************************************)

RestrictionsInv ==
    /\ day \in 1 .. LastDay
    /\ \A row \in policy.legal : row \in LegalRows /\ LegalOK(row)
    /\ policy = Unloaded => question = Unknown
    /\ question # Unknown => checked = ForDestination(question)

LEMMA RestrictionsInitially == RestrictionsInit => RestrictionsInv
BY RestrictionsAssumption DEF RestrictionsInit, RestrictionsInv, Unloaded

LEMMA RestrictionsPreserved == RestrictionsInv /\ [RestrictionsNext]_restrictionsVars => RestrictionsInv'
<1> SUFFICES ASSUME RestrictionsInv, [RestrictionsNext]_restrictionsVars PROVE RestrictionsInv'
  OBVIOUS
<1> USE RestrictionsAssumption
<1>1. ASSUME NEW legal \in {{row} : row \in LegalRows} \union {{}}, NEW routing, LoadPolicy(legal, routing)
      PROVE  RestrictionsInv'
  <2>1. policy'.legal = legal /\ \A row \in legal : row \in LegalRows /\ LegalOK(row)
    BY <1>1 DEF LoadPolicy
  <2>2. question = Unknown /\ UNCHANGED <<origin, day, question, checked>>
    BY <1>1 DEF LoadPolicy, RestrictionsInv
  <2>3. QED
    BY <2>1, <2>2 DEF RestrictionsInv
<1>2. ASSUME NEW tokens, UseProvider(tokens) PROVE RestrictionsInv'
  BY <1>2 DEF UseProvider, RestrictionsInv
<1>3. CASE NextDay
  BY <1>3 DEF NextDay, RestrictionsInv
<1>4. ASSUME NEW region, Check(region) PROVE RestrictionsInv'
  <2>1. checked' = ForDestination(region) /\ UNCHANGED <<policy, origin, day>> /\ question' = region
    BY <1>4 DEF Check
  <2>2. ForDestination(question)' = ForDestination(region)
    BY <2>1 DEF ForDestination, LegalFor, RoutingFor, Candidates, Remaining, InForce
  <2>3. day' \in 1 .. LastDay /\ \A row \in policy'.legal : row \in LegalRows /\ LegalOK(row)
    BY <2>1 DEF RestrictionsInv
  <2>4. policy' # Unloaded
    BY <1>4 DEF Check
  <2>5. QED
    BY <2>1, <2>2, <2>3, <2>4 DEF RestrictionsInv
<1>5. CASE UNCHANGED restrictionsVars
  <2>1. UNCHANGED <<policy, origin, day, question, checked>>
    BY <1>5 DEF restrictionsVars
  <2>2. ForDestination(question)' = ForDestination(question)
    BY <2>1 DEF ForDestination, LegalFor, RoutingFor, Candidates, Remaining, InForce
  <2>3. QED
    BY <2>1, <2>2 DEF RestrictionsInv
<1>6. QED
  BY <1>1, <1>2, <1>3, <1>4, <1>5 DEF RestrictionsNext

\* Something remains of what the bloc of the provider has in force.
LEMMA RemainingMeans ==
    ASSUME NEW jurisdictions, Dated(jurisdictions), day \in 1 .. LastDay
    PROVE  Remaining(jurisdictions) # <<>> <=> ForbiddenBy(jurisdictions)
<1> DEFINE kept(j) == {i \in jurisdictions[j] : InForce(i)}
           left == {k \in DOMAIN jurisdictions \intersect origin : kept(k) # {}}
<1>1. Remaining(jurisdictions) = [j \in left |-> kept(j)]
  BY DEF Remaining
<1>2. Remaining(jurisdictions) # <<>> <=> left # {}
  <2> HIDE DEF left, kept
  <2>1. DOMAIN Remaining(jurisdictions) = left
    BY <1>1
  <2>2. DOMAIN <<>> = {}
    OBVIOUS
  <2>3. ASSUME left = {} PROVE Remaining(jurisdictions) = <<>>
    BY <1>1, <2>3
  <2>4. QED
    BY <2>1, <2>2, <2>3
<1>3. \A j \in DOMAIN jurisdictions : \A i \in jurisdictions[j] :
         InForce(i) <=> day \in (i.from .. IF i.to = 0 THEN LastDay ELSE i.to)
  BY RestrictionsAssumption DEF Dated, InForce
<1>4. left # {} <=> ForbiddenBy(jurisdictions)
  BY <1>3 DEF ForbiddenBy
<1>5. QED
  BY <1>2, <1>4

Forbids(row, region) ==
    IF row.form = "country" THEN ForbiddenBy(row.jurisdictions)
    ELSE /\ region \in DOMAIN row.regions
         /\ row.regions[region].partial = "absent"
         /\ ForbiddenBy(row.regions[region].jurisdictions)

LEMMA LeafBlocks ==
    ASSUME NEW row \in LegalRows, LegalOK(row), NEW region, region # "none", day \in 1 .. LastDay
    PROVE  (\E leaf \in LegalFor(row, region) : leaf.impact = "block") <=> Forbids(row, region)
<1> USE RestrictionsAssumption
<1>1. CASE row.form = "country"
  <2>1. row.regions = <<>> /\ Dated(row.jurisdictions)
    BY <1>1
  <2>2. LegalFor(row, region) = IF Remaining(row.jurisdictions) = <<>> THEN {}
                                ELSE {Leaf("block", "none", FALSE, Remaining(row.jurisdictions))}
    BY <2>1 DEF LegalFor
  <2>3. \A jurisdictions : Leaf("block", "none", FALSE, jurisdictions).impact = "block"
    BY DEF Leaf
  <2>4. Remaining(row.jurisdictions) # <<>> <=> ForbiddenBy(row.jurisdictions)
    BY <2>1, RemainingMeans
  <2>5. QED
    BY <1>1, <2>2, <2>3, <2>4 DEF Forbids
<1>2. CASE row.form # "country"
  <2> DEFINE part(code) == row.regions[code].partial = "true"
             law(code) == Remaining(row.regions[code].jurisdictions)
             leaf(code) == Leaf(ItemImpact(part(code)), code, part(code), law(code))
  <2>1. row.regions # <<>>
    BY <1>2 DEF LegalOK
  <2>2. LegalFor(row, region) = {leaf(code) : code \in {c \in {region} \intersect DOMAIN row.regions : law(c) # <<>>}}
    BY <2>1 DEF LegalFor, Candidates
  <2>3. \A code : leaf(code).impact = IF part(code) THEN "warn" ELSE "block"
    BY DEF Leaf, ItemImpact
  <2> HIDE DEF leaf
  <2>4. (\E l \in LegalFor(row, region) : l.impact = "block")
           <=> region \in DOMAIN row.regions /\ law(region) # <<>> /\ ~part(region)
    BY <2>2, <2>3
  <2>5. ASSUME region \in DOMAIN row.regions
        PROVE  /\ ~part(region) <=> row.regions[region].partial = "absent"
               /\ law(region) # <<>> <=> ForbiddenBy(row.regions[region].jurisdictions)
    <3>1. row.regions[region].partial \in {"absent", "true"}
      BY <1>2, <2>5 DEF LegalOK
    <3>2. Dated(row.regions[region].jurisdictions)
      BY <2>5
    <3>3. QED
      BY <3>1, <3>2, RemainingMeans
  <2>6. QED
    BY <1>2, <2>4, <2>5 DEF Forbids
<1>3. QED
  BY <1>1, <1>2

\* Sending is blocked exactly if a region is named and an instrument of the
\* provider's bloc that is in force is for all of it, or for the country, for
\* every policy that is accepted (legal.py:56-125, impact.py:15-25).
THEOREM BlockIsExactCorrect == RestrictionsSpec => []BlockIsExact
<1>1. RestrictionsInv => BlockIsExact
  <2> SUFFICES ASSUME RestrictionsInv, question # Unknown
               PROVE  checked.impact = "block" <=>
                         question # "none" /\ \E row \in policy.legal : Forbids(row, question)
    BY DEF BlockIsExact, Forbids
  <2> DEFINE legal == UNION {LegalFor(row, question) : row \in policy.legal}
             routing == UNION {RoutingFor(row, question) : row \in policy.routing}
  <2>1. checked.impact = Impact(legal, routing, question # "none")
    BY DEF RestrictionsInv, ForDestination
  <2>2. checked.impact = "block" <=> question # "none" /\ \E leaf \in legal : leaf.impact = "block"
    <3> HIDE DEF legal, routing
    <3>1. QED
      BY <2>1 DEF Impact
  <2>3. (\E leaf \in legal : leaf.impact = "block")
           <=> \E row \in policy.legal : \E leaf \in LegalFor(row, question) : leaf.impact = "block"
    OBVIOUS
  <2>4. QED
    BY <2>2, <2>3, LeafBlocks DEF RestrictionsInv
<1>2. QED
  BY <1>1, RestrictionsInitially, RestrictionsPreserved, PTL DEF RestrictionsSpec
-----------------------------------------------------------------------------
(***************************************************************************)
(* Tracking, for every status map and every row a carrier may write, in    *)
(* lists of any length: what was polled is where the list of the carrier   *)
(* begins, and the history of a list begins with that of its beginning.    *)
(***************************************************************************)

Begins(rows, more) == Len(rows) <= Len(more) /\ \A i \in 1 .. Len(rows) : more[i] = rows[i]

Places(rows) == [i \in DOMAIN rows |-> i]

Firsts(rows) == {i \in DOMAIN rows : First(rows, i)}

KeptPlaces(rows) == Keep(Places(rows), Firsts(rows))

LEMMA KeptPlacesType ==
    ASSUME NEW rows \in Seq(Rows)
    PROVE  /\ Places(rows) \in Seq(Nat) /\ Len(Places(rows)) = Len(rows)
           /\ KeptPlaces(rows) \in Seq(DOMAIN rows)
           /\ ToSet(KeptPlaces(rows)) = Firsts(rows)
<1>1. DOMAIN rows = 1 .. Len(rows) /\ Len(rows) \in Nat
  OBVIOUS
<1>2. /\ Places(rows) \in Seq(Nat) /\ Len(Places(rows)) = Len(rows)
      /\ Places(rows) \in Seq(DOMAIN rows) /\ ToSet(Places(rows)) = DOMAIN rows
  BY <1>1 DEF Places, ToSet
<1> DEFINE D == DOMAIN rows
           K == Firsts(rows)
           places == Places(rows)
<1>3. K \subseteq D
  BY DEF Firsts
<1>4. Keep(places, K) \in Seq(D \cap K) /\ ToSet(Keep(places, K)) = ToSet(places) \cap K
  <2> HIDE DEF D, K, places
  <2>1. QED
    BY <1>2, KeepType DEF places, D
<1>5. D \cap K = K
  BY <1>3
<1>6. Keep(places, K) \in Seq(D)
  <2> HIDE DEF D, K, places
  <2>1. QED
    BY <1>3, <1>4
<1>7. QED
  BY <1>2, <1>4, <1>5, <1>6 DEF KeptPlaces

LEMMA HistoryMeans ==
    ASSUME NEW rows \in Seq(Rows)
    PROVE  /\ Len(History(rows)) = Len(KeptPlaces(rows)) /\ Len(History(rows)) \in Nat
           /\ History(rows) \in Seq({Event(rows[i], i) : i \in DOMAIN rows})
           /\ \A n \in 1 .. Len(KeptPlaces(rows)) :
                 /\ KeptPlaces(rows)[n] \in DOMAIN rows
                 /\ History(rows)[n] = Event(rows[KeptPlaces(rows)[n]], KeptPlaces(rows)[n])
<1>1. History(rows) = [n \in DOMAIN KeptPlaces(rows) |-> Event(rows[KeptPlaces(rows)[n]], KeptPlaces(rows)[n])]
  BY DEF History, KeptPlaces, Places, Firsts
<1> DEFINE kept == KeptPlaces(rows)
           E == {Event(rows[i], i) : i \in DOMAIN rows}
<1>2. kept \in Seq(DOMAIN rows)
  BY KeptPlacesType
<1> HIDE DEF kept
<1>3. DOMAIN kept = 1 .. Len(kept) /\ Len(kept) \in Nat /\ \A n \in 1 .. Len(kept) : kept[n] \in DOMAIN rows
  BY <1>2
<1>4. \A n \in 1 .. Len(kept) : Event(rows[kept[n]], kept[n]) \in E
  BY <1>3
<1> HIDE DEF E
<1>5. History(rows) \in [1 .. Len(kept) -> E] /\ \A n \in 1 .. Len(kept) : History(rows)[n] = Event(rows[kept[n]], kept[n])
  BY <1>1, <1>3, <1>4 DEF kept
<1>6. QED
  BY <1>3, <1>5 DEF kept, E

LEMMA KeptBegins ==
    ASSUME NEW rows \in Seq(Rows), NEW more \in Seq(Rows), Begins(rows, more)
    PROVE  /\ Begins(KeptPlaces(rows), KeptPlaces(more))
           /\ \A i \in 1 .. Len(rows) : i \in Firsts(rows) <=> i \in Firsts(more)
<1>1. /\ DOMAIN rows = 1 .. Len(rows) /\ Len(rows) \in Nat
      /\ DOMAIN more = 1 .. Len(more) /\ Len(more) \in Nat
      /\ Len(rows) <= Len(more) /\ \A i \in 1 .. Len(rows) : more[i] = rows[i]
  BY DEF Begins
<1>2. \A i \in 1 .. Len(rows) : i \in Firsts(rows) <=> i \in Firsts(more)
  BY <1>1 DEF Firsts, First
<1> DEFINE s == Places(rows)
           t == Places(more)
           kept == Firsts(rows)
           other == Firsts(more)
<1>3. s \in Seq(Nat) /\ t \in Seq(Nat) /\ Len(s) <= Len(t)
  BY <1>1, KeptPlacesType
<1>4. \A i \in 1 .. Len(s) : t[i] = s[i] /\ (s[i] \in kept <=> s[i] \in other)
  BY <1>1, <1>2, KeptPlacesType DEF Places
<1> HIDE DEF s, t, kept, other
<1>5. /\ Len(Keep(s, kept)) <= Len(Keep(t, other))
      /\ \A i \in 1 .. Len(Keep(s, kept)) : Keep(t, other)[i] = Keep(s, kept)[i]
  BY <1>3, <1>4, KeepPrefix
<1>6. QED
  BY <1>2, <1>5 DEF Begins, KeptPlaces, s, t, kept, other

LEMMA KeptRises ==
    ASSUME NEW rows \in Seq(Rows)
    PROVE  \A a, b \in 1 .. Len(KeptPlaces(rows)) : a < b => KeptPlaces(rows)[a] < KeptPlaces(rows)[b]
<1> DEFINE s == Places(rows)
           kept == Firsts(rows)
<1>1. s \in Seq(Nat) /\ \A p \in 1 .. Len(s) : s[p] = p
  BY KeptPlacesType DEF Places
<1> HIDE DEF s, kept
<1>2. \A a, b \in 1 .. Len(Keep(s, kept)) : a < b =>
         \E p, q \in 1 .. Len(s) : p < q /\ Keep(s, kept)[a] = s[p] /\ Keep(s, kept)[b] = s[q]
  BY <1>1, KeepOrder
<1> DEFINE k == Keep(s, kept)
<1> HIDE DEF k
<1>3. ASSUME NEW a \in 1 .. Len(k), NEW b \in 1 .. Len(k), a < b PROVE k[a] < k[b]
  <2>1. PICK p, q \in 1 .. Len(s) : p < q /\ k[a] = s[p] /\ k[b] = s[q]
    BY <1>2, <1>3 DEF k
  <2>2. s[p] = p /\ s[q] = q
    BY <1>1
  <2>3. QED
    BY <2>1, <2>2
<1>4. QED
  BY <1>3 DEF KeptPlaces, k, s, kept

LEMMA HistoryBegins ==
    ASSUME NEW rows \in Seq(Rows), NEW more \in Seq(Rows), Begins(rows, more)
    PROVE  /\ SubSeq(History(more), 1, Len(History(rows))) = History(rows)
           /\ Begins(History(rows), History(more))
<1>1. Len(rows) <= Len(more) /\ DOMAIN rows = 1 .. Len(rows) /\ \A i \in 1 .. Len(rows) : more[i] = rows[i]
  BY DEF Begins
<1>2. /\ Len(KeptPlaces(rows)) <= Len(KeptPlaces(more))
      /\ \A n \in 1 .. Len(KeptPlaces(rows)) : KeptPlaces(more)[n] = KeptPlaces(rows)[n]
  BY KeptBegins DEF Begins
<1> DEFINE h == History(rows)
           g == History(more)
<1>4. Len(h) = Len(KeptPlaces(rows)) /\ Len(g) = Len(KeptPlaces(more)) /\ Len(h) \in Nat /\ Len(g) \in Nat
  BY HistoryMeans
<1>5. \A n \in 1 .. Len(h) : g[n] = h[n]
  <2> SUFFICES ASSUME NEW n \in 1 .. Len(h) PROVE g[n] = h[n]
    OBVIOUS
  <2> DEFINE i == KeptPlaces(rows)[n]
  <2>1. n \in 1 .. Len(KeptPlaces(rows)) /\ n \in 1 .. Len(KeptPlaces(more)) /\ KeptPlaces(more)[n] = i
    BY <1>2, <1>4
  <2>2. i \in DOMAIN rows /\ h[n] = Event(rows[i], i)
    BY <2>1, HistoryMeans
  <2>3. g[n] = Event(more[i], i)
    BY <2>1, HistoryMeans
  <2>4. more[i] = rows[i]
    BY <1>1, <2>2
  <2>5. QED
    BY <2>2, <2>3, <2>4
<1>6. \E E : h \in Seq(E)
  BY HistoryMeans
<1>7. \E F : g \in Seq(F)
  BY HistoryMeans
<1> HIDE DEF g, h
<1>8. SubSeq(g, 1, Len(h)) = h
  BY <1>2, <1>4, <1>5, <1>6, <1>7
<1>9. QED
  BY <1>2, <1>4, <1>5, <1>8 DEF Begins, g, h

LEMMA HistoriesType ==
    ASSUME NEW rows \in Seq(Rows), NEW more \in Seq(Rows)
    PROVE  \E E : History(rows) \in Seq(E) /\ History(more) \in Seq(E)
<1> DEFINE D == {Event(rows[i], i) : i \in DOMAIN rows}
           F == {Event(more[i], i) : i \in DOMAIN more}
<1>1. History(rows) \in Seq(D) /\ History(more) \in Seq(F)
  BY HistoryMeans
<1> HIDE DEF D, F
<1>2. History(rows) \in Seq(D \union F) /\ History(more) \in Seq(D \union F)
  BY <1>1
<1>3. QED
  BY <1>2

\* No event stands twice in a history: the ids differ.
LEMMA HistoryOnce == ASSUME NEW rows \in Seq(Rows) PROVE Once(History(rows))
<1> DEFINE h == History(rows)
           kept == KeptPlaces(rows)
<1>1. /\ Len(h) = Len(kept)
      /\ \A n \in 1 .. Len(kept) : kept[n] \in DOMAIN rows /\ h[n] = Event(rows[kept[n]], kept[n])
  BY HistoryMeans
<1>2. \A a, b \in 1 .. Len(kept) : a < b => kept[a] < kept[b]
  BY KeptRises
<1>3. \A n \in 1 .. Len(kept) : First(rows, kept[n])
  <2>1. ToSet(kept) = Firsts(rows) /\ kept \in Seq(DOMAIN rows)
    BY KeptPlacesType
  <2> HIDE DEF kept
  <2>2. \A n \in 1 .. Len(kept) : kept[n] \in Firsts(rows)
    BY <2>1 DEF ToSet
  <2>3. QED
    BY <2>2 DEF Firsts
<1>4. DOMAIN rows = 1 .. Len(rows) /\ Len(rows) \in Nat
  OBVIOUS
<1> HIDE DEF h, kept
<1>5. ASSUME NEW a \in 1 .. Len(kept), NEW b \in 1 .. Len(kept), a < b PROVE h[a].id # h[b].id
  <2>1. kept[a] \in 1 .. (kept[b] - 1) /\ kept[a] \in DOMAIN rows /\ kept[b] \in DOMAIN rows
    BY <1>1, <1>2, <1>4, <1>5
  <2>2. rows[kept[a]].code # "none"
    BY <1>3, <1>5 DEF First
  <2>3. EventId(rows[kept[a]], kept[a]) # EventId(rows[kept[b]], kept[b])
    BY <1>3, <1>5, <2>1, <2>2 DEF First
  <2>4. h[a].id = EventId(rows[kept[a]], kept[a]) /\ h[b].id = EventId(rows[kept[b]], kept[b])
    <3>1. \A row, place : Event(row, place).id = EventId(row, place)
      BY DEF Event
    <3>2. h[a] = Event(rows[kept[a]], kept[a]) /\ h[b] = Event(rows[kept[b]], kept[b])
      BY <1>1, <1>5
    <3>3. QED
      BY <3>1, <3>2
  <2>5. QED
    BY <2>3, <2>4
<1>6. \A a, b \in 1 .. Len(h) : a # b => h[a] # h[b]
  <2> SUFFICES ASSUME NEW a \in 1 .. Len(kept), NEW b \in 1 .. Len(kept), a # b PROVE h[a] # h[b]
    BY <1>1
  <2>1. CASE a < b
    BY <1>5, <2>1
  <2>2. CASE b < a
    BY <1>5, <2>2
  <2>3. QED
    BY <2>1, <2>2
<1>7. QED
  BY <1>6 DEF Once, h

\* What a longer list adds to the history are rows that are beyond the shorter one.
LEMMA HistoryNew ==
    ASSUME NEW rows \in Seq(Rows), NEW more \in Seq(Rows), Begins(rows, more),
           NEW n \in 1 .. Len(History(more)), n > Len(History(rows))
    PROVE  \E i \in Firsts(more) : i > Len(rows) /\ History(more)[n] = Event(more[i], i)
<1> DEFINE kept == KeptPlaces(rows)
           all == KeptPlaces(more)
           i == all[n]
<1>1. Len(History(more)) = Len(all) /\ Len(History(rows)) = Len(kept)
  BY HistoryMeans
<1>2. i \in DOMAIN more /\ History(more)[n] = Event(more[i], i)
  BY <1>1, HistoryMeans
<1>3. /\ ToSet(all) = Firsts(more) /\ all \in Seq(DOMAIN more)
      /\ ToSet(kept) = Firsts(rows) /\ kept \in Seq(DOMAIN rows)
  BY KeptPlacesType
<1>4. \A a, b \in 1 .. Len(all) : a < b => all[a] < all[b]
  BY KeptRises
<1>5. /\ Len(kept) <= Len(all) /\ \A a \in 1 .. Len(kept) : all[a] = kept[a]
      /\ \A j \in 1 .. Len(rows) : j \in Firsts(rows) <=> j \in Firsts(more)
  BY KeptBegins DEF Begins
<1>6. DOMAIN more = 1 .. Len(more) /\ Len(more) \in Nat /\ Len(rows) \in Nat
  OBVIOUS
<1> HIDE DEF kept, all
<1>7. i \in Firsts(more)
  <2>1. DOMAIN all = 1 .. Len(all) /\ n \in DOMAIN all
    BY <1>1, <1>3
  <2>2. i \in ToSet(all)
    BY <2>1 DEF ToSet
  <2>3. QED
    BY <1>3, <2>2
<1>8. ASSUME ~(i > Len(rows)) PROVE FALSE
  <2>1. i \in 1 .. Len(rows)
    BY <1>2, <1>6, <1>8
  <2>2. i \in ToSet(kept)
    BY <1>3, <1>5, <1>7, <2>1
  <2>3. PICK a \in 1 .. Len(kept) : kept[a] = i
    <3>1. DOMAIN kept = 1 .. Len(kept)
      BY <1>3
    <3>2. QED
      BY <2>2, <3>1 DEF ToSet
  <2>4. a \in 1 .. Len(all) /\ a < n /\ all[a] = i
    BY <1>1, <1>3, <1>5, <2>3
  <2>5. i < i
    BY <1>1, <1>4, <2>4
  <2>6. QED
    BY <1>2, <1>6, <2>5
<1>9. QED
  BY <1>2, <1>7, <1>8

LEMMA MappedMeans ==
    ASSUME NEW E, NEW h \in Seq(E)
    PROVE  Mapped(h) \in Seq(E) /\ ToSet(Mapped(h)) = {e \in ToSet(h) : e.status # "none"}
<1> DEFINE known == {e \in ToSet(h) : e.status # "none"}
           K == E \cap known
<1>1. known \subseteq ToSet(h) /\ K \subseteq E
  OBVIOUS
<1>2. Mapped(h) = Keep(h, known)
  BY DEF Mapped
<1> HIDE DEF known
<1>3. Keep(h, known) \in Seq(K) /\ ToSet(Keep(h, known)) = ToSet(h) \cap known
  BY KeepType
<1> HIDE DEF K
<1>4. Keep(h, known) \in Seq(E)
  BY <1>1, <1>3
<1>5. QED
  BY <1>1, <1>2, <1>3, <1>4 DEF known

LEMMA MappedBegins ==
    ASSUME NEW E, NEW h \in Seq(E), NEW g \in Seq(E), Begins(h, g)
    PROVE  Begins(Mapped(h), Mapped(g))
<1> DEFINE kept == {e \in ToSet(h) : e.status # "none"}
           other == {e \in ToSet(g) : e.status # "none"}
<1>1. Len(h) <= Len(g) /\ Len(h) \in Nat /\ Len(g) \in Nat /\ \A i \in 1 .. Len(h) : g[i] = h[i]
  BY DEF Begins
<1>2. \A i \in 1 .. Len(h) : h[i] \in ToSet(h) /\ g[i] \in ToSet(g)
  BY <1>1 DEF ToSet
<1>3. \A i \in 1 .. Len(h) : g[i] = h[i] /\ (h[i] \in kept <=> h[i] \in other)
  BY <1>1, <1>2
<1>4. Mapped(h) = Keep(h, kept) /\ Mapped(g) = Keep(g, other)
  BY DEF Mapped
<1> HIDE DEF kept, other
<1>5. /\ Len(Keep(h, kept)) <= Len(Keep(g, other))
      /\ \A i \in 1 .. Len(Keep(h, kept)) : Keep(g, other)[i] = Keep(h, kept)[i]
  BY <1>1, <1>3, KeepPrefix
<1>6. QED
  BY <1>4, <1>5 DEF Begins

LEMMA MappedNew ==
    ASSUME NEW E, NEW h \in Seq(E), NEW g \in Seq(E), Begins(h, g), Once(g),
           NEW k \in 1 .. Len(Mapped(g)), k > Len(Mapped(h))
    PROVE  \E n \in 1 .. Len(g) : n > Len(h) /\ Mapped(g)[k] = g[n] /\ g[n].status # "none"
<1> DEFINE m == Mapped(h)
           p == Mapped(g)
<1>1. /\ m \in Seq(E) /\ ToSet(m) = {e \in ToSet(h) : e.status # "none"}
      /\ p \in Seq(E) /\ ToSet(p) = {e \in ToSet(g) : e.status # "none"}
  BY MappedMeans
<1>2. Len(m) <= Len(p) /\ \A i \in 1 .. Len(m) : p[i] = m[i]
  BY MappedBegins DEF Begins
<1>3. Once(p)
  <2> DEFINE other == {e \in ToSet(g) : e.status # "none"}
  <2>1. p = Keep(g, other)
    BY DEF Mapped
  <2> HIDE DEF other, p
  <2>2. Once(Keep(g, other))
    BY KeepOnce
  <2>3. QED
    BY <2>1, <2>2
<1>4. \A i \in 1 .. Len(h) : g[i] = h[i]
  BY DEF Begins
<1>5. k \in 1 .. Len(p) /\ k > Len(m)
  OBVIOUS
<1> HIDE DEF m, p
<1>6. p[k] \in ToSet(p)
  BY <1>1, <1>5 DEF ToSet
<1>7. p[k] \in ToSet(g) /\ p[k].status # "none"
  BY <1>1, <1>6
<1>8. PICK n \in 1 .. Len(g) : p[k] = g[n]
  BY <1>7 DEF ToSet
<1>9. ASSUME ~(n > Len(h)) PROVE FALSE
  <2>1. n \in 1 .. Len(h)
    BY <1>9
  <2>2. p[k] = h[n]
    BY <1>4, <1>8, <2>1
  <2>3. p[k] \in ToSet(h)
    BY <2>1, <2>2 DEF ToSet
  <2>4. p[k] \in ToSet(m)
    BY <1>1, <1>7, <2>3
  <2>5. PICK a \in 1 .. Len(m) : m[a] = p[k]
    BY <1>1, <2>4 DEF ToSet
  <2>6. a \in 1 .. Len(p) /\ a # k /\ p[a] = p[k]
    BY <1>1, <1>2, <1>5, <2>5
  <2>7. QED
    BY <1>3, <1>5, <2>6 DEF Once
<1>10. QED
  BY <1>7, <1>8, <1>9 DEF p

LEMMA ChangedMeans ==
    ASSUME NEW E, NEW m \in Seq(E), m # <<>>
    PROVE  /\ Changed(m) \in 1 .. Len(m)
           /\ \A i \in 1 .. Len(m) : m[i].status # Last(m).status => i < Changed(m)
<1> DEFINE others == {i \in DOMAIN m : m[i].status # Last(m).status}
           S == {0} \union others
<1>1. DOMAIN m = 1 .. Len(m) /\ Len(m) \in Nat /\ Len(m) # 0
  OBVIOUS
<1>2. Len(m) \notin others /\ others \subseteq 1 .. Len(m)
  BY <1>1 DEF Last
<1>3. S \subseteq 0 .. Len(m) /\ S \subseteq Nat /\ S # {} /\ Len(m) \notin S
  BY <1>1, <1>2
<1>4. Changed(m) = Max(S) + 1
  BY DEF Changed
<1>5. \A i \in 1 .. Len(m) : m[i].status # Last(m).status => i \in S
  BY <1>1
<1> HIDE DEF S
<1>6. IsFiniteSet(S)
  <2>1. IsFiniteSet(0 .. Len(m))
    BY <1>1, FS_Interval
  <2>2. QED
    BY <1>3, <2>1, FS_Subset
<1>7. \E x \in S : \A y \in S : y <= x
  BY <1>3, <1>6, Greatest
<1>8. \E x \in S : \A y \in S : x >= y
  BY <1>3, <1>7
<1>9. Max(S) \in S /\ \A y \in S : Max(S) >= y
  BY <1>8 DEF Max
<1> DEFINE top == Max(S)
<1> HIDE DEF top
<1>10. top \in S /\ (\A y \in S : top >= y) /\ Changed(m) = top + 1
  BY <1>4, <1>9 DEF top
<1>11. top \in Nat /\ top < Len(m)
  BY <1>1, <1>3, <1>10
<1>12. Changed(m) \in 1 .. Len(m)
  BY <1>1, <1>10, <1>11
<1>13. \A i \in 1 .. Len(m) : m[i].status # Last(m).status => i < Changed(m)
  BY <1>1, <1>5, <1>10, <1>11
<1>14. QED
  BY <1>12, <1>13

\* More of the status that the list ends with leaves the beginning of the run where it was.
LEMMA ChangedStays ==
    ASSUME NEW E, NEW m \in Seq(E), NEW p \in Seq(E), m # <<>>, Begins(m, p),
           \A k \in 1 .. Len(p) : k > Len(m) => p[k].status = Last(m).status
    PROVE  Changed(p) = Changed(m) /\ Last(p).status = Last(m).status
<1>1. /\ DOMAIN m = 1 .. Len(m) /\ Len(m) \in Nat /\ Len(m) # 0
      /\ DOMAIN p = 1 .. Len(p) /\ Len(p) \in Nat /\ Len(m) <= Len(p)
      /\ \A i \in 1 .. Len(m) : p[i] = m[i]
  BY DEF Begins
<1>2. Last(p).status = Last(m).status
  <2>1. CASE Len(p) = Len(m)
    BY <1>1, <2>1 DEF Last
  <2>2. CASE Len(p) > Len(m)
    BY <1>1, <2>2 DEF Last
  <2>3. Len(p) = Len(m) \/ Len(p) > Len(m)
    <3>1. Len(m) \in Nat /\ Len(p) \in Nat
      BY <1>1
    <3>2. Len(m) <= Len(p)
      BY <1>1
    <3>3. QED
      BY <3>1, <3>2
  <2>4. QED
    BY <2>1, <2>2, <2>3
<1> DEFINE st == Last(m).status
<1> HIDE DEF st
<1>3. Last(p).status = st /\ Last(m).status = st /\ \A k \in 1 .. Len(p) : k > Len(m) => p[k].status = st
  BY <1>2 DEF st
<1>4. {i \in DOMAIN p : p[i].status # st} = {i \in DOMAIN m : m[i].status # st}
  BY <1>1, <1>3
<1> DEFINE Others(s) == {i \in DOMAIN s : s[i].status # Last(s).status}
<1>5. Others(p) = Others(m)
  BY <1>3, <1>4
<1>6. Changed(p) = Max({0} \union Others(p)) + 1 /\ Changed(m) = Max({0} \union Others(m)) + 1
  BY DEF Changed
<1> HIDE DEF Others
<1>7. QED
  BY <1>2, <1>5, <1>6

TrackingInv ==
    /\ list \in Seq(Rows) /\ polled \in Seq(Rows) /\ Begins(polled, list)
    /\ current = {} \/ \E row \in Rows : current = {row}

LEMMA TrackingInitially == TrackingInit => TrackingInv
BY DEF TrackingInit, TrackingInv, Begins

LEMMA TrackingPreserved == TrackingInv /\ [TrackingNext]_trackingVars => TrackingInv'
<1> SUFFICES ASSUME TrackingInv, [TrackingNext]_trackingVars PROVE TrackingInv'
  OBVIOUS
<1>1. ASSUME NEW provider, NEW wire, NEW address, ChooseAdapter(provider, wire, address) PROVE TrackingInv'
  BY <1>1 DEF ChooseAdapter, TrackingInv, Begins
<1>2. ASSUME NEW row \in Rows, Announce(row) PROVE TrackingInv'
  BY <1>2 DEF Announce, TrackingInv, Begins
<1>3. ASSUME NEW row \in Rows, NEW pointed \in BOOLEAN, Record(row, pointed) PROVE TrackingInv'
  <2>1. list' = Append(list, row) /\ polled' = polled /\ (current' = {} \/ current' = {row})
    BY <1>3 DEF Record
  <2>2. list \in Seq(Rows) /\ polled \in Seq(Rows) /\ Begins(polled, list)
    BY DEF TrackingInv
  <2>3. list' \in Seq(Rows) /\ Begins(polled, list')
    BY <2>1, <2>2 DEF Begins
  <2>4. QED
    BY <2>1, <2>2, <2>3 DEF TrackingInv, Begins
<1>4. CASE Poll
  BY <1>4 DEF Poll, TrackingInv, Begins
<1>5. ASSUME NEW code, PollFails(code) PROVE TrackingInv'
  BY <1>5 DEF PollFails, TrackingInv, Begins
<1>6. CASE PollUnsupported
  BY <1>6 DEF PollUnsupported, TrackingInv, Begins
<1>7. CASE UNCHANGED trackingVars
  BY <1>7 DEF trackingVars, TrackingInv, Begins
<1>8. QED
  BY <1>1, <1>2, <1>3, <1>4, <1>5, <1>6, <1>7 DEF TrackingNext

LEMMA AnswerBegins == ASSUME TrackingInv PROVE Answer \in Seq(Rows) /\ Begins(list, Answer) /\ Begins(polled, Answer)
<1>1. list \in Seq(Rows) /\ polled \in Seq(Rows) /\ Begins(polled, list)
  BY DEF TrackingInv
<1>2. current \subseteq Rows /\ IsFiniteSet(current)
  BY FS_EmptySet, FS_Singleton DEF TrackingInv
<1>3. SetToSeq(current) \in Seq(current)
  BY <1>2, SetToSeqRange
<1> DEFINE beside == SetToSeq(current)
<1>4. beside \in Seq(Rows)
  <2> HIDE DEF beside
  <2>1. beside \in Seq(current)
    BY <1>3 DEF beside
  <2>2. QED
    BY <1>2, <2>1
<1>5. Answer = list \o beside
  BY DEF Answer
<1> HIDE DEF beside
<1>6. Answer \in Seq(Rows) /\ Begins(list, Answer)
  BY <1>1, <1>4, <1>5 DEF Begins
<1>7. QED
  BY <1>1, <1>6 DEF Begins

\* What a poll has shown of the list, a later poll shows again first, for every
\* list that only grows (shipment.py:81-115, adapter.py:20-39).
THEOREM EventsStayCorrect == TrackingSpec => EventsStay
<1> DEFINE Stays == LET before == History(polled)
                    IN  shown' # shown => SubSeq(shown'.history, 1, Len(before)) = before
<1>1. TrackingInv /\ [TrackingNext]_trackingVars => [Stays]_trackingVars
  <2> SUFFICES ASSUME TrackingInv, TrackingNext, shown' # shown
               PROVE  SubSeq(shown'.history, 1, Len(History(polled))) = History(polled)
    OBVIOUS
  <2>1. Poll
    BY DEF TrackingNext, ChooseAdapter, Announce, Record, PollFails, PollUnsupported
  <2>2. shown' = Assembled(History(Answer))
    BY <2>1 DEF Poll
  <2>3. shown'.history = History(Answer)
    BY <2>2 DEF Assembled
  <2>4. polled \in Seq(Rows)
    BY DEF TrackingInv
  <2>5. SubSeq(History(Answer), 1, Len(History(polled))) = History(polled)
    BY <2>4, AnswerBegins, HistoryBegins
  <2>6. QED
    BY <2>3, <2>5
<1>2. QED
  BY <1>1, TrackingInitially, TrackingPreserved, PTL DEF TrackingSpec, EventsStay

(***************************************************************************)
(* Dating the change: a carrier that numbers its events says nothing new   *)
(* beside its list, so what a poll adds to the history are rows of News.   *)
(***************************************************************************)

SnapshotInv == shown = Assembled(shown.history)

LEMMA SnapshotInitially == TrackingInit => SnapshotInv
<1> DEFINE E == {}
<1>1. <<>> \in Seq(E)
  OBVIOUS
<1> HIDE DEF E
<1>2. Mapped(<<>>) \in Seq(E)
  BY <1>1, MappedMeans
<1>3. Mapped(<<>>) = <<>>
  BY <1>2 DEF E
<1>4. QED
  BY <1>3 DEF TrackingInit, SnapshotInv, Assembled, NoSnapshot

LEMMA SnapshotPreserved == SnapshotInv /\ [TrackingNext]_trackingVars => SnapshotInv'
<1> SUFFICES ASSUME SnapshotInv, [TrackingNext]_trackingVars PROVE SnapshotInv'
  OBVIOUS
<1>1. CASE Poll
  <2>1. shown' = Assembled(History(Answer))
    BY <1>1 DEF Poll
  <2>2. shown'.history = History(Answer)
    BY <2>1 DEF Assembled
  <2>3. QED
    BY <2>1, <2>2 DEF SnapshotInv
<1>2. CASE UNCHANGED shown
  BY <1>2 DEF SnapshotInv
<1>3. QED
  BY <1>1, <1>2 DEF TrackingNext, ChooseAdapter, Announce, Record, PollFails, PollUnsupported, trackingVars

\* A numbered event has the same id wherever it stands.
LEMMA NothingBeside ==
    ASSUME TrackingInv, \A i \in DOMAIN list : list[i].id # 0, current \subseteq ToSet(list)
    PROVE  Firsts(Answer) \subseteq DOMAIN list
<1>1. Begins(list, Answer) /\ Answer \in Seq(Rows) /\ list \in Seq(Rows)
  BY AnswerBegins DEF TrackingInv
<1>2. current \subseteq Rows /\ IsFiniteSet(current)
  BY FS_EmptySet, FS_Singleton DEF TrackingInv
<1>3. SetToSeq(current) \in Seq(current) /\ ToSet(SetToSeq(current)) = current
  BY <1>2, SetToSeqRange
<1> DEFINE beside == SetToSeq(current)
<1>4. beside \in Seq(Rows)
  <2> HIDE DEF beside
  <2>1. beside \in Seq(current)
    BY <1>3 DEF beside
  <2>2. QED
    BY <1>2, <2>1
<1>5. Answer = list \o beside /\ ToSet(beside) = current
  BY <1>3 DEF Answer
<1> HIDE DEF beside
<1>6. Joins(Answer, list, beside)
  BY <1>1, <1>4, <1>5, Concatenation
<1>7. /\ DOMAIN list = 1 .. Len(list) /\ Len(list) \in Nat
      /\ DOMAIN beside = 1 .. Len(beside) /\ Len(beside) \in Nat
      /\ DOMAIN Answer = 1 .. Len(Answer) /\ Len(Answer) = Len(list) + Len(beside)
  BY <1>1, <1>4, <1>6 DEF Joins
<1> SUFFICES ASSUME NEW i \in Firsts(Answer), i \notin DOMAIN list PROVE FALSE
  OBVIOUS
<1>8. i \in DOMAIN Answer /\ First(Answer, i)
  BY DEF Firsts
<1> DEFINE k == i - Len(list)
<1>9. k \in 1 .. Len(beside) /\ i = Len(list) + k /\ i \in Nat
  BY <1>7, <1>8
<1>10. Answer[i] = beside[k]
  BY <1>6, <1>9 DEF Joins
<1>11. Answer[i] \in ToSet(list)
  <2>1. beside[k] \in ToSet(beside)
    BY <1>7, <1>9 DEF ToSet
  <2>2. QED
    BY <1>5, <1>10, <2>1
<1>12. PICK j \in DOMAIN list : list[j] = Answer[i]
  BY <1>11 DEF ToSet
<1>13. Answer[j] = Answer[i] /\ j \in 1 .. (i - 1)
  BY <1>1, <1>7, <1>9, <1>12 DEF Begins
<1>14. Answer[i].id # 0
  BY <1>12
<1>15. EventId(Answer[j], j) = EventId(Answer[i], i)
  BY <1>13, <1>14 DEF EventId, Discriminator
<1>16. QED
  BY <1>8, <1>13, <1>15 DEF First

\* What is shown with a status and was not among the mapped events before is one of News.
LEMMA NewsOnly ==
    ASSUME TrackingInv, \A i \in DOMAIN list : list[i].id # 0, current \subseteq ToSet(list),
           NEW k \in 1 .. Len(Mapped(History(Answer))), k > Len(Mapped(History(polled)))
    PROVE  \E i \in DOMAIN News :
              /\ Mapped(History(Answer))[k].time = News[i].time
              /\ Mapped(History(Answer))[k].status = Status(News[i].code)
              /\ Mapped(History(Answer))[k].status # "none"
<1> DEFINE h == History(polled)
           g == History(Answer)
<1>1. /\ polled \in Seq(Rows) /\ list \in Seq(Rows) /\ Answer \in Seq(Rows)
      /\ Begins(polled, list) /\ Begins(list, Answer) /\ Begins(polled, Answer)
  BY AnswerBegins DEF TrackingInv
<1>2. Begins(h, g) /\ Once(g)
  BY <1>1, HistoryBegins, HistoryOnce
<1>3. PICK E : h \in Seq(E) /\ g \in Seq(E)
  BY <1>1, HistoriesType
<1>4. PICK n \in 1 .. Len(g) : n > Len(h) /\ Mapped(g)[k] = g[n] /\ g[n].status # "none"
  <2> HIDE DEF h, g
  <2>1. k \in 1 .. Len(Mapped(g)) /\ k > Len(Mapped(h))
    BY DEF h, g
  <2>2. QED
    BY <1>2, <1>3, <2>1, MappedNew
<1>5. PICK i \in Firsts(Answer) : i > Len(polled) /\ g[n] = Event(Answer[i], i)
  BY <1>1, <1>4, HistoryNew
<1>6. i \in DOMAIN list
  BY NothingBeside
<1>7. /\ DOMAIN list = 1 .. Len(list) /\ Len(list) \in Nat /\ Len(polled) \in Nat
      /\ Len(polled) <= Len(list)
  BY <1>1 DEF Begins
<1>8. Answer[i] = list[i]
  BY <1>1, <1>6, <1>7 DEF Begins
<1> DEFINE at == i - Len(polled)
<1>9. at \in DOMAIN News /\ News[at] = list[i]
  <2>1. at \in 1 .. Len(list) - Len(polled) /\ i = at + Len(polled)
    BY <1>5, <1>6, <1>7
  <2>2. QED
    BY <1>1, <1>7, <2>1 DEF News
<1>10. g[n].time = list[i].time /\ g[n].status = Status(list[i].code)
  <2>1. \A row, place : Event(row, place).time = row.time /\ Event(row, place).status = Status(row.code)
    BY DEF Event
  <2>2. QED
    BY <1>5, <1>8, <2>1
<1>11. QED
  BY <1>4, <1>9, <1>10

\* What a poll shows of the change, against what the snapshot before showed.
LEMMA PollDates ==
    ASSUME TrackingInv, SnapshotInv, Poll, \A i \in DOMAIN list : list[i].id # 0,
           current \subseteq ToSet(list), shown.history = History(polled)
    PROVE  /\ Quiet(News) /\ shown.status # "none" => shown'.changed = shown.changed
           /\ shown'.status # shown.status => \E i \in DOMAIN News : News[i].time = shown'.changed
<1> DEFINE m == Mapped(History(polled))
           p == Mapped(History(Answer))
<1>1. shown = Assembled(History(polled)) /\ shown' = Assembled(History(Answer))
  BY DEF SnapshotInv, Poll
<1>2. /\ shown.status = (IF m = <<>> THEN "none" ELSE Last(m).status)
      /\ shown.changed = (IF m = <<>> THEN 0 ELSE m[Changed(m)].time)
  BY <1>1 DEF Assembled
<1>3. /\ shown'.status = (IF p = <<>> THEN "none" ELSE Last(p).status)
      /\ shown'.changed = (IF p = <<>> THEN 0 ELSE p[Changed(p)].time)
  BY <1>1 DEF Assembled
<1>4. PICK E : History(polled) \in Seq(E) /\ History(Answer) \in Seq(E)
  BY AnswerBegins, HistoriesType DEF TrackingInv
<1>5. m \in Seq(E) /\ p \in Seq(E)
  BY <1>4, MappedMeans
<1>6. Begins(m, p)
  <2>1. Begins(History(polled), History(Answer))
    BY AnswerBegins, HistoryBegins DEF TrackingInv
  <2>2. QED
    BY <1>4, <2>1, MappedBegins
<1>7. \A k \in 1 .. Len(p) : k > Len(m) =>
         \E i \in DOMAIN News : /\ p[k].time = News[i].time
                                /\ p[k].status = Status(News[i].code)
                                /\ p[k].status # "none"
  BY NewsOnly
<1> HIDE DEF m, p
<1>8. /\ Len(m) \in Nat /\ Len(p) \in Nat /\ Len(m) <= Len(p)
      /\ (m = <<>> <=> Len(m) = 0) /\ (p = <<>> <=> Len(p) = 0)
      /\ \A i \in 1 .. Len(m) : p[i] = m[i]
  BY <1>5, <1>6 DEF Begins
<1>9. ASSUME Quiet(News), shown.status # "none" PROVE shown'.changed = shown.changed
  <2>1. m # <<>> /\ p # <<>> /\ shown.status = Last(m).status
    BY <1>2, <1>8, <1>9
  <2>2. \A k \in 1 .. Len(p) : k > Len(m) => p[k].status = Last(m).status
    BY <1>7, <1>9, <2>1 DEF Quiet
  <2>3. Changed(p) = Changed(m)
    BY <1>5, <1>6, <2>1, <2>2, ChangedStays
  <2>4. Changed(m) \in 1 .. Len(m)
    BY <1>5, <2>1, ChangedMeans
  <2>5. p[Changed(p)] = m[Changed(m)]
    BY <1>8, <2>3, <2>4
  <2>6. QED
    BY <1>2, <1>3, <2>1, <2>5
<1>10. ASSUME shown'.status # shown.status PROVE \E i \in DOMAIN News : News[i].time = shown'.changed
  <2>1. p # <<>>
    BY <1>2, <1>3, <1>8, <1>10
  <2>2. /\ Changed(p) \in 1 .. Len(p)
        /\ \A i \in 1 .. Len(p) : p[i].status # Last(p).status => i < Changed(p)
    BY <1>5, <2>1, ChangedMeans
  <2>3. Changed(p) > Len(m)
    <3>1. CASE m = <<>>
      BY <1>8, <2>2, <3>1
    <3>2. CASE m # <<>>
      <4>1. Len(m) \in 1 .. Len(m) /\ Len(m) \in 1 .. Len(p)
        BY <1>8, <3>2
      <4>2. p[Len(m)].status # Last(p).status
        BY <1>2, <1>3, <1>8, <1>10, <2>1, <3>2, <4>1 DEF Last
      <4>3. QED
        BY <2>2, <4>1, <4>2
    <3>3. QED
      BY <3>1, <3>2
  <2>4. PICK i \in DOMAIN News : p[Changed(p)].time = News[i].time
    BY <1>7, <2>2, <2>3
  <2>5. QED
    BY <1>3, <2>1, <2>4
<1>11. QED
  BY <1>9, <1>10

\* For a carrier that numbers its events, the time of the last change stays while
\* the status does, and a poll that shows another status dates the change by an
\* event no poll has shown (adapter.py:149-165).
THEOREM ChangeIsDatedCorrect == TrackingSpec => ChangeIsDated
<1> DEFINE Told == /\ shown' # shown
                   /\ \A i \in DOMAIN list : list[i].id # 0
                   /\ current \subseteq ToSet(list)
                   /\ shown.history = History(polled)
                   => /\ Quiet(News) /\ shown.status # "none" => shown'.changed = shown.changed
                      /\ shown'.status # shown.status => \E i \in DOMAIN News : News[i].time = shown'.changed
<1>1. TrackingInv /\ SnapshotInv /\ [TrackingNext]_trackingVars => [Told]_trackingVars
  <2> SUFFICES ASSUME TrackingInv, SnapshotInv, TrackingNext, shown' # shown PROVE Told
    OBVIOUS
  <2>1. Poll
    BY DEF TrackingNext, ChooseAdapter, Announce, Record, PollFails, PollUnsupported
  <2>2. QED
    BY <2>1, PollDates
<1>2. QED
  BY <1>1, TrackingInitially, TrackingPreserved, SnapshotInitially, SnapshotPreserved, PTL DEF TrackingSpec, ChangeIsDated
=============================================================================
