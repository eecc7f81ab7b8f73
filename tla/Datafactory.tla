---------------------------- MODULE Datafactory ----------------------------
(***************************************************************************)
(* DataFactoryAdapter: address checks that share one access token.  A      *)
(* check that finds no token, or one past its expiry, renews it first;     *)
(* checks that do so at once renew it each, and the last answer stays.     *)
(* The expiry is counted from the receipt of the answer, not from the      *)
(* moment the token was issued.                                            *)
(*                                                                         *)
(* Time passes in ticks.  An answer is received at most Lag ticks after    *)
(* the server made it (the timeout of the HTTP client, and the time the    *)
(* event loop needs).                                                      *)
(***************************************************************************)
EXTENDS Naturals, Sequences

CONSTANTS
    Checks,     \* the tasks that check addresses, one at a time each
    Lifetimes,  \* the lifetimes that the server gives to tokens
    Lag,        \* bound on the age of an answer when it is received
    MaxTokens,  \* bound on the tokens that are issued
    MaxTime     \* bound on the time

ASSUME DatafactoryAssumption == Lifetimes \subseteq Nat /\ Lag \in Nat

VARIABLES
    now,     \* the time
    ends,    \* for each token that the server has issued, when it ends
    token,   \* _access_token, as the number of the token; 0 is None
    expiry,  \* _token_expires_at; 0 is None
    step,    \* where each check is
    answer,  \* what the server has answered to the renewal of a check
    used,    \* the token that a check is sent with
    sentAt   \* and when it is sent

datafactoryVars == <<now, ends, token, expiry, step, answer, used, sentAt>>

Steps == {"idle", "renewing", "sent", "checked", "failed"}

NoAnswer == [kind |-> "none", token |-> 0, life |-> 0, made |-> 0]

Refusal == [kind |-> "refused", token |-> 0, life |-> 0, made |-> 0]

\* An answer without access_token has the token 0.
Token(t, life) == [kind |-> "token", token |-> t, life |-> life, made |-> now]

DatafactoryInit ==
    /\ now = 0
    /\ ends = <<>>
    /\ token = 0
    /\ expiry = 0
    /\ step = [c \in Checks |-> "idle"]
    /\ answer = [c \in Checks |-> NoAnswer]
    /\ used = [c \in Checks |-> 0]
    /\ sentAt = [c \in Checks |-> 0]

Go(c, to) == step' = [step EXCEPT ![c] = to]

Send(c, t) ==
    /\ Go(c, "sent")
    /\ used' = [used EXCEPT ![c] = t]
    /\ sentAt' = [sentAt EXCEPT ![c] = now]

Fresh == token # 0 /\ now < expiry

Free(c) == step[c] \in {"idle", "checked", "failed"}

\* No await between the look at the expiry and the header.
CheckWithToken(c) ==
    /\ Free(c)
    /\ Fresh
    /\ Send(c, token)
    /\ UNCHANGED <<now, ends, token, expiry, answer>>

StartRenewal(c) ==
    /\ Free(c)
    /\ ~Fresh
    /\ Go(c, "renewing")
    /\ UNCHANGED <<now, ends, token, expiry, answer, used, sentAt>>

\* The server issues a token to c ...
Issue(c, life) ==
    /\ step[c] = "renewing"
    /\ answer[c] = NoAnswer
    /\ Len(ends) < MaxTokens
    /\ ends' = Append(ends, now + life)
    /\ answer' = [answer EXCEPT ![c] = Token(Len(ends) + 1, life)]
    /\ UNCHANGED <<now, token, expiry, step, used, sentAt>>

\* ... or says 200 and gives none ...
IssueNone(c, life) ==
    /\ step[c] = "renewing"
    /\ answer[c] = NoAnswer
    /\ answer' = [answer EXCEPT ![c] = Token(0, life)]
    /\ UNCHANGED <<now, ends, token, expiry, step, used, sentAt>>

\* ... or something else.
RefuseToken(c) ==
    /\ step[c] = "renewing"
    /\ answer[c] = NoAnswer
    /\ answer' = [answer EXCEPT ![c] = Refusal]
    /\ UNCHANGED <<now, ends, token, expiry, step, used, sentAt>>

\* An answer that is lost, or a 5xx, makes HttpClient ask again.
AskAgain(c) ==
    /\ answer[c] # NoAnswer
    /\ answer' = [answer EXCEPT ![c] = NoAnswer]
    /\ UNCHANGED <<now, ends, token, expiry, step, used, sentAt>>

BugRenewed(c) ==
    /\ answer[c].kind = "token"
    /\ token' = answer[c].token
    /\ expiry' = IF now + answer[c].life > expiry THEN now + answer[c].life ELSE expiry
    /\ Send(c, answer[c].token)
    /\ answer' = [answer EXCEPT ![c] = NoAnswer]
    /\ UNCHANGED <<now, ends>>

\* The answer replaces the token and the expiry, whatever another check has
\* put there meanwhile, and c goes on with its own.
Renewed(c) ==
    /\ answer[c].kind = "token"
    /\ token' = answer[c].token
    /\ expiry' = now + answer[c].life
    /\ Send(c, answer[c].token)
    /\ answer' = [answer EXCEPT ![c] = NoAnswer]
    /\ UNCHANGED <<now, ends>>

\* A status other than 200, which raises TypeError (PortoError has no argument
\* vendor), or a TransportError of HttpClient.
RenewalFails(c) ==
    /\ step[c] = "renewing"
    /\ answer[c].kind # "token"
    /\ Go(c, "failed")
    /\ answer' = [answer EXCEPT ![c] = NoAnswer]
    /\ UNCHANGED <<now, ends, token, expiry, used, sentAt>>

Accepted(t) == t # 0 /\ now < ends[t]

\* The answer to the check.  A token that is refused is kept all the same.
Judge(c) ==
    /\ step[c] = "sent"
    /\ \/ Accepted(used[c]) /\ Go(c, "checked")
       \/ Go(c, "failed")
    /\ used' = [used EXCEPT ![c] = 0]
    /\ sentAt' = [sentAt EXCEPT ![c] = 0]
    /\ UNCHANGED <<now, ends, token, expiry, answer>>

Tick ==
    /\ now < MaxTime
    /\ \A c \in Checks : answer[c].kind = "token" => now < answer[c].made + Lag
    /\ now' = now + 1
    /\ UNCHANGED <<ends, token, expiry, step, answer, used, sentAt>>

DatafactoryNext ==
    \/ \E c \in Checks :
          \/ CheckWithToken(c) \/ StartRenewal(c)
          \/ RefuseToken(c) \/ AskAgain(c) \/ Renewed(c) \/ RenewalFails(c)
          \/ Judge(c)
          \/ \E life \in Lifetimes : Issue(c, life) \/ IssueNone(c, life)
    \/ Tick

DatafactorySpec == DatafactoryInit /\ [][DatafactoryNext]_datafactoryVars
-----------------------------------------------------------------------------
(* Properties *)

DatafactoryTypeOK ==
    /\ now \in Nat
    /\ ends \in Seq(Nat)
    /\ token \in 0 .. Len(ends)
    /\ expiry \in Nat
    /\ step \in [Checks -> Steps]
    /\ answer \in [Checks -> [kind : {"none", "refused", "token"}, token : 0 .. Len(ends), life : Nat, made : Nat]]
    /\ used \in [Checks -> 0 .. Len(ends)]
    /\ sentAt \in [Checks -> Nat]

\* No check is sent with a token that had ended more than Lag ticks before, though
\* checks renew the token of one another: the expiry that is kept is always the one
\* of the token that is kept (datafactory.py:34-37 and 58-61).
SentWithALiveToken ==
    \A c \in Checks : step[c] = "sent" /\ used[c] # 0 => sentAt[c] <= ends[used[c]] + Lag
=============================================================================
