--------------------------- MODULE Internetmarke ---------------------------
(***************************************************************************)
(* PortoExecution.mark over the Internetmarke adapter: each call           *)
(* authenticates, opens a shopping cart and checks it out                  *)
(* (directCheckout, which charges the wallet), each of the three a POST    *)
(* through HttpClient.request.  Calls run concurrently and share nothing   *)
(* but the HTTP client and the wallet.                                     *)
(*                                                                         *)
(* The provider is external.  It executes each attempt at most once and at *)
(* any time, answers with or without having acted, and may lose answers.   *)
(* KeyScope says what it does with an Idempotency-Key: "none" ignores it,  *)
(* "endpoint" replays the first success of the key at the same endpoint,   *)
(* "global" replays it whatever the endpoint.                              *)
(***************************************************************************)
EXTENDS HttpClient, InternetmarkeErrors

CONSTANTS
    KeyOf,          \* KeyOf[c]: the idempotency key of call c, or NoKey
    Total,          \* Total[c]: what call c buys, in cents
    Funds,          \* the wallet before the first call
    KeyScope,       \* "none", "endpoint" or "global"
    Failures,       \* the <<status, vendor>> pairs the provider fails with
    NoCart          \* no shopOrderId

ASSUME CallsAssumption ==
    /\ Retries \in [Calls -> Nat]
    /\ Total \in [Calls -> Nat \ {0}]
    /\ Funds \in Nat

\* A key identifies one purchase: calls that share it ask for the same thing.
ASSUME KeyAssumption ==
    \A c, d \in Calls : KeyOf[c] = KeyOf[d] /\ KeyOf[c] # NoKey => Total[c] = Total[d]

ASSUME ScopeAssumption == KeyScope \in {"none", "endpoint", "global"}

ASSUME FailureAssumption ==
    Failures \subseteq Nat \X (SUBSET STRING) /\ \A f \in Failures : ~Ok(f[1])

VARIABLES
    stage,    \* where call c is: "idle", "user", "cart", "checkout" or "done"
    cart,     \* the shopOrderId c got for its cart
    result,   \* how c ended
    carts,    \* provider: the carts opened
    ledger,   \* provider: the checkouts charged
    wallet    \* provider: the balance of the wallet

callVars == <<stage, cart, result>>
providerVars == <<carts, ledger, wallet>>
vars == <<httpVars, callVars, providerVars>>

-----------------------------------------------------------------------------
(* The requests and how a call ends *)

Keyed(c) == KeyOf[c] # NoKey

UserRequest(c) ==
    [ep |-> "user", idempotent |-> TRUE, key |-> NoKey, cart |-> NoCart]

CartRequest(c) ==
    [ep |-> "cart", idempotent |-> FALSE, key |-> KeyOf[c], cart |-> NoCart]

BugCheckoutWithoutKey(c) ==
    [ep |-> "checkout", idempotent |-> TRUE, key |-> NoKey, cart |-> cart[c]]

BugCheckoutIdempotent(c) ==
    [ep |-> "checkout", idempotent |-> TRUE, key |-> KeyOf[c], cart |-> cart[c]]

\* The same key as the cart's: both POSTs carry execution.idempotency_key.
CheckoutRequest(c) ==
    [ep |-> "checkout", idempotent |-> FALSE, key |-> KeyOf[c], cart |-> cart[c]]

NoResult == [kind |-> "none"]

Marked(id) == [kind |-> "mark", cart |-> id]

\* An error remembers the stage it was raised in.
Error(at, code, status, retryable) ==
    [kind |-> "error", at |-> at, code |-> code, status |-> status,
     retryable |-> retryable]

Cancelled(at) == [kind |-> "cancelled", at |-> at]

End(c, outcome) ==
    /\ stage' = [stage EXCEPT ![c] = "done"]
    /\ result' = [result EXCEPT ![c] = outcome]
    /\ cart' = cart

AnswerError(c) ==
    LET r == reply[c]
    IN  Error(stage[c], MapErrorCode(r.vendor, r.status), r.status,
              IsRetryable(r.status, r.vendor))

-----------------------------------------------------------------------------
(* The call *)

Init ==
    /\ HttpInit
    /\ stage = [c \in Calls |-> "idle"]
    /\ cart = [c \in Calls |-> NoCart]
    /\ result = [c \in Calls |-> NoResult]
    /\ carts = {}
    /\ ledger = {}
    /\ wallet = Funds

\* _auth_for finds no complete credentials.
MarkWithoutCredentials(c) ==
    /\ stage[c] = "idle"
    /\ End(c, Error("user", "AUTH_FAILED", 401, FALSE))
    /\ UNCHANGED <<httpVars, providerVars>>

MarkStart(c) ==
    /\ stage[c] = "idle"
    /\ HttpSend(c, UserRequest(c))
    /\ stage' = [stage EXCEPT ![c] = "user"]
    /\ UNCHANGED <<cart, result, providerVars>>

MarkStartRefused(c) ==
    /\ stage[c] = "idle"
    /\ HttpRefuse(c, UserRequest(c))
    /\ End(c, Error("user", "NETWORK_UNAVAILABLE", 503, FALSE))
    /\ UNCHANGED providerVars

\* authenticate: a token opens the session and the cart is next.
Authenticated(c) ==
    /\ stage[c] = "user"
    /\ HttpReturn(c)
    /\ Ok(reply[c].status)
    /\ reply[c].full
    /\ stage' = [stage EXCEPT ![c] = "cart"]
    /\ UNCHANGED <<cart, result, providerVars>>

\* A 2xx without a token, and one whose body cannot be read: only the first
\* is labelled not retryable.
AuthenticatedWithoutToken(c) ==
    /\ stage[c] = "user"
    /\ HttpReturn(c)
    /\ Ok(reply[c].status)
    /\ ~reply[c].full
    /\ \/ End(c, Error("user", "AUTH_FAILED", 500, FALSE))
       \/ End(c, Error("user", "AUTH_FAILED", 401, TRUE))
    /\ UNCHANGED providerVars

\* map_internetmarke_auth_http_error chooses among three codes by the text of
\* the body; none of them is retryable.
AuthRejected(c) ==
    /\ stage[c] = "user"
    /\ HttpReturn(c)
    /\ ~Ok(reply[c].status)
    /\ \E code \in {"AUTH_FAILED", "AUTH_DENIED", "LINKAGE_PENDING"} :
          End(c, Error("user", code, reply[c].status, FALSE))
    /\ UNCHANGED providerVars

SendCart(c) ==
    /\ stage[c] = "cart"
    /\ HttpSend(c, CartRequest(c))
    /\ UNCHANGED <<callVars, providerVars>>

CartOpened(c) ==
    /\ stage[c] = "cart"
    /\ HttpReturn(c)
    /\ Ok(reply[c].status)
    /\ reply[c].full
    /\ stage' = [stage EXCEPT ![c] = "checkout"]
    /\ cart' = [cart EXCEPT ![c] = reply[c].cart]
    /\ UNCHANGED <<result, providerVars>>

CartWithoutId(c) ==
    /\ stage[c] = "cart"
    /\ HttpReturn(c)
    /\ Ok(reply[c].status)
    /\ ~reply[c].full
    /\ End(c, Error("cart", "MARK_FAILED", 500, FALSE))
    /\ UNCHANGED providerVars

SendCheckout(c) ==
    /\ stage[c] = "checkout"
    /\ HttpSend(c, CheckoutRequest(c))
    /\ UNCHANGED <<callVars, providerVars>>

BugAcceptEmptyLink(c) ==
    /\ stage[c] = "checkout"
    /\ HttpReturn(c)
    /\ Ok(reply[c].status)
    /\ End(c, Marked(reply[c].cart))
    /\ UNCHANGED providerVars

BugIgnoreFailure(c) ==
    /\ stage[c] = "checkout"
    /\ HttpReturn(c)
    /\ End(c, Marked(reply[c].cart))
    /\ UNCHANGED providerVars

\* The mark's external id is the shopOrderId of the checkout answer.
CheckedOut(c) ==
    /\ stage[c] = "checkout"
    /\ HttpReturn(c)
    /\ Ok(reply[c].status)
    /\ reply[c].full
    /\ End(c, Marked(reply[c].cart))
    /\ UNCHANGED providerVars

\* A 2xx without a link: PortoMark refuses the empty content and the charge
\* is left without a mark.
CheckedOutWithoutLink(c) ==
    /\ stage[c] = "checkout"
    /\ HttpReturn(c)
    /\ Ok(reply[c].status)
    /\ ~reply[c].full
    /\ End(c, Error("checkout", "CONTENT_INVALID", 0, FALSE))
    /\ UNCHANGED providerVars

\* raise_if_init_failed and raise_if_checkout_failed.
AnswerFailed(c) ==
    /\ stage[c] \in {"cart", "checkout"}
    /\ HttpReturn(c)
    /\ ~Ok(reply[c].status)
    /\ End(c, AnswerError(c))
    /\ UNCHANGED providerVars

\* A TransportError passes through auth and checkout unchanged: PortoError is
\* re-raised before the handlers for httpx.HTTPError.
NetworkFailed(c) ==
    /\ stage[c] \in {"user", "cart", "checkout"}
    /\ HttpRaise(c)
    /\ \E e \in {<<"NETWORK_TIMEOUT", 408>>, <<"NETWORK_UNAVAILABLE", 503>>} :
          End(c, Error(stage[c], e[1], e[2], RaisedRetryable(c)))
    /\ UNCHANGED providerVars

\* The caller cancels the task, or its process dies.
Abandon(c) ==
    /\ stage[c] \in {"user", "cart", "checkout"}
    /\ HttpCancel(c)
    /\ End(c, Cancelled(stage[c]))
    /\ UNCHANGED providerVars

Continue(c) ==
    /\ HttpRetryAnswer(c) \/ HttpRetryError(c) \/ HttpResend(c)
    /\ UNCHANGED <<callVars, providerVars>>

-----------------------------------------------------------------------------
(* The provider *)

Success(id) == [status |-> 200, vendor |-> NoVendorCode, full |-> TRUE, cart |-> id]

\* A 2xx whose body lacks the field the adapter reads.
Partial(id) == [status |-> 200, vendor |-> NoVendorCode, full |-> FALSE, cart |-> id]

Failure(f) == [status |-> f[1], vendor |-> f[2], full |-> FALSE, cart |-> NoCart]

FailureReplies == {Failure(f) : f \in Failures}

NoFunds == [status |-> 400, vendor |-> {"WALLETBALANCE", "NOTENOUGH"},
            full |-> FALSE, cart |-> NoCart]

\* The answer reaches the client only if this attempt is the one it awaits.
Answer(m, r) ==
    /\ wire' = wire \ {m}
    /\ reply' = IF /\ phase[m.call] = "sent"
                   /\ pending[m.call] = m.request
                   /\ attempt[m.call] = m.attempt
                THEN [reply EXCEPT ![m.call] = r]
                ELSE reply
    /\ UNCHANGED <<pending, attempt, phase>>

Replays(m) == KeyScope # "none" /\ m.request.key # NoKey

OpenedFor(m) == {k \in carts : k.key = m.request.key}
ChargedFor(m) == {l \in ledger : l.key = m.request.key}

ServeUser(m) ==
    /\ m.request.ep = "user"
    /\ \E r \in FailureReplies \union {Success(NoCart), Partial(NoCart)} : Answer(m, r)
    /\ UNCHANGED <<callVars, providerVars>>

\* Nothing is done; the answer is an error.
ServeFailure(m) ==
    /\ m.request.ep \in {"cart", "checkout"}
    /\ \E r \in FailureReplies : Answer(m, r)
    /\ UNCHANGED <<callVars, providerVars>>

ServeCart(m) ==
    /\ m.request.ep = "cart"
    /\ Replays(m) => OpenedFor(m) = {}
    /\ LET id == <<m.call, m.attempt>>
       IN  /\ carts' = carts \union {[id |-> id, key |-> m.request.key]}
           /\ \E r \in {Success(id), Partial(id)}
                        \union {Failure(f) : f \in {g \in Failures : g[1] >= 500}} :
                 Answer(m, r)
    /\ UNCHANGED <<callVars, ledger, wallet>>

ServeCartReplay(m) ==
    /\ m.request.ep = "cart"
    /\ Replays(m)
    /\ \E k \in OpenedFor(m) : Answer(m, Success(k.id))
    /\ UNCHANGED <<callVars, providerVars>>

ChargeOf(m) ==
    [call |-> m.call, attempt |-> m.attempt, cart |-> m.request.cart,
     key |-> m.request.key, amount |-> Total[m.call]]

\* The charge.  A 5xx may follow it; any other error means it did not happen.
ServeCheckout(m) ==
    /\ m.request.ep = "checkout"
    /\ Replays(m) => ChargedFor(m) = {}
    /\ Replays(m) => KeyScope = "endpoint"
    /\ wallet >= Total[m.call]
    /\ wallet' = wallet - Total[m.call]
    /\ ledger' = ledger \union {ChargeOf(m)}
    /\ \E r \in {Success(m.request.cart), Partial(m.request.cart)}
                 \union {Failure(f) : f \in {g \in Failures : g[1] >= 500}} :
          Answer(m, r)
    /\ UNCHANGED <<callVars, carts>>

ServeCheckoutReplay(m) ==
    /\ m.request.ep = "checkout"
    /\ Replays(m)
    /\ KeyScope = "endpoint"
    /\ \E l \in ChargedFor(m) : Answer(m, Success(l.cart))
    /\ UNCHANGED <<callVars, providerVars>>

\* The key was first seen at the cart endpoint: its answer, which has no link.
ServeCheckoutFromCart(m) ==
    /\ m.request.ep = "checkout"
    /\ Replays(m)
    /\ KeyScope = "global"
    /\ \E k \in OpenedFor(m) : Answer(m, Partial(k.id))
    /\ UNCHANGED <<callVars, providerVars>>

ServeNoFunds(m) ==
    /\ m.request.ep = "checkout"
    /\ Replays(m) => ChargedFor(m) = {} /\ KeyScope = "endpoint"
    /\ wallet < Total[m.call]
    /\ Answer(m, NoFunds)
    /\ UNCHANGED <<callVars, providerVars>>

Serve(m) ==
    \/ ServeUser(m)
    \/ ServeFailure(m)
    \/ ServeCart(m)
    \/ ServeCartReplay(m)
    \/ ServeCheckout(m)
    \/ ServeCheckoutReplay(m)
    \/ ServeCheckoutFromCart(m)
    \/ ServeNoFunds(m)

-----------------------------------------------------------------------------
Start(c) == MarkWithoutCredentials(c) \/ MarkStart(c) \/ MarkStartRefused(c)

\* What the event loop runs on its own: answers, timeouts and backoffs.
Step(c) ==
    \/ Authenticated(c)
    \/ AuthenticatedWithoutToken(c)
    \/ AuthRejected(c)
    \/ SendCart(c)
    \/ CartOpened(c)
    \/ CartWithoutId(c)
    \/ SendCheckout(c)
    \/ CheckedOut(c)
    \/ CheckedOutWithoutLink(c)
    \/ AnswerFailed(c)
    \/ NetworkFailed(c)
    \/ Continue(c)

Next ==
    \/ \E c \in Calls : Start(c) \/ Step(c) \/ Abandon(c)
    \/ \E m \in wire : Serve(m)

Spec == Init /\ [][Next]_vars

\* The event loop runs every task, the httpx timeout ends every attempt and
\* asyncio.sleep returns.  Nothing is assumed of the provider or of callers.
FairSpec == Spec /\ \A c \in Calls : WF_vars(Step(c))
-----------------------------------------------------------------------------
(* Types *)

\* The ids of the carts the provider can open: one per attempt that asks.
CartIds == Calls \X Nat
Keys == {KeyOf[c] : c \in Calls} \union {NoKey}

Requests ==
    [ep : {"user", "cart", "checkout"}, idempotent : BOOLEAN, key : Keys,
     cart : CartIds \union {NoCart}]

Messages == [call : Calls, attempt : Nat, request : Requests]

Statuses == {f[1] : f \in Failures} \union {200, 400}
Vendors == {f[2] : f \in Failures} \union {NoVendorCode, NoFunds.vendor}

Replies ==
    [status : Statuses, vendor : Vendors, full : BOOLEAN,
     cart : CartIds \union {NoCart}]

Charges ==
    [call : Calls, attempt : Nat, cart : CartIds \union {NoCart}, key : Keys, amount : Nat]

Codes ==
    {"AUTH_FAILED", "AUTH_DENIED", "LINKAGE_PENDING", "WALLET_INSUFFICIENT",
     "MARK_FAILED", "RATE_LIMITED", "NETWORK_UNAVAILABLE", "NETWORK_TIMEOUT",
     "CONTENT_INVALID"}

Results ==
    {NoResult}
    \union [kind : {"mark"}, cart : CartIds \union {NoCart}]
    \union [kind : {"error"}, at : {"user", "cart", "checkout"}, code : Codes,
            status : Nat, retryable : BOOLEAN]
    \union [kind : {"cancelled"}, at : {"user", "cart", "checkout"}]

\* The state of every call, of its request and of the provider has its shape.
TypeOK ==
    /\ pending \in [Calls -> Requests \union {NoRequest}]
    /\ attempt \in [Calls -> Nat]
    /\ phase \in [Calls -> Phases]
    /\ reply \in [Calls -> Replies \union {NoReply}]
    /\ wire \subseteq Messages
    /\ stage \in [Calls -> {"idle", "user", "cart", "checkout", "done"}]
    /\ cart \in [Calls -> CartIds \union {NoCart}]
    /\ result \in [Calls -> Results]
    /\ carts \subseteq [id : CartIds, key : Keys]
    /\ ledger \subseteq Charges
    /\ wallet \in Nat

-----------------------------------------------------------------------------
(* Safety *)

ChargesOf(c) == {l \in ledger : l.call = c}

CheckoutsOf(c) == {m \in wire : m.call = c /\ m.request.ep = "checkout"}

\* Without an idempotency key a call pays at most once, under every timeout,
\* retry, late execution and lost answer and whatever the provider does with
\* keys: `attempts' is 1 for a POST that is neither idempotent nor keyed
\* (http_client.py:83, client.py:95-103).
UnkeyedChargedOnce ==
    \A l, k \in ledger : l.call = k.call /\ ~Keyed(l.call) => l = k

\* With a key and a provider that honours it per endpoint, all calls made
\* with the key pay once together, retries and concurrent calls included:
\* every attempt of both POSTs carries the caller's key (checkout.py:77-90).
KeyChargedOnce ==
    KeyScope = "endpoint" =>
        \A l, k \in ledger :
            Keyed(l.call) /\ KeyOf[l.call] = KeyOf[k.call] => l = k

\* A mark is never minted without a charge of its amount for the order it
\* names: not from a failure, not from the cart's answer replayed to the
\* checkout, not from another call's order (checkout.py:215-224,
\* adapter.py:343-376, execution.py:87-92).
MarkMeansPaid ==
    \A c \in Calls :
        result[c].kind = "mark" =>
            \E l \in ledger : l.cart = result[c].cart /\ l.amount = Total[c]

\* The endings after which c never pays: it failed before any checkout was
\* sent, or its only checkout was refused below 500.  Network errors carry
\* status 408 and 503 and are not among them (http_client.py:110-130).
Definite(r) ==
    r.kind = "error"
    /\ \/ r.at # "checkout"
       \/ r.code \notin {"NETWORK_TIMEOUT", "CONTENT_INVALID"} /\ r.status < 500

\* What a caller may conclude from the error of an unkeyed call: after a
\* definite one there is no charge, and none can follow, because no checkout
\* of the call is left on the wire.
RefusalIsFinal ==
    \A c \in Calls :
        result[c].kind \in {"error", "cancelled"} =>
            /\ ~Keyed(c) /\ Definite(result[c]) => ChargesOf(c) = {} /\ CheckoutsOf(c) = {}
            /\ result[c].at # "checkout" => ChargesOf(c) = {} /\ CheckoutsOf(c) = {}

\* "Wallet insufficient" is never the answer to a retry of a checkout that
\* was charged: the key's own charge may have emptied the wallet, the replay
\* comes first.  (Unkeyed calls are never retried.)
NoFundsMeansUnpaid ==
    \A c \in Calls :
        /\ result[c].kind = "error" /\ result[c].code = "WALLET_INSUFFICIENT"
        /\ Keyed(c) => KeyScope = "endpoint"
        => \A l \in ledger : l.call # c /\ (Keyed(c) => l.key # KeyOf[c])

\* An unkeyed error labelled retryable never hides a charge unless a 5xx
\* answered the checkout: a TransportError leaves request() only on the last
\* attempt, where `attempt < attempts' is false (http_client.py:110-136).
RetryAdviceIsHonest ==
    \A c \in Calls :
        /\ result[c].kind = "error" /\ ~Keyed(c)
        /\ result[c].retryable
        /\ ChargesOf(c) # {}
        => result[c].status >= 500

\* No error about authentication or the wallet invites a retry, as the
\* comment on is_retryable_error has it: "Wallet/auth are never retryable"
\* (utils.py:180).  The code breaks it: an authentication answer whose body
\* cannot be read is AUTH_FAILED with retryable=True (auth.py:171-180).
AuthErrorNeverRetryable ==
    \A c \in Calls :
        result[c].kind = "error" /\ result[c].code \in NeverRetryable
        => ~result[c].retryable

-----------------------------------------------------------------------------
(* Why the safety properties hold: the inductive invariant *)

RequestOf(c) ==
    CASE stage[c] = "user" -> UserRequest(c)
      [] stage[c] = "cart" -> CartRequest(c)
      [] OTHER -> CheckoutRequest(c)

\* A request in progress is the one of the call's stage, within its attempts,
\* and only an attempt that was sent has an answer.
TransportAt(c) ==
    /\ phase[c] # "quiet" =>
         /\ stage[c] \in {"user", "cart", "checkout"}
         /\ pending[c] = RequestOf(c)
         /\ attempt[c] \in 1 .. Attempts(c, pending[c])
    /\ phase[c] = "backoff" => MoreAttempts(c)
    /\ phase[c] # "sent" => reply[c] = NoReply

TransportInv == \A c \in Calls : TransportAt(c)

\* Attempt n of the checkout of c has been sent.
WasSent(c, n) ==
    /\ n >= 1
    /\ ~Keyed(c) => n = 1
    /\ \/ stage[c] = "checkout" /\ phase[c] # "quiet" /\ n <= attempt[c]
       \/ stage[c] = "done" /\ result[c].kind = "mark"
       \/ stage[c] = "done" /\ result[c].kind \in {"error", "cancelled"} /\ result[c].at = "checkout"

\* Every checkout on the wire, and every charge, is an attempt of its call's
\* one checkout request.
WireInv ==
    \A m \in wire :
        m.request.ep = "checkout" =>
            m.request = CheckoutRequest(m.call) /\ WasSent(m.call, m.attempt)

LedgerInv ==
    \A l \in ledger :
        /\ l.key = KeyOf[l.call]
        /\ l.amount = Total[l.call]
        /\ l.cart = cart[l.call]
        /\ WasSent(l.call, l.attempt)

\* An attempt that was charged is off the wire.
ChargedOffWire ==
    \A m \in wire, l \in ledger :
        m.request.ep = "checkout" /\ m.call = l.call => m.attempt # l.attempt

\* What an answer to a checkout tells of the attempt it answers.
AnswerInv ==
    \A c \in Calls :
        stage[c] = "checkout" /\ reply[c] # NoReply =>
            /\ \A m \in wire : m.call = c /\ m.request.ep = "checkout" => m.attempt # attempt[c]
            /\ ~Ok(reply[c].status) /\ reply[c].status < 500 =>
                  \A l \in ledger : l.call = c => l.attempt # attempt[c]
            /\ Ok(reply[c].status) /\ reply[c].full =>
                  \E l \in ledger : l.cart = reply[c].cart /\ l.amount = Total[c]

\* A call has a result exactly when it is done.
DoneInv ==
    \A c \in Calls : stage[c] = "done" <=> result[c].kind # "none"

IInv ==
    /\ TypeOK
    /\ TransportInv
    /\ WireInv
    /\ LedgerInv
    /\ ChargedOffWire
    /\ AnswerInv
    /\ DoneInv
    /\ UnkeyedChargedOnce
    /\ KeyChargedOnce
    /\ MarkMeansPaid
    /\ RefusalIsFinal

-----------------------------------------------------------------------------
(* Liveness *)

\* Every call that starts ends, with a mark or an error, even when the
\* provider never answers (http_client.py:94-138).
EveryCallEnds == \A c \in Calls : stage[c] = "user" ~> stage[c] = "done"

-----------------------------------------------------------------------------
(* Refinement *)

Nobody == "nobody"

\* Calls with the same key share an order; an unkeyed call is its own.
OrderOf == [c \in Calls |-> IF Keyed(c) THEN <<"key", KeyOf[c]>> ELSE <<"call", c>>]

PayerOf(o) ==
    IF \E l \in ledger : OrderOf[l.call] = o
    THEN (CHOOSE l \in ledger : OrderOf[l.call] = o).call
    ELSE Nobody

\* A call that ended before its checkout never pays, nor does one whose only
\* checkout was refused.
EndOf(c) ==
    IF result[c].kind = "mark" THEN "marked"
    ELSE IF result[c].at # "checkout" \/ (~Keyed(c) /\ Definite(result[c])) THEN "refused"
    ELSE "doubtful"

StateOf(c) ==
    CASE stage[c] = "idle" -> "idle"
      [] stage[c] \in {"user", "cart", "checkout"} -> "open"
      [] stage[c] = "done" -> EndOf(c)

P == INSTANCE Purchase
     WITH state <- [c \in Calls |-> StateOf(c)],
          payer <- [o \in {OrderOf[c] : c \in Calls} |-> PayerOf(o)]

\* With a provider that honours keys per endpoint, the calls keep the promise
\* of Purchase: one payment per order, marks for paid orders only, final
\* refusals.
PurchaseKept == P!Spec
=============================================================================
