------------------------ MODULE InternetmarkeProofs ------------------------
(***************************************************************************)
(* The safety of mark(), for any number of calls, keys, retries, amounts   *)
(* and failures, what a caller may conclude from an error, and that the    *)
(* calls implement Purchase.                                               *)
(***************************************************************************)
EXTENDS Internetmarke, TLAPS

USE DEF Phases

(***************************************************************************)
(* The error mapping returns one of its codes, and never a network code    *)
(* below 500 or the code of an empty link.                                 *)
(***************************************************************************)
LEMMA MapErrorCodeType ==
    ASSUME NEW vendor, NEW status \in Nat
    PROVE  /\ MapErrorCode(vendor, status) \in Codes
           /\ MapErrorCode(vendor, status) \notin {"NETWORK_TIMEOUT", "CONTENT_INVALID"}
  BY DEF MapErrorCode, CodeOfStatus, Codes

LEMMA IsRetryableType ==
    ASSUME NEW vendor, NEW status
    PROVE  IsRetryable(status, vendor) \in BOOLEAN
  BY DEF IsRetryable

LEMMA RequestsType ==
    ASSUME TypeOK, NEW c \in Calls
    PROVE  /\ UserRequest(c) \in Requests
           /\ CartRequest(c) \in Requests
           /\ CheckoutRequest(c) \in Requests
  BY DEF TypeOK, UserRequest, CartRequest, CheckoutRequest, Requests, Keys

LEMMA AttemptsType ==
    ASSUME NEW c \in Calls, NEW r
    PROVE  Attempts(c, r) \in Nat
  BY CallsAssumption DEF Attempts

LEMMA ReplyTypes ==
    ASSUME TypeOK
    PROVE  /\ \A f \in Failures : Failure(f) \in Replies /\ f[1] \in Nat
           /\ \A id \in CartIds \union {NoCart} : Success(id) \in Replies /\ Partial(id) \in Replies
           /\ NoFunds \in Replies
           /\ \A r \in Replies : r.status \in Nat
  BY FailureAssumption
  DEF Failure, Success, Partial, NoFunds, Replies, Statuses, Vendors

LEMMA InitType == Init => TypeOK
  BY CallsAssumption DEF Init, HttpInit, TypeOK, Results, NoResult

(***************************************************************************)
(* A call that ends with a result of the right shape.                      *)
(***************************************************************************)
LEMMA EndType ==
    ASSUME TypeOK, NEW c \in Calls, NEW outcome \in Results, End(c, outcome)
    PROVE  /\ stage' \in [Calls -> {"idle", "user", "cart", "checkout", "done"}]
           /\ cart' \in [Calls -> CartIds \union {NoCart}]
           /\ result' \in [Calls -> Results]
  BY DEF TypeOK, End

LEMMA ErrorType ==
    ASSUME NEW at \in {"user", "cart", "checkout"}, NEW code \in Codes,
           NEW status \in Nat, NEW retryable \in BOOLEAN
    PROVE  Error(at, code, status, retryable) \in Results
  BY DEF Error, Results

(***************************************************************************)
(* The transport keeps its types.                                          *)
(***************************************************************************)
HttpTypeOK ==
    /\ pending \in [Calls -> Requests \union {NoRequest}]
    /\ attempt \in [Calls -> Nat]
    /\ phase \in [Calls -> Phases]
    /\ reply \in [Calls -> Replies \union {NoReply}]
    /\ wire \subseteq Messages

ProviderTypeOK ==
    /\ carts \subseteq [id : CartIds, key : Keys]
    /\ ledger \subseteq Charges
    /\ wallet \in Nat

CallTypeOK ==
    /\ stage \in [Calls -> {"idle", "user", "cart", "checkout", "done"}]
    /\ cart \in [Calls -> CartIds \union {NoCart}]
    /\ result \in [Calls -> Results]

LEMMA TypeParts ==
    /\ TypeOK <=> HttpTypeOK /\ CallTypeOK /\ ProviderTypeOK
    /\ TypeOK' <=> HttpTypeOK' /\ CallTypeOK' /\ ProviderTypeOK'
  BY DEF TypeOK, HttpTypeOK, CallTypeOK, ProviderTypeOK

LEMMA MessageType ==
    ASSUME NEW c \in Calls, NEW r \in Requests, NEW n \in Nat
    PROVE  Message(c, r, n) \in Messages
  BY DEF Message, Messages

LEMMA LeaveType ==
    ASSUME HttpTypeOK, NEW c \in Calls, Leave(c)
    PROVE  HttpTypeOK'
  BY DEF HttpTypeOK, Leave

LEMMA SendType ==
    ASSUME HttpTypeOK, NEW c \in Calls, NEW r \in Requests, HttpSend(c, r)
    PROVE  HttpTypeOK'
  BY MessageType DEF HttpTypeOK, HttpSend

LEMMA RetryType ==
    ASSUME TypeOK, TransportInv, NEW c \in Calls,
           HttpRetryAnswer(c) \/ HttpRetryError(c) \/ HttpResend(c)
    PROVE  HttpTypeOK'
  <1>0. HttpTypeOK
    BY TypeParts
  <1>1. CASE HttpRetryAnswer(c) \/ HttpRetryError(c)
    BY <1>0, <1>1 DEF HttpTypeOK, HttpRetryAnswer, HttpRetryError
  <1>2. CASE HttpResend(c)
    <2>1. pending[c] \in Requests
      BY <1>2, RequestsType DEF HttpResend, TransportInv, TransportAt, RequestOf
    <2> QED
      BY <1>0, <1>2, <2>1, MessageType DEF HttpTypeOK, HttpResend
  <1> QED BY <1>1, <1>2

LEMMA AnswerType ==
    ASSUME HttpTypeOK, NEW m \in wire, NEW r \in Replies, Answer(m, r)
    PROVE  HttpTypeOK'
  BY DEF HttpTypeOK, Answer, Messages

(***************************************************************************)
(* The steps by kind.  A call quits, advances to its next stage, sends the *)
(* request of its stage or goes round the loop of HttpClient.request; or   *)
(* the provider executes an attempt.                                       *)
(***************************************************************************)
Outcomes == {o \in Results : o.kind # "none"}

\* A mark, and a definite error of the checkout, come from an answer to it.
Founded(c, o) ==
    /\ o.kind = "mark" =>
          reply[c] # NoReply /\ Ok(reply[c].status) /\ reply[c].full /\ o.cart = reply[c].cart
    /\ stage[c] = "checkout" /\ Definite(o) =>
          reply[c] # NoReply /\ ~Ok(reply[c].status) /\ reply[c].status < 500

Quits(c) ==
    /\ stage[c] # "done"
    /\ \/ stage[c] = "idle" /\ UNCHANGED httpVars
       \/ phase[c] # "quiet" /\ Leave(c)
    /\ \E o \in Outcomes :
          /\ End(c, o)
          /\ IF o.kind = "mark" THEN stage[c] = "checkout"
             ELSE o.at = IF stage[c] = "idle" THEN "user" ELSE stage[c]
          /\ Founded(c, o)
    /\ UNCHANGED providerVars

Advances(c) ==
    /\ phase[c] = "sent"
    /\ Leave(c)
    /\ \/ /\ stage[c] = "user"
          /\ stage' = [stage EXCEPT ![c] = "cart"]
          /\ UNCHANGED cart
       \/ /\ stage[c] = "cart"
          /\ stage' = [stage EXCEPT ![c] = "checkout"]
          /\ \E id \in CartIds \union {NoCart} : cart' = [cart EXCEPT ![c] = id]
    /\ UNCHANGED <<result, providerVars>>

Sends(c) ==
    /\ \/ /\ stage[c] = "idle"
          /\ HttpSend(c, UserRequest(c))
          /\ stage' = [stage EXCEPT ![c] = "user"]
       \/ /\ stage[c] = "cart"
          /\ HttpSend(c, CartRequest(c))
          /\ UNCHANGED stage
       \/ /\ stage[c] = "checkout"
          /\ HttpSend(c, CheckoutRequest(c))
          /\ UNCHANGED stage
    /\ UNCHANGED <<cart, result, providerVars>>

\* Attempt m is executed and answered with r, without a charge or with one.
Serves(m, r) ==
    /\ Answer(m, r)
    /\ \/ /\ ledger' = ledger
          /\ m.request.ep = "checkout" /\ Ok(r.status) /\ r.full =>
               \E l \in ledger : /\ l.cart = r.cart
                                 /\ l.key = m.request.key
                                 /\ l.key # NoKey
       \/ /\ m.request.ep = "checkout"
          /\ ledger' = ledger \union {ChargeOf(m)}
          /\ KeyScope = "endpoint" /\ m.request.key # NoKey =>
               \A l \in ledger : l.key # m.request.key
          /\ IF Ok(r.status) THEN r.cart = m.request.cart ELSE r.status >= 500
    /\ UNCHANGED callVars
    /\ ProviderTypeOK'

LEMMA OutcomeTypes ==
    /\ \A id \in CartIds \union {NoCart} : Marked(id) \in Outcomes
    /\ \A at \in {"user", "cart", "checkout"} : Cancelled(at) \in Outcomes
    /\ \A at \in {"user", "cart", "checkout"}, code \in Codes, status \in Nat,
          retryable \in BOOLEAN : Error(at, code, status, retryable) \in Outcomes
  BY DEF Outcomes, Results, Marked, Cancelled, Error

Ends(c) ==
    \/ MarkWithoutCredentials(c)
    \/ MarkStartRefused(c)
    \/ AuthenticatedWithoutToken(c)
    \/ AuthRejected(c)
    \/ CartWithoutId(c)
    \/ CheckedOut(c)
    \/ CheckedOutWithoutLink(c)
    \/ AnswerFailed(c)
    \/ NetworkFailed(c)
    \/ Abandon(c)

(***************************************************************************)
(* The errors the code raises with constant fields.                        *)
(***************************************************************************)
LEMMA FixedErrors ==
    /\ Error("user", "AUTH_FAILED", 401, FALSE) \in Outcomes
    /\ Error("user", "AUTH_FAILED", 401, TRUE) \in Outcomes
    /\ Error("user", "AUTH_FAILED", 500, FALSE) \in Outcomes
    /\ Error("user", "NETWORK_UNAVAILABLE", 503, FALSE) \in Outcomes
    /\ Error("cart", "MARK_FAILED", 500, FALSE) \in Outcomes
    /\ Error("checkout", "CONTENT_INVALID", 0, FALSE) \in Outcomes
  BY DEF Error, Outcomes, Results, Codes

(***************************************************************************)
(* Every action that ends a call is a Quits step.                          *)
(***************************************************************************)
LEMMA EndsQuit ==
    ASSUME TypeOK, NEW c \in Calls, Ends(c)
    PROVE  Quits(c)
  <1> USE OutcomeTypes DEF Founded, Definite
  <1>1. CASE MarkWithoutCredentials(c)
    BY <1>1, FixedErrors DEF MarkWithoutCredentials, Quits, Error
  <1>2. CASE MarkStartRefused(c)
    BY <1>2, FixedErrors DEF MarkStartRefused, HttpRefuse, Quits, Error
  <1>3. CASE AuthenticatedWithoutToken(c)
    BY <1>3, FixedErrors DEF AuthenticatedWithoutToken, HttpReturn, Quits, Error
  <1>4. CASE AuthRejected(c)
    <2>1. PICK code \in {"AUTH_FAILED", "AUTH_DENIED", "LINKAGE_PENDING"} :
             End(c, Error("user", code, reply[c].status, FALSE))
      BY <1>4 DEF AuthRejected
    <2>2. reply[c].status \in Nat
      BY <1>4, ReplyTypes DEF AuthRejected, HttpReturn, TypeOK
    <2>3. Error("user", code, reply[c].status, FALSE) \in Outcomes
      BY <2>2 DEF Codes
    <2> QED BY <1>4, <2>1, <2>3 DEF AuthRejected, HttpReturn, Quits, Error
  <1>5. CASE CartWithoutId(c)
    BY <1>5, FixedErrors DEF CartWithoutId, HttpReturn, Quits, Error
  <1>6. CASE CheckedOut(c)
    <2>1. reply[c].cart \in CartIds \union {NoCart}
      BY <1>6 DEF CheckedOut, HttpReturn, TypeOK, Replies
    <2>2. Marked(reply[c].cart) \in Outcomes
      BY <2>1
    <2> QED BY <1>6, <2>2 DEF CheckedOut, HttpReturn, Quits, Marked
  <1>7. CASE CheckedOutWithoutLink(c)
    BY <1>7, FixedErrors DEF CheckedOutWithoutLink, HttpReturn, Quits, Error
  <1>8. CASE AnswerFailed(c)
    <2>1. reply[c].status \in Nat
      BY <1>8, ReplyTypes DEF AnswerFailed, HttpReturn, TypeOK
    <2>2. /\ AnswerError(c) \in Outcomes
          /\ AnswerError(c).kind = "error"
          /\ AnswerError(c).at = stage[c]
          /\ AnswerError(c).status = reply[c].status
      BY <1>8, <2>1, MapErrorCodeType, IsRetryableType
      DEF AnswerFailed, AnswerError, Error
    <2> QED BY <1>8, <2>2 DEF AnswerFailed, HttpReturn, Quits
  <1>9. CASE NetworkFailed(c)
    <2>1. PICK e \in {<<"NETWORK_TIMEOUT", 408>>, <<"NETWORK_UNAVAILABLE", 503>>} :
             End(c, Error(stage[c], e[1], e[2], RaisedRetryable(c)))
      BY <1>9 DEF NetworkFailed
    <2>2. RaisedRetryable(c) \in BOOLEAN
      BY DEF RaisedRetryable, MoreAttempts
    <2>3. e[1] \in Codes /\ e[2] \in Nat
      BY DEF Codes
    <2>4. Error(stage[c], e[1], e[2], RaisedRetryable(c)) \in Outcomes
      BY <1>9, <2>2, <2>3 DEF NetworkFailed
    <2> QED BY <1>9, <2>1, <2>4 DEF NetworkFailed, HttpRaise, Quits, Error
  <1>10. CASE Abandon(c)
    <2>1. Cancelled(stage[c]) \in Outcomes
      BY <1>10 DEF Abandon
    <2> QED BY <1>10, <2>1 DEF Abandon, HttpCancel, Quits, Cancelled
  <1> QED
    BY <1>1, <1>2, <1>3, <1>4, <1>5, <1>6, <1>7, <1>8, <1>9, <1>10 DEF Ends

(***************************************************************************)
(* Every execution of an attempt by the provider is a Serves step.         *)
(***************************************************************************)
LEMMA ServeServes ==
    ASSUME TypeOK, NEW m \in wire, Serve(m)
    PROVE  \E r \in Replies : Serves(m, r)
  <1> USE ReplyTypes, TypeParts
  <1>0. /\ m \in Messages
        /\ m.request.cart \in CartIds \union {NoCart}
        /\ m.request.key \in Keys
        /\ m.call \in Calls /\ m.attempt \in Nat
        /\ <<m.call, m.attempt>> \in CartIds
    BY DEF TypeOK, Messages, Requests, CartIds
  <1>1. CASE ServeUser(m)
    <2>1. PICK r \in FailureReplies \union {Success(NoCart), Partial(NoCart)} : Answer(m, r)
      BY <1>1 DEF ServeUser
    <2>2. r \in Replies
      BY DEF FailureReplies
    <2> QED BY <1>1, <2>1, <2>2 DEF ServeUser, Serves, providerVars, ProviderTypeOK
  <1>2. CASE ServeFailure(m)
    <2>1. PICK f \in Failures : Answer(m, Failure(f))
      BY <1>2 DEF ServeFailure, FailureReplies
    <2>2. Failure(f) \in Replies /\ ~Failure(f).full
      BY DEF Failure
    <2> QED BY <1>2, <2>1, <2>2 DEF ServeFailure, Serves, providerVars, ProviderTypeOK
  <1>3. CASE ServeCart(m)
    <2> DEFINE id == <<m.call, m.attempt>>
    <2>1. PICK r \in {Success(id), Partial(id)}
                     \union {Failure(f) : f \in {g \in Failures : g[1] >= 500}} : Answer(m, r)
      BY <1>3 DEF ServeCart
    <2>2. r \in Replies
      BY <1>0
    <2>3. ProviderTypeOK'
      BY <1>0, <1>3 DEF ServeCart, ProviderTypeOK
    <2> QED BY <1>3, <2>1, <2>2, <2>3 DEF ServeCart, Serves
  <1>4. CASE ServeCartReplay(m)
    <2>1. PICK k \in OpenedFor(m) : Answer(m, Success(k.id))
      BY <1>4 DEF ServeCartReplay
    <2>2. Success(k.id) \in Replies
      BY DEF OpenedFor, ProviderTypeOK
    <2> QED BY <1>4, <2>1, <2>2 DEF ServeCartReplay, Serves, providerVars, ProviderTypeOK
  <1>5. CASE ServeCheckout(m)
    <2>1. PICK r \in {Success(m.request.cart), Partial(m.request.cart)}
                     \union {Failure(f) : f \in {g \in Failures : g[1] >= 500}} : Answer(m, r)
      BY <1>5 DEF ServeCheckout
    <2>2. r \in Replies
      BY <1>0
    <2>3. IF Ok(r.status) THEN r.cart = m.request.cart ELSE r.status >= 500
      BY FailureAssumption DEF Success, Partial, Failure, Ok
    <2>4. ChargeOf(m) \in Charges
      BY <1>0, CallsAssumption DEF ChargeOf, Charges
    <2>5. ProviderTypeOK'
      BY <1>0, <1>5, <2>4, CallsAssumption DEF ServeCheckout, ProviderTypeOK
    <2>6. KeyScope = "endpoint" /\ m.request.key # NoKey =>
             \A l \in ledger : l.key # m.request.key
      BY <1>5 DEF ServeCheckout, Replays, ChargedFor
    <2> QED BY <1>5, <2>1, <2>2, <2>3, <2>5, <2>6 DEF ServeCheckout, Serves
  <1>6. CASE ServeCheckoutReplay(m)
    <2>1. PICK l \in ChargedFor(m) : Answer(m, Success(l.cart))
      BY <1>6 DEF ServeCheckoutReplay
    <2>2. l \in ledger /\ l.key = m.request.key /\ l.key # NoKey
      BY <1>6 DEF ServeCheckoutReplay, ChargedFor, Replays
    <2>3. Success(l.cart) \in Replies /\ Success(l.cart).cart = l.cart
      BY <2>2 DEF ProviderTypeOK, Charges, Success
    <2> QED BY <1>6, <2>1, <2>2, <2>3 DEF ServeCheckoutReplay, Serves, providerVars, ProviderTypeOK
  <1>7. CASE ServeCheckoutFromCart(m)
    <2>1. PICK k \in OpenedFor(m) : Answer(m, Partial(k.id))
      BY <1>7 DEF ServeCheckoutFromCart
    <2>2. Partial(k.id) \in Replies /\ ~Partial(k.id).full
      BY DEF OpenedFor, ProviderTypeOK, Partial
    <2> QED BY <1>7, <2>1, <2>2 DEF ServeCheckoutFromCart, Serves, providerVars, ProviderTypeOK
  <1>8. CASE ServeNoFunds(m)
    <2>1. NoFunds \in Replies /\ ~NoFunds.full
      BY DEF NoFunds
    <2> QED BY <1>8, <2>1 DEF ServeNoFunds, Serves, providerVars, ProviderTypeOK
  <1> QED
    BY <1>1, <1>2, <1>3, <1>4, <1>5, <1>6, <1>7, <1>8 DEF Serve

(***************************************************************************)
(* Every step is of one of the five kinds.                                 *)
(***************************************************************************)
LEMMA StepKinds ==
    ASSUME TypeOK, Next
    PROVE  \/ \E c \in Calls : Quits(c) \/ Advances(c) \/ Sends(c) \/ Continue(c)
           \/ \E m \in wire, r \in Replies : Serves(m, r)
  <1>1. ASSUME NEW c \in Calls, Ends(c)
        PROVE  Quits(c)
    BY <1>1, EndsQuit
  <1>2. ASSUME NEW c \in Calls, Authenticated(c) \/ CartOpened(c)
        PROVE  Advances(c)
    <2>1. reply[c] # NoReply => reply[c].cart \in CartIds \union {NoCart}
      BY DEF TypeOK, Replies
    <2> QED BY <1>2, <2>1 DEF Authenticated, CartOpened, Advances, HttpReturn
  <1>3. ASSUME NEW c \in Calls, MarkStart(c) \/ SendCart(c) \/ SendCheckout(c)
        PROVE  Sends(c)
    BY <1>3 DEF MarkStart, SendCart, SendCheckout, Sends, callVars
  <1>4. ASSUME NEW m \in wire, Serve(m)
        PROVE  \E r \in Replies : Serves(m, r)
    BY <1>4, ServeServes
  <1> QED
    BY <1>1, <1>2, <1>3, <1>4 DEF Next, Start, Step, Ends

(***************************************************************************)
(* Types are preserved.                                                    *)
(***************************************************************************)
LEMMA TypeStep ==
    ASSUME TypeOK, TransportInv, [Next]_vars
    PROVE  TypeOK'
  <1> USE TypeParts
  <1>1. ASSUME NEW c \in Calls, Quits(c)
        PROVE  TypeOK'
    <2>1. HttpTypeOK'
      BY <1>1, LeaveType DEF Quits, httpVars, HttpTypeOK
    <2>2. CallTypeOK'
      BY <1>1, EndType DEF Quits, CallTypeOK, Outcomes
    <2> QED BY <1>1, <2>1, <2>2 DEF Quits, providerVars, ProviderTypeOK
  <1>2. ASSUME NEW c \in Calls, Advances(c)
        PROVE  TypeOK'
    <2>1. HttpTypeOK'
      BY <1>2, LeaveType DEF Advances
    <2> QED BY <1>2, <2>1 DEF Advances, providerVars, ProviderTypeOK, CallTypeOK
  <1>3. ASSUME NEW c \in Calls, Sends(c)
        PROVE  TypeOK'
    <2>1. HttpTypeOK'
      BY <1>3, SendType, RequestsType DEF Sends
    <2> QED BY <1>3, <2>1 DEF Sends, providerVars, ProviderTypeOK, CallTypeOK
  <1>4. ASSUME NEW c \in Calls, Continue(c)
        PROVE  TypeOK'
    BY <1>4, RetryType DEF Continue, callVars, providerVars, CallTypeOK, ProviderTypeOK
  <1>5. ASSUME NEW m \in wire, NEW r \in Replies, Serves(m, r)
        PROVE  TypeOK'
    BY <1>5, AnswerType DEF Serves, callVars, CallTypeOK
  <1>6. CASE UNCHANGED vars
    BY <1>6 DEF vars, httpVars, callVars, providerVars, HttpTypeOK, CallTypeOK, ProviderTypeOK
  <1> QED
    BY <1>1, <1>2, <1>3, <1>4, <1>5, <1>6, StepKinds

(***************************************************************************)
(* A request in progress stays the request of its call's stage.            *)
(***************************************************************************)
LEMMA TransportStep ==
    ASSUME TypeOK, TransportInv, [Next]_vars
    PROVE  TransportInv'
  <1> SUFFICES ASSUME NEW d \in Calls
               PROVE  TransportAt(d)'
    BY DEF TransportInv
  <1>0. TransportAt(d)
    BY DEF TransportInv
  <1> USE DEF TransportAt, MoreAttempts, RequestOf, UserRequest, CartRequest, CheckoutRequest,
              Attempts
  <1>1. ASSUME NEW c \in Calls, Quits(c)
        PROVE  TransportAt(d)'
    <2>1. CASE c = d
      BY <1>0, <1>1, <2>1 DEF Quits, Leave, End, httpVars, TypeOK
    <2>2. CASE c # d
      BY <1>0, <1>1, <2>2 DEF Quits, Leave, End, httpVars, TypeOK
    <2> QED BY <2>1, <2>2
  <1>2. ASSUME NEW c \in Calls, Advances(c)
        PROVE  TransportAt(d)'
    BY <1>0, <1>2 DEF Advances, Leave, TypeOK
  <1>3. ASSUME NEW c \in Calls, Sends(c)
        PROVE  TransportAt(d)'
    <2>1. CASE c = d
      <3>1. PICK r : HttpSend(c, r) /\ r = RequestOf(c)'
        BY <1>3 DEF Sends, TypeOK
      <3>2. Retries[c] \in Nat
        BY CallsAssumption
      <3> QED BY <1>0, <1>3, <2>1, <3>1, <3>2 DEF Sends, HttpSend, TypeOK
    <2>2. CASE c # d
      BY <1>0, <1>3, <2>2 DEF Sends, HttpSend, TypeOK
    <2> QED BY <2>1, <2>2
  <1>4. ASSUME NEW c \in Calls, Continue(c)
        PROVE  TransportAt(d)'
    <2>1. CASE c = d
      <3>1. Retries[c] \in Nat
        BY CallsAssumption
      <3>2. CASE HttpRetryAnswer(c) \/ HttpRetryError(c)
        BY <1>0, <1>4, <2>1, <3>2 DEF Continue, HttpRetryAnswer, HttpRetryError, callVars, TypeOK
      <3>3. CASE HttpResend(c)
        BY <1>0, <1>4, <2>1, <3>1, <3>3 DEF Continue, HttpResend, callVars, TypeOK
      <3> QED BY <1>4, <3>2, <3>3 DEF Continue
    <2>2. CASE c # d
      <3>1. /\ phase'[d] = phase[d] /\ pending'[d] = pending[d]
            /\ attempt'[d] = attempt[d] /\ reply'[d] = reply[d]
            /\ stage' = stage /\ cart' = cart
        BY <1>4, <2>2
        DEF Continue, HttpRetryAnswer, HttpRetryError, HttpResend, callVars, TypeOK
      <3> QED BY <1>0, <3>1
    <2> QED BY <2>1, <2>2
  <1>5. ASSUME NEW m \in wire, NEW r \in Replies, Serves(m, r)
        PROVE  TransportAt(d)'
    BY <1>0, <1>5 DEF Serves, Answer, callVars, TypeOK, Messages
  <1>6. CASE UNCHANGED vars
    BY <1>0, <1>6 DEF vars, httpVars, callVars
  <1> QED
    BY <1>1, <1>2, <1>3, <1>4, <1>5, <1>6, StepKinds

(***************************************************************************)
(* An attempt that was sent stays sent, and its call keeps its cart.       *)
(***************************************************************************)
LEMMA SentStaysSent ==
    ASSUME TypeOK, TransportInv, [Next]_vars, NEW d \in Calls, NEW n \in Nat, WasSent(d, n)
    PROVE  WasSent(d, n)' /\ cart'[d] = cart[d]
  <1> USE DEF WasSent, Keyed
  <1>1. ASSUME NEW c \in Calls, Quits(c)
        PROVE  WasSent(d, n)' /\ cart'[d] = cart[d]
    <2>1. CASE c = d
      <3>1. PICK o \in Outcomes :
               /\ End(c, o)
               /\ IF o.kind = "mark" THEN stage[c] = "checkout"
                  ELSE o.at = IF stage[c] = "idle" THEN "user" ELSE stage[c]
        BY <1>1 DEF Quits
      <3>2. o.kind \in {"mark", "error", "cancelled"}
        BY DEF Outcomes, Results, NoResult
      <3>3. stage[c] = "checkout"
        BY <1>1, <2>1 DEF Quits
      <3> QED BY <2>1, <3>1, <3>2, <3>3 DEF End, TypeOK
    <2>2. CASE c # d
      BY <1>1, <2>2 DEF Quits, Leave, End, httpVars, TypeOK
    <2> QED BY <2>1, <2>2
  <1>2. ASSUME NEW c \in Calls, Advances(c)
        PROVE  WasSent(d, n)' /\ cart'[d] = cart[d]
    BY <1>2 DEF Advances, Leave, TypeOK
  <1>3. ASSUME NEW c \in Calls, Sends(c)
        PROVE  WasSent(d, n)' /\ cart'[d] = cart[d]
    BY <1>3 DEF Sends, HttpSend, TypeOK
  <1>4. ASSUME NEW c \in Calls, Continue(c)
        PROVE  WasSent(d, n)' /\ cart'[d] = cart[d]
    BY <1>4 DEF Continue, HttpRetryAnswer, HttpRetryError, HttpResend, callVars, TypeOK
  <1>5. ASSUME NEW m \in wire, NEW r \in Replies, Serves(m, r)
        PROVE  WasSent(d, n)' /\ cart'[d] = cart[d]
    BY <1>5 DEF Serves, Answer, callVars
  <1>6. CASE UNCHANGED vars
    BY <1>6 DEF vars, httpVars, callVars
  <1> QED
    BY <1>1, <1>2, <1>3, <1>4, <1>5, <1>6, StepKinds

(***************************************************************************)
(* What a step puts on the wire: a checkout is the request of its call,    *)
(* sent now, with a number no attempt of that checkout had before.         *)
(***************************************************************************)
NewOnWire(m) ==
    m.request.ep = "checkout" =>
        /\ m.request = CheckoutRequest(m.call)'
        /\ WasSent(m.call, m.attempt)'
        /\ \A n \in Nat : WasSent(m.call, n) => n < m.attempt

LEMMA WireGrows ==
    ASSUME TypeOK, TransportInv, [Next]_vars, NEW m \in wire', m \notin wire
    PROVE  NewOnWire(m)
  <1> USE DEF NewOnWire
  <1>1. ASSUME NEW c \in Calls, Quits(c)
        PROVE  FALSE
    BY <1>1 DEF Quits, Leave, httpVars
  <1>2. ASSUME NEW c \in Calls, Advances(c)
        PROVE  FALSE
    BY <1>2 DEF Advances, Leave
  <1>3. ASSUME NEW c \in Calls, Sends(c)
        PROVE  NewOnWire(m)
    <2>1. CASE stage[c] = "checkout"
      <3>1. /\ m = Message(c, CheckoutRequest(c), 1)
            /\ phase[c] = "quiet" /\ phase'[c] = "sent" /\ attempt'[c] = 1
            /\ stage'[c] = "checkout" /\ cart' = cart
        BY <1>3, <2>1 DEF Sends, HttpSend, TypeOK
      <3>2. m.call = c /\ m.attempt = 1 /\ m.request = CheckoutRequest(c)
        BY <3>1 DEF Message
      <3>3. CheckoutRequest(c)' = CheckoutRequest(c)
        BY <3>1 DEF CheckoutRequest
      <3>4. WasSent(c, 1)'
        BY <3>1 DEF WasSent
      <3>5. \A n \in Nat : ~WasSent(c, n)
        BY <2>1, <3>1 DEF WasSent
      <3> QED BY <3>2, <3>3, <3>4, <3>5
    <2>2. CASE stage[c] # "checkout"
      BY <1>3, <2>2 DEF Sends, HttpSend, Message, UserRequest, CartRequest
    <2> QED BY <2>1, <2>2
  <1>4. ASSUME NEW c \in Calls, Continue(c)
        PROVE  NewOnWire(m)
    <2>1. HttpResend(c) /\ m = Message(c, pending[c], attempt[c] + 1)
      BY <1>4 DEF Continue, HttpRetryAnswer, HttpRetryError, HttpResend
    <2>2. /\ m.call = c
          /\ m.request = RequestOf(c)
          /\ m.attempt = attempt[c] + 1
          /\ stage[c] \in {"user", "cart", "checkout"}
          /\ attempt[c] >= 1
          /\ attempt[c] < Attempts(c, RequestOf(c))
      BY <2>1 DEF Message, HttpResend, TransportInv, TransportAt, MoreAttempts
    <2>3. CASE stage[c] = "checkout"
      <3>1. m.request = CheckoutRequest(c)
        BY <2>2, <2>3 DEF RequestOf
      <3>2. Keyed(c)
        BY <2>2, <2>3, <3>1, CallsAssumption DEF Attempts, Keyed, CheckoutRequest, TypeOK
      <3>3. /\ phase[c] = "backoff" /\ phase'[c] = "sent"
            /\ attempt[c] \in Nat /\ attempt'[c] = attempt[c] + 1
            /\ stage' = stage /\ cart' = cart
        BY <1>4, <2>1 DEF Continue, callVars, HttpResend, TypeOK
      <3>4. CheckoutRequest(c)' = CheckoutRequest(c)
        BY <3>3 DEF CheckoutRequest
      <3>5. WasSent(c, m.attempt)'
        BY <2>2, <2>3, <3>2, <3>3 DEF WasSent, Keyed
      <3>6. \A n \in Nat : WasSent(c, n) => n < m.attempt
        BY <2>2, <2>3, <3>3 DEF WasSent
      <3> QED BY <2>2, <3>1, <3>4, <3>5, <3>6
    <2>4. CASE stage[c] # "checkout"
      BY <2>2, <2>4 DEF RequestOf, UserRequest, CartRequest
    <2> QED BY <2>3, <2>4
  <1>5. ASSUME NEW k \in wire, NEW r \in Replies, Serves(k, r)
        PROVE  FALSE
    BY <1>5 DEF Serves, Answer
  <1>6. CASE UNCHANGED vars
    BY <1>6 DEF vars, httpVars
  <1> QED
    BY <1>1, <1>2, <1>3, <1>4, <1>5, <1>6, StepKinds

(***************************************************************************)
(* A new charge is an attempt taken off the wire by this step.             *)
(***************************************************************************)
LEMMA LedgerGrows ==
    ASSUME TypeOK, [Next]_vars, NEW l \in ledger', l \notin ledger
    PROVE  \E m \in wire : /\ m.request.ep = "checkout"
                           /\ l = ChargeOf(m)
                           /\ wire' = wire \ {m}
                           /\ ledger' = ledger \union {l}
                           /\ cart' = cart
                           /\ KeyScope = "endpoint" /\ m.request.key # NoKey =>
                                \A k \in ledger : k.key # m.request.key
  <1>1. \A c \in Calls : ~(Quits(c) \/ Advances(c) \/ Sends(c) \/ Continue(c))
    BY DEF Quits, Advances, Sends, Continue, providerVars
  <1>2. ~(UNCHANGED vars)
    BY DEF vars, providerVars
  <1>3. PICK m \in wire, r \in Replies : Serves(m, r)
    BY <1>1, <1>2, StepKinds
  <1> QED BY <1>3 DEF Serves, Answer, callVars

(***************************************************************************)
(* Charges are never taken back.                                           *)
(***************************************************************************)
LEMMA LedgerStays ==
    ASSUME TypeOK, [Next]_vars
    PROVE  ledger \subseteq ledger'
  <1>1. ASSUME NEW c \in Calls, Quits(c) \/ Advances(c) \/ Sends(c) \/ Continue(c)
        PROVE  ledger' = ledger
    BY <1>1 DEF Quits, Advances, Sends, Continue, providerVars
  <1>2. ASSUME NEW m \in wire, NEW r \in Replies, Serves(m, r)
        PROVE  ledger \subseteq ledger'
    BY <1>2 DEF Serves
  <1>3. CASE UNCHANGED vars
    BY <1>3 DEF vars, providerVars
  <1> QED BY <1>1, <1>2, <1>3, StepKinds

(***************************************************************************)
(* The checkouts on the wire and the charges stay attempts of their call's *)
(* one checkout request.                                                   *)
(***************************************************************************)
LEMMA WireStep ==
    ASSUME TypeOK, TransportInv, WireInv, [Next]_vars
    PROVE  WireInv'
  <1> SUFFICES ASSUME NEW m \in wire', m.request.ep = "checkout"
               PROVE  m.request = CheckoutRequest(m.call)' /\ WasSent(m.call, m.attempt)'
    BY DEF WireInv
  <1>1. CASE m \notin wire
    BY <1>1, WireGrows DEF NewOnWire
  <1>2. CASE m \in wire
    <2>1. m.call \in Calls /\ m.attempt \in Nat
      BY <1>2 DEF TypeOK, Messages
    <2>2. m.request = CheckoutRequest(m.call) /\ WasSent(m.call, m.attempt)
      BY <1>2 DEF WireInv
    <2>3. WasSent(m.call, m.attempt)' /\ cart'[m.call] = cart[m.call]
      BY <2>1, <2>2, SentStaysSent
    <2> QED BY <2>2, <2>3 DEF CheckoutRequest
  <1> QED BY <1>1, <1>2

LEMMA LedgerStep ==
    ASSUME TypeOK, TransportInv, WireInv, LedgerInv, [Next]_vars
    PROVE  LedgerInv'
  <1> SUFFICES ASSUME NEW l \in ledger'
               PROVE  /\ l.key = KeyOf[l.call]
                      /\ l.amount = Total[l.call]
                      /\ l.cart = cart'[l.call]
                      /\ WasSent(l.call, l.attempt)'
    BY DEF LedgerInv
  <1>1. CASE l \notin ledger
    <2>1. PICK m \in wire : m.request.ep = "checkout" /\ l = ChargeOf(m) /\ cart' = cart
      BY <1>1, LedgerGrows
    <2>2. m.call \in Calls /\ m.attempt \in Nat
      BY DEF TypeOK, Messages
    <2>3. m.request = CheckoutRequest(m.call) /\ WasSent(m.call, m.attempt)
      BY <2>1 DEF WireInv
    <2>4. WasSent(m.call, m.attempt)'
      BY <2>2, <2>3, SentStaysSent
    <2>5. l.call = m.call /\ l.attempt = m.attempt
      BY <2>1 DEF ChargeOf
    <2> QED BY <2>1, <2>3, <2>4, <2>5 DEF ChargeOf, CheckoutRequest
  <1>2. CASE l \in ledger
    <2>1. l.call \in Calls /\ l.attempt \in Nat
      BY <1>2 DEF TypeOK, Charges
    <2>2. WasSent(l.call, l.attempt)
      BY <1>2 DEF LedgerInv
    <2>3. WasSent(l.call, l.attempt)' /\ cart'[l.call] = cart[l.call]
      BY <2>1, <2>2, SentStaysSent
    <2> QED BY <1>2, <2>3 DEF LedgerInv
  <1> QED BY <1>1, <1>2

(***************************************************************************)
(* Two checkouts on the wire with the same call and number are the same.   *)
(***************************************************************************)
LEMMA SameAttempt ==
    ASSUME TypeOK, WireInv, NEW m \in wire, NEW k \in wire,
           m.request.ep = "checkout", k.request.ep = "checkout",
           m.call = k.call, m.attempt = k.attempt
    PROVE  m = k
  <1>1. m.request = k.request
    BY DEF WireInv
  <1> QED BY <1>1 DEF TypeOK, Messages

LEMMA ChargedStep ==
    ASSUME TypeOK, TransportInv, WireInv, LedgerInv, ChargedOffWire, [Next]_vars
    PROVE  ChargedOffWire'
  <1> SUFFICES ASSUME NEW m \in wire', NEW l \in ledger',
                      m.request.ep = "checkout", m.call = l.call
               PROVE  m.attempt # l.attempt
    BY DEF ChargedOffWire
  <1>1. CASE l \notin ledger
    <2>1. PICK k \in wire : k.request.ep = "checkout" /\ l = ChargeOf(k) /\ wire' = wire \ {k}
      BY <1>1, LedgerGrows
    <2>2. l.call = k.call /\ l.attempt = k.attempt
      BY <2>1 DEF ChargeOf
    <2> QED BY <2>1, <2>2, SameAttempt
  <1>2. CASE l \in ledger /\ m \in wire
    BY <1>2 DEF ChargedOffWire
  <1>3. CASE l \in ledger /\ m \notin wire
    <2>1. WasSent(l.call, l.attempt) /\ l.attempt \in Nat
      BY <1>3 DEF LedgerInv, TypeOK, Charges
    <2>2. l.attempt < m.attempt
      BY <1>3, <2>1, WireGrows DEF NewOnWire
    <2> QED BY <2>1, <2>2
  <1> QED BY <1>1, <1>2, <1>3

(***************************************************************************)
(* A call has a result exactly when it is done.                            *)
(***************************************************************************)
LEMMA DoneStep ==
    ASSUME TypeOK, DoneInv, [Next]_vars
    PROVE  DoneInv'
  <1> SUFFICES ASSUME NEW d \in Calls
               PROVE  stage'[d] = "done" <=> result'[d].kind # "none"
    BY DEF DoneInv
  <1>0. stage[d] = "done" <=> result[d].kind # "none"
    BY DEF DoneInv
  <1>1. ASSUME NEW c \in Calls, Quits(c)
        PROVE  stage'[d] = "done" <=> result'[d].kind # "none"
    BY <1>0, <1>1 DEF Quits, End, Outcomes, TypeOK
  <1>2. ASSUME NEW c \in Calls, Advances(c)
        PROVE  stage'[d] = "done" <=> result'[d].kind # "none"
    BY <1>0, <1>2 DEF Advances, TypeOK
  <1>3. ASSUME NEW c \in Calls, Sends(c)
        PROVE  stage'[d] = "done" <=> result'[d].kind # "none"
    BY <1>0, <1>3 DEF Sends, TypeOK
  <1>4. ASSUME NEW c \in Calls, Continue(c)
        PROVE  stage'[d] = "done" <=> result'[d].kind # "none"
    BY <1>0, <1>4 DEF Continue, callVars
  <1>5. ASSUME NEW m \in wire, NEW r \in Replies, Serves(m, r)
        PROVE  stage'[d] = "done" <=> result'[d].kind # "none"
    BY <1>0, <1>5 DEF Serves, callVars
  <1>6. CASE UNCHANGED vars
    BY <1>0, <1>6 DEF vars, callVars
  <1> QED
    BY <1>1, <1>2, <1>3, <1>4, <1>5, <1>6, StepKinds

(***************************************************************************)
(* What an answer to the checkout of d tells of the attempt it answers.    *)
(***************************************************************************)
AnswerAt(d) ==
    stage[d] = "checkout" /\ reply[d] # NoReply =>
        /\ \A m \in wire : m.call = d /\ m.request.ep = "checkout" => m.attempt # attempt[d]
        /\ ~Ok(reply[d].status) /\ reply[d].status < 500 =>
              \A l \in ledger : l.call = d => l.attempt # attempt[d]
        /\ Ok(reply[d].status) /\ reply[d].full =>
              \E l \in ledger : l.cart = reply[d].cart /\ l.amount = Total[d]

(***************************************************************************)
(* A step that leaves the attempt of d alone, charges nothing and sends    *)
(* nothing for d keeps what d's answer tells.                              *)
(***************************************************************************)
LEMMA AnswerUntouched ==
    ASSUME NEW d \in Calls, AnswerAt(d),
           stage'[d] = stage[d], reply'[d] = reply[d], attempt'[d] = attempt[d],
           ledger' = ledger, \A m \in wire' : m \in wire \/ m.call # d
    PROVE  AnswerAt(d)'
  BY DEF AnswerAt

(***************************************************************************)
(* The provider executes an attempt of d's checkout that d still awaits.   *)
(***************************************************************************)
LEMMA AnswerArrives ==
    ASSUME TypeOK, TransportInv, WireInv, LedgerInv, ChargedOffWire,
           NEW m \in wire, NEW r \in Replies, Serves(m, r), NEW d \in Calls,
           stage[d] = "checkout", m.call = d, phase[d] = "sent",
           pending[d] = m.request, attempt[d] = m.attempt
    PROVE  AnswerAt(d)'
  <1>1. /\ reply'[d] = r /\ attempt'[d] = m.attempt /\ wire' = wire \ {m}
    BY DEF Serves, Answer, TypeOK
  <1>2. m.request = CheckoutRequest(d) /\ m.request.ep = "checkout"
    BY DEF TransportInv, TransportAt, RequestOf, CheckoutRequest
  <1>3. \A k \in wire' : k.call = d /\ k.request.ep = "checkout" => k.attempt # m.attempt
    BY <1>1, <1>2, SameAttempt
  <1>4. ~Ok(r.status) /\ r.status < 500 => \A l \in ledger' : l.call = d => l.attempt # m.attempt
    <2> SUFFICES ASSUME ~Ok(r.status), r.status < 500
                 PROVE  \A l \in ledger' : l.call = d => l.attempt # m.attempt
      OBVIOUS
    <2>1. r.status \in Nat
      BY ReplyTypes
    <2>2. ledger' = ledger
      BY <2>1 DEF Serves
    <2> QED BY <1>2, <2>2 DEF ChargedOffWire
  <1>5. Ok(r.status) /\ r.full => \E l \in ledger' : l.cart = r.cart /\ l.amount = Total[d]
    <2> SUFFICES ASSUME Ok(r.status), r.full
                 PROVE  \E l \in ledger' : l.cart = r.cart /\ l.amount = Total[d]
      OBVIOUS
    <2>1. CASE ledger' = ledger
                /\ \E l \in ledger : l.cart = r.cart /\ l.key = m.request.key /\ l.key # NoKey
      <3>1. PICK l \in ledger : l.cart = r.cart /\ l.key = m.request.key /\ l.key # NoKey
        BY <2>1
      <3>2. l.key = KeyOf[l.call] /\ l.amount = Total[l.call] /\ l.call \in Calls
        BY DEF LedgerInv, TypeOK, Charges
      <3>3. m.request.key = KeyOf[d]
        BY <1>2 DEF CheckoutRequest
      <3> QED BY <2>1, <3>1, <3>2, <3>3, KeyAssumption
    <2>2. CASE ledger' = ledger \union {ChargeOf(m)} /\ r.cart = m.request.cart
      <3>1. ChargeOf(m).cart = r.cart /\ ChargeOf(m).amount = Total[d]
        BY <2>2 DEF ChargeOf
      <3>2. ChargeOf(m) \in ledger'
        BY <2>2
      <3> QED BY <3>1, <3>2
    <2> QED BY <1>2, <2>1, <2>2 DEF Serves
  <1> QED BY <1>1, <1>3, <1>4, <1>5 DEF AnswerAt

LEMMA AnswerStep ==
    ASSUME TypeOK, TransportInv, WireInv, LedgerInv, ChargedOffWire, AnswerInv, [Next]_vars
    PROVE  AnswerInv'
  <1> SUFFICES ASSUME NEW d \in Calls
               PROVE  AnswerAt(d)'
    BY DEF AnswerInv, AnswerAt
  <1>0. AnswerAt(d) /\ TransportAt(d)
    BY DEF AnswerInv, AnswerAt, TransportInv
  <1>1. ASSUME NEW c \in Calls, Quits(c)
        PROVE  AnswerAt(d)'
    <2>1. CASE c = d
      BY <1>1, <2>1 DEF Quits, End, AnswerAt, TypeOK
    <2>2. CASE c # d
      BY <1>0, <1>1, <2>2, AnswerUntouched
      DEF Quits, End, Leave, httpVars, providerVars, TypeOK
    <2> QED BY <2>1, <2>2
  <1>2. ASSUME NEW c \in Calls, Advances(c)
        PROVE  AnswerAt(d)'
    <2>1. CASE c = d
      BY <1>2, <2>1 DEF Advances, Leave, AnswerAt, TypeOK
    <2>2. CASE c # d
      BY <1>0, <1>2, <2>2, AnswerUntouched DEF Advances, Leave, providerVars, TypeOK
    <2> QED BY <2>1, <2>2
  <1>3. ASSUME NEW c \in Calls, Sends(c)
        PROVE  AnswerAt(d)'
    <2>1. CASE c = d
      BY <1>0, <1>3, <2>1 DEF Sends, HttpSend, AnswerAt, TransportAt, TypeOK
    <2>2. CASE c # d
      <3>1. PICK q : HttpSend(c, q) /\ wire' = wire \union {Message(c, q, 1)}
        BY <1>3 DEF Sends, HttpSend
      <3> QED BY <1>0, <1>3, <2>2, <3>1, AnswerUntouched
              DEF Sends, HttpSend, Message, providerVars, TypeOK
    <2> QED BY <2>1, <2>2
  <1>4. ASSUME NEW c \in Calls, Continue(c)
        PROVE  AnswerAt(d)'
    <2>1. CASE c = d
      BY <1>0, <1>4, <2>1
      DEF Continue, HttpRetryAnswer, HttpRetryError, HttpResend, AnswerAt, TransportAt, TypeOK
    <2>2. CASE c # d
      <3>1. \A m \in wire' : m \in wire \/ m.call # d
        BY <1>4, <2>2 DEF Continue, HttpRetryAnswer, HttpRetryError, HttpResend, Message
      <3> QED BY <1>0, <1>4, <2>2, <3>1, AnswerUntouched
              DEF Continue, HttpRetryAnswer, HttpRetryError, HttpResend, callVars, providerVars, TypeOK
    <2> QED BY <2>1, <2>2
  <1>5. ASSUME NEW m \in wire, NEW r \in Replies, Serves(m, r)
        PROVE  AnswerAt(d)'
    <2>0. stage' = stage /\ attempt' = attempt /\ wire' = wire \ {m}
      BY <1>5 DEF Serves, Answer, callVars
    <2>1. CASE stage[d] # "checkout"
      BY <2>0, <2>1 DEF AnswerAt
    <2>2. CASE /\ stage[d] = "checkout" /\ m.call = d /\ phase[d] = "sent"
               /\ pending[d] = m.request /\ attempt[d] = m.attempt
      BY <1>5, <2>2, AnswerArrives
    <2>3. CASE stage[d] = "checkout" /\ reply'[d] = reply[d]
      <3> SUFFICES ASSUME reply[d] # NoReply
                   PROVE  AnswerAt(d)'
        BY <2>3 DEF AnswerAt
      <3>1. \A l \in ledger' : l \in ledger \/ (m.request.ep = "checkout" /\ l = ChargeOf(m))
        BY <1>5 DEF Serves
      <3>2. \A l \in ledger' : l.call = d /\ l.attempt = attempt[d] => l \in ledger
        BY <1>0, <2>3, <3>1 DEF AnswerAt, ChargeOf
      <3>3. ledger \subseteq ledger'
        BY <1>5 DEF Serves
      <3> QED BY <1>0, <2>0, <2>3, <3>2, <3>3 DEF AnswerAt
    <2>4. \/ reply'[d] = reply[d]
          \/ /\ m.call = d /\ phase[d] = "sent"
             /\ pending[d] = m.request /\ attempt[d] = m.attempt
      BY <1>5 DEF Serves, Answer, TypeOK
    <2> QED BY <2>1, <2>2, <2>3, <2>4
  <1>6. CASE UNCHANGED vars
    BY <1>0, <1>6, AnswerUntouched DEF vars, httpVars, callVars, providerVars
  <1> QED
    BY <1>1, <1>2, <1>3, <1>4, <1>5, <1>6, StepKinds

(***************************************************************************)
(* An unkeyed call has one attempt of one request, so one charge.          *)
(***************************************************************************)
LEMMA UnkeyedOnce == TypeOK /\ LedgerInv => UnkeyedChargedOnce
  <1> SUFFICES ASSUME TypeOK, LedgerInv
               PROVE  UnkeyedChargedOnce
    OBVIOUS
  <1> SUFFICES ASSUME NEW l \in ledger, NEW k \in ledger, l.call = k.call, ~Keyed(l.call)
               PROVE  l = k
    BY DEF UnkeyedChargedOnce
  <1>1. l.attempt = k.attempt
    BY DEF LedgerInv, WasSent
  <1>2. l.key = k.key /\ l.amount = k.amount /\ l.cart = k.cart
    BY DEF LedgerInv
  <1> QED BY <1>1, <1>2 DEF TypeOK, Charges

(***************************************************************************)
(* A second charge of a key finds the first one in the provider's memory.  *)
(***************************************************************************)
LEMMA KeyedStep ==
    ASSUME TypeOK, LedgerInv, LedgerInv', KeyChargedOnce, [Next]_vars
    PROVE  KeyChargedOnce'
  <1> SUFFICES ASSUME KeyScope = "endpoint",
                      NEW l \in ledger', NEW k \in ledger',
                      Keyed(l.call), KeyOf[l.call] = KeyOf[k.call]
               PROVE  l = k
    BY DEF KeyChargedOnce, Keyed
  <1>1. l.key = k.key /\ l.key # NoKey
    BY DEF LedgerInv, Keyed
  <1>2. ASSUME NEW a \in ledger', NEW b \in ledger', a.key = b.key, a.key # NoKey, a \notin ledger
        PROVE  a = b
    <2>1. PICK m \in wire : /\ a = ChargeOf(m)
                            /\ ledger' = ledger \union {a}
                            /\ m.request.key # NoKey => \A q \in ledger : q.key # m.request.key
      BY <1>2, LedgerGrows
    <2>2. a.key = m.request.key
      BY <2>1 DEF ChargeOf
    <2> QED BY <1>2, <2>1, <2>2
  <1>3. CASE l \in ledger /\ k \in ledger
    BY <1>3 DEF KeyChargedOnce
  <1> QED BY <1>1, <1>2, <1>3

(***************************************************************************)
(* A result that appears is that of a call that quits.                     *)
(***************************************************************************)
LEMMA ResultComes ==
    ASSUME TypeOK, [Next]_vars, NEW d \in Calls, result'[d] # result[d]
    PROVE  Quits(d)
  <1>1. ASSUME NEW c \in Calls, Quits(c), c # d
        PROVE  FALSE
    BY <1>1 DEF Quits, End, TypeOK
  <1>2. ~(\E c \in Calls : Advances(c) \/ Sends(c) \/ Continue(c))
    BY DEF Advances, Sends, Continue, callVars
  <1>3. ~(\E m \in wire, r \in Replies : Serves(m, r))
    BY DEF Serves, callVars
  <1>4. ~(UNCHANGED vars)
    BY DEF vars, callVars
  <1> QED BY <1>1, <1>2, <1>3, <1>4, StepKinds

LEMMA MarkStep ==
    ASSUME TypeOK, AnswerInv, MarkMeansPaid, [Next]_vars
    PROVE  MarkMeansPaid'
  <1> SUFFICES ASSUME NEW d \in Calls, result'[d].kind = "mark"
               PROVE  \E l \in ledger' : l.cart = result'[d].cart /\ l.amount = Total[d]
    BY DEF MarkMeansPaid
  <1>1. CASE result'[d] = result[d]
    BY <1>1, LedgerStays DEF MarkMeansPaid
  <1>2. CASE result'[d] # result[d]
    <2>1. Quits(d)
      BY <1>2, ResultComes
    <2>2. /\ stage[d] = "checkout" /\ reply[d] # NoReply /\ Ok(reply[d].status)
          /\ reply[d].full /\ result'[d].cart = reply[d].cart
      BY <2>1 DEF Quits, Founded, End, TypeOK
    <2> QED BY <2>2, LedgerStays DEF AnswerInv
  <1> QED BY <1>1, <1>2

(***************************************************************************)
(* A definite error of an unkeyed checkout answers its only attempt, so    *)
(* nothing is left on the wire; and a call that is done sends nothing.     *)
(***************************************************************************)
LEMMA RefusalStep ==
    ASSUME TypeOK, TransportInv, WireInv, LedgerInv, AnswerInv, DoneInv, RefusalIsFinal,
           TypeOK', WireInv', LedgerInv', DoneInv', [Next]_vars
    PROVE  RefusalIsFinal'
  <1>1. ASSUME NEW d \in Calls, result'[d].kind \in {"error", "cancelled"},
               result'[d].at # "checkout"
        PROVE  (ChargesOf(d) = {} /\ CheckoutsOf(d) = {})'
    <2>1. \A n \in Nat : ~WasSent(d, n)'
      BY <1>1 DEF WasSent, DoneInv
    <2>2. \A l \in ledger' : l.call # d
      BY <2>1 DEF LedgerInv, TypeOK, Charges
    <2>3. \A m \in wire' : m.call = d => m.request.ep # "checkout"
      BY <2>1 DEF WireInv, TypeOK, Messages
    <2> QED BY <2>2, <2>3 DEF ChargesOf, CheckoutsOf
  <1>2. ASSUME NEW d \in Calls, result'[d].kind = "error", result'[d].at = "checkout",
               ~Keyed(d), Definite(result'[d])
        PROVE  (ChargesOf(d) = {} /\ CheckoutsOf(d) = {})'
    <2>1. CASE result'[d] # result[d]
      <3>1. Quits(d)
        BY <2>1, ResultComes
      <3>2. /\ stage[d] = "checkout" /\ reply[d] # NoReply /\ ~Ok(reply[d].status)
            /\ reply[d].status < 500 /\ phase[d] # "quiet"
            /\ wire' = wire /\ ledger' = ledger
        BY <1>2, <3>1 DEF Quits, Founded, End, TypeOK, Leave, providerVars
      <3>3. attempt[d] = 1
        <4>1. Attempts(d, CheckoutRequest(d)) = 1
          BY <1>2 DEF Attempts, CheckoutRequest, Keyed
        <4>2. attempt[d] \in 1 .. Attempts(d, CheckoutRequest(d))
          BY <3>2 DEF TransportInv, TransportAt, RequestOf
        <4> QED BY <4>1, <4>2
      <3>4. \A l \in ledger : l.call = d => l.attempt = 1
        BY <1>2 DEF LedgerInv, WasSent
      <3>5. \A m \in wire : m.call = d /\ m.request.ep = "checkout" => m.attempt = 1
        BY <1>2 DEF WireInv, WasSent
      <3>6. /\ \A l \in ledger : l.call # d
            /\ \A m \in wire : m.call = d => m.request.ep # "checkout"
        BY <3>2, <3>3, <3>4, <3>5 DEF AnswerInv
      <3> QED BY <3>2, <3>6 DEF ChargesOf, CheckoutsOf
    <2>2. CASE result'[d] = result[d]
      <3>1. \A l \in ledger : l.call # d
        BY <1>2, <2>2 DEF RefusalIsFinal, ChargesOf
      <3>2. \A m \in wire : m.call = d => m.request.ep # "checkout"
        BY <1>2, <2>2 DEF RefusalIsFinal, CheckoutsOf
      <3>3. WasSent(d, 1)
        BY <1>2, <2>2 DEF WasSent, DoneInv
      <3>4. ASSUME NEW m \in wire', m.call = d, m.request.ep = "checkout"
            PROVE  FALSE
        <4>1. m \notin wire
          BY <3>2, <3>4
        <4>2. WasSent(d, m.attempt)' /\ 1 < m.attempt
          BY <3>3, <3>4, <4>1, WireGrows DEF NewOnWire
        <4> QED BY <1>2, <4>2 DEF WasSent
      <3>5. ASSUME NEW l \in ledger', l.call = d
            PROVE  FALSE
        <4>1. PICK m \in wire : m.request.ep = "checkout" /\ l = ChargeOf(m)
          BY <3>1, <3>5, LedgerGrows
        <4> QED BY <3>2, <3>5, <4>1 DEF ChargeOf
      <3> QED BY <3>4, <3>5 DEF ChargesOf, CheckoutsOf
    <2> QED BY <2>1, <2>2
  <1> SUFFICES ASSUME NEW d \in Calls, result'[d].kind \in {"error", "cancelled"}
               PROVE  /\ ~Keyed(d) /\ Definite(result'[d]) =>
                           (ChargesOf(d) = {} /\ CheckoutsOf(d) = {})'
                      /\ result'[d].at # "checkout" =>
                           (ChargesOf(d) = {} /\ CheckoutsOf(d) = {})'
    BY DEF RefusalIsFinal, Keyed
  <1>3. Definite(result'[d]) => result'[d].kind = "error"
    BY DEF Definite
  <1> QED
    BY <1>1, <1>2, <1>3

(***************************************************************************)
(* The inductive invariant, and what follows from it.                      *)
(***************************************************************************)
LEMMA InitInv == Init => IInv
  <1> SUFFICES ASSUME Init PROVE IInv
    OBVIOUS
  <1>1. TypeOK
    BY InitType
  <1>2. TransportInv /\ AnswerInv /\ DoneInv /\ MarkMeansPaid /\ RefusalIsFinal
    BY DEF Init, HttpInit, TransportInv, TransportAt, AnswerInv, DoneInv, MarkMeansPaid,
           RefusalIsFinal, NoResult
  <1>3. WireInv /\ LedgerInv /\ ChargedOffWire /\ UnkeyedChargedOnce /\ KeyChargedOnce
    BY DEF Init, HttpInit, WireInv, LedgerInv, ChargedOffWire, UnkeyedChargedOnce, KeyChargedOnce
  <1> QED BY <1>1, <1>2, <1>3 DEF IInv

LEMMA StepInv == IInv /\ [Next]_vars => IInv'
  <1> SUFFICES ASSUME IInv, [Next]_vars PROVE IInv'
    OBVIOUS
  <1> USE DEF IInv
  <1>1. TypeOK' /\ TransportInv'
    BY TypeStep, TransportStep
  <1>2. WireInv' /\ LedgerInv' /\ DoneInv'
    BY WireStep, LedgerStep, DoneStep
  <1>3. ChargedOffWire'
    BY ChargedStep
  <1>4. AnswerInv'
    BY AnswerStep
  <1>5. KeyChargedOnce'
    BY <1>2, KeyedStep
  <1>6. MarkMeansPaid'
    BY MarkStep
  <1>7. RefusalIsFinal'
    BY <1>1, <1>2, RefusalStep
  <1>8. UnkeyedChargedOnce'
    BY <1>1, <1>2, UnkeyedOnce, PTL
  <1> QED BY <1>1, <1>2, <1>3, <1>4, <1>5, <1>6, <1>7, <1>8

LEMMA InvAlways == Spec => []IInv
  BY InitInv, StepInv, PTL DEF Spec

\* The state of every call, of its request and of the provider keeps its shape.
THEOREM TypeCorrect == Spec => []TypeOK
  <1>1. IInv => TypeOK
    BY DEF IInv
  <1> QED BY <1>1, InvAlways, PTL

\* Without an idempotency key a call pays at most once (http_client.py:83).
THEOREM UnkeyedOnceCorrect == Spec => []UnkeyedChargedOnce
  <1>1. IInv => UnkeyedChargedOnce
    BY DEF IInv
  <1> QED BY <1>1, InvAlways, PTL

\* With a key honoured per endpoint, all calls made with it pay once together
\* (checkout.py:77-90).
THEOREM KeyedOnceCorrect == Spec => []KeyChargedOnce
  <1>1. IInv => KeyChargedOnce
    BY DEF IInv
  <1> QED BY <1>1, InvAlways, PTL

\* A mark is never handed out without a charge of its amount for its order
\* (checkout.py:215-224), whatever the provider does with keys.
THEOREM MarkPaidCorrect == Spec => []MarkMeansPaid
  <1>1. IInv => MarkMeansPaid
    BY DEF IInv
  <1> QED BY <1>1, InvAlways, PTL

\* After a definite error of an unkeyed call, and after any end before the
\* checkout, nothing was charged and nothing can be (error_mapper.py:47-88).
THEOREM RefusalCorrect == Spec => []RefusalIsFinal
  <1>1. IInv => RefusalIsFinal
    BY DEF IInv
  <1> QED BY <1>1, InvAlways, PTL

(***************************************************************************)
(* What a caller is advised.  Only an action that ends a call gives it a   *)
(* result, and only the provider an answer.                                *)
(***************************************************************************)
LEMMA EndComes ==
    ASSUME TypeOK, [Next]_vars, NEW d \in Calls, result'[d] # result[d]
    PROVE  Ends(d)
  <1>1. ASSUME NEW c \in Calls, Ends(c), c # d
        PROVE  FALSE
    BY <1>1, EndsQuit DEF Quits, End, TypeOK
  <1>2. ~(\E c \in Calls : MarkStart(c) \/ Authenticated(c) \/ SendCart(c) \/ CartOpened(c)
                             \/ SendCheckout(c) \/ Continue(c))
    BY DEF MarkStart, Authenticated, SendCart, CartOpened, SendCheckout, Continue, callVars
  <1>3. ~(\E m \in wire : Serve(m))
    BY DEF Serve, ServeUser, ServeFailure, ServeCart, ServeCartReplay, ServeCheckout,
           ServeCheckoutReplay, ServeCheckoutFromCart, ServeNoFunds, callVars
  <1>4. ~(UNCHANGED vars)
    BY DEF vars, callVars
  <1> QED BY <1>1, <1>2, <1>3, <1>4 DEF Next, Start, Step, Ends

\* A network error that leaves request(), and an answer without a link, are not
\* labelled retryable.
LabelInv ==
    \A c \in Calls :
        result[c].kind = "error" /\ result[c].code \in {"NETWORK_TIMEOUT", "CONTENT_INVALID"} =>
            ~result[c].retryable

LEMMA LabelStep ==
    ASSUME TypeOK, LabelInv, [Next]_vars
    PROVE  LabelInv'
  <1> SUFFICES ASSUME NEW d \in Calls, result'[d] # result[d], result'[d].kind = "error",
                      result'[d].code \in {"NETWORK_TIMEOUT", "CONTENT_INVALID"}
               PROVE  ~result'[d].retryable
    BY DEF LabelInv
  <1>0. Ends(d) /\ result \in [Calls -> Results]
    BY EndComes DEF TypeOK
  <1>1. CASE NetworkFailed(d)
    <2>1. PICK e \in {<<"NETWORK_TIMEOUT", 408>>, <<"NETWORK_UNAVAILABLE", 503>>} :
             End(d, Error(stage[d], e[1], e[2], RaisedRetryable(d)))
      BY <1>1 DEF NetworkFailed
    <2>2. ~RaisedRetryable(d)
      BY <1>1 DEF NetworkFailed, HttpRaise, RaisedRetryable
    <2> QED BY <1>0, <2>1, <2>2 DEF End, Error
  <1>2. CASE AnswerFailed(d)
    <2>1. reply[d].status \in Nat
      BY <1>2, ReplyTypes DEF AnswerFailed, HttpReturn, TypeOK
    <2> QED BY <1>0, <1>2, <2>1, MapErrorCodeType DEF AnswerFailed, End, AnswerError, Error
  <1>3. CASE CheckedOut(d) \/ Abandon(d)
    BY <1>0, <1>3 DEF CheckedOut, Abandon, End, Marked, Cancelled
  <1>4. CASE AuthRejected(d)
    BY <1>0, <1>4 DEF AuthRejected, End, Error
  <1>5. CASE \/ MarkWithoutCredentials(d) \/ MarkStartRefused(d) \/ AuthenticatedWithoutToken(d)
             \/ CartWithoutId(d) \/ CheckedOutWithoutLink(d)
    BY <1>0, <1>5
    DEF MarkWithoutCredentials, MarkStartRefused, AuthenticatedWithoutToken, CartWithoutId,
        CheckedOutWithoutLink, End, Error
  <1> QED BY <1>0, <1>1, <1>2, <1>3, <1>4, <1>5 DEF Ends

\* An unkeyed error labelled retryable never hides a charge unless a 5xx answered
\* the checkout (http_client.py:110-136).
THEOREM RetryAdviceCorrect == Spec => []RetryAdviceIsHonest
  <1>1. Init => LabelInv
    BY DEF Init, LabelInv, NoResult
  <1>2. IInv /\ LabelInv /\ [Next]_vars => LabelInv'
    BY LabelStep DEF IInv
  <1>3. IInv /\ LabelInv => RetryAdviceIsHonest
    <2> SUFFICES ASSUME IInv, LabelInv, NEW c \in Calls,
                        result[c].kind = "error", ~Keyed(c), result[c].retryable, ChargesOf(c) # {}
                 PROVE  result[c].status >= 500
      BY DEF RetryAdviceIsHonest
    <2>1. ~Definite(result[c])
      BY DEF IInv, RefusalIsFinal
    <2>2. result[c].code \notin {"NETWORK_TIMEOUT", "CONTENT_INVALID"}
      BY DEF LabelInv
    <2>3. result[c].status \in Nat
      BY DEF IInv, TypeOK, Results, NoResult
    <2> QED BY <2>1, <2>2, <2>3 DEF Definite
  <1> QED BY <1>1, <1>2, <1>3, InvAlways, PTL DEF Spec

(***************************************************************************)
(* Money only goes, and only by a checkout that the wallet can pay.        *)
(***************************************************************************)
LEMMA MoneyGoes ==
    ASSUME TypeOK, [Next]_vars
    PROVE  \/ UNCHANGED <<ledger, wallet>>
           \/ \E m \in wire : ServeCheckout(m)
  <1>1. ASSUME NEW c \in Calls, Ends(c)
        PROVE  UNCHANGED <<ledger, wallet>>
    BY <1>1, EndsQuit DEF Quits, providerVars
  <1>2. ASSUME NEW c \in Calls,
               MarkStart(c) \/ Authenticated(c) \/ SendCart(c) \/ CartOpened(c)
                 \/ SendCheckout(c) \/ Continue(c)
        PROVE  UNCHANGED <<ledger, wallet>>
    BY <1>2 DEF MarkStart, Authenticated, SendCart, CartOpened, SendCheckout, Continue, providerVars
  <1>3. ASSUME NEW m \in wire, Serve(m)
        PROVE  UNCHANGED <<ledger, wallet>> \/ ServeCheckout(m)
    BY <1>3 DEF Serve, ServeUser, ServeFailure, ServeCart, ServeCartReplay,
                ServeCheckoutReplay, ServeCheckoutFromCart, ServeNoFunds, providerVars
  <1>4. CASE UNCHANGED vars
    BY <1>4 DEF vars, providerVars
  <1> QED BY <1>1, <1>2, <1>3, <1>4 DEF Next, Start, Step, Ends

\* The wallet cannot pay for d, and neither d nor its key has been charged.
Broke(d) ==
    /\ wallet < Total[d]
    /\ \A l \in ledger : l.call # d /\ (Keyed(d) => l.key # KeyOf[d])

\* The answer d has says that the wallet is empty.
ToldBroke(d) ==
    reply[d] # NoReply /\ MapErrorCode(reply[d].vendor, reply[d].status) = "WALLET_INSUFFICIENT"

FundsAt(d) ==
    /\ Keyed(d) => KeyScope = "endpoint"
    /\ \/ ToldBroke(d)
       \/ result[d].kind = "error" /\ result[d].code = "WALLET_INSUFFICIENT"
    => Broke(d)

FundsInv == \A c \in Calls : FundsAt(c)

\* No other failure speaks of the wallet.
WalletNamed == \A f \in Failures : ~SaysWallet(f[2])

LEMMA CheckoutOnWire ==
    ASSUME TypeOK, WireInv, NEW m \in wire, m.request.ep = "checkout"
    PROVE  m.call \in Calls /\ m.request.key = KeyOf[m.call] /\ WasSent(m.call, m.attempt)
  <1>1. m.request = CheckoutRequest(m.call) /\ WasSent(m.call, m.attempt)
    BY DEF WireInv
  <1>2. m.call \in Calls
    BY DEF TypeOK, Messages
  <1> QED BY <1>1, <1>2 DEF CheckoutRequest

LEMMA BrokeStays ==
    ASSUME TypeOK, WireInv, [Next]_vars, NEW d \in Calls, Broke(d)
    PROVE  Broke(d)'
  <1>1. CASE UNCHANGED <<ledger, wallet>>
    BY <1>1 DEF Broke
  <1>2. CASE \E m \in wire : ServeCheckout(m)
    <2>1. PICK m \in wire : ServeCheckout(m)
      BY <1>2
    <2>2. /\ m.call \in Calls /\ m.request.key = KeyOf[m.call]
          /\ wallet >= Total[m.call] /\ wallet' = wallet - Total[m.call]
          /\ ledger' = ledger \union {ChargeOf(m)}
      BY <2>1, CheckoutOnWire DEF ServeCheckout
    <2>3. Total[m.call] \in Nat /\ Total[d] \in Nat /\ wallet \in Nat
      BY <2>2, CallsAssumption DEF TypeOK
    <2>4. wallet' < Total[d]
      BY <2>2, <2>3 DEF Broke
    <2>5. Total[m.call] # Total[d]
      BY <2>2, <2>3 DEF Broke
    <2>6. m.call # d /\ (Keyed(d) => KeyOf[m.call] # KeyOf[d])
      BY <2>2, <2>5, KeyAssumption DEF Keyed
    <2>7. \A l \in ledger' : l.call # d /\ (Keyed(d) => l.key # KeyOf[d])
      BY <2>2, <2>6 DEF Broke, ChargeOf
    <2> QED BY <2>4, <2>7 DEF Broke, Keyed
  <1> QED BY <1>1, <1>2, MoneyGoes

(***************************************************************************)
(* An empty wallet is the provider's answer to an attempt that it has not  *)
(* charged: for an unkeyed call the only one, for a key the first.         *)
(***************************************************************************)
LEMMA NoFundsBroke ==
    ASSUME TypeOK, WireInv, LedgerInv, ChargedOffWire, NEW m \in wire, ServeNoFunds(m),
           Keyed(m.call) => KeyScope = "endpoint"
    PROVE  Broke(m.call)'
  <1>1. /\ m.call \in Calls /\ m.request.key = KeyOf[m.call] /\ m.request.ep = "checkout"
        /\ WasSent(m.call, m.attempt)
    BY CheckoutOnWire DEF ServeNoFunds
  <1>2. UNCHANGED <<ledger, wallet>> /\ wallet < Total[m.call]
    BY DEF ServeNoFunds, providerVars
  <1>3. CASE Keyed(m.call)
    <2>1. \A l \in ledger : l.key # KeyOf[m.call]
      BY <1>1, <1>3 DEF ServeNoFunds, Replays, ChargedFor, Keyed
    <2>2. \A l \in ledger : l.call # m.call
      BY <2>1 DEF LedgerInv
    <2> QED BY <1>2, <2>1, <2>2 DEF Broke
  <1>4. CASE ~Keyed(m.call)
    <2>1. \A l \in ledger : l.call # m.call
      BY <1>1, <1>4 DEF LedgerInv, ChargedOffWire, WasSent
    <2> QED BY <1>2, <1>4, <2>1 DEF Broke, Keyed
  <1> QED BY <1>3, <1>4

LEMMA ToldComes ==
    ASSUME TypeOK, WalletNamed, [Next]_vars, NEW d \in Calls, ToldBroke(d)', reply'[d] # reply[d]
    PROVE  \E m \in wire : ServeNoFunds(m) /\ m.call = d
  <1>0. reply \in [Calls -> Replies \union {NoReply}] /\ reply'[d] # NoReply
    BY DEF TypeOK, ToldBroke
  <1>1. ~(\E c \in Calls : Ends(c))
    BY <1>0, EndsQuit DEF Quits, Leave, httpVars
  <1>2. ~(\E c \in Calls : MarkStart(c) \/ Authenticated(c) \/ SendCart(c) \/ CartOpened(c)
                             \/ SendCheckout(c) \/ Continue(c))
    BY <1>0 DEF MarkStart, Authenticated, SendCart, CartOpened, SendCheckout, Continue,
                HttpSend, HttpReturn, Leave, HttpRetryAnswer, HttpRetryError, HttpResend
  <1>3. ~(UNCHANGED vars)
    BY DEF vars, httpVars
  <1>4. PICK m \in wire : Serve(m)
    BY <1>1, <1>2, <1>3 DEF Next, Start, Step, Ends
  <1>5. ASSUME NEW r, Answer(m, r)
        PROVE  m.call = d /\ reply'[d] = r
    BY <1>0, <1>5 DEF Answer
  <1>6. \A r : Answer(m, r) => SaysWallet(r.vendor) /\ r.vendor # NoVendorCode
    <2> SUFFICES ASSUME NEW r, Answer(m, r)
                 PROVE  SaysWallet(r.vendor) /\ r.vendor # NoVendorCode
      OBVIOUS
    <2>1. MapErrorCode(r.vendor, r.status) = "WALLET_INSUFFICIENT"
      BY <1>5 DEF ToldBroke
    <2> QED BY <2>1 DEF MapErrorCode, CodeOfStatus
  <1>7. \A f \in Failures : ~Answer(m, Failure(f))
    BY <1>6 DEF WalletNamed, Failure
  <1>8. \A id : ~Answer(m, Success(id)) /\ ~Answer(m, Partial(id))
    BY <1>6 DEF Success, Partial
  <1>9. ServeNoFunds(m)
    BY <1>4, <1>7, <1>8 DEF Serve, ServeUser, ServeFailure, ServeCart, ServeCartReplay, ServeCheckout,
                            ServeCheckoutReplay, ServeCheckoutFromCart, FailureReplies
  <1> QED BY <1>5, <1>9 DEF ServeNoFunds

LEMMA BrokeResult ==
    ASSUME TypeOK, [Next]_vars, NEW d \in Calls, result'[d] # result[d],
           result'[d].kind = "error", result'[d].code = "WALLET_INSUFFICIENT"
    PROVE  ToldBroke(d)
  <1>0. Ends(d) /\ result \in [Calls -> Results]
    BY EndComes DEF TypeOK
  <1>1. CASE NetworkFailed(d)
    <2>1. PICK e \in {<<"NETWORK_TIMEOUT", 408>>, <<"NETWORK_UNAVAILABLE", 503>>} :
             End(d, Error(stage[d], e[1], e[2], RaisedRetryable(d)))
      BY <1>1 DEF NetworkFailed
    <2> QED BY <1>0, <2>1 DEF End, Error
  <1>2. CASE AnswerFailed(d)
    BY <1>0, <1>2 DEF AnswerFailed, HttpReturn, End, AnswerError, Error, ToldBroke
  <1>3. CASE CheckedOut(d) \/ Abandon(d)
    BY <1>0, <1>3 DEF CheckedOut, Abandon, End, Marked, Cancelled
  <1>4. CASE AuthRejected(d)
    BY <1>0, <1>4 DEF AuthRejected, End, Error
  <1>5. CASE \/ MarkWithoutCredentials(d) \/ MarkStartRefused(d) \/ AuthenticatedWithoutToken(d)
             \/ CartWithoutId(d) \/ CheckedOutWithoutLink(d)
    BY <1>0, <1>5
    DEF MarkWithoutCredentials, MarkStartRefused, AuthenticatedWithoutToken, CartWithoutId,
        CheckedOutWithoutLink, End, Error
  <1> QED BY <1>0, <1>1, <1>2, <1>3, <1>4, <1>5 DEF Ends

LEMMA FundsStep ==
    ASSUME TypeOK, WireInv, LedgerInv, ChargedOffWire, WalletNamed, FundsInv, [Next]_vars
    PROVE  FundsInv'
  <1> SUFFICES ASSUME NEW d \in Calls, Keyed(d) => KeyScope = "endpoint",
                      \/ ToldBroke(d)'
                      \/ result'[d].kind = "error" /\ result'[d].code = "WALLET_INSUFFICIENT"
               PROVE  Broke(d)'
    BY DEF FundsInv, FundsAt, Keyed
  <1>1. CASE Broke(d)
    BY <1>1, BrokeStays
  <1>2. CASE ~Broke(d)
    <2>1. ~ToldBroke(d) /\ ~(result[d].kind = "error" /\ result[d].code = "WALLET_INSUFFICIENT")
      BY <1>2 DEF FundsInv, FundsAt
    <2>2. ToldBroke(d)' /\ reply'[d] # reply[d]
      BY <2>1, BrokeResult DEF ToldBroke
    <2>3. PICK m \in wire : ServeNoFunds(m) /\ m.call = d
      BY <2>2, ToldComes
    <2> QED BY <2>3, NoFundsBroke
  <1> QED BY <1>1, <1>2

\* If no failure but the wallet's own speaks of the wallet, an empty wallet is never
\* the answer to a call whose purchase is paid (error_mapper.py:47-88).
THEOREM NoFundsCorrect ==
    ASSUME WalletNamed
    PROVE  Spec => []NoFundsMeansUnpaid
  <1>1. Init => FundsInv
    BY DEF Init, HttpInit, FundsInv, FundsAt, ToldBroke, NoResult
  <1>2. IInv /\ FundsInv /\ [Next]_vars => FundsInv'
    BY FundsStep DEF IInv
  <1>3. FundsInv => NoFundsMeansUnpaid
    BY DEF FundsInv, FundsAt, Broke, NoFundsMeansUnpaid
  <1> QED BY <1>1, <1>2, <1>3, InvAlways, PTL DEF Spec

(***************************************************************************)
(* The calls keep the promise of Purchase.                                 *)
(***************************************************************************)
Promised == Nobody \notin Calls /\ \A c \in Calls : Keyed(c) => KeyScope = "endpoint"

States == [c \in Calls |-> StateOf(c)]
Payers == [o \in {OrderOf[c] : c \in Calls} |-> PayerOf(o)]

Paid(c) == \E l \in ledger : OrderOf[l.call] = OrderOf[c]

\* What a mark is for is paid, and so is what an answer with a link is for.
PaidInv ==
    \A c \in Calls :
        \/ stage[c] = "checkout" /\ reply[c] # NoReply /\ Ok(reply[c].status) /\ reply[c].full
        \/ result[c].kind = "mark"
        => Paid(c)

LEMMA SameOrder ==
    ASSUME NEW c \in Calls, NEW d \in Calls
    PROVE  OrderOf[c] = OrderOf[d] <=> c = d \/ (Keyed(c) /\ KeyOf[c] = KeyOf[d])
  <1>1. OrderOf[c] = (IF Keyed(c) THEN <<"key", KeyOf[c]>> ELSE <<"call", c>>)
    BY DEF OrderOf
  <1>2. OrderOf[d] = (IF Keyed(d) THEN <<"key", KeyOf[d]>> ELSE <<"call", d>>)
    BY DEF OrderOf
  <1>3. CASE Keyed(c) /\ Keyed(d)
    BY <1>1, <1>2, <1>3 DEF Keyed
  <1>4. CASE Keyed(c) /\ ~Keyed(d)
    BY <1>1, <1>2, <1>4 DEF Keyed
  <1>5. CASE ~Keyed(c) /\ Keyed(d)
    BY <1>1, <1>2, <1>5 DEF Keyed
  <1>6. CASE ~Keyed(c) /\ ~Keyed(d)
    BY <1>1, <1>2, <1>6
  <1> QED BY <1>3, <1>4, <1>5, <1>6

LEMMA PaidStays ==
    ASSUME TypeOK, [Next]_vars, NEW d \in Calls, Paid(d)
    PROVE  Paid(d)'
  BY LedgerStays DEF Paid, OrderOf, Keyed

(***************************************************************************)
(* A link comes with a charge for the order, or with an earlier one of the *)
(* key.                                                                    *)
(***************************************************************************)
LEMMA LinkIsPaid ==
    ASSUME TypeOK, WireInv, LedgerInv, NEW m \in wire, m.request.ep = "checkout",
           NEW r \in Replies, Serves(m, r), Ok(r.status), r.full
    PROVE  Paid(m.call)'
  <1>1. m.call \in Calls /\ m.request.key = KeyOf[m.call]
    BY CheckoutOnWire
  <1>2. CASE \E l \in ledger : l.key = m.request.key /\ l.key # NoKey /\ ledger' = ledger
    <2>1. PICK l \in ledger : l.key = m.request.key /\ l.key # NoKey /\ ledger' = ledger
      BY <1>2
    <2>2. l.call \in Calls /\ l.key = KeyOf[l.call]
      BY DEF LedgerInv, TypeOK, Charges
    <2>3. OrderOf[l.call] = OrderOf[m.call]
      BY <1>1, <2>1, <2>2, SameOrder DEF Keyed
    <2> QED BY <2>1, <2>3 DEF Paid, OrderOf, Keyed
  <1>3. CASE ledger' = ledger \union {ChargeOf(m)}
    <2>1. ChargeOf(m) \in ledger' /\ ChargeOf(m).call = m.call
      BY <1>3 DEF ChargeOf
    <2> QED BY <2>1 DEF Paid, OrderOf, Keyed
  <1> QED BY <1>2, <1>3 DEF Serves

LEMMA PaidStep ==
    ASSUME IInv, PaidInv, [Next]_vars
    PROVE  PaidInv'
  <1> USE DEF IInv
  <1> SUFFICES ASSUME NEW d \in Calls, ~Paid(d),
                      \/ stage'[d] = "checkout" /\ reply'[d] # NoReply /\ Ok(reply'[d].status) /\ reply'[d].full
                      \/ result'[d].kind = "mark"
               PROVE  Paid(d)'
    BY PaidStays DEF PaidInv
  <1>0. /\ result[d].kind # "mark"
        /\ ~(stage[d] = "checkout" /\ reply[d] # NoReply /\ Ok(reply[d].status) /\ reply[d].full)
    BY DEF PaidInv
  <1>1. ASSUME NEW c \in Calls, Quits(c)
        PROVE  FALSE
    <2>1. CASE c = d
      BY <1>0, <1>1, <2>1 DEF Quits, End, Founded, TypeOK
    <2>2. CASE c # d
      BY <1>0, <1>1, <2>2 DEF Quits, End, Leave, httpVars, TypeOK
    <2> QED BY <2>1, <2>2
  <1>2. ASSUME NEW c \in Calls, Advances(c)
        PROVE  FALSE
    BY <1>0, <1>2 DEF Advances, Leave, TypeOK
  <1>3. ASSUME NEW c \in Calls, Sends(c)
        PROVE  FALSE
    BY <1>0, <1>3 DEF Sends, HttpSend, TypeOK
  <1>4. ASSUME NEW c \in Calls, Continue(c)
        PROVE  FALSE
    BY <1>0, <1>4 DEF Continue, HttpRetryAnswer, HttpRetryError, HttpResend, callVars, TypeOK
  <1>5. ASSUME NEW m \in wire, NEW r \in Replies, Serves(m, r)
        PROVE  Paid(d)'
    <2>1. stage[d] = "checkout" /\ reply'[d] # reply[d] /\ Ok(reply'[d].status) /\ reply'[d].full
      BY <1>0, <1>5 DEF Serves, callVars
    <2>2. /\ m.call = d /\ phase[d] = "sent" /\ pending[d] = m.request
          /\ reply'[d] = r
      BY <1>5, <2>1 DEF Serves, Answer, TypeOK
    <2>3. m.request.ep = "checkout"
      <3>1. pending[d] = RequestOf(d)
        BY <2>2 DEF TransportInv, TransportAt
      <3> QED BY <2>1, <2>2, <3>1 DEF RequestOf, CheckoutRequest
    <2> QED BY <1>5, <2>1, <2>2, <2>3, LinkIsPaid
  <1>6. CASE UNCHANGED vars
    BY <1>0, <1>6 DEF vars, httpVars, callVars
  <1> QED BY <1>1, <1>2, <1>3, <1>4, <1>5, <1>6, StepKinds

(***************************************************************************)
(* How a step changes what the abstract specification sees.                *)
(***************************************************************************)
LEMMA PayersStay == ASSUME UNCHANGED ledger PROVE UNCHANGED Payers
  BY DEF Payers, PayerOf, OrderOf, Keyed

LEMMA StatesStay == ASSUME UNCHANGED <<stage, result>> PROVE UNCHANGED States
  BY DEF States, StateOf, EndOf, Keyed, Definite

LEMMA OneState ==
    ASSUME NEW c \in Calls,
           \A d \in Calls \ {c} : stage'[d] = stage[d] /\ result'[d] = result[d]
    PROVE  States' = [States EXCEPT ![c] = StateOf(c)']
  <1>1. ASSUME NEW d \in Calls \ {c}
        PROVE  StateOf(d)' = StateOf(d)
    BY <1>1 DEF StateOf, EndOf, Keyed, Definite
  <1> QED BY <1>1 DEF States

LEMMA PayerIsACall ==
    ASSUME TypeOK, Promised, NEW c \in Calls
    PROVE  /\ Paid(c) => PayerOf(OrderOf[c]) # Nobody
           /\ ~Paid(c) => PayerOf(OrderOf[c]) = Nobody
           /\ ChargesOf(c) = {} => PayerOf(OrderOf[c]) # c
  <1>1. CASE Paid(c)
    <2> DEFINE l == CHOOSE l \in ledger : OrderOf[l.call] = OrderOf[c]
    <2>1. l \in ledger
      BY <1>1 DEF Paid
    <2>2. PayerOf(OrderOf[c]) = l.call
      BY <1>1 DEF Paid, PayerOf
    <2>3. l.call \in Calls
      BY <2>1 DEF TypeOK, Charges
    <2>4. ChargesOf(c) = {} => l.call # c
      BY <2>1 DEF ChargesOf
    <2> QED BY <1>1, <2>2, <2>3, <2>4 DEF Promised
  <1>2. CASE ~Paid(c)
    BY <1>2 DEF Paid, PayerOf, Promised
  <1> QED BY <1>1, <1>2

\* A charge pays an order that was not paid, and no other.
LEMMA ChargePays ==
    ASSUME TypeOK, WireInv, LedgerInv, ChargedOffWire, Promised,
           NEW m \in wire, m.request.ep = "checkout", ledger' = ledger \union {ChargeOf(m)},
           KeyScope = "endpoint" /\ m.request.key # NoKey => \A l \in ledger : l.key # m.request.key
    PROVE  /\ ~Paid(m.call)
           /\ Payers' = [Payers EXCEPT ![OrderOf[m.call]] = m.call]
  <1>1. m.call \in Calls /\ m.request.key = KeyOf[m.call] /\ WasSent(m.call, m.attempt)
    BY CheckoutOnWire
  <1>2. ASSUME NEW l \in ledger
        PROVE  OrderOf[l.call] # OrderOf[m.call]
    <2>1. l.call \in Calls /\ l.key = KeyOf[l.call] /\ WasSent(l.call, l.attempt)
      BY DEF LedgerInv, TypeOK, Charges
    <2>2. CASE Keyed(m.call)
      BY <1>1, <2>1, <2>2, SameOrder DEF Keyed, Promised
    <2>3. CASE ~Keyed(m.call)
      <3>1. l.call # m.call
        BY <1>1, <2>1, <2>3 DEF WasSent, ChargedOffWire
      <3> QED BY <1>1, <2>1, <2>3, <3>1, SameOrder DEF Keyed
    <2> QED BY <2>2, <2>3
  <1>3. ChargeOf(m).call = m.call
    BY DEF ChargeOf
  <1>4. \A l \in ledger' : OrderOf[l.call] = OrderOf[m.call] => l = ChargeOf(m)
    BY <1>2
  <1>5. PayerOf(OrderOf[m.call])' = m.call
    <2> DEFINE l == CHOOSE l \in ledger' : OrderOf[l.call] = OrderOf[m.call]
    <2>1. ChargeOf(m) \in ledger' /\ OrderOf[ChargeOf(m).call] = OrderOf[m.call]
      BY <1>3
    <2>2. l \in ledger' /\ OrderOf[l.call] = OrderOf[m.call]
      BY <2>1
    <2>3. l = ChargeOf(m)
      BY <1>4, <2>2
    <2>4. PayerOf(OrderOf[m.call])' = l.call
      BY <2>1 DEF PayerOf, OrderOf, Keyed
    <2> QED BY <1>3, <2>3, <2>4
  <1>6. ASSUME NEW o \in {OrderOf[c] : c \in Calls}, o # OrderOf[m.call]
        PROVE  PayerOf(o)' = PayerOf(o)
    <2>1. \A l : l \in ledger' /\ OrderOf[l.call] = o <=> l \in ledger /\ OrderOf[l.call] = o
      BY <1>3, <1>6
    <2>2. (CHOOSE l \in ledger' : OrderOf[l.call] = o) = (CHOOSE l \in ledger : OrderOf[l.call] = o)
      BY <2>1
    <2> QED BY <2>1, <2>2 DEF PayerOf, OrderOf, Keyed
  <1>7. Payers' = [o \in {OrderOf[c] : c \in Calls} |-> IF o = OrderOf[m.call] THEN m.call ELSE PayerOf(o)]
    BY <1>5, <1>6 DEF Payers, OrderOf, Keyed
  <1> QED BY <1>2, <1>7 DEF Paid, Payers

(***************************************************************************)
(* Every step is one of Purchase, or none.                                 *)
(***************************************************************************)
LEMMA QuitKeeps ==
    ASSUME IInv, IInv', PaidInv, Promised, NEW c \in Calls, Quits(c)
    PROVE  P!Next
  <1>1. /\ States' = [States EXCEPT ![c] = StateOf(c)']
        /\ UNCHANGED Payers
        /\ UNCHANGED ledger
    BY OneState, PayersStay DEF Quits, End, providerVars, IInv, TypeOK
  <1>2. StateOf(c)' = EndOf(c)' /\ result'[c].kind # "none"
    BY DEF Quits, End, StateOf, Outcomes, IInv, TypeOK
  <1>3. States[c] \in {"idle", "open"} /\ (stage[c] # "idle" => States[c] = "open")
    BY DEF Quits, States, StateOf, IInv, TypeOK
  <1>4. Payers[OrderOf[c]] = PayerOf(OrderOf[c])
    BY DEF Payers
  <1>5. CASE result'[c].kind = "mark"
    <2>1. stage[c] = "checkout" /\ Paid(c)
      BY <1>5 DEF Quits, End, Founded, PaidInv, IInv, TypeOK
    <2>2. PayerOf(OrderOf[c]) # Nobody /\ StateOf(c)' = "marked" /\ States[c] = "open"
      BY <1>2, <1>3, <1>5, <2>1, PayerIsACall DEF EndOf, IInv
    <2> QED BY <1>1, <1>4, <2>2 DEF P!Next, P!Mark, States, Payers
  <1>6. CASE EndOf(c)' = "refused"
    <2>1. ChargesOf(c) = {}
      <3>1. result'[c].kind \in {"error", "cancelled"}
        <4>1. result'[c] \in Results
          BY DEF IInv, TypeOK
        <4>2. result'[c].kind # "mark"
          BY <1>6 DEF EndOf
        <4> QED BY <1>2, <4>1, <4>2 DEF Results, NoResult
      <3>2. ChargesOf(c)' = {}
        BY <1>6, <3>1 DEF EndOf, IInv, RefusalIsFinal, Keyed
      <3> QED BY <1>1, <3>2 DEF ChargesOf
    <2>2. PayerOf(OrderOf[c]) # c
      BY <2>1, PayerIsACall DEF IInv
    <2> QED BY <1>1, <1>2, <1>3, <1>4, <1>6, <2>2 DEF P!Next, P!Refuse, States, Payers
  <1>7. CASE EndOf(c)' = "doubtful"
    <2>1. stage[c] # "idle"
      BY <1>7 DEF Quits, End, EndOf, IInv, TypeOK
    <2> QED BY <1>1, <1>2, <1>3, <1>7, <2>1 DEF P!Next, P!Doubt, States, Payers
  <1> QED BY <1>5, <1>6, <1>7 DEF EndOf

LEMMA ChargeKeeps ==
    ASSUME IInv, PaidInv, Promised, NEW m \in wire, NEW r \in Replies, Serves(m, r), ledger' # ledger
    PROVE  P!Next
  <1>1. /\ ~Paid(m.call)
        /\ Payers' = [Payers EXCEPT ![OrderOf[m.call]] = m.call]
        /\ m.request.ep = "checkout"
    BY ChargePays DEF Serves, IInv
  <1>2. UNCHANGED States
    BY StatesStay DEF Serves, callVars
  <1>3. m.call \in Calls /\ WasSent(m.call, m.attempt)
    BY <1>1, CheckoutOnWire DEF IInv
  <1>4. PayerOf(OrderOf[m.call]) = Nobody
    BY <1>1, <1>3, PayerIsACall DEF IInv
  <1>5. StateOf(m.call) \in {"open", "doubtful"}
    <2>1. CASE stage[m.call] = "checkout"
      BY <2>1 DEF StateOf
    <2>2. CASE stage[m.call] = "done"
      <3>1. result[m.call].kind # "mark"
        BY <1>1, <1>3 DEF PaidInv
      <3>2. result[m.call].kind \in {"error", "cancelled"} /\ result[m.call].at = "checkout"
        BY <1>3, <2>2, <3>1 DEF WasSent
      <3>3. m \in CheckoutsOf(m.call)
        BY <1>1 DEF CheckoutsOf
      <3>4. ~(~Keyed(m.call) /\ Definite(result[m.call]))
        BY <1>3, <3>2, <3>3 DEF IInv, RefusalIsFinal
      <3> QED BY <2>2, <3>1, <3>2, <3>4 DEF StateOf, EndOf
    <2> QED BY <1>3, <2>1, <2>2 DEF WasSent
  <1> QED BY <1>1, <1>2, <1>3, <1>4, <1>5 DEF P!Next, P!Pay, States, Payers

LEMMA StepKept ==
    ASSUME IInv, IInv', PaidInv, Promised, [Next]_vars
    PROVE  P!Next \/ UNCHANGED <<States, Payers>>
  <1>1. ASSUME NEW c \in Calls, Quits(c)
        PROVE  P!Next
    BY <1>1, QuitKeeps
  <1>2. ASSUME NEW c \in Calls, Advances(c)
        PROVE  UNCHANGED <<States, Payers>>
    <2>1. UNCHANGED Payers
      BY <1>2, PayersStay DEF Advances, providerVars
    <2>2. States' = [States EXCEPT ![c] = StateOf(c)']
      BY <1>2, OneState DEF Advances, IInv, TypeOK
    <2>3. StateOf(c)' = StateOf(c)
      BY <1>2 DEF Advances, StateOf, IInv, TypeOK
    <2> QED BY <2>1, <2>2, <2>3 DEF States
  <1>3. ASSUME NEW c \in Calls, Sends(c)
        PROVE  P!Next \/ UNCHANGED <<States, Payers>>
    <2>1. UNCHANGED Payers
      BY <1>3, PayersStay DEF Sends, providerVars
    <2>2. CASE stage[c] = "idle"
      <3>1. States' = [States EXCEPT ![c] = StateOf(c)']
        BY <1>3, <2>2, OneState DEF Sends, IInv, TypeOK
      <3>2. StateOf(c)' = "open" /\ States[c] = "idle"
        BY <1>3, <2>2 DEF Sends, StateOf, States, IInv, TypeOK
      <3> QED BY <2>1, <3>1, <3>2 DEF P!Next, P!Begin, States, Payers
    <2>3. CASE stage[c] # "idle"
      BY <1>3, <2>1, <2>3, StatesStay DEF Sends
    <2> QED BY <2>2, <2>3
  <1>4. ASSUME NEW c \in Calls, Continue(c)
        PROVE  UNCHANGED <<States, Payers>>
    BY <1>4, StatesStay, PayersStay DEF Continue, callVars, providerVars
  <1>5. ASSUME NEW m \in wire, NEW r \in Replies, Serves(m, r)
        PROVE  P!Next \/ UNCHANGED <<States, Payers>>
    <2>1. CASE ledger' = ledger
      BY <1>5, <2>1, StatesStay, PayersStay DEF Serves, callVars
    <2> QED BY <1>5, <2>1, ChargeKeeps
  <1>6. CASE UNCHANGED vars
    BY <1>6, StatesStay, PayersStay DEF vars, callVars, providerVars
  <1> QED
    <2>1. TypeOK
      BY DEF IInv
    <2> QED BY <1>1, <1>2, <1>3, <1>4, <1>5, <1>6, <2>1, StepKinds

\* The calls implement Purchase: one payment per order, marks for paid orders
\* only, final refusals, for every provider that honours the keys it is sent.
THEOREM PurchaseCorrect ==
    ASSUME Promised
    PROVE  Spec => PurchaseKept
  <1>1. Init => PaidInv
    BY DEF Init, PaidInv, NoResult
  <1>2. IInv /\ PaidInv /\ [Next]_vars => PaidInv'
    BY PaidStep
  <1>3. Init => P!Init
    BY DEF Init, P!Init, P!Orders, StateOf, PayerOf
  <1>4. IInv /\ IInv' /\ PaidInv /\ [Next]_vars => [P!Next]_P!vars
    BY StepKept DEF P!vars, States, Payers
  <1> QED BY <1>1, <1>2, <1>3, <1>4, InvAlways, PTL DEF Spec, PurchaseKept, P!Spec
=============================================================================
