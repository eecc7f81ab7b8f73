--------------------------- MODULE PortoExecution ---------------------------
(***************************************************************************)
(* PortoExecution.mark through the ProviderClients of a PortoClient: one   *)
(* request, or a list.  A list is prepared as a whole; then an adapter     *)
(* with mark_many orders it at once, and for any other the items are       *)
(* ordered one after the other, each of them before the next is looked at. *)
(*                                                                         *)
(* An order ends as Purchase has it, which is what the calls of            *)
(* Internetmarke implement: accepted and paid, refused and unpaid, or in   *)
(* doubt.  What the answer to an accepted order contains may be lacking.   *)
(***************************************************************************)
EXTENDS PortoClient, FiniteSetsExt, SequencesExt

CONSTANTS
    Tasks,       \* calls of mark(), each of them a task
    Asks,        \* what a call may ask for: [many, items]
    Executions,  \* its ExecutionParameters: [key, login, app, mime, pin]
    Aggregates,  \* the providers whose adapter has mark_many
    Executing,   \* the providers with a wire that marks
    NoKey, NoLogin, NoMime, NoOrder

\* fit of a request: "ok", "unprepared" if prepare() refuses its addresses or
\* finds no wire code, "unsold" if the adapter refuses the code or the amount.
Fits == {"ok", "unprepared", "unsold"}

Keys == {NoKey} \union {e.key : e \in Executions} \union UNION {{r.key : r \in ToSet(a.items)} : a \in Asks}

Mimes == {e.mime : e \in Executions} \union UNION {UNION {{r.mime} \union r.allowed : r \in ToSet(a.items)} : a \in Asks}

Requests == [fit : Fits, value : Nat, key : Keys, mime : Mimes, allowed : SUBSET Mimes]

\* What is not a list is one request.
ASSUME AsksAssumption ==
    \A ask \in Asks :
        /\ ask.items \in Seq(Requests)
        /\ ~ask.many => Len(ask.items) = 1

VARIABLES
    stage,   \* "idle", "ready" before an order, "ordering" while it is awaited, "done"
    call,    \* call[t]: [client, many, items, execution]
    next,    \* the first item that has not been ordered
    marks,   \* the marks made so far
    result,  \* how the call ended
    orders,  \* all orders
    trace    \* last_many_trace of the adapter of each ProviderClient

executionVars == <<stage, call, next, marks, result, orders, trace>>
vars == <<clientVars, executionVars>>

\* DEFAULT_MARK_OUTPUT_MIME
DefaultMime == "png"

Items(t) == call[t].items

Client(t) == issued[call[t].client]

AtOnce(t) == call[t].many /\ Client(t).provider \in Aggregates

NoCall == [client |-> 0, many |-> FALSE, items |-> <<>>, execution |-> NoOrder]

Init ==
    /\ ClientInit
    /\ stage = [t \in Tasks |-> "idle"]
    /\ call = [t \in Tasks |-> NoCall]
    /\ next = [t \in Tasks |-> 1]
    /\ marks = [t \in Tasks |-> <<>>]
    /\ result = [t \in Tasks |-> "none"]
    /\ orders = {}
    /\ trace = [i \in 1 .. MaxBound |-> NoOrder]

End(t, how) ==
    /\ stage' = [stage EXCEPT ![t] = "done"]
    /\ result' = [result EXCEPT ![t] = how]
-----------------------------------------------------------------------------
(* The call *)

BugPrepared(i, ask, execution) ==
    /\ ask.items # <<>>
    /\ issued[i].provider \in Executing
    /\ execution.pin
    /\ ask.items[1].fit # "unprepared"

\* The list is not empty, the wire marks, and every item is prepared.
Prepared(i, ask, execution) ==
    /\ ask.items # <<>>
    /\ issued[i].provider \in Executing
    /\ execution.pin
    /\ \A n \in DOMAIN ask.items : ask.items[n].fit # "unprepared"

Call(i, ask, execution) ==
    [client |-> i, many |-> ask.many, items |-> ask.items, execution |-> execution]

Start(t) ==
    /\ stage[t] = "idle"
    /\ \E i \in DOMAIN issued, ask \in Asks, execution \in Executions :
          /\ call' = [call EXCEPT ![t] = Call(i, ask, execution)]
          /\ \/ /\ Prepared(i, ask, execution)
                /\ stage' = [stage EXCEPT ![t] = "ready"]
                /\ UNCHANGED result
             \/ /\ ~Prepared(i, ask, execution)
                /\ End(t, "refused")
    /\ UNCHANGED <<clientVars, next, marks, orders, trace>>

\* The items of the next order.
Batch(t) == IF AtOnce(t) THEN DOMAIN Items(t) ELSE {next[t]}

\* Per-call credentials override those of the wires, but for the keys of the
\* application if it leaves them out.
HasAccount(t) ==
    LET execution == call[t].execution
    IN  IF execution.login = NoLogin
        THEN Client(t).wires # NoWires
        ELSE execution.app \/ Client(t).wires # NoWires

Account(t) ==
    IF call[t].execution.login = NoLogin THEN Client(t).wires ELSE call[t].execution.login

BugKeyOfOrder(t) ==
    LET first == Items(t)[next[t]].key
    IN  IF first # NoKey THEN first ELSE call[t].execution.key

\* The key of an item, or of the execution; a list takes the first it meets.
KeyOfOrder(t) ==
    LET key(n)  == IF Items(t)[n].key # NoKey THEN Items(t)[n].key ELSE call[t].execution.key
        keyed   == {n \in Batch(t) : key(n) # NoKey}
    IN  IF keyed = {} THEN NoKey ELSE key(Min(keyed))

\* validate_output_mime chooses another one, it never refuses.
Output(mime, allowed) ==
    IF mime \in allowed \/ allowed = {} THEN mime
    ELSE IF DefaultMime \in allowed THEN DefaultMime
    ELSE CHOOSE m \in allowed : TRUE

\* A list asks for one kind of document, whatever its items ask for.
Mime(t, n) ==
    LET own == Items(t)[n].mime
    IN  IF AtOnce(t) THEN call[t].execution.mime
        ELSE Output(IF ~call[t].many /\ own # NoMime THEN own ELSE call[t].execution.mime,
                    Items(t)[n].allowed)

BugTotal(t) == Items(t)[next[t]].value

Total(t) == SumFunction([n \in Batch(t) |-> Items(t)[n].value])

Order(t) ==
    [task |-> t, first |-> next[t], key |-> KeyOfOrder(t), account |-> Account(t), total |-> Total(t)]

Sellable(t) ==
    /\ HasAccount(t)
    /\ \A n \in Batch(t) : Items(t)[n].fit = "ok"

\* Everything the adapter checks before it opens a cart.
OrderRefused(t) ==
    /\ stage[t] = "ready"
    /\ ~Sellable(t)
    /\ End(t, "refused")
    /\ UNCHANGED <<clientVars, call, next, marks, orders, trace>>

Send(t) ==
    /\ stage[t] = "ready"
    /\ Sellable(t)
    /\ stage' = [stage EXCEPT ![t] = "ordering"]
    /\ UNCHANGED <<clientVars, call, next, marks, result, orders, trace>>

Settled(t, paid, accepted) ==
    orders \union {[order |-> Order(t), paid |-> paid, accepted |-> accepted]}

Mark(t, n) == [amount |-> Items(t)[n].value, mime |-> Mime(t, n), first |-> next[t]]

Traced(t) ==
    trace' = IF AtOnce(t) THEN [trace EXCEPT ![call[t].client] = Order(t)] ELSE trace

\* Every item of the order gets its mark; the call returns after the last one.
Accepted(t) ==
    /\ stage[t] = "ordering"
    /\ orders' = Settled(t, TRUE, TRUE)
    /\ Traced(t)
    /\ marks' = [marks EXCEPT ![t] = @ \o [k \in 1 .. Cardinality(Batch(t)) |-> Mark(t, next[t] + k - 1)]]
    /\ next' = [next EXCEPT ![t] = Max(Batch(t)) + 1]
    /\ IF next'[t] \in DOMAIN Items(t)
       THEN stage' = [stage EXCEPT ![t] = "ready"] /\ UNCHANGED result
       ELSE End(t, "marks")
    /\ UNCHANGED <<clientVars, call>>

\* An accepted order without a link: no mark can be made of it.
AcceptedWithoutLink(t) ==
    /\ stage[t] = "ordering"
    /\ \E paid \in BOOLEAN : orders' = Settled(t, paid, TRUE)
    /\ Traced(t)
    /\ End(t, "doubt")
    /\ UNCHANGED <<clientVars, call, next, marks>>

BugRefused(t) ==
    /\ stage[t] = "ordering"
    /\ orders' = Settled(t, FALSE, FALSE)
    /\ Traced(t)
    /\ End(t, "refused")
    /\ UNCHANGED <<clientVars, call, next, marks>>

Refused(t) ==
    /\ stage[t] = "ordering"
    /\ orders' = Settled(t, FALSE, FALSE)
    /\ End(t, "refused")
    /\ UNCHANGED <<clientVars, call, next, marks, trace>>

\* An error that leaves the order open, or a task that is cancelled.
Doubtful(t) ==
    /\ stage[t] = "ordering"
    /\ \E paid \in BOOLEAN : orders' = Settled(t, paid, FALSE)
    /\ End(t, "doubt")
    /\ UNCHANGED <<clientVars, call, next, marks, trace>>

Next ==
    \/ ClientNext /\ UNCHANGED executionVars
    \/ \E t \in Tasks :
          \/ Start(t)
          \/ OrderRefused(t)
          \/ Send(t)
          \/ Accepted(t)
          \/ AcceptedWithoutLink(t)
          \/ Refused(t)
          \/ Doubtful(t)

Spec == Init /\ [][Next]_vars
-----------------------------------------------------------------------------
(* Properties *)

PlacedBy(t) == {o \in orders : o.order.task = t}

PaidBy(t) == {o \in PlacedBy(t) : o.paid}

Accounts == Wires \union {e.login : e \in Executions}

Calls ==
    {NoCall} \union [client : 1 .. MaxBound, many : {a.many : a \in Asks}, items : {a.items : a \in Asks},
                     execution : Executions]

Orders == [task : Tasks, first : Nat \ {0}, key : Keys, account : Accounts, total : Nat]

\* Calls, orders, marks and traces have their shape.
TypeOK ==
    /\ ClientTypeOK
    /\ stage \in [Tasks -> {"idle", "ready", "ordering", "done"}]
    /\ call \in [Tasks -> Calls]
    /\ next \in [Tasks -> Nat \ {0}]
    /\ marks \in [Tasks -> Seq([amount : Nat, mime : Mimes, first : Nat])]
    /\ result \in [Tasks -> {"none", "marks", "refused", "doubt"}]
    /\ orders \subseteq [order : Orders, paid : BOOLEAN, accepted : BOOLEAN]
    /\ trace \in [1 .. MaxBound -> Orders \union {NoOrder}]

\* An item that cannot be prepared, wherever it stands in the list, means that
\* no item of the list is ordered; and a refusal of a call that orders at once
\* means that nothing was paid (porto_execution.py:198-236,
\* adapter.py:176-240).
RefusedAsAWhole ==
    \A t \in Tasks :
        /\ (\E n \in DOMAIN Items(t) : Items(t)[n].fit = "unprepared") => PlacedBy(t) = {}
        /\ result[t] = "refused" /\ (AtOnce(t) \/ ~call[t].many) => PaidBy(t) = {}

\* A list that returns marks returns one for each item, in the order of the
\* items, and they add up to what was paid, however it was ordered
\* (adapter.py:343-376).
MarksAddUp ==
    \A t \in Tasks :
        result[t] = "marks" =>
            /\ [n \in DOMAIN marks[t] |-> marks[t][n].amount] = [n \in DOMAIN Items(t) |-> Items(t)[n].value]
            /\ SumFunction([n \in DOMAIN marks[t] |-> marks[t][n].amount])
                  = SumFunction([o \in PaidBy(t) |-> o.order.total])

\* No order is sent without a key if an item of it, or the call, has one: a
\* list whose first item has none takes the key of a later one
\* (adapter.py:184-192, 233-240).
KeyKept ==
    \A o \in orders :
        LET t == o.order.task
        IN  o.order.key = NoKey =>
              /\ call[t].execution.key = NoKey
              /\ AtOnce(t) => \A n \in DOMAIN Items(t) : Items(t)[n].key = NoKey
              /\ ~AtOnce(t) => Items(t)[o.order.first].key = NoKey

\* last_many_trace is always of an order that the provider accepted through
\* this very ProviderClient, though calls overlap, fail, or outlive an
\* update_credentials (adapter.py:225-240).
TraceIsAccepted ==
    \A i \in DOMAIN trace :
        trace[i] # NoOrder =>
            \E o \in orders :
                /\ o.order = trace[i] /\ o.accepted
                /\ call[o.order.task].client = i
=============================================================================
