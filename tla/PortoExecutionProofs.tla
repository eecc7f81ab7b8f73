------------------------ MODULE PortoExecutionProofs ------------------------
(***************************************************************************)
(* Credentials, caches, keys and refusals of a client, for any number of   *)
(* providers, ProviderClients and overlapping calls.                       *)
(***************************************************************************)
EXTENDS PortoExecution, DataLemmas

LEMMA MinIsIn ==
    ASSUME NEW S \in SUBSET Nat, S # {}
    PROVE  Min(S) \in S
  BY Least DEF Min

(***************************************************************************)
(* Every configuration has a first provider, and a configuration is known  *)
(* from Open.                                                              *)
(***************************************************************************)
LEMMA ConfigsAreOpenOrMaps ==
    ASSUME config \in Configs, config # Open
    PROVE  /\ DOMAIN config \subseteq Ids
           /\ config \in [DOMAIN config -> Wires]
  BY DEF Configs

LEMMA FirstIsConfigured ==
    ASSUME config \in Configs, Configured # {}
    PROVE  CatalogProvider \in Configured
  <1>1. Configured \subseteq Ids
    BY ConfigsAreOpenOrMaps DEF Configured
  <1> DEFINE ranks == {Rank[p] : p \in Configured}
  <1>2. ranks \in SUBSET Nat /\ ranks # {}
    BY <1>1, ProvidersAssumption
  <1>3. PICK n \in ranks : \A k \in ranks : n <= k
    BY <1>2, Least
  <1>4. PICK p \in Configured : Rank[p] = n
    BY <1>3
  <1>5. \A q \in Configured : Rank[p] <= Rank[q]
    BY <1>3, <1>4
  <1> QED BY <1>5 DEF CatalogProvider

LEMMA CatalogProviderIsKnown ==
    ASSUME config \in Configs
    PROVE  CatalogProvider \in Ids
  <1>1. CASE Configured = {}
    BY <1>1, ProvidersAssumption DEF CatalogProvider
  <1>2. CASE Configured # {}
    BY <1>2, FirstIsConfigured, ConfigsAreOpenOrMaps DEF Configured
  <1> QED BY <1>1, <1>2

(***************************************************************************)
(* update_credentials leaves the first provider the first, and everything  *)
(* else as it was.                                                         *)
(***************************************************************************)
LEMMA NewConfigType ==
    ASSUME config \in Configs, NEW wires \in Wires
    PROVE  /\ NewConfig(wires) \in Configs
           /\ NewConfig(wires) # Open
           /\ DOMAIN NewConfig(wires) = Configured \union {CatalogProvider}
  <1>1. Configured \union {CatalogProvider} \in SUBSET Ids
    BY CatalogProviderIsKnown, ConfigsAreOpenOrMaps DEF Configured
  <1>2. \A p \in Configured : config[p] \in Wires
    BY ConfigsAreOpenOrMaps DEF Configured
  <1>3. NewConfig(wires) \in [Configured \union {CatalogProvider} -> Wires]
    BY <1>2 DEF NewConfig
  <1> QED BY <1>1, <1>3, OpenAssumption DEF Configs

LEMMA FirstStays ==
    ASSUME config \in Configs, NEW wires \in Wires, config' = NewConfig(wires)
    PROVE  CatalogProvider' = CatalogProvider
  <1>1. Configured' = Configured \union {CatalogProvider}
    BY NewConfigType DEF Configured
  <1>2. CASE Configured = {}
    <2>1. CatalogProvider = DefaultProvider
      BY <1>2 DEF CatalogProvider
    <2>2. Configured' = {DefaultProvider}
      BY <1>1, <1>2, <2>1
    <2>3. \A q \in {DefaultProvider} : Rank[DefaultProvider] <= Rank[q]
      BY ProvidersAssumption
    <2> QED BY <2>1, <2>2, <2>3 DEF CatalogProvider
  <1>3. CASE Configured # {}
    <2>1. Configured' = Configured
      BY <1>1, <1>3, FirstIsConfigured
    <2> QED BY <2>1 DEF CatalogProvider
  <1> QED BY <1>2, <1>3

(***************************************************************************)
(* The client's invariant.                                                 *)
(***************************************************************************)
ClientInv ==
    /\ config \in Configs
    /\ issued \in Seq(Bound)
    /\ made \in Nat
    /\ \A p \in DOMAIN resolvers : resolvers[p] \in Nat
    /\ \A p \in DOMAIN clients : clients[p] \in DOMAIN issued
    /\ CurrentCredentials
    /\ OneResolver

LEMMA ClientInitInv == ClientInit => ClientInv
  BY DEF ClientInit, ClientInv, NoClients, CurrentCredentials, OneResolver

LEMMA WiresForType ==
    ASSUME config \in Configs, NEW p
    PROVE  WiresFor(p) \in Wires
  BY ConfigsAreOpenOrMaps, ProvidersAssumption DEF WiresFor, Configured

LEMMA ProviderMadeInv ==
    ASSUME ClientInv, NEW p \in Ids, ProviderMade(p)
    PROVE  ClientInv' /\ CatalogProvider' = CatalogProvider
  <1> DEFINE new == [provider |-> p, wires |-> WiresFor(p), resolver |-> resolvers'[p]]
             n   == Len(issued) + 1
  <1>1. /\ made' \in Nat
        /\ \A q \in DOMAIN resolvers' : resolvers'[q] \in Nat
        /\ DOMAIN resolvers' = DOMAIN resolvers \union {p}
        /\ \A q \in DOMAIN resolvers : resolvers'[q] = resolvers[q]
    <2>1. /\ made \in Nat
          /\ \A q \in DOMAIN resolvers : resolvers[q] \in Nat
          /\ ResolverFor(p)
      BY DEF ClientInv, ProviderMade
    <2>2. CASE p \in DOMAIN resolvers
      BY <2>1, <2>2 DEF ResolverFor
    <2>3. CASE p \notin DOMAIN resolvers
      BY <2>1, <2>3 DEF ResolverFor
    <2> QED BY <2>2, <2>3
  <1>2. new \in Bound
    BY <1>1, WiresForType DEF ClientInv, Bound
  <1>3. /\ issued' = Append(issued, new)
        /\ issued' \in Seq(Bound)
        /\ Len(issued) \in Nat
        /\ DOMAIN issued = 1 .. Len(issued) /\ DOMAIN issued' = 1 .. n
        /\ issued'[n] = new
        /\ \A i \in DOMAIN issued : issued'[i] = issued[i]
    BY <1>2 DEF ClientInv, ProviderMade
  <1>4. /\ DOMAIN clients' = DOMAIN clients \union {p}
        /\ clients'[p] = n
        /\ \A q \in DOMAIN clients : q # p => clients'[q] = clients[q]
    BY DEF ProviderMade
  <1>5. /\ config' = config
        /\ \A q : WiresFor(q)' = WiresFor(q)
        /\ CatalogProvider' = CatalogProvider
    BY DEF ProviderMade, WiresFor, Configured, CatalogProvider
  <1>6. \A q \in DOMAIN clients' : clients'[q] \in DOMAIN issued'
    BY <1>3, <1>4 DEF ClientInv
  <1>7. CurrentCredentials'
    <2> SUFFICES ASSUME NEW q \in DOMAIN clients'
                 PROVE  /\ issued'[clients'[q]].provider = q
                        /\ issued'[clients'[q]].wires = WiresFor(q)
      BY <1>5 DEF CurrentCredentials
    <2>1. CASE q = p
      BY <2>1, <1>3, <1>4
    <2>2. CASE q # p
      BY <2>2, <1>3, <1>4 DEF ClientInv, CurrentCredentials
    <2> QED BY <2>1, <2>2
  <1>8. OneResolver'
    <2> SUFFICES ASSUME NEW i \in DOMAIN issued'
                 PROVE  /\ issued'[i].provider \in DOMAIN resolvers'
                        /\ issued'[i].resolver = resolvers'[issued'[i].provider]
      BY DEF OneResolver
    <2>1. CASE i = n
      BY <2>1, <1>1, <1>3
    <2>2. CASE i # n
      <3>1. i \in DOMAIN issued
        BY <2>2, <1>3
      <3> QED BY <3>1, <1>1, <1>3 DEF ClientInv, OneResolver
    <2> QED BY <2>1, <2>2
  <1> QED BY <1>1, <1>3, <1>5, <1>6, <1>7, <1>8 DEF ClientInv

LEMMA UpdateCredentialsInv ==
    ASSUME ClientInv, NEW wires \in Wires, UpdateCredentials(wires)
    PROVE  ClientInv' /\ CatalogProvider' = CatalogProvider
  <1>1. config \in Configs /\ config' = NewConfig(wires)
    BY DEF ClientInv, UpdateCredentials
  <1>2. config' \in Configs /\ CatalogProvider' = CatalogProvider
    BY <1>1, NewConfigType, FirstStays
  <1> QED BY <1>2 DEF ClientInv, UpdateCredentials, NoClients, CurrentCredentials, OneResolver

LEMMA ClientUnchangedInv ==
    ASSUME ClientInv, UNCHANGED <<config, resolvers, made, clients, issued>>
    PROVE  ClientInv' /\ CatalogProvider' = CatalogProvider
  BY DEF ClientInv, CurrentCredentials, OneResolver, WiresFor, Configured, CatalogProvider

LEMMA ClientStepInv ==
    ASSUME ClientInv, [Next]_vars
    PROVE  ClientInv' /\ CatalogProvider' = CatalogProvider
  <1>1. ASSUME NEW p \in Ids, ProviderMade(p)
        PROVE  ClientInv' /\ CatalogProvider' = CatalogProvider
    BY <1>1, ProviderMadeInv
  <1>2. ASSUME NEW wires \in Wires, UpdateCredentials(wires)
        PROVE  ClientInv' /\ CatalogProvider' = CatalogProvider
    BY <1>2, UpdateCredentialsInv
  <1>3. \/ \E p \in Ids : ProviderMade(p)
        \/ \E wires \in Wires : UpdateCredentials(wires)
        \/ UNCHANGED <<config, resolvers, made, clients, issued>>
    BY DEF Next, vars, clientVars, ClientNext, ProviderKnown, ProviderRefused, ResolveThrough,
           ClearCache, Start, OrderRefused, Send, Accepted, AcceptedWithoutLink, Refused, Doubtful
  <1> QED BY <1>1, <1>2, <1>3, ClientUnchangedInv

(***************************************************************************)
(* provider(id) never returns replaced credentials, and clear_cache()      *)
(* reaches every ProviderClient (client.py:105-146, 178-192).              *)
(***************************************************************************)
THEOREM ClientCorrect == Spec => [](CurrentCredentials /\ OneResolver)
  <1>1. Init => ClientInv
    BY ClientInitInv DEF Init
  <1>2. ClientInv /\ [Next]_vars => ClientInv'
    BY ClientStepInv
  <1>3. ClientInv => CurrentCredentials /\ OneResolver
    BY DEF ClientInv
  <1> QED BY <1>1, <1>2, <1>3, PTL DEF Spec

(***************************************************************************)
(* All ProviderClients of a provider share one resolver, which             *)
(* clear_cache() reaches (client.py:105-146, 186-192).                     *)
(***************************************************************************)
THEOREM OneResolverCorrect == Spec => []OneResolver
  BY ClientCorrect, PTL

LEMMA OthersStep ==
    ASSUME ClientInv, NEW wires \in Wires, UpdateCredentials(wires), config # Open,
           NEW p \in Ids \ {CatalogProvider}
    PROVE  (Allowed(p) <=> Allowed(p)') /\ WiresFor(p)' = WiresFor(p)
  <1>1. config \in Configs /\ config' = NewConfig(wires)
    BY DEF ClientInv, UpdateCredentials
  <1>2. /\ config' # Open
        /\ Configured' = Configured \union {CatalogProvider}
    BY <1>1, NewConfigType DEF Configured
  <1>3. p \in Configured => config'[p] = config[p]
    BY <1>1 DEF NewConfig
  <1> QED BY <1>2, <1>3 DEF Allowed, WiresFor

(***************************************************************************)
(* update_credentials() is about one provider, always the same one, and    *)
(* leaves the others alone if there were any (client.py:178-188).          *)
(***************************************************************************)
THEOREM OthersKeptCorrect == Spec => OthersKept
  <1> DEFINE Kept == /\ CatalogProvider' = CatalogProvider
                     /\ config # Open =>
                          \A p \in Ids \ {CatalogProvider} :
                             (Allowed(p) <=> Allowed(p)') /\ WiresFor(p)' = WiresFor(p)
  <1>1. Init => ClientInv
    BY ClientInitInv DEF Init
  <1>2. ClientInv /\ [Next]_vars => ClientInv'
    BY ClientStepInv
  <1>3. ClientInv /\ [Next]_vars => [Kept]_clientVars
    <2> SUFFICES ASSUME ClientInv, [Next]_vars
                 PROVE  Kept
      OBVIOUS
    <2>1. CatalogProvider' = CatalogProvider
      BY ClientStepInv
    <2>2. (\E wires \in Wires : UpdateCredentials(wires)) \/ config' = config
      BY DEF Next, vars, clientVars, ClientNext, ProviderKnown, ProviderRefused, ProviderMade,
             ResolveThrough, ClearCache, Start, OrderRefused, Send, Accepted,
             AcceptedWithoutLink, Refused, Doubtful
    <2>3. CASE config' = config
      BY <2>1, <2>3 DEF Allowed, WiresFor, Configured
    <2>4. ASSUME NEW wires \in Wires, UpdateCredentials(wires)
          PROVE  Kept
      BY <2>1, <2>4, OthersStep
    <2> QED BY <2>2, <2>3, <2>4
  <1> QED BY <1>1, <1>2, <1>3, PTL DEF Spec, OthersKept

(***************************************************************************)
(* The tasks' types, as far as the proofs need them, and what a task knows *)
(* before, during and after its orders.                                    *)
(***************************************************************************)
Made == {NoCall} \union {Call(i, ask, execution) : i \in Nat, ask \in Asks, execution \in Executions}

TasksInv ==
    /\ stage \in [Tasks -> {"idle", "ready", "ordering", "done"}]
    /\ call \in [Tasks -> Made]
    /\ next \in [Tasks -> Nat]
    /\ result \in [Tasks -> {"none", "marks", "refused", "doubt"}]
    /\ \A o \in orders : o.order.task \in Tasks

AllPrepared(t) == \A n \in DOMAIN Items(t) : Items(t)[n].fit # "unprepared"

OneOrder(t) == AtOnce(t) \/ ~call[t].many

TaskInv(t) ==
    /\ stage[t] = "idle" => call[t] = NoCall /\ PlacedBy(t) = {} /\ result[t] = "none" /\ next[t] = 1
    /\ stage[t] # "idle" => call[t].client \in DOMAIN issued /\ call[t] # NoCall
    /\ stage[t] \in {"ready", "ordering"} \/ PlacedBy(t) # {} => AllPrepared(t)
    /\ stage[t] \in {"ready", "ordering"} => next[t] \in DOMAIN Items(t)
    /\ stage[t] \in {"ready", "ordering"} /\ OneOrder(t) => PlacedBy(t) = {} /\ next[t] = 1
    /\ result[t] = "refused" /\ OneOrder(t) => PaidBy(t) = {}

IInv ==
    /\ ClientInv
    /\ TasksInv
    /\ \A t \in Tasks : TaskInv(t)
    /\ KeyKept
    /\ TraceIsAccepted

LEMMA InitInv == Init => IInv
  <1> SUFFICES ASSUME Init PROVE IInv
    OBVIOUS
  <1>1. TasksInv
    BY DEF Init, TasksInv, Made
  <1>2. \A t \in Tasks : TaskInv(t)
    BY DEF Init, TaskInv, PlacedBy, PaidBy
  <1>3. KeyKept /\ TraceIsAccepted
    BY DEF Init, KeyKept, TraceIsAccepted
  <1> QED BY <1>1, <1>2, <1>3, ClientInitInv DEF Init, IInv

(***************************************************************************)
(* What a task asked for, once it has started.                             *)
(***************************************************************************)
LEMMA ItemsType ==
    ASSUME TasksInv, NEW t \in Tasks, call[t] # NoCall
    PROVE  /\ Items(t) \in Seq(Requests)
           /\ DOMAIN Items(t) = 1 .. Len(Items(t)) /\ Len(Items(t)) \in Nat
           /\ ~call[t].many => Len(Items(t)) = 1
  <1>1. PICK i \in Nat, ask \in Asks, execution \in Executions : call[t] = Call(i, ask, execution)
    BY DEF TasksInv, Made
  <1>2. call[t].items = ask.items /\ call[t].many = ask.many
    BY <1>1 DEF Call
  <1> QED BY <1>2, AsksAssumption DEF Items

LEMMA BatchType ==
    ASSUME TasksInv, NEW t \in Tasks, TaskInv(t), stage[t] \in {"ready", "ordering"}
    PROVE  Batch(t) \in SUBSET Nat /\ next[t] \in Batch(t)
  BY ItemsType DEF TaskInv, Batch

(***************************************************************************)
(* ProviderClients stay as they were issued.                               *)
(***************************************************************************)
LEMMA IssuedGrows ==
    ASSUME ClientInv, [Next]_vars
    PROVE  \A i \in DOMAIN issued : i \in DOMAIN issued' /\ issued'[i] = issued[i]
  <1>1. CASE \E p \in Ids : ProviderMade(p)
    <2>1. PICK p \in Ids : ProviderMade(p)
      BY <1>1
    <2>2. PICK new : issued' = Append(issued, new)
      BY <2>1 DEF ProviderMade
    <2> QED BY <2>2 DEF ClientInv
  <1>2. CASE issued' = issued
    BY <1>2
  <1>3. (\E p \in Ids : ProviderMade(p)) \/ issued' = issued
    BY DEF Next, vars, clientVars, ClientNext, ProviderKnown, ProviderRefused, UpdateCredentials,
           ResolveThrough, ClearCache, Start, OrderRefused, Send, Accepted, AcceptedWithoutLink,
           Refused, Doubtful
  <1> QED BY <1>1, <1>2, <1>3

LEMMA AtOnceStays ==
    ASSUME ClientInv, [Next]_vars, NEW t \in Tasks,
           call[t].client \in DOMAIN issued, call'[t] = call[t]
    PROVE  /\ AtOnce(t)' <=> AtOnce(t)
           /\ OneOrder(t)' <=> OneOrder(t)
           /\ Items(t)' = Items(t)
           /\ AllPrepared(t)' <=> AllPrepared(t)
           /\ call[t].client \in DOMAIN issued'
  BY IssuedGrows DEF AtOnce, OneOrder, Client, Items, AllPrepared

LEMMA UntouchedInv ==
    ASSUME ClientInv, [Next]_vars, NEW t \in Tasks, TaskInv(t),
           stage'[t] = stage[t], call'[t] = call[t], next'[t] = next[t], result'[t] = result[t],
           PlacedBy(t)' = PlacedBy(t)
    PROVE  TaskInv(t)'
  <1>1. PaidBy(t)' = PaidBy(t)
    BY DEF PaidBy
  <1>2. CASE stage[t] = "idle"
    BY <1>1, <1>2 DEF TaskInv
  <1>3. CASE stage[t] # "idle"
    BY <1>1, <1>3, AtOnceStays DEF TaskInv
  <1> QED BY <1>2, <1>3

(***************************************************************************)
(* The step of one task, in two kinds: it places an order, or it does not. *)
(***************************************************************************)
OtherTasksKept(t) ==
    \A s \in Tasks \ {t} :
        /\ stage'[s] = stage[s] /\ call'[s] = call[s]
        /\ next'[s] = next[s] /\ result'[s] = result[s]

Places(t) ==
    \/ Accepted(t)
    \/ AcceptedWithoutLink(t)
    \/ Refused(t)
    \/ Doubtful(t)

NoOrderPlaced(t) ==
    \/ Start(t)
    \/ OrderRefused(t)
    \/ Send(t)

LEMMA KindsOfSteps ==
    ASSUME TasksInv, NEW t \in Tasks, Places(t) \/ NoOrderPlaced(t)
    PROVE  /\ OtherTasksKept(t)
           /\ NoOrderPlaced(t) => orders' = orders /\ trace' = trace
           /\ Places(t) => /\ stage[t] = "ordering" /\ call' = call
                           /\ \E paid, accepted \in BOOLEAN : orders' = Settled(t, paid, accepted)
  <1>1. NoOrderPlaced(t) => OtherTasksKept(t) /\ orders' = orders /\ trace' = trace
    BY DEF TasksInv, NoOrderPlaced, OtherTasksKept, Start, OrderRefused, Send, End
  <1>2. Places(t) => OtherTasksKept(t) /\ stage[t] = "ordering" /\ call' = call
    BY DEF TasksInv, Places, OtherTasksKept, Accepted, AcceptedWithoutLink, Refused, Doubtful, End
  <1>3. Places(t) => \E paid, accepted \in BOOLEAN : orders' = Settled(t, paid, accepted)
    BY DEF Places, Accepted, AcceptedWithoutLink, Refused, Doubtful
  <1> QED BY <1>1, <1>2, <1>3

LEMMA PlacedByOthers ==
    ASSUME TasksInv, NEW t \in Tasks, Places(t) \/ NoOrderPlaced(t), NEW s \in Tasks, s # t
    PROVE  PlacedBy(s)' = PlacedBy(s)
  <1>1. CASE orders' = orders
    BY <1>1 DEF PlacedBy
  <1>2. CASE Places(t)
    <2>1. PICK paid \in BOOLEAN, accepted \in BOOLEAN : orders' = Settled(t, paid, accepted)
      BY <1>2, KindsOfSteps
    <2> QED BY <2>1 DEF PlacedBy, Settled, Order
  <1> QED BY <1>1, <1>2, KindsOfSteps

LEMMA NextType ==
    ASSUME TasksInv, NEW t \in Tasks, TaskInv(t), Accepted(t)
    PROVE  /\ next' \in [Tasks -> Nat]
           /\ next'[t] = Max(Batch(t)) + 1
           /\ OneOrder(t) => next'[t] \notin DOMAIN Items(t)
  <1>1. stage[t] = "ordering" /\ next' = [next EXCEPT ![t] = Max(Batch(t)) + 1]
    BY DEF Accepted
  <1>2. call[t] # NoCall /\ next[t] \in DOMAIN Items(t) /\ (OneOrder(t) => next[t] = 1)
    BY <1>1 DEF TaskInv
  <1> DEFINE len == Len(Items(t))
  <1>3. /\ len \in Nat /\ len >= 1
        /\ DOMAIN Items(t) = 1 .. len
        /\ ~call[t].many => len = 1
    BY <1>2, ItemsType
  <1>4. CASE AtOnce(t)
    <2>1. Batch(t) = 1 .. len
      BY <1>3, <1>4 DEF Batch
    <2>2. Max(Batch(t)) = len
      BY <1>3, <2>1 DEF Max
    <2> QED BY <1>1, <1>3, <2>2 DEF TasksInv
  <1>5. CASE ~AtOnce(t)
    <2>1. Max(Batch(t)) = next[t]
      BY <1>2, <1>3, <1>5 DEF Batch, Max
    <2>2. next[t] \in Nat
      BY <1>2, <1>3
    <2> QED BY <1>1, <1>2, <1>3, <1>5, <2>1, <2>2 DEF TasksInv, OneOrder
  <1> QED BY <1>4, <1>5

LEMMA TasksStep ==
    ASSUME IInv, NEW t \in Tasks, Places(t) \/ NoOrderPlaced(t)
    PROVE  TasksInv'
  <1>1. TasksInv /\ TaskInv(t)
    BY DEF IInv
  <1>2. CASE Start(t)
    <2>1. PICK i \in DOMAIN issued, ask \in Asks, execution \in Executions :
             /\ call' = [call EXCEPT ![t] = Call(i, ask, execution)]
             /\ \/ stage' = [stage EXCEPT ![t] = "ready"] /\ result' = result
                \/ End(t, "refused")
      BY <1>2 DEF Start
    <2>2. i \in Nat
      BY DEF IInv, ClientInv
    <2>3. Call(i, ask, execution) \in Made
      BY <2>2 DEF Made
    <2> QED BY <1>1, <1>2, <2>1, <2>3 DEF TasksInv, Start, End
  <1>3. CASE OrderRefused(t) \/ Send(t)
    BY <1>1, <1>3 DEF TasksInv, OrderRefused, Send, End
  <1>4. CASE Places(t)
    <2>1. \A o \in orders' : o.order.task \in Tasks
      BY <1>1, <1>4, KindsOfSteps DEF TasksInv, Settled, Order
    <2>2. CASE Accepted(t)
      <3>1. next' \in [Tasks -> Nat] /\ call' = call
        BY <1>1, <2>2, NextType DEF Accepted
      <3>2. (stage' = [stage EXCEPT ![t] = "ready"] /\ result' = result) \/ End(t, "marks")
        BY <2>2 DEF Accepted
      <3>3. /\ stage' \in [Tasks -> {"idle", "ready", "ordering", "done"}]
            /\ result' \in [Tasks -> {"none", "marks", "refused", "doubt"}]
        BY <1>1, <3>2 DEF TasksInv, End
      <3> QED BY <1>1, <2>1, <3>1, <3>3 DEF TasksInv
    <2>3. CASE AcceptedWithoutLink(t) \/ Refused(t) \/ Doubtful(t)
      BY <1>1, <2>1, <2>3 DEF TasksInv, AcceptedWithoutLink, Refused, Doubtful, End
    <2> QED BY <1>4, <2>2, <2>3 DEF Places
  <1> QED BY <1>2, <1>3, <1>4 DEF NoOrderPlaced

LEMMA StartInv ==
    ASSUME IInv, NEW t \in Tasks, Start(t), TasksInv'
    PROVE  TaskInv(t)'
  <1>1. PICK i \in DOMAIN issued, ask \in Asks, execution \in Executions :
           /\ call' = [call EXCEPT ![t] = Call(i, ask, execution)]
           /\ \/ /\ Prepared(i, ask, execution)
                 /\ stage' = [stage EXCEPT ![t] = "ready"]
                 /\ result' = result
              \/ End(t, "refused")
    BY DEF Start
  <1>2. TasksInv /\ PlacedBy(t) = {} /\ result[t] = "none" /\ next[t] = 1
    BY DEF IInv, TaskInv, Start
  <1>3. issued' = issued /\ orders' = orders /\ next' = next
    BY DEF Start, clientVars
  <1>4. PlacedBy(t)' = {} /\ PaidBy(t)' = {}
    BY <1>2, <1>3 DEF PlacedBy, PaidBy
  <1>5. i \in Nat /\ i # 0
    BY DEF IInv, ClientInv
  <1>6. /\ call'[t] = Call(i, ask, execution)
        /\ call'[t].client = i
        /\ call'[t] # NoCall
        /\ Items(t)' = ask.items
    BY <1>1, <1>2, <1>5 DEF TasksInv, Call, NoCall, Items
  <1>7. CASE /\ Prepared(i, ask, execution)
             /\ stage' = [stage EXCEPT ![t] = "ready"]
             /\ result' = result
    <2>1. stage'[t] = "ready" /\ result'[t] = "none"
      BY <1>2, <1>7 DEF TasksInv
    <2>2. AllPrepared(t)'
      BY <1>6, <1>7 DEF Prepared, AllPrepared
    <2>3. 1 \in DOMAIN ask.items
      <3>1. ask.items \in Seq(Requests) /\ ask.items # <<>>
        BY <1>7, AsksAssumption DEF Prepared
      <3> QED BY <3>1
    <2> QED BY <1>2, <1>3, <1>4, <1>6, <2>1, <2>2, <2>3 DEF TaskInv
  <1>8. CASE End(t, "refused")
    <2>1. stage'[t] = "done"
      BY <1>2, <1>8 DEF TasksInv, End
    <2> QED BY <1>3, <1>4, <1>6, <2>1 DEF TaskInv
  <1> QED BY <1>1, <1>7, <1>8

LEMMA OrderRefusedOrSendInv ==
    ASSUME IInv, [Next]_vars, NEW t \in Tasks, OrderRefused(t) \/ Send(t)
    PROVE  TaskInv(t)'
  <1>1. ClientInv /\ TasksInv /\ TaskInv(t)
    BY DEF IInv
  <1>2. /\ stage[t] = "ready" /\ stage'[t] \in {"ordering", "done"}
        /\ call' = call /\ next' = next /\ orders' = orders
    BY <1>1 DEF OrderRefused, Send, End, TasksInv
  <1>3. PlacedBy(t)' = PlacedBy(t) /\ PaidBy(t)' = PaidBy(t)
    BY <1>2 DEF PlacedBy, PaidBy
  <1>4. /\ call[t].client \in DOMAIN issued /\ call[t] # NoCall
        /\ AllPrepared(t) /\ next[t] \in DOMAIN Items(t)
        /\ OneOrder(t) => PlacedBy(t) = {} /\ next[t] = 1
    BY <1>1, <1>2 DEF TaskInv
  <1>5. OneOrder(t) => PaidBy(t) = {}
    BY <1>4 DEF PaidBy
  <1>6. /\ OneOrder(t)' <=> OneOrder(t)
        /\ Items(t)' = Items(t)
        /\ AllPrepared(t)'
        /\ call[t].client \in DOMAIN issued'
    BY <1>1, <1>2, <1>4, AtOnceStays
  <1> QED BY <1>2, <1>3, <1>4, <1>5, <1>6 DEF TaskInv

LEMMA PlacesInv ==
    ASSUME IInv, [Next]_vars, NEW t \in Tasks, Places(t)
    PROVE  TaskInv(t)'
  <1>1. ClientInv /\ TasksInv /\ TaskInv(t)
    BY DEF IInv
  <1>2. stage[t] = "ordering" /\ call' = call
    BY <1>1, KindsOfSteps
  <1>3. /\ call[t].client \in DOMAIN issued /\ call[t] # NoCall
        /\ AllPrepared(t)
        /\ OneOrder(t) => PlacedBy(t) = {}
    BY <1>1, <1>2 DEF TaskInv
  <1>4. /\ OneOrder(t)' <=> OneOrder(t)
        /\ Items(t)' = Items(t)
        /\ AllPrepared(t)'
        /\ call[t].client \in DOMAIN issued'
    BY <1>1, <1>2, <1>3, AtOnceStays
  <1>5. CASE Accepted(t)
    <2>1. /\ next'[t] \in Nat
          /\ OneOrder(t) => next'[t] \notin DOMAIN Items(t)
      BY <1>1, <1>5, NextType
    <2>2. \/ next'[t] \in DOMAIN Items(t) /\ stage'[t] = "ready" /\ result'[t] = result[t]
          \/ stage'[t] = "done" /\ result'[t] = "marks"
      BY <1>1, <1>5 DEF Accepted, End, TasksInv
    <2>3. result'[t] = "refused" => ~OneOrder(t)
      BY <2>1, <2>2
    <2> QED BY <1>2, <1>3, <1>4, <2>1, <2>2, <2>3 DEF TaskInv
  <1>6. CASE AcceptedWithoutLink(t) \/ Doubtful(t)
    <2>1. stage'[t] = "done" /\ result'[t] = "doubt"
      BY <1>1, <1>6 DEF AcceptedWithoutLink, Doubtful, End, TasksInv
    <2> QED BY <1>2, <1>3, <1>4, <2>1 DEF TaskInv
  <1>7. CASE Refused(t)
    <2>1. stage'[t] = "done" /\ orders' = Settled(t, FALSE, FALSE)
      BY <1>1, <1>7 DEF Refused, End, TasksInv
    <2>2. OneOrder(t) => PaidBy(t)' = {}
      BY <1>3, <2>1 DEF PaidBy, PlacedBy, Settled
    <2> QED BY <1>2, <1>3, <1>4, <2>1, <2>2 DEF TaskInv
  <1> QED BY <1>5, <1>6, <1>7 DEF Places

(***************************************************************************)
(* Every action of the system keeps what each task knows.                  *)
(***************************************************************************)
ClientActs == /\ UNCHANGED executionVars
              /\ [ClientNext]_clientVars

LEMMA StepsAre ==
    ASSUME [Next]_vars
    PROVE  ClientActs \/ \E t \in Tasks : Places(t) \/ NoOrderPlaced(t)
  BY DEF Next, vars, ClientActs, Places, NoOrderPlaced

LEMMA TasksKnow ==
    ASSUME IInv, [Next]_vars
    PROVE  TasksInv' /\ \A t \in Tasks : TaskInv(t)'
  <1>1. ClientInv /\ TasksInv /\ \A t \in Tasks : TaskInv(t)
    BY DEF IInv
  <1>2. CASE ClientActs
    <2>1. TasksInv'
      BY <1>1, <1>2 DEF TasksInv, ClientActs, executionVars
    <2>2. \A t \in Tasks : PlacedBy(t)' = PlacedBy(t)
      BY <1>2 DEF PlacedBy, ClientActs, executionVars
    <2>3. \A t \in Tasks : TaskInv(t)'
      BY <1>1, <1>2, <2>2, UntouchedInv DEF ClientActs, executionVars
    <2> QED BY <2>1, <2>3
  <1>3. ASSUME NEW t \in Tasks, Places(t) \/ NoOrderPlaced(t)
        PROVE  TasksInv' /\ \A s \in Tasks : TaskInv(s)'
    <2>1. TasksInv'
      BY <1>3, TasksStep
    <2>2. TaskInv(t)'
      BY <1>3, <2>1, StartInv, OrderRefusedOrSendInv, PlacesInv DEF NoOrderPlaced
    <2>3. \A s \in Tasks : s # t => TaskInv(s)'
      BY <1>1, <1>3, KindsOfSteps, PlacedByOthers, UntouchedInv DEF OtherTasksKept
    <2> QED BY <2>1, <2>2, <2>3
  <1> QED BY <1>2, <1>3, StepsAre

(***************************************************************************)
(* The call behind an order never changes, nor does the way it orders.     *)
(***************************************************************************)
LEMMA OrderedCallsStay ==
    ASSUME IInv, [Next]_vars, NEW o \in orders
    PROVE  LET t == o.order.task
           IN  /\ call'[t] = call[t] /\ (AtOnce(t)' <=> AtOnce(t)) /\ Items(t)' = Items(t)
  <1> DEFINE t == o.order.task
  <1>1. ClientInv /\ TasksInv /\ t \in Tasks /\ TaskInv(t) /\ PlacedBy(t) # {}
    BY DEF IInv, TasksInv, PlacedBy
  <1>2. stage[t] # "idle" /\ call[t].client \in DOMAIN issued
    BY <1>1 DEF TaskInv
  <1>3. ASSUME ClientActs
        PROVE  call'[t] = call[t]
    BY <1>3 DEF ClientActs, executionVars
  <1>4. ASSUME NEW s \in Tasks, Places(s) \/ NoOrderPlaced(s)
        PROVE  call'[t] = call[t]
    <2>1. CASE s # t
      BY <1>1, <1>4, <2>1, KindsOfSteps DEF OtherTasksKept
    <2>2. CASE s = t
      BY <1>2, <1>4, <2>2 DEF Places, NoOrderPlaced, Start, OrderRefused, Send, Accepted,
                              AcceptedWithoutLink, Refused, Doubtful
    <2> QED BY <2>1, <2>2
  <1>5. call'[t] = call[t]
    BY <1>3, <1>4, StepsAre
  <1> QED BY <1>1, <1>2, <1>5, AtOnceStays

(***************************************************************************)
(* An order without a key is one for which there was none.                 *)
(***************************************************************************)
KeyOf(t, n) == IF Items(t)[n].key # NoKey THEN Items(t)[n].key ELSE call[t].execution.key

LEMMA NoKeyMeansNone ==
    ASSUME TasksInv, NEW t \in Tasks, TaskInv(t), stage[t] = "ordering", KeyOfOrder(t) = NoKey
    PROVE  /\ call[t].execution.key = NoKey
           /\ \A n \in Batch(t) : Items(t)[n].key = NoKey
  <1> DEFINE keyed == {n \in Batch(t) : KeyOf(t, n) # NoKey}
  <1>1. Batch(t) \in SUBSET Nat /\ next[t] \in Batch(t)
    BY BatchType
  <1>2. KeyOfOrder(t) = IF keyed = {} THEN NoKey ELSE KeyOf(t, Min(keyed))
    BY DEF KeyOfOrder, KeyOf
  <1>3. keyed = {}
    <2> SUFFICES ASSUME keyed # {} PROVE FALSE
      OBVIOUS
    <2>1. Min(keyed) \in keyed
      BY <1>1, MinIsIn
    <2> QED BY <1>2, <2>1
  <1>4. \A n \in Batch(t) : KeyOf(t, n) = NoKey
    BY <1>3
  <1> QED BY <1>1, <1>4 DEF KeyOf

KeyKeptBy(o) ==
    LET t == o.order.task
    IN  o.order.key = NoKey =>
          /\ call[t].execution.key = NoKey
          /\ AtOnce(t) => \A n \in DOMAIN Items(t) : Items(t)[n].key = NoKey
          /\ ~AtOnce(t) => Items(t)[o.order.first].key = NoKey

LEMMA KeyKeptStep ==
    ASSUME IInv, [Next]_vars
    PROVE  KeyKept'
  <1>1. \A o \in orders : KeyKeptBy(o)'
    BY OrderedCallsStay DEF IInv, KeyKept, KeyKeptBy
  <1>2. CASE orders' = orders
    BY <1>1, <1>2 DEF KeyKept, KeyKeptBy
  <1>3. ASSUME NEW t \in Tasks, Places(t)
        PROVE  KeyKept'
    <2>1. ClientInv /\ TasksInv /\ TaskInv(t)
      BY DEF IInv
    <2>2. PICK paid \in BOOLEAN, accepted \in BOOLEAN : orders' = Settled(t, paid, accepted)
      BY <1>3, <2>1, KindsOfSteps
    <2>3. PICK new : new = [order |-> Order(t), paid |-> paid, accepted |-> accepted]
      OBVIOUS
    <2>4. /\ new.order.task = t /\ new.order.key = KeyOfOrder(t) /\ new.order.first = next[t]
          /\ orders' = orders \union {new}
      BY <2>2, <2>3 DEF Settled, Order
    <2>5. /\ stage[t] = "ordering" /\ call' = call /\ call[t].client \in DOMAIN issued
      BY <1>3, <2>1, KindsOfSteps DEF TaskInv
    <2>6. (AtOnce(t)' <=> AtOnce(t)) /\ Items(t)' = Items(t)
      BY <2>1, <2>5, AtOnceStays
    <2>7. KeyKeptBy(new)'
      BY <2>1, <2>4, <2>5, <2>6, NoKeyMeansNone DEF KeyKeptBy, Batch
    <2> QED BY <1>1, <2>4, <2>7 DEF KeyKept, KeyKeptBy
  <1>4. orders' = orders \/ \E t \in Tasks : Places(t)
    BY StepsAre, KindsOfSteps DEF ClientActs, executionVars, IInv
  <1> QED BY <1>2, <1>3, <1>4

(***************************************************************************)
(* The trace changes only together with an accepted order of the same      *)
(* ProviderClient.                                                         *)
(***************************************************************************)
TracedBy(i) ==
    trace[i] # NoOrder =>
        \E o \in orders : o.order = trace[i] /\ o.accepted /\ call[o.order.task].client = i

LEMMA TraceStep ==
    ASSUME IInv, [Next]_vars
    PROVE  TraceIsAccepted'
  <1>1. orders \subseteq orders'
    <2>1. ASSUME NEW t \in Tasks, Places(t)
          PROVE  orders \subseteq orders'
      BY <2>1, KindsOfSteps DEF IInv, Settled
    <2> QED BY <2>1, StepsAre, KindsOfSteps DEF ClientActs, executionVars, IInv
  <1>2. \A i \in DOMAIN trace : trace'[i] = trace[i] => TracedBy(i)'
    BY <1>1, OrderedCallsStay DEF IInv, TraceIsAccepted, TracedBy
  <1>3. CASE trace' = trace
    BY <1>2, <1>3 DEF TraceIsAccepted, TracedBy
  <1>4. ASSUME NEW t \in Tasks, Places(t), trace' # trace
        PROVE  TraceIsAccepted'
    <2>1. PICK i : i = call[t].client
      OBVIOUS
    <2>2. /\ trace' = [trace EXCEPT ![i] = Order(t)]
          /\ \E paid \in BOOLEAN : orders' = Settled(t, paid, TRUE)
      BY <1>4, <2>1 DEF Places, Accepted, AcceptedWithoutLink, Refused, Doubtful, Traced
    <2>3. PICK paid \in BOOLEAN : orders' = Settled(t, paid, TRUE)
      BY <2>2
    <2> DEFINE new == [order |-> Order(t), paid |-> paid, accepted |-> TRUE]
    <2>4. new \in orders' /\ new.order = Order(t) /\ new.accepted /\ new.order.task = t
      BY <2>3 DEF Settled, Order
    <2>5. call' = call
      BY <1>4, KindsOfSteps DEF IInv
    <2>6. i \in DOMAIN trace => trace'[i] = Order(t) /\ TracedBy(i)'
      BY <2>2, <2>4, <2>5, <2>1 DEF TracedBy
    <2>7. /\ DOMAIN trace' = DOMAIN trace
          /\ \A j \in DOMAIN trace : j # i => trace'[j] = trace[j]
      BY <2>2
    <2> QED BY <1>2, <2>6, <2>7 DEF TraceIsAccepted, TracedBy
  <1>5. trace' = trace \/ \E t \in Tasks : Places(t)
    BY StepsAre, KindsOfSteps DEF ClientActs, executionVars, IInv
  <1> QED BY <1>3, <1>4, <1>5

LEMMA StepInv == IInv /\ [Next]_vars => IInv'
  BY ClientStepInv, TasksKnow, KeyKeptStep, TraceStep DEF IInv

LEMMA InvariantHolds == Spec => []IInv
  BY InitInv, StepInv, PTL DEF Spec

(***************************************************************************)
(* A list with an item that cannot be prepared orders nothing, and a       *)
(* refusal of what is ordered at once is unpaid                            *)
(* (porto_execution.py:198-236, adapter.py:176-240).                       *)
(***************************************************************************)
THEOREM RefusedCorrect == Spec => []RefusedAsAWhole
  <1>1. IInv => RefusedAsAWhole
    BY DEF IInv, RefusedAsAWhole, TaskInv, OneOrder, AllPrepared
  <1> QED BY <1>1, InvariantHolds, PTL

(***************************************************************************)
(* No order is sent without a key if an item of it, or the call, has one   *)
(* (adapter.py:184-192, 233-240).                                          *)
(***************************************************************************)
THEOREM KeyKeptCorrect == Spec => []KeyKept
  <1>1. IInv => KeyKept
    BY DEF IInv
  <1> QED BY <1>1, InvariantHolds, PTL

(***************************************************************************)
(* last_many_trace is of an order that was accepted through the same       *)
(* ProviderClient (adapter.py:225-240).                                    *)
(***************************************************************************)
THEOREM TraceCorrect == Spec => []TraceIsAccepted
  <1>1. IInv => TraceIsAccepted
    BY DEF IInv
  <1> QED BY <1>1, InvariantHolds, PTL

(***************************************************************************)
(* Types.  Every step of the client and of each task keeps them.           *)
(***************************************************************************)
ClientTyped == ClientTypeOK /\ Len(issued) <= MaxBound

LEMMA ClientTypedStep ==
    ASSUME ClientInv, ClientTyped, [Next]_vars
    PROVE  ClientTyped'
  <1> USE DEF ClientTyped, ClientTypeOK
  <1>1. ASSUME NEW p \in Ids, ProviderMade(p)
        PROVE  ClientTyped'
    <2>1. issued' \in Seq(Bound) /\ config' \in Configs
      BY <1>1, ProviderMadeInv DEF ClientInv
    <2>2. /\ Len(issued') = Len(issued) + 1 /\ Len(issued) < MaxBound /\ Len(issued) \in Nat
          /\ DOMAIN issued = 1 .. Len(issued) /\ DOMAIN issued' = 1 .. Len(issued')
      BY <1>1, <2>1 DEF ProviderMade
    <2>3. /\ made' \in Nat /\ made <= made'
          /\ DOMAIN resolvers' \subseteq Ids
          /\ \A q \in DOMAIN resolvers' : resolvers'[q] \in 1 .. made'
      <3>1. ResolverFor(p)
        BY <1>1 DEF ProviderMade
      <3>2. CASE p \in DOMAIN resolvers
        BY <3>1, <3>2 DEF ResolverFor
      <3>3. CASE p \notin DOMAIN resolvers
        BY <3>1, <3>3 DEF ResolverFor
      <3> QED BY <3>2, <3>3
    <2>4. DOMAIN clients' \subseteq Ids /\ \A q \in DOMAIN clients' : clients'[q] \in DOMAIN issued'
      BY <1>1, <2>2 DEF ProviderMade
    <2>5. warm' \subseteq 1 .. made'
      <3>1. warm' = warm
        BY <1>1 DEF ProviderMade
      <3> QED BY <2>3, <3>1
    <2> QED BY <2>1, <2>2, <2>3, <2>4, <2>5, ProvidersAssumption
  <1>2. ASSUME NEW wires \in Wires, UpdateCredentials(wires)
        PROVE  ClientTyped'
    <2>1. config' \in Configs
      BY <1>2, UpdateCredentialsInv DEF ClientInv
    <2> QED BY <1>2, <2>1 DEF UpdateCredentials, NoClients
  <1>3. ASSUME NEW i \in DOMAIN issued, ResolveThrough(i)
        PROVE  ClientTyped'
    <2>1. issued[i].resolver \in 1 .. made
      BY DEF ClientInv, OneResolver
    <2> QED BY <1>3, <2>1 DEF ResolveThrough
  <1>4. CASE ClearCache
    BY <1>4 DEF ClearCache
  <1>5. CASE UNCHANGED clientVars
    BY <1>5 DEF clientVars
  <1>6. [ClientNext]_clientVars
    BY DEF Next, vars, Start, OrderRefused, Send, Accepted, AcceptedWithoutLink, Refused, Doubtful
  <1> QED BY <1>1, <1>2, <1>3, <1>4, <1>5, <1>6 DEF ClientNext, ProviderKnown, ProviderRefused

LEMMA MadeCalls == ASSUME ClientTyped, NEW i \in DOMAIN issued, NEW ask \in Asks, NEW execution \in Executions
                   PROVE  Call(i, ask, execution) \in Calls
  <1>1. i \in 1 .. MaxBound
    BY ProvidersAssumption DEF ClientTyped, ClientTypeOK
  <1> QED BY <1>1 DEF Call, Calls

(***************************************************************************)
(* The batch of an order: all of the items, or the next.                   *)
(***************************************************************************)
LEMMA BatchMeans ==
    ASSUME TasksInv, NEW t \in Tasks, TaskInv(t), stage[t] \in {"ready", "ordering"}
    PROVE  /\ Len(Items(t)) \in Nat /\ DOMAIN Items(t) = 1 .. Len(Items(t))
           /\ next[t] \in DOMAIN Items(t)
           /\ \A n \in DOMAIN Items(t) : Items(t)[n] \in Requests
           /\ Batch(t) \subseteq DOMAIN Items(t) /\ IsFiniteSet(Batch(t))
           /\ AtOnce(t) => /\ next[t] = 1 /\ Batch(t) = DOMAIN Items(t)
                           /\ Cardinality(Batch(t)) = Len(Items(t)) /\ Max(Batch(t)) = Len(Items(t))
           /\ ~AtOnce(t) => /\ Batch(t) = {next[t]}
                            /\ Cardinality(Batch(t)) = 1 /\ Max(Batch(t)) = next[t]
  <1> DEFINE len == Len(Items(t))
  <1>1. call[t] # NoCall /\ next[t] \in DOMAIN Items(t) /\ (OneOrder(t) => next[t] = 1)
    BY DEF TaskInv
  <1>2. len \in Nat /\ DOMAIN Items(t) = 1 .. len /\ \A n \in DOMAIN Items(t) : Items(t)[n] \in Requests
    BY <1>1, ItemsType
  <1>3. CASE AtOnce(t)
    <2>1. Batch(t) = 1 .. len /\ next[t] = 1
      BY <1>1, <1>2, <1>3 DEF Batch, OneOrder
    <2>2. IsFiniteSet(1 .. len) /\ Cardinality(1 .. len) = len
      <3>1. len \in Nat
        BY <1>2
      <3> HIDE DEF len
      <3> QED BY <3>1, FS_Interval
    <2>3. Max(1 .. len) = len
      BY <1>1, <1>2, <2>1 DEF Max
    <2> QED BY <1>1, <1>2, <1>3, <2>1, <2>2, <2>3
  <1>4. CASE ~AtOnce(t)
    <2>1. Batch(t) = {next[t]}
      BY <1>4 DEF Batch
    <2>2. IsFiniteSet({next[t]}) /\ Cardinality({next[t]}) = 1
      BY FS_Singleton
    <2>3. Max({next[t]}) = next[t]
      BY <1>1, <1>2 DEF Max
    <2> QED BY <1>1, <1>2, <1>4, <2>1, <2>2, <2>3
  <1> QED BY <1>3, <1>4

Values(t) == [n \in DOMAIN Items(t) |-> Items(t)[n].value]

LEMMA ValuesType ==
    ASSUME TasksInv, NEW t \in Tasks, call[t] # NoCall
    PROVE  \A n \in DOMAIN Items(t) : Values(t)[n] = Items(t)[n].value /\ Values(t)[n] \in Nat
  <1>1. \A n \in DOMAIN Items(t) : Items(t)[n] \in Requests
    BY ItemsType
  <1> QED BY <1>1 DEF Values, Requests

LEMMA TotalMeans ==
    ASSUME TasksInv, NEW t \in Tasks, TaskInv(t), stage[t] \in {"ready", "ordering"}
    PROVE  Total(t) \in Nat /\ Total(t) = SumFunctionOnSet(Values(t), Batch(t))
  <1> DEFINE f == [n \in Batch(t) |-> Items(t)[n].value]
             v == Values(t)
             B == Batch(t)
  <1>1. next[t] \in B /\ B \subseteq DOMAIN Items(t) /\ IsFiniteSet(B)
    BY BatchMeans DEF Batch
  <1>2. call[t] # NoCall
    BY DEF TaskInv
  <1>3. \A n \in B : f[n] = v[n] /\ f[n] \in Nat
    BY <1>1, <1>2, ValuesType
  <1>4. Total(t) = SumFunctionOnSet(f, B)
    BY DEF Total, SumFunction
  <1> HIDE DEF f, v, B
  <1>5. SumFunctionOnSet(f, B) = SumFunctionOnSet(v, B) /\ SumFunctionOnSet(f, B) \in Nat
    BY <1>1, <1>3, SumSame, SumTakes
  <1> QED BY <1>4, <1>5 DEF v, B

(***************************************************************************)
(* What is sent and what is made has its shape.                            *)
(***************************************************************************)
LEMMA ExecutionOf ==
    ASSUME TypeOK, NEW t \in Tasks, call[t] # NoCall
    PROVE  call[t].execution \in Executions
  BY DEF TypeOK, Calls

LEMMA OrderType ==
    ASSUME IInv, TypeOK, NEW t \in Tasks, stage[t] = "ordering"
    PROVE  Order(t) \in Orders /\ Order(t).first = next[t] /\ Order(t).total = Total(t) /\ Order(t).task = t
  <1>1. TasksInv /\ TaskInv(t) /\ ClientInv
    BY DEF IInv
  <1>2. call[t] # NoCall /\ call[t].client \in DOMAIN issued
    BY <1>1 DEF TaskInv
  <1>3. call[t].execution \in Executions
    BY <1>2, ExecutionOf
  <1>4. next[t] \in Nat \ {0}
    BY DEF TypeOK
  <1>5. Total(t) \in Nat
    BY <1>1, TotalMeans
  <1>6. Account(t) \in Accounts
    <2>1. issued[call[t].client] \in Bound
      BY <1>1, <1>2 DEF ClientInv
    <2>2. Client(t).wires \in Wires
      BY <2>1 DEF Client, Bound
    <2> QED BY <1>3, <2>2 DEF Account, Accounts
  <1>7. KeyOfOrder(t) \in Keys
    <2> DEFINE keyed == {n \in Batch(t) : KeyOf(t, n) # NoKey}
    <2>1. KeyOfOrder(t) = IF keyed = {} THEN NoKey ELSE KeyOf(t, Min(keyed))
      BY DEF KeyOfOrder, KeyOf
    <2>2. keyed # {} => Min(keyed) \in keyed
      <3>1. keyed \in SUBSET Nat
        BY <1>1, BatchType
      <3> HIDE DEF keyed
      <3> QED BY <3>1, MinIsIn
    <2>3. \A n \in Batch(t) : KeyOf(t, n) \in Keys
      <3> TAKE n \in Batch(t)
      <3>1. Items(t)[n] \in Requests
        BY <1>1, BatchMeans
      <3>2. Items(t)[n].key \in Keys
        BY <3>1 DEF Requests
      <3>3. call[t].execution.key \in Keys
        BY <1>3 DEF Keys
      <3> QED BY <3>2, <3>3 DEF KeyOf
    <2>4. NoKey \in Keys
      BY DEF Keys
    <2> HIDE DEF keyed
    <2>5. CASE keyed = {}
      BY <2>1, <2>4, <2>5
    <2>6. CASE keyed # {}
      <3>1. Min(keyed) \in Batch(t)
        BY <2>2, <2>6 DEF keyed
      <3> QED BY <2>1, <2>3, <2>6, <3>1
    <2> QED BY <2>5, <2>6
  <1> QED BY <1>4, <1>5, <1>6, <1>7 DEF Order, Orders

MarkOf == [amount : Nat, mime : Mimes, first : Nat]

LEMMA MarkType ==
    ASSUME IInv, TypeOK, NEW t \in Tasks, stage[t] = "ordering", NEW n \in DOMAIN Items(t)
    PROVE  Mark(t, n) \in MarkOf /\ Mark(t, n).amount = Values(t)[n]
  <1>1. TasksInv /\ TaskInv(t)
    BY DEF IInv
  <1>2. call[t] # NoCall
    BY <1>1 DEF TaskInv
  <1>3. call[t].execution.mime \in Mimes
    BY <1>2, ExecutionOf DEF Mimes
  <1>4. Items(t)[n] \in Requests
    BY <1>1, BatchMeans
  <1>5. Items(t)[n].mime \in Mimes /\ Items(t)[n].allowed \subseteq Mimes
    BY <1>4 DEF Requests
  <1>6. \A mime \in Mimes : Output(mime, Items(t)[n].allowed) \in Mimes
    BY <1>5 DEF Output
  <1>7. Mime(t, n) \in Mimes
    BY <1>3, <1>5, <1>6 DEF Mime
  <1>8. Items(t)[n].value \in Nat /\ Values(t)[n] = Items(t)[n].value
    BY <1>1, <1>2, ValuesType
  <1>9. next[t] \in Nat
    BY DEF TypeOK
  <1> QED BY <1>7, <1>8, <1>9 DEF Mark, MarkOf

\* The marks of an order are those of its batch, after the ones before.
LEMMA MarksGrow ==
    ASSUME IInv, TypeOK, NEW t \in Tasks, Accepted(t)
    PROVE  /\ marks'[t] \in Seq(MarkOf) /\ marks[t] \in Seq(MarkOf)
           /\ Len(marks'[t]) = Len(marks[t]) + Cardinality(Batch(t))
           /\ \A n \in 1 .. Len(marks[t]) : marks'[t][n] = marks[t][n]
           /\ \A k \in 1 .. Cardinality(Batch(t)) :
                 marks'[t][Len(marks[t]) + k].amount = Values(t)[next[t] + k - 1]
           /\ marks' = [marks EXCEPT ![t] = marks'[t]]
  <1> DEFINE size == Cardinality(Batch(t))
             more == [k \in 1 .. size |-> Mark(t, next[t] + k - 1)]
             old  == marks[t]
  <1>1. TasksInv /\ TaskInv(t) /\ stage[t] = "ordering"
    BY DEF IInv, Accepted
  <1>2. size \in Nat /\ \A k \in 1 .. size : next[t] + k - 1 \in DOMAIN Items(t)
    <2>1. CASE AtOnce(t)
      BY <1>1, <2>1, BatchMeans
    <2>2. CASE ~AtOnce(t)
      BY <1>1, <2>2, BatchMeans
    <2> QED BY <2>1, <2>2
  <1>3. \A k \in 1 .. size : /\ Mark(t, next[t] + k - 1) \in MarkOf
                             /\ Mark(t, next[t] + k - 1).amount = Values(t)[next[t] + k - 1]
    BY <1>1, <1>2, MarkType
  <1>4. marks' = [marks EXCEPT ![t] = old \o more]
    BY DEF Accepted
  <1>5. marks \in [Tasks -> Seq(MarkOf)]
    BY DEF TypeOK, MarkOf
  <1>6. marks'[t] = old \o more /\ old \in Seq(MarkOf) /\ marks' = [marks EXCEPT ![t] = marks'[t]]
    BY <1>4, <1>5
  <1>7. more \in Seq(MarkOf) /\ Len(more) = size
    <2> HIDE DEF size
    <2> QED BY <1>2, <1>3
  <1>8. \A k \in 1 .. size : more[k].amount = Values(t)[next[t] + k - 1]
    BY <1>3
  <1> HIDE DEF more, old, size
  <1>9. /\ old \o more \in Seq(MarkOf) /\ Len(old \o more) = Len(old) + size
        /\ \A n \in 1 .. Len(old) : (old \o more)[n] = old[n]
        /\ \A k \in 1 .. size : (old \o more)[Len(old) + k] = more[k]
    <2>1. old \o more \in Seq(MarkOf) /\ Joins(old \o more, old, more)
      BY <1>6, <1>7, Concatenation, Zenon
    <2> QED BY <1>7, <2>1, Zenon DEF Joins
  <1>10. \A k \in 1 .. size : marks'[t][Len(marks[t]) + k].amount = Values(t)[next[t] + k - 1]
    BY <1>6, <1>8, <1>9 DEF old
  <1> QED BY <1>6, <1>9, <1>10 DEF old, size

LEMMA SettledType ==
    ASSUME IInv, TypeOK, NEW t \in Tasks, stage[t] = "ordering", NEW paid \in BOOLEAN, NEW accepted \in BOOLEAN
    PROVE  Settled(t, paid, accepted) \subseteq [order : Orders, paid : BOOLEAN, accepted : BOOLEAN]
  <1>1. Order(t) \in Orders
    BY OrderType
  <1> QED BY <1>1 DEF Settled, TypeOK

LEMMA PlacesTypes ==
    ASSUME IInv, TypeOK, NEW t \in Tasks, Places(t)
    PROVE  /\ stage' \in [Tasks -> {"idle", "ready", "ordering", "done"}]
           /\ call' = call
           /\ next' \in [Tasks -> Nat \ {0}]
           /\ marks' \in [Tasks -> Seq(MarkOf)]
           /\ result' \in [Tasks -> {"none", "marks", "refused", "doubt"}]
           /\ orders' \subseteq [order : Orders, paid : BOOLEAN, accepted : BOOLEAN]
           /\ trace' \in [1 .. MaxBound -> Orders \union {NoOrder}]
  <1>1. TasksInv /\ TaskInv(t)
    BY DEF IInv
  <1>2. stage[t] = "ordering" /\ call' = call
    BY <1>1, KindsOfSteps
  <1>3. TasksInv'
    BY TasksStep
  <1>4. orders' \subseteq [order : Orders, paid : BOOLEAN, accepted : BOOLEAN]
    <2>1. PICK paid \in BOOLEAN, accepted \in BOOLEAN : orders' = Settled(t, paid, accepted)
      BY <1>1, KindsOfSteps
    <2> QED BY <1>2, <2>1, SettledType
  <1>5. trace' \in [1 .. MaxBound -> Orders \union {NoOrder}]
    <2>1. Order(t) \in Orders
      BY <1>2, OrderType
    <2>2. trace' = trace \/ trace' = [trace EXCEPT ![call[t].client] = Order(t)]
      BY DEF Places, Accepted, AcceptedWithoutLink, Refused, Doubtful, Traced
    <2> QED BY <2>1, <2>2 DEF TypeOK
  <1>6. next' \in [Tasks -> Nat \ {0}] /\ marks' \in [Tasks -> Seq(MarkOf)]
    <2>1. CASE Accepted(t)
      <3>1. next' = [next EXCEPT ![t] = Max(Batch(t)) + 1]
        BY <2>1 DEF Accepted
      <3>2. Max(Batch(t)) + 1 \in Nat \ {0}
        BY <1>1, <1>2, BatchMeans
      <3>3. next \in [Tasks -> Nat \ {0}] /\ marks \in [Tasks -> Seq(MarkOf)]
        BY DEF TypeOK, MarkOf
      <3>4. marks'[t] \in Seq(MarkOf) /\ marks' = [marks EXCEPT ![t] = marks'[t]]
        BY <2>1, MarksGrow
      <3>5. marks' \in [Tasks -> Seq(MarkOf)]
        BY <3>3, <3>4
      <3> QED BY <3>1, <3>2, <3>3, <3>5
    <2>2. CASE ~Accepted(t)
      <3>1. next' = next /\ marks' = marks
        BY <2>2 DEF Places, AcceptedWithoutLink, Refused, Doubtful
      <3> QED BY <3>1 DEF TypeOK, MarkOf
    <2> QED BY <2>1, <2>2
  <1> QED BY <1>2, <1>3, <1>4, <1>5, <1>6 DEF TasksInv

TypesInv == TypeOK /\ Len(issued) <= MaxBound

LEMMA TypesInitially == Init => TypesInv
  <1> SUFFICES ASSUME Init PROVE TypesInv
    OBVIOUS
  <1>1. ClientTypeOK /\ Len(issued) <= MaxBound
    <2>1. CatalogProvider \in Ids
      BY ProvidersAssumption DEF Init, ClientInit
    <2> QED BY <2>1, ProvidersAssumption DEF Init, ClientInit, ClientTypeOK, NoClients
  <1>2. marks \in [Tasks -> Seq([amount : Nat, mime : Mimes, first : Nat])]
    BY DEF Init
  <1>3. call \in [Tasks -> Calls]
    BY DEF Init, Calls
  <1> QED BY <1>1, <1>2, <1>3 DEF Init, TypesInv, TypeOK

LEMMA TypesStep ==
    ASSUME IInv, TypesInv, [Next]_vars
    PROVE  TypesInv'
  <1>1. ClientTypeOK' /\ Len(issued)' <= MaxBound
    BY ClientTypedStep DEF IInv, TypesInv, TypeOK, ClientTyped
  <1>2. TasksInv /\ TypeOK /\ ClientTyped
    BY DEF IInv, TypesInv, TypeOK, ClientTyped
  <1>3. CASE ClientActs
    BY <1>1, <1>2, <1>3 DEF ClientActs, executionVars, TypesInv, TypeOK
  <1>4. ASSUME NEW t \in Tasks, Start(t)
        PROVE  TypesInv'
    <2>1. TasksInv'
      BY <1>4, TasksStep DEF NoOrderPlaced
    <2>2. UNCHANGED <<next, marks, orders, trace>>
      BY <1>4 DEF Start
    <2>3. PICK i \in DOMAIN issued, ask \in Asks, execution \in Executions :
             call' = [call EXCEPT ![t] = Call(i, ask, execution)]
      BY <1>4 DEF Start
    <2>4. Call(i, ask, execution) \in Calls
      BY <1>2, MadeCalls
    <2>5. call' \in [Tasks -> Calls]
      BY <1>2, <2>3, <2>4 DEF TypeOK
    <2> QED BY <1>1, <1>2, <2>1, <2>2, <2>5 DEF TasksInv, TypesInv, TypeOK
  <1>5. ASSUME NEW t \in Tasks, OrderRefused(t) \/ Send(t)
        PROVE  TypesInv'
    <2>1. TasksInv'
      BY <1>5, TasksStep DEF NoOrderPlaced
    <2>2. UNCHANGED <<call, next, marks, orders, trace>>
      BY <1>5 DEF OrderRefused, Send
    <2> QED BY <1>1, <1>2, <2>1, <2>2 DEF TasksInv, TypesInv, TypeOK
  <1>6. ASSUME NEW t \in Tasks, Places(t)
        PROVE  TypesInv'
    BY <1>1, <1>2, <1>6, PlacesTypes DEF TypesInv, TypeOK, MarkOf
  <1> QED BY <1>3, <1>4, <1>5, <1>6, StepsAre DEF NoOrderPlaced

LEMMA TypesHold == Spec => []TypesInv
  <1>1. IInv /\ TypesInv /\ [Next]_vars => TypesInv'
    BY TypesStep
  <1> QED BY <1>1, TypesInitially, InvariantHolds, PTL DEF Spec

(***************************************************************************)
(* Calls, orders, marks and traces have their shape, in lists of any       *)
(* length and for any ProviderClients and executions                       *)
(* (porto_execution.py:162-236, adapter.py:176-240).                       *)
(***************************************************************************)
THEOREM ExecutionTypes == Spec => []TypeOK
  <1>1. TypesInv => TypeOK
    BY DEF TypesInv
  <1> QED BY <1>1, TypesHold, PTL

(***************************************************************************)
(* The marks of a call are those of the items before the next, and what    *)
(* was paid for the orders so far is what those items cost.                *)
(***************************************************************************)
Totals(t) == [o \in PaidBy(t) |-> o.order.total]

Adds(t) ==
    /\ Len(marks[t]) + 1 = next[t]
    /\ \A n \in 1 .. Len(marks[t]) : marks[t][n].amount = Values(t)[n]
    /\ IsFiniteSet(PaidBy(t))
    /\ \A o \in PaidBy(t) : o.order.first < next[t]
    /\ SumFunction(Totals(t)) = SumFunctionOnSet(Values(t), 1 .. (next[t] - 1))

MarksInv(t) ==
    /\ stage[t] = "idle" => marks[t] = <<>>
    /\ stage[t] \in {"ready", "ordering"} => result[t] = "none" /\ Adds(t)
    /\ result[t] = "marks" => stage[t] = "done" /\ Adds(t) /\ next[t] = Len(Items(t)) + 1

\* One more order is paid.
LEMMA OneMorePaid ==
    ASSUME IInv, TypeOK, TypeOK', NEW t \in Tasks, Adds(t), Accepted(t)
    PROVE  /\ IsFiniteSet(PaidBy(t)')
           /\ \A o \in PaidBy(t)' : o.order.first <= next[t]
           /\ SumFunction(Totals(t)') = Total(t) + SumFunction(Totals(t))
  <1>1. stage[t] = "ordering" /\ orders' = Settled(t, TRUE, TRUE)
    BY DEF Accepted
  <1>2. PICK new : new = [order |-> Order(t), paid |-> TRUE, accepted |-> TRUE]
    OBVIOUS
  <1> DEFINE P == PaidBy(t)
             Q == PaidBy(t)'
             f == Totals(t)
             g == Totals(t)'
  <1>3. /\ new.order = Order(t) /\ new.paid
        /\ Order(t).task = t /\ Order(t).first = next[t] /\ Order(t).total = Total(t)
    BY <1>1, <1>2, OrderType
  <1>4. Q = P \union {new}
    <2>1. orders' = orders \union {new}
      BY <1>1, <1>2 DEF Settled
    <2> QED BY <1>3, <2>1 DEF PaidBy, PlacedBy
  <1>5. IsFiniteSet(P) /\ \A o \in P : o.order.first < next[t]
    BY DEF Adds
  <1>6. next[t] \in Nat
    BY DEF TypeOK
  <1>7. new \notin P
    BY <1>3, <1>5, <1>6
  <1>8. \A o \in Q : g[o] = o.order.total /\ g[o] \in Nat
    <2> SUFFICES ASSUME NEW o \in Q PROVE g[o] = o.order.total /\ g[o] \in Nat
      OBVIOUS
    <2>1. g[o] = o.order.total
      BY DEF Totals
    <2>2. o \in orders'
      BY DEF PaidBy, PlacedBy
    <2>3. o \in [order : Orders, paid : BOOLEAN, accepted : BOOLEAN]
      BY <2>2 DEF TypeOK
    <2>4. o.order.total \in Nat
      BY <2>3 DEF Orders
    <2> QED BY <2>1, <2>4
  <1>9. \A o \in P : f[o] = o.order.total
    BY DEF Totals
  <1>10. SumFunction(f) = SumFunctionOnSet(f, P) /\ SumFunction(g) = SumFunctionOnSet(g, Q)
    BY DEF Totals, SumFunction
  <1>11. \A o \in P : o.order.first <= next[t]
    <2> SUFFICES ASSUME NEW o \in P PROVE o.order.first <= next[t]
      OBVIOUS
    <2>1. o \in [order : Orders, paid : BOOLEAN, accepted : BOOLEAN]
      BY DEF PaidBy, PlacedBy, TypeOK
    <2>2. o.order.first \in Nat
      BY <2>1 DEF Orders
    <2> QED BY <1>5, <1>6, <2>2
  <1> HIDE DEF P, Q, f, g
  <1>12. IsFiniteSet(Q)
    BY <1>4, <1>5, FS_AddElement
  <1>13. new \in Q /\ Q \ {new} = P
    BY <1>4, <1>7
  <1>14. SumFunctionOnSet(g, Q) = g[new] + SumFunctionOnSet(g, P)
    BY <1>8, <1>12, <1>13, SumTakes
  <1>15. SumFunctionOnSet(g, P) = SumFunctionOnSet(f, P)
    <2>1. \A o \in P : g[o] \in Nat /\ f[o] = g[o]
      BY <1>8, <1>9, <1>13
    <2> QED BY <1>5, <2>1, SumSame
  <1>16. g[new] = Total(t)
    BY <1>3, <1>8, <1>13
  <1>17. \A o \in Q : o.order.first <= next[t]
    BY <1>3, <1>4, <1>6, <1>11
  <1> QED BY <1>10, <1>12, <1>14, <1>15, <1>16, <1>17 DEF Q, f, g

LEMMA AcceptedAdds ==
    ASSUME IInv, TypeOK, TypeOK', NEW t \in Tasks, Adds(t), Accepted(t), Items(t)' = Items(t)
    PROVE  Adds(t)'
  <1> DEFINE size == Cardinality(Batch(t))
             v == Values(t)
             len == Len(Items(t))
  <1>1. TasksInv /\ TaskInv(t) /\ stage[t] = "ordering"
    BY DEF IInv, Accepted
  <1>2. call[t] # NoCall
    BY <1>1 DEF TaskInv
  <1>3. len \in Nat /\ DOMAIN Items(t) = 1 .. len /\ next[t] \in 1 .. len
    BY <1>1, BatchMeans
  <1>4. \A n \in 1 .. len : v[n] \in Nat
    BY <1>1, <1>2, <1>3, ValuesType
  <1>5. next'[t] = Max(Batch(t)) + 1
    BY <1>1, NextType
  <1>6. Values(t)' = v
    BY DEF Values
  <1>7. /\ Total(t) \in Nat /\ Total(t) = SumFunctionOnSet(v, Batch(t))
        /\ SumFunction(Totals(t)) = SumFunctionOnSet(v, 1 .. (next[t] - 1))
    BY <1>1, TotalMeans DEF Adds
  <1>8. /\ size = next'[t] - next[t] /\ next'[t] \in Nat /\ next[t] < next'[t] /\ size \in Nat
        /\ Total(t) + SumFunctionOnSet(v, 1 .. (next[t] - 1)) = SumFunctionOnSet(v, 1 .. (next'[t] - 1))
    <2>1. CASE AtOnce(t)
      <3>1. next[t] = 1 /\ Batch(t) = 1 .. len /\ size = len /\ next'[t] = len + 1
        BY <1>1, <1>3, <1>5, <2>1, BatchMeans
      <3>2. 1 .. (next[t] - 1) = {} /\ 1 .. (next'[t] - 1) = Batch(t)
        BY <1>3, <3>1
      <3>3. SumFunctionOnSet(v, 1 .. (next[t] - 1)) = 0
        BY <3>2, SumEmpty
      <3>4. Total(t) + 0 = Total(t)
        BY <1>7
      <3>5. SumFunctionOnSet(v, 1 .. (next'[t] - 1)) = Total(t)
        BY <1>7, <3>2
      <3>6. size = next'[t] - next[t] /\ next'[t] \in Nat /\ next[t] < next'[t] /\ size \in Nat
        BY <1>3, <3>1
      <3> QED BY <3>3, <3>4, <3>5, <3>6
    <2>2. CASE ~AtOnce(t)
      <3> DEFINE m == next[t]
                 S == 1 .. m
      <3>1. Batch(t) = {m} /\ size = 1 /\ next'[t] = m + 1 /\ m \in Nat /\ m >= 1
        BY <1>1, <1>3, <1>5, <2>2, BatchMeans
      <3>2. m \in S /\ S \ {m} = 1 .. (m - 1) /\ \A n \in S : v[n] \in Nat
        BY <1>3, <1>4, <3>1
      <3>3. IsFiniteSet(S)
        <4> HIDE DEF m
        <4> QED BY <3>1, FS_Interval
      <3> HIDE DEF m, S, v
      <3>4. SumFunctionOnSet(v, S) = v[m] + SumFunctionOnSet(v, S \ {m})
        BY <3>2, <3>3, SumTakes
      <3>5. SumFunctionOnSet(v, {m}) = v[m]
        BY <3>2, SumOne
      <3>6. next'[t] - 1 = m /\ size = next'[t] - m /\ next'[t] \in Nat /\ m < next'[t] /\ size \in Nat
        BY <3>1
      <3> QED BY <1>7, <3>1, <3>2, <3>4, <3>5, <3>6 DEF m, S
    <2> QED BY <2>1, <2>2
  <1>9. /\ IsFiniteSet(PaidBy(t)')
        /\ \A o \in PaidBy(t)' : o.order.first <= next[t]
        /\ SumFunction(Totals(t)') = Total(t) + SumFunction(Totals(t))
    BY OneMorePaid
  <1>10. \A o \in PaidBy(t)' : o.order.first < next'[t]
    <2> SUFFICES ASSUME NEW o \in PaidBy(t)' PROVE o.order.first < next'[t]
      OBVIOUS
    <2>1. o \in [order : Orders, paid : BOOLEAN, accepted : BOOLEAN]
      BY DEF PaidBy, PlacedBy, TypeOK
    <2>2. o.order.first \in Nat
      BY <2>1 DEF Orders
    <2> QED BY <1>3, <1>8, <1>9, <2>2
  <1>11. Len(marks[t]) + 1 = next[t] /\ \A n \in 1 .. Len(marks[t]) : marks[t][n].amount = v[n]
    BY DEF Adds
  <1>12. /\ marks'[t] \in Seq(MarkOf) /\ marks[t] \in Seq(MarkOf)
         /\ Len(marks'[t]) = Len(marks[t]) + size
         /\ \A n \in 1 .. Len(marks[t]) : marks'[t][n] = marks[t][n]
         /\ \A k \in 1 .. size : marks'[t][Len(marks[t]) + k].amount = v[next[t] + k - 1]
    BY MarksGrow
  <1> DEFINE had == Len(marks[t])
             has == Len(marks'[t])
             m == next[t]
  <1>13. /\ had \in Nat /\ has \in Nat /\ m \in Nat /\ size \in Nat
         /\ had + 1 = m /\ has = had + size /\ size = next'[t] - m
    <2>1. m \in Nat
      BY <1>3
    <2> HIDE DEF size, m
    <2> QED BY <1>8, <1>11, <1>12, <2>1 DEF m
  <1>14. \A n \in 1 .. had : marks'[t][n].amount = v[n]
    BY <1>11, <1>12
  <1>15. \A k \in 1 .. size : marks'[t][had + k].amount = v[m + k - 1]
    BY <1>12
  <1>16. next'[t] \in Nat
    BY <1>8
  <1> HIDE DEF size, v, len, had, has, m
  <1>17. has + 1 = next'[t]
    BY <1>13, <1>16
  <1>18. \A n \in 1 .. has : marks'[t][n].amount = v[n]
    <2> TAKE n \in 1 .. has
    <2>1. CASE n <= had
      BY <1>13, <1>14, <2>1
    <2>2. CASE ~(n <= had)
      <3> DEFINE k == n - had
      <3>1. k \in 1 .. size /\ had + k = n /\ m + k - 1 = n
        BY <1>13, <2>2
      <3> HIDE DEF k
      <3> QED BY <1>15, <3>1
    <2> QED BY <2>1, <2>2
  <1> QED BY <1>6, <1>7, <1>8, <1>9, <1>10, <1>17, <1>18 DEF Adds, has

\* What a task has is the same as long as nobody orders for it.
LEMMA AddsStays ==
    ASSUME NEW t \in Tasks, Adds(t), next'[t] = next[t], marks'[t] = marks[t],
           PlacedBy(t)' = PlacedBy(t), Items(t)' = Items(t)
    PROVE  Adds(t)'
  <1>1. PaidBy(t)' = PaidBy(t)
    BY DEF PaidBy
  <1>2. Totals(t)' = Totals(t) /\ Values(t)' = Values(t)
    BY <1>1 DEF Totals, Values
  <1> QED BY <1>1, <1>2 DEF Adds

LEMMA MarksUntouched ==
    ASSUME ClientInv, [Next]_vars, NEW t \in Tasks, TaskInv(t), MarksInv(t),
           stage'[t] = stage[t], call'[t] = call[t], next'[t] = next[t], result'[t] = result[t],
           marks'[t] = marks[t], PlacedBy(t)' = PlacedBy(t)
    PROVE  MarksInv(t)'
  <1>1. CASE stage[t] = "idle"
    BY <1>1 DEF MarksInv, TaskInv
  <1>2. CASE stage[t] # "idle"
    <2>1. Items(t)' = Items(t)
      BY <1>2, AtOnceStays DEF TaskInv
    <2>2. Adds(t) => Adds(t)'
      BY <2>1, AddsStays
    <2> QED BY <1>2, <2>1, <2>2 DEF MarksInv
  <1> QED BY <1>1, <1>2

\* Nothing is made and nothing paid before the first item.
LEMMA NothingAdds ==
    ASSUME NEW t \in Tasks, marks[t] = <<>>, next[t] = 1, PlacedBy(t) = {}
    PROVE  Adds(t)
  <1>1. PaidBy(t) = {} /\ IsFiniteSet({})
    BY FS_EmptySet DEF PaidBy
  <1>2. DOMAIN Totals(t) = {} /\ 1 .. (next[t] - 1) = {}
    BY <1>1 DEF Totals
  <1>3. SumFunction(Totals(t)) = 0 /\ SumFunctionOnSet(Values(t), 1 .. (next[t] - 1)) = 0
    BY <1>2, SumEmpty DEF SumFunction
  <1>4. Len(marks[t]) = 0
    OBVIOUS
  <1> QED BY <1>1, <1>3, <1>4 DEF Adds

LEMMA StartMarks ==
    ASSUME IInv, NEW t \in Tasks, MarksInv(t), Start(t)
    PROVE  MarksInv(t)'
  <1>1. /\ TasksInv /\ PlacedBy(t) = {} /\ result[t] = "none" /\ next[t] = 1
        /\ marks[t] = <<>>
    BY DEF IInv, TaskInv, Start, MarksInv
  <1>2. marks' = marks /\ next' = next /\ orders' = orders
    BY DEF Start
  <1>3. PlacedBy(t)' = {}
    BY <1>1, <1>2 DEF PlacedBy
  <1>4. marks'[t] = <<>> /\ next'[t] = 1
    BY <1>1, <1>2
  <1>5. (marks[t] = <<>> /\ next[t] = 1 /\ PlacedBy(t) = {} => Adds(t))'
    BY NothingAdds, PTL
  <1>6. Adds(t)'
    BY <1>3, <1>4, <1>5
  <1>7. \/ stage'[t] = "ready" /\ result'[t] = "none"
        \/ stage'[t] = "done" /\ result'[t] = "refused"
    BY <1>1 DEF Start, End, TasksInv
  <1> QED BY <1>6, <1>7 DEF MarksInv

LEMMA ReadyMarks ==
    ASSUME IInv, [Next]_vars, NEW t \in Tasks, MarksInv(t), OrderRefused(t) \/ Send(t)
    PROVE  MarksInv(t)'
  <1>1. ClientInv /\ TasksInv /\ TaskInv(t)
    BY DEF IInv
  <1>2. /\ stage[t] = "ready" /\ call' = call /\ next' = next /\ marks' = marks /\ orders' = orders
        /\ \/ stage'[t] = "ordering" /\ result'[t] = result[t]
           \/ stage'[t] = "done" /\ result'[t] = "refused"
    BY <1>1 DEF OrderRefused, Send, End, TasksInv
  <1>3. call[t].client \in DOMAIN issued
    BY <1>1, <1>2 DEF TaskInv
  <1>4. Items(t)' = Items(t) /\ PlacedBy(t)' = PlacedBy(t)
    BY <1>1, <1>2, <1>3, AtOnceStays DEF PlacedBy
  <1>5. Adds(t) /\ result[t] = "none"
    BY <1>2 DEF MarksInv
  <1>6. Adds(t)'
    BY <1>2, <1>4, <1>5, AddsStays
  <1> QED BY <1>2, <1>5, <1>6 DEF MarksInv

LEMMA PlacesMarks ==
    ASSUME IInv, TypeOK, TypeOK', [Next]_vars, NEW t \in Tasks, MarksInv(t), Places(t)
    PROVE  MarksInv(t)'
  <1>1. ClientInv /\ TasksInv /\ TaskInv(t)
    BY DEF IInv
  <1>2. stage[t] = "ordering" /\ call' = call
    BY <1>1, KindsOfSteps
  <1>3. Items(t)' = Items(t)
    BY <1>1, <1>2, AtOnceStays DEF TaskInv
  <1>4. CASE Accepted(t)
    <2>1. Adds(t) /\ result[t] = "none"
      BY <1>2 DEF MarksInv
    <2>2. Adds(t)'
      BY <1>3, <1>4, <2>1, AcceptedAdds
    <2>3. \/ next'[t] \in DOMAIN Items(t) /\ stage'[t] = "ready" /\ result'[t] = result[t]
          \/ next'[t] \notin DOMAIN Items(t) /\ stage'[t] = "done" /\ result'[t] = "marks"
      BY <1>1, <1>4 DEF Accepted, End, TasksInv
    <2>4. next'[t] \notin DOMAIN Items(t) => next'[t] = Len(Items(t)) + 1
      <3> DEFINE len == Len(Items(t))
      <3>1. /\ len \in Nat /\ DOMAIN Items(t) = 1 .. len /\ next[t] \in 1 .. len
            /\ Max(Batch(t)) \in {len, next[t]} /\ next'[t] = Max(Batch(t)) + 1
        BY <1>1, <1>2, <1>4, BatchMeans, NextType
      <3> HIDE DEF len
      <3> QED BY <3>1 DEF len
    <2> QED BY <1>3, <2>1, <2>2, <2>3, <2>4 DEF MarksInv
  <1>5. CASE AcceptedWithoutLink(t) \/ Refused(t) \/ Doubtful(t)
    <2>1. stage'[t] = "done" /\ result'[t] \in {"refused", "doubt"}
      BY <1>1, <1>5 DEF AcceptedWithoutLink, Refused, Doubtful, End, TasksInv
    <2> QED BY <2>1 DEF MarksInv
  <1> QED BY <1>4, <1>5 DEF Places

LEMMA MarksOfOthers ==
    ASSUME TypeOK, NEW t \in Tasks, Places(t) \/ NoOrderPlaced(t), NEW s \in Tasks, s # t
    PROVE  marks'[s] = marks[s]
  BY DEF TypeOK, Places, NoOrderPlaced, Start, OrderRefused, Send, Accepted, AcceptedWithoutLink,
         Refused, Doubtful

LEMMA MarksStep ==
    ASSUME IInv, TypeOK, TypeOK', [Next]_vars, \A t \in Tasks : MarksInv(t)
    PROVE  \A t \in Tasks : MarksInv(t)'
  <1>1. ClientInv /\ TasksInv /\ \A t \in Tasks : TaskInv(t)
    BY DEF IInv
  <1>2. CASE ClientActs
    <2>1. \A t \in Tasks : PlacedBy(t)' = PlacedBy(t)
      BY <1>2 DEF PlacedBy, ClientActs, executionVars
    <2> QED BY <1>1, <1>2, <2>1, MarksUntouched DEF ClientActs, executionVars
  <1>3. ASSUME NEW t \in Tasks, Places(t) \/ NoOrderPlaced(t), NEW s \in Tasks
        PROVE  MarksInv(s)'
    <2>1. CASE s = t
      BY <1>3, <2>1, PlacesMarks, StartMarks, ReadyMarks DEF NoOrderPlaced
    <2>2. CASE s # t
      <3>1. PlacedBy(s)' = PlacedBy(s) /\ marks'[s] = marks[s]
        BY <1>1, <1>3, <2>2, PlacedByOthers, MarksOfOthers
      <3>2. stage'[s] = stage[s] /\ call'[s] = call[s] /\ next'[s] = next[s] /\ result'[s] = result[s]
        BY <1>1, <1>3, <2>2, KindsOfSteps DEF OtherTasksKept
      <3> QED BY <1>1, <3>1, <3>2, MarksUntouched
    <2> QED BY <2>1, <2>2
  <1> QED BY <1>2, <1>3, StepsAre

LEMMA MarksInitially == Init => \A t \in Tasks : MarksInv(t)
  BY DEF Init, MarksInv

LEMMA MarksMean ==
    ASSUME IInv, TypeOK, \A t \in Tasks : MarksInv(t)
    PROVE  MarksAddUp
  <1> SUFFICES ASSUME NEW t \in Tasks, result[t] = "marks"
               PROVE  /\ [n \in DOMAIN marks[t] |-> marks[t][n].amount] = Values(t)
                      /\ SumFunction([n \in DOMAIN marks[t] |-> marks[t][n].amount]) = SumFunction(Totals(t))
    BY DEF MarksAddUp, Values, Totals
  <1>1. stage[t] = "done" /\ Adds(t) /\ next[t] = Len(Items(t)) + 1 /\ TaskInv(t) /\ TasksInv
    BY DEF MarksInv, IInv
  <1>2. call[t] # NoCall
    BY <1>1 DEF TaskInv
  <1> DEFINE len == Len(Items(t))
  <1>3. len \in Nat /\ DOMAIN Items(t) = 1 .. len
    BY <1>1, <1>2, ItemsType
  <1>4. DOMAIN marks[t] = 1 .. Len(marks[t]) /\ Len(marks[t]) \in Nat
    BY DEF TypeOK
  <1>5. Len(marks[t]) + 1 = next[t]
    BY <1>1 DEF Adds
  <1>6. Len(marks[t]) = len /\ next[t] - 1 = len
    <2> HIDE DEF len
    <2> QED BY <1>1, <1>3, <1>4, <1>5 DEF len
  <1>7. [n \in DOMAIN marks[t] |-> marks[t][n].amount] = Values(t)
    <2>1. \A n \in DOMAIN marks[t] : marks[t][n].amount = Values(t)[n]
      BY <1>1, <1>4 DEF Adds
    <2>2. DOMAIN marks[t] = DOMAIN Items(t)
      BY <1>3, <1>4, <1>6
    <2> QED BY <2>1, <2>2 DEF Values
  <1>8. SumFunction(Totals(t)) = SumFunctionOnSet(Values(t), DOMAIN Values(t))
    <2>1. DOMAIN Values(t) = 1 .. (next[t] - 1)
      BY <1>3, <1>6 DEF Values
    <2> QED BY <1>1, <2>1 DEF Adds
  <1> QED BY <1>7, <1>8 DEF SumFunction

(***************************************************************************)
(* A list that returns marks returns the mark of every item, in order, and *)
(* they add up to what was paid, for lists of any length, ordered at once  *)
(* or one by one (adapter.py:343-376).                                     *)
(***************************************************************************)
THEOREM MarksAddUpCorrect == Spec => []MarksAddUp
  <1> DEFINE Inv == \A t \in Tasks : MarksInv(t)
  <1>1. Init => Inv
    BY MarksInitially
  <1>2. IInv /\ TypeOK /\ TypeOK' /\ Inv /\ [Next]_vars => Inv'
    BY MarksStep
  <1>3. IInv /\ TypeOK /\ Inv => MarksAddUp
    BY MarksMean
  <1> HIDE DEF Inv
  <1> QED BY <1>1, <1>2, <1>3, InvariantHolds, ExecutionTypes, PTL DEF Spec
=============================================================================
