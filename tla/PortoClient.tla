----------------------------- MODULE PortoClient -----------------------------
(***************************************************************************)
(* PortoClient: the configuration, the ProviderClients it hands out, and   *)
(* the resolvers they share.  A ProviderClient keeps the wires it was made *)
(* with for good; update_credentials replaces the wires of one provider    *)
(* and forgets the ProviderClients, which their holders go on using.       *)
(***************************************************************************)
EXTENDS Naturals, Sequences

CONSTANTS
    Ids,               \* the provider ids that are asked for
    CatalogIds,        \* those of mappings.json
    DefaultProvider,   \* DEFAULT_PROVIDER
    Rank,              \* Rank[p]: where p stands when ids are sorted
    Wires,             \* the configurations of a provider's wires, NoWires included
    NoWires,
    Open,              \* a configuration without `providers'
    MaxBound           \* bound: how many ProviderClients are made

ASSUME ProvidersAssumption ==
    /\ DefaultProvider \in CatalogIds
    /\ CatalogIds \subseteq Ids
    /\ Rank \in [Ids -> Nat]
    /\ \A p, q \in Ids : Rank[p] = Rank[q] => p = q
    /\ NoWires \in Wires
    /\ MaxBound \in Nat

ASSUME OpenAssumption == \A ids \in SUBSET Ids : Open \notin [ids -> Wires]

VARIABLES
    config,     \* Open, or the wires of the providers that are configured
    resolvers,  \* resolvers[p]: the resolver of provider p
    made,       \* how many resolvers were made
    clients,    \* clients[p]: the index of the ProviderClient kept for p
    issued,     \* the ProviderClients that were handed out
    warm        \* the resolvers with answers in their caches

clientVars == <<config, resolvers, made, clients, issued, warm>>

Configs == {Open} \union UNION {[ids -> Wires] : ids \in SUBSET Ids}

Configured == IF config = Open THEN {} ELSE DOMAIN config

\* normalize: the first of the sorted ids, or the default.
CatalogProvider ==
    IF Configured = {}
    THEN DefaultProvider
    ELSE CHOOSE p \in Configured : \A q \in Configured : Rank[p] <= Rank[q]

WiresFor(p) == IF p \in Configured THEN config[p] ELSE NoWires

Allowed(p) == p \in CatalogIds /\ (config = Open \/ p \in Configured)

NoClients == [p \in {} |-> 0]

\* A client whose first provider is unknown cannot be made.
ClientInit ==
    /\ config \in Configs
    /\ CatalogProvider \in CatalogIds
    /\ resolvers = [p \in {CatalogProvider} |-> 1]
    /\ made = 1
    /\ clients = NoClients
    /\ issued = <<>>
    /\ warm = {}

BugResolverFor(p) ==
    IF p \in DOMAIN resolvers
    THEN UNCHANGED <<resolvers, made>>
    ELSE /\ made' = made
         /\ resolvers' = [q \in DOMAIN resolvers \union {p} |-> IF q = p THEN made + 1 ELSE resolvers[q]]

\* _resolver_for: the resolver of p, if there is one.
ResolverFor(p) ==
    IF p \in DOMAIN resolvers
    THEN UNCHANGED <<resolvers, made>>
    ELSE /\ made' = made + 1
         /\ resolvers' = [q \in DOMAIN resolvers \union {p} |-> IF q = p THEN made + 1 ELSE resolvers[q]]

\* A known ProviderClient is returned, and nothing changes.
ProviderKnown(p) ==
    /\ Allowed(p)
    /\ p \in DOMAIN clients
    /\ UNCHANGED clientVars

ProviderRefused(p) ==
    /\ ~Allowed(p)
    /\ UNCHANGED clientVars

ProviderMade(p) ==
    /\ Allowed(p)
    /\ p \notin DOMAIN clients
    /\ Len(issued) < MaxBound
    /\ ResolverFor(p)
    /\ issued' = Append(issued, [provider |-> p, wires |-> WiresFor(p), resolver |-> resolvers'[p]])
    /\ clients' = [q \in DOMAIN clients \union {p} |-> IF q = p THEN Len(issued) + 1 ELSE clients[q]]
    /\ UNCHANGED <<config, warm>>

BugNewConfig(wires) == [p \in {CatalogProvider} |-> wires]

NewConfig(wires) ==
    [p \in Configured \union {CatalogProvider} |-> IF p = CatalogProvider THEN wires ELSE config[p]]

BugKeepClients(wires) ==
    /\ config' = NewConfig(wires)
    /\ UNCHANGED <<resolvers, made, clients, issued, warm>>

BugDropResolvers(wires) ==
    /\ config' = NewConfig(wires)
    /\ clients' = NoClients
    /\ resolvers' = NoClients
    /\ UNCHANGED <<made, issued, warm>>

\* A configuration without `providers' has one from then on, which lists only
\* the provider that was updated.
UpdateCredentials(wires) ==
    /\ config' = NewConfig(wires)
    /\ clients' = NoClients
    /\ UNCHANGED <<resolvers, made, issued, warm>>

\* resolve() of a ProviderClient, with the cache enabled.
ResolveThrough(i) ==
    /\ warm' = warm \union {issued[i].resolver}
    /\ UNCHANGED <<config, resolvers, made, clients, issued>>

ClearCache ==
    /\ warm' = warm \ {resolvers[p] : p \in DOMAIN resolvers}
    /\ UNCHANGED <<config, resolvers, made, clients, issued>>

ClientNext ==
    \/ \E p \in Ids : ProviderKnown(p) \/ ProviderRefused(p) \/ ProviderMade(p)
    \/ \E wires \in Wires : UpdateCredentials(wires)
    \/ \E i \in DOMAIN issued : ResolveThrough(i)
    \/ ClearCache
-----------------------------------------------------------------------------
(* Properties *)

Bound == [provider : Ids, wires : Wires, resolver : Nat]

ClientTypeOK ==
    /\ config \in Configs
    /\ made \in Nat
    /\ DOMAIN resolvers \subseteq Ids /\ \A p \in DOMAIN resolvers : resolvers[p] \in 1 .. made
    /\ issued \in Seq(Bound)
    /\ DOMAIN clients \subseteq Ids /\ \A p \in DOMAIN clients : clients[p] \in DOMAIN issued
    /\ warm \subseteq 1 .. made

\* provider(id) never returns a ProviderClient with credentials that have been
\* replaced: those kept are of the configuration as it is
\* (client.py:134-146, 182-188).
CurrentCredentials ==
    \A p \in DOMAIN clients :
        /\ issued[clients[p]].provider = p
        /\ issued[clients[p]].wires = WiresFor(p)

\* clear_cache() reaches the cache behind every ProviderClient that anyone
\* holds, those from before an update_credentials() included, because all of
\* one provider share a resolver (client.py:85-97, 190-192).
OneResolver ==
    \A i \in DOMAIN issued :
        /\ issued[i].provider \in DOMAIN resolvers
        /\ issued[i].resolver = resolvers[issued[i].provider]

\* update_credentials() is about one provider, always the same: nobody else is
\* shut out or given other wires - when there were providers in the
\* configuration.  Without them it closes the allow-list around that provider
\* (client.py:178-186, config.py:157-163).
OthersKept ==
    [][/\ CatalogProvider' = CatalogProvider
       /\ config # Open =>
            \A p \in Ids \ {CatalogProvider} :
               (Allowed(p) <=> Allowed(p)') /\ WiresFor(p)' = WiresFor(p)]_clientVars
=============================================================================
