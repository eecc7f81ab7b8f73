----------------------------- MODULE Resolution -----------------------------
(***************************************************************************)
(* The pipeline of PortoResolver.resolve: a country is a zone, a weight is *)
(* a tier; the kinds of service that are asked for are bound to rows of    *)
(* the catalog or to what a product includes; one product is selected, the *)
(* selection of services is checked against it, and the parts are added    *)
(* up.  Every step may refuse, with the code of its PortoError.            *)
(*                                                                         *)
(* A request is a record of its fields; None stands for a field that is    *)
(* left out.  Country and product restrictions are facts that are attached *)
(* to the answer and decide nothing here.                                  *)
(***************************************************************************)
EXTENDS Integers, Sublists, SequencesExt, FiniteSets

CONSTANTS Catalog, None

\* kinds.py: the closed list of service kinds.
ServiceKinds ==
    {"registered", "registered_return_receipt", "tracking", "insurance",
     "return_receipt", "thickness", "acceptance_proof", "delivery_proof"}

Refusal(code) == [refused |-> code]

IsPorto(answer) == "product" \in DOMAIN answer

RefusalCodes ==
    {"PORTO_DATA_INVALID", "PORTO_DATA_NOT_FOUND", "PORTO_DESTINATION_INVALID", "PORTO_PRICE_NOT_FOUND",
     "PORTO_PRODUCT_AMBIGUOUS", "PORTO_PRODUCT_NOT_FOUND", "PORTO_SERVICE_AMBIGUOUS", "PORTO_SERVICE_UNSUPPORTED",
     "PORTO_SERVICES_INCOMPATIBLE", "PORTO_TOO_HEAVY"}

Rows == ToSet(Catalog.services)

Links == ToSet(Catalog.links)

Row(id) == CHOOSE row \in Rows : row.id = id

Ids(rows) == {row.id : row \in rows}

\* An empty list of zones or of products stands for all of them.
InZone(row, zone) == row.zones = {} \/ zone \in row.zones

OfProduct(row, product) == row.products = {} \/ product \in row.products

Offered(product, zone) == {row \in Rows : InZone(row, zone) /\ OfProduct(row, product)}

\* What the loader has checked of a catalog, and what its lists of rows rely on:
\* one row for an id, and links to products and tiers that there are.
ASSUME CatalogAssumption ==
    /\ Catalog.services \in Seq(Rows)
    /\ \A row, other \in Rows : row.id = other.id => row = other
    /\ Catalog.links \in Seq(Links)
    /\ \A link \in Links : link.product \in DOMAIN Catalog.products /\ link.tiers \subseteq DOMAIN Catalog.tiers
    /\ \A p \in DOMAIN Catalog.products : Catalog.products[p].tier \in {None} \union DOMAIN Catalog.tiers
    /\ IsFiniteSet(DOMAIN Catalog.tiers)
    /\ \A t \in DOMAIN Catalog.tiers : Catalog.tiers[t] \in Nat
    /\ None \notin RefusalCodes \union DOMAIN Catalog.products

\* A kind that is no kind is refused before there is a request.
Request ==
    [country : STRING, weight : Int, product : STRING \union {None}, envelope : STRING \union {None},
     preference : {None, "cheapest", "fastest", "economy"}, indemnity : STRING \union {None},
     kinds : Seq(ServiceKinds), pins : Seq(STRING)]

FirstFault(faults) ==
    LET i == SelectInSeq(faults, LAMBDA fault : fault # None)
    IN  IF i = 0 THEN None ELSE faults[i]
-----------------------------------------------------------------------------
(* Zone, tier and graph *)

\* Tiers adjoin: each begins where the one below it ends.
TiersFor(weight) ==
    {t \in DOMAIN Catalog.tiers :
        /\ 0 <= weight /\ weight <= Catalog.tiers[t]
        /\ \A u \in DOMAIN Catalog.tiers :
              weight <= Catalog.tiers[u] => Catalog.tiers[t] <= Catalog.tiers[u]}

Linked(link, zone, tier) == zone \in link.zones /\ tier \in link.tiers

\* A product without envelopes goes into any.
EnvelopeMatches(product, envelope) ==
    \/ envelope = None
    \/ Catalog.products[product].envelopes = {}
    \/ envelope \in Catalog.products[product].envelopes

\* The products of the graph for a zone and tier, in its order.
Candidates(zone, tier, envelope) ==
    LET links == Keep(Catalog.links, {link \in Links :
                                         /\ Linked(link, zone, tier)
                                         /\ EnvelopeMatches(link.product, envelope)})
    IN  [i \in DOMAIN links |-> links[i].product]

\* No product: too heavy if no tier of the zone takes the weight.
Unresolved(zone, weight) ==
    LET reached == UNION {link.tiers : link \in {l \in Links : zone \in l.zones}}
    IN  IF reached # {} /\ \A t \in reached : weight > Catalog.tiers[t]
        THEN "PORTO_TOO_HEAVY"
        ELSE "PORTO_PRODUCT_NOT_FOUND"
-----------------------------------------------------------------------------
(* Binding the services *)

PinFault(kinds, pin) ==
    CASE pin \in ServiceKinds  -> "PORTO_DATA_INVALID"
      [] pin \notin Ids(Rows)  -> "PORTO_DATA_NOT_FOUND"
      [] kinds # <<>> /\ Row(pin).kind \notin ToSet(kinds) -> "PORTO_DATA_INVALID"
      [] OTHER -> None

OfKind(pool, kind) == {row.id : row \in {s \in pool : s.kind = kind}}

PinnedTo(kind, pins) == Keep(pins, OfKind(Rows, kind))

KindFault(pool, pins, kind) ==
    LET matches == OfKind(pool, kind)
        pinned  == ToSet(PinnedTo(kind, pins))
    IN  CASE pinned # {} /\ ~(pinned \subseteq matches) -> "PORTO_DATA_NOT_FOUND"
          [] pinned = {} /\ Cardinality(matches) > 1    -> "PORTO_SERVICE_AMBIGUOUS"
          [] OTHER -> None

BoundFor(pool, pins, kind) ==
    IF PinnedTo(kind, pins) # <<>> THEN PinnedTo(kind, pins) ELSE SetToSeq(OfKind(pool, kind))

BugPool(candidates, zone) ==
    {row \in Rows : InZone(row, zone) /\ (candidates # <<>> => OfProduct(row, candidates[1]))}

\* The rows a kind may be bound to: of the zone, and of the product if it is
\* the only candidate.
Pool(candidates, zone) ==
    {row \in Rows : InZone(row, zone) /\ (Len(candidates) = 1 => OfProduct(row, candidates[1]))}

BugUnmatched(pool, pins, kinds) == {}

Unmatched(pool, pins, kinds) ==
    {kind \in ToSet(kinds) : BoundFor(pool, pins, kind) = <<>>}

\* bind_requested_services
Bind(pool, pins, kinds) ==
    [fault |-> FirstFault(
         [i \in DOMAIN pins |-> PinFault(kinds, pins[i])]
         \o (IF pins # <<>> /\ kinds = <<>> THEN <<"PORTO_DATA_INVALID">> ELSE <<>>)
         \o [i \in DOMAIN kinds |-> KindFault(pool, pins, kinds[i])]),
     ids |-> FlattenSeq([i \in DOMAIN kinds |-> BoundFor(pool, pins, kinds[i])]),
     unmatched |-> Unmatched(pool, pins, kinds)]

\* A product may include what no row offers.
Includes(product, kind) ==
    LET has == Catalog.products[product]
    IN  IF kind = "registered"
        THEN has.indemnity # None /\ has.features \intersect {"recipient_signature", "acceptance_proof"} # {}
        ELSE kind \in has.features

Indemnities(products) == {Catalog.products[p].indemnity : p \in products} \ {None}

Included(candidates, kinds) ==
    Keep(candidates, {p \in ToSet(candidates) : \A kind \in kinds : Includes(p, kind)})

TokensFault(left, bind, indemnity) ==
    CASE bind.fault # None -> bind.fault
      [] bind.fault = None /\ bind.unmatched # {} /\ left = <<>> -> "PORTO_SERVICE_UNSUPPORTED"
      [] /\ bind.fault = None
         /\ left # <<>>
         /\ "registered" \in bind.unmatched
         /\ indemnity = None
         /\ Cardinality(Indemnities(ToSet(left))) > 1 -> "PORTO_PRODUCT_AMBIGUOUS"
      [] OTHER -> None

Tokens(left, bind, indemnity) ==
    [candidates |-> left, ids |-> bind.ids, fault |-> TokensFault(left, bind, indemnity)]

FilteredBy(bind, candidates, indemnity) ==
    Tokens(Included(candidates, bind.unmatched), bind, indemnity)

\* apply_service_tokens: the candidates that are left, and the bound rows.
ApplyServiceTokens(candidates, zone, request) ==
    FilteredBy(Bind(Pool(candidates, zone), Distinct(request.pins), Distinct(request.kinds)),
               candidates, request.indemnity)
-----------------------------------------------------------------------------
(* Selecting the product *)

Preference(request) ==
    CASE request.preference # None -> request.preference
      [] request.preference = None /\ Catalog.strategy = "speed" -> "fastest"
      [] request.preference = None /\ Catalog.strategy = "min"   -> "cheapest"
      [] OTHER -> None

\* Days, longest first, as one number below Never.
Never == 999 * 1000 + 999

Days(product, zone) ==
    LET delivery == Catalog.products[product].delivery
    IN  IF zone \in DOMAIN delivery THEN delivery[zone][1] * 1000 + delivery[zone][2] ELSE None

\* What the preference minimises.
Rank(product, zone, tier, preference) ==
    LET days == Days(product, zone)
    IN  CASE preference = "cheapest" -> Catalog.prices[<<product, zone, tier>>]
          [] preference = "fastest"  -> IF days = None THEN Never ELSE days
          [] preference = "economy"  -> IF days = None THEN 1001 ELSE 0 - days

\* A product without a price is no candidate for the cheapest.
Ranked(candidates, zone, tier, preference) ==
    {i \in DOMAIN candidates :
        /\ preference # None
        /\ preference = "cheapest" => <<candidates[i], zone, tier>> \in DOMAIN Catalog.prices}

\* select_product: the index of the first candidate with the least rank.
Best(candidates, zone, tier, preference) ==
    LET rank(i) == Rank(candidates[i], zone, tier, preference)
    IN  {i \in Ranked(candidates, zone, tier, preference) :
            \A j \in Ranked(candidates, zone, tier, preference) :
               rank(i) < rank(j) \/ (rank(i) = rank(j) /\ i <= j)}

Fitting(candidates, indemnity) ==
    Keep(candidates, {p \in ToSet(candidates) : indemnity \in {None, Catalog.products[p].indemnity}})

Refused(fault) == [fault |-> fault, product |-> None, ids |-> <<>>]

Selected(product, ids) == [fault |-> None, product |-> product, ids |-> ids]

OneOf(fit, best, ids) ==
    IF best = {} THEN Refused("PORTO_PRODUCT_AMBIGUOUS") ELSE Selected(fit[CHOOSE i \in best : TRUE], ids)

SelectProduct(fit, zone, tier, request, ids) ==
    IF fit = <<>> THEN Refused(Unresolved(zone, request.weight))
    ELSE IF Len(fit) = 1 THEN Selected(fit[1], ids)
    ELSE OneOf(fit, Best(fit, zone, tier, Preference(request)), ids)

BugTaking(product, tokens) ==
    IF tokens.fault # None THEN Refused(tokens.fault) ELSE Selected(product, <<>>)

Taking(product, tokens) ==
    IF tokens.fault # None THEN Refused(tokens.fault) ELSE Selected(product, tokens.ids)

\* A product that the request names has only to be in the graph and to take
\* the services.
Named(request, zone, tier) ==
    IF request.product \notin DOMAIN Catalog.products
    THEN Refused("PORTO_PRODUCT_NOT_FOUND")
    ELSE IF \E link \in Links : link.product = request.product /\ Linked(link, zone, tier)
    THEN Taking(request.product, ApplyServiceTokens(<<request.product>>, zone, request))
    ELSE Refused(Unresolved(zone, request.weight))

Picked(tokens, zone, tier, request) ==
    IF tokens.fault # None
    THEN Refused(tokens.fault)
    ELSE SelectProduct(Fitting(tokens.candidates, request.indemnity), zone, tier, request, tokens.ids)

Discovered(request, zone, tier) ==
    Picked(ApplyServiceTokens(Candidates(zone, tier, request.envelope), zone, request), zone, tier, request)
-----------------------------------------------------------------------------
(* The quote *)

Combine(id, other) ==
    LET with == Row(id).combinable
    IN  with = None \/ other \in with

\* validate_service_selection
SelectionFault(ids, product, zone) ==
    CASE ~(ids \subseteq Ids(Offered(product, zone))) -> "PORTO_DATA_NOT_FOUND"
      [] /\ ids \subseteq Ids(Offered(product, zone))
         /\ \E id, other \in ids : id # other /\ ~Combine(id, other) -> "PORTO_SERVICES_INCOMPATIBLE"
      [] OTHER -> None

\* compose_quote
Amount(product, zone, tier, ids) ==
    Catalog.prices[<<product, zone, tier>>]
        + SumFunction([id \in ids |-> Catalog.servicePrices[<<id, zone>>]])

QuoteFault(product, zone, tier, ids) ==
    FirstFault(
        <<IF <<product, zone, tier>> \in DOMAIN Catalog.prices THEN None ELSE "PORTO_PRICE_NOT_FOUND",
          SelectionFault(ids, product, zone),
          IF \A id \in ids : <<id, zone>> \in DOMAIN Catalog.servicePrices THEN None ELSE "PORTO_PRICE_NOT_FOUND">>)

\* The last of the services that the table has replaces the default.
Override(default, table, ids) ==
    LET i == SelectLastInSeq(ids, LAMBDA id : id \in DOMAIN table)
    IN  IF i = 0 THEN default ELSE table[ids[i]]

MarkProfile(zone, ids) ==
    Override(Catalog.profiles[zone].profile, Catalog.profiles[zone].services, ids)

\* The code that is bought for an answer: services count under the strategy
\* "service" only.
WireCode(porto) ==
    LET edge == <<porto.product, porto.zone>>
        row  == Catalog.codes[edge]
        code == IF Catalog.strategy = "service" THEN Override(row.base, row.services, porto.ids) ELSE row.base
    IN  IF edge \notin DOMAIN Catalog.codes THEN Refusal("PORTO_PRODUCT_NOT_FOUND")
        ELSE IF code = None THEN Refusal("PORTO_PRODUCT_NOT_FOUND")
        ELSE code

Quote(request, zone, tier, product, ids, fault) ==
    IF fault # None
    THEN Refusal(fault)
    ELSE [product |-> product,
          zone    |-> zone,
          tier    |-> tier,
          amount  |-> Amount(product, zone, tier, ToSet(ids)),
          kinds   |-> Distinct(request.kinds),
          ids     |-> ids,
          profile |-> MarkProfile(zone, ids)]

Quoted(request, zone, tier, pick) ==
    IF pick.fault # None
    THEN Refusal(pick.fault)
    ELSE Quote(request, zone, tier, pick.product, pick.ids,
               QuoteFault(pick.product, zone, tier, ToSet(pick.ids)))

ResolveIn(zone, tier, request) ==
    Quoted(request, zone, tier,
           IF request.product = None THEN Discovered(request, zone, tier) ELSE Named(request, zone, tier))

Resolve(request) ==
    IF request.country \notin DOMAIN Catalog.zoneOf THEN Refusal("PORTO_DESTINATION_INVALID")
    ELSE IF TiersFor(request.weight) = {} THEN Refusal("PORTO_TOO_HEAVY")
    ELSE ResolveIn(Catalog.zoneOf[request.country], CHOOSE t \in TiersFor(request.weight) : TRUE, request)
-----------------------------------------------------------------------------
(* What three theorems need of a catalog, and the code does not check *)

\* No link goes to a tier above the product's own.
OwnTierReaches ==
    \A link \in Links : \A t \in link.tiers :
        LET own == Catalog.products[link.product].tier
        IN  own # None => Catalog.tiers[t] <= Catalog.tiers[own]

\* No service is called like a kind, or it could be listed and not pinned.
IdsAreNoKinds == \A row \in Rows : row.id \notin ServiceKinds

\* Services that may be ordered together have one row's worth to say.
Agree(table) ==
    \A id, other \in DOMAIN table :
        id # other /\ Combine(id, other) /\ Combine(other, id) => table[id] = table[other]

\* In the two tables in which the last service wins it makes no difference which
\* one is the last: the profile of a mark, and its code where services count.
ServicesAgree ==
    /\ \A country \in DOMAIN Catalog.zoneOf : Agree(Catalog.profiles[Catalog.zoneOf[country]].services)
    /\ Catalog.strategy = "service" => \A edge \in DOMAIN Catalog.codes : Agree(Catalog.codes[edge].services)
=============================================================================
