---------------------------- MODULE ProductOptions ----------------------------
(***************************************************************************)
(* What a client asks before it orders: the products for a place and a     *)
(* weight with their services and prices, the estimate for one of them,    *)
(* the price, and the advice to take another product for the weight.  None *)
(* of them goes through resolve() except price: each reads the catalog on  *)
(* its own, and has to say what resolve() will say.                        *)
(***************************************************************************)
EXTENDS UncachedResolver

CONSTANTS Countries, Weights, Envelopes

\* Names are names, kinds are kinds, and prices are cents.
ASSUME OptionsAssumption ==
    /\ Weights \subseteq Int /\ Countries \subseteq STRING /\ Envelopes \subseteq STRING \union {None}
    /\ None # "ghost" /\ DOMAIN Catalog.products \subseteq STRING
    /\ \A row \in Rows : row.id \in STRING /\ row.kind \in ServiceKinds
    /\ \A place \in DOMAIN Catalog.prices : Catalog.prices[place] \in Nat \ {None}
    /\ \A place \in DOMAIN Catalog.servicePrices : Catalog.servicePrices[place] \in Nat \ {None}

VARIABLE told   \* the last thing a client was told, and what it had asked

AllProducts == DOMAIN Catalog.products

Lookup(table, key) == IF key \in DOMAIN table THEN table[key] ELSE None

TierOf(weight) == CHOOSE t \in TiersFor(weight) : TRUE

BugValidCombination(product, zone, tier) ==
    \E link \in Links : link.product = product /\ zone \in link.zones

\* is_valid_combination: the tier and the zone in one link of the graph.
IsValidCombination(product, zone, tier) ==
    \E link \in Links : link.product = product /\ Linked(link, zone, tier)

\* get_product_constraints: the product's own tier, or the largest of the
\* tiers that the graph links it with; what is linked with none, or with none
\* that weighs anything, has no limit.
MaxWeight(product) ==
    LET own     == Catalog.products[product].tier
        tiers   == IF own # None THEN {own}
                   ELSE UNION {link.tiers : link \in {l \in Links : l.product = product}}
        weights == {Catalog.tiers[t] : t \in tiers}
    IN  IF own = None /\ weights \subseteq {0} THEN None ELSE Max(weights)

\* None is no limit.
Covers(limit, weight) == limit = None \/ weight <= limit

\* In the order in which they are considered: no limit comes last.
AtMost(limit, other) == other = None \/ (limit # None /\ limit <= other)
-----------------------------------------------------------------------------
(* The operations *)

\* list_service_options_for_product_zone
ServiceOptions(product, zone) ==
    {[id |-> row.id, kind |-> row.kind, amount |-> Lookup(Catalog.servicePrices, <<row.id, zone>>)] :
        row \in Offered(product, zone)}

OptionsIn(zone, tier, envelope) ==
    {[product   |-> product,
      maxWeight |-> MaxWeight(product),
      amount    |-> Lookup(Catalog.prices, <<product, zone, tier>>),
      services  |-> ServiceOptions(product, zone)] :
        product \in {p \in AllProducts : EnvelopeMatches(p, envelope) /\ IsValidCombination(p, zone, tier)}}

\* No tier takes the weight: no options, and no refusal.
OptionsFor(country, weight, envelope) ==
    IF TiersFor(weight) = {} THEN {} ELSE OptionsIn(Catalog.zoneOf[country], TierOf(weight), envelope)

EstimateIn(product, zone, tier) ==
    CASE product \notin AllProducts -> Refusal("PORTO_DATA_NOT_FOUND")
      [] product \in AllProducts /\ ~IsValidCombination(product, zone, tier) -> Refusal("PORTO_PRODUCT_NOT_FOUND")
      [] OTHER -> IF <<product, zone, tier>> \in DOMAIN Catalog.prices
                  THEN [product |-> product, amount |-> Catalog.prices[<<product, zone, tier>>]]
                  ELSE Refusal("PORTO_PRICE_NOT_FOUND")

EstimateFor(product, country, weight) ==
    IF TiersFor(weight) = {} THEN Refusal("PORTO_TOO_HEAVY")
    ELSE EstimateIn(product, Catalog.zoneOf[country], TierOf(weight))

\* price: what resolve() answers, without the rest.
Price(request) ==
    LET porto == Resolve(request)
    IN  IF IsPorto(porto) THEN [product |-> porto.product, amount |-> porto.amount] ELSE porto

\* An empty list of candidates is no list.
Considered(candidates) == IF candidates = {} THEN AllProducts ELSE candidates \intersect AllProducts

Eligible(candidates, weight) == {p \in Considered(candidates) : Covers(MaxWeight(p), weight)}

\* suggest_product_for_weight: a lightest one that takes the weight; which of
\* two equal ones comes first is the order of the file.
Suggested(candidates, weight) ==
    {p \in Eligible(candidates, weight) : \A q \in Eligible(candidates, weight) : AtMost(MaxWeight(p), MaxWeight(q))}

Smallest(candidates) ==
    {p \in Considered(candidates) : \A q \in Considered(candidates) : AtMost(MaxWeight(p), MaxWeight(q))}

OrNone(products) == IF products = {} THEN {None} ELSE products

Fallback(candidates, suggested) == IF suggested # None THEN {suggested} ELSE OrNone(Smallest(candidates))

Change(selected, effective) == IF effective \notin {None, selected} THEN "AUTO_UPGRADE" ELSE "KEEP"

BugAdviceOn(selected, candidates, suggested, weight) ==
    {[action |-> Change(selected, effective), effective |-> effective, suggested |-> suggested, reason |-> None] :
        effective \in Fallback(candidates, suggested)}

\* recommend_product_for_weight: to leave a selection that does not take the
\* weight is hard, to call it larger than needed is a remark.
AdviceOn(selected, candidates, suggested, weight) ==
    IF selected \notin Considered(candidates)
    THEN {[action |-> Change(selected, effective), effective |-> effective, suggested |-> suggested,
           reason |-> IF Change(selected, effective) = "KEEP" THEN None ELSE "weight_over"] :
             effective \in Fallback(candidates, suggested)}
    ELSE LET over  == ~Covers(MaxWeight(selected), weight)
             moved == over /\ suggested # None
         IN  {[action    |-> IF moved THEN "AUTO_UPGRADE" ELSE "KEEP",
               effective |-> IF moved THEN suggested ELSE selected,
               suggested |-> suggested,
               reason    |-> IF over THEN "weight_over"
                             ELSE IF MaxWeight(suggested) # None /\ MaxWeight(selected) # None
                                     /\ MaxWeight(selected) > MaxWeight(suggested)
                             THEN "larger_than_needed"
                             ELSE None]}
-----------------------------------------------------------------------------
OptionsInit == told = {}

\* resolve_zone raises a ValueError for what is no country of the catalog.
ListOptions(country, weight, envelope) ==
    told' = {[by |-> "options", country |-> country, weight |-> weight, envelope |-> envelope,
              answer |-> IF country \in DOMAIN Catalog.zoneOf
                         THEN OptionsFor(country, weight, envelope)
                         ELSE {Refusal("ValueError")}]}

Estimate(product, country, weight) ==
    told' = {[by |-> "estimate", product |-> product, country |-> country, weight |-> weight,
              answer |-> IF country \in DOMAIN Catalog.zoneOf
                         THEN EstimateFor(product, country, weight)
                         ELSE Refusal("ValueError")]}

Advise(selected, candidates, weight) ==
    \E suggested \in OrNone(Suggested(candidates, weight)) :
        \E answer \in AdviceOn(selected, candidates, suggested, weight) :
            told' = {[by |-> "advice", selected |-> selected, candidates |-> candidates, weight |-> weight,
                      answer |-> answer]}

OptionsNext ==
    \/ \E country \in Countries, weight \in Weights, envelope \in Envelopes : ListOptions(country, weight, envelope)
    \/ \E product \in AllProducts \union {"ghost"}, country \in Countries, weight \in Weights :
          Estimate(product, country, weight)
    \/ \E selected \in AllProducts \union {None, "ghost"}, candidates \in SUBSET AllProducts, weight \in Weights :
          Advise(selected, candidates, weight)

OptionsSpec == OptionsInit /\ [][OptionsNext]_told
-----------------------------------------------------------------------------
(* Properties *)

\* The request for a place and a weight, with nothing else.
Plain(country, weight, envelope) ==
    [country |-> country, weight |-> weight, envelope |-> envelope, product |-> None, preference |-> None,
     indemnity |-> None, kinds |-> <<>>, pins |-> <<>>]

Preferences == {None, "cheapest", "fastest", "economy"}

SameAmount(amount, price) ==
    IF amount = None THEN price = Refusal("PORTO_PRICE_NOT_FOUND") ELSE "amount" \in DOMAIN price /\ price.amount = amount

\* What is listed can be ordered, and what can be ordered is listed: an option
\* has the price of an order that names it (or none, if that order finds none),
\* each of its services adds the price it states, and whatever discovery picks
\* for the place by any preference is an option at that price
\* (product_options.py:75-106, catalog.py:116-149, porto_resolver.py:230-339).
OptionsOf(list) ==
    LET plain == Plain(list.country, list.weight, list.envelope)
    IN  /\ \A option \in list.answer :
             LET named == [plain EXCEPT !.product = option.product]
             IN  /\ SameAmount(option.amount, Price(named))
                 /\ option.amount # None =>
                      \A service \in option.services :
                         LET priced == Price([named EXCEPT !.kinds = <<service.kind>>, !.pins = <<service.id>>])
                         IN  IF service.amount = None
                             THEN priced = Refusal("PORTO_PRICE_NOT_FOUND")
                             ELSE priced = [product |-> option.product, amount |-> option.amount + service.amount]
        /\ \A preference \in Preferences :
             LET picked == Price([plain EXCEPT !.preference = preference])
             IN  "amount" \in DOMAIN picked =>
                    \E option \in list.answer : option.product = picked.product /\ option.amount = picked.amount

\* An estimate is the price of the order that names the product, and refuses
\* where the order does (product_options.py:109-163).
EstimateOf(estimate) ==
    LET price == Price([Plain(estimate.country, estimate.weight, None) EXCEPT !.product = estimate.product])
    IN  IF "amount" \in DOMAIN estimate.answer THEN estimate.answer = price ELSE "refused" \in DOMAIN price

\* Listing, estimating and ordering agree, for every place and weight.
ListedIsOrderable ==
    \A it \in told :
        /\ it.by = "options" /\ it.country \in DOMAIN Catalog.zoneOf => OptionsOf(it)
        /\ it.by = "estimate" => EstimateOf(it)

\* Advice never leaves a client with less than there is: the product it names
\* takes the weight if any candidate does, and is the lightest if it replaces
\* the selection; a selection that is listed for the weight anywhere is kept
\* (product_advice.py:89-142).
AdviceCovers ==
    \A it \in told : it.by = "advice" =>
        /\ Eligible(it.candidates, it.weight) # {} =>
             /\ Covers(MaxWeight(it.answer.effective), it.weight)
             /\ it.answer.effective \in {it.selected} \union Suggested(it.candidates, it.weight)
        /\ (/\ it.selected \in Considered(it.candidates)
            /\ \E country \in Countries \intersect DOMAIN Catalog.zoneOf :
                  it.selected \in {option.product : option \in OptionsFor(country, it.weight, None)})
           => it.answer.action = "KEEP" /\ it.answer.effective = it.selected
=============================================================================
