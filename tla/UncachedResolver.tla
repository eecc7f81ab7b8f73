--------------------------- MODULE UncachedResolver ---------------------------
(***************************************************************************)
(* PortoResolver with the cache disabled: every resolve() goes through the *)
(* pipeline.  What the pipeline owes a request is stated here.             *)
(***************************************************************************)
EXTENDS Resolution

CONSTANT Questions

ASSUME QuestionsAssumption == Questions \subseteq Request

VARIABLE answered   \* what the last resolve() returned

UncachedInit == answered = {}

ResolveUncached(r) == answered' = {[request |-> r, answer |-> Resolve(r)]}

UncachedNext == \E r \in Questions : ResolveUncached(r)

UncachedSpec == UncachedInit /\ [][UncachedNext]_answered
-----------------------------------------------------------------------------
(* Properties *)

Delivers(porto, kind) ==
    \/ \E row \in Offered(porto.product, porto.zone) : row.kind = kind /\ row.id \in ToSet(porto.ids)
    \/ Includes(porto.product, kind)

\* An answer serves the request that is asked: its
\* zone and tier, its product if it names one, its envelope if it does not,
\* every kind by a row bound for it or by the product, every pin, and nothing
\* that was not asked for (porto_resolver.py:182-412, service_resolver.py:93-241).
ServesRequest ==
    \A got \in answered : IsPorto(got.answer) =>
        LET porto == got.answer
            ask   == got.request
        IN  /\ porto.zone = Catalog.zoneOf[ask.country]
            /\ ask.weight <= Catalog.tiers[porto.tier]
            /\ ask.product \in {None, porto.product}
            /\ ask.product = None => EnvelopeMatches(porto.product, ask.envelope)
            /\ ToSet(porto.kinds) = ToSet(ask.kinds)
            /\ \A kind \in ToSet(ask.kinds) : Delivers(porto, kind)
            /\ ToSet(ask.pins) \subseteq ToSet(porto.ids)
            /\ \A id \in ToSet(porto.ids) : Row(id).kind \in ToSet(ask.kinds)

\* A kind is refused as unsupported only when no product that fits the place
\* and the envelope has all the kinds that are asked for
\* (service_resolver.py:160-190, product_resolver.py:107-117).
UnsupportedIsHonest ==
    \A got \in answered : got.answer = Refusal("PORTO_SERVICE_UNSUPPORTED") =>
        LET ask  == got.request
            zone == Catalog.zoneOf[ask.country]
            tier == CHOOSE t \in TiersFor(ask.weight) : TRUE
        IN  \A link \in Links :
              /\ Linked(link, zone, tier)
              /\ ask.product \in {None, link.product}
              /\ EnvelopeMatches(link.product, ask.envelope)
              => \E kind \in ToSet(ask.kinds) :
                    /\ kind \notin {row.kind : row \in Offered(link.product, zone)}
                    /\ ~Includes(link.product, kind)

\* To name the product that discovery selects changes nothing: the two ways
\* through the pipeline agree (porto_resolver.py:230-339).
NamingChangesNothing ==
    \A got \in answered : IsPorto(got.answer) =>
        Resolve([got.request EXCEPT !.product = got.answer.product]) = got.answer
=============================================================================
