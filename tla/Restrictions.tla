---------------------------- MODULE Restrictions ----------------------------
(***************************************************************************)
(* Restrictions on a destination: what RestrictionsLoader accepts of       *)
(* restrictions.json, what RestrictionsService.check makes of it for a     *)
(* provider on a day.                                                      *)
(*                                                                         *)
(* One destination has rows here.  Reasons, authorities and references are *)
(* left out; a date that is missing or not a date is 0, and bounds nothing.*)
(***************************************************************************)
EXTENDS Naturals, FiniteSets, Functions

CONSTANTS
    Jurisdictions,  \* {"EU", "CH", "UA"}
    Regions,        \* the regions of the destination
    LegalRows,      \* the rows restrictions.json may have under "legal" ...
    RoutingRows,    \* ... and under "routing", of the destination
    LastDay         \* bound on the days

VARIABLES
    policy,      \* the rows the loader has taken
    origin,      \* the jurisdictions of the provider's country, at most one
    day,         \* today
    question,    \* the region that was named last, "none" for none
    checked      \* the answer of check

restrictionsVars == <<policy, origin, day, question, checked>>

Unknown == "unknown"

Unloaded == [legal |-> {}, routing |-> {}]

Unchecked == [impact |-> "none", legal |-> {}, routing |-> {}]
-----------------------------------------------------------------------------
(* Loading.  A legal row is [form, jurisdictions, regions, stray]: form is  *)
(* "country", "regions" or "both"; jurisdictions maps a token to a set of   *)
(* instruments [from, to]; a region has jurisdictions and partial, "absent",*)
(* "true" or "other"; stray says that a field is forbidden or lacks.  A     *)
(* routing row is [regions, stray].                                         *)

Dated(jurisdictions) == \A j \in DOMAIN jurisdictions : jurisdictions[j] \subseteq [from : Nat, to : Nat]

JurisdictionsOK(jurisdictions) ==
    /\ jurisdictions # <<>>
    /\ DOMAIN jurisdictions \subseteq Jurisdictions
    /\ \A j \in DOMAIN jurisdictions : jurisdictions[j] # {}

LegalOK(row) ==
    /\ ~row.stray
    /\ row.form \in {"country", "regions"}
    /\ row.form = "country" => JurisdictionsOK(row.jurisdictions)
    /\ row.form = "regions" =>
          /\ row.regions # <<>>
          /\ \A code \in DOMAIN row.regions :
                /\ code \in Regions
                /\ JurisdictionsOK(row.regions[code].jurisdictions)
                /\ row.regions[code].partial # "other"

RoutingOK(row) ==
    /\ ~row.stray
    /\ \A code \in DOMAIN row.regions : code \in Regions /\ row.regions[code].partial # "other"

\* The rows as they are written, right or wrong: dates are numbers, and a row of
\* the form "country" has no regions.
ASSUME RestrictionsAssumption ==
    /\ LastDay \in Nat \ {0}
    /\ \A row \in LegalRows :
          /\ Dated(row.jurisdictions)
          /\ row.form = "country" => row.regions = <<>>
          /\ \A code \in DOMAIN row.regions :
                /\ Dated(row.regions[code].jurisdictions)
                /\ row.regions[code].partial \in {"absent", "true", "other"}
-----------------------------------------------------------------------------
(* Selecting *)

BugInForce(instrument) == instrument.from <= day /\ (instrument.to # 0 => instrument.to > day)

InForce(instrument) == instrument.from <= day /\ (instrument.to # 0 => instrument.to >= day)

\* remaining_jurisdiction_map
Remaining(jurisdictions) ==
    LET kept(j) == {i \in jurisdictions[j] : InForce(i)}
    IN  [j \in {k \in DOMAIN jurisdictions \intersect origin : kept(k) # {}} |-> kept(j)]

\* A region that is named and has no row matches nothing; none named are all.
Candidates(row, region) == IF region = "none" THEN DOMAIN row.regions ELSE {region} \intersect DOMAIN row.regions

Leaf(impact, region, partial, jurisdictions) ==
    [impact |-> impact, region |-> region, partial |-> partial, jurisdictions |-> jurisdictions]

ItemImpact(partial) == IF partial THEN "warn" ELSE "block"

\* legal.resolve
LegalFor(row, region) ==
    IF row.regions # <<>>
    THEN {Leaf(ItemImpact(row.regions[code].partial = "true"), code, row.regions[code].partial = "true",
               Remaining(row.regions[code].jurisdictions)) :
             code \in {c \in Candidates(row, region) : Remaining(row.regions[c].jurisdictions) # <<>>}}
    ELSE IF Remaining(row.jurisdictions) = <<>> THEN {}
    ELSE {Leaf("block", "none", FALSE, Remaining(row.jurisdictions))}

\* routing.resolve
RoutingFor(row, region) ==
    IF row.regions = <<>> THEN {[region |-> "none", partial |-> FALSE]}
    ELSE {[region |-> code, partial |-> row.regions[code].partial = "true"] : code \in Candidates(row, region)}

\* impact.resolve
Impact(legal, routing, precise) ==
    IF legal = {} /\ routing = {} THEN "none"
    ELSE IF precise /\ \E leaf \in legal : leaf.impact = "block" THEN "block"
    ELSE "warn"

ForDestination(region) ==
    LET legal   == UNION {LegalFor(row, region) : row \in policy.legal}
        routing == UNION {RoutingFor(row, region) : row \in policy.routing}
    IN  [impact |-> Impact(legal, routing, region # "none"), legal |-> legal, routing |-> routing]
-----------------------------------------------------------------------------
RestrictionsInit ==
    /\ policy = Unloaded
    /\ origin = {}
    /\ day = 1
    /\ question = Unknown
    /\ checked = Unchecked

\* A file with one bad row is refused whole.
LoadPolicy(legal, routing) ==
    /\ policy = Unloaded
    /\ \A row \in legal : LegalOK(row)
    /\ \A row \in routing : RoutingOK(row)
    /\ policy' = [legal |-> legal, routing |-> routing]
    /\ UNCHANGED <<origin, day, question, checked>>

\* provider_jurisdiction_tokens: one bloc, or none for a country outside them
\* and for a provider the catalog does not have.
UseProvider(tokens) ==
    /\ policy # Unloaded
    /\ question = Unknown
    /\ origin' = tokens
    /\ UNCHANGED <<policy, day, question, checked>>

NextDay ==
    /\ policy # Unloaded
    /\ day < LastDay
    /\ day' = day + 1
    /\ question' = Unknown
    /\ checked' = Unchecked
    /\ UNCHANGED <<policy, origin>>

Check(region) ==
    /\ policy # Unloaded
    /\ question' = region
    /\ checked' = ForDestination(region)
    /\ UNCHANGED <<policy, origin, day>>

RestrictionsNext ==
    \/ \E legal \in {{row} : row \in LegalRows} \union {{}}, routing \in {{row} : row \in RoutingRows} \union {{}} :
          LoadPolicy(legal, routing)
    \/ \E tokens \in {{j} : j \in Jurisdictions} \union {{}} : UseProvider(tokens)
    \/ NextDay
    \/ \E region \in Regions \union {"none", "elsewhere"} : Check(region)

RestrictionsSpec == RestrictionsInit /\ [][RestrictionsNext]_restrictionsVars
-----------------------------------------------------------------------------
(* Properties *)

\* What the law of the provider's own bloc says today of all of a place.
ForbiddenBy(jurisdictions) ==
    \E j \in origin \intersect DOMAIN jurisdictions : \E i \in jurisdictions[j] : day \in (i.from .. IF i.to = 0 THEN LastDay ELSE i.to)

\* Sending is blocked exactly if a region is named, and an instrument of the
\* provider's bloc, in force on that day, is for all of that region or for the
\* country; an instrument of another bloc, an expired one, one for a part of the
\* region, and a routing restriction never block (legal.py:56-125,
\* impact.py:15-25, restrictions.py:29-36 and 263-282).
BlockIsExact ==
    question # Unknown =>
        (checked.impact = "block" <=>
            /\ question # "none"
            /\ \E row \in policy.legal :
                  IF row.form = "country" THEN ForbiddenBy(row.jurisdictions)
                  ELSE /\ question \in DOMAIN row.regions
                       /\ row.regions[question].partial = "absent"
                       /\ ForbiddenBy(row.regions[question].jurisdictions))
=============================================================================
