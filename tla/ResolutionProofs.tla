--------------------------- MODULE ResolutionProofs ---------------------------
(***************************************************************************)
(* What the pipeline owes a request it owes to every request and for every *)
(* catalog: the answer serves it, a kind is called unsupported only if no  *)
(* product has the kinds, and the two ways to a product agree.  resolve()  *)
(* keeps nothing, so the invariant only says that what was returned is the *)
(* pipeline's; the work is in the pipeline.  At the end the cache is in    *)
(* front of it, and hands out what was computed for a request with the     *)
(* same key.                                                               *)
(***************************************************************************)
EXTENDS ProductOptions, PortoResolver, ResolutionCacheProofs, DataLemmas

BindFaults == {None, "PORTO_DATA_INVALID", "PORTO_DATA_NOT_FOUND", "PORTO_SERVICE_AMBIGUOUS"}

\* The first fault is None only if there is no fault.
LEMMA FirstFaultFound ==
    ASSUME NEW V, NEW faults \in Seq(V)
    PROVE  \/ FirstFault(faults) = None /\ \A i \in DOMAIN faults : faults[i] = None
           \/ FirstFault(faults) # None /\ FirstFault(faults) \in ToSet(faults)
<1> DEFINE I == {i \in 1 .. Len(faults) : faults[i] # None}
           first == SelectInSeq(faults, LAMBDA fault : fault # None)
<1>1. DOMAIN faults = 1 .. Len(faults)
  OBVIOUS
<1>2. first = IF I # {} THEN Min(I) ELSE 0
  BY DEF SelectInSeq
<1>3. FirstFault(faults) = IF first = 0 THEN None ELSE faults[first]
  BY DEF FirstFault
<1>4. CASE I = {}
  BY <1>1, <1>2, <1>3, <1>4
<1>5. CASE I # {}
  <2>1. \E m \in I : \A n \in I : m <= n
    <3>1. I \subseteq Nat
      OBVIOUS
    <3> HIDE DEF I
    <3>2. QED
      BY <1>5, <3>1, Least
  <2>2. Min(I) \in I
    BY <2>1 DEF Min
  <2> HIDE DEF first
  <2>3. first \in I /\ first # 0
    BY <1>2, <1>5, <2>2
  <2>4. QED
    BY <1>1, <1>3, <2>3 DEF ToSet
<1>6. QED
  BY <1>4, <1>5
-----------------------------------------------------------------------------
(* Binding *)

LEMMA RowsFinite == IsFiniteSet(Rows)
BY CatalogAssumption, ToSetFinite DEF Rows

LEMMA OfKindFinite == ASSUME NEW pool \in SUBSET Rows, NEW kind PROVE IsFiniteSet(OfKind(pool, kind))
<1> DEFINE some == {row \in pool : row.kind = kind}
           id == [row \in some |-> row.id]
<1>1. IsFiniteSet(some)
  BY RowsFinite, FS_Subset
<1>2. id \in Surjection(some, OfKind(pool, kind))
  BY DEF Surjection, OfKind
<1>3. QED
  <2> HIDE DEF id, some
  <2>1. QED
    BY <1>1, <1>2, FS_Surjection

LEMMA RowOfId == ASSUME NEW row \in Rows PROVE Row(row.id) = row
BY CatalogAssumption DEF Row

LEMMA OfKindMeans ==
    ASSUME NEW pool \in SUBSET Rows, NEW kind, NEW id \in Ids(Rows)
    PROVE  id \in OfKind(pool, kind) <=> Row(id) \in pool /\ Row(id).kind = kind
<1>1. PICK row \in Rows : row.id = id
  BY DEF Ids
<1>2. Row(id) = row
  BY <1>1, RowOfId
<1>3. \A other \in pool : other.id = id => other = row
  BY <1>1, CatalogAssumption
<1>4. QED
  BY <1>1, <1>2, <1>3 DEF OfKind

LEMMA PinnedRange ==
    ASSUME NEW pins \in Seq(STRING), NEW kind
    PROVE  /\ PinnedTo(kind, pins) \in Seq(OfKind(Rows, kind))
           /\ ToSet(PinnedTo(kind, pins)) = ToSet(pins) \cap OfKind(Rows, kind)
           /\ PinnedTo(kind, pins) = <<>> <=> ToSet(pins) \cap OfKind(Rows, kind) = {}
<1> DEFINE K == OfKind(Rows, kind)
           kept == Keep(pins, K)
<1>1. kept \in Seq(STRING \cap K) /\ ToSet(kept) = ToSet(pins) \cap K
  <2> HIDE DEF K
  <2>1. QED
    BY KeepType
<1>2. PinnedTo(kind, pins) = kept
  BY DEF PinnedTo
<1> HIDE DEF kept, K
<1>3. kept \in Seq(K)
  BY <1>1
<1>4. kept = <<>> <=> ToSet(kept) = {}
  BY <1>3, Emptiness
<1>5. QED
  BY <1>1, <1>2, <1>3, <1>4 DEF K

LEMMA BoundRange ==
    ASSUME NEW pool \in SUBSET Rows, NEW pins \in Seq(STRING), NEW kind
    PROVE  /\ BoundFor(pool, pins, kind) \in Seq(OfKind(Rows, kind))
           /\ ToSet(BoundFor(pool, pins, kind)) =
                 IF ToSet(pins) \cap OfKind(Rows, kind) # {} THEN ToSet(pins) \cap OfKind(Rows, kind)
                 ELSE OfKind(pool, kind)
           /\ BoundFor(pool, pins, kind) = <<>> <=> ToSet(BoundFor(pool, pins, kind)) = {}
<1> DEFINE K == OfKind(Rows, kind)
           M == OfKind(pool, kind)
           chosen == SetToSeq(M)
<1>1. chosen \in Seq(M) /\ ToSet(chosen) = M
  BY OfKindFinite, SetToSeqRange
<1>2. M \subseteq K
  BY DEF OfKind
<1>3. chosen \in Seq(K)
  <2> HIDE DEF chosen, M, K
  <2>1. QED
    BY <1>1, <1>2
<1>4. BoundFor(pool, pins, kind) = IF PinnedTo(kind, pins) # <<>> THEN PinnedTo(kind, pins) ELSE chosen
  BY DEF BoundFor
<1>5. /\ PinnedTo(kind, pins) \in Seq(K)
      /\ ToSet(PinnedTo(kind, pins)) = ToSet(pins) \cap K
      /\ PinnedTo(kind, pins) = <<>> <=> ToSet(pins) \cap K = {}
  BY PinnedRange
<1> HIDE DEF chosen, M, K
<1>6. BoundFor(pool, pins, kind) \in Seq(K)
  BY <1>3, <1>4, <1>5
<1>7. BoundFor(pool, pins, kind) = <<>> <=> ToSet(BoundFor(pool, pins, kind)) = {}
  BY <1>6, Emptiness
<1>8. ToSet(BoundFor(pool, pins, kind)) = IF ToSet(pins) \cap K # {} THEN ToSet(pins) \cap K ELSE M
  BY <1>1, <1>4, <1>5
<1>9. QED
  BY <1>6, <1>7, <1>8 DEF K, M

NoFault(pool, pins, kinds) ==
    /\ \A pin \in ToSet(pins) : PinFault(kinds, pin) = None
    /\ pins # <<>> => kinds # <<>>
    /\ \A kind \in ToSet(kinds) : KindFault(pool, pins, kind) = None

LEMMA BindFaultFound ==
    ASSUME NEW pool \in SUBSET Rows, NEW pins \in Seq(STRING), NEW kinds \in Seq(ServiceKinds)
    PROVE  /\ Bind(pool, pins, kinds).fault \in BindFaults
           /\ Bind(pool, pins, kinds).fault = None <=> NoFault(pool, pins, kinds)
<1> DEFINE a == [i \in DOMAIN pins |-> PinFault(kinds, pins[i])]
           b == IF pins # <<>> /\ kinds = <<>> THEN <<"PORTO_DATA_INVALID">> ELSE <<>>
           c == [i \in DOMAIN kinds |-> KindFault(pool, pins, kinds[i])]
           F == BindFaults
<1>1. /\ DOMAIN pins = 1 .. Len(pins) /\ Len(pins) \in Nat
      /\ DOMAIN kinds = 1 .. Len(kinds) /\ Len(kinds) \in Nat
  OBVIOUS
<1>2. \A pin : PinFault(kinds, pin) \in F
  BY DEF PinFault, BindFaults
<1>3. \A kind : KindFault(pool, pins, kind) \in F
  BY DEF KindFault, BindFaults
<1>4. a \in Seq(F) /\ ToSet(a) = {PinFault(kinds, pin) : pin \in ToSet(pins)}
  <2> HIDE DEF F
  <2>1. a \in Seq(F)
    BY <1>1, <1>2
  <2>2. QED
    BY <2>1 DEF ToSet
<1>5. c \in Seq(F) /\ ToSet(c) = {KindFault(pool, pins, kind) : kind \in ToSet(kinds)}
  <2> HIDE DEF F
  <2>1. c \in Seq(F)
    BY <1>1, <1>3
  <2>2. QED
    BY <2>1 DEF ToSet
<1>6. b \in Seq(F) /\ ToSet(b) = IF pins # <<>> /\ kinds = <<>> THEN {"PORTO_DATA_INVALID"} ELSE {}
  <2> DEFINE one == <<"PORTO_DATA_INVALID">>
  <2>1. "PORTO_DATA_INVALID" \in F
    BY DEF BindFaults
  <2> HIDE DEF F
  <2>2. one \in Seq(F) /\ DOMAIN one = {1} /\ one[1] = "PORTO_DATA_INVALID"
    BY <2>1
  <2>3. ToSet(one) = {"PORTO_DATA_INVALID"}
    <3> HIDE DEF one
    <3>1. QED
      BY <2>2 DEF ToSet
  <2>4. <<>> \in Seq(F) /\ ToSet(<<>>) = {}
    BY DEF ToSet
  <2>5. QED
    BY <2>2, <2>3, <2>4
<1>7. Bind(pool, pins, kinds).fault = FirstFault(a \o b \o c)
  BY DEF Bind
<1> HIDE DEF a, b, c, F
<1> DEFINE ab == a \o b
           abc == ab \o c
<1>8. ab \in Seq(F) /\ ToSet(ab) = ToSet(a) \union ToSet(b)
  BY <1>4, <1>6, ToSetConcat
<1> HIDE DEF ab
<1>9. abc \in Seq(F) /\ ToSet(abc) = ToSet(ab) \union ToSet(c)
  BY <1>5, <1>8, ToSetConcat
<1> HIDE DEF abc
<1>10. \/ FirstFault(abc) = None /\ \A i \in DOMAIN abc : abc[i] = None
       \/ FirstFault(abc) # None /\ FirstFault(abc) \in ToSet(abc)
  BY <1>9, FirstFaultFound
<1>11. ToSet(abc) \subseteq F
  BY <1>9, ToSetFinite
<1>12. FirstFault(abc) = None <=> ToSet(abc) \subseteq {None}
  BY <1>10 DEF ToSet
<1>13. None # "PORTO_DATA_INVALID" /\ None \in F
  BY CatalogAssumption DEF RefusalCodes, F, BindFaults
<1>14. ToSet(abc) \subseteq {None} <=> NoFault(pool, pins, kinds)
  BY <1>4, <1>5, <1>6, <1>8, <1>9, <1>13 DEF NoFault
<1>15. FirstFault(abc) \in F
  BY <1>10, <1>11, <1>13
<1>16. QED
  BY <1>7, <1>12, <1>14, <1>15 DEF abc, ab, F

LEMMA BindIds ==
    ASSUME NEW pool \in SUBSET Rows, NEW pins \in Seq(STRING), NEW kinds \in Seq(ServiceKinds)
    PROVE  /\ Bind(pool, pins, kinds).ids \in Seq(Ids(Rows))
           /\ ToSet(Bind(pool, pins, kinds).ids) = UNION {ToSet(BoundFor(pool, pins, kind)) : kind \in ToSet(kinds)}
           /\ Bind(pool, pins, kinds).unmatched = Unmatched(pool, pins, kinds)
<1> DEFINE parts == [i \in DOMAIN kinds |-> BoundFor(pool, pins, kinds[i])]
           V == Ids(Rows)
<1>1. DOMAIN kinds = 1 .. Len(kinds) /\ Len(kinds) \in Nat
  OBVIOUS
<1>2. \A kind : BoundFor(pool, pins, kind) \in Seq(V)
  <2> TAKE kind
  <2> DEFINE K == OfKind(Rows, kind)
  <2>1. K \subseteq V
    BY DEF OfKind, Ids
  <2>2. BoundFor(pool, pins, kind) \in Seq(K)
    BY BoundRange
  <2> HIDE DEF K, V
  <2>3. QED
    BY <2>1, <2>2
<1>3. parts \in Seq(Seq(V)) /\ DOMAIN parts = DOMAIN kinds
  <2> HIDE DEF V
  <2>1. QED
    BY <1>1, <1>2
<1>4. Bind(pool, pins, kinds).ids = FlattenSeq(parts) /\ Bind(pool, pins, kinds).unmatched = Unmatched(pool, pins, kinds)
  BY DEF Bind
<1>5. UNION {ToSet(parts[i]) : i \in DOMAIN parts} = UNION {ToSet(BoundFor(pool, pins, kind)) : kind \in ToSet(kinds)}
  BY <1>3 DEF ToSet
<1> HIDE DEF parts, V
<1>6. FlattenSeq(parts) \in Seq(V) /\ ToSet(FlattenSeq(parts)) = UNION {ToSet(parts[i]) : i \in DOMAIN parts}
  BY <1>3, FlattenRange
<1>7. QED
  BY <1>4, <1>5, <1>6 DEF V
-----------------------------------------------------------------------------
(* Picking *)

CandidatesOf(r, zone, tier) ==
    IF r.product = None THEN Candidates(zone, tier, r.envelope) ELSE <<r.product>>

PoolOf(r, zone, tier) == Pool(CandidatesOf(r, zone, tier), zone)

BindOf(r, zone, tier) == Bind(PoolOf(r, zone, tier), Distinct(r.pins), Distinct(r.kinds))

PickOf(r, zone, tier) == IF r.product = None THEN Discovered(r, zone, tier) ELSE Named(r, zone, tier)

\* The codes by which a pick is refused, other than for want of a service.
PickCodes == RefusalCodes \ {"PORTO_SERVICE_UNSUPPORTED"}

LEMMA CandidatesRange ==
    ASSUME NEW zone, NEW tier, NEW envelope
    PROVE  /\ Candidates(zone, tier, envelope) \in Seq(DOMAIN Catalog.products)
           /\ ToSet(Candidates(zone, tier, envelope)) =
                 {link.product : link \in {l \in Links : Linked(l, zone, tier) /\ EnvelopeMatches(l.product, envelope)}}
<1> DEFINE kept == {l \in Links : Linked(l, zone, tier) /\ EnvelopeMatches(l.product, envelope)}
           links == Keep(Catalog.links, kept)
           P == DOMAIN Catalog.products
<1>1. \A link \in Links : link.product \in P
  BY CatalogAssumption
<1>2. Candidates(zone, tier, envelope) = [i \in DOMAIN links |-> links[i].product]
  BY DEF Candidates
<1>3. kept \subseteq Links
  OBVIOUS
<1> HIDE DEF kept, P
<1>4. links \in Seq(Links \cap kept) /\ ToSet(links) = Links \cap kept
  <2>1. Catalog.links \in Seq(Links) /\ ToSet(Catalog.links) = Links
    BY CatalogAssumption DEF Links
  <2>2. QED
    BY <2>1, KeepType
<1>5. Links \cap kept = kept
  BY <1>3
<1> HIDE DEF links
<1>6. links \in Seq(kept) /\ ToSet(links) = kept
  BY <1>4, <1>5
<1>7. DOMAIN links = 1 .. Len(links) /\ Len(links) \in Nat /\ \A i \in DOMAIN links : links[i] \in kept
  BY <1>6
<1>8. \A i \in 1 .. Len(links) : links[i].product \in P
  BY <1>1, <1>3, <1>7
<1>9. Candidates(zone, tier, envelope) \in Seq(P)
  BY <1>2, <1>7, <1>8
<1>10. ToSet(Candidates(zone, tier, envelope)) = {link.product : link \in kept}
  <2>1. kept = {links[i] : i \in DOMAIN links}
    BY <1>6 DEF ToSet
  <2>2. QED
    BY <1>2, <2>1 DEF ToSet
<1>11. QED
  BY <1>9, <1>10 DEF kept, P

LEMMA SublistRange ==
    ASSUME NEW V, NEW s \in Seq(V), NEW kept \in SUBSET ToSet(s)
    PROVE  Keep(s, kept) \in Seq(V) /\ ToSet(Keep(s, kept)) = kept
<1>1. Keep(s, kept) \in Seq(V \cap kept) /\ ToSet(Keep(s, kept)) = ToSet(s) \cap kept
  BY KeepType
<1>2. ToSet(s) \cap kept = kept
  OBVIOUS
<1> DEFINE g == Keep(s, kept)
           U == V \cap kept
<1>3. g \in Seq(U) /\ U \subseteq V
  BY <1>1
<1> HIDE DEF g, U
<1>4. g \in Seq(V)
  BY <1>3
<1>5. QED
  BY <1>1, <1>2, <1>4 DEF g

LEMMA IncludedRange ==
    ASSUME NEW V, NEW candidates \in Seq(V), NEW kinds
    PROVE  /\ Included(candidates, kinds) \in Seq(V)
           /\ ToSet(Included(candidates, kinds)) =
                 {p \in ToSet(candidates) : \A kind \in kinds : Includes(p, kind)}
<1> DEFINE kept == {p \in ToSet(candidates) : \A kind \in kinds : Includes(p, kind)}
<1>1. kept \in SUBSET ToSet(candidates) /\ Included(candidates, kinds) = Keep(candidates, kept)
  BY DEF Included
<1> HIDE DEF kept
<1>2. Keep(candidates, kept) \in Seq(V) /\ ToSet(Keep(candidates, kept)) = kept
  BY <1>1, SublistRange
<1>3. QED
  BY <1>1, <1>2 DEF kept

LEMMA FittingRange ==
    ASSUME NEW V, NEW candidates \in Seq(V), NEW indemnity
    PROVE  /\ Fitting(candidates, indemnity) \in Seq(V)
           /\ ToSet(Fitting(candidates, indemnity)) \subseteq ToSet(candidates)
<1> DEFINE kept == {p \in ToSet(candidates) : indemnity \in {None, Catalog.products[p].indemnity}}
<1>1. kept \in SUBSET ToSet(candidates) /\ Fitting(candidates, indemnity) = Keep(candidates, kept)
  BY DEF Fitting
<1> HIDE DEF kept
<1>2. Keep(candidates, kept) \in Seq(V) /\ ToSet(Keep(candidates, kept)) = kept
  BY <1>1, SublistRange
<1>3. QED
  BY <1>1, <1>2

LEMMA NoneIsNoCode == None \notin RefusalCodes /\ None \notin DOMAIN Catalog.products
BY CatalogAssumption

\* A product is selected from those that fit, with the services that are bound.
LEMMA SelectProductMeans ==
    ASSUME NEW V, NEW fit \in Seq(V), NEW zone, NEW tier, NEW r, NEW ids
    PROVE  LET pick == SelectProduct(fit, zone, tier, r, ids)
           IN  \/ pick.fault = None /\ pick.ids = ids /\ pick.product \in ToSet(fit)
               \/ pick.fault \in PickCodes
<1> DEFINE pick == SelectProduct(fit, zone, tier, r, ids)
           best == Best(fit, zone, tier, Preference(r))
<1>1. DOMAIN fit = 1 .. Len(fit) /\ Len(fit) \in Nat
  OBVIOUS
<1>2. CASE fit = <<>>
  <2>1. Unresolved(zone, r.weight) \in PickCodes
    BY DEF Unresolved, PickCodes, RefusalCodes
  <2>2. QED
    BY <1>2, <2>1 DEF SelectProduct, Refused
<1>3. CASE fit # <<>> /\ Len(fit) = 1
  <2>1. 1 \in DOMAIN fit
    BY <1>1, <1>3
  <2>2. fit[1] \in ToSet(fit)
    BY <2>1 DEF ToSet
  <2>3. pick = Selected(fit[1], ids)
    BY <1>3 DEF SelectProduct
  <2>4. QED
    BY <2>2, <2>3 DEF Selected
<1>4. CASE fit # <<>> /\ Len(fit) # 1
  <2>1. pick = OneOf(fit, best, ids)
    BY <1>4 DEF SelectProduct
  <2>2. CASE best = {}
    BY <2>1, <2>2 DEF OneOf, Refused, PickCodes, RefusalCodes
  <2>3. CASE best # {}
    <3>1. best \subseteq DOMAIN fit
      BY DEF Best, Ranked
    <3>2. PICK i \in DOMAIN fit : pick = Selected(fit[i], ids)
      BY <2>1, <2>3, <3>1 DEF OneOf
    <3>3. fit[i] \in ToSet(fit)
      BY DEF ToSet
    <3>4. QED
      BY <3>2, <3>3 DEF Selected
  <2>4. QED
    BY <2>2, <2>3
<1>5. QED
  BY <1>2, <1>3, <1>4

LEMMA TokensMean ==
    ASSUME NEW candidates, NEW bind, NEW indemnity, bind.fault \in BindFaults
    PROVE  LET tokens == FilteredBy(bind, candidates, indemnity)
               left   == Included(candidates, bind.unmatched)
           IN  /\ tokens.candidates = left
               /\ tokens.ids = bind.ids
               /\ \/ tokens.fault = None /\ bind.fault = None /\ (bind.unmatched = {} \/ left # <<>>)
                  \/ tokens.fault \in PickCodes
                  \/ /\ tokens.fault = "PORTO_SERVICE_UNSUPPORTED"
                     /\ bind.fault = None /\ bind.unmatched # {} /\ left = <<>>
<1> DEFINE left == Included(candidates, bind.unmatched)
           fault == TokensFault(left, bind, indemnity)
<1>1. FilteredBy(bind, candidates, indemnity) = [candidates |-> left, ids |-> bind.ids, fault |-> fault]
  BY DEF FilteredBy, Tokens
<1> HIDE DEF left
<1>2. bind.fault # None => bind.fault \in PickCodes
  BY DEF BindFaults, PickCodes, RefusalCodes
<1>3. \/ fault = None /\ bind.fault = None /\ (bind.unmatched = {} \/ left # <<>>)
      \/ fault \in PickCodes
      \/ /\ fault = "PORTO_SERVICE_UNSUPPORTED"
         /\ bind.fault = None /\ bind.unmatched # {} /\ left = <<>>
  BY <1>2 DEF TokensFault, PickCodes, RefusalCodes
<1> HIDE DEF fault
<1>4. QED
  BY <1>1, <1>3 DEF left

BindWell(r, zone, tier) ==
    LET bind == BindOf(r, zone, tier)
    IN  /\ bind.fault \in BindFaults
        /\ bind.fault = None <=> NoFault(PoolOf(r, zone, tier), Distinct(r.pins), Distinct(r.kinds))
        /\ ToSet(bind.ids) =
              UNION {ToSet(BoundFor(PoolOf(r, zone, tier), Distinct(r.pins), kind)) : kind \in ToSet(r.kinds)}
        /\ bind.unmatched = {kind \in ToSet(r.kinds) : BoundFor(PoolOf(r, zone, tier), Distinct(r.pins), kind) = <<>>}

LEMMA DistinctOf ==
    ASSUME NEW r \in Request
    PROVE  /\ Distinct(r.pins) \in Seq(STRING) /\ ToSet(Distinct(r.pins)) = ToSet(r.pins)
           /\ Distinct(r.kinds) \in Seq(ServiceKinds) /\ ToSet(Distinct(r.kinds)) = ToSet(r.kinds)
<1>1. r.pins \in Seq(STRING) /\ r.kinds \in Seq(ServiceKinds)
  BY DEF Request
<1>2. QED
  BY <1>1, DistinctRange

LEMMA BindOfMeans == ASSUME NEW r \in Request, NEW zone, NEW tier PROVE BindWell(r, zone, tier)
<1> DEFINE pool == PoolOf(r, zone, tier)
           pins == Distinct(r.pins)
           kinds == Distinct(r.kinds)
<1>1. pool \in SUBSET Rows
  BY DEF PoolOf, Pool
<1>2. pins \in Seq(STRING) /\ kinds \in Seq(ServiceKinds) /\ ToSet(kinds) = ToSet(r.kinds)
  BY DistinctOf
<1>3. BindOf(r, zone, tier) = Bind(pool, pins, kinds)
  BY DEF BindOf
<1> HIDE DEF pool, pins, kinds
<1>4. /\ Bind(pool, pins, kinds).fault \in BindFaults
      /\ Bind(pool, pins, kinds).fault = None <=> NoFault(pool, pins, kinds)
  BY <1>1, <1>2, BindFaultFound
<1>5. /\ ToSet(Bind(pool, pins, kinds).ids) = UNION {ToSet(BoundFor(pool, pins, kind)) : kind \in ToSet(kinds)}
      /\ Bind(pool, pins, kinds).unmatched = {kind \in ToSet(kinds) : BoundFor(pool, pins, kind) = <<>>}
  BY <1>1, <1>2, BindIds DEF Unmatched
<1>6. QED
  BY <1>2, <1>3, <1>4, <1>5 DEF BindWell, pool, pins, kinds

PickedWell(r, zone, tier) ==
    LET pick == PickOf(r, zone, tier)
        bind == BindOf(r, zone, tier)
    IN  /\ pick.fault = None
        /\ bind.fault = None
        /\ pick.ids = bind.ids
        /\ pick.product \in ToSet(CandidatesOf(r, zone, tier))
        /\ \A kind \in bind.unmatched : Includes(pick.product, kind)
        /\ \E link \in Links : /\ link.product = pick.product
                               /\ Linked(link, zone, tier)
                               /\ r.product = None => EnvelopeMatches(link.product, r.envelope)

\* No candidate has all that no row offers.
NoneIncludes(r, zone, tier) ==
    /\ BindOf(r, zone, tier).fault = None
    /\ \A p \in ToSet(CandidatesOf(r, zone, tier)) :
          \E kind \in BindOf(r, zone, tier).unmatched : ~Includes(p, kind)

PickMeans(r, zone, tier) ==
    LET fault == PickOf(r, zone, tier).fault
    IN  \/ PickedWell(r, zone, tier)
        \/ fault \in PickCodes
        \/ fault = "PORTO_SERVICE_UNSUPPORTED" /\ NoneIncludes(r, zone, tier)

LEMMA DiscoveredMeans ==
    ASSUME NEW r \in Request, r.product = None, NEW zone, NEW tier PROVE PickMeans(r, zone, tier)
<1> DEFINE c == CandidatesOf(r, zone, tier)
           P == DOMAIN Catalog.products
           bind == BindOf(r, zone, tier)
           left == Included(c, bind.unmatched)
           tokens == FilteredBy(bind, c, r.indemnity)
           fit == Fitting(left, r.indemnity)
           pick == PickOf(r, zone, tier)
<1>1. pick = Picked(tokens, zone, tier, r)
  BY DEF PickOf, Discovered, ApplyServiceTokens, CandidatesOf, BindOf, PoolOf
<1>2. bind.fault \in BindFaults
  BY BindOfMeans DEF BindWell
<1>3. c = Candidates(zone, tier, r.envelope)
  BY DEF CandidatesOf
<1>4. /\ c \in Seq(P)
      /\ ToSet(c) = {link.product : link \in {l \in Links : Linked(l, zone, tier) /\ EnvelopeMatches(l.product, r.envelope)}}
  BY <1>3, CandidatesRange
<1>5. left \in Seq(P) /\ ToSet(left) = {p \in ToSet(c) : \A kind \in bind.unmatched : Includes(p, kind)}
  <2> HIDE DEF c, P, bind
  <2>1. QED
    BY <1>4, IncludedRange
<1>6. fit \in Seq(P) /\ ToSet(fit) \subseteq ToSet(left)
  <2> HIDE DEF left, P
  <2>1. QED
    BY <1>5, FittingRange
<1>7. /\ tokens.candidates = left /\ tokens.ids = bind.ids
      /\ \/ tokens.fault = None /\ bind.fault = None /\ (bind.unmatched = {} \/ left # <<>>)
         \/ tokens.fault \in PickCodes
         \/ /\ tokens.fault = "PORTO_SERVICE_UNSUPPORTED"
            /\ bind.fault = None /\ bind.unmatched # {} /\ left = <<>>
  BY <1>2, TokensMean
<1>8. left = <<>> <=> ToSet(left) = {}
  <2> HIDE DEF left, P
  <2>1. QED
    BY <1>5, Emptiness
<1> HIDE DEF c, P, bind, left, tokens, pick
<1>9. CASE tokens.fault # None
  <2>1. pick.fault = tokens.fault
    BY <1>1, <1>9 DEF Picked, Refused
  <2>2. CASE pick.fault \in PickCodes
    BY <2>2 DEF PickMeans, pick
  <2>3. CASE pick.fault = "PORTO_SERVICE_UNSUPPORTED" /\ bind.fault = None /\ left = <<>>
    <3>1. \A p \in ToSet(c) : \E kind \in bind.unmatched : ~Includes(p, kind)
      BY <1>5, <1>8, <2>3
    <3>2. NoneIncludes(r, zone, tier)
      BY <2>3, <3>1 DEF NoneIncludes, bind, c
    <3>3. QED
      BY <2>3, <3>2 DEF PickMeans, pick
  <2>4. QED
    BY <1>7, <1>9, <2>1, <2>2, <2>3
<1>10. CASE tokens.fault = None
  <2>1. bind.fault = None
    BY <1>7, <1>10, NoneIsNoCode DEF PickCodes, RefusalCodes
  <2>2. pick = SelectProduct(fit, zone, tier, r, bind.ids)
    BY <1>1, <1>7, <1>10 DEF Picked
  <2>3. \/ pick.fault = None /\ pick.ids = bind.ids /\ pick.product \in ToSet(fit)
        \/ pick.fault \in PickCodes
    <3> HIDE DEF fit
    <3>1. QED
      BY <1>6, <2>2, SelectProductMeans
  <2>4. CASE pick.fault \in PickCodes
    BY <2>4 DEF PickMeans, pick
  <2>5. CASE pick.fault = None /\ pick.ids = bind.ids /\ pick.product \in ToSet(fit)
    <3>1. pick.product \in ToSet(c) /\ \A kind \in bind.unmatched : Includes(pick.product, kind)
      BY <1>5, <1>6, <2>5
    <3>2. \E link \in Links : /\ link.product = pick.product
                              /\ Linked(link, zone, tier)
                              /\ EnvelopeMatches(link.product, r.envelope)
      BY <1>4, <3>1
    <3>3. PickedWell(r, zone, tier)
      BY <2>1, <2>5, <3>1, <3>2 DEF PickedWell, pick, bind, c
    <3>4. QED
      BY <3>3 DEF PickMeans
  <2>6. QED
    BY <2>3, <2>4, <2>5
<1>11. QED
  BY <1>9, <1>10

LEMMA NamedMeans ==
    ASSUME NEW r \in Request, r.product # None, NEW zone, NEW tier PROVE PickMeans(r, zone, tier)
<1> DEFINE p == r.product
           c == CandidatesOf(r, zone, tier)
           bind == BindOf(r, zone, tier)
           left == Included(c, bind.unmatched)
           tokens == FilteredBy(bind, c, r.indemnity)
           pick == PickOf(r, zone, tier)
<1>1. c = <<p>> /\ c \in Seq({p}) /\ ToSet(c) = {p}
  <2>1. c = <<p>>
    BY DEF CandidatesOf
  <2>2. DOMAIN <<p>> = {1} /\ <<p>>[1] = p /\ <<p>> \in Seq({p})
    OBVIOUS
  <2>3. ToSet(<<p>>) = {p}
    BY <2>2 DEF ToSet
  <2>4. QED
    BY <2>1, <2>2, <2>3
<1>2. /\ pick = Named(r, zone, tier)
      /\ tokens = ApplyServiceTokens(<<p>>, zone, r)
  BY <1>1 DEF PickOf, ApplyServiceTokens, BindOf, PoolOf
<1>3. bind.fault \in BindFaults
  BY BindOfMeans DEF BindWell
<1>4. left \in Seq({p}) /\ ToSet(left) = {q \in ToSet(c) : \A kind \in bind.unmatched : Includes(q, kind)}
  <2> DEFINE P == {p}
             K == bind.unmatched
  <2>1. c \in Seq(P) /\ left = Included(c, K)
    BY <1>1
  <2> HIDE DEF c, bind, left, K, P
  <2>2. left \in Seq(P) /\ ToSet(left) = {q \in ToSet(c) : \A kind \in K : Includes(q, kind)}
    BY <2>1, IncludedRange
  <2>3. QED
    BY <2>2 DEF K, P
<1>5. /\ tokens.ids = bind.ids
      /\ \/ tokens.fault = None /\ bind.fault = None /\ (bind.unmatched = {} \/ left # <<>>)
         \/ tokens.fault \in PickCodes
         \/ /\ tokens.fault = "PORTO_SERVICE_UNSUPPORTED"
            /\ bind.fault = None /\ bind.unmatched # {} /\ left = <<>>
  BY <1>3, TokensMean
<1>6. left = <<>> <=> ToSet(left) = {}
  <2> HIDE DEF left
  <2>1. QED
    BY <1>4, Emptiness
<1> HIDE DEF c, bind, left, tokens, pick
<1>7. CASE ~(\E link \in Links : link.product = p /\ Linked(link, zone, tier)) \/ p \notin DOMAIN Catalog.products
  <2>1. pick = Refused("PORTO_PRODUCT_NOT_FOUND") \/ pick = Refused(Unresolved(zone, r.weight))
    BY <1>2, <1>7 DEF Named
  <2>2. pick.fault \in PickCodes
    BY <2>1 DEF Refused, Unresolved, PickCodes, RefusalCodes
  <2>3. QED
    BY <2>2 DEF PickMeans, pick
<1>8. CASE (\E link \in Links : link.product = p /\ Linked(link, zone, tier)) /\ p \in DOMAIN Catalog.products
  <2>1. pick = Taking(p, tokens)
    BY <1>2, <1>8 DEF Named
  <2>2. CASE tokens.fault # None
    <3>1. pick.fault = tokens.fault
      BY <2>1, <2>2 DEF Taking, Refused
    <3>2. CASE pick.fault \in PickCodes
      BY <3>2 DEF PickMeans, pick
    <3>3. CASE pick.fault = "PORTO_SERVICE_UNSUPPORTED" /\ bind.fault = None /\ left = <<>>
      <4>1. \A q \in ToSet(c) : \E kind \in bind.unmatched : ~Includes(q, kind)
        BY <1>4, <1>6, <3>3
      <4>2. NoneIncludes(r, zone, tier)
        BY <3>3, <4>1 DEF NoneIncludes, bind, c
      <4>3. QED
        BY <3>3, <4>2 DEF PickMeans, pick
    <3>4. QED
      BY <1>5, <2>2, <3>1, <3>2, <3>3
  <2>3. CASE tokens.fault = None
    <3>1. bind.fault = None /\ (bind.unmatched = {} \/ left # <<>>)
      BY <1>5, <2>3, NoneIsNoCode DEF PickCodes, RefusalCodes
    <3>2. pick.fault = None /\ pick.product = p /\ pick.ids = bind.ids
      BY <1>5, <2>1, <2>3 DEF Taking, Selected
    <3>3. \A kind \in bind.unmatched : Includes(p, kind)
      BY <1>1, <1>4, <1>6, <3>1
    <3>4. PickedWell(r, zone, tier)
      BY <1>1, <1>8, <3>1, <3>2, <3>3 DEF PickedWell, pick, bind, c
    <3>5. QED
      BY <3>4 DEF PickMeans
  <2>4. QED
    BY <2>2, <2>3
<1>9. QED
  BY <1>7, <1>8

LEMMA PickIsWell == ASSUME NEW r \in Request, NEW zone, NEW tier PROVE PickMeans(r, zone, tier)
BY DiscoveredMeans, NamedMeans
-----------------------------------------------------------------------------
(* Answering *)

LEMMA QuoteFaultMeans ==
    ASSUME NEW product, NEW zone, NEW tier, NEW ids
    PROVE  /\ QuoteFault(product, zone, tier, ids) \in PickCodes \union {None}
           /\ QuoteFault(product, zone, tier, ids) = None <=>
                 /\ <<product, zone, tier>> \in DOMAIN Catalog.prices
                 /\ SelectionFault(ids, product, zone) = None
                 /\ \A id \in ids : <<id, zone>> \in DOMAIN Catalog.servicePrices
           /\ SelectionFault(ids, product, zone) = None =>
                 QuoteFault(product, zone, tier, ids) \in {None, "PORTO_PRICE_NOT_FOUND"}
<1> DEFINE a == IF <<product, zone, tier>> \in DOMAIN Catalog.prices THEN None ELSE "PORTO_PRICE_NOT_FOUND"
           b == SelectionFault(ids, product, zone)
           c == IF \A id \in ids : <<id, zone>> \in DOMAIN Catalog.servicePrices THEN None ELSE "PORTO_PRICE_NOT_FOUND"
           V == PickCodes \union {None}
           faults == <<a, b, c>>
<1>1. a \in V /\ b \in V /\ c \in V
  BY DEF PickCodes, RefusalCodes, SelectionFault
<1>2. None # "PORTO_PRICE_NOT_FOUND"
  BY NoneIsNoCode DEF RefusalCodes
<1>3. QuoteFault(product, zone, tier, ids) = FirstFault(faults)
  BY DEF QuoteFault
<1> HIDE DEF V
<1>4. faults \in Seq(V) /\ DOMAIN faults = 1 .. 3 /\ faults[1] = a /\ faults[2] = b /\ faults[3] = c
  <2> HIDE DEF a, b, c
  <2>1. QED
    BY <1>1
<1> HIDE DEF faults
<1>5. \/ FirstFault(faults) = None /\ \A i \in DOMAIN faults : faults[i] = None
      \/ FirstFault(faults) # None /\ FirstFault(faults) \in ToSet(faults)
  BY <1>4, FirstFaultFound
<1>6. ToSet(faults) = {a, b, c}
  <2>1. 1 .. 3 = {1, 2, 3}
    OBVIOUS
  <2> HIDE DEF a, b, c
  <2>2. QED
    BY <1>4, <2>1 DEF ToSet
<1>7. FirstFault(faults) = None <=> a = None /\ b = None /\ c = None
  <2> HIDE DEF a, b, c
  <2>1. 1 \in 1 .. 3 /\ 2 \in 1 .. 3 /\ 3 \in 1 .. 3
    OBVIOUS
  <2>2. QED
    BY <1>4, <1>5, <1>6, <2>1
<1>8. FirstFault(faults) \in V
  <2> HIDE DEF a, b, c
  <2>1. None \in V
    BY DEF V
  <2>2. QED
    BY <1>1, <1>5, <1>6, <2>1
<1>9. b = None => FirstFault(faults) \in {None, "PORTO_PRICE_NOT_FOUND"}
  <2>1. a \in {None, "PORTO_PRICE_NOT_FOUND"} /\ c \in {None, "PORTO_PRICE_NOT_FOUND"}
    OBVIOUS
  <2> HIDE DEF a, b, c
  <2>2. QED
    BY <1>5, <1>6, <2>1
<1>10. QED
  BY <1>2, <1>3, <1>7, <1>8, <1>9 DEF V

ZoneOf(r) == Catalog.zoneOf[r.country]

PlaceKnown(r) ==
    /\ r.country \in DOMAIN Catalog.zoneOf
    /\ TierOf(r.weight) \in TiersFor(r.weight)

PickFor(r) == PickOf(r, ZoneOf(r), TierOf(r.weight))

FaultOf(r) == QuoteFault(PickFor(r).product, ZoneOf(r), TierOf(r.weight), ToSet(PickFor(r).ids))

PortoOf(r) ==
    [product |-> PickFor(r).product,
     zone    |-> ZoneOf(r),
     tier    |-> TierOf(r.weight),
     amount  |-> Amount(PickFor(r).product, ZoneOf(r), TierOf(r.weight), ToSet(PickFor(r).ids)),
     kinds   |-> Distinct(r.kinds),
     ids     |-> PickFor(r).ids,
     profile |-> MarkProfile(ZoneOf(r), PickFor(r).ids)]

Answered(r) == PlaceKnown(r) /\ PickFor(r).fault = None /\ FaultOf(r) = None

LEMMA ResolveMeans ==
    ASSUME NEW r
    PROVE  \/ Answered(r) /\ Resolve(r) = PortoOf(r)
           \/ PlaceKnown(r) /\ PickFor(r).fault # None /\ Resolve(r) = Refusal(PickFor(r).fault)
           \/ \E code \in PickCodes : Resolve(r) = Refusal(code)
<1>1. CASE r.country \notin DOMAIN Catalog.zoneOf \/ TiersFor(r.weight) = {}
  <2>1. Resolve(r) \in {Refusal("PORTO_DESTINATION_INVALID"), Refusal("PORTO_TOO_HEAVY")}
    BY <1>1 DEF Resolve
  <2>2. "PORTO_DESTINATION_INVALID" \in PickCodes /\ "PORTO_TOO_HEAVY" \in PickCodes
    BY DEF PickCodes, RefusalCodes
  <2>3. QED
    BY <2>1, <2>2
<1>2. CASE r.country \in DOMAIN Catalog.zoneOf /\ TiersFor(r.weight) # {}
  <2>1. PlaceKnown(r)
    BY <1>2 DEF PlaceKnown, TierOf
  <2>2. Resolve(r) = Quoted(r, ZoneOf(r), TierOf(r.weight), PickFor(r))
    BY <1>2 DEF Resolve, ResolveIn, ZoneOf, TierOf, PickFor, PickOf
  <2>3. CASE PickFor(r).fault # None
    BY <2>1, <2>2, <2>3 DEF Quoted
  <2>4. CASE PickFor(r).fault = None
    <3>1. Resolve(r) = IF FaultOf(r) # None THEN Refusal(FaultOf(r)) ELSE PortoOf(r)
      BY <2>2, <2>4 DEF Quoted, Quote, FaultOf, PortoOf
    <3>2. FaultOf(r) \in PickCodes \union {None}
      BY QuoteFaultMeans DEF FaultOf
    <3>3. QED
      BY <2>1, <2>4, <3>1, <3>2 DEF Answered
  <2>5. QED
    BY <2>3, <2>4
<1>3. QED
  BY <1>1, <1>2

LEMMA PortoMeans == ASSUME NEW r, IsPorto(Resolve(r)) PROVE Answered(r) /\ Resolve(r) = PortoOf(r)
<1>1. \A code : ~IsPorto(Refusal(code))
  BY DEF IsPorto, Refusal
<1>2. QED
  BY <1>1, ResolveMeans

\* What an answer is made of.
AnswerWell(r) ==
    /\ PickedWell(r, ZoneOf(r), TierOf(r.weight))
    /\ <<PickFor(r).product, ZoneOf(r), TierOf(r.weight)>> \in DOMAIN Catalog.prices
    /\ ToSet(PickFor(r).ids) \subseteq Ids(Offered(PickFor(r).product, ZoneOf(r)))
    /\ SelectionFault(ToSet(PickFor(r).ids), PickFor(r).product, ZoneOf(r)) = None
    /\ \A id \in ToSet(PickFor(r).ids) : <<id, ZoneOf(r)>> \in DOMAIN Catalog.servicePrices

LEMMA AnsweredWell == ASSUME NEW r \in Request, Answered(r) PROVE AnswerWell(r)
<1>1. PickedWell(r, ZoneOf(r), TierOf(r.weight))
  <2>1. PickMeans(r, ZoneOf(r), TierOf(r.weight))
    BY PickIsWell
  <2>2. PickOf(r, ZoneOf(r), TierOf(r.weight)).fault = None
    BY DEF Answered, PickFor
  <2>3. QED
    BY <2>1, <2>2, NoneIsNoCode DEF PickMeans, PickCodes, RefusalCodes
<1>2. /\ <<PickFor(r).product, ZoneOf(r), TierOf(r.weight)>> \in DOMAIN Catalog.prices
      /\ SelectionFault(ToSet(PickFor(r).ids), PickFor(r).product, ZoneOf(r)) = None
      /\ \A id \in ToSet(PickFor(r).ids) : <<id, ZoneOf(r)>> \in DOMAIN Catalog.servicePrices
  BY QuoteFaultMeans DEF Answered, FaultOf
<1>3. ToSet(PickFor(r).ids) \subseteq Ids(Offered(PickFor(r).product, ZoneOf(r)))
  BY <1>2, NoneIsNoCode DEF SelectionFault, RefusalCodes
<1>4. QED
  BY <1>1, <1>2, <1>3 DEF AnswerWell

\* An id is bound for a kind that is asked for, and is a row of that kind.
LEMMA BoundIsOfKind ==
    ASSUME NEW r \in Request, NEW zone, NEW tier, NEW kind, NEW id,
           id \in ToSet(BoundFor(PoolOf(r, zone, tier), Distinct(r.pins), kind))
    PROVE  id \in Ids(Rows) /\ Row(id).kind = kind
<1> DEFINE pool == PoolOf(r, zone, tier)
           pins == Distinct(r.pins)
<1>1. pool \in SUBSET Rows /\ pins \in Seq(STRING)
  BY DistinctOf DEF PoolOf, Pool
<1> HIDE DEF pool, pins
<1>2. OfKind(pool, kind) \subseteq OfKind(Rows, kind) /\ OfKind(Rows, kind) \subseteq Ids(Rows)
  BY <1>1 DEF OfKind, Ids
<1>3. id \in OfKind(Rows, kind)
  BY <1>1, <1>2, BoundRange DEF pool, pins
<1>4. QED
  BY <1>2, <1>3, OfKindMeans

LEMMA PinsAreBound ==
    ASSUME NEW r \in Request, NEW zone, NEW tier, BindOf(r, zone, tier).fault = None, NEW pin \in ToSet(r.pins)
    PROVE  pin \in ToSet(BindOf(r, zone, tier).ids)
<1> DEFINE pool == PoolOf(r, zone, tier)
           pins == Distinct(r.pins)
           kinds == Distinct(r.kinds)
           kind == Row(pin).kind
           bind == BindOf(r, zone, tier)
<1>1. /\ pins \in Seq(STRING) /\ ToSet(pins) = ToSet(r.pins)
      /\ ToSet(kinds) = ToSet(r.kinds)
      /\ pool \in SUBSET Rows
  BY DistinctOf DEF PoolOf, Pool
<1>2. NoFault(pool, pins, kinds)
  BY BindOfMeans DEF BindWell
<1>3. ToSet(bind.ids) = UNION {ToSet(BoundFor(pool, pins, k)) : k \in ToSet(r.kinds)}
  BY BindOfMeans DEF BindWell
<1> HIDE DEF pool, pins, kinds, bind
<1>4. pins # <<>>
  BY <1>1, Emptiness
<1>5. PinFault(kinds, pin) = None /\ kinds # <<>>
  BY <1>1, <1>2, <1>4 DEF NoFault
<1>6. pin \in Ids(Rows) /\ kind \in ToSet(kinds)
  BY <1>5, NoneIsNoCode DEF PinFault, RefusalCodes
<1>7. pin \in OfKind(Rows, kind)
  <2>1. PICK row \in Rows : row.id = pin
    BY <1>6 DEF Ids
  <2>2. Row(pin) = row
    BY <2>1, RowOfId
  <2>3. QED
    BY <2>1, <2>2 DEF OfKind
<1>8. pin \in ToSet(BoundFor(pool, pins, kind))
  <2> HIDE DEF kind
  <2>1. pin \in ToSet(pins) \cap OfKind(Rows, kind)
    BY <1>1, <1>7
  <2>2. QED
    BY <1>1, <2>1, BoundRange
<1>9. QED
  BY <1>1, <1>3, <1>6, <1>8 DEF bind
-----------------------------------------------------------------------------
(* An answer serves its request *)

LEMMA KindsAreDelivered ==
    ASSUME NEW r \in Request, AnswerWell(r), NEW kind \in ToSet(r.kinds)
    PROVE  \/ \E row \in Offered(PickFor(r).product, ZoneOf(r)) : row.kind = kind /\ row.id \in ToSet(PickFor(r).ids)
           \/ Includes(PickFor(r).product, kind)
<1> DEFINE zone == ZoneOf(r)
           tier == TierOf(r.weight)
           bind == BindOf(r, zone, tier)
           bound == BoundFor(PoolOf(r, zone, tier), Distinct(r.pins), kind)
           product == PickFor(r).product
           ids == PickFor(r).ids
<1>1. /\ bind.fault = None /\ ids = bind.ids
      /\ \A k \in bind.unmatched : Includes(product, k)
  BY DEF AnswerWell, PickedWell, PickFor
<1>2. /\ ToSet(bound) \subseteq ToSet(bind.ids)
      /\ bound = <<>> => kind \in bind.unmatched
  <2>1. BindWell(r, zone, tier)
    BY BindOfMeans
  <2>2. QED
    BY <2>1 DEF BindWell
<1>3. bound = <<>> <=> ToSet(bound) = {}
  <2>1. PoolOf(r, zone, tier) \in SUBSET Rows /\ Distinct(r.pins) \in Seq(STRING)
    BY DistinctOf DEF PoolOf, Pool
  <2>2. QED
    BY <2>1, BoundRange
<1>4. CASE bound = <<>>
  BY <1>1, <1>2, <1>4
<1>5. CASE bound # <<>>
  <2>1. PICK id \in ToSet(bound) : TRUE
    BY <1>3, <1>5
  <2>2. id \in Ids(Rows) /\ Row(id).kind = kind
    BY <2>1, BoundIsOfKind
  <2>3. id \in ToSet(ids)
    BY <1>1, <1>2, <2>1
  <2>4. id \in Ids(Offered(product, zone))
    BY <2>3 DEF AnswerWell
  <2>5. PICK row \in Offered(product, zone) : row.id = id
    BY <2>4 DEF Ids
  <2>6. Row(id) = row
    BY <2>5, RowOfId DEF Offered
  <2>7. QED
    BY <2>2, <2>3, <2>5, <2>6
<1>6. QED
  BY <1>4, <1>5

ServesIt(ask, porto) ==
    /\ porto.zone = Catalog.zoneOf[ask.country]
    /\ ask.weight <= Catalog.tiers[porto.tier]
    /\ ask.product \in {None, porto.product}
    /\ ask.product = None => EnvelopeMatches(porto.product, ask.envelope)
    /\ ToSet(porto.kinds) = ToSet(ask.kinds)
    /\ \A kind \in ToSet(ask.kinds) : Delivers(porto, kind)
    /\ ToSet(ask.pins) \subseteq ToSet(porto.ids)
    /\ \A id \in ToSet(porto.ids) : Row(id).kind \in ToSet(ask.kinds)

LEMMA PortoServes == ASSUME NEW r \in Request, IsPorto(Resolve(r)) PROVE ServesIt(r, Resolve(r))
<1> DEFINE zone == ZoneOf(r)
           tier == TierOf(r.weight)
           product == PickFor(r).product
           ids == PickFor(r).ids
           porto == PortoOf(r)
<1>1. Answered(r) /\ Resolve(r) = porto
  BY PortoMeans
<1>2. AnswerWell(r)
  BY <1>1, AnsweredWell
<1>3. /\ porto.zone = zone /\ porto.tier = tier /\ porto.product = product
      /\ porto.kinds = Distinct(r.kinds) /\ porto.ids = ids
  BY DEF PortoOf
<1>4. /\ BindOf(r, zone, tier).fault = None
      /\ ids = BindOf(r, zone, tier).ids
      /\ product \in ToSet(CandidatesOf(r, zone, tier))
      /\ \E link \in Links : link.product = product /\ (r.product = None => EnvelopeMatches(link.product, r.envelope))
  BY <1>2 DEF AnswerWell, PickedWell, PickFor
<1> HIDE DEF porto
<1>5. porto.zone = Catalog.zoneOf[r.country] /\ r.weight <= Catalog.tiers[porto.tier]
  BY <1>1, <1>3 DEF ZoneOf, Answered, PlaceKnown, TiersFor
<1>6. r.product \in {None, porto.product}
  <2>1. CASE r.product # None
    <3>1. CandidatesOf(r, zone, tier) = <<r.product>>
      BY <2>1 DEF CandidatesOf
    <3>2. DOMAIN <<r.product>> = {1} /\ <<r.product>>[1] = r.product
      OBVIOUS
    <3>3. ToSet(<<r.product>>) = {r.product}
      BY <3>2 DEF ToSet
    <3>4. QED
      BY <1>3, <1>4, <3>1, <3>3
  <2>2. QED
    BY <2>1
<1>7. r.product = None => EnvelopeMatches(porto.product, r.envelope)
  BY <1>3, <1>4
<1>8. ToSet(porto.kinds) = ToSet(r.kinds)
  BY <1>3, DistinctOf
<1>9. ASSUME NEW kind \in ToSet(r.kinds) PROVE Delivers(porto, kind)
  BY <1>2, <1>3, KindsAreDelivered DEF Delivers
<1>10. ToSet(r.pins) \subseteq ToSet(porto.ids)
  BY <1>3, <1>4, PinsAreBound
<1>11. ASSUME NEW id \in ToSet(porto.ids) PROVE Row(id).kind \in ToSet(r.kinds)
  <2>1. PICK kind \in ToSet(r.kinds) : id \in ToSet(BoundFor(PoolOf(r, zone, tier), Distinct(r.pins), kind))
    BY <1>3, <1>4, BindOfMeans DEF BindWell
  <2>2. Row(id).kind = kind
    BY <2>1, BoundIsOfKind
  <2>3. QED
    BY <2>2
<1>12. QED
  BY <1>1, <1>5, <1>6, <1>7, <1>8, <1>9, <1>10, <1>11 DEF ServesIt
-----------------------------------------------------------------------------
(* What is unsupported is not to be had *)

LEMMA UnmatchedMeans ==
    ASSUME NEW r \in Request, NEW zone, NEW tier, NEW kind \in BindOf(r, zone, tier).unmatched
    PROVE  kind \in ToSet(r.kinds) /\ \A row \in PoolOf(r, zone, tier) : row.kind # kind
<1> DEFINE pool == PoolOf(r, zone, tier)
           pins == Distinct(r.pins)
<1>1. pool \in SUBSET Rows /\ pins \in Seq(STRING)
  BY DistinctOf DEF PoolOf, Pool
<1>2. kind \in ToSet(r.kinds) /\ BoundFor(pool, pins, kind) = <<>>
  BY BindOfMeans DEF BindWell
<1> HIDE DEF pool, pins
<1>3. OfKind(pool, kind) = {}
  <2> DEFINE bound == BoundFor(pool, pins, kind)
  <2>1. /\ ToSet(bound) = IF ToSet(pins) \cap OfKind(Rows, kind) # {} THEN ToSet(pins) \cap OfKind(Rows, kind)
                          ELSE OfKind(pool, kind)
        /\ bound = <<>> <=> ToSet(bound) = {}
    BY <1>1, BoundRange
  <2> HIDE DEF bound
  <2>2. ToSet(bound) = {}
    BY <1>2, <2>1 DEF bound
  <2>3. QED
    BY <2>1, <2>2
<1>4. QED
  BY <1>2, <1>3 DEF OfKind, pool

LEMMA PoolHoldsOffered ==
    ASSUME NEW r, NEW zone, NEW tier, NEW product \in ToSet(CandidatesOf(r, zone, tier)),
           CandidatesOf(r, zone, tier) \in Seq(ToSet(CandidatesOf(r, zone, tier)))
    PROVE  Offered(product, zone) \subseteq PoolOf(r, zone, tier)
<1> DEFINE c == CandidatesOf(r, zone, tier)
<1>1. Len(c) = 1 => c[1] = product
  <2> SUFFICES ASSUME Len(c) = 1 PROVE c[1] = product
    OBVIOUS
  <2>1. DOMAIN c = {1}
    <3> HIDE DEF c
    <3>1. QED
      BY DEF c
  <2>2. QED
    BY <2>1 DEF ToSet
<1>2. QED
  BY <1>1 DEF Offered, PoolOf, Pool

LEMMA CandidatesAreSequences ==
    ASSUME NEW r, NEW zone, NEW tier
    PROVE  CandidatesOf(r, zone, tier) \in Seq(ToSet(CandidatesOf(r, zone, tier)))
<1>1. ASSUME NEW V, NEW s \in Seq(V) PROVE s \in Seq(ToSet(s))
  <2>1. s \in [1 .. Len(s) -> V] /\ Len(s) \in Nat /\ DOMAIN s = 1 .. Len(s)
    OBVIOUS
  <2>2. \A i \in 1 .. Len(s) : s[i] \in ToSet(s)
    BY <2>1 DEF ToSet
  <2> DEFINE T == ToSet(s)
  <2> HIDE DEF T
  <2>3. s \in Seq(T)
    BY <2>1, <2>2 DEF T
  <2>4. QED
    BY <2>3 DEF T
<1>2. CASE r.product = None
  BY <1>1, <1>2, CandidatesRange DEF CandidatesOf
<1>3. CASE r.product # None
  <2> DEFINE p == r.product
             one == <<p>>
  <2>1. one \in Seq({p})
    OBVIOUS
  <2> HIDE DEF one
  <2>2. one \in Seq(ToSet(one))
    BY <1>1, <2>1
  <2>3. QED
    BY <1>3, <2>2 DEF CandidatesOf, one
<1>4. QED
  BY <1>2, <1>3

HonestlyUnsupported(ask) ==
    \A link \in Links :
        /\ Linked(link, ZoneOf(ask), TierOf(ask.weight))
        /\ ask.product \in {None, link.product}
        /\ EnvelopeMatches(link.product, ask.envelope)
        => \E kind \in ToSet(ask.kinds) :
              /\ kind \notin {row.kind : row \in Offered(link.product, ZoneOf(ask))}
              /\ ~Includes(link.product, kind)

LEMMA UnsupportedMeans ==
    ASSUME NEW r \in Request, Resolve(r) = Refusal("PORTO_SERVICE_UNSUPPORTED") PROVE HonestlyUnsupported(r)
<1> DEFINE zone == ZoneOf(r)
           tier == TierOf(r.weight)
           c == CandidatesOf(r, zone, tier)
<1>1. ~(\E code \in PickCodes : Resolve(r) = Refusal(code))
  <2>1. \A code : Refusal(code).refused = code
    BY DEF Refusal
  <2>2. QED
    BY <2>1 DEF PickCodes
<1>2. ~IsPorto(Resolve(r)) /\ IsPorto(PortoOf(r))
  BY DEF IsPorto, Refusal, PortoOf
<1>3. PickFor(r).fault = "PORTO_SERVICE_UNSUPPORTED"
  <2>1. \A code : Refusal(code).refused = code
    BY DEF Refusal
  <2>2. QED
    BY <1>1, <1>2, <2>1, ResolveMeans
<1>4. PickMeans(r, zone, tier)
  BY PickIsWell
<1>5. NoneIncludes(r, zone, tier)
  BY <1>3, <1>4, NoneIsNoCode DEF PickMeans, PickFor, PickCodes, PickedWell, RefusalCodes
<1>6. ASSUME NEW link \in Links, Linked(link, zone, tier), r.product \in {None, link.product},
             EnvelopeMatches(link.product, r.envelope)
      PROVE  \E kind \in ToSet(r.kinds) :
                /\ kind \notin {row.kind : row \in Offered(link.product, zone)}
                /\ ~Includes(link.product, kind)
  <2>1. link.product \in ToSet(c)
    <3>1. CASE r.product = None
      BY <1>6, <3>1, CandidatesRange DEF CandidatesOf
    <3>2. CASE r.product # None
      <4>1. c = <<r.product>> /\ r.product = link.product
        BY <1>6, <3>2 DEF CandidatesOf
      <4>2. 1 \in DOMAIN <<r.product>> /\ <<r.product>>[1] = r.product
        OBVIOUS
      <4>3. QED
        BY <4>1, <4>2 DEF ToSet
    <3>3. QED
      BY <3>1, <3>2
  <2>2. PICK kind \in BindOf(r, zone, tier).unmatched : ~Includes(link.product, kind)
    BY <1>5, <2>1 DEF NoneIncludes
  <2>3. kind \in ToSet(r.kinds) /\ \A row \in PoolOf(r, zone, tier) : row.kind # kind
    BY UnmatchedMeans
  <2>4. Offered(link.product, zone) \subseteq PoolOf(r, zone, tier)
    BY <2>1, PoolHoldsOffered, CandidatesAreSequences
  <2>5. QED
    BY <2>2, <2>3, <2>4
<1>7. QED
  BY <1>6 DEF HonestlyUnsupported
-----------------------------------------------------------------------------
(* Naming the product that discovery selects *)

LEMMA AnsweredIsPorto == ASSUME NEW r, Answered(r) PROVE Resolve(r) = PortoOf(r)
<1>1. r.country \in DOMAIN Catalog.zoneOf /\ TiersFor(r.weight) # {}
  BY DEF Answered, PlaceKnown
<1>2. Resolve(r) = Quoted(r, ZoneOf(r), TierOf(r.weight), PickFor(r))
  BY <1>1 DEF Resolve, ResolveIn, ZoneOf, TierOf, PickFor, PickOf
<1>3. PickFor(r).fault = None /\ FaultOf(r) = None
  BY DEF Answered
<1>4. QED
  BY <1>2, <1>3 DEF Quoted, Quote, FaultOf, PortoOf

\* The rows of the product bind as the wider pool did: what that pool bound
\* for a kind, the product offers.
LEMMA NarrowBinds ==
    ASSUME NEW wide \in SUBSET Rows, NEW narrow \in SUBSET wide, NEW pins \in Seq(STRING), NEW kind,
           KindFault(wide, pins, kind) = None,
           ToSet(BoundFor(wide, pins, kind)) \subseteq Ids(narrow)
    PROVE  /\ KindFault(narrow, pins, kind) = None
           /\ BoundFor(narrow, pins, kind) = BoundFor(wide, pins, kind)
<1> DEFINE K == OfKind(Rows, kind)
           W == OfKind(wide, kind)
           N == OfKind(narrow, kind)
           pinned == ToSet(pins) \cap K
           bound == BoundFor(wide, pins, kind)
<1>1. narrow \in SUBSET Rows
  OBVIOUS
<1>2. /\ ToSet(PinnedTo(kind, pins)) = pinned
      /\ PinnedTo(kind, pins) = <<>> <=> pinned = {}
  BY PinnedRange
<1>3. /\ ToSet(bound) = IF pinned # {} THEN pinned ELSE W
  BY BoundRange
<1>4. N \subseteq W /\ W \subseteq K /\ K \subseteq Ids(Rows)
  BY DEF OfKind, Ids
<1>5. \A id \in K : id \in Ids(narrow) => id \in N
  <2> SUFFICES ASSUME NEW row \in Rows, row.kind = kind, NEW other \in narrow, other.id = row.id
               PROVE  row.id \in N
    BY DEF OfKind, Ids
  <2>1. other = row
    BY CatalogAssumption
  <2>2. QED
    BY <2>1 DEF OfKind
<1>6. IsFiniteSet(W) /\ Cardinality(W) \in Nat /\ IsFiniteSet(N) /\ Cardinality(N) \in Nat /\ Cardinality(N) <= Cardinality(W)
  <2>1. IsFiniteSet(W)
    BY OfKindFinite
  <2> HIDE DEF W, N
  <2>2. QED
    BY <1>4, <2>1, FS_Subset, FS_CardinalityType
<1>7. /\ pinned # {} => pinned \subseteq W
      /\ pinned = {} => ~(Cardinality(W) > 1)
  BY <1>2, NoneIsNoCode DEF KindFault, RefusalCodes
<1>8. KindFault(narrow, pins, kind) =
         IF pinned # {} /\ ~(pinned \subseteq N) THEN "PORTO_DATA_NOT_FOUND"
         ELSE IF pinned = {} /\ Cardinality(N) > 1 THEN "PORTO_SERVICE_AMBIGUOUS" ELSE None
  BY <1>2 DEF KindFault
<1>9. BoundFor(narrow, pins, kind) = IF pinned # {} THEN PinnedTo(kind, pins) ELSE SetToSeq(N)
  BY <1>2 DEF BoundFor
<1>10. bound = IF pinned # {} THEN PinnedTo(kind, pins) ELSE SetToSeq(W)
  BY <1>2 DEF BoundFor
<1> HIDE DEF K, W, N, pinned, bound
<1>11. CASE pinned # {}
  <2>1. pinned \subseteq K
    BY DEF pinned
  <2>2. pinned \subseteq N
    BY <1>3, <1>5, <1>11, <2>1 DEF bound
  <2>3. QED
    BY <1>8, <1>9, <1>10, <1>11, <2>2 DEF bound
<1>12. CASE pinned = {}
  <2>1. W \subseteq N
    BY <1>3, <1>4, <1>5, <1>12 DEF bound
  <2>2. W = N
    BY <1>4, <2>1
  <2>3. ~(Cardinality(N) > 1)
    BY <1>7, <1>12, <2>2
  <2>4. QED
    BY <1>8, <1>9, <1>10, <1>12, <2>2, <2>3 DEF bound
<1>13. QED
  BY <1>11, <1>12

LEMMA NarrowBindsAll ==
    ASSUME NEW wide \in SUBSET Rows, NEW narrow \in SUBSET wide,
           NEW pins \in Seq(STRING), NEW kinds \in Seq(ServiceKinds),
           Bind(wide, pins, kinds).fault = None,
           ToSet(Bind(wide, pins, kinds).ids) \subseteq Ids(narrow)
    PROVE  Bind(narrow, pins, kinds) = Bind(wide, pins, kinds)
<1>1. narrow \in SUBSET Rows
  OBVIOUS
<1>2. NoFault(wide, pins, kinds)
  BY BindFaultFound
<1>3. \A kind \in ToSet(kinds) : ToSet(BoundFor(wide, pins, kind)) \subseteq Ids(narrow)
  BY BindIds
<1>4. \A kind \in ToSet(kinds) : /\ KindFault(narrow, pins, kind) = None
                                 /\ BoundFor(narrow, pins, kind) = BoundFor(wide, pins, kind)
  <2> TAKE kind \in ToSet(kinds)
  <2>1. KindFault(wide, pins, kind) = None
    BY <1>2 DEF NoFault
  <2>2. QED
    BY <1>3, <2>1, NarrowBinds
<1>5. NoFault(narrow, pins, kinds)
  BY <1>2, <1>4 DEF NoFault
<1>6. Bind(narrow, pins, kinds).fault = None
  BY <1>1, <1>5, BindFaultFound
<1> DEFINE of(pool) == [i \in DOMAIN kinds |-> BoundFor(pool, pins, kinds[i])]
<1>7. of(narrow) = of(wide)
  <2>1. \A i \in DOMAIN kinds : kinds[i] \in ToSet(kinds)
    BY DEF ToSet
  <2>2. QED
    BY <1>4, <2>1
<1>8. Unmatched(narrow, pins, kinds) = Unmatched(wide, pins, kinds)
  BY <1>4 DEF Unmatched
<1>9. \A pool : Bind(pool, pins, kinds) =
         [fault |-> Bind(pool, pins, kinds).fault, ids |-> FlattenSeq(of(pool)), unmatched |-> Unmatched(pool, pins, kinds)]
  BY DEF Bind
<1> HIDE DEF of
<1>10. QED
  BY <1>6, <1>7, <1>8, <1>9

\* Named is what a product's own rows and features can do.
LEMMA NamedTakes ==
    ASSUME NEW p, NEW bind, NEW indemnity, bind.fault = None, \A kind \in bind.unmatched : Includes(p, kind)
    PROVE  Taking(p, FilteredBy(bind, <<p>>, indemnity)) = Selected(p, bind.ids)
<1> DEFINE left == Included(<<p>>, bind.unmatched)
           some == Indemnities(ToSet(left))
<1>1. ToSet(<<p>>) = {p}
  <2>1. DOMAIN <<p>> = {1} /\ <<p>>[1] = p
    OBVIOUS
  <2>2. QED
    BY <2>1 DEF ToSet
<1>2. left = <<p>>
  <2> DEFINE kept == {q \in ToSet(<<p>>) : \A kind \in bind.unmatched : Includes(q, kind)}
  <2>1. p \in kept
    BY <1>1
  <2>2. left = Keep(<<p>>, kept)
    BY DEF Included
  <2> HIDE DEF kept, left
  <2>3. QED
    BY <2>1, <2>2, KeepOne
<1>3. left # <<>>
  BY <1>2
<1>4. ~(Cardinality(some) > 1)
  <2> DEFINE one == {Catalog.products[p].indemnity}
  <2>1. some \subseteq one
    BY <1>1, <1>2 DEF Indemnities
  <2>2. IsFiniteSet(one) /\ Cardinality(one) = 1
    BY FS_Singleton
  <2> HIDE DEF some, one
  <2>3. IsFiniteSet(some) /\ Cardinality(some) <= Cardinality(one)
    BY <2>1, <2>2, FS_Subset
  <2>4. Cardinality(some) \in Nat
    BY <2>3, FS_CardinalityType
  <2>5. QED
    BY <2>2, <2>3, <2>4
<1>5. TokensFault(left, bind, indemnity) = None
  BY <1>3, <1>4 DEF TokensFault
<1>6. FilteredBy(bind, <<p>>, indemnity) = [candidates |-> left, ids |-> bind.ids, fault |-> None]
  BY <1>5 DEF FilteredBy, Tokens
<1>7. QED
  BY <1>6 DEF Taking

Naming(r, p) == [r EXCEPT !.product = p]

LEMMA NamingSame == ASSUME NEW r \in Request, IsPorto(Resolve(r)) PROVE Resolve(Naming(r, Resolve(r).product)) = Resolve(r)
<1> DEFINE zone == ZoneOf(r)
           tier == TierOf(r.weight)
           p == PickFor(r).product
           s == Naming(r, p)
<1>1. Answered(r) /\ Resolve(r) = PortoOf(r)
  BY PortoMeans
<1>2. Resolve(r).product = p
  BY <1>1 DEF PortoOf
<1>3. AnswerWell(r)
  BY <1>1, AnsweredWell
<1>4. /\ BindOf(r, zone, tier).fault = None
      /\ PickFor(r).ids = BindOf(r, zone, tier).ids
      /\ p \in ToSet(CandidatesOf(r, zone, tier))
      /\ \A kind \in BindOf(r, zone, tier).unmatched : Includes(p, kind)
      /\ \E link \in Links : link.product = p /\ Linked(link, zone, tier)
      /\ ToSet(PickFor(r).ids) \subseteq Ids(Offered(p, zone))
  BY <1>3 DEF AnswerWell, PickedWell, PickFor
<1>5. CASE r.product # None
  <2>1. CandidatesOf(r, zone, tier) = <<r.product>>
    BY <1>5 DEF CandidatesOf
  <2>2. DOMAIN <<r.product>> = {1} /\ <<r.product>>[1] = r.product
    OBVIOUS
  <2>3. p = r.product
    BY <1>4, <2>1, <2>2 DEF ToSet
  <2>4. s = r
    BY <2>3 DEF Naming, Request
  <2>5. QED
    BY <1>2, <2>4
<1>6. CASE r.product = None
  <2>1. /\ s.country = r.country /\ s.weight = r.weight /\ s.product = p
        /\ s.kinds = r.kinds /\ s.pins = r.pins /\ s.indemnity = r.indemnity
    BY DEF Naming, Request
  <2>2. p \in DOMAIN Catalog.products
    BY <1>4, CatalogAssumption
  <2>3. ZoneOf(s) = zone /\ TierOf(s.weight) = tier /\ (PlaceKnown(r) => PlaceKnown(s))
    BY <2>1 DEF ZoneOf, PlaceKnown
  <2> DEFINE bind == Bind(Pool(<<p>>, zone), Distinct(r.pins), Distinct(r.kinds))
  <2>4. bind = BindOf(r, zone, tier)
    <3> DEFINE wide == PoolOf(r, zone, tier)
               narrow == Pool(<<p>>, zone)
               pins == Distinct(r.pins)
               kinds == Distinct(r.kinds)
    <3>1. narrow = Offered(p, zone)
      BY DEF Pool, Offered
    <3>2. narrow \subseteq wide
      BY <1>4, <3>1, PoolHoldsOffered, CandidatesAreSequences
    <3>3. wide \in SUBSET Rows /\ pins \in Seq(STRING) /\ kinds \in Seq(ServiceKinds)
      BY DistinctOf DEF PoolOf, Pool
    <3>4. BindOf(r, zone, tier) = Bind(wide, pins, kinds)
      BY DEF BindOf
    <3> HIDE DEF wide, narrow, pins, kinds
    <3>5. Bind(narrow, pins, kinds) = Bind(wide, pins, kinds)
      BY <1>4, <3>1, <3>2, <3>3, <3>4, NarrowBindsAll
    <3>6. QED
      BY <3>4, <3>5 DEF narrow, pins, kinds
  <2>5. ApplyServiceTokens(<<p>>, zone, s) = FilteredBy(bind, <<p>>, r.indemnity)
    BY <2>1 DEF ApplyServiceTokens
  <2> HIDE DEF bind
  <2>6. Taking(p, FilteredBy(bind, <<p>>, r.indemnity)) = Selected(p, bind.ids)
    BY <1>4, <2>4, NamedTakes
  <2>7. Named(s, zone, tier) = Selected(p, bind.ids)
    BY <1>4, <2>1, <2>2, <2>5, <2>6 DEF Named
  <2>8. PickFor(s) = Selected(p, bind.ids)
    BY <2>1, <2>2, <2>3, <2>7, NoneIsNoCode DEF PickFor, PickOf
  <2>9. PickFor(s).fault = None /\ PickFor(s).product = p /\ PickFor(s).ids = PickFor(r).ids
    BY <1>4, <2>4, <2>8 DEF Selected
  <2>10. FaultOf(s) = FaultOf(r)
    BY <2>3, <2>9 DEF FaultOf
  <2>11. Answered(s)
    BY <1>1, <2>3, <2>9, <2>10 DEF Answered
  <2>12. PortoOf(s) = PortoOf(r)
    BY <2>1, <2>3, <2>9 DEF PortoOf
  <2>13. QED
    BY <1>1, <1>2, <2>11, <2>12, AnsweredIsPorto
<1>7. QED
  BY <1>5, <1>6
-----------------------------------------------------------------------------
(* Every request, every catalog *)

ReturnedWell == \A got \in answered : got.request \in Questions /\ got.answer = Resolve(got.request)

LEMMA ReturnedPreserved == ReturnedWell /\ [UncachedNext]_answered => ReturnedWell'
<1> SUFFICES ASSUME ReturnedWell, [UncachedNext]_answered PROVE ReturnedWell'
  OBVIOUS
<1>1. ASSUME NEW r \in Questions, ResolveUncached(r) PROVE ReturnedWell'
  BY <1>1 DEF ResolveUncached, ReturnedWell
<1>2. CASE UNCHANGED answered
  BY <1>2 DEF ReturnedWell
<1>3. QED
  BY <1>1, <1>2 DEF UncachedNext

LEMMA ReturnedAlways == UncachedSpec => []ReturnedWell
<1>1. UncachedInit => ReturnedWell
  BY DEF UncachedInit, ReturnedWell
<1>2. QED
  BY <1>1, ReturnedPreserved, PTL DEF UncachedSpec

LEMMA AskedIsRequest == ASSUME ReturnedWell, NEW got \in answered PROVE got.request \in Request /\ got.answer = Resolve(got.request)
BY QuestionsAssumption DEF ReturnedWell

\* Every answer serves its request, for every catalog and every request
\* (porto_resolver.py:182-412, service_resolver.py:93-241).
THEOREM ServesRequestCorrect == UncachedSpec => []ServesRequest
<1>1. ReturnedWell => ServesRequest
  BY AskedIsRequest, PortoServes DEF ServesRequest, ServesIt
<1>2. QED
  BY <1>1, ReturnedAlways, PTL

\* A refusal as unsupported is true, for every catalog and every request
\* (service_resolver.py:160-190, product_resolver.py:107-117).
THEOREM UnsupportedIsHonestCorrect == UncachedSpec => []UnsupportedIsHonest
<1>1. ReturnedWell => UnsupportedIsHonest
  BY AskedIsRequest, UnsupportedMeans DEF UnsupportedIsHonest, HonestlyUnsupported, ZoneOf, TierOf
<1>2. QED
  BY <1>1, ReturnedAlways, PTL

\* Naming the product that discovery selects gives the same answer, for every
\* catalog and every request (porto_resolver.py:230-339).
THEOREM NamingChangesNothingCorrect == UncachedSpec => []NamingChangesNothing
<1>1. ReturnedWell => NamingChangesNothing
  BY AskedIsRequest, NamingSame DEF NamingChangesNothing, Naming
<1>2. QED
  BY <1>1, ReturnedAlways, PTL
-----------------------------------------------------------------------------
(* Advice *)

LEMMA MaxWeightMeans ==
    ASSUME NEW p \in AllProducts
    PROVE  LET own == Catalog.products[p].tier
           IN  \/ MaxWeight(p) = None
               \/ /\ MaxWeight(p) \in Nat
                  /\ own # None => MaxWeight(p) = Catalog.tiers[own]
                  /\ own = None => \A link \in Links : link.product = p => \A t \in link.tiers : Catalog.tiers[t] <= MaxWeight(p)
<1> DEFINE own == Catalog.products[p].tier
           D == DOMAIN Catalog.tiers
           linked == UNION {link.tiers : link \in {l \in Links : l.product = p}}
           tiers == IF own # None THEN {own} ELSE linked
           weights == {Catalog.tiers[t] : t \in tiers}
           weigh == [t \in tiers |-> Catalog.tiers[t]]
<1>1. linked \subseteq D /\ (own # None => own \in D)
  BY CatalogAssumption DEF AllProducts
<1>2. tiers \subseteq D /\ IsFiniteSet(D)
  BY <1>1, CatalogAssumption
<1>3. IsFiniteSet(tiers)
  <2> HIDE DEF tiers, D
  <2>1. QED
    BY <1>2, FS_Subset
<1>4. weigh \in Surjection(tiers, weights)
  <2> HIDE DEF tiers
  <2>1. QED
    BY DEF Surjection
<1>5. IsFiniteSet(weights)
  <2> HIDE DEF tiers, weights, weigh
  <2>1. QED
    BY <1>3, <1>4, FS_Surjection
<1>6. weights \subseteq Nat
  BY <1>2, CatalogAssumption
<1>7. MaxWeight(p) = IF own = None /\ weights \subseteq {0} THEN None ELSE Max(weights)
  BY DEF MaxWeight
<1>8. CASE own = None /\ weights \subseteq {0}
  BY <1>7, <1>8
<1>9. CASE ~(own = None /\ weights \subseteq {0})
  <2>1. weights # {}
    BY <1>9
  <2>2. \E m \in weights : \A n \in weights : n <= m
    <3> HIDE DEF weights
    <3>1. QED
      BY <1>5, <1>6, <2>1, Greatest
  <2>3. Max(weights) \in weights /\ \A n \in weights : Max(weights) >= n
    <3> HIDE DEF weights
    <3>1. \E m \in weights : \A n \in weights : m >= n
      BY <1>6, <2>2
    <3>2. QED
      BY <3>1 DEF Max
  <2>4. MaxWeight(p) \in Nat /\ MaxWeight(p) \in weights /\ \A n \in weights : n <= MaxWeight(p)
    <3> HIDE DEF weights
    <3>1. QED
      BY <1>6, <1>7, <1>9, <2>3
  <2>5. CASE own # None
    <3>1. weights = {Catalog.tiers[own]}
      BY <2>5
    <3>2. QED
      BY <2>4, <2>5, <3>1
  <2>6. CASE own = None
    <3>1. ASSUME NEW link \in Links, link.product = p, NEW t \in link.tiers PROVE Catalog.tiers[t] <= MaxWeight(p)
      BY <2>4, <2>6, <3>1
    <3>2. QED
      BY <2>4, <2>6, <3>1
  <2>7. QED
    BY <2>5, <2>6
<1>10. QED
  BY <1>8, <1>9

LEMMA LightestExists ==
    ASSUME NEW S \in SUBSET AllProducts, S # {}
    PROVE  \E p \in S : \A q \in S : AtMost(MaxWeight(p), MaxWeight(q))
<1> DEFINE limited == {p \in S : MaxWeight(p) # None}
           limits == {MaxWeight(p) : p \in limited}
<1>1. CASE limited = {}
  BY <1>1 DEF AtMost
<1>2. CASE limited # {}
  <2>1. limits \subseteq Nat /\ limits # {}
    BY <1>2, MaxWeightMeans
  <2>2. PICK m \in limits : \A n \in limits : m <= n
    <3> HIDE DEF limits
    <3>1. QED
      BY <2>1, Least
  <2>3. PICK p \in limited : MaxWeight(p) = m
    BY <2>2
  <2>4. \A q \in S : AtMost(MaxWeight(p), MaxWeight(q))
    BY <2>2, <2>3 DEF AtMost
  <2>5. QED
    BY <2>3, <2>4
<1>3. QED
  BY <1>1, <1>2

LEMMA SuggestedExists ==
    ASSUME NEW candidates, NEW weight, Eligible(candidates, weight) # {}
    PROVE  /\ Suggested(candidates, weight) # {}
           /\ Suggested(candidates, weight) \subseteq Eligible(candidates, weight)
<1>1. Eligible(candidates, weight) \in SUBSET AllProducts
  BY DEF Eligible, Considered
<1>2. QED
  BY <1>1, LightestExists DEF Suggested

\* What is listed for a weight takes it.
LEMMA ListedTakes ==
    ASSUME OwnTierReaches, NEW weight \in Int, NEW country, NEW envelope,
           NEW option \in OptionsFor(country, weight, envelope)
    PROVE  Covers(MaxWeight(option.product), weight)
<1> DEFINE p == option.product
           tier == TierOf(weight)
           zone == Catalog.zoneOf[country]
<1>1. TiersFor(weight) # {} /\ option \in OptionsIn(zone, tier, envelope)
  BY DEF OptionsFor
<1>2. p \in AllProducts /\ IsValidCombination(p, zone, tier)
  <2> HIDE DEF p, tier, zone
  <2>1. PICK q \in {r \in AllProducts : EnvelopeMatches(r, envelope) /\ IsValidCombination(r, zone, tier)} :
           option = [product   |-> q,
                     maxWeight |-> MaxWeight(q),
                     amount    |-> Lookup(Catalog.prices, <<q, zone, tier>>),
                     services  |-> ServiceOptions(q, zone)]
    BY <1>1, Zenon DEF OptionsIn
  <2>2. option.product = q
    BY <2>1
  <2>3. QED
    BY <2>1, <2>2 DEF p
<1>3. tier \in DOMAIN Catalog.tiers /\ weight <= Catalog.tiers[tier] /\ Catalog.tiers[tier] \in Nat
  BY <1>1, CatalogAssumption DEF TierOf, TiersFor
<1>4. PICK link \in Links : link.product = p /\ tier \in link.tiers
  BY <1>2 DEF IsValidCombination, Linked
<1> DEFINE own == Catalog.products[p].tier
<1>5. \/ MaxWeight(p) = None
      \/ /\ MaxWeight(p) \in Nat
         /\ own # None => MaxWeight(p) = Catalog.tiers[own]
         /\ own = None => Catalog.tiers[tier] <= MaxWeight(p)
  BY <1>2, <1>4, MaxWeightMeans
<1>6. own # None => Catalog.tiers[tier] <= Catalog.tiers[own]
  BY <1>4 DEF OwnTierReaches
<1> HIDE DEF p, tier, own
<1>7. MaxWeight(p) = None \/ (MaxWeight(p) \in Nat /\ weight <= MaxWeight(p))
  BY <1>3, <1>5, <1>6
<1>8. QED
  BY <1>7 DEF Covers, p

Advised(it) ==
    /\ it.weight \in Weights
    /\ \E suggested \in OrNone(Suggested(it.candidates, it.weight)) :
          it.answer \in AdviceOn(it.selected, it.candidates, suggested, it.weight)

ToldWell == \A it \in told : it.by = "advice" => Advised(it)

LEMMA ToldPreserved == ToldWell /\ [OptionsNext]_told => ToldWell'
<1> SUFFICES ASSUME ToldWell, [OptionsNext]_told PROVE ToldWell'
  OBVIOUS
<1>1. ASSUME NEW country, NEW weight, NEW envelope, ListOptions(country, weight, envelope) PROVE ToldWell'
  BY <1>1 DEF ListOptions, ToldWell
<1>2. ASSUME NEW product, NEW country, NEW weight, Estimate(product, country, weight) PROVE ToldWell'
  BY <1>2 DEF Estimate, ToldWell
<1>3. ASSUME NEW selected, NEW candidates, NEW weight \in Weights, Advise(selected, candidates, weight) PROVE ToldWell'
  <2>1. PICK suggested \in OrNone(Suggested(candidates, weight)) :
           \E answer \in AdviceOn(selected, candidates, suggested, weight) :
              told' = {[by |-> "advice", selected |-> selected, candidates |-> candidates, weight |-> weight,
                        answer |-> answer]}
    BY <1>3 DEF Advise
  <2>2. PICK answer \in AdviceOn(selected, candidates, suggested, weight) :
           told' = {[by |-> "advice", selected |-> selected, candidates |-> candidates, weight |-> weight,
                     answer |-> answer]}
    BY <2>1
  <2>3. QED
    BY <2>1, <2>2 DEF ToldWell, Advised
<1>4. CASE UNCHANGED told
  BY <1>4 DEF ToldWell
<1>5. QED
  BY <1>1, <1>2, <1>3, <1>4 DEF OptionsNext

LEMMA ToldAlways == OptionsSpec => []ToldWell
<1>1. OptionsInit => ToldWell
  BY DEF OptionsInit, ToldWell
<1>2. QED
  BY <1>1, ToldPreserved, PTL DEF OptionsSpec

AdviceTakes(it) ==
    Eligible(it.candidates, it.weight) # {} =>
        /\ Covers(MaxWeight(it.answer.effective), it.weight)
        /\ it.answer.effective \in {it.selected} \union Suggested(it.candidates, it.weight)

LEMMA AdvisedTakes == ASSUME NEW it, Advised(it) PROVE AdviceTakes(it)
<1> SUFFICES ASSUME Eligible(it.candidates, it.weight) # {}
             PROVE  /\ Covers(MaxWeight(it.answer.effective), it.weight)
                    /\ it.answer.effective \in {it.selected} \union Suggested(it.candidates, it.weight)
  BY DEF AdviceTakes
<1> DEFINE effective == it.answer.effective
           found == Suggested(it.candidates, it.weight)
<1>1. found # {} /\ found \subseteq Eligible(it.candidates, it.weight)
  BY SuggestedExists
<1>2. PICK s \in OrNone(found) : it.answer \in AdviceOn(it.selected, it.candidates, s, it.weight)
  BY DEF Advised
<1>3. s \in found
  BY <1>1, <1>2 DEF OrNone
<1>4. Covers(MaxWeight(s), it.weight) /\ s \in AllProducts /\ s # None
  BY <1>1, <1>3, NoneIsNoCode DEF Eligible, Considered, AllProducts
<1>5. CASE it.selected \notin Considered(it.candidates)
  <2>1. effective \in Fallback(it.candidates, s)
    BY <1>2, <1>5 DEF AdviceOn
  <2>2. effective = s
    BY <1>4, <2>1 DEF Fallback
  <2>3. QED
    BY <1>3, <1>4, <2>2
<1>6. CASE it.selected \in Considered(it.candidates)
  <2>1. effective = IF ~Covers(MaxWeight(it.selected), it.weight) /\ s # None THEN s ELSE it.selected
    BY <1>2, <1>6 DEF AdviceOn
  <2>2. QED
    BY <1>3, <1>4, <2>1
<1>7. QED
  BY <1>5, <1>6

LEMMA AdvisedKeeps ==
    ASSUME OwnTierReaches, NEW it, Advised(it), it.selected \in Considered(it.candidates),
           NEW country, it.selected \in {option.product : option \in OptionsFor(country, it.weight, None)}
    PROVE  it.answer.action = "KEEP" /\ it.answer.effective = it.selected
<1>1. it.weight \in Int
  BY OptionsAssumption DEF Advised
<1>2. Covers(MaxWeight(it.selected), it.weight)
  BY <1>1, ListedTakes
<1>3. PICK s : it.answer \in AdviceOn(it.selected, it.candidates, s, it.weight)
  BY DEF Advised
<1>4. QED
  BY <1>2, <1>3 DEF AdviceOn

\* Advice names a product that takes the weight if any candidate does: the
\* selected one, or a lightest of them, for every catalog (product_advice.py:89-142).
THEOREM AdviceTakesTheWeight == OptionsSpec => [](\A it \in told : it.by = "advice" => AdviceTakes(it))
<1>1. ToldWell => \A it \in told : it.by = "advice" => AdviceTakes(it)
  BY AdvisedTakes DEF ToldWell
<1>2. QED
  BY <1>1, ToldAlways, PTL

\* Where no product is linked to a tier above its own, which the code does not
\* check, advice also keeps whatever is listed for the weight
\* (product_advice.py:89-142, catalog.py:35-64).
THEOREM AdviceCoversCorrect == ASSUME OwnTierReaches PROVE OptionsSpec => []AdviceCovers
<1>1. ToldWell => AdviceCovers
  BY AdvisedTakes, AdvisedKeeps DEF ToldWell, AdviceCovers, AdviceTakes
<1>2. QED
  BY <1>1, ToldAlways, PTL
-----------------------------------------------------------------------------
(* Listing and estimating *)

\* Nothing is bound for a request without services.
LEMMA BareBind ==
    ASSUME NEW r \in Request, r.kinds = <<>>, r.pins = <<>>, NEW zone, NEW tier
    PROVE  /\ BindOf(r, zone, tier).fault = None
           /\ ToSet(BindOf(r, zone, tier).ids) = {}
           /\ BindOf(r, zone, tier).unmatched = {}
<1>1. BindWell(r, zone, tier)
  BY BindOfMeans
<1>2. ToSet(<<>>) = {}
  BY DEF ToSet
<1>3. /\ Distinct(r.pins) \in Seq(STRING) /\ ToSet(Distinct(r.pins)) = {}
      /\ Distinct(r.kinds) \in Seq(ServiceKinds) /\ ToSet(Distinct(r.kinds)) = {}
  BY <1>2, DistinctOf
<1>4. Distinct(r.pins) = <<>>
  BY <1>3, Emptiness
<1>5. NoFault(PoolOf(r, zone, tier), Distinct(r.pins), Distinct(r.kinds))
  BY <1>3, <1>4 DEF NoFault
<1>6. ToSet(r.kinds) = {}
  BY <1>2
<1>7. QED
  BY <1>1, <1>5, <1>6 DEF BindWell

\* A product that is named and in the graph is picked, if it takes the services.
LEMMA NamedPick ==
    ASSUME NEW r \in Request, r.product \in AllProducts,
           IsValidCombination(r.product, ZoneOf(r), TierOf(r.weight)),
           BindOf(r, ZoneOf(r), TierOf(r.weight)).fault = None,
           BindOf(r, ZoneOf(r), TierOf(r.weight)).unmatched = {}
    PROVE  PickFor(r) = Selected(r.product, BindOf(r, ZoneOf(r), TierOf(r.weight)).ids)
<1> DEFINE zone == ZoneOf(r)
           tier == TierOf(r.weight)
           p == r.product
           bind == BindOf(r, zone, tier)
<1>1. p # None /\ p \in DOMAIN Catalog.products
  BY NoneIsNoCode DEF AllProducts
<1>2. \E link \in Links : link.product = p /\ Linked(link, zone, tier)
  BY DEF IsValidCombination
<1>3. ApplyServiceTokens(<<p>>, zone, r) = FilteredBy(bind, <<p>>, r.indemnity)
  BY <1>1 DEF ApplyServiceTokens, BindOf, PoolOf, CandidatesOf
<1> HIDE DEF bind
<1>4. Taking(p, FilteredBy(bind, <<p>>, r.indemnity)) = Selected(p, bind.ids)
  <2>1. bind.fault = None /\ \A kind \in bind.unmatched : Includes(p, kind)
    BY DEF bind
  <2>2. QED
    BY <2>1, NamedTakes
<1>5. Named(r, zone, tier) = Selected(p, bind.ids)
  BY <1>1, <1>2, <1>3, <1>4 DEF Named
<1>6. QED
  BY <1>1, <1>5 DEF PickFor, PickOf, bind

\* What a request costs once its product is picked.
LEMMA PickedPrice ==
    ASSUME NEW r \in Request, PlaceKnown(r), NEW product, NEW ids, PickFor(r) = Selected(product, ids),
           SelectionFault(ToSet(ids), product, ZoneOf(r)) = None
    PROVE  Price(r) = IF /\ <<product, ZoneOf(r), TierOf(r.weight)>> \in DOMAIN Catalog.prices
                         /\ \A id \in ToSet(ids) : <<id, ZoneOf(r)>> \in DOMAIN Catalog.servicePrices
                      THEN [product |-> product, amount |-> Amount(product, ZoneOf(r), TierOf(r.weight), ToSet(ids))]
                      ELSE Refusal("PORTO_PRICE_NOT_FOUND")
<1> DEFINE zone == ZoneOf(r)
           tier == TierOf(r.weight)
           fault == QuoteFault(product, zone, tier, ToSet(ids))
           all == /\ <<product, zone, tier>> \in DOMAIN Catalog.prices
                  /\ \A id \in ToSet(ids) : <<id, zone>> \in DOMAIN Catalog.servicePrices
<1>1. PickFor(r).fault = None /\ PickFor(r).product = product /\ PickFor(r).ids = ids
  BY DEF Selected
<1>2. fault \in {None, "PORTO_PRICE_NOT_FOUND"} /\ (fault = None <=> all)
  BY QuoteFaultMeans
<1>3. FaultOf(r) = fault
  BY <1>1 DEF FaultOf
<1>4. CASE all
  <2>1. Answered(r)
    BY <1>1, <1>2, <1>3, <1>4 DEF Answered
  <2>2. Resolve(r) = PortoOf(r)
    BY <2>1, AnsweredIsPorto
  <2>3. /\ PortoOf(r).product = product /\ PortoOf(r).amount = Amount(product, zone, tier, ToSet(ids))
        /\ IsPorto(PortoOf(r))
    BY <1>1 DEF PortoOf, IsPorto
  <2>4. QED
    BY <1>4, <2>2, <2>3 DEF Price
<1>5. CASE ~all
  <2>1. r.country \in DOMAIN Catalog.zoneOf /\ TiersFor(r.weight) # {}
    BY DEF PlaceKnown
  <2>2. Resolve(r) = Quoted(r, zone, tier, PickFor(r))
    BY <2>1 DEF Resolve, ResolveIn, ZoneOf, TierOf, PickFor, PickOf
  <2>3. fault = "PORTO_PRICE_NOT_FOUND" /\ fault # None
    BY <1>2, <1>5
  <2>4. Resolve(r) = Refusal("PORTO_PRICE_NOT_FOUND")
    BY <1>1, <2>2, <2>3 DEF Quoted, Quote
  <2>5. ~IsPorto(Resolve(r))
    BY <2>4 DEF IsPorto, Refusal
  <2>6. QED
    BY <1>5, <2>4, <2>5 DEF Price
<1>6. QED
  BY <1>4, <1>5

\* Without services an order costs what the product does.
LEMMA BareAmount ==
    ASSUME NEW product, NEW zone, NEW tier, <<product, zone, tier>> \in DOMAIN Catalog.prices
    PROVE  Amount(product, zone, tier, {}) = Catalog.prices[<<product, zone, tier>>]
<1> DEFINE f == [id \in {} |-> Catalog.servicePrices[<<id, zone>>]]
<1>1. DOMAIN f = {}
  OBVIOUS
<1>2. SumFunctionOnSet(f, {}) = 0
  BY SumEmpty
<1>3. SumFunction(f) = 0
  BY <1>1, <1>2 DEF SumFunction
<1>4. Catalog.prices[<<product, zone, tier>>] \in Nat
  BY OptionsAssumption
<1>5. QED
  BY <1>3, <1>4 DEF Amount

LEMMA AmountWithOne ==
    ASSUME NEW product, NEW zone, NEW tier, NEW id, <<id, zone>> \in DOMAIN Catalog.servicePrices
    PROVE  Amount(product, zone, tier, {id}) =
              Catalog.prices[<<product, zone, tier>>] + Catalog.servicePrices[<<id, zone>>]
<1> DEFINE f == [x \in {id} |-> Catalog.servicePrices[<<x, zone>>]]
<1>1. DOMAIN f = {id} /\ f[id] = Catalog.servicePrices[<<id, zone>>]
  OBVIOUS
<1>2. f[id] \in Nat
  BY <1>1, OptionsAssumption
<1>3. SumFunction(f) = f[id]
  <2> HIDE DEF f
  <2>1. QED
    BY <1>1, <1>2, SumOne DEF SumFunction
<1>4. QED
  BY <1>1, <1>3 DEF Amount

\* A service that is offered is bound when it is pinned.
LEMMA PinnedBind ==
    ASSUME IdsAreNoKinds, NEW r \in Request, r.product \in AllProducts, NEW zone, NEW tier,
           NEW row \in Offered(r.product, zone), r.kinds = <<row.kind>>, r.pins = <<row.id>>
    PROVE  /\ BindOf(r, zone, tier).fault = None
           /\ ToSet(BindOf(r, zone, tier).ids) = {row.id}
           /\ BindOf(r, zone, tier).unmatched = {}
<1> DEFINE pool == PoolOf(r, zone, tier)
           pins == Distinct(r.pins)
           kinds == Distinct(r.kinds)
           kind == row.kind
           id == row.id
           bound == BoundFor(pool, pins, kind)
<1>1. BindWell(r, zone, tier)
  BY BindOfMeans
<1>2. \A x : ToSet(<<x>>) = {x}
  <2> TAKE x
  <2>1. DOMAIN <<x>> = {1} /\ <<x>>[1] = x
    OBVIOUS
  <2>2. QED
    BY <2>1 DEF ToSet
<1>3. /\ pins \in Seq(STRING) /\ ToSet(pins) = {id}
      /\ kinds \in Seq(ServiceKinds) /\ ToSet(kinds) = {kind} /\ ToSet(r.kinds) = {kind}
  BY <1>2, DistinctOf
<1>4. row \in Rows /\ Row(id) = row /\ id \in Ids(Rows) /\ id \notin ServiceKinds
  BY RowOfId DEF Offered, Ids, IdsAreNoKinds
<1>5. pool = Offered(r.product, zone)
  <2>1. CandidatesOf(r, zone, tier) = <<r.product>>
    BY NoneIsNoCode DEF CandidatesOf, AllProducts
  <2>2. QED
    BY <2>1 DEF PoolOf, Pool, Offered
<1>6. pool \in SUBSET Rows /\ row \in pool
  BY <1>5 DEF Offered
<1>7. id \in OfKind(pool, kind) /\ id \in OfKind(Rows, kind)
  BY <1>4, <1>6 DEF OfKind
<1> HIDE DEF pool, pins, kinds
<1>8. ToSet(bound) = {id} /\ bound # <<>>
  <2>1. ToSet(pins) \cap OfKind(Rows, kind) = {id}
    BY <1>3, <1>7
  <2>2. pool \in SUBSET Rows /\ pins \in Seq(STRING)
    BY <1>3, <1>6
  <2>3. /\ ToSet(bound) = IF ToSet(pins) \cap OfKind(Rows, kind) # {} THEN ToSet(pins) \cap OfKind(Rows, kind)
                          ELSE OfKind(pool, kind)
        /\ bound = <<>> <=> ToSet(bound) = {}
    BY ONLY <2>2, BoundRange
  <2> HIDE DEF bound
  <2>4. QED
    BY <2>1, <2>3
<1>9. NoFault(pool, pins, kinds)
  <2>1. kinds # <<>>
    BY <1>3, Emptiness
  <2>2. PinFault(kinds, id) = None
    BY <1>3, <1>4 DEF PinFault
  <2>3. ToSet(PinnedTo(kind, pins)) = {id}
    BY <1>3, <1>7, PinnedRange
  <2>4. KindFault(pool, pins, kind) = None
    BY <1>7, <2>3 DEF KindFault
  <2>5. QED
    BY <1>3, <2>1, <2>2, <2>4 DEF NoFault
<1>10. QED
  BY <1>1, <1>3, <1>8, <1>9 DEF BindWell, pool, pins, kinds

LEMMA FewCombine ==
    ASSUME NEW product, NEW zone
    PROVE  /\ SelectionFault({}, product, zone) = None
           /\ \A row \in Offered(product, zone) : SelectionFault({row.id}, product, zone) = None
<1>1. {} \subseteq Ids(Offered(product, zone))
  OBVIOUS
<1>2. \A row \in Offered(product, zone) : {row.id} \subseteq Ids(Offered(product, zone))
  BY DEF Ids
<1>3. QED
  BY <1>1, <1>2 DEF SelectionFault

\* The orders that an option stands for.
Bare(country, weight, envelope, product) == [Plain(country, weight, envelope) EXCEPT !.product = product]

With(order, service) == [order EXCEPT !.kinds = <<service.kind>>, !.pins = <<service.id>>]

Preferring(country, weight, envelope, preference) ==
    [Plain(country, weight, envelope) EXCEPT !.preference = preference]

LEMMA OrdersAreRequests ==
    ASSUME NEW country \in Countries, NEW weight \in Weights, NEW envelope \in Envelopes \union {None},
           NEW product \in AllProducts
    PROVE  /\ Bare(country, weight, envelope, product) \in Request
           /\ \A row \in Rows : With(Bare(country, weight, envelope, product), row) \in Request
           /\ \A preference \in Preferences : Preferring(country, weight, envelope, preference) \in Request
<1>1. /\ country \in STRING /\ weight \in Int /\ envelope \in STRING \union {None} /\ product \in STRING
      /\ \A row \in Rows : row.id \in STRING /\ row.kind \in ServiceKinds
  BY OptionsAssumption DEF AllProducts
<1>2. <<>> \in Seq(ServiceKinds) /\ <<>> \in Seq(STRING)
  OBVIOUS
<1>3. \A row \in Rows : <<row.kind>> \in Seq(ServiceKinds) /\ <<row.id>> \in Seq(STRING)
  <2> HIDE DEF ServiceKinds
  <2>1. QED
    BY <1>1
<1>4. Bare(country, weight, envelope, product) \in Request
  BY <1>1, <1>2 DEF Bare, Plain, Request
<1>5. ASSUME NEW row \in Rows PROVE With(Bare(country, weight, envelope, product), row) \in Request
  BY <1>1, <1>2, <1>3 DEF With, Bare, Plain, Request
<1>6. ASSUME NEW preference \in Preferences PROVE Preferring(country, weight, envelope, preference) \in Request
  BY <1>1, <1>2 DEF Preferring, Plain, Preferences, Request
<1>7. QED
  BY <1>4, <1>5, <1>6

\* What an order for a product alone costs.
LEMMA BarePrice ==
    ASSUME NEW country \in Countries, NEW weight \in Weights, NEW envelope \in Envelopes \union {None},
           NEW product \in AllProducts, country \in DOMAIN Catalog.zoneOf, TiersFor(weight) # {},
           IsValidCombination(product, Catalog.zoneOf[country], TierOf(weight))
    PROVE  LET place == <<product, Catalog.zoneOf[country], TierOf(weight)>>
           IN  Price(Bare(country, weight, envelope, product)) =
                  IF place \in DOMAIN Catalog.prices THEN [product |-> product, amount |-> Catalog.prices[place]]
                  ELSE Refusal("PORTO_PRICE_NOT_FOUND")
<1> DEFINE r == Bare(country, weight, envelope, product)
           zone == Catalog.zoneOf[country]
           tier == TierOf(weight)
           ids == BindOf(r, zone, tier).ids
<1>1. /\ r \in Request /\ r.product = product /\ r.country = country /\ r.weight = weight
      /\ r.kinds = <<>> /\ r.pins = <<>>
  BY OrdersAreRequests DEF Bare, Plain
<1> HIDE DEF r
<1>2. ZoneOf(r) = zone /\ TierOf(r.weight) = tier /\ PlaceKnown(r)
  BY <1>1 DEF ZoneOf, PlaceKnown, TierOf
<1>3. BindOf(r, zone, tier).fault = None /\ ToSet(ids) = {} /\ BindOf(r, zone, tier).unmatched = {}
  BY <1>1, BareBind
<1> HIDE DEF zone, tier, ids
<1>4. PickFor(r) = Selected(product, ids)
  BY <1>1, <1>2, <1>3, NamedPick DEF ids, zone, tier
<1>5. SelectionFault(ToSet(ids), product, zone) = None
  BY <1>3, FewCombine
<1>6. Price(r) = IF <<product, zone, tier>> \in DOMAIN Catalog.prices
                 THEN [product |-> product, amount |-> Amount(product, zone, tier, {})]
                 ELSE Refusal("PORTO_PRICE_NOT_FOUND")
  BY <1>1, <1>2, <1>3, <1>4, <1>5, PickedPrice
<1>7. QED
  BY <1>6, BareAmount DEF r, zone, tier

\* And what it costs with one of the services that are offered.
LEMMA ServicePrice ==
    ASSUME IdsAreNoKinds,
           NEW country \in Countries, NEW weight \in Weights, NEW envelope \in Envelopes \union {None},
           NEW product \in AllProducts, country \in DOMAIN Catalog.zoneOf, TiersFor(weight) # {},
           IsValidCombination(product, Catalog.zoneOf[country], TierOf(weight)),
           NEW row \in Offered(product, Catalog.zoneOf[country]), NEW service,
           service.id = row.id, service.kind = row.kind,
           <<product, Catalog.zoneOf[country], TierOf(weight)>> \in DOMAIN Catalog.prices
    PROVE  LET zone == Catalog.zoneOf[country]
           IN  Price(With(Bare(country, weight, envelope, product), service)) =
                  IF <<row.id, zone>> \in DOMAIN Catalog.servicePrices
                  THEN [product |-> product,
                        amount  |-> Catalog.prices[<<product, zone, TierOf(weight)>>] + Catalog.servicePrices[<<row.id, zone>>]]
                  ELSE Refusal("PORTO_PRICE_NOT_FOUND")
<1> DEFINE r == With(Bare(country, weight, envelope, product), row)
           zone == Catalog.zoneOf[country]
           tier == TierOf(weight)
           ids == BindOf(r, zone, tier).ids
           id == row.id
<1>1. r = With(Bare(country, weight, envelope, product), service)
  BY DEF With
<1>2. /\ r \in Request /\ r.product = product /\ r.country = country /\ r.weight = weight
      /\ r.kinds = <<row.kind>> /\ r.pins = <<row.id>>
  <2>1. row \in Rows
    BY DEF Offered
  <2>2. QED
    BY <2>1, OrdersAreRequests DEF With, Bare, Plain
<1> HIDE DEF r
<1>3. ZoneOf(r) = zone /\ TierOf(r.weight) = tier /\ PlaceKnown(r)
  BY <1>2 DEF ZoneOf, PlaceKnown, TierOf
<1>4. BindOf(r, zone, tier).fault = None /\ ToSet(ids) = {id} /\ BindOf(r, zone, tier).unmatched = {}
  BY <1>2, PinnedBind
<1>5. SelectionFault({id}, product, zone) = None
  BY FewCombine
<1> HIDE DEF zone, tier, ids, id
<1>6. PickFor(r) = Selected(product, ids)
  BY <1>2, <1>3, <1>4, NamedPick DEF ids, zone, tier
<1>7. Price(r) = IF /\ <<product, zone, tier>> \in DOMAIN Catalog.prices
                    /\ \A x \in {id} : <<x, zone>> \in DOMAIN Catalog.servicePrices
                 THEN [product |-> product, amount |-> Amount(product, zone, tier, {id})]
                 ELSE Refusal("PORTO_PRICE_NOT_FOUND")
  BY <1>2, <1>3, <1>4, <1>5, <1>6, PickedPrice
<1>8. QED
  BY <1>1, <1>7, AmountWithOne DEF zone, tier, id

LEMMA ListedMeans ==
    ASSUME NEW country, NEW weight, NEW envelope, NEW option \in OptionsFor(country, weight, envelope)
    PROVE  LET zone == Catalog.zoneOf[country]
               p    == option.product
           IN  /\ TiersFor(weight) # {}
               /\ p \in AllProducts /\ IsValidCombination(p, zone, TierOf(weight))
               /\ option.amount = Lookup(Catalog.prices, <<p, zone, TierOf(weight)>>)
               /\ option.services = ServiceOptions(p, zone)
<1> DEFINE tier == TierOf(weight)
           zone == Catalog.zoneOf[country]
<1>1. TiersFor(weight) # {} /\ option \in OptionsIn(zone, tier, envelope)
  BY DEF OptionsFor
<1> HIDE DEF tier, zone
<1>2. PICK q \in {r \in AllProducts : EnvelopeMatches(r, envelope) /\ IsValidCombination(r, zone, tier)} :
         option = [product   |-> q,
                   maxWeight |-> MaxWeight(q),
                   amount    |-> Lookup(Catalog.prices, <<q, zone, tier>>),
                   services  |-> ServiceOptions(q, zone)]
  BY <1>1, Zenon DEF OptionsIn
<1>3. option.product = q /\ option.amount = Lookup(Catalog.prices, <<q, zone, tier>>) /\ option.services = ServiceOptions(q, zone)
  BY <1>2
<1>4. QED
  BY <1>1, <1>2, <1>3 DEF zone, tier

\* An option has the price of the order that names it.
LEMMA OptionPrice ==
    ASSUME NEW country \in Countries, NEW weight \in Weights, NEW envelope \in Envelopes,
           country \in DOMAIN Catalog.zoneOf, NEW option \in OptionsFor(country, weight, envelope)
    PROVE  SameAmount(option.amount, Price(Bare(country, weight, envelope, option.product)))
<1> DEFINE p == option.product
           place == <<p, Catalog.zoneOf[country], TierOf(weight)>>
           price == Price(Bare(country, weight, envelope, p))
<1>1. /\ TiersFor(weight) # {} /\ p \in AllProducts
      /\ IsValidCombination(p, Catalog.zoneOf[country], TierOf(weight))
      /\ option.amount = Lookup(Catalog.prices, place)
  BY ListedMeans
<1>2. price = IF place \in DOMAIN Catalog.prices THEN [product |-> p, amount |-> Catalog.prices[place]]
              ELSE Refusal("PORTO_PRICE_NOT_FOUND")
  BY <1>1, BarePrice
<1>3. place \in DOMAIN Catalog.prices => Catalog.prices[place] # None
  BY OptionsAssumption
<1> HIDE DEF p, place, price
<1>4. QED
  BY <1>1, <1>2, <1>3 DEF SameAmount, Lookup, p, price

\* Each service of an option adds the price it states.
LEMMA OptionServicePrice ==
    ASSUME IdsAreNoKinds,
           NEW country \in Countries, NEW weight \in Weights, NEW envelope \in Envelopes,
           country \in DOMAIN Catalog.zoneOf, NEW option \in OptionsFor(country, weight, envelope),
           option.amount # None, NEW service \in option.services
    PROVE  LET priced == Price(With(Bare(country, weight, envelope, option.product), service))
           IN  IF service.amount = None
               THEN priced = Refusal("PORTO_PRICE_NOT_FOUND")
               ELSE priced = [product |-> option.product, amount |-> option.amount + service.amount]
<1> DEFINE p == option.product
           zone == Catalog.zoneOf[country]
           place == <<p, zone, TierOf(weight)>>
           priced == Price(With(Bare(country, weight, envelope, p), service))
<1>1. /\ TiersFor(weight) # {} /\ p \in AllProducts
      /\ IsValidCombination(p, zone, TierOf(weight))
      /\ option.amount = Lookup(Catalog.prices, place)
      /\ option.services = ServiceOptions(p, zone)
  BY ListedMeans
<1>2. PICK row \in Offered(p, zone) :
         service = [id |-> row.id, kind |-> row.kind, amount |-> Lookup(Catalog.servicePrices, <<row.id, zone>>)]
  <2> HIDE DEF p, zone
  <2>1. service \in ServiceOptions(p, zone)
    BY <1>1
  <2>2. QED
    BY <2>1, Zenon DEF ServiceOptions
<1>3. service.id = row.id /\ service.kind = row.kind /\ service.amount = Lookup(Catalog.servicePrices, <<row.id, zone>>)
  BY <1>2
<1>4. place \in DOMAIN Catalog.prices /\ option.amount = Catalog.prices[place]
  BY <1>1 DEF Lookup
<1>5. priced = IF <<row.id, zone>> \in DOMAIN Catalog.servicePrices
               THEN [product |-> p, amount |-> Catalog.prices[place] + Catalog.servicePrices[<<row.id, zone>>]]
               ELSE Refusal("PORTO_PRICE_NOT_FOUND")
  BY <1>1, <1>3, <1>4, ServicePrice
<1>6. <<row.id, zone>> \in DOMAIN Catalog.servicePrices => Catalog.servicePrices[<<row.id, zone>>] # None
  BY OptionsAssumption
<1> HIDE DEF p, zone, place, priced
<1>7. QED
  BY <1>3, <1>4, <1>5, <1>6 DEF Lookup, p, priced

\* What discovery picks is listed, at its price.
LEMMA PickedIsListed ==
    ASSUME NEW country \in Countries, NEW weight \in Weights, NEW envelope \in Envelopes,
           NEW preference \in Preferences,
           "amount" \in DOMAIN Price(Preferring(country, weight, envelope, preference))
    PROVE  LET picked == Price(Preferring(country, weight, envelope, preference))
           IN  \E option \in OptionsFor(country, weight, envelope) :
                  option.product = picked.product /\ option.amount = picked.amount
<1> DEFINE r == Preferring(country, weight, envelope, preference)
           zone == Catalog.zoneOf[country]
           tier == TierOf(weight)
           p == PickFor(r).product
           ids == PickFor(r).ids
           place == <<p, zone, tier>>
           picked == Price(r)
<1>1. r \in Request
  <2>1. /\ country \in STRING /\ weight \in Int /\ envelope \in STRING \union {None}
        /\ preference \in {None, "cheapest", "fastest", "economy"}
    BY OptionsAssumption DEF Preferences
  <2>2. <<>> \in Seq(ServiceKinds) /\ <<>> \in Seq(STRING)
    OBVIOUS
  <2>3. QED
    BY <2>1, <2>2 DEF Preferring, Plain, Request
<1>2. /\ r.product = None /\ r.country = country /\ r.weight = weight /\ r.envelope = envelope
      /\ r.kinds = <<>> /\ r.pins = <<>>
  BY DEF Preferring, Plain
<1> HIDE DEF r
<1>3. IsPorto(Resolve(r))
  <2>1. ASSUME ~IsPorto(Resolve(r)) PROVE FALSE
    <3>1. "amount" \in DOMAIN Resolve(r)
      BY <2>1 DEF Price, r
    <3>2. \A code : "amount" \notin DOMAIN Refusal(code)
      BY DEF Refusal
    <3>3. IsPorto(PortoOf(r))
      BY DEF IsPorto, PortoOf
    <3>4. QED
      BY <2>1, <3>1, <3>2, <3>3, ResolveMeans
  <2>2. QED
    BY <2>1
<1>4. Answered(r) /\ Resolve(r) = PortoOf(r)
  BY <1>3, PortoMeans
<1>5. ZoneOf(r) = zone /\ TierOf(r.weight) = tier
  BY <1>2 DEF ZoneOf
<1>6. AnswerWell(r)
  BY <1>1, <1>4, AnsweredWell
<1>7. TiersFor(weight) # {}
  BY <1>2, <1>4 DEF Answered, PlaceKnown
<1> HIDE DEF zone, tier
<1>8. /\ p \in AllProducts /\ EnvelopeMatches(p, envelope) /\ IsValidCombination(p, zone, tier)
      /\ place \in DOMAIN Catalog.prices
      /\ ids = BindOf(r, zone, tier).ids
  <2>1. PickedWell(r, zone, tier) /\ place \in DOMAIN Catalog.prices
    BY <1>5, <1>6 DEF AnswerWell
  <2>2. ids = BindOf(r, zone, tier).ids
    BY <1>5, <2>1 DEF PickedWell, PickFor
  <2>3. PICK link \in Links : /\ link.product = p
                              /\ Linked(link, zone, tier)
                              /\ EnvelopeMatches(link.product, envelope)
    BY <1>2, <1>5, <2>1 DEF PickedWell, PickFor
  <2>4. p \in AllProducts
    BY <2>3, CatalogAssumption DEF AllProducts
  <2>5. QED
    BY <2>1, <2>2, <2>3, <2>4 DEF IsValidCombination
<1>9. ToSet(ids) = {}
  BY <1>1, <1>2, <1>8, BareBind
<1>10. picked = [product |-> p, amount |-> Catalog.prices[place]]
  <2>1. PortoOf(r).product = p /\ PortoOf(r).amount = Amount(p, zone, tier, {})
    BY <1>5, <1>9 DEF PortoOf
  <2>2. QED
    BY <1>3, <1>4, <1>8, <2>1, BareAmount DEF Price
<1> DEFINE option == [product   |-> p,
                      maxWeight |-> MaxWeight(p),
                      amount    |-> Lookup(Catalog.prices, place),
                      services  |-> ServiceOptions(p, zone)]
<1>11. option \in OptionsFor(country, weight, envelope)
  <2> HIDE DEF p
  <2>1. option \in OptionsIn(zone, tier, envelope)
    BY <1>8 DEF OptionsIn
  <2>2. QED
    BY <1>7, <2>1 DEF OptionsFor, zone, tier
<1>12. option.product = p /\ option.amount = Catalog.prices[place]
  BY <1>8 DEF Lookup
<1> HIDE DEF p, place, option
<1>13. QED
  BY <1>10, <1>11, <1>12 DEF r

LEMMA ListingMeans ==
    ASSUME IdsAreNoKinds, NEW it, it.country \in Countries, it.weight \in Weights, it.envelope \in Envelopes,
           it.country \in DOMAIN Catalog.zoneOf, it.answer = OptionsFor(it.country, it.weight, it.envelope)
    PROVE  OptionsOf(it)
<1> DEFINE country == it.country
           weight == it.weight
           envelope == it.envelope
<1>1. \A option \in it.answer :
         /\ SameAmount(option.amount, Price(Bare(country, weight, envelope, option.product)))
         /\ option.amount # None =>
               \A service \in option.services :
                  LET priced == Price(With(Bare(country, weight, envelope, option.product), service))
                  IN  IF service.amount = None
                      THEN priced = Refusal("PORTO_PRICE_NOT_FOUND")
                      ELSE priced = [product |-> option.product, amount |-> option.amount + service.amount]
  BY OptionPrice, OptionServicePrice
<1>2. \A preference \in Preferences :
         LET picked == Price(Preferring(country, weight, envelope, preference))
         IN  "amount" \in DOMAIN picked =>
                \E option \in it.answer : option.product = picked.product /\ option.amount = picked.amount
  BY PickedIsListed
<1>3. QED
  BY <1>1, <1>2, Zenon DEF OptionsOf, Bare, With, Preferring

\* An estimate is the price of the order that names the product.
LEMMA EstimateMeans ==
    ASSUME NEW it, it.country \in Countries, it.weight \in Weights, it.product \in AllProducts \union {"ghost"},
           it.answer = IF it.country \in DOMAIN Catalog.zoneOf
                       THEN EstimateFor(it.product, it.country, it.weight)
                       ELSE Refusal("ValueError")
    PROVE  EstimateOf(it)
<1> DEFINE country == it.country
           weight == it.weight
           p == it.product
           zone == Catalog.zoneOf[country]
           tier == TierOf(weight)
           r == Bare(country, weight, None, p)
           valid == p \in AllProducts /\ IsValidCombination(p, zone, tier)
<1>1. r.country = country /\ r.weight = weight /\ r.product = p
  BY DEF Bare, Plain
<1>2. \A code : "amount" \notin DOMAIN Refusal(code) /\ "refused" \in DOMAIN Refusal(code) /\ ~IsPorto(Refusal(code))
  BY DEF Refusal, IsPorto
<1>3. EstimateOf(it) <=> IF "amount" \in DOMAIN it.answer THEN it.answer = Price(r) ELSE "refused" \in DOMAIN Price(r)
  BY DEF EstimateOf, Bare
<1> HIDE DEF r
<1>4. SUFFICES IF "amount" \in DOMAIN it.answer THEN it.answer = Price(r) ELSE "refused" \in DOMAIN Price(r)
  BY <1>3
<1>5. CASE country \notin DOMAIN Catalog.zoneOf \/ TiersFor(weight) = {}
  <2>1. \E code : Resolve(r) = Refusal(code)
    BY <1>1, <1>5 DEF Resolve
  <2>2. \E code : it.answer = Refusal(code)
    BY <1>5 DEF EstimateFor
  <2>3. QED
    BY <1>2, <2>1, <2>2 DEF Price
<1>6. CASE country \in DOMAIN Catalog.zoneOf /\ TiersFor(weight) # {} /\ ~valid
  <2>1. p # None
    BY NoneIsNoCode, OptionsAssumption DEF AllProducts
  <2>2. \E code \in PickCodes : Named(r, zone, tier) = Refused(code)
    <3>1. Named(r, zone, tier) \in {Refused("PORTO_PRODUCT_NOT_FOUND"), Refused(Unresolved(zone, weight))}
      BY <1>1, <1>6 DEF Named, IsValidCombination, AllProducts
    <3>2. "PORTO_PRODUCT_NOT_FOUND" \in PickCodes /\ Unresolved(zone, weight) \in PickCodes
      BY DEF Unresolved, PickCodes, RefusalCodes
    <3>3. QED
      BY <3>1, <3>2
  <2>3. PickFor(r).fault \in PickCodes /\ PickFor(r) = Named(r, zone, tier)
    BY <1>1, <2>1, <2>2 DEF PickFor, PickOf, ZoneOf, Refused
  <2>4. PickFor(r).fault # None
    BY <2>3, NoneIsNoCode DEF PickCodes
  <2>5. \E code : Resolve(r) = Refusal(code)
    <3>1. ~Answered(r)
      BY <2>4 DEF Answered
    <3>2. QED
      BY <3>1, ResolveMeans
  <2>6. \E code : it.answer = Refusal(code)
    <3> HIDE DEF zone, tier, p
    <3>1. \E code : EstimateIn(p, zone, tier) = Refusal(code)
      BY <1>6 DEF EstimateIn
    <3>2. it.answer = EstimateIn(p, zone, tier)
      BY <1>6 DEF EstimateFor, zone, tier, p
    <3>3. QED
      BY <3>1, <3>2
  <2>7. QED
    BY <1>2, <2>5, <2>6 DEF Price
<1>7. CASE country \in DOMAIN Catalog.zoneOf /\ TiersFor(weight) # {} /\ valid
  <2> DEFINE place == <<p, zone, tier>>
  <2>1. Price(r) = IF place \in DOMAIN Catalog.prices THEN [product |-> p, amount |-> Catalog.prices[place]]
                   ELSE Refusal("PORTO_PRICE_NOT_FOUND")
    BY <1>7, BarePrice DEF r
  <2> HIDE DEF zone, tier, p, place
  <2>2. it.answer = EstimateIn(p, zone, tier)
    BY <1>7 DEF EstimateFor, zone, tier, p
  <2>3. it.answer = Price(r)
    BY <1>7, <2>1, <2>2 DEF EstimateIn, place
  <2>4. QED
    BY <1>2, <2>1, <2>3
<1>8. QED
  BY <1>5, <1>6, <1>7

\* What is told was asked for, and is what the catalog says.
Listed(it) ==
    /\ it.country \in Countries /\ it.weight \in Weights /\ it.envelope \in Envelopes
    /\ it.country \in DOMAIN Catalog.zoneOf => it.answer = OptionsFor(it.country, it.weight, it.envelope)

Estimated(it) ==
    /\ it.country \in Countries /\ it.weight \in Weights /\ it.product \in AllProducts \union {"ghost"}
    /\ it.answer = IF it.country \in DOMAIN Catalog.zoneOf
                   THEN EstimateFor(it.product, it.country, it.weight)
                   ELSE Refusal("ValueError")

AnswersWell ==
    \A it \in told : (it.by = "options" => Listed(it)) /\ (it.by = "estimate" => Estimated(it))

LEMMA AnswersPreserved == AnswersWell /\ [OptionsNext]_told => AnswersWell'
<1> SUFFICES ASSUME AnswersWell, [OptionsNext]_told PROVE AnswersWell'
  OBVIOUS
<1>1. ASSUME NEW country \in Countries, NEW weight \in Weights, NEW envelope \in Envelopes,
             ListOptions(country, weight, envelope)
      PROVE  AnswersWell'
  BY <1>1 DEF ListOptions, AnswersWell, Listed
<1>2. ASSUME NEW product \in AllProducts \union {"ghost"}, NEW country \in Countries, NEW weight \in Weights,
             Estimate(product, country, weight)
      PROVE  AnswersWell'
  BY <1>2 DEF Estimate, AnswersWell, Estimated
<1>3. ASSUME NEW selected, NEW candidates, NEW weight, Advise(selected, candidates, weight) PROVE AnswersWell'
  BY <1>3 DEF Advise, AnswersWell
<1>4. CASE UNCHANGED told
  BY <1>4 DEF AnswersWell
<1>5. QED
  BY <1>1, <1>2, <1>3, <1>4 DEF OptionsNext

\* Where no service has the name of a kind, which the code does not check,
\* listing, estimating and ordering agree, for every catalog
\* (product_options.py:75-163, catalog.py:116-149, porto_resolver.py:230-339).
THEOREM ListedIsOrderableCorrect == ASSUME IdsAreNoKinds PROVE OptionsSpec => []ListedIsOrderable
<1>1. AnswersWell => ListedIsOrderable
  BY ListingMeans, EstimateMeans DEF AnswersWell, Listed, Estimated, ListedIsOrderable
<1>2. OptionsInit => AnswersWell
  BY DEF OptionsInit, AnswersWell
<1>3. QED
  BY <1>1, <1>2, AnswersPreserved, PTL DEF OptionsSpec
-----------------------------------------------------------------------------
(***************************************************************************)
(* The key of the cache.  A request without a separator in it has as many  *)
(* colons in its key as there are between the fields; another request with *)
(* this key can have no more, so that the keys agree field by field.  Of   *)
(* the kinds and of the pins they forget the order, and how often they are *)
(* named.                                                                  *)
(***************************************************************************)

LEMMA OccurrencesCount ==
    ASSUME NEW V, NEW s \in Seq(V), NEW x
    PROVE  /\ IsFiniteSet({i \in DOMAIN s : s[i] = x})
           /\ Occurrences(s, x) \in Nat
           /\ Occurrences(s, x) = 0 <=> x \notin ToSet(s)
<1> DEFINE I == {i \in DOMAIN s : s[i] = x}
<1>1. DOMAIN s = 1 .. Len(s) /\ Len(s) \in Nat
  OBVIOUS
<1>2. IsFiniteSet(1 .. Len(s))
  BY <1>1, FS_Interval
<1>3. IsFiniteSet(I)
  <2>1. I \subseteq 1 .. Len(s)
    BY <1>1
  <2> HIDE DEF I
  <2>2. QED
    BY <1>2, <2>1, FS_Subset
<1>4. I = {} <=> x \notin ToSet(s)
  BY DEF ToSet
<1>5. Occurrences(s, x) = Cardinality(I)
  BY DEF Occurrences
<1> HIDE DEF I
<1>6. Cardinality(I) \in Nat /\ (Cardinality(I) = 0 <=> I = {})
  BY <1>3, FS_CardinalityType, FS_EmptySet
<1>7. QED
  BY <1>3, <1>4, <1>5, <1>6 DEF I

LEMMA OccurrencesConcat ==
    ASSUME NEW V, NEW s \in Seq(V), NEW t \in Seq(V), NEW x
    PROVE  Occurrences(s \o t, x) = Occurrences(s, x) + Occurrences(t, x)
<1> DEFINE m == Len(s)
           n == Len(t)
           I == {i \in DOMAIN s : s[i] = x}
           J == {j \in DOMAIN t : t[j] = x}
           K == {j + m : j \in J}
           all == {i \in DOMAIN (s \o t) : (s \o t)[i] = x}
<1>1. /\ m \in Nat /\ n \in Nat /\ DOMAIN s = 1 .. m /\ DOMAIN t = 1 .. n
      /\ DOMAIN (s \o t) = 1 .. m + n
      /\ \A i \in 1 .. m + n : (s \o t)[i] = IF i <= m THEN s[i] ELSE t[i - m]
  OBVIOUS
<1>2. I \subseteq 1 .. m /\ J \subseteq 1 .. n
  BY <1>1
<1>3. all = I \union K
  <2>1. ASSUME NEW i \in all PROVE i \in I \union K
    <3>1. i \in 1 .. m + n /\ (s \o t)[i] = x
      BY <1>1
    <3>2. CASE i <= m
      BY <1>1, <3>1, <3>2
    <3>3. CASE ~(i <= m)
      <4>1. i - m \in 1 .. n /\ t[i - m] = x /\ (i - m) + m = i
        BY <1>1, <3>1, <3>3
      <4>2. QED
        BY <1>1, <4>1
    <3>4. QED
      BY <3>2, <3>3
  <2>2. ASSUME NEW i \in I PROVE i \in all
    <3>1. i \in 1 .. m /\ i \in 1 .. m + n /\ i <= m /\ s[i] = x
      BY <1>1
    <3>2. QED
      BY <1>1, <3>1
  <2>3. ASSUME NEW j \in J PROVE j + m \in all
    <3>1. j \in 1 .. n /\ j + m \in 1 .. m + n /\ ~(j + m <= m) /\ (j + m) - m = j /\ t[j] = x
      BY <1>1
    <3>2. QED
      BY <1>1, <3>1
  <2>4. QED
    BY <2>1, <2>2, <2>3
<1>4. /\ IsFiniteSet(I) /\ Occurrences(s, x) = Cardinality(I)
      /\ IsFiniteSet(J) /\ Occurrences(t, x) = Cardinality(J)
      /\ Occurrences(s \o t, x) = Cardinality(all)
  BY OccurrencesCount DEF Occurrences
<1>5. \A k \in K : k \notin I
  BY <1>1
<1>6. IsFiniteSet(K) /\ Cardinality(K) = Cardinality(J)
  <2> DEFINE moved == [j \in J |-> j + m]
  <2>1. moved \in [J -> K]
    OBVIOUS
  <2>2. \A i, j \in J : moved[i] = moved[j] => i = j
    BY <1>1, <1>2
  <2>3. \A k \in K : \E j \in J : moved[j] = k
    OBVIOUS
  <2> HIDE DEF J, K, moved
  <2>4. moved \in Bijection(J, K)
    BY <2>1, <2>2, <2>3 DEF Bijection, Injection, Surjection, IsInjective
  <2>5. ExistsBijection(J, K)
    BY <2>4 DEF ExistsBijection
  <2>6. QED
    BY <1>4, <2>5, FS_Bijection
<1> HIDE DEF I, J, K, all, m, n
<1>7. I \intersect K = {}
  BY <1>5
<1>8. Cardinality(I \union K) = Cardinality(I) + Cardinality(K) - Cardinality(I \intersect K)
  BY <1>4, <1>6, FS_Union
<1>9. Cardinality(I) \in Nat /\ Cardinality(K) \in Nat /\ Cardinality(I \intersect K) = 0
  BY <1>4, <1>6, <1>7, FS_CardinalityType, FS_EmptySet
<1>10. QED
  BY <1>3, <1>4, <1>6, <1>8, <1>9

\* The provers do not know that "," and ":" are strings.
AnyPiece == STRING \union {",", ":"}

LEMMA PiecesAreKnown ==
    /\ \A t \in Texts : Pieces[t] \in Seq(AnyPiece) /\ Pieces[t] # <<>>
    /\ \A r \in Requests : Decimal[r.weight] \in Seq(AnyPiece) /\ ":" \notin ToSet(Decimal[r.weight])
<1> DEFINE S == STRING
           T == AnyPiece
<1>1. S \subseteq T
  BY DEF AnyPiece
<1>2. /\ \A t \in Texts : Pieces[t] \in Seq(S) /\ Pieces[t] # <<>>
      /\ \A r \in Requests : Decimal[r.weight] \in Seq(S) /\ ":" \notin ToSet(Decimal[r.weight])
  BY TextsAssumption
<1> HIDE DEF S, T
<1>3. \A s \in Seq(S) : s \in Seq(T)
  BY <1>1
<1>4. QED
  BY <1>2, <1>3 DEF T

LEMMA OnePiece ==
    ASSUME NEW V, NEW x \in V
    PROVE  <<x>> \in Seq(V) /\ Len(<<x>>) = 1 /\ DOMAIN <<x>> = {1} /\ <<x>>[1] = x /\ ToSet(<<x>>) = {x}
<1> DEFINE one == <<x>>
<1>1. one \in Seq(V) /\ Len(one) = 1 /\ one[1] = x
  OBVIOUS
<1>2. DOMAIN one = {1}
  OBVIOUS
<1> HIDE DEF one
<1>3. ToSet(one) = {x}
  BY <1>1, <1>2 DEF ToSet
<1>4. QED
  BY <1>1, <1>2, <1>3 DEF one

LEMMA OneInList == ASSUME NEW V, NEW s \in Seq(V), Len(s) = 1 PROVE ToSet(s) = {s[1]}
<1>1. DOMAIN s = 1 .. Len(s)
  OBVIOUS
<1>2. 1 .. 1 = {1}
  OBVIOUS
<1>3. DOMAIN s = {1}
  BY <1>1, <1>2
<1>4. QED
  BY <1>3 DEF ToSet

LEMMA SeparatorsArePieces == ":" \in AnyPiece /\ "," \in AnyPiece
  BY DEF AnyPiece

LEMMA ConcatAt ==
    ASSUME NEW V, NEW s \in Seq(V), NEW t \in Seq(V)
    PROVE  /\ Len(s) \in Nat /\ Len(t) \in Nat /\ s \o t \in Seq(V) /\ Len(s \o t) = Len(s) + Len(t)
           /\ \A i \in 1 .. Len(s) + Len(t) : (s \o t)[i] = IF i <= Len(s) THEN s[i] ELSE t[i - Len(s)]
  OBVIOUS

LEMMA Joined ==
    ASSUME NEW a \in Seq(AnyPiece), NEW b \in Seq(AnyPiece)
    PROVE  /\ a ** b \in Seq(AnyPiece)
           /\ Len(a ** b) = Len(a) + 1 + Len(b)
           /\ \A i \in 1 .. Len(a) : (a ** b)[i] = a[i]
           /\ (a ** b)[Len(a) + 1] = ":"
           /\ \A i \in 1 .. Len(b) : (a ** b)[Len(a) + 1 + i] = b[i]
           /\ Occurrences(a ** b, ":") = Occurrences(a, ":") + 1 + Occurrences(b, ":")
<1> DEFINE colon == <<":">>
           left == a \o colon
<1>1. colon \in Seq(AnyPiece) /\ Len(colon) = 1 /\ DOMAIN colon = {1} /\ colon[1] = ":"
  BY SeparatorsArePieces, OnePiece
<1>2. Occurrences(colon, ":") = 1
  <2>1. {i \in DOMAIN colon : colon[i] = ":"} = {1}
    BY <1>1
  <2>2. QED
    BY <2>1, FS_Singleton DEF Occurrences
<1>3. a ** b = a \o colon \o b
  BY DEF **
<1> HIDE DEF colon
<1>4. /\ left \in Seq(AnyPiece) /\ Len(left) = Len(a) + 1
      /\ \A i \in 1 .. Len(a) : left[i] = a[i]
      /\ left[Len(a) + 1] = ":"
  <2>1. /\ left \in Seq(AnyPiece) /\ Len(left) = Len(a) + Len(colon)
        /\ \A i \in 1 .. Len(a) + Len(colon) : left[i] = IF i <= Len(a) THEN a[i] ELSE colon[i - Len(a)]
    BY <1>1, ConcatAt
  <2>2. Len(a) \in Nat
    OBVIOUS
  <2> HIDE DEF left
  <2>3. \A i \in 1 .. Len(a) : i \in 1 .. Len(a) + Len(colon) /\ i <= Len(a)
    BY <1>1, <2>2
  <2>4. Len(a) + 1 \in 1 .. Len(a) + Len(colon) /\ ~(Len(a) + 1 <= Len(a)) /\ (Len(a) + 1) - Len(a) = 1
    BY <1>1, <2>2
  <2>5. QED
    BY <1>1, <2>1, <2>3, <2>4
<1>5. Occurrences(left, ":") = Occurrences(a, ":") + 1
  BY <1>1, <1>2, OccurrencesConcat
<1>6. a ** b = left \o b
  BY <1>3
<1> HIDE DEF left
<1>7. Occurrences(a ** b, ":") = Occurrences(left, ":") + Occurrences(b, ":")
  BY <1>4, <1>6, OccurrencesConcat
<1> DEFINE all == left \o b
<1>8. /\ Len(a) \in Nat /\ Len(b) \in Nat /\ all \in Seq(AnyPiece) /\ Len(all) = Len(left) + Len(b)
      /\ \A i \in 1 .. Len(left) + Len(b) : all[i] = IF i <= Len(left) THEN left[i] ELSE b[i - Len(left)]
  BY <1>4, ConcatAt
<1>9. a ** b = all
  BY <1>6
<1> HIDE DEF all
<1>10. \A i \in 1 .. Len(a) + 1 : all[i] = left[i]
  BY <1>4, <1>8
<1>11. ASSUME NEW i \in 1 .. Len(b) PROVE all[Len(a) + 1 + i] = b[i]
  <2>1. Len(a) + 1 + i \in 1 .. Len(left) + Len(b) /\ ~(Len(a) + 1 + i <= Len(left)) /\ (Len(a) + 1 + i) - Len(left) = i
    BY <1>4, <1>8
  <2>2. QED
    BY <1>8, <2>1
<1>12. Len(a) + 1 \in 1 .. Len(a) + 1 /\ \A i \in 1 .. Len(a) : i \in 1 .. Len(a) + 1
  BY <1>8
<1>13. QED
  BY <1>4, <1>5, <1>7, <1>8, <1>9, <1>10, <1>11, <1>12

\* The last colon is where the last field begins.
LEMMA LastField ==
    ASSUME NEW a \in Seq(AnyPiece), NEW b \in Seq(AnyPiece), NEW c \in Seq(AnyPiece), NEW d \in Seq(AnyPiece),
           a ** b = c ** d, ":" \notin ToSet(b), ":" \notin ToSet(d)
    PROVE  a = c /\ b = d
<1>1. ASSUME NEW u \in Seq(AnyPiece), NEW v \in Seq(AnyPiece), NEW w \in Seq(AnyPiece), NEW x \in Seq(AnyPiece),
             u ** v = w ** x, ":" \notin ToSet(v)
      PROVE  Len(w) <= Len(u)
  <2> DEFINE k == u ** v
  <2>1. /\ Len(u) \in Nat /\ Len(v) \in Nat /\ Len(w) \in Nat /\ Len(x) \in Nat
        /\ Len(k) = Len(u) + 1 + Len(v) /\ Len(k) = Len(w) + 1 + Len(x)
        /\ \A i \in 1 .. Len(v) : k[Len(u) + 1 + i] = v[i]
        /\ k[Len(w) + 1] = ":"
    <3>1. /\ Len(k) = Len(u) + 1 + Len(v)
          /\ \A i \in 1 .. Len(v) : k[Len(u) + 1 + i] = v[i]
      BY Joined
    <3>2. Len(w ** x) = Len(w) + 1 + Len(x) /\ (w ** x)[Len(w) + 1] = ":"
      BY Joined
    <3>3. k = w ** x
      BY <1>1
    <3>4. Len(u) \in Nat /\ Len(v) \in Nat /\ Len(w) \in Nat /\ Len(x) \in Nat
      OBVIOUS
    <3> HIDE DEF k
    <3>5. Len(k) = Len(w) + 1 + Len(x) /\ k[Len(w) + 1] = ":"
      BY <3>2, <3>3
    <3>6. QED
      BY <3>1, <3>4, <3>5
  <2> HIDE DEF k
  <2>2. SUFFICES ASSUME Len(w) > Len(u) PROVE FALSE
    BY <2>1
  <2> DEFINE i == Len(w) - Len(u)
  <2>3. i \in 1 .. Len(v) /\ Len(u) + 1 + i = Len(w) + 1
    BY <2>1, <2>2
  <2>4. v[i] = ":"
    BY <2>1, <2>3
  <2>5. QED
    BY <1>1, <2>3, <2>4 DEF ToSet
<1>2. Len(a) = Len(c)
  <2>1. Len(c) <= Len(a) /\ Len(a) <= Len(c)
    BY <1>1
  <2>2. QED
    BY <2>1
<1> DEFINE k == a ** b
<1>3. /\ Len(a) \in Nat /\ Len(b) \in Nat /\ Len(d) \in Nat
      /\ Len(k) = Len(a) + 1 + Len(b) /\ Len(k) = Len(c) + 1 + Len(d)
      /\ \A i \in 1 .. Len(a) : k[i] = a[i]
      /\ \A i \in 1 .. Len(c) : k[i] = c[i]
      /\ \A i \in 1 .. Len(b) : k[Len(a) + 1 + i] = b[i]
      /\ \A i \in 1 .. Len(d) : k[Len(c) + 1 + i] = d[i]
  <2>1. /\ Len(k) = Len(a) + 1 + Len(b)
        /\ \A i \in 1 .. Len(a) : k[i] = a[i]
        /\ \A i \in 1 .. Len(b) : k[Len(a) + 1 + i] = b[i]
    BY Joined
  <2>2. /\ Len(c ** d) = Len(c) + 1 + Len(d)
        /\ \A i \in 1 .. Len(c) : (c ** d)[i] = c[i]
        /\ \A i \in 1 .. Len(d) : (c ** d)[Len(c) + 1 + i] = d[i]
    BY Joined
  <2>3. k = c ** d
    OBVIOUS
  <2>4. Len(a) \in Nat /\ Len(b) \in Nat /\ Len(d) \in Nat
    OBVIOUS
  <2> HIDE DEF k
  <2>5. /\ Len(k) = Len(c) + 1 + Len(d)
        /\ \A i \in 1 .. Len(c) : k[i] = c[i]
        /\ \A i \in 1 .. Len(d) : k[Len(c) + 1 + i] = d[i]
    BY <2>2, <2>3
  <2>6. QED
    BY <2>1, <2>4, <2>5
<1> HIDE DEF k
<1>4. Len(b) = Len(d)
  BY <1>2, <1>3
<1>5. \A i \in 1 .. Len(a) : a[i] = c[i]
  BY <1>2, <1>3
<1>6. \A i \in 1 .. Len(b) : b[i] = d[i]
  BY <1>2, <1>3, <1>4
<1>7. QED
  BY <1>2, <1>4, <1>5, <1>6, SeqEqual

LEMMA FieldMeans ==
    ASSUME NEW t \in Texts \union {None}
    PROVE  /\ Field(t) \in Seq(AnyPiece)
           /\ \A u \in Texts \union {None} : Field(t) = Field(u) => t = u
<1>1. \A u \in Texts : Pieces[u] \in Seq(AnyPiece) /\ Pieces[u] # <<>>
  BY PiecesAreKnown
<1>2. \A u, v \in Texts : Pieces[u] = Pieces[v] => u = v
  BY TextsAssumption
<1>3. ASSUME NEW u \in Texts \union {None}
      PROVE  /\ Field(u) \in Seq(AnyPiece)
             /\ (Field(u) = <<>> <=> u = None)
             /\ u # None => u \in Texts /\ Field(u) = Pieces[u]
  <2>1. CASE u = None
    BY <2>1 DEF Field
  <2>2. CASE u # None
    BY <1>1, <2>2 DEF Field
  <2>3. QED
    BY <2>1, <2>2
<1>4. QED
  BY <1>2, <1>3

LEMMA PlainField ==
    ASSUME NEW t \in Texts \union {None}, t # None => PlainText(t) PROVE ":" \notin ToSet(Field(t))
<1>1. CASE t = None
  BY <1>1 DEF Field, ToSet
<1>2. CASE t # None
  <2>1. Pieces[t] \in Seq(AnyPiece) /\ Len(Pieces[t]) = 1 /\ Pieces[t][1] # ":"
    BY <1>2, PiecesAreKnown DEF PlainText
  <2>2. QED
    BY <1>2, <2>1 DEF Field, ToSet
<1>3. QED
  BY <1>1, <1>2

LEMMA SortedRange ==
    ASSUME NEW s \in Seq(Texts) PROVE Sorted(s) \in Seq(Texts) /\ ToSet(Sorted(s)) = ToSet(s)
<1> DEFINE runs == [i \in DOMAIN Alphabet |-> [n \in 1 .. Occurrences(s, Alphabet[i]) |-> Alphabet[i]]]
<1>1. Alphabet \in Seq(STRING) /\ DOMAIN Alphabet = 1 .. Len(Alphabet) /\ Len(Alphabet) \in Nat
  BY TextsAssumption
<1>2. \A i \in DOMAIN Alphabet : Alphabet[i] \in Texts
  BY DEF Texts, ToSet
<1>3. \A x : Occurrences(s, x) \in Nat /\ (Occurrences(s, x) = 0 <=> x \notin ToSet(s))
  BY OccurrencesCount
<1>4. ASSUME NEW i \in DOMAIN Alphabet
      PROVE  runs[i] \in Seq(Texts) /\ ToSet(runs[i]) = {Alphabet[i]} \intersect ToSet(s)
  <2> DEFINE n == Occurrences(s, Alphabet[i])
             run == [j \in 1 .. n |-> Alphabet[i]]
  <2>1. n \in Nat /\ runs[i] = run
    BY <1>3
  <2> HIDE DEF n, runs
  <2>2. run \in Seq(Texts)
    BY <1>2, <2>1
  <2>3. ToSet(run) = IF n = 0 THEN {} ELSE {Alphabet[i]}
    <3>1. ToSet(run) = {Alphabet[i] : j \in 1 .. n}
      BY DEF ToSet
    <3>2. n # 0 => 1 \in 1 .. n
      BY <2>1
    <3>3. n = 0 => 1 .. n = {}
      BY <2>1
    <3>4. QED
      BY <3>1, <3>2, <3>3
  <2>4. QED
    BY <1>3, <2>1, <2>2, <2>3 DEF n
<1>5. runs \in Seq(Seq(Texts)) /\ DOMAIN runs = DOMAIN Alphabet
  <2>1. \A i \in 1 .. Len(Alphabet) : runs[i] \in Seq(Texts)
    BY <1>1, <1>4
  <2>2. QED
    BY <1>1, <2>1
<1>6. Sorted(s) = FlattenSeq(runs)
  BY DEF Sorted
<1> HIDE DEF runs
<1>7. FlattenSeq(runs) \in Seq(Texts) /\ ToSet(FlattenSeq(runs)) = UNION {ToSet(runs[i]) : i \in DOMAIN runs}
  BY <1>5, FlattenRange
<1>8. \A x : x \in ToSet(s) => \E i \in DOMAIN Alphabet : x = Alphabet[i]
  <2>1. ToSet(s) \subseteq Texts
    BY DEF ToSet
  <2>2. QED
    BY <2>1 DEF Texts, ToSet
<1>9. UNION {ToSet(runs[i]) : i \in DOMAIN runs} = ToSet(s)
  BY <1>4, <1>5, <1>8
<1>10. QED
  BY <1>6, <1>7, <1>9

\* Of a list of plain texts the joined one keeps which texts there are.
LEMMA CsvMeans ==
    ASSUME NEW s \in Seq(Texts)
    PROVE  /\ Csv(s) \in Seq(AnyPiece)
           /\ (\A t \in ToSet(s) : PlainText(t)) =>
                 /\ ":" \notin ToSet(Csv(s))
                 /\ ToSet(Csv(s)) \ {","} = {Pieces[t][1] : t \in ToSet(s)}
<1> DEFINE sorted == Sorted(s)
           parts == [i \in DOMAIN sorted |-> IF i = 1 THEN Pieces[sorted[i]] ELSE <<",">> \o Pieces[sorted[i]]]
<1>1. sorted \in Seq(Texts) /\ ToSet(sorted) = ToSet(s)
  BY SortedRange
<1>2. Csv(s) = FlattenSeq(parts)
  BY DEF Csv
<1> HIDE DEF sorted
<1>3. DOMAIN sorted = 1 .. Len(sorted) /\ Len(sorted) \in Nat /\ \A i \in 1 .. Len(sorted) : sorted[i] \in Texts
  BY <1>1
<1>4. \A t \in Texts : /\ Pieces[t] \in Seq(AnyPiece) /\ <<",">> \o Pieces[t] \in Seq(AnyPiece)
                       /\ ToSet(<<",">> \o Pieces[t]) = {","} \union ToSet(Pieces[t])
  <2> TAKE t \in Texts
  <2> DEFINE comma == <<",">>
  <2>1. comma \in Seq(AnyPiece) /\ ToSet(comma) = {","}
    BY SeparatorsArePieces, OnePiece
  <2>2. Pieces[t] \in Seq(AnyPiece)
    BY PiecesAreKnown
  <2> HIDE DEF comma
  <2> DEFINE own == Pieces[t]
  <2> HIDE DEF own
  <2>3. comma \o own \in Seq(AnyPiece) /\ ToSet(comma \o own) = ToSet(comma) \union ToSet(own)
    <3>1. comma \in Seq(AnyPiece) /\ own \in Seq(AnyPiece)
      BY <2>1, <2>2 DEF own
    <3>2. QED
      BY <3>1, ToSetConcat
  <2>4. QED
    BY <2>1, <2>2, <2>3 DEF comma, own
<1>5. parts \in Seq(Seq(AnyPiece)) /\ DOMAIN parts = DOMAIN sorted
  <2> DEFINE n == Len(sorted)
             S == Seq(AnyPiece)
             part(i) == IF i = 1 THEN Pieces[sorted[i]] ELSE <<",">> \o Pieces[sorted[i]]
  <2>1. \A i \in 1 .. n : part(i) \in S
    BY <1>3, <1>4
  <2>2. parts = [i \in 1 .. n |-> part(i)]
    BY <1>3
  <2> HIDE DEF S, part, parts, n
  <2>3. parts \in [1 .. n -> S]
    BY <2>1, <2>2
  <2>4. parts \in Seq(S) /\ DOMAIN parts = 1 .. n
    BY <1>3, <2>3 DEF n
  <2>5. QED
    BY <1>3, <2>4 DEF S, n
<1>6. \A i \in DOMAIN sorted : ToSet(parts[i]) = ToSet(Pieces[sorted[i]]) \union (IF i = 1 THEN {} ELSE {","})
  BY <1>3, <1>4
<1> HIDE DEF parts
<1>7. FlattenSeq(parts) \in Seq(AnyPiece) /\ ToSet(FlattenSeq(parts)) = UNION {ToSet(parts[i]) : i \in DOMAIN parts}
  BY <1>5, FlattenRange
<1>8. ASSUME \A t \in ToSet(s) : PlainText(t)
      PROVE  ":" \notin ToSet(Csv(s)) /\ ToSet(Csv(s)) \ {","} = {Pieces[t][1] : t \in ToSet(s)}
  <2>1. \A t \in ToSet(s) : ToSet(Pieces[t]) = {Pieces[t][1]} /\ Pieces[t][1] \notin {",", ":"}
    <3> TAKE t \in ToSet(s)
    <3>1. t \in Texts
      BY DEF ToSet
    <3>2. Pieces[t] \in Seq(AnyPiece) /\ Len(Pieces[t]) = 1 /\ Pieces[t][1] \notin {",", ":"}
      BY <1>8, <3>1, PiecesAreKnown DEF PlainText
    <3>3. QED
      BY <3>2, OneInList
  <2> DEFINE word(t) == Pieces[t][1]
             set(i) == ToSet(parts[i])
  <2>2. \A i \in DOMAIN sorted : sorted[i] \in ToSet(s)
    BY <1>1 DEF ToSet
  <2>3. \A t \in ToSet(s) : \E i \in DOMAIN sorted : sorted[i] = t
    BY <1>1 DEF ToSet
  <2>4. \A i \in DOMAIN sorted : set(i) = {word(sorted[i])} \union (IF i = 1 THEN {} ELSE {","})
    BY <1>6, <2>1, <2>2
  <2>5. \A x : x \in ToSet(Csv(s)) <=> \E i \in DOMAIN sorted : x \in set(i)
    BY <1>2, <1>5, <1>7
  <2>6. \A t \in ToSet(s) : word(t) # "," /\ word(t) # ":"
    BY <2>1
  <2> HIDE DEF word, set
  <2>7. ASSUME NEW x \in ToSet(Csv(s)) PROVE x = "," \/ \E t \in ToSet(s) : x = word(t)
    <3>1. PICK i \in DOMAIN sorted : x \in set(i)
      BY <2>5
    <3>2. x = word(sorted[i]) \/ x = ","
      BY <2>4, <3>1
    <3>3. QED
      BY <2>2, <3>2
  <2>8. \A t \in ToSet(s) : word(t) \in ToSet(Csv(s))
    BY <2>3, <2>4, <2>5
  <2>9. ":" \notin ToSet(Csv(s))
    BY <2>6, <2>7
  <2>10. ToSet(Csv(s)) \ {","} = {word(t) : t \in ToSet(s)}
    BY <2>6, <2>7, <2>8
  <2>11. QED
    BY <2>9, <2>10 DEF word
<1>9. QED
  BY <1>2, <1>7, <1>8

LEMMA SameTexts ==
    ASSUME NEW s \in Seq(Texts), NEW u \in Seq(Texts), Csv(s) = Csv(u),
           \A t \in ToSet(s) \union ToSet(u) : PlainText(t)
    PROVE  ToSet(s) = ToSet(u)
<1> DEFINE word(t) == Pieces[t][1]
<1>1. {word(t) : t \in ToSet(s)} = {word(t) : t \in ToSet(u)}
  BY CsvMeans
<1>2. \A t, v \in ToSet(s) \union ToSet(u) : word(t) = word(v) => t = v
  <2> TAKE t, v \in ToSet(s) \union ToSet(u)
  <2> HAVE word(t) = word(v)
  <2>1. t \in Texts /\ v \in Texts
    BY DEF ToSet
  <2>2. Pieces[t] \in Seq(AnyPiece) /\ Pieces[v] \in Seq(AnyPiece) /\ Len(Pieces[t]) = 1 /\ Len(Pieces[v]) = 1
    BY <2>1, PiecesAreKnown DEF PlainText
  <2>3. Pieces[t] = Pieces[v]
    BY <2>2
  <2>4. QED
    BY <2>1, <2>3, TextsAssumption
<1> HIDE DEF word
<1>3. ASSUME NEW t \in ToSet(s) PROVE t \in ToSet(u)
  <2>1. PICK v \in ToSet(u) : word(t) = word(v)
    <3>1. word(t) \in {word(x) : x \in ToSet(s)}
      OBVIOUS
    <3>2. QED
      BY <1>1, <3>1
  <2>2. QED
    BY <1>2, <2>1
<1>4. ASSUME NEW t \in ToSet(u) PROVE t \in ToSet(s)
  <2>1. PICK v \in ToSet(s) : word(t) = word(v)
    <3>1. word(t) \in {word(v) : v \in ToSet(u)}
      OBVIOUS
    <3>2. word(t) \in {word(v) : v \in ToSet(s)}
      BY <1>1, <3>1
    <3>3. QED
      BY <3>2
  <2>2. QED
    BY <1>2, <2>1
<1>5. QED
  BY <1>3, <1>4

\* Requests that differ in the order of their lists only.
Alike(r, s) ==
    /\ r \in Request /\ s \in Request
    /\ r.country = s.country /\ r.weight = s.weight /\ r.product = s.product
    /\ r.envelope = s.envelope /\ r.preference = s.preference /\ r.indemnity = s.indemnity
    /\ ToSet(r.kinds) = ToSet(s.kinds) /\ ToSet(r.pins) = ToSet(s.pins)

LEMMA FieldsOf ==
    ASSUME NEW r \in Requests
    PROVE  /\ r \in Request
           /\ r.country \in Texts \union {None} /\ r.product \in Texts \union {None}
           /\ r.envelope \in Texts \union {None} /\ r.preference \in Texts \union {None}
           /\ r.indemnity \in Texts \union {None}
           /\ r.kinds \in Seq(Texts) /\ r.pins \in Seq(Texts)
           /\ Decimal[r.weight] \in Seq(AnyPiece) /\ ":" \notin ToSet(Decimal[r.weight])
<1>1. /\ r \in Request /\ TextsOf(r) \subseteq Texts
      /\ Decimal[r.weight] \in Seq(AnyPiece) /\ ":" \notin ToSet(Decimal[r.weight])
  BY ResolverAssumption, TextsAssumption, PiecesAreKnown
<1>2. r.kinds \in Seq(ServiceKinds) /\ r.pins \in Seq(STRING)
  BY <1>1 DEF Request
<1>3. r.kinds \in Seq(Texts)
  <2>1. r.kinds \in Seq(ToSet(r.kinds)) /\ ToSet(r.kinds) \subseteq Texts
    BY <1>1, <1>2, OwnRange DEF TextsOf
  <2> DEFINE K == ToSet(r.kinds)
  <2> HIDE DEF K
  <2>2. QED
    BY <2>1 DEF K
<1>4. r.pins \in Seq(Texts)
  <2>1. r.pins \in Seq(ToSet(r.pins)) /\ ToSet(r.pins) \subseteq Texts
    BY <1>1, <1>2, OwnRange DEF TextsOf
  <2>2. QED
    BY <2>1
<1>5. QED
  BY <1>1, <1>3, <1>4 DEF TextsOf

LEMMA KeysReadAlike ==
    ASSUME NEW r \in Requests, NEW s \in Requests, GenerateKey(r) = GenerateKey(s),
           PlainRequest(s), \A pin \in ToSet(r.pins) : PlainText(pin)
    PROVE  Alike(r, s)
<1> DEFINE r1 == Field(r.country)     s1 == Field(s.country)
           r2 == Decimal[r.weight]    s2 == Decimal[s.weight]
           r3 == Field(r.product)     s3 == Field(s.product)
           r4 == Field(r.envelope)    s4 == Field(s.envelope)
           r5 == Field(r.preference)  s5 == Field(s.preference)
           r6 == Field(r.indemnity)   s6 == Field(s.indemnity)
           r7 == Csv(r.kinds)         s7 == Csv(s.kinds)
           r8 == Csv(r.pins)          s8 == Csv(s.pins)
           S == Seq(AnyPiece)
           Colons(a) == Occurrences(a, ":")
<1>1. \A t \in ToSet(r.kinds) \union ToSet(s.kinds) : PlainText(t)
  <2>1. ToSet(r.kinds) \subseteq Texts /\ ToSet(s.kinds) \subseteq Texts
    BY FieldsOf, TextsAssumption DEF TextsOf
  <2>2. ToSet(r.kinds) \subseteq ServiceKinds /\ ToSet(s.kinds) \subseteq ServiceKinds
    <3>1. r.kinds \in Seq(ServiceKinds) /\ s.kinds \in Seq(ServiceKinds)
      BY FieldsOf DEF Request
    <3>2. QED
      BY <3>1 DEF ToSet
  <2>3. QED
    BY <2>1, <2>2, TextsAssumption
<1>2. \A t \in ToSet(r.pins) \union ToSet(s.pins) : PlainText(t)
  BY DEF PlainRequest, TextsOf
<1>3. /\ r1 \in S /\ r2 \in S /\ r3 \in S /\ r4 \in S /\ r5 \in S /\ r6 \in S /\ r7 \in S /\ r8 \in S
      /\ s1 \in S /\ s2 \in S /\ s3 \in S /\ s4 \in S /\ s5 \in S /\ s6 \in S /\ s7 \in S /\ s8 \in S
  BY FieldsOf, FieldMeans, CsvMeans
<1>4. /\ ":" \notin ToSet(s1) /\ ":" \notin ToSet(s3) /\ ":" \notin ToSet(s4)
      /\ ":" \notin ToSet(s5) /\ ":" \notin ToSet(s6)
  BY FieldsOf, PlainField DEF PlainRequest, TextsOf
<1>5. /\ ":" \notin ToSet(r2) /\ ":" \notin ToSet(r7) /\ ":" \notin ToSet(r8)
      /\ ":" \notin ToSet(s2) /\ ":" \notin ToSet(s7) /\ ":" \notin ToSet(s8)
  BY <1>1, <1>2, FieldsOf, CsvMeans
<1>6. r1 ** r2 ** r3 ** r4 ** r5 ** r6 ** r7 ** r8 = s1 ** s2 ** s3 ** s4 ** s5 ** s6 ** s7 ** s8
  BY DEF GenerateKey
<1> HIDE DEF r1, r2, r3, r4, r5, r6, r7, r8, s1, s2, s3, s4, s5, s6, s7, s8
<1> DEFINE p2 == r1 ** r2   q2 == s1 ** s2
           p3 == p2 ** r3   q3 == q2 ** s3
           p4 == p3 ** r4   q4 == q3 ** s4
           p5 == p4 ** r5   q5 == q4 ** s5
           p6 == p5 ** r6   q6 == q5 ** s6
           p7 == p6 ** r7   q7 == q6 ** s7
<1>7. p7 ** r8 = q7 ** s8
  BY <1>6
<1>8. p2 \in S /\ q2 \in S /\ Colons(p2) = Colons(r1) + 1 + Colons(r2) /\ Colons(q2) = Colons(s1) + 1 + Colons(s2)
  BY <1>3, Joined
<1> HIDE DEF p2, q2
<1>9. p3 \in S /\ q3 \in S /\ Colons(p3) = Colons(p2) + 1 + Colons(r3) /\ Colons(q3) = Colons(q2) + 1 + Colons(s3)
  BY <1>3, <1>8, Joined
<1> HIDE DEF p3, q3
<1>10. p4 \in S /\ q4 \in S /\ Colons(p4) = Colons(p3) + 1 + Colons(r4) /\ Colons(q4) = Colons(q3) + 1 + Colons(s4)
  BY <1>3, <1>9, Joined
<1> HIDE DEF p4, q4
<1>11. p5 \in S /\ q5 \in S /\ Colons(p5) = Colons(p4) + 1 + Colons(r5) /\ Colons(q5) = Colons(q4) + 1 + Colons(s5)
  BY <1>3, <1>10, Joined
<1> HIDE DEF p5, q5
<1>12. p6 \in S /\ q6 \in S /\ Colons(p6) = Colons(p5) + 1 + Colons(r6) /\ Colons(q6) = Colons(q5) + 1 + Colons(s6)
  BY <1>3, <1>11, Joined
<1> HIDE DEF p6, q6
<1>13. p7 \in S /\ q7 \in S /\ Colons(p7) = Colons(p6) + 1 + Colons(r7) /\ Colons(q7) = Colons(q6) + 1 + Colons(s7)
  BY <1>3, <1>12, Joined
<1> HIDE DEF p7, q7
<1>14. Colons(p7) + 1 + Colons(r8) = Colons(q7) + 1 + Colons(s8)
  BY <1>3, <1>7, <1>13, Joined
<1>15. \A a \in S : Colons(a) \in Nat /\ (Colons(a) = 0 <=> ":" \notin ToSet(a))
  BY OccurrencesCount
<1> HIDE DEF Colons, S
<1>16. /\ Colons(r1) = 0 /\ Colons(r3) = 0 /\ Colons(r4) = 0 /\ Colons(r5) = 0 /\ Colons(r6) = 0
  <2>1. /\ Colons(s1) = 0 /\ Colons(s2) = 0 /\ Colons(s3) = 0 /\ Colons(s4) = 0
        /\ Colons(s5) = 0 /\ Colons(s6) = 0 /\ Colons(s7) = 0 /\ Colons(s8) = 0
    BY <1>3, <1>4, <1>5, <1>15
  <2>2. /\ Colons(r1) \in Nat /\ Colons(r2) = 0 /\ Colons(r3) \in Nat /\ Colons(r4) \in Nat
        /\ Colons(r5) \in Nat /\ Colons(r6) \in Nat /\ Colons(r7) = 0 /\ Colons(r8) = 0
    BY <1>3, <1>5, <1>15
  <2>3. Colons(q7) = 6
    BY <1>8, <1>9, <1>10, <1>11, <1>12, <1>13, <2>1
  <2>4. Colons(p7) = 6 + Colons(r1) + Colons(r3) + Colons(r4) + Colons(r5) + Colons(r6)
    BY <1>8, <1>9, <1>10, <1>11, <1>12, <1>13, <2>2
  <2>5. QED
    BY <1>14, <2>1, <2>2, <2>3, <2>4
<1>17. ":" \notin ToSet(r3) /\ ":" \notin ToSet(r4) /\ ":" \notin ToSet(r5) /\ ":" \notin ToSet(r6)
  <2>1. \A a \in S : Colons(a) = 0 => ":" \notin ToSet(a)
    BY <1>15
  <2>2. QED
    BY <1>3, <1>16, <2>1
<1>18. p7 = q7 /\ r8 = s8
  <2>1. p7 \in S /\ q7 \in S /\ r8 \in S /\ s8 \in S
    BY <1>3, <1>13
  <2>2. ":" \notin ToSet(r8) /\ ":" \notin ToSet(s8)
    BY <1>5
  <2>3. QED
    BY <1>7, <2>1, <2>2, LastField DEF S
<1>19. p6 = q6 /\ r7 = s7
  BY <1>3, <1>5, <1>12, <1>18, LastField DEF p7, q7, S
<1>20. p5 = q5 /\ r6 = s6
  BY <1>3, <1>4, <1>11, <1>17, <1>19, LastField DEF p6, q6, S
<1>21. p4 = q4 /\ r5 = s5
  BY <1>3, <1>4, <1>10, <1>17, <1>20, LastField DEF p5, q5, S
<1>22. p3 = q3 /\ r4 = s4
  BY <1>3, <1>4, <1>9, <1>17, <1>21, LastField DEF p4, q4, S
<1>23. p2 = q2 /\ r3 = s3
  BY <1>3, <1>4, <1>8, <1>17, <1>22, LastField DEF p3, q3, S
<1>24. r1 = s1 /\ r2 = s2
  BY <1>3, <1>5, <1>23, LastField DEF p2, q2, S
<1>25. /\ r.country = s.country /\ r.product = s.product /\ r.envelope = s.envelope
       /\ r.preference = s.preference /\ r.indemnity = s.indemnity
  BY <1>20, <1>21, <1>22, <1>23, <1>24, FieldsOf, FieldMeans DEF r1, r3, r4, r5, r6, s1, s3, s4, s5, s6
<1>26. r.weight = s.weight
  BY <1>24, TextsAssumption DEF r2, s2
<1>27. ToSet(r.kinds) = ToSet(s.kinds) /\ ToSet(r.pins) = ToSet(s.pins)
  BY <1>1, <1>2, <1>18, <1>19, FieldsOf, SameTexts DEF r7, r8, s7, s8
<1>28. QED
  BY <1>25, <1>26, <1>27, FieldsOf DEF Alike

(***************************************************************************)
(* The pipeline knows kinds and pins only as sets, but for two tables in   *)
(* which the last service that has a row wins.                             *)
(***************************************************************************)

LEMMA AlikeBothWays == ASSUME NEW r, NEW s, Alike(r, s) PROVE Alike(s, r)
BY DEF Alike

LEMMA NoFaultAlike ==
    ASSUME NEW pool \in SUBSET Rows, NEW pins \in Seq(STRING), NEW others \in Seq(STRING),
           NEW kinds \in Seq(ServiceKinds), NEW again \in Seq(ServiceKinds),
           ToSet(pins) = ToSet(others), ToSet(kinds) = ToSet(again), NoFault(pool, pins, kinds)
    PROVE  NoFault(pool, others, again)
<1>1. (kinds = <<>> <=> again = <<>>) /\ (pins = <<>> <=> others = <<>>)
  BY Emptiness
<1>2. \A pin : PinFault(again, pin) = PinFault(kinds, pin)
  BY <1>1 DEF PinFault
<1>3. \A kind : ToSet(PinnedTo(kind, pins)) = ToSet(PinnedTo(kind, others))
  BY PinnedRange
<1>4. \A kind : KindFault(pool, others, kind) = KindFault(pool, pins, kind)
  BY <1>3 DEF KindFault
<1>5. QED
  BY <1>1, <1>2, <1>4 DEF NoFault

\* The rows that are bound are the same rows.
LEMMA BindAlike ==
    ASSUME NEW r, NEW s, Alike(r, s), NEW zone, NEW tier, BindOf(r, zone, tier).fault = None
    PROVE  /\ BindOf(s, zone, tier).fault = None
           /\ BindOf(s, zone, tier).unmatched = BindOf(r, zone, tier).unmatched
           /\ ToSet(BindOf(s, zone, tier).ids) = ToSet(BindOf(r, zone, tier).ids)
<1> DEFINE pool == PoolOf(r, zone, tier)
           pins == Distinct(r.pins)
           others == Distinct(s.pins)
<1>1. PoolOf(s, zone, tier) = pool /\ pool \in SUBSET Rows
  BY DEF PoolOf, Pool, CandidatesOf, Alike
<1>2. /\ pins \in Seq(STRING) /\ others \in Seq(STRING) /\ ToSet(pins) = ToSet(others)
      /\ Distinct(r.kinds) \in Seq(ServiceKinds) /\ Distinct(s.kinds) \in Seq(ServiceKinds)
      /\ ToSet(Distinct(r.kinds)) = ToSet(Distinct(s.kinds))
      /\ ToSet(r.kinds) = ToSet(s.kinds)
  BY DistinctOf DEF Alike
<1>3. BindWell(r, zone, tier) /\ BindWell(s, zone, tier)
  BY BindOfMeans DEF Alike
<1> HIDE DEF pool, pins, others
<1>4. NoFault(pool, pins, Distinct(r.kinds))
  BY <1>3 DEF BindWell, pool, pins
<1>5. NoFault(pool, others, Distinct(s.kinds))
  BY <1>1, <1>2, <1>4, NoFaultAlike
<1>6. BindOf(s, zone, tier).fault = None
  BY <1>1, <1>3, <1>5 DEF BindWell, others
<1>7. \A kind : /\ ToSet(BoundFor(pool, others, kind)) = ToSet(BoundFor(pool, pins, kind))
                /\ BoundFor(pool, others, kind) = <<>> <=> BoundFor(pool, pins, kind) = <<>>
  <2> TAKE kind
  <2> DEFINE K == OfKind(Rows, kind)
             M == OfKind(pool, kind)
             b == BoundFor(pool, pins, kind)
             o == BoundFor(pool, others, kind)
  <2>1. /\ ToSet(b) = IF ToSet(pins) \cap K # {} THEN ToSet(pins) \cap K ELSE M
        /\ b = <<>> <=> ToSet(b) = {}
    BY <1>1, <1>2, BoundRange
  <2>2. /\ ToSet(o) = IF ToSet(others) \cap K # {} THEN ToSet(others) \cap K ELSE M
        /\ o = <<>> <=> ToSet(o) = {}
    BY <1>1, <1>2, BoundRange
  <2> HIDE DEF K, M, b, o
  <2>3. ToSet(o) = ToSet(b) /\ (o = <<>> <=> b = <<>>)
    BY <1>2, <2>1, <2>2
  <2>4. QED
    BY <2>3 DEF b, o
<1>8. /\ BindOf(r, zone, tier).unmatched = {kind \in ToSet(r.kinds) : BoundFor(pool, pins, kind) = <<>>}
      /\ BindOf(s, zone, tier).unmatched = {kind \in ToSet(r.kinds) : BoundFor(pool, others, kind) = <<>>}
      /\ ToSet(BindOf(r, zone, tier).ids) = UNION {ToSet(BoundFor(pool, pins, kind)) : kind \in ToSet(r.kinds)}
      /\ ToSet(BindOf(s, zone, tier).ids) = UNION {ToSet(BoundFor(pool, others, kind)) : kind \in ToSet(r.kinds)}
  BY <1>1, <1>2, <1>3 DEF BindWell, pool, pins, others
<1>9. BindOf(s, zone, tier).unmatched = BindOf(r, zone, tier).unmatched
  BY <1>7, <1>8
<1>10. ToSet(BindOf(s, zone, tier).ids) = ToSet(BindOf(r, zone, tier).ids)
  BY <1>7, <1>8
<1>11. QED
  BY <1>6, <1>9, <1>10

\* And so is the product that is picked.
LEMMA PickAlike ==
    ASSUME NEW r, NEW s, Alike(r, s), NEW zone, NEW tier, PickOf(r, zone, tier).fault = None
    PROVE  /\ PickOf(s, zone, tier).fault = None
           /\ PickOf(s, zone, tier).product = PickOf(r, zone, tier).product
           /\ ToSet(PickOf(s, zone, tier).ids) = ToSet(PickOf(r, zone, tier).ids)
<1> DEFINE c == CandidatesOf(r, zone, tier)
           bind == BindOf(r, zone, tier)
           other == BindOf(s, zone, tier)
           tokens == FilteredBy(bind, c, r.indemnity)
           again == FilteredBy(other, c, r.indemnity)
<1>1. /\ r \in Request /\ s \in Request /\ s.product = r.product /\ s.weight = r.weight
      /\ s.indemnity = r.indemnity /\ s.preference = r.preference /\ s.envelope = r.envelope
  BY DEF Alike
<1>2. bind.fault = None
  BY <1>1, PickIsWell, NoneIsNoCode DEF PickMeans, PickedWell, PickCodes, RefusalCodes
<1>3. other.fault = None /\ other.unmatched = bind.unmatched /\ ToSet(other.ids) = ToSet(bind.ids)
  BY <1>2, BindAlike
<1>4. CandidatesOf(s, zone, tier) = c
  BY <1>1 DEF CandidatesOf
<1>5. r.product = None => /\ PickOf(r, zone, tier) = Picked(tokens, zone, tier, r)
                          /\ PickOf(s, zone, tier) = Picked(again, zone, tier, s)
  BY <1>1, <1>4 DEF PickOf, Discovered, ApplyServiceTokens, CandidatesOf, BindOf, PoolOf
<1>6. r.product # None => /\ PickOf(r, zone, tier) = Named(r, zone, tier)
                          /\ PickOf(s, zone, tier) = Named(s, zone, tier)
                          /\ ApplyServiceTokens(<<r.product>>, zone, r) = tokens
                          /\ ApplyServiceTokens(<<r.product>>, zone, s) = again
  BY <1>1 DEF PickOf, ApplyServiceTokens, CandidatesOf, BindOf, PoolOf
<1> HIDE DEF bind, other, c
<1>7. /\ tokens.fault = again.fault /\ tokens.candidates = again.candidates
      /\ tokens.ids = bind.ids /\ again.ids = other.ids
  <2>1. tokens.ids = bind.ids /\ again.ids = other.ids
    BY <1>2, <1>3 DEF FilteredBy, Tokens, TokensFault
  <2>2. tokens.fault = again.fault /\ tokens.candidates = again.candidates
    BY <1>2, <1>3 DEF FilteredBy, Tokens, TokensFault
  <2>3. QED
    BY <2>1, <2>2
<1> HIDE DEF tokens, again
<1>8. CASE r.product = None
  <2> DEFINE fit == Fitting(tokens.candidates, r.indemnity)
             best == Best(fit, zone, tier, Preference(r))
  <2>1. tokens.fault = None
    BY <1>5, <1>8 DEF Picked, Refused
  <2>2. /\ PickOf(r, zone, tier) = SelectProduct(fit, zone, tier, r, tokens.ids)
        /\ PickOf(s, zone, tier) = SelectProduct(fit, zone, tier, s, again.ids)
    BY <1>1, <1>5, <1>7, <1>8, <2>1 DEF Picked
  <2>3. Preference(s) = Preference(r)
    BY <1>1 DEF Preference
  <2> HIDE DEF fit
  <2>4. \/ \E p : /\ PickOf(r, zone, tier) = Selected(p, tokens.ids)
                  /\ PickOf(s, zone, tier) = Selected(p, again.ids)
        \/ \E code \in PickCodes : PickOf(r, zone, tier) = Refused(code)
    <3>1. CASE fit = <<>>
      BY <2>2, <3>1 DEF SelectProduct, Unresolved, PickCodes, RefusalCodes
    <3>2. CASE fit # <<>> /\ Len(fit) = 1
      BY <2>2, <3>2 DEF SelectProduct
    <3>3. CASE fit # <<>> /\ Len(fit) # 1
      <4>1. /\ PickOf(r, zone, tier) = OneOf(fit, best, tokens.ids)
            /\ PickOf(s, zone, tier) = OneOf(fit, best, again.ids)
        BY <2>2, <2>3, <3>3 DEF SelectProduct
      <4> HIDE DEF best
      <4>2. QED
        BY <4>1 DEF OneOf, PickCodes, RefusalCodes
    <3>4. QED
      BY <3>1, <3>2, <3>3
  <2>5. QED
    BY <1>3, <1>7, <2>4, NoneIsNoCode DEF Selected, Refused, PickCodes
<1>9. CASE r.product # None
  <2>1. CASE ~(\E link \in Links : link.product = r.product /\ Linked(link, zone, tier)) \/ r.product \notin DOMAIN Catalog.products
    <3>1. \E code \in PickCodes : PickOf(r, zone, tier) = Refused(code)
      BY <1>6, <1>9, <2>1 DEF Named, Unresolved, PickCodes, RefusalCodes
    <3>2. QED
      BY <3>1, NoneIsNoCode DEF Refused, PickCodes
  <2>2. CASE (\E link \in Links : link.product = r.product /\ Linked(link, zone, tier)) /\ r.product \in DOMAIN Catalog.products
    <3>1. PickOf(r, zone, tier) = Taking(r.product, tokens) /\ PickOf(s, zone, tier) = Taking(r.product, again)
      BY <1>1, <1>6, <1>9, <2>2 DEF Named
    <3>2. tokens.fault = None
      BY <3>1 DEF Taking, Refused
    <3>3. QED
      BY <1>3, <1>7, <3>1, <3>2 DEF Taking, Selected
  <2>3. QED
    BY <2>1, <2>2
<1>10. QED
  BY <1>8, <1>9

LEMMA AnsweredAlike ==
    ASSUME NEW r, NEW s, Alike(r, s), Answered(r)
    PROVE  /\ Answered(s)
           /\ ZoneOf(s) = ZoneOf(r) /\ TierOf(s.weight) = TierOf(r.weight)
           /\ PickFor(s).product = PickFor(r).product
           /\ ToSet(PickFor(s).ids) = ToSet(PickFor(r).ids)
<1>1. /\ ZoneOf(s) = ZoneOf(r) /\ TierOf(s.weight) = TierOf(r.weight)
      /\ PlaceKnown(s) <=> PlaceKnown(r)
  BY DEF Alike, ZoneOf, TierOf, PlaceKnown
<1>2. PickFor(r) = PickOf(r, ZoneOf(r), TierOf(r.weight)) /\ PickFor(s) = PickOf(s, ZoneOf(r), TierOf(r.weight))
  BY <1>1 DEF PickFor
<1>3. PickFor(r).fault = None
  BY DEF Answered
<1>4. /\ PickFor(s).fault = None /\ PickFor(s).product = PickFor(r).product
      /\ ToSet(PickFor(s).ids) = ToSet(PickFor(r).ids)
  BY <1>2, <1>3, PickAlike
<1>5. FaultOf(s) = FaultOf(r)
  BY <1>1, <1>4 DEF FaultOf
<1>6. QED
  BY <1>1, <1>4, <1>5 DEF Answered

SameOffer(one, other) ==
    /\ IsPorto(one) <=> IsPorto(other)
    /\ IsPorto(other) =>
          /\ one.product = other.product
          /\ one.amount = other.amount
          /\ ToSet(one.kinds) = ToSet(other.kinds)
          /\ ToSet(one.ids) = ToSet(other.ids)

LEMMA OfferAlike ==
    ASSUME NEW r, NEW s, Alike(r, s) PROVE SameOffer(Resolve(r), Resolve(s))
<1>1. ASSUME NEW q, NEW p, Alike(q, p), IsPorto(Resolve(q))
      PROVE  IsPorto(Resolve(p)) /\ SameOffer(Resolve(q), Resolve(p))
  <2>1. Answered(q) /\ Resolve(q) = PortoOf(q)
    BY <1>1, PortoMeans
  <2>2. /\ Answered(p)
        /\ ZoneOf(p) = ZoneOf(q) /\ TierOf(p.weight) = TierOf(q.weight)
        /\ PickFor(p).product = PickFor(q).product
        /\ ToSet(PickFor(p).ids) = ToSet(PickFor(q).ids)
    BY <1>1, <2>1, AnsweredAlike
  <2>3. Resolve(p) = PortoOf(p)
    BY <2>2, AnsweredIsPorto
  <2>4. ToSet(Distinct(q.kinds)) = ToSet(Distinct(p.kinds))
    BY <1>1, DistinctOf DEF Alike
  <2>5. IsPorto(PortoOf(p)) /\ IsPorto(PortoOf(q))
    BY DEF IsPorto, PortoOf
  <2>6. /\ PortoOf(q).product = PortoOf(p).product /\ PortoOf(q).amount = PortoOf(p).amount
        /\ ToSet(PortoOf(q).kinds) = ToSet(PortoOf(p).kinds) /\ ToSet(PortoOf(q).ids) = ToSet(PortoOf(p).ids)
    BY <2>2, <2>4 DEF PortoOf
  <2>7. QED
    BY <2>1, <2>3, <2>5, <2>6 DEF SameOffer
<1>2. Alike(s, r)
  BY AlikeBothWays
<1>3. IsPorto(Resolve(r)) <=> IsPorto(Resolve(s))
  BY <1>1, <1>2
<1>4. QED
  BY <1>1, <1>3 DEF SameOffer

LEMMA PickedIds ==
    ASSUME NEW r \in Request, PickedWell(r, ZoneOf(r), TierOf(r.weight)) PROVE PickFor(r).ids \in Seq(Ids(Rows))
<1> DEFINE pool == PoolOf(r, ZoneOf(r), TierOf(r.weight))
           pins == Distinct(r.pins)
           kinds == Distinct(r.kinds)
<1>1. PickFor(r).ids = BindOf(r, ZoneOf(r), TierOf(r.weight)).ids
  BY DEF PickedWell, PickFor
<1>2. BindOf(r, ZoneOf(r), TierOf(r.weight)) = Bind(pool, pins, kinds)
  BY DEF BindOf
<1>3. pool \in SUBSET Rows /\ pins \in Seq(STRING) /\ kinds \in Seq(ServiceKinds)
  BY DistinctOf DEF PoolOf, Pool
<1> HIDE DEF pool, pins, kinds
<1>4. QED
  BY <1>1, <1>2, <1>3, BindIds

\* The last service that the table has decides, if there is one.
LEMMA OverrideMeans ==
    ASSUME NEW V, NEW default, NEW table, NEW ids \in Seq(V)
    PROVE  \/ ToSet(ids) \cap DOMAIN table = {} /\ Override(default, table, ids) = default
           \/ \E id \in ToSet(ids) \cap DOMAIN table : Override(default, table, ids) = table[id]
<1> DEFINE I == {i \in 1 .. Len(ids) : ids[i] \in DOMAIN table}
           last == SelectLastInSeq(ids, LAMBDA id : id \in DOMAIN table)
<1>1. DOMAIN ids = 1 .. Len(ids) /\ Len(ids) \in Nat
  OBVIOUS
<1>2. last = IF I # {} THEN Max(I) ELSE 0
  BY DEF SelectLastInSeq
<1>3. Override(default, table, ids) = IF last = 0 THEN default ELSE table[ids[last]]
  BY DEF Override
<1>4. CASE I = {}
  <2>1. ToSet(ids) \cap DOMAIN table = {}
    BY <1>1, <1>4 DEF ToSet
  <2>2. QED
    BY <1>2, <1>3, <1>4, <2>1
<1>5. CASE I # {}
  <2>1. I \subseteq 1 .. Len(ids) /\ I \subseteq Nat
    BY <1>1
  <2>2. IsFiniteSet(I)
    <3>1. IsFiniteSet(1 .. Len(ids))
      BY <1>1, FS_Interval
    <3> HIDE DEF I
    <3>2. QED
      BY <2>1, <3>1, FS_Subset
  <2>3. \E m \in I : \A n \in I : n <= m
    <3> HIDE DEF I
    <3>1. QED
      BY <1>5, <2>1, <2>2, Greatest
  <2>4. \E m \in I : \A n \in I : m >= n
    BY <2>1, <2>3
  <2>5. Max(I) \in I
    BY <2>4 DEF Max
  <2> HIDE DEF last
  <2>6. last \in I /\ last # 0
    BY <1>2, <1>5, <2>1, <2>5
  <2>7. ids[last] \in ToSet(ids) \cap DOMAIN table
    BY <1>1, <2>6 DEF ToSet
  <2>8. QED
    BY <1>3, <2>6, <2>7
<1>6. QED
  BY <1>4, <1>5

LEMMA OverrideAgrees ==
    ASSUME NEW V, NEW ids \in Seq(V), NEW again \in Seq(V), ToSet(ids) = ToSet(again),
           \A id, other \in ToSet(ids) : id # other => Combine(id, other),
           NEW default, NEW table, Agree(table)
    PROVE  Override(default, table, ids) = Override(default, table, again)
<1>1. \A id, other \in ToSet(ids) \cap DOMAIN table : table[id] = table[other]
  BY DEF Agree
<1>2. \/ ToSet(ids) \cap DOMAIN table = {} /\ Override(default, table, ids) = default
      \/ \E id \in ToSet(ids) \cap DOMAIN table : Override(default, table, ids) = table[id]
  BY OverrideMeans
<1>3. \/ ToSet(again) \cap DOMAIN table = {} /\ Override(default, table, again) = default
      \/ \E id \in ToSet(again) \cap DOMAIN table : Override(default, table, again) = table[id]
  BY OverrideMeans
<1>4. QED
  BY <1>1, <1>2, <1>3

SameAnswer(one, other) ==
    /\ SameOffer(one, other)
    /\ IsPorto(other) => one.profile = other.profile /\ WireCode(one) = WireCode(other)

LEMMA AnswerAlike ==
    ASSUME ServicesAgree, NEW r, NEW s, Alike(r, s) PROVE SameAnswer(Resolve(r), Resolve(s))
<1>1. SameOffer(Resolve(r), Resolve(s))
  BY OfferAlike
<1> SUFFICES ASSUME IsPorto(Resolve(s))
             PROVE  Resolve(r).profile = Resolve(s).profile /\ WireCode(Resolve(r)) = WireCode(Resolve(s))
  BY <1>1 DEF SameAnswer
<1>2. /\ Answered(r) /\ Resolve(r) = PortoOf(r)
      /\ Answered(s) /\ Resolve(s) = PortoOf(s)
  BY <1>1, PortoMeans DEF SameOffer
<1> DEFINE ids == PickFor(r).ids
           again == PickFor(s).ids
           zone == ZoneOf(r)
           V == Ids(Rows)
<1>3. /\ ZoneOf(s) = zone /\ PickFor(s).product = PickFor(r).product
      /\ ToSet(again) = ToSet(ids)
  BY <1>2, AnsweredAlike
<1>4. r \in Request /\ s \in Request
  BY DEF Alike
<1>5. AnswerWell(r) /\ AnswerWell(s)
  BY <1>2, <1>4, AnsweredWell
<1>6. ids \in Seq(V) /\ again \in Seq(V)
  BY <1>4, <1>5, PickedIds DEF AnswerWell
<1>7. \A id, other \in ToSet(ids) : id # other => Combine(id, other)
  BY <1>5, NoneIsNoCode DEF AnswerWell, SelectionFault, RefusalCodes
<1>8. r.country \in DOMAIN Catalog.zoneOf /\ zone = Catalog.zoneOf[r.country]
  BY <1>2 DEF Answered, PlaceKnown, ZoneOf
<1> HIDE DEF ids, again, V
<1>9. \A default, table : Agree(table) => Override(default, table, ids) = Override(default, table, again)
  BY <1>3, <1>6, <1>7, OverrideAgrees
<1>10. MarkProfile(zone, ids) = MarkProfile(zone, again)
  BY <1>8, <1>9 DEF MarkProfile, ServicesAgree
<1>11. Resolve(r).profile = Resolve(s).profile
  BY <1>2, <1>3, <1>10 DEF PortoOf, ids, again
<1> DEFINE edge == <<PickFor(r).product, zone>>
           row == Catalog.codes[edge]
<1>12. /\ <<Resolve(r).product, Resolve(r).zone>> = edge /\ Resolve(r).ids = ids
       /\ <<Resolve(s).product, Resolve(s).zone>> = edge /\ Resolve(s).ids = again
  BY <1>2, <1>3 DEF PortoOf, ids, again
<1>13. edge \in DOMAIN Catalog.codes /\ Catalog.strategy = "service" =>
          Override(row.base, row.services, ids) = Override(row.base, row.services, again)
  BY <1>9 DEF ServicesAgree
<1> HIDE DEF edge, zone
<1>14. WireCode(Resolve(r)) = WireCode(Resolve(s))
  BY <1>12, <1>13 DEF WireCode
<1>15. QED
  BY <1>11, <1>14

LEMMA PinsOfPortos ==
    ASSUME IdsArePlain, NEW r \in Requests, IsPorto(Resolve(r)) PROVE \A pin \in ToSet(r.pins) : PlainText(pin)
<1>1. r \in Request /\ Answered(r)
  BY FieldsOf, PortoMeans
<1>2. AnswerWell(r)
  BY <1>1, AnsweredWell
<1>3. BindOf(r, ZoneOf(r), TierOf(r.weight)).fault = None
  BY <1>2 DEF AnswerWell, PickedWell
<1>4. NoFault(PoolOf(r, ZoneOf(r), TierOf(r.weight)), Distinct(r.pins), Distinct(r.kinds))
  BY <1>1, <1>3, BindOfMeans DEF BindWell
<1>5. \A pin \in ToSet(r.pins) : pin \in Ids(Rows)
  <2>1. ToSet(Distinct(r.pins)) = ToSet(r.pins)
    BY <1>1, DistinctOf
  <2>2. \A pin \in ToSet(Distinct(r.pins)) : PinFault(Distinct(r.kinds), pin) = None
    BY <1>4 DEF NoFault
  <2>3. QED
    BY <2>1, <2>2, NoneIsNoCode DEF PinFault, RefusalCodes
<1>6. \A pin \in ToSet(r.pins) : pin \in Texts
  BY FieldsOf DEF ToSet
<1>7. QED
  BY <1>5, <1>6 DEF IdsArePlain

LEMMA ReturnedAlike ==
    ASSUME IdsArePlain, AnswersByKey, NEW got \in returned, PlainRequest(got.request)
    PROVE  /\ Answer[got.request] = Resolve(got.request)
           /\ \/ got.answer = Answer[got.request]
              \/ \E q : got.answer = Resolve(q) /\ Alike(q, got.request)
<1>1. got.request \in Requests /\ (got.answer = Answer[got.request] \/ Keyed(KeyOf[got.request], got.answer))
  BY DEF AnswersByKey
<1>2. \A q \in Requests : Answer[q] = Resolve(q) /\ KeyOf[q] = GenerateKey(q)
  BY ResolverAssumption DEF RequestKeys, Resolved
<1>3. ASSUME Keyed(KeyOf[got.request], got.answer)
      PROVE  \E q : got.answer = Resolve(q) /\ Alike(q, got.request)
  <2>1. PICK q \in Requests : KeyOf[q] = KeyOf[got.request] /\ got.answer = Answer[q]
    BY <1>3 DEF Keyed
  <2>2. IsPorto(Resolve(q))
    BY <1>2, <1>3, <2>1, ResolverAssumption DEF Keyed, ResolvedPortos
  <2>3. GenerateKey(q) = GenerateKey(got.request) /\ got.answer = Resolve(q)
    BY <1>1, <1>2, <2>1
  <2>4. Alike(q, got.request)
    BY <1>1, <2>2, <2>3, PinsOfPortos, KeysReadAlike
  <2>5. QED
    BY <2>3, <2>4
<1>4. QED
  BY <1>1, <1>2, <1>3

LEMMA SameAsItself == ASSUME NEW answer PROVE SameOffer(answer, answer) /\ SameAnswer(answer, answer)
  BY DEF SameOffer, SameAnswer

\* With the cache in front, for every catalog whose ids have no comma and no
\* colon in them and whatever others ask: a request without one gets the
\* product, the price and the services that are its own, whoever asked first
\* (cache.py:34-64, porto_resolver.py:182-188).
THEOREM SameOfferWhateverTheOrder ==
    ASSUME IdsArePlain
    PROVE  Spec => [](\A got \in returned :
                         PlainRequest(got.request) => SameOffer(got.answer, Answer[got.request]))
<1>1. AnswersByKey => \A got \in returned : PlainRequest(got.request) => SameOffer(got.answer, Answer[got.request])
  BY ReturnedAlike, OfferAlike, SameAsItself
<1>2. AnswerInv => AnswersByKey
  BY DEF AnswerInv
<1>3. AnswerInv => \A got \in returned : PlainRequest(got.request) => SameOffer(got.answer, Answer[got.request])
  BY <1>1, <1>2
<1>4. QED
  BY <1>3, AnswerInvAlways, PTL

\* Where, besides, services that may be ordered together agree on it, the profile
\* of the mark and the code to be bought are its own too
\* (cache.py:34-64, mark_resolution.py, wire_resolution.py).
THEOREM SameWhateverTheOrderCorrect == ASSUME IdsArePlain, ServicesAgree PROVE Spec => []SameWhateverTheOrder
<1>1. AnswersByKey => \A got \in returned : PlainRequest(got.request) => SameAnswer(got.answer, Answer[got.request])
  BY ReturnedAlike, AnswerAlike, SameAsItself
<1>2. AnswerInv => AnswersByKey
  BY DEF AnswerInv
<1>3. AnswerInv => SameWhateverTheOrder
  BY <1>1, <1>2 DEF SameAnswer, SameOffer, SameWhateverTheOrder, SameButForOrder
<1>4. QED
  BY <1>3, AnswerInvAlways, PTL
=============================================================================
