---------------------------- MODULE PortoResolver ----------------------------
(***************************************************************************)
(* PortoResolver: the cache in front of the pipeline, with the key that    *)
(* generate_key makes of a request.  The key is one text: the fields of    *)
(* the request joined with colons, and in it the kinds and the pins, each  *)
(* list sorted and joined with commas.                                     *)
(*                                                                         *)
(* A text is the sequence of its pieces: every comma and every colon, and  *)
(* what stands between two of them.  That is all that joined texts can be  *)
(* confused by.  An envelope is keyed as the request gives it, by its name *)
(* or by its size.  The provider is that of the resolver.                  *)
(***************************************************************************)
EXTENDS Resolution, ResolutionCache

CONSTANTS
    Alphabet,  \* the texts that requests are made of, each once, as sorted() orders them
    Pieces,    \* the pieces of each of them
    Decimal    \* the digits of each weight

Texts == ToSet(Alphabet)

TextsOf(r) ==
    ({r.country, r.product, r.envelope, r.preference, r.indemnity} \ {None})
        \union ToSet(r.kinds) \union ToSet(r.pins)

\* No comma and no colon: one piece.
PlainText(t) == Len(Pieces[t]) = 1 /\ Pieces[t][1] \notin {",", ":"}

\* Texts with the same pieces are the same, and none is empty: that is a field
\* that is left out.  The members of the two closed lists are plain.
ASSUME TextsAssumption ==
    /\ Alphabet \in Seq(STRING)
    /\ \A t \in Texts : Pieces[t] \in Seq(STRING) /\ Pieces[t] # <<>>
    /\ \A t, u \in Texts : Pieces[t] = Pieces[u] => t = u
    /\ \A t \in Texts \intersect (ServiceKinds \union {"cheapest", "fastest", "economy"}) : PlainText(t)
    /\ \A r \in Requests :
          /\ TextsOf(r) \subseteq Texts
          /\ Decimal[r.weight] \in Seq(STRING) /\ ":" \notin ToSet(Decimal[r.weight])
    /\ \A r, s \in Requests : Decimal[r.weight] = Decimal[s.weight] => r.weight = s.weight
-----------------------------------------------------------------------------
(* The key *)

Occurrences(s, x) == Cardinality({i \in DOMAIN s : s[i] = x})

Sorted(s) ==
    FlattenSeq([i \in DOMAIN Alphabet |-> [n \in 1 .. Occurrences(s, Alphabet[i]) |-> Alphabet[i]]])

\* _sorted_csv
Csv(s) ==
    LET sorted == Sorted(s)
    IN  FlattenSeq([i \in DOMAIN sorted |-> IF i = 1 THEN Pieces[sorted[i]] ELSE <<",">> \o Pieces[sorted[i]]])

Field(t) == IF t = None THEN <<>> ELSE Pieces[t]

a ** b == a \o <<":">> \o b

BugGenerateKey(r) ==
    Field(r.country) ** Decimal[r.weight] ** Field(r.product) ** Field(r.envelope)
        ** Field(r.preference) ** Csv(r.kinds) ** Csv(r.pins)

GenerateKey(r) ==
    Field(r.country) ** Decimal[r.weight] ** Field(r.product) ** Field(r.envelope)
        ** Field(r.preference) ** Field(r.indemnity) ** Csv(r.kinds) ** Csv(r.pins)

\* What the resolver gives its cache for the constants.
AllKeys == {GenerateKey(r) : r \in Requests}

RequestKeys == [r \in Requests |-> GenerateKey(r)]

Resolved == [r \in Requests |-> Resolve(r)]

ResolvedPortos == {answer \in {Resolved[r] : r \in Requests} : IsPorto(answer)}

ResolvedRefusals == {answer \in {Resolved[r] : r \in Requests} : ~IsPorto(answer)}

ASSUME ResolverAssumption ==
    Requests \subseteq Request /\ KeyOf = RequestKeys /\ Answer = Resolved /\ Portos = ResolvedPortos
-----------------------------------------------------------------------------
(* Properties *)

\* No id of a service has a comma or a colon in it.  The code does not check it.
IdsArePlain == \A id \in Ids(Rows) \intersect Texts : PlainText(id)

PlainRequest(r) == \A t \in TextsOf(r) : PlainText(t)

\* Two answers to a request but for the order of its lists: the product, the
\* price, the services, the code to be bought and the profile of the mark.
SameButForOrder(answer, own) ==
    /\ IsPorto(answer) <=> IsPorto(own)
    /\ IsPorto(own) =>
          /\ answer.product = own.product
          /\ answer.amount = own.amount
          /\ ToSet(answer.kinds) = ToSet(own.kinds)
          /\ ToSet(answer.ids) = ToSet(own.ids)
          /\ answer.profile = own.profile
          /\ WireCode(answer) = WireCode(own)

\* Whoever asked first, and in whatever order, a request without a comma or a
\* colon in it gets its own answer, though others that have some share the cache
\* with it (cache.py:34-64, porto_resolver.py:182-188).  For the others it does not
\* hold: the pin "einschreiben,receipt", which no service has as its id, has the key
\* of the two pins, and is given their porto.
SameWhateverTheOrder ==
    \A got \in returned :
        PlainRequest(got.request) => SameButForOrder(got.answer, Answer[got.request])
=============================================================================
