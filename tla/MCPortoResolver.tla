--------------------------- MODULE MCPortoResolver ---------------------------
(* Requests whose keys differ in little, or not at all, and three that fail. *)
EXTENDS PortoResolver, MCCatalog

ASSUME CatalogIsUsual == ServicesAgree /\ IdsArePlain

Pinned == [Ask EXCEPT !.product = "letter", !.kinds = <<"registered", "return_receipt">>,
                      !.pins = <<"receipt", "einschreiben">>]

FewRequests ==
    {Pinned,
     [Pinned EXCEPT !.kinds = <<"return_receipt", "registered">>, !.pins = <<"einschreiben", "receipt">>],
     [Pinned EXCEPT !.pins = <<"einschreiben,receipt">>],
     [Pinned EXCEPT !.kinds = <<"registered">>, !.pins = <<"einwurf">>, !.envelope = ":"],
     [Ask EXCEPT !.country = "FR", !.kinds = <<"registered">>, !.indemnity = "R1"],
     [Ask EXCEPT !.country = "FR", !.kinds = <<"registered">>]}

\* A colon comes before the letters, a capital before a small one.
FewTexts ==
    <<":", "DE", "FR", "R1", "einschreiben", "einschreiben,receipt", "einwurf", "letter", "receipt",
      "registered", "return_receipt">>

FewPieces ==
    [t \in ToSet(FewTexts) |->
        IF t = "einschreiben,receipt" THEN <<"einschreiben", ",", "receipt">> ELSE <<t>>]

Digits == [weight \in {Ask.weight} |-> <<ToString(weight)>>]
=============================================================================
