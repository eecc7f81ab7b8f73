--------------------------- MODULE MCCatalog ---------------------------------
(***************************************************************************)
(* A small catalog with what the ones of the providers have: two rows of   *)
(* one kind at home and none abroad, products that include what no row     *)
(* offers, with two levels of indemnity, rows that do and do not combine,  *)
(* a product and a service without a price, and products that the weight,  *)
(* the envelope and the days tell apart.                                   *)
(***************************************************************************)
EXTENDS Resolution

CONSTANT Strategy

Letter == [tier |-> "light", envelopes |-> {"dl"}, indemnity |-> None, features |-> {},
           delivery |-> [home |-> <<2, 1>>, abroad |-> <<5, 3>>]]
Large  == [tier |-> None, envelopes |-> {"c4"}, indemnity |-> None, features |-> {}, delivery |-> [home |-> <<3, 3>>]]
Track  == [tier |-> None, envelopes |-> {}, indemnity |-> None, features |-> {"tracking"},
           delivery |-> [home |-> <<1, 1>>, abroad |-> <<4, 2>>]]
Safe   == [tier |-> "light", envelopes |-> {}, indemnity |-> "R1", features |-> {"recipient_signature", "tracking"},
           delivery |-> [abroad |-> <<9, 5>>]]
Safer  == [Safe EXCEPT !.indemnity = "R2"]

Registered == [id |-> "einschreiben", kind |-> "registered", zones |-> {"home"}, products |-> {"letter", "large"},
               combinable |-> {"receipt"}]
Dropped    == [Registered EXCEPT !.id = "einwurf", !.combinable = {}]
Receipt    == [id |-> "receipt", kind |-> "return_receipt", zones |-> {}, products |-> {"letter", "safe", "large"},
               combinable |-> None]
Insured    == [id |-> "insured", kind |-> "insurance", zones |-> {}, products |-> {}, combinable |-> {}]

SmallCatalog ==
    [zoneOf   |-> [DE |-> "home", FR |-> "abroad"],
     tiers    |-> [light |-> 20, heavy |-> 100, bulk |-> 500],
     links    |-> <<[product |-> "letter", zones |-> {"home", "abroad"}, tiers |-> {"light"}],
                    [product |-> "large", zones |-> {"home"}, tiers |-> {"light", "heavy"}],
                    [product |-> "track", zones |-> {"home", "abroad"}, tiers |-> {"light", "heavy"}],
                    [product |-> "safe", zones |-> {"abroad"}, tiers |-> {"light"}],
                    [product |-> "safer", zones |-> {"abroad"}, tiers |-> {"light"}]>>,
     products |-> [letter |-> Letter, large |-> Large, track |-> Track, safe |-> Safe, safer |-> Safer],
     prices   |-> [place \in {<<"letter", "home", "light">>, <<"letter", "abroad", "light">>,
                              <<"large", "home", "light">>, <<"large", "home", "heavy">>,
                              <<"track", "home", "light">>, <<"track", "abroad", "light">>,
                              <<"safe", "abroad", "light">>, <<"safer", "abroad", "light">>} |->
                      CASE place[1] = "letter" -> 95
                        [] place[1] = "large"  -> 180
                        [] place[1] = "track"  -> 300
                        [] place[1] = "safe"   -> 400
                        [] place[1] = "safer"  -> 500],
     services |-> <<Registered, Dropped, Receipt, Insured>>,
     servicePrices |-> [row \in {<<"einschreiben", "home">>, <<"einwurf", "home">>, <<"receipt", "home">>,
                                 <<"receipt", "abroad">>, <<"insured", "home">>} |->
                          IF row[1] = "receipt" THEN 220 ELSE 265],
     strategy |-> Strategy,
     codes    |-> [edge \in {<<"letter", "home">>, <<"letter", "abroad">>, <<"large", "home">>, <<"safe", "abroad">>} |->
                      [base |-> edge[1], services |-> [einschreiben |-> "R", einwurf |-> "E"]]],
     profiles |-> [home   |-> [profile |-> "plain", services |-> [einschreiben |-> "barcode"]],
                   abroad |-> [profile |-> "plain", services |-> [none |-> "plain"]]]]

Ask == [country |-> "DE", weight |-> 20, product |-> None, envelope |-> None, preference |-> None,
        indemnity |-> None, kinds |-> <<>>, pins |-> <<>>]
=============================================================================
