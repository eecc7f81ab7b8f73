-------------------------- MODULE MCUncachedResolver --------------------------
(* Every step of the pipeline with every answer it can give, and every question
   about products and prices. *)
EXTENDS ProductOptions, MCCatalog

ASSUME CatalogIsUsual == OwnTierReaches /\ IdsAreNoKinds

AllEnvelopes == {None, "dl", "c4", "b4"}

AllRequests ==
    [country    : {"DE", "FR", "XX"},
     weight     : {20, 21, 500, 501},
     product    : {None, "letter", "track", "ghost"},
     envelope   : {None, "c4"},
     preference : {None, "cheapest", "fastest", "economy"},
     indemnity  : {None, "R1"},
     kinds      : {<<>>, <<"registered">>, <<"registered", "return_receipt">>, <<"return_receipt", "registered">>,
                   <<"insurance">>, <<"registered", "insurance">>, <<"tracking">>,
                   <<"tracking", "registered", "tracking">>, <<"thickness">>},
     pins       : {<<>>, <<"einschreiben">>, <<"einschreiben", "receipt">>, <<"einwurf", "einwurf">>,
                   <<"registered">>, <<"ghost">>}]

\* Bound: one question, whose answer depends on no other.
OneNext ==
    /\ answered = {} /\ told = {}
    /\ \/ UncachedNext /\ UNCHANGED told
       \/ OptionsNext /\ UNCHANGED answered

OneInit == UncachedInit /\ OptionsInit

OneSpec == OneInit /\ [][OneNext]_<<answered, told>>
=============================================================================
