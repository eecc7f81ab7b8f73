-------------------------- MODULE MCInternetmarke --------------------------
(* Instances of Internetmarke for model checking. *)
EXTENDS Internetmarke, TLC

CONSTANTS c1, c2, c3, k1

\* Two calls for the same purchase: a retry of the caller, or a double click.
BothKeyed == (c1 :> k1) @@ (c2 :> k1)
OneKeyed == (c1 :> NoKey) @@ (c2 :> k1)
LastTwoKeyed == (c1 :> NoKey) @@ (c2 :> k1) @@ (c3 :> k1)

SameTotal == (c1 :> 2) @@ (c2 :> 2)
ThreeTotals == (c1 :> 1) @@ (c2 :> 2) @@ (c3 :> 2)
TwoTotals == (c1 :> 1) @@ (c2 :> 2)

TwoAttempts == (c1 :> 2) @@ (c2 :> 2)
NoneToTwoAttempts == (c1 :> 1) @@ (c2 :> 0) @@ (c3 :> 2)

\* One failure of each class the code tells apart.
AllFailures == {<<503, NoVendorCode>>, <<503, {"AUTH"}>>, <<429, NoVendorCode>>,
                <<400, {"PRODUCT"}>>, <<400, {"TIMEOUT"}>>}
TwoFailures == {<<503, NoVendorCode>>, <<429, NoVendorCode>>}
=============================================================================
