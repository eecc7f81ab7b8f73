------------------------------ MODULE MCServices ------------------------------
(***************************************************************************)
(* Six services that share no state.  The first step chooses the one that  *)
(* the behaviour is about, so that the instances add up and do not         *)
(* multiply.                                                               *)
(***************************************************************************)
EXTENDS CatalogLoading, MarkContent, Datafactory, Tracking, Restrictions, Capabilities, TLC

VARIABLE subject   \* the service the behaviour is about

Subjects == {"loading", "content", "datafactory", "tracking", "restrictions", "capabilities"}
-----------------------------------------------------------------------------
(* Loading: the names of the files as the catalogs have them, tables with   *)
(* and without a cycle, in orders that do and do not suit the prices, with  *)
(* one file under two keys, and tables that name a file which is not        *)
(* mapped, or is not there.                                                 *)

File(path, base, within, type) == [path |-> path, base |-> base, within |-> within, type |-> type]

SixFiles ==
    <<File("policy/restrictions.json", "restrictions.json", "", "restrictions"),
      File("providers/p/zones.json", "zones.json", "zones.json", "zones"),
      File("providers/p/products.json", "products.json", "products.json", "products"),
      File("providers/p/prices/products.json", "products.json", "prices/products.json", "product_prices"),
      File("providers/p/prices/services.json", "services.json", "prices/services.json", "service_prices"),
      File("providers.json", "providers.json", "", "providers")>>

Needs(file, needs) == [file |-> file, needs |-> needs]

SixGraphs ==
    {<<Needs("prices/services.json", {"prices/products.json"}), Needs("prices/products.json", {"products.json"}),
       Needs("products.json", {"zones.json"}), Needs("zones.json", {}), Needs("restrictions.json", {}),
       Needs("zones.json", {"restrictions.json"})>>,
     <<Needs("zones.json", {}), Needs("prices/services.json", {"zones.json", "prices/products.json"}),
       Needs("products.json", {}), Needs("prices/products.json", {"products.json", "restrictions.json"})>>,
     <<Needs("prices/services.json", {}), Needs("prices/products.json", {})>>,
     <<Needs("prices/services.json", {"zones.json", "prices/products.json"}),
       Needs("prices/products.json", {"zones.json"}), Needs("restrictions.json", {"zones.json"}),
       Needs("zones.json", {"restrictions.json"})>>,
     <<Needs("graph.json", {}), Needs("extra.json", {"graph.json"}), Needs("zones.json", {"extra.json"})>>,
     <<Needs("zones.json", {}), Needs("ghost.json", {"zones.json"})>>}

RelaxedPaths ==
    <<"providers/p/zones.json", "providers/p/prices/products.json", "gone.json", "providers/p/prices/services.json">>
-----------------------------------------------------------------------------
(* The document of a mark *)

Reply(lost, status, body) == [lost |-> lost, status |-> status, body |-> body]

EightAnswers ==
    {Reply("no", 200, "pdf"), Reply("no", 200, "other"), Reply("no", 302, "other"), Reply("no", 404, "none"),
     Reply("no", 429, "none"), Reply("no", 503, "none"), Reply("timeout", 0, "none"), Reply("network", 0, "none")}
-----------------------------------------------------------------------------
(* Tracking *)

Scan(code, id, sequence, time) ==
    [code |-> code, id |-> id, sequence |-> sequence, time |-> time, place |-> time % 2]

Codes == [in |-> "transit", go |-> "transit", out |-> "delivered", odd |-> "none"]

ElevenRows ==
    {Scan("in", 1, 0, 1), Scan("out", 2, 0, 2), Scan("go", 3, 0, 3), Scan("in", 4, 0, 4), Scan("odd", 6, 0, 5),
     Scan("in", 0, 1, 1), Scan("in", 0, 0, 2), Scan("odd", 0, 0, 3), Scan("none", 0, 0, 2), Scan("out", 0, 0, 4),
     Scan("in", 0, 0, 0)}
-----------------------------------------------------------------------------
(* Restrictions: instruments that begin, end and never end. *)

Instrument(from, to) == [from |-> from, to |-> to]

Middle  == "EU" :> {Instrument(2, 3)}
Gap     == ("EU" :> {Instrument(0, 1), Instrument(3, 0)}) @@ ("CH" :> {Instrument(0, 2)})
Foreign == "UA" :> {Instrument(0, 0)}

Region(jurisdictions, partial) == [jurisdictions |-> jurisdictions, partial |-> partial]

Law(form, jurisdictions, regions) ==
    [form |-> form, jurisdictions |-> jurisdictions, regions |-> regions, stray |-> FALSE]

Laws ==
    {Law("country", Middle, <<>>), Law("country", Gap, <<>>), Law("country", Foreign, <<>>),
     Law("country", <<>>, <<>>), Law("country", "XX" :> {Instrument(0, 0)}, <<>>), Law("country", "EU" :> {}, <<>>),
     Law("regions", <<>>, ("r1" :> Region(Middle, "absent")) @@ ("r2" :> Region(Gap, "true"))),
     Law("regions", <<>>, ("r1" :> Region(Gap, "absent")) @@ ("r2" :> Region(Foreign, "absent"))),
     Law("regions", <<>>, "r2" :> Region(Gap, "other")), Law("regions", <<>>, <<>>),
     Law("regions", <<>>, "zz" :> Region(Middle, "absent")), Law("both", Middle, "r1" :> Region(Middle, "absent")),
     [Law("country", Middle, <<>>) EXCEPT !.stray = TRUE]}

Route(regions, stray) == [regions |-> regions, stray |-> stray]

Routes ==
    {Route(<<>>, FALSE), Route(<<>>, TRUE), Route("r1" :> [partial |-> "other"], FALSE),
     Route(("r1" :> [partial |-> "true"]) @@ ("r2" :> [partial |-> "absent"]), FALSE)}
-----------------------------------------------------------------------------
(* Capabilities *)

AllManifests ==
    [wire      : {"internetmarke", "other"},
     execution : {{}, {"mark"}, {"mark", "link"}},
     billing   : {{}, {"wallet"}}]
    \union {[wire |-> "none", execution |-> {}, billing |-> {}]}

AllWireLists == {<<>>, <<"internetmarke">>, <<"shipment">>, <<"shipment", "internetmarke">>, <<"other">>}
-----------------------------------------------------------------------------
servicesVars ==
    <<loadingVars, contentVars, datafactoryVars, trackingVars, restrictionsVars, capabilitiesVars>>

ServicesInit ==
    /\ subject = "none"
    /\ LoadingInit /\ ContentInit /\ DatafactoryInit
    /\ TrackingInit /\ RestrictionsInit /\ CapabilitiesInit

Choose == subject = "none" /\ subject' \in Subjects /\ UNCHANGED servicesVars

Loading ==
    /\ subject = "loading" /\ LoadingNext
    /\ UNCHANGED <<contentVars, datafactoryVars, trackingVars, restrictionsVars, capabilitiesVars>>

Content ==
    /\ subject = "content" /\ ContentNext
    /\ UNCHANGED <<loadingVars, datafactoryVars, trackingVars, restrictionsVars, capabilitiesVars>>

AddressCheck ==
    /\ subject = "datafactory" /\ DatafactoryNext
    /\ UNCHANGED <<loadingVars, contentVars, trackingVars, restrictionsVars, capabilitiesVars>>

Track ==
    /\ subject = "tracking" /\ TrackingNext
    /\ UNCHANGED <<loadingVars, contentVars, datafactoryVars, restrictionsVars, capabilitiesVars>>

Forbid ==
    /\ subject = "restrictions" /\ RestrictionsNext
    /\ UNCHANGED <<loadingVars, contentVars, datafactoryVars, trackingVars, capabilitiesVars>>

State ==
    /\ subject = "capabilities" /\ CapabilitiesNext
    /\ UNCHANGED <<loadingVars, contentVars, datafactoryVars, trackingVars, restrictionsVars>>

Serve == (Loading \/ Content \/ AddressCheck \/ Track \/ Forbid \/ State) /\ UNCHANGED subject

ServicesNext == Choose \/ Serve

ServicesSpec == ServicesInit /\ [][ServicesNext]_<<subject, servicesVars>>
=============================================================================
