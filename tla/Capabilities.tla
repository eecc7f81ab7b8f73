---------------------------- MODULE Capabilities ----------------------------
(***************************************************************************)
(* What a ProviderClient says it can do and what it then does.  Both rest  *)
(* on the execution manifest of the catalog, which is read again at each   *)
(* question, while the adapter is the one of the manifest as it was when   *)
(* the client was made.  capabilities() looks at the wire that is active   *)
(* among the configured ones; mark() and balance() select a wire from the  *)
(* manifest alone, or the one the caller pins.                             *)
(***************************************************************************)
EXTENDS Sequences, SequencesExt

CONSTANTS
    Manifests,   \* [wire, execution, billing]: the wire or "none", and what it can do
    WireLists,   \* the wires that may be configured, in order; <<>> for none
    Adapters     \* the wires that the SDK has an adapter for

VARIABLES
    manifest,    \* execution.json
    configured,  \* the wires of the client
    wired,       \* the wire of its adapter, and whether it is a real one
    stated,      \* what capabilities() has said of each operation, <<>> if it was not asked
    attempt      \* the last operation, its pin and its outcome, <<>> if there was none

capabilitiesVars == <<manifest, configured, wired, stated, attempt>>

Operations == {"mark", "wallet"}

NoAdapter == [wire |-> "none", real |-> FALSE]

\* The methods of a wire; only the wire of the manifest has any.
Methods(wire, operation) ==
    IF wire = "none" \/ wire # manifest.wire THEN {}
    ELSE IF operation = "mark" THEN manifest.execution
    ELSE manifest.billing

BugActiveWire == IF configured # <<>> THEN Head(configured) ELSE manifest.wire

\* resolve_active_wire_for: the wire of the manifest if it is configured, or
\* nothing is; the first that is configured otherwise.
ActiveWire ==
    IF configured = <<>> \/ manifest.wire \in ToSet(configured) THEN manifest.wire ELSE Head(configured)

\* supports_execution and supports_billing
Supports(operation) == operation \in Methods(ActiveWire, operation)

\* list_applicable_wires: one at most.
Applicable(operation) == IF operation \in Methods(manifest.wire, operation) THEN {manifest.wire} ELSE {}

\* select_wire
Selected(operation, pin) == {wire \in Applicable(operation) : pin \in {"none", wire}}

\* get_execution_adapter
AdapterFor(m) == [wire |-> m.wire, real |-> m.wire \in Adapters]

\* The wire that is selected has to be the adapter's; an adapter that stands for
\* a wire the SDK does not know refuses.
Conclusion(operation, pin) ==
    IF Selected(operation, pin) = {wired.wire} /\ wired.real THEN "done" ELSE "PORTO_CAPABILITY_UNSUPPORTED"
-----------------------------------------------------------------------------
CapabilitiesInit ==
    /\ manifest = [wire |-> "none", execution |-> {}, billing |-> {}]
    /\ configured = <<>>
    /\ wired = NoAdapter
    /\ stated = <<>>
    /\ attempt = <<>>

\* The catalog is upgraded; files are read afresh, clients live on.
UpgradeManifest(m) ==
    /\ manifest' = m
    /\ stated' = <<>>
    /\ attempt' = <<>>
    /\ UNCHANGED <<configured, wired>>

MakeClient(wires) ==
    /\ configured' = wires
    /\ wired' = AdapterFor(manifest)
    /\ stated' = <<>>
    /\ attempt' = <<>>
    /\ UNCHANGED manifest

StateCapabilities ==
    /\ stated' = [operation \in Operations |-> Supports(operation)]
    /\ UNCHANGED <<manifest, configured, wired, attempt>>

Try(operation, pin) ==
    /\ attempt' = [operation |-> operation, pin |-> pin, outcome |-> Conclusion(operation, pin)]
    /\ UNCHANGED <<manifest, configured, wired, stated>>

CapabilitiesNext ==
    \/ \E m \in Manifests : UpgradeManifest(m)
    \/ \E wires \in WireLists : MakeClient(wires)
    \/ StateCapabilities
    \/ \E operation \in Operations, pin \in {m.wire : m \in Manifests} \union {"none"} : Try(operation, pin)

CapabilitiesSpec == CapabilitiesInit /\ [][CapabilitiesNext]_capabilitiesVars
-----------------------------------------------------------------------------
(* Properties *)

\* A client whose adapter is one for the wire of the manifest does what it says it
\* can, without a pin or with the pin of that wire, and says of what it does that
\* it can, unless other wires only are configured (execution_registry.py:63-80,
\* 111-188, 195-215; wire_selection.py:9-45; porto_execution.py:171-191).
CapabilitiesAreHonest ==
    stated # <<>> /\ attempt # <<>> /\ wired.real /\ wired.wire = manifest.wire =>
        /\ stated[attempt.operation] /\ attempt.pin \in {"none", wired.wire} => attempt.outcome = "done"
        /\ attempt.outcome = "done" =>
              stated[attempt.operation] \/ (configured # <<>> /\ wired.wire \notin ToSet(configured))
=============================================================================
