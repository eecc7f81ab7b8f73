--------------------------- MODULE MCConfigStore ---------------------------
(* Instances of ConfigStore for model checking. *)
EXTENDS ConfigStore, TLC

CONSTANTS dp, sp, p1, p2, internetmarke, webstamp

\* The default wires of the CLI's registry; each provider can be given the
\* other one with --wire.
RegistryWire == (dp :> internetmarke) @@ (sp :> webstamp)

\* One wire each is enough to mix providers up.
OneWire == (dp :> internetmarke) @@ (sp :> internetmarke)

Symmetry == Permutations(Procs)
=============================================================================
