---------------------------- MODULE ConfigStore ----------------------------
(***************************************************************************)
(* ~/.porto/config.json and the CLI processes that read and write it.  A   *)
(* command resolves its provider from the file (bootstrap), reads the file *)
(* again, changes its copy and writes the whole copy back: write_text      *)
(* truncates the file when it opens it and fills it when it closes it.     *)
(* There is no lock and no temporary file, so another process can run, and *)
(* this one can die, between any two of these steps.                       *)
(***************************************************************************)
CONSTANTS
    Procs,             \* CLI processes, each one command after the other
    Providers,
    DefaultProvider,   \* DEFAULT_PROVIDER
    Wires,
    DefaultWire,       \* get_default_wire of each provider
    Payloads,          \* what a login stores: base_url and credentials
    Bare,              \* an entry of a file edited by hand, without credentials
    None,              \* an absent option, entry or default_provider
    Missing,           \* there is no file
    Blank,             \* the file after a truncation: invalid JSON
    Garbled,           \* what two writers leave: invalid JSON
    Overlap,           \* may processes run at the same time?
    Crashes            \* may processes die?

Slots == Providers \X Wires
Entries == Payloads \union {Bare, None}
Configs == [default : Providers \union {None}, wires : [Slots -> Entries]]

ASSUME DefaultsAssumption ==
    /\ DefaultProvider \in Providers
    /\ DefaultWire \in [Providers -> Wires]

ASSUME NamesAssumption ==
    /\ None \notin Providers \union Payloads \union {Bare}
    /\ {Missing, Blank, Garbled} \cap Configs = {}

VARIABLES
    file,    \* the contents of config.json
    pc,      \* where each process is
    cmd,     \* the command each process runs
    bound,   \* the provider bootstrap resolved
    copy,    \* the configuration a process is about to write
    left,    \* the wires `config check' has yet to look up
    report,  \* what the last command that ended printed
    logins   \* history: the <<slot, payload>> pairs of all logins

vars == <<file, pc, cmd, bound, copy, left, report, logins>>
-----------------------------------------------------------------------------
NoWires == [s \in Slots |-> None]
EmptyConfig == [default |-> None, wires |-> NoWires]

\* _read_file_config: a missing and an unreadable file both read as {}.
FileRead == IF file \in {Missing, Blank, Garbled} THEN EmptyConfig ELSE file

\* _to_canonical: `default_provider' is filled in.
Canonical(raw) ==
    [raw EXCEPT !.default = IF raw.default = None THEN DefaultProvider ELSE raw.default]

\* _resolve_provider: explicit, then file, then environment, then default.
ResolveProvider(config, env, override) ==
    CASE override # None -> override
      [] override = None /\ config.default # None -> config.default
      [] override = None /\ config.default = None /\ env # None -> env
      [] OTHER -> DefaultProvider

Stored(config, p) == {w \in Wires : config.wires[<<p, w>>] # None}

HasCredentials(entry) == entry \notin {None, Bare}

Options == Providers \union {None}

\* The commands that run for more than one step.
Commands ==
    [kind : {"login"}, wire : Wires \union {None}, payload : Payloads]
    \union [kind : {"logout", "check", "status"}]
    \union [kind : {"init"}, force : BOOLEAN]

NoCommand == [kind |-> "none"]
NoReport == [kind |-> "none"]

\* The process is over; the next command is a new process.
Exit(p) ==
    /\ pc' = [pc EXCEPT ![p] = "idle"]
    /\ cmd' = [cmd EXCEPT ![p] = NoCommand]
    /\ bound' = [bound EXCEPT ![p] = None]
    /\ copy' = [copy EXCEPT ![p] = EmptyConfig]
    /\ left' = [left EXCEPT ![p] = {}]

Init ==
    /\ file \in {Missing} \union [default : Providers \union {None}, wires : [Slots -> {Bare, None}]]
    /\ pc = [p \in Procs |-> "idle"]
    /\ cmd = [p \in Procs |-> NoCommand]
    /\ bound = [p \in Procs |-> None]
    /\ copy = [p \in Procs |-> EmptyConfig]
    /\ left = [p \in Procs |-> {}]
    /\ report = NoReport
    /\ logins = {}

MayStart(p) == pc[p] = "idle" /\ (Overlap \/ \A q \in Procs : pc[q] = "idle")

\* bootstrap, or load_porto_config for `config check': the first read.
Bootstrap(p) ==
    /\ MayStart(p)
    /\ \E k \in Commands : k.kind # "init" /\ cmd' = [cmd EXCEPT ![p] = k]
    /\ \E env, override \in Options :
          bound' = [bound EXCEPT ![p] = ResolveProvider(Canonical(FileRead), env, override)]
    /\ pc' = [pc EXCEPT ![p] = "bound"]
    /\ report' = NoReport
    /\ UNCHANGED <<file, copy, left, logins>>

\* bound_cli_provider, for resolve, price, mark and track: provider and wires
\* of one read.
Load(p) ==
    /\ MayStart(p)
    /\ \E env, override \in Options :
          LET provider == ResolveProvider(Canonical(FileRead), env, override)
          IN  report' = [kind |-> "use", provider |-> provider,
                         wires |-> [w \in Wires |-> FileRead.wires[<<provider, w>>]],
                         env |-> env, override |-> override, default |-> FileRead.default]
    /\ UNCHANGED <<file, pc, cmd, bound, copy, left, logins>>

SlotOf(p) ==
    <<bound[p], IF cmd[p].kind = "login" /\ cmd[p].wire # None THEN cmd[p].wire
                ELSE DefaultWire[bound[p]]>>

BugLoginRead(p) ==
    /\ pc[p] = "bound"
    /\ cmd[p].kind = "login"
    /\ copy' = [copy EXCEPT ![p] =
                   [Canonical(FileRead) EXCEPT !.wires[<<DefaultProvider, SlotOf(p)[2]>>] = cmd[p].payload]]
    /\ pc' = [pc EXCEPT ![p] = "changed"]
    /\ logins' = logins \union {<<SlotOf(p), cmd[p].payload>>}
    /\ UNCHANGED <<file, cmd, bound, left, report>>

BugForgetOthers(p) ==
    /\ pc[p] = "bound"
    /\ cmd[p].kind = "login"
    /\ copy' = [copy EXCEPT ![p] =
                   [Canonical(FileRead) EXCEPT !.wires = [NoWires EXCEPT ![SlotOf(p)] = cmd[p].payload]]]
    /\ pc' = [pc EXCEPT ![p] = "changed"]
    /\ logins' = logins \union {<<SlotOf(p), cmd[p].payload>>}
    /\ UNCHANGED <<file, cmd, bound, left, report>>

\* save_provider_wire: the second read.
LoginRead(p) ==
    /\ pc[p] = "bound"
    /\ cmd[p].kind = "login"
    /\ copy' = [copy EXCEPT ![p] =
                   [Canonical(FileRead) EXCEPT !.wires[SlotOf(p)] = cmd[p].payload]]
    /\ pc' = [pc EXCEPT ![p] = "changed"]
    /\ logins' = logins \union {<<SlotOf(p), cmd[p].payload>>}
    /\ UNCHANGED <<file, cmd, bound, left, report>>

\* cmd_auth_logout: there is no --wire option, the default wire is cleared.
LogoutRead(p) ==
    /\ pc[p] = "bound"
    /\ cmd[p].kind = "logout"
    /\ FileRead.wires[SlotOf(p)] # None
    /\ copy' = [copy EXCEPT ![p] = [Canonical(FileRead) EXCEPT !.wires[SlotOf(p)] = None]]
    /\ pc' = [pc EXCEPT ![p] = "changed"]
    /\ UNCHANGED <<file, cmd, bound, left, report, logins>>

\* No file, or nothing stored: nothing is written.
LogoutNothing(p) ==
    /\ pc[p] = "bound"
    /\ cmd[p].kind = "logout"
    /\ FileRead.wires[SlotOf(p)] = None
    /\ report' = [kind |-> "logout", provider |-> bound[p], done |-> FALSE]
    /\ Exit(p)
    /\ UNCHANGED <<file, logins>>

\* cmd_auth_status: the second read.
Status(p) ==
    /\ pc[p] = "bound"
    /\ cmd[p].kind = "status"
    /\ report' = [kind |-> "status", provider |-> bound[p],
                  auth |-> HasCredentials(FileRead.wires[SlotOf(p)])]
    /\ Exit(p)
    /\ UNCHANGED <<file, logins>>

\* get_config_check_summary: list_provider_wire_ids, then one read per wire.
CheckList(p) ==
    /\ pc[p] = "bound"
    /\ cmd[p].kind = "check"
    /\ left' = [left EXCEPT ![p] = Stored(FileRead, bound[p])]
    /\ pc' = [pc EXCEPT ![p] = "checking"]
    /\ UNCHANGED <<file, cmd, bound, copy, report, logins>>

CheckWire(p) ==
    /\ pc[p] = "checking"
    /\ \E w \in left[p] :
          LET entry == FileRead.wires[<<bound[p], w>>]
          IN  \/ /\ HasCredentials(entry)
                 /\ report' = [kind |-> "check", provider |-> bound[p], auth |-> TRUE]
                 /\ Exit(p)
              \/ /\ ~HasCredentials(entry)
                 /\ left' = [left EXCEPT ![p] = @ \ {w}]
                 /\ UNCHANGED <<pc, cmd, bound, copy, report>>
    /\ UNCHANGED <<file, logins>>

BugCheckDone(p) ==
    /\ pc[p] = "checking"
    /\ report' = [kind |-> "check", provider |-> bound[p], auth |-> FALSE]
    /\ Exit(p)
    /\ UNCHANGED <<file, logins>>

CheckDone(p) ==
    /\ pc[p] = "checking"
    /\ left[p] = {}
    /\ report' = [kind |-> "check", provider |-> bound[p], auth |-> FALSE]
    /\ Exit(p)
    /\ UNCHANGED <<file, logins>>

\* init_config: without --force an existing file is left alone.
InitRefused(p) ==
    /\ MayStart(p)
    /\ file # Missing
    /\ report' = [kind |-> "init", created |-> FALSE]
    /\ UNCHANGED <<file, pc, cmd, bound, copy, left, logins>>

InitStart(p) ==
    /\ MayStart(p)
    /\ \E force \in BOOLEAN :
          /\ file = Missing \/ force
          /\ cmd' = [cmd EXCEPT ![p] = [kind |-> "init", force |-> force]]
    /\ copy' = [copy EXCEPT ![p] = Canonical(EmptyConfig)]
    /\ pc' = [pc EXCEPT ![p] = "changed"]
    /\ report' = NoReport
    /\ UNCHANGED <<file, bound, left, logins>>

\* open(..., "w")
Truncate(p) ==
    /\ pc[p] = "changed"
    /\ file' = Blank
    /\ pc' = [pc EXCEPT ![p] = "truncated"]
    /\ UNCHANGED <<cmd, bound, copy, left, report, logins>>

\* What another process wrote since our truncation is overwritten from the
\* start; if it was longer its tail stays behind.
Filled(p) ==
    IF file \in {Missing, Blank, copy[p]} THEN {copy[p]} ELSE {copy[p], Garbled}

BugOutcome(p) ==
    CASE cmd[p].kind = "logout" -> [kind |-> "logout", provider |-> bound[p], done |-> TRUE]
      [] cmd[p].kind = "login" -> [kind |-> "login", provider |-> cmd[p].wire]
      [] OTHER -> [kind |-> "init", created |-> TRUE]

Outcome(p) ==
    CASE cmd[p].kind = "logout" -> [kind |-> "logout", provider |-> bound[p], done |-> TRUE]
      [] cmd[p].kind = "login" -> [kind |-> "login", provider |-> bound[p]]
      [] OTHER -> [kind |-> "init", created |-> TRUE]

\* The text is flushed and the command is over.
Fill(p) ==
    /\ pc[p] = "truncated"
    /\ file' \in Filled(p)
    /\ report' = Outcome(p)
    /\ Exit(p)
    /\ UNCHANGED logins

Crash(p) ==
    /\ Crashes
    /\ pc[p] # "idle"
    /\ Exit(p)
    /\ UNCHANGED <<file, report, logins>>

Next ==
    \E p \in Procs :
        \/ Load(p)
        \/ Bootstrap(p)
        \/ LoginRead(p)
        \/ LogoutRead(p)
        \/ LogoutNothing(p)
        \/ Status(p)
        \/ CheckList(p)
        \/ CheckWire(p)
        \/ CheckDone(p)
        \/ InitRefused(p)
        \/ InitStart(p)
        \/ Truncate(p)
        \/ Fill(p)
        \/ Crash(p)

Spec == Init /\ [][Next]_vars
-----------------------------------------------------------------------------
(* Properties *)

Reports ==
    {NoReport}
    \union [kind : {"use"}, provider : Providers, wires : [Wires -> Entries],
            env : Options, override : Options, default : Options]
    \union [kind : {"logout"}, provider : Providers, done : BOOLEAN]
    \union [kind : {"check", "status"}, provider : Providers, auth : BOOLEAN]
    \union [kind : {"login"}, provider : Providers]
    \union [kind : {"init"}, created : BOOLEAN]

\* The file is a configuration or unreadable; so is every process's copy.
TypeOK ==
    /\ file \in {Missing, Blank, Garbled} \union Configs
    /\ pc \in [Procs -> {"idle", "bound", "checking", "changed", "truncated"}]
    /\ cmd \in [Procs -> Commands \union {NoCommand}]
    /\ bound \in [Procs -> Options]
    /\ copy \in [Procs -> Configs]
    /\ left \in [Procs -> SUBSET Wires]
    /\ report \in Reports
    /\ logins \subseteq Slots \X Payloads

FromLogin(wires) ==
    \A s \in Slots : HasCredentials(wires[s]) => <<s, wires[s]>> \in logins

\* Credentials under a provider and wire, in the file, in a copy about to be
\* written or in what a command goes on to use, are those of a login for that
\* very provider and wire - whatever processes overlap or die
\* (_config_store.py:58-81, 137-179).
NothingInvented ==
    /\ FromLogin(FileRead.wires)
    /\ \A p \in Procs : FromLogin(copy[p].wires)
    /\ report.kind = "use" =>
         \A w \in Wires :
            HasCredentials(report.wires[w]) =>
               <<<<report.provider, w>>, report.wires[w]>> \in logins
    /\ report.kind \in {"check", "status"} /\ report.auth =>
         \E l \in logins : l[1][1] = report.provider

\* A check that runs alone reports credentials exactly when the file holds
\* some, although it reads the file once per wire (_config_store.py:192-216).
CheckIsTrue ==
    [][\A p \in Procs :
         pc[p] = "checking" /\ report' # report =>
            (report'.auth <=>
               \E w \in Wires : HasCredentials(FileRead.wires[<<bound[p], w>>]))]_vars

\* `auth logout' is "Remove stored credentials for provider" (_runner.py:115):
\* once it has said so, the provider has none.  The code breaks it: login takes
\* any --wire, logout clears the default wire only (_commands.py:170).
LogoutRemoves ==
    [][report' # report /\ report'.kind = "logout" /\ report'.done =>
          \A w \in Wires : ~HasCredentials(FileRead'.wires[<<report'.provider, w>>])]_vars

\* "Merge order: explicit > file > env > SDK default" (_config_store.py:4): a
\* file that names no provider leaves the choice to PORTO_PROVIDER.  The code
\* breaks it: _to_canonical names the default first (_config_store.py:38).
EnvBeforeDefault ==
    /\ report.kind = "use" /\ report.override = None
    /\ report.default = None /\ report.env # None
    => report.provider = report.env

\* Commands that do not overlap implement CredentialStore, even if they die:
\* a write happens when the file is truncated, and dying before it is filled
\* loses the whole store.
Writing == {p \in Procs : pc[p] = "truncated"}

C == INSTANCE CredentialStore
     WITH Held <- Entries,
          LogoutSlots <- {<<p, DefaultWire[p]>> : p \in Providers},
          store <- IF Writing # {} THEN copy[CHOOSE p \in Writing : TRUE].wires
                   ELSE FileRead.wires

StoreKept == C!Spec
=============================================================================
