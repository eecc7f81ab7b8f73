------------------------- MODULE ConfigStoreProofs -------------------------
(***************************************************************************)
(* The safety of the CLI's configuration file, for any number of           *)
(* processes that overlap and die, providers, wires and credentials; and,  *)
(* when they do not overlap, that it implements CredentialStore.           *)
(***************************************************************************)
EXTENDS ConfigStore, TLAPS

(***************************************************************************)
(* What a process reads is a configuration, and none of the unreadable     *)
(* files is one.                                                           *)
(***************************************************************************)
LEMMA ReadType ==
    ASSUME TypeOK
    PROVE  FileRead \in Configs /\ Canonical(FileRead) \in Configs
                                /\ Canonical(FileRead).wires = FileRead.wires
  <1>1. FileRead \in Configs
    BY DEF TypeOK, FileRead, EmptyConfig, NoWires, Configs, Entries
  <1> QED BY <1>1, DefaultsAssumption DEF Canonical, Configs

LEMMA ResolveType ==
    ASSUME TypeOK, NEW env \in Options, NEW override \in Options
    PROVE  ResolveProvider(Canonical(FileRead), env, override) \in Providers
  BY ReadType, DefaultsAssumption DEF ResolveProvider, Options, Configs

LEMMA EmptyType == EmptyConfig \in Configs /\ Canonical(EmptyConfig) \in Configs
  BY DefaultsAssumption DEF EmptyConfig, NoWires, Configs, Entries, Canonical

(***************************************************************************)
(* A process inside a command has resolved its provider, except in init.   *)
(***************************************************************************)
BoundInv ==
    \A p \in Procs :
        /\ pc[p] \in {"bound", "checking"} => bound[p] \in Providers
        /\ pc[p] \in {"changed", "truncated"} =>
              cmd[p].kind = "init" \/ bound[p] \in Providers
        /\ pc[p] = "bound" => cmd[p].kind # "init"

LEMMA ExitType ==
    ASSUME TypeOK, BoundInv, NEW p \in Procs, Exit(p)
    PROVE  /\ pc' \in [Procs -> {"idle", "bound", "checking", "changed", "truncated"}]
           /\ cmd' \in [Procs -> Commands \union {NoCommand}]
           /\ bound' \in [Procs -> Options]
           /\ copy' \in [Procs -> Configs]
           /\ left' \in [Procs -> SUBSET Wires]
           /\ BoundInv'
  BY EmptyType DEF TypeOK, BoundInv, Exit, Options

LEMMA InitType == Init => TypeOK /\ BoundInv
  BY EmptyType DEF Init, TypeOK, BoundInv, Configs, Entries, Options, Reports

LEMMA SlotType ==
    ASSUME TypeOK, BoundInv, NEW p \in Procs, pc[p] = "bound"
    PROVE  SlotOf(p) \in Slots
  BY DefaultsAssumption DEF TypeOK, BoundInv, SlotOf, Slots, Commands, NoCommand

(***************************************************************************)
(* Types are preserved.                                                    *)
(***************************************************************************)
LEMMA TypeStep ==
    ASSUME TypeOK, BoundInv, [Next]_vars
    PROVE  TypeOK' /\ BoundInv'
  <1> USE DEF TypeOK, BoundInv
  <1>1. ASSUME NEW p \in Procs, Load(p)
        PROVE  TypeOK' /\ BoundInv'
    <2>1. PICK env \in Options, override \in Options :
             LET provider == ResolveProvider(Canonical(FileRead), env, override)
             IN  report' = [kind |-> "use", provider |-> provider,
                            wires |-> [w \in Wires |-> FileRead.wires[<<provider, w>>]],
                            env |-> env, override |-> override, default |-> FileRead.default]
      BY <1>1 DEF Load
    <2> DEFINE provider == ResolveProvider(Canonical(FileRead), env, override)
    <2>2. provider \in Providers
      BY ResolveType
    <2>3. [w \in Wires |-> FileRead.wires[<<provider, w>>]] \in [Wires -> Entries]
      BY <2>2, ReadType DEF Configs, Slots
    <2>4. FileRead.default \in Options
      BY ReadType DEF Configs, Options
    <2>5. report' \in Reports
      BY <2>1, <2>2, <2>3, <2>4 DEF Reports
    <2> QED BY <1>1, <2>5 DEF Load
  <1>2. ASSUME NEW p \in Procs, Bootstrap(p)
        PROVE  TypeOK' /\ BoundInv'
    <2>1. PICK k \in Commands : k.kind # "init" /\ cmd' = [cmd EXCEPT ![p] = k]
      BY <1>2 DEF Bootstrap
    <2>2. PICK x \in Providers : bound' = [bound EXCEPT ![p] = x]
      BY <1>2, ResolveType DEF Bootstrap
    <2> QED BY <1>2, <2>1, <2>2 DEF Bootstrap, Reports, Options
  <1>3. ASSUME NEW p \in Procs, LoginRead(p)
        PROVE  TypeOK' /\ BoundInv'
    <2>1. SlotOf(p) \in Slots /\ cmd[p].payload \in Payloads
      BY <1>3, SlotType DEF LoginRead, Commands, NoCommand
    <2>2. [Canonical(FileRead) EXCEPT !.wires[SlotOf(p)] = cmd[p].payload] \in Configs
      BY <2>1, ReadType DEF Configs, Entries
    <2> QED BY <1>3, <2>1, <2>2 DEF LoginRead
  <1>4. ASSUME NEW p \in Procs, LogoutRead(p)
        PROVE  TypeOK' /\ BoundInv'
    <2>1. [Canonical(FileRead) EXCEPT !.wires[SlotOf(p)] = None] \in Configs
      BY ReadType DEF Configs, Entries
    <2> QED BY <1>4, <2>1 DEF LogoutRead
  <1>5. ASSUME NEW p \in Procs, LogoutNothing(p) \/ Status(p) \/ CheckDone(p)
        PROVE  TypeOK' /\ BoundInv'
    <2>1. bound[p] \in Providers
      BY <1>5 DEF LogoutNothing, Status, CheckDone
    <2>2. report' \in Reports
      <3>1. CASE LogoutNothing(p)
        BY <2>1, <3>1 DEF LogoutNothing, Reports
      <3>2. CASE CheckDone(p)
        BY <2>1, <3>2 DEF CheckDone, Reports
      <3>3. CASE Status(p)
        BY <2>1, <3>3 DEF Status, Reports, HasCredentials
      <3> QED BY <1>5, <3>1, <3>2, <3>3
    <2> QED BY <1>5, <2>2, ExitType DEF LogoutNothing, Status, CheckDone
  <1>6. ASSUME NEW p \in Procs, CheckList(p)
        PROVE  TypeOK' /\ BoundInv'
    BY <1>6 DEF CheckList, Stored
  <1>7. ASSUME NEW p \in Procs, CheckWire(p)
        PROVE  TypeOK' /\ BoundInv'
    <2>1. PICK w \in left[p] :
            \/ /\ report' = [kind |-> "check", provider |-> bound[p], auth |-> TRUE]
               /\ Exit(p)
            \/ /\ left' = [left EXCEPT ![p] = @ \ {w}]
               /\ UNCHANGED <<pc, cmd, bound, copy, report>>
      BY <1>7 DEF CheckWire
    <2>2. CASE Exit(p) /\ report' = [kind |-> "check", provider |-> bound[p], auth |-> TRUE]
      <3>1. report' \in Reports
        BY <1>7, <2>2 DEF CheckWire, Reports
      <3> QED BY <1>7, <2>2, <3>1, ExitType DEF CheckWire
    <2>3. CASE /\ left' = [left EXCEPT ![p] = @ \ {w}]
               /\ UNCHANGED <<pc, cmd, bound, copy, report>>
      BY <1>7, <2>3 DEF CheckWire
    <2> QED BY <2>1, <2>2, <2>3
  <1>8. ASSUME NEW p \in Procs, InitRefused(p)
        PROVE  TypeOK' /\ BoundInv'
    BY <1>8 DEF InitRefused, Reports
  <1>9. ASSUME NEW p \in Procs, InitStart(p)
        PROVE  TypeOK' /\ BoundInv'
    BY <1>9, EmptyType DEF InitStart, Reports, Commands
  <1>10. ASSUME NEW p \in Procs, Truncate(p)
         PROVE  TypeOK' /\ BoundInv'
    BY <1>10 DEF Truncate
  <1>11. ASSUME NEW p \in Procs, Fill(p)
         PROVE  TypeOK' /\ BoundInv'
    <2>1. file' \in {copy[p], Garbled}
      BY <1>11 DEF Fill, Filled
    <2>2. Outcome(p) \in Reports
      BY <1>11 DEF Fill, Outcome, Reports, Commands, NoCommand
    <2> QED BY <1>11, <2>1, <2>2, ExitType DEF Fill
  <1>12. ASSUME NEW p \in Procs, Crash(p)
         PROVE  TypeOK' /\ BoundInv'
    BY <1>12, ExitType DEF Crash
  <1>13. CASE UNCHANGED vars
    BY <1>13 DEF vars
  <1> QED
    BY <1>1, <1>2, <1>3, <1>4, <1>5, <1>6, <1>7, <1>8, <1>9, <1>10, <1>11, <1>12, <1>13 DEF Next

(***************************************************************************)
(* Every reachable file, copy and report has its type: what a process      *)
(* writes back is a whole configuration (_config_store.py:137-226).        *)
(***************************************************************************)
THEOREM StoreTypeCorrect == Spec => []TypeOK
  <1>1. TypeOK /\ BoundInv /\ [Next]_vars => (TypeOK /\ BoundInv)'
    BY TypeStep
  <1> QED BY InitType, <1>1, PTL DEF Spec

(***************************************************************************)
(* What is stored comes from a login.                                      *)
(***************************************************************************)
LEMMA NothingInventedInit == Init => NothingInvented
  BY EmptyType, NamesAssumption
     DEF Init, NothingInvented, FromLogin, FileRead, EmptyConfig, NoWires, HasCredentials, NoReport

LEMMA FromLoginEmpty == FromLogin(EmptyConfig.wires)
  BY DEF FromLogin, EmptyConfig, NoWires, HasCredentials

(***************************************************************************)
(* A process that ends forgets its copy.                                   *)
(***************************************************************************)
LEMMA ExitKeeps ==
    ASSUME TypeOK, NothingInvented, NEW p \in Procs, Exit(p), logins' = logins
    PROVE  \A q \in Procs : FromLogin(copy'[q].wires)
  <1> TAKE q \in Procs
  <1>1. copy'[q] \in {EmptyConfig, copy[q]}
    BY DEF TypeOK, Exit
  <1> QED BY <1>1, FromLoginEmpty DEF NothingInvented

LEMMA NothingInventedStep ==
    ASSUME TypeOK, BoundInv, NothingInvented, [Next]_vars
    PROVE  NothingInvented'
  <1> USE DEF TypeOK, NothingInvented
  <1>1. ASSUME NEW p \in Procs, Load(p)
        PROVE  NothingInvented'
    <2>1. PICK env \in Options, override \in Options :
             LET provider == ResolveProvider(Canonical(FileRead), env, override)
             IN  report' = [kind |-> "use", provider |-> provider,
                            wires |-> [w \in Wires |-> FileRead.wires[<<provider, w>>]],
                            env |-> env, override |-> override, default |-> FileRead.default]
      BY <1>1 DEF Load
    <2> DEFINE provider == ResolveProvider(Canonical(FileRead), env, override)
    <2>2. \A w \in Wires : <<provider, w>> \in Slots
      BY ResolveType DEF Slots
    <2>3. /\ report'.kind = "use"
          /\ report'.provider = provider
          /\ \A w \in Wires : report'.wires[w] = FileRead.wires[<<provider, w>>]
      BY <2>1
    <2> HIDE DEF provider
    <2>4. \A w \in Wires : HasCredentials(report'.wires[w]) =>
             <<<<report'.provider, w>>, report'.wires[w]>> \in logins
      BY <2>2, <2>3 DEF FromLogin
    <2> QED BY <1>1, <2>3, <2>4 DEF Load, FileRead, FromLogin
  <1>2. ASSUME NEW p \in Procs,
               Bootstrap(p) \/ CheckList(p) \/ InitRefused(p)
        PROVE  NothingInvented'
    BY <1>2 DEF Bootstrap, CheckList, InitRefused, FileRead, FromLogin, NoReport
  <1>3. ASSUME NEW p \in Procs, LoginRead(p)
        PROVE  NothingInvented'
    <2> DEFINE s == SlotOf(p)
               c == [Canonical(FileRead) EXCEPT !.wires[s] = cmd[p].payload]
    <2>1. s \in Slots
      BY <1>3, SlotType DEF LoginRead
    <2>2. /\ copy' = [copy EXCEPT ![p] = c]
          /\ logins' = logins \union {<<s, cmd[p].payload>>}
          /\ UNCHANGED <<file, report>>
      BY <1>3 DEF LoginRead
    <2>3. c.wires = [FileRead.wires EXCEPT ![s] = cmd[p].payload]
      BY ReadType DEF Configs
    <2>4. \A t \in Slots : HasCredentials(c.wires[t]) => <<t, c.wires[t]>> \in logins'
      <3> TAKE t \in Slots
      <3>1. CASE t = s
        BY <2>1, <2>2, <2>3, <3>1, ReadType DEF Configs
      <3>2. CASE t # s
        BY <2>1, <2>2, <2>3, <3>2, ReadType DEF Configs, FromLogin
      <3> QED BY <3>1, <3>2
    <2> HIDE DEF s, c
    <2>5. \A q \in Procs : FromLogin(copy[q].wires)'
      BY <2>2, <2>4 DEF FromLogin
    <2>6. FromLogin(FileRead.wires)'
      BY <2>2 DEF FromLogin, FileRead
    <2>7. logins \subseteq logins'
      BY <2>2
    <2>8. report.kind = "use" =>
             \A w \in Wires : HasCredentials(report.wires[w]) =>
                <<<<report.provider, w>>, report.wires[w]>> \in logins'
      BY <2>7
    <2>9. report.kind \in {"check", "status"} /\ report.auth => \E l \in logins' : l[1][1] = report.provider
      BY <2>7
    <2> QED BY <2>2, <2>5, <2>6, <2>8, <2>9
  <1>4. ASSUME NEW p \in Procs, LogoutRead(p)
        PROVE  NothingInvented'
    <2> DEFINE s == SlotOf(p)
               c == [Canonical(FileRead) EXCEPT !.wires[s] = None]
    <2>1. /\ copy' = [copy EXCEPT ![p] = c]
          /\ UNCHANGED <<file, report, logins>>
      BY <1>4 DEF LogoutRead
    <2>2. c.wires = [FileRead.wires EXCEPT ![s] = None]
      BY ReadType DEF Configs
    <2>3. \A t \in Slots : HasCredentials(c.wires[t]) => <<t, c.wires[t]>> \in logins
      BY <2>2, ReadType DEF Configs, FromLogin, HasCredentials
    <2> HIDE DEF c
    <2>4. \A q \in Procs : FromLogin(copy[q].wires)'
      BY <2>1, <2>3 DEF FromLogin
    <2> QED BY <2>1, <2>4 DEF FromLogin, FileRead
  <1>5. ASSUME NEW p \in Procs, LogoutNothing(p) \/ CheckDone(p) \/ Crash(p)
        PROVE  NothingInvented'
    <2>1. Exit(p) /\ UNCHANGED <<file, logins>>
      BY <1>5 DEF LogoutNothing, CheckDone, Crash
    <2>2. \A q \in Procs : FromLogin(copy[q].wires)'
      BY <2>1, ExitKeeps DEF FromLogin
    <2>3. \/ report'.kind = "logout"
          \/ report'.kind = "check" /\ ~report'.auth
          \/ report' = report
      BY <1>5 DEF LogoutNothing, CheckDone, Crash
    <2> QED BY <2>1, <2>2, <2>3 DEF FromLogin, FileRead
  <1>6. ASSUME NEW p \in Procs, CheckWire(p)
        PROVE  NothingInvented'
    <2>1. PICK w \in left[p] :
            \/ /\ HasCredentials(FileRead.wires[<<bound[p], w>>])
               /\ report' = [kind |-> "check", provider |-> bound[p], auth |-> TRUE]
               /\ Exit(p)
            \/ UNCHANGED <<copy, report>>
      BY <1>6 DEF CheckWire
    <2>2. UNCHANGED <<file, logins>>
      BY <1>6 DEF CheckWire
    <2>3. CASE /\ HasCredentials(FileRead.wires[<<bound[p], w>>])
               /\ report' = [kind |-> "check", provider |-> bound[p], auth |-> TRUE]
               /\ Exit(p)
      <3>1. <<bound[p], w>> \in Slots
        BY <1>6 DEF CheckWire, BoundInv, Slots
      <3>2. \E l \in logins : l[1][1] = bound[p]
        BY <2>3, <3>1 DEF FromLogin
      <3>3. \A q \in Procs : FromLogin(copy[q].wires)'
        BY <2>2, <2>3, ExitKeeps DEF FromLogin
      <3> QED BY <2>2, <2>3, <3>2, <3>3 DEF FromLogin, FileRead
    <2>4. CASE UNCHANGED <<copy, report>>
      BY <2>2, <2>4 DEF FromLogin, FileRead
    <2> QED BY <2>1, <2>3, <2>4
  <1>7. ASSUME NEW p \in Procs, InitStart(p)
        PROVE  NothingInvented'
    <2>1. \A q \in Procs : copy'[q] \in {copy[q], Canonical(EmptyConfig)}
      BY <1>7 DEF InitStart
    <2>2. Canonical(EmptyConfig).wires = EmptyConfig.wires
      BY EmptyType DEF Canonical, EmptyConfig, Configs
    <2>3. UNCHANGED <<file, logins>> /\ report' = NoReport
      BY <1>7 DEF InitStart
    <2>4. \A q \in Procs : FromLogin(copy[q].wires)'
      BY <2>1, <2>2, <2>3, FromLoginEmpty DEF FromLogin
    <2> QED BY <2>3, <2>4 DEF FromLogin, FileRead, NoReport
  <1>8. ASSUME NEW p \in Procs, Truncate(p)
        PROVE  NothingInvented'
    <2>1. FileRead' = EmptyConfig /\ UNCHANGED <<copy, report, logins>>
      BY <1>8 DEF Truncate, FileRead, EmptyConfig, NoWires
    <2>2. FromLogin(FileRead.wires)'
      BY <2>1, FromLoginEmpty DEF FromLogin
    <2> QED BY <2>1, <2>2 DEF FromLogin
  <1>9. ASSUME NEW p \in Procs, Fill(p)
        PROVE  NothingInvented'
    <2>1. file' \in {copy[p], Garbled} /\ logins' = logins /\ Exit(p)
      BY <1>9 DEF Fill, Filled
    <2>2. FileRead' \in {copy[p], EmptyConfig}
      BY <2>1, NamesAssumption DEF FileRead, EmptyConfig, NoWires
    <2>3. FromLogin(FileRead.wires)'
      BY <2>1, <2>2, FromLoginEmpty DEF FromLogin
    <2>4. \A q \in Procs : FromLogin(copy[q].wires)'
      BY <2>1, ExitKeeps DEF FromLogin
    <2>5. report'.kind \notin {"use", "check", "status"}
      BY <1>9 DEF Fill, Outcome
    <2> QED BY <2>3, <2>4, <2>5
  <1>10. ASSUME NEW p \in Procs, Status(p)
         PROVE  NothingInvented'
    <2>1. /\ report' = [kind |-> "status", provider |-> bound[p],
                        auth |-> HasCredentials(FileRead.wires[SlotOf(p)])]
          /\ Exit(p)
          /\ UNCHANGED <<file, logins>>
      BY <1>10 DEF Status
    <2>2. SlotOf(p) \in Slots /\ SlotOf(p)[1] = bound[p]
      BY <1>10, SlotType DEF Status, SlotOf
    <2>3. report'.auth => \E l \in logins : l[1][1] = report'.provider
      BY <2>1, <2>2 DEF FromLogin
    <2>4. \A q \in Procs : FromLogin(copy[q].wires)'
      BY <2>1, ExitKeeps DEF FromLogin
    <2> QED BY <2>1, <2>3, <2>4 DEF FromLogin, FileRead
  <1>11. CASE UNCHANGED vars
    BY <1>11 DEF vars, FromLogin, FileRead
  <1> QED
    BY <1>1, <1>2, <1>3, <1>4, <1>5, <1>6, <1>7, <1>8, <1>9, <1>10, <1>11 DEF Next

(***************************************************************************)
(* Credentials in the file, in a copy about to be written or in use are    *)
(* those of a login for that very provider and wire, however processes     *)
(* overlap and die (_config_store.py:58-81, 137-179).                      *)
(***************************************************************************)
THEOREM NothingInventedCorrect == Spec => []NothingInvented
  <1>1. Init => TypeOK /\ BoundInv /\ NothingInvented
    BY InitType, NothingInventedInit
  <1>2. TypeOK /\ BoundInv /\ NothingInvented /\ [Next]_vars
           => (TypeOK /\ BoundInv /\ NothingInvented)'
    BY TypeStep, NothingInventedStep
  <1> QED BY <1>1, <1>2, PTL DEF Spec

(***************************************************************************)
(* From here on commands do not overlap.  Then at most one process is      *)
(* inside a command, the file it truncated stays blank until it fills it,  *)
(* the copy it is about to write differs from the file in what its command *)
(* is for, and a check still has to look at every wire with credentials.   *)
(***************************************************************************)
Changed(c) ==
    \/ \E s \in Slots, x \in Payloads : c.wires = [FileRead.wires EXCEPT ![s] = x]
    \/ \E q \in Providers :
          c.wires = [FileRead.wires EXCEPT ![<<q, DefaultWire[q]>>] = None]
    \/ c.wires = NoWires

Accounted(p) ==
    \A w \in Wires : HasCredentials(FileRead.wires[<<bound[p], w>>]) => w \in left[p]

AloneInv ==
    /\ \A p, q \in Procs : pc[p] # "idle" /\ pc[q] # "idle" => p = q
    /\ \A p \in Procs :
          /\ pc[p] = "truncated" => file = Blank
          /\ pc[p] = "changed" => Changed(copy[p])
          /\ pc[p] = "checking" => Accounted(p)

LEMMA AloneInit == Init => AloneInv
  BY DEF Init, AloneInv

(***************************************************************************)
(* A process that starts starts when all are idle.                         *)
(***************************************************************************)
LEMMA StartsAlone ==
    ASSUME ~Overlap, NEW p \in Procs, MayStart(p)
    PROVE  \A q \in Procs : pc[q] = "idle"
  BY DEF MayStart

(***************************************************************************)
(* While one process is inside a command the others are idle, and stay so. *)
(***************************************************************************)
LEMMA OthersIdle ==
    ASSUME TypeOK, AloneInv, NEW p \in Procs, pc[p] # "idle",
           NEW v, pc' = [pc EXCEPT ![p] = v]
    PROVE  \A q \in Procs : q # p => pc[q] = "idle" /\ pc'[q] = "idle"
  BY DEF TypeOK, AloneInv

(***************************************************************************)
(* A process that ends leaves no process inside a command.                 *)
(***************************************************************************)
LEMMA ExitAlone ==
    ASSUME TypeOK, AloneInv, NEW p \in Procs, pc[p] # "idle", Exit(p)
    PROVE  (\A q \in Procs : pc'[q] = "idle") /\ AloneInv'
  <1>1. \A q \in Procs : pc'[q] = "idle"
    BY DEF TypeOK, AloneInv, Exit
  <1> QED BY <1>1 DEF AloneInv

LEMMA AloneStep ==
    ASSUME ~Overlap, TypeOK, BoundInv, AloneInv, [Next]_vars
    PROVE  AloneInv'
  <1>1. ASSUME NEW p \in Procs, Load(p) \/ InitRefused(p)
        PROVE  AloneInv'
    <2>1. \A q \in Procs : pc'[q] = "idle"
      BY <1>1, StartsAlone DEF Load, InitRefused
    <2> QED BY <2>1 DEF AloneInv
  <1>2. ASSUME NEW p \in Procs, Bootstrap(p)
        PROVE  AloneInv'
    <2>1. \A q \in Procs : pc'[q] = IF q = p THEN "bound" ELSE "idle"
      BY <1>2, StartsAlone DEF Bootstrap, TypeOK
    <2> QED BY <2>1 DEF AloneInv
  <1>3. ASSUME NEW p \in Procs, InitStart(p)
        PROVE  AloneInv'
    <2>1. \A q \in Procs : pc'[q] = IF q = p THEN "changed" ELSE "idle"
      BY <1>3, StartsAlone DEF InitStart, TypeOK
    <2>2. copy'[p].wires = NoWires
      BY <1>3, EmptyType DEF InitStart, TypeOK, Canonical, EmptyConfig, Configs
    <2> QED BY <2>1, <2>2 DEF AloneInv, Changed
  <1>4. ASSUME NEW p \in Procs, LoginRead(p)
        PROVE  AloneInv'
    <2> DEFINE c == [Canonical(FileRead) EXCEPT !.wires[SlotOf(p)] = cmd[p].payload]
    <2>1. SlotOf(p) \in Slots /\ cmd[p].payload \in Payloads
      BY <1>4, SlotType DEF LoginRead, Commands, NoCommand, TypeOK
    <2>2. c.wires = [FileRead.wires EXCEPT ![SlotOf(p)] = cmd[p].payload]
      BY ReadType DEF Configs
    <2>3. copy'[p] = c /\ FileRead' = FileRead
      BY <1>4 DEF LoginRead, TypeOK, FileRead
    <2>4. \A q \in Procs : pc'[q] = IF q = p THEN "changed" ELSE "idle"
      BY <1>4, OthersIdle DEF LoginRead, TypeOK
    <2> HIDE DEF c
    <2>5. Changed(copy[p])'
      BY <2>1, <2>2, <2>3 DEF Changed
    <2> QED BY <2>4, <2>5 DEF AloneInv
  <1>5. ASSUME NEW p \in Procs, LogoutRead(p)
        PROVE  AloneInv'
    <2> DEFINE c == [Canonical(FileRead) EXCEPT !.wires[SlotOf(p)] = None]
    <2>1. SlotOf(p) = <<bound[p], DefaultWire[bound[p]]>> /\ bound[p] \in Providers
      BY <1>5 DEF LogoutRead, SlotOf, BoundInv
    <2>2. c.wires = [FileRead.wires EXCEPT ![SlotOf(p)] = None]
      BY ReadType DEF Configs
    <2>3. copy'[p] = c /\ FileRead' = FileRead
      BY <1>5 DEF LogoutRead, TypeOK, FileRead
    <2>4. \A q \in Procs : pc'[q] = IF q = p THEN "changed" ELSE "idle"
      BY <1>5, OthersIdle DEF LogoutRead, TypeOK
    <2> HIDE DEF c
    <2>5. Changed(copy[p])'
      BY <2>1, <2>2, <2>3 DEF Changed
    <2> QED BY <2>4, <2>5 DEF AloneInv
  <1>6. ASSUME NEW p \in Procs,
               LogoutNothing(p) \/ Status(p) \/ CheckDone(p) \/ Fill(p) \/ Crash(p)
        PROVE  AloneInv'
    <2>1. Exit(p) /\ pc[p] # "idle"
      BY <1>6 DEF LogoutNothing, Status, CheckDone, Fill, Crash
    <2> QED BY <2>1, ExitAlone
  <1>7. ASSUME NEW p \in Procs, CheckList(p)
        PROVE  AloneInv'
    <2>1. \A q \in Procs : pc'[q] = IF q = p THEN "checking" ELSE "idle"
      BY <1>7, OthersIdle DEF CheckList, TypeOK
    <2>2. Accounted(p)'
      BY <1>7 DEF CheckList, TypeOK, Accounted, Stored, HasCredentials, FileRead
    <2> QED BY <2>1, <2>2 DEF AloneInv
  <1>8. ASSUME NEW p \in Procs, CheckWire(p)
        PROVE  AloneInv'
    <2>1. PICK w \in left[p] :
            \/ Exit(p)
            \/ /\ ~HasCredentials(FileRead.wires[<<bound[p], w>>])
               /\ left' = [left EXCEPT ![p] = @ \ {w}]
               /\ UNCHANGED <<pc, cmd, bound, copy, report>>
      BY <1>8 DEF CheckWire
    <2>2. CASE Exit(p)
      BY <1>8, <2>2, ExitAlone DEF CheckWire
    <2>3. CASE /\ ~HasCredentials(FileRead.wires[<<bound[p], w>>])
               /\ left' = [left EXCEPT ![p] = @ \ {w}]
               /\ UNCHANGED <<pc, cmd, bound, copy, report>>
      <3>1. FileRead' = FileRead /\ pc[p] = "checking"
        BY <1>8 DEF CheckWire, FileRead
      <3>2. Accounted(p)
        BY <3>1 DEF AloneInv
      <3>3. Accounted(p)'
        BY <2>3, <3>1, <3>2 DEF Accounted, TypeOK
      <3>4. \A q \in Procs : pc'[q] = IF q = p THEN "checking" ELSE "idle"
        BY <2>3, <3>1 DEF AloneInv
      <3> QED BY <3>3, <3>4 DEF AloneInv
    <2> QED BY <2>1, <2>2, <2>3
  <1>9. ASSUME NEW p \in Procs, Truncate(p)
        PROVE  AloneInv'
    <2>1. \A q \in Procs : pc'[q] = IF q = p THEN "truncated" ELSE "idle"
      BY <1>9, OthersIdle DEF Truncate, TypeOK
    <2> QED BY <1>9, <2>1 DEF AloneInv, Truncate
  <1>10. CASE UNCHANGED vars
    BY <1>10 DEF vars, AloneInv, Changed, Accounted, FileRead
  <1> QED
    BY <1>1, <1>2, <1>3, <1>4, <1>5, <1>6, <1>7, <1>8, <1>9, <1>10 DEF Next

(***************************************************************************)
(* The credentials the store holds for CredentialStore.                    *)
(***************************************************************************)
Store == IF Writing # {} THEN copy[CHOOSE p \in Writing : TRUE].wires ELSE FileRead.wires

LEMMA StoreIdle ==
    ASSUME \A p \in Procs : pc[p] # "truncated"
    PROVE  Store = FileRead.wires
  BY DEF Store, Writing

LEMMA StoreWriting ==
    ASSUME AloneInv, NEW p \in Procs, pc[p] = "truncated"
    PROVE  Store = copy[p].wires
  <1>1. Writing = {p}
    BY DEF AloneInv, Writing
  <1>2. (CHOOSE q \in Writing : TRUE) = p
    BY <1>1
  <1> QED BY <1>1, <1>2 DEF Store

(***************************************************************************)
(* Truncating the file takes effect as the command does; filling it does   *)
(* not show; a process that dies in between loses the store.               *)
(***************************************************************************)
LEMMA StoreStep ==
    ASSUME ~Overlap, TypeOK, BoundInv, AloneInv, AloneInv', [Next]_vars
    PROVE  \/ \E s \in Slots, x \in Payloads : Store' = [Store EXCEPT ![s] = x]
           \/ \E q \in Providers : Store' = [Store EXCEPT ![<<q, DefaultWire[q]>>] = None]
           \/ Store' = NoWires
           \/ Store' = Store
  <1> DEFINE Goal == \/ \E s \in Slots, x \in Payloads : Store' = [Store EXCEPT ![s] = x]
                     \/ \E q \in Providers :
                           Store' = [Store EXCEPT ![<<q, DefaultWire[q]>>] = None]
                     \/ Store' = NoWires
                     \/ Store' = Store
  <1>1. ASSUME UNCHANGED file,
               \A q \in Procs : pc[q] # "truncated" /\ pc'[q] # "truncated"
        PROVE  Goal
    <2>1. Store = FileRead.wires
      BY <1>1, StoreIdle
    <2>2. Store' = FileRead.wires
      BY <1>1 DEF Store, Writing, FileRead
    <2> QED BY <2>1, <2>2
  <1>2. ASSUME NEW p \in Procs, Load(p) \/ InitRefused(p) \/ Bootstrap(p) \/ InitStart(p)
        PROVE  Goal
    <2>1. \A q \in Procs : pc[q] = "idle"
      BY <1>2, StartsAlone DEF Load, InitRefused, Bootstrap, InitStart
    <2>2. \A q \in Procs : pc'[q] # "truncated"
      BY <1>2, <2>1 DEF Load, InitRefused, Bootstrap, InitStart, TypeOK
    <2>3. UNCHANGED file
      BY <1>2 DEF Load, InitRefused, Bootstrap, InitStart
    <2> QED BY <1>1, <2>1, <2>2, <2>3
  <1>3. ASSUME NEW p \in Procs,
               LoginRead(p) \/ LogoutRead(p) \/ LogoutNothing(p) \/ Status(p) \/ CheckList(p)
                 \/ CheckWire(p) \/ CheckDone(p)
        PROVE  Goal
    <2>1. /\ pc[p] \in {"bound", "checking"}
          /\ UNCHANGED file
          /\ \E v \in {"idle", "checking", "changed"} : pc' = [pc EXCEPT ![p] = v]
      <3>1. CASE LoginRead(p) \/ LogoutRead(p) \/ CheckList(p)
        BY <3>1 DEF LoginRead, LogoutRead, CheckList
      <3>2. CASE LogoutNothing(p) \/ Status(p) \/ CheckDone(p)
        BY <3>2 DEF LogoutNothing, Status, CheckDone, Exit
      <3>3. CASE CheckWire(p)
        <4>1. pc[p] = "checking" /\ UNCHANGED file
          BY <3>3 DEF CheckWire
        <4>2. Exit(p) \/ pc' = pc
          BY <3>3 DEF CheckWire
        <4>3. pc' = [pc EXCEPT ![p] = "idle"] \/ pc' = [pc EXCEPT ![p] = "checking"]
          BY <4>1, <4>2 DEF Exit, TypeOK
        <4> QED BY <4>1, <4>3
      <3> QED BY <1>3, <3>1, <3>2, <3>3
    <2>2. \A q \in Procs : pc[q] # "truncated" /\ pc'[q] # "truncated"
      BY <2>1 DEF AloneInv, TypeOK
    <2> QED BY <1>1, <2>1, <2>2
  <1>4. ASSUME NEW p \in Procs, Truncate(p)
        PROVE  Goal
    <2>1. Changed(copy[p])
      BY <1>4 DEF Truncate, AloneInv
    <2>2. Store = FileRead.wires
      <3>1. \A q \in Procs : pc[q] # "truncated"
        BY <1>4 DEF Truncate, AloneInv
      <3> QED BY <3>1, StoreIdle
    <2>3. Store' = copy[p].wires
      <3>1. pc'[p] = "truncated" /\ copy' = copy
        BY <1>4 DEF Truncate, TypeOK
      <3>2. Writing' = {p}
        BY <3>1 DEF AloneInv, Writing
      <3>3. (CHOOSE q \in Writing' : TRUE) = p
        BY <3>2
      <3> QED BY <3>1, <3>2, <3>3 DEF Store
    <2> QED BY <2>1, <2>2, <2>3 DEF Changed
  <1>5. ASSUME NEW p \in Procs, Fill(p)
        PROVE  Goal
    <2>1. pc[p] = "truncated" /\ file = Blank /\ Exit(p)
      BY <1>5 DEF Fill, AloneInv
    <2>2. file' = copy[p]
      BY <1>5, <2>1 DEF Fill, Filled
    <2>3. copy[p] \notin {Missing, Blank, Garbled}
      BY NamesAssumption DEF TypeOK
    <2>4. Store' = copy[p].wires
      <3>1. \A q \in Procs : pc'[q] # "truncated"
        BY <2>1, ExitAlone
      <3> QED BY <2>2, <2>3, <3>1 DEF Store, Writing, FileRead
    <2>5. Store = copy[p].wires
      BY <2>1, StoreWriting
    <2> QED BY <2>4, <2>5
  <1>6. ASSUME NEW p \in Procs, Crash(p)
        PROVE  Goal
    <2>1. pc[p] # "idle" /\ Exit(p) /\ UNCHANGED file
      BY <1>6 DEF Crash
    <2>2. \A q \in Procs : pc'[q] # "truncated"
      BY <2>1, ExitAlone
    <2>3. CASE pc[p] = "truncated"
      <3>1. file' = Blank
        BY <2>1, <2>3 DEF AloneInv
      <3> QED BY <2>2, <3>1 DEF Store, Writing, FileRead, EmptyConfig
    <2>4. CASE pc[p] # "truncated"
      <3>1. \A q \in Procs : pc[q] # "truncated"
        BY <2>1, <2>4 DEF AloneInv
      <3> QED BY <1>1, <2>1, <2>2, <3>1
    <2> QED BY <2>3, <2>4
  <1>7. CASE UNCHANGED vars
    BY <1>7 DEF vars, Store, Writing, FileRead
  <1> QED BY <1>2, <1>3, <1>4, <1>5, <1>6, <1>7 DEF Next

(***************************************************************************)
(* Commands that do not overlap implement CredentialStore, for any number  *)
(* of processes, providers and wires, even if they die anywhere: a login   *)
(* changes its slot, a logout one default slot, and a process that dies    *)
(* between truncating and filling the file loses the store as a whole and  *)
(* nothing else (_config_store.py:137-226, _commands.py:170).              *)
(***************************************************************************)
THEOREM StoreCorrect == ASSUME ~Overlap PROVE Spec => StoreKept
  <1>1. Init => TypeOK /\ BoundInv /\ AloneInv
    BY InitType, AloneInit
  <1>2. TypeOK /\ BoundInv /\ AloneInv /\ [Next]_vars => (TypeOK /\ BoundInv /\ AloneInv)'
    BY TypeStep, AloneStep
  <1>3. Init => C!Init
    <2> SUFFICES ASSUME Init PROVE C!Init
      OBVIOUS
    <2>1. TypeOK /\ Store = FileRead.wires
      BY InitType, StoreIdle DEF Init
    <2>2. Store \in [Slots -> Entries]
      BY <2>1, ReadType DEF Configs
    <2> QED BY <2>2 DEF C!Init, Store
  <1>4. TypeOK /\ BoundInv /\ AloneInv /\ AloneInv' /\ [Next]_vars
           => [C!Next]_Store
    <2> SUFFICES ASSUME TypeOK, BoundInv, AloneInv, AloneInv', [Next]_vars
                 PROVE  C!Next \/ Store' = Store
      BY DEF Store
    <2>1. \A s \in Slots, x \in Payloads : Store' = [Store EXCEPT ![s] = x] => C!Next
      BY DEF C!Next, C!Login, Store
    <2>2. \A q \in Providers : Store' = [Store EXCEPT ![<<q, DefaultWire[q]>>] = None] => C!Next
      BY DEF C!Next, C!Logout, Store
    <2>3. Store' = NoWires => C!Next
      BY DEF C!Next, C!StartOver, C!Empty, NoWires, Store
    <2> QED BY <2>1, <2>2, <2>3, StoreStep
  <1> QED BY <1>1, <1>2, <1>3, <1>4, PTL DEF Spec, StoreKept, C!Spec, Store

(***************************************************************************)
(* Nobody but the check itself takes a step that reports while it runs: it *)
(* finds credentials in one of the wires it has left, or has none left.    *)
(***************************************************************************)
LEMMA CheckStep ==
    ASSUME ~Overlap, TypeOK, BoundInv, AloneInv, [Next]_vars,
           NEW p \in Procs, pc[p] = "checking", report' # report
    PROVE  report'.auth <=> \E w \in Wires : HasCredentials(FileRead.wires[<<bound[p], w>>])
  <1> DEFINE Held == \E w \in Wires : HasCredentials(FileRead.wires[<<bound[p], w>>])
  <1>1. CheckWire(p) \/ CheckDone(p)
    <2>1. \A q \in Procs : ~MayStart(q)
      BY StartsAlone
    <2>2. \A q \in Procs : pc[q] # "idle" => q = p
      BY DEF AloneInv
    <2>3. PICK q \in Procs :
             \/ LogoutNothing(q) \/ Status(q) \/ CheckWire(q) \/ CheckDone(q) \/ Fill(q)
      BY <2>1 DEF Next, vars, Load, Bootstrap, LoginRead, LogoutRead, CheckList, InitRefused,
                  InitStart, Truncate, Crash
    <2>4. pc[q] # "idle"
      BY <2>3 DEF LogoutNothing, Status, CheckWire, CheckDone, Fill
    <2> QED BY <2>2, <2>3, <2>4 DEF LogoutNothing, Status, Fill
  <1>2. CASE CheckDone(p)
    <2>1. report'.auth = FALSE /\ left[p] = {}
      BY <1>2 DEF CheckDone
    <2>2. ~Held
      BY <2>1 DEF AloneInv, Accounted
    <2> QED BY <2>1, <2>2
  <1>3. CASE CheckWire(p)
    <2>1. PICK w \in left[p] :
             /\ HasCredentials(FileRead.wires[<<bound[p], w>>])
             /\ report' = [kind |-> "check", provider |-> bound[p], auth |-> TRUE]
      BY <1>3 DEF CheckWire
    <2>2. w \in Wires
      BY DEF TypeOK
    <2> QED BY <2>1, <2>2
  <1> QED BY <1>1, <1>2, <1>3

(***************************************************************************)
(* A check that runs alone reports credentials exactly when the file holds *)
(* some for its provider, although it reads the file once per wire         *)
(* (_config_store.py:192-216).                                             *)
(***************************************************************************)
THEOREM CheckCorrect == ASSUME ~Overlap PROVE Spec => CheckIsTrue
  <1> DEFINE A == \A p \in Procs :
                     pc[p] = "checking" /\ report' # report =>
                        (report'.auth <=>
                           \E w \in Wires : HasCredentials(FileRead.wires[<<bound[p], w>>]))
  <1>1. Init => TypeOK /\ BoundInv /\ AloneInv
    BY InitType, AloneInit
  <1>2. TypeOK /\ BoundInv /\ AloneInv /\ [Next]_vars => (TypeOK /\ BoundInv /\ AloneInv)'
    BY TypeStep, AloneStep
  <1>3. TypeOK /\ BoundInv /\ AloneInv /\ [Next]_vars => [A]_vars
    BY CheckStep
  <1> QED BY <1>1, <1>2, <1>3, PTL DEF Spec, CheckIsTrue
=============================================================================
