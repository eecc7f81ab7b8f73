--------------------------- MODULE CatalogLoading ---------------------------
(***************************************************************************)
(* How a PortoDataLoader fills itself from the files of a catalog.  In     *)
(* strict mode every mapped file is read, compared with the checksums of   *)
(* the metadata and validated, and the entities are then filled from these *)
(* documents in the order of the graph; a file of the graph that is not    *)
(* mapped is read from the disk.  In relaxed mode a fixed list of files is *)
(* read, and what cannot be read is left out.                              *)
(*                                                                         *)
(* The catalog may be upgraded while it is loaded: its files are replaced  *)
(* one at a time, each of them once and in any order.  A document is known *)
(* by its file and by the publication, 1 or 2, that it is from; a file and *)
(* its schema are replaced together.  The table of the graph may be        *)
(* another one each time it is read.  The mapping is the same in both      *)
(* publications: another one would be another set of files.                *)
(***************************************************************************)
EXTENDS Integers, Sublists, SequencesExt, FiniteSets

CONSTANTS
    Mapping,   \* the mapped files, in the order of mappings.json
    Unmapped,  \* the paths of files that exist, with a checksum, and are not mapped
    Graphs,    \* the tables of dependencies that graph.json may hold, in their order
    Relaxed,   \* the paths that relaxed mode reads, in order
    MaxLoads   \* bound on the loaders a process makes

VARIABLES
    disk,      \* the publication of every file on the disk
    graph,     \* the table of dependencies
    strict,    \* the mode of the loader
    stage,     \* "idle", "reading", "loading", "ready" or "failed"
    metadata,  \* the publication of metadata.json as the loader has read it
    reading,   \* the publication of the file at hand, 0 if there is none
    files,     \* the publications of the documents that are validated
    todo,      \* the names that are still to be loaded
    held,      \* by file type, the documents the entity loader has rows of
    compiled,  \* the publication of the schema compiled first, 0 if none is
    loads,     \* how many loaders were started
    overtaken  \* the files that were replaced between being read and being compared

loadingVars ==
    <<disk, graph, strict, stage, metadata, reading, files, todo, held, compiled, loads, overtaken>>

Paths == {Mapping[i].path : i \in DOMAIN Mapping}

\* The graph and the metadata are read apart and not mapped, and the list of the
\* providers holds no prices.
ASSUME MappingAssumption ==
    /\ Mapping \in Seq({Mapping[i] : i \in DOMAIN Mapping})
    /\ Paths \intersect (Unmapped \union {"metadata.json"}) = {}
    /\ \A i \in DOMAIN Mapping :
          LET names == {Mapping[i].path, Mapping[i].base, Mapping[i].within}
          IN  /\ Mapping[i].type # "unmapped"
              /\ "graph.json" \notin names
              /\ "providers.json" \in names => Mapping[i].type \notin {"product_prices", "service_prices"}
    /\ \A table \in Graphs : table \in Seq({table[i] : i \in DOMAIN table})

OnDisk == Paths \union Unmapped \union {"metadata.json"}

FileTypes == {Mapping[i].type : i \in DOMAIN Mapping} \union {"product_prices", "service_prices", "unmapped"}

Nothing == [type \in FileTypes |-> {}]
-----------------------------------------------------------------------------
(* The order of the graph *)

\* Two keys of the table may have one file.
NamesOf(table) == Distinct([i \in DOMAIN table |-> table[i].file])

\* The names of the table that f waits for.
Waits(table, f) ==
    (UNION {table[i].needs : i \in {j \in DOMAIN table : table[j].file = f}}) \intersect ToSet(NamesOf(table))

\* The names that wait for something, in the order in which the table says so.
Dependent(table) == NamesOf(Keep(table, {row \in ToSet(table) : row.needs # {}}))

BugFreed(table, name, done) ==
    Keep(Dependent(table), {f \in ToSet(Dependent(table)) : name \in Waits(table, f) /\ f \notin done})

\* The files whose last dependency is name, once done is processed.
Freed(table, name, done) ==
    Keep(Dependent(table), {f \in ToSet(Dependent(table)) : name \in Waits(table, f) /\ Waits(table, f) \subseteq done})

Process(table, s) ==
    LET name == Head(s.queue)
    IN  [order |-> Append(s.order, name),
         queue |-> Tail(s.queue) \o Freed(table, name, ToSet(s.order) \union {name})]

Begun(table) ==
    [order |-> <<>>, queue |-> Keep(NamesOf(table), {f \in ToSet(NamesOf(table)) : Waits(table, f) = {}})]

Advanced(table, s) == IF s.queue = <<>> THEN s ELSE Process(table, s)

\* What the topological sort reaches.
Sorted(table) ==
    LET after[n \in 0 .. Len(NamesOf(table))] ==
          IF n = 0 THEN Begun(table) ELSE Advanced(table, after[n - 1])
    IN  after[Len(NamesOf(table))].order

\* One cycle is broken by name; what is left then follows as it stands.
Unsorted(table) ==
    LET left   == Keep(NamesOf(table), ToSet(NamesOf(table)) \ ToSet(Sorted(table)))
        cycle  == <<"zones.json", "restrictions.json">>
        broken == IF ToSet(cycle) \subseteq ToSet(left) THEN cycle ELSE <<>>
    IN  broken \o Keep(left, ToSet(left) \ ToSet(broken))

\* calculate_load_order
LoadOrder(table) == Sorted(table) \o Unsorted(table)
-----------------------------------------------------------------------------
(* The entity loaders *)

\* FileTypeRegistry.dispatch.  A load replaces the rows of the entity, except
\* that service prices are added, and that product prices drop them: both are
\* kept by one loader.  Left out: "weights" and "weight_tiers" share a loader too,
\* and "prices" drops both tables of prices; and a file that is not mapped is
\* taken to have none of the types of those that are.
Dispatch(entities, type, document) ==
    CASE type = "product_prices" -> [entities EXCEPT ![type] = {document}, !["service_prices"] = {}]
      [] type = "service_prices" -> [entities EXCEPT ![type] = @ \union {document}]
      [] OTHER -> [entities EXCEPT ![type] = {document}]

\* The mapped files a name stands for: by its path, by its last segment, or else
\* by its path below the directory of the provider.
Called(name) ==
    IF name \in Paths THEN {i \in DOMAIN Mapping : Mapping[i].path = name}
    ELSE {i \in DOMAIN Mapping : Mapping[i].base = name}

Within(name) == {i \in DOMAIN Mapping : Mapping[i].within = name}

Meant(name) == IF Called(name) # {} THEN Called(name) ELSE Within(name)

FirstOf(indices) == CHOOSE i \in indices : \A j \in indices : i <= j
-----------------------------------------------------------------------------
LoadingInit ==
    /\ disk = [p \in OnDisk |-> 1]
    /\ graph = <<>>
    /\ strict = TRUE
    /\ stage = "idle"
    /\ metadata = 0
    /\ reading = 0
    /\ files = <<>>
    /\ todo = <<>>
    /\ held = Nothing
    /\ compiled = [p \in Paths |-> 0]
    /\ loads = 0
    /\ overtaken = {}

AtHand == Mapping[Len(files) + 1].path

\* The data package is upgraded under the running process, in any order.
Upgrade(p) ==
    /\ disk[p] = 1
    /\ disk' = [disk EXCEPT ![p] = 2]
    /\ overtaken' =
          IF stage = "reading" /\ reading # 0 /\ p = AtHand THEN overtaken \union {p} ELSE overtaken
    /\ UNCHANGED <<graph, strict, stage, metadata, reading, files, todo, held, compiled, loads>>

Open ==
    /\ stage \in {"idle", "ready", "failed"}
    /\ loads < MaxLoads
    /\ loads' = loads + 1
    /\ metadata' = disk["metadata.json"]
    /\ reading' = 0
    /\ files' = <<>>
    /\ held' = Nothing
    /\ overtaken' = {}
    /\ graph' \in Graphs
    /\ UNCHANGED <<disk, compiled>>

OpenStrict ==
    /\ Open
    /\ strict' = TRUE
    /\ stage' = "reading"
    /\ todo' = <<>>

OpenRelaxed ==
    /\ Open
    /\ strict' = FALSE
    /\ stage' = "loading"
    /\ todo' = Relaxed

Fail ==
    /\ stage' = "failed"
    /\ reading' = 0
    /\ UNCHANGED <<disk, graph, strict, metadata, files, todo, held, compiled, loads, overtaken>>

\* A version of the catalog that the SDK does not support, a path that is no file,
\* or no graph to load by.
RefuseCatalog ==
    /\ \/ stage = "reading" /\ reading = 0 /\ files = <<>>
       \/ stage = "loading" /\ ~strict /\ todo = Relaxed
    /\ Fail

\* validate_mapped_file reads the document ...
ReadFile ==
    /\ stage = "reading"
    /\ reading = 0
    /\ Len(files) < Len(Mapping)
    /\ reading' = disk[AtHand]
    /\ UNCHANGED <<disk, graph, strict, stage, metadata, files, todo, held, compiled, loads, overtaken>>

BugVerified == reading # 0

\* ... and then compares what is on the disk with the checksum.
Verified == reading # 0 /\ disk[AtHand] = metadata

\* The schema is the one that was compiled first under the same path.  A
\* document of another publication may or may not satisfy it.
ValidateFile ==
    /\ stage = "reading"
    /\ Verified
    /\ files' = Append(files, reading)
    /\ compiled' = [compiled EXCEPT ![AtHand] = IF @ = 0 THEN reading ELSE @]
    /\ reading' = 0
    /\ UNCHANGED <<disk, graph, strict, stage, metadata, todo, held, loads, overtaken>>

RefuseFile ==
    /\ stage = "reading"
    /\ reading # 0
    /\ ~Verified \/ compiled[AtHand] \notin {0, reading}
    /\ Fail

AllRead == stage = "reading" /\ reading = 0 /\ Len(files) = Len(Mapping)

\* The list of the providers is loaded last, whether the graph names it or not.
Registry == Keep(<<"providers.json">>, Paths)

NamesToLoad(table) == Keep(LoadOrder(table), ToSet(LoadOrder(table)) \ {"graph.json"}) \o Registry

\* The documents agree among themselves ...
Consistent ==
    /\ AllRead
    /\ stage' = "loading"
    /\ todo' = NamesToLoad(graph)
    /\ UNCHANGED <<disk, graph, strict, metadata, reading, files, held, compiled, loads, overtaken>>

\* ... or do not, as a catalog may be published.
Inconsistent == AllRead /\ Fail

Loaded(type, path, publication) ==
    /\ held' = Dispatch(held, type, [path |-> path, publication |-> publication])
    /\ todo' = Tail(todo)
    /\ reading' = 0
    /\ UNCHANGED <<disk, graph, strict, stage, metadata, files, compiled, loads, overtaken>>

LoadMapped ==
    /\ stage = "loading" /\ strict /\ todo # <<>>
    /\ Meant(Head(todo)) # {}
    /\ LET i == FirstOf(Meant(Head(todo)))
       IN  Loaded(Mapping[i].type, Mapping[i].path, files[i])

\* BaseLoader.load_data compares first and reads then.
VerifyUnmapped ==
    /\ stage = "loading" /\ strict /\ todo # <<>>
    /\ Meant(Head(todo)) = {} /\ Head(todo) \in Unmapped
    /\ reading = 0
    /\ disk[Head(todo)] = metadata
    /\ reading' = disk[Head(todo)]
    /\ UNCHANGED <<disk, graph, strict, stage, metadata, files, todo, held, compiled, loads, overtaken>>

LoadUnmapped ==
    /\ stage = "loading" /\ strict /\ todo # <<>>
    /\ Meant(Head(todo)) = {} /\ Head(todo) \in Unmapped
    /\ reading # 0
    /\ Loaded("unmapped", Head(todo), disk[Head(todo)])

\* A name that no file has, or a file that is not the one of the metadata.
RefuseUnmapped ==
    /\ stage = "loading" /\ strict /\ todo # <<>>
    /\ Meant(Head(todo)) = {}
    /\ Head(todo) \in Unmapped => reading = 0 /\ disk[Head(todo)] # metadata
    /\ Fail

LoadRelaxed ==
    /\ stage = "loading" /\ ~strict /\ todo # <<>>
    /\ \E i \in DOMAIN Mapping :
          /\ Mapping[i].path = Head(todo)
          /\ Loaded(Mapping[i].type, Mapping[i].path, disk[Mapping[i].path])

SkipRelaxed ==
    /\ stage = "loading" /\ ~strict /\ todo # <<>>
    /\ Head(todo) \notin Paths
    /\ todo' = Tail(todo)
    /\ UNCHANGED <<disk, graph, strict, stage, metadata, reading, files, held, compiled, loads, overtaken>>

\* The index of the graph is built, and the loader is handed out.
Finish ==
    /\ stage = "loading"
    /\ todo = <<>>
    /\ stage' = "ready"
    /\ UNCHANGED <<disk, graph, strict, metadata, reading, files, todo, held, compiled, loads, overtaken>>

LoadingNext ==
    \/ \E p \in OnDisk : Upgrade(p)
    \/ OpenStrict \/ OpenRelaxed \/ RefuseCatalog
    \/ ReadFile \/ ValidateFile \/ RefuseFile
    \/ Consistent \/ Inconsistent
    \/ LoadMapped \/ VerifyUnmapped \/ LoadUnmapped \/ RefuseUnmapped
    \/ LoadRelaxed \/ SkipRelaxed
    \/ Finish

LoadingSpec == LoadingInit /\ [][LoadingNext]_loadingVars
-----------------------------------------------------------------------------
(* Properties *)

MappedRows == {document \in UNION {held[type] : type \in FileTypes} : document.path \in Paths}

\* Of the publication of the metadata, or of the one before and replaced between
\* being read and being compared: metadata.json is replaced before the loader
\* starts, the old file is read and then replaced, and the new one has the checksum.
Excusable(document) ==
    \/ document.publication = metadata
    \/ document.publication < metadata /\ document.path \in overtaken

\* The comparison closes every other way in: at whatever moment of an upgrade the
\* loader was started, and in whatever order the files are replaced, a strict
\* loader has no row that is newer than its metadata, and an older one only of a
\* file that was replaced in the moment between its reading and its comparison
\* (porto_data_validator.py:52-68, loader.py:103-118).
OldOnlyIfOvertaken ==
    stage = "ready" /\ strict => \A document \in MappedRows : Excusable(document)

Wider(table, reached) == reached \union UNION {Waits(table, g) : g \in reached}

\* What f waits for, and what that waits for.
Reaches(table, f) ==
    LET within[n \in 0 .. Len(NamesOf(table))] ==
          IF n = 0 THEN Waits(table, f) ELSE Wider(table, within[n - 1])
    IN  within[Len(NamesOf(table))]

Acyclic(table) == \A f \in ToSet(NamesOf(table)) : f \notin Reaches(table, f)

\* What a catalog owes for its prices to be found: the table has no cycle, no
\* file hides the one of the provider that a name is for, and service prices
\* wait for product prices.
WellFormed(table) ==
    /\ Acyclic(table)
    /\ \A f \in ToSet(NamesOf(table)) : Within(f) # {} => FirstOf(Meant(f)) \in Within(f)
    /\ \A f, g \in ToSet(NamesOf(table)) :
          /\ \E i \in Meant(f) : Mapping[i].type = "service_prices"
          /\ \E i \in Meant(g) : Mapping[i].type = "product_prices"
          => g \in Reaches(table, f)

\* A well-formed table fills every entity it names, in whatever order the table
\* and the queue of the sort have them, and no later load takes the rows away
\* (base_loader.py:190-256, file_type_registry.py:69-78, prices.py:59-87).
EveryFileIsHeld ==
    stage = "ready" /\ strict /\ WellFormed(graph) =>
        \A name \in ToSet(NamesOf(graph)) : Meant(name) # {} =>
            LET i == FirstOf(Meant(name))
            IN  held[Mapping[i].type] = {[path |-> Mapping[i].path, publication |-> files[i]]}
=============================================================================
