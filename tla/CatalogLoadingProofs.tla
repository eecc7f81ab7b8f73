------------------------- MODULE CatalogLoadingProofs -------------------------
(***************************************************************************)
(* For every catalog, every table of dependencies, and every moment and    *)
(* order of an upgrade: the rows that a strict loader holds are of the     *)
(* publication of the metadata it has read, but for files that were        *)
(* replaced between being read and being compared.  The argument is that a *)
(* file is replaced once: what is on the disk at the comparison is what    *)
(* was read, or it is newer and the file was overtaken.                    *)
(***************************************************************************)
EXTENDS CatalogLoading, DataLemmas

DiskOK == disk \in [OnDisk -> {1, 2}]

MetadataOK ==
    /\ metadata \in {0, 1, 2}
    /\ stage # "idle" => metadata # 0

ReadingOK ==
    stage = "reading" /\ reading # 0 =>
        /\ Len(files) < Len(Mapping)
        /\ reading \in {1, 2}
        /\ disk[AtHand] = reading \/ (reading = 1 /\ disk[AtHand] = 2 /\ AtHand \in overtaken)

DocumentAt(i) == [path |-> Mapping[i].path, publication |-> files[i]]

FilesOK ==
    /\ files \in Seq({1, 2})
    /\ Len(files) <= Len(Mapping)
    /\ \A i \in 1 .. Len(files) : Excusable(DocumentAt(i))
    /\ strict /\ stage \in {"loading", "ready"} => Len(files) = Len(Mapping)

HeldOK ==
    /\ DOMAIN held = FileTypes
    /\ strict => \A type \in FileTypes : \A document \in held[type] :
                    document.path \in Paths => Excusable(document)

LoadingInv ==
    /\ stage \in {"idle", "reading", "loading", "ready", "failed"}
    /\ strict \in BOOLEAN
    /\ DiskOK /\ MetadataOK /\ ReadingOK /\ FilesOK /\ HeldOK

LEMMA FirstExists ==
    ASSUME NEW T \in SUBSET Nat, T # {} PROVE FirstOf(T) \in T
BY Least DEF FirstOf

\* A load adds one document at most, and only to what was held.
LEMMA DispatchAdds ==
    ASSUME NEW type, NEW document, DOMAIN held = FileTypes
    PROVE  /\ DOMAIN Dispatch(held, type, document) = FileTypes
           /\ \A other \in FileTypes :
                 Dispatch(held, type, document)[other] \subseteq held[other] \union {document}
<1>1. CASE type = "product_prices"
  BY <1>1 DEF Dispatch
<1>2. CASE type = "service_prices"
  BY <1>2 DEF Dispatch
<1>3. CASE type \notin {"product_prices", "service_prices"}
  BY <1>3 DEF Dispatch
<1>4. QED
  BY <1>1, <1>2, <1>3

LEMMA MappingFacts ==
    /\ Len(Mapping) \in Nat /\ DOMAIN Mapping = 1 .. Len(Mapping)
    /\ \A i \in DOMAIN Mapping : Mapping[i].path \in Paths /\ Mapping[i].path \in OnDisk
    /\ "metadata.json" \in OnDisk /\ Unmapped \subseteq OnDisk
    /\ \A p \in Unmapped : p \notin Paths
<1>1. Len(Mapping) \in Nat /\ DOMAIN Mapping = 1 .. Len(Mapping)
  BY MappingAssumption
<1>2. QED
  BY <1>1, MappingAssumption DEF Paths, OnDisk

\* The file at hand while there is one.
LEMMA AtHandOnDisk ==
    ASSUME files \in Seq({1, 2}), Len(files) < Len(Mapping)
    PROVE  Len(files) + 1 \in DOMAIN Mapping /\ AtHand \in OnDisk
<1>1. Len(files) + 1 \in DOMAIN Mapping
  BY MappingFacts
<1>2. QED
  BY <1>1, MappingFacts DEF AtHand

LEMMA LoadingInitially == LoadingInit => LoadingInv
<1> SUFFICES ASSUME LoadingInit PROVE LoadingInv
  OBVIOUS
<1>1. DiskOK /\ MetadataOK /\ ReadingOK /\ FilesOK
  BY MappingFacts DEF LoadingInit, DiskOK, MetadataOK, ReadingOK, FilesOK
<1>2. HeldOK
  BY DEF LoadingInit, HeldOK, Nothing
<1>3. QED
  BY <1>1, <1>2 DEF LoadingInv, LoadingInit

\* What was excused stays excused: a loader keeps its metadata, and the files that
\* were overtaken are not forgotten.
LEMMA ExcusesKeep ==
    ASSUME LoadingInv, metadata' = metadata, files' = files, held' = held, strict' = strict,
           overtaken \subseteq overtaken', stage' = stage
    PROVE  FilesOK' /\ HeldOK'
<1>1. \A document : Excusable(document) => Excusable(document)'
  BY DEF Excusable
<1>2. FilesOK'
  BY <1>1 DEF LoadingInv, FilesOK, DocumentAt
<1>3. HeldOK'
  BY <1>1 DEF LoadingInv, HeldOK
<1>4. QED
  BY <1>2, <1>3

LEMMA UpgradeKeeps == ASSUME LoadingInv, NEW p \in OnDisk, Upgrade(p) PROVE LoadingInv'
<1>1. /\ disk[p] = 1 /\ disk' = [disk EXCEPT ![p] = 2]
      /\ UNCHANGED <<strict, stage, metadata, reading, files, held>>
      /\ disk \in [OnDisk -> {1, 2}]
      /\ overtaken \subseteq overtaken'
      /\ stage = "reading" /\ reading # 0 /\ p = AtHand => p \in overtaken'
  BY DEF Upgrade, LoadingInv, DiskOK
<1>2. DiskOK' /\ MetadataOK'
  BY <1>1 DEF LoadingInv, DiskOK, MetadataOK
<1>3. ReadingOK'
  <2> SUFFICES ASSUME stage = "reading", reading # 0
               PROVE  /\ Len(files) < Len(Mapping)
                      /\ reading \in {1, 2}
                      /\ \/ disk'[AtHand] = reading
                         \/ reading = 1 /\ disk'[AtHand] = 2 /\ AtHand \in overtaken'
    BY <1>1 DEF ReadingOK, AtHand
  <2>1. /\ Len(files) < Len(Mapping)
        /\ reading \in {1, 2}
        /\ disk[AtHand] = reading \/ (reading = 1 /\ disk[AtHand] = 2 /\ AtHand \in overtaken)
    BY DEF LoadingInv, ReadingOK
  <2>2. AtHand \in OnDisk
    BY <2>1, AtHandOnDisk DEF LoadingInv, FilesOK
  <2>3. CASE p = AtHand
    BY <1>1, <2>1, <2>2, <2>3
  <2>4. CASE p # AtHand
    BY <1>1, <2>1, <2>2, <2>4
  <2>5. QED
    BY <2>1, <2>3, <2>4
<1>4. FilesOK' /\ HeldOK'
  BY <1>1, ExcusesKeep
<1>5. QED
  BY <1>1, <1>2, <1>3, <1>4 DEF LoadingInv

LEMMA OpenKeeps == ASSUME LoadingInv, OpenStrict \/ OpenRelaxed PROVE LoadingInv'
<1>1. /\ metadata' = disk["metadata.json"] /\ reading' = 0 /\ files' = <<>> /\ held' = Nothing /\ disk' = disk
      /\ \/ strict' = TRUE /\ stage' = "reading"
         \/ strict' = FALSE /\ stage' = "loading"
  BY DEF OpenStrict, OpenRelaxed, Open
<1>2. DiskOK' /\ MetadataOK'
  BY <1>1, MappingFacts DEF LoadingInv, DiskOK, MetadataOK
<1>3. ReadingOK' /\ FilesOK'
  BY <1>1, MappingFacts DEF ReadingOK, FilesOK
<1>4. HeldOK'
  BY <1>1 DEF HeldOK, Nothing
<1>5. QED
  BY <1>1, <1>2, <1>3, <1>4 DEF LoadingInv

LEMMA FailKeeps == ASSUME LoadingInv, stage # "idle", Fail PROVE LoadingInv'
BY DEF Fail, LoadingInv, DiskOK, MetadataOK, ReadingOK, FilesOK, HeldOK, DocumentAt, Excusable

LEMMA ReadFileKeeps == ASSUME LoadingInv, ReadFile PROVE LoadingInv'
<1>1. /\ reading' = disk[AtHand] /\ AtHand \in OnDisk
      /\ UNCHANGED <<disk, strict, stage, metadata, files, held, overtaken>>
      /\ Len(files) < Len(Mapping) /\ stage = "reading"
  BY AtHandOnDisk DEF ReadFile, LoadingInv, FilesOK
<1>2. ReadingOK'
  BY <1>1 DEF LoadingInv, DiskOK, ReadingOK, AtHand
<1>3. FilesOK' /\ HeldOK'
  BY <1>1, ExcusesKeep
<1>4. QED
  BY <1>1, <1>2, <1>3 DEF LoadingInv, DiskOK, MetadataOK

\* What passes the comparison is of the publication of the metadata, or overtaken.
LEMMA ValidateFileKeeps == ASSUME LoadingInv, ValidateFile PROVE LoadingInv'
<1> DEFINE n == Len(files)
<1>1. /\ files' = Append(files, reading) /\ reading' = 0
      /\ UNCHANGED <<disk, strict, stage, metadata, held, overtaken>>
      /\ stage = "reading" /\ reading # 0 /\ disk[AtHand] = metadata
  BY DEF ValidateFile, Verified
<1>2. n < Len(Mapping) /\ files \in Seq({1, 2}) /\ n \in Nat /\ reading \in {1, 2}
  BY <1>1 DEF LoadingInv, ReadingOK, FilesOK
<1>3. Excusable([path |-> AtHand, publication |-> reading])
  BY <1>1 DEF LoadingInv, ReadingOK, Excusable
<1>4. /\ files' \in Seq({1, 2}) /\ Len(files') = n + 1 /\ Len(files') <= Len(Mapping)
      /\ files'[n + 1] = reading /\ \A i \in 1 .. n : files'[i] = files[i]
  BY <1>1, <1>2, MappingFacts
<1>5. \A i \in 1 .. Len(files') : Excusable([path |-> Mapping[i].path, publication |-> files'[i]])
  <2> TAKE i \in 1 .. Len(files')
  <2>1. CASE i = n + 1
    BY <1>3, <1>4, <2>1 DEF AtHand
  <2>2. CASE i \in 1 .. n
    BY <1>4, <2>2 DEF LoadingInv, FilesOK, DocumentAt
  <2>3. QED
    BY <1>2, <1>4, <2>1, <2>2
<1>6. \A i \in 1 .. Len(files') : Excusable(DocumentAt(i))'
  BY <1>1, <1>5 DEF Excusable, DocumentAt
<1>7. FilesOK'
  BY <1>1, <1>4, <1>6 DEF FilesOK
<1>8. HeldOK'
  BY <1>1 DEF LoadingInv, HeldOK, Excusable
<1>9. QED
  BY <1>1, <1>7, <1>8 DEF LoadingInv, DiskOK, MetadataOK, ReadingOK

LEMMA ConsistentKeeps == ASSUME LoadingInv, Consistent PROVE LoadingInv'
BY DEF Consistent, AllRead, LoadingInv, DiskOK, MetadataOK, ReadingOK, FilesOK, HeldOK, DocumentAt, Excusable

LEMMA LoadedKeeps ==
    ASSUME LoadingInv, NEW type, NEW path, NEW publication, stage = "loading",
           strict /\ path \in Paths => Excusable([path |-> path, publication |-> publication]),
           Loaded(type, path, publication)
    PROVE  LoadingInv'
<1> DEFINE document == [path |-> path, publication |-> publication]
<1>1. /\ held' = Dispatch(held, type, document)
      /\ reading' = 0
      /\ UNCHANGED <<disk, strict, stage, metadata, files, overtaken>>
  BY DEF Loaded
<1>2. HeldOK'
  <2>1. /\ DOMAIN held' = FileTypes
        /\ \A other \in FileTypes : held'[other] \subseteq held[other] \union {document}
    BY <1>1, DispatchAdds DEF LoadingInv, HeldOK
  <2>2. \A other : Excusable(other) => Excusable(other)'
    BY <1>1 DEF Excusable
  <2>3. QED
    BY <1>1, <2>1, <2>2 DEF LoadingInv, HeldOK
<1>3. FilesOK'
  BY <1>1 DEF LoadingInv, FilesOK, DocumentAt, Excusable
<1>4. QED
  BY <1>1, <1>2, <1>3 DEF LoadingInv, DiskOK, MetadataOK, ReadingOK

LEMMA LoadMappedKeeps == ASSUME LoadingInv, LoadMapped PROVE LoadingInv'
<1> DEFINE i == FirstOf(Meant(Head(todo)))
<1>1. Meant(Head(todo)) \in SUBSET Nat /\ Meant(Head(todo)) \subseteq DOMAIN Mapping /\ Meant(Head(todo)) # {}
  <2>1. Meant(Head(todo)) \subseteq DOMAIN Mapping
    BY DEF Meant, Called, Within
  <2>2. DOMAIN Mapping \subseteq Nat
    BY MappingFacts
  <2>3. Meant(Head(todo)) # {}
    BY DEF LoadMapped
  <2>4. QED
    BY <2>1, <2>2, <2>3
<1>2. i \in DOMAIN Mapping
  BY <1>1, FirstExists
<1>3. Len(files) = Len(Mapping) /\ \A j \in 1 .. Len(files) : Excusable(DocumentAt(j))
  BY DEF LoadMapped, LoadingInv, FilesOK
<1>4. Excusable([path |-> Mapping[i].path, publication |-> files[i]])
  BY <1>2, <1>3, MappingFacts DEF DocumentAt
<1>5. stage = "loading" /\ Loaded(Mapping[i].type, Mapping[i].path, files[i])
  BY DEF LoadMapped
<1>6. QED
  BY <1>4, <1>5, LoadedKeeps

LEMMA LoadUnmappedKeeps == ASSUME LoadingInv, LoadUnmapped PROVE LoadingInv'
<1>1. /\ stage = "loading" /\ Head(todo) \notin Paths
      /\ Loaded("unmapped", Head(todo), disk[Head(todo)])
  BY MappingFacts DEF LoadUnmapped
<1>2. QED
  BY <1>1, LoadedKeeps

LEMMA LoadRelaxedKeeps == ASSUME LoadingInv, LoadRelaxed PROVE LoadingInv'
<1>1. PICK i \in DOMAIN Mapping : Loaded(Mapping[i].type, Mapping[i].path, disk[Mapping[i].path])
  BY DEF LoadRelaxed
<1>2. QED
  BY <1>1, LoadedKeeps DEF LoadRelaxed

\* Steps that touch neither the documents nor what is held.
LEMMA OtherLoadingKeeps ==
    ASSUME LoadingInv, VerifyUnmapped \/ SkipRelaxed \/ Finish PROVE LoadingInv'
<1>1. /\ stage = "loading" /\ stage' \in {"loading", "ready"}
      /\ UNCHANGED <<disk, strict, metadata, files, held, overtaken>>
  BY DEF VerifyUnmapped, SkipRelaxed, Finish
<1>2. QED
  BY <1>1 DEF LoadingInv, DiskOK, MetadataOK, ReadingOK, FilesOK, HeldOK, DocumentAt, Excusable

LEMMA LoadingPreserved == LoadingInv /\ [LoadingNext]_loadingVars => LoadingInv'
<1> SUFFICES ASSUME LoadingInv, [LoadingNext]_loadingVars PROVE LoadingInv'
  OBVIOUS
<1>1. ASSUME NEW p \in OnDisk, Upgrade(p) PROVE LoadingInv'
  BY <1>1, UpgradeKeeps
<1>2. CASE OpenStrict \/ OpenRelaxed
  BY <1>2, OpenKeeps
<1>3. CASE ReadFile
  BY <1>3, ReadFileKeeps
<1>4. CASE ValidateFile
  BY <1>4, ValidateFileKeeps
<1>5. CASE RefuseFile \/ Inconsistent \/ RefuseUnmapped \/ RefuseCatalog
  <2>1. Fail /\ stage # "idle"
    BY <1>5 DEF RefuseFile, Inconsistent, AllRead, RefuseUnmapped, RefuseCatalog
  <2>2. QED
    BY <2>1, FailKeeps
<1>6. CASE Consistent
  BY <1>6, ConsistentKeeps
<1>7. CASE LoadMapped
  BY <1>7, LoadMappedKeeps
<1>8. CASE LoadUnmapped
  BY <1>8, LoadUnmappedKeeps
<1>9. CASE LoadRelaxed
  BY <1>9, LoadRelaxedKeeps
<1>10. CASE VerifyUnmapped \/ SkipRelaxed \/ Finish
  BY <1>10, OtherLoadingKeeps
<1>11. CASE UNCHANGED loadingVars
  BY <1>11 DEF loadingVars, LoadingInv, DiskOK, MetadataOK, ReadingOK, FilesOK, HeldOK, AtHand, DocumentAt, Excusable
<1>12. QED
  BY <1>1, <1>2, <1>3, <1>4, <1>5, <1>6, <1>7, <1>8, <1>9, <1>10, <1>11 DEF LoadingNext

\* For every catalog, and whenever and in whatever order its files are replaced:
\* what a strict loader holds of a mapped file is not newer than the metadata, and
\* older only if the file was replaced between its reading and its comparison
\* (porto_data_validator.py:52-68, loader.py:103-118).
THEOREM OldOnlyIfOvertakenCorrect == LoadingSpec => []OldOnlyIfOvertaken
<1>1. LoadingInv => OldOnlyIfOvertaken
  BY DEF LoadingInv, HeldOK, OldOnlyIfOvertaken, MappedRows
<1>2. QED
  BY <1>1, LoadingInitially, LoadingPreserved, PTL DEF LoadingSpec
-----------------------------------------------------------------------------
(* What the names wait for *)

Known(table) == ToSet(NamesOf(table))

LEMMA NamesAreOnce ==
    ASSUME NEW E, NEW table \in Seq(E)
    PROVE  NamesOf(table) \in Seq(Known(table)) /\ Once(NamesOf(table))
<1> DEFINE V == {table[i].file : i \in DOMAIN table}
           s == [i \in DOMAIN table |-> table[i].file]
<1>1. DOMAIN table = 1 .. Len(table) /\ Len(table) \in Nat
  OBVIOUS
<1>2. s \in Seq(V)
  <2>1. \A i \in 1 .. Len(table) : table[i].file \in V
    BY <1>1
  <2> HIDE DEF V
  <2>2. QED
    BY <1>1, <2>1
<1> HIDE DEF s, V
<1>3. Distinct(s) \in Seq(V) /\ Once(Distinct(s))
  BY <1>2, DistinctRange, DistinctOnce
<1>4. NamesOf(table) = Distinct(s)
  BY DEF NamesOf, s
<1>5. NamesOf(table) \in Seq(V)
  BY <1>3, <1>4
<1>6. QED
  BY <1>3, <1>4, <1>5, OwnRange DEF Known

LEMMA WaitsAreKnown == ASSUME NEW table, NEW f PROVE Waits(table, f) \subseteq Known(table)
BY DEF Waits, Known

LEMMA KnownCounted ==
    ASSUME NEW E, NEW table \in Seq(E)
    PROVE  /\ Len(NamesOf(table)) \in Nat
           /\ IsFiniteSet(Known(table)) /\ Cardinality(Known(table)) = Len(NamesOf(table))
<1> DEFINE names == NamesOf(table)
           V == Known(table)
<1>1. names \in Seq(V) /\ Once(names)
  BY NamesAreOnce
<1>2. ToSet(names) = V
  BY DEF Known
<1> HIDE DEF names, V
<1>3. IsFiniteSet(V) /\ Cardinality(V) = Len(names) /\ Len(names) \in Nat
  BY <1>1, <1>2, CountOnce
<1>4. QED
  BY <1>3 DEF names, V

ReachRun(run, table, f) ==
    /\ run[0] = Waits(table, f)
    /\ \A i \in 1 .. Len(NamesOf(table)) : run[i] = Wider(table, run[i - 1])
    /\ \A i \in 0 .. Len(NamesOf(table)) : run[i] \in SUBSET Known(table)
    /\ Reaches(table, f) = run[Len(NamesOf(table))]

LEMMA WiderIsKnown ==
    ASSUME NEW table, NEW S \in SUBSET Known(table) PROVE Wider(table, S) \in SUBSET Known(table) /\ S \subseteq Wider(table, S)
BY WaitsAreKnown DEF Wider

LEMMA ReachSteps ==
    ASSUME NEW E, NEW table \in Seq(E), NEW f PROVE \E run : ReachRun(run, table, f)
<1> DEFINE n == Len(NamesOf(table))
           W == SUBSET Known(table)
           a == Waits(table, f)
           step == [p \in (1 .. n) \X W |-> Wider(table, p[2])]
           Body(g) == [i \in 0 .. n |-> IF i = 0 THEN a ELSE Wider(table, g[i - 1])]
           all == CHOOSE g : g = Body(g)
<1>1. n \in Nat /\ a \in W /\ \A w \in W : Wider(table, w) \in W
  BY KnownCounted, WaitsAreKnown, WiderIsKnown
<1>2. Reaches(table, f) = all[n]
  BY DEF Reaches
<1> HIDE DEF n, W, a
<1>3. step \in [(1 .. n) \X W -> W]
  BY <1>1
<1>4. PICK g : g \in [0 .. n -> W] /\ g[0] = a /\ \A i \in 1 .. n : g[i] = step[<<i, g[i - 1]>>]
  <2> HIDE DEF step
  <2>1. \E g : Iterates(g, W, a, n, step)
    BY <1>1, <1>3, Recursion
  <2>2. QED
    BY <2>1 DEF Iterates
<1>5. \A i \in 1 .. n : i - 1 \in 0 .. n /\ i \in 0 .. n /\ i # 0
  BY <1>1
<1>6. \A i \in 1 .. n : g[i] = Wider(table, g[i - 1])
  <2> TAKE i \in 1 .. n
  <2>1. <<i, g[i - 1]>> \in (1 .. n) \X W
    BY <1>4, <1>5
  <2>2. QED
    BY <1>4, <2>1
<1> HIDE DEF step
<1>7. g = Body(g)
  <2>1. \A i \in 0 .. n : g[i] = Body(g)[i]
    <3> TAKE i \in 0 .. n
    <3>1. i = 0 \/ i \in 1 .. n
      BY <1>1
    <3>2. QED
      BY <1>4, <1>6, <3>1
  <2>2. QED
    BY <1>4, <2>1
<1>8. all = Body(all)
  <2> HIDE DEF Body
  <2>1. QED
    BY <1>7
<1> HIDE DEF all
<1>9. all[0] = a /\ \A i \in 1 .. n : all[i] = Wider(table, all[i - 1])
  <2>1. \A i \in 0 .. n : all[i] = Body(all)[i]
    BY <1>8
  <2>2. 0 \in 0 .. n
    BY <1>1
  <2>3. QED
    BY <1>5, <2>1, <2>2
<1> DEFINE T == {m \in Nat : m <= n => all[m] \in W}
<1>10. 0 \in T
  BY <1>1, <1>9
<1>11. ASSUME NEW m \in Nat, m \in T PROVE m + 1 \in T
  <2> SUFFICES ASSUME m + 1 <= n PROVE all[m + 1] \in W
    OBVIOUS
  <2>1. m + 1 \in 1 .. n /\ (m + 1) - 1 = m /\ all[m] \in W
    BY <1>1, <1>11
  <2>2. QED
    BY <1>1, <1>9, <2>1
<1>12. Nat \subseteq T
  <2> HIDE DEF T
  <2>1. QED
    BY <1>10, <1>11, Induction
<1>13. \A i \in 0 .. n : all[i] \in W
  BY <1>1, <1>12
<1>14. QED
  BY <1>2, <1>9, <1>13 DEF ReachRun, n, W, a

Closed(table, S) == \A g \in S : Waits(table, g) \subseteq S

\* In as many rounds as there are names, what is reached is closed: until then
\* each round adds a name.
LEMMA ReachesClosed ==
    ASSUME NEW E, NEW table \in Seq(E), NEW f
    PROVE  /\ Reaches(table, f) \in SUBSET Known(table)
           /\ Waits(table, f) \subseteq Reaches(table, f)
           /\ Closed(table, Reaches(table, f))
<1> DEFINE n == Len(NamesOf(table))
           V == Known(table)
<1>1. PICK run : ReachRun(run, table, f)
  BY ReachSteps
<1>2. n \in Nat /\ IsFiniteSet(V) /\ Cardinality(V) = n
  BY KnownCounted
<1>3. /\ run[0] = Waits(table, f)
      /\ \A i \in 1 .. n : run[i] = Wider(table, run[i - 1])
      /\ \A i \in 0 .. n : run[i] \in SUBSET V
      /\ Reaches(table, f) = run[n]
  BY <1>1 DEF ReachRun
<1>4. \A g : Waits(table, g) \subseteq V
  BY WaitsAreKnown
<1>5. \A S \in SUBSET V : /\ S \subseteq Wider(table, S) /\ Wider(table, S) \in SUBSET V
                          /\ Closed(table, S) => Wider(table, S) = S
                          /\ Wider(table, S) = S => Closed(table, S)
  BY WiderIsKnown DEF Wider, Closed
<1> HIDE DEF n, V
<1> DEFINE T == {m \in Nat : m <= n => /\ Waits(table, f) \subseteq run[m]
                                        /\ (Closed(table, run[m]) \/ Cardinality(run[m]) >= m)}
<1>6. \A S \in SUBSET V : IsFiniteSet(S) /\ Cardinality(S) \in Nat
  BY <1>2, FS_Subset, FS_CardinalityType
<1>7. 0 \in T
  <2>1. run[0] \in SUBSET V
    BY <1>2, <1>3
  <2>2. Cardinality(run[0]) \in Nat
    BY <1>6, <2>1
  <2>3. QED
    BY <1>3, <2>2
<1>8. ASSUME NEW m \in Nat, m \in T PROVE m + 1 \in T
  <2> SUFFICES ASSUME m + 1 <= n
               PROVE  /\ Waits(table, f) \subseteq run[m + 1]
                      /\ (Closed(table, run[m + 1]) \/ Cardinality(run[m + 1]) >= m + 1)
    OBVIOUS
  <2>1. m + 1 \in 1 .. n /\ m \in 0 .. n /\ m + 1 \in 0 .. n /\ (m + 1) - 1 = m
    BY <1>2
  <2> DEFINE S == run[m]
             R == run[m + 1]
  <2>2. S \in SUBSET V /\ R \in SUBSET V /\ R = Wider(table, S)
    BY <1>3, <2>1
  <2>3. Waits(table, f) \subseteq S /\ (Closed(table, S) \/ Cardinality(S) >= m)
    BY <1>2, <1>8, <2>1
  <2> HIDE DEF S, R
  <2>4. S \subseteq R
    BY <1>5, <2>2
  <2>5. CASE R = S
    <3>1. Closed(table, R)
      BY <1>5, <2>2, <2>5
    <3>2. QED
      BY <2>3, <2>5, <3>1 DEF S, R
  <2>6. CASE R # S
    <3>1. ~Closed(table, S)
      BY <1>5, <2>2, <2>6
    <3>2. Cardinality(S) <= Cardinality(R) /\ Cardinality(R) # Cardinality(S)
      BY <1>6, <2>2, <2>4, <2>6, FS_Subset
    <3>3. Cardinality(S) \in Nat /\ Cardinality(R) \in Nat /\ Cardinality(S) >= m
      BY <1>6, <2>2, <2>3, <3>1
    <3>4. Cardinality(R) >= m + 1
      BY <3>2, <3>3
    <3>5. QED
      BY <2>3, <2>4, <3>4 DEF S, R
  <2>7. QED
    BY <2>5, <2>6
<1>9. n \in T
  <2> HIDE DEF T
  <2>1. QED
    BY <1>2, <1>7, <1>8, Induction
<1> DEFINE S == run[n]
<1>10. S \in SUBSET V
  BY <1>2, <1>3
<1>11. Waits(table, f) \subseteq S /\ (Closed(table, S) \/ Cardinality(S) >= n)
  BY <1>2, <1>9
<1> HIDE DEF S, T
<1>12. Closed(table, S)
  <2>1. CASE Cardinality(S) >= n
    <3>1. Cardinality(S) <= n /\ Cardinality(S) \in Nat
      BY <1>2, <1>6, <1>10, FS_Subset
    <3>2. Cardinality(V) = Cardinality(S)
      BY <1>2, <2>1, <3>1
    <3>3. S = V
      BY <1>2, <1>10, <3>2, FS_Subset
    <3>4. QED
      BY <1>4, <3>3 DEF Closed
  <2>2. QED
    BY <1>11, <2>1
<1>13. QED
  BY <1>3, <1>10, <1>11, <1>12 DEF S, V

\* And it is the least that is closed.
LEMMA ReachesLeast ==
    ASSUME NEW E, NEW table \in Seq(E), NEW f, NEW C, Waits(table, f) \subseteq C, Closed(table, C)
    PROVE  Reaches(table, f) \subseteq C
<1> DEFINE n == Len(NamesOf(table))
<1>1. PICK run : ReachRun(run, table, f)
  BY ReachSteps
<1>2. n \in Nat
  BY KnownCounted
<1>3. /\ run[0] = Waits(table, f)
      /\ \A i \in 1 .. n : run[i] = Wider(table, run[i - 1])
      /\ Reaches(table, f) = run[n]
  BY <1>1 DEF ReachRun
<1> HIDE DEF n
<1> DEFINE T == {m \in Nat : m <= n => run[m] \subseteq C}
<1>4. 0 \in T
  BY <1>3
<1>5. ASSUME NEW m \in Nat, m \in T PROVE m + 1 \in T
  <2> SUFFICES ASSUME m + 1 <= n PROVE run[m + 1] \subseteq C
    OBVIOUS
  <2>1. m + 1 \in 1 .. n /\ (m + 1) - 1 = m /\ run[m] \subseteq C
    BY <1>2, <1>5
  <2>2. run[m + 1] = Wider(table, run[m])
    BY <1>3, <2>1
  <2>3. QED
    BY <2>1, <2>2 DEF Wider, Closed
<1>6. n \in T
  <2> HIDE DEF T
  <2>1. QED
    BY <1>2, <1>4, <1>5, Induction
<1>7. QED
  BY <1>2, <1>3, <1>6

\* Without a cycle, what holds every name that waits for nothing else holds all.
LEMMA AcyclicIsExhausted ==
    ASSUME NEW E, NEW table \in Seq(E), Acyclic(table),
           NEW D \in SUBSET Known(table), \A f \in Known(table) : Waits(table, f) \subseteq D => f \in D
    PROVE  D = Known(table)
<1> DEFINE V == Known(table)
           left == V \ D
           size(f) == Cardinality(Reaches(table, f))
           sizes == {size(f) : f \in left}
<1>1. IsFiniteSet(V)
  BY KnownCounted
<1>2. \A f : Reaches(table, f) \in SUBSET V /\ Waits(table, f) \subseteq Reaches(table, f) /\ Closed(table, Reaches(table, f))
  BY ReachesClosed
<1>3. \A f : IsFiniteSet(Reaches(table, f)) /\ size(f) \in Nat
  BY <1>1, <1>2, FS_Subset, FS_CardinalityType
<1> SUFFICES ASSUME left # {} PROVE FALSE
  OBVIOUS
<1>4. sizes \subseteq Nat /\ sizes # {}
  <2> HIDE DEF left, size
  <2>1. QED
    BY <1>3
<1>5. PICK m \in sizes : \A k \in sizes : m <= k
  <2> HIDE DEF sizes
  <2>1. QED
    BY <1>4, Least
<1>6. PICK f \in left : m = size(f)
  BY <1>5
<1>7. PICK g \in Waits(table, f) : g \notin D
  BY <1>6
<1>8. g \in left /\ g \in Reaches(table, f)
  BY <1>2, <1>7, WaitsAreKnown
<1>9. Reaches(table, g) \subseteq Reaches(table, f)
  <2> DEFINE C == Reaches(table, f)
  <2>1. Closed(table, C) /\ Waits(table, g) \subseteq C
    BY <1>2, <1>8 DEF Closed
  <2> HIDE DEF C
  <2>2. Reaches(table, g) \subseteq C
    BY <2>1, ReachesLeast
  <2>3. QED
    BY <2>2 DEF C
<1>10. g \notin Reaches(table, g)
  BY <1>8 DEF Acyclic, Known
<1>11. size(g) <= size(f) /\ size(g) # size(f)
  <2>1. Reaches(table, g) # Reaches(table, f)
    BY <1>8, <1>10
  <2>2. QED
    BY <1>3, <1>9, <2>1, FS_Subset
<1>12. size(f) <= size(g)
  BY <1>5, <1>6, <1>8
<1>13. QED
  <2> HIDE DEF size
  <2>1. QED
    BY <1>3, <1>11, <1>12
-----------------------------------------------------------------------------
(* The topological sort *)

LEMMA NamesRange ==
    ASSUME NEW E, NEW table \in Seq(E)
    PROVE  ToSet(NamesOf(table)) = {row.file : row \in ToSet(table)}
<1> DEFINE V == {table[i].file : i \in DOMAIN table}
           s == [i \in DOMAIN table |-> table[i].file]
<1>1. DOMAIN table = 1 .. Len(table) /\ Len(table) \in Nat
  OBVIOUS
<1>2. s \in Seq(V)
  <2>1. \A i \in 1 .. Len(table) : table[i].file \in V
    BY <1>1
  <2> HIDE DEF V
  <2>2. QED
    BY <1>1, <2>1
<1>3. ToSet(s) = V
  BY DEF ToSet
<1>4. V = {row.file : row \in ToSet(table)}
  BY DEF ToSet
<1> HIDE DEF s, V
<1>5. ToSet(Distinct(s)) = ToSet(s)
  BY <1>2, DistinctRange
<1>6. NamesOf(table) = Distinct(s)
  BY DEF NamesOf, s
<1>7. QED
  BY <1>3, <1>4, <1>5, <1>6

Waiting(table, name, done) ==
    {f \in Known(table) : name \in Waits(table, f) /\ Waits(table, f) \subseteq done}

LEMMA FreedFacts ==
    ASSUME NEW E, NEW table \in Seq(E), NEW name, NEW done
    PROVE  LET freed == Freed(table, name, done)
           IN  /\ freed \in Seq(Known(table)) /\ Once(freed)
               /\ ToSet(freed) = Waiting(table, name, done)
<1> DEFINE some == {row \in ToSet(table) : row.needs # {}}
           rows == Keep(table, some)
           names == NamesOf(rows)
           U == ToSet(names)
           wanted == {f \in U : name \in Waits(table, f) /\ Waits(table, f) \subseteq done}
<1>1. rows \in Seq(E \cap some) /\ ToSet(rows) = ToSet(table) \cap some
  <2> HIDE DEF some
  <2>1. QED
    BY KeepType
<1>2. names \in Seq(U) /\ Once(names)
  <2> DEFINE Z == E \cap some
  <2> HIDE DEF some, rows, Z
  <2>1. rows \in Seq(Z)
    BY <1>1 DEF Z
  <2>2. QED
    BY <2>1, NamesAreOnce DEF Known
<1>3. U = {row.file : row \in some}
  <2> DEFINE Z == E \cap some
  <2>1. ToSet(rows) = some
    BY <1>1
  <2> HIDE DEF some, rows, Z
  <2>2. rows \in Seq(Z)
    BY <1>1 DEF Z
  <2>3. ToSet(NamesOf(rows)) = {row.file : row \in ToSet(rows)}
    BY <2>2, NamesRange
  <2>4. QED
    BY <2>1, <2>3
<1>4. Known(table) = {row.file : row \in ToSet(table)}
  BY NamesRange DEF Known
<1>5. U \subseteq Known(table)
  BY <1>3, <1>4
<1>6. \A f : name \in Waits(table, f) => f \in U
  <2> SUFFICES ASSUME NEW f, name \in Waits(table, f) PROVE f \in U
    OBVIOUS
  <2>1. PICK i \in DOMAIN table : table[i].file = f /\ name \in table[i].needs
    BY DEF Waits
  <2>2. table[i] \in some
    BY <2>1 DEF ToSet
  <2>3. QED
    BY <1>3, <2>1, <2>2
<1> HIDE DEF names, U
<1>7. Keep(names, wanted) \in Seq(U \cap wanted) /\ ToSet(Keep(names, wanted)) = U \cap wanted /\ Once(Keep(names, wanted))
  <2> HIDE DEF wanted
  <2>1. ToSet(names) = U
    BY DEF U
  <2>2. QED
    BY <1>2, <2>1, KeepType, KeepOnce
<1>8. Freed(table, name, done) = Keep(names, wanted)
  BY DEF Freed, Dependent, names, U
<1>9. U \cap wanted = Waiting(table, name, done)
  BY <1>5, <1>6 DEF Waiting
<1>10. Waiting(table, name, done) \subseteq Known(table)
  BY DEF Waiting
<1> DEFINE freed == Keep(names, wanted)
           G == Waiting(table, name, done)
           V == Known(table)
<1> HIDE DEF wanted, freed, G, V
<1>11. freed \in Seq(G) /\ G \subseteq V
  BY <1>7, <1>9, <1>10 DEF freed, G, V
<1>12. freed \in Seq(V)
  BY <1>11
<1>13. QED
  BY <1>7, <1>8, <1>9, <1>12 DEF freed, G, V

\* Every name stands after what it waits for.
InOrder(table, order) ==
    \A p \in 1 .. Len(order) : Waits(table, order[p]) \subseteq {order[q] : q \in 1 .. p - 1}

\* What is processed and what is queued are the names whose dependencies are all
\* processed, each once, and what is processed is in order.
SortInv(table, s) ==
    /\ s.order \in Seq(Known(table)) /\ s.queue \in Seq(Known(table))
    /\ Once(s.order) /\ Once(s.queue)
    /\ ToSet(s.order) \cap ToSet(s.queue) = {}
    /\ ToSet(s.order) \union ToSet(s.queue) = {f \in Known(table) : Waits(table, f) \subseteq ToSet(s.order)}
    /\ InOrder(table, s.order)

LEMMA BegunKeeps ==
    ASSUME NEW E, NEW table \in Seq(E) PROVE SortInv(table, Begun(table)) /\ Begun(table).order = <<>>
<1> DEFINE V == Known(table)
           names == NamesOf(table)
           free == {f \in ToSet(names) : Waits(table, f) = {}}
           queue == Keep(names, free)
<1>1. names \in Seq(V) /\ Once(names) /\ ToSet(names) = V
  BY NamesAreOnce DEF Known
<1>2. Begun(table).order = <<>> /\ Begun(table).queue = queue
  BY DEF Begun
<1>3. free = {f \in V : Waits(table, f) \subseteq {}}
  BY <1>1
<1> HIDE DEF V, names, free
<1>4. queue \in Seq(V \cap free) /\ ToSet(queue) = V \cap free /\ Once(queue)
  BY <1>1, KeepType, KeepOnce
<1> HIDE DEF queue
<1>5. queue \in Seq(V) /\ ToSet(queue) = free
  BY <1>3, <1>4
<1>6. /\ <<>> \in Seq(V) /\ Len(<<>>) = 0 /\ ToSet(<<>>) = {}
  BY DEF ToSet
<1>7. Once(<<>>) /\ InOrder(table, <<>>)
  BY DEF Once, InOrder
<1>8. QED
  BY <1>2, <1>3, <1>4, <1>5, <1>6, <1>7 DEF SortInv, V

LEMMA ProcessKeeps ==
    ASSUME NEW E, NEW table \in Seq(E), NEW s, SortInv(table, s), s.queue # <<>>
    PROVE  SortInv(table, Process(table, s)) /\ Len(Process(table, s).order) = Len(s.order) + 1
<1> DEFINE V == Known(table)
           order == s.order
           queue == s.queue
           name == Head(queue)
           rest == Tail(queue)
           grown == Append(order, name)
           freed == Freed(table, name, ToSet(order) \union {name})
           next == rest \o freed
<1>1. /\ order \in Seq(V) /\ queue \in Seq(V) /\ Once(order) /\ Once(queue) /\ queue # <<>>
      /\ ToSet(order) \cap ToSet(queue) = {}
      /\ ToSet(order) \union ToSet(queue) = {f \in V : Waits(table, f) \subseteq ToSet(order)}
      /\ \A p \in 1 .. Len(order) : Waits(table, order[p]) \subseteq {order[q] : q \in 1 .. p - 1}
  BY DEF SortInv, InOrder
<1>2. Process(table, s).order = grown /\ Process(table, s).queue = next
  BY DEF Process
<1>3. /\ freed \in Seq(V) /\ Once(freed)
      /\ ToSet(freed) = {f \in V : name \in Waits(table, f) /\ Waits(table, f) \subseteq ToSet(order) \union {name}}
  BY FreedFacts DEF Waiting
<1>4. order = s.order
  OBVIOUS
<1> HIDE DEF V, order, queue, freed
<1>5. /\ name \in V /\ name \in ToSet(queue)
      /\ rest \in Seq(V) /\ Once(rest) /\ ToSet(rest) = ToSet(queue) \ {name}
  BY <1>1, OnceTail
<1>6. name \notin ToSet(order) /\ Waits(table, name) \subseteq ToSet(order)
  BY <1>1, <1>5
<1> HIDE DEF name, rest
<1>7. grown \in Seq(V) /\ ToSet(grown) = ToSet(order) \union {name} /\ Once(grown)
  BY <1>1, <1>5, <1>6, ToSetAppend, OnceAppend
<1>8. /\ Len(grown) = Len(order) + 1 /\ Len(order) \in Nat
      /\ grown[Len(order) + 1] = name /\ \A i \in 1 .. Len(order) : grown[i] = order[i]
  BY <1>1, <1>5
<1>9. ToSet(order) = {order[q] : q \in 1 .. Len(order)}
  BY <1>1 DEF ToSet
<1>10. ToSet(freed) \cap ToSet(queue) = {} /\ ToSet(freed) \cap ToSet(order) = {}
  BY <1>1, <1>3, <1>6
<1>11. ToSet(rest) \cap ToSet(freed) = {}
  BY <1>5, <1>10
<1>12. next \in Seq(V) /\ ToSet(next) = ToSet(rest) \union ToSet(freed) /\ Once(next)
  BY <1>3, <1>5, <1>11, ToSetConcat, OnceConcat
<1> HIDE DEF grown, next
<1>13. ToSet(grown) \cap ToSet(next) = {}
  BY <1>1, <1>5, <1>7, <1>10, <1>12
<1>14. ToSet(grown) \union ToSet(next) = {f \in V : Waits(table, f) \subseteq ToSet(grown)}
  BY <1>1, <1>3, <1>5, <1>7, <1>12
<1>15. InOrder(table, grown)
  <2> SUFFICES ASSUME NEW p \in 1 .. Len(grown)
               PROVE  Waits(table, grown[p]) \subseteq {grown[q] : q \in 1 .. p - 1}
    BY DEF InOrder
  <2>1. CASE p \in 1 .. Len(order)
    <3>1. \A q \in 1 .. p - 1 : grown[q] = order[q]
      BY <1>8, <2>1
    <3>2. QED
      BY <1>1, <1>8, <2>1, <3>1
  <2>2. CASE p = Len(order) + 1
    <3>1. p - 1 = Len(order) /\ grown[p] = name
      BY <1>8, <2>2
    <3>2. QED
      BY <1>6, <1>8, <1>9, <3>1
  <2>3. QED
    BY <1>8, <2>1, <2>2
<1> DEFINE after == Process(table, s)
<1> HIDE DEF after
<1>16. /\ grown \in Seq(V) /\ next \in Seq(V) /\ Once(grown) /\ Once(next)
       /\ after.order = grown /\ after.queue = next
  BY <1>2, <1>7, <1>12 DEF after
<1>17. SortInv(table, after)
  <2>1. /\ after.order \in Seq(V) /\ after.queue \in Seq(V) /\ Once(after.order) /\ Once(after.queue)
        /\ ToSet(after.order) \cap ToSet(after.queue) = {}
    BY <1>13, <1>16
  <2>2. ToSet(after.order) \union ToSet(after.queue) = {f \in V : Waits(table, f) \subseteq ToSet(after.order)}
    BY <1>14, <1>16, Zenon
  <2>3. InOrder(table, after.order)
    BY <1>15, <1>16
  <2>4. QED
    BY <2>1, <2>2, <2>3, Zenon DEF SortInv, V
<1>18. Len(after.order) = Len(s.order) + 1
  BY <1>4, <1>8, <1>16
<1>19. QED
  BY <1>17, <1>18 DEF after

SortStates(table) == [order : Seq(Known(table)), queue : Seq(Known(table))]

SortRun(run, table) ==
    /\ run[0] = Begun(table)
    /\ \A i \in 1 .. Len(NamesOf(table)) : run[i] = Advanced(table, run[i - 1])
    /\ Sorted(table) = run[Len(NamesOf(table))].order

LEMMA AdvancedIsAState ==
    ASSUME NEW E, NEW table \in Seq(E), NEW s \in SortStates(table)
    PROVE  Advanced(table, s) \in SortStates(table)
<1> DEFINE V == Known(table)
           freed == Freed(table, Head(s.queue), ToSet(s.order) \union {Head(s.queue)})
<1>1. s.order \in Seq(V) /\ s.queue \in Seq(V)
  BY DEF SortStates
<1>2. CASE s.queue = <<>>
  BY <1>2 DEF Advanced
<1>3. CASE s.queue # <<>>
  <2>1. freed \in Seq(V)
    BY FreedFacts
  <2>2. Advanced(table, s) = [order |-> Append(s.order, Head(s.queue)), queue |-> Tail(s.queue) \o freed]
    BY <1>3 DEF Advanced, Process
  <2> HIDE DEF V, freed
  <2>3. Append(s.order, Head(s.queue)) \in Seq(V) /\ Tail(s.queue) \o freed \in Seq(V)
    BY <1>1, <1>3, <2>1
  <2>4. QED
    BY <2>2, <2>3 DEF SortStates, V
<1>4. QED
  BY <1>2, <1>3

LEMMA SortSteps ==
    ASSUME NEW E, NEW table \in Seq(E) PROVE \E run : SortRun(run, table)
<1> DEFINE n == Len(NamesOf(table))
           W == SortStates(table)
           a == Begun(table)
           step == [p \in (1 .. n) \X W |-> Advanced(table, p[2])]
           Body(g) == [i \in 0 .. n |-> IF i = 0 THEN a ELSE Advanced(table, g[i - 1])]
           all == CHOOSE g : g = Body(g)
<1>1. n \in Nat /\ a \in W /\ \A w \in W : Advanced(table, w) \in W
  <2>1. a.order \in Seq(Known(table)) /\ a.queue \in Seq(Known(table))
    BY BegunKeeps DEF SortInv
  <2>2. a = [order |-> a.order, queue |-> a.queue]
    BY DEF Begun
  <2>3. a \in W
    <3> HIDE DEF a
    <3>1. QED
      BY <2>1, <2>2 DEF SortStates
  <2>4. QED
    BY <2>3, KnownCounted, AdvancedIsAState
<1>2. Sorted(table) = all[n].order
  BY DEF Sorted
<1> HIDE DEF n, W, a
<1>3. step \in [(1 .. n) \X W -> W]
  BY <1>1
<1>4. PICK g : g \in [0 .. n -> W] /\ g[0] = a /\ \A i \in 1 .. n : g[i] = step[<<i, g[i - 1]>>]
  <2> HIDE DEF step
  <2>1. \E g : Iterates(g, W, a, n, step)
    BY <1>1, <1>3, Recursion
  <2>2. QED
    BY <2>1 DEF Iterates
<1>5. \A i \in 1 .. n : i - 1 \in 0 .. n /\ i \in 0 .. n /\ i # 0
  BY <1>1
<1>6. \A i \in 1 .. n : g[i] = Advanced(table, g[i - 1])
  <2> TAKE i \in 1 .. n
  <2>1. <<i, g[i - 1]>> \in (1 .. n) \X W
    BY <1>4, <1>5
  <2>2. QED
    BY <1>4, <2>1
<1> HIDE DEF step
<1>7. g = Body(g)
  <2>1. \A i \in 0 .. n : g[i] = Body(g)[i]
    <3> TAKE i \in 0 .. n
    <3>1. i = 0 \/ i \in 1 .. n
      BY <1>1
    <3>2. QED
      BY <1>4, <1>6, <3>1
  <2>2. QED
    BY <1>4, <2>1
<1>8. all = Body(all)
  <2> HIDE DEF Body
  <2>1. QED
    BY <1>7
<1> HIDE DEF all
<1>9. all[0] = a /\ \A i \in 1 .. n : all[i] = Advanced(table, all[i - 1])
  <2>1. \A i \in 0 .. n : all[i] = Body(all)[i]
    BY <1>8
  <2>2. 0 \in 0 .. n
    BY <1>1
  <2>3. QED
    BY <1>5, <2>1, <2>2
<1>10. QED
  BY <1>2, <1>9 DEF SortRun, n, a

\* The sort reaches every name of a table without a cycle, and each of them after
\* the names it waits for.
LEMMA SortedInOrder ==
    ASSUME NEW E, NEW table \in Seq(E), Acyclic(table)
    PROVE  /\ Sorted(table) \in Seq(Known(table)) /\ ToSet(Sorted(table)) = Known(table)
           /\ Once(Sorted(table))
           /\ InOrder(table, Sorted(table))
<1> DEFINE n == Len(NamesOf(table))
           V == Known(table)
<1>1. PICK run : SortRun(run, table)
  BY SortSteps
<1>2. n \in Nat /\ IsFiniteSet(V) /\ Cardinality(V) = n
  BY KnownCounted
<1>3. /\ run[0] = Begun(table)
      /\ \A i \in 1 .. n : run[i] = Advanced(table, run[i - 1])
      /\ Sorted(table) = run[n].order
  BY <1>1 DEF SortRun
<1> HIDE DEF n
<1> DEFINE Good(s, m) == SortInv(table, s) /\ (s.queue = <<>> \/ Len(s.order) = m)
           T == {m \in Nat : m <= n => Good(run[m], m)}
<1>4. 0 \in T
  <2>1. Len(<<>>) = 0
    OBVIOUS
  <2>2. QED
    BY <1>3, <2>1, BegunKeeps
<1>5. ASSUME NEW m \in Nat, NEW s, Good(s, m) PROVE Good(Advanced(table, s), m + 1)
  <2>1. CASE s.queue = <<>>
    BY <1>5, <2>1 DEF Advanced
  <2>2. CASE s.queue # <<>>
    BY <1>5, <2>2, ProcessKeeps DEF Advanced
  <2>3. QED
    BY <2>1, <2>2
<1> HIDE DEF Good
<1>6. ASSUME NEW m \in Nat, m \in T PROVE m + 1 \in T
  <2> SUFFICES ASSUME m + 1 <= n PROVE Good(run[m + 1], m + 1)
    OBVIOUS
  <2>1. m + 1 \in 1 .. n /\ (m + 1) - 1 = m /\ Good(run[m], m)
    BY <1>2, <1>6
  <2>2. run[m + 1] = Advanced(table, run[m])
    BY <1>3, <2>1
  <2>3. QED
    BY <1>5, <2>1, <2>2
<1>7. Good(run[n], n)
  <2>1. n \in T
    <3> HIDE DEF T
    <3>1. QED
      BY <1>2, <1>4, <1>6, Induction
  <2>2. QED
    BY <1>2, <2>1
<1> DEFINE s == run[n]
           D == ToSet(s.order)
<1>8. SortInv(table, s) /\ (s.queue = <<>> \/ Len(s.order) = n)
  BY <1>7 DEF Good
<1> HIDE DEF s
<1>9. /\ s.order \in Seq(V) /\ s.queue \in Seq(V) /\ Once(s.order)
      /\ D \union ToSet(s.queue) = {f \in V : Waits(table, f) \subseteq D}
      /\ InOrder(table, s.order)
  BY <1>8 DEF SortInv
<1>10. D \subseteq V
  BY <1>9
<1>11. D = V
  <2>1. CASE s.queue = <<>>
    <3>1. ToSet(s.queue) = {}
      BY <2>1 DEF ToSet
    <3>2. \A f \in V : Waits(table, f) \subseteq D => f \in D
      BY <1>9, <3>1
    <3> HIDE DEF D
    <3>3. QED
      BY <1>10, <3>2, AcyclicIsExhausted
  <2>2. CASE Len(s.order) = n
    <3> HIDE DEF V
    <3>1. Cardinality(D) = n
      BY <1>9, <2>2, CountOnce
    <3> HIDE DEF D
    <3>2. QED
      BY <1>2, <1>10, <3>1, FS_Subset
  <2>3. QED
    BY <1>8, <2>1, <2>2
<1>12. QED
  BY <1>3, <1>9, <1>11 DEF s

Before(order, p) == {order[q] : q \in 1 .. p - 1}

\* What a name waits for, by however many steps, is loaded before it.
LEMMA ReachedBefore ==
    ASSUME NEW E, NEW table \in Seq(E), NEW order \in Seq(Known(table)), InOrder(table, order), NEW p \in 1 .. Len(order)
    PROVE  Reaches(table, order[p]) \subseteq Before(order, p)
<1> DEFINE C == {order[q] : q \in 1 .. p - 1}
<1>1. Len(order) \in Nat /\ \A q \in 1 .. p - 1 : q \in 1 .. Len(order)
  OBVIOUS
<1>2. Waits(table, order[p]) \subseteq C
  BY DEF InOrder
<1>3. Closed(table, C)
  <2> SUFFICES ASSUME NEW q \in 1 .. p - 1 PROVE Waits(table, order[q]) \subseteq C
    BY DEF Closed
  <2>1. Waits(table, order[q]) \subseteq {order[r] : r \in 1 .. q - 1}
    BY <1>1 DEF InOrder
  <2>2. \A r \in 1 .. q - 1 : r \in 1 .. p - 1
    OBVIOUS
  <2>3. QED
    BY <2>1, <2>2
<1>4. Reaches(table, order[p]) \subseteq C
  <2> HIDE DEF C
  <2>1. QED
    BY <1>2, <1>3, ReachesLeast
<1>5. QED
  BY <1>4 DEF Before

LEMMA NothingKept ==
    ASSUME NEW V, NEW s \in Seq(V), NEW kept, ToSet(s) \cap kept = {} PROVE Keep(s, kept) = <<>>
<1>1. Keep(s, kept) \in Seq(V \cap kept) /\ ToSet(Keep(s, kept)) = {}
  BY KeepType
<1> DEFINE k == Keep(s, kept)
           W == V \cap kept
<1> HIDE DEF k, W
<1>2. k \in Seq(W) /\ ToSet(k) = {}
  BY <1>1 DEF k, W
<1>3. k = <<>>
  BY <1>2, Emptiness
<1>4. QED
  BY <1>3 DEF k

LEMMA AcyclicIsSorted ==
    ASSUME NEW E, NEW table \in Seq(E), Acyclic(table) PROVE LoadOrder(table) = Sorted(table)
<1> DEFINE names == NamesOf(table)
           V == Known(table)
           over == ToSet(names) \ ToSet(Sorted(table))
           left == Keep(names, over)
           cycle == <<"zones.json", "restrictions.json">>
           broken == IF ToSet(cycle) \subseteq ToSet(left) THEN cycle ELSE <<>>
           others == Keep(left, ToSet(left) \ ToSet(broken))
<1>1. names \in Seq(V) /\ Sorted(table) \in Seq(V) /\ over = {}
  BY NamesAreOnce, SortedInOrder DEF Known
<1>2. left = <<>>
  <2> HIDE DEF names, V, over
  <2>1. ToSet(names) \cap over = {}
    BY <1>1
  <2>2. QED
    BY <1>1, <2>1, NothingKept
<1>3. broken = <<>>
  <2>1. ToSet(left) = {}
    BY <1>2 DEF ToSet
  <2>2. cycle[1] \in ToSet(cycle)
    BY DEF ToSet
  <2> HIDE DEF left, cycle
  <2>3. QED
    BY <2>1, <2>2
<1>4. others = <<>>
  <2> DEFINE kept == ToSet(left) \ ToSet(broken)
  <2>1. ToSet(left) \cap kept = {} /\ left \in Seq(V)
    <3>1. ToSet(<<>>) = {} /\ <<>> \in Seq(V)
      BY DEF ToSet
    <3> HIDE DEF left, V
    <3>2. QED
      BY <1>2, <3>1
  <2> HIDE DEF left, kept, V
  <2>2. Keep(left, kept) = <<>>
    BY <2>1, NothingKept
  <2>3. QED
    BY <2>2 DEF kept
<1>5. Unsorted(table) = broken \o others
  BY DEF Unsorted
<1> HIDE DEF broken, others, V
<1>6. Unsorted(table) = <<>>
  BY <1>3, <1>4, <1>5
<1> DEFINE sorted == Sorted(table)
<1> HIDE DEF sorted
<1>7. sorted \in Seq(V)
  BY <1>1 DEF sorted
<1>8. sorted \o <<>> = sorted
  BY <1>7
<1>9. QED
  BY <1>6, <1>8 DEF LoadOrder, sorted
-----------------------------------------------------------------------------
(* What the loaders hold *)

TypeOf(name) == Mapping[FirstOf(Meant(name))].type

DocumentOf(name, read) ==
    [path |-> Mapping[FirstOf(Meant(name))].path, publication |-> read[FirstOf(Meant(name))]]

\* The tables do not load two files of one type.  The code does not compare the
\* types, and the second of two such files would replace the first.
OneFileForAType ==
    \A table \in Graphs : \A f, g \in ToSet(NamesToLoad(table)) :
        Meant(f) # {} /\ Meant(g) # {} /\ TypeOf(f) = TypeOf(g) => FirstOf(Meant(f)) = FirstOf(Meant(g))

LEMMA MeantFacts ==
    ASSUME NEW name, Meant(name) # {}
    PROVE  /\ FirstOf(Meant(name)) \in Meant(name) /\ FirstOf(Meant(name)) \in DOMAIN Mapping
           /\ name \in {Mapping[FirstOf(Meant(name))].path, Mapping[FirstOf(Meant(name))].base,
                        Mapping[FirstOf(Meant(name))].within}
           /\ TypeOf(name) \in FileTypes /\ TypeOf(name) # "unmapped"
<1> DEFINE S == Meant(name)
           i == FirstOf(S)
<1>1. S \subseteq DOMAIN Mapping /\ \A j \in S : name \in {Mapping[j].path, Mapping[j].base, Mapping[j].within}
  BY DEF Meant, Called, Within
<1>2. S \subseteq Nat
  BY <1>1, MappingFacts
<1> HIDE DEF S
<1>3. i \in S
  BY <1>2, FirstExists DEF S
<1>4. Mapping[i].type \in FileTypes /\ Mapping[i].type # "unmapped"
  BY <1>1, <1>3, MappingAssumption DEF FileTypes
<1>5. QED
  BY <1>1, <1>3, <1>4 DEF S, TypeOf

\* No product prices come after service prices, and no two files have one type.
GoodPlan(plan) ==
    \A j, k \in 1 .. Len(plan) :
        Meant(plan[j]) # {} /\ Meant(plan[k]) # {} =>
            /\ j < k /\ TypeOf(plan[j]) = "service_prices" => TypeOf(plan[k]) # "product_prices"
            /\ TypeOf(plan[j]) = TypeOf(plan[k]) => FirstOf(Meant(plan[j])) = FirstOf(Meant(plan[k]))

LEMMA PlanIsGood ==
    ASSUME OneFileForAType, NEW table \in Graphs, WellFormed(table)
    PROVE  /\ NamesToLoad(table) \in Seq(Known(table) \union {"providers.json"})
           /\ GoodPlan(NamesToLoad(table))
           /\ \A name \in Known(table) : Meant(name) # {} => \E j \in 1 .. Len(NamesToLoad(table)) : NamesToLoad(table)[j] = name
<1> DEFINE E == {table[i] : i \in DOMAIN table}
           V == Known(table)
           U == V \union {"providers.json"}
           order == LoadOrder(table)
           kept == ToSet(order) \ {"graph.json"}
           first == Keep(order, kept)
           plan == NamesToLoad(table)
<1>1. table \in Seq(E)
  BY MappingAssumption
<1> HIDE DEF E
<1>2. order \in Seq(V) /\ ToSet(order) = V /\ Once(order) /\ InOrder(table, order)
  BY <1>1, AcyclicIsSorted, SortedInOrder DEF WellFormed
<1>3. plan = first \o Registry
  BY DEF NamesToLoad
<1>4. \A f, g \in V : /\ \E i \in Meant(f) : Mapping[i].type = "service_prices"
                      /\ \E i \in Meant(g) : Mapping[i].type = "product_prices"
                      => g \in Reaches(table, f)
  BY DEF WellFormed, Known
<1> HIDE DEF V, order, kept, plan
<1>5. first \in Seq(V) /\ ToSet(first) = ToSet(order) \cap kept
  <2>1. first \in Seq(V \cap kept) /\ ToSet(first) = ToSet(order) \cap kept
    BY <1>2, KeepType
  <2> HIDE DEF first
  <2>2. QED
    BY <2>1
<1>6. \A a, b \in 1 .. Len(first) : a < b => \E p, q \in 1 .. Len(order) : p < q /\ first[a] = order[p] /\ first[b] = order[q]
  BY <1>2, KeepOrder
<1>7. Registry \in Seq({"providers.json"}) /\ \A k \in 1 .. Len(Registry) : Registry[k] = "providers.json"
  <2> DEFINE one == <<"providers.json">>
             some == {"providers.json"}
  <2>1. one \in Seq(some)
    OBVIOUS
  <2> HIDE DEF one, some
  <2>2. Keep(one, Paths) \in Seq(some \cap Paths)
    BY <2>1, KeepType
  <2> DEFINE r == Keep(one, Paths)
  <2> HIDE DEF r
  <2>3. r \in Seq(some) /\ \A k \in 1 .. Len(r) : r[k] \in some
    BY <2>2 DEF r
  <2>4. Registry = r
    BY DEF Registry, r, one
  <2>5. QED
    BY <2>3, <2>4 DEF some
<1> HIDE DEF first
<1>8. first \in Seq(U) /\ Registry \in Seq(U)
  BY <1>5, <1>7
<1> HIDE DEF U
<1>9. plan \in Seq(U) /\ Joins(plan, first, Registry)
  BY <1>3, <1>8, Concatenation
<1>10. Len(first) \in Nat /\ Len(Registry) \in Nat /\ Len(plan) = Len(first) + Len(Registry)
  BY <1>8, <1>9 DEF Joins
<1>11. \A j \in 1 .. Len(plan) : \/ j \in 1 .. Len(first) /\ plan[j] = first[j]
                                 \/ ~(j \in 1 .. Len(first)) /\ plan[j] = "providers.json"
  <2> TAKE j \in 1 .. Len(plan)
  <2>1. CASE j \in 1 .. Len(first)
    BY <1>9, <2>1 DEF Joins
  <2>2. CASE ~(j \in 1 .. Len(first))
    <3>1. j - Len(first) \in 1 .. Len(Registry) /\ Len(first) + (j - Len(first)) = j
      BY <1>10, <2>2
    <3>2. plan[j] = Registry[j - Len(first)]
      BY <1>9, <3>1 DEF Joins
    <3>3. QED
      BY <1>7, <2>2, <3>1, <3>2
  <2>3. QED
    BY <2>1, <2>2
<1>12. Meant("providers.json") # {} => TypeOf("providers.json") \notin {"product_prices", "service_prices"}
  BY MeantFacts, MappingAssumption DEF TypeOf
<1>13. ASSUME NEW a \in 1 .. Len(first), NEW b \in 1 .. Len(first), a < b, Meant(first[a]) # {}, Meant(first[b]) # {},
              TypeOf(first[a]) = "service_prices", TypeOf(first[b]) = "product_prices"
       PROVE  FALSE
  <2>1. PICK p \in 1 .. Len(order), q \in 1 .. Len(order) : p < q /\ first[a] = order[p] /\ first[b] = order[q]
    BY <1>6, <1>13
  <2>2. first[a] \in V /\ first[b] \in V
    BY <1>5
  <2>3. /\ \E i \in Meant(first[a]) : Mapping[i].type = "service_prices"
        /\ \E i \in Meant(first[b]) : Mapping[i].type = "product_prices"
    BY <1>13, MeantFacts DEF TypeOf
  <2>4. first[b] \in Reaches(table, order[p])
    BY <1>4, <2>1, <2>2, <2>3
  <2>5. PICK r \in 1 .. p - 1 : order[r] = first[b]
    <3>1. order \in Seq(Known(table))
      BY <1>2 DEF V
    <3>2. Reaches(table, order[p]) \subseteq Before(order, p)
      BY <1>1, <1>2, <3>1, ReachedBefore
    <3>3. QED
      BY <2>4, <3>2 DEF Before
  <2>6. r \in 1 .. Len(order) /\ r # q
    BY <1>2, <2>1
  <2>7. QED
    BY <1>2, <2>1, <2>5, <2>6 DEF Once
<1>14. \A j \in 1 .. Len(plan) : plan[j] \in ToSet(plan)
  BY <1>9 DEF ToSet
<1>15. GoodPlan(plan)
  <2> SUFFICES ASSUME NEW j \in 1 .. Len(plan), NEW k \in 1 .. Len(plan), Meant(plan[j]) # {}, Meant(plan[k]) # {}
               PROVE  /\ j < k /\ TypeOf(plan[j]) = "service_prices" => TypeOf(plan[k]) # "product_prices"
                      /\ TypeOf(plan[j]) = TypeOf(plan[k]) => FirstOf(Meant(plan[j])) = FirstOf(Meant(plan[k]))
    BY DEF GoodPlan
  <2>1. TypeOf(plan[j]) = TypeOf(plan[k]) => FirstOf(Meant(plan[j])) = FirstOf(Meant(plan[k]))
    BY <1>14 DEF OneFileForAType, plan
  <2>2. ASSUME j < k, TypeOf(plan[j]) = "service_prices", TypeOf(plan[k]) = "product_prices" PROVE FALSE
    <3>1. plan[j] # "providers.json" /\ plan[k] # "providers.json"
      BY <1>12, <2>2
    <3>2. j \in 1 .. Len(first) /\ plan[j] = first[j] /\ k \in 1 .. Len(first) /\ plan[k] = first[k]
      BY <1>11, <3>1
    <3>3. QED
      BY <1>13, <2>2, <3>2
  <2>3. QED
    BY <2>1, <2>2
<1>16. ASSUME NEW name \in V, Meant(name) # {} PROVE \E j \in 1 .. Len(plan) : plan[j] = name
  <2>1. name # "graph.json"
    BY <1>16, MeantFacts, MappingAssumption
  <2>2. name \in ToSet(first)
    BY <1>2, <1>5, <2>1 DEF kept
  <2>3. PICK j \in 1 .. Len(first) : first[j] = name
    BY <1>5, <2>2 DEF ToSet
  <2>4. j \in 1 .. Len(plan) /\ plan[j] = name
    BY <1>9, <1>10, <2>3 DEF Joins
  <2>5. QED
    BY <2>4
<1>17. QED
  BY <1>9, <1>15, <1>16 DEF plan, U, V

\* Of the plan, what is not left is loaded: its types hold their documents.
Filled(plan, left, rows, read) ==
    LET done == Len(plan) - Len(left)
    IN  /\ left \in Seq(ToSet(plan)) /\ Len(left) <= Len(plan)
        /\ \A n \in 1 .. Len(left) : left[n] = plan[done + n]
        /\ DOMAIN rows = FileTypes
        /\ \A j \in 1 .. done : Meant(plan[j]) # {} => rows[TypeOf(plan[j])] = {DocumentOf(plan[j], read)}
        /\ rows["service_prices"] # {} =>
              \E j \in 1 .. done : Meant(plan[j]) # {} /\ TypeOf(plan[j]) = "service_prices"

\* What Filled says once a name more is loaded, apart from the rows.
LEMMA OneLess ==
    ASSUME NEW V, NEW plan \in Seq(V), NEW left, NEW rows, NEW read, Filled(plan, left, rows, read), left # <<>>
    PROVE  LET done == Len(plan) - Len(left)
           IN  /\ done \in Nat /\ done + 1 \in 1 .. Len(plan)
               /\ Len(plan) - Len(Tail(left)) = done + 1
               /\ \A j \in 1 .. done + 1 : j \in 1 .. done \/ j = done + 1
               /\ \A j \in 1 .. done : j \in 1 .. Len(plan) /\ j \in 1 .. done + 1 /\ j < done + 1
               /\ Head(left) = plan[done + 1]
               /\ Tail(left) \in Seq(ToSet(plan)) /\ Len(Tail(left)) <= Len(plan)
               /\ \A n \in 1 .. Len(Tail(left)) : Tail(left)[n] = plan[(done + 1) + n]
<1> DEFINE done == Len(plan) - Len(left)
           W == ToSet(plan)
           t == Tail(left)
<1>1. left \in Seq(W) /\ Len(left) <= Len(plan) /\ \A n \in 1 .. Len(left) : left[n] = plan[done + n]
  BY DEF Filled
<1> HIDE DEF W
<1>2. /\ Len(left) \in Nat /\ Len(left) # 0 /\ Head(left) = left[1] /\ Len(plan) \in Nat
      /\ t \in Seq(W) /\ Len(t) = Len(left) - 1 /\ \A i \in 1 .. Len(t) : t[i] = left[i + 1]
  BY <1>1
<1> HIDE DEF t
<1>3. /\ done \in Nat /\ done + 1 \in 1 .. Len(plan) /\ Len(plan) - Len(t) = done + 1 /\ Len(t) <= Len(plan)
      /\ \A j \in 1 .. done + 1 : j \in 1 .. done \/ j = done + 1
      /\ \A j \in 1 .. done : j \in 1 .. Len(plan) /\ j \in 1 .. done + 1 /\ j < done + 1
      /\ 1 \in 1 .. Len(left)
  <2> DEFINE l == Len(left)
             o == Len(plan)
  <2> HIDE DEF l, o
  <2>1. l \in Nat /\ o \in Nat /\ l # 0 /\ l <= o /\ done = o - l /\ Len(t) = l - 1
    BY <1>1, <1>2 DEF l, o
  <2> HIDE DEF done
  <2>2. done \in Nat /\ done + 1 \in 1 .. o /\ o - Len(t) = done + 1 /\ Len(t) <= o
    BY <2>1
  <2>3. /\ \A j \in 1 .. done + 1 : j \in 1 .. done \/ j = done + 1
        /\ \A j \in 1 .. done : j \in 1 .. o /\ j \in 1 .. done + 1 /\ j < done + 1
        /\ 1 \in 1 .. l
    BY <2>1, <2>2
  <2>4. QED
    BY <2>2, <2>3 DEF l, o
<1>4. \A n \in 1 .. Len(t) : n + 1 \in 1 .. Len(left) /\ done + (n + 1) = (done + 1) + n
  BY <1>2, <1>3
<1> HIDE DEF done
<1>5. Head(left) = plan[done + 1] /\ \A n \in 1 .. Len(t) : t[n] = plan[(done + 1) + n]
  BY <1>1, <1>2, <1>3, <1>4
<1>6. QED
  BY <1>2, <1>3, <1>5 DEF done, t, W

LEMMA MappedFills ==
    ASSUME NEW V, NEW plan \in Seq(V), GoodPlan(plan), NEW left, NEW rows, NEW read,
           Filled(plan, left, rows, read), left # <<>>, Meant(Head(left)) # {}
    PROVE  Filled(plan, Tail(left), Dispatch(rows, TypeOf(Head(left)), DocumentOf(Head(left), read)), read)
<1> DEFINE done == Len(plan) - Len(left)
           name == Head(left)
           type == TypeOf(name)
           document == DocumentOf(name, read)
           next == Dispatch(rows, type, document)
           t == Tail(left)
           W == ToSet(plan)
<1>1. /\ done \in Nat /\ done + 1 \in 1 .. Len(plan) /\ Len(plan) - Len(t) = done + 1
      /\ \A j \in 1 .. done + 1 : j \in 1 .. done \/ j = done + 1
      /\ \A j \in 1 .. done : j \in 1 .. Len(plan) /\ j \in 1 .. done + 1 /\ j < done + 1
      /\ name = plan[done + 1]
      /\ t \in Seq(W) /\ Len(t) <= Len(plan)
      /\ \A n \in 1 .. Len(t) : t[n] = plan[(done + 1) + n]
  BY OneLess
<1>2. /\ DOMAIN rows = FileTypes
      /\ \A j \in 1 .. done : Meant(plan[j]) # {} => rows[TypeOf(plan[j])] = {DocumentOf(plan[j], read)}
      /\ rows["service_prices"] # {} =>
            \E j \in 1 .. done : Meant(plan[j]) # {} /\ TypeOf(plan[j]) = "service_prices"
  BY DEF Filled
<1>3. type \in FileTypes /\ Meant(name) # {}
  BY MeantFacts
<1>4. \A j \in 1 .. Len(plan) : Meant(plan[j]) # {} => TypeOf(plan[j]) \in FileTypes
  BY MeantFacts
<1>5. \A j \in 1 .. done : Meant(plan[j]) # {} =>
         /\ TypeOf(plan[j]) = "service_prices" => type # "product_prices"
         /\ TypeOf(plan[j]) = type => DocumentOf(plan[j], read) = document
  <2> SUFFICES ASSUME NEW j \in 1 .. done, Meant(plan[j]) # {}
               PROVE  /\ TypeOf(plan[j]) = "service_prices" => type # "product_prices"
                      /\ TypeOf(plan[j]) = type => DocumentOf(plan[j], read) = document
    OBVIOUS
  <2>1. j \in 1 .. Len(plan) /\ j < done + 1 /\ name = plan[done + 1] /\ done + 1 \in 1 .. Len(plan)
    BY <1>1
  <2>2. /\ TypeOf(plan[j]) = "service_prices" => TypeOf(name) # "product_prices"
        /\ TypeOf(plan[j]) = TypeOf(name) => FirstOf(Meant(plan[j])) = FirstOf(Meant(name))
    <3> HIDE DEF done, name
    <3>1. QED
      BY <1>3, <2>1 DEF GoodPlan
  <2>3. QED
    BY <2>2 DEF DocumentOf
<1>6. DOMAIN next = FileTypes /\ next[type] \in {{document}, rows[type] \union {document}}
  BY <1>2, <1>3 DEF Dispatch
<1>7. \A other \in FileTypes : other # type =>
         next[other] = rows[other] \/ (other = "service_prices" /\ type = "product_prices" /\ next[other] = {})
  BY <1>2, <1>3 DEF Dispatch
<1>8. type # "service_prices" => next[type] = {document}
  BY <1>2, <1>3 DEF Dispatch
<1>9. "service_prices" \in FileTypes
  BY DEF FileTypes
<1> HIDE DEF next, type, document, name, done, t, W
<1>10. next[type] = {document}
  <2>1. CASE type = "service_prices"
    <3>1. CASE rows[type] = {}
      BY <1>6, <3>1
    <3>2. CASE rows[type] # {}
      <4>1. PICK j \in 1 .. done : Meant(plan[j]) # {} /\ TypeOf(plan[j]) = type
        BY <1>2, <2>1, <3>2
      <4>2. rows[type] = {document}
        BY <1>2, <1>5, <4>1
      <4>3. QED
        BY <1>6, <4>2
    <3>3. QED
      BY <3>1, <3>2
  <2>2. QED
    BY <1>8, <2>1
<1>11. ASSUME NEW j \in 1 .. done + 1, Meant(plan[j]) # {}
       PROVE  next[TypeOf(plan[j])] = {DocumentOf(plan[j], read)}
  <2>1. CASE j = done + 1
    BY <1>1, <1>10, <2>1 DEF type, document
  <2>2. CASE j \in 1 .. done
    <3>1. TypeOf(plan[j]) \in FileTypes /\ rows[TypeOf(plan[j])] = {DocumentOf(plan[j], read)}
      BY <1>1, <1>2, <1>4, <1>11, <2>2
    <3>2. CASE TypeOf(plan[j]) = type
      BY <1>5, <1>10, <1>11, <2>2, <3>2
    <3>3. CASE TypeOf(plan[j]) # type
      BY <1>5, <1>7, <1>11, <2>2, <3>1, <3>3
    <3>4. QED
      BY <3>2, <3>3
  <2>3. QED
    BY <1>1, <2>1, <2>2
<1>12. ASSUME next["service_prices"] # {}
       PROVE  \E j \in 1 .. done + 1 : Meant(plan[j]) # {} /\ TypeOf(plan[j]) = "service_prices"
  <2>1. CASE type = "service_prices"
    <3>1. done + 1 \in 1 .. done + 1 /\ plan[done + 1] = name
      BY <1>1
    <3>2. QED
      BY <1>3, <2>1, <3>1 DEF type
  <2>2. CASE type # "service_prices"
    <3>1. rows["service_prices"] # {}
      BY <1>7, <1>9, <1>12, <2>2
    <3>2. QED
      BY <1>1, <1>2, <3>1
  <2>3. QED
    BY <2>1, <2>2
<1>13. Filled(plan, t, next, read)
  BY <1>1, <1>6, <1>11, <1>12 DEF Filled, W
<1>14. QED
  BY <1>13 DEF t, next, type, document, name

LEMMA UnmappedFills ==
    ASSUME NEW V, NEW plan \in Seq(V), NEW left, NEW rows, NEW read, NEW document,
           Filled(plan, left, rows, read), left # <<>>, Meant(Head(left)) = {}
    PROVE  Filled(plan, Tail(left), Dispatch(rows, "unmapped", document), read)
<1> DEFINE done == Len(plan) - Len(left)
           next == Dispatch(rows, "unmapped", document)
           t == Tail(left)
           W == ToSet(plan)
<1>1. /\ done \in Nat /\ done + 1 \in 1 .. Len(plan) /\ Len(plan) - Len(t) = done + 1
      /\ \A j \in 1 .. done + 1 : j \in 1 .. done \/ j = done + 1
      /\ \A j \in 1 .. done : j \in 1 .. Len(plan) /\ j \in 1 .. done + 1 /\ j < done + 1
      /\ Head(left) = plan[done + 1]
      /\ t \in Seq(W) /\ Len(t) <= Len(plan)
      /\ \A n \in 1 .. Len(t) : t[n] = plan[(done + 1) + n]
  BY OneLess
<1>2. /\ DOMAIN rows = FileTypes
      /\ \A j \in 1 .. done : Meant(plan[j]) # {} => rows[TypeOf(plan[j])] = {DocumentOf(plan[j], read)}
      /\ rows["service_prices"] # {} =>
            \E j \in 1 .. done : Meant(plan[j]) # {} /\ TypeOf(plan[j]) = "service_prices"
  BY DEF Filled
<1>3. DOMAIN next = FileTypes /\ \A type \in FileTypes : type # "unmapped" => next[type] = rows[type]
  BY <1>2 DEF Dispatch
<1>4. "service_prices" \in FileTypes
  BY DEF FileTypes
<1>5. \A j \in 1 .. Len(plan) : Meant(plan[j]) # {} => TypeOf(plan[j]) \in FileTypes /\ TypeOf(plan[j]) # "unmapped"
  BY MeantFacts
<1> HIDE DEF next, done, t, W
<1>6. \A j \in 1 .. done + 1 : Meant(plan[j]) # {} => next[TypeOf(plan[j])] = {DocumentOf(plan[j], read)}
  BY <1>1, <1>2, <1>3, <1>5
<1>7. next["service_prices"] # {} =>
         \E j \in 1 .. done + 1 : Meant(plan[j]) # {} /\ TypeOf(plan[j]) = "service_prices"
  <2>1. next["service_prices"] = rows["service_prices"]
    BY <1>3, <1>4
  <2>2. QED
    BY <1>1, <1>2, <2>1
<1>8. Filled(plan, t, next, read)
  BY <1>1, <1>3, <1>6, <1>7 DEF Filled, W
<1>9. QED
  BY <1>8 DEF t, next

HeldInv ==
    /\ stage # "idle" => graph \in Graphs
    /\ stage = "reading" => held = Nothing
    /\ strict /\ stage \in {"loading", "ready"} /\ WellFormed(graph) =>
          /\ Filled(NamesToLoad(graph), todo, held, files)
          /\ stage = "ready" => todo = <<>>

LEMMA PlanBegins ==
    ASSUME OneFileForAType, NEW table \in Graphs, WellFormed(table), NEW read
    PROVE  Filled(NamesToLoad(table), NamesToLoad(table), Nothing, read)
<1> DEFINE plan == NamesToLoad(table)
           U == Known(table) \union {"providers.json"}
           W == ToSet(plan)
<1>1. plan \in Seq(U)
  BY PlanIsGood
<1> HIDE DEF plan, U
<1>2. plan \in Seq(W)
  BY <1>1, OwnRange
<1>3. Len(plan) \in Nat /\ Len(plan) - Len(plan) = 0
  BY <1>1
<1>4. \A n \in 1 .. Len(plan) : plan[n] = plan[0 + n]
  BY <1>3
<1>5. DOMAIN Nothing = FileTypes /\ Nothing["service_prices"] = {}
  BY DEF Nothing, FileTypes
<1>6. Filled(plan, plan, Nothing, read)
  BY <1>2, <1>3, <1>4, <1>5 DEF Filled, W
<1>7. QED
  BY <1>6 DEF plan

LEMMA StartKeepsHeld == ASSUME HeldInv, OpenStrict \/ OpenRelaxed PROVE HeldInv'
BY DEF HeldInv, OpenStrict, OpenRelaxed, Open

LEMMA FailKeepsHeld == ASSUME HeldInv, stage # "idle", Fail PROVE HeldInv'
BY DEF HeldInv, Fail

LEMMA ConsistentKeepsHeld == ASSUME OneFileForAType, HeldInv, Consistent PROVE HeldInv'
<1>1. /\ stage = "reading" /\ stage' = "loading" /\ todo' = NamesToLoad(graph)
      /\ graph' = graph /\ held' = held /\ files' = files
  BY DEF Consistent, AllRead
<1>2. graph \in Graphs /\ held = Nothing
  BY <1>1 DEF HeldInv
<1>3. WellFormed(graph) => Filled(NamesToLoad(graph), NamesToLoad(graph), Nothing, files)
  BY <1>2, PlanBegins
<1>4. QED
  BY <1>1, <1>2, <1>3 DEF HeldInv

\* A strict loader takes the head of the plan.
LEMMA LoadedKeepsHeld ==
    ASSUME OneFileForAType, HeldInv, NEW type, NEW path, NEW publication,
           stage = "loading", strict, todo # <<>>, Loaded(type, path, publication),
           LET document == [path |-> path, publication |-> publication]
           IN  \/ Meant(Head(todo)) # {} /\ type = TypeOf(Head(todo)) /\ document = DocumentOf(Head(todo), files)
               \/ Meant(Head(todo)) = {} /\ type = "unmapped"
    PROVE  HeldInv'
<1> DEFINE document == [path |-> path, publication |-> publication]
           plan == NamesToLoad(graph)
           U == Known(graph) \union {"providers.json"}
<1>1. /\ held' = Dispatch(held, type, document) /\ todo' = Tail(todo)
      /\ graph' = graph /\ strict' = strict /\ stage' = stage /\ files' = files
  BY DEF Loaded
<1>2. graph \in Graphs
  BY DEF HeldInv
<1>3. ASSUME WellFormed(graph) PROVE Filled(plan, Tail(todo), Dispatch(held, type, document), files)
  <2>1. plan \in Seq(U) /\ GoodPlan(plan)
    BY <1>2, <1>3, PlanIsGood
  <2>2. Filled(plan, todo, held, files)
    BY <1>3 DEF HeldInv
  <2> HIDE DEF plan, U
  <2>3. CASE Meant(Head(todo)) # {} /\ type = TypeOf(Head(todo)) /\ document = DocumentOf(Head(todo), files)
    <3>1. Filled(plan, Tail(todo), Dispatch(held, TypeOf(Head(todo)), DocumentOf(Head(todo), files)), files)
      BY <2>1, <2>2, <2>3, MappedFills
    <3> HIDE DEF document
    <3>2. QED
      BY <2>3, <3>1
  <2>4. CASE Meant(Head(todo)) = {} /\ type = "unmapped"
    <3>1. Filled(plan, Tail(todo), Dispatch(held, "unmapped", document), files)
      BY <2>1, <2>2, <2>4, UnmappedFills
    <3> HIDE DEF document
    <3>2. QED
      BY <2>4, <3>1
  <2>5. QED
    BY <2>3, <2>4
<1> HIDE DEF document
<1>4. QED
  BY <1>1, <1>2, <1>3 DEF HeldInv

LEMMA LoadMappedKeepsHeld == ASSUME OneFileForAType, HeldInv, LoadMapped PROVE HeldInv'
<1> DEFINE i == FirstOf(Meant(Head(todo)))
<1>1. /\ stage = "loading" /\ strict /\ todo # <<>> /\ Meant(Head(todo)) # {}
      /\ Loaded(Mapping[i].type, Mapping[i].path, files[i])
  BY DEF LoadMapped
<1>2. /\ Mapping[i].type = TypeOf(Head(todo))
      /\ [path |-> Mapping[i].path, publication |-> files[i]] = DocumentOf(Head(todo), files)
  BY DEF TypeOf, DocumentOf
<1> HIDE DEF i
<1>3. QED
  BY <1>1, <1>2, LoadedKeepsHeld

LEMMA LoadUnmappedKeepsHeld == ASSUME OneFileForAType, HeldInv, LoadUnmapped PROVE HeldInv'
<1>1. /\ stage = "loading" /\ strict /\ todo # <<>> /\ Meant(Head(todo)) = {}
      /\ Loaded("unmapped", Head(todo), disk[Head(todo)])
  BY DEF LoadUnmapped
<1>2. QED
  BY <1>1, LoadedKeepsHeld

LEMMA RelaxedKeepsHeld == ASSUME HeldInv, LoadRelaxed \/ SkipRelaxed PROVE HeldInv'
<1>1. stage = "loading" /\ ~strict /\ stage' = stage /\ strict' = strict /\ graph' = graph
  BY DEF LoadRelaxed, SkipRelaxed, Loaded
<1>2. QED
  BY <1>1 DEF HeldInv

LEMMA FinishKeepsHeld == ASSUME HeldInv, Finish PROVE HeldInv'
BY DEF HeldInv, Finish

\* Steps that load nothing.
LEMMA IdleKeepsHeld ==
    ASSUME HeldInv, \/ \E p \in OnDisk : Upgrade(p)
                    \/ ReadFile \/ ValidateFile \/ VerifyUnmapped
                    \/ UNCHANGED loadingVars
    PROVE  HeldInv'
<1>1. UNCHANGED <<graph, strict, stage, todo, held>>
  BY DEF Upgrade, ReadFile, ValidateFile, VerifyUnmapped, loadingVars
<1>2. files' = files \/ stage = "reading"
  BY DEF Upgrade, ReadFile, ValidateFile, VerifyUnmapped, loadingVars
<1>3. QED
  BY <1>1, <1>2 DEF HeldInv

LEMMA HeldPreserved == ASSUME OneFileForAType, HeldInv, [LoadingNext]_loadingVars PROVE HeldInv'
<1>1. CASE OpenStrict \/ OpenRelaxed
  BY <1>1, StartKeepsHeld
<1>2. CASE RefuseFile \/ Inconsistent \/ RefuseUnmapped \/ RefuseCatalog
  <2>1. Fail /\ stage # "idle"
    BY <1>2 DEF RefuseFile, Inconsistent, AllRead, RefuseUnmapped, RefuseCatalog
  <2>2. QED
    BY <2>1, FailKeepsHeld
<1>3. CASE Consistent
  BY <1>3, ConsistentKeepsHeld
<1>4. CASE LoadMapped
  BY <1>4, LoadMappedKeepsHeld
<1>5. CASE LoadUnmapped
  BY <1>5, LoadUnmappedKeepsHeld
<1>6. CASE LoadRelaxed \/ SkipRelaxed
  BY <1>6, RelaxedKeepsHeld
<1>7. CASE Finish
  BY <1>7, FinishKeepsHeld
<1>8. CASE (\E p \in OnDisk : Upgrade(p)) \/ ReadFile \/ ValidateFile \/ VerifyUnmapped \/ UNCHANGED loadingVars
  BY <1>8, IdleKeepsHeld
<1>9. QED
  BY <1>1, <1>2, <1>3, <1>4, <1>5, <1>6, <1>7, <1>8 DEF LoadingNext

LEMMA HeldAtTheEnd == ASSUME OneFileForAType, HeldInv PROVE EveryFileIsHeld
<1> SUFFICES ASSUME stage = "ready", strict, WellFormed(graph), NEW name \in ToSet(NamesOf(graph)), Meant(name) # {}
             PROVE  held[TypeOf(name)] = {DocumentOf(name, files)}
  BY DEF EveryFileIsHeld, TypeOf, DocumentOf
<1> DEFINE plan == NamesToLoad(graph)
           U == Known(graph) \union {"providers.json"}
<1>1. graph \in Graphs /\ Filled(plan, todo, held, files) /\ todo = <<>>
  BY DEF HeldInv
<1>2. plan \in Seq(U)
  BY <1>1, PlanIsGood
<1>3. \E j \in 1 .. Len(plan) : plan[j] = name
  BY <1>1, PlanIsGood DEF Known
<1> HIDE DEF plan, U
<1>4. PICK j \in 1 .. Len(plan) : plan[j] = name
  BY <1>3
<1>5. Len(plan) - Len(todo) = Len(plan)
  <2>1. Len(plan) \in Nat /\ Len(<<>>) = 0
    BY <1>2
  <2>2. QED
    BY <1>1, <2>1
<1>6. Meant(plan[j]) # {} => held[TypeOf(plan[j])] = {DocumentOf(plan[j], files)}
  BY <1>1, <1>4, <1>5 DEF Filled
<1>7. QED
  BY <1>4, <1>6

\* Whatever the table and the order in which it is written: when it is well formed
\* and no two of its files have one type, a strict loader that is ready holds the
\* rows of every file the table names (base_loader.py:190-256,
\* file_type_registry.py:69-78, prices.py:59-87).
THEOREM EveryFileIsHeldCorrect == ASSUME OneFileForAType PROVE LoadingSpec => []EveryFileIsHeld
<1>1. LoadingInit => HeldInv
  BY DEF LoadingInit, HeldInv
<1>2. HeldInv /\ [LoadingNext]_loadingVars => HeldInv'
  BY HeldPreserved
<1>3. HeldInv => EveryFileIsHeld
  BY HeldAtTheEnd
<1>4. QED
  BY <1>1, <1>2, <1>3, PTL DEF LoadingSpec
=============================================================================
