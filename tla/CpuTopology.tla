---------------------------- MODULE CpuTopology ----------------------------
(* The topology: what an OS says of its logical processors and caches is   *)
(* renumbered from 0, checked against each other, and put in an order.     *)
EXTENDS CpuFeatures, SequencesExt

CONSTANTS LogicalProcessorLimit,  \* the most logical processors (65535)
          InvalidCacheIndex,      \* the index that means no cache (65535)
          EfficiencyClassLimit,   \* the most efficiency classes (256)
          CountLimit              \* where counts of 32 bits wrap round (2^32)

\* The limits are counts, and the index of no cache is a number.
ASSUME TopologyLimits ==
  /\ LogicalProcessorLimit \in Nat /\ InvalidCacheIndex \in Nat /\ EfficiencyClassLimit \in Nat
  /\ CountLimit \in Nat /\ CountLimit > LogicalProcessorLimit

NoId == -1
CacheKinds == <<"L1Data", "L1Instruction", "L2", "L3">>
TopologyTypes == {"core", "package", "numaNode"} \union ToSet(CacheKinds)

UnknownTopology ==
  [processors |-> <<>>, caches |-> <<>>, classes |-> <<>>, logicalProcessorCount |-> 0,
   physicalCoreCount |-> 0, performanceCoreCount |-> 0, efficiencyCoreCount |-> 0,
   efficiencyClassCount |-> 0, packageCount |-> 0, numaNodeCount |-> 0, cacheLineSize |-> 0]

-----------------------------------------------------------------------------
(* Windows: a list of records, each of a core, a package, a NUMA node or a *)
(* cache, with the processors it covers.                                   *)

Kind(record) ==
  CASE record.level = 1 /\ record.type = "data" -> "L1Data"
    [] record.level = 1 /\ record.type = "instruction" -> "L1Instruction"
    [] record.level = 2 /\ record.type = "unified" -> "L2"
    [] record.level = 3 /\ record.type = "unified" -> "L3"
    [] OTHER -> "Count"

\* The places of the records of a relationship; of caches, those of the kinds that are kept.
PlacesOf(records, relationship) ==
  {i \in DOMAIN records : records[i].relationship = relationship
                          /\ (relationship = "cache" => Kind(records[i]) # "Count")}

\* What Windows lists: a processor is in one core, and in one cache of a kind at most.
IsRecordList(records) ==
  /\ Len(records) \in Nat /\ DOMAIN records = 1..Len(records)
  /\ \A i \in DOMAIN records :
       /\ IsFiniteSet(records[i].processors) /\ \A n \in records[i].processors : n \in Nat
       /\ records[i].relationship = "core" => records[i].class \in Nat
       /\ records[i].relationship = "numaNode" => records[i].node \in Nat
  /\ \A relationship \in {"core", "cache"} :
       \A i \in PlacesOf(records, relationship), j \in PlacesOf(records, relationship) :
         \/ i = j
         \/ records[i].processors \intersect records[j].processors = {}
         \/ relationship = "cache" /\ Kind(records[i]) # Kind(records[j])

\* Records are numbered as they come.
Ordinal(records, i) ==
  Cardinality({j \in PlacesOf(records, records[i].relationship) : j < i})

\* The last of some records that covers the processor gives it its number.
AssignedId(records, ids, number, default) ==
  LET covering == {i \in DOMAIN ids : number \in records[i].processors}
  IN IF covering = {} THEN default ELSE ids[CHOOSE i \in covering : \A j \in covering : j <= i]

\* fillLogicalProcessors and fillGroupedTopology.
RawProcessor(records, i, number) ==
  LET Numbered(places) == [j \in places |-> Ordinal(records, j)]
      OfKind(kind) == {j \in PlacesOf(records, "cache") : Kind(records[j]) = kind}
      NodeNumbers == [j \in PlacesOf(records, "numaNode") |-> records[j].node]
  IN [number |-> number, class |-> records[i].class,
      ids |-> [type \in TopologyTypes |->
                 CASE type = "core" -> Ordinal(records, i)
                   [] type = "package" ->
                        AssignedId(records, Numbered(PlacesOf(records, "package")), number, 0)
                   [] type = "numaNode" -> AssignedId(records, NodeNumbers, number, 0)
                   [] OTHER -> AssignedId(records, Numbered(OfKind(type)), number, NoId)]]

RawCacheOf(records, i) ==
  [id |-> Ordinal(records, i), sizeBytes |-> records[i].sizeBytes, kind |-> Kind(records[i])]

\* The line size of the first L1 data cache that says one.
LineSizeOf(records) ==
  LET telling == {i \in PlacesOf(records, "cache") : Kind(records[i]) = "L1Data" /\ records[i].lineSize # 0}
  IN IF telling = {} THEN 0
     ELSE records[CHOOSE i \in telling : \A j \in telling : i <= j].lineSize

ProbeRawTopology(records) ==
  [processors |-> UNION {{RawProcessor(records, i, n) : n \in records[i].processors}
                         : i \in PlacesOf(records, "core")},
   caches |-> {RawCacheOf(records, i) : i \in PlacesOf(records, "cache")},
   cacheLineSize |-> LineSizeOf(records)]

-----------------------------------------------------------------------------
(* Renumbering.                                                            *)

Below(values, v) == Cardinality({w \in values : w < v})
InOrder(set, Before(_, _)) ==
  [i \in 1..Cardinality(set) |->
     CHOOSE x \in set : Cardinality({y \in set : Before(y, x)}) = i - 1]
IdsOf(processors, type) == {p.ids[type] : p \in processors} \ {NoId}

\* sortAndScaleTopologyIds: ids become ranks.
ScaledId(processors, type, p) == Below(IdsOf(processors, type), p.ids[type])

\* sortAndScaleCacheIds, for the four kinds in turn: the caches that processors use, kind by
\* kind and within a kind by id, each with its place in the order of kinds.
UsedCaches(processors) ==
  InOrder(UNION {{k} \X IdsOf(processors, CacheKinds[k]) : k \in DOMAIN CacheKinds},
               LAMBDA c, d : c[1] < d[1] \/ (c[1] = d[1] /\ c[2] < d[2]))

\* findRawCache.
RawCachesOf(caches, used) == {c \in caches : c.kind = CacheKinds[used[1]] /\ c.id = used[2]}

ListedCaches(processors, caches) ==
  LET used == UsedCaches(processors)
  IN [i \in DOMAIN used |->
        [kind |-> CacheKinds[used[i][1]],
         sizeBytes |-> (CHOOSE c \in RawCachesOf(caches, used[i]) : TRUE).sizeBytes,
         sharingLogicalProcessorCount |->
           Cardinality({p \in processors : p.ids[CacheKinds[used[i][1]]] = used[i][2]})]]

\* The caches are listed if the OS describes each one that is used, and uses each one it describes.
CachesAreValid(processors, caches) ==
  LET used == UsedCaches(processors)
  IN (\A i \in DOMAIN used : RawCachesOf(caches, used[i]) # {}) /\ Len(used) = Cardinality(caches)

\* discardCaches.
DiscardCaches(processors) ==
  {[p EXCEPT !.ids = [type \in TopologyTypes |->
       IF type \in ToSet(CacheKinds) THEN NoId ELSE p.ids[type]]] : p \in processors}

\* sortLogicalProcessorsAndScaleEfficiencyClasses: too many classes are none.
ScaledClass(processors, p) ==
  LET classes == {q.class : q \in processors}
  IN IF Cardinality(classes) > EfficiencyClassLimit THEN 0 ELSE Below(classes, p.class)

EfficiencyClassCount(processors) ==
  LET n == Cardinality({p.class : p \in processors}) IN IF n > EfficiencyClassLimit THEN 0 ELSE n

\* countEfficiencyAndPerformanceCores: the cores of all classes but the highest.
EfficiencyCoreCount(processors) ==
  Cardinality({p.ids["core"] : p \in {q \in processors :
                 ScaledClass(processors, q) < EfficiencyClassCount(processors) - 1}})

\* The place of a cache in that list, from 0.
PlaceOf(processors, k, id) ==
  (CHOOSE i \in DOMAIN UsedCaches(processors) : UsedCaches(processors)[i] = <<k, id>>) - 1

\* Mutant: processors keep the numbers of caches that are not listed.
FillWithoutDiscarding(processors, kept) == [p \in processors |->
  [i \in DOMAIN CacheKinds |->
     IF p.ids[CacheKinds[i]] = NoId THEN InvalidCacheIndex
     ELSE PlaceOf(processors, i, p.ids[CacheKinds[i]])]]

\* The place of each of a processor's caches in the list.
CacheIndices(processors, kept) == [p \in processors |->
  [i \in DOMAIN CacheKinds |->
     IF ~kept \/ p.ids[CacheKinds[i]] = NoId THEN InvalidCacheIndex
     ELSE PlaceOf(processors, i, p.ids[CacheKinds[i]])]]

\* fillLogicalProcessors: in the order of class, core and number.
FillLogicalProcessors(processors, kept) ==
  LET indices == CacheIndices(processors, kept)
      filled == {[processorNumber |-> p.number, core |-> ScaledId(processors, "core", p),
                  package |-> ScaledId(processors, "package", p),
                  numaNode |-> ScaledId(processors, "numaNode", p),
                  cacheIndices |-> indices[p],
                  efficiencyClass |-> ScaledClass(processors, p)] : p \in processors}
  IN InOrder(filled, LAMBDA p, q :
       \/ p.efficiencyClass < q.efficiencyClass
       \/ /\ p.efficiencyClass = q.efficiencyClass
          /\ \/ p.core < q.core
             \/ p.core = q.core /\ p.processorNumber < q.processorNumber)

\* buildTopology. Caches that are too many, or that do not match the processors, are unknown.
BuildTopology(raw) ==
  LET n == Cardinality(raw.processors)
      tooMany == Cardinality(raw.caches) >= InvalidCacheIndex
      processors == IF tooMany THEN DiscardCaches(raw.processors) ELSE raw.processors
      caches == IF tooMany THEN {} ELSE raw.caches
      valid == CachesAreValid(processors, caches)
      efficiencyCores == IF EfficiencyClassCount(processors) = 0 THEN 0 ELSE EfficiencyCoreCount(processors)
  IN IF n = 0 \/ n > LogicalProcessorLimit THEN UnknownTopology
     ELSE [processors |-> FillLogicalProcessors(processors, valid),
           caches |-> IF valid THEN ListedCaches(processors, caches) ELSE <<>>,
           classes |-> <<>>,
           logicalProcessorCount |-> n,
           physicalCoreCount |-> Cardinality(IdsOf(processors, "core")),
           efficiencyCoreCount |-> efficiencyCores,
           performanceCoreCount |->
             IF EfficiencyClassCount(processors) = 0 THEN 0
             ELSE Cardinality(IdsOf(processors, "core")) - efficiencyCores,
           efficiencyClassCount |-> EfficiencyClassCount(processors),
           packageCount |-> Cardinality(IdsOf(processors, "package")),
           numaNodeCount |-> Cardinality(IdsOf(processors, "numaNode")),
           cacheLineSize |-> raw.cacheLineSize]

-----------------------------------------------------------------------------
(* macOS: performance levels, the fastest first, and what each says of its *)
(* caches. A size of 0 is a cache that is not known. Counts are of 32      *)
(* bits, and those of sharers are cast to 16, whose largest is the limit   *)
(* on processors that the other systems have.                              *)

CastTo16(n) == n % (LogicalProcessorLimit + 1)
CastTo32(n) == n % CountLimit

\* probeCaches: a first level cache belongs to a core; of the others the OS says how many
\* processors share one, and without that they are not known.
SharedCache(sizeBytes, sharing, level, kind) ==
  [kind |-> kind, sizeBytes |-> IF sharing = 0 THEN 0 ELSE sizeBytes,
   sharingLogicalProcessorCount |->
     IF sizeBytes = 0 THEN 0 ELSE CastTo16(IF sharing < level.logical THEN sharing ELSE level.logical)]

ProbeCaches(level) ==
  LET perCore == level.logical \div level.cores
  IN <<SharedCache(level.l1DataBytes, perCore, level, "L1Data"),
       SharedCache(level.l1InstructionBytes, perCore, level, "L1Instruction"),
       SharedCache(level.l2Bytes, level.logicalPerL2, level, "L2"),
       SharedCache(level.l3Bytes, level.logicalPerL3, level, "L3")>>

CountsAreValid(level) ==
  level.cores # 0 /\ level.logical >= level.cores /\ level.logical % level.cores = 0

\* What macOS lists: a level is made of numbers of 32 bits, and named by one.
IsLevelList(levels) ==
  LET Counts == 0..(CountLimit - 1)
  IN /\ levels \in Seq([cores : Counts, logical : Counts, l1DataBytes : Counts, l1InstructionBytes : Counts,
                         l2Bytes : Counts, logicalPerL2 : Counts, l3Bytes : Counts, logicalPerL3 : Counts])
     /\ Len(levels) < CountLimit

\* All processors of all levels, without a limit.
ProcessorsOf(levels) == SumFunction([i \in DOMAIN levels |-> levels[i].logical])

\* No level has more processors than 16 bits count, nor do all together leave 32.
CountsFitTheirWords(levels) ==
  /\ \A i \in DOMAIN levels : levels[i].logical <= LogicalProcessorLimit
  /\ ProcessorsOf(Reverse(levels)) < CountLimit

\* probeTopology: classes are numbered from the slowest.
ProbeTopology(levels, lineSize) ==
  LET classes == Reverse(levels)
      cores == CastTo32(SumFunction([i \in DOMAIN classes |-> classes[i].cores]))
  IN IF levels = <<>> \/ \E i \in DOMAIN levels : ~CountsAreValid(levels[i]) THEN UnknownTopology
     ELSE [UnknownTopology EXCEPT
             !.classes = [i \in DOMAIN classes |->
                            [logicalProcessorCount |-> classes[i].logical, coreCount |-> classes[i].cores,
                             caches |-> ProbeCaches(classes[i])]],
             !.logicalProcessorCount = CastTo32(ProcessorsOf(classes)),
             !.physicalCoreCount = cores,
             !.performanceCoreCount = Last(classes).cores,
             !.efficiencyCoreCount = CastTo32(cores - Last(classes).cores),
             !.efficiencyClassCount = CastTo32(Len(classes)),
             !.packageCount = 1, !.numaNodeCount = 1,
             !.cacheLineSize = CastTo16(lineSize)]

-----------------------------------------------------------------------------
(* How many of the processors the program may use.                         *)

AtLeastOne(n) == IF n = 0 THEN 1 ELSE n

\* Windows: the process's mask counts if it is of the only group, or of one group and not all
\* of it; or else the job's groups, or all that are active.
WindowsAvailable(os) ==
  IF os.mask # {}
     /\ (os.groupCount = 1 \/ (os.mask # os.systemMask /\ os.processGroupCount = 1))
  THEN Cardinality(os.mask)
  ELSE IF os.jobProcessors # 0 THEN os.jobProcessors ELSE AtLeastOne(os.active)

\* The cap of the job, in parts of 10000 of all processors, rounded up.
WindowsQuota(os) ==
  LET available == WindowsAvailable(os)
      quota == (os.rate * os.active + 9999) \div 10000
  IN IF os.rate = 0 \/ os.active = 0 THEN available
     ELSE IF quota < 1 THEN 1 ELSE IF quota > available THEN available ELSE quota
=============================================================================
