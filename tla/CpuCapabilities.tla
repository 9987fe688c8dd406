-------------------------- MODULE CpuCapabilities --------------------------
(* What the program knows of the machine it runs on: the features, read    *)
(* once and only ever added to, and the topology, which is there between   *)
(* initCapabilities and freeCapabilities.                                  *)
EXTENDS CpuX86, CpuArm64Probes, CpuTopology

CONSTANTS Hosts,   \* the machines: what their processors and their OS answer
          Builds   \* what the program was built for

ASSUME BuildsAreAccepted ==
  \A build \in Builds :
    IF build.arch = "x86"
    THEN BuildIsAccepted(X86TargetFeatures(build.version), X86CompilerTargetFeatures(build.used))
    ELSE BuildIsAccepted(Arm64TargetFeatures(build.version), Arm64CompilerTargetFeatures(build.used))

\* Each is one of the two architectures', and each OS one of the three.
ASSUME ArchitecturesAreKnown ==
  /\ \A h \in Hosts : h.arch \in {"x86", "arm"}
  /\ \A h \in Hosts : h.arch = "arm" => h.cpu.os \in {"linux", "windows", "macos"}

\* An x86-64 processor answers truly what it has and the OS saves what it has enabled (real
\* and saved are not the program's to see); the OS lists each processor's core and caches once.
ASSUME HostsAnswerTruly ==
  \A h \in Hosts :
    /\ h.os \in {"linux", "windows", "macos"}
    /\ h.arch = "x86" => AnswersTruly(h.cpu, h.real) /\ Saves(h.cpu, h.real, h.saved)
    /\ h.os = "windows" => IsRecordList(h.records)
    /\ h.os = "macos" => IsLevelList(h.levels)

\* The prerequisites of both architectures list those of each other: what
\* PrerequisitesAreClosed asks at compile time (cpu_probe_x86_64.cpp:653).
ASSUME PrerequisitesAreWhole ==
  PrerequisitesAreClosed(X86Prerequisites) /\ PrerequisitesAreClosed(Arm64Prerequisites)

\* What the tables report are features, of the architecture the table is for.
ASSUME TablesNameFeatures ==
  /\ \A table \in {GeneralCpuidBits, VectorAndSystemCpuidBits} :
       \A register \in DOMAIN table : DOMAIN table[register] \subseteq X86Features
  /\ \A table \in {HwcapSourceOfGeneral, HwcapSourceOfFp8AndSve, HwcapSourceOfSmeAndSystem,
                     ProcessorFeature} : DOMAIN table \subseteq Arm64Features
  /\ FeaturesWithCapsBit \union FeaturesWithFlagOnly \subseteq Arm64Features

\* The versions of AVX10 are in a register of their own, in their order.
ASSUME VersionsHaveTheirRegister ==
  \A table \in {GeneralCpuidBits, VectorAndSystemCpuidBits} : \A register \in DOMAIN table :
    /\ "Avx10V1" \in DOMAIN table[register] => register = "Avx10Versions" /\ table[register]["Avx10V1"] = 0
    /\ "Avx10V2" \in DOMAIN table[register] => register = "Avx10Versions" /\ table[register]["Avx10V2"] = 1
    /\ register = "Avx10Versions" => DOMAIN table[register] = {"Avx10V1", "Avx10V2"}
    /\ register \in DOMAIN LeafOf \union DOMAIN ExtendedLeafOf \union {"Avx10Versions"}

VARIABLES host, build,
          identity,            \* the features and what else identifies the processor
          topology,
          initialised          \* "no", "yes", or "aborted": the floor check has failed

capabilityVars == <<host, build, identity, topology, initialised>>

NoIdentity == [features |-> {}, info |-> <<>>]

TargetFeatures ==
  IF build.arch = "x86" THEN X86TargetFeatures(build.version) ELSE Arm64TargetFeatures(build.version)

CompilerTargetFeatures ==
  IF build.arch = "x86" THEN X86CompilerTargetFeatures(build.used)
  ELSE Arm64CompilerTargetFeatures(build.used)

Prerequisites == IF host.arch = "x86" THEN X86Prerequisites ELSE Arm64Prerequisites

ProbeIdentity ==
  IF host.arch = "x86"
  THEN [features |-> X86FeaturesOf(host.cpu), info |-> X86InfoOf(host.cpu)]
  ELSE [features |-> Arm64FeaturesOf(host.cpu), info |-> Arm64VendorOf(host.cpu)]

\* Linux is not asked for a topology yet.
TopologyOfHost ==
  CASE host.os = "windows" -> BuildTopology(ProbeRawTopology(host.records))
    [] host.os = "macos" -> ProbeTopology(host.levels, host.lineSize)
    [] host.os = "linux" -> UnknownTopology

CapabilitiesInit ==
  /\ host \in Hosts /\ build \in Builds /\ build.arch = host.arch
  /\ identity = NoIdentity /\ topology = UnknownTopology /\ initialised = "no"

\* Features are added to those of an earlier initialisation.
InitCapabilities ==
  /\ initialised = "no"
  /\ identity' = [ProbeIdentity EXCEPT !.features = @ \union identity.features]
  /\ IF build.floorCheck /\ ~FloorCheckPasses(identity'.features, TargetFeatures)
     THEN initialised' = "aborted" /\ UNCHANGED topology
     ELSE initialised' = "yes" /\ topology' = TopologyOfHost
  /\ UNCHANGED <<host, build>>

FreeCapabilities ==
  /\ initialised = "yes"
  /\ initialised' = "no" /\ topology' = UnknownTopology
  /\ UNCHANGED <<host, build, identity>>

CapabilitiesNext == InitCapabilities \/ FreeCapabilities

CapabilitiesSpec == CapabilitiesInit /\ [][CapabilitiesNext]_capabilityVars

-----------------------------------------------------------------------------
(* What has to hold once the capabilities are there.                       *)

\* Everything a detected feature builds on is detected too.
PrerequisitesAreDetected == \A f \in identity.features : Prerequisites[f] \subseteq identity.features

\* What the compiler may use of its own accord is detected, if the floor is checked.
BuildCanRun == build.floorCheck => CompilerTargetFeatures \subseteq identity.features

\* A detected feature can be used: the machine has it, with what it builds on, and the OS
\* saves the registers it uses.
FeaturesAreUsable ==
  /\ PrerequisitesAreDetected /\ BuildCanRun
  /\ host.arch = "x86" =>
       /\ identity.features \subseteq host.real
       /\ \A f \in identity.features : FeatureRegisterState(f) \in host.saved \union {"None"}
       /\ identity.info.avx10Version >= 1 <=> "Avx10V1" \in identity.features
       /\ identity.info.avx10Version >= 2 <=> "Avx10V2" \in identity.features

CountsAgree ==
  /\ topology.physicalCoreCount <= topology.logicalProcessorCount
  /\ topology.packageCount >= 1 /\ topology.numaNodeCount >= 1
  /\ IF topology.efficiencyClassCount = 0
     THEN topology.performanceCoreCount = 0 /\ topology.efficiencyCoreCount = 0
     ELSE /\ topology.performanceCoreCount + topology.efficiencyCoreCount = topology.physicalCoreCount
          /\ topology.performanceCoreCount > 0
          /\ (topology.efficiencyCoreCount = 0) <=> (topology.efficiencyClassCount = 1)

\* Two processors share a core, or a cache that is listed, if the OS says so.
SharingIsTrue ==
  \A p, q \in ToSet(topology.processors) :
    LET Covers(i) == {p.processorNumber, q.processorNumber} \subseteq host.records[i].processors
        OfKind(kind) == {i \in PlacesOf(host.records, "cache") : Kind(host.records[i]) = kind}
    IN /\ p.core = q.core <=> \E i \in PlacesOf(host.records, "core") : Covers(i)
       /\ topology.caches # <<>> =>
            \A k \in DOMAIN CacheKinds :
              (p.cacheIndices[k] = q.cacheIndices[k] /\ p.cacheIndices[k] # InvalidCacheIndex)
                <=> \E i \in OfKind(CacheKinds[k]) : Covers(i)

ProcessorsAgree ==
  /\ Len(topology.processors) = topology.logicalProcessorCount
  /\ \A i \in DOMAIN topology.processors, j \in DOMAIN topology.processors :
       LET p == topology.processors[i]  q == topology.processors[j]
       IN i < j => /\ p.efficiencyClass <= q.efficiencyClass
                   /\ p.efficiencyClass = q.efficiencyClass => p.core <= q.core
                   /\ p.core = q.core => p.processorNumber < q.processorNumber
  /\ \A p \in ToSet(topology.processors) :
       /\ p.core < topology.physicalCoreCount
       /\ p.package < topology.packageCount /\ p.numaNode < topology.numaNodeCount
       /\ p.efficiencyClass < AtLeastOne(topology.efficiencyClassCount)
       /\ \A k \in DOMAIN CacheKinds : p.cacheIndices[k] # InvalidCacheIndex =>
            /\ p.cacheIndices[k] < Len(topology.caches)
            /\ topology.caches[p.cacheIndices[k] + 1].kind = CacheKinds[k]
  /\ \A c \in DOMAIN topology.caches :
       topology.caches[c].sharingLogicalProcessorCount =
         Cardinality({p \in ToSet(topology.processors) : \E k \in DOMAIN CacheKinds :
                        p.cacheIndices[k] = c - 1})

ClassesAgree ==
  /\ topology.logicalProcessorCount =
       SumFunction([i \in DOMAIN topology.classes |-> topology.classes[i].logicalProcessorCount])
  /\ \A i \in DOMAIN topology.classes : \A k \in DOMAIN CacheKinds :
       LET cache == topology.classes[i].caches[k]
       IN /\ cache.kind = CacheKinds[k]
          /\ cache.sizeBytes = 0 <=> cache.sharingLogicalProcessorCount = 0
          /\ cache.sharingLogicalProcessorCount <= topology.classes[i].logicalProcessorCount

\* An unknown topology is unknown as a whole; of one that is known, the parts agree.
TopologyAgrees ==
  IF topology.logicalProcessorCount = 0 THEN topology = UnknownTopology
  ELSE /\ CountsAgree
       /\ IF host.os = "macos" THEN ClassesAgree ELSE ProcessorsAgree /\ SharingIsTrue

\* What initCapabilities leaves can be relied on, whatever the processor and the OS leave
\* out or answer wrongly (cpu_capabilities.cpp:325, cpu_probe_x86_64.cpp:807); a Mac's topology
\* as long as its counts fit their words, which nobody checks (cpu_probe_macos.cpp:137, 189).
CapabilitiesAreConsistent ==
  initialised = "yes" =>
    /\ FeaturesAreUsable
    /\ (host.os = "macos" => CountsFitTheirWords(host.levels)) => TopologyAgrees

\* More processors than the limit make the whole topology unknown, as
\* docs/subsystems/core/cpu.md:463 says of every OS: on macOS they do not
\* (cpu_probe_macos.cpp:189).
TooManyProcessorsAreUnknown ==
  LET listed == CASE host.os = "windows" -> Cardinality(ProbeRawTopology(host.records).processors)
                  [] host.os = "macos" -> ProcessorsOf(host.levels)
                  [] host.os = "linux" -> 0
  IN initialised = "yes" /\ listed > LogicalProcessorLimit => topology = UnknownTopology
=============================================================================
