------------------------------ MODULE MCEngine ------------------------------
(* Each behaviour exercises one thing: the frames of the engine, the       *)
(* reading of the machine's capabilities, which is done before the first   *)
(* frame, a thread that sleeps and times its frames, or the world's time.  *)
EXTENDS Engine, CpuCapabilities, WorldTime

VARIABLE exercised

-----------------------------------------------------------------------------
(* Systems: a device with one family that does everything, after one that  *)
(* is too old; and one whose two families do one thing each.               *)

Size(side) == [width |-> side, height |-> side]
SurfaceAt(extent, minImages, maxImages) ==
  [currentExtent |-> extent, minExtent |-> Size(1), maxExtent |-> Size(2), minImages |-> minImages,
   maxImages |-> maxImages, formats |-> <<"b8g8r8a8 unorm", "b8g8r8a8 srgb">>, modes |-> {"fifo"}]
Family(supports) == [queueCount |-> 1, supports |-> supports]
DeviceWith(features, families) ==
  [features |-> features, extensions |-> {"swapchain"}, families |-> families]
Modern == {"synchronization2", "dynamicRendering"}
OldDevice == DeviceWith({}, <<Family({"graphics", "present"})>>)
OneFamily == DeviceWith(Modern, <<Family({"transfer"}), Family({"graphics", "present"})>>)
TwoFamilies == DeviceWith(Modern, <<Family({"graphics"}), Family({"present"})>>)

SystemWith(devices, first, others, debugLayer) ==
  [debugLayer |-> debugLayer, validation |-> TRUE, required |-> {"surface"},
   extensions |-> {"surface", "debug_utils", "portability_enumeration"}, layers |-> {},
   devices |-> devices, surface |-> first, surfaces |-> others, framebuffer |-> Size(1)]

Small == SurfaceAt(Size(1), 2, 2)
Large == SurfaceAt(Size(2), 2, 0)
Minimised == SurfaceAt(Size(0), 2, 2)
Unsized == SurfaceAt(NoExtent, 1, 0)

MCSystems ==
  {SystemWith(<<OldDevice, OneFamily>>, Small, {Small, Large, Minimised}, FALSE),
   SystemWith(<<TwoFamilies>>, Unsized, {Unsized}, TRUE)}

MCImagesOf(n) == {n}

-----------------------------------------------------------------------------
(* x86-64 processors. A leaf that one does not answer returns every bit.   *)

Tables == {GeneralCpuidBits, VectorAndSystemCpuidBits}
BitsOf(register, features) ==
  UNION {IF register \in DOMAIN table
           THEN {table[register][f] : f \in features \intersect DOMAIN table[register]} ELSE {}
         : table \in Tables}

RegistersWith(features, unanswered) ==
  [r \in CpuidRegister \union {"Extended21Eax"} |->
     IF r \in unanswered THEN 0..31
     ELSE IF r = "Extended21Eax" THEN {}
     ELSE IF r = "Leaf7Subleaf1Edx" /\ "Avx10V1" \in features THEN BitsOf(r, features) \union {19}
     ELSE BitsOf(r, features)]

XcrOf(saved) ==
  (IF "Ymm" \in saved THEN {1, 2} ELSE {}) \union (IF "Zmm" \in saved THEN {5, 6, 7} ELSE {})
  \union (IF "Apx" \in saved THEN {19} ELSE {})

Processor(features, saved) ==
  [maxLeaf |-> 36, maxExtendedLeaf |-> 33, leaf7Eax |-> 1, leaf1Eax |-> 591594,
   leaf24Ebx |-> IF "Avx10V2" \in features THEN 258 ELSE IF "Avx10V1" \in features THEN 257 ELSE 256,
   registers |-> RegistersWith(features, {}), xcr0 |-> XcrOf(saved), isIntel |-> TRUE, isMacos |-> FALSE]

HostWith(cpu, real, saved) ==
  [arch |-> "x86", os |-> "linux", cpu |-> cpu, real |-> real, saved |-> saved]

AllStates == {"Xsave", "Ymm", "Zmm", "Apx"}
\* Every feature but one is reported: a hypervisor may hide any.
HidingHosts == {HostWith(Processor(X86Features \ {f}, AllStates), X86Features \ {f},
                         IF f = "Osxsave" THEN {} ELSE AllStates) : f \in X86Features}
\* The OS saves less than the processor has.
SavingHosts == {HostWith(Processor(X86Features, saved), X86Features, saved \union {"Xsave"})
                : saved \in SUBSET {"Ymm", "Zmm", "Apx"} \ {{"Zmm"}, {"Zmm", "Apx"}}}
\* Without OSXSAVE reading what the OS saves is not possible: it may be anything.
WithoutOsxsave == HostWith(Processor(X86Features \ {"Osxsave"}, AllStates), X86Features \ {"Osxsave"}, {})

\* Leaves that are not there.
Lacking(leaves) ==
  X86Features \ UNION {ReportedBy(r, 0..31) : r \in leaves}
Leaf7s == {"Leaf7Ebx", "Leaf7Ecx", "Leaf7Edx", "Leaf7Subleaf1Eax", "Leaf7Subleaf1Edx"}
WithoutLeaves(leaves, edited) ==
  LET real == Lacking(leaves)
  IN HostWith([edited EXCEPT !.registers = RegistersWith(X86Features, leaves)], real, AllStates)

OldHosts ==
  LET cpu == Processor(X86Features, AllStates)
  IN {WithoutLeaves({"Avx10Versions"}, [cpu EXCEPT !.maxLeaf = 35]),
      WithoutLeaves({"Avx10Versions", "Leaf0DSubleaf1Eax"}, [cpu EXCEPT !.maxLeaf = 12]),
      WithoutLeaves({"Avx10Versions", "Leaf0DSubleaf1Eax"} \union Leaf7s, [cpu EXCEPT !.maxLeaf = 6]),
      WithoutLeaves({"Avx10Versions", "Leaf7Subleaf1Eax", "Leaf7Subleaf1Edx"}, [cpu EXCEPT !.leaf7Eax = 0]),
      WithoutLeaves({"Extended21Eax"}, [cpu EXCEPT !.maxExtendedLeaf = 32]),
      WithoutLeaves({"Extended21Eax", "Extended8Ebx"}, [cpu EXCEPT !.maxExtendedLeaf = 7]),
      WithoutLeaves({"Extended21Eax", "Extended8Ebx", "Extended7Edx"}, [cpu EXCEPT !.maxExtendedLeaf = 6])}

\* An Intel processor without AVX that reports BMI without having it; one of AMD, which
\* reports the prefetch of instructions elsewhere; and a Mac, which enables the AVX-512
\* state late.
Nehalem == X86Version2 \union {"Xsave", "Osxsave"}
ErratumHost == HostWith(Processor(Nehalem \union {"Bmi1", "Bmi2"}, {"Xsave"}), Nehalem, {"Xsave"})
AmdHost ==
  HostWith([Processor(X86Features \ {"Prefetchi"}, AllStates)
              EXCEPT !.registers.Extended21Eax = {20}, !.isIntel = FALSE], X86Features, AllStates)
MacHost ==
  [HostWith([Processor(X86Features, {"Ymm", "Apx"}) EXCEPT !.isMacos = TRUE], X86Features, AllStates)
     EXCEPT !.os = "macos"]
     @@ [levels |-> <<>>, lineSize |-> 0]

X86Hosts == HidingHosts \union SavingHosts \union OldHosts \union {WithoutOsxsave, ErratumHost, AmdHost, MacHost}

-----------------------------------------------------------------------------
(* Topologies of Windows.                                                  *)

RecordOf(relationship, processors) == [relationship |-> relationship, processors |-> processors]
Core(class, processors) == RecordOf("core", processors) @@ [class |-> class]
Node(node, processors) == RecordOf("numaNode", processors) @@ [node |-> node]
CacheRecord(level, type, processors, lineSize) ==
  RecordOf("cache", processors) @@ [level |-> level, type |-> type, sizeBytes |-> level, lineSize |-> lineSize]

\* A core with two processors and two slower ones, which share a second level cache.
HybridCores == <<Core(1, {0, 1}), Core(0, {2}), Core(0, {3})>>
HybridCaches ==
  <<CacheRecord(3, "unified", 0..3, 64), CacheRecord(1, "data", {0, 1}, 0), CacheRecord(2, "unified", {0, 1}, 64),
    CacheRecord(1, "data", {2}, 64), CacheRecord(1, "instruction", {2}, 64),
    CacheRecord(1, "instruction", {0, 1}, 64), CacheRecord(1, "data", {3}, 64),
    CacheRecord(1, "instruction", {3}, 64), CacheRecord(2, "unified", {2, 3}, 64)>>
Nodes == <<RecordOf("package", {2, 3}), RecordOf("package", {0, 1}), Node(4, {0, 1}), Node(2, {2, 3})>>

RecordLists ==
  {HybridCores \o HybridCaches \o Nodes,
   Nodes \o Reverse(HybridCaches) \o HybridCores,
   <<Core(0, {5}), Core(0, {1}), Node(0, {1, 5})>>,
   HybridCores \o Nodes,
   \* Caches nobody uses, that are left out, that are too many, and on some processors only.
   HybridCores \o HybridCaches \o <<CacheRecord(3, "unified", {}, 64)>>,
   HybridCores \o HybridCaches \o <<CacheRecord(1, "unified", {0}, 64), CacheRecord(4, "unified", {1}, 64)>>,
   HybridCores \o HybridCaches \o <<CacheRecord(3, "unified", {9}, 64), CacheRecord(3, "unified", {8}, 64)>>,
   HybridCores \o <<CacheRecord(3, "unified", {2, 3}, 64)>>,
   \* Too many classes, too many processors, and none.
   <<Core(0, {0}), Core(4, {1}), Core(7, {2}), Core(4, {3})>>,
   <<Core(0, 0..6)>>, <<Core(0, 0..7)>>,
   <<>>}

-----------------------------------------------------------------------------
(* Performance levels of macOS.                                            *)

LevelOf(cores, logical, l2Bytes, logicalPerL2, l3Bytes) ==
  [cores |-> cores, logical |-> logical, l1DataBytes |-> 2, l1InstructionBytes |-> 0,
   l2Bytes |-> l2Bytes, logicalPerL2 |-> logicalPerL2, l3Bytes |-> l3Bytes, logicalPerL3 |-> 0]

LevelLists ==
  {<<LevelOf(4, 4, 8, 4, 0), LevelOf(2, 2, 4, 6, 0)>>, <<LevelOf(3, 6, 8, 0, 15)>>,
   <<LevelOf(4, 4, 8, 4, 0), LevelOf(4, 6, 8, 4, 0)>>, <<LevelOf(0, 0, 8, 4, 0)>>, <<>>,
   \* More than the limit: in all; in a level, all of which share a cache; and more than wrap.
   <<LevelOf(7, 7, 8, 7, 0), LevelOf(3, 6, 8, 6, 0)>>,
   <<LevelOf(4, 8, 8, 9, 0)>>,
   <<LevelOf(7, 7, 8, 7, 0), LevelOf(7, 7, 8, 7, 0), LevelOf(2, 4, 8, 7, 0)>>}

-----------------------------------------------------------------------------
(* ARM64 processors: every feature is reported but one.                    *)

ArmHost(os, answer) ==
  [arch |-> "arm", os |-> os, cpu |-> answer @@ [os |-> os, mainId |-> 1091555456],
   records |-> <<>>, levels |-> <<>>, lineSize |-> 4]

AllWords == [w \in 1..3 |-> {Hwcaps[w][name] : name \in DOMAIN Hwcaps[w]}]
LinuxHosts == UNION {{ArmHost("linux", [auxval |-> [AllWords EXCEPT ![w] = @ \ {bit}]]) : bit \in AllWords[w]}
                     : w \in 1..3}

AllNumbers == {ProcessorFeatureNumber[name] : name \in DOMAIN ProcessorFeatureNumber}
WindowsHosts ==
  {ArmHost("windows", [present |-> AllNumbers \ {n}, registryOpens |-> n # 30]) : n \in AllNumbers}

MacFeatures == FeaturesWithCapsBit \union FeaturesWithFlagOnly
MacHosts ==
  {ArmHost("macos", [hasCaps |-> hasCaps, caps |-> FeaturesWithCapsBit \ {f}, flags |-> MacFeatures \ {f}])
   : hasCaps \in BOOLEAN, f \in MacFeatures}

ArmHosts ==
  LinuxHosts \union WindowsHosts \union MacHosts
  \union {[ArmHost("windows", [present |-> AllNumbers, registryOpens |-> TRUE]) EXCEPT !.records = list]
          : list \in RecordLists}
  \union {[ArmHost("macos", [hasCaps |-> FALSE, caps |-> {}, flags |-> MacFeatures])
             EXCEPT !.levels = list] : list \in LevelLists}

MCHosts == X86Hosts \union ArmHosts

\* Builds for the second and the third version of x86-64, for any ARM64 processor and for the
\* fifth Apple chip; the compiler uses what the target has, and may use what has no macro.
MCBuilds ==
  {[arch |-> "x86", version |-> version, floorCheck |-> floorCheck,
    used |-> X86TargetFeatures(version) \union {"Rdtscp"}] : version \in {2, 3}, floorCheck \in BOOLEAN}
  \union {[arch |-> "arm", version |-> version, floorCheck |-> TRUE,
           used |-> Arm64TargetFeatures(version)] : version \in {0, 5}}

-----------------------------------------------------------------------------
(* What the tables promise.                                                *)

\* No two features are reported by the same bit, and each one is by exactly one.
ASSUME EachFeatureHasItsBit ==
  LET places == UNION {UNION {{<<r, table[r][f], f>> : f \in DOMAIN table[r]} : r \in DOMAIN table}
                       : table \in Tables}
  IN /\ {place[3] : place \in places} = X86Features
     /\ Cardinality(places) = Cardinality(X86Features)
     /\ Cardinality({<<place[1], place[2]>> : place \in places}) = Cardinality(places)

\* A Mac can pass the floor check of its own chip's build: what each chip's target names is
\* reported on macOS, with what it builds on (cpu_features_arm64.h:435).
ASSUME AppleTargetsAreDetected ==
  \A version \in 1..5 :
    Arm64TargetFeatures(version) \subseteq
      InsertFeaturesWithPrerequisites(MacFeatures, Arm64Prerequisites)

\* At least one processor is available and the quota is within what is available, with a
\* mask, a job or neither (cpu_windows.cpp:25, tests/cpu/cpu.cpp:82).
ASSUME QuotaIsWithinAvailable ==
  \A mask \in {{}, {0}, {0, 1}}, groups \in {1, 2}, job \in {0, 1, 3}, active \in {0, 2, 4},
     rate \in {0, 1, 5001, 10000} :
    LET os == [mask |-> mask, systemMask |-> {0, 1}, groupCount |-> groups, processGroupCount |-> 1,
               jobProcessors |-> job, active |-> active, rate |-> rate]
    IN 1 <= WindowsQuota(os) /\ WindowsQuota(os) <= WindowsAvailable(os)

-----------------------------------------------------------------------------

\* Counters of 10 MHz, 24 MHz and another frequency on Windows, and timebases faster and
\* slower than a nanosecond a tick on macOS, in the proportions of a small second.
MCClocks ==
  {[os |-> "linux"]}
  \union {[os |-> "windows", frequency |-> f] : f \in {Frequency10Mhz, Frequency24Mhz, 7}}
  \union {[os |-> "macos", numerator |-> r[1], denominator |-> r[2]] :
             r \in {<<1, 1>>, <<Numerator24Mhz, Denominator24Mhz>>, <<1, 3>>, <<4, 3>>}}

MCSleepDurations == {SignedMin, -2, 0, 1, 8, SignedMax}
MCFactors == {-2, 1, 3}

-----------------------------------------------------------------------------

MCInit ==
  /\ EngineInit /\ CapabilitiesInit /\ ClockInit /\ WorldTimeInit
  /\ exercised \in {"frames", "capabilities", "clock", "worldTime"}
  /\ exercised # "capabilities" => host = ErratumHost /\ build.version = 2 /\ build.floorCheck
  /\ exercised # "frames" => system = CHOOSE s \in Systems : s.debugLayer
  /\ exercised # "clock" => clock.os = "linux"

MCNext ==
  /\ UNCHANGED exercised
  /\ \/ /\ exercised = "frames" /\ EngineNext
        /\ UNCHANGED <<capabilityVars, clockVars, worldTimeVars>>
     \/ /\ exercised = "capabilities" /\ CapabilitiesNext
        /\ UNCHANGED <<frameVars, clockVars, worldTimeVars>>
     \/ /\ exercised = "clock" /\ ClockNext
        /\ UNCHANGED <<frameVars, capabilityVars, worldTimeVars>>
     \/ /\ exercised = "worldTime" /\ WorldTimeNext
        /\ UNCHANGED <<frameVars, capabilityVars, clockVars>>

\* What is not exercised does not begin.
MCSpec ==
  MCInit /\ [][MCNext]_<<frameVars, capabilityVars, clockVars, worldTimeVars, exercised>>
  /\ EngineFairness
=============================================================================
