------------------------------- MODULE CpuX86 -------------------------------
(* The features of an x86-64 processor: where CPUID reports each, which    *)
(* register state it needs the OS to have enabled, and what it builds on.  *)
(* A CPUID register is the set of the numbers of its bits that are set; of *)
(* the two that hold numbers, the signature and the AVX10 version, the     *)
(* numbers are kept.                                                       *)
EXTENDS CpuFeatures

X86Features ==
  {"Cmpxchg16b", "Cmpccxadd", "RaoInt", "Rtm", "Movdiri", "Movdir64b", "Serialize",
   "EnhancedRepMovsb", "FastShortRepMovsb", "FastZeroLengthRepMovsb", "FastShortRepStosb",
   "FastShortRepCmpsbScasb", "Waitpkg", "Monitorx", "Clflushopt", "Clwb", "Cldemote", "Clzero",
   "Prefetchw", "Prefetchi", "Movrs", "Pclmulqdq", "Aesni", "Sha", "Sha512", "Sm3", "Sm4",
   "Gfni", "Vaes", "Vpclmulqdq", "Rdrand", "Rdseed", "Popcnt", "Lzcnt", "Bmi1", "Bmi2", "Tbm",
   "Adx", "Movbe", "LahfSahf", "Rdpid", "Sse3", "Ssse3", "Sse41", "Sse42", "Sse4a", "Avx",
   "Avx2", "Fma", "F16c", "AvxVnni", "AvxVnniInt8", "AvxVnniInt16", "AvxIfma", "AvxNeConvert",
   "Xop", "Fma4", "Avx512F", "Avx512Dq", "Avx512Cd", "Avx512Bw", "Avx512Vl", "Avx512Ifma",
   "Avx512Vbmi", "Avx512Vbmi2", "Avx512Vnni", "Avx512Bitalg", "Avx512Vpopcntdq",
   "Avx512Vp2intersect", "Avx512Fp16", "Avx512Bf16", "Avx10V1", "Avx10V2", "ApxF", "Xsave",
   "Osxsave", "Xsaveopt", "Xsavec", "Pku", "Rdtscp", "InvariantTsc", "HypervisorPresent",
   "Hybrid"}

\* cpuidBit, in the order of its switch: the general features, then those of vectors, of
\* saved state and of the machine.
GeneralCpuidBits ==
  [Leaf1Ecx |-> [Cmpxchg16b |-> 13, Pclmulqdq |-> 1, Aesni |-> 25, Rdrand |-> 30, Popcnt |-> 23,
                 Movbe |-> 22],
   Leaf7Subleaf1Eax |-> [Cmpccxadd |-> 7, RaoInt |-> 3, FastZeroLengthRepMovsb |-> 10,
                         FastShortRepStosb |-> 11, FastShortRepCmpsbScasb |-> 12, Movrs |-> 31,
                         Sha512 |-> 0, Sm3 |-> 1, Sm4 |-> 2],
   Leaf7Ebx |-> [Rtm |-> 11, EnhancedRepMovsb |-> 9, Clflushopt |-> 23, Clwb |-> 24, Sha |-> 29,
                 Rdseed |-> 18, Bmi1 |-> 3, Bmi2 |-> 8, Adx |-> 19],
   Leaf7Ecx |-> [Movdiri |-> 27, Movdir64b |-> 28, Waitpkg |-> 5, Cldemote |-> 25, Gfni |-> 8,
                 Vaes |-> 9, Vpclmulqdq |-> 10, Rdpid |-> 22],
   Leaf7Edx |-> [Serialize |-> 14, FastShortRepMovsb |-> 4],
   Extended1Ecx |-> [Monitorx |-> 29, Prefetchw |-> 8, Lzcnt |-> 5, Tbm |-> 21, LahfSahf |-> 0],
   Extended8Ebx |-> [Clzero |-> 0],
   Leaf7Subleaf1Edx |-> [Prefetchi |-> 14]]

VectorAndSystemCpuidBits ==
  [Leaf1Ecx |-> [Sse3 |-> 0, Ssse3 |-> 9, Sse41 |-> 19, Sse42 |-> 20, Avx |-> 28, Fma |-> 12,
                 F16c |-> 29, Xsave |-> 26, Osxsave |-> 27, HypervisorPresent |-> 31],
   Extended1Ecx |-> [Sse4a |-> 6, Xop |-> 11, Fma4 |-> 16],
   Leaf7Ebx |-> [Avx2 |-> 5, Avx512F |-> 16, Avx512Dq |-> 17, Avx512Cd |-> 28, Avx512Bw |-> 30,
                 Avx512Vl |-> 31, Avx512Ifma |-> 21],
   Leaf7Subleaf1Eax |-> [AvxVnni |-> 4, AvxIfma |-> 23, Avx512Bf16 |-> 5],
   Leaf7Subleaf1Edx |-> [AvxVnniInt8 |-> 4, AvxVnniInt16 |-> 10, AvxNeConvert |-> 5, ApxF |-> 21],
   Leaf7Ecx |-> [Avx512Vbmi |-> 1, Avx512Vbmi2 |-> 6, Avx512Vnni |-> 11, Avx512Bitalg |-> 12,
                 Avx512Vpopcntdq |-> 14, Pku |-> 4],
   Leaf7Edx |-> [Avx512Vp2intersect |-> 8, Avx512Fp16 |-> 23, Hybrid |-> 15],
   Avx10Versions |-> [Avx10V1 |-> 0, Avx10V2 |-> 1],
   Leaf0DSubleaf1Eax |-> [Xsaveopt |-> 0, Xsavec |-> 1],
   Extended1Edx |-> [Rdtscp |-> 27],
   Extended7Edx |-> [InvariantTsc |-> 8]]

\* The leaves a bit may be in.
CpuidRegister == DOMAIN GeneralCpuidBits \union DOMAIN VectorAndSystemCpuidBits

\* The features that a register reports, by the bits of it that are set.
ReportedBy(register, bits) ==
  UNION {IF register \in DOMAIN table
           THEN {f \in DOMAIN table[register] : table[register][f] \in bits} ELSE {}
         : table \in {GeneralCpuidBits, VectorAndSystemCpuidBits}}

\* The AVX-512 features that only build on the first of them.
Avx512Extensions ==
  {"Avx512Dq", "Avx512Cd", "Avx512Bw", "Avx512Vl", "Avx512Ifma", "Avx512Vbmi", "Avx512Vbmi2",
   "Avx512Vnni", "Avx512Bitalg", "Avx512Vpopcntdq", "Avx512Vp2intersect", "Avx512Bf16"}

FeatureRegisterState(f) ==
  CASE f \in {"Xsave", "Xsaveopt", "Xsavec"} -> "Xsave"
    [] f \in {"Sha512", "Sm3", "Sm4", "Vaes", "Vpclmulqdq", "Avx", "Avx2", "Fma", "F16c", "AvxVnni",
             "AvxVnniInt8", "AvxVnniInt16", "AvxIfma", "AvxNeConvert", "Xop", "Fma4"} -> "Ymm"
    [] f \in Avx512Extensions \union {"Avx512F", "Avx512Fp16", "Avx10V1", "Avx10V2"} -> "Zmm"
    [] f = "ApxF" -> "Apx"
    [] OTHER -> "None"

X86Prerequisites ==
  [f \in X86Features |->
     CASE f \in {"Sha512", "Sm3", "Sm4", "Vpclmulqdq", "Avx2", "Fma", "F16c", "Xop", "Fma4"} -> {"Avx"}
       [] f \in Avx512Extensions -> {"Avx512F"}
       [] f = "Avx512Fp16" -> {"Avx512F", "Avx512Bw"}
       [] OTHER -> {}]

-----------------------------------------------------------------------------
(* Reading. A processor is a record: the leaves it answers, what each      *)
(* register holds, and what the OS has enabled in XCR0 (bit numbers). The  *)
(* extended leaves are numbered from 8000_0000.                            *)

Avx10IsListed(cpu) ==
  /\ cpu.maxLeaf >= 7 /\ cpu.leaf7Eax >= 1
  /\ 19 \in cpu.registers.Leaf7Subleaf1Edx
  /\ cpu.maxLeaf >= 36

\* The leaf each register belongs to, and whether the processor answers it.
LeafOf ==
  [Leaf1Ecx |-> 1, Leaf7Ebx |-> 7, Leaf7Ecx |-> 7, Leaf7Edx |-> 7, Leaf7Subleaf1Eax |-> 7,
   Leaf7Subleaf1Edx |-> 7, Leaf0DSubleaf1Eax |-> 13]
ExtendedLeafOf ==
  [Extended1Ecx |-> 1, Extended1Edx |-> 1, Extended7Edx |-> 7, Extended8Ebx |-> 8, Extended21Eax |-> 33]
IsAnswered(cpu, register) ==
  \/ /\ register \in DOMAIN LeafOf /\ cpu.maxLeaf >= LeafOf[register]
     /\ register \in {"Leaf7Subleaf1Eax", "Leaf7Subleaf1Edx"} => cpu.leaf7Eax >= 1
  \/ register \in DOMAIN ExtendedLeafOf /\ cpu.maxExtendedLeaf >= ExtendedLeafOf[register]

\* A processor that has the features in real answers truly where it answers, but for BMI on
\* Intel's without AVX: of other registers nothing is known.
AnswersTruly(cpu, real) ==
  /\ cpu.maxLeaf \in Nat /\ cpu.maxExtendedLeaf \in Nat /\ cpu.leaf7Eax \in Nat /\ cpu.leaf24Ebx \in Nat
  /\ \A register \in DOMAIN LeafOf \union DOMAIN ExtendedLeafOf :
       IsAnswered(cpu, register) =>
         ReportedBy(register, cpu.registers[register])
           \subseteq real \union (IF cpu.isIntel /\ "Avx" \notin real THEN {"Bmi1", "Bmi2"} ELSE {})
  /\ IsAnswered(cpu, "Extended21Eax") /\ 20 \in cpu.registers.Extended21Eax => "Prefetchi" \in real
  /\ IsAnswered(cpu, "Leaf7Subleaf1Edx") /\ 19 \in cpu.registers.Leaf7Subleaf1Edx /\ cpu.maxLeaf >= 36 =>
       /\ cpu.leaf24Ebx % 256 >= 1 => "Avx10V1" \in real
       /\ cpu.leaf24Ebx % 256 >= 2 => "Avx10V2" \in real

\* What the OS saves of the registers: what it enabled, if reading that is possible.
Saves(cpu, real, saved) ==
  "Osxsave" \in real =>
    /\ "Xsave" \in saved
    /\ {1, 2} \subseteq cpu.xcr0 => "Ymm" \in saved
    /\ {1, 2} \subseteq cpu.xcr0 /\ (cpu.isMacos \/ {5, 6, 7} \subseteq cpu.xcr0) => "Zmm" \in saved
    /\ 19 \in cpu.xcr0 => "Apx" \in saved

\* What is read: a leaf the processor does not answer would return something else, so it is
\* left at nothing.
ReadFeatureRegisters(cpu) ==
  LET answered ==
        (IF cpu.maxLeaf >= 1 THEN {"Leaf1Ecx"} ELSE {})
        \union (IF cpu.maxLeaf >= 7 THEN {"Leaf7Ebx", "Leaf7Ecx", "Leaf7Edx"} ELSE {})
        \union (IF cpu.maxLeaf >= 7 /\ cpu.leaf7Eax >= 1
                  THEN {"Leaf7Subleaf1Eax", "Leaf7Subleaf1Edx"} ELSE {})
        \union (IF cpu.maxLeaf >= 13 THEN {"Leaf0DSubleaf1Eax"} ELSE {})
        \union (IF cpu.maxExtendedLeaf >= 1 THEN {"Extended1Ecx", "Extended1Edx"} ELSE {})
        \union (IF cpu.maxExtendedLeaf >= 7 THEN {"Extended7Edx"} ELSE {})
        \union (IF cpu.maxExtendedLeaf >= 8 THEN {"Extended8Ebx"} ELSE {})
        \union (IF cpu.maxExtendedLeaf >= 33 THEN {"Extended21Eax"} ELSE {})
  IN [r \in CpuidRegister \union {"Extended21Eax"} |->
        IF r = "Avx10Versions"
        THEN {v \in {0, 1} : Avx10IsListed(cpu) /\ cpu.leaf24Ebx % 256 > v}
        ELSE IF r \in answered THEN cpu.registers[r] ELSE {}]

\* What the OS saves and restores for the feature. macOS enables the AVX-512 state of a
\* thread once the thread uses it.
IsXcr0StateEnabled(state, xcr0, osXsave, isMacos) ==
  LET ymm == osXsave /\ {1, 2} \subseteq xcr0
  IN \/ state = "None"
     \/ state = "Xsave" /\ osXsave
     \/ state = "Ymm" /\ ymm
     \/ state = "Zmm" /\ ymm /\ (isMacos \/ {5, 6, 7} \subseteq xcr0)
     \/ state = "Apx" /\ osXsave /\ 19 \in xcr0

\* probeFeatures: bit 20 of 8000_0021 is AMD's own report of instruction prefetch, and
\* Intel's processors that do not report AVX may report BMI without having it.
X86FeaturesOf(cpu) ==
  LET registers == ReadFeatureRegisters(cpu)
      reported == (UNION {ReportedBy(r, registers[r]) : r \in CpuidRegister})
                  \union (IF 20 \in registers.Extended21Eax THEN {"Prefetchi"} ELSE {})
      osXsave == "Osxsave" \in reported
      xcr0 == IF osXsave THEN cpu.xcr0 ELSE {}
      erratum == IF cpu.isIntel /\ "Avx" \notin reported THEN {"Bmi1", "Bmi2"} ELSE {}
      usable == {f \in reported \ erratum :
                   IsXcr0StateEnabled(FeatureRegisterState(f), xcr0, osXsave, cpu.isMacos)}
  IN InsertFeaturesWithPrerequisites(usable, X86Prerequisites)

\* probeIdentity: what the signature says, with its extensions where they count, and the
\* version of AVX10 when that is used.
X86InfoOf(cpu) ==
  LET signature == IF cpu.maxLeaf >= 1 THEN cpu.leaf1Eax ELSE 0
      familyId == ExtractBits(signature, 11, 8)
      modelExtension == IF familyId \in {6, 15} THEN ExtractBits(signature, 19, 16) ELSE 0
  IN [family |-> familyId + (IF familyId = 15 THEN ExtractBits(signature, 27, 20) ELSE 0),
      model |-> ExtractBits(signature, 7, 4) + 16 * modelExtension,
      stepping |-> ExtractBits(signature, 3, 0),
      avx10Version |-> IF "Avx10V1" \in X86FeaturesOf(cpu) THEN cpu.leaf24Ebx % 256 ELSE 0]

-----------------------------------------------------------------------------
(* What a build needs.                                                     *)

X86Version2 == {"Sse3", "Ssse3", "Sse41", "Sse42", "Popcnt", "Cmpxchg16b", "LahfSahf"}
X86Version3 == {"Avx", "Avx2", "Bmi1", "Bmi2", "Fma", "F16c", "Lzcnt", "Movbe", "Xsave", "Osxsave"}

X86TargetFeatures(version) == X86Version2 \union (IF version >= 3 THEN X86Version3 ELSE {})

\* compilerTargetFeatures: a compiler has no macro for these; it has one for each other.
X86FeaturesWithoutMacro ==
  {"EnhancedRepMovsb", "FastShortRepMovsb", "FastZeroLengthRepMovsb", "FastShortRepStosb",
   "FastShortRepCmpsbScasb", "Osxsave", "Rdtscp", "InvariantTsc", "HypervisorPresent", "Hybrid"}

X86CompilerTargetFeatures(used) == used \ X86FeaturesWithoutMacro
=============================================================================
