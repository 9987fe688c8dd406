--------------------------- MODULE CpuArm64Probes ---------------------------
(* How the features of an ARM64 processor are found on each OS. A machine  *)
(* is what the OS answers: auxval (Linux), the bits of its three words;    *)
(* present (Windows), the numbers of the features it has; caps and flags   *)
(* (macOS), the features whose bit and whose flag it shows.                *)
EXTENDS CpuArm64, Sequences

-----------------------------------------------------------------------------
(* Linux: the auxiliary vector.                                            *)

Hwcap1 ==
  [AES |-> 3, PMULL |-> 4, SHA1 |-> 5, SHA2 |-> 6, CRC32 |-> 7, ATOMICS |-> 8, FPHP |-> 9,
   ASIMDHP |-> 10, CPUID |-> 11, ASIMDRDM |-> 12, JSCVT |-> 13, FCMA |-> 14, LRCPC |-> 15,
   DCPOP |-> 16, SHA3 |-> 17, SM3 |-> 18, SM4 |-> 19, ASIMDDP |-> 20, SHA512 |-> 21, SVE |-> 22,
   ASIMDFHM |-> 23, DIT |-> 24, USCAT |-> 25, ILRCPC |-> 26, FLAGM |-> 27, SSBS |-> 28,
   SB |-> 29, PACA |-> 30, PACG |-> 31, GCS |-> 32, CMPBR |-> 33, FPRCVT |-> 34, F8MM8 |-> 35,
   F8MM4 |-> 36, SVE_F16MM |-> 37, SVE_ELTPERM |-> 38, SVE_AES2 |-> 39, SVE_BFSCALE |-> 40,
   SVE2P2 |-> 41, SME2P2 |-> 42, SME_SBITPERM |-> 43, SME_AES |-> 44, SME_SFEXPA |-> 45,
   SME_STMOP |-> 46, SME_SMOP4 |-> 47]

Hwcap2 ==
  [DCPODP |-> 0, SVE2 |-> 1, SVEAES |-> 2, SVEPMULL |-> 3, SVEBITPERM |-> 4, SVESHA3 |-> 5,
   SVESM4 |-> 6, FLAGM2 |-> 7, FRINT |-> 8, SVEI8MM |-> 9, SVEF32MM |-> 10, SVEF64MM |-> 11,
   SVEBF16 |-> 12, I8MM |-> 13, BF16 |-> 14, RNG |-> 16, BTI |-> 17, MTE |-> 18, ECV |-> 19,
   AFP |-> 20, RPRES |-> 21, MTE3 |-> 22, SME |-> 23, SME_I16I64 |-> 24, SME_F64F64 |-> 25,
   SME_FA64 |-> 30, WFXT |-> 31, EBF16 |-> 32, SVE_EBF16 |-> 33, CSSC |-> 34, RPRFM |-> 35,
   SVE2P1 |-> 36, SME2 |-> 37, SME2P1 |-> 38, SME_B16B16 |-> 41, SME_F16F16 |-> 42, MOPS |-> 43,
   HBC |-> 44, SVE_B16B16 |-> 45, LRCPC3 |-> 46, LSE128 |-> 47, FPMR |-> 48, LUT |-> 49,
   FAMINMAX |-> 50, F8CVT |-> 51, F8FMA |-> 52, F8DP4 |-> 53, F8DP2 |-> 54, SME_LUTV2 |-> 57,
   SME_F8F16 |-> 58, SME_F8F32 |-> 59, SME_SF8FMA |-> 60, SME_SF8DP4 |-> 61, SME_SF8DP2 |-> 62,
   POE |-> 63]

Hwcap3 ==
  [MTE_FAR |-> 0, MTE_STORE_ONLY |-> 1, LSFE |-> 2, SVE_B16MM |-> 4, SVE2P3 |-> 5,
   SME_LUT6 |-> 6, SME2P3 |-> 7, F16MM |-> 8, F16F32DOT |-> 9, F16F32MM |-> 10, SVE_LUT6 |-> 11]

Hwcaps == <<Hwcap1, Hwcap2, Hwcap3>>

\* hwcapSource, in the order of its switch: which word, and which of its bits. Floating
\* point exceptions, two streaming matrix multiplies and asynchronous tag checking have none.
HwcapSourceOfGeneral ==
  [Lse |-> <<1, {"ATOMICS"}>>, Lse2 |-> <<1, {"USCAT"}>>, Lse128 |-> <<2, {"LSE128"}>>,
   Lsfe |-> <<3, {"LSFE"}>>, Lrcpc |-> <<1, {"LRCPC"}>>, Lrcpc2 |-> <<1, {"ILRCPC"}>>,
   Lrcpc3 |-> <<2, {"LRCPC3"}>>, Mops |-> <<2, {"MOPS"}>>, Rprfm |-> <<2, {"RPRFM"}>>,
   Wfxt |-> <<2, {"WFXT"}>>, Crc32 |-> <<1, {"CRC32"}>>, Aes |-> <<1, {"AES"}>>,
   Pmull |-> <<1, {"PMULL"}>>, Sha1 |-> <<1, {"SHA1"}>>, Sha256 |-> <<1, {"SHA2"}>>,
   Sha3 |-> <<1, {"SHA3"}>>, Sha512 |-> <<1, {"SHA512"}>>, Sm3 |-> <<1, {"SM3"}>>,
   Sm4 |-> <<1, {"SM4"}>>, Rng |-> <<2, {"RNG"}>>, Cssc |-> <<2, {"CSSC"}>>,
   FlagM |-> <<1, {"FLAGM"}>>, FlagM2 |-> <<2, {"FLAGM2"}>>, Jscvt |-> <<1, {"JSCVT"}>>,
   Hbc |-> <<2, {"HBC"}>>, Cmpbr |-> <<1, {"CMPBR"}>>, Frintts |-> <<2, {"FRINT"}>>,
   Fprcvt |-> <<1, {"FPRCVT"}>>, Afp |-> <<2, {"AFP"}>>, Rpres |-> <<2, {"RPRES"}>>,
   Rdm |-> <<1, {"ASIMDRDM"}>>, DotProd |-> <<1, {"ASIMDDP"}>>,
   Fp16 |-> <<1, {"FPHP", "ASIMDHP"}>>, Fhm |-> <<1, {"ASIMDFHM"}>>,
   F16f32dot |-> <<3, {"F16F32DOT"}>>, F16f32mm |-> <<3, {"F16F32MM"}>>,
   F16mm |-> <<3, {"F16MM"}>>, Fcma |-> <<1, {"FCMA"}>>, I8mm |-> <<2, {"I8MM"}>>,
   Bf16 |-> <<2, {"BF16"}>>, Ebf16 |-> <<2, {"EBF16"}>>, Lut |-> <<2, {"LUT"}>>,
   Faminmax |-> <<2, {"FAMINMAX"}>>]

HwcapSourceOfFp8AndSve ==
  [Fpmr |-> <<2, {"FPMR"}>>, Fp8 |-> <<2, {"F8CVT"}>>, Fp8Fma |-> <<2, {"F8FMA"}>>,
   Fp8Dot4 |-> <<2, {"F8DP4"}>>, Fp8Dot2 |-> <<2, {"F8DP2"}>>, F8f16mm |-> <<1, {"F8MM4"}>>,
   F8f32mm |-> <<1, {"F8MM8"}>>, Sve |-> <<1, {"SVE"}>>, Sve2 |-> <<2, {"SVE2"}>>,
   Sve2p1 |-> <<2, {"SVE2P1"}>>, Sve2p2 |-> <<1, {"SVE2P2"}>>, Sve2p3 |-> <<3, {"SVE2P3"}>>,
   SveI8mm |-> <<2, {"SVEI8MM"}>>, SveBf16 |-> <<2, {"SVEBF16"}>>,
   SveEbf16 |-> <<2, {"SVE_EBF16"}>>, SveF32mm |-> <<2, {"SVEF32MM"}>>,
   SveF64mm |-> <<2, {"SVEF64MM"}>>, SveF16f32mm |-> <<1, {"SVE_F16MM"}>>,
   SveB16b16 |-> <<2, {"SVE_B16B16"}>>, SveB16mm |-> <<3, {"SVE_B16MM"}>>,
   SveBfscale |-> <<1, {"SVE_BFSCALE"}>>, SveAes |-> <<2, {"SVEAES"}>>,
   SvePmull128 |-> <<2, {"SVEPMULL"}>>, SveAes2 |-> <<1, {"SVE_AES2"}>>,
   SveBitperm |-> <<2, {"SVEBITPERM"}>>, SveSha3 |-> <<2, {"SVESHA3"}>>,
   SveSm4 |-> <<2, {"SVESM4"}>>, SvePerm256 |-> <<1, {"SVE_ELTPERM"}>>,
   SveLut6 |-> <<3, {"SVE_LUT6"}>>]

HwcapSourceOfSmeAndSystem ==
  [Sme |-> <<2, {"SME"}>>, Sme2 |-> <<2, {"SME2"}>>, Sme2p1 |-> <<2, {"SME2P1"}>>,
   Sme2p2 |-> <<1, {"SME2P2"}>>, Sme2p3 |-> <<3, {"SME2P3"}>>,
   SmeF64F64 |-> <<2, {"SME_F64F64"}>>, SmeI16I64 |-> <<2, {"SME_I16I64"}>>,
   SmeF16F16 |-> <<2, {"SME_F16F16"}>>, SmeB16B16 |-> <<2, {"SME_B16B16"}>>,
   SmeF8F16 |-> <<2, {"SME_F8F16"}>>, SmeF8F32 |-> <<2, {"SME_F8F32"}>>,
   SmeLutv2 |-> <<2, {"SME_LUTV2"}>>, SmeLut6 |-> <<3, {"SME_LUT6"}>>,
   SmeTmop |-> <<1, {"SME_STMOP"}>>, SmeMop4 |-> <<1, {"SME_SMOP4"}>>,
   SmeFa64 |-> <<2, {"SME_FA64"}>>, SsveAes |-> <<1, {"SME_AES"}>>,
   SsveBitperm |-> <<1, {"SME_SBITPERM"}>>, SsveFexpa |-> <<1, {"SME_SFEXPA"}>>,
   SsveFp8Fma |-> <<2, {"SME_SF8FMA"}>>, SsveFp8Dot4 |-> <<2, {"SME_SF8DP4"}>>,
   SsveFp8Dot2 |-> <<2, {"SME_SF8DP2"}>>, Mte |-> <<2, {"MTE"}>>, Mte2 |-> <<2, {"MTE"}>>,
   Mte3 |-> <<2, {"MTE3"}>>, MteStoreOnly |-> <<3, {"MTE_STORE_ONLY"}>>,
   MteFar |-> <<3, {"MTE_FAR"}>>, Poe |-> <<2, {"POE"}>>, Sb |-> <<1, {"SB"}>>,
   Ssbs |-> <<1, {"SSBS"}>>, Dit |-> <<1, {"DIT"}>>, Bti |-> <<2, {"BTI"}>>,
   PAuth |-> <<1, {"PACA", "PACG"}>>, Gcs |-> <<1, {"GCS"}>>, Dpb |-> <<1, {"DCPOP"}>>,
   Dpb2 |-> <<2, {"DCPODP"}>>, Ecv |-> <<2, {"ECV"}>>]

HasHwcaps(auxval, source) == \A name \in source[2] : Hwcaps[source[1]][name] \in auxval[source[1]]

ReportedByHwcaps(auxval, sources) == {f \in DOMAIN sources : HasHwcaps(auxval, sources[f])}

LinuxReported(machine) ==
  UNION {ReportedByHwcaps(machine.auxval, sources) :
           sources \in {HwcapSourceOfGeneral, HwcapSourceOfFp8AndSve, HwcapSourceOfSmeAndSystem}}

\* The vendor, if user code may read the register.
LinuxVendor(machine) ==
  IF Hwcap1.CPUID \in machine.auxval[1]
  THEN ImplementerName(DecodeMainId(machine.mainId).implementer) ELSE ""

-----------------------------------------------------------------------------
(* Windows: IsProcessorFeaturePresent.                                     *)

ProcessorFeatureNumber ==
  [V8_CRYPTO |-> 30, V8_CRC32 |-> 31, V81_ATOMIC |-> 34, V82_DP |-> 43, V83_JSCVT |-> 44,
   V83_LRCPC |-> 45, SVE |-> 46, SVE2 |-> 47, SVE2_1 |-> 48, SVE_AES |-> 49, SVE_PMULL128 |-> 50,
   SVE_BITPERM |-> 51, SVE_BF16 |-> 52, SVE_EBF16 |-> 53, SVE_B16B16 |-> 54, SVE_SHA3 |-> 55,
   SVE_SM4 |-> 56, SVE_I8MM |-> 57, SVE_F32MM |-> 58, SVE_F64MM |-> 59, LSE2 |-> 62, SHA3 |-> 64,
   SHA512 |-> 65, V82_I8MM |-> 66, V82_FP16 |-> 67, V86_BF16 |-> 68, V86_EBF16 |-> 69,
   SME |-> 70, SME2 |-> 71, SME2_1 |-> 72, SME2_2 |-> 73, SME_AES |-> 74, SME_SBITPERM |-> 75,
   SME_SF8MM4 |-> 76, SME_SF8MM8 |-> 77, SME_SF8DP2 |-> 78, SME_SF8DP4 |-> 79, SME_SF8FMA |-> 80,
   SME_F8F32 |-> 81, SME_F8F16 |-> 82, SME_F16F16 |-> 83, SME_B16B16 |-> 84, SME_F64F64 |-> 85,
   SME_I16I64 |-> 86, SME_LUTV2 |-> 87, SME_FA64 |-> 88]

ProcessorFeature ==
  [Aes |-> "V8_CRYPTO", Pmull |-> "V8_CRYPTO", Sha1 |-> "V8_CRYPTO", Sha256 |-> "V8_CRYPTO",
   Crc32 |-> "V8_CRC32", Lse |-> "V81_ATOMIC", DotProd |-> "V82_DP", Jscvt |-> "V83_JSCVT",
   Lrcpc |-> "V83_LRCPC", Sve |-> "SVE", Sve2 |-> "SVE2", Sve2p1 |-> "SVE2_1",
   SveAes |-> "SVE_AES", SvePmull128 |-> "SVE_PMULL128", SveBitperm |-> "SVE_BITPERM",
   SveBf16 |-> "SVE_BF16", SveEbf16 |-> "SVE_EBF16", SveB16b16 |-> "SVE_B16B16",
   SveSha3 |-> "SVE_SHA3", SveSm4 |-> "SVE_SM4", SveI8mm |-> "SVE_I8MM",
   SveF32mm |-> "SVE_F32MM", SveF64mm |-> "SVE_F64MM", Lse2 |-> "LSE2", Sha3 |-> "SHA3",
   Sha512 |-> "SHA512", I8mm |-> "V82_I8MM", Fp16 |-> "V82_FP16", Bf16 |-> "V86_BF16",
   Ebf16 |-> "V86_EBF16", Sme |-> "SME", Sme2 |-> "SME2", Sme2p1 |-> "SME2_1",
   Sme2p2 |-> "SME2_2", SsveAes |-> "SME_AES", SsveBitperm |-> "SME_SBITPERM",
   SsveF8f16mm |-> "SME_SF8MM4", SsveF8f32mm |-> "SME_SF8MM8", SsveFp8Dot2 |-> "SME_SF8DP2",
   SsveFp8Dot4 |-> "SME_SF8DP4", SsveFp8Fma |-> "SME_SF8FMA", SmeF8F32 |-> "SME_F8F32",
   SmeF8F16 |-> "SME_F8F16", SmeF16F16 |-> "SME_F16F16", SmeB16B16 |-> "SME_B16B16",
   SmeF64F64 |-> "SME_F64F64", SmeI16I64 |-> "SME_I16I64", SmeLutv2 |-> "SME_LUTV2",
   SmeFa64 |-> "SME_FA64"]

\* The FP8 mode register has no number of its own: what needs it shows that it is there.
WindowsReported(machine) ==
  LET present == {f \in DOMAIN ProcessorFeature :
                    ProcessorFeatureNumber[ProcessorFeature[f]] \in machine.present}
  IN present \union {g \in {"Fpmr"} : \E f \in present : g \in Arm64Prerequisites[f]}

\* The vendor comes from the registry.
WindowsVendor(machine) ==
  IF machine.registryOpens THEN ImplementerName(DecodeMainId(machine.mainId).implementer) ELSE ""

-----------------------------------------------------------------------------
(* macOS: the capability bits, or a flag for each feature.                 *)

FeaturesWithCapsBit ==
  {"Lse", "Lse2", "Lrcpc", "Lrcpc2", "Wfxt", "Crc32", "Aes", "Pmull", "Sha1", "Sha256", "Sha3",
   "Sha512", "Cssc", "FlagM", "FlagM2", "Jscvt", "Hbc", "Frintts", "Afp", "Rpres",
   "FpSyncExceptions", "Rdm", "DotProd", "Fp16", "Fhm", "Fcma", "I8mm", "Bf16", "Ebf16",
   "SveB16b16", "Sme", "Sme2", "Sme2p1", "SmeF64F64", "SmeI16I64", "SmeF16F16", "SmeB16B16",
   "SmeF8F16", "SmeF8F32", "Mte", "Mte2", "Mte3", "MteAsync", "MteStoreOnly", "Sb", "Ssbs",
   "Dit", "Bti", "PAuth", "Dpb", "Dpb2", "Ecv"}

FeaturesWithFlagOnly ==
  {"Lut", "Faminmax", "Fpmr", "Fp8", "SmeLutv2"}

MacosReported(machine) ==
  {f \in FeaturesWithCapsBit \union FeaturesWithFlagOnly :
     IF machine.hasCaps /\ f \in FeaturesWithCapsBit THEN f \in machine.caps ELSE f \in machine.flags}

-----------------------------------------------------------------------------
\* probeIdentity of each OS.
Arm64FeaturesOf(machine) ==
  InsertFeaturesWithPrerequisites(
    CASE machine.os = "linux" -> LinuxReported(machine)
      [] machine.os = "windows" -> WindowsReported(machine)
      [] machine.os = "macos" -> MacosReported(machine),
    Arm64Prerequisites)

Arm64VendorOf(machine) ==
  CASE machine.os = "linux" -> LinuxVendor(machine)
    [] machine.os = "windows" -> WindowsVendor(machine)
    [] machine.os = "macos" -> "Apple"
=============================================================================
