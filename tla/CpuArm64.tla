------------------------------ MODULE CpuArm64 ------------------------------
(* The features of an ARM64 processor, what each builds on, what a build   *)
(* for an Apple chip requires, and how a main ID register is read.         *)
EXTENDS CpuFeatures

Arm64Features ==
  {"Lse", "Lse2", "Lse128", "Lsfe", "Lrcpc", "Lrcpc2", "Lrcpc3", "Mops", "Rprfm", "Wfxt",
   "Crc32", "Aes", "Pmull", "Sha1", "Sha256", "Sha3", "Sha512", "Sm3", "Sm4", "Rng", "Cssc",
   "FlagM", "FlagM2", "Jscvt", "Hbc", "Cmpbr", "Frintts", "Fprcvt", "Afp", "Rpres",
   "FpSyncExceptions", "Rdm", "DotProd", "Fp16", "Fhm", "F16f32dot", "F16f32mm", "F16mm", "Fcma",
   "I8mm", "Bf16", "Ebf16", "Lut", "Faminmax", "Fpmr", "Fp8", "Fp8Fma", "Fp8Dot4", "Fp8Dot2",
   "F8f16mm", "F8f32mm", "Sve", "Sve2", "Sve2p1", "Sve2p2", "Sve2p3", "SveI8mm", "SveBf16",
   "SveEbf16", "SveF32mm", "SveF64mm", "SveF16f32mm", "SveB16b16", "SveB16mm", "SveBfscale",
   "SveAes", "SvePmull128", "SveAes2", "SveBitperm", "SveSha3", "SveSm4", "SvePerm256",
   "SveLut6", "Sme", "Sme2", "Sme2p1", "Sme2p2", "Sme2p3", "SmeF64F64", "SmeI16I64", "SmeF16F16",
   "SmeB16B16", "SmeF8F16", "SmeF8F32", "SmeLutv2", "SmeLut6", "SmeTmop", "SmeMop4", "SmeFa64",
   "SsveAes", "SsveBitperm", "SsveFexpa", "SsveFp8Fma", "SsveFp8Dot4", "SsveFp8Dot2",
   "SsveF8f16mm", "SsveF8f32mm", "Mte", "Mte2", "Mte3", "MteAsync", "MteStoreOnly", "MteFar",
   "Poe", "Sb", "Ssbs", "Dit", "Bti", "PAuth", "Gcs", "Dpb", "Dpb2", "Ecv"}

Arm64Prerequisites ==
  [f \in Arm64Features |->
     CASE f = "Rpres" -> {"Afp"}
       [] f = "Ebf16" -> {"Bf16"}
       [] f \in {"Fp8", "Fp8Fma", "Fp8Dot4", "Fp8Dot2", "F8f16mm", "F8f32mm"} -> {"Fpmr"}
       [] f \in {"Sve2", "Sve2p1", "Sve2p2", "Sve2p3", "SveF32mm", "SveF64mm", "SveF16f32mm",
                "SveB16b16", "SveB16mm", "SveBfscale", "SveAes", "SvePmull128", "SveAes2",
                "SveBitperm", "SveSha3", "SveSm4", "SvePerm256", "SveLut6"} -> {"Sve"}
       [] f = "SveI8mm" -> {"I8mm", "Sve"}
       [] f = "SveBf16" -> {"Bf16", "Sve"}
       [] f = "SveEbf16" -> {"Bf16", "Sve", "SveBf16"}
       [] f \in {"Sme2", "Sme2p1", "Sme2p2", "Sme2p3", "SmeF64F64", "SmeI16I64", "SmeF16F16",
                "SmeB16B16", "SmeLut6", "SmeTmop", "SmeMop4", "SmeFa64", "SsveAes",
                "SsveBitperm", "SsveFexpa"} -> {"Sme"}
       [] f \in {"SmeF8F16", "SmeF8F32", "SsveFp8Fma", "SsveFp8Dot4", "SsveFp8Dot2",
                "SsveF8f16mm", "SsveF8f32mm"} -> {"Fpmr", "Sme"}
       [] f = "SmeLutv2" -> {"Sme", "Sme2"}
       [] f = "Mte2" -> {"Mte"}
       [] f \in {"Mte3", "MteAsync", "MteStoreOnly", "MteFar"} -> {"Mte", "Mte2"}
       [] OTHER -> {}]

-----------------------------------------------------------------------------
(* What a build needs: nothing, or what an Apple chip has, from the first  *)
(* (1) to the M5.                                                          *)

AppleAdds ==
  <<{"Lse", "Lse2", "Lrcpc", "Lrcpc2", "Rdm", "DotProd", "Fp16", "Fhm", "Crc32", "Aes", "Pmull",
     "Sha1", "Sha256", "Sha3", "Sha512", "Jscvt", "Fcma", "Frintts", "FlagM", "FlagM2", "Sb",
     "Dit", "Dpb", "Dpb2", "PAuth"},
    {"Bti", "Bf16", "I8mm", "Ecv"},
    {"Afp", "Rpres"},
    {"Sme", "Sme2", "SmeF64F64", "SmeI16I64", "Wfxt"},
    {"Cssc", "Hbc", "Ebf16", "Sme2p1", "SmeF16F16", "SmeB16B16", "Mte", "Mte2", "MteStoreOnly"}>>

Arm64TargetFeatures(appleVersion) == UNION {AppleAdds[v] : v \in 1..appleVersion}

\* compilerTargetFeatures: the features that a macro of the compiler shows.
Arm64FeaturesWithMacro ==
  {"Crc32", "Aes", "Pmull", "Sha1", "Sha256", "Sha3", "Sha512", "Sm3", "Sm4", "Rng", "Lse",
   "Rdm", "Lrcpc", "DotProd", "Fp16", "Fhm", "F16f32dot", "F16f32mm", "F16mm", "Jscvt", "Fcma",
   "Frintts", "Fprcvt", "PAuth", "I8mm", "Bf16", "Fp8", "Fp8Fma", "Fp8Dot4", "Fp8Dot2",
   "F8f16mm", "F8f32mm", "Mte", "Sve", "Sve2", "SveI8mm", "SveBf16", "SveF32mm", "SveF64mm",
   "SveAes", "SvePmull128", "SveBitperm", "SveB16b16", "Sve2p1", "Sve2p2", "Sve2p3", "SveAes2",
   "SveBfscale", "SveB16mm", "SveF16f32mm", "Sme", "Sme2", "Sme2p1", "Sme2p2", "Sme2p3",
   "SmeF16F16", "SmeB16B16", "SmeF8F16", "SmeF8F32", "SsveFp8Fma", "SsveFp8Dot4", "SsveFp8Dot2",
   "SsveAes", "Cssc", "Mops", "Gcs"}

\* Three macros stand for a second feature too.
MacroAlsoMeans == [Aes |-> "Pmull", Sha1 |-> "Sha256", SveAes |-> "SvePmull128"]

Arm64CompilerTargetFeatures(used) ==
  LET shown == used \intersect Arm64FeaturesWithMacro
  IN shown \union {MacroAlsoMeans[f] : f \in shown \intersect DOMAIN MacroAlsoMeans}

-----------------------------------------------------------------------------
(* The main ID register.                                                   *)

DecodeMainId(register) ==
  [part |-> ExtractBits(register, 15, 4), implementer |-> ExtractBits(register, 31, 24),
   variant |-> ExtractBits(register, 23, 20), revision |-> ExtractBits(register, 3, 0)]

Implementers ==
  {<<65, "ARM">>, <<66, "Broadcom">>, <<67, "Cavium">>, <<70, "Fujitsu">>, <<72, "HiSilicon">>,
   <<78, "NVIDIA">>, <<80, "APM">>, <<81, "Qualcomm">>, <<83, "Samsung">>, <<86, "Marvell">>,
   <<97, "Apple">>, <<99, "Arm China">>, <<109, "Microsoft">>, <<112, "Phytium">>, <<192, "Ampere">>}

\* An implementer that is not in the list has no name.
ImplementerName(implementer) ==
  IF \E entry \in Implementers : entry[1] = implementer
  THEN (CHOOSE entry \in Implementers : entry[1] = implementer)[2]
  ELSE ""
=============================================================================
