---------------------------- MODULE CpuFeatures ----------------------------
(* What the two architectures' features have in common: which of the       *)
(* reported ones are taken, and what a build requires of the machine.      *)
EXTENDS Integers, FiniteSets

\* A feature is used only with everything it builds on. What is looked at is what was
\* reported, not what has been taken: that is enough because the prerequisites of a
\* prerequisite are listed with it.
InsertFeaturesWithPrerequisites(reported, prerequisites) ==
  {f \in reported : prerequisites[f] \subseteq reported}

\* Every feature lists the prerequisites of its prerequisites too.
PrerequisitesAreClosed(prerequisites) ==
  \A f \in DOMAIN prerequisites : \A g \in prerequisites[f] : prerequisites[g] \subseteq prerequisites[f]

\* The build is refused if the compiler may use more than the floor check looks for.
BuildIsAccepted(target, compilerTarget) == compilerTarget \subseteq target

\* initCapabilities: the program goes on only on a machine that has the target's features.
FloorCheckPasses(detected, target) == target \subseteq detected

\* The bits of an unsigned number from lowBit to highBit.
ExtractBits(value, highBit, lowBit) == (value \div 2^lowBit) % 2^(highBit - lowBit + 1)
=============================================================================
