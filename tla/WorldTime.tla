----------------------------- MODULE WorldTime -----------------------------
(* The world's time: of what really passes, the part that counts while the *)
(* world is not paused is scaled, and of that the part that counts in the  *)
(* game. Factors are fractions of one denominator, and what is left of a   *)
(* nanosecond is kept as a number of such parts: the code's are doubles,   *)
(* whose rounding is left out.  What passes is what the timer of the       *)
(* frames tells.                                                           *)
EXTENDS Clock

CONSTANTS FactorDenominator,
          Factors,       \* the numerators a scale or a multiplier may have
          RealDeltas,    \* how long a tick may last
          ElapsedLimit   \* the bound of the model on the times

\* tick() asserts that no time passes backwards.
ASSUME FactorsAreFractions ==
  FactorDenominator \in Nat \ {0} /\ Factors \subseteq Int /\ RealDeltas \subseteq Nat

VARIABLES realDelta, realElapsed,
          unpausedDelta, unpausedElapsed, unpausedRemainder,
          gameDelta, gameElapsed, gameRemainder,
          timeScale, pauseMultiplier,
          exactUnpaused, exactGame   \* history: the sums of the exact products, in parts

settingVars == <<timeScale, pauseMultiplier>>
passedVars == <<realDelta, realElapsed, unpausedDelta, unpausedElapsed, unpausedRemainder,
                gameDelta, gameElapsed, gameRemainder, exactUnpaused, exactGame>>
worldTimeVars == <<passedVars, settingVars>>

WorldTimeInit ==
  /\ realDelta = 0 /\ realElapsed = 0
  /\ unpausedDelta = 0 /\ unpausedElapsed = 0 /\ unpausedRemainder = 0
  /\ gameDelta = 0 /\ gameElapsed = 0 /\ gameRemainder = 0
  /\ timeScale = FactorDenominator /\ pauseMultiplier = FactorDenominator
  /\ exactUnpaused = 0 /\ exactGame = 0

\* scaleDelta: the next lower whole number, below zero too, and what is left of it.
ScaledDelta(d, factor, remainder) == (d * factor + remainder) \div FactorDenominator
ScaledRemainder(d, factor, remainder) == (d * factor + remainder) % FactorDenominator

WorldTick(d) ==
  /\ realDelta' = d /\ realElapsed' = realElapsed + d
  /\ unpausedDelta' = ScaledDelta(d, timeScale, unpausedRemainder)
  /\ unpausedRemainder' = ScaledRemainder(d, timeScale, unpausedRemainder)
  /\ unpausedElapsed' = unpausedElapsed + unpausedDelta'
  /\ gameDelta' = ScaledDelta(unpausedDelta', pauseMultiplier, gameRemainder)
  /\ gameRemainder' = ScaledRemainder(unpausedDelta', pauseMultiplier, gameRemainder)
  /\ gameElapsed' = gameElapsed + gameDelta'
  /\ exactUnpaused' = exactUnpaused + d * timeScale
  /\ exactGame' = exactGame + unpausedDelta' * pauseMultiplier
  /\ UNCHANGED settingVars

\* reset() keeps the settings.
WorldReset ==
  /\ realDelta' = 0 /\ realElapsed' = 0
  /\ unpausedDelta' = 0 /\ unpausedElapsed' = 0 /\ unpausedRemainder' = 0
  /\ gameDelta' = 0 /\ gameElapsed' = 0 /\ gameRemainder' = 0
  /\ exactUnpaused' = 0 /\ exactGame' = 0
  /\ UNCHANGED settingVars

SetTimeScale(factor) ==
  /\ timeScale' = factor
  /\ UNCHANGED <<pauseMultiplier, passedVars>>

SetPauseMultiplier(factor) ==
  /\ pauseMultiplier' = factor
  /\ UNCHANGED <<timeScale, passedVars>>

WithinLimit == \A elapsed \in {realElapsed, unpausedElapsed, gameElapsed} :
                 -ElapsedLimit <= elapsed /\ elapsed <= ElapsedLimit

WorldTimeNext ==
  \/ \E d \in RealDeltas : WorldTick(d) /\ WithinLimit'
  \/ \E factor \in Factors : SetTimeScale(factor) \/ SetPauseMultiplier(factor)
  \/ WorldReset

WorldTimeSpec == WorldTimeInit /\ [][WorldTimeNext]_worldTimeVars

-----------------------------------------------------------------------------

\* However the factors change between the ticks, forward, backward or to nothing, no part
\* of a nanosecond is lost or counted twice: a time and what is left of it are the exact
\* sum of what was scaled (world_time.h:62-73).
WorldTimeIsExact ==
  /\ exactUnpaused = unpausedElapsed * FactorDenominator + unpausedRemainder
  /\ exactGame = gameElapsed * FactorDenominator + gameRemainder
  /\ {unpausedRemainder, gameRemainder} \subseteq 0..(FactorDenominator - 1)

\* Sleeps last until their deadline and no longer than the counter makes them, the times of
\* frames go forward within their bounds, and the world's times lose nothing (time.h:52,
\* time_macos.cpp:13, time_windows.cpp:20, frame_timer.h:25, world_time.h:62).
TimeIsKept == SleepsAreFull /\ SleepsAreNotLonger /\ FramesGoForward /\ WorldTimeIsExact
=============================================================================
