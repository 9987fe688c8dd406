------------------------------- MODULE Clock -------------------------------
(* Time: the counter of the operating system converted to nanoseconds,     *)
(* threads that sleep until an instant, and the timer of the frames.       *)
(* Instants and durations are signed words, counters unsigned ones.        *)
EXTENDS Integers

CONSTANTS NanosecondsPerSecond,   \* 10^9
          WordLimit,              \* 2^64
          Frequency10Mhz, Frequency24Mhz,
          Numerator24Mhz, Denominator24Mhz,
          DueTimeUnit,            \* nanoseconds in a unit of Windows' timers: 100
          MaxDelta,               \* TRIVIAL_FRAME_MAX_DELTA_MILLISECONDS, in nanoseconds
          Clocks,                 \* what the systems report of their counters
          SleepDurations,         \* how long a thread asks to sleep
          Uptime                  \* the bound of the model on the counter

SignedMax == (WordLimit \div 2) - 1
SignedMin == -(WordLimit \div 2)

\* What is asserted at compile time, and of the counter at the start.
ASSUME FrequenciesAreWhole ==
  /\ {NanosecondsPerSecond, Frequency10Mhz, Numerator24Mhz, Denominator24Mhz, DueTimeUnit} \subseteq Nat \ {0}
  /\ NanosecondsPerSecond % Frequency10Mhz = 0 /\ Frequency10Mhz # Frequency24Mhz
  /\ NanosecondsPerSecond * Denominator24Mhz = Frequency24Mhz * Numerator24Mhz
  /\ \A c \in Clocks :
       \/ c.os = "linux"
       \/ c.os = "windows" /\ c.frequency \in Nat \ {0}
       \/ /\ c.os = "macos" /\ {c.numerator, c.denominator} \subseteq Nat \ {0}
          /\ (NanosecondsPerSecond * c.denominator) % c.numerator = 0

\* Nanoseconds and counts, as a fraction.
NanosecondsOf(c) ==
  CASE c.os = "linux" -> 1
    [] c.os = "macos" -> c.numerator
    [] c.os = "windows" /\ c.frequency = Frequency24Mhz -> Numerator24Mhz
    [] c.os = "windows" /\ c.frequency = Frequency10Mhz -> NanosecondsPerSecond \div Frequency10Mhz
    [] OTHER -> NanosecondsPerSecond

CountsOf(c) ==
  CASE c.os = "linux" -> 1
    [] c.os = "macos" -> c.denominator
    [] c.os = "windows" /\ c.frequency = Frequency24Mhz -> Denominator24Mhz
    [] c.os = "windows" /\ c.frequency = Frequency10Mhz -> 1
    [] OTHER -> c.frequency

\* The machine does not run for so long that its time leaves the word, 292 years, and no
\* counter is so fast that what scaleTicks multiplies does. The other sizes are words.
ASSUME UptimeFitsTheWord ==
  /\ WordLimit \in Nat /\ WordLimit % 2 = 0 /\ WordLimit > 0
  /\ Uptime \in Nat /\ Uptime < WordLimit - 1
  /\ MaxDelta \in Nat /\ SleepDurations \subseteq Int
  /\ \A c \in Clocks :
       /\ Uptime * NanosecondsOf(c) <= SignedMax * CountsOf(c)
       /\ (CountsOf(c) - 1) * NanosecondsOf(c) < WordLimit

VARIABLES clock,      \* the system's, chosen once
          ticks,      \* its counter
          sleep,      \* what the thread does: awake, checking or asleep
          deadline,   \* the instant it sleeps until
          wakeAt,     \* the count its sleep ends at; on Windows, the units it lasts
          checkedAt,  \* sleepUntil's kNow on Windows: the instant the timer was set at
          start, previous, rawDelta, delta   \* FrameTimer

clockVars == <<clock, ticks, sleep, deadline, wakeAt, checkedAt, start, previous, rawDelta, delta>>
sleepVars == <<sleep, deadline, wakeAt, checkedAt>>
timerVars == <<start, previous, rawDelta, delta>>

-----------------------------------------------------------------------------
(* Conversions.                                                            *)

Word(n) == n % WordLimit
Signed(n) == IF n > SignedMax THEN n - WordLimit ELSE n

\* The whole multiples of the denominator first: the product of what is left fits.
ScaleTicks(count, numerator, denominator) ==
  Word(Word((count \div denominator) * numerator)
       + Word((count % denominator) * numerator) \div denominator)

\* ticksToDuration: a counter of 24 MHz is scaled by the reduced ratio, one of 10 MHz by a
\* whole number.
TicksToDuration(c, count) ==
  Signed(CASE c.os = "linux" -> count
           [] c.os = "macos" -> ScaleTicks(count, c.numerator, c.denominator)
           [] c.os = "windows" /\ c.frequency = Frequency24Mhz ->
                ScaleTicks(count, Numerator24Mhz, Denominator24Mhz)
           [] c.os = "windows" /\ c.frequency = Frequency10Mhz ->
                Word(count * (NanosecondsPerSecond \div Frequency10Mhz))
           [] OTHER -> ScaleTicks(count, NanosecondsPerSecond, c.frequency))

Now == TicksToDuration(clock, ticks)

ClampedAdd(instant, duration) ==
  IF duration > 0 /\ instant > SignedMax - duration THEN SignedMax
  ELSE IF duration < 0 /\ instant < SignedMin - duration THEN SignedMin
  ELSE instant + duration

\* Mutant: the count is rounded down, as in the other direction.
InstantToTicksDown(instant, numerator, denominator) ==
  LET whole == instant \div numerator
      partial == ((instant % numerator) * denominator) \div numerator
  IN IF whole > (WordLimit - 1 - partial) \div denominator THEN WordLimit - 1
     ELSE whole * denominator + partial

\* instantToTicks, on macOS: rounded up, the largest count when there is none so large.
InstantToTicks(instant, numerator, denominator) ==
  LET whole == instant \div numerator
      partial == ((instant % numerator) * denominator + numerator - 1) \div numerator
  IN IF whole > (WordLimit - 1 - partial) \div denominator THEN WordLimit - 1
     ELSE whole * denominator + partial

-----------------------------------------------------------------------------
(* sleepFor and sleepUntil.                                                *)

ClockInit ==
  /\ clock \in Clocks /\ ticks = 0
  /\ sleep = "awake" /\ deadline = 0 /\ wakeAt = 0 /\ checkedAt = 0
  /\ start = 0 /\ previous = 0 /\ rawDelta = 0 /\ delta = 0

Advance ==
  /\ ticks < Uptime
  /\ ticks' = ticks + 1
  /\ UNCHANGED <<clock, sleepVars, timerVars>>

\* A deadline before the counter began is over at once, except that Windows asks its clock.
SleepFor(duration) ==
  /\ sleep = "awake"
  /\ deadline' = ClampedAdd(Now, duration)
  /\ \/ clock.os = "windows" /\ sleep' = "checking" /\ UNCHANGED wakeAt
     \/ clock.os # "windows" /\ deadline' <= 0 /\ sleep' = "returned" /\ UNCHANGED wakeAt
     \/ /\ clock.os # "windows" /\ deadline' > 0 /\ sleep' = "asleep"
        /\ wakeAt' = IF clock.os = "linux" THEN deadline'
                     ELSE InstantToTicks(deadline', clock.numerator, clock.denominator)
  /\ UNCHANGED <<clock, ticks, checkedAt, timerVars>>

\* sleepRelative: the units of a timer, rounded up.
DueTime(duration) == (duration - 1) \div DueTimeUnit + 1

\* Mutant: the timer, which is relative, is given the instant.
CheckClockAbsolutely ==
  /\ sleep = "checking"
  /\ checkedAt' = Now
  /\ IF deadline <= checkedAt' THEN sleep' = "returned" /\ UNCHANGED wakeAt
     ELSE sleep' = "asleep" /\ wakeAt' = DueTime(deadline)
  /\ UNCHANGED <<clock, ticks, deadline, timerVars>>

\* Windows: the time that is left. A timer may ring early by the counter, so the clock is
\* asked again.
CheckClock ==
  /\ sleep = "checking"
  /\ checkedAt' = Now
  /\ IF deadline <= checkedAt' THEN sleep' = "returned" /\ UNCHANGED wakeAt
     ELSE sleep' = "asleep" /\ wakeAt' = DueTime(deadline - checkedAt')
  /\ UNCHANGED <<clock, ticks, deadline, timerVars>>

\* The system ends the sleep; one that is interrupted is taken up again.
Wake ==
  /\ sleep = "asleep"
  /\ IF clock.os = "windows" THEN sleep' = "checking" ELSE ticks >= wakeAt /\ sleep' = "returned"
  /\ UNCHANGED <<clock, ticks, deadline, wakeAt, checkedAt, timerVars>>

\* The caller goes on.
GoOn ==
  /\ sleep = "returned"
  /\ sleep' = "awake" /\ deadline' = 0 /\ wakeAt' = 0 /\ checkedAt' = 0
  /\ UNCHANGED <<clock, ticks, timerVars>>

-----------------------------------------------------------------------------
(* FrameTimer.                                                             *)

TimerReset ==
  /\ sleep = "awake"
  /\ start' = Now /\ previous' = Now /\ rawDelta' = 0 /\ delta' = 0
  /\ UNCHANGED <<clock, ticks, sleepVars>>

TimerTick ==
  /\ sleep = "awake"
  /\ rawDelta' = Now - previous /\ previous' = Now
  /\ delta' = IF rawDelta' < 0 THEN 0 ELSE IF rawDelta' > MaxDelta THEN MaxDelta ELSE rawDelta'
  /\ UNCHANGED <<clock, ticks, start, sleepVars>>

ClockNext ==
  \/ Advance \/ (\E duration \in SleepDurations : SleepFor(duration))
  \/ CheckClock \/ Wake \/ GoOn \/ TimerReset \/ TimerTick

ClockSpec == ClockInit /\ [][ClockNext]_clockVars

-----------------------------------------------------------------------------

\* Nobody wakes before the deadline.
SleepsAreFull == sleep = "returned" => Now >= deadline

\* Nor is more asked for than the first count that is late enough; on Windows, than the units
\* in which the time fits that was left when the timer was set, nor less.
SleepsAreNotLonger ==
  sleep = "asleep" =>
    CASE clock.os = "windows" -> /\ checkedAt <= Now
                                 /\ (wakeAt - 1) * DueTimeUnit < deadline - checkedAt
                                 /\ deadline - checkedAt <= wakeAt * DueTimeUnit
      [] clock.os = "macos" -> wakeAt < WordLimit - 1 =>
           TicksToDuration(clock, wakeAt - 1) < deadline
      [] OTHER -> wakeAt = deadline

\* Time does not go back between frames, and what a frame lasts stays within its bounds.
FramesGoForward ==
  /\ rawDelta >= 0 /\ start <= previous /\ previous <= Now
  /\ 0 <= delta /\ delta <= MaxDelta /\ delta <= rawDelta
  /\ rawDelta <= previous - start
=============================================================================
