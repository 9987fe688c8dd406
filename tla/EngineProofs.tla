---------------------------- MODULE EngineProofs ----------------------------
(***************************************************************************)
(* What the engine stands on, for every machine.  Conversions between      *)
(* counts and nanoseconds are exact up to one rounding, for every counter, *)
(* word and length of sleep, so that time does not go back and nobody      *)
(* wakes early; the world's times lose nothing, whatever factors are set   *)
(* between its ticks; a feature is detected only with everything it builds *)
(* on, and a program that goes on after the floor check finds what its     *)
(* compiler was allowed to use.  What is detected the machine has and the  *)
(* OS saves; the topology, however the OS numbers its processors, caches   *)
(* and nodes, agrees with itself and with what is shared: ids are replaced *)
(* by ranks, and a list in order has at each place the element of that     *)
(* rank; a Mac's does if its counts fit their words, which is asked of it  *)
(* by name.  And for every number of frames in flight, of images and of    *)
(* passes of the loop: fences, semaphores, command buffers and swapchains  *)
(* are not used again before device and queues are through with them, and  *)
(* no part of the engine outlives what it uses.  The tables of features    *)
(* and the machines are taken as they are; what the proofs need of them is *)
(* assumed by name and evaluated by the run.                               *)
(***************************************************************************)
EXTENDS Engine, CpuCapabilities, WorldTime, SequenceTheorems, FiniteSetTheorems, FunctionTheorems,
        WellFoundedInduction, TLAPS

-----------------------------------------------------------------------------
(* Division.                                                               *)

\* A number is its quotient's multiple and its remainder.
LEMMA DivisionIsExact ==
  ASSUME NEW a \in Int, NEW b \in Nat \ {0}
  PROVE  /\ a \div b \in Int /\ a % b \in 0..(b - 1)
         /\ a = b * (a \div b) + (a % b)
OBVIOUS

\* A product with a factor that is not negative keeps the order.
LEMMA ProductsKeepOrder ==
  ASSUME NEW a \in Int, NEW b \in Int, NEW c \in Nat, a <= b
  PROVE  a * c <= b * c
OBVIOUS

\* The quotient is the largest number whose multiple is not above.
LEMMA QuotientIsFloor ==
  ASSUME NEW a \in Int, NEW b \in Nat \ {0}, NEW k \in Int
  PROVE  k <= a \div b <=> k * b <= a
OBVIOUS

\* scaleTicks computes the floor of the scaled count, before words are considered.
LEMMA ScalingIsFloor ==
  ASSUME NEW t \in Nat, NEW n \in Nat, NEW d \in Nat \ {0}
  PROVE  (t \div d) * n + ((t % d) * n) \div d = (t * n) \div d
OBVIOUS

-----------------------------------------------------------------------------
(* Conversions.                                                            *)

\* The ratio of a counter is one of positive numbers.
LEMMA RatiosArePositive ==
  ASSUME NEW c \in Clocks
  PROVE  NanosecondsOf(c) \in Nat \ {0} /\ CountsOf(c) \in Nat \ {0}
<1>1. NanosecondsPerSecond \div Frequency10Mhz \in Nat \ {0}
  <2> DEFINE k == NanosecondsPerSecond \div Frequency10Mhz
  <2>0. /\ NanosecondsPerSecond \in Nat \ {0} /\ Frequency10Mhz \in Nat \ {0}
        /\ NanosecondsPerSecond % Frequency10Mhz = 0
    BY FrequenciesAreWhole
  <2>1. /\ k \in Int
        /\ NanosecondsPerSecond = Frequency10Mhz * k + (NanosecondsPerSecond % Frequency10Mhz)
    BY <2>0
  <2>2. NanosecondsPerSecond = Frequency10Mhz * k /\ NanosecondsPerSecond > 0 /\ Frequency10Mhz > 0
    BY <2>0, <2>1
  <2> HIDE DEF k
  <2>3. k > 0
    BY <2>1, <2>2, FrequenciesAreWhole
  <2> QED BY <2>1, <2>3 DEF k
<1> QED BY <1>1, FrequenciesAreWhole DEF NanosecondsOf, CountsOf

\* Within the word, scaleTicks is the floor of the exact product.
LEMMA ScaledCountsFit ==
  ASSUME NEW t \in Nat, NEW n \in Nat, NEW d \in Nat \ {0},
         t * n <= SignedMax * d, (d - 1) * n < WordLimit
  PROVE  /\ ScaleTicks(t, n, d) = (t * n) \div d
         /\ (t * n) \div d \in 0..SignedMax
<1> DEFINE q == t \div d
           r == t % d
           s == (r * n) \div d
           e == (t * n) \div d
<1>1. /\ SignedMax \in Nat /\ SignedMax < WordLimit /\ WordLimit \in Nat \ {0}
  BY UptimeFitsTheWord DEF SignedMax
<1>2. q \in Nat /\ r \in 0..(d - 1)
  OBVIOUS
<1>3. r * n \in Nat /\ r * n <= (d - 1) * n
  BY <1>2, ProductsKeepOrder
<1>4. s \in Nat /\ q * n \in Nat
  BY <1>2, <1>3
<1>5. q * n + s = e
  BY ScalingIsFloor
<1>6. t * n \in Nat
  OBVIOUS
<1>7. e \in Nat
  BY <1>6
<1>8. e <= SignedMax
  <2>1. e * d <= t * n
    BY <1>6, <1>7, QuotientIsFloor
  <2>2. e * d <= SignedMax * d
    BY <2>1, <1>6, <1>7, <1>1
  <2>3. e > SignedMax => e * d > SignedMax * d
    BY <1>7, <1>1
  <2> QED BY <2>2, <2>3, <1>7, <1>1
<1>9. \A x \in 0..(WordLimit - 1) : Word(x) = x
  BY <1>1 DEF Word
<1>10. Word(r * n) = r * n
  BY <1>3, <1>9, <1>1
<1> HIDE DEF q, r, s, e
<1>11. Word(q * n) = q * n /\ Word(q * n + s) = e
  BY <1>4, <1>5, <1>8, <1>9, <1>1
<1>12. ScaleTicks(t, n, d) = Word(Word(q * n) + (Word(r * n) \div d))
  BY DEF ScaleTicks, q, r
<1> QED
  BY <1>7, <1>8, <1>10, <1>11, <1>12 DEF e, s

\* While the machine runs, the time of a count is the floor of the exact one.
LEMMA TimeOfCount ==
  ASSUME NEW c \in Clocks, NEW t \in 0..Uptime
  PROVE  /\ TicksToDuration(c, t) = (t * NanosecondsOf(c)) \div CountsOf(c)
         /\ TicksToDuration(c, t) \in 0..SignedMax
<1> DEFINE n == NanosecondsOf(c)
           d == CountsOf(c)
<1>1. n \in Nat \ {0} /\ d \in Nat \ {0}
  BY RatiosArePositive
<1>2. /\ SignedMax \in Nat /\ SignedMax < WordLimit /\ WordLimit \in Nat \ {0} /\ Uptime \in Nat
  BY UptimeFitsTheWord DEF SignedMax
<1>3. t * n <= SignedMax * d /\ (d - 1) * n < WordLimit
  <2>1. t * n <= Uptime * n
    BY <1>1, <1>2, ProductsKeepOrder
  <2>2. Uptime * n <= SignedMax * d /\ (d - 1) * n < WordLimit
    BY UptimeFitsTheWord
  <2>3. Uptime * n \in Int /\ SignedMax * d \in Int /\ t * n \in Int
    BY <1>1, <1>2
  <2> QED BY <2>1, <2>2, <2>3
<1> HIDE DEF n, d
<1>4. ScaleTicks(t, n, d) = (t * n) \div d /\ (t * n) \div d \in 0..SignedMax
  BY <1>1, <1>2, <1>3, ScaledCountsFit
<1>5. \A x \in 0..SignedMax : Signed(x) = x /\ Word(x) = x
  BY <1>2 DEF Signed, Word
<1>6. d = 1 => t * n \in 0..SignedMax
  BY <1>1, <1>2, <1>3
<1>7. d = 1 => (t * n) \div d = t * n
  BY <1>1
<1>8. ASSUME c.os = "linux" PROVE TicksToDuration(c, t) = (t * n) \div d /\ TicksToDuration(c, t) \in 0..SignedMax
  <2>1. n = 1 /\ d = 1
    BY <1>8 DEF NanosecondsOf, CountsOf, n, d
  <2>2. TicksToDuration(c, t) = Signed(t)
    BY <1>8 DEF TicksToDuration
  <2> QED BY <2>1, <2>2, <1>5, <1>6, <1>7
<1>9. ASSUME c.os = "macos" PROVE TicksToDuration(c, t) = Signed(ScaleTicks(t, n, d))
  BY <1>9 DEF TicksToDuration, NanosecondsOf, CountsOf, n, d
<1>10. ASSUME c.os = "windows", c.frequency # Frequency10Mhz \/ c.frequency = Frequency24Mhz
       PROVE  TicksToDuration(c, t) = Signed(ScaleTicks(t, n, d))
  <2>1. CASE c.frequency = Frequency24Mhz
    <3>1. n = Numerator24Mhz /\ d = Denominator24Mhz
      BY <1>10, <2>1, FrequenciesAreWhole DEF NanosecondsOf, CountsOf, n, d
    <3>2. TicksToDuration(c, t) = Signed(ScaleTicks(t, Numerator24Mhz, Denominator24Mhz))
      BY <1>10, <2>1, FrequenciesAreWhole DEF TicksToDuration
    <3> QED BY <3>1, <3>2
  <2>2. CASE c.frequency # Frequency24Mhz
    <3>1. n = NanosecondsPerSecond /\ d = c.frequency
      BY <1>10, <2>2 DEF NanosecondsOf, CountsOf, n, d
    <3>2. TicksToDuration(c, t) = Signed(ScaleTicks(t, NanosecondsPerSecond, c.frequency))
      BY <1>10, <2>2 DEF TicksToDuration
    <3> QED BY <3>1, <3>2
  <2> QED BY <2>1, <2>2
<1>11. ASSUME c.os = "windows", c.frequency = Frequency10Mhz, c.frequency # Frequency24Mhz
       PROVE  TicksToDuration(c, t) = (t * n) \div d /\ TicksToDuration(c, t) \in 0..SignedMax
  <2>1. n = NanosecondsPerSecond \div Frequency10Mhz /\ d = 1
    BY <1>11 DEF NanosecondsOf, CountsOf, n, d
  <2>2. TicksToDuration(c, t) = Signed(Word(t * n))
    BY <1>11, <2>1 DEF TicksToDuration
  <2> QED BY <2>1, <2>2, <1>5, <1>6, <1>7
<1>12. c.os \in {"linux", "windows", "macos"}
  BY FrequenciesAreWhole
<1> QED BY <1>4, <1>5, <1>8, <1>9, <1>10, <1>11, <1>12 DEF n, d

\* Of two counts the later one is not the earlier time.
LEMMA TimeGoesForward ==
  ASSUME NEW c \in Clocks, NEW t \in 0..Uptime, NEW u \in 0..Uptime, t <= u
  PROVE  TicksToDuration(c, t) <= TicksToDuration(c, u)
<1> DEFINE n == NanosecondsOf(c)
           d == CountsOf(c)
<1>1. n \in Nat \ {0} /\ d \in Nat \ {0}
  BY RatiosArePositive
<1>2. Uptime \in Nat
  BY UptimeFitsTheWord
<1>3. /\ TicksToDuration(c, t) = (t * n) \div d
      /\ TicksToDuration(c, u) = (u * n) \div d
  BY TimeOfCount
<1> HIDE DEF n, d
<1>4. t * n <= u * n /\ t * n \in Int /\ u * n \in Int
  BY <1>1, <1>2, ProductsKeepOrder
<1>5. (t * n) \div d \in Int /\ ((t * n) \div d) * d <= t * n
  BY <1>1, <1>4, QuotientIsFloor
<1>6. ((t * n) \div d) * d <= u * n
  BY <1>1, <1>4, <1>5
<1> QED
  BY <1>1, <1>3, <1>4, <1>5, <1>6, QuotientIsFloor

\* instantToTicks: a count that is late enough, or the largest of all.
LEMMA CountsAreRoundedUp ==
  ASSUME NEW i \in Nat, NEW n \in Nat \ {0}, NEW d \in Nat \ {0}
  PROVE  /\ InstantToTicks(i, n, d) \in Int
         /\ InstantToTicks(i, n, d) = WordLimit - 1 \/ InstantToTicks(i, n, d) * n >= i * d
<1> DEFINE q == i \div n
           r == i % n
           p == (r * d + n - 1) \div n
<1>1. q \in Nat /\ r \in 0..(n - 1) /\ i = n * q + r
  OBVIOUS
<1>2. r * d \in Nat /\ r * d + n - 1 \in Nat
  BY <1>1
<1>3. p \in Int /\ p * n >= r * d
  <2>1. p \in Int /\ (r * d + n - 1) % n \in 0..(n - 1)
        /\ r * d + n - 1 = n * p + ((r * d + n - 1) % n)
    <3> DEFINE x == r * d + n - 1
    <3>1. x \in Nat
      BY <1>2
    <3> HIDE DEF x
    <3>2. x \div n \in Int /\ x % n \in 0..(n - 1) /\ x = n * (x \div n) + (x % n)
      BY <3>1
    <3> QED BY <3>2 DEF x
  <2> HIDE DEF p, r
  <2> QED BY <2>1, <1>2
<1>4. WordLimit \in Nat
  BY UptimeFitsTheWord
<1>5. InstantToTicks(i, n, d) = WordLimit - 1 \/ InstantToTicks(i, n, d) = q * d + p
  BY DEF InstantToTicks
<1> HIDE DEF q, r, p
<1>6. (q * d + p) * n >= i * d /\ q * d + p \in Int
  <2>1. (q * d + p) * n = (n * q) * d + p * n
    BY <1>1, <1>3
  <2>2. i * d = (n * q) * d + r * d
    BY <1>1
  <2> QED BY <2>1, <2>2, <1>1, <1>2, <1>3
<1> QED BY <1>4, <1>5, <1>6

\* instantToTicks: a count that is not the largest of all is the first that is late enough.
LEMMA CountsAreNotTooLate ==
  ASSUME NEW i \in Nat, NEW n \in Nat \ {0}, NEW d \in Nat \ {0},
         NEW v \in Int, v = InstantToTicks(i, n, d), v # WordLimit - 1
  PROVE  (v - 1) * n < i * d
<1> DEFINE q == i \div n
           r == i % n
           p == (r * d + n - 1) \div n
<1>1. q \in Nat /\ r \in 0..(n - 1) /\ i = n * q + r
  OBVIOUS
<1>2. r * d \in Nat /\ r * d + n - 1 \in Nat
  BY <1>1
<1>3. p \in Int /\ p * n <= r * d + n - 1
  <2> DEFINE x == r * d + n - 1
  <2>1. x \in Nat
    BY <1>2
  <2> HIDE DEF x
  <2>2. x \div n \in Int /\ (x \div n) * n <= x
    BY <2>1, QuotientIsFloor
  <2> QED BY <2>2 DEF x
<1>4. v = q * d + p
  BY DEF InstantToTicks
<1> HIDE DEF q, r, p
<1>5. v * n = (n * q) * d + p * n
  <2>1. (q * d + p) * n = (n * q) * d + p * n
    BY <1>1, <1>3
  <2> QED BY ONLY <1>4, <2>1, Zenon
<1>6. i * d = (n * q) * d + r * d /\ (n * q) * d \in Int
  BY <1>1
<1>7. PICK x \in Int, y \in Int, z \in Int : x = (n * q) * d /\ y = p * n /\ z = r * d
  BY <1>2, <1>3, <1>6
<1>8. v * n = x + y /\ i * d = x + z /\ y <= z + n - 1 /\ (v - 1) * n = v * n - n
  <2>1. (v - 1) * n = v * n - n
    OBVIOUS
  <2> QED BY <1>3, <1>5, <1>6, <1>7, <2>1
<1>9. (v - 1) * n = x + y - n /\ x + y - n < x + z
  BY <1>8
<1> QED BY <1>8, <1>9

-----------------------------------------------------------------------------
(* Sleeping, and the timer of the frames.                                  *)

\* The units of a timer are those that the time takes that was left when it was set.
TimerFits ==
  /\ checkedAt <= Now
  /\ (wakeAt - 1) * DueTimeUnit < deadline - checkedAt
  /\ deadline - checkedAt <= wakeAt * DueTimeUnit

\* Who is asleep waits for a count that is late enough; on Windows the clock is asked
\* before anybody returns.
SleeperWaits ==
  /\ sleep = "checking" => clock.os = "windows"
  /\ sleep = "asleep" =>
       \/ clock.os = "windows" /\ TimerFits
       \/ clock.os = "linux" /\ wakeAt = deadline
       \/ /\ clock.os = "macos" /\ deadline > 0
          /\ wakeAt = InstantToTicks(deadline, clock.numerator, clock.denominator)

ClockTypeOK ==
  /\ clock \in Clocks /\ ticks \in 0..Uptime
  /\ sleep \in {"awake", "checking", "asleep", "returned"}
  /\ deadline \in Int /\ deadline <= SignedMax /\ wakeAt \in Int /\ checkedAt \in Int
  /\ start \in Int /\ previous \in Int /\ rawDelta \in Int /\ delta \in Int

ClockInv == ClockTypeOK /\ SleeperWaits /\ SleepsAreFull /\ FramesGoForward

\* A timer's units take the duration, and with one unit less they would not.
LEMMA DueTimeFits ==
  ASSUME NEW left \in Nat \ {0}, DueTimeUnit \in Nat \ {0}
  PROVE  (DueTime(left) - 1) * DueTimeUnit < left /\ left <= DueTime(left) * DueTimeUnit
<1> DEFINE q == (left - 1) \div DueTimeUnit
           r == (left - 1) % DueTimeUnit
<1>1. q \in Int /\ r \in 0..(DueTimeUnit - 1) /\ left - 1 = DueTimeUnit * q + r
  <2>1. left - 1 \in Int
    OBVIOUS
  <2> QED BY ONLY <2>1, DivisionIsExact, DueTimeUnit \in Nat \ {0}
<1>2. DueTime(left) = q + 1
  BY DEF DueTime
<1> HIDE DEF q, r
<1>3. (q + 1) * DueTimeUnit = DueTimeUnit * q + DueTimeUnit /\ q * DueTimeUnit = DueTimeUnit * q
  BY <1>1
<1>4. DueTimeUnit * q \in Int
  BY <1>1
<1>5. (DueTime(left) - 1) * DueTimeUnit = DueTimeUnit * q
      /\ DueTime(left) * DueTimeUnit = DueTimeUnit * q + DueTimeUnit
  BY <1>1, <1>2, <1>3
<1> QED BY <1>1, <1>4, <1>5

\* Instants go up to the largest signed word.
LEMMA InstantsAreWords == SignedMax \in Nat /\ SignedMin \in Int /\ SignedMin <= SignedMax
BY UptimeFitsTheWord DEF SignedMax, SignedMin

\* An instant plus a duration is an instant.
LEMMA SumsAreInstants ==
  ASSUME NEW i \in Int, NEW d \in Int, i <= SignedMax
  PROVE  ClampedAdd(i, d) \in Int /\ ClampedAdd(i, d) <= SignedMax
BY InstantsAreWords DEF ClampedAdd

\* When the count that was asked for is reached, so is the deadline.
LEMMA CountIsLateEnough ==
  ASSUME ClockInv, sleep = "asleep", clock.os # "windows", ticks >= wakeAt
  PROVE  Now >= deadline
<1> DEFINE n == NanosecondsOf(clock)
           d == CountsOf(clock)
<1>1. clock \in Clocks /\ ticks \in 0..Uptime /\ deadline \in Int /\ wakeAt \in Int
  BY DEF ClockInv, ClockTypeOK
<1>2. n \in Nat \ {0} /\ d \in Nat \ {0} /\ Now = (ticks * n) \div d
  BY <1>1, RatiosArePositive, TimeOfCount DEF Now
<1>3. Uptime \in Nat /\ Uptime < WordLimit - 1 /\ WordLimit \in Nat
  BY UptimeFitsTheWord
<1>4. CASE clock.os = "linux"
  <2>1. n = 1 /\ d = 1 /\ wakeAt = deadline
    BY <1>4 DEF NanosecondsOf, CountsOf, n, d, ClockInv, SleeperWaits
  <2> HIDE DEF n, d
  <2> QED BY <1>1, <1>2, <2>1
<1>5. CASE clock.os = "macos"
  <2>1. /\ n = clock.numerator /\ d = clock.denominator
        /\ deadline > 0 /\ wakeAt = InstantToTicks(deadline, n, d)
    BY <1>5 DEF NanosecondsOf, CountsOf, n, d, ClockInv, SleeperWaits
  <2> HIDE DEF n, d
  <2>2. wakeAt # WordLimit - 1
    BY <1>1, <1>3
  <2>3. wakeAt * n >= deadline * d
    <3>1. deadline \in Nat
      BY <1>1, <2>1
    <3> QED BY <1>2, <2>1, <2>2, <3>1, CountsAreRoundedUp
  <2>4. ticks * n >= wakeAt * n
    BY <1>1, <1>2, <1>3, ProductsKeepOrder
  <2>5. deadline * d <= ticks * n /\ ticks * n \in Int
    BY <1>1, <1>2, <1>3, <2>3, <2>4
  <2> QED BY <1>1, <1>2, <2>5, QuotientIsFloor
<1> QED
  BY <1>1, <1>4, <1>5, FrequenciesAreWhole

\* The time is an instant, after every step as before it, and not an earlier one.
LEMMA NowGoesForward ==
  ASSUME ClockInv, [ClockNext]_clockVars
  PROVE  /\ clock' = clock /\ ticks' \in 0..Uptime
         /\ Now \in Int /\ Now' \in Int /\ Now <= Now'
<1>1. clock \in Clocks /\ ticks \in 0..Uptime /\ Uptime \in Nat
  BY UptimeFitsTheWord DEF ClockInv, ClockTypeOK
<1>2. clock' = clock /\ ticks' \in 0..Uptime /\ ticks <= ticks'
  <2>1. CASE Advance
    BY <1>1, <2>1 DEF Advance
  <2>2. CASE UNCHANGED <<clock, ticks>>
    BY <1>1, <2>2
  <2>3. Advance \/ UNCHANGED <<clock, ticks>>
    BY DEF ClockNext, SleepFor, CheckClock, Wake, GoOn, TimerReset, TimerTick, clockVars
  <2> QED BY <2>1, <2>2, <2>3
<1>3. SignedMax \in Int
  BY UptimeFitsTheWord DEF SignedMax
<1>4. TicksToDuration(clock, ticks) \in Int /\ TicksToDuration(clock, ticks') \in Int
  BY <1>1, <1>2, <1>3, TimeOfCount
<1>5. TicksToDuration(clock, ticks) <= TicksToDuration(clock, ticks')
  BY <1>1, <1>2, TimeGoesForward
<1> QED BY <1>2, <1>4, <1>5 DEF Now

\* Nobody waits for a later count, or for more units, than the deadline takes, although
\* the count may be one the machine does not live to see.
LEMMA WaitsAreNotLonger ==
  ASSUME ClockInv
  PROVE  SleepsAreNotLonger
<1> SUFFICES ASSUME sleep = "asleep"
             PROVE  CASE clock.os = "windows" -> TimerFits
                      [] clock.os = "macos" -> wakeAt < WordLimit - 1 =>
                           TicksToDuration(clock, wakeAt - 1) < deadline
                      [] OTHER -> wakeAt = deadline
  BY DEF SleepsAreNotLonger, TimerFits
<1>1. CASE clock.os # "macos"
  BY <1>1 DEF ClockInv, SleeperWaits
<1>2. CASE clock.os = "macos"
  <2> SUFFICES ASSUME wakeAt < WordLimit - 1
               PROVE  TicksToDuration(clock, wakeAt - 1) < deadline
    BY <1>2
  <2> DEFINE n == clock.numerator
             d == clock.denominator
  <2>1. n \in Nat \ {0} /\ d \in Nat \ {0} /\ (d - 1) * n < WordLimit
    <3>1. CountsOf(clock) = d /\ NanosecondsOf(clock) = n
      BY <1>2 DEF CountsOf, NanosecondsOf
    <3> QED BY <1>2, <3>1, FrequenciesAreWhole, UptimeFitsTheWord DEF ClockInv, ClockTypeOK
  <2>2. TicksToDuration(clock, wakeAt - 1) = Signed(ScaleTicks(wakeAt - 1, n, d))
    BY <1>2 DEF TicksToDuration
  <2>3. /\ deadline \in Nat \ {0} /\ deadline <= SignedMax /\ wakeAt = InstantToTicks(deadline, n, d)
        /\ wakeAt \in Int /\ WordLimit \in Nat
    BY <1>2, UptimeFitsTheWord DEF ClockInv, ClockTypeOK, SleeperWaits
  <2> HIDE DEF n, d
  <2>4. (wakeAt - 1) * n < deadline * d /\ wakeAt * n >= deadline * d
    <3>1. deadline \in Nat /\ wakeAt # WordLimit - 1
      BY <2>3
    <3> QED BY <2>1, <2>3, <3>1, CountsAreNotTooLate, CountsAreRoundedUp
  <2>5. PICK t \in Nat : t = wakeAt - 1
    <3>1. deadline * d > 0 /\ deadline * d \in Int
      BY <2>1, <2>3
    <3>2. wakeAt * n > 0
      BY <2>1, <2>3, <2>4, <3>1
    <3>3. wakeAt > 0
      BY <2>1, <2>3, <3>2
    <3> QED BY <2>3, <3>3
  <2>6. t * n < deadline * d /\ deadline * d <= SignedMax * d /\ t * n \in Int
        /\ deadline * d \in Int /\ SignedMax * d \in Int
    BY <2>1, <2>3, <2>4, <2>5, InstantsAreWords, ProductsKeepOrder
  <2>7. ScaleTicks(t, n, d) = (t * n) \div d /\ (t * n) \div d \in 0..SignedMax
    <3>1. t * n <= SignedMax * d
      BY <2>6
    <3> QED BY <2>1, <3>1, ScaledCountsFit
  <2>8. ~(deadline <= (t * n) \div d)
    <3>1. PICK a \in Int : a = t * n
      BY <2>6
    <3>2. deadline <= a \div d <=> deadline * d <= a
      <4>1. PICK k \in Int : k = deadline
        BY <2>3
      <4>2. d \in Nat \ {0}
        BY <2>1
      <4>3. k <= a \div d <=> k * d <= a
        BY ONLY <4>2, QuotientIsFloor
      <4> QED BY <4>1, <4>3
    <3>3. ~(deadline * d <= a)
      BY <2>6, <3>1
    <3> QED BY <3>1, <3>2, <3>3
  <2>9. TicksToDuration(clock, wakeAt - 1) = (t * n) \div d
    BY <2>2, <2>5, <2>7, InstantsAreWords DEF Signed
  <2> QED BY <2>3, <2>7, <2>8, <2>9, InstantsAreWords
<1> QED BY <1>1, <1>2

\* Nobody wakes before the deadline he sleeps until, or asks for more than it takes, on any
\* system, and the times of frames go forward and stay within their bounds
\* (time_linux.cpp:22, time_macos.cpp:13, time_windows.cpp:20, frame_timer.h:25).
THEOREM SleepsLastAndFramesAdvance ==
  ClockSpec => [](SleepsAreFull /\ SleepsAreNotLonger /\ FramesGoForward)
<1>1. ClockInit => ClockInv
  <2> SUFFICES ASSUME ClockInit PROVE ClockInv
    OBVIOUS
  <2>1. Uptime \in Nat /\ MaxDelta \in Nat
    BY UptimeFitsTheWord
  <2>2. ClockTypeOK /\ SleeperWaits /\ SleepsAreFull
    BY <2>1, InstantsAreWords DEF ClockInit, ClockTypeOK, SleeperWaits, SleepsAreFull
  <2>3. Now >= 0
    BY <2>1, TimeOfCount DEF ClockInit, Now
  <2> QED BY <2>1, <2>2, <2>3 DEF ClockInit, ClockInv, FramesGoForward
<1>2. ClockInv /\ [ClockNext]_clockVars => ClockInv'
  <2> SUFFICES ASSUME ClockInv, [ClockNext]_clockVars PROVE ClockInv'
    OBVIOUS
  <2>1. /\ clock' = clock /\ ticks' \in 0..Uptime
        /\ Now \in Int /\ Now' \in Int /\ Now <= Now'
    BY NowGoesForward
  <2>2. MaxDelta \in Nat
    BY UptimeFitsTheWord
  <2>3. CASE UNCHANGED sleepVars /\ UNCHANGED timerVars
    <3>1. TimerFits => TimerFits'
      BY <2>1, <2>3 DEF ClockInv, ClockTypeOK, TimerFits, sleepVars
    <3> QED
      BY <2>1, <2>3, <3>1 DEF ClockInv, ClockTypeOK, SleeperWaits, SleepsAreFull, FramesGoForward,
                              sleepVars, timerVars
  <2>4. ASSUME NEW duration \in SleepDurations, SleepFor(duration)
        PROVE  ClockInv'
    <3>1. duration \in Int
      BY UptimeFitsTheWord
    <3>2. deadline' = ClampedAdd(Now, duration) /\ deadline' \in Int /\ deadline' <= SignedMax
      <4>1. Now <= SignedMax
        BY TimeOfCount, UptimeFitsTheWord DEF ClockInv, ClockTypeOK, Now, SignedMax
      <4> QED BY <2>1, <2>4, <3>1, <4>1, SumsAreInstants DEF SleepFor
    <3>3. Now' = Now
      BY <2>4 DEF SleepFor, Now
    <3>4. FramesGoForward'
      BY <2>1, <2>4, <3>3 DEF SleepFor, ClockInv, ClockTypeOK, FramesGoForward, timerVars
    <3>5. clock.os = "macos" =>
             InstantToTicks(deadline', clock.numerator, clock.denominator) \in Int \/ deadline' <= 0
      <4> SUFFICES ASSUME clock.os = "macos", deadline' > 0
                   PROVE  InstantToTicks(deadline', clock.numerator, clock.denominator) \in Int
        BY <3>2
      <4>1. clock.numerator \in Nat \ {0} /\ clock.denominator \in Nat \ {0}
        BY FrequenciesAreWhole DEF ClockInv, ClockTypeOK
      <4>2. deadline' \in Nat
        BY <3>2
      <4> QED BY <4>1, <4>2, CountsAreRoundedUp
    <3>6. clock.os \in {"linux", "windows", "macos"}
      BY FrequenciesAreWhole DEF ClockInv, ClockTypeOK
    <3>7. 0 <= Now
      BY TimeOfCount DEF ClockInv, ClockTypeOK, Now
    <3>8. CASE clock.os = "windows"
      BY <2>1, <2>4, <3>2, <3>4, <3>8 DEF SleepFor, ClockInv, ClockTypeOK, SleeperWaits,
         SleepsAreFull, timerVars
    <3>9. CASE clock.os # "windows" /\ deadline' <= 0
      BY <2>1, <2>4, <3>2, <3>3, <3>4, <3>7, <3>9 DEF SleepFor, ClockInv, ClockTypeOK,
         SleeperWaits, SleepsAreFull, timerVars
    <3>10. CASE clock.os # "windows" /\ deadline' > 0
      BY <2>1, <2>4, <3>2, <3>4, <3>5, <3>6, <3>10 DEF SleepFor, ClockInv, ClockTypeOK,
         SleeperWaits, SleepsAreFull, timerVars
    <3> QED BY <3>2, <3>8, <3>9, <3>10
  <2>5. CASE CheckClock
    <3>1. Now' = Now
      BY <2>5 DEF CheckClock, Now
    <3>2. clock.os = "windows"
      BY <2>5 DEF CheckClock, ClockInv, SleeperWaits
    <3>3. DueTime(deadline - Now) \in Int
      <4>1. DueTimeUnit \in Nat \ {0}
        BY FrequenciesAreWhole
      <4>2. deadline - Now - 1 \in Int
        BY <2>1 DEF ClockInv, ClockTypeOK
      <4> QED BY <4>1, <4>2, DivisionIsExact DEF DueTime
    <3>9. sleep' = "asleep" => TimerFits'
      <4> HAVE sleep' = "asleep"
      <4>1. /\ DueTimeUnit \in Nat \ {0} /\ deadline - Now \in Nat \ {0}
            /\ deadline' = deadline /\ checkedAt' = Now /\ wakeAt' = DueTime(deadline - Now)
        <5>1. deadline > Now
          BY <2>1, <2>5 DEF CheckClock, ClockInv, ClockTypeOK
        <5> QED BY <2>1, <2>5, <5>1, FrequenciesAreWhole DEF CheckClock, ClockInv, ClockTypeOK
      <4>2. PICK left \in Nat \ {0} : left = deadline - Now
        BY <4>1
      <4>3. /\ (DueTime(left) - 1) * DueTimeUnit < left
            /\ left <= DueTime(left) * DueTimeUnit
        BY <4>1, DueTimeFits
      <4> QED BY <2>1, <3>1, <4>1, <4>2, <4>3 DEF TimerFits
    <3>4. wakeAt' \in Int /\ sleep' \in {"returned", "asleep"} /\ (sleep' = "returned" => deadline <= Now)
      BY <2>5, <3>3 DEF CheckClock, ClockInv, ClockTypeOK
    <3>5. ClockTypeOK'
      BY <2>1, <2>5, <3>4 DEF CheckClock, ClockInv, ClockTypeOK, timerVars
    <3>6. FramesGoForward'
      BY <2>1, <2>5, <3>1 DEF CheckClock, ClockInv, ClockTypeOK, FramesGoForward, timerVars
    <3>7. SleeperWaits' /\ SleepsAreFull'
      BY <2>1, <2>5, <3>1, <3>2, <3>4, <3>9 DEF CheckClock, ClockInv, ClockTypeOK, SleeperWaits, SleepsAreFull
    <3> QED BY <3>5, <3>6, <3>7 DEF ClockInv
  <2>6. CASE Wake
    <3>1. Now' = Now
      BY <2>6 DEF Wake, Now
    <3>2. clock.os # "windows" => Now >= deadline
      BY <2>6, CountIsLateEnough DEF Wake
    <3> QED
      BY <2>1, <2>6, <3>1, <3>2 DEF Wake, ClockInv, ClockTypeOK, SleeperWaits, SleepsAreFull,
                                    FramesGoForward, timerVars
  <2>7. CASE GoOn
    BY <2>1, <2>7, InstantsAreWords DEF GoOn, ClockInv, ClockTypeOK, SleeperWaits, SleepsAreFull, FramesGoForward,
                      timerVars
  <2>8. CASE TimerReset
    BY <2>1, <2>2, <2>8 DEF TimerReset, ClockInv, ClockTypeOK, SleeperWaits, SleepsAreFull,
                            FramesGoForward, sleepVars
  <2>9. CASE TimerTick
    BY <2>1, <2>2, <2>9 DEF TimerTick, ClockInv, ClockTypeOK, SleeperWaits, SleepsAreFull,
                            FramesGoForward, sleepVars
  <2>10. CASE Advance
    BY <2>3, <2>10 DEF Advance
  <2>11. CASE UNCHANGED clockVars
    BY <2>3, <2>11 DEF clockVars, sleepVars, timerVars
  <2> QED BY <2>4, <2>5, <2>6, <2>7, <2>8, <2>9, <2>10, <2>11 DEF ClockNext
<1>3. ClockInv => SleepsAreFull /\ SleepsAreNotLonger /\ FramesGoForward
  BY WaitsAreNotLonger DEF ClockInv
<1> QED BY <1>1, <1>2, <1>3, PTL DEF ClockSpec

-----------------------------------------------------------------------------
(* The world's time.                                                       *)

WorldTimeInv ==
  /\ WorldTimeIsExact
  /\ {unpausedElapsed, gameElapsed, unpausedRemainder, gameRemainder, timeScale, pauseMultiplier}
       \subseteq Int

\* What a time grows by, and what is then left, add up to what was scaled.
LEMMA NothingIsLost ==
  ASSUME NEW x \in Int, NEW factor \in Int, NEW remainder \in Int
  PROVE  /\ ScaledDelta(x, factor, remainder) \in Int
         /\ ScaledRemainder(x, factor, remainder) \in 0..(FactorDenominator - 1)
         /\ x * factor + remainder
              = ScaledDelta(x, factor, remainder) * FactorDenominator + ScaledRemainder(x, factor, remainder)
<1> DEFINE a == x * factor + remainder
<1>1. a \in Int /\ FactorDenominator \in Nat \ {0}
  BY FactorsAreFractions
<1> HIDE DEF a
<1>2. /\ a \div FactorDenominator \in Int /\ a % FactorDenominator \in 0..(FactorDenominator - 1)
      /\ a = (a \div FactorDenominator) * FactorDenominator + (a % FactorDenominator)
  BY <1>1, DivisionIsExact
<1> QED BY <1>2 DEF ScaledDelta, ScaledRemainder, a

\* A sum that was exact stays so when a product is added that was split into a whole number
\* and what is left of it.
LEMMA SumsStayExact ==
  ASSUME NEW whole \in Int, NEW left \in Int, NEW product \in Int,
         NEW more \in Int, NEW leftThen \in Int,
         product + left = more * FactorDenominator + leftThen
  PROVE  (whole * FactorDenominator + left) + product
           = (whole + more) * FactorDenominator + leftThen
<1>1. FactorDenominator \in Int
  BY FactorsAreFractions
<1>2. (whole + more) * FactorDenominator = whole * FactorDenominator + more * FactorDenominator
  BY <1>1
<1>3. whole * FactorDenominator \in Int /\ more * FactorDenominator \in Int
  BY <1>1
<1> QED BY <1>2, <1>3

\* The world's times are the exact sums of what was scaled, to the part of a nanosecond, for
\* all durations and factors (world_time.h:16-28, 62-73).
THEOREM WorldTimeStaysExact == WorldTimeSpec => []WorldTimeIsExact
<1>1. WorldTimeInit => WorldTimeInv
  BY FactorsAreFractions DEF WorldTimeInit, WorldTimeInv, WorldTimeIsExact
<1>2. WorldTimeInv /\ [WorldTimeNext]_worldTimeVars => WorldTimeInv'
  <2> SUFFICES ASSUME WorldTimeInv, [WorldTimeNext]_worldTimeVars PROVE WorldTimeInv'
    OBVIOUS
  <2>1. FactorDenominator \in Nat \ {0} /\ Factors \subseteq Int /\ RealDeltas \subseteq Int
    BY FactorsAreFractions
  <2>2. ASSUME NEW d \in RealDeltas, WorldTick(d) PROVE WorldTimeInv'
    <3>1. /\ d \in Int /\ timeScale \in Int /\ pauseMultiplier \in Int
          /\ unpausedRemainder \in Int /\ gameRemainder \in Int
          /\ unpausedElapsed \in Int /\ gameElapsed \in Int
      BY <2>1 DEF WorldTimeInv
    <3>2. /\ unpausedDelta' \in Int /\ unpausedRemainder' \in 0..(FactorDenominator - 1)
          /\ d * timeScale + unpausedRemainder = unpausedDelta' * FactorDenominator + unpausedRemainder'
      BY <2>2, <3>1, NothingIsLost DEF WorldTick
    <3>3. /\ gameDelta' \in Int /\ gameRemainder' \in 0..(FactorDenominator - 1)
          /\ unpausedDelta' * pauseMultiplier + gameRemainder
               = gameDelta' * FactorDenominator + gameRemainder'
      <4>1. /\ gameDelta' = ScaledDelta(unpausedDelta', pauseMultiplier, gameRemainder)
            /\ gameRemainder' = ScaledRemainder(unpausedDelta', pauseMultiplier, gameRemainder)
        BY <2>2 DEF WorldTick
      <4>2. unpausedDelta' \in Int /\ pauseMultiplier \in Int /\ gameRemainder \in Int
        BY <3>1, <3>2
      <4>3. /\ ScaledDelta(unpausedDelta', pauseMultiplier, gameRemainder) \in Int
            /\ ScaledRemainder(unpausedDelta', pauseMultiplier, gameRemainder) \in 0..(FactorDenominator - 1)
            /\ unpausedDelta' * pauseMultiplier + gameRemainder
                 = ScaledDelta(unpausedDelta', pauseMultiplier, gameRemainder) * FactorDenominator
                   + ScaledRemainder(unpausedDelta', pauseMultiplier, gameRemainder)
        BY <4>2, NothingIsLost
      <4> QED BY <4>1, <4>3
    <3>4. /\ unpausedElapsed' = unpausedElapsed + unpausedDelta'
          /\ gameElapsed' = gameElapsed + gameDelta'
          /\ exactUnpaused' = exactUnpaused + d * timeScale
          /\ exactGame' = exactGame + unpausedDelta' * pauseMultiplier
          /\ timeScale' = timeScale /\ pauseMultiplier' = pauseMultiplier
      BY <2>2 DEF WorldTick, settingVars
    <3>5. /\ exactUnpaused = unpausedElapsed * FactorDenominator + unpausedRemainder
          /\ exactGame = gameElapsed * FactorDenominator + gameRemainder
      BY DEF WorldTimeInv, WorldTimeIsExact
    <3>6. exactUnpaused' = unpausedElapsed' * FactorDenominator + unpausedRemainder'
      <4>1. d * timeScale \in Int /\ unpausedRemainder' \in Int
        BY <2>1, <3>1, <3>2
      <4>2. (unpausedElapsed * FactorDenominator + unpausedRemainder) + d * timeScale
               = (unpausedElapsed + unpausedDelta') * FactorDenominator + unpausedRemainder'
        BY <4>1, <3>1, <3>2, SumsStayExact
      <4> QED BY <4>2, <3>4, <3>5
    <3>7. exactGame' = gameElapsed' * FactorDenominator + gameRemainder'
      <4>1. unpausedDelta' * pauseMultiplier \in Int /\ gameRemainder' \in Int
        BY <2>1, <3>1, <3>2, <3>3
      <4>2. (gameElapsed * FactorDenominator + gameRemainder) + unpausedDelta' * pauseMultiplier
               = (gameElapsed + gameDelta') * FactorDenominator + gameRemainder'
        BY <4>1, <3>1, <3>3, SumsStayExact
      <4> QED BY <4>2, <3>4, <3>5
    <3>8. unpausedElapsed' \in Int /\ gameElapsed' \in Int
      BY <3>1, <3>2, <3>3, <3>4
    <3>9. unpausedRemainder' \in Int /\ gameRemainder' \in Int
      BY <2>1, <3>2, <3>3
    <3>10. WorldTimeIsExact'
      BY <3>2, <3>3, <3>6, <3>7 DEF WorldTimeIsExact
    <3> QED
      BY <3>1, <3>4, <3>8, <3>9, <3>10 DEF WorldTimeInv
  <2>3. ASSUME NEW factor \in Factors, SetTimeScale(factor) \/ SetPauseMultiplier(factor)
        PROVE  WorldTimeInv'
    BY <2>1, <2>3 DEF SetTimeScale, SetPauseMultiplier, passedVars, WorldTimeInv, WorldTimeIsExact
  <2>4. CASE WorldReset
    BY <2>1, <2>4 DEF WorldReset, settingVars, WorldTimeInv, WorldTimeIsExact
  <2>5. CASE UNCHANGED worldTimeVars
    BY <2>5 DEF worldTimeVars, passedVars, settingVars, WorldTimeInv, WorldTimeIsExact
  <2> QED BY <2>2, <2>3, <2>4, <2>5 DEF WorldTimeNext
<1>3. WorldTimeInv => WorldTimeIsExact
  BY DEF WorldTimeInv
<1> QED BY <1>1, <1>2, <1>3, PTL DEF WorldTimeSpec

\* All that is promised of time: of the counter's, of sleeps and frames, and of the world's.
THEOREM TimeStaysKept == ClockSpec /\ WorldTimeSpec => []TimeIsKept
<1>1. SleepsAreFull /\ SleepsAreNotLonger /\ FramesGoForward /\ WorldTimeIsExact => TimeIsKept
  BY DEF TimeIsKept
<1> QED BY <1>1, SleepsLastAndFramesAdvance, WorldTimeStaysExact, PTL

-----------------------------------------------------------------------------
(* Which features are taken.                                               *)

\* Features that contain what each of them builds on.
Whole(features, prerequisites) == \A f \in features : prerequisites[f] \subseteq features

\* What is taken of what was reported is whole, although only what was reported is looked
\* at, if the prerequisites of prerequisites are listed (cpu_probe.h:113).
LEMMA TakenFeaturesAreWhole ==
  ASSUME NEW prerequisites, NEW reported, PrerequisitesAreClosed(prerequisites),
         reported \subseteq DOMAIN prerequisites
  PROVE  Whole(InsertFeaturesWithPrerequisites(reported, prerequisites), prerequisites)
<1> SUFFICES ASSUME NEW f \in reported, prerequisites[f] \subseteq reported,
                    NEW g \in prerequisites[f]
             PROVE  g \in reported /\ prerequisites[g] \subseteq reported
  BY DEF Whole, InsertFeaturesWithPrerequisites
<1>1. prerequisites[g] \subseteq prerequisites[f]
  BY DEF PrerequisitesAreClosed
<1> QED BY <1>1

\* What registers report are features, whatever their bits are.
LEMMA RegistersReportFeatures ==
  ASSUME NEW register, NEW bits
  PROVE  ReportedBy(register, bits) \subseteq X86Features
BY TablesNameFeatures DEF ReportedBy

\* The last thing that is done with the features of an x86-64 processor is to drop those
\* that lack what they build on (cpu_probe_x86_64.cpp:807).
LEMMA X86FeaturesAreWhole ==
  ASSUME NEW cpu
  PROVE  Whole(X86FeaturesOf(cpu), X86Prerequisites)
<1> DEFINE registers == ReadFeatureRegisters(cpu)
           reported == (UNION {ReportedBy(r, registers[r]) : r \in CpuidRegister})
                       \union (IF 20 \in registers.Extended21Eax THEN {"Prefetchi"} ELSE {})
           osXsave == "Osxsave" \in reported
           xcr0 == IF osXsave THEN cpu.xcr0 ELSE {}
           erratum == IF cpu.isIntel /\ "Avx" \notin reported THEN {"Bmi1", "Bmi2"} ELSE {}
           usable == {f \in reported \ erratum :
                        IsXcr0StateEnabled(FeatureRegisterState(f), xcr0, osXsave, cpu.isMacos)}
<1>1. "Prefetchi" \in X86Features
  BY DEF X86Features
<1>2. reported \subseteq X86Features
  BY <1>1, RegistersReportFeatures
<1>3. DOMAIN X86Prerequisites = X86Features
  BY DEF X86Prerequisites
<1>4. X86FeaturesOf(cpu) = InsertFeaturesWithPrerequisites(usable, X86Prerequisites)
  BY DEF X86FeaturesOf
<1>5. usable \subseteq DOMAIN X86Prerequisites
  BY <1>2, <1>3
<1> HIDE DEF usable
<1> QED BY <1>4, <1>5, PrerequisitesAreWhole, TakenFeaturesAreWhole

\* So it is with the features of an ARM64 processor, on each OS (cpu_probe_arm64.h:214).
LEMMA Arm64FeaturesAreWhole ==
  ASSUME NEW machine, machine.os \in {"linux", "windows", "macos"}
  PROVE  Whole(Arm64FeaturesOf(machine), Arm64Prerequisites)
<1>1. "Fpmr" \in Arm64Features
  BY DEF Arm64Features
<1>2. DOMAIN Arm64Prerequisites = Arm64Features
  BY DEF Arm64Prerequisites
<1>3. LinuxReported(machine) \subseteq Arm64Features
  BY TablesNameFeatures DEF LinuxReported, ReportedByHwcaps
<1>4. WindowsReported(machine) \subseteq Arm64Features
  BY <1>1, TablesNameFeatures DEF WindowsReported
<1>5. MacosReported(machine) \subseteq Arm64Features
  BY TablesNameFeatures DEF MacosReported
<1>6. PICK reported \in SUBSET Arm64Features :
        Arm64FeaturesOf(machine) = InsertFeaturesWithPrerequisites(reported, Arm64Prerequisites)
  BY <1>3, <1>4, <1>5 DEF Arm64FeaturesOf
<1> QED BY <1>2, <1>6, PrerequisitesAreWhole, TakenFeaturesAreWhole

\* What is detected on any machine is whole.
LEMMA ProbedFeaturesAreWhole ==
  ASSUME host \in Hosts
  PROVE  Whole(ProbeIdentity.features, Prerequisites)
<1>1. CASE host.arch = "x86"
  BY <1>1, X86FeaturesAreWhole DEF ProbeIdentity, Prerequisites
<1>2. CASE host.arch = "arm"
  BY <1>2, ArchitecturesAreKnown, Arm64FeaturesAreWhole DEF ProbeIdentity, Prerequisites
<1> QED BY <1>1, <1>2, ArchitecturesAreKnown

-----------------------------------------------------------------------------
(* Which features are usable.                                              *)

\* What an x86-64 processor reports, what of it an erratum takes back, and what is left that
\* the OS has enabled.
Reported(cpu) ==
  LET registers == ReadFeatureRegisters(cpu)
  IN (UNION {ReportedBy(r, registers[r]) : r \in CpuidRegister})
     \union (IF 20 \in registers.Extended21Eax THEN {"Prefetchi"} ELSE {})

Erratum(cpu) == IF cpu.isIntel /\ "Avx" \notin Reported(cpu) THEN {"Bmi1", "Bmi2"} ELSE {}

IsEnabled(cpu, f) ==
  IsXcr0StateEnabled(FeatureRegisterState(f), IF "Osxsave" \in Reported(cpu) THEN cpu.xcr0 ELSE {},
                     "Osxsave" \in Reported(cpu), cpu.isMacos)

Usable(cpu) == {f \in Reported(cpu) \ Erratum(cpu) : IsEnabled(cpu, f)}

\* The features are those of them that have what they build on.
LEMMA FeaturesAreUsableOnes ==
  ASSUME NEW cpu
  PROVE  X86FeaturesOf(cpu) = {f \in Usable(cpu) : X86Prerequisites[f] \subseteq Usable(cpu)}
<1>1. X86FeaturesOf(cpu) = InsertFeaturesWithPrerequisites(Usable(cpu), X86Prerequisites)
  BY DEF X86FeaturesOf, Usable, IsEnabled, Erratum, Reported
<1> QED BY <1>1 DEF InsertFeaturesWithPrerequisites

\* The leaf that a register is of.
LEMMA LeavesOfRegisters ==
  /\ DOMAIN LeafOf = {"Leaf1Ecx", "Leaf7Ebx", "Leaf7Ecx", "Leaf7Edx", "Leaf7Subleaf1Eax",
                      "Leaf7Subleaf1Edx", "Leaf0DSubleaf1Eax"}
  /\ LeafOf["Leaf1Ecx"] = 1 /\ LeafOf["Leaf7Ebx"] = 7 /\ LeafOf["Leaf7Ecx"] = 7
  /\ LeafOf["Leaf7Edx"] = 7 /\ LeafOf["Leaf7Subleaf1Eax"] = 7 /\ LeafOf["Leaf7Subleaf1Edx"] = 7
  /\ LeafOf["Leaf0DSubleaf1Eax"] = 13
  /\ DOMAIN ExtendedLeafOf = {"Extended1Ecx", "Extended1Edx", "Extended7Edx", "Extended8Ebx", "Extended21Eax"}
  /\ ExtendedLeafOf["Extended1Ecx"] = 1 /\ ExtendedLeafOf["Extended1Edx"] = 1
  /\ ExtendedLeafOf["Extended7Edx"] = 7 /\ ExtendedLeafOf["Extended8Ebx"] = 8
  /\ ExtendedLeafOf["Extended21Eax"] = 33
BY DEF LeafOf, ExtendedLeafOf

\* What is read of a register is nothing, or what an answered one holds; of the versions, those
\* that are listed.
IsReadTruly(cpu, r) ==
  LET bits == ReadFeatureRegisters(cpu)[r]
  IN IF r = "Avx10Versions" THEN bits = {v \in {0, 1} : Avx10IsListed(cpu) /\ cpu.leaf24Ebx % 256 > v}
     ELSE bits = {} \/ (IsAnswered(cpu, r) /\ bits = cpu.registers[r])

\* Of each register.
LEMMA RegistersAreRead ==
  ASSUME NEW cpu, NEW r \in CpuidRegister \union {"Extended21Eax"}
  PROVE  IsReadTruly(cpu, r)
<1> DEFINE answered ==
        (IF cpu.maxLeaf >= 1 THEN {"Leaf1Ecx"} ELSE {})
        \union (IF cpu.maxLeaf >= 7 THEN {"Leaf7Ebx", "Leaf7Ecx", "Leaf7Edx"} ELSE {})
        \union (IF cpu.maxLeaf >= 7 /\ cpu.leaf7Eax >= 1
                  THEN {"Leaf7Subleaf1Eax", "Leaf7Subleaf1Edx"} ELSE {})
        \union (IF cpu.maxLeaf >= 13 THEN {"Leaf0DSubleaf1Eax"} ELSE {})
        \union (IF cpu.maxExtendedLeaf >= 1 THEN {"Extended1Ecx", "Extended1Edx"} ELSE {})
        \union (IF cpu.maxExtendedLeaf >= 7 THEN {"Extended7Edx"} ELSE {})
        \union (IF cpu.maxExtendedLeaf >= 8 THEN {"Extended8Ebx"} ELSE {})
        \union (IF cpu.maxExtendedLeaf >= 33 THEN {"Extended21Eax"} ELSE {})
<1>1. ReadFeatureRegisters(cpu)[r] =
        IF r = "Avx10Versions" THEN {v \in {0, 1} : Avx10IsListed(cpu) /\ cpu.leaf24Ebx % 256 > v}
        ELSE IF r \in answered THEN cpu.registers[r] ELSE {}
  BY DEF ReadFeatureRegisters
<1>2. r \in answered => IsAnswered(cpu, r)
  BY LeavesOfRegisters DEF IsAnswered
<1> HIDE DEF answered
<1> QED BY <1>1, <1>2 DEF IsReadTruly

\* What is reported is there, but for what the erratum takes back; the versions of AVX10 are
\* reported by their number.
ReportsAreTrue(cpu, real) ==
  /\ Reported(cpu) \subseteq real \union (IF cpu.isIntel /\ "Avx" \notin real THEN {"Bmi1", "Bmi2"} ELSE {})
  /\ "Avx10V1" \in Reported(cpu) <=> Avx10IsListed(cpu) /\ cpu.leaf24Ebx % 256 > 0
  /\ "Avx10V2" \in Reported(cpu) <=> Avx10IsListed(cpu) /\ cpu.leaf24Ebx % 256 > 1

\* A register reports a version only if it is theirs.
LEMMA VersionsAreReported ==
  ASSUME NEW r, NEW bits
  PROVE  /\ "Avx10V1" \in ReportedBy(r, bits) <=> r = "Avx10Versions" /\ 0 \in bits
         /\ "Avx10V2" \in ReportedBy(r, bits) <=> r = "Avx10Versions" /\ 1 \in bits
         /\ r = "Avx10Versions" => ReportedBy(r, bits) \subseteq {"Avx10V1", "Avx10V2"}
         /\ ReportedBy(r, {}) = {}
<1> DEFINE tables == {GeneralCpuidBits, VectorAndSystemCpuidBits}
<1>1. "Avx10Versions" \in DOMAIN VectorAndSystemCpuidBits
  BY DEF VectorAndSystemCpuidBits
<1>2. \A f : f \in ReportedBy(r, bits) <=>
        \E table \in tables : r \in DOMAIN table /\ f \in DOMAIN table[r] /\ table[r][f] \in bits
  BY DEF ReportedBy
<1>3. ReportedBy(r, {}) = {}
  BY DEF ReportedBy
<1>4. \A table \in tables : \A register \in DOMAIN table :
        /\ "Avx10V1" \in DOMAIN table[register] => register = "Avx10Versions" /\ table[register]["Avx10V1"] = 0
        /\ "Avx10V2" \in DOMAIN table[register] => register = "Avx10Versions" /\ table[register]["Avx10V2"] = 1
        /\ register = "Avx10Versions" => DOMAIN table[register] = {"Avx10V1", "Avx10V2"}
  BY VersionsHaveTheirRegister
<1>5. VectorAndSystemCpuidBits \in tables
  OBVIOUS
<1> HIDE DEF tables
<1>6. "Avx10V1" \in ReportedBy(r, bits) <=> r = "Avx10Versions" /\ 0 \in bits
  <2>1. ASSUME "Avx10V1" \in ReportedBy(r, bits) PROVE r = "Avx10Versions" /\ 0 \in bits
    BY <1>2, <1>4, <2>1
  <2>2. ASSUME r = "Avx10Versions", 0 \in bits PROVE "Avx10V1" \in ReportedBy(r, bits)
    <3>1. "Avx10V1" \in DOMAIN VectorAndSystemCpuidBits["Avx10Versions"]
          /\ VectorAndSystemCpuidBits["Avx10Versions"]["Avx10V1"] = 0
      BY <1>1, <1>4, <1>5
    <3> QED BY <1>1, <1>2, <1>5, <2>2, <3>1
  <2> QED BY <2>1, <2>2
<1>7. "Avx10V2" \in ReportedBy(r, bits) <=> r = "Avx10Versions" /\ 1 \in bits
  <2>1. ASSUME "Avx10V2" \in ReportedBy(r, bits) PROVE r = "Avx10Versions" /\ 1 \in bits
    BY <1>2, <1>4, <2>1
  <2>2. ASSUME r = "Avx10Versions", 1 \in bits PROVE "Avx10V2" \in ReportedBy(r, bits)
    <3>1. "Avx10V2" \in DOMAIN VectorAndSystemCpuidBits["Avx10Versions"]
          /\ VectorAndSystemCpuidBits["Avx10Versions"]["Avx10V2"] = 1
      BY <1>1, <1>4, <1>5
    <3> QED BY <1>1, <1>2, <1>5, <2>2, <3>1
  <2> QED BY <2>1, <2>2
<1>8. r = "Avx10Versions" => ReportedBy(r, bits) \subseteq {"Avx10V1", "Avx10V2"}
  BY <1>2, <1>4
<1> QED BY <1>3, <1>6, <1>7, <1>8

\* Of a processor that answers truly.
LEMMA TrueAnswersAreTrueReports ==
  ASSUME NEW cpu, NEW real, AnswersTruly(cpu, real)
  PROVE  ReportsAreTrue(cpu, real)
<1> DEFINE bits(r) == ReadFeatureRegisters(cpu)[r]
           wrong == IF cpu.isIntel /\ "Avx" \notin real THEN {"Bmi1", "Bmi2"} ELSE {}
<1>1. \A r \in CpuidRegister \union {"Extended21Eax"} : IsReadTruly(cpu, r)
  BY RegistersAreRead
<1>2. "Avx10Versions" \in CpuidRegister
  BY DEF CpuidRegister, VectorAndSystemCpuidBits
<1>3. bits("Avx10Versions") = {v \in {0, 1} : Avx10IsListed(cpu) /\ cpu.leaf24Ebx % 256 > v}
  BY <1>1, <1>2 DEF IsReadTruly
<1>4. \A f : f \in Reported(cpu) <=>
        \/ \E r \in CpuidRegister : f \in ReportedBy(r, bits(r))
        \/ f = "Prefetchi" /\ 20 \in bits("Extended21Eax")
  BY DEF Reported
<1>5. \A r \in CpuidRegister : r \in DOMAIN LeafOf \union DOMAIN ExtendedLeafOf \union {"Avx10Versions"}
  BY VersionsHaveTheirRegister DEF CpuidRegister
<1>6. \A r \in CpuidRegister \union {"Extended21Eax"} :
        r # "Avx10Versions" => bits(r) = {} \/ (IsAnswered(cpu, r) /\ bits(r) = cpu.registers[r])
  BY <1>1 DEF IsReadTruly
<1> HIDE DEF bits, wrong
<1>7. Avx10IsListed(cpu) =>
        /\ cpu.leaf24Ebx % 256 > 0 => "Avx10V1" \in real
        /\ cpu.leaf24Ebx % 256 > 1 => "Avx10V2" \in real
  <2>1. Avx10IsListed(cpu) =>
          IsAnswered(cpu, "Leaf7Subleaf1Edx") /\ 19 \in cpu.registers.Leaf7Subleaf1Edx /\ cpu.maxLeaf >= 36
    BY LeavesOfRegisters DEF Avx10IsListed, IsAnswered
  <2>2. cpu.leaf24Ebx % 256 \in Int
    BY DEF AnswersTruly
  <2>3. Avx10IsListed(cpu) =>
          /\ cpu.leaf24Ebx % 256 >= 1 => "Avx10V1" \in real
          /\ cpu.leaf24Ebx % 256 >= 2 => "Avx10V2" \in real
    BY <2>1 DEF AnswersTruly
  <2> QED BY <2>2, <2>3
<1>8. ASSUME NEW r \in CpuidRegister, NEW f \in ReportedBy(r, bits(r)) PROVE f \in real \union wrong
  <2>1. CASE r = "Avx10Versions"
    <3>1. (f = "Avx10V1" /\ 0 \in bits(r)) \/ (f = "Avx10V2" /\ 1 \in bits(r))
      BY <2>1, VersionsAreReported
    <3> QED BY <1>3, <1>7, <2>1, <3>1
  <2>2. CASE r # "Avx10Versions"
    <3>1. bits(r) # {}
      BY VersionsAreReported
    <3>2. IsAnswered(cpu, r) /\ bits(r) = cpu.registers[r] /\ r \in DOMAIN LeafOf \union DOMAIN ExtendedLeafOf
      BY <1>5, <1>6, <2>2, <3>1
    <3>3. ReportedBy(r, cpu.registers[r]) \subseteq real \union wrong
      BY <3>2 DEF AnswersTruly, wrong
    <3> QED BY <3>2, <3>3
  <2> QED BY <2>1, <2>2
<1>9. 20 \in bits("Extended21Eax") => "Prefetchi" \in real
  <2>1. 20 \in bits("Extended21Eax") =>
          IsAnswered(cpu, "Extended21Eax") /\ 20 \in cpu.registers.Extended21Eax
    BY <1>6
  <2> QED BY <2>1 DEF AnswersTruly
<1>10. Reported(cpu) \subseteq real \union wrong
  BY <1>4, <1>8, <1>9
<1>11. "Avx10V1" \in Reported(cpu) <=> Avx10IsListed(cpu) /\ cpu.leaf24Ebx % 256 > 0
  <2>1. "Avx10V1" \in Reported(cpu) <=> 0 \in bits("Avx10Versions")
    BY <1>2, <1>4, VersionsAreReported
  <2> QED BY <1>3, <2>1
<1>12. "Avx10V2" \in Reported(cpu) <=> Avx10IsListed(cpu) /\ cpu.leaf24Ebx % 256 > 1
  <2>1. "Avx10V2" \in Reported(cpu) <=> 1 \in bits("Avx10Versions")
    BY <1>2, <1>4, VersionsAreReported
  <2> QED BY <1>3, <2>1
<1> QED BY <1>10, <1>11, <1>12 DEF ReportsAreTrue, wrong

\* What is detected of a processor that has the features in real, under an OS that saves the
\* states in saved.
IsDetectedTruly(cpu, real, saved) ==
  /\ X86FeaturesOf(cpu) \subseteq real
  /\ \A f \in X86FeaturesOf(cpu) : FeatureRegisterState(f) \in saved \union {"None"}
  /\ X86InfoOf(cpu).avx10Version >= 1 <=> "Avx10V1" \in X86FeaturesOf(cpu)
  /\ X86InfoOf(cpu).avx10Version >= 2 <=> "Avx10V2" \in X86FeaturesOf(cpu)

\* Both versions of AVX10 need the same state, and build on nothing.
LEMMA VersionsAreAlike ==
  /\ FeatureRegisterState("Avx10V1") = "Zmm" /\ FeatureRegisterState("Avx10V2") = "Zmm"
  /\ X86Prerequisites["Avx10V1"] = {} /\ X86Prerequisites["Avx10V2"] = {}
<1>1. "Avx10V1" \in X86Features /\ "Avx10V2" \in X86Features
  BY DEF X86Features
<1> QED BY <1>1 DEF FeatureRegisterState, X86Prerequisites, Avx512Extensions

\* A feature that is detected is there and its state is saved, and the version of AVX10 is the
\* one whose features are detected (cpu_probe_x86_64.cpp:807).
LEMMA X86IsDetectedTruly ==
  ASSUME NEW cpu, NEW real, NEW saved, AnswersTruly(cpu, real), Saves(cpu, real, saved)
  PROVE  IsDetectedTruly(cpu, real, saved)
<1> DEFINE F == X86FeaturesOf(cpu)
           version == X86InfoOf(cpu).avx10Version
           number == cpu.leaf24Ebx % 256
<1>1. ReportsAreTrue(cpu, real)
  BY TrueAnswersAreTrueReports
<1>2. F = {f \in Usable(cpu) : X86Prerequisites[f] \subseteq Usable(cpu)}
  BY FeaturesAreUsableOnes
<1>3. \A f : f \in Usable(cpu) <=> f \in Reported(cpu) /\ f \notin Erratum(cpu) /\ IsEnabled(cpu, f)
  BY DEF Usable
<1>4. version = IF "Avx10V1" \in F THEN number ELSE 0
  BY DEF X86InfoOf
<1>5. number \in Int
  BY DEF AnswersTruly
<1> HIDE DEF F, version, number
<1>6. \A f \in Reported(cpu) : f \notin Erratum(cpu) => f \in real
  <2>1. CASE cpu.isIntel /\ "Avx" \notin real
    <3>1. "Avx" \notin Reported(cpu)
      BY <1>1, <2>1 DEF ReportsAreTrue
    <3>2. Erratum(cpu) = {"Bmi1", "Bmi2"}
      BY <2>1, <3>1 DEF Erratum
    <3> QED BY <1>1, <3>2 DEF ReportsAreTrue
  <2>2. CASE ~(cpu.isIntel /\ "Avx" \notin real)
    BY <1>1, <2>2 DEF ReportsAreTrue
  <2> QED BY <2>1, <2>2
<1>7. F \subseteq real
  BY <1>2, <1>3, <1>6
<1>8. ASSUME NEW f \in F PROVE FeatureRegisterState(f) \in saved \union {"None"}
  <2> DEFINE state == FeatureRegisterState(f)
  <2>1. IsEnabled(cpu, f)
    BY <1>2, <1>3
  <2>2. "Osxsave" \in Reported(cpu) => "Osxsave" \in real
    <3>1. "Osxsave" \notin Erratum(cpu)
      BY DEF Erratum
    <3> QED BY <1>6, <3>1
  <2> HIDE DEF state
  <2>3. IsXcr0StateEnabled(state, IF "Osxsave" \in Reported(cpu) THEN cpu.xcr0 ELSE {},
                           "Osxsave" \in Reported(cpu), cpu.isMacos)
    BY <2>1 DEF IsEnabled, state
  <2>4. CASE "Osxsave" \in Reported(cpu)
    BY <2>2, <2>3, <2>4 DEF IsXcr0StateEnabled, Saves, state
  <2>5. CASE "Osxsave" \notin Reported(cpu)
    BY <2>3, <2>5 DEF IsXcr0StateEnabled, state
  <2> QED BY <2>4, <2>5
<1>9. /\ "Avx10V1" \in F <=> "Avx10V1" \in Reported(cpu) /\ IsEnabled(cpu, "Avx10V1")
      /\ "Avx10V2" \in F <=> "Avx10V2" \in Reported(cpu) /\ IsEnabled(cpu, "Avx10V2")
      /\ IsEnabled(cpu, "Avx10V1") <=> IsEnabled(cpu, "Avx10V2")
  <2>1. "Avx10V1" \notin Erratum(cpu) /\ "Avx10V2" \notin Erratum(cpu)
    BY DEF Erratum
  <2>2. IsEnabled(cpu, "Avx10V1") <=> IsEnabled(cpu, "Avx10V2")
    BY VersionsAreAlike DEF IsEnabled
  <2> QED BY <1>2, <1>3, <2>1, <2>2, VersionsAreAlike
<1>10. /\ "Avx10V1" \in Reported(cpu) <=> Avx10IsListed(cpu) /\ number > 0
       /\ "Avx10V2" \in Reported(cpu) <=> Avx10IsListed(cpu) /\ number > 1
  BY <1>1 DEF ReportsAreTrue, number
<1>11. version >= 1 <=> "Avx10V1" \in F
  BY <1>4, <1>5, <1>9, <1>10
<1>12. version >= 2 <=> "Avx10V2" \in F
  BY <1>4, <1>5, <1>9, <1>10
<1> QED BY <1>7, <1>8, <1>11, <1>12 DEF IsDetectedTruly, F, version

-----------------------------------------------------------------------------
(* Orders and ranks.                                                       *)

\* before, a set of pairs, is a strict total order on S.
IsOrder(before, S) ==
  /\ \A x \in S : <<x, x>> \notin before
  /\ \A x, y, z \in S : <<x, y>> \in before /\ <<y, z>> \in before => <<x, z>> \in before
  /\ \A x, y \in S : x # y => <<x, y>> \in before \/ <<y, x>> \in before

\* The place of x in S, from 0.
Rank(before, S, x) == Cardinality({y \in S : <<y, x>> \in before})

\* Ranks are in the order of what they rank.
LEMMA RanksKeepOrder ==
  ASSUME NEW S, NEW before, IsFiniteSet(S), IsOrder(before, S), NEW x \in S, NEW y \in S
  PROVE  /\ Rank(before, S, x) \in 0..(Cardinality(S) - 1)
         /\ <<x, y>> \in before <=> Rank(before, S, x) < Rank(before, S, y)
         /\ Rank(before, S, x) = Rank(before, S, y) => x = y
<1> DEFINE Less(u) == {v \in S : <<v, u>> \in before}
<1>1. \A u \in S : /\ IsFiniteSet(Less(u)) /\ Cardinality(Less(u)) \in Nat
                   /\ Cardinality(Less(u)) < Cardinality(S)
  <2> TAKE u \in S
  <2>1. Less(u) \in SUBSET S /\ Less(u) # S
    BY DEF IsOrder
  <2> HIDE DEF Less
  <2>2. IsFiniteSet(Less(u)) /\ Cardinality(Less(u)) <= Cardinality(S)
        /\ (Cardinality(S) = Cardinality(Less(u)) => S = Less(u))
    BY <2>1, FS_Subset
  <2>3. Cardinality(Less(u)) \in Nat /\ Cardinality(S) \in Nat
    BY <2>2, FS_CardinalityType
  <2> QED BY <2>1, <2>2, <2>3
<1>2. \A u, v \in S : <<u, v>> \in before => Cardinality(Less(u)) < Cardinality(Less(v))
  <2> SUFFICES ASSUME NEW u \in S, NEW v \in S, <<u, v>> \in before
               PROVE  Cardinality(Less(u)) < Cardinality(Less(v))
    OBVIOUS
  <2>1. Less(u) \in SUBSET Less(v) /\ u \in Less(v) /\ u \notin Less(u)
    BY DEF IsOrder
  <2> HIDE DEF Less
  <2>2. Cardinality(Less(u)) <= Cardinality(Less(v))
        /\ (Cardinality(Less(v)) = Cardinality(Less(u)) => Less(v) = Less(u))
    BY <1>1, <2>1, FS_Subset
  <2> QED BY <1>1, <2>1, <2>2
<1>3. \A u \in S : Rank(before, S, u) = Cardinality(Less(u))
  BY DEF Rank
<1>4. Cardinality(S) \in Nat
  BY FS_CardinalityType
<1> HIDE DEF Less
<1>5. Rank(before, S, x) \in 0..(Cardinality(S) - 1)
  BY <1>1, <1>3, <1>4
<1>6. <<x, y>> \in before <=> Rank(before, S, x) < Rank(before, S, y)
  <2>1. x = y \/ <<x, y>> \in before \/ <<y, x>> \in before
    BY DEF IsOrder
  <2>2. CASE x = y
    BY <1>1, <1>3, <2>2 DEF IsOrder
  <2>3. CASE <<x, y>> \in before
    BY <1>2, <1>3, <2>3
  <2>4. CASE <<y, x>> \in before
    <3>1. Cardinality(Less(y)) < Cardinality(Less(x))
      BY <1>2, <2>4
    <3>2. <<x, y>> \notin before
      BY <2>4 DEF IsOrder
    <3> QED BY <1>1, <1>3, <3>1, <3>2
  <2> QED BY <2>1, <2>2, <2>3, <2>4
<1>7. Rank(before, S, x) = Rank(before, S, y) => x = y
  <2>1. x = y \/ <<x, y>> \in before \/ <<y, x>> \in before
    BY DEF IsOrder
  <2>2. <<x, y>> \in before => Cardinality(Less(x)) < Cardinality(Less(y))
    BY <1>2
  <2>3. <<y, x>> \in before => Cardinality(Less(y)) < Cardinality(Less(x))
    BY <1>2
  <2> QED BY <1>1, <1>3, <2>1, <2>2, <2>3
<1> QED BY <1>5, <1>6, <1>7

\* Each place below the number of elements is the rank of one.
RanksFill(before, S) ==
  \A n \in 0..(Cardinality(S) - 1) : \E x \in S : Rank(before, S, x) = n

\* Each place below the number of elements is the rank of one.
LEMMA RanksAreTaken ==
  ASSUME NEW S, NEW before, IsFiniteSet(S), IsOrder(before, S)
  PROVE  RanksFill(before, S)
<1> DEFINE T == 0..(Cardinality(S) - 1)
           rank == [x \in S |-> Rank(before, S, x)]
<1>1. Cardinality(S) \in Nat
  BY FS_CardinalityType
<1>2. IsFiniteSet(T) /\ Cardinality(T) = Cardinality(S)
  BY <1>1, FS_Interval
<1>3. rank \in Injection(S, T)
  <2>1. \A x \in S : rank[x] \in T
    BY RanksKeepOrder
  <2>2. \A x, y \in S : rank[x] = rank[y] => x = y
    BY RanksKeepOrder
  <2> HIDE DEF T
  <2> QED BY <2>1, <2>2 DEF Injection, IsInjective
<1>4. rank \in Surjection(S, T)
  <2> HIDE DEF T, rank
  <2> QED BY <1>2, <1>3, FS_Injection
<1>5. \A n \in T : \E x \in S : rank[x] = n
  <2> HIDE DEF T, rank
  <2> QED BY <1>4 DEF Surjection
<1> QED BY <1>5 DEF RanksFill

\* q lists S once, in order.
ListsInOrder(q, before, S) ==
  /\ \A i, j \in DOMAIN q : i < j <=> <<q[i], q[j]>> \in before
  /\ \A i, j \in DOMAIN q : q[i] = q[j] => i = j
  /\ \A x \in S : \E i \in DOMAIN q : q[i] = x

\* A sequence that has at each place the element of that rank is S in order.
LEMMA RankedIsSorted ==
  ASSUME NEW S, NEW before, IsFiniteSet(S), IsOrder(before, S), NEW q,
         DOMAIN q = 1..Cardinality(S),
         \A i \in DOMAIN q : q[i] \in S /\ Rank(before, S, q[i]) = i - 1
  PROVE  ListsInOrder(q, before, S)
<1>1. Cardinality(S) \in Nat
  BY FS_CardinalityType
<1>2. ASSUME NEW i \in DOMAIN q, NEW j \in DOMAIN q PROVE i < j <=> <<q[i], q[j]>> \in before
  <2>1. <<q[i], q[j]>> \in before <=> Rank(before, S, q[i]) < Rank(before, S, q[j])
    BY RanksKeepOrder
  <2>2. Rank(before, S, q[i]) = i - 1 /\ Rank(before, S, q[j]) = j - 1 /\ i \in Int /\ j \in Int
    BY <1>1
  <2> QED BY <2>1, <2>2
<1>3. ASSUME NEW i \in DOMAIN q, NEW j \in DOMAIN q, q[i] = q[j] PROVE i = j
  <2>1. i - 1 = j - 1 /\ i \in Int /\ j \in Int
    BY <1>1, <1>3
  <2> QED BY <2>1
<1>4. ASSUME NEW x \in S PROVE \E i \in DOMAIN q : q[i] = x
  <2>1. PICK n \in 0..(Cardinality(S) - 1) : Rank(before, S, x) = n
    BY RanksKeepOrder
  <2>2. n + 1 \in DOMAIN q /\ (n + 1) - 1 = n
    BY <1>1
  <2>3. Rank(before, S, q[n + 1]) = n /\ q[n + 1] \in S
    BY <2>2
  <2>4. q[n + 1] = x
    BY <2>1, <2>3, RanksKeepOrder
  <2> QED BY <2>2, <2>4
<1> QED BY <1>2, <1>3, <1>4 DEF ListsInOrder

\* The numbers in the order of their values.
Smaller == {p \in Int \X Int : p[1] < p[2]}

\* They are an order, and Below is the rank in it.
LEMMA BelowIsRank ==
  ASSUME NEW values \in SUBSET Int
  PROVE  /\ IsOrder(Smaller, values)
         /\ \A v \in values : Below(values, v) = Rank(Smaller, values, v)
<1>1. IsOrder(Smaller, values)
  <2>1. \A x, y \in values : <<x, y>> \in Smaller <=> x < y
    BY DEF Smaller
  <2> QED BY <2>1 DEF IsOrder
<1>2. ASSUME NEW v \in values PROVE Below(values, v) = Rank(Smaller, values, v)
  <2>1. {w \in values : w < v} = {w \in values : <<w, v>> \in Smaller}
    BY DEF Smaller
  <2> QED BY <2>1 DEF Below, Rank
<1> QED BY <1>1, <1>2

\* Numbers that are replaced by how many are below keep their order, and are numbered
\* from 0 without a gap.
LEMMA ScaledKeepOrder ==
  ASSUME NEW values \in SUBSET Int, IsFiniteSet(values)
  PROVE  /\ \A v \in values : Below(values, v) \in 0..(Cardinality(values) - 1)
         /\ \A v, w \in values : Below(values, v) = Below(values, w) => v = w
         /\ \A v, w \in values : v < w <=> Below(values, v) < Below(values, w)
         /\ \A n \in 0..(Cardinality(values) - 1) : \E v \in values : Below(values, v) = n
<1>1. IsOrder(Smaller, values) /\ \A v \in values : Below(values, v) = Rank(Smaller, values, v)
  BY BelowIsRank
<1>2. \A v, w \in values : v < w <=> <<v, w>> \in Smaller
  BY DEF Smaller
<1>3. \A v, w \in values :
        /\ Rank(Smaller, values, v) \in 0..(Cardinality(values) - 1)
        /\ <<v, w>> \in Smaller <=> Rank(Smaller, values, v) < Rank(Smaller, values, w)
        /\ Rank(Smaller, values, v) = Rank(Smaller, values, w) => v = w
  BY <1>1, RanksKeepOrder
<1>4. \A n \in 0..(Cardinality(values) - 1) : \E v \in values : Rank(Smaller, values, v) = n
  <2>1. RanksFill(Smaller, values)
    BY <1>1, RanksAreTaken
  <2> QED BY <2>1 DEF RanksFill
<1>5. \A v \in values : Below(values, v) \in 0..(Cardinality(values) - 1)
  BY <1>1, <1>3
<1>6. \A v, w \in values : Below(values, v) = Below(values, w) => v = w
  BY <1>1, <1>3
<1>7. ASSUME NEW v \in values, NEW w \in values
      PROVE  v < w <=> Below(values, v) < Below(values, w)
  <2>1. v < w <=> <<v, w>> \in Smaller
    BY <1>2, Zenon
  <2>2. <<v, w>> \in Smaller <=> Rank(Smaller, values, v) < Rank(Smaller, values, w)
    BY <1>3, Zenon
  <2>3. Below(values, v) = Rank(Smaller, values, v) /\ Below(values, w) = Rank(Smaller, values, w)
    BY <1>1, Zenon
  <2> QED BY <2>1, <2>2, <2>3, Zenon
<1>8. \A n \in 0..(Cardinality(values) - 1) : \E v \in values : Below(values, v) = n
  BY <1>1, <1>4
<1> QED BY <1>5, <1>6, <1>7, <1>8, Zenon

\* The values of a function on a finite set, of which there are as many as arguments if it
\* has no value twice.
LEMMA ImageIsFinite ==
  ASSUME NEW P, IsFiniteSet(P), NEW f, DOMAIN f = P, NEW T, T = {f[p] : p \in P}
  PROVE  /\ IsFiniteSet(T) /\ Cardinality(T) \in Nat /\ Cardinality(P) \in Nat
         /\ Cardinality(T) <= Cardinality(P)
         /\ (\A p, q \in P : f[p] = f[q] => p = q) => Cardinality(T) = Cardinality(P)
<1> DEFINE g == [p \in P |-> f[p]]
<1>1. g \in Surjection(P, T)
  BY DEF Surjection
<1>2. (\A p, q \in P : f[p] = f[q] => p = q) => g \in Injection(P, T)
  BY DEF Injection, IsInjective
<1> HIDE DEF g
<1> QED BY <1>1, <1>2, FS_Surjection, FS_CardinalityType

-----------------------------------------------------------------------------
(* The processors and what they are numbered by.                           *)

\* Processors as the OS lists them: of each core those have one class, and each is there once.
AreProcessors(P) ==
  /\ IsFiniteSet(P)
  /\ \A p \in P : /\ p.number \in Nat /\ p.class \in Nat
                  /\ \A type \in TopologyTypes : p.ids[type] \in Int
                  /\ p.ids["core"] \in Nat /\ p.ids["package"] \in Nat /\ p.ids["numaNode"] \in Nat
  /\ \A p, q \in P : p.ids["core"] = q.ids["core"] =>
                       p.class = q.class /\ (p.number = q.number => p = q)

\* The names of the caches are those of four kinds.
LEMMA KindsAreTypes ==
  /\ DOMAIN CacheKinds = 1..4
  /\ \A k \in DOMAIN CacheKinds : CacheKinds[k] \in TopologyTypes /\ CacheKinds[k] \in ToSet(CacheKinds)
  /\ \A k, l \in DOMAIN CacheKinds : CacheKinds[k] = CacheKinds[l] => k = l
  /\ ToSet(CacheKinds) = {"L1Data", "L1Instruction", "L2", "L3"}
  /\ TopologyTypes = {"core", "package", "numaNode", "L1Data", "L1Instruction", "L2", "L3"}
<1>1. DOMAIN CacheKinds = 1..4
  BY DEF CacheKinds
<1>2. 1..4 = {1, 2, 3, 4}
  OBVIOUS
<1>3. /\ CacheKinds[1] = "L1Data" /\ CacheKinds[2] = "L1Instruction"
      /\ CacheKinds[3] = "L2" /\ CacheKinds[4] = "L3"
  BY DEF CacheKinds
<1>4. ToSet(CacheKinds) = {CacheKinds[k] : k \in {1, 2, 3, 4}}
  BY <1>1, <1>2 DEF ToSet
<1>5. ToSet(CacheKinds) = {"L1Data", "L1Instruction", "L2", "L3"}
  BY <1>3, <1>4
<1>6. TopologyTypes = {"core", "package", "numaNode", "L1Data", "L1Instruction", "L2", "L3"}
  BY <1>5 DEF TopologyTypes
<1> HIDE DEF CacheKinds
<1> QED BY <1>1, <1>2, <1>3, <1>5, <1>6

\* The ids there are.
LEMMA IdsAreNumbers ==
  ASSUME NEW P, AreProcessors(P), NEW type \in TopologyTypes
  PROVE  /\ IdsOf(P, type) \in SUBSET Int /\ IsFiniteSet(IdsOf(P, type)) /\ NoId \notin IdsOf(P, type)
         /\ Cardinality(IdsOf(P, type)) \in Nat /\ Cardinality(P) \in Nat
         /\ Cardinality(IdsOf(P, type)) <= Cardinality(P)
<1> DEFINE f == [p \in P |-> p.ids[type]]
           T == {f[p] : p \in P}
<1>1. IsFiniteSet(P)
  BY DEF AreProcessors
<1>2. IsFiniteSet(T) /\ Cardinality(T) \in Nat /\ Cardinality(P) \in Nat /\ Cardinality(T) <= Cardinality(P)
  <2>1. DOMAIN f = P /\ T = {f[p] : p \in P}
    OBVIOUS
  <2> HIDE DEF f, T
  <2> QED BY <1>1, <2>1, ImageIsFinite
<1>3. T \in SUBSET Int /\ IdsOf(P, type) = T \ {NoId}
  BY DEF AreProcessors, IdsOf
<1> HIDE DEF T
<1>4. IdsOf(P, type) \in SUBSET T
  BY <1>3
<1>5. IsFiniteSet(IdsOf(P, type)) /\ Cardinality(IdsOf(P, type)) <= Cardinality(T)
      /\ Cardinality(IdsOf(P, type)) \in Nat
  BY <1>2, <1>4, FS_Subset, FS_CardinalityType
<1>6. NoId \notin IdsOf(P, type)
  BY DEF IdsOf
<1>7. IdsOf(P, type) \in SUBSET Int
  BY <1>3
<1>8. Cardinality(IdsOf(P, type)) <= Cardinality(P)
  BY <1>2, <1>5
<1> QED BY <1>2, <1>5, <1>6, <1>7, <1>8

\* The caches that are used: the place of the kind, and the id.
CachePairs(P) == UNION {{k} \X IdsOf(P, CacheKinds[k]) : k \in DOMAIN CacheKinds}

\* The order of the list of caches.
CachesBefore ==
  {c \in (Int \X Int) \X (Int \X Int) :
     c[1][1] < c[2][1] \/ (c[1][1] = c[2][1] /\ c[1][2] < c[2][2])}

\* They are finitely many pairs of numbers in an order.
LEMMA PairsAreOrdered ==
  ASSUME NEW P, AreProcessors(P)
  PROVE  /\ IsFiniteSet(CachePairs(P)) /\ CachePairs(P) \in SUBSET (Int \X Int)
         /\ IsOrder(CachesBefore, CachePairs(P))
         /\ \A k, id : <<k, id>> \in CachePairs(P) <=>
                         k \in DOMAIN CacheKinds /\ id \in IdsOf(P, CacheKinds[k])
<1> DEFINE Of(k) == {k} \X IdsOf(P, CacheKinds[k])
<1>1. DOMAIN CacheKinds = {1, 2, 3, 4}
  BY KindsAreTypes
<1>2. ASSUME NEW k \in {1, 2, 3, 4} PROVE IsFiniteSet(Of(k)) /\ Of(k) \in SUBSET (Int \X Int)
  <2>1. CacheKinds[k] \in TopologyTypes
    BY <1>1, KindsAreTypes
  <2>2. IsFiniteSet(IdsOf(P, CacheKinds[k])) /\ IdsOf(P, CacheKinds[k]) \in SUBSET Int
    BY <2>1, IdsAreNumbers
  <2>3. IsFiniteSet({k})
    BY FS_Singleton
  <2> QED BY <2>2, <2>3, FS_Product
<1>3. CachePairs(P) = ((Of(1) \union Of(2)) \union Of(3)) \union Of(4)
  BY <1>1 DEF CachePairs
<1>4. IsFiniteSet(CachePairs(P)) /\ CachePairs(P) \in SUBSET (Int \X Int)
  <2>1. /\ IsFiniteSet(Of(1)) /\ IsFiniteSet(Of(2)) /\ IsFiniteSet(Of(3)) /\ IsFiniteSet(Of(4))
        /\ \A k \in {1, 2, 3, 4} : Of(k) \in SUBSET (Int \X Int)
    BY <1>2
  <2> HIDE DEF Of
  <2>2. IsFiniteSet(Of(1) \union Of(2))
    BY <2>1, FS_Union
  <2>3. IsFiniteSet((Of(1) \union Of(2)) \union Of(3))
    BY <2>1, <2>2, FS_Union
  <2>4. IsFiniteSet(((Of(1) \union Of(2)) \union Of(3)) \union Of(4))
    BY <2>1, <2>3, FS_Union
  <2> QED BY <1>3, <2>1, <2>4
<1>5. IsOrder(CachesBefore, CachePairs(P))
  <2>1. \A c, d \in Int \X Int : <<c, d>> \in CachesBefore <=>
          c[1] < d[1] \/ (c[1] = d[1] /\ c[2] < d[2])
    BY DEF CachesBefore
  <2>2. \A c, d \in Int \X Int : c = d <=> c[1] = d[1] /\ c[2] = d[2]
    OBVIOUS
  <2>3. \A c \in Int \X Int : c[1] \in Int /\ c[2] \in Int
    OBVIOUS
  <2>4. \A x \in CachePairs(P) : x \in Int \X Int
    BY <1>4
  <2>5. ASSUME NEW x \in CachePairs(P), NEW y \in CachePairs(P), NEW z \in CachePairs(P)
        PROVE  /\ <<x, x>> \notin CachesBefore
               /\ <<x, y>> \in CachesBefore /\ <<y, z>> \in CachesBefore => <<x, z>> \in CachesBefore
               /\ x # y => <<x, y>> \in CachesBefore \/ <<y, x>> \in CachesBefore
    BY <2>1, <2>2, <2>3, <2>4
  <2> QED BY <2>5 DEF IsOrder
<1>6. \A k, id : <<k, id>> \in CachePairs(P) <=>
                   k \in DOMAIN CacheKinds /\ id \in IdsOf(P, CacheKinds[k])
  BY DEF CachePairs
<1> QED BY <1>4, <1>5, <1>6

\* The list has each cache that is used once.
IsCacheList(used, P) ==
  /\ used \in Seq(Int \X Int) /\ Len(used) = Cardinality(CachePairs(P))
  /\ DOMAIN used = 1..Len(used)
  /\ \A i \in DOMAIN used : used[i] \in CachePairs(P)
  /\ \A i, j \in DOMAIN used : used[i] = used[j] => i = j
  /\ \A c \in CachePairs(P) : \E i \in DOMAIN used : used[i] = c

\* sortAndScaleCacheIds lists each cache that is used once.
LEMMA UsedCachesAreListed ==
  ASSUME NEW P, AreProcessors(P)
  PROVE  IsCacheList(UsedCaches(P), P)
<1> DEFINE S == CachePairs(P)
           n == Cardinality(S)
           used == UsedCaches(P)
<1>1. IsFiniteSet(S) /\ S \in SUBSET (Int \X Int) /\ IsOrder(CachesBefore, S) /\ n \in Nat
  BY PairsAreOrdered, FS_CardinalityType
<1>2. used = [i \in 1..n |-> CHOOSE x \in S :
                Cardinality({y \in S : y[1] < x[1] \/ (y[1] = x[1] /\ y[2] < x[2])}) = i - 1]
  BY DEF UsedCaches, InOrder, CachePairs
<1>3. \A x \in S : {y \in S : y[1] < x[1] \/ (y[1] = x[1] /\ y[2] < x[2])}
                     = {y \in S : <<y, x>> \in CachesBefore}
  BY <1>1 DEF CachesBefore
<1>4. ASSUME NEW i \in 1..n PROVE used[i] \in S /\ Rank(CachesBefore, S, used[i]) = i - 1
  <2>1. i - 1 \in 0..(n - 1)
    BY <1>1
  <2>2. \E x \in S : Rank(CachesBefore, S, x) = i - 1
    BY <1>1, <2>1, RanksAreTaken DEF RanksFill
  <2>3. \E x \in S : Cardinality({y \in S : y[1] < x[1] \/ (y[1] = x[1] /\ y[2] < x[2])}) = i - 1
    BY <1>3, <2>2 DEF Rank
  <2>4. used[i] \in S /\ Cardinality({y \in S : y[1] < used[i][1] \/ (y[1] = used[i][1] /\ y[2] < used[i][2])}) = i - 1
    BY <1>2, <2>3
  <2> QED BY <1>3, <2>4 DEF Rank
<1>5. DOMAIN used = 1..n
  BY <1>2
<1> HIDE DEF n, used
<1>6. \A i \in DOMAIN used : used[i] \in S /\ Rank(CachesBefore, S, used[i]) = i - 1
  BY <1>4, <1>5
<1>7. /\ \A i, j \in DOMAIN used : used[i] = used[j] => i = j
      /\ \A x \in S : \E i \in DOMAIN used : used[i] = x
  <2>1. DOMAIN used = 1..Cardinality(S)
    BY <1>5 DEF n
  <2> HIDE DEF S
  <2>2. ListsInOrder(used, CachesBefore, S)
    BY <1>1, <1>6, <2>1, RankedIsSorted
  <2> QED BY <2>2 DEF ListsInOrder
<1>8. used \in Seq(Int \X Int) /\ Len(used) = n
  <2>1. used \in [1..n -> Int \X Int]
    <3>1. \A i \in 1..n : used[i] \in Int \X Int
      BY <1>1, <1>4
    <3>2. used = [i \in 1..n |-> used[i]]
      BY <1>2 DEF used
    <3> QED BY <3>1, <3>2
  <2> QED BY <1>1, <2>1, SeqDef, LenProperties
<1> QED BY <1>4, <1>5, <1>7, <1>8 DEF IsCacheList, n, used

-----------------------------------------------------------------------------
(* The list of processors.                                                 *)

\* Cores, packages and nodes are numbered from 0, by what the OS calls them.
LEMMA ScaledIdsAreRanks ==
  ASSUME NEW P, AreProcessors(P), NEW type \in {"core", "package", "numaNode"}
  PROVE  /\ \A p \in P : ScaledId(P, type, p) \in 0..(Cardinality(IdsOf(P, type)) - 1)
         /\ \A p, q \in P : ScaledId(P, type, p) = ScaledId(P, type, q) <=> p.ids[type] = q.ids[type]
<1>1. type \in TopologyTypes
  BY KindsAreTypes
<1>2. IdsOf(P, type) \in SUBSET Int /\ IsFiniteSet(IdsOf(P, type))
  BY <1>1, IdsAreNumbers
<1>3. ASSUME NEW p \in P PROVE p.ids[type] \in IdsOf(P, type)
  <2>1. p.ids[type] \in Nat
    BY DEF AreProcessors
  <2> QED BY <2>1 DEF IdsOf, NoId
<1>4. /\ \A v \in IdsOf(P, type) : Below(IdsOf(P, type), v) \in 0..(Cardinality(IdsOf(P, type)) - 1)
      /\ \A v, w \in IdsOf(P, type) : Below(IdsOf(P, type), v) = Below(IdsOf(P, type), w) => v = w
  BY <1>2, ScaledKeepOrder
<1> QED BY <1>3, <1>4 DEF ScaledId

\* Classes are numbered from 0, or all 0 if they are too many.
LEMMA ClassesAreRanks ==
  ASSUME NEW P, AreProcessors(P), P # {}
  PROVE  /\ EfficiencyClassCount(P) \in Nat
         /\ \A p \in P : ScaledClass(P, p) \in 0..(AtLeastOne(EfficiencyClassCount(P)) - 1)
         /\ \A p, q \in P : p.class = q.class => ScaledClass(P, p) = ScaledClass(P, q)
         /\ EfficiencyClassCount(P) # 0 =>
              \A n \in 0..(EfficiencyClassCount(P) - 1) : \E p \in P : ScaledClass(P, p) = n
<1> DEFINE C == {q.class : q \in P}
           f == [q \in P |-> q.class]
           c == Cardinality(C)
<1>1. C \in SUBSET Int /\ IsFiniteSet(C) /\ c \in Nat /\ C # {}
  <2>1. DOMAIN f = P /\ C = {f[q] : q \in P}
    OBVIOUS
  <2>2. IsFiniteSet(P) /\ C \in SUBSET Int /\ C # {}
    BY DEF AreProcessors
  <2> HIDE DEF f, C
  <2> QED BY <2>1, <2>2, ImageIsFinite
<1>2. c > 0
  <2> HIDE DEF C
  <2> QED BY <1>1, FS_EmptySet
<1>3. /\ \A v \in C : Below(C, v) \in 0..(c - 1)
      /\ \A n \in 0..(c - 1) : \E v \in C : Below(C, v) = n
  <2> HIDE DEF C
  <2> QED BY <1>1, ScaledKeepOrder
<1>4. /\ EfficiencyClassCount(P) = IF c > EfficiencyClassLimit THEN 0 ELSE c
      /\ \A p \in P : ScaledClass(P, p) = IF c > EfficiencyClassLimit THEN 0 ELSE Below(C, p.class)
  BY DEF EfficiencyClassCount, ScaledClass
<1>5. \A p \in P : p.class \in C
  OBVIOUS
<1>6. \A v \in C : \E p \in P : p.class = v
  OBVIOUS
<1> HIDE DEF C, c
<1>7. CASE c > EfficiencyClassLimit
  <2>1. EfficiencyClassCount(P) = 0 /\ \A p \in P : ScaledClass(P, p) = 0
    BY <1>4, <1>7
  <2> QED BY <2>1 DEF AtLeastOne
<1>8. CASE ~(c > EfficiencyClassLimit)
  <2>1. EfficiencyClassCount(P) = c /\ \A p \in P : ScaledClass(P, p) = Below(C, p.class)
    BY <1>4, <1>8
  <2>2. AtLeastOne(c) = c
    BY <1>1, <1>2 DEF AtLeastOne
  <2>3. \A n \in 0..(c - 1) : \E p \in P : ScaledClass(P, p) = n
    BY <1>3, <1>6, <2>1
  <2> QED BY <1>1, <1>3, <1>5, <2>1, <2>2, <2>3
<1> QED BY <1>7, <1>8

\* What the list says of a processor.
FilledProcessor(P, kept, p) ==
  [processorNumber |-> p.number, core |-> ScaledId(P, "core", p),
   package |-> ScaledId(P, "package", p), numaNode |-> ScaledId(P, "numaNode", p),
   cacheIndices |-> CacheIndices(P, kept)[p], efficiencyClass |-> ScaledClass(P, p)]

\* The order of the list.
ComesBefore(p, q) ==
  \/ p.efficiencyClass < q.efficiencyClass
  \/ /\ p.efficiencyClass = q.efficiencyClass
     /\ \/ p.core < q.core
        \/ p.core = q.core /\ p.processorNumber < q.processorNumber

\* list has each processor once, in that order.
IsProcessorList(list, P, kept) ==
  /\ DOMAIN list = 1..Cardinality(P) /\ Len(list) = Cardinality(P) /\ Cardinality(P) \in Nat
  /\ \A i \in DOMAIN list : \E p \in P : list[i] = FilledProcessor(P, kept, p)
  /\ \A p \in P : \E i \in DOMAIN list : list[i] = FilledProcessor(P, kept, p)
  /\ \A p, q \in P : FilledProcessor(P, kept, p) = FilledProcessor(P, kept, q) => p = q
  /\ \A i, j \in DOMAIN list : i < j => ComesBefore(list[i], list[j])

\* No two entries of the list are of the same core and number.
LEMMA EntriesDiffer ==
  ASSUME NEW P, AreProcessors(P), NEW kept, NEW p \in P, NEW q \in P,
         ScaledId(P, "core", p) = ScaledId(P, "core", q), p.number = q.number
  PROVE  p = q
<1>1. p.ids["core"] = q.ids["core"]
  BY ScaledIdsAreRanks
<1> QED BY <1>1 DEF AreProcessors

\* fillLogicalProcessors makes such a list.
LEMMA ProcessorsAreListed ==
  ASSUME NEW P, AreProcessors(P), P # {}, NEW kept
  PROVE  IsProcessorList(FillLogicalProcessors(P, kept), P, kept)
<1> DEFINE F(p) == FilledProcessor(P, kept, p)
           f == [p \in P |-> F(p)]
           S == {F(p) : p \in P}
           n == Cardinality(S)
           list == FillLogicalProcessors(P, kept)
           before == {c \in S \X S : ComesBefore(c[1], c[2])}
<1>1. \A p \in P : /\ F(p).processorNumber = p.number /\ F(p).core = ScaledId(P, "core", p)
                   /\ F(p).efficiencyClass = ScaledClass(P, p)
  BY DEF FilledProcessor
<1>2. \A p, q \in P : F(p) = F(q) => p = q
  <2> HIDE DEF F
  <2> QED BY <1>1, EntriesDiffer
<1>3. IsFiniteSet(P)
  BY DEF AreProcessors
<1>4. IsFiniteSet(S) /\ n = Cardinality(P) /\ n \in Nat
  <2>1. DOMAIN f = P /\ S = {f[p] : p \in P} /\ \A p, q \in P : f[p] = f[q] => p = q
    BY <1>2
  <2> HIDE DEF f, S
  <2> QED BY <1>3, <2>1, ImageIsFinite
<1>5. \A p \in P : /\ p.number \in Int /\ ScaledId(P, "core", p) \in Int /\ ScaledClass(P, p) \in Int
  <2> TAKE p \in P
  <2>1. p.number \in Int
    BY DEF AreProcessors
  <2>2. ScaledId(P, "core", p) \in 0..(Cardinality(IdsOf(P, "core")) - 1)
    BY ScaledIdsAreRanks
  <2>3. ScaledClass(P, p) \in 0..(AtLeastOne(EfficiencyClassCount(P)) - 1)
    BY ClassesAreRanks
  <2> QED BY <2>1, <2>2, <2>3
<1>6. \A x \in S : x.processorNumber \in Int /\ x.core \in Int /\ x.efficiencyClass \in Int
  BY <1>1, <1>5
<1>7. \A x, y \in S : x.core = y.core /\ x.processorNumber = y.processorNumber => x = y
  <2> SUFFICES ASSUME NEW p \in P, NEW q \in P, F(p).core = F(q).core,
                      F(p).processorNumber = F(q).processorNumber
               PROVE  F(p) = F(q)
    OBVIOUS
  <2> HIDE DEF F
  <2> QED BY <1>1, EntriesDiffer
<1>8. \A x, y \in S : <<x, y>> \in before <=> ComesBefore(x, y)
  OBVIOUS
<1>9. IsOrder(before, S)
  <2> HIDE DEF before, S
  <2>1. ASSUME NEW x \in S, NEW y \in S, NEW z \in S
        PROVE  /\ <<x, x>> \notin before
               /\ <<x, y>> \in before /\ <<y, z>> \in before => <<x, z>> \in before
               /\ x # y => <<x, y>> \in before \/ <<y, x>> \in before
    BY <1>6, <1>7, <1>8 DEF ComesBefore
  <2> QED BY <2>1 DEF IsOrder
<1>10. list = [i \in 1..n |-> CHOOSE x \in S : Cardinality({y \in S : ComesBefore(y, x)}) = i - 1]
  BY DEF FillLogicalProcessors, FilledProcessor, InOrder, ComesBefore
<1>11. \A x \in S : {y \in S : ComesBefore(y, x)} = {y \in S : <<y, x>> \in before}
  BY <1>8
<1>12. \A x \in S : \E p \in P : x = F(p)
  OBVIOUS
<1>13. \A p \in P : F(p) \in S
  OBVIOUS
<1> HIDE DEF S, F, before
<1>14. ASSUME NEW i \in 1..n PROVE list[i] \in S /\ Rank(before, S, list[i]) = i - 1
  <2>1. i - 1 \in 0..(n - 1)
    BY <1>4
  <2>2. \E x \in S : Rank(before, S, x) = i - 1
    BY <1>4, <1>9, <2>1, RanksAreTaken DEF RanksFill
  <2>3. \E x \in S : Cardinality({y \in S : ComesBefore(y, x)}) = i - 1
    BY <1>11, <2>2 DEF Rank
  <2>4. list[i] \in S /\ Cardinality({y \in S : ComesBefore(y, list[i])}) = i - 1
    BY <1>10, <2>3
  <2> QED BY <1>11, <2>4 DEF Rank
<1>15. DOMAIN list = 1..n /\ Len(list) = n
  <2>1. list \in [1..n -> S]
    <3>1. list = [i \in 1..n |-> list[i]]
      BY <1>10 DEF list
    <3> QED BY <1>14, <3>1
  <2> QED BY <1>4, <2>1, SeqDef, LenProperties
<1> HIDE DEF list
<1>16. ListsInOrder(list, before, S)
  <2>1. DOMAIN list = 1..Cardinality(S) /\ \A i \in DOMAIN list : list[i] \in S /\ Rank(before, S, list[i]) = i - 1
    BY <1>14, <1>15
  <2> QED BY <1>4, <1>9, <2>1, RankedIsSorted
<1>17. \A i, j \in DOMAIN list : i < j => ComesBefore(list[i], list[j])
  BY <1>8, <1>14, <1>15, <1>16 DEF ListsInOrder
<1>18. /\ \A i \in DOMAIN list : \E p \in P : list[i] = F(p)
       /\ \A p \in P : \E i \in DOMAIN list : list[i] = F(p)
  BY <1>12, <1>13, <1>14, <1>15, <1>16 DEF ListsInOrder
<1> QED BY <1>2, <1>4, <1>15, <1>17, <1>18 DEF IsProcessorList, F, list

-----------------------------------------------------------------------------
(* A topology that is built of processors P, with the list of caches if it *)
(* is kept.                                                                *)

IsBuilt(t, P, kept) ==
  /\ AreProcessors(P) /\ P # {}
  /\ t.processors = FillLogicalProcessors(P, kept)
  /\ \E caches : t.caches = IF kept THEN ListedCaches(P, caches) ELSE <<>>
  /\ kept => Len(UsedCaches(P)) <= InvalidCacheIndex
  /\ t.logicalProcessorCount = Cardinality(P)
  /\ t.physicalCoreCount = Cardinality(IdsOf(P, "core"))
  /\ t.packageCount = Cardinality(IdsOf(P, "package"))
  /\ t.numaNodeCount = Cardinality(IdsOf(P, "numaNode"))
  /\ t.efficiencyClassCount = EfficiencyClassCount(P)
  /\ t.efficiencyCoreCount = IF EfficiencyClassCount(P) = 0 THEN 0 ELSE EfficiencyCoreCount(P)
  /\ t.performanceCoreCount = IF EfficiencyClassCount(P) = 0 THEN 0
                              ELSE t.physicalCoreCount - t.efficiencyCoreCount

\* The place of a cache in the list is where it is.
LEMMA CachesHaveTheirPlace ==
  ASSUME NEW P, AreProcessors(P), NEW c \in CachePairs(P)
  PROVE  /\ PlaceOf(P, c[1], c[2]) \in 0..(Len(UsedCaches(P)) - 1)
         /\ UsedCaches(P)[PlaceOf(P, c[1], c[2]) + 1] = c
<1> DEFINE used == UsedCaches(P)
           i == CHOOSE i \in DOMAIN used : used[i] = <<c[1], c[2]>>
<1>1. IsCacheList(used, P)
  BY UsedCachesAreListed
<1>2. c = <<c[1], c[2]>>
  BY PairsAreOrdered
<1>3. PlaceOf(P, c[1], c[2]) = i - 1
  BY DEF PlaceOf
<1> HIDE DEF used
<1>4. i \in DOMAIN used /\ used[i] = c
  BY <1>1, <1>2 DEF IsCacheList
<1>5. DOMAIN used = 1..Len(used) /\ Len(used) \in Nat
  BY <1>1, LenProperties DEF IsCacheList
<1> HIDE DEF i
<1>6. i - 1 \in 0..(Len(used) - 1) /\ (i - 1) + 1 = i
  BY <1>4, <1>5
<1> QED BY <1>3, <1>4, <1>6 DEF used

\* What an entry's cache indices mean.
IndicesMeanCaches(t, P, kept, p, k) ==
  LET index == FilledProcessor(P, kept, p).cacheIndices[k]
      id == p.ids[CacheKinds[k]]
  IN /\ index = InvalidCacheIndex <=> ~kept \/ id = NoId
     /\ index # InvalidCacheIndex =>
          /\ index \in 0..(Len(t.caches) - 1)
          /\ t.caches[index + 1].kind = CacheKinds[k]
          /\ <<k, id>> \in CachePairs(P) /\ UsedCaches(P)[index + 1] = <<k, id>>

\* What the list of caches says: of each its kind and how many processors use it.
ListMeansCaches(t, P, kept) ==
  IF ~kept THEN t.caches = <<>>
  ELSE /\ DOMAIN t.caches = DOMAIN UsedCaches(P) /\ Len(t.caches) = Len(UsedCaches(P))
       /\ \A c \in DOMAIN UsedCaches(P) :
            /\ t.caches[c].kind = CacheKinds[UsedCaches(P)[c][1]]
            /\ t.caches[c].sharingLogicalProcessorCount =
                 Cardinality({p \in P : p.ids[CacheKinds[UsedCaches(P)[c][1]]] = UsedCaches(P)[c][2]})

\* The list of caches of a topology that is built says so.
LEMMA ListOfCaches ==
  ASSUME NEW t, NEW P, NEW kept, IsBuilt(t, P, kept)
  PROVE  ListMeansCaches(t, P, kept)
<1>1. CASE ~kept
  BY <1>1 DEF IsBuilt, ListMeansCaches
<1>2. CASE kept
  <2>1. PICK caches : t.caches = ListedCaches(P, caches)
    BY <1>2 DEF IsBuilt
  <2>2. IsCacheList(UsedCaches(P), P)
    BY UsedCachesAreListed DEF IsBuilt
  <2>3. DOMAIN UsedCaches(P) = 1..Len(UsedCaches(P)) /\ Len(UsedCaches(P)) \in Nat
    BY <2>2, LenProperties DEF IsCacheList
  <2> DEFINE used == UsedCaches(P)
  <2>4. t.caches = [i \in DOMAIN used |->
           [kind |-> CacheKinds[used[i][1]],
            sizeBytes |-> (CHOOSE c \in RawCachesOf(caches, used[i]) : TRUE).sizeBytes,
            sharingLogicalProcessorCount |->
              Cardinality({p \in P : p.ids[CacheKinds[used[i][1]]] = used[i][2]})]]
    BY <2>1 DEF ListedCaches
  <2> HIDE DEF used
  <2>5. DOMAIN t.caches = DOMAIN used
    BY <2>4
  <2>6. Len(t.caches) = Len(used)
    <3>1. t.caches \in [1..Len(used) -> {t.caches[i] : i \in 1..Len(used)}]
      <4>1. t.caches = [i \in 1..Len(used) |-> t.caches[i]]
        BY <2>3, <2>4 DEF used
      <4> QED BY <4>1
    <3> HIDE DEF IsBuilt
    <3> QED BY <2>3, <3>1, SeqDef, LenProperties DEF used
  <2> QED BY <1>2, <2>4, <2>5, <2>6 DEF used, ListMeansCaches
<1> QED BY <1>1, <1>2

\* An index is that of the processor's cache of the kind, or of none.
LEMMA IndicesAreOfCaches ==
  ASSUME NEW t, NEW P, NEW kept, IsBuilt(t, P, kept), NEW p \in P, NEW k \in DOMAIN CacheKinds
  PROVE  IndicesMeanCaches(t, P, kept, p, k)
<1> DEFINE index == FilledProcessor(P, kept, p).cacheIndices[k]
           id == p.ids[CacheKinds[k]]
<1>1. index = IF ~kept \/ id = NoId THEN InvalidCacheIndex ELSE PlaceOf(P, k, id)
  BY DEF FilledProcessor, CacheIndices
<1>2. CASE ~kept \/ id = NoId
  BY <1>1, <1>2 DEF IndicesMeanCaches
<1>3. CASE kept /\ id # NoId
  <2>1. AreProcessors(P)
    BY DEF IsBuilt
  <2>2. id \in IdsOf(P, CacheKinds[k])
    BY <1>3 DEF IdsOf
  <2>3. <<k, id>> \in CachePairs(P)
    BY <2>1, <2>2, PairsAreOrdered
  <2>4. PlaceOf(P, k, id) \in 0..(Len(UsedCaches(P)) - 1) /\ UsedCaches(P)[PlaceOf(P, k, id) + 1] = <<k, id>>
    <3>1. <<k, id>>[1] = k /\ <<k, id>>[2] = id
      OBVIOUS
    <3> HIDE DEF id
    <3> QED BY <2>1, <2>3, <3>1, CachesHaveTheirPlace
  <2>5. Len(UsedCaches(P)) <= InvalidCacheIndex /\ Len(UsedCaches(P)) \in Nat /\ InvalidCacheIndex \in Nat
    <3>1. IsCacheList(UsedCaches(P), P)
      BY <2>1, UsedCachesAreListed
    <3> QED BY <1>3, <3>1, LenProperties, TopologyLimits DEF IsBuilt, IsCacheList
  <2>6. index = PlaceOf(P, k, id)
    BY <1>1, <1>3
  <2>7. index \in 0..(Len(UsedCaches(P)) - 1) /\ UsedCaches(P)[index + 1] = <<k, id>>
    BY <2>4, <2>6
  <2> HIDE DEF index, id
  <2>8. index # InvalidCacheIndex
    BY <2>5, <2>7
  <2>9. index + 1 \in DOMAIN UsedCaches(P)
    <3>1. DOMAIN UsedCaches(P) = 1..Len(UsedCaches(P))
      BY <2>1, UsedCachesAreListed DEF IsCacheList
    <3> QED BY <2>5, <2>7, <3>1
  <2>10. t.caches[index + 1].kind = CacheKinds[k] /\ Len(t.caches) = Len(UsedCaches(P))
    <3>1. /\ Len(t.caches) = Len(UsedCaches(P))
          /\ \A c \in DOMAIN UsedCaches(P) : t.caches[c].kind = CacheKinds[UsedCaches(P)[c][1]]
      <4>1. ListMeansCaches(t, P, kept)
        BY ListOfCaches
      <4> QED BY <1>3, <4>1 DEF ListMeansCaches
    <3> QED BY <2>7, <2>9, <3>1
  <2>11. index = InvalidCacheIndex <=> ~kept \/ id = NoId
    BY <1>3, <2>8
  <2> QED BY <2>3, <2>7, <2>8, <2>10, <2>11 DEF IndicesMeanCaches, index, id
<1> QED BY <1>2, <1>3

\* The entries of the list are the processors.
LEMMA EntriesAreProcessors ==
  ASSUME NEW t, NEW P, NEW kept, IsBuilt(t, P, kept)
  PROVE  /\ IsProcessorList(t.processors, P, kept)
         /\ ToSet(t.processors) = {FilledProcessor(P, kept, p) : p \in P}
<1>1. IsProcessorList(t.processors, P, kept)
  <2>1. IsProcessorList(FillLogicalProcessors(P, kept), P, kept)
    BY ProcessorsAreListed DEF IsBuilt
  <2> QED BY <2>1 DEF IsBuilt
<1> DEFINE list == t.processors
           F(p) == FilledProcessor(P, kept, p)
<1>2. /\ \A i \in DOMAIN list : \E p \in P : list[i] = F(p)
      /\ \A p \in P : \E i \in DOMAIN list : list[i] = F(p)
  BY <1>1 DEF IsProcessorList
<1>3. ToSet(list) = {list[i] : i \in DOMAIN list}
  BY DEF ToSet
<1> HIDE DEF list, F
<1>4. {list[i] : i \in DOMAIN list} = {F(p) : p \in P}
  BY <1>2
<1> QED BY <1>1, <1>3, <1>4 DEF list, F

\* An entry has the index of a listed cache among its own just if its processor uses it.
TellsUse(P, kept, p, c) ==
  (\E k \in DOMAIN CacheKinds : FilledProcessor(P, kept, p).cacheIndices[k] = c - 1)
    <=> p.ids[CacheKinds[UsedCaches(P)[c][1]]] = UsedCaches(P)[c][2]

\* Of each entry and each cache in the list.
LEMMA IndexTellsUse ==
  ASSUME NEW t, NEW P, NEW kept, IsBuilt(t, P, kept), kept, NEW c \in DOMAIN UsedCaches(P), NEW p \in P
  PROVE  TellsUse(P, kept, p, c)
<1> DEFINE used == UsedCaches(P)
           index(k) == FilledProcessor(P, kept, p).cacheIndices[k]
           id(k) == p.ids[CacheKinds[k]]
<1>1. IsCacheList(used, P)
  BY UsedCachesAreListed DEF IsBuilt
<1>2. used[c] \in CachePairs(P) /\ c \in 1..Len(used) /\ Len(used) \in Nat
  BY <1>1, LenProperties DEF IsCacheList
<1>3. PICK l, v : used[c] = <<l, v>> /\ l \in DOMAIN CacheKinds /\ v \in IdsOf(P, CacheKinds[l])
  BY <1>2 DEF CachePairs
<1>4. used[c][1] = l /\ used[c][2] = v
  BY <1>3
<1>5. v # NoId
  BY <1>3 DEF IdsOf
<1>6. c - 1 # InvalidCacheIndex /\ c \in Nat
  BY <1>2, TopologyLimits DEF IsBuilt
<1>7. ASSUME NEW k \in DOMAIN CacheKinds
      PROVE  /\ index(k) = InvalidCacheIndex <=> id(k) = NoId
             /\ index(k) # InvalidCacheIndex =>
                  index(k) \in 0..(Len(t.caches) - 1) /\ used[index(k) + 1] = <<k, id(k)>>
  <2>1. IndicesMeanCaches(t, P, kept, p, k)
    BY IndicesAreOfCaches
  <2> QED BY <2>1 DEF IndicesMeanCaches
<1>8. Len(t.caches) = Len(used)
  <2>1. ListMeansCaches(t, P, kept)
    BY ListOfCaches
  <2> QED BY <2>1 DEF ListMeansCaches
<1>9. \A i, j \in 1..Len(used) : used[i] = used[j] => i = j
  BY <1>1 DEF IsCacheList
<1> HIDE DEF index, id, used
<1>10. ASSUME NEW k \in DOMAIN CacheKinds, index(k) = c - 1 PROVE id(l) = v
  <2>1. index(k) + 1 = c
    BY <1>2, <1>10
  <2>2. used[c] = <<k, id(k)>>
    BY <1>6, <1>7, <1>10, <2>1
  <2> QED BY <1>3, <2>2
<1>11. ASSUME id(l) = v PROVE index(l) = c - 1
  <2>1. index(l) \in 0..(Len(used) - 1) /\ used[index(l) + 1] = used[c]
    BY <1>3, <1>5, <1>7, <1>8, <1>11
  <2>2. index(l) + 1 \in 1..Len(used)
    BY <1>2, <2>1
  <2>3. index(l) + 1 = c
    BY <1>2, <1>9, <2>1, <2>2
  <2> QED BY <1>2, <2>1, <2>3
<1>12. (\E k \in DOMAIN CacheKinds : index(k) = c - 1) <=> id(l) = v
  BY <1>3, <1>10, <1>11
<1> QED BY <1>4, <1>12 DEF index, id, used, TellsUse

\* How many processors share a cache is how many entries have its index.
SharingIsCounted(t) ==
  \A c \in DOMAIN t.caches :
    t.caches[c].sharingLogicalProcessorCount =
      Cardinality({p \in ToSet(t.processors) : \E k \in DOMAIN CacheKinds : p.cacheIndices[k] = c - 1})

\* It is, as each entry is another processor.
LEMMA SharingCounts ==
  ASSUME NEW t, NEW P, NEW kept, IsBuilt(t, P, kept)
  PROVE  SharingIsCounted(t)
<1>1. ListMeansCaches(t, P, kept)
  BY ListOfCaches
<1>2. CASE ~kept
  <2>1. DOMAIN t.caches = {}
    BY <1>1, <1>2 DEF ListMeansCaches
  <2> QED BY <2>1 DEF SharingIsCounted
<1>3. CASE kept
  <2> SUFFICES ASSUME NEW c \in DOMAIN t.caches
               PROVE  t.caches[c].sharingLogicalProcessorCount =
                        Cardinality({x \in ToSet(t.processors) :
                                       \E k \in DOMAIN CacheKinds : x.cacheIndices[k] = c - 1})
    BY DEF SharingIsCounted
  <2> DEFINE Q == {p \in P : p.ids[CacheKinds[UsedCaches(P)[c][1]]] = UsedCaches(P)[c][2]}
             F(p) == FilledProcessor(P, kept, p)
             Has(x) == \E k \in DOMAIN CacheKinds : x.cacheIndices[k] = c - 1
             T == {x \in ToSet(t.processors) : Has(x)}
             f == [p \in Q |-> F(p)]
  <2>1. c \in DOMAIN UsedCaches(P) /\ t.caches[c].sharingLogicalProcessorCount = Cardinality(Q)
    BY <1>1, <1>3 DEF ListMeansCaches
  <2>2. IsFiniteSet(P) /\ Q \in SUBSET P
    BY DEF IsBuilt, AreProcessors
  <2>3. \A p \in P : Has(F(p)) <=> p \in Q
    <3> TAKE p \in P
    <3>1. TellsUse(P, kept, p, c)
      BY <1>3, <2>1, IndexTellsUse
    <3> QED BY <3>1 DEF TellsUse
  <2>4. ToSet(t.processors) = {F(p) : p \in P}
    BY EntriesAreProcessors
  <2>5. \A p, q \in P : F(p) = F(q) => p = q
    BY EntriesAreProcessors DEF IsProcessorList
  <2> HIDE DEF Has, F, Q
  <2>6. T = {f[p] : p \in Q}
    BY <2>2, <2>3, <2>4
  <2>7. DOMAIN f = Q /\ \A p, q \in Q : f[p] = f[q] => p = q
    BY <2>2, <2>5
  <2>8. IsFiniteSet(Q)
    BY <2>2, FS_Subset
  <2> HIDE DEF f, T
  <2>9. Cardinality(T) = Cardinality(Q)
    BY <2>6, <2>7, <2>8, ImageIsFinite
  <2> QED BY <2>1, <2>9 DEF T, Has
<1> QED BY <1>2, <1>3

-----------------------------------------------------------------------------
(* A topology that is built agrees with itself.                            *)

\* The processors are in order, and their numbers are below the counts.
LEMMA BuiltProcessorsAgree ==
  ASSUME NEW P, NEW kept, IsBuilt(topology, P, kept)
  PROVE  ProcessorsAgree
<1> DEFINE list == topology.processors
           F(p) == FilledProcessor(P, kept, p)
<1>1. AreProcessors(P) /\ P # {} /\ IsProcessorList(list, P, kept) /\ ToSet(list) = {F(p) : p \in P}
  <2>1. AreProcessors(P) /\ P # {}
    BY DEF IsBuilt
  <2>2. IsProcessorList(topology.processors, P, kept)
        /\ ToSet(topology.processors) = {FilledProcessor(P, kept, p) : p \in P}
    BY EntriesAreProcessors
  <2> QED BY <2>1, <2>2
<1>2. \A p \in P : /\ F(p).processorNumber = p.number /\ F(p).core = ScaledId(P, "core", p)
                   /\ F(p).package = ScaledId(P, "package", p) /\ F(p).numaNode = ScaledId(P, "numaNode", p)
                   /\ F(p).efficiencyClass = ScaledClass(P, p)
  BY DEF FilledProcessor
<1>3. ASSUME NEW p \in P
      PROVE  /\ F(p).processorNumber \in Nat /\ F(p).core \in Nat /\ F(p).efficiencyClass \in Nat
             /\ F(p).core < topology.physicalCoreCount
             /\ F(p).package < topology.packageCount /\ F(p).numaNode < topology.numaNodeCount
             /\ F(p).efficiencyClass < AtLeastOne(topology.efficiencyClassCount)
  <2>1. p.number \in Nat
    BY <1>1 DEF AreProcessors
  <2>2. \A type \in {"core", "package", "numaNode"} :
          /\ ScaledId(P, type, p) \in 0..(Cardinality(IdsOf(P, type)) - 1)
          /\ Cardinality(IdsOf(P, type)) \in Nat
    BY <1>1, ScaledIdsAreRanks, IdsAreNumbers, KindsAreTypes
  <2>3. /\ ScaledClass(P, p) \in 0..(AtLeastOne(EfficiencyClassCount(P)) - 1)
        /\ AtLeastOne(EfficiencyClassCount(P)) \in Nat
    BY <1>1, ClassesAreRanks DEF AtLeastOne
  <2>4. /\ topology.physicalCoreCount = Cardinality(IdsOf(P, "core"))
        /\ topology.packageCount = Cardinality(IdsOf(P, "package"))
        /\ topology.numaNodeCount = Cardinality(IdsOf(P, "numaNode"))
        /\ topology.efficiencyClassCount = EfficiencyClassCount(P)
    BY DEF IsBuilt
  <2> HIDE DEF F
  <2> QED BY <1>2, <2>1, <2>2, <2>3, <2>4
<1>4. ASSUME NEW p \in P, NEW q \in P, F(p).core = F(q).core
      PROVE  F(p).efficiencyClass = F(q).efficiencyClass
  <2>1. p.ids["core"] = q.ids["core"]
    BY <1>1, <1>2, <1>4, ScaledIdsAreRanks
  <2>2. p.class = q.class
    BY <1>1, <2>1 DEF AreProcessors
  <2> QED BY <1>1, <1>2, <2>2, ClassesAreRanks
<1>5. Len(list) = topology.logicalProcessorCount
  BY <1>1 DEF IsProcessorList, IsBuilt
<1>6. ASSUME NEW i \in DOMAIN list, NEW j \in DOMAIN list, i < j
      PROVE  /\ list[i].efficiencyClass <= list[j].efficiencyClass
             /\ list[i].efficiencyClass = list[j].efficiencyClass => list[i].core <= list[j].core
             /\ list[i].core = list[j].core => list[i].processorNumber < list[j].processorNumber
  <2>1. ComesBefore(list[i], list[j])
    BY <1>1, <1>6 DEF IsProcessorList
  <2>2. PICK p \in P : list[i] = F(p)
    BY <1>1 DEF IsProcessorList
  <2>3. PICK q \in P : list[j] = F(q)
    BY <1>1 DEF IsProcessorList
  <2>4. /\ F(p).processorNumber \in Nat /\ F(p).core \in Nat /\ F(p).efficiencyClass \in Nat
        /\ F(q).processorNumber \in Nat /\ F(q).core \in Nat /\ F(q).efficiencyClass \in Nat
        /\ F(p).core = F(q).core => F(p).efficiencyClass = F(q).efficiencyClass
    BY <1>3, <1>4
  <2> HIDE DEF F
  <2> QED BY <2>1, <2>2, <2>3, <2>4 DEF ComesBefore
<1>7. ASSUME NEW x \in ToSet(list), NEW k \in DOMAIN CacheKinds, x.cacheIndices[k] # InvalidCacheIndex
      PROVE  /\ x.cacheIndices[k] < Len(topology.caches)
             /\ topology.caches[x.cacheIndices[k] + 1].kind = CacheKinds[k]
  <2>1. PICK p \in P : x = F(p)
    BY <1>1
  <2>2. IndicesMeanCaches(topology, P, kept, p, k)
    BY IndicesAreOfCaches
  <2>3. /\ x.cacheIndices[k] \in 0..(Len(topology.caches) - 1)
        /\ topology.caches[x.cacheIndices[k] + 1].kind = CacheKinds[k]
    BY <1>7, <2>1, <2>2 DEF IndicesMeanCaches
  <2>4. Len(topology.caches) \in Int
    <3>1. ListMeansCaches(topology, P, kept) /\ IsCacheList(UsedCaches(P), P)
      BY <1>1, ListOfCaches, UsedCachesAreListed
    <3>2. Len(UsedCaches(P)) \in Nat /\ Len(<<>>) = 0
      BY <3>1, LenProperties, EmptySeq DEF IsCacheList
    <3> QED BY <3>1, <3>2 DEF ListMeansCaches
  <2> QED BY <2>3, <2>4
<1>8. SharingIsCounted(topology)
  BY SharingCounts
<1>9. \A x \in ToSet(list) :
        /\ x.core < topology.physicalCoreCount
        /\ x.package < topology.packageCount /\ x.numaNode < topology.numaNodeCount
        /\ x.efficiencyClass < AtLeastOne(topology.efficiencyClassCount)
  BY <1>1, <1>3
<1> QED BY <1>5, <1>6, <1>7, <1>8, <1>9 DEF ProcessorsAgree, SharingIsCounted

\* Cores are counted once, and those of the highest class are the performance cores.
LEMMA BuiltCountsAgree ==
  ASSUME NEW P, NEW kept, IsBuilt(topology, P, kept)
  PROVE  CountsAgree
<1> DEFINE cores == IdsOf(P, "core")
           n == EfficiencyClassCount(P)
           slow == {q \in P : ScaledClass(P, q) < n - 1}
           E == {p.ids["core"] : p \in slow}
           e == EfficiencyCoreCount(P)
<1>1. AreProcessors(P) /\ P # {}
  BY DEF IsBuilt
<1>2. \A type \in {"core", "package", "numaNode"} :
        /\ IsFiniteSet(IdsOf(P, type)) /\ Cardinality(IdsOf(P, type)) \in Nat
        /\ Cardinality(IdsOf(P, type)) >= 1
        /\ Cardinality(IdsOf(P, type)) <= Cardinality(P)
  <2> TAKE type \in {"core", "package", "numaNode"}
  <2>1. PICK p \in P : TRUE
    BY <1>1
  <2>2. p.ids[type] \in IdsOf(P, type)
    BY <1>1 DEF AreProcessors, IdsOf, NoId
  <2>3. IsFiniteSet(IdsOf(P, type)) /\ Cardinality(IdsOf(P, type)) \in Nat
        /\ Cardinality(IdsOf(P, type)) <= Cardinality(P)
    BY <1>1, IdsAreNumbers, KindsAreTypes
  <2>4. Cardinality(IdsOf(P, type)) # 0
    BY <2>2, <2>3, FS_EmptySet
  <2> QED BY <2>3, <2>4
<1>3. /\ topology.logicalProcessorCount = Cardinality(P)
      /\ topology.physicalCoreCount = Cardinality(cores)
      /\ topology.packageCount = Cardinality(IdsOf(P, "package"))
      /\ topology.numaNodeCount = Cardinality(IdsOf(P, "numaNode"))
      /\ topology.efficiencyClassCount = n
      /\ topology.efficiencyCoreCount = IF n = 0 THEN 0 ELSE e
      /\ topology.performanceCoreCount = IF n = 0 THEN 0 ELSE topology.physicalCoreCount - topology.efficiencyCoreCount
  BY DEF IsBuilt
<1>4. CASE n = 0
  BY <1>2, <1>3, <1>4 DEF CountsAgree
<1>5. CASE n # 0
  <2>1. /\ n \in Nat
        /\ \A p \in P : ScaledClass(P, p) \in 0..(n - 1)
        /\ \A p, q \in P : p.class = q.class => ScaledClass(P, p) = ScaledClass(P, q)
        /\ \A m \in 0..(n - 1) : \E p \in P : ScaledClass(P, p) = m
    BY <1>1, <1>5, ClassesAreRanks DEF AtLeastOne
  <2>2. PICK top \in P : ScaledClass(P, top) = n - 1
    <3>1. n - 1 \in 0..(n - 1)
      BY <1>5, <2>1
    <3> QED BY <2>1, <3>1
  <2>3. top.ids["core"] \in cores /\ \A p \in P : p.ids["core"] \in cores
    BY <1>1 DEF AreProcessors, IdsOf, NoId
  <2>4. top.ids["core"] \notin E
    <3> SUFFICES ASSUME NEW p \in slow, p.ids["core"] = top.ids["core"] PROVE FALSE
      OBVIOUS
    <3>1. p.class = top.class
      BY <1>1 DEF AreProcessors
    <3>2. ScaledClass(P, p) = n - 1
      BY <2>1, <2>2, <3>1
    <3> QED BY <2>1, <3>2
  <2>5. E \in SUBSET cores /\ E # cores
    BY <2>3, <2>4
  <2>6. e = Cardinality(E)
    BY DEF EfficiencyCoreCount
  <2>7. IsFiniteSet(cores) /\ Cardinality(cores) \in Nat
    BY <1>2
  <2>8. n = 1 => E = {}
    BY <2>1
  <2>9. n # 1 => E # {}
    <3> SUFFICES ASSUME n # 1 PROVE E # {}
      OBVIOUS
    <3>1. 0 \in 0..(n - 1) /\ 0 < n - 1
      BY <1>5, <2>1
    <3>2. PICK p \in P : ScaledClass(P, p) = 0
      BY <2>1, <3>1
    <3> QED BY <3>1, <3>2
  <2> HIDE DEF E, e, cores
  <2>10. IsFiniteSet(E) /\ Cardinality(E) \in Nat /\ Cardinality(E) < Cardinality(cores)
    <3>1. IsFiniteSet(E) /\ Cardinality(E) <= Cardinality(cores)
          /\ (Cardinality(cores) = Cardinality(E) => cores = E)
      BY <2>5, <2>7, FS_Subset
    <3>2. Cardinality(E) \in Nat
      BY <3>1, FS_CardinalityType
    <3> QED BY <2>5, <2>7, <3>1, <3>2
  <2>11. (Cardinality(E) = 0) <=> (E = {})
    BY <2>10, FS_EmptySet
  <2>12. (e = 0) <=> (n = 1)
    BY <2>6, <2>8, <2>9, <2>11
  <2>13. /\ topology.efficiencyCoreCount = e /\ topology.physicalCoreCount = Cardinality(cores)
         /\ topology.performanceCoreCount = Cardinality(cores) - e
         /\ topology.efficiencyClassCount = n
    BY <1>3, <1>5
  <2>14. /\ topology.physicalCoreCount <= topology.logicalProcessorCount
         /\ topology.packageCount >= 1 /\ topology.numaNodeCount >= 1
    BY <1>2, <1>3 DEF cores
  <2>15. /\ topology.performanceCoreCount + topology.efficiencyCoreCount = topology.physicalCoreCount
         /\ topology.performanceCoreCount > 0
    BY <2>6, <2>7, <2>10, <2>13
  <2> QED BY <1>5, <2>12, <2>13, <2>14, <2>15 DEF CountsAgree
<1> QED BY <1>4, <1>5

-----------------------------------------------------------------------------
(* What Windows lists.                                                     *)

\* The places of a relationship are finitely many numbers.
LEMMA PlacesAreNumbers ==
  ASSUME NEW R, IsRecordList(R), NEW relationship
  PROVE  /\ PlacesOf(R, relationship) \in SUBSET Int /\ PlacesOf(R, relationship) \in SUBSET DOMAIN R
         /\ IsFiniteSet(PlacesOf(R, relationship)) /\ IsFiniteSet(DOMAIN R) /\ DOMAIN R \in SUBSET Int
<1>1. Len(R) \in Nat /\ DOMAIN R = 1..Len(R)
  BY DEF IsRecordList
<1>2. IsFiniteSet(1..Len(R))
  BY <1>1, FS_Interval
<1>3. PlacesOf(R, relationship) \in SUBSET (1..Len(R))
  BY <1>1 DEF PlacesOf
<1>4. IsFiniteSet(PlacesOf(R, relationship))
  BY <1>2, <1>3, FS_Subset
<1>5. PlacesOf(R, relationship) \in SUBSET Int /\ 1..Len(R) \in SUBSET Int
  BY <1>1, <1>3
<1> QED BY <1>1, <1>2, <1>3, <1>4, <1>5

\* Records of a relationship are numbered, and no two alike.
LEMMA OrdinalsDiffer ==
  ASSUME NEW R, IsRecordList(R), NEW relationship,
         NEW i \in PlacesOf(R, relationship), NEW j \in PlacesOf(R, relationship)
  PROVE  /\ Ordinal(R, i) \in Nat /\ Ordinal(R, j) \in Nat
         /\ Ordinal(R, i) = Ordinal(R, j) => i = j
<1> DEFINE S == PlacesOf(R, relationship)
<1>1. S \in SUBSET Int /\ IsFiniteSet(S)
  BY PlacesAreNumbers
<1>2. R[i].relationship = relationship /\ R[j].relationship = relationship
  BY DEF PlacesOf
<1>3. Ordinal(R, i) = Below(S, i) /\ Ordinal(R, j) = Below(S, j)
  BY <1>2 DEF Ordinal, Below
<1> HIDE DEF S
<1>4. Cardinality(S) \in Nat
  BY <1>1, FS_CardinalityType
<1>5. i \in S /\ j \in S
  BY DEF S
<1> QED BY <1>1, <1>3, <1>4, <1>5, ScaledKeepOrder

\* An assigned number is the default or the number of a record that covers the processor.
IsAssigned(R, ids, number, default) ==
  LET covering == {i \in DOMAIN ids : number \in R[i].processors}
  IN \/ covering = {} /\ AssignedId(R, ids, number, default) = default
     \/ \E i \in covering : AssignedId(R, ids, number, default) = ids[i]

\* It is, as among finitely many records there is a last.
LEMMA NumbersAreAssigned ==
  ASSUME NEW R, NEW ids, DOMAIN ids \in SUBSET Int, IsFiniteSet(DOMAIN ids), NEW number, NEW default
  PROVE  IsAssigned(R, ids, number, default)
<1> DEFINE C == {i \in DOMAIN ids : number \in R[i].processors}
           last == CHOOSE i \in C : \A j \in C : j <= i
<1>1. AssignedId(R, ids, number, default) = IF C = {} THEN default ELSE ids[last]
  BY DEF AssignedId
<1>2. C \in SUBSET DOMAIN ids
  OBVIOUS
<1>3. CASE C = {}
  BY <1>1, <1>3 DEF IsAssigned
<1>4. CASE C # {}
  <2>1. \E i \in C : \A j \in C : j <= i
    <3> HIDE DEF C
    <3>1. IsFiniteSet(C) /\ C \in SUBSET Int
      BY <1>2, FS_Subset
    <3>2. Cardinality(C) \in Nat /\ Cardinality(C) # 0
      BY <1>4, <3>1, FS_EmptySet, FS_CardinalityType
    <3>3. Cardinality(C) - 1 \in 0..(Cardinality(C) - 1)
      BY <3>2
    <3>4. PICK i \in C : Below(C, i) = Cardinality(C) - 1
      BY <3>1, <3>3, ScaledKeepOrder
    <3>5. ASSUME NEW j \in C PROVE j <= i
      <4>1. Below(C, j) \in 0..(Cardinality(C) - 1) /\ (i < j <=> Below(C, i) < Below(C, j))
        BY <3>1, ScaledKeepOrder
      <4> QED BY <3>1, <3>2, <3>4, <4>1
    <3> QED BY <3>5
  <2>2. last \in C
    <3> HIDE DEF C
    <3> QED BY <2>1
  <2>3. AssignedId(R, ids, number, default) = ids[last]
    BY <1>1, <1>4
  <2> HIDE DEF last
  <2> QED BY <2>2, <2>3 DEF IsAssigned
<1> QED BY <1>3, <1>4

\* The records of caches of a kind.
OfKind(R, kind) == {j \in PlacesOf(R, "cache") : Kind(R[j]) = kind}
Numbered(R, places) == [j \in places |-> Ordinal(R, j)]

\* What is known of a processor that is read of record i.
IsReadOf(R, i, p) ==
  /\ i \in PlacesOf(R, "core") /\ p.number \in R[i].processors
  /\ p.class = R[i].class /\ p.ids["core"] = Ordinal(R, i)

\* Where the processor's number of a cache is from.
IsNumberedBy(R, p, kind) ==
  \/ p.ids[kind] = NoId /\ \A i \in OfKind(R, kind) : p.number \notin R[i].processors
  \/ \E i \in OfKind(R, kind) : p.number \in R[i].processors /\ p.ids[kind] = Ordinal(R, i)

\* What is read of a processor.
IsReadWell(R, i, number) ==
  LET p == RawProcessor(R, i, number)
  IN /\ IsReadOf(R, i, p) /\ p.number = number /\ number \in Nat /\ p.class \in Nat
     /\ p.ids["core"] \in Nat /\ p.ids["package"] \in Nat /\ p.ids["numaNode"] \in Nat
     /\ \A kind \in ToSet(CacheKinds) : p.ids[kind] \in Int /\ IsNumberedBy(R, p, kind)

\* A processor of a core is read well.
LEMMA ProcessorsAreRead ==
  ASSUME NEW R, IsRecordList(R), NEW i \in PlacesOf(R, "core"), NEW number \in R[i].processors
  PROVE  IsReadWell(R, i, number)
<1> DEFINE p == RawProcessor(R, i, number)
           packages == Numbered(R, PlacesOf(R, "package"))
           nodes == [j \in PlacesOf(R, "numaNode") |-> R[j].node]
<1>1. i \in DOMAIN R /\ R[i].relationship = "core"
  BY DEF PlacesOf
<1>2. number \in Nat /\ R[i].class \in Nat
  BY <1>1 DEF IsRecordList
<1>3. /\ TopologyTypes = {"core", "package", "numaNode", "L1Data", "L1Instruction", "L2", "L3"}
      /\ ToSet(CacheKinds) = {"L1Data", "L1Instruction", "L2", "L3"}
  BY KindsAreTypes
<1>4. p.number = number /\ p.class = R[i].class
  BY DEF RawProcessor
<1>5. /\ p.ids["core"] = Ordinal(R, i)
      /\ p.ids["package"] = AssignedId(R, packages, number, 0)
      /\ p.ids["numaNode"] = AssignedId(R, nodes, number, 0)
      /\ \A kind \in ToSet(CacheKinds) :
           p.ids[kind] = AssignedId(R, Numbered(R, OfKind(R, kind)), number, NoId)
  BY <1>3 DEF RawProcessor, Numbered, OfKind
<1>6. Ordinal(R, i) \in Nat
  BY OrdinalsDiffer
<1>7. IsAssigned(R, packages, number, 0)
  <2>1. DOMAIN packages = PlacesOf(R, "package")
    BY DEF Numbered
  <2> HIDE DEF packages
  <2> QED BY <2>1, PlacesAreNumbers, NumbersAreAssigned
<1>8. p.ids["package"] \in Nat
  <2>1. \A j \in DOMAIN packages : packages[j] \in Nat
    BY OrdinalsDiffer DEF Numbered
  <2> HIDE DEF packages, p
  <2> QED BY <1>5, <1>7, <2>1 DEF IsAssigned
<1>9. IsAssigned(R, nodes, number, 0)
  <2>1. DOMAIN nodes = PlacesOf(R, "numaNode")
    OBVIOUS
  <2> HIDE DEF nodes
  <2> QED BY <2>1, PlacesAreNumbers, NumbersAreAssigned
<1>10. p.ids["numaNode"] \in Nat
  <2>1. \A j \in DOMAIN nodes : nodes[j] \in Nat
    BY DEF IsRecordList, PlacesOf
  <2> HIDE DEF nodes, p
  <2> QED BY <1>5, <1>9, <2>1 DEF IsAssigned
<1>11. ASSUME NEW kind \in ToSet(CacheKinds) PROVE p.ids[kind] \in Int /\ IsNumberedBy(R, p, kind)
  <2> DEFINE ids == Numbered(R, OfKind(R, kind))
  <2>1. DOMAIN ids = OfKind(R, kind) /\ \A j \in OfKind(R, kind) : ids[j] = Ordinal(R, j)
    BY DEF Numbered
  <2>2. OfKind(R, kind) \in SUBSET PlacesOf(R, "cache")
    BY DEF OfKind
  <2>3. IsFiniteSet(OfKind(R, kind)) /\ OfKind(R, kind) \in SUBSET Int
    BY <2>2, PlacesAreNumbers, FS_Subset
  <2>4. \A j \in OfKind(R, kind) : Ordinal(R, j) \in Nat
    BY <2>2, OrdinalsDiffer
  <2>5. p.ids[kind] = AssignedId(R, ids, number, NoId)
    BY <1>5
  <2> HIDE DEF ids, p
  <2>6. IsAssigned(R, ids, number, NoId)
    BY <2>1, <2>3, NumbersAreAssigned
  <2>7. \/ p.ids[kind] = NoId /\ \A j \in OfKind(R, kind) : number \notin R[j].processors
        \/ \E j \in OfKind(R, kind) : number \in R[j].processors /\ p.ids[kind] = Ordinal(R, j)
    BY <2>1, <2>5, <2>6 DEF IsAssigned
  <2>8. NoId \in Int
    BY DEF NoId
  <2> QED BY <1>4, <2>4, <2>7, <2>8 DEF IsNumberedBy
<1>12. IsReadOf(R, i, p)
  BY <1>4, <1>5 DEF IsReadOf
<1> HIDE DEF p
<1> QED BY <1>2, <1>4, <1>5, <1>6, <1>8, <1>10, <1>11, <1>12 DEF IsReadWell, p

\* The processors are those of the records of cores.
RawProcessors(R) ==
  UNION {{RawProcessor(R, i, n) : n \in R[i].processors} : i \in PlacesOf(R, "core")}

\* What Windows lists are processors as buildTopology takes them.
LEMMA RecordsListProcessors ==
  ASSUME NEW R, IsRecordList(R)
  PROVE  AreProcessors(RawProcessors(R))
<1> DEFINE P == RawProcessors(R)
           Of(i) == {RawProcessor(R, i, n) : n \in R[i].processors}
           C == PlacesOf(R, "core")
           sets == {Of(i) : i \in C}
<1>1. \A p \in P : \E i \in C : \E n \in R[i].processors : p = RawProcessor(R, i, n)
  BY DEF RawProcessors
<1>2. IsFiniteSet(P)
  <2>1. IsFiniteSet(C)
    BY PlacesAreNumbers
  <2>2. ASSUME NEW i \in C PROVE IsFiniteSet(Of(i))
    <3> DEFINE f == [n \in R[i].processors |-> RawProcessor(R, i, n)]
               S == R[i].processors
    <3>1. IsFiniteSet(S)
      BY DEF IsRecordList, PlacesOf
    <3>2. DOMAIN f = S /\ Of(i) = {f[n] : n \in S}
      OBVIOUS
    <3> HIDE DEF f, S, Of
    <3> QED BY <3>1, <3>2, ImageIsFinite
  <2>3. IsFiniteSet(sets)
    <3> DEFINE g == [i \in C |-> Of(i)]
    <3>1. DOMAIN g = C /\ sets = {g[i] : i \in C}
      OBVIOUS
    <3> HIDE DEF g, sets
    <3> QED BY <2>1, <3>1, ImageIsFinite
  <2>4. \A s \in sets : IsFiniteSet(s)
    BY <2>2
  <2>5. P = UNION sets
    BY DEF RawProcessors
  <2> HIDE DEF sets, P
  <2> QED BY <2>3, <2>4, <2>5, FS_UNION
<1>3. ASSUME NEW p \in P
      PROVE  /\ p.number \in Nat /\ p.class \in Nat
             /\ \A type \in TopologyTypes : p.ids[type] \in Int
             /\ p.ids["core"] \in Nat /\ p.ids["package"] \in Nat /\ p.ids["numaNode"] \in Nat
  <2>0. PICK i \in C : \E n \in R[i].processors : p = RawProcessor(R, i, n)
    BY <1>1
  <2>1. PICK n \in R[i].processors : p = RawProcessor(R, i, n)
    BY <2>0
  <2>2. IsReadWell(R, i, n)
    BY <2>1, ProcessorsAreRead
  <2> HIDE DEF P
  <2>3. /\ p.number \in Nat /\ p.class \in Nat
        /\ p.ids["core"] \in Nat /\ p.ids["package"] \in Nat /\ p.ids["numaNode"] \in Nat
        /\ \A kind \in ToSet(CacheKinds) : p.ids[kind] \in Int
    BY <2>1, <2>2 DEF IsReadWell
  <2>4. \A type \in TopologyTypes : p.ids[type] \in Int
    BY <2>3, KindsAreTypes
  <2> QED BY <2>3, <2>4
<1>4. ASSUME NEW p \in P, NEW q \in P, p.ids["core"] = q.ids["core"]
      PROVE  p.class = q.class /\ (p.number = q.number => p = q)
  <2>0. PICK i \in C : \E n \in R[i].processors : p = RawProcessor(R, i, n)
    BY <1>1
  <2>1. PICK n \in R[i].processors : p = RawProcessor(R, i, n)
    BY <2>0
  <2>6. PICK j \in C : \E m \in R[j].processors : q = RawProcessor(R, j, m)
    BY <1>1
  <2>2. PICK m \in R[j].processors : q = RawProcessor(R, j, m)
    BY <2>6
  <2>3. IsReadWell(R, i, n) /\ IsReadWell(R, j, m)
    BY <2>1, <2>2, ProcessorsAreRead
  <2> HIDE DEF P
  <2>4. /\ p.class = R[i].class /\ p.ids["core"] = Ordinal(R, i) /\ p.number = n
        /\ q.class = R[j].class /\ q.ids["core"] = Ordinal(R, j) /\ q.number = m
    BY <2>1, <2>2, <2>3 DEF IsReadWell, IsReadOf
  <2>5. i = j
    <3>1. Ordinal(R, i) = Ordinal(R, j)
      BY <1>4, <2>4
    <3>2. i \in PlacesOf(R, "core") /\ j \in PlacesOf(R, "core")
      OBVIOUS
    <3> HIDE DEF C
    <3> QED BY <3>1, <3>2, OrdinalsDiffer
  <2> QED BY <2>1, <2>2, <2>4, <2>5
<1> HIDE DEF P
<1>5. AreProcessors(P)
  BY <1>2, <1>3, <1>4 DEF AreProcessors
<1> QED BY <1>5 DEF P

\* P are processors of the records, with the caches of the records if those are kept.
AreOf(P, R, kept) ==
  \A p \in P : /\ \E i \in PlacesOf(R, "core") : IsReadOf(R, i, p)
               /\ kept => \A kind \in ToSet(CacheKinds) : IsNumberedBy(R, p, kind)

\* The raw processors are.
LEMMA RawProcessorsAreOf ==
  ASSUME NEW R, IsRecordList(R)
  PROVE  AreOf(RawProcessors(R), R, TRUE)
<1> SUFFICES ASSUME NEW p \in RawProcessors(R)
             PROVE  /\ \E i \in PlacesOf(R, "core") : IsReadOf(R, i, p)
                    /\ \A kind \in ToSet(CacheKinds) : IsNumberedBy(R, p, kind)
  BY DEF AreOf
<1>1. PICK i \in PlacesOf(R, "core") : \E n \in R[i].processors : p = RawProcessor(R, i, n)
  BY DEF RawProcessors
<1>2. PICK n \in R[i].processors : p = RawProcessor(R, i, n)
  BY <1>1
<1>3. IsReadWell(R, i, n)
  BY ProcessorsAreRead
<1> QED BY <1>2, <1>3 DEF IsReadWell

\* What discardCaches leaves of a processor.
Discarded(p) ==
  [p EXCEPT !.ids = [type \in TopologyTypes |-> IF type \in ToSet(CacheKinds) THEN NoId ELSE p.ids[type]]]

\* Without their caches they are as many processors as before, and use no cache.
LEMMA DiscardedAreProcessors ==
  ASSUME NEW R, IsRecordList(R)
  PROVE  LET P == DiscardCaches(RawProcessors(R))
         IN /\ AreProcessors(P) /\ AreOf(P, R, FALSE)
            /\ Cardinality(P) = Cardinality(RawProcessors(R))
            /\ CachePairs(P) = {}
<1> DEFINE raw == RawProcessors(R)
           f == [p \in raw |-> Discarded(p)]
           P == {f[p] : p \in raw}
<1>1. DiscardCaches(raw) = P
  BY DEF DiscardCaches, Discarded
<1>2. AreProcessors(raw) /\ AreOf(raw, R, TRUE)
  BY RecordsListProcessors, RawProcessorsAreOf
<1>3. /\ ToSet(CacheKinds) = {"L1Data", "L1Instruction", "L2", "L3"}
      /\ TopologyTypes = {"core", "package", "numaNode", "L1Data", "L1Instruction", "L2", "L3"}
  BY KindsAreTypes
<1>4. ASSUME NEW p \in raw
      PROVE  /\ f[p].number = p.number /\ f[p].class = p.class
             /\ \A type \in {"core", "package", "numaNode"} : f[p].ids[type] = p.ids[type]
             /\ \A type \in ToSet(CacheKinds) : f[p].ids[type] = NoId
  <2>1. \E i \in PlacesOf(R, "core") : \E n \in R[i].processors : p = RawProcessor(R, i, n)
    BY DEF RawProcessors
  <2>2. DOMAIN p = {"number", "class", "ids"}
    BY <2>1 DEF RawProcessor
  <2>3. f[p] = Discarded(p)
    OBVIOUS
  <2> HIDE DEF f, raw
  <2>4. f[p].number = p.number /\ f[p].class = p.class
        /\ f[p].ids = [type \in TopologyTypes |-> IF type \in ToSet(CacheKinds) THEN NoId ELSE p.ids[type]]
    BY <2>2, <2>3 DEF Discarded
  <2> QED BY <1>3, <2>4
<1> HIDE DEF f, raw
<1>5. ASSUME NEW p \in raw, NEW q \in raw, f[p].ids["core"] = f[q].ids["core"]
      PROVE  f[p].class = f[q].class /\ (f[p].number = f[q].number => p = q)
  <2>1. p.ids["core"] = q.ids["core"]
    BY <1>4, <1>5
  <2> QED BY <1>2, <1>4, <2>1 DEF AreProcessors
<1>6. DOMAIN f = raw
  BY DEF f
<1>7. IsFiniteSet(P) /\ Cardinality(P) = Cardinality(raw)
  <2>1. IsFiniteSet(raw)
    BY <1>2 DEF AreProcessors
  <2>2. \A p, q \in raw : f[p] = f[q] => p = q
    BY <1>5
  <2> QED BY <1>6, <2>1, <2>2, ImageIsFinite
<1>8. ASSUME NEW p \in raw
      PROVE  /\ f[p].number \in Nat /\ f[p].class \in Nat
             /\ \A type \in TopologyTypes : f[p].ids[type] \in Int
             /\ f[p].ids["core"] \in Nat /\ f[p].ids["package"] \in Nat /\ f[p].ids["numaNode"] \in Nat
  <2>1. /\ p.number \in Nat /\ p.class \in Nat
        /\ p.ids["core"] \in Nat /\ p.ids["package"] \in Nat /\ p.ids["numaNode"] \in Nat
    BY <1>2 DEF AreProcessors
  <2>2. NoId \in Int
    BY DEF NoId
  <2> QED BY <1>3, <1>4, <2>1, <2>2
<1>9. AreProcessors(P)
  BY <1>5, <1>7, <1>8 DEF AreProcessors
<1>10. AreOf(P, R, FALSE)
  BY <1>2, <1>4 DEF AreOf, IsReadOf
<1>11. CachePairs(P) = {}
  <2>1. \A kind \in ToSet(CacheKinds) : IdsOf(P, kind) = {}
    BY <1>4 DEF IdsOf
  <2>2. \A k \in DOMAIN CacheKinds : IdsOf(P, CacheKinds[k]) = {}
    BY <2>1, KindsAreTypes
  <2> QED BY <2>2 DEF CachePairs
<1> QED BY <1>1, <1>7, <1>9, <1>10, <1>11 DEF raw

\* t is unknown, or built of the processors of the records, with their caches if it lists any.
IsBuiltOf(t, R) ==
  \/ t = UnknownTopology
  \/ \E P, kept : /\ IsBuilt(t, P, kept) /\ AreOf(P, R, FALSE)
                  /\ t.caches # <<>> => kept /\ AreOf(P, R, TRUE)

\* buildTopology's result, processors and caches having been discarded or not.
LEMMA BuiltOfProcessors ==
  ASSUME NEW raw, NEW P, NEW caches, AreProcessors(P), Cardinality(P) = Cardinality(raw.processors),
         IF Cardinality(raw.caches) >= InvalidCacheIndex
         THEN P = DiscardCaches(raw.processors) /\ caches = {}
         ELSE P = raw.processors /\ caches = raw.caches,
         CachesAreValid(P, caches) => Len(UsedCaches(P)) <= InvalidCacheIndex
  PROVE  LET t == BuildTopology(raw) IN
         \/ t = UnknownTopology
         \/ IsBuilt(t, P, CachesAreValid(P, caches))
            /\ t.caches = IF CachesAreValid(P, caches) THEN ListedCaches(P, caches) ELSE <<>>
<1> DEFINE n == Cardinality(raw.processors)
           t == BuildTopology(raw)
           kept == CachesAreValid(P, caches)
           efficient == IF EfficiencyClassCount(P) = 0 THEN 0 ELSE EfficiencyCoreCount(P)
<1>1. CASE n = 0 \/ n > LogicalProcessorLimit
  BY <1>1 DEF BuildTopology
<1>2. CASE ~(n = 0 \/ n > LogicalProcessorLimit)
  <2>1. /\ P = IF Cardinality(raw.caches) >= InvalidCacheIndex THEN DiscardCaches(raw.processors) ELSE raw.processors
        /\ caches = IF Cardinality(raw.caches) >= InvalidCacheIndex THEN {} ELSE raw.caches
    OBVIOUS
  <2>2. t = [processors |-> FillLogicalProcessors(P, kept),
             caches |-> IF kept THEN ListedCaches(P, caches) ELSE <<>>,
             classes |-> <<>>,
             logicalProcessorCount |-> n,
             physicalCoreCount |-> Cardinality(IdsOf(P, "core")),
             efficiencyCoreCount |-> efficient,
             performanceCoreCount |->
               IF EfficiencyClassCount(P) = 0 THEN 0 ELSE Cardinality(IdsOf(P, "core")) - efficient,
             efficiencyClassCount |-> EfficiencyClassCount(P),
             packageCount |-> Cardinality(IdsOf(P, "package")),
             numaNodeCount |-> Cardinality(IdsOf(P, "numaNode")),
             cacheLineSize |-> raw.cacheLineSize]
    BY <1>2, <2>1, Zenon DEF BuildTopology
  <2> HIDE DEF t, kept, efficient
  <2>3. /\ t.processors = FillLogicalProcessors(P, kept)
        /\ t.caches = IF kept THEN ListedCaches(P, caches) ELSE <<>>
        /\ t.logicalProcessorCount = Cardinality(P)
        /\ t.physicalCoreCount = Cardinality(IdsOf(P, "core"))
        /\ t.packageCount = Cardinality(IdsOf(P, "package"))
        /\ t.numaNodeCount = Cardinality(IdsOf(P, "numaNode"))
        /\ t.efficiencyClassCount = EfficiencyClassCount(P)
        /\ t.efficiencyCoreCount = efficient
        /\ t.performanceCoreCount = IF EfficiencyClassCount(P) = 0 THEN 0
                                    ELSE t.physicalCoreCount - t.efficiencyCoreCount
    BY <2>2
  <2>4. P # {}
    BY <1>2, FS_EmptySet DEF AreProcessors
  <2>5. kept => Len(UsedCaches(P)) <= InvalidCacheIndex
    BY DEF kept
  <2>6. IsBuilt(t, P, kept)
    BY <2>3, <2>4, <2>5 DEF IsBuilt, efficient
  <2> QED BY <2>3, <2>6 DEF t, kept
<1> QED BY <1>1, <1>2

\* buildTopology builds of what Windows lists.
LEMMA TopologyIsBuilt ==
  ASSUME NEW R, IsRecordList(R)
  PROVE  IsBuiltOf(BuildTopology(ProbeRawTopology(R)), R)
<1> DEFINE raw == ProbeRawTopology(R)
           t == BuildTopology(raw)
           tooMany == Cardinality(raw.caches) >= InvalidCacheIndex
<1>1. raw.processors = RawProcessors(R) /\ raw.caches = {RawCacheOf(R, i) : i \in PlacesOf(R, "cache")}
  BY DEF ProbeRawTopology, RawProcessors
<1>2. Cardinality(raw.caches) \in Nat
  <2> DEFINE S == PlacesOf(R, "cache")
             f == [i \in S |-> RawCacheOf(R, i)]
             T == {RawCacheOf(R, i) : i \in S}
  <2>1. IsFiniteSet(S)
    BY PlacesAreNumbers
  <2>2. DOMAIN f = S /\ T = {f[i] : i \in S}
    OBVIOUS
  <2>3. Cardinality(T) \in Nat
    <3> HIDE DEF S, f, T
    <3> QED BY <2>1, <2>2, ImageIsFinite
  <2> QED BY <1>1, <2>3
<1> SUFFICES IsBuiltOf(t, R)
  OBVIOUS
<1> HIDE DEF raw
<1>3. CASE tooMany
  <2> DEFINE P == DiscardCaches(raw.processors)
             kept == CachesAreValid(P, {})
  <2>1. AreProcessors(P) /\ AreOf(P, R, FALSE) /\ Cardinality(P) = Cardinality(raw.processors)
        /\ CachePairs(P) = {}
    BY <1>1, DiscardedAreProcessors
  <2> HIDE DEF P
  <2>2. IsCacheList(UsedCaches(P), P)
    BY <2>1, UsedCachesAreListed
  <2>3. Len(UsedCaches(P)) = 0 /\ DOMAIN UsedCaches(P) = {}
    BY <2>1, <2>2, FS_EmptySet DEF IsCacheList
  <2>4. kept => Len(UsedCaches(P)) <= InvalidCacheIndex
    BY <2>3, TopologyLimits
  <2>5. ListedCaches(P, {}) = <<>>
    BY <2>3 DEF ListedCaches
  <2>6. P = DiscardCaches(raw.processors)
    BY DEF P
  <2>7. \/ t = UnknownTopology
        \/ IsBuilt(t, P, kept) /\ t.caches = IF kept THEN ListedCaches(P, {}) ELSE <<>>
    BY <1>3, <2>1, <2>4, <2>6, BuiltOfProcessors
  <2> HIDE DEF t, kept
  <2> QED BY <2>1, <2>5, <2>7 DEF IsBuiltOf
<1>4. CASE ~tooMany
  <2> DEFINE P == raw.processors
             caches == raw.caches
             kept == CachesAreValid(P, caches)
  <2>1. AreProcessors(P) /\ AreOf(P, R, TRUE)
    BY <1>1, RecordsListProcessors, RawProcessorsAreOf
  <2>2. AreOf(P, R, FALSE)
    BY <2>1 DEF AreOf
  <2>3. kept => Len(UsedCaches(P)) <= InvalidCacheIndex
    BY <1>2, <1>4, TopologyLimits DEF CachesAreValid
  <2>4. \/ t = UnknownTopology
        \/ IsBuilt(t, P, kept) /\ t.caches = IF kept THEN ListedCaches(P, caches) ELSE <<>>
    BY <1>4, <2>1, <2>3, BuiltOfProcessors
  <2> HIDE DEF t, kept, P
  <2>5. CASE kept
    BY <2>1, <2>2, <2>4, <2>5 DEF IsBuiltOf
  <2>6. CASE ~kept
    BY <2>1, <2>2, <2>4, <2>6 DEF IsBuiltOf
  <2> QED BY <2>5, <2>6
<1> QED BY <1>3, <1>4

-----------------------------------------------------------------------------
(* What the program says is shared is shared.                              *)

\* Some record at one of the places covers both numbers.
IsCovered(R, places, m, n) == \E i \in places : {m, n} \subseteq R[i].processors

\* Of processors of records: which share a core.
LEMMA CoresAreShared ==
  ASSUME NEW R, IsRecordList(R), NEW i \in PlacesOf(R, "core"), NEW j \in PlacesOf(R, "core"),
         NEW p, NEW q, IsReadOf(R, i, p), IsReadOf(R, j, q)
  PROVE  p.ids["core"] = q.ids["core"] <=> IsCovered(R, PlacesOf(R, "core"), p.number, q.number)
<1>1. /\ p.number \in R[i].processors /\ p.ids["core"] = Ordinal(R, i)
      /\ q.number \in R[j].processors /\ q.ids["core"] = Ordinal(R, j)
  BY DEF IsReadOf
<1>2. Ordinal(R, i) = Ordinal(R, j) => i = j
  BY OrdinalsDiffer
<1>3. ASSUME NEW k \in PlacesOf(R, "core"), NEW l \in PlacesOf(R, "core"), NEW n,
             n \in R[k].processors, n \in R[l].processors
      PROVE  k = l
  BY <1>3 DEF IsRecordList
<1>4. ASSUME p.ids["core"] = q.ids["core"] PROVE IsCovered(R, PlacesOf(R, "core"), p.number, q.number)
  <2>1. i = j
    BY <1>1, <1>2, <1>4
  <2> QED BY <1>1, <2>1 DEF IsCovered
<1>5. ASSUME IsCovered(R, PlacesOf(R, "core"), p.number, q.number) PROVE p.ids["core"] = q.ids["core"]
  <2>1. PICK k \in PlacesOf(R, "core") : p.number \in R[k].processors /\ q.number \in R[k].processors
    BY <1>5 DEF IsCovered
  <2>2. i = k /\ j = k
    BY <1>1, <1>3, <2>1
  <2> QED BY <1>1, <2>2
<1> QED BY <1>4, <1>5

\* Of processors whose caches are numbered by records: which share one of a kind.
LEMMA CachesAreShared ==
  ASSUME NEW R, IsRecordList(R), NEW kind, kind # "Count",
         NEW p, NEW q, IsNumberedBy(R, p, kind), IsNumberedBy(R, q, kind)
  PROVE  (p.ids[kind] = q.ids[kind] /\ p.ids[kind] # NoId)
           <=> IsCovered(R, OfKind(R, kind), p.number, q.number)
<1> DEFINE S == OfKind(R, kind)
<1>1. S \in SUBSET PlacesOf(R, "cache") /\ \A k \in S : Kind(R[k]) = kind
  BY DEF OfKind
<1>2. \A k, l \in S : /\ Ordinal(R, k) \in Nat /\ Ordinal(R, l) \in Nat
                      /\ Ordinal(R, k) = Ordinal(R, l) => k = l
  BY <1>1, OrdinalsDiffer
<1>3. ASSUME NEW k \in S, NEW l \in S, NEW n, n \in R[k].processors, n \in R[l].processors
      PROVE  k = l
  <2>1. k \in PlacesOf(R, "cache") /\ l \in PlacesOf(R, "cache") /\ Kind(R[k]) = Kind(R[l])
    BY <1>1
  <2> QED BY <1>3, <2>1 DEF IsRecordList
<1>4. \A k \in S : Ordinal(R, k) # NoId
  BY <1>2 DEF NoId
<1> HIDE DEF S
<1>5. /\ \/ p.ids[kind] = NoId /\ \A k \in S : p.number \notin R[k].processors
         \/ \E k \in S : p.number \in R[k].processors /\ p.ids[kind] = Ordinal(R, k)
      /\ \/ q.ids[kind] = NoId /\ \A k \in S : q.number \notin R[k].processors
         \/ \E k \in S : q.number \in R[k].processors /\ q.ids[kind] = Ordinal(R, k)
  BY DEF IsNumberedBy, S
<1>6. ASSUME p.ids[kind] = q.ids[kind], p.ids[kind] # NoId
      PROVE  IsCovered(R, S, p.number, q.number)
  <2>1. PICK k \in S : p.number \in R[k].processors /\ p.ids[kind] = Ordinal(R, k)
    BY <1>5, <1>6
  <2>2. PICK l \in S : q.number \in R[l].processors /\ q.ids[kind] = Ordinal(R, l)
    BY <1>5, <1>6
  <2>3. k = l
    BY <1>2, <1>6, <2>1, <2>2
  <2> QED BY <2>1, <2>2, <2>3 DEF IsCovered
<1>7. ASSUME IsCovered(R, S, p.number, q.number)
      PROVE  p.ids[kind] = q.ids[kind] /\ p.ids[kind] # NoId
  <2>1. PICK m \in S : p.number \in R[m].processors /\ q.number \in R[m].processors
    BY <1>7 DEF IsCovered
  <2>2. PICK k \in S : p.number \in R[k].processors /\ p.ids[kind] = Ordinal(R, k)
    BY <1>5, <2>1
  <2>3. PICK l \in S : q.number \in R[l].processors /\ q.ids[kind] = Ordinal(R, l)
    BY <1>5, <2>1
  <2>4. k = m /\ l = m
    BY <1>3, <2>1, <2>2, <2>3
  <2> QED BY <1>4, <2>2, <2>3, <2>4
<1> QED BY <1>6, <1>7 DEF S

\* Entries have the same index of a kind of cache just if their processors have the same cache.
SameIndices(P, kept, p, q, k) ==
  LET x == FilledProcessor(P, kept, p).cacheIndices[k]
      y == FilledProcessor(P, kept, q).cacheIndices[k]
  IN (x = y /\ x # InvalidCacheIndex)
       <=> (p.ids[CacheKinds[k]] = q.ids[CacheKinds[k]] /\ p.ids[CacheKinds[k]] # NoId)

\* If caches are listed.
LEMMA IndicesTellCaches ==
  ASSUME NEW t, NEW P, NEW kept, IsBuilt(t, P, kept), kept,
         NEW p \in P, NEW q \in P, NEW k \in DOMAIN CacheKinds
  PROVE  SameIndices(P, kept, p, q, k)
<1> DEFINE used == UsedCaches(P)
           x == FilledProcessor(P, kept, p).cacheIndices[k]
           y == FilledProcessor(P, kept, q).cacheIndices[k]
           v == p.ids[CacheKinds[k]]
           w == q.ids[CacheKinds[k]]
<1>1. /\ x = InvalidCacheIndex <=> v = NoId
      /\ x # InvalidCacheIndex => x \in 0..(Len(t.caches) - 1) /\ used[x + 1] = <<k, v>>
  <2>1. IndicesMeanCaches(t, P, kept, p, k)
    BY IndicesAreOfCaches
  <2> QED BY <2>1 DEF IndicesMeanCaches
<1>2. /\ y = InvalidCacheIndex <=> w = NoId
      /\ y # InvalidCacheIndex => y \in 0..(Len(t.caches) - 1) /\ used[y + 1] = <<k, w>>
  <2>1. IndicesMeanCaches(t, P, kept, q, k)
    BY IndicesAreOfCaches
  <2> QED BY <2>1 DEF IndicesMeanCaches
<1>3. IsCacheList(used, P)
  BY UsedCachesAreListed DEF IsBuilt
<1>4. Len(t.caches) = Len(used)
  <2>1. ListMeansCaches(t, P, kept)
    BY ListOfCaches
  <2> QED BY <2>1 DEF ListMeansCaches
<1>5. Len(used) \in Nat /\ \A i, j \in 1..Len(used) : used[i] = used[j] => i = j
  BY <1>3, LenProperties DEF IsCacheList
<1>6. (x = y /\ x # InvalidCacheIndex) <=> (v = w /\ v # NoId)
  <2> HIDE DEF x, y, v, w, used
  <2>1. ASSUME x = y, x # InvalidCacheIndex PROVE v = w /\ v # NoId
    BY <1>1, <1>2, <2>1
  <2>2. ASSUME v = w, v # NoId PROVE x = y /\ x # InvalidCacheIndex
    <3>1. /\ x \in 0..(Len(used) - 1) /\ y \in 0..(Len(used) - 1)
          /\ used[x + 1] = used[y + 1] /\ x # InvalidCacheIndex
      BY <1>1, <1>2, <1>4, <2>2
    <3>2. x + 1 \in 1..Len(used) /\ y + 1 \in 1..Len(used)
      BY <1>5, <3>1
    <3>3. x + 1 = y + 1
      BY <1>5, <3>1, <3>2
    <3> QED BY <1>5, <3>1, <3>3
  <2> QED BY <2>1, <2>2
<1> QED BY <1>6 DEF SameIndices

\* What the topology says is shared is what the records say.
LEMMA BuiltSharingIsTrue ==
  ASSUME IsRecordList(host.records), NEW P, NEW kept, IsBuilt(topology, P, kept),
         AreOf(P, host.records, FALSE),
         topology.caches # <<>> => kept /\ AreOf(P, host.records, TRUE)
  PROVE  SharingIsTrue
<1> DEFINE R == host.records
           F(p) == FilledProcessor(P, kept, p)
<1>1. /\ ToSet(topology.processors) = {F(p) : p \in P}
      /\ \A p \in P : F(p).core = ScaledId(P, "core", p) /\ F(p).processorNumber = p.number
  BY EntriesAreProcessors DEF FilledProcessor
<1>2. ASSUME NEW p \in P, NEW q \in P
      PROVE  F(p).core = F(q).core <=> IsCovered(R, PlacesOf(R, "core"), p.number, q.number)
  <2>1. AreProcessors(P)
    BY DEF IsBuilt
  <2>2. ScaledId(P, "core", p) = ScaledId(P, "core", q) <=> p.ids["core"] = q.ids["core"]
    BY <2>1, ScaledIdsAreRanks
  <2>3. PICK i \in PlacesOf(R, "core") : IsReadOf(R, i, p)
    BY DEF AreOf
  <2>4. PICK j \in PlacesOf(R, "core") : IsReadOf(R, j, q)
    BY DEF AreOf
  <2>5. p.ids["core"] = q.ids["core"] <=> IsCovered(R, PlacesOf(R, "core"), p.number, q.number)
    BY <2>3, <2>4, CoresAreShared
  <2> QED BY <1>1, <2>2, <2>5
<1>3. ASSUME topology.caches # <<>>, NEW p \in P, NEW q \in P, NEW k \in DOMAIN CacheKinds
      PROVE  (F(p).cacheIndices[k] = F(q).cacheIndices[k] /\ F(p).cacheIndices[k] # InvalidCacheIndex)
               <=> IsCovered(R, OfKind(R, CacheKinds[k]), p.number, q.number)
  <2>1. SameIndices(P, kept, p, q, k)
    BY <1>3, IndicesTellCaches
  <2>2. CacheKinds[k] \in ToSet(CacheKinds) /\ CacheKinds[k] # "Count"
    BY KindsAreTypes
  <2>3. IsNumberedBy(R, p, CacheKinds[k]) /\ IsNumberedBy(R, q, CacheKinds[k])
    BY <1>3, <2>2 DEF AreOf
  <2>4. (p.ids[CacheKinds[k]] = q.ids[CacheKinds[k]] /\ p.ids[CacheKinds[k]] # NoId)
          <=> IsCovered(R, OfKind(R, CacheKinds[k]), p.number, q.number)
    BY <2>2, <2>3, CachesAreShared
  <2> QED BY <2>1, <2>4 DEF SameIndices
<1> HIDE DEF F
<1>4. ASSUME NEW x \in ToSet(topology.processors), NEW y \in ToSet(topology.processors)
      PROVE  /\ x.core = y.core
                  <=> IsCovered(R, PlacesOf(R, "core"), x.processorNumber, y.processorNumber)
             /\ topology.caches # <<>> =>
                  \A k \in DOMAIN CacheKinds :
                    (x.cacheIndices[k] = y.cacheIndices[k] /\ x.cacheIndices[k] # InvalidCacheIndex)
                      <=> IsCovered(R, OfKind(R, CacheKinds[k]), x.processorNumber, y.processorNumber)
  <2>1. PICK p \in P : x = F(p)
    BY <1>1
  <2>2. PICK q \in P : y = F(q)
    BY <1>1
  <2> QED BY <1>1, <1>2, <1>3, <2>1, <2>2
<1> QED BY <1>4 DEF SharingIsTrue, IsCovered, OfKind

-----------------------------------------------------------------------------
(* Sums, of a function over a finite set: the first of these lemmas are    *)
(* those of StorageProofs, whose modules have variables of these names.    *)

\* The least of a set of naturals, by which lemmas are proved step by step.
LEMMA LeastNatural ==
  ASSUME NEW S \in SUBSET Nat, S # {}
  PROVE  \E n \in S : \A m \in S : n <= m
<1>1. PICK n \in S : \A m \in S : ~ (<<m, n>> \in OpToRel(<, Nat))
  BY NatLessThanWellFounded, WFMin
<1>2. ASSUME NEW m \in S PROVE n <= m
  <2>1. m \in Nat /\ n \in Nat /\ ~ (m < n)
    BY <1>1 DEF OpToRel
  <2> QED BY <2>1
<1> QED BY <1>2

\* A smallest one of some subsets of a finite set.
LEMMA SmallestSet ==
  ASSUME NEW S, IsFiniteSet(S), NEW F \in SUBSET SUBSET S, F # {}
  PROVE  \E T \in F : \A U \in F : U \subseteq T => U = T
<1>1. FiniteSubsetsOf(S) = SUBSET S
  BY FS_FiniteSubsetsOfFinite
<1>2. PICK T \in F : \A U \in F : ~ (<<U, T>> \in StrictSubsetOrdering(S))
  <2>1. IsWellFoundedOn(StrictSubsetOrdering(S), SUBSET S)
    BY <1>1, FS_StrictSubsetOrderingWellFounded
  <2> QED BY <2>1, WFMin
<1> QED BY <1>2 DEF StrictSubsetOrdering

\* The element the folds take out of a set first.
Some(s) == CHOOSE x \in s : TRUE

\* iter is the sum of f over each set in S, as the folds work it out.
Folded(iter, f, S) ==
  iter = [s \in S |-> IF s = {} THEN 0 ELSE f[Some(s)] + iter[s \ {Some(s)}]]

\* A sum is the one over the whole set, if there is a sum over each subset.
LEMMA SumIsFold ==
  ASSUME NEW f, NEW S
  PROVE  \E iter : /\ (\E it : Folded(it, f, SUBSET S)) => Folded(iter, f, SUBSET S)
                   /\ SumFunctionOnSet(f, S) = iter[S]
<1> DEFINE iter == CHOOSE iter : Folded(iter, f, SUBSET S)
<1>1. SumFunctionOnSet(f, S) = iter[S]
  BY DEF SumFunctionOnSet, FoldFunctionOnSet, MapThenFoldSet, Folded, Some
<1>2. (\E it : Folded(it, f, SUBSET S)) => Folded(iter, f, SUBSET S)
  OBVIOUS
<1> QED BY <1>1, <1>2

\* There is such a sum.
LEMMA FoldExists ==
  ASSUME NEW f, NEW S, IsFiniteSet(S)
  PROVE  \E iter : Folded(iter, f, SUBSET S)
<1> DEFINE Small(n) == {T \in SUBSET S : Cardinality(T) <= n}
           Follow(it, s) == IF s = {} THEN 0 ELSE f[Some(s)] + it[s \ {Some(s)}]
           B == {n \in Nat : \A it : ~Folded(it, f, Small(n))}
<1>1. \A T \in SUBSET S : IsFiniteSet(T) /\ Cardinality(T) \in Nat
  BY FS_Subset, FS_CardinalityType
<1>2. B = {}
  <2>1. SUFFICES ASSUME B # {} PROVE FALSE
    OBVIOUS
  <2>2. PICK n \in B : \A m \in B : n <= m
    BY <2>1, LeastNatural
  <2>3. n \in Nat /\ \A it : ~Folded(it, f, Small(n))
    OBVIOUS
  <2>4. n # 0
    <3>1. SUFFICES ASSUME n = 0 PROVE FALSE
      OBVIOUS
    <3>2. \A T \in Small(n) : T = {}
      BY <1>1, <3>1, FS_EmptySet
    <3> DEFINE it == [T \in Small(n) |-> 0]
    <3>3. Folded(it, f, Small(n))
      BY <3>2 DEF Folded
    <3> QED BY <2>3, <3>3
  <2>5. n - 1 \in Nat /\ n - 1 \notin B
    <3> HIDE DEF B
    <3> QED BY <2>2, <2>3, <2>4
  <2>6. PICK before : Folded(before, f, Small(n - 1))
    BY <2>5
  <2> DEFINE it == [s \in Small(n) |-> Follow(before, s)]
  <2>7. ASSUME NEW s \in Small(n - 1) PROVE before[s] = it[s]
    <3>1. s \in Small(n)
      BY <1>1, <2>3
    <3> QED BY <2>6, <3>1 DEF Folded
  <2>8. ASSUME NEW s \in Small(n) PROVE it[s] = Follow(it, s)
    <3>1. CASE s # {}
      <4> DEFINE r == s \ {Some(s)}
      <4>1. Some(s) \in s
        BY <3>1 DEF Some
      <4>2. r \in SUBSET S /\ Cardinality(r) = Cardinality(s) - 1
        BY <1>1, <4>1, FS_RemoveElement
      <4>3. r \in Small(n - 1)
        BY <1>1, <2>3, <4>2
      <4> HIDE DEF r
      <4>4. before[r] = it[r]
        BY <2>7, <4>3
      <4> QED BY <4>4 DEF r
    <3> QED BY <3>1
  <2>9. Folded(it, f, Small(n))
    BY <2>8 DEF Folded
  <2> QED BY <2>3, <2>9
<1>3. Cardinality(S) \in Nat /\ SUBSET S = Small(Cardinality(S))
  BY <1>1, FS_Subset
<1>4. \E it : Folded(it, f, Small(Cardinality(S)))
  <2> HIDE DEF Small
  <2> QED BY <1>2, <1>3
<1>5. \A it : Folded(it, f, Small(Cardinality(S))) => Folded(it, f, SUBSET S)
  <2> HIDE DEF Small
  <2> QED BY <1>3
<1> QED BY <1>4, <1>5

\* A sum over a set is that of any fold on its subsets.
LEMMA FoldsAgree ==
  ASSUME NEW f, NEW S, NEW T, NEW one, NEW two, IsFiniteSet(S), T \subseteq S,
         Folded(one, f, SUBSET S), Folded(two, f, SUBSET T)
  PROVE  one[T] = two[T]
<1> DEFINE F == {U \in SUBSET T : one[U] # two[U]}
<1>1. SUFFICES ASSUME F # {} PROVE FALSE
  BY DEF F
<1>2. IsFiniteSet(T)
  BY FS_Subset
<1>3. PICK U \in F : \A V \in F : V \subseteq U => V = U
  <2>1. F \in SUBSET SUBSET T
    OBVIOUS
  <2> HIDE DEF F
  <2> QED BY <1>1, <1>2, <2>1, SmallestSet
<1>4. U \in SUBSET T /\ U \in SUBSET S /\ one[U] # two[U]
  OBVIOUS
<1>5. U # {}
  BY <1>4 DEF Folded
<1> DEFINE r == U \ {Some(U)}
<1>6. Some(U) \in U
  BY <1>5 DEF Some
<1>7. one[r] = two[r]
  BY <1>3, <1>4, <1>6
<1>8. one[U] = f[Some(U)] + one[r] /\ two[U] = f[Some(U)] + two[r]
  BY <1>4, <1>5 DEF Folded
<1> QED BY <1>4, <1>7, <1>8

\* How a sum is worked out.
LEMMA SumUnfolds ==
  ASSUME NEW f, NEW S, IsFiniteSet(S)
  PROVE  SumFunctionOnSet(f, S) =
           IF S = {} THEN 0 ELSE f[Some(S)] + SumFunctionOnSet(f, S \ {Some(S)})
<1> DEFINE r == S \ {Some(S)}
<1>1. IsFiniteSet(r) /\ r \in SUBSET S
  BY FS_Subset
<1> HIDE DEF r
<1>2. PICK one : Folded(one, f, SUBSET S) /\ SumFunctionOnSet(f, S) = one[S]
  BY FoldExists, SumIsFold
<1>3. PICK two : Folded(two, f, SUBSET r) /\ SumFunctionOnSet(f, r) = two[r]
  BY <1>1, FoldExists, SumIsFold
<1>4. one[r] = two[r]
  <2>1. Folded(one, f, SUBSET S) /\ Folded(two, f, SUBSET r) /\ r \subseteq S
    BY <1>1, <1>2, <1>3
  <2> QED BY <2>1, FoldsAgree, Zenon
<1>5. one[S] = IF S = {} THEN 0 ELSE f[Some(S)] + one[r]
  BY <1>2 DEF Folded, r
<1> QED BY <1>2, <1>3, <1>4, <1>5 DEF r

\* A sum of naturals is one, and it is not above a sum of numbers that are no less.
LEMMA SumsKeepOrder ==
  ASSUME NEW f, NEW g, NEW S, IsFiniteSet(S),
         \A x \in S : f[x] \in Nat /\ g[x] \in Nat /\ f[x] <= g[x]
  PROVE  /\ SumFunctionOnSet(f, S) \in Nat /\ SumFunctionOnSet(g, S) \in Nat
         /\ SumFunctionOnSet(f, S) <= SumFunctionOnSet(g, S)
<1> DEFINE Kept(U) == /\ SumFunctionOnSet(f, U) \in Nat /\ SumFunctionOnSet(g, U) \in Nat
                      /\ SumFunctionOnSet(f, U) <= SumFunctionOnSet(g, U)
           F == {U \in SUBSET S : ~Kept(U)}
<1>1. SUFFICES ASSUME F # {} PROVE FALSE
  BY DEF F
<1>2. PICK U \in F : \A V \in F : V \subseteq U => V = U
  <2>1. F \in SUBSET SUBSET S
    OBVIOUS
  <2> HIDE DEF F
  <2> QED BY <1>1, <2>1, SmallestSet
<1>3. U \in SUBSET S /\ IsFiniteSet(U) /\ ~Kept(U)
  BY FS_Subset
<1>4. /\ SumFunctionOnSet(f, U) = IF U = {} THEN 0 ELSE f[Some(U)] + SumFunctionOnSet(f, U \ {Some(U)})
      /\ SumFunctionOnSet(g, U) = IF U = {} THEN 0 ELSE g[Some(U)] + SumFunctionOnSet(g, U \ {Some(U)})
  BY <1>3, SumUnfolds
<1>5. U # {}
  BY <1>3, <1>4
<1>6. Some(U) \in U
  BY <1>5 DEF Some
<1>7. Kept(U \ {Some(U)})
  BY <1>2, <1>3, <1>6
<1>8. f[Some(U)] \in Nat /\ g[Some(U)] \in Nat /\ f[Some(U)] <= g[Some(U)]
  BY <1>3, <1>6
<1> QED BY <1>3, <1>4, <1>5, <1>7, <1>8

\* A sum of positive numbers is at least each of them, and is one of them only if that is all.
LEMMA SumsHavePositiveParts ==
  ASSUME NEW f, NEW S, IsFiniteSet(S), \A x \in S : f[x] \in Nat /\ f[x] # 0, NEW y \in S
  PROVE  /\ SumFunctionOnSet(f, S) \in Nat /\ SumFunctionOnSet(f, S) >= f[y]
         /\ (SumFunctionOnSet(f, S) = f[y]) <=> (S = {y})
<1> DEFINE sum(U) == SumFunctionOnSet(f, U)
           Right(U, x) == sum(U) >= f[x] /\ ((sum(U) = f[x]) <=> (U = {x}))
           F == {U \in SUBSET S : \E x \in U : ~Right(U, x)}
<1>1. \A U \in SUBSET S : sum(U) \in Nat /\ IsFiniteSet(U)
  <2> TAKE U \in SUBSET S
  <2>1. IsFiniteSet(U) /\ \A x \in U : f[x] \in Nat /\ f[x] <= f[x]
    BY FS_Subset
  <2> QED BY <2>1, SumsKeepOrder
<1>2. \A U \in SUBSET S : U # {} => sum(U) = f[Some(U)] + sum(U \ {Some(U)})
  BY <1>1, SumUnfolds
<1>3. \A U \in SUBSET S : U # {} => sum(U) > 0
  <2> TAKE U \in SUBSET S
  <2> SUFFICES ASSUME U # {} PROVE sum(U) > 0
    OBVIOUS
  <2>1. Some(U) \in U
    BY DEF Some
  <2>2. f[Some(U)] \in Nat /\ f[Some(U)] # 0
    BY <2>1
  <2>3. sum(U \ {Some(U)}) \in Nat /\ sum(U) = f[Some(U)] + sum(U \ {Some(U)})
    BY <1>1, <1>2
  <2> HIDE DEF sum
  <2> QED BY <2>2, <2>3
<1>4. ASSUME F # {} PROVE FALSE
  <2>1. PICK U \in F : \A V \in F : V \subseteq U => V = U
    <3>1. F \in SUBSET SUBSET S
      OBVIOUS
    <3> HIDE DEF F
    <3> QED BY <1>4, <3>1, SmallestSet
  <2>2. PICK x \in U : ~Right(U, x)
    OBVIOUS
  <2> DEFINE z == Some(U)
             r == U \ {z}
  <2>3. z \in U /\ U \in SUBSET S /\ r \in SUBSET S /\ r \subseteq U /\ r # U
    BY <2>2 DEF Some
  <2>4. sum(U) = f[z] + sum(r)
    BY <1>2, <2>2, <2>3
  <2>5. \A v \in r : Right(r, v)
    BY <2>1, <2>3
  <2>6. f[x] \in Nat /\ f[z] \in Nat /\ f[z] # 0 /\ sum(r) \in Nat
    BY <1>1, <2>2, <2>3
  <2>7. CASE x = z
    <3>1. (U = {x}) <=> (r = {})
      BY <2>3, <2>7
    <3>2. r # {} => sum(r) > 0
      BY <1>3, <2>3
    <3>3. r = {} => sum(r) = 0
      BY <1>1, <2>3, SumUnfolds
    <3> HIDE DEF sum, z, r
    <3> QED BY <2>2, <2>4, <2>6, <2>7, <3>1, <3>2, <3>3
  <2>8. CASE x # z
    <3>1. x \in r /\ U # {x}
      BY <2>2, <2>3, <2>8
    <3>2. sum(r) >= f[x]
      BY <2>5, <3>1
    <3> HIDE DEF sum, z, r
    <3> QED BY <2>2, <2>4, <2>6, <3>1, <3>2
  <2> QED BY <2>7, <2>8
<1>5. Right(S, y)
  BY <1>4
<1> QED BY <1>1, <1>5

-----------------------------------------------------------------------------
(* What macOS lists.                                                       *)

\* A cache is known as a whole or not at all, and no more processors share it than there are.
LEMMA CacheIsWhole ==
  ASSUME NEW bytes \in Nat, NEW sharing \in Nat, NEW level, level.logical \in Nat, level.logical # 0,
         level.logical <= LogicalProcessorLimit, NEW kind
  PROVE  LET cache == SharedCache(bytes, sharing, level, kind)
         IN /\ cache.kind = kind
            /\ cache.sizeBytes = 0 <=> cache.sharingLogicalProcessorCount = 0
            /\ cache.sharingLogicalProcessorCount <= level.logical
<1> DEFINE shared == IF sharing < level.logical THEN sharing ELSE level.logical
<1>1. shared \in Nat /\ shared <= LogicalProcessorLimit /\ shared <= level.logical
      /\ (shared = 0 <=> sharing = 0)
  BY TopologyLimits
<1>2. CastTo16(shared) = shared
  <2> HIDE DEF shared
  <2> QED BY <1>1, TopologyLimits DEF CastTo16
<1>3. LET cache == SharedCache(bytes, sharing, level, kind)
      IN /\ cache.kind = kind /\ cache.sizeBytes = IF sharing = 0 THEN 0 ELSE bytes
         /\ cache.sharingLogicalProcessorCount = IF bytes = 0 THEN 0 ELSE shared
  BY <1>2 DEF SharedCache
<1> HIDE DEF shared
<1> QED BY <1>1, <1>3

\* What a performance level is whose processors 16 bits count.
LevelIsValid(level) ==
  /\ level.cores \in Nat /\ level.cores # 0 /\ level.logical \in Nat /\ level.cores <= level.logical
  /\ level.logical <= LogicalProcessorLimit
  /\ level.l1DataBytes \in Nat /\ level.l1InstructionBytes \in Nat
  /\ level.l2Bytes \in Nat /\ level.logicalPerL2 \in Nat
  /\ level.l3Bytes \in Nat /\ level.logicalPerL3 \in Nat

\* Its caches are of the four kinds, each whole.
CachesAreWhole(caches, logical) ==
  \A k \in DOMAIN CacheKinds :
    /\ caches[k].kind = CacheKinds[k]
    /\ caches[k].sizeBytes = 0 <=> caches[k].sharingLogicalProcessorCount = 0
    /\ caches[k].sharingLogicalProcessorCount <= logical

\* probeCaches gives such.
LEMMA LevelHasWholeCaches ==
  ASSUME NEW level, LevelIsValid(level)
  PROVE  CachesAreWhole(ProbeCaches(level), level.logical)
<1> DEFINE perCore == level.logical \div level.cores
           c == ProbeCaches(level)
<1>1. level.logical \in Nat /\ level.logical # 0 /\ level.logical <= LogicalProcessorLimit
  BY DEF LevelIsValid
<1>2. perCore \in Nat
  BY DEF LevelIsValid
<1>3. /\ c[1] = SharedCache(level.l1DataBytes, perCore, level, "L1Data")
      /\ c[2] = SharedCache(level.l1InstructionBytes, perCore, level, "L1Instruction")
      /\ c[3] = SharedCache(level.l2Bytes, level.logicalPerL2, level, "L2")
      /\ c[4] = SharedCache(level.l3Bytes, level.logicalPerL3, level, "L3")
  BY DEF ProbeCaches
<1> HIDE DEF perCore, c
<1> DEFINE IsWhole(cache, kind) ==
             /\ cache.kind = kind
             /\ cache.sizeBytes = 0 <=> cache.sharingLogicalProcessorCount = 0
             /\ cache.sharingLogicalProcessorCount <= level.logical
<1>4. IsWhole(c[1], "L1Data")
  BY <1>1, <1>2, <1>3, CacheIsWhole DEF LevelIsValid
<1>5. IsWhole(c[2], "L1Instruction")
  BY <1>1, <1>2, <1>3, CacheIsWhole DEF LevelIsValid
<1>6. IsWhole(c[3], "L2")
  BY <1>1, <1>3, CacheIsWhole DEF LevelIsValid
<1>7. IsWhole(c[4], "L3")
  BY <1>1, <1>3, CacheIsWhole DEF LevelIsValid
<1>8. /\ DOMAIN CacheKinds = {1, 2, 3, 4}
      /\ CacheKinds[1] = "L1Data" /\ CacheKinds[2] = "L1Instruction"
      /\ CacheKinds[3] = "L2" /\ CacheKinds[4] = "L3"
  BY DEF CacheKinds
<1> QED BY <1>4, <1>5, <1>6, <1>7, <1>8 DEF CachesAreWhole, c

\* A topology of classes that agrees with itself.
IsOfClasses(t) ==
  LET L == SumFunction([i \in DOMAIN t.classes |-> t.classes[i].logicalProcessorCount])
  IN /\ t.logicalProcessorCount = L /\ L \in Nat /\ L # 0
     /\ t.physicalCoreCount <= t.logicalProcessorCount
     /\ t.packageCount = 1 /\ t.numaNodeCount = 1
     /\ t.efficiencyClassCount # 0 /\ t.performanceCoreCount > 0
     /\ t.performanceCoreCount + t.efficiencyCoreCount = t.physicalCoreCount
     /\ (t.efficiencyCoreCount = 0) <=> (t.efficiencyClassCount = 1)
     /\ \A i \in DOMAIN t.classes :
          CachesAreWhole(t.classes[i].caches, t.classes[i].logicalProcessorCount)

\* A count that fits its word is not changed by the cast.
LEMMA SmallCountsAreKept ==
  ASSUME NEW n \in Nat, n < CountLimit
  PROVE  CastTo32(n) = n
BY TopologyLimits DEF CastTo32

\* probeTopology's result is unknown, or such, if the counts fit their words.
LEMMA LevelsMakeClasses ==
  ASSUME NEW levels, IsLevelList(levels), CountsFitTheirWords(levels), NEW lineSize
  PROVE  LET t == ProbeTopology(levels, lineSize) IN t = UnknownTopology \/ IsOfClasses(t)
<1> DEFINE t == ProbeTopology(levels, lineSize)
           classes == Reverse(levels)
           n == Len(levels)
           coresOf == [i \in DOMAIN classes |-> classes[i].cores]
           logicalOf == [i \in DOMAIN classes |-> classes[i].logical]
           cores == SumFunction(coresOf)
           logical == SumFunction(logicalOf)
           last == Last(classes).cores
           unknown == levels = <<>> \/ \E i \in DOMAIN levels : ~CountsAreValid(levels[i])
<1>1. CASE unknown
  BY <1>1 DEF ProbeTopology
<1>2. CASE ~unknown
  <2>1. n \in Nat /\ DOMAIN levels = 1..n /\ n # 0 /\ n < CountLimit
    BY <1>2, LenProperties, EmptySeq DEF IsLevelList
  <2>2. ASSUME NEW i \in DOMAIN levels PROVE LevelIsValid(levels[i])
    <3> DEFINE Counts == 0..(CountLimit - 1)
    <3>1. levels[i] \in [cores : Counts, logical : Counts, l1DataBytes : Counts, l1InstructionBytes : Counts,
                         l2Bytes : Counts, logicalPerL2 : Counts, l3Bytes : Counts, logicalPerL3 : Counts]
      BY ElementOfSeq, <2>1 DEF IsLevelList
    <3>2. \A c \in Counts : c \in Nat
      BY TopologyLimits
    <3>3. CountsAreValid(levels[i]) /\ levels[i].logical <= LogicalProcessorLimit
      BY <1>2 DEF CountsFitTheirWords
    <3> HIDE DEF Counts
    <3> QED BY <3>1, <3>2, <3>3 DEF LevelIsValid, CountsAreValid
  <2>3. classes = [i \in 1..n |-> levels[(n - i) + 1]] /\ DOMAIN classes = 1..n
    BY DEF Reverse
  <2>4. ASSUME NEW i \in 1..n PROVE LevelIsValid(classes[i])
    <3>1. (n - i) + 1 \in 1..n
      BY <2>1
    <3> QED BY <2>1, <2>2, <2>3, <3>1
  <2>5. Len(classes) = n
    <3> HIDE DEF classes
    <3>1. classes \in [1..n -> {classes[i] : i \in 1..n}]
      BY <2>3
    <3> QED BY <2>1, <3>1, SeqDef, LenProperties
  <2>6. last = coresOf[n] /\ n \in 1..n
    BY <2>1, <2>3, <2>5 DEF Last
  <2>7. t = [UnknownTopology EXCEPT
             !.classes = [i \in DOMAIN classes |->
                            [logicalProcessorCount |-> classes[i].logical, coreCount |-> classes[i].cores,
                             caches |-> ProbeCaches(classes[i])]],
             !.logicalProcessorCount = CastTo32(logical), !.physicalCoreCount = CastTo32(cores),
             !.performanceCoreCount = last, !.efficiencyCoreCount = CastTo32(CastTo32(cores) - last),
             !.efficiencyClassCount = CastTo32(n),
             !.packageCount = 1, !.numaNodeCount = 1, !.cacheLineSize = CastTo16(lineSize)]
    <3>1. <<ProcessorsOf(classes)>> = <<logical>>
      BY DEF ProcessorsOf
    <3> QED BY <1>2, <2>5, <3>1 DEF ProbeTopology
  <2>8. logical < CountLimit
    BY DEF CountsFitTheirWords, ProcessorsOf
  <2> HIDE DEF t, cores, logical, last
  <2>9. /\ t.classes = [i \in DOMAIN classes |->
                           [logicalProcessorCount |-> classes[i].logical, coreCount |-> classes[i].cores,
                            caches |-> ProbeCaches(classes[i])]]
        /\ t.logicalProcessorCount = CastTo32(logical) /\ t.physicalCoreCount = CastTo32(cores)
        /\ t.performanceCoreCount = last /\ t.efficiencyCoreCount = CastTo32(CastTo32(cores) - last)
        /\ t.efficiencyClassCount = CastTo32(n) /\ t.packageCount = 1 /\ t.numaNodeCount = 1
    BY <2>7 DEF UnknownTopology
  <2>10. DOMAIN t.classes = 1..n /\ \A i \in 1..n : /\ t.classes[i].logicalProcessorCount = classes[i].logical
                                                   /\ t.classes[i].caches = ProbeCaches(classes[i])
    BY <2>3, <2>9
  <2>11. [i \in DOMAIN t.classes |-> t.classes[i].logicalProcessorCount] = logicalOf
    BY <2>3, <2>10
  <2>12. \A i \in 1..n : /\ coresOf[i] \in Nat /\ coresOf[i] # 0 /\ logicalOf[i] \in Nat
                         /\ coresOf[i] <= logicalOf[i]
    BY <2>3, <2>4 DEF LevelIsValid
  <2>13. DOMAIN coresOf = 1..n /\ DOMAIN logicalOf = 1..n /\ IsFiniteSet(1..n)
    BY <2>1, <2>3, FS_Interval
  <2> HIDE DEF coresOf, logicalOf, classes, n
  <2>14. cores = SumFunctionOnSet(coresOf, 1..n) /\ logical = SumFunctionOnSet(logicalOf, 1..n)
    BY <2>13 DEF SumFunction, cores, logical
  <2>15. cores \in Nat /\ logical \in Nat /\ cores <= logical
    BY <2>12, <2>13, <2>14, SumsKeepOrder
  <2>16. cores >= last /\ (cores = last <=> 1..n = {n})
    BY <2>6, <2>12, <2>13, <2>14, SumsHavePositiveParts
  <2>17. (1..n = {n}) <=> (n = 1)
    BY <2>1
  <2>18. last \in Nat /\ last # 0
    BY <2>6, <2>12
  <2>19. (cores - last = 0) <=> (n = 1)
    BY <2>15, <2>16, <2>17, <2>18
  <2>20. last + (cores - last) = cores /\ last > 0 /\ logical # 0
    BY <2>15, <2>16, <2>18
  <2>21. SumFunction([i \in DOMAIN t.classes |-> t.classes[i].logicalProcessorCount]) = logical
    BY <2>11 DEF logical
  <2>22. \A i \in DOMAIN t.classes : CachesAreWhole(t.classes[i].caches, t.classes[i].logicalProcessorCount)
    BY <2>4, <2>10, LevelHasWholeCaches
  <2>23. CastTo32(logical) = logical /\ CastTo32(cores) = cores /\ CastTo32(n) = n
    <3>1. cores < CountLimit
      BY <2>8, <2>15, TopologyLimits
    <3> QED BY <2>1, <2>15, <2>8, <3>1, SmallCountsAreKept
  <2>24. CastTo32(cores - last) = cores - last
    <3>1. cores - last \in Nat /\ cores - last < CountLimit
      BY <2>15, <2>16, <2>18, <2>8, TopologyLimits
    <3> QED BY <3>1, SmallCountsAreKept
  <2>25. IsOfClasses(t)
    BY <2>1, <2>9, <2>15, <2>19, <2>20, <2>21, <2>22, <2>23, <2>24 DEF IsOfClasses
  <2> QED BY <2>25 DEF t
<1> QED BY <1>1, <1>2

-----------------------------------------------------------------------------
(* What the program knows.                                                 *)

\* The topology of any machine is unknown, or its parts agree; a Mac's if its counts fit their words.
LEMMA HostTopologyAgrees ==
  ASSUME host \in Hosts, topology = TopologyOfHost,
         host.os = "macos" => CountsFitTheirWords(host.levels)
  PROVE  TopologyAgrees
<1>1. CASE host.os = "windows"
  <2>1. IsRecordList(host.records)
    BY <1>1, HostsAnswerTruly
  <2>2. topology = BuildTopology(ProbeRawTopology(host.records))
    BY <1>1 DEF TopologyOfHost
  <2>3. IsBuiltOf(topology, host.records)
    BY <2>1, <2>2, TopologyIsBuilt
  <2>4. CASE topology = UnknownTopology
    BY <2>4 DEF TopologyAgrees, UnknownTopology
  <2>5. CASE topology # UnknownTopology
    <3>1. PICK P, kept : /\ IsBuilt(topology, P, kept) /\ AreOf(P, host.records, FALSE)
                         /\ topology.caches # <<>> => kept /\ AreOf(P, host.records, TRUE)
      BY <2>3, <2>5 DEF IsBuiltOf
    <3>2. CountsAgree /\ ProcessorsAgree /\ SharingIsTrue
      BY <2>1, <3>1, BuiltCountsAgree, BuiltProcessorsAgree, BuiltSharingIsTrue
    <3>3. topology.logicalProcessorCount # 0
      BY <3>1, FS_EmptySet DEF IsBuilt, AreProcessors
    <3> QED BY <1>1, <3>2, <3>3 DEF TopologyAgrees
  <2> QED BY <2>4, <2>5
<1>2. CASE host.os = "macos"
  <2>1. IsLevelList(host.levels) /\ topology = ProbeTopology(host.levels, host.lineSize)
    BY <1>2, HostsAnswerTruly DEF TopologyOfHost
  <2>2. topology = UnknownTopology \/ IsOfClasses(topology)
    BY <1>2, <2>1, LevelsMakeClasses
  <2>3. CASE topology = UnknownTopology
    BY <2>3 DEF TopologyAgrees, UnknownTopology
  <2>4. CASE IsOfClasses(topology)
    <3>1. CountsAgree
      BY <2>4 DEF IsOfClasses, CountsAgree
    <3>2. ClassesAgree
      BY <2>4 DEF IsOfClasses, ClassesAgree, CachesAreWhole
    <3>3. topology.logicalProcessorCount # 0
      BY <2>4 DEF IsOfClasses
    <3> QED BY <1>2, <3>1, <3>2, <3>3 DEF TopologyAgrees
  <2> QED BY <2>2, <2>3, <2>4
<1>3. CASE host.os = "linux"
  <2>1. topology = UnknownTopology
    BY <1>3 DEF TopologyOfHost
  <2> QED BY <2>1 DEF TopologyAgrees, UnknownTopology
<1> QED BY <1>1, <1>2, <1>3, HostsAnswerTruly

\* What is detected is never more than the machine's, so that to add it again changes nothing,
\* and what is there while the capabilities are is what the machine is probed to have.
CapabilitiesInv ==
  /\ host \in Hosts /\ build \in Builds
  /\ PrerequisitesAreDetected
  /\ identity.features \subseteq ProbeIdentity.features
  /\ initialised = "yes" => BuildCanRun /\ identity = ProbeIdentity /\ topology = TopologyOfHost

\* It holds from the start, and each step keeps it.
LEMMA CapabilitiesStayRight == CapabilitiesSpec => []CapabilitiesInv
<1>1. CapabilitiesInit => CapabilitiesInv
  BY DEF CapabilitiesInit, CapabilitiesInv, NoIdentity, PrerequisitesAreDetected
<1>2. CapabilitiesInv /\ [CapabilitiesNext]_capabilityVars => CapabilitiesInv'
  <2> SUFFICES ASSUME CapabilitiesInv, [CapabilitiesNext]_capabilityVars PROVE CapabilitiesInv'
    OBVIOUS
  <2>1. CASE InitCapabilities
    <3>1. host' = host /\ build' = build
      BY <2>1 DEF InitCapabilities
    <3>2. identity' = [ProbeIdentity EXCEPT !.features = @ \union identity.features]
      BY <2>1 DEF InitCapabilities
    <3>3. /\ Prerequisites' = Prerequisites /\ ProbeIdentity' = ProbeIdentity
          /\ TopologyOfHost' = TopologyOfHost
      BY <3>1 DEF Prerequisites, ProbeIdentity, TopologyOfHost
    <3>4. identity' = ProbeIdentity
      <4>1. ProbeIdentity.features \union identity.features = ProbeIdentity.features
        BY DEF CapabilitiesInv
      <4>2. ProbeIdentity = [ProbeIdentity EXCEPT !.features = ProbeIdentity.features]
        BY DEF ProbeIdentity
      <4> QED BY <3>2, <4>1, <4>2
    <3>5. PrerequisitesAreDetected'
      BY <3>3, <3>4, ProbedFeaturesAreWhole DEF CapabilitiesInv, PrerequisitesAreDetected, Whole
    <3>6. ASSUME initialised' = "yes", build.floorCheck
          PROVE  CompilerTargetFeatures' \subseteq identity'.features
      <4>1. FloorCheckPasses(identity'.features, TargetFeatures)
        BY <2>1, <3>6 DEF InitCapabilities
      <4>2. CompilerTargetFeatures \subseteq TargetFeatures
        BY BuildsAreAccepted DEF CapabilitiesInv, BuildIsAccepted, CompilerTargetFeatures, TargetFeatures
      <4>3. CompilerTargetFeatures' = CompilerTargetFeatures
        BY <3>1 DEF CompilerTargetFeatures
      <4> QED BY <4>1, <4>2, <4>3 DEF FloorCheckPasses
    <3>7. initialised' = "yes" => topology' = TopologyOfHost
      BY <2>1 DEF InitCapabilities
    <3> QED BY <3>1, <3>3, <3>4, <3>5, <3>6, <3>7 DEF CapabilitiesInv, BuildCanRun
  <2>2. CASE FreeCapabilities
    BY <2>2 DEF FreeCapabilities, CapabilitiesInv, PrerequisitesAreDetected, Prerequisites, ProbeIdentity
  <2>3. CASE UNCHANGED capabilityVars
    BY <2>3 DEF capabilityVars, CapabilitiesInv, PrerequisitesAreDetected, Prerequisites,
                BuildCanRun, CompilerTargetFeatures, ProbeIdentity, TopologyOfHost
  <2> QED BY <2>1, <2>2, <2>3 DEF CapabilitiesNext
<1> QED BY <1>1, <1>2, PTL DEF CapabilitiesSpec

\* Whenever the capabilities are there, what is detected is whole and the build can run: no
\* matter how often they have been freed and read again (cpu_capabilities.cpp:325).
THEOREM DetectedFeaturesCanBeUsed ==
  CapabilitiesSpec => [](initialised = "yes" => PrerequisitesAreDetected /\ BuildCanRun)
<1>1. CapabilitiesInv => (initialised = "yes" => PrerequisitesAreDetected /\ BuildCanRun)
  BY DEF CapabilitiesInv
<1> QED BY CapabilitiesStayRight, <1>1, PTL

\* And all of what initCapabilities leaves can be relied on: the machine has each feature and
\* the OS saves its state, and the topology is unknown or its parts agree with each other and
\* with what the OS says is shared (cpu_capabilities.cpp:325, cpu_probe_x86_64.cpp:807). On a Mac
\* the topology can as long as the OS lists no more processors than the counts' words hold:
\* nothing checks that there (cpu_probe_macos.cpp:137, 189).
THEOREM CapabilitiesCanBeReliedOn == CapabilitiesSpec => []CapabilitiesAreConsistent
<1>1. ASSUME CapabilitiesInv, initialised = "yes" PROVE FeaturesAreUsable
  <2>1. host \in Hosts /\ PrerequisitesAreDetected /\ BuildCanRun /\ identity = ProbeIdentity
    BY <1>1 DEF CapabilitiesInv
  <2>2. CASE host.arch = "x86"
    <3>1. IsDetectedTruly(host.cpu, host.real, host.saved)
      BY <2>1, <2>2, HostsAnswerTruly, X86IsDetectedTruly
    <3>2. identity.features = X86FeaturesOf(host.cpu) /\ identity.info = X86InfoOf(host.cpu)
      BY <2>1, <2>2 DEF ProbeIdentity
    <3> QED BY <2>1, <3>1, <3>2 DEF FeaturesAreUsable, IsDetectedTruly
  <2>3. CASE host.arch # "x86"
    BY <2>1, <2>3 DEF FeaturesAreUsable
  <2> QED BY <2>2, <2>3
<1>2. ASSUME CapabilitiesInv, initialised = "yes", host.os = "macos" => CountsFitTheirWords(host.levels)
      PROVE  TopologyAgrees
  BY <1>2, HostTopologyAgrees DEF CapabilitiesInv
<1>3. CapabilitiesInv => CapabilitiesAreConsistent
  BY <1>1, <1>2 DEF CapabilitiesAreConsistent
<1> QED BY CapabilitiesStayRight, <1>3, PTL

\* At least one processor may be used, and never more than are there, whatever mask, job and
\* cap the process has been given: neither no processor in the mask, nor none active, nor a cap
\* that rounds to nothing takes the last one away (cpu_windows.cpp:25).
THEOREM QuotaStaysWithinAvailable ==
  ASSUME NEW os,
         IsFiniteSet(os.mask), os.jobProcessors \in Nat, os.active \in Nat, os.rate \in Nat
  PROVE  1 <= WindowsQuota(os) /\ WindowsQuota(os) <= WindowsAvailable(os)
<1> DEFINE available == WindowsAvailable(os)
           quota == (os.rate * os.active + 9999) \div 10000
<1>1. os.mask # {} => Cardinality(os.mask) \in Nat /\ Cardinality(os.mask) >= 1
  <2>1. Cardinality(os.mask) \in Nat
    BY FS_CardinalityType
  <2>2. os.mask # {} => Cardinality(os.mask) # 0
    BY FS_EmptySet
  <2> QED BY <2>1, <2>2
<1>2. available \in Nat /\ available >= 1
  BY <1>1 DEF WindowsAvailable, AtLeastOne
<1>3. quota \in Int
  <2>1. os.rate * os.active + 9999 \in Int
    OBVIOUS
  <2> QED BY <2>1
<1>4. WindowsQuota(os) = IF os.rate = 0 \/ os.active = 0 THEN available
                         ELSE IF quota < 1 THEN 1 ELSE IF quota > available THEN available ELSE quota
  BY DEF WindowsQuota
<1> HIDE DEF available, quota
<1>5. 1 <= WindowsQuota(os) /\ WindowsQuota(os) <= available
  BY <1>2, <1>3, <1>4
<1> QED BY <1>5 DEF available


-----------------------------------------------------------------------------
(* The frames of the backend.                                              *)

BackendIsUp == step \notin {"none", "gone"}
Frame == {"waiting", "acquiring", "recording", "submitting", "presenting", "resizing", "done"}

\* What the backend's state consists of while there is a swapchain.
BackendTypes ==
  /\ swapchain.images \in Nat \ {0}
  /\ fences \in [Slots -> BOOLEAN]
  /\ imageAvailable \in [Slots -> {"unsignalled", "pending", "signalled"}]
  /\ renderFinished \in [Slots -> {"unsignalled", "signalled"}]
  /\ commandBuffers \in [Slots -> {"initial", "recording", "executable", "pending"}]
  /\ graphicsQueue \in Seq([slot : Slots, image : Slots, signals : Slots, draws : Seq(Nat),
                            generation : {generation}])
  /\ presentQueue \in Seq([image : Slots, waits : Slots, generation : {generation}])
  /\ step \in {"waiting", "acquiring", "recording", "submitting", "presenting"} => slot \in Slots
  /\ step \in {"recording", "submitting", "presenting"} => image \in Slots

Presented(i) == \E k \in DOMAIN presentQueue : presentQueue[k].image = i
Rendered(i) == \E k \in DOMAIN graphicsQueue : graphicsQueue[k].image = i
UsesSlot(s) == \E k \in DOMAIN graphicsQueue : graphicsQueue[k].slot = s

\* Who signals what, and who waits for it.  The fence of a slot whose work the device has
\* is not signalled, and the semaphore of an acquired image is in use only while it is not.
\* What signals an image's semaphore comes before what waits for it.
GraphicsQueueInv ==
  \A k \in DOMAIN graphicsQueue :
    LET work == graphicsQueue[k]
    IN /\ ~fences[work.slot] /\ commandBuffers[work.slot] = "pending"
       /\ work.signals = work.image /\ renderFinished[work.image] = "unsignalled"
       /\ Presented(work.image) \/ (step = "presenting" /\ image = work.image)
       /\ ToSet(work.draws) \subseteq 1..meshes
       /\ \A j \in DOMAIN graphicsQueue \ {k} :
            graphicsQueue[j].slot # work.slot /\ graphicsQueue[j].image # work.image

PresentQueueInv ==
  /\ \A k \in DOMAIN presentQueue : presentQueue[k].waits = presentQueue[k].image
  /\ \A i \in Slots : renderFinished[i] = "signalled" =>
       Presented(i) \/ (step = "presenting" /\ image = i)

HeldInv ==
  /\ \A s \in Slots : fences[s] => imageAvailable[s] = "unsignalled"
  /\ step = "acquiring" => fences[slot]
  /\ step \in {"recording", "submitting"} =>
       /\ ~fences[slot] /\ ~UsesSlot(slot)
       /\ renderFinished[image] = "unsignalled" /\ ~Presented(image) /\ ~Rendered(image)
  /\ step = "submitting" => recorded \in Seq(Nat) /\ ToSet(recorded) \subseteq 1..meshes

BackendInv ==
  IF BackendIsUp
  THEN BackendTypes /\ GraphicsQueueInv /\ PresentQueueInv /\ HeldInv /\ ImagesAreShared
  ELSE graphicsQueue = <<>> /\ presentQueue = <<>>

-----------------------------------------------------------------------------
(* The engine around them.                                                 *)

Services == {"taskSystem", "parkingLot", "mainThread", "cpu"}
Parts == {"window", "gpu", "renderer", "memory", "time"} \cup Services

\* The part that goes down after another one.
NextDown == [taskSystem |-> "parkingLot", parkingLot |-> "mainThread", mainThread |-> "cpu",
             cpu |-> "renderer", renderer |-> "gpu", gpu |-> "window"]

PartsInv ==
  /\ alive \subseteq Parts
  /\ \A part \in DOMAIN NextDown : IsUp(part) => IsUp(NextDown[part])
  /\ phase = "constructing" => Services \cap alive = {}
  /\ phase # "constructing" => IsUp("memory")
  /\ phase \notin {"constructing", "ended", "gone"} => IsUp("gpu")

PhaseInv ==
  /\ system \in Systems /\ surface \in system.surfaces \cup {system.surface}
  /\ meshes \in Nat /\ frameNumber \in Nat
  /\ IsUp("gpu") <=> BackendIsUp
  /\ step \in {"none", "idle", "gone"} \cup Frame
  /\ step \in Frame <=> phase = "drawing"
  /\ phase = "starting" => meshes >= 1 /\ system.debugLayer
  /\ phase \in {"loop", "draw", "drawing"} => meshes >= (IF system.debugLayer THEN 2 ELSE 1)
  /\ phase \in {"draw", "drawing"} => drawables = CollectDrawables(<<1>>, <<2>>)

EngineInv == PartsInv /\ PhaseInv /\ BackendInv

-----------------------------------------------------------------------------
(* Steps of the device and of the host.                                    *)

\* What is left of a queue once its first entry is gone.
LEMMA QueueTail ==
  ASSUME NEW S, NEW q \in Seq(S), q # <<>>
  PROVE  /\ Tail(q) \in Seq(S) /\ 1 \in DOMAIN q /\ Head(q) = q[1] /\ Head(q) \in S
         /\ \A k \in DOMAIN Tail(q) : k + 1 \in DOMAIN q /\ k + 1 # 1 /\ Tail(q)[k] = q[k + 1]
         /\ \A k \in DOMAIN q \ {1} : \E j \in DOMAIN Tail(q) : Tail(q)[j] = q[k]
<1>1. Tail(q) \in Seq(S) /\ Len(Tail(q)) = Len(q) - 1 /\ \A k \in 1..(Len(q) - 1) : Tail(q)[k] = q[k + 1]
  BY HeadTailProperties
<1>2. Head(q) = q[1] /\ Head(q) \in S /\ Len(q) \in Nat /\ Len(q) >= 1 /\ DOMAIN q = 1..Len(q)
  BY HeadTailProperties, EmptySeq, LenProperties
<1>3. DOMAIN Tail(q) = 1..(Len(q) - 1)
  BY <1>1, LenProperties
<1>4. ASSUME NEW k \in DOMAIN q \ {1} PROVE k - 1 \in DOMAIN Tail(q) /\ Tail(q)[k - 1] = q[k]
  BY <1>1, <1>2, <1>3
<1> QED BY <1>1, <1>2, <1>3, <1>4

\* A queue with one more entry.
LEMMA QueueAppended ==
  ASSUME NEW S, NEW q \in Seq(S), NEW e \in S
  PROVE  /\ Append(q, e) \in Seq(S) /\ Len(q) + 1 \notin DOMAIN q
         /\ DOMAIN Append(q, e) = DOMAIN q \cup {Len(q) + 1}
         /\ Append(q, e)[Len(q) + 1] = e
         /\ \A k \in DOMAIN q : Append(q, e)[k] = q[k]
BY AppendProperties, LenProperties

\* What the entries of the queues name.
LEMMA EntriesNameSlots ==
  ASSUME BackendTypes
  PROVE  /\ \A k \in DOMAIN graphicsQueue :
              /\ graphicsQueue[k].slot \in Slots /\ graphicsQueue[k].image \in Slots
              /\ graphicsQueue[k].generation = generation
         /\ \A k \in DOMAIN presentQueue :
              presentQueue[k].image \in Slots /\ presentQueue[k].generation = generation
<1> DEFINE Works == [slot : Slots, image : Slots, signals : Slots, draws : Seq(Nat), generation : {generation}]
           Shows == [image : Slots, waits : Slots, generation : {generation}]
<1>1. graphicsQueue \in Seq(Works) /\ presentQueue \in Seq(Shows)
  BY DEF BackendTypes
<1>2. /\ \A k \in DOMAIN graphicsQueue : graphicsQueue[k] \in Works
      /\ \A k \in DOMAIN presentQueue : presentQueue[k] \in Shows
  <2> HIDE DEF Works, Shows
  <2> QED BY <1>1, ElementOfSeq, LenProperties
<1> QED BY <1>2

\* What none of the backend's invariant is about but the position of the host.
LEMMA HostMoves ==
  ASSUME BackendInv, BackendIsUp,
         UNCHANGED <<device, swapchain, generation, meshes, commandBuffers, syncVars, queueVars>>,
         step' \in ({"idle"} \cup Frame) \ {"submitting", "presenting"},
         step' # "recording", step # "presenting",
         step' \in {"waiting", "acquiring"} => slot' \in Slots,
         step' = "acquiring" => fences[slot']
  PROVE  BackendInv'
<1> USE DEF BackendIsUp, Frame, syncVars, queueVars
<1>1. BackendTypes'
  BY DEF BackendInv, BackendTypes, Slots
<1>2. GraphicsQueueInv'
  BY DEF BackendInv, GraphicsQueueInv, Presented
<1>3. PresentQueueInv'
  BY DEF BackendInv, PresentQueueInv, Presented, Slots
<1>4. HeldInv'
  BY DEF BackendInv, HeldInv, Slots
<1>5. ImagesAreShared'
  BY DEF BackendInv, ImagesAreShared
<1> QED BY <1>1, <1>2, <1>3, <1>4, <1>5 DEF BackendInv

\* Acquiring takes an image that nobody uses; its semaphore has then been waited for.
LEMMA AcquireKeeps ==
  ASSUME BackendInv, Acquire
  PROVE  BackendInv'
<1> USE DEF BackendIsUp
<1>1. PICK i \in Slots :
        /\ IsFree(i) /\ image' = i
        /\ imageAvailable' = [imageAvailable EXCEPT ![slot] = "pending"]
        /\ fences' = [fences EXCEPT ![slot] = FALSE]
        /\ commandBuffers' = [commandBuffers EXCEPT ![slot] = "recording"]
  BY DEF Acquire
<1>2. /\ step = "acquiring" /\ step' = "recording" /\ fences[slot] /\ slot \in Slots
      /\ UNCHANGED <<device, swapchain, generation, meshes, slot, renderFinished, graphicsQueue, presentQueue>>
  BY DEF Acquire, BackendInv, BackendTypes, HeldInv, queueVars
<1>3. ~UsesSlot(slot) /\ ~Presented(i) /\ ~Rendered(i) /\ renderFinished[i] = "unsignalled"
  BY <1>1, <1>2 DEF IsFree, UsesSlot, Presented, Rendered, BackendInv, BackendTypes, GraphicsQueueInv,
                    PresentQueueInv
<1>4. BackendTypes'
  BY <1>1, <1>2 DEF BackendInv, BackendTypes, Slots
<1>5. GraphicsQueueInv'
  <2>1. \A k \in DOMAIN graphicsQueue :
          /\ graphicsQueue[k].slot # slot
          /\ fences'[graphicsQueue[k].slot] = fences[graphicsQueue[k].slot]
          /\ commandBuffers'[graphicsQueue[k].slot] = commandBuffers[graphicsQueue[k].slot]
    BY <1>1, <1>2, <1>3, EntriesNameSlots DEF BackendInv, BackendTypes, UsesSlot
  <2> QED BY <1>1, <1>2, <2>1 DEF BackendInv, GraphicsQueueInv, Presented
<1>6. PresentQueueInv'
  BY <1>1, <1>2 DEF BackendInv, PresentQueueInv, Presented, Slots
<1>7. HeldInv'
  <2>1. \A s \in Slots : fences'[s] => imageAvailable'[s] = "unsignalled"
    BY <1>1, <1>2 DEF BackendInv, HeldInv, BackendTypes
  <2>2. ~fences'[slot]
    BY <1>1, <1>2 DEF BackendInv, BackendTypes
  <2> QED BY <1>1, <1>2, <1>3, <2>1, <2>2 DEF HeldInv, Slots, Presented, Rendered, UsesSlot
<1>8. ImagesAreShared'
  BY <1>2 DEF BackendInv, ImagesAreShared
<1> QED BY <1>2, <1>4, <1>5, <1>6, <1>7, <1>8 DEF BackendInv

\* What is drawn are meshes there are.
LEMMA DrawMeshesKeeps ==
  ASSUME BackendInv, NEW drawn \in Seq(Nat), ToSet(drawn) \subseteq 1..meshes, DrawMeshes(drawn)
  PROVE  BackendInv'
<1> USE DEF BackendIsUp
<1>1. /\ step = "recording" /\ step' = "submitting" /\ slot \in Slots
      /\ commandBuffers' = [commandBuffers EXCEPT ![slot] = "executable"] /\ recorded' = drawn
      /\ UNCHANGED <<device, swapchain, generation, meshes, slot, image, fences, imageAvailable,
                     renderFinished, graphicsQueue, presentQueue>>
  BY DEF DrawMeshes, BackendInv, BackendTypes, queueVars, syncVars
<1>2. BackendTypes'
  BY <1>1 DEF BackendInv, BackendTypes, Slots
<1>3. GraphicsQueueInv'
  <2>1. \A k \in DOMAIN graphicsQueue :
          commandBuffers'[graphicsQueue[k].slot] = commandBuffers[graphicsQueue[k].slot]
    BY <1>1, EntriesNameSlots DEF BackendInv, BackendTypes, HeldInv, UsesSlot
  <2> QED BY <1>1, <2>1 DEF BackendInv, GraphicsQueueInv, Presented
<1>4. PresentQueueInv'
  BY <1>1 DEF BackendInv, PresentQueueInv, Presented, Slots
<1>5. HeldInv'
  BY <1>1 DEF BackendInv, HeldInv, Slots, Presented, Rendered, UsesSlot
<1>6. ImagesAreShared'
  BY <1>1 DEF BackendInv, ImagesAreShared
<1> QED BY <1>1, <1>2, <1>3, <1>4, <1>5, <1>6 DEF BackendInv

\* The work of a frame is given to the device with a slot and an image of its own.
LEMMA SubmitKeeps ==
  ASSUME BackendInv, Submit
  PROVE  BackendInv'
<1> USE DEF BackendIsUp
<1> DEFINE work == [slot |-> slot, image |-> image, signals |-> image, draws |-> recorded,
                    generation |-> generation]
           Works == [slot : Slots, image : Slots, signals : Slots, draws : Seq(Nat), generation : {generation}]
<1>1. /\ step = "submitting" /\ step' = "presenting" /\ slot \in Slots /\ image \in Slots
      /\ commandBuffers' = [commandBuffers EXCEPT ![slot] = "pending"]
      /\ graphicsQueue' = Append(graphicsQueue, work)
      /\ UNCHANGED <<device, swapchain, generation, meshes, slot, image, fences, imageAvailable,
                     renderFinished, presentQueue>>
  BY DEF Submit, SignalSemaphore, BackendInv, BackendTypes, syncVars
<1>2. work \in Works
  BY <1>1 DEF BackendInv, HeldInv
<1>3. graphicsQueue \in Seq(Works)
  BY <1>1 DEF BackendInv, BackendTypes
<1>4. /\ work.slot = slot /\ work.image = image /\ work.signals = image /\ work.draws = recorded
  OBVIOUS
<1> HIDE DEF work, Works
<1>5. /\ graphicsQueue' \in Seq(Works) /\ Len(graphicsQueue) + 1 \notin DOMAIN graphicsQueue
      /\ DOMAIN graphicsQueue' = DOMAIN graphicsQueue \cup {Len(graphicsQueue) + 1}
      /\ graphicsQueue'[Len(graphicsQueue) + 1] = work
      /\ \A k \in DOMAIN graphicsQueue : graphicsQueue'[k] = graphicsQueue[k]
  BY <1>1, <1>2, <1>3, QueueAppended
<1>6. BackendTypes'
  <2>1. graphicsQueue' \in Seq([slot : Slots', image : Slots', signals : Slots', draws : Seq(Nat),
                                generation : {generation'}])
    BY <1>1, <1>5 DEF Works, Slots
  <2> QED BY <1>1, <2>1 DEF BackendInv, BackendTypes, Slots
<1>7. GraphicsQueueInv'
  <2> SUFFICES ASSUME NEW k \in DOMAIN graphicsQueue'
               PROVE  /\ ~fences[graphicsQueue'[k].slot] /\ commandBuffers'[graphicsQueue'[k].slot] = "pending"
                      /\ graphicsQueue'[k].signals = graphicsQueue'[k].image
                      /\ renderFinished[graphicsQueue'[k].image] = "unsignalled"
                      /\ Presented(graphicsQueue'[k].image) \/ image = graphicsQueue'[k].image
                      /\ ToSet(graphicsQueue'[k].draws) \subseteq 1..meshes
                      /\ \A j \in DOMAIN graphicsQueue' \ {k} :
                           /\ graphicsQueue'[j].slot # graphicsQueue'[k].slot
                           /\ graphicsQueue'[j].image # graphicsQueue'[k].image
    BY <1>1 DEF GraphicsQueueInv, Presented
  <2>1. CASE k = Len(graphicsQueue) + 1
    BY <1>1, <1>4, <1>5, <2>1 DEF BackendInv, BackendTypes, HeldInv, UsesSlot, Rendered
  <2>2. CASE k \in DOMAIN graphicsQueue
    <3>1. graphicsQueue[k].slot # slot /\ graphicsQueue[k].image # image
      BY <1>1, <2>2 DEF BackendInv, HeldInv, UsesSlot, Rendered
    <3>2. commandBuffers'[graphicsQueue[k].slot] = commandBuffers[graphicsQueue[k].slot]
      BY <1>1, <2>2, <3>1, EntriesNameSlots DEF BackendInv, BackendTypes
    <3>3. graphicsQueue'[k] = graphicsQueue[k]
      BY <1>5, <2>2
    <3>4. ASSUME NEW j \in DOMAIN graphicsQueue' \ {k}
          PROVE  /\ graphicsQueue'[j].slot # graphicsQueue[k].slot
                 /\ graphicsQueue'[j].image # graphicsQueue[k].image
      <4>1. CASE j \in DOMAIN graphicsQueue
        BY <1>1, <1>5, <2>2, <4>1 DEF BackendInv, GraphicsQueueInv
      <4>2. CASE j = Len(graphicsQueue) + 1
        BY <1>4, <1>5, <3>1, <4>2
      <4> QED BY <1>5, <4>1, <4>2
    <3> QED BY <1>1, <2>2, <3>2, <3>3, <3>4 DEF BackendInv, GraphicsQueueInv
  <2> QED BY <1>5, <2>1, <2>2
<1>8. PresentQueueInv'
  BY <1>1 DEF BackendInv, PresentQueueInv, Presented, Slots
<1>9. HeldInv'
  BY <1>1 DEF BackendInv, HeldInv, Slots
<1>10. ImagesAreShared'
  BY <1>1 DEF BackendInv, ImagesAreShared
<1> QED BY <1>1, <1>6, <1>7, <1>8, <1>9, <1>10 DEF BackendInv

\* The image is queued with the semaphore that its work signals.
LEMMA PresentKeeps ==
  ASSUME BackendInv, Present
  PROVE  BackendInv'
<1> USE DEF BackendIsUp
<1> DEFINE shows == [image |-> image, waits |-> image, generation |-> generation]
           Shows == [image : Slots, waits : Slots, generation : {generation}]
<1>1. /\ step = "presenting" /\ step' \in {"done", "resizing"} /\ image \in Slots
      /\ presentQueue' = Append(presentQueue, shows)
      /\ UNCHANGED <<device, swapchain, generation, meshes, commandBuffers, slot, image, fences,
                     imageAvailable, renderFinished, graphicsQueue>>
  BY DEF Present, SignalSemaphore, BackendInv, BackendTypes, syncVars
<1>2. shows \in Shows /\ shows.image = image /\ shows.waits = image
  BY <1>1
<1>3. presentQueue \in Seq(Shows)
  BY <1>1 DEF BackendInv, BackendTypes
<1> HIDE DEF shows, Shows
<1>5. /\ presentQueue' \in Seq(Shows)
      /\ DOMAIN presentQueue' = DOMAIN presentQueue \cup {Len(presentQueue) + 1}
      /\ presentQueue'[Len(presentQueue) + 1] = shows
      /\ \A k \in DOMAIN presentQueue : presentQueue'[k] = presentQueue[k]
  BY <1>1, <1>2, <1>3, QueueAppended
<1>6. BackendTypes'
  <2>1. presentQueue' \in Seq([image : Slots', waits : Slots', generation : {generation'}])
    BY <1>1, <1>5 DEF Shows, Slots
  <2> QED BY <1>1, <2>1 DEF BackendInv, BackendTypes, Slots
<1>7. Presented(image)' /\ \A i : Presented(i) => Presented(i)'
  BY <1>1, <1>2, <1>5 DEF Presented
<1>8. GraphicsQueueInv'
  BY <1>1, <1>7 DEF BackendInv, GraphicsQueueInv
<1>9. PresentQueueInv'
  <2>1. \A k \in DOMAIN presentQueue' : presentQueue'[k].waits = presentQueue'[k].image
    BY <1>1, <1>2, <1>5 DEF BackendInv, PresentQueueInv
  <2> QED BY <1>1, <1>7, <2>1 DEF BackendInv, PresentQueueInv, Slots
<1>10. HeldInv'
  BY <1>1 DEF BackendInv, HeldInv, Slots
<1>11. ImagesAreShared'
  BY <1>1 DEF BackendInv, ImagesAreShared
<1> QED BY <1>1, <1>6, <1>8, <1>9, <1>10, <1>11 DEF BackendInv

\* A new swapchain begins with nothing that is in use, and there is nothing in use.
LEMMA FreshBackend ==
  ASSUME step' \in {"idle", "done"}, graphicsQueue' = <<>>, presentQueue' = <<>>,
         NEW dev, NEW requested, NEW n \in Nat \ {0},
         generation' = 1 - generation,
         swapchain' = SwapchainOf(surface, dev, requested, n),
         CreateFrameSyncState(n), CreateCommandState(n), ImagesAreShared'
  PROVE  BackendInv'
<1>1. swapchain'.images = n
  BY DEF SwapchainOf
<1>2. Slots' = 1..n
  BY <1>1 DEF Slots
<1>3. BackendTypes'
  BY <1>1, <1>2 DEF BackendTypes, CreateFrameSyncState, CreateCommandState
<1>4. GraphicsQueueInv'
  BY DEF GraphicsQueueInv
<1>5. PresentQueueInv'
  BY <1>2 DEF PresentQueueInv, CreateFrameSyncState
<1>6. HeldInv'
  BY <1>2 DEF HeldInv, CreateFrameSyncState
<1> QED BY <1>3, <1>4, <1>5, <1>6 DEF BackendInv, BackendIsUp

\* The number of images of any swapchain that is made.
LEMMA ImagesAreCounted ==
  ASSUME PhaseInv, NEW n \in ImagesOf(SelectImageCount(surface))
  PROVE  n \in Nat \ {0}
BY FrameWrapIsMultiple DEF PhaseInv

\* Families that are two share the images, and each has one queue.
LEMMA QueuesAreDistinct ==
  ASSUME NEW candidate
  PROVE  Cardinality(ToSet(CreateDevice(candidate).queues)) = Len(CreateDevice(candidate).queues)
<1> DEFINE g == SelectQueueFamilies(candidate.families)["graphics"]
           p == SelectQueueFamilies(candidate.families)["present"]
<1>1. CreateDevice(candidate).queues = IF p # g THEN <<g, p>> ELSE <<g>>
  BY DEF CreateDevice, QueueCreateInfos
<1> HIDE DEF g, p
<1>2. CASE p = g
  <2>1. CreateDevice(candidate).queues = <<g>>
    BY <1>1, <1>2
  <2>2. ToSet(<<g>>) = {g}
    BY DEF ToSet
  <2> QED BY <2>1, <2>2, FS_Singleton
<1>3. CASE p # g
  <2>1. CreateDevice(candidate).queues = <<g, p>>
    BY <1>1, <1>3
  <2>2. ToSet(<<g, p>>) = {g} \cup {p}
    BY DEF ToSet
  <2>3. Cardinality({g} \cup {p}) = 2
    <3>1. IsFiniteSet({g}) /\ Cardinality({g}) = 1 /\ p \notin {g}
      BY <1>3, FS_Singleton
    <3>2. Cardinality({g} \cup {p}) = Cardinality({g}) + 1
      BY <3>1, FS_AddElement
    <3> QED BY <3>1, <3>2
  <2> QED BY <2>1, <2>2, <2>3
<1> QED BY <1>2, <1>3

\* The swapchain's way of sharing follows from the families of the device it is made for.
LEMMA SharingFits ==
  ASSUME NEW dev, NEW requested, NEW n, Cardinality(ToSet(dev.queues)) = Len(dev.queues),
         device' = dev, swapchain' = SwapchainOf(surface, dev, requested, n)
  PROVE  ImagesAreShared'
<1>1. swapchain'.sharing = SharingMode(dev)
  BY DEF SwapchainOf
<1> QED BY <1>1 DEF ImagesAreShared, SharingMode

\* Constructing the backend.
LEMMA ConstructBackendKeeps ==
  ASSUME BackendInv, PhaseInv, NEW size, ConstructBackend(size)
  PROVE  BackendInv'
<1>1. PICK n \in ImagesOf(SelectImageCount(surface)) :
        CreateSwapchain(device', size, n) /\ CreateFrameSyncState(n) /\ CreateCommandState(n)
  BY DEF ConstructBackend
<1>2. n \in Nat \ {0}
  BY ImagesAreCounted
<1>3. graphicsQueue' = <<>> /\ presentQueue' = <<>> /\ step' = "idle"
  BY DEF ConstructBackend, BackendInv, BackendIsUp
<1>4. Cardinality(ToSet(device'.queues)) = Len(device'.queues)
  BY QueuesAreDistinct DEF ConstructBackend
<1>5. /\ swapchain' = SwapchainOf(surface, device', size, n)
      /\ generation' = 1 - generation
  BY <1>1 DEF CreateSwapchain
<1>6. ImagesAreShared'
  BY <1>4, <1>5, SharingFits
<1> QED BY <1>1, <1>2, <1>3, <1>5, <1>6, FreshBackend

\* A new swapchain for a surface that has changed.
LEMMA ResizeKeeps ==
  ASSUME BackendInv, PhaseInv, Resize
  PROVE  BackendInv'
<1>1. PICK n \in ImagesOf(SelectImageCount(surface)) :
        CreateSwapchain(device, swapchain.extent, n) /\ CreateFrameSyncState(n) /\ CreateCommandState(n)
  BY DEF Resize
<1>2. n \in Nat \ {0}
  BY ImagesAreCounted
<1>3. graphicsQueue' = <<>> /\ presentQueue' = <<>> /\ step' = "done" /\ device' = device
  BY DEF Resize, DeviceIsIdle
<1>4. Cardinality(ToSet(device.queues)) = Len(device.queues)
  BY DEF Resize, BackendInv, BackendIsUp, ImagesAreShared
<1>5. /\ swapchain' = SwapchainOf(surface, device, swapchain.extent, n)
      /\ generation' = 1 - generation
  BY <1>1 DEF CreateSwapchain
<1>6. ImagesAreShared'
  BY <1>3, <1>4, <1>5, SharingFits
<1> QED BY <1>1, <1>2, <1>3, <1>5, <1>6, FreshBackend

\* Presentation has let go of an image that the host already holds.
LEMMA ImageBecomesAvailableKeeps ==
  ASSUME BackendInv, ImageBecomesAvailable, BackendIsUp
  PROVE  BackendInv'
<1> USE DEF BackendIsUp
<1>1. PICK s \in DOMAIN imageAvailable :
        /\ imageAvailable[s] = "pending" /\ imageAvailable' = [imageAvailable EXCEPT ![s] = "signalled"]
        /\ UNCHANGED <<device, swapchain, generation, meshes, commandBuffers, recorded, slot, image, step,
                       fences, renderFinished, graphicsQueue, presentQueue>>
  BY DEF ImageBecomesAvailable, hostVars, queueVars
<1>2. BackendTypes'
  BY <1>1 DEF BackendInv, BackendTypes, Slots
<1>3. GraphicsQueueInv'
  BY <1>1 DEF BackendInv, GraphicsQueueInv, Presented
<1>4. PresentQueueInv'
  BY <1>1 DEF BackendInv, PresentQueueInv, Presented, Slots
<1>5. HeldInv'
  BY <1>1 DEF BackendInv, BackendTypes, HeldInv, Slots, Presented, Rendered, UsesSlot
<1>6. ImagesAreShared'
  BY <1>1 DEF BackendInv, ImagesAreShared
<1> QED BY <1>1, <1>2, <1>3, <1>4, <1>5, <1>6 DEF BackendInv

\* The device has finished the work it was given first: its slot and the semaphore of its
\* image are the only ones that change, and no other work has them.
LEMMA CompleteKeeps ==
  ASSUME BackendInv, Complete
  PROVE  BackendInv'
<1> DEFINE Works == [slot : Slots, image : Slots, signals : Slots, draws : Seq(Nat), generation : {generation}]
<1>1. BackendIsUp
  BY DEF Complete, BackendInv
<1>2. graphicsQueue # <<>> /\ graphicsQueue \in Seq(Works)
  BY <1>1 DEF Complete, BackendInv, BackendTypes
<1> HIDE DEF Works
<1>3. /\ graphicsQueue' \in Seq(Works) /\ 1 \in DOMAIN graphicsQueue
      /\ \A k \in DOMAIN graphicsQueue' :
           k + 1 \in DOMAIN graphicsQueue \ {1} /\ graphicsQueue'[k] = graphicsQueue[k + 1]
      /\ Head(graphicsQueue) = graphicsQueue[1]
  BY <1>2, QueueTail DEF Complete
<1>4. PICK s \in Slots, i \in Slots :
        /\ s = graphicsQueue[1].slot /\ i = graphicsQueue[1].image /\ graphicsQueue[1].signals = i
        /\ renderFinished[i] = "unsignalled"
        /\ Presented(i) \/ (step = "presenting" /\ image = i)
        /\ \A k \in DOMAIN graphicsQueue \ {1} : graphicsQueue[k].slot # s /\ graphicsQueue[k].image # i
  BY <1>1, <1>3, EntriesNameSlots DEF BackendInv, GraphicsQueueInv
<1>5. /\ imageAvailable' = [imageAvailable EXCEPT ![s] = "unsignalled"]
      /\ renderFinished' = [renderFinished EXCEPT ![i] = "signalled"]
      /\ fences' = [fences EXCEPT ![s] = TRUE]
      /\ commandBuffers' = [commandBuffers EXCEPT ![s] = "executable"]
      /\ UNCHANGED <<device, swapchain, generation, meshes, recorded, slot, image, step, presentQueue>>
  BY <1>3, <1>4 DEF Complete
<1>6. BackendTypes'
  <2>1. graphicsQueue' \in Seq([slot : Slots', image : Slots', signals : Slots', draws : Seq(Nat),
                                generation : {generation'}])
    BY <1>3, <1>5 DEF Works, Slots
  <2> QED BY <1>1, <1>5, <2>1 DEF BackendInv, BackendTypes, Slots
<1>7. GraphicsQueueInv'
  <2>1. \A k \in DOMAIN graphicsQueue \ {1} :
          /\ fences'[graphicsQueue[k].slot] = fences[graphicsQueue[k].slot]
          /\ commandBuffers'[graphicsQueue[k].slot] = commandBuffers[graphicsQueue[k].slot]
          /\ renderFinished'[graphicsQueue[k].image] = renderFinished[graphicsQueue[k].image]
    BY <1>1, <1>4, <1>5, EntriesNameSlots DEF BackendInv, BackendTypes
  <2> SUFFICES ASSUME NEW k \in DOMAIN graphicsQueue'
               PROVE  /\ ~fences'[graphicsQueue'[k].slot] /\ commandBuffers'[graphicsQueue'[k].slot] = "pending"
                      /\ graphicsQueue'[k].signals = graphicsQueue'[k].image
                      /\ renderFinished'[graphicsQueue'[k].image] = "unsignalled"
                      /\ Presented(graphicsQueue'[k].image)
                           \/ (step = "presenting" /\ image = graphicsQueue'[k].image)
                      /\ ToSet(graphicsQueue'[k].draws) \subseteq 1..meshes
                      /\ \A j \in DOMAIN graphicsQueue' \ {k} :
                           /\ graphicsQueue'[j].slot # graphicsQueue'[k].slot
                           /\ graphicsQueue'[j].image # graphicsQueue'[k].image
    BY <1>5 DEF GraphicsQueueInv, Presented
  <2>2. k + 1 \in DOMAIN graphicsQueue \ {1} /\ graphicsQueue'[k] = graphicsQueue[k + 1]
    BY <1>3
  <2>3. ASSUME NEW j \in DOMAIN graphicsQueue' \ {k}
        PROVE  /\ graphicsQueue'[j].slot # graphicsQueue'[k].slot
               /\ graphicsQueue'[j].image # graphicsQueue'[k].image
    <3>1. j + 1 \in DOMAIN graphicsQueue /\ graphicsQueue'[j] = graphicsQueue[j + 1]
      BY <1>3
    <3>2. j + 1 # k + 1
      BY <1>3, LenProperties
    <3> QED BY <1>1, <2>2, <3>1, <3>2 DEF BackendInv, GraphicsQueueInv
  <2> QED BY <1>1, <2>1, <2>2, <2>3 DEF BackendInv, GraphicsQueueInv
<1>8. PresentQueueInv'
  <2>1. \A r \in Slots : renderFinished'[r] = "signalled" => r = i \/ renderFinished[r] = "signalled"
    BY <1>1, <1>5 DEF BackendInv, BackendTypes
  <2> QED BY <1>1, <1>4, <1>5, <2>1 DEF BackendInv, PresentQueueInv, Presented, Slots
<1>9. HeldInv'
  <2>1. \A r \in Slots : fences'[r] => imageAvailable'[r] = "unsignalled"
    BY <1>1, <1>5 DEF BackendInv, BackendTypes, HeldInv
  <2>2. step = "acquiring" => fences'[slot]
    BY <1>1, <1>5 DEF BackendInv, BackendTypes, HeldInv
  <2>3. step \in {"recording", "submitting"} =>
          /\ ~fences'[slot] /\ ~UsesSlot(slot)' /\ renderFinished'[image] = "unsignalled"
          /\ ~Presented(image)' /\ ~Rendered(image)'
    <3> HAVE step \in {"recording", "submitting"}
    <3>1. /\ ~fences[slot] /\ ~UsesSlot(slot) /\ renderFinished[image] = "unsignalled"
          /\ ~Presented(image) /\ ~Rendered(image) /\ slot \in Slots /\ image \in Slots
      BY <1>1 DEF BackendInv, HeldInv, BackendTypes
    <3>2. s # slot /\ i # image
      BY <1>3, <1>4, <3>1 DEF UsesSlot, Rendered
    <3>3. ~fences'[slot] /\ renderFinished'[image] = "unsignalled"
      BY <1>1, <1>5, <3>1, <3>2 DEF BackendInv, BackendTypes
    <3> QED BY <1>3, <1>5, <3>1, <3>3 DEF UsesSlot, Rendered, Presented
  <2> QED BY <1>1, <1>5, <2>1, <2>2, <2>3 DEF BackendInv, HeldInv, Slots
<1>10. ImagesAreShared'
  BY <1>1, <1>5 DEF BackendInv, ImagesAreShared
<1> QED BY <1>1, <1>5, <1>6, <1>7, <1>8, <1>9, <1>10 DEF BackendInv, BackendIsUp

\* The image whose work is finished is shown, and what it waited with can be signalled again.
LEMMA QueueForShowKeeps ==
  ASSUME BackendInv, QueueForShow
  PROVE  BackendInv'
<1> DEFINE Shows == [image : Slots, waits : Slots, generation : {generation}]
<1>1. BackendIsUp
  BY DEF QueueForShow, BackendInv
<1>2. presentQueue # <<>> /\ presentQueue \in Seq(Shows)
  BY <1>1 DEF QueueForShow, BackendInv, BackendTypes
<1> HIDE DEF Shows
<1>3. /\ presentQueue' \in Seq(Shows) /\ 1 \in DOMAIN presentQueue
      /\ \A k \in DOMAIN presentQueue' :
           k + 1 \in DOMAIN presentQueue /\ presentQueue'[k] = presentQueue[k + 1]
      /\ \A k \in DOMAIN presentQueue \ {1} : \E j \in DOMAIN presentQueue' : presentQueue'[j] = presentQueue[k]
      /\ Head(presentQueue) = presentQueue[1]
  BY <1>2, QueueTail DEF QueueForShow
<1>4. PICK i \in Slots : /\ i = presentQueue[1].image /\ presentQueue[1].waits = i
                         /\ renderFinished[i] = "signalled"
                         /\ renderFinished' = [renderFinished EXCEPT ![i] = "unsignalled"]
  BY <1>1, <1>3, EntriesNameSlots DEF QueueForShow, BackendInv, PresentQueueInv
<1>5. UNCHANGED <<device, swapchain, generation, meshes, commandBuffers, recorded, slot, image, step,
                  fences, imageAvailable, graphicsQueue>>
  BY DEF QueueForShow, hostVars
<1>6. \A r : r # i /\ Presented(r) => Presented(r)'
  BY <1>3, <1>4 DEF Presented
<1>7. \A r : Presented(r)' => Presented(r)
  BY <1>3 DEF Presented
<1>8. \A r \in Slots : renderFinished'[r] = IF r = i THEN "unsignalled" ELSE renderFinished[r]
  BY <1>1, <1>4 DEF BackendInv, BackendTypes
<1>9. BackendTypes'
  <2>1. presentQueue' \in Seq([image : Slots', waits : Slots', generation : {generation'}])
    BY <1>3, <1>5 DEF Shows, Slots
  <2> QED BY <1>1, <1>4, <1>5, <2>1 DEF BackendInv, BackendTypes, Slots
<1>10. GraphicsQueueInv'
  <2>1. \A k \in DOMAIN graphicsQueue : graphicsQueue[k].image # i /\ graphicsQueue[k].image \in Slots
    BY <1>1, <1>4, EntriesNameSlots DEF BackendInv, GraphicsQueueInv
  <2> QED BY <1>1, <1>5, <1>6, <1>8, <2>1 DEF BackendInv, GraphicsQueueInv
<1>11. PresentQueueInv'
  BY <1>1, <1>3, <1>5, <1>6, <1>8 DEF BackendInv, PresentQueueInv, Slots
<1>12. HeldInv'
  BY <1>1, <1>5, <1>7, <1>8 DEF BackendInv, BackendTypes, HeldInv, Slots, Rendered, UsesSlot
<1>13. ImagesAreShared'
  BY <1>1, <1>5 DEF BackendInv, ImagesAreShared
<1> QED BY <1>1, <1>5, <1>9, <1>10, <1>11, <1>12, <1>13 DEF BackendInv, BackendIsUp

\* What is on the screen, and what the window is like, the invariant says nothing of.
LEMMA OutsideKeeps ==
  ASSUME BackendInv, UNCHANGED <<hostVars, syncVars, graphicsQueue, presentQueue>>
  PROVE  BackendInv'
<1>1. UNCHANGED <<device, swapchain, generation, meshes, commandBuffers, recorded, slot, image, step, fences,
                  imageAvailable, renderFinished, graphicsQueue, presentQueue>>
  BY DEF hostVars, syncVars
<1>2. BackendTypes => BackendTypes'
  BY <1>1 DEF BackendTypes, Slots
<1>3. GraphicsQueueInv /\ PresentQueueInv => GraphicsQueueInv' /\ PresentQueueInv'
  BY <1>1 DEF GraphicsQueueInv, PresentQueueInv, Presented, Slots
<1>4. HeldInv /\ ImagesAreShared => HeldInv' /\ ImagesAreShared'
  BY <1>1 DEF HeldInv, ImagesAreShared, Presented, Rendered, UsesSlot, Slots
<1> QED BY <1>1, <1>2, <1>3, <1>4 DEF BackendInv, BackendIsUp

\* One more mesh leaves those that are drawn where they are.
LEMMA CreateMeshKeeps ==
  ASSUME BackendInv, meshes \in Nat, CreateMesh
  PROVE  BackendInv'
<1>1. UNCHANGED <<device, swapchain, generation, commandBuffers, recorded, slot, image, step, fences,
                  imageAvailable, renderFinished, graphicsQueue, presentQueue>>
  BY DEF CreateMesh, syncVars, queueVars
<1>2. 1..meshes \subseteq 1..meshes'
  BY DEF CreateMesh
<1>3. BackendIsUp /\ GraphicsQueueInv => GraphicsQueueInv'
  BY <1>1, <1>2 DEF GraphicsQueueInv, Presented
<1>4. BackendIsUp /\ HeldInv => HeldInv'
  BY <1>1, <1>2 DEF HeldInv, Presented, Rendered, UsesSlot, Slots
<1>5. BackendIsUp /\ BackendInv => BackendTypes' /\ PresentQueueInv' /\ ImagesAreShared'
  BY <1>1 DEF BackendInv, BackendTypes, PresentQueueInv, ImagesAreShared, Presented, Slots
<1> QED BY <1>1, <1>3, <1>4, <1>5 DEF BackendInv, BackendIsUp

-----------------------------------------------------------------------------
(* Steps of the engine.                                                    *)

\* What has begun goes on with a backend that keeps its invariant.
LEMMA FramesKeep ==
  ASSUME EngineInv, TickNext
  PROVE  EngineInv'
<1> USE DEF EngineInv, Frame, BackendIsUp
<1>1. CASE UpdateFrame
  <2>1. BackendInv'
    BY <1>1, OutsideKeeps DEF UpdateFrame, gpuVars, queueVars
  <2> QED BY <1>1, <2>1 DEF UpdateFrame, PartsInv, PhaseInv, IsUp, gpuVars, hostVars, surfaceVars, CollectDrawables
<1>2. CASE DrawFrameBegins
  <2>1. BackendIsUp /\ step = "idle"
    BY <1>2 DEF DrawFrameBegins, BeginFrame
  <2>2. slot' \in Slots \/ step' = "done"
    <3>1. swapchain.images \in Nat \ {0} /\ frameNumber \in Nat
      BY <2>1 DEF BackendInv, BackendTypes, PhaseInv
    <3>2. (frameNumber % swapchain.images) + 1 \in 1..swapchain.images
      BY <3>1
    <3> QED BY <1>2, <3>2 DEF DrawFrameBegins, BeginFrame, Slots
  <2>3. BackendInv'
    BY <1>2, <2>1, <2>2, HostMoves DEF DrawFrameBegins, BeginFrame
  <2> QED BY <1>2, <2>1, <2>3 DEF DrawFrameBegins, BeginFrame, PartsInv, PhaseInv, IsUp, surfaceVars, CollectDrawables
<1>3. CASE DrawFrameDraws
  <2>1. drawables \in Seq(Nat) /\ ToSet(drawables) \subseteq 1..meshes
    <3>1. drawables = IF system.debugLayer THEN <<1>> \o <<2>> ELSE <<1>> \o <<>>
      BY <1>3 DEF DrawFrameDraws, PhaseInv, CollectDrawables
    <3>2. /\ <<1>> \o <<2>> \in Seq(Nat) /\ ToSet(<<1>> \o <<2>>) \subseteq {1, 2}
          /\ <<1>> \o <<>> \in Seq(Nat) /\ ToSet(<<1>> \o <<>>) \subseteq {1}
      <4>1. <<1>> \in Seq(Nat) /\ <<2>> \in Seq(Nat) /\ <<>> \in Seq(Nat)
        OBVIOUS
      <4>2. \A i \in 1..2 : (<<1>> \o <<2>>)[i] = IF i <= 1 THEN <<1>>[i] ELSE <<2>>[i - 1]
        BY <4>1, ConcatProperties
      <4>3. <<1>> \o <<2>> \in Seq(Nat) /\ Len(<<1>> \o <<2>>) = 2
        BY <4>1, ConcatProperties
      <4>4. DOMAIN (<<1>> \o <<2>>) = 1..2
        BY <4>3, LenProperties
      <4>5. \A i \in DOMAIN (<<1>> \o <<2>>) : (<<1>> \o <<2>>)[i] \in {1, 2}
        BY <4>2, <4>4
      <4>6. <<1>> \o <<>> = <<1>>
        BY <4>1, ConcatEmptySeq
      <4> QED BY <4>1, <4>3, <4>5, <4>6 DEF ToSet
    <3>3. meshes \in Nat /\ meshes >= IF system.debugLayer THEN 2 ELSE 1
      BY <1>3 DEF DrawFrameDraws, PhaseInv
    <3> QED BY <3>1, <3>2, <3>3
  <2>2. BackendInv'
    BY <1>3, <2>1, DrawMeshesKeeps DEF DrawFrameDraws
  <2> QED BY <1>3, <2>2 DEF DrawFrameDraws, DrawMeshes, engineVars, PartsInv, PhaseInv, IsUp, surfaceVars, CollectDrawables
<1>4. CASE FrameEnds
  <2>1. BackendInv'
    BY <1>4, HostMoves DEF FrameEnds
  <2>2. frameNumber' \in Nat
    BY <1>4, FrameWrapIsMultiple DEF FrameEnds, PhaseInv
  <2> QED BY <1>4, <2>1, <2>2 DEF FrameEnds, PartsInv, PhaseInv, IsUp, surfaceVars
<1>5. CASE HostFrameNext /\ UNCHANGED engineVars
  <2>1. step \in Frame /\ BackendIsUp
    BY <1>5 DEF HostFrameNext, WaitForFence, Acquire, AcquireOutOfDate, Submit, Present, Resize
  <2>2. step' \in Frame /\ UNCHANGED <<system, surface, meshes>>
    BY <1>5 DEF HostFrameNext, WaitForFence, Acquire, AcquireOutOfDate, Submit, Present, Resize, surfaceVars
  <2>3. BackendInv'
    <3>1. CASE WaitForFence
      <4>1. slot \in Slots /\ fences[slot]
        BY <3>1 DEF WaitForFence, BackendInv, BackendTypes
      <4> QED BY <2>1, <3>1, <4>1, HostMoves DEF WaitForFence
    <3>2. CASE AcquireOutOfDate
      BY <2>1, <3>2, HostMoves DEF AcquireOutOfDate
    <3> QED BY <1>5, <3>1, <3>2, AcquireKeeps, SubmitKeeps, PresentKeeps, ResizeKeeps DEF HostFrameNext
  <2> QED BY <1>5, <2>1, <2>2, <2>3 DEF engineVars, PartsInv, PhaseInv, IsUp, CollectDrawables
<1> QED BY <1>1, <1>2, <1>3, <1>4, <1>5 DEF TickNext

\* The engine comes up.
LEMMA StartKeeps ==
  ASSUME EngineInv, StartNext
  PROVE  EngineInv'
<1> USE DEF EngineInv, Frame, BackendIsUp
<1>1. CASE CreateWindow
  <2>1. BackendInv'
    BY <1>1, OutsideKeeps DEF CreateWindow, gpuVars, queueVars
  <2> QED BY <1>1, <2>1 DEF CreateWindow, ComeUp, PartsInv, PhaseInv, IsUp, NextDown, Parts, Services, gpuVars,
                            hostVars, surfaceVars
<1>2. CASE CreateGpuAndRenderer
  <2>1. BackendInv'
    BY <1>2, ConstructBackendKeeps DEF CreateGpuAndRenderer
  <2>2. step' = "idle" /\ UNCHANGED <<system, surface, meshes>>
    BY <1>2 DEF CreateGpuAndRenderer, ConstructBackend
  <2> QED BY <1>2, <2>1, <2>2 DEF CreateGpuAndRenderer, ComeUp, PartsInv, PhaseInv, IsUp, NextDown, Parts, Services
<1>3. CASE StartServices
  <2>1. BackendInv'
    BY <1>3, OutsideKeeps DEF StartServices, gpuVars, queueVars
  <2>2. PartsInv'
    BY <1>3 DEF StartServices, ComeUp, PartsInv, IsUp, NextDown, Parts, Services
  <2> QED BY <1>3, <2>1, <2>2 DEF StartServices, ComeUp, PhaseInv, IsUp, gpuVars, hostVars, surfaceVars
<1>4. CASE OnStart
  <2>1. BackendInv'
    BY <1>4, CreateMeshKeeps DEF OnStart, PhaseInv
  <2>2. PartsInv'
    BY <1>4 DEF OnStart, PartsInv, IsUp
  <2>3. meshes' = meshes + 1 /\ UNCHANGED <<step, system, surface, alive, frameNumber, drawables>>
    BY <1>4 DEF OnStart, CreateMesh, surfaceVars
  <2> QED BY <1>4, <2>1, <2>2, <2>3 DEF OnStart, PhaseInv, IsUp, CollectDrawables
<1> QED BY <1>1, <1>2, <1>3, <1>4 DEF StartNext

\* The engine goes down.
LEMMA EndKeeps ==
  ASSUME EngineInv, EndNext
  PROVE  EngineInv'
<1> USE DEF EngineInv, Frame, BackendIsUp
<1>1. CASE StopServices
  <2>1. PICK k \in DOMAIN ServicesDown :
          /\ IsUp(ServicesDown[k]) /\ \A j \in 1..(k - 1) : ~IsUp(ServicesDown[j])
          /\ alive' = alive \ {ServicesDown[k]}
    BY <1>1 DEF StopServices, GoesDown
  <2>2. UNCHANGED <<phase, frameNumber, drawables, gpuVars>> /\ phase = "ended"
    BY <1>1 DEF StopServices
  <2>3. BackendInv'
    BY <2>2, OutsideKeeps DEF gpuVars, queueVars
  <2>4. k \in 1..4 /\ ServicesDown[1] = "taskSystem" /\ ServicesDown[2] = "parkingLot"
        /\ ServicesDown[3] = "mainThread" /\ ServicesDown[4] = "cpu"
    BY DEF ServicesDown
  <2>5. PartsInv' /\ (IsUp("gpu")' <=> IsUp("gpu"))
    <3>1. CASE k = 1
      BY <2>1, <2>2, <2>4, <3>1 DEF PartsInv, IsUp, NextDown
    <3>2. CASE k = 2
      <4>1. ~IsUp("taskSystem")
        BY <2>1, <2>4, <3>2
      <4> QED BY <2>1, <2>2, <2>4, <3>2, <4>1 DEF PartsInv, IsUp, NextDown
    <3>3. CASE k = 3
      <4>1. ~IsUp("parkingLot")
        BY <2>1, <2>4, <3>3
      <4> QED BY <2>1, <2>2, <2>4, <3>3, <4>1 DEF PartsInv, IsUp, NextDown
    <3>4. CASE k = 4
      <4>1. ~IsUp("mainThread")
        BY <2>1, <2>4, <3>4
      <4> QED BY <2>1, <2>2, <2>4, <3>4, <4>1 DEF PartsInv, IsUp, NextDown
    <3> QED BY <2>4, <3>1, <3>2, <3>3, <3>4
  <2> QED BY <2>2, <2>3, <2>5 DEF PhaseInv, gpuVars, hostVars, surfaceVars
<1>2. CASE DestroyRenderer
  <2>1. BackendInv'
    BY <1>2, OutsideKeeps DEF DestroyRenderer, gpuVars, queueVars
  <2> QED BY <1>2, <2>1 DEF DestroyRenderer, GoesDown, PartsInv, PhaseInv, IsUp, NextDown, gpuVars, hostVars, surfaceVars
<1>3. CASE DestroyGpu
  <2>1. BackendInv' /\ step' = "gone" /\ step = "idle" /\ meshes' = 0 /\ UNCHANGED <<system, surface>>
    BY <1>3 DEF DestroyGpu, DestroyBackend, DeviceIsIdle, BackendInv, surfaceVars
  <2> QED BY <1>3, <2>1 DEF DestroyGpu, GoesDown, PartsInv, PhaseInv, IsUp, NextDown
<1>4. CASE DestroyWindow
  <2>1. BackendInv'
    BY <1>4, OutsideKeeps DEF DestroyWindow, gpuVars, queueVars
  <2> QED BY <1>4, <2>1 DEF DestroyWindow, GoesDown, PartsInv, PhaseInv, IsUp, NextDown, gpuVars, hostVars, surfaceVars
<1> QED BY <1>1, <1>2, <1>3, <1>4 DEF EndNext

\* The loop is left, the device works, the window changes.
LEMMA OthersKeep ==
  ASSUME EngineInv, LeaveLoop \/ (DeviceNext /\ UNCHANGED engineVars) \/ (SurfaceChanges /\ UNCHANGED engineVars)
                    \/ UNCHANGED frameVars
  PROVE  EngineInv'
<1> USE DEF EngineInv, Frame, BackendIsUp
<1>1. CASE LeaveLoop
  <2>1. BackendInv'
    BY <1>1, OutsideKeeps DEF LeaveLoop, gpuVars, queueVars
  <2> QED BY <1>1, <2>1 DEF LeaveLoop, PartsInv, PhaseInv, IsUp, gpuVars, hostVars, surfaceVars
<1>2. CASE DeviceNext /\ UNCHANGED engineVars
  <2>1. UNCHANGED <<system, surface, meshes, step>>
    BY <1>2 DEF DeviceNext, ImageBecomesAvailable, Complete, QueueForShow, ShowNext, hostVars, surfaceVars
  <2>2. BackendInv'
    <3>1. CASE ImageBecomesAvailable /\ ~BackendIsUp
      BY <3>1, <2>1 DEF ImageBecomesAvailable, BackendInv, queueVars
    <3>2. CASE ShowNext
      BY <3>2, OutsideKeeps DEF ShowNext
    <3> QED BY <1>2, <3>1, <3>2, ImageBecomesAvailableKeeps, CompleteKeeps, QueueForShowKeeps DEF DeviceNext
  <2> QED BY <1>2, <2>1, <2>2 DEF engineVars, PartsInv, PhaseInv, IsUp, CollectDrawables
<1>3. CASE SurfaceChanges /\ UNCHANGED engineVars
  <2>1. BackendInv'
    BY <1>3, OutsideKeeps DEF SurfaceChanges, queueVars
  <2> QED BY <1>3, <2>1 DEF SurfaceChanges, engineVars, hostVars, PartsInv, PhaseInv, IsUp, CollectDrawables
<1>4. CASE UNCHANGED frameVars
  <2>1. BackendInv'
    BY <1>4, OutsideKeeps DEF frameVars, gpuVars, queueVars
  <2> QED BY <1>4, <2>1 DEF frameVars, engineVars, gpuVars, hostVars, surfaceVars, PartsInv, PhaseInv, IsUp, CollectDrawables
<1> QED BY <1>1, <1>2, <1>3, <1>4

\* What the code waits for before it uses a slot, an image or a part again is enough on
\* every machine: for any devices and surfaces, any number of images the driver makes, and
\* any changes of the window (backend.cpp:145, 188-245, 257, 377, engine.cpp:64).
THEOREM ResourcesAreNotReusedEarly == EngineSpec => []ResourcesOutliveTheirUse
<1>1. EngineInit => EngineInv
  <2> SUFFICES ASSUME EngineInit PROVE EngineInv
    OBVIOUS
  <2>1. BackendInv
    BY DEF EngineInit, BackendInit, BackendInv, BackendIsUp
  <2> QED BY <2>1 DEF EngineInit, BackendInit, EngineInv, PartsInv, PhaseInv, IsUp, BackendIsUp, Frame
<1>2. EngineInv /\ [EngineNext]_frameVars => EngineInv'
  BY FramesKeep, StartKeeps, EndKeeps, OthersKeep DEF EngineNext
<1>3. EngineInv => ResourcesOutliveTheirUse
  <2> SUFFICES ASSUME EngineInv PROVE ResourcesOutliveTheirUse
    OBVIOUS
  <2>1. NothingInUseIsReused
    <3>1. CASE ~BackendIsUp
      BY <3>1 DEF EngineInv, BackendInv, BackendIsUp, NothingInUseIsReused
    <3>2. CASE BackendIsUp
      <4>1. step = "acquiring" => ~UsesSlot(slot) /\ imageAvailable[slot] = "unsignalled"
        BY <3>2 DEF EngineInv, BackendInv, BackendTypes, HeldInv, GraphicsQueueInv, UsesSlot
      <4>2. step \in {"recording", "submitting"} =>
              /\ ~UsesSlot(slot) /\ renderFinished[image] = "unsignalled" /\ ~Presented(image) /\ ~Rendered(image)
        BY <3>2 DEF EngineInv, BackendInv, HeldInv
      <4>3. /\ \A k \in DOMAIN graphicsQueue :
                 /\ graphicsQueue[k].signals = graphicsQueue[k].image
                 /\ commandBuffers[graphicsQueue[k].slot] = "pending"
                 /\ ToSet(graphicsQueue[k].draws) \subseteq 1..meshes
            /\ \A k \in DOMAIN presentQueue : presentQueue[k].waits = presentQueue[k].image
        BY <3>2 DEF EngineInv, BackendInv, GraphicsQueueInv, PresentQueueInv
      <4> QED BY <3>2, <4>1, <4>2, <4>3, EntriesNameSlots
              DEF EngineInv, BackendInv, NothingInUseIsReused, SignalSemaphore, UsesSlot, Presented, Rendered
    <3> QED BY <3>1, <3>2
  <2>2. ImagesAreShared
    BY DEF EngineInv, BackendInv, BackendIsUp, ImagesAreShared
  <2>3. PartsOutliveTheirUsers
    <3>1. \A part \in alive : Needs[part] \subseteq alive
      <4> SUFFICES ASSUME NEW part \in alive PROVE Needs[part] \subseteq alive
        OBVIOUS
      <4>1. part \in Parts
        BY DEF EngineInv, PartsInv
      <4>2. part \in Services => phase # "constructing"
        BY DEF EngineInv, PartsInv
      <4> QED BY <4>1, <4>2 DEF EngineInv, PartsInv, IsUp, NextDown, Needs, Parts, Services
    <3>2. ~IsUp("gpu") => graphicsQueue = <<>> /\ presentQueue = <<>>
      BY DEF EngineInv, PhaseInv, BackendInv
    <3> QED BY <3>1, <3>2 DEF PartsOutliveTheirUsers
  <2> QED BY <2>1, <2>2, <2>3 DEF ResourcesOutliveTheirUse
<1> QED BY <1>1, <1>2, <1>3, PTL DEF EngineSpec
=============================================================================
