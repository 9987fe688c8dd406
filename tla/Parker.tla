------------------------------- MODULE Parker -------------------------------
(***************************************************************************)
(* The parker (core/sync/parker.cpp, parker_linux.cpp, parker_macos.cpp,   *)
(* parker_windows.cpp): one word that a thread sets to 1, sleeps on in the *)
(* kernel until it is 0, for a limited time or not, and that another sets  *)
(* to 0 before it asks the kernel to wake the sleeper.  That request comes *)
(* after the bucket's lock has been given back: the sleeper may be up by   *)
(* then, and asleep again.  The kernel compares the word and puts the      *)
(* thread to sleep in one step, and lets it go for no reason at times.     *)
(*                                                                         *)
(* Time is counted in steps of the clock; Windows sleeps for whole units   *)
(* of UnitLength steps, rounded up, and not at all to the end of a wait    *)
(* of more than MaxUnits.                                                  *)
(***************************************************************************)
EXTENDS Integers

CONSTANTS
  UnitLength, MaxUnits,
  MaxClock,              \* bounds the clock: no wait begins that could pass it
  Timeouts               \* of the calls to parkFor

ASSUME ParkerAssumption ==
  /\ UnitLength \in Nat \ {0} /\ MaxUnits \in Nat
  /\ MaxClock \in Nat /\ Timeouts \subseteq Nat

VARIABLES
  onWindows,             \* the platform of this build
  clock,
  state,                 \* m_state
  parking,               \* the parking thread: the call it is in, and how far
  expiry,                \* of its parkFor; Never in park
  alarm,                 \* when the kernel lets it go
  waking                 \* the waking thread: whether it has yet to call wake

parkerVars == <<onWindows, clock, state, parking, expiry, alarm, waking>>

Never == -1

Ceil(d) == ((d + UnitLength - 1) \div UnitLength)

\* How long the kernel is asked to sleep: Windows counts whole units.
Sleep(remaining) ==
  IF ~onWindows THEN remaining
  ELSE IF Ceil(remaining) > MaxUnits THEN Never ELSE Ceil(remaining) * UnitLength

ParkerInit ==
  /\ onWindows \in BOOLEAN
  /\ clock = 0
  /\ state = 0
  /\ parking = "no"
  /\ expiry = Never
  /\ alarm = Never
  /\ waking = FALSE

-----------------------------------------------------------------------------

\* The thread queues itself, and with a timeout computes when it expires.
Prepare ==
  /\ parking = "no"
  /\ state' = 1
  /\ expiry' \in
       {Never} \cup {clock + d : d \in {e \in Timeouts : clock + e + UnitLength <= MaxClock}}
  /\ parking' = "looking"
  /\ UNCHANGED <<onWindows, clock, alarm, waking>>

\* The loop finds the word 0: park() returns, and parkFor() with true.
FindCommitted ==
  /\ parking = "looking"
  /\ state = 0
  /\ parking' = "no"
  /\ expiry' = Never
  /\ UNCHANGED <<onWindows, clock, state, alarm, waking>>

\* parkFor finds that its time has passed, and returns false: the thread leaves
\* its queue, unless somebody has just taken it from there.
FindExpired ==
  /\ parking = "looking"
  /\ state = 1 /\ expiry # Never /\ expiry <= clock
  /\ parking' = "expired"
  /\ expiry' = Never
  /\ UNCHANGED <<onWindows, clock, state, alarm, waking>>

\* Nobody can unpark it any more; the word stays as it is.
LeaveParker ==
  /\ parking = "expired"
  /\ parking' = "no"
  /\ UNCHANGED <<onWindows, clock, state, expiry, alarm, waking>>

\* Otherwise it asks the kernel to sleep,
FindUncommitted ==
  /\ parking = "looking"
  /\ state = 1 /\ (expiry = Never \/ clock < expiry)
  /\ parking' = "sleeping"
  /\ UNCHANGED <<onWindows, clock, state, expiry, waking>>
  /\ alarm' = IF expiry = Never THEN Never
              ELSE LET d == Sleep(expiry - clock) IN IF d = Never THEN Never ELSE clock + d

\* which it does if the word is still 1.
FallAsleep ==
  /\ parking = "sleeping"
  /\ parking' = IF state = 1 THEN "asleep" ELSE "looking"
  /\ UNCHANGED <<onWindows, clock, state, expiry, alarm, waking>>

\* The kernel lets it go for no reason, or because the time has passed.
WakeUnasked ==
  /\ parking = "asleep"
  /\ parking' = "looking"
  /\ UNCHANGED <<onWindows, clock, state, expiry, alarm, waking>>

TimeIsUp ==
  /\ parking = "asleep" /\ alarm # Never /\ alarm <= clock
  /\ parking' = "looking"
  /\ UNCHANGED <<onWindows, clock, state, expiry, alarm, waking>>

-----------------------------------------------------------------------------

\* Mutant: the wake-up is asked for before the commit rather than after.
CommitUnparkAfterWake ==
  /\ ~waking
  /\ parking # "no" /\ state = 1
  /\ state' = 0
  /\ UNCHANGED <<onWindows, clock, parking, expiry, alarm, waking>>

\* Somebody has taken the thread from its queue.
CommitUnpark ==
  /\ ~waking
  /\ parking # "no" /\ state = 1
  /\ state' = 0
  /\ waking' = TRUE
  /\ UNCHANGED <<onWindows, clock, parking, expiry, alarm>>

\* The kernel wakes the thread if it sleeps now, for whatever wait.
Wake ==
  /\ waking
  /\ waking' = FALSE
  /\ parking' = IF parking = "asleep" THEN "looking" ELSE parking
  /\ UNCHANGED <<onWindows, clock, state, expiry, alarm>>

\* Time is looked at only while a thread parks.
Tick ==
  /\ parking # "no"
  /\ clock < MaxClock
  /\ clock' = clock + 1
  /\ UNCHANGED <<onWindows, state, parking, expiry, alarm, waking>>

-----------------------------------------------------------------------------

Look ==
  FindCommitted \/ FindExpired \/ LeaveParker \/ FindUncommitted \/ FallAsleep

ParkerNext == Prepare \/ Look \/ WakeUnasked \/ TimeIsUp \/ CommitUnpark \/ Wake \/ Tick

ParkerSpec == ParkerInit /\ [][ParkerNext]_parkerVars

\* A thread that is not asleep keeps running, the kernel keeps its timeouts and
\* the clock advances.
ParkerFairness ==
  /\ WF_parkerVars(Look) /\ WF_parkerVars(TimeIsUp)
  /\ WF_parkerVars(Wake) /\ WF_parkerVars(Tick)

-----------------------------------------------------------------------------
(* Properties.                                                             *)

\* A thread sleeps on after its unpark has been committed only as long as the
\* wake-up is still to come, however late, and whichever wait it was meant for.
NoWakeUpMissed == parking = "asleep" /\ state = 0 => waking
=============================================================================
