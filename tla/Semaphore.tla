----------------------------- MODULE Semaphore -----------------------------
(***************************************************************************)
(* The semaphore (core/sync/semaphore.h, semaphore.cpp) on top of what the *)
(* parking lot promises: a counter, and a queue of those who found it at   *)
(* 0.  A release adds to the counter and then wakes one thread, in two     *)
(* steps, and anybody may take the permit in between or before the woken   *)
(* thread does.                                                            *)
(***************************************************************************)
EXTENDS WaitQueues, Naturals, FiniteSets

CONSTANTS
  Permits,               \* the address
  InitialCount, MaxCount \* a release that would pass MaxCount is not modelled

ASSUME SemaphoreAssumption ==
  /\ Permits \in Keys /\ InitialCount \in Nat /\ MaxCount \in Nat
  /\ IsFiniteSet(Threads)

VARIABLES
  count,                 \* m_count
  acquiring              \* per thread: the call it is in, and how far

semaphoreVars == <<count, acquiring>>

Then(t, step) == acquiring' = [acquiring EXCEPT ![t] = step]

SemaphoreInit ==
  /\ Init
  /\ count = InitialCount
  /\ acquiring = [t \in Threads |-> "no"]

StartAcquire(t) ==
  /\ acquiring[t] = "no"
  /\ Then(t, "trying")
  /\ UNCHANGED <<vars, count>>

\* tryAcquire takes a permit, and acquire returns,
TryAcquire(t) ==
  /\ acquiring[t] = "trying"
  /\ count > 0
  /\ count' = count - 1
  /\ Then(t, "no")
  /\ UNCHANGED vars

\* or finds none, and acquire parks.
FindNoPermit(t) ==
  /\ acquiring[t] = "trying"
  /\ count = 0
  /\ Then(t, "parking")
  /\ UNCHANGED <<vars, count>>

\* Mutant: the thread parks without looking at the counter again.
ParkOnPermitsBlindly(t) ==
  /\ acquiring[t] = "parking"
  /\ Join(t, Permits) /\ Then(t, "asleep")
  /\ UNCHANGED count

\* Under the bucket's lock the counter must still be 0.
ParkOnPermits(t) ==
  /\ acquiring[t] = "parking"
  /\ IF count = 0
       THEN Join(t, Permits) /\ Then(t, "asleep")
       ELSE Then(t, "trying") /\ UNCHANGED vars
  /\ UNCHANGED count

\* park() has returned, and acquire tries again.
WokenForPermit(t) ==
  /\ acquiring[t] = "asleep"
  /\ Return(t)
  /\ Then(t, "trying")
  /\ UNCHANGED count

\* release adds a permit,
AddPermit(t) ==
  /\ acquiring[t] = "no"
  /\ count < MaxCount
  /\ count' = count + 1
  /\ Then(t, "releasing")
  /\ UNCHANGED vars

\* and then wakes the longest sleeper, if there is one.
WakeForPermit(t) ==
  /\ acquiring[t] = "releasing"
  /\ IF waiting[Permits] = <<>> THEN UNCHANGED vars ELSE WakeFirst(Permits)
  /\ Then(t, "no")
  /\ UNCHANGED count

AcquireOrRelease(t) ==
  \/ TryAcquire(t) \/ FindNoPermit(t) \/ ParkOnPermits(t)
  \/ WokenForPermit(t) \/ WakeForPermit(t)

SemaphoreNext ==
  \E t \in Threads : StartAcquire(t) \/ AddPermit(t) \/ AcquireOrRelease(t)

SemaphoreSpec == SemaphoreInit /\ [][SemaphoreNext]_<<vars, semaphoreVars>>

\* A thread inside a call keeps running.
SemaphoreFairness == \A t \in Threads : WF_<<vars, semaphoreVars>>(AcquireOrRelease(t))

-----------------------------------------------------------------------------
(* Properties.                                                             *)

\* Those who may still take a permit, or have yet to wake somebody for it.
Awake ==
  {t \in Threads :
     \/ acquiring[t] \in {"trying", "parking", "releasing"}
     \/ acquiring[t] = "asleep" /\ place[t] = "woken"}

\* No permit lies unused while a thread sleeps for one: as long as somebody
\* sleeps, there is for each permit a thread that may take it or is about to
\* wake a sleeper.  So of several releases in a row none is lost, although
\* each wakes one thread at most and permits are taken out of turn.
NoPermitSleptOn ==
  waiting[Permits] # <<>> => count <= Cardinality(Awake)
=============================================================================
