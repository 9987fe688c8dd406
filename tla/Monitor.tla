------------------------------ MODULE Monitor ------------------------------
(***************************************************************************)
(* The mutex and the condition variable (core/sync/mutex.h, mutex.cpp,     *)
(* condition_variable.cpp) on top of what the parking lot promises.        *)
(*                                                                         *)
(* A mutex is one word of two bits, LOCKED and PARKED.  A step is one      *)
(* atomic operation on the word, or one operation of the parking lot with  *)
(* the callbacks it runs under its bucket lock.  Notifying reads the word, *)
(* moves or wakes waiters and marks the word in three steps, and holds the *)
(* buckets of both addresses throughout: nobody parks on or unparks either *)
(* meanwhile, but the word can still be changed.  Spinning is a loop of    *)
(* failed attempts, and a compare-and-swap may fail for no reason.         *)
(***************************************************************************)
EXTENDS WaitQueues, Naturals

CONSTANTS Mutex, Condition          \* the two addresses

ASSUME MonitorAssumption ==
  Mutex \in Keys /\ Condition \in Keys /\ Mutex # Condition

VARIABLES
  locked, parked,        \* the mutex's m_state
  doing,                 \* per thread: the call it is in, and how far
  inside                 \* per thread: whether it holds the mutex

monitorVars == <<locked, parked, doing, inside>>

Notifying == {"wakeOne", "moveOne", "wakeAll", "marked", "moveAll"}

BucketsFree == \A t \in Threads : doing[t] \notin Notifying

Now(t, step) == doing' = [doing EXCEPT ![t] = step]

MonitorInit ==
  /\ Init
  /\ locked = FALSE
  /\ parked = FALSE
  /\ doing = [t \in Threads |-> "idle"]
  /\ inside = [t \in Threads |-> FALSE]

-----------------------------------------------------------------------------
(* Mutex::lock.                                                            *)

\* The first attempt fails, and lockSlow begins.
StartLocking(t) ==
  /\ doing[t] = "idle" /\ ~inside[t]
  /\ Now(t, "locking")
  /\ UNCHANGED <<vars, locked, parked, inside>>

\* Mutant: the word is compared with LOCKED, and its other bit forgotten.
LockUnlocked(t) ==
  /\ doing[t] = "locking" \/ (doing[t] = "idle" /\ ~inside[t])
  /\ ~locked \/ parked
  /\ locked' = TRUE
  /\ inside' = [inside EXCEPT ![t] = TRUE]
  /\ Now(t, "idle")
  /\ UNCHANGED <<vars, parked>>

\* The word says nobody holds the mutex: take it, and keep its PARKED bit.
Lock(t) ==
  /\ doing[t] = "locking" \/ (doing[t] = "idle" /\ ~inside[t])
  /\ ~locked
  /\ locked' = TRUE
  /\ inside' = [inside EXCEPT ![t] = TRUE]
  /\ Now(t, "idle")
  /\ UNCHANGED <<vars, parked>>

\* Somebody holds it: say that a thread is about to park.
MarkBeforeParking(t) ==
  /\ doing[t] = "locking"
  /\ locked
  /\ parked' = TRUE
  /\ Now(t, "parking")
  /\ UNCHANGED <<vars, locked, inside>>

\* Mutant: the thread parks without looking at the word again.
ParkBlindly(t) ==
  /\ doing[t] = "parking"
  /\ BucketsFree
  /\ Join(t, Mutex) /\ Now(t, "asleep")
  /\ UNCHANGED <<locked, parked, inside>>

\* Under the bucket's lock the word must still say LOCKED and PARKED.
ParkOnMutex(t) ==
  /\ doing[t] = "parking"
  /\ BucketsFree
  /\ IF locked /\ parked
       THEN Join(t, Mutex) /\ Now(t, "asleep")
       ELSE Now(t, "locking") /\ UNCHANGED vars
  /\ UNCHANGED <<locked, parked, inside>>

\* park() has returned: lockSlow tries again, and so does a wait that ends.
Unparked(t) ==
  /\ doing[t] = "asleep"
  /\ Return(t)
  /\ Now(t, "locking")
  /\ UNCHANGED <<locked, parked, inside>>

-----------------------------------------------------------------------------
(* Mutex::unlock, from a client or from within a wait.                     *)

\* Nobody has parked, and the word becomes 0; or it is to be unlockSlow.
Unlock(t) ==
  /\ (doing[t] = "idle" /\ inside[t]) \/ doing[t] = "releasing"
  /\ IF parked
       THEN /\ Now(t, IF doing[t] = "idle" THEN "unlockSlow" ELSE "releaseSlow")
            /\ UNCHANGED <<locked, inside>>
       ELSE /\ locked' = FALSE
            /\ inside' = [inside EXCEPT ![t] = FALSE]
            /\ Now(t, IF doing[t] = "idle" THEN "idle" ELSE "asleep")
  /\ UNCHANGED <<vars, parked>>

\* The longest sleeper is woken, and the word says whether others remain.
UnlockSlow(t) ==
  /\ doing[t] \in {"unlockSlow", "releaseSlow"}
  /\ BucketsFree
  /\ IF waiting[Mutex] = <<>> THEN UNCHANGED vars ELSE WakeFirst(Mutex)
  /\ locked' = FALSE
  /\ parked' = (Len(waiting[Mutex]) > 1)
  /\ inside' = [inside EXCEPT ![t] = FALSE]
  /\ Now(t, IF doing[t] = "unlockSlow" THEN "idle" ELSE "asleep")

-----------------------------------------------------------------------------
(* ConditionVariable::wait, notifyOne and notifyAll.                       *)

\* The holder queues on the condition, and unlocks before it sleeps: it may be
\* notified in between.
Wait(t) ==
  /\ doing[t] = "idle" /\ inside[t]
  /\ BucketsFree
  /\ Join(t, Condition)
  /\ Now(t, "releasing")
  /\ UNCHANGED <<locked, parked, inside>>

\* Any thread may notify.  markParkedIfLocked decides: the waiters of a mutex
\* that is held need not run before it is unlocked.
Notify(t) ==
  /\ doing[t] = "idle"
  /\ BucketsFree
  /\ parked' = (parked \/ locked)
  /\ \E all \in BOOLEAN :
       Now(t, IF all THEN IF locked THEN "moveAll" ELSE "wakeAll"
                     ELSE IF locked THEN "moveOne" ELSE "wakeOne")
  /\ UNCHANGED <<vars, locked, inside>>

\* Nobody waits; or the first waiter, or all, wait for the mutex instead.
MoveWaiters(t) ==
  /\ doing[t] \in {"moveOne", "moveAll"}
  /\ IF waiting[Condition] = <<>> THEN UNCHANGED vars
     ELSE IF doing[t] = "moveOne" THEN MoveFirst(Condition, Mutex)
     ELSE MoveAll(Condition, Mutex)
  /\ Now(t, "idle")
  /\ UNCHANGED <<locked, parked, inside>>

\* Mutant: the callback looks at the wrong flag, and never marks.
MarkNothing(t) ==
  /\ doing[t] = "wakeAll"
  /\ Now(t, "marked")
  /\ UNCHANGED <<vars, locked, parked, inside>>

\* notifyAll marks the word when it moves anyone, before it lets the first go.
MarkMoved(t) ==
  /\ doing[t] = "wakeAll"
  /\ parked' = (parked \/ Len(waiting[Condition]) > 1)
  /\ Now(t, "marked")
  /\ UNCHANGED <<vars, locked, inside>>

\* The first waiter is woken, and notifyAll has moved the others.
WakeWaiter(t) ==
  /\ doing[t] \in {"wakeOne", "marked"}
  /\ IF waiting[Condition] = <<>> THEN UNCHANGED vars
     ELSE IF doing[t] = "wakeOne" THEN WakeFirst(Condition)
     ELSE WakeFirstMoveRest(Condition, Mutex)
  /\ Now(t, "idle")
  /\ UNCHANGED <<locked, parked, inside>>

-----------------------------------------------------------------------------

Proceed(t) ==
  \/ doing[t] # "idle" /\ Lock(t)
  \/ MarkBeforeParking(t) \/ ParkOnMutex(t) \/ Unparked(t)
  \/ Unlock(t) \/ UnlockSlow(t)
  \/ MoveWaiters(t) \/ WakeWaiter(t) \/ MarkMoved(t)

MonitorNext ==
  \E t \in Threads : StartLocking(t) \/ Lock(t) \/ Wait(t) \/ Notify(t) \/ Proceed(t)

MonitorSpec == MonitorInit /\ [][MonitorNext]_<<vars, monitorVars>>

\* A thread inside a call keeps running, a client unlocks what it has locked,
\* and a bucket's lock that is free time and again is got in the end.
MonitorFairness ==
  \A t \in Threads :
    SF_<<vars, monitorVars>>(Proceed(t)) /\ SF_<<vars, monitorVars>>(Unlock(t))

-----------------------------------------------------------------------------
(* Properties.                                                             *)

\* However attempts, wake-ups and notifications overlap, one thread at most is
\* between lock and unlock, and then the word says so; a thread that has queued
\* on the condition is still inside until it has unlocked.
HeldByOne ==
  /\ \A t, u \in Threads : inside[t] /\ inside[u] => t = u
  /\ \A t \in Threads : inside[t] => locked

\* An unlock looks for sleepers only when the PARKED bit is set: it is set
\* whenever the mutex has sleepers, also those a notification has moved there.
SleepersAreMarked ==
  waiting[Mutex] # <<>> => parked

\* Each sleeper of the mutex is woken in the end, whoever takes the mutex in
\* between and however it has come to sleep there.
MutexSleeperIsWoken ==
  \A t \in Threads : (\E n \in DOMAIN waiting[Mutex] : waiting[Mutex][n] = t)
    ~> ~(\E n \in DOMAIN waiting[Mutex] : waiting[Mutex][n] = t)
=============================================================================
