----------------------------- MODULE SyncProofs -----------------------------
(***************************************************************************)
(* For any number of threads: the mutex has one holder at most, and its    *)
(* PARKED bit is set whenever it has sleepers; a semaphore leaves no       *)
(* permit unused while a thread sleeps for one; and a parker whose unpark  *)
(* has been committed sleeps on only until the wake-up comes.              *)
(***************************************************************************)
EXTENDS Monitor, Semaphore, Parker, SequenceTheorems, FiniteSetTheorems, TLAPS

-----------------------------------------------------------------------------
(* The mutex and the condition variable.                                   *)

Steps ==
  {"idle", "locking", "parking", "asleep", "unlockSlow", "releasing", "releaseSlow"}
    \cup Notifying

\* The types of the state.
MonitorTypeOK ==
  /\ waiting \in [Keys -> Seq(Threads)]
  /\ place \in [Threads -> {"out", "in", "woken"}]
  /\ locked \in BOOLEAN
  /\ parked \in BOOLEAN
  /\ doing \in [Threads -> Steps]
  /\ inside \in [Threads -> BOOLEAN]

\* Who is on the way to lock does not hold the mutex, who is on the way to
\* unlock does.
InsideAsSaid ==
  \A t \in Threads :
    /\ doing[t] \in {"locking", "parking", "asleep"} => ~inside[t]
    /\ doing[t] \in {"unlockSlow", "releasing", "releaseSlow"} => inside[t]

HolderInv == MonitorTypeOK /\ HeldByOne /\ InsideAsSaid

\* The first of a queue is a thread, and so are those behind it.
LEMMA HeadIsThread ==
  ASSUME MonitorTypeOK, NEW k \in Keys, waiting[k] # <<>>
  PROVE  Head(waiting[k]) \in Threads /\ Tail(waiting[k]) \in Seq(Threads)
BY DEF MonitorTypeOK

\* The parking lot's operations keep the types of its state.
LEMMA ParkingKeepsTypes ==
  ASSUME MonitorTypeOK, MonitorAssumption,
         \/ \E t \in Threads, k \in Keys : Join(t, k)
         \/ \E k \in Keys : WakeFirst(k)
         \/ \E k, l \in Keys : MoveFirst(k, l) \/ MoveAll(k, l) \/ WakeFirstMoveRest(k, l)
         \/ \E t \in Threads : Return(t)
         \/ UNCHANGED vars
  PROVE  /\ waiting' \in [Keys -> Seq(Threads)]
         /\ place' \in [Threads -> {"out", "in", "woken"}]
<1> USE DEF MonitorTypeOK
<1>1. CASE \E t \in Threads, k \in Keys : Join(t, k)
  BY <1>1 DEF Join
<1>2. CASE \E k \in Keys : WakeFirst(k)
  <2> PICK k \in Keys : WakeFirst(k)  BY <1>2
  <2>1. Head(waiting[k]) \in Threads /\ Tail(waiting[k]) \in Seq(Threads)
    BY HeadIsThread DEF WakeFirst
  <2> QED  BY <2>1 DEF WakeFirst
<1>3. CASE \E k, l \in Keys : MoveFirst(k, l) \/ MoveAll(k, l) \/ WakeFirstMoveRest(k, l)
  <2> PICK k \in Keys, l \in Keys :
        MoveFirst(k, l) \/ MoveAll(k, l) \/ WakeFirstMoveRest(k, l)
    BY <1>3
  <2>1. waiting[k] # <<>>
    BY DEF MoveFirst, MoveAll, WakeFirstMoveRest
  <2>2. Head(waiting[k]) \in Threads /\ Tail(waiting[k]) \in Seq(Threads)
    BY <2>1, HeadIsThread
  <2>3. /\ waiting[l] \o waiting[k] \in Seq(Threads)
        /\ waiting[l] \o Tail(waiting[k]) \in Seq(Threads)
        /\ Append(waiting[l], Head(waiting[k])) \in Seq(Threads)
        /\ <<>> \in Seq(Threads)
    BY <2>2
  <2>4. CASE MoveFirst(k, l)
    BY <2>2, <2>3, <2>4 DEF MoveFirst
  <2>5. CASE MoveAll(k, l)
    BY <2>2, <2>3, <2>5 DEF MoveAll
  <2>6. CASE WakeFirstMoveRest(k, l)
    BY <2>2, <2>3, <2>6 DEF WakeFirstMoveRest
  <2> QED  BY <2>4, <2>5, <2>6
<1>4. CASE \E t \in Threads : Return(t)
  BY <1>4 DEF Return
<1>5. CASE UNCHANGED vars
  BY <1>5 DEF vars
<1> QED  BY <1>1, <1>2, <1>3, <1>4, <1>5

\* Each step of the monitor is, for the parking lot, one of those.
LEMMA StepIsParkingStep ==
  ASSUME MonitorNext
  PROVE  \/ \E t \in Threads, k \in {Mutex, Condition} : Join(t, k)
         \/ \E k \in {Mutex, Condition} : WakeFirst(k)
         \/ MoveFirst(Condition, Mutex) \/ MoveAll(Condition, Mutex)
         \/ WakeFirstMoveRest(Condition, Mutex)
         \/ \E t \in Threads : Return(t)
         \/ UNCHANGED vars
BY DEF MonitorNext, Proceed, StartLocking, Lock, MarkBeforeParking, ParkOnMutex, Unparked,
       Unlock, UnlockSlow, Wait, Notify, MoveWaiters, MarkMoved, WakeWaiter

\* A step keeps the types.
LEMMA StepKeepsTypes ==
  ASSUME MonitorTypeOK, MonitorAssumption, [MonitorNext]_<<vars, monitorVars>>
  PROVE  MonitorTypeOK'
<1>1. CASE UNCHANGED <<vars, monitorVars>>
  BY <1>1 DEF vars, monitorVars, MonitorTypeOK
<1>2. CASE MonitorNext
  <2>1. /\ waiting' \in [Keys -> Seq(Threads)]
        /\ place' \in [Threads -> {"out", "in", "woken"}]
    <3>1. \/ \E t \in Threads, k \in Keys : Join(t, k)
          \/ \E k \in Keys : WakeFirst(k)
          \/ \E k, l \in Keys : MoveFirst(k, l) \/ MoveAll(k, l) \/ WakeFirstMoveRest(k, l)
          \/ \E t \in Threads : Return(t)
          \/ UNCHANGED vars
      BY <1>2, StepIsParkingStep DEF MonitorAssumption
    <3> QED  BY <3>1, ParkingKeepsTypes
  <2>2. /\ locked' \in BOOLEAN /\ parked' \in BOOLEAN
        /\ doing' \in [Threads -> Steps]
        /\ inside' \in [Threads -> BOOLEAN]
    <3> USE DEF MonitorTypeOK, Now, Steps, Notifying
    <3>1. ASSUME NEW t \in Threads,
                 StartLocking(t) \/ Lock(t) \/ MarkBeforeParking(t) \/ ParkOnMutex(t) \/ Unparked(t)
          PROVE  /\ locked' \in BOOLEAN /\ parked' \in BOOLEAN
                 /\ doing' \in [Threads -> Steps] /\ inside' \in [Threads -> BOOLEAN]
      BY <3>1 DEF StartLocking, Lock, MarkBeforeParking, ParkOnMutex, Unparked
    <3>2. ASSUME NEW t \in Threads, Unlock(t) \/ UnlockSlow(t)
          PROVE  /\ locked' \in BOOLEAN /\ parked' \in BOOLEAN
                 /\ doing' \in [Threads -> Steps] /\ inside' \in [Threads -> BOOLEAN]
      <4>1. CASE Unlock(t)
        BY <4>1 DEF Unlock
      <4>2. CASE UnlockSlow(t)
        <5>1. parked' \in BOOLEAN
          BY <4>2 DEF UnlockSlow
        <5> QED  BY <4>2, <5>1 DEF UnlockSlow
      <4> QED  BY <3>2, <4>1, <4>2
    <3>3. ASSUME NEW t \in Threads, Wait(t) \/ Notify(t) \/ MoveWaiters(t) \/ WakeWaiter(t)
          PROVE  /\ locked' \in BOOLEAN /\ parked' \in BOOLEAN
                 /\ doing' \in [Threads -> Steps] /\ inside' \in [Threads -> BOOLEAN]
      <4>1. CASE Notify(t)
        <5>1. parked' \in BOOLEAN
          BY <4>1 DEF Notify
        <5> QED  BY <4>1, <5>1 DEF Notify
      <4> QED  BY <3>3, <4>1 DEF Wait, MoveWaiters, WakeWaiter
    <3>4. ASSUME NEW t \in Threads, MarkMoved(t)
          PROVE  /\ locked' \in BOOLEAN /\ parked' \in BOOLEAN
                 /\ doing' \in [Threads -> Steps] /\ inside' \in [Threads -> BOOLEAN]
      <4>1. parked' \in BOOLEAN
        BY <3>4 DEF MarkMoved
      <4> QED  BY <3>4, <4>1 DEF MarkMoved
    <3> QED  BY <1>2, <3>1, <3>2, <3>3, <3>4 DEF MonitorNext, Proceed
  <2> QED  BY <2>1, <2>2 DEF MonitorTypeOK
<1> QED  BY <1>1, <1>2

-----------------------------------------------------------------------------

\* The first state.
LEMMA MonitorStarts ==
  ASSUME MonitorInit
  PROVE  HolderInv
<1>1. waiting \in [Keys -> Seq(Threads)]
  <2>1. <<>> \in Seq(Threads)
    OBVIOUS
  <2> QED  BY <2>1 DEF MonitorInit, Init
<1>2. MonitorTypeOK
  BY <1>1 DEF MonitorInit, Init, MonitorTypeOK, Steps
<1>3. HeldByOne /\ InsideAsSaid
  BY DEF MonitorInit, HeldByOne, InsideAsSaid
<1> QED  BY <1>2, <1>3 DEF HolderInv

\* A step keeps one holder, and everyone inside as said.
LEMMA StepKeepsHolder ==
  ASSUME HolderInv, MonitorAssumption, [MonitorNext]_<<vars, monitorVars>>
  PROVE  HolderInv'
<1>1. MonitorTypeOK'
  BY StepKeepsTypes DEF HolderInv
<1>2. HeldByOne' /\ InsideAsSaid'
  <2> USE DEF HolderInv, MonitorTypeOK, HeldByOne, InsideAsSaid, Now, Steps, Notifying
  <2>1. CASE UNCHANGED <<vars, monitorVars>>
    BY <2>1 DEF vars, monitorVars
  <2>2. ASSUME NEW t \in Threads, StartLocking(t) \/ MarkBeforeParking(t) \/ ParkOnMutex(t)
        PROVE  HeldByOne' /\ InsideAsSaid'
    BY <2>2 DEF StartLocking, MarkBeforeParking, ParkOnMutex
  <2>3. ASSUME NEW t \in Threads, Lock(t)
        PROVE  HeldByOne' /\ InsideAsSaid'
    BY <2>3 DEF Lock
  <2>4. ASSUME NEW t \in Threads, Unparked(t) \/ Wait(t) \/ Notify(t)
        PROVE  HeldByOne' /\ InsideAsSaid'
    BY <2>4 DEF Unparked, Wait, Notify
  <2>5. ASSUME NEW t \in Threads, Unlock(t)
        PROVE  HeldByOne' /\ InsideAsSaid'
    BY <2>5 DEF Unlock
  <2>6. ASSUME NEW t \in Threads, UnlockSlow(t)
        PROVE  HeldByOne' /\ InsideAsSaid'
    BY <2>6 DEF UnlockSlow
  <2>7. ASSUME NEW t \in Threads, MoveWaiters(t) \/ MarkMoved(t) \/ WakeWaiter(t)
        PROVE  HeldByOne' /\ InsideAsSaid'
    BY <2>7 DEF MoveWaiters, MarkMoved, WakeWaiter
  <2> QED
    BY <2>1, <2>2, <2>3, <2>4, <2>5, <2>6, <2>7 DEF MonitorNext, Proceed
<1> QED  BY <1>1, <1>2 DEF HolderInv

\* One thread at most is between lock and unlock, and the word says so, for any
\* number of threads (mutex.h:26, mutex.cpp:14).
THEOREM MutexIsExclusive == MonitorSpec => []HeldByOne
<1>1. MonitorInit => HolderInv
  BY MonitorStarts
<1>2. HolderInv /\ [MonitorNext]_<<vars, monitorVars>> => HolderInv'
  BY StepKeepsHolder, MonitorAssumption
<1>3. HolderInv => HeldByOne
  BY DEF HolderInv
<1> QED  BY <1>1, <1>2, <1>3, PTL DEF MonitorSpec

-----------------------------------------------------------------------------

\* While a notification is under way the word is not forgotten: a mutex that
\* waiters are being moved to is marked.
MovesAreMarked ==
  \A t \in Threads :
    /\ doing[t] \in {"moveOne", "moveAll"} => parked
    /\ doing[t] = "marked" /\ Len(waiting[Condition]) > 1 => parked

\* The buckets' locks are held by one notifier at most.
OneNotifier ==
  \A t, u \in Threads : doing[t] \in Notifying /\ doing[u] \in Notifying => t = u

MarkInv == HolderInv /\ SleepersAreMarked /\ MovesAreMarked /\ OneNotifier

\* A step keeps the locks of the buckets with one notifier.
LEMMA StepKeepsNotifier ==
  ASSUME MarkInv, MonitorNext
  PROVE  OneNotifier'
<1> USE DEF MarkInv, HolderInv, MonitorTypeOK, OneNotifier, Now, Steps, Notifying
<1>1. ASSUME NEW t \in Threads, Notify(t)
      PROVE  OneNotifier'
  BY <1>1 DEF Notify, BucketsFree
<1>2. ASSUME NEW t \in Threads,
             \/ StartLocking(t) \/ Lock(t) \/ MarkBeforeParking(t) \/ ParkOnMutex(t)
             \/ Unparked(t) \/ Unlock(t) \/ UnlockSlow(t) \/ Wait(t)
      PROVE  OneNotifier'
  BY <1>2 DEF StartLocking, Lock, MarkBeforeParking, ParkOnMutex, Unparked, Unlock,
              UnlockSlow, Wait
<1>3. ASSUME NEW t \in Threads, MoveWaiters(t) \/ MarkMoved(t) \/ WakeWaiter(t)
      PROVE  OneNotifier'
  BY <1>3 DEF MoveWaiters, MarkMoved, WakeWaiter
<1> QED  BY <1>1, <1>2, <1>3 DEF MonitorNext, Proceed

\* A step keeps sleepers, and those being moved, marked.
LEMMA StepKeepsMarks ==
  ASSUME MarkInv, MonitorAssumption, MonitorNext
  PROVE  SleepersAreMarked' /\ MovesAreMarked'
<1> USE DEF MarkInv, HolderInv, MonitorTypeOK, SleepersAreMarked, MovesAreMarked,
            MonitorAssumption, Now, Steps, Notifying
<1>1. ASSUME NEW t \in Threads, StartLocking(t) \/ Lock(t) \/ MarkBeforeParking(t) \/ Unlock(t)
      PROVE  SleepersAreMarked' /\ MovesAreMarked'
  BY <1>1 DEF StartLocking, Lock, MarkBeforeParking, Unlock, vars
<1>2. ASSUME NEW t \in Threads, ParkOnMutex(t)
      PROVE  SleepersAreMarked' /\ MovesAreMarked'
  BY <1>2 DEF ParkOnMutex, BucketsFree, Join, vars
<1>3. ASSUME NEW t \in Threads, Unparked(t)
      PROVE  SleepersAreMarked' /\ MovesAreMarked'
  BY <1>3 DEF Unparked, Return
<1>4. ASSUME NEW t \in Threads, UnlockSlow(t)
      PROVE  SleepersAreMarked' /\ MovesAreMarked'
  <2>1. MovesAreMarked'
    BY <1>4 DEF UnlockSlow, BucketsFree
  <2>2. waiting'[Mutex] # <<>> => Len(waiting[Mutex]) > 1
    BY <1>4 DEF UnlockSlow, WakeFirst, vars
  <2>3. parked' = (Len(waiting[Mutex]) > 1)
    BY <1>4 DEF UnlockSlow
  <2> QED  BY <2>1, <2>2, <2>3
<1>5. ASSUME NEW t \in Threads, Wait(t)
      PROVE  SleepersAreMarked' /\ MovesAreMarked'
  BY <1>5 DEF Wait, BucketsFree, Join
<1>6. ASSUME NEW t \in Threads, Notify(t)
      PROVE  SleepersAreMarked' /\ MovesAreMarked'
  BY <1>6 DEF Notify, BucketsFree, vars
<1>7. ASSUME NEW t \in Threads, MoveWaiters(t)
      PROVE  SleepersAreMarked' /\ MovesAreMarked'
  <2>1. parked /\ parked' = parked
    BY <1>7 DEF MoveWaiters
  <2> QED  BY <2>1
<1>8. ASSUME NEW t \in Threads, MarkMoved(t)
      PROVE  SleepersAreMarked' /\ MovesAreMarked'
  BY <1>8 DEF MarkMoved, vars, OneNotifier
<1>9. ASSUME NEW t \in Threads, WakeWaiter(t)
      PROVE  SleepersAreMarked' /\ MovesAreMarked'
  <2>1. \A u \in Threads : doing'[u] \notin Notifying
    BY <1>9 DEF WakeWaiter, OneNotifier
  <2>2. parked' = parked
    BY <1>9 DEF WakeWaiter
  <2>3. CASE Len(waiting[Condition]) > 1 /\ doing[t] = "marked"
    BY <2>1, <2>2, <2>3, <1>9 DEF WakeWaiter
  <2>4. CASE waiting'[Mutex] = waiting[Mutex]
    BY <2>1, <2>2, <2>4
  <2>5. CASE doing[t] = "wakeOne" \/ waiting[Condition] = <<>>
    BY <2>4, <2>5, <1>9 DEF WakeWaiter, WakeFirst, vars
  <2>6. CASE doing[t] = "marked" /\ waiting[Condition] # <<>> /\ ~(Len(waiting[Condition]) > 1)
    <3>1. Tail(waiting[Condition]) = <<>>
      <4>1. waiting[Condition] \in Seq(Threads) /\ waiting[Condition] # <<>>
        BY <2>6
      <4>2. Len(waiting[Condition]) = 1
        <5>1. Len(waiting[Condition]) \in Nat \ {0}
          BY <4>1, EmptySeq
        <5>2. ~(Len(waiting[Condition]) > 1)
          BY <2>6
        <5>3. \A n \in Nat \ {0} : ~(n > 1) => n = 1
          BY ONLY SMT
        <5> QED  BY <5>1, <5>2, <5>3
      <4>3. Tail(waiting[Condition]) \in Seq(Threads) /\ Len(Tail(waiting[Condition])) = 0
        BY <4>1, <4>2, HeadTailProperties
      <4> QED  BY <4>3, EmptySeq
    <3>2. waiting'[Mutex] = waiting[Mutex] \o Tail(waiting[Condition])
      BY <2>6, <1>9 DEF WakeWaiter, WakeFirstMoveRest
    <3>3. waiting[Mutex] \in Seq(Threads)
      OBVIOUS
    <3>4. waiting'[Mutex] = waiting[Mutex]
      BY <3>1, <3>2, <3>3, ConcatEmptySeq
    <3> QED  BY <2>4, <3>4
  <2>7. doing[t] = "wakeOne" \/ doing[t] = "marked"
    BY <1>9 DEF WakeWaiter
  <2> QED  BY <2>3, <2>5, <2>6, <2>7
<1> QED  BY <1>1, <1>2, <1>3, <1>4, <1>5, <1>6, <1>7, <1>8, <1>9 DEF MonitorNext, Proceed

\* A mutex that is slept on has its PARKED bit set, for any number of threads, so
\* that no unlock takes the short way past its sleepers (mutex.h:38,
\* condition_variable.cpp:34).
THEOREM SleepersStayMarked == MonitorSpec => []SleepersAreMarked
<1>1. MonitorInit => MarkInv
  <2> SUFFICES ASSUME MonitorInit PROVE MarkInv
    OBVIOUS
  <2>1. HolderInv
    BY MonitorStarts
  <2>2. waiting[Mutex] = <<>>
    BY MonitorAssumption DEF MonitorInit, Init
  <2>3. MovesAreMarked /\ OneNotifier
    BY DEF MonitorInit, MovesAreMarked, OneNotifier, Notifying
  <2> QED  BY <2>1, <2>2, <2>3 DEF MarkInv, SleepersAreMarked
<1>2. MarkInv /\ [MonitorNext]_<<vars, monitorVars>> => MarkInv'
  <2>1. ASSUME MarkInv, UNCHANGED <<vars, monitorVars>>
        PROVE  MarkInv'
    BY <2>1 DEF MarkInv, HolderInv, MonitorTypeOK, HeldByOne, InsideAsSaid,
                SleepersAreMarked, MovesAreMarked, OneNotifier, vars, monitorVars
  <2>2. ASSUME MarkInv, MonitorNext
        PROVE  MarkInv'
    <3>1. HolderInv'
      BY <2>2, StepKeepsHolder, MonitorAssumption DEF MarkInv
    <3> QED  BY <2>2, <3>1, StepKeepsNotifier, StepKeepsMarks, MonitorAssumption DEF MarkInv
  <2> QED  BY <2>1, <2>2
<1>3. MarkInv => SleepersAreMarked
  BY DEF MarkInv
<1> QED  BY <1>1, <1>2, <1>3, PTL DEF MonitorSpec

-----------------------------------------------------------------------------
(* The semaphore.  A permit is counted against the threads that are awake: *)
(* a step takes a thread from them only with a permit, or when there is    *)
(* none, or puts the sleeper it wakes in its place.                        *)

\* The calls of a semaphore, and how far they can be.
Calls == {"no", "trying", "parking", "asleep", "releasing"}

\* The types of the state.
SemaphoreTypeOK ==
  /\ waiting \in [Keys -> Seq(Threads)]
  /\ place \in [Threads -> {"out", "in", "woken"}]
  /\ count \in Nat
  /\ acquiring \in [Threads -> Calls]

\* Who queues for a permit is in acquire, asleep, and queues once.
SleepersQueueOnce ==
  /\ \A n \in 1 .. Len(waiting[Permits]) :
       /\ place[waiting[Permits][n]] = "in"
       /\ acquiring[waiting[Permits][n]] = "asleep"
  /\ \A m, n \in 1 .. Len(waiting[Permits]) :
       waiting[Permits][m] = waiting[Permits][n] => m = n

PermitInv == SemaphoreTypeOK /\ SleepersQueueOnce /\ NoPermitSleptOn

\* Those awake are finitely many, and one more or less counts as one.
LEMMA AwakeCounts ==
  ASSUME SemaphoreTypeOK, NEW t \in Threads, SemaphoreAssumption
  PROVE  /\ IsFiniteSet(Awake) /\ Cardinality(Awake) \in Nat
         /\ t \in Awake => Cardinality(Awake \ {t}) = Cardinality(Awake) - 1
         /\ t \notin Awake => Cardinality(Awake \cup {t}) = Cardinality(Awake) + 1
         /\ IsFiniteSet(Awake \ {t})
<1>1. IsFiniteSet(Awake)
  BY FS_Subset DEF Awake, SemaphoreAssumption
<1>2. Cardinality(Awake) \in Nat
  BY <1>1, FS_CardinalityType
<1>3. t \in Awake => Cardinality(Awake \ {t}) = Cardinality(Awake) - 1
  BY <1>1, FS_RemoveElement
<1>4. t \notin Awake => Cardinality(Awake \cup {t}) = Cardinality(Awake) + 1
  BY <1>1, FS_AddElement
<1>5. IsFiniteSet(Awake \ {t})
  BY <1>1, FS_RemoveElement
<1> QED  BY <1>1, <1>2, <1>3, <1>4, <1>5

\* Joining the queue and leaving it at the front, entry by entry.
LEMMA QueueEnds ==
  ASSUME NEW S, NEW q \in Seq(S), NEW x \in S
  PROVE  /\ Append(q, x) \in Seq(S) /\ Len(Append(q, x)) = Len(q) + 1
         /\ \A n \in 1 .. Len(q) : Append(q, x)[n] = q[n]
         /\ Append(q, x)[Len(q) + 1] = x
         /\ q # <<>> => /\ Head(q) = q[1] /\ Head(q) \in S /\ Len(q) \in Nat \ {0}
                        /\ Tail(q) \in Seq(S) /\ Len(Tail(q)) = Len(q) - 1
                        /\ \A n \in 1 .. Len(q) - 1 : Tail(q)[n] = q[n + 1]
BY AppendProperties, HeadTailProperties, EmptySeq

\* A semaphore starts with nobody asleep.
LEMMA SemaphoreStarts == SemaphoreInit => PermitInv
<1> SUFFICES ASSUME SemaphoreInit PROVE PermitInv
  OBVIOUS
<1>1. SemaphoreTypeOK /\ waiting[Permits] = <<>>
  BY SemaphoreAssumption DEF SemaphoreInit, Init, SemaphoreTypeOK, Calls
<1> QED  BY <1>1 DEF PermitInv, SleepersQueueOnce, NoPermitSleptOn

\* A step of a thread that neither joins the queue nor wakes anybody.
LEMMA QueueStays ==
  ASSUME PermitInv, NEW t \in Threads, UNCHANGED waiting,
         acquiring[t] # "asleep" \/ place[t] = "woken",
         \A u \in Threads \ {t} : acquiring'[u] = acquiring[u] /\ place'[u] = place[u],
         SemaphoreTypeOK'
  PROVE  /\ SleepersQueueOnce'
         /\ t \in Awake /\ t \notin Awake' => Awake' = Awake \ {t}
         /\ t \notin Awake /\ t \in Awake' => Awake' = Awake \cup {t}
         /\ (t \in Awake <=> t \in Awake') => Awake' = Awake
<1>1. SleepersQueueOnce'
  <2>1. \A n \in 1 .. Len(waiting[Permits]) : waiting[Permits][n] \in Threads
    BY SemaphoreAssumption DEF PermitInv, SemaphoreTypeOK
  <2> QED  BY <2>1 DEF PermitInv, SleepersQueueOnce
<1>2. \A u \in Threads \ {t} : u \in Awake' <=> u \in Awake
  BY DEF Awake
<1>3. Awake \subseteq Threads /\ Awake' \subseteq Threads
  BY DEF Awake
<1> QED  BY <1>1, <1>2, <1>3

\* Every step keeps the account of the permits.
LEMMA StepKeepsPermits ==
  ASSUME PermitInv, SemaphoreNext
  PROVE  PermitInv'
<1> USE SemaphoreAssumption DEF SemaphoreTypeOK, Then, Calls
<1>1. ASSUME NEW t \in Threads,
             StartAcquire(t) \/ TryAcquire(t) \/ FindNoPermit(t) \/ WokenForPermit(t) \/ AddPermit(t)
      PROVE  PermitInv'
  <2>1. SemaphoreTypeOK' /\ UNCHANGED waiting
        /\ (acquiring[t] # "asleep" \/ place[t] = "woken")
        /\ \A u \in Threads \ {t} : acquiring'[u] = acquiring[u] /\ place'[u] = place[u]
    <3>1. SemaphoreTypeOK'
      <4>1. CASE StartAcquire(t)
        BY <4>1 DEF PermitInv, StartAcquire, vars
      <4>2. CASE TryAcquire(t)
        BY <4>2 DEF PermitInv, TryAcquire, vars
      <4>3. CASE FindNoPermit(t)
        BY <4>3 DEF PermitInv, FindNoPermit, vars
      <4>4. CASE WokenForPermit(t)
        BY <4>4 DEF PermitInv, WokenForPermit, Return
      <4>5. CASE AddPermit(t)
        BY <4>5 DEF PermitInv, AddPermit, vars
      <4> QED  BY <1>1, <4>1, <4>2, <4>3, <4>4, <4>5
    <3>2. UNCHANGED waiting /\ (acquiring[t] # "asleep" \/ place[t] = "woken")
      BY <1>1 DEF StartAcquire, TryAcquire, FindNoPermit, WokenForPermit, AddPermit, Return, vars
    <3>3. \A u \in Threads \ {t} : acquiring'[u] = acquiring[u] /\ place'[u] = place[u]
      BY <1>1 DEF PermitInv, StartAcquire, TryAcquire, FindNoPermit, WokenForPermit, AddPermit, Return, vars
    <3> QED  BY <3>1, <3>2, <3>3
  <2>2. /\ SleepersQueueOnce'
        /\ t \in Awake /\ t \notin Awake' => Awake' = Awake \ {t}
        /\ t \notin Awake /\ t \in Awake' => Awake' = Awake \cup {t}
        /\ (t \in Awake <=> t \in Awake') => Awake' = Awake
    BY <2>1, QueueStays
  <2>3. /\ Cardinality(Awake) \in Nat
        /\ t \in Awake => Cardinality(Awake \ {t}) = Cardinality(Awake) - 1
        /\ t \notin Awake => Cardinality(Awake \cup {t}) = Cardinality(Awake) + 1
    BY AwakeCounts DEF PermitInv
  <2>4. NoPermitSleptOn'
    <3>1. CASE StartAcquire(t)
      <4>1. t \notin Awake /\ t \in Awake' /\ count' = count
        BY <3>1 DEF PermitInv, StartAcquire, Awake
      <4>2. Cardinality(Awake') = Cardinality(Awake) + 1
        BY <2>2, <2>3, <4>1
      <4> QED  BY <2>1, <2>3, <4>1, <4>2 DEF PermitInv, NoPermitSleptOn
    <3>2. CASE TryAcquire(t)
      <4>1. t \in Awake /\ t \notin Awake' /\ count' = count - 1
        BY <3>2 DEF PermitInv, TryAcquire, Awake
      <4>2. Cardinality(Awake') = Cardinality(Awake) - 1
        BY <2>2, <2>3, <4>1
      <4> QED  BY <2>1, <2>3, <4>1, <4>2 DEF PermitInv, NoPermitSleptOn
    <3>3. CASE FindNoPermit(t) \/ WokenForPermit(t)
      <4>1. t \in Awake /\ t \in Awake' /\ count' = count
        BY <3>3 DEF PermitInv, FindNoPermit, WokenForPermit, Return, Awake
      <4> QED  BY <2>1, <2>2, <4>1 DEF PermitInv, NoPermitSleptOn
    <3>4. CASE AddPermit(t)
      <4>1. t \notin Awake /\ t \in Awake' /\ count' = count + 1
        BY <3>4 DEF PermitInv, AddPermit, Awake
      <4>2. Cardinality(Awake') = Cardinality(Awake) + 1
        BY <2>2, <2>3, <4>1
      <4> QED  BY <2>1, <2>3, <4>1, <4>2 DEF PermitInv, NoPermitSleptOn
    <3> QED  BY <1>1, <3>1, <3>2, <3>3, <3>4
  <2> QED  BY <2>1, <2>2, <2>4 DEF PermitInv
<1>2. ASSUME NEW t \in Threads, ParkOnPermits(t) PROVE PermitInv'
  <2>1. CASE count = 0
    <3> DEFINE q == waiting[Permits]
    <3>1. /\ place[t] = "out" /\ count' = 0 /\ q \in Seq(Threads)
          /\ waiting' = [waiting EXCEPT ![Permits] = Append(q, t)]
          /\ place' = [place EXCEPT ![t] = "in"]
          /\ acquiring' = [acquiring EXCEPT ![t] = "asleep"]
      BY <1>2, <2>1 DEF ParkOnPermits, Join, PermitInv
    <3>2. /\ Append(q, t) \in Seq(Threads) /\ Len(Append(q, t)) = Len(q) + 1
          /\ \A n \in 1 .. Len(q) : Append(q, t)[n] = q[n]
          /\ Append(q, t)[Len(q) + 1] = t
      BY <3>1, QueueEnds
    <3>3. SemaphoreTypeOK'
      BY <3>1, <3>2 DEF PermitInv
    <3>4. SleepersQueueOnce'
      <4>1. waiting'[Permits] = Append(q, t)
        BY <3>1 DEF PermitInv
      <4>2. \A n \in 1 .. Len(q) : q[n] \in Threads /\ q[n] # t /\ place[q[n]] = "in" /\ acquiring[q[n]] = "asleep"
        BY <3>1 DEF PermitInv, SleepersQueueOnce
      <4>3. \A n \in 1 .. Len(q) + 1 : n \in 1 .. Len(q) \/ n = Len(q) + 1
        BY <3>1
      <4>4. \A n \in 1 .. Len(q) + 1 : place'[Append(q, t)[n]] = "in" /\ acquiring'[Append(q, t)[n]] = "asleep"
        BY <3>1, <3>2, <4>2, <4>3 DEF PermitInv
      <4>5. \A m, n \in 1 .. Len(q) + 1 : Append(q, t)[m] = Append(q, t)[n] => m = n
        BY <3>2, <4>2, <4>3 DEF PermitInv, SleepersQueueOnce
      <4> QED  BY <3>2, <4>1, <4>4, <4>5 DEF SleepersQueueOnce
    <3>5. NoPermitSleptOn'
      <4>1. Awake' \subseteq Threads
        BY DEF Awake
      <4>2. Cardinality(Awake') \in Nat
        BY <4>1, FS_Subset, FS_CardinalityType
      <4> QED  BY <3>1, <4>2 DEF NoPermitSleptOn
    <3> QED  BY <3>3, <3>4, <3>5 DEF PermitInv
  <2>2. CASE count # 0
    <3>1. /\ SemaphoreTypeOK' /\ UNCHANGED <<vars, count>>
          /\ acquiring[t] = "parking" /\ acquiring'[t] = "trying"
          /\ \A u \in Threads \ {t} : acquiring'[u] = acquiring[u]
      BY <1>2, <2>2 DEF ParkOnPermits, PermitInv, vars
    <3>2. t \in Awake /\ t \in Awake'
      BY <3>1 DEF Awake
    <3>3. SleepersQueueOnce' /\ Awake' = Awake
      BY <3>1, <3>2, QueueStays DEF vars
    <3> QED  BY <3>1, <3>3 DEF PermitInv, NoPermitSleptOn, vars
  <2> QED  BY <2>1, <2>2
<1>3. ASSUME NEW t \in Threads, WakeForPermit(t) PROVE PermitInv'
  <2> DEFINE q == waiting[Permits]
  <2>0. /\ q \in Seq(Threads) /\ acquiring[t] = "releasing" /\ count' = count
        /\ acquiring' = [acquiring EXCEPT ![t] = "no"]
    BY <1>3 DEF WakeForPermit, PermitInv
  <2>1. CASE q = <<>>
    <3>1. SemaphoreTypeOK' /\ UNCHANGED vars
      BY <1>3, <2>0, <2>1 DEF WakeForPermit, PermitInv, vars
    <3>2. SleepersQueueOnce'
      BY <2>0, <3>1, QueueStays DEF vars, PermitInv
    <3> QED  BY <2>1, <3>1, <3>2 DEF PermitInv, NoPermitSleptOn, vars
  <2>2. CASE q # <<>>
    <3>1. /\ place' = [place EXCEPT ![Head(q)] = "woken"]
          /\ waiting' = [waiting EXCEPT ![Permits] = Tail(q)]
      BY <1>3, <2>2 DEF WakeForPermit, WakeFirst
    <3>2. /\ Head(q) = q[1] /\ Head(q) \in Threads /\ Len(q) \in Nat \ {0}
          /\ Tail(q) \in Seq(Threads) /\ Len(Tail(q)) = Len(q) - 1
          /\ \A n \in 1 .. Len(q) - 1 : Tail(q)[n] = q[n + 1]
      BY <2>0, <2>2, QueueEnds
    <3>3. SemaphoreTypeOK'
      BY <2>0, <3>1, <3>2 DEF PermitInv
    <3>4. waiting'[Permits] = Tail(q)
      BY <3>1 DEF PermitInv
    <3>5. \A n \in 1 .. Len(q) - 1 : n + 1 \in 1 .. Len(q) /\ n + 1 # 1
      BY <3>2
    <3>6. \A n \in 1 .. Len(q) : q[n] \in Threads /\ place[q[n]] = "in" /\ acquiring[q[n]] = "asleep"
      BY <2>0 DEF PermitInv, SleepersQueueOnce
    <3>7. \A n \in 1 .. Len(q) - 1 : q[n + 1] # q[1]
      BY <3>2, <3>5 DEF PermitInv, SleepersQueueOnce
    <3>8. SleepersQueueOnce'
      <4>1. \A n \in 1 .. Len(q) - 1 : place'[q[n + 1]] = "in" /\ acquiring'[q[n + 1]] = "asleep"
        BY <2>0, <3>1, <3>2, <3>5, <3>6, <3>7 DEF PermitInv
      <4>2. \A m, n \in 1 .. Len(q) - 1 : q[m + 1] = q[n + 1] => m = n
        BY <3>2, <3>5 DEF PermitInv, SleepersQueueOnce
      <4> QED  BY <3>2, <3>4, <4>1, <4>2 DEF SleepersQueueOnce
    <3>9. /\ t \in Awake /\ Head(q) \notin Awake \ {t} /\ Head(q) # t
          /\ Awake' = (Awake \ {t}) \cup {Head(q)}
      <4>1. place[Head(q)] = "in" /\ acquiring[Head(q)] = "asleep"
        BY <3>2, <3>6
      <4>2. t \in Awake /\ Head(q) \notin Awake /\ Head(q) # t
        BY <2>0, <4>1 DEF Awake
      <4>3. t \notin Awake' /\ Head(q) \in Awake'
        BY <2>0, <3>1, <3>2, <4>1, <4>2 DEF Awake, PermitInv
      <4>4. \A u \in Threads \ {t, Head(q)} : u \in Awake' <=> u \in Awake
        BY <2>0, <3>1 DEF Awake, PermitInv
      <4>5. Awake \subseteq Threads /\ Awake' \subseteq Threads
        BY DEF Awake
      <4> QED  BY <4>2, <4>3, <4>4, <4>5
    <3>10. Cardinality(Awake') = Cardinality(Awake)
      <4>1. /\ IsFiniteSet(Awake \ {t}) /\ Cardinality(Awake) \in Nat
            /\ Cardinality(Awake \ {t}) = Cardinality(Awake) - 1
        BY <3>9, AwakeCounts DEF PermitInv
      <4>2. Cardinality((Awake \ {t}) \cup {Head(q)}) = Cardinality(Awake \ {t}) + 1
        BY <3>9, <4>1, FS_AddElement
      <4> QED  BY <3>9, <4>1, <4>2
    <3>11. NoPermitSleptOn'
      BY <2>0, <2>2, <3>10 DEF PermitInv, NoPermitSleptOn
    <3> QED  BY <3>3, <3>8, <3>11 DEF PermitInv
  <2> QED  BY <2>1, <2>2
<1> QED  BY <1>1, <1>2, <1>3, SemaphoreAssumption DEF SemaphoreNext, AcquireOrRelease

\* However releases and acquires overlap, and although each release wakes one
\* thread at most, no permit lies unused while a thread sleeps for one
\* (Semaphore::release and acquire), for any number of threads.
THEOREM PermitsAreNotSleptOn == SemaphoreSpec => []NoPermitSleptOn
<1>1. PermitInv /\ UNCHANGED <<vars, semaphoreVars>> => PermitInv'
  BY DEF PermitInv, SemaphoreTypeOK, SleepersQueueOnce, NoPermitSleptOn, Awake, vars, semaphoreVars
<1>2. PermitInv /\ [SemaphoreNext]_<<vars, semaphoreVars>> => PermitInv'
  BY <1>1, StepKeepsPermits
<1>3. PermitInv => NoPermitSleptOn
  BY DEF PermitInv
<1> QED  BY SemaphoreStarts, <1>2, <1>3, PTL DEF SemaphoreSpec

-----------------------------------------------------------------------------
(* The parker.                                                             *)

\* A wake-up that comes late finds the thread up already, or asleep for a
\* later wait; it is never the other way round, that a thread falls asleep
\* with its unpark committed and no wake-up on the way.
THEOREM WakeUpsAreNotMissed == ParkerSpec => []NoWakeUpMissed
<1>1. ParkerInit => NoWakeUpMissed
  BY DEF ParkerInit, NoWakeUpMissed
<1>2. NoWakeUpMissed /\ [ParkerNext]_parkerVars => NoWakeUpMissed'
  BY DEF NoWakeUpMissed, ParkerNext, parkerVars, Prepare, Look, FindCommitted, FindExpired,
         LeaveParker, FindUncommitted, FallAsleep, WakeUnasked, TimeIsUp, CommitUnpark, Wake, Tick
<1> QED  BY <1>1, <1>2, PTL DEF ParkerSpec
=============================================================================
