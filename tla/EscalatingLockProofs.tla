------------------------ MODULE EscalatingLockProofs ------------------------
(***************************************************************************)
(* For any number of threads and of calls: the escalating lock is a lock,  *)
(* and so is the bit that guards its queue; the queue holds exactly who    *)
(* sleeps, is never left to nobody, and lets its threads out in the order  *)
(* in which they came.  Each bit of the word is set by the one thread that *)
(* goes on to hold it and cleared by that thread; what has to be shown is  *)
(* that the many other compare-exchanges on the word, made from copies of  *)
(* it read earlier, leave both bits alone.  The queue is a sequence that   *)
(* the links describe: how far the back links and the knowledge of the     *)
(* tail reach is part of the invariant, as is what a walk that is under    *)
(* way has set so far.                                                     *)
(***************************************************************************)
EXTENDS EscalatingLock, SequenceTheorems, FiniteSetTheorems, WellFoundedInduction, TLAPS

Keeping(t) == pc[t] \in {"walk", "decide"}

\* The part of the type invariant the two bits depend on.
WordTyped ==
  /\ word \in Words
  /\ pc \in [Threads -> {"idle", "locking", "parked", "holding", "unlocking", "walk", "decide", "wake"}]
  /\ state \in [Threads -> Words]

\* The invariant: types, and the two locks.
Inv == WordTyped /\ MutualExclusion /\ QueueHasOneKeeper

\* Nobody holds either lock at first.
LEMMA InitInv == Init => Inv
  BY EscalatingLockAssumption
  DEF Init, Inv, WordTyped, Words, Unlocked, MutualExclusion, QueueHasOneKeeper

\* The word and the threads' copies of it keep their shape.
LEMMA NextTyped == WordTyped /\ [Next]_vars => WordTyped'
<1> SUFFICES ASSUME WordTyped, [Next]_vars PROVE WordTyped'
  OBVIOUS
<1> USE EscalatingLockAssumption DEF WordTyped, Words, Goto
<1>1. CASE UNCHANGED vars
  BY <1>1 DEF vars
<1>2. ASSUME NEW t \in Threads, Lock(t) \/ Acquire(t) \/ Enqueue(t) \/ Unparked(t) PROVE WordTyped'
  BY <1>2 DEF Lock, Acquire, Enqueue, Unparked
<1>3. ASSUME NEW t \in Threads, Unlock(t) PROVE WordTyped'
  BY <1>3 DEF Unlock
<1>4. ASSUME NEW t \in Threads, LockQueue(t) PROVE WordTyped'
  <2>1. CASE word.queueLocked \/ word.head = None
    BY <1>4, <2>1 DEF LockQueue
  <2>2. CASE ~(word.queueLocked \/ word.head = None)
    <3>1. /\ word' = [word EXCEPT !.queueLocked = TRUE]
          /\ state' = [state EXCEPT ![t] = word]
          /\ pc' = [pc EXCEPT ![t] = "walk"]
      BY <1>4, <2>2 DEF LockQueue
    <3> QED BY <3>1
  <2> QED BY <2>1, <2>2
<1>5. ASSUME NEW t \in Threads, Walk(t) \/ FindTail(t) \/ TakeTail(t) \/ Wake(t) PROVE WordTyped'
  BY <1>5 DEF Walk, FindTail, TakeTail, Wake
<1>6. ASSUME NEW t \in Threads, Rescan(t) PROVE WordTyped'
  BY <1>6 DEF Rescan
<1>7. ASSUME NEW t \in Threads, LeaveToHolder(t) PROVE WordTyped'
  <2>1. CASE word = state[t]
    BY <1>7, <2>1 DEF LeaveToHolder
  <2> QED BY <1>6, <1>7, <2>1 DEF LeaveToHolder
<1>8. ASSUME NEW t \in Threads, TakeLast(t) PROVE WordTyped'
  <2>1. CASE word = state[t]
    <3>1. word' = Unlocked /\ pc' = [pc EXCEPT ![t] = "wake"] /\ state' = state
      BY <1>8, <2>1 DEF TakeLast
    <3>2. word' \in Words
      BY <3>1 DEF Unlocked
    <3> QED BY <3>1, <3>2
  <2> QED BY <1>6, <1>8, <2>1 DEF TakeLast
<1> QED BY <1>1, <1>2, <1>3, <1>4, <1>5, <1>7, <1>8 DEF Next, Step

\* A step that leaves the locked bit and its holders alone keeps them exclusive.
LEMMA SameHolder ==
  ASSUME MutualExclusion, word.locked' = word.locked,
         \A t \in Threads : (pc[t] = "holding")' <=> pc[t] = "holding"
  PROVE  MutualExclusion'
  BY DEF MutualExclusion

\* A step that leaves the queue's bit and its keepers alone keeps them exclusive.
LEMMA SameKeeper ==
  ASSUME QueueHasOneKeeper, word.queueLocked' = word.queueLocked,
         \A t \in Threads : Keeping(t)' <=> Keeping(t)
  PROVE  QueueHasOneKeeper'
  BY DEF QueueHasOneKeeper, Keeping

\* Every step of every thread keeps both locks exclusive.
LEMMA NextInv == Inv /\ [Next]_vars => Inv'
<1> SUFFICES ASSUME Inv, [Next]_vars PROVE Inv'
  OBVIOUS
<1>1. WordTyped'
  BY NextTyped DEF Inv
<1> USE DEF Inv, WordTyped, Words, Goto
<1>2. ASSUME NEW t \in Threads, Lock(t) \/ Enqueue(t) \/ Unparked(t) \/ Walk(t) \/ FindTail(t) \/ Wake(t)
      PROVE  MutualExclusion' /\ QueueHasOneKeeper'
  <2>1. word.locked' = word.locked /\ word.queueLocked' = word.queueLocked
    BY <1>2 DEF Lock, Enqueue, Unparked, Walk, FindTail, Wake
  <2>2. \A u \in Threads : ((pc[u] = "holding")' <=> pc[u] = "holding") /\ (Keeping(u)' <=> Keeping(u))
    BY <1>2 DEF Lock, Enqueue, Unparked, Walk, FindTail, Wake, Keeping
  <2> QED BY <2>1, <2>2, SameHolder, SameKeeper
<1>3. ASSUME NEW t \in Threads, Acquire(t) PROVE MutualExclusion' /\ QueueHasOneKeeper'
  <2>1. /\ word.locked' /\ ~word.locked /\ word.queueLocked' = word.queueLocked
        /\ pc' = [pc EXCEPT ![t] = "holding"] /\ pc[t] = "locking"
    BY <1>3 DEF Acquire
  <2>2. \A u \in Threads : pc[u] # "holding"
    BY <2>1 DEF MutualExclusion
  <2>3. MutualExclusion'
    BY <2>1, <2>2 DEF MutualExclusion
  <2> QED BY <2>1, <2>3, SameKeeper DEF Keeping
<1>4. ASSUME NEW t \in Threads, Unlock(t) PROVE MutualExclusion' /\ QueueHasOneKeeper'
  <2>1. /\ ~ word.locked' /\ word.queueLocked' = word.queueLocked
        /\ pc[t] = "holding" /\ pc'[t] \in {"idle", "unlocking"}
        /\ \A u \in Threads \ {t} : pc'[u] = pc[u]
    BY <1>4 DEF Unlock
  <2>2. MutualExclusion'
    BY <2>1 DEF MutualExclusion
  <2> QED BY <2>1, <2>2, SameKeeper DEF Keeping
<1>5. ASSUME NEW t \in Threads, LockQueue(t) PROVE MutualExclusion' /\ QueueHasOneKeeper'
  <2>1. CASE word.queueLocked \/ word.head = None
    <3>1. word' = word /\ pc' = [pc EXCEPT ![t] = "idle"] /\ pc[t] = "unlocking"
      BY <1>5, <2>1 DEF LockQueue
    <3> QED BY <3>1, SameHolder, SameKeeper DEF Keeping
  <2>2. CASE ~(word.queueLocked \/ word.head = None)
    <3>1. /\ word.locked' = word.locked /\ word.queueLocked' /\ ~word.queueLocked
          /\ pc' = [pc EXCEPT ![t] = "walk"] /\ pc[t] = "unlocking"
      BY <1>5, <2>2 DEF LockQueue
    <3>2. \A u \in Threads : pc[u] \notin {"walk", "decide"}
      BY <3>1 DEF QueueHasOneKeeper
    <3>3. QueueHasOneKeeper'
      BY <3>1, <3>2 DEF QueueHasOneKeeper
    <3> QED BY <3>1, <3>3, SameHolder
  <2> QED BY <2>1, <2>2
<1>6. ASSUME NEW t \in Threads, LeaveToHolder(t) \/ TakeLast(t) \/ TakeTail(t)
      PROVE  MutualExclusion' /\ QueueHasOneKeeper'
  <2>1. pc[t] = "decide" /\ word.queueLocked
    BY <1>6 DEF LeaveToHolder, TakeLast, TakeTail, QueueHasOneKeeper
  <2>2. CASE word' = word
    <3>1. Rescan(t)
      BY <1>6, <2>1, <2>2 DEF LeaveToHolder, TakeLast, TakeTail, Unlocked
    <3>2. pc' = [pc EXCEPT ![t] = "walk"]
      BY <3>1 DEF Rescan
    <3> QED BY <2>1, <2>2, <3>2, SameHolder, SameKeeper DEF Keeping
  <2>3. CASE word' # word
    <3>1. /\ word.locked' = word.locked /\ ~word.queueLocked'
          /\ pc'[t] \in {"idle", "wake"} /\ \A u \in Threads \ {t} : pc'[u] = pc[u]
      <4>1. CASE LeaveToHolder(t)
        <5>1. word' = [word EXCEPT !.queueLocked = FALSE] /\ pc' = [pc EXCEPT ![t] = "idle"]
          BY <4>1, <2>3 DEF LeaveToHolder, Rescan
        <5> QED BY <5>1
      <4>2. CASE TakeLast(t)
        <5>1. word' = Unlocked /\ pc' = [pc EXCEPT ![t] = "wake"] /\ word = state[t] /\ ~state[t].locked
          BY <4>2, <2>3 DEF TakeLast, Rescan
        <5> QED BY <5>1 DEF Unlocked
      <4>3. CASE TakeTail(t)
        <5>1. word' = [word EXCEPT !.queueLocked = FALSE] /\ pc' = [pc EXCEPT ![t] = "wake"]
          BY <4>3 DEF TakeTail
        <5> QED BY <5>1
      <4> QED BY <1>6, <4>1, <4>2, <4>3
    <3>2. QueueHasOneKeeper'
      BY <2>1, <3>1 DEF QueueHasOneKeeper
    <3> QED BY <2>1, <3>1, <3>2, SameHolder
  <2> QED BY <2>2, <2>3
<1>7. CASE UNCHANGED vars
  BY <1>7, SameHolder, SameKeeper DEF vars, Keeping
<1> QED BY <1>1, <1>2, <1>3, <1>4, <1>5, <1>6, <1>7 DEF Next, Step

\* At most one thread is between lock() and unlock(), for any number of them.
THEOREM LockIsExclusive == Spec => []MutualExclusion
<1>1. Inv => MutualExclusion
  BY DEF Inv
<1> QED BY InitInv, NextInv, <1>1, PTL DEF Spec

\* At most one thread works on the queue's links, for any number of them.
THEOREM QueueIsKeptByOne == Spec => []QueueHasOneKeeper
<1>1. Inv => QueueHasOneKeeper
  BY DEF Inv
<1> QED BY InitInv, NextInv, <1>1, PTL DEF Spec

-----------------------------------------------------------------------------
(* The queue.  Its threads are q, the one that has slept longest first, so *)
(* that the head of the links is the last; and k is the place of the node  *)
(* nearest to the head that knows the tail.                                *)

\* Forward links reach from the head to the tail, back links from the tail to k.
Linked(q, k) ==
  /\ \A i, j \in 1 .. Len(q) : q[i] = q[j] => i = j
  /\ IF q = <<>>
     THEN word.head = None
     ELSE word.head = q[Len(q)] /\ k \in 1 .. Len(q) /\ queueTail[q[k]] = q[1]
  /\ \A i \in 2 .. Len(q) : next[q[i]] = q[i - 1]
  /\ \A i \in k + 1 .. Len(q) : queueTail[q[i]] = None
  /\ \A i \in 1 .. k - 1 : previous[q[i]] = q[i + 1]

\* A walk began at h, which was the head then, has come to i and has linked back
\* what lies between them.
WalkFits(q, k, t) ==
  \E h, i \in 1 .. Len(q) :
    /\ k <= i /\ i <= h
    /\ state[t].head = q[h] /\ current[t] = q[i]
    /\ \A j \in 1 .. Len(q) : (i <= j /\ j < h) => previous[q[j]] = q[j + 1]
    /\ \A j \in h .. Len(q) : previous[q[j]] = None

Walked(q, k) ==
  /\ (\A t \in Threads : pc[t] # "walk") => \A i \in 1 .. Len(q) : i >= k => previous[q[i]] = None
  /\ \A t \in Threads : pc[t] = "walk" => WalkFits(q, k, t)
  /\ \A t \in Threads : pc[t] = "decide" => q # <<>> /\ state[t].head = q[k] /\ current[t] = q[1]

Asleep(t) == pc[t] = "parked" /\ parker[t] = 1

\* Who sleeps is queued or about to be woken, by one thread and not while queued.
Slept(q) ==
  /\ \A i \in 1 .. Len(q) : Asleep(q[i])
  /\ \A t \in Threads : Asleep(t) =>
       (\E i \in 1 .. Len(q) : q[i] = t) \/ \E u \in Threads : pc[u] = "wake" /\ current[u] = t
  /\ \A u \in Threads : pc[u] = "wake" =>
       /\ Asleep(current[u])
       /\ \A i \in 1 .. Len(q) : q[i] # current[u]
       /\ \A v \in Threads : pc[v] = "wake" /\ current[v] = current[u] => u = v

IsQueue(q, k) == Linked(q, k) /\ Walked(q, k) /\ Slept(q)

QueueInv == \E q \in Seq(Threads) : \E k \in 0 .. Len(q) : IsQueue(q, k)

\* The whole invariant.
LockInv == Inv /\ TypeOK /\ QueueInv

\* A step that leaves links and walks alone keeps them, also if a keeper lets go.
LEMMA SameLinks ==
  ASSUME NEW q \in Seq(Threads), NEW k \in 0 .. Len(q), Linked(q, k), Walked(q, k),
         word.head' = word.head, UNCHANGED <<queueTail, previous, next>>,
         \A t \in Threads :
           /\ pc'[t] = "walk" <=> pc[t] = "walk"
           /\ pc'[t] = "decide" => pc[t] = "decide"
           /\ pc'[t] \in {"walk", "decide"} => current'[t] = current[t] /\ state'[t] = state[t]
  PROVE  Linked(q, k)' /\ Walked(q, k)'
<1>1. Linked(q, k)'
  BY DEF Linked
<1>2. \A t \in Threads : WalkFits(q, k, t) /\ pc'[t] = "walk" => WalkFits(q, k, t)'
  BY DEF WalkFits
<1>3. Walked(q, k)'
  BY <1>2 DEF Walked
<1> QED BY <1>1, <1>3

\* A step after which the same threads sleep and the same are about to wake others.
LEMMA SameSleepers ==
  ASSUME NEW q \in Seq(Threads), Slept(q),
         \A t \in Threads :
           /\ Asleep(t)' <=> Asleep(t)
           /\ pc'[t] = "wake" <=> pc[t] = "wake"
           /\ pc[t] = "wake" => current'[t] = current[t] /\ current[t] \in Threads
  PROVE  Slept(q)'
<1>1. \A i \in 1 .. Len(q) : q[i] \in Threads
  OBVIOUS
<1> QED BY <1>1 DEF Slept

\* A thread that finds the lock held joins at the head.
LEMMA EnqueueFits ==
  ASSUME TypeOK, NEW q \in Seq(Threads), NEW k \in 0 .. Len(q), IsQueue(q, k),
         NEW t \in Threads, Enqueue(t)
  PROVE  LET q1 == Append(q, t)
         IN  q1 \in Seq(Threads) /\ \E k1 \in 0 .. Len(q1) : IsQueue(q1, k1)'
<1> DEFINE n == Len(q)
           q1 == Append(q, t)
           k1 == IF q = <<>> THEN 1 ELSE k
<1>1. /\ n \in Nat /\ Len(q1) = n + 1 /\ q1[n + 1] = t /\ q1 \in Seq(Threads) /\ q1 # <<>>
      /\ \A i \in 1 .. n : q1[i] = q[i] /\ q[i] \in Threads
      /\ k \in 0 .. n /\ (q = <<>> <=> n = 0) /\ k1 \in 0 .. n + 1
  OBVIOUS
<1>2. /\ pc[t] = "locking" /\ parker' = [parker EXCEPT ![t] = 1]
      /\ queueTail' = [queueTail EXCEPT ![t] = IF word.head = None THEN t ELSE None]
      /\ previous' = [previous EXCEPT ![t] = None]
      /\ next' = IF word.head = None THEN next ELSE [next EXCEPT ![t] = word.head]
      /\ word'.head = t
      /\ pc' = [pc EXCEPT ![t] = "parked"]
      /\ UNCHANGED <<state, current>>
  BY DEF Enqueue, Goto, TypeOK, Words
<1>3. \A i \in 1 .. n : q[i] # t
  BY <1>2 DEF IsQueue, Slept, Asleep
<1>4. /\ queueTail \in [Threads -> Threads \cup {None}] /\ previous \in [Threads -> Threads \cup {None}]
      /\ next \in [Threads -> Threads \cup {None}] /\ parker \in [Threads -> {0, 1}]
      /\ pc \in [Threads -> {"idle", "locking", "parked", "holding", "unlocking", "walk", "decide", "wake"}]
  BY DEF TypeOK
<1>5. IF n = 0 THEN word.head = None ELSE word.head = q[n] /\ word.head # None /\ k \in 1 .. n /\ queueTail[q[k]] = q[1]
  BY <1>1, EscalatingLockAssumption DEF IsQueue, Linked
<1>6. /\ k1 = IF n = 0 THEN 1 ELSE k
      /\ queueTail'[t] = IF n = 0 THEN t ELSE None
      /\ \A u \in Threads \ {t} : queueTail'[u] = queueTail[u] /\ previous'[u] = previous[u] /\ next'[u] = next[u]
      /\ previous'[t] = None /\ (n > 0 => next'[t] = q[n])
  BY <1>1, <1>2, <1>4, <1>5
<1>7. /\ \A i, j \in 1 .. n : q[i] = q[j] => i = j
      /\ \A i \in 2 .. n : next[q[i]] = q[i - 1]
      /\ \A i \in k + 1 .. n : queueTail[q[i]] = None
      /\ \A i \in 1 .. k - 1 : previous[q[i]] = q[i + 1]
  BY DEF IsQueue, Linked
<1> HIDE DEF n, q1, k1
<1>8. Linked(q1, k1)'
  <2>1. \A i, j \in 1 .. n + 1 : q1[i] = q1[j] => i = j
    BY <1>1, <1>3, <1>7
  <2>2. word'.head = q1[n + 1] /\ k1 \in 1 .. n + 1 /\ queueTail'[q1[k1]] = q1[1]
    BY <1>1, <1>2, <1>3, <1>5, <1>6
  <2>3. \A i \in 2 .. n + 1 : next'[q1[i]] = q1[i - 1]
    BY <1>1, <1>3, <1>6, <1>7
  <2>4. \A i \in k1 + 1 .. n + 1 : queueTail'[q1[i]] = None
    BY <1>1, <1>3, <1>5, <1>6, <1>7
  <2>5. ASSUME NEW i \in 1 .. k1 - 1 PROVE previous'[q1[i]] = q1[i + 1]
    <3>1. n > 0 /\ k1 = k /\ i \in 1 .. n /\ i + 1 \in 1 .. n /\ i \in 1 .. k - 1
      BY <1>1, <1>5, <1>6, <2>5
    <3>2. q1[i] = q[i] /\ q1[i + 1] = q[i + 1] /\ q[i] # t /\ q[i] \in Threads
      BY <1>1, <1>3, <3>1
    <3> QED BY <1>6, <1>7, <3>1, <3>2
  <2> QED BY <1>1, <2>1, <2>2, <2>3, <2>4, <2>5 DEF Linked
<1>9. Walked(q1, k1)'
  <2>1. /\ (\A u \in Threads : pc[u] # "walk") => \A i \in 1 .. n : i >= k => previous[q[i]] = None
        /\ \A u \in Threads : pc[u] = "walk" => WalkFits(q, k, u)
        /\ \A u \in Threads : pc[u] = "decide" => n # 0 /\ state[u].head = q[k] /\ current[u] = q[1]
    BY <1>1 DEF IsQueue, Walked, n
  <2>2. \A u \in Threads : pc'[u] \in {"walk", "decide"} <=> pc[u] \in {"walk", "decide"}
    BY <1>2, <1>4
  <2>3. \A u \in Threads : pc'[u] \in {"walk", "decide"} => pc'[u] = pc[u]
    BY <1>2, <1>4
  <2>4. (\A u \in Threads : pc'[u] # "walk") => \A i \in 1 .. n + 1 : i >= k1 => previous'[q1[i]] = None
    <3>1. SUFFICES ASSUME \A u \in Threads : pc'[u] # "walk", NEW i \in 1 .. n + 1, i >= k1
                   PROVE  previous'[q1[i]] = None
      OBVIOUS
    <3>2. \A u \in Threads : pc[u] # "walk"
      BY <1>2, <1>4, <3>1
    <3>3. CASE i = n + 1
      BY <1>1, <1>6, <3>3
    <3>4. CASE i # n + 1
      <4>1. i \in 1 .. n /\ i >= k
        BY <1>1, <1>6, <3>1, <3>4
      <4> QED BY <1>1, <1>3, <1>6, <2>1, <3>2, <4>1
    <3> QED BY <3>3, <3>4
  <2>5. ASSUME NEW u \in Threads, pc'[u] = "walk" PROVE WalkFits(q1, k1, u)'
    <3>1. WalkFits(q, k, u)
      BY <2>1, <2>3, <2>5
    <3>2. PICK h \in 1 .. n, i \in 1 .. n :
            /\ k <= i /\ i <= h /\ state[u].head = q[h] /\ current[u] = q[i]
            /\ \A j \in 1 .. n : (i <= j /\ j < h) => previous[q[j]] = q[j + 1]
            /\ \A j \in h .. n : previous[q[j]] = None
      BY <3>1 DEF WalkFits, n
    <3>3. /\ h \in 1 .. Len(q1) /\ i \in 1 .. Len(q1) /\ k1 <= i /\ i <= h
          /\ state'[u].head = q1[h] /\ current'[u] = q1[i]
      BY <1>1, <1>2, <1>6, <3>2
    <3>4. \A j \in 1 .. Len(q1) : (i <= j /\ j < h) => previous'[q1[j]] = q1[j + 1]
      <4>1. ASSUME NEW j \in 1 .. Len(q1), i <= j, j < h PROVE previous'[q1[j]] = q1[j + 1]
        <5>1. j \in 1 .. n /\ j + 1 \in 1 .. n
          BY <1>1, <3>2, <4>1
        <5> QED BY <1>1, <1>3, <1>6, <3>2, <4>1, <5>1
      <4> QED BY <4>1
    <3>5. \A j \in h .. Len(q1) : previous'[q1[j]] = None
      BY <1>1, <1>3, <1>6, <3>2
    <3> QED BY <3>3, <3>4, <3>5 DEF WalkFits
  <2>6. ASSUME NEW u \in Threads, pc'[u] = "decide"
        PROVE  q1 # <<>> /\ state'[u].head = q1[k1] /\ current'[u] = q1[1]
    BY <1>1, <1>2, <1>5, <1>6, <2>1, <2>3, <2>6
  <2> QED BY <1>1, <2>4, <2>5, <2>6 DEF Walked
<1>10. Slept(q1)'
  <2>1. \A u \in Threads : Asleep(u)' <=> Asleep(u) \/ u = t
    BY <1>2, <1>4 DEF Asleep
  <2>2. \A u \in Threads : pc'[u] = "wake" <=> pc[u] = "wake"
    BY <1>2, <1>4
  <2>3. /\ \A i \in 1 .. n : Asleep(q[i])
        /\ \A u \in Threads : Asleep(u) =>
             (\E i \in 1 .. n : q[i] = u) \/ \E v \in Threads : pc[v] = "wake" /\ current[v] = u
        /\ \A u \in Threads : pc[u] = "wake" =>
             /\ Asleep(current[u]) /\ current[u] # t
             /\ \A i \in 1 .. n : q[i] # current[u]
             /\ \A v \in Threads : pc[v] = "wake" /\ current[v] = current[u] => u = v
    BY <1>2 DEF IsQueue, Slept, n, Asleep
  <2>4. \A u \in Threads : pc[u] = "wake" => current[u] \in Threads
    BY DEF TypeOK
  <2>5. \A i \in 1 .. n + 1 : Asleep(q1[i])'
    BY <1>1, <2>1, <2>3
  <2>6. \A u \in Threads : Asleep(u)' =>
          (\E i \in 1 .. n + 1 : q1[i] = u) \/ \E v \in Threads : pc'[v] = "wake" /\ current'[v] = u
    <3>1. ASSUME NEW u \in Threads, NEW i \in 1 .. n, q[i] = u PROVE \E j \in 1 .. n + 1 : q1[j] = u
      BY <1>1, <3>1
    <3>2. \E j \in 1 .. n + 1 : q1[j] = t
      BY <1>1
    <3> QED BY <1>2, <2>1, <2>2, <2>3, <3>1, <3>2
  <2>7. ASSUME NEW u \in Threads, pc'[u] = "wake"
        PROVE  /\ Asleep(current[u])' /\ current'[u] = current[u]
               /\ \A i \in 1 .. n + 1 : q1[i] # current[u]
               /\ \A v \in Threads : pc'[v] = "wake" /\ current[v] = current[u] => u = v
    <3>1. /\ pc[u] = "wake" /\ current[u] \in Threads /\ current'[u] = current[u] /\ current' = current
          /\ Asleep(current[u]) /\ current[u] # t
      BY <1>2, <2>2, <2>3, <2>4, <2>7
    <3>2. Asleep(current[u])'
      BY <2>1, <3>1 DEF Asleep
    <3>3. \A i \in 1 .. n + 1 : q1[i] # current[u]
      BY <1>1, <2>3, <3>1
    <3> QED BY <2>2, <2>3, <3>1, <3>2, <3>3
  <2>8. current' = current
    BY <1>2
  <2> QED BY <1>1, <2>5, <2>6, <2>7, <2>8 DEF Slept
<1> QED BY <1>1, <1>8, <1>9, <1>10 DEF IsQueue, q1

\* A walk begins at the head, when nobody else works on the links.
LEMMA WalkBegins ==
  ASSUME TypeOK, NEW q \in Seq(Threads), NEW k \in 0 .. Len(q), Linked(q, k), Walked(q, k),
         NEW t \in Threads, \A u \in Threads : pc[u] # "walk", \A u \in Threads \ {t} : pc[u] # "decide",
         word.head # None, word'.head = word.head,
         state' = [state EXCEPT ![t] = word], current' = [current EXCEPT ![t] = word.head],
         Goto(t, "walk"), UNCHANGED <<queueTail, previous, next>>
  PROVE  Linked(q, k)' /\ Walked(q, k)'
<1>1. Linked(q, k)'
  BY DEF Linked
<1>2. /\ state'[t] = word /\ current'[t] = word.head /\ pc'[t] = "walk"
      /\ \A u \in Threads \ {t} : pc'[u] = pc[u]
  BY DEF TypeOK, Goto
<1>3. Len(q) \in 1 .. Len(q) /\ word.head = q[Len(q)] /\ k \in 1 .. Len(q)
  BY DEF Linked
<1>4. \A i \in 1 .. Len(q) : i >= k => previous[q[i]] = None
  BY DEF Walked
<1>5. WalkFits(q, k, t)'
  <2> DEFINE n == Len(q)
  <2>1. n \in 1 .. Len(q) /\ k <= n /\ n <= n
    BY <1>3
  <2>2. state'[t].head = q[n] /\ current'[t] = q[n]
    BY <1>2, <1>3
  <2>3. \A j \in 1 .. Len(q) : (n <= j /\ j < n) => previous'[q[j]] = q[j + 1]
    BY <1>3
  <2>4. \A j \in n .. Len(q) : previous'[q[j]] = None
    BY <1>3, <1>4
  <2> QED BY <2>1, <2>2, <2>3, <2>4 DEF WalkFits
<1>6. Walked(q, k)'
  BY <1>2, <1>5 DEF Walked
<1> QED BY <1>1, <1>6

\* A step of the walk sets one more back link.
LEMMA WalkStepFits ==
  ASSUME TypeOK, QueueHasOneKeeper, NEW q \in Seq(Threads), NEW k \in 0 .. Len(q), Linked(q, k), Walked(q, k),
         NEW t \in Threads, Walk(t)
  PROVE  /\ Linked(q, k)' /\ Walked(q, k)'
         /\ current[t] \in Threads /\ next[current[t]] \in Threads
<1>1. /\ pc[t] = "walk" /\ queueTail[current[t]] = None
      /\ current' = [current EXCEPT ![t] = next[current[t]]]
      /\ previous' = [previous EXCEPT ![next[current[t]]] = current[t]]
      /\ UNCHANGED <<word, queueTail, next, pc, state>>
  BY DEF Walk, TypeOK
<1>2. \A u \in Threads : pc[u] \in {"walk", "decide"} => u = t
  BY <1>1 DEF QueueHasOneKeeper
<1>3. PICK h \in 1 .. Len(q), i \in 1 .. Len(q) :
        /\ k <= i /\ i <= h /\ state[t].head = q[h] /\ current[t] = q[i]
        /\ \A j \in 1 .. Len(q) : (i <= j /\ j < h) => previous[q[j]] = q[j + 1]
        /\ \A j \in h .. Len(q) : previous[q[j]] = None
  BY <1>1 DEF Walked, WalkFits
<1>4. /\ \A j, m \in 1 .. Len(q) : q[j] = q[m] => j = m
      /\ k \in 1 .. Len(q) /\ queueTail[q[k]] = q[1] /\ q # <<>>
      /\ \A j \in 2 .. Len(q) : next[q[j]] = q[j - 1]
      /\ \A j \in 1 .. k - 1 : previous[q[j]] = q[j + 1]
  <2>1. q # <<>>
    BY <1>3
  <2> QED BY <2>1 DEF Linked
<1>5. \A j \in 1 .. Len(q) : q[j] \in Threads
  OBVIOUS
<1>6. i # k /\ i > k /\ i - 1 \in 1 .. Len(q) /\ next[current[t]] = q[i - 1]
  <2>1. q[1] # None
    BY <1>4, <1>5, EscalatingLockAssumption
  <2>2. i # k
    BY <1>1, <1>3, <1>4, <2>1
  <2> QED BY <1>3, <1>4, <2>2
<1>7. /\ previous'[q[i - 1]] = q[i]
      /\ \A j \in 1 .. Len(q) : j # i - 1 => previous'[q[j]] = previous[q[j]]
  BY <1>1, <1>3, <1>4, <1>5, <1>6 DEF TypeOK
<1>8. Linked(q, k)'
  <2>1. ASSUME NEW j \in 1 .. k - 1 PROVE previous'[q[j]] = q[j + 1]
    <3>1. j \in 1 .. Len(q) /\ j # i - 1
      BY <1>4, <1>6, <2>1
    <3> QED BY <1>4, <1>7, <3>1
  <2> QED BY <1>1, <2>1 DEF Linked
<1>9. WalkFits(q, k, t)'
  <2> DEFINE m == i - 1
  <2>1. m \in 1 .. Len(q) /\ k <= m /\ m <= h
    BY <1>3, <1>6
  <2>2. state'[t].head = q[h] /\ current'[t] = q[m]
    BY <1>1, <1>3, <1>6 DEF TypeOK
  <2>3. \A j \in 1 .. Len(q) : (m <= j /\ j < h) => previous'[q[j]] = q[j + 1]
    <3>1. ASSUME NEW j \in 1 .. Len(q), m <= j, j < h PROVE previous'[q[j]] = q[j + 1]
      <4>1. CASE j = m
        BY <1>7, <4>1
      <4>2. CASE j # m
        BY <1>3, <1>7, <3>1, <4>2
      <4> QED BY <4>1, <4>2
    <3> QED BY <3>1
  <2>4. \A j \in h .. Len(q) : previous'[q[j]] = None
    BY <1>3, <1>7
  <2> QED BY <2>1, <2>2, <2>3, <2>4 DEF WalkFits
<1>10. Walked(q, k)'
  BY <1>1, <1>2, <1>9 DEF Walked
<1> QED BY <1>3, <1>5, <1>6, <1>8, <1>10

\* A walk that has found the tail: the node it began at knows it now.
LEMMA FindTailFits ==
  ASSUME TypeOK, QueueHasOneKeeper, NEW q \in Seq(Threads), NEW k \in 0 .. Len(q), Linked(q, k), Walked(q, k),
         NEW t \in Threads, FindTail(t)
  PROVE  \E k1 \in 0 .. Len(q) : Linked(q, k1)' /\ Walked(q, k1)'
<1>1. /\ pc[t] = "walk" /\ queueTail[current[t]] # None
      /\ queueTail' = [queueTail EXCEPT ![state[t].head] = queueTail[current[t]]]
      /\ current' = [current EXCEPT ![t] = queueTail[current[t]]]
      /\ pc' = [pc EXCEPT ![t] = "decide"]
      /\ UNCHANGED <<word, previous, next, state>>
  BY DEF FindTail, Goto
<1>2. \A u \in Threads : pc[u] \in {"walk", "decide"} => u = t
  BY <1>1 DEF QueueHasOneKeeper
<1>3. PICK h \in 1 .. Len(q), i \in 1 .. Len(q) :
        /\ k <= i /\ i <= h /\ state[t].head = q[h] /\ current[t] = q[i]
        /\ \A j \in 1 .. Len(q) : (i <= j /\ j < h) => previous[q[j]] = q[j + 1]
        /\ \A j \in h .. Len(q) : previous[q[j]] = None
  BY <1>1 DEF Walked, WalkFits
<1>4. /\ \A j, m \in 1 .. Len(q) : q[j] = q[m] => j = m
      /\ k \in 1 .. Len(q) /\ queueTail[q[k]] = q[1] /\ q # <<>> /\ word.head = q[Len(q)]
      /\ \A j \in 2 .. Len(q) : next[q[j]] = q[j - 1]
      /\ \A j \in k + 1 .. Len(q) : queueTail[q[j]] = None
      /\ \A j \in 1 .. k - 1 : previous[q[j]] = q[j + 1]
  BY <1>3 DEF Linked
<1>5. \A j \in 1 .. Len(q) : q[j] \in Threads
  OBVIOUS
<1>6. i = k
  BY <1>1, <1>3, <1>4
<1>7. /\ queueTail'[q[h]] = q[1]
      /\ \A j \in 1 .. Len(q) : j # h => queueTail'[q[j]] = queueTail[q[j]]
      /\ current'[t] = q[1] /\ pc'[t] = "decide" /\ \A u \in Threads \ {t} : pc'[u] = pc[u]
  BY <1>1, <1>3, <1>4, <1>5, <1>6 DEF TypeOK
<1>8. Linked(q, h)'
  <2>1. ASSUME NEW j \in h + 1 .. Len(q) PROVE queueTail'[q[j]] = None
    <3>1. j \in 1 .. Len(q) /\ j # h /\ j \in k + 1 .. Len(q)
      BY <1>3, <1>4, <2>1
    <3> QED BY <1>4, <1>7, <3>1
  <2>2. \A j \in 1 .. h - 1 : previous'[q[j]] = q[j + 1]
    BY <1>1, <1>3, <1>4, <1>6
  <2> QED BY <1>1, <1>4, <1>7, <2>1, <2>2 DEF Linked
<1>9. Walked(q, h)'
  <2>1. \A u \in Threads : pc'[u] # "walk" /\ (pc'[u] = "decide" => u = t)
    BY <1>2, <1>7
  <2>2. \A j \in 1 .. Len(q) : j >= h => previous'[q[j]] = None
    BY <1>1, <1>3
  <2> QED BY <1>1, <1>3, <1>4, <1>7, <2>1, <2>2 DEF Walked
<1> QED BY <1>8, <1>9

\* The tail may go when there is another: the back link says which.
LEMMA TakeTailFits ==
  ASSUME TypeOK, QueueHasOneKeeper, NEW q \in Seq(Threads), NEW k \in 0 .. Len(q), Linked(q, k), Walked(q, k),
         NEW t \in Threads, TakeTail(t)
  PROVE  /\ q # <<>> /\ current[t] = q[1] /\ previous[current[t]] \in Threads /\ state[t].head \in Threads
         /\ \E k1 \in 0 .. Len(Tail(q)) : Linked(Tail(q), k1)' /\ Walked(Tail(q), k1)'
<1> DEFINE n == Len(q)
           q1 == Tail(q)
           k1 == k - 1
<1>1. /\ pc[t] = "decide" /\ previous[current[t]] # None
      /\ queueTail' = [queueTail EXCEPT ![state[t].head] = previous[current[t]]]
      /\ word'.head = word.head /\ pc' = [pc EXCEPT ![t] = "wake"]
      /\ UNCHANGED <<previous, next>>
  BY DEF TakeTail, Goto, TypeOK, Words
<1>2. \A u \in Threads : pc[u] \in {"walk", "decide"} => u = t
  BY <1>1 DEF QueueHasOneKeeper
<1>3. /\ q # <<>> /\ state[t].head = q[k] /\ current[t] = q[1]
      /\ \A i \in 1 .. n : i >= k => previous[q[i]] = None
  BY <1>1, <1>2 DEF Walked
<1>4. n \in Nat \ {0} /\ Len(q1) = n - 1 /\ \A j \in 1 .. n - 1 : q1[j] = q[j + 1]
  BY <1>3, EmptySeq
<1>5. /\ \A j, m \in 1 .. n : q[j] = q[m] => j = m
      /\ k \in 1 .. n /\ queueTail[q[k]] = q[1] /\ word.head = q[n]
      /\ \A j \in 2 .. n : next[q[j]] = q[j - 1]
      /\ \A j \in k + 1 .. n : queueTail[q[j]] = None
      /\ \A j \in 1 .. k - 1 : previous[q[j]] = q[j + 1]
  BY <1>3 DEF Linked
<1>6. \A j \in 1 .. n : q[j] \in Threads
  OBVIOUS
<1> HIDE DEF n, q1
<1>7. k >= 2 /\ previous[q[1]] = q[2] /\ n >= 2
  BY <1>1, <1>3, <1>4, <1>5
<1>8. /\ queueTail'[q[k]] = q[2]
      /\ \A j \in 1 .. n : j # k => queueTail'[q[j]] = queueTail[q[j]]
      /\ pc'[t] = "wake" /\ \A u \in Threads \ {t} : pc'[u] = pc[u]
  BY <1>1, <1>3, <1>5, <1>6, <1>7 DEF TypeOK
<1>9. Linked(q1, k1)'
  <2>1. \A j, m \in 1 .. n - 1 : q1[j] = q1[m] => j = m
    BY <1>4, <1>5
  <2>2. word'.head = q1[n - 1] /\ k1 \in 1 .. n - 1 /\ queueTail'[q1[k1]] = q1[1]
    BY <1>1, <1>4, <1>5, <1>7, <1>8
  <2>3. ASSUME NEW j \in 2 .. n - 1 PROVE next'[q1[j]] = q1[j - 1]
    <3>1. j + 1 \in 2 .. n /\ j \in 1 .. n - 1 /\ j - 1 \in 1 .. n - 1 /\ (j - 1) + 1 = j /\ (j + 1) - 1 = j
      BY <1>4, <2>3
    <3>2. q1[j] = q[j + 1] /\ q1[j - 1] = q[j] /\ next[q[j + 1]] = q[j]
      BY <1>4, <1>5, <3>1
    <3> QED BY <1>1, <3>2
  <2>4. ASSUME NEW j \in k1 + 1 .. n - 1 PROVE queueTail'[q1[j]] = None
    <3>1. j \in 1 .. n - 1 /\ j + 1 \in 1 .. n /\ j + 1 # k /\ j + 1 \in k + 1 .. n
      BY <1>4, <1>5, <1>7, <2>4
    <3>2. q1[j] = q[j + 1] /\ queueTail[q[j + 1]] = None
      BY <1>4, <1>5, <3>1
    <3> QED BY <1>8, <3>1, <3>2
  <2>5. \A j \in 1 .. k1 - 1 : previous'[q1[j]] = q1[j + 1]
    <3>1. ASSUME NEW j \in 1 .. k1 - 1 PROVE previous'[q1[j]] = q1[j + 1]
      <4>1. j + 1 \in 1 .. k - 1 /\ j \in 1 .. n - 1 /\ j + 1 \in 1 .. n - 1 /\ (j + 1) + 1 = j + 2
        BY <1>4, <1>5, <3>1
      <4>2. previous[q[j + 1]] = q[(j + 1) + 1] /\ q1[j] = q[j + 1] /\ q1[j + 1] = q[(j + 1) + 1]
        BY <1>4, <1>5, <4>1
      <4> QED BY <1>1, <4>2
    <3> QED BY <3>1
  <2> QED BY <1>4, <1>7, <2>1, <2>2, <2>3, <2>4, <2>5 DEF Linked
<1>10. Walked(q1, k1)'
  <2>1. \A u \in Threads : pc'[u] \notin {"walk", "decide"}
    BY <1>2, <1>8
  <2>2. \A j \in 1 .. n - 1 : j >= k1 => previous'[q1[j]] = None
    <3>1. ASSUME NEW j \in 1 .. n - 1, j >= k1 PROVE previous'[q1[j]] = None
      <4>1. j + 1 \in 1 .. n /\ j + 1 >= k
        BY <1>4, <1>5, <3>1
      <4> QED BY <1>1, <1>3, <1>4, <4>1
    <3> QED BY <3>1
  <2> QED BY <1>4, <2>1, <2>2 DEF Walked
<1>11. k1 \in 0 .. Len(q1)
  BY <1>4, <1>5
<1>12. \E m \in 0 .. Len(q1) : Linked(q1, m)' /\ Walked(q1, m)'
  BY <1>9, <1>10, <1>11
<1> QED BY <1>1, <1>3, <1>4, <1>5, <1>6, <1>7, <1>12 DEF q1

\* The queue is emptied when it has one thread, and the word, which has not
\* changed, says that no other has come.
LEMMA TakeLastFits ==
  ASSUME TypeOK, QueueHasOneKeeper, NEW q \in Seq(Threads), NEW k \in 0 .. Len(q), Linked(q, k), Walked(q, k),
         NEW t \in Threads, TakeLast(t), word = state[t]
  PROVE  /\ q # <<>> /\ current[t] = q[1] /\ Tail(q) = <<>>
         /\ \E k1 \in 0 .. Len(Tail(q)) : Linked(Tail(q), k1)' /\ Walked(Tail(q), k1)'
<1>1. /\ pc[t] = "decide" /\ previous[current[t]] = None
      /\ word' = Unlocked /\ pc' = [pc EXCEPT ![t] = "wake"]
  BY DEF TakeLast, Goto
<1>2. \A u \in Threads : pc[u] \in {"walk", "decide"} => u = t
  BY <1>1 DEF QueueHasOneKeeper
<1>3. q # <<>> /\ state[t].head = q[k] /\ current[t] = q[1]
  BY <1>1 DEF Walked
<1>4. /\ \A j, m \in 1 .. Len(q) : q[j] = q[m] => j = m
      /\ k \in 1 .. Len(q) /\ word.head = q[Len(q)]
      /\ \A j \in 1 .. k - 1 : previous[q[j]] = q[j + 1]
  BY <1>3 DEF Linked
<1>5. k = 1
  <2>1. CASE k > 1
    <3>1. previous[q[1]] = q[2] /\ q[2] \in Threads
      BY <1>4, <2>1
    <3> QED BY <1>1, <1>3, <3>1, EscalatingLockAssumption
  <2> QED BY <1>4, <2>1
<1>6. Len(q) = 1
  <2>1. q[Len(q)] = q[k] /\ Len(q) \in 1 .. Len(q)
    BY <1>3, <1>4
  <2> QED BY <1>4, <1>5, <2>1
<1> DEFINE q1 == Tail(q)
<1>7. Len(q1) = 0 /\ q1 = <<>>
  <2>1. q1 \in Seq(Threads) /\ Len(q1) = Len(q) - 1
    BY <1>3, HeadTailProperties
  <2>2. Len(q1) = 0
    BY ONLY <1>6, <2>1
  <2> HIDE DEF q1
  <2> QED BY ONLY <2>1, <2>2, EmptySeq, SMT
<1> HIDE DEF q1
<1>8. Linked(q1, 0)'
  BY <1>1, <1>7 DEF Linked, Unlocked
<1>9. Walked(q1, 0)'
  <2>1. \A u \in Threads : pc'[u] \notin {"walk", "decide"}
    BY <1>1, <1>2 DEF TypeOK
  <2> QED BY <1>7, <2>1 DEF Walked
<1>10. \E m \in 0 .. Len(q1) : Linked(q1, m)' /\ Walked(q1, m)'
  BY <1>7, <1>8, <1>9
<1> QED BY <1>3, <1>7, <1>10 DEF q1

\* Whoever leaves the queue has a thread that will wake it.
LEMMA TakenFits ==
  ASSUME TypeOK, NEW q \in Seq(Threads), NEW k \in 0 .. Len(q), Linked(q, k), Slept(q), q # <<>>,
         NEW t \in Threads, pc[t] = "decide", current[t] = q[1], Goto(t, "wake"), UNCHANGED <<parker, current>>
  PROVE  Slept(Tail(q))'
<1> DEFINE n == Len(q)
           q1 == Tail(q)
<1>1. n \in Nat \ {0} /\ Len(q1) = n - 1 /\ \A j \in 1 .. n - 1 : q1[j] = q[j + 1]
  BY EmptySeq
<1>2. /\ \A j, m \in 1 .. n : q[j] = q[m] => j = m
      /\ \A j \in 1 .. n : q[j] \in Threads
  BY DEF Linked
<1>3. /\ pc'[t] = "wake" /\ \A u \in Threads \ {t} : pc'[u] = pc[u]
      /\ \A u \in Threads : pc[u] = "wake" => current[u] \in Threads
  BY DEF Goto, TypeOK
<1>4. /\ \A u \in Threads : Asleep(u)' <=> Asleep(u)
  BY <1>3 DEF Asleep
<1>5. /\ \A i \in 1 .. n : Asleep(q[i])
      /\ \A u \in Threads : Asleep(u) =>
           (\E i \in 1 .. n : q[i] = u) \/ \E v \in Threads : pc[v] = "wake" /\ current[v] = u
      /\ \A u \in Threads : pc[u] = "wake" =>
           /\ Asleep(current[u])
           /\ \A i \in 1 .. n : q[i] # current[u]
           /\ \A v \in Threads : pc[v] = "wake" /\ current[v] = current[u] => u = v
  BY DEF Slept
<1> HIDE DEF n, q1
<1>6. \A i \in 1 .. n - 1 : Asleep(q1[i])'
  BY <1>1, <1>2, <1>4, <1>5
<1>7. \A u \in Threads : Asleep(u)' =>
        (\E i \in 1 .. n - 1 : q1[i] = u) \/ \E v \in Threads : pc'[v] = "wake" /\ current[v] = u
  <2>1. ASSUME NEW u \in Threads, NEW i \in 1 .. n, q[i] = u, i # 1 PROVE \E j \in 1 .. n - 1 : q1[j] = u
    <3>1. i - 1 \in 1 .. n - 1 /\ q1[i - 1] = q[i]
      BY <1>1, <2>1
    <3> QED BY <2>1, <3>1
  <2>2. \A v \in Threads : pc[v] = "wake" => pc'[v] = "wake"
    BY <1>3
  <2> QED BY <1>3, <1>4, <1>5, <2>1, <2>2
<1>8. ASSUME NEW u \in Threads, pc'[u] = "wake"
      PROVE  /\ Asleep(current[u])'
             /\ \A i \in 1 .. n - 1 : q1[i] # current[u]
             /\ \A v \in Threads : pc'[v] = "wake" /\ current[v] = current[u] => u = v
  <2>1. CASE u = t
    <3>1. Asleep(q[1])' /\ \A i \in 1 .. n - 1 : q1[i] # q[1]
      BY <1>1, <1>2, <1>4, <1>5
    <3>2. \A v \in Threads : pc'[v] = "wake" /\ current[v] = current[u] => u = v
      BY <1>1, <1>3, <1>5, <2>1
    <3> QED BY <2>1, <3>1, <3>2 DEF Asleep
  <2>2. CASE u # t
    <3>1. pc[u] = "wake" /\ Asleep(current[u]) /\ current[u] \in Threads /\ \A i \in 1 .. n : q[i] # current[u]
      BY <1>3, <1>5, <1>8, <2>2
    <3>2. Asleep(current[u])' /\ \A i \in 1 .. n - 1 : q1[i] # current[u]
      BY <1>1, <1>4, <3>1 DEF Asleep
    <3>3. \A v \in Threads : pc'[v] = "wake" /\ current[v] = current[u] => u = v
      BY <1>1, <1>3, <1>5, <3>1
    <3> QED BY <3>2, <3>3
  <2> QED BY <2>1, <2>2
<1>9. current' = current
  OBVIOUS
<1>10. Slept(q1)'
  BY <1>1, <1>6, <1>7, <1>8, <1>9 DEF Slept
<1> QED BY <1>10 DEF q1

\* A thread that is woken sleeps no more, and nobody else is about to wake it.
LEMMA WakeFits ==
  ASSUME TypeOK, NEW q \in Seq(Threads), Slept(q), NEW t \in Threads, Wake(t)
  PROVE  Slept(q)'
<1>1. /\ pc[t] = "wake" /\ parker' = [parker EXCEPT ![current[t]] = 0] /\ pc' = [pc EXCEPT ![t] = "idle"]
      /\ UNCHANGED current
  BY DEF Wake, Goto
<1>2. /\ \A u \in Threads : pc[u] = "wake" => current[u] \in Threads
      /\ \A i \in 1 .. Len(q) : q[i] \in Threads
  BY DEF TypeOK
<1>3. Asleep(current[t]) /\ current[t] # t
  BY <1>1 DEF Slept, Asleep
<1>4. \A u \in Threads : Asleep(u)' <=> Asleep(u) /\ u # current[t]
  BY <1>1, <1>2, <1>3 DEF Asleep, TypeOK
<1>5. \A u \in Threads : pc'[u] = "wake" <=> pc[u] = "wake" /\ u # t
  BY <1>1 DEF TypeOK
<1>6. \A i \in 1 .. Len(q) : Asleep(q[i])'
  BY <1>1, <1>2, <1>4 DEF Slept
<1>7. \A u \in Threads : Asleep(u)' =>
        (\E i \in 1 .. Len(q) : q[i] = u) \/ \E v \in Threads : pc'[v] = "wake" /\ current[v] = u
  BY <1>4, <1>5 DEF Slept
<1>8. ASSUME NEW u \in Threads, pc'[u] = "wake"
      PROVE  /\ Asleep(current[u])'
             /\ \A i \in 1 .. Len(q) : q[i] # current[u]
             /\ \A v \in Threads : pc'[v] = "wake" /\ current[v] = current[u] => u = v
  <2>1. pc[u] = "wake" /\ u # t /\ current[u] \in Threads
    BY <1>2, <1>5, <1>8
  <2>2. current[u] # current[t] /\ Asleep(current[u])
    BY <1>1, <2>1 DEF Slept
  <2>3. Asleep(current[u])'
    BY <1>1, <1>4, <2>1, <2>2 DEF Asleep
  <2> QED BY <1>5, <2>1, <2>3 DEF Slept
<1> QED BY <1>1, <1>6, <1>7, <1>8 DEF Slept

\* What a step does to the queue: nothing, or a thread joins it, or the one that
\* has slept longest leaves it.
LEMMA QueueSteps ==
  ASSUME Inv, TypeOK, NEW q \in Seq(Threads), NEW k \in 0 .. Len(q), IsQueue(q, k), [Next]_vars
  PROVE  \E q1 \in Seq(Threads) : \E k1 \in 0 .. Len(q1) :
           /\ IsQueue(q1, k1)'
           /\ \/ q1 = q
              \/ \E t \in Threads : Enqueue(t) /\ q1 = Append(q, t)
              \/ q # <<>> /\ q1 = Tail(q) /\ \E t \in Threads : TakeTail(t) \/ TakeLast(t)
<1> DEFINE Same == IsQueue(q, k)'
           Goal == \E q1 \in Seq(Threads) : \E k1 \in 0 .. Len(q1) :
                     /\ IsQueue(q1, k1)'
                     /\ \/ q1 = q
                        \/ \E t \in Threads : Enqueue(t) /\ q1 = Append(q, t)
                        \/ q # <<>> /\ q1 = Tail(q) /\ \E t \in Threads : TakeTail(t) \/ TakeLast(t)
<1>0. Linked(q, k) /\ Walked(q, k) /\ Slept(q) /\ QueueHasOneKeeper
  BY DEF IsQueue, Inv
<1>1. Same => Goal
  OBVIOUS
<1>2. ASSUME NEW m \in 0 .. Len(q), Linked(q, m)', Walked(q, m)', Slept(q)' PROVE Goal
  BY <1>2 DEF IsQueue
<1>3. ASSUME q # <<>>, Slept(Tail(q))', NEW t \in Threads, TakeTail(t) \/ TakeLast(t),
             \E m \in 0 .. Len(Tail(q)) : Linked(Tail(q), m)' /\ Walked(Tail(q), m)'
      PROVE  Goal
  <2>1. Tail(q) \in Seq(Threads)
    BY <1>3, HeadTailProperties
  <2>2. PICK m \in 0 .. Len(Tail(q)) : IsQueue(Tail(q), m)'
    BY <1>3 DEF IsQueue
  <2> QED BY <1>3, <2>1, <2>2
<1>4. ASSUME NEW t \in Threads, Lock(t) \/ Acquire(t) \/ Unparked(t) \/ Unlock(t) PROVE Same
  <2>1. /\ pc[t] \in {"idle", "locking", "parked", "holding"} /\ (pc[t] = "parked" => parker[t] = 0)
        /\ pc'[t] \in {"locking", "holding", "idle", "unlocking"} /\ \A u \in Threads \ {t} : pc'[u] = pc[u]
        /\ word'.head = word.head /\ UNCHANGED <<nodes, state, current>>
    BY <1>4 DEF Lock, Acquire, Unparked, Unlock, Goto, TypeOK, Words
  <2>2. Linked(q, k)' /\ Walked(q, k)'
    BY <1>0, <2>1, SameLinks DEF nodes
  <2>3. Slept(q)'
    BY <1>0, <2>1, SameSleepers DEF nodes, Asleep, TypeOK
  <2> QED BY <2>2, <2>3 DEF IsQueue
<1>5. ASSUME NEW t \in Threads, Enqueue(t) PROVE Goal
  BY <1>5, EnqueueFits
<1>6. ASSUME NEW t \in Threads, LockQueue(t) PROVE Same
  <2>1. pc[t] = "unlocking" /\ UNCHANGED nodes
    BY <1>6 DEF LockQueue
  <2>2. CASE word.queueLocked \/ word.head = None
    <3>1. pc'[t] = "idle" /\ (\A u \in Threads \ {t} : pc'[u] = pc[u]) /\ UNCHANGED <<word, state, current>>
      BY <1>6, <2>2 DEF LockQueue, Goto, TypeOK
    <3>2. Linked(q, k)' /\ Walked(q, k)'
      BY <1>0, <2>1, <3>1, SameLinks DEF nodes
    <3>3. Slept(q)'
      BY <1>0, <2>1, <3>1, SameSleepers DEF nodes, Asleep, TypeOK
    <3> QED BY <3>2, <3>3 DEF IsQueue
  <2>3. CASE ~(word.queueLocked \/ word.head = None)
    <3>1. /\ word'.head = word.head /\ word.head # None /\ ~word.queueLocked
          /\ state' = [state EXCEPT ![t] = word] /\ current' = [current EXCEPT ![t] = word.head]
          /\ Goto(t, "walk")
      BY <1>6, <2>3 DEF LockQueue, TypeOK, Words
    <3>2. \A u \in Threads : pc[u] \notin {"walk", "decide"}
      BY <1>0, <3>1 DEF QueueHasOneKeeper
    <3>3. Linked(q, k)' /\ Walked(q, k)'
      BY <1>0, <2>1, <3>1, <3>2, WalkBegins DEF nodes
    <3>4. Slept(q)'
      BY <1>0, <2>1, <3>1, SameSleepers DEF nodes, Asleep, Goto, TypeOK
    <3> QED BY <3>3, <3>4 DEF IsQueue
  <2> QED BY <2>2, <2>3
<1>7. ASSUME NEW t \in Threads, Walk(t) PROVE Same
  <2>1. Linked(q, k)' /\ Walked(q, k)'
    BY <1>0, <1>7, WalkStepFits
  <2>2. Slept(q)'
    BY <1>0, <1>7, SameSleepers DEF Walk, Asleep, TypeOK
  <2> QED BY <2>1, <2>2 DEF IsQueue
<1>8. ASSUME NEW t \in Threads, FindTail(t) PROVE Goal
  <2>1. PICK m \in 0 .. Len(q) : Linked(q, m)' /\ Walked(q, m)'
    BY <1>0, <1>8, FindTailFits
  <2>2. Slept(q)'
    BY <1>0, <1>8, SameSleepers DEF FindTail, Asleep, Goto, TypeOK
  <2> QED BY <1>2, <2>1, <2>2
<1>9. ASSUME NEW t \in Threads, pc[t] = "decide", Rescan(t) PROVE Same
  <2>1. \A u \in Threads : pc[u] \in {"walk", "decide"} => u = t
    BY <1>0, <1>9 DEF QueueHasOneKeeper
  <2>2. \A u \in Threads : pc[u] # "walk"
    BY <1>9, <2>1
  <2>3. word.head # None
    <3>1. q # <<>>
      BY <1>0, <1>9 DEF Walked
    <3> QED BY <1>0, <3>1, EscalatingLockAssumption DEF Linked
  <2>4. /\ word'.head = word.head /\ UNCHANGED nodes
        /\ state' = [state EXCEPT ![t] = word] /\ current' = [current EXCEPT ![t] = word.head]
        /\ Goto(t, "walk")
    BY <1>9 DEF Rescan
  <2>5. Linked(q, k)' /\ Walked(q, k)'
    BY <1>0, <2>1, <2>2, <2>3, <2>4, WalkBegins DEF nodes
  <2>6. Slept(q)'
    BY <1>0, <1>9, <2>4, SameSleepers DEF nodes, Asleep, Goto, TypeOK
  <2> QED BY <2>5, <2>6 DEF IsQueue
<1>10. ASSUME NEW t \in Threads, LeaveToHolder(t) PROVE Same
  <2>1. CASE word = state[t]
    <3>1. /\ pc[t] = "decide" /\ pc'[t] = "idle" /\ (\A u \in Threads \ {t} : pc'[u] = pc[u])
          /\ word'.head = word.head /\ UNCHANGED <<nodes, state, current>>
      BY <1>10, <2>1 DEF LeaveToHolder, Goto, TypeOK, Words
    <3>2. Linked(q, k)' /\ Walked(q, k)'
      BY <1>0, <3>1, SameLinks DEF nodes
    <3>3. Slept(q)'
      BY <1>0, <3>1, SameSleepers DEF nodes, Asleep, TypeOK
    <3> QED BY <3>2, <3>3 DEF IsQueue
  <2>2. CASE word # state[t]
    BY <1>9, <1>10, <2>2 DEF LeaveToHolder
  <2> QED BY <2>1, <2>2
<1>11. ASSUME NEW t \in Threads, TakeLast(t) PROVE Goal
  <2>1. CASE word = state[t]
    <3>1. /\ q # <<>> /\ current[t] = q[1]
          /\ \E m \in 0 .. Len(Tail(q)) : Linked(Tail(q), m)' /\ Walked(Tail(q), m)'
      BY <1>0, <1>11, <2>1, TakeLastFits
    <3>2. pc[t] = "decide" /\ Goto(t, "wake") /\ UNCHANGED <<parker, current>>
      BY <1>11, <2>1 DEF TakeLast, nodes
    <3>3. Slept(Tail(q))'
      BY <1>0, <3>1, <3>2, TakenFits
    <3> QED BY <1>3, <1>11, <3>1, <3>3
  <2>2. CASE word # state[t]
    BY <1>1, <1>9, <1>11, <2>2 DEF TakeLast
  <2> QED BY <2>1, <2>2
<1>12. ASSUME NEW t \in Threads, TakeTail(t) PROVE Goal
  <2>1. /\ q # <<>> /\ current[t] = q[1]
        /\ \E m \in 0 .. Len(Tail(q)) : Linked(Tail(q), m)' /\ Walked(Tail(q), m)'
    BY <1>0, <1>12, TakeTailFits
  <2>2. pc[t] = "decide" /\ Goto(t, "wake") /\ UNCHANGED <<parker, current>>
    BY <1>12 DEF TakeTail
  <2>3. Slept(Tail(q))'
    BY <1>0, <2>1, <2>2, TakenFits
  <2> QED BY <1>3, <1>12, <2>1, <2>3
<1>13. ASSUME NEW t \in Threads, Wake(t) PROVE Same
  <2>1. /\ pc[t] = "wake" /\ pc'[t] = "idle" /\ (\A u \in Threads \ {t} : pc'[u] = pc[u])
        /\ UNCHANGED <<word, queueTail, previous, next, state, current>>
    BY <1>13 DEF Wake, Goto, TypeOK
  <2>2. Linked(q, k)' /\ Walked(q, k)'
    BY <1>0, <2>1, SameLinks
  <2>3. Slept(q)'
    BY <1>0, <1>13, WakeFits
  <2> QED BY <2>2, <2>3 DEF IsQueue
<1>14. ASSUME UNCHANGED vars PROVE Goal
  <2>1. Linked(q, k)' /\ Walked(q, k)'
    BY <1>0, <1>14, SameLinks DEF vars, nodes
  <2>2. Slept(q)'
    BY <1>0, <1>14, SameSleepers DEF vars, nodes, Asleep, TypeOK
  <2> QED BY <1>1, <2>1, <2>2 DEF IsQueue
<1> HIDE DEF Same, Goal
<1>15. Goal
  <2>1. CASE UNCHANGED vars
    BY <1>14, <2>1
  <2>2. ASSUME NEW t \in Threads, Lock(t) \/ Step(t) PROVE Goal
    BY <1>1, <1>4, <1>5, <1>6, <1>7, <1>8, <1>10, <1>11, <1>12, <1>13, <2>2, Zenon DEF Step
  <2> QED BY <2>1, <2>2, Zenon DEF Next
<1> QED BY <1>15 DEF Goal

\* Types are kept: a walk does not leave the queue.
LEMMA TypeSteps ==
  ASSUME Inv, TypeOK, NEW q \in Seq(Threads), NEW k \in 0 .. Len(q), IsQueue(q, k), [Next]_vars
  PROVE  TypeOK'
<1> USE DEF Goto, nodes
<1>1. WordTyped'
  BY NextTyped DEF Inv
<1>2. Linked(q, k) /\ Walked(q, k) /\ Slept(q) /\ QueueHasOneKeeper /\ MaxLocks \in Nat
  BY EscalatingLockAssumption DEF IsQueue, Inv
<1>3. ASSUME NEW t \in Threads, Lock(t) \/ Acquire(t) \/ Unparked(t) \/ Unlock(t) PROVE TypeOK'
  <2>1. pc'[t] \notin {"walk", "decide", "wake"} /\ \A u \in Threads \ {t} : pc'[u] = pc[u]
    BY <1>3 DEF Lock, Acquire, Unparked, Unlock, TypeOK
  <2>2. locks' \in 0 .. MaxLocks
    BY <1>2, <1>3 DEF Lock, Acquire, Unparked, Unlock, TypeOK
  <2>3. UNCHANGED <<nodes, state, current>>
    BY <1>3 DEF Lock, Acquire, Unparked, Unlock
  <2> QED BY <1>1, <2>1, <2>2, <2>3 DEF TypeOK, WordTyped
<1>4. ASSUME NEW t \in Threads, Enqueue(t) PROVE TypeOK'
  <2>1. pc'[t] = "parked" /\ \A u \in Threads \ {t} : pc'[u] = pc[u]
    BY <1>4 DEF Enqueue, TypeOK
  <2>2. /\ parker' \in [Threads -> {0, 1}] /\ queueTail' \in [Threads -> Threads \cup {None}]
        /\ previous' \in [Threads -> Threads \cup {None}] /\ next' \in [Threads -> Threads \cup {None}]
    BY <1>4 DEF Enqueue, TypeOK, Words
  <2> QED BY <1>1, <1>4, <2>1, <2>2 DEF TypeOK, WordTyped, Enqueue
<1>5. ASSUME NEW t \in Threads, pc' = [pc EXCEPT ![t] = "walk"], word.head \in Threads, UNCHANGED <<nodes, locks>>,
             state' = [state EXCEPT ![t] = word], current' = [current EXCEPT ![t] = word.head]
      PROVE  TypeOK'
  BY <1>1, <1>5 DEF TypeOK, WordTyped
<1>6. ASSUME NEW t \in Threads, LockQueue(t) PROVE TypeOK'
  <2>1. CASE word.queueLocked \/ word.head = None
    <3>1. pc'[t] = "idle" /\ (\A u \in Threads \ {t} : pc'[u] = pc[u]) /\ UNCHANGED <<nodes, state, current, locks>>
      BY <1>6, <2>1 DEF LockQueue, TypeOK
    <3> QED BY <1>1, <3>1 DEF TypeOK, WordTyped
  <2>2. CASE ~(word.queueLocked \/ word.head = None)
    BY <1>5, <1>6, <2>2 DEF LockQueue, TypeOK, Words
  <2> QED BY <2>1, <2>2
<1>7. ASSUME NEW t \in Threads, Walk(t) PROVE TypeOK'
  <2>1. current[t] \in Threads /\ next[current[t]] \in Threads
    BY <1>2, <1>7, WalkStepFits
  <2>2. /\ current' = [current EXCEPT ![t] = next[current[t]]]
        /\ previous' = [previous EXCEPT ![next[current[t]]] = current[t]]
        /\ UNCHANGED <<word, parker, queueTail, next, pc, state, locks>>
    BY <1>7 DEF Walk, TypeOK
  <2> QED BY <1>1, <2>1, <2>2 DEF TypeOK
<1>8. ASSUME NEW t \in Threads, FindTail(t) PROVE TypeOK'
  <2>1. current[t] \in Threads /\ queueTail[current[t]] \in Threads /\ state[t].head \in Threads
    BY <1>8 DEF FindTail, TypeOK
  <2>2. /\ queueTail' = [queueTail EXCEPT ![state[t].head] = queueTail[current[t]]]
        /\ current' = [current EXCEPT ![t] = queueTail[current[t]]]
        /\ pc' = [pc EXCEPT ![t] = "decide"]
        /\ UNCHANGED <<word, parker, previous, next, state, locks>>
    BY <1>8 DEF FindTail
  <2> QED BY <1>1, <2>1, <2>2 DEF TypeOK, WordTyped
<1>9. ASSUME NEW t \in Threads, pc[t] = "decide", Rescan(t) PROVE TypeOK'
  <2>1. word.head \in Threads
    <3>1. q # <<>>
      BY <1>2, <1>9 DEF Walked
    <3> QED BY <1>2, <3>1 DEF Linked
  <2> QED BY <1>5, <1>9, <2>1 DEF Rescan
<1>10. ASSUME NEW t \in Threads, LeaveToHolder(t) PROVE TypeOK'
  <2>1. CASE word = state[t]
    <3>1. pc'[t] = "idle" /\ (\A u \in Threads \ {t} : pc'[u] = pc[u]) /\ UNCHANGED <<nodes, state, current, locks>>
      BY <1>10, <2>1 DEF LeaveToHolder, TypeOK
    <3> QED BY <1>1, <3>1 DEF TypeOK, WordTyped
  <2>2. CASE word # state[t]
    BY <1>9, <1>10, <2>2 DEF LeaveToHolder
  <2> QED BY <2>1, <2>2
<1>11. ASSUME NEW t \in Threads, TakeLast(t) PROVE TypeOK'
  <2>1. CASE word = state[t]
    <3>1. /\ pc[t] = "decide" /\ pc'[t] = "wake" /\ (\A u \in Threads \ {t} : pc'[u] = pc[u])
          /\ UNCHANGED <<nodes, state, current, locks>>
      BY <1>11, <2>1 DEF TakeLast, TypeOK
    <3> QED BY <1>1, <3>1 DEF TypeOK, WordTyped
  <2>2. CASE word # state[t]
    BY <1>9, <1>11, <2>2 DEF TakeLast
  <2> QED BY <2>1, <2>2
<1>12. ASSUME NEW t \in Threads, TakeTail(t) PROVE TypeOK'
  <2>1. previous[current[t]] \in Threads /\ state[t].head \in Threads
    BY <1>2, <1>12, TakeTailFits
  <2>2. /\ pc[t] = "decide" /\ pc'[t] = "wake" /\ (\A u \in Threads \ {t} : pc'[u] = pc[u])
        /\ queueTail' = [queueTail EXCEPT ![state[t].head] = previous[current[t]]]
        /\ UNCHANGED <<parker, previous, next, state, current, locks>>
    BY <1>12 DEF TakeTail, TypeOK
  <2> QED BY <1>1, <2>1, <2>2 DEF TypeOK, WordTyped
<1>13. ASSUME NEW t \in Threads, Wake(t) PROVE TypeOK'
  <2>1. /\ pc'[t] = "idle" /\ (\A u \in Threads \ {t} : pc'[u] = pc[u])
        /\ parker' = [parker EXCEPT ![current[t]] = 0]
        /\ UNCHANGED <<word, queueTail, previous, next, state, current, locks>>
    BY <1>13 DEF Wake, TypeOK
  <2>2. parker' \in [Threads -> {0, 1}]
    BY <2>1 DEF TypeOK
  <2> QED BY <1>1, <2>1, <2>2 DEF TypeOK, WordTyped
<1>14. CASE UNCHANGED vars
  BY <1>14 DEF vars, TypeOK
<1> QED BY <1>3, <1>4, <1>6, <1>7, <1>8, <1>10, <1>11, <1>12, <1>13, <1>14 DEF Next, Step

\* Nobody is queued at first.
LEMMA QueueStarts == Init => TypeOK /\ QueueInv
<1> SUFFICES ASSUME Init PROVE TypeOK /\ QueueInv
  OBVIOUS
<1>1. TypeOK
  BY EscalatingLockAssumption DEF Init, TypeOK, Words, Unlocked
<1>2. <<>> \in Seq(Threads) /\ Len(<<>>) = 0
  BY EmptySeq
<1>3. IsQueue(<<>>, 0)
  BY <1>2 DEF Init, IsQueue, Linked, Walked, Slept, Asleep, Unlocked
<1>4. 0 \in 0 .. Len(<<>>)
  BY <1>2
<1>5. \E q \in Seq(Threads) : \E k \in 0 .. Len(q) : IsQueue(q, k)
  BY ONLY <1>2, <1>3, <1>4, Zenon
<1> QED BY <1>1, <1>5 DEF QueueInv

\* The whole invariant holds.
LEMMA LockInvariant == Spec => []LockInv
<1>1. Init => LockInv
  BY InitInv, QueueStarts DEF LockInv
<1>2. LockInv /\ [Next]_vars => LockInv'
  <2> SUFFICES ASSUME LockInv, [Next]_vars PROVE LockInv'
    OBVIOUS
  <2>1. Inv' /\ Inv /\ TypeOK
    BY NextInv DEF LockInv
  <2>2. PICK q \in Seq(Threads) : \E k \in 0 .. Len(q) : IsQueue(q, k)
    BY DEF LockInv, QueueInv
  <2>3. PICK k \in 0 .. Len(q) : IsQueue(q, k)
    BY <2>2
  <2>4. TypeOK'
    BY <2>1, <2>3, TypeSteps
  <2>5. \E q1 \in Seq(Threads) : \E k1 \in 0 .. Len(q1) : IsQueue(q1, k1)'
    BY <2>1, <2>3, QueueSteps
  <2> QED BY <2>1, <2>4, <2>5 DEF LockInv, QueueInv
<1> QED BY <1>1, <1>2, PTL DEF Spec

-----------------------------------------------------------------------------
(* Following the links from the head finds the queue.                      *)

\* A set of naturals has a least one.
LEMMA LeastNatural ==
  ASSUME NEW S \in SUBSET Nat, S # {}
  PROVE  \E n \in S : \A m \in S : n <= m
<1>1. PICK n \in S : \A m \in S : ~ (<<m, n>> \in OpToRel(<, Nat))
  BY NatLessThanWellFounded, WFMin
<1>2. ASSUME NEW m \in S PROVE n <= m
  <2>1. m \in Nat /\ n \in Nat /\ ~ (m < n)
    BY <1>1 DEF OpToRel
  <2> QED BY <2>1
<1> QED BY <1>2

\* What following the links of next from a node finds in n steps.
Chained(at, first, link, n) ==
  at = [m \in 1 .. n |-> IF m = 1 THEN first ELSE IF at[m - 1] = None THEN None ELSE link[at[m - 1]]]

\* Links can be followed for any number of steps.
LEMMA ChainExists ==
  ASSUME NEW first, NEW link, NEW count \in Nat
  PROVE  \E at : Chained(at, first, link, count)
<1> DEFINE After(at, m) == IF m = 1 THEN first ELSE IF at[m - 1] = None THEN None ELSE link[at[m - 1]]
           Follows(at, n) == at = [m \in 1 .. n |-> After(at, m)]
           S == {n \in Nat : \A at : ~Chained(at, first, link, n)}
<1>0. \A n \in Nat : \A at : Follows(at, n) <=> Chained(at, first, link, n)
  BY DEF Chained
<1>1. CASE S = {}
  BY <1>1
<1>2. CASE S # {}
  <2>1. PICK n \in S : \A m \in S : n <= m
    BY <1>2, LeastNatural
  <2>2. n \in Nat /\ \A at : ~Follows(at, n)
    BY <1>0
  <2>3. n # 0
    <3>1. SUFFICES ASSUME n = 0 PROVE FALSE
      OBVIOUS
    <3> DEFINE at == [m \in 1 .. n |-> first]
    <3>2. Follows(at, n)
      BY <3>1
    <3> QED BY <2>2, <3>2
  <2>4. n - 1 \in Nat /\ n - 1 \notin S
    <3> HIDE DEF S, Follows
    <3> QED BY <2>1, <2>2, <2>3
  <2>5. PICK before : Follows(before, n - 1)
    <3>1. \E at : Chained(at, first, link, n - 1)
      BY <2>4
    <3> QED BY <1>0, <2>4, <3>1
  <2> DEFINE at == [m \in 1 .. n |-> IF m = n THEN After(before, n) ELSE before[m]]
  <2>6. ASSUME NEW m \in 1 .. n PROVE at[m] = After(at, m)
    <3>1. CASE m = 1
      <4>1. CASE n = 1
        BY <3>1, <4>1
      <4>2. CASE n # 1
        <5>1. at[m] = before[m] /\ m \in 1 .. n - 1
          BY <2>2, <3>1, <4>2
        <5> QED BY <2>5, <3>1, <5>1
      <4> QED BY <4>1, <4>2
    <3>2. CASE m # 1
      <4>1. m - 1 \in 1 .. n - 1 /\ m - 1 \in 1 .. n /\ m - 1 # n
        BY <2>2, <3>2
      <4>2. at[m - 1] = before[m - 1]
        BY <4>1
      <4>3. CASE m = n
        BY <4>2, <4>3
      <4>4. CASE m # n
        <5>1. m \in 1 .. n - 1
          BY <2>2, <4>4
        <5> QED BY <2>5, <4>2, <4>4, <5>1
      <4> QED BY <4>3, <4>4
    <3> QED BY <3>1, <3>2
  <2>7. Follows(at, n)
    BY <2>6
  <2> QED BY <2>2, <2>7
<1> QED BY <1>1, <1>2

\* The nodes of the queue, one by one.
LEMMA NodesFollow ==
  ASSUME NEW n \in Nat, Cardinality(Threads) \in Nat, n \in 1 .. Cardinality(Threads) + 1
  PROVE  Node(n) = IF n = 1 THEN word.head ELSE IF Node(n - 1) = None THEN None ELSE next[Node(n - 1)]
<1> DEFINE count == Cardinality(Threads) + 1
           After(at, m) == IF m = 1 THEN word.head ELSE IF at[m - 1] = None THEN None ELSE next[at[m - 1]]
           chain == CHOOSE at : at = [m \in 1 .. count |->
             IF m = 1 THEN word.head ELSE IF at[m - 1] = None THEN None ELSE next[at[m - 1]]]
<1>1. chain = [m \in 1 .. count |-> After(chain, m)]
  <2>1. count \in Nat
    OBVIOUS
  <2> HIDE DEF count
  <2>2. \E at : Chained(at, word.head, next, count)
    BY <2>1, ChainExists
  <2> QED BY <2>2 DEF Chained
<1>2. Node(n) = chain[n] /\ Node(n - 1) = chain[n - 1]
  BY DEF Node
<1> HIDE DEF chain
<1> QED BY <1>1, <1>2

\* The queue is no longer than there are threads.
LEMMA QueueIsShort ==
  ASSUME NEW q \in Seq(Threads), \A i, j \in 1 .. Len(q) : q[i] = q[j] => i = j
  PROVE  /\ Cardinality(Threads) \in Nat
         /\ Len(q) \in Nat /\ Len(q) <= Cardinality(Threads)
<1>1. Len(q) \in Nat /\ q \in [1 .. Len(q) -> Threads]
  OBVIOUS
<1>2. q \in Injection(1 .. Len(q), Threads)
  BY <1>1 DEF Injection, IsInjective
<1>3. Cardinality(1 .. Len(q)) <= Cardinality(Threads)
  BY <1>2, EscalatingLockAssumption, FS_Injection
<1>4. Cardinality(1 .. Len(q)) = Len(q)
  BY <1>1, FS_Interval
<1> QED BY <1>1, <1>3, <1>4, EscalatingLockAssumption, FS_CardinalityType

\* The links lead from the head through the queue, the last to have come first.
LEMMA NodesAreQueued ==
  ASSUME NEW q \in Seq(Threads), NEW k \in 0 .. Len(q), Linked(q, k)
  PROVE  \A n \in 1 .. Len(q) : Node(n) = q[Len(q) + 1 - n]
<1> DEFINE len == Len(q)
           S == {n \in 1 .. len : Node(n) # q[len + 1 - n]}
<1>1. /\ \A i, j \in 1 .. len : q[i] = q[j] => i = j
      /\ \A i \in 2 .. len : next[q[i]] = q[i - 1]
      /\ len > 0 => word.head = q[len]
  BY DEF Linked
<1>2. len \in Nat /\ len <= Cardinality(Threads) /\ Cardinality(Threads) \in Nat
  BY <1>1, QueueIsShort
<1>3. \A i \in 1 .. len : q[i] # None
  BY EscalatingLockAssumption
<1> HIDE DEF len
<1>4. CASE S = {}
  BY <1>4 DEF len
<1>5. CASE S # {}
  <2>1. S \in SUBSET Nat
    BY <1>2
  <2>2. PICK n \in S : \A m \in S : n <= m
    BY <1>5, <2>1, LeastNatural
  <2>3. n \in 1 .. len /\ n \in 1 .. Cardinality(Threads) + 1 /\ n \in Nat /\ Node(n) # q[len + 1 - n]
    BY <1>2
  <2>4. Node(n) = IF n = 1 THEN word.head ELSE IF Node(n - 1) = None THEN None ELSE next[Node(n - 1)]
    BY <1>2, <2>3, NodesFollow
  <2>5. CASE n = 1
    BY <1>1, <1>2, <2>3, <2>4, <2>5
  <2>6. CASE n # 1
    <3>1. n - 1 \in 1 .. len /\ n - 1 \notin S
      <4>1. n - 1 \in 1 .. len /\ ~(n <= n - 1)
        BY <1>2, <2>3, <2>6
      <4> HIDE DEF S
      <4> QED BY <2>2, <4>1
    <3>2. Node(n - 1) = q[len + 1 - (n - 1)]
      BY <3>1
    <3>3. len + 1 - (n - 1) \in 2 .. len /\ (len + 1 - (n - 1)) - 1 = len + 1 - n
      BY <1>2, <2>3, <2>6
    <3>4. next[q[len + 1 - (n - 1)]] = q[len + 1 - n] /\ q[len + 1 - (n - 1)] # None
      <4>1. PICK m \in 2 .. len : m = len + 1 - (n - 1)
        BY <3>3
      <4>2. m \in 1 .. len /\ m - 1 = len + 1 - n
        BY <1>2, <3>3, <4>1
      <4> QED BY <1>1, <1>3, <4>1, <4>2 DEF len
    <3> QED BY <2>3, <2>4, <2>6, <3>2, <3>4
  <2> QED BY <2>5, <2>6
<1> QED BY <1>4, <1>5

\* Walks end, and what they follow is the queue of the invariant.
QueueFound ==
  \A q \in Seq(Threads) : \A k \in 0 .. Len(q) : IsQueue(q, k) => WalkEnds /\ Queue = q

\* What the links say in any state of the invariant.
LEMMA QueueIsFound == QueueFound
<1> SUFFICES ASSUME NEW q \in Seq(Threads), NEW k \in 0 .. Len(q), IsQueue(q, k)
             PROVE  WalkEnds /\ Queue = q
  BY DEF QueueFound
<1>1. CASE q = <<>>
  BY <1>1 DEF IsQueue, Linked, WalkEnds, Queue
<1>2. CASE q # <<>>
  <2> DEFINE n == Len(q)
             nearest == n + 1 - k
  <2>1. /\ Linked(q, k) /\ k \in 1 .. n /\ word.head = q[n] /\ queueTail[q[k]] = q[1]
        /\ \A i, j \in 1 .. n : q[i] = q[j] => i = j
        /\ \A i \in k + 1 .. n : queueTail[q[i]] = None
    BY <1>2 DEF IsQueue, Linked
  <2>2. n \in Nat \ {0} /\ n <= Cardinality(Threads) /\ Cardinality(Threads) \in Nat
    BY <1>2, <2>1, QueueIsShort, EmptySeq
  <2>3. \A m \in 1 .. n : m \in Depths /\ Node(m) = q[n + 1 - m] /\ n + 1 - m \in 1 .. n
    BY <2>1, <2>2, NodesAreQueued DEF Depths
  <2>4. \A i \in 1 .. n : q[i] \in Threads /\ q[i] # None
    BY EscalatingLockAssumption
  <2> HIDE DEF n
  <2>5. Depths \subseteq Nat
    BY <2>2 DEF Depths
  <2>6. nearest \in 1 .. n /\ Node(nearest) = q[k]
    <3>1. nearest \in 1 .. n /\ n + 1 - nearest = k
      BY <2>1, <2>2
    <3> QED BY <2>3, <3>1
  <2> HIDE DEF nearest
  <2>7. nearest \in Known
    BY <2>1, <2>2, <2>3, <2>4, <2>6 DEF Known
  <2>8. ASSUME NEW m \in Known PROVE nearest <= m
    <3>1. m \in Nat /\ m \in Depths /\ queueTail[Node(m)] # None
      BY <2>5 DEF Known
    <3>2. CASE m < nearest
      <4>1. m \in 1 .. n /\ n + 1 - m \in k + 1 .. n
        BY <2>1, <2>2, <2>6, <3>1, <3>2 DEF nearest, Depths
      <4> QED BY <2>1, <2>3, <3>1, <4>1
    <3> QED BY <2>6, <3>1, <3>2
  <2>9. Nearest(Known) = nearest
    <3>1. \A m \in Known : m \in Nat
      BY <2>5 DEF Known
    <3>2. ASSUME NEW m \in Known, \A j \in Known : m <= j PROVE m = nearest
      BY <2>7, <2>8, <3>1, <3>2
    <3> QED BY <2>7, <2>8, <3>2 DEF Nearest
  <2>10. TailNode = q[1]
    BY <2>1, <2>6, <2>9 DEF TailNode
  <2>11. n \in Ends
    <3>1. n \in 1 .. n /\ n + 1 - n = 1
      BY <2>2
    <3> QED BY <2>3, <2>10, <3>1 DEF Ends
  <2>12. ASSUME NEW m \in Ends PROVE n <= m
    <3>1. m \in Nat /\ m \in Depths /\ Node(m) = q[1]
      BY <2>5, <2>10 DEF Ends
    <3>2. CASE m < n
      <4>1. m \in 1 .. n /\ n + 1 - m # 1 /\ 1 \in 1 .. n
        BY <2>2, <3>1, <3>2 DEF Depths
      <4>2. n + 1 - m \in 1 .. n /\ q[n + 1 - m] = q[1]
        BY <2>3, <3>1, <4>1
      <4> QED BY <2>1, <4>1, <4>2
    <3> QED BY <2>2, <3>1, <3>2
  <2>13. Nearest(Ends) = n
    <3>1. \A m \in Ends : m \in Nat
      BY <2>5 DEF Ends
    <3>2. ASSUME NEW m \in Ends, \A j \in Ends : m <= j PROVE m = n
      BY <2>2, <2>11, <2>12, <3>1, <3>2
    <3> QED BY <2>11, <2>12, <3>2 DEF Nearest
  <2>14. WalkEnds
    BY <2>2, <2>6, <2>7, <2>9, <2>11, <2>13 DEF WalkEnds
  <2>15. word.head # None
    BY <2>1, <2>2, <2>4
  <2>16. Queue = [m \in 1 .. n |-> Node(n + 1 - m)]
    BY <2>13, <2>14, <2>15 DEF Queue
  <2>17. \A m \in 1 .. n : Node(n + 1 - m) = q[m]
    <3>1. ASSUME NEW m \in 1 .. n PROVE Node(n + 1 - m) = q[m]
      <4>1. n + 1 - m \in 1 .. n /\ n + 1 - (n + 1 - m) = m
        BY <2>2
      <4> QED BY <2>3, <4>1
    <3> QED BY <3>1
  <2>18. q = [m \in 1 .. n |-> q[m]]
    BY DEF n
  <2>19. Queue = q
    BY <2>16, <2>17, <2>18
  <2> QED BY <2>14, <2>19
<1> QED BY <1>1, <1>2

\* In a state of the invariant the links have one queue, which Queue is.
LEMMA QueueInState ==
  ASSUME LockInv
  PROVE  /\ Queue \in Seq(Threads) /\ Slept(Queue) /\ WalkEnds
         /\ \E k \in 0 .. Len(Queue) : IsQueue(Queue, k)
<1>1. PICK q \in Seq(Threads) : \E k \in 0 .. Len(q) : IsQueue(q, k)
  BY DEF LockInv, QueueInv
<1>2. WalkEnds /\ Queue = q
  BY <1>1, QueueIsFound DEF QueueFound
<1>3. Slept(q)
  BY <1>1 DEF IsQueue
<1> QED BY <1>1, <1>2, <1>3

-----------------------------------------------------------------------------

\* Types are kept, and every walk of the queue ends at its tail.
THEOREM LockTypeOK == Spec => [](TypeOK /\ WalkEnds)
<1>1. LockInv => TypeOK /\ WalkEnds
  BY QueueInState DEF LockInv
<1> QED BY LockInvariant, <1>1, PTL

\* Who sleeps is in the queue or about to be woken, and only sleepers are queued,
\* for any number of threads.
THEOREM SleepersStayQueued == Spec => []SleepersAreQueued
<1>1. LockInv => SleepersAreQueued
  <2> SUFFICES ASSUME LockInv PROVE SleepersAreQueued
    OBVIOUS
  <2>1. Queue \in Seq(Threads) /\ Slept(Queue)
    BY QueueInState
  <2>2. DOMAIN Queue = 1 .. Len(Queue)
    BY <2>1
  <2>3. \A t \in Queued : pc[t] = "parked" /\ parker[t] = 1
    BY <2>1, <2>2 DEF Queued, Slept, Asleep
  <2>4. ASSUME NEW t \in Threads, pc[t] = "parked", parker[t] = 1
        PROVE  t \in Queued \/ \E u \in Threads : pc[u] = "wake" /\ current[u] = t
    BY <2>1, <2>2, <2>4 DEF Queued, Slept, Asleep
  <2> QED BY <2>3, <2>4 DEF SleepersAreQueued
<1> QED BY LockInvariant, <1>1, PTL

\* While threads are queued and nobody holds lock or queue, somebody is on the way to one.
LEMMA QueueStaysLookedAfter ==
  ASSUME LockInv, QueueIsLookedAfter, [Next]_vars
  PROVE  QueueIsLookedAfter'
<1> DEFINE OnTheWay(t) == pc[t] \in {"locking", "unlocking", "wake"} \/ (pc[t] = "parked" /\ parker[t] = 0)
<1> USE DEF Goto
<1>1. TypeOK /\ MutualExclusion /\ QueueHasOneKeeper /\ word \in Words
  BY DEF LockInv, Inv, TypeOK
<1>2. SUFFICES ASSUME word'.head # None, ~word'.locked, ~word'.queueLocked,
                      \A t \in Threads : ~OnTheWay(t)'
               PROVE  FALSE
  BY DEF QueueIsLookedAfter
<1>3. word.head # None => word.locked \/ word.queueLocked \/ \E t \in Threads : OnTheWay(t)
  BY DEF QueueIsLookedAfter
<1>4. CASE UNCHANGED vars
  BY <1>2, <1>3, <1>4 DEF vars, nodes
<1>5. ASSUME NEW t \in Threads, Lock(t) \/ Acquire(t) \/ Unparked(t) \/ Enqueue(t) PROVE FALSE
  <2>1. CASE Enqueue(t)
    BY <1>1, <1>2, <2>1 DEF Enqueue, Words
  <2>2. CASE Acquire(t)
    BY <1>1, <1>2, <2>2 DEF Acquire, Words
  <2>3. CASE Lock(t) \/ Unparked(t)
    <3>1. pc'[t] = "locking"
      BY <1>1, <2>3 DEF Lock, Unparked, TypeOK
    <3> QED BY <1>2, <3>1
  <2> QED BY <1>5, <2>1, <2>2, <2>3
<1>6. ASSUME NEW t \in Threads, Unlock(t) PROVE FALSE
  <2>1. word'.queueLocked = word.queueLocked /\ word'.head = word.head
    BY <1>1, <1>6 DEF Unlock, Words
  <2>2. pc'[t] = "unlocking"
    BY <1>1, <1>2, <1>6, <2>1 DEF Unlock, TypeOK
  <2> QED BY <1>2, <2>2
<1>7. ASSUME NEW t \in Threads, LockQueue(t) PROVE FALSE
  <2>1. CASE word.queueLocked \/ word.head = None
    BY <1>2, <1>7, <2>1 DEF LockQueue
  <2>2. CASE ~(word.queueLocked \/ word.head = None)
    BY <1>1, <1>2, <1>7, <2>2 DEF LockQueue, Words
  <2> QED BY <2>1, <2>2
<1>8. ASSUME NEW t \in Threads, pc[t] \in {"walk", "decide"}, UNCHANGED word PROVE FALSE
  BY <1>1, <1>2, <1>8 DEF QueueHasOneKeeper
<1>9. ASSUME NEW t \in Threads, LeaveToHolder(t) PROVE FALSE
  <2>1. CASE word = state[t]
    BY <1>1, <1>2, <1>9, <2>1 DEF LeaveToHolder, Words
  <2>2. CASE word # state[t]
    BY <1>8, <1>9, <2>2 DEF LeaveToHolder, Rescan
  <2> QED BY <2>1, <2>2
<1>10. ASSUME NEW t \in Threads, TakeLast(t) \/ TakeTail(t) PROVE FALSE
  <2>1. CASE pc'[t] = "wake"
    BY <1>2, <2>1
  <2>2. CASE pc'[t] # "wake"
    <3>1. pc[t] = "decide" /\ UNCHANGED word
      BY <1>1, <1>10, <2>2 DEF TakeLast, TakeTail, Rescan, TypeOK
    <3> QED BY <1>8, <3>1
  <2> QED BY <2>1, <2>2
<1>11. ASSUME NEW t \in Threads, Wake(t) PROVE FALSE
  <2>1. current[t] \in Threads /\ pc[current[t]] = "parked" /\ pc[t] = "wake"
    BY <1>1, <1>11, QueueInState DEF Wake, Slept, Asleep, TypeOK
  <2>2. pc'[current[t]] = "parked" /\ parker'[current[t]] = 0
    BY <1>1, <1>11, <2>1 DEF Wake, TypeOK
  <2> QED BY <1>2, <2>1, <2>2
<1>12. ASSUME NEW t \in Threads, Walk(t) \/ FindTail(t) PROVE FALSE
  BY <1>8, <1>12 DEF Walk, FindTail
<1> QED BY <1>4, <1>5, <1>6, <1>7, <1>9, <1>10, <1>11, <1>12 DEF Next, Step

\* A queue is never left to nobody, for any number of threads: whoever leaves it
\* has seen that the lock is held, or is about to wake a thread that will lock.
THEOREM QueueIsNeverAbandoned == Spec => []QueueIsLookedAfter
<1>1. Init => QueueIsLookedAfter
  BY DEF Init, Unlocked, QueueIsLookedAfter
<1>2. LockInv /\ QueueIsLookedAfter /\ [Next]_vars => QueueIsLookedAfter'
  BY QueueStaysLookedAfter
<1> QED BY LockInvariant, <1>1, <1>2, PTL DEF Spec

-----------------------------------------------------------------------------
(* The refinement.                                                         *)

\* The one thread between lock() and unlock() is the holder.
HolderIsKnown ==
  /\ \A t \in Threads : pc[t] = "holding" => Holder = t
  /\ (\A t \in Threads : pc[t] # "holding") => Holder = None

\* Mutual exclusion makes the holder unique.
LEMMA HolderIsOne == MutualExclusion => HolderIsKnown
  BY DEF MutualExclusion, HolderIsKnown, Holder

\* What a step does to the holder.
LEMMA HolderSteps ==
  ASSUME TypeOK, HolderIsKnown, HolderIsKnown', [Next]_vars
  PROVE  \/ UNCHANGED Holder
         \/ \E t \in Threads : Acquire(t) \/ Unlock(t)
<1> SUFFICES ASSUME ~ \E t \in Threads : Acquire(t) \/ Unlock(t) PROVE UNCHANGED Holder
  OBVIOUS
<1>1. ASSUME NEW t \in Threads, pc[t] # "holding", pc'[t] # "holding", \A u \in Threads \ {t} : pc'[u] = pc[u]
      PROVE  UNCHANGED Holder
  BY <1>1 DEF HolderIsKnown
<1>2. CASE UNCHANGED vars
  BY <1>2 DEF vars, HolderIsKnown
<1>3. ASSUME NEW t \in Threads, Lock(t) \/ Step(t) PROVE UNCHANGED Holder
  <2> USE DEF Goto, TypeOK
  <2>1. CASE Lock(t) \/ Enqueue(t) \/ Unparked(t) \/ LockQueue(t) \/ Wake(t)
    BY <1>1, <2>1 DEF Lock, Enqueue, Unparked, LockQueue, Wake
  <2>2. CASE Walk(t) \/ FindTail(t)
    BY <1>1, <2>2 DEF Walk, FindTail
  <2>3. CASE LeaveToHolder(t) \/ TakeLast(t) \/ TakeTail(t)
    BY <1>1, <2>3 DEF LeaveToHolder, TakeLast, TakeTail, Rescan
  <2> QED BY <1>3, <2>1, <2>2, <2>3 DEF Step
<1> QED BY <1>2, <1>3 DEF Next

\* Every step of the lock is a step of the abstract one, or changes nothing of it.
LEMMA StepsImplement ==
  ASSUME LockInv, LockInv', QueueFound', HolderIsKnown, HolderIsKnown', [Next]_vars
  PROVE  Promised!Next \/ UNCHANGED Promised!vars
<1> USE DEF Goto
<1>1. Inv /\ TypeOK /\ MutualExclusion
  BY DEF LockInv, Inv
<1>2. PICK q \in Seq(Threads) : q = Queue
  BY QueueInState
<1>3. PICK k \in 0 .. Len(q) : IsQueue(q, k)
  BY <1>2, QueueInState
<1>4. PICK q1 \in Seq(Threads) :
        /\ \E k1 \in 0 .. Len(q1) : IsQueue(q1, k1)'
        /\ \/ q1 = q
           \/ \E t \in Threads : Enqueue(t) /\ q1 = Append(q, t)
           \/ q # <<>> /\ q1 = Tail(q) /\ \E t \in Threads : TakeTail(t) \/ TakeLast(t)
  BY <1>1, <1>3, QueueSteps
<1>5. Queue' = q1
  BY <1>4 DEF QueueFound
<1>6. \A n \in 1 .. Len(q) : pc[q[n]] = "parked"
  BY <1>3 DEF IsQueue, Slept, Asleep
<1>7. ASSUME NEW t \in Threads, pc[t] # "parked" PROVE Promised!Awake(t)
  BY <1>2, <1>6, <1>7 DEF Promised!Awake
<1>8. CASE \E t \in Threads : Enqueue(t) /\ q1 = Append(q, t)
  <2>1. PICK t \in Threads : Enqueue(t) /\ q1 = Append(q, t)
    BY <1>8
  <2>2. pc[t] = "locking" /\ word.locked
    BY <2>1 DEF Enqueue
  <2>3. PICK u \in Threads : pc[u] = "holding"
    BY <1>1, <2>2 DEF MutualExclusion
  <2>4. Holder = u /\ u # t /\ u # None
    BY <2>2, <2>3, EscalatingLockAssumption DEF HolderIsKnown
  <2>5. UNCHANGED Holder
    <3>1. pc'[u] = "holding"
      BY <1>1, <2>1, <2>3, <2>4 DEF Enqueue, TypeOK
    <3> QED BY <2>4, <3>1 DEF HolderIsKnown
  <2>6. Promised!Sleep(t)
    BY <1>2, <1>5, <1>7, <2>1, <2>2, <2>4, <2>5 DEF Promised!Sleep
  <2> QED BY <2>6 DEF Promised!Next
<1>9. CASE q # <<>> /\ q1 = Tail(q) /\ \E t \in Threads : TakeTail(t) \/ TakeLast(t)
  <2>1. PICK t \in Threads : TakeTail(t) \/ TakeLast(t)
    BY <1>9
  <2>2. ~ \E u \in Threads : Acquire(u) \/ Unlock(u)
    <3>1. ASSUME NEW u \in Threads, Acquire(u) \/ Unlock(u) PROVE FALSE
      <4>1. pc[t] = "decide" /\ pc'[t] \in {"wake", "walk"}
        BY <1>1, <2>1 DEF TakeTail, TakeLast, Rescan, TypeOK
      <4>2. pc'[t] = pc[t] \/ pc[t] \in {"locking", "holding"}
        BY <1>1, <3>1 DEF Acquire, Unlock, TypeOK
      <4> QED BY <4>1, <4>2
    <3> QED BY <3>1
  <2>3. UNCHANGED Holder
    BY <1>1, <2>2, HolderSteps
  <2>4. Promised!LetOut
    BY <1>2, <1>5, <1>9, <2>3 DEF Promised!LetOut
  <2> QED BY <2>4 DEF Promised!Next
<1>10. CASE q1 = q
  <2>1. Queue' = Queue
    BY <1>2, <1>5, <1>10
  <2>2. ASSUME NEW t \in Threads, Acquire(t) PROVE Promised!Acquire(t)
    <3>1. pc[t] = "locking" /\ ~word.locked /\ pc'[t] = "holding"
      BY <1>1, <2>2 DEF Acquire, TypeOK
    <3>2. Holder = None
      BY <1>1, <3>1 DEF MutualExclusion, HolderIsKnown
    <3>3. Holder' = t
      BY <3>1 DEF HolderIsKnown
    <3> QED BY <1>7, <2>1, <3>1, <3>2, <3>3 DEF Promised!Acquire
  <2>3. ASSUME NEW t \in Threads, Unlock(t) PROVE Promised!Release
    <3>1. pc[t] = "holding" /\ pc'[t] # "holding" /\ \A u \in Threads \ {t} : pc'[u] = pc[u]
      BY <1>1, <2>3 DEF Unlock, TypeOK
    <3>2. Holder = t /\ t # None
      BY <3>1, EscalatingLockAssumption DEF HolderIsKnown
    <3>3. \A u \in Threads : pc'[u] # "holding"
      BY <1>1, <3>1 DEF MutualExclusion
    <3>4. Holder' = None
      BY <3>3 DEF HolderIsKnown
    <3> QED BY <2>1, <3>2, <3>4 DEF Promised!Release
  <2>4. CASE UNCHANGED Holder
    BY <2>1, <2>4 DEF Promised!vars
  <2> QED BY <1>1, <2>2, <2>3, <2>4, HolderSteps DEF Promised!Next
<1> QED BY <1>4, <1>8, <1>9, <1>10

\* For any number of threads, whatever walks, arrivals and unlocks are interleaved:
\* one thread holds the lock, and sleepers are let out in the order they came.
THEOREM LockImplementsLockQueue == Spec => ImplementsLockQueue
<1>1. Init => Promised!Init
  <2> SUFFICES ASSUME Init PROVE Promised!Init
    OBVIOUS
  <2>1. Queue = <<>>
    BY DEF Init, Unlocked, Queue
  <2>2. Holder = None
    BY DEF Init, Holder
  <2> QED BY <2>1, <2>2 DEF Promised!Init
<1>2. LockInv => HolderIsKnown
  BY HolderIsOne DEF LockInv, Inv
<1>3. LockInv /\ LockInv' /\ QueueFound' /\ HolderIsKnown /\ HolderIsKnown' /\ [Next]_vars
        => [Promised!Next]_Promised!vars
  BY StepsImplement
<1> QED BY LockInvariant, QueueIsFound, <1>1, <1>2, <1>3, PTL DEF Spec, ImplementsLockQueue, Promised!Spec
=============================================================================
