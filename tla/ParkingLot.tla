----------------------------- MODULE ParkingLot -----------------------------
(***************************************************************************)
(* The parking lot (engine/src/core/sync/parking_lot.h): every thread has  *)
(* a slot, the slots of sleeping threads are linked into the queue of the  *)
(* bucket their key hashes to, and each bucket has a lock.                 *)
(*                                                                         *)
(* A step is a critical section of a bucket lock, cut where a thread that  *)
(* does not hold the lock can look inside: an unparker clears the key and  *)
(* the parker's state of the slot it has unlinked in two steps, and a      *)
(* thread whose timeout has passed reads its key without the lock.         *)
(* Whether a caller's validation succeeds is left open.  The futex wake    *)
(* that follows commitUnpark is part of it: a thread that was not asleep   *)
(* yet sees the state, and one that was is woken to look at it.            *)
(***************************************************************************)
EXTENDS Integers, Sequences, FiniteSets, SequencesExt

CONSTANTS
  Threads,          \* each with the slot of the same name
  Keys,             \* addresses threads park on
  Buckets,
  BucketOf,         \* bucketFor: the bucket a key hashes to
  Requeues,         \* pairs of keys, a condition variable's and its mutex's
  LateCommits,      \* whether a thread may park again before the commit of its
                    \* last unpark, which TimeOutUnparked does not wait for
  None              \* no key, no slot, no thread

ASSUME ParkingLotAssumption ==
  /\ IsFiniteSet(Threads)
  /\ BucketOf \in [Keys -> Buckets]
  /\ Requeues \subseteq {p \in Keys \X Keys : p[1] # p[2]}
  /\ LateCommits \in BOOLEAN
  /\ None \notin Threads \cup Keys

VARIABLES
  key,              \* per slot: the key its thread is parked on
  parker,           \* per slot: Parker::m_state, 1 until the unpark commits
  nextInQueue,      \* per slot: the slot behind it
  queueHead,        \* per bucket
  queueTail,        \* per bucket
  lock,             \* per bucket: the thread that holds its lock across steps
  pc,               \* per thread
  target,           \* per thread: the key it unparks, or found when it timed out
  requeueTo,        \* per thread: the key it moves waiters to
  victim,           \* per thread: the slot it has unlinked and is to commit
  timed, all        \* per thread: parkFor rather than park, unparkAll

links == <<nextInQueue, queueHead, queueTail>>
vars == <<key, parker, links, lock, pc, target, requeueTo, victim, timed, all>>

-----------------------------------------------------------------------------

Free(b) == lock[b] = None

Links == [next |-> nextInQueue, head |-> queueHead, tail |-> queueTail]

\* The links are now those of L.
Relink(L) == nextInQueue' = L.next /\ queueHead' = L.head /\ queueTail' = L.tail

\* The slots in S of bucket b's queue, in the order of the links L.
Walk(L, b, S) ==
  LET next == [s \in Threads \cup {None} |-> IF s = None THEN None ELSE L.next[s]]
      at[n \in 1 .. Cardinality(Threads)] == IF n = 1 THEN L.head[b] ELSE next[at[n - 1]]
      found[n \in 0 .. Cardinality(Threads)] ==
        IF n = 0 THEN <<>>
        ELSE IF at[n] \in S THEN Append(found[n - 1], at[n])
        ELSE found[n - 1]
  IN found[Cardinality(Threads)]

Slots(b) == ToSet(Walk(Links, b, Threads))

\* The slots parked on k, as an unpark of k meets them: longest waiting first.
WaitersOn(k) == Walk(Links, BucketOf[k], {s \in Threads : key[s] = k})

\* Mutant: the link of the slot in front is forgotten.
PushedUnlinked(L, b, s) ==
  [next |-> [L.next EXCEPT ![s] = None],
   head |-> IF L.tail[b] = None THEN [L.head EXCEPT ![b] = s] ELSE L.head,
   tail |-> [L.tail EXCEPT ![b] = s]]

\* pushToQueue
Pushed(L, b, s) ==
  LET ended == [L.next EXCEPT ![s] = None] IN
  [next |-> IF L.tail[b] = None THEN ended ELSE [ended EXCEPT ![L.tail[b]] = s],
   head |-> IF L.tail[b] = None THEN [L.head EXCEPT ![b] = s] ELSE L.head,
   tail |-> [L.tail EXCEPT ![b] = s]]

\* The slot whose link leads to s: none for the first of bucket b's queue.
Before(L, b, s) ==
  IF L.head[b] = s THEN None ELSE CHOOSE p \in ToSet(Walk(L, b, Threads)) : L.next[p] = s

\* Unlinking a slot of bucket b's queue, as removeFromQueue and the unparks do.
Removed(L, b, s) ==
  LET p == Before(L, b, s) IN
  [next |-> IF p = None THEN [L.next EXCEPT ![s] = None]
            ELSE [L.next EXCEPT ![p] = L.next[s], ![s] = None],
   head |-> IF p = None THEN [L.head EXCEPT ![b] = L.next[s]] ELSE L.head,
   tail |-> IF L.tail[b] = s THEN [L.tail EXCEPT ![b] = p] ELSE L.tail]

\* The slots of the sequence ss, moved in their order behind bucket c's queue.
Moved(L, b, c, ss) ==
  LET moved[n \in 0 .. Len(ss)] ==
        IF n = 0 THEN L ELSE Pushed(Removed(moved[n - 1], b, ss[n]), c, ss[n])
  IN moved[Len(ss)]

\* The call t is in returns.
Return(t) ==
  /\ pc' = [pc EXCEPT ![t] = "idle"]
  /\ target' = [target EXCEPT ![t] = None]
  /\ requeueTo' = [requeueTo EXCEPT ![t] = None]
  /\ timed' = [timed EXCEPT ![t] = FALSE]
  /\ all' = [all EXCEPT ![t] = FALSE]

Init ==
  /\ key = [s \in Threads |-> None]
  /\ parker = [s \in Threads |-> 0]
  /\ nextInQueue = [s \in Threads |-> None]
  /\ queueHead = [b \in Buckets |-> None]
  /\ queueTail = [b \in Buckets |-> None]
  /\ lock = [b \in Buckets |-> None]
  /\ pc = [t \in Threads |-> "idle"]
  /\ target = [t \in Threads |-> None]
  /\ requeueTo = [t \in Threads |-> None]
  /\ victim = [t \in Threads |-> None]
  /\ timed = [t \in Threads |-> FALSE]
  /\ all = [t \in Threads |-> FALSE]

-----------------------------------------------------------------------------
(* park and parkFor.                                                       *)

\* Under the bucket's lock the validation has succeeded; when it fails the
\* call returns and nothing has changed.
Park(t) ==
  /\ pc[t] = "idle"
  /\ LateCommits \/ \A u \in Threads : victim[u] # t
  /\ \E k \in Keys, isTimed \in BOOLEAN :
       /\ Free(BucketOf[k])
       /\ key' = [key EXCEPT ![t] = k]
       /\ Relink(Pushed(Links, BucketOf[k], t))
       /\ timed' = [timed EXCEPT ![t] = isTimed]
  /\ parker' = [parker EXCEPT ![t] = 1]
  /\ pc' = [pc EXCEPT ![t] = "parked"]
  /\ UNCHANGED <<lock, target, requeueTo, victim, all>>

\* parker.park() returns once an unpark has committed.
Unparked(t) ==
  /\ pc[t] = "parked"
  /\ parker[t] = 0
  /\ key' = [key EXCEPT ![t] = None]
  /\ Return(t)
  /\ UNCHANGED <<parker, links, lock, victim>>

\* The timeout passes first, and the thread looks for the key it sleeps on.
ExpiresOrRetries(t) ==
  \/ pc[t] = "parked" /\ timed[t] /\ parker[t] # 0
  \/ pc[t] = "timedOut" /\ key[t] # target[t] /\ Free(BucketOf[target[t]])

\* With a key left the thread goes on to lock that key's bucket.
TimeOut(t) ==
  /\ ExpiresOrRetries(t)
  /\ key[t] # None
  /\ target' = [target EXCEPT ![t] = key[t]]
  /\ pc' = [pc EXCEPT ![t] = "timedOut"]
  /\ UNCHANGED <<key, parker, links, lock, requeueTo, victim, timed, all>>

\* With none left an unparker has taken it off its queue, and it returns.
TimeOutUnparked(t) ==
  /\ ExpiresOrRetries(t)
  /\ key[t] = None
  /\ Return(t)
  /\ UNCHANGED <<key, parker, links, lock, victim>>

\* It locks that key's bucket, finds the key unchanged and leaves the queue.
LeaveQueue(t) ==
  LET b == BucketOf[target[t]] IN
  /\ pc[t] = "timedOut"
  /\ Free(b)
  /\ key[t] = target[t]
  /\ t \in Slots(b)
  /\ Relink(Removed(Links, b, t))
  /\ key' = [key EXCEPT ![t] = None]
  /\ Return(t)
  /\ UNCHANGED <<parker, lock, victim>>

-----------------------------------------------------------------------------
(* unparkOne and unparkAll.                                                *)

\* Any thread that is not parked may unpark any key.  It locks the bucket.
Unpark(t) ==
  /\ pc[t] = "idle"
  /\ \E k \in Keys, isAll \in BOOLEAN :
       /\ Free(BucketOf[k])
       /\ lock' = [lock EXCEPT ![BucketOf[k]] = t]
       /\ target' = [target EXCEPT ![t] = k]
       /\ all' = [all EXCEPT ![t] = isAll]
  /\ pc' = [pc EXCEPT ![t] = "unlink"]
  /\ UNCHANGED <<key, parker, links, requeueTo, victim, timed>>

\* s leaves the queue of the key t unparks, its key is cleared, and it is t's to
\* let go.
Take(t, s) ==
  /\ Relink(Removed(Links, BucketOf[target[t]], s))
  /\ key' = [key EXCEPT ![s] = None]
  /\ victim' = [victim EXCEPT ![t] = s]
  /\ pc' = [pc EXCEPT ![t] = "commit"]

\* Mutant: the walk unlinks the last match rather than the first.
UnlinkLast(t) ==
  /\ pc[t] = "unlink"
  /\ WaitersOn(target[t]) # <<>>
  /\ Take(t, Last(WaitersOn(target[t])))
  /\ UNCHANGED <<parker, lock, target, requeueTo, timed, all>>

\* The first slot parked on the key leaves the queue, and its key is cleared.
Unlink(t) ==
  /\ pc[t] = "unlink"
  /\ WaitersOn(target[t]) # <<>>
  /\ Take(t, Head(WaitersOn(target[t])))
  /\ UNCHANGED <<parker, lock, target, requeueTo, timed, all>>

\* Mutant: only the bucket of the key unparked is unlocked.
UnlockOne(t) ==
  lock' = [lock EXCEPT ![BucketOf[target[t]]] = None]

\* The buckets t has locked: of the key it unparks, and of the one it moves to.
Unlock(t) ==
  lock' = [b \in Buckets |-> IF lock[b] = t THEN None ELSE lock[b]]

\* commitUnpark lets its thread go, and unparkAll looks for the next match.
CommitUnpark(t) ==
  /\ pc[t] = "commit"
  /\ parker' = [parker EXCEPT ![victim[t]] = 0]
  /\ victim' = [victim EXCEPT ![t] = None]
  /\ IF all[t] /\ requeueTo[t] = None
       THEN pc' = [pc EXCEPT ![t] = "unlink"] /\ UNCHANGED <<lock, target, requeueTo, timed, all>>
       ELSE Unlock(t) /\ Return(t)
  /\ UNCHANGED <<key, links>>

\* No slot on the queue is parked on the key: the bucket is unlocked.
NoMoreMatches(t) ==
  /\ pc[t] = "unlink"
  /\ WaitersOn(target[t]) = <<>>
  /\ Unlock(t)
  /\ Return(t)
  /\ UNCHANGED <<key, parker, links, victim>>

-----------------------------------------------------------------------------
(* unparkOneRequeue and unparkAllRequeue.                                  *)

\* The bucket of the key whose waiters are moved is locked first,
UnparkRequeue(t) ==
  /\ pc[t] = "idle"
  /\ \E p \in Requeues, isAll \in BOOLEAN :
       /\ Free(BucketOf[p[1]])
       /\ lock' = [lock EXCEPT ![BucketOf[p[1]]] = t]
       /\ target' = [target EXCEPT ![t] = p[1]]
       /\ requeueTo' = [requeueTo EXCEPT ![t] = p[2]]
       /\ all' = [all EXCEPT ![t] = isAll]
  /\ pc' = [pc EXCEPT ![t] = "lockTo"]
  /\ UNCHANGED <<key, parker, links, victim, timed>>

\* then the one they are moved to, unless it is the same.
LockTo(t) ==
  LET c == BucketOf[requeueTo[t]] IN
  /\ pc[t] = "lockTo"
  /\ Free(c) \/ lock[c] = t
  /\ lock' = [lock EXCEPT ![c] = t]
  /\ pc' = [pc EXCEPT ![t] = "requeue"]
  /\ UNCHANGED <<key, parker, links, target, requeueTo, victim, timed, all>>

\* Nobody waits: both buckets are unlocked.
RequeueNobody(t) ==
  /\ pc[t] = "requeue"
  /\ WaitersOn(target[t]) = <<>>
  /\ Unlock(t)
  /\ Return(t)
  /\ UNCHANGED <<key, parker, links, victim>>

\* Mutant: the moved slots keep the key they waited on.
RequeueKeepingKey(t) ==
  LET ws == WaitersOn(target[t])
      ss == IF all[t] THEN ws ELSE <<Head(ws)>> IN
  /\ pc[t] = "requeue"
  /\ ws # <<>>
  /\ Relink(Moved(Links, BucketOf[target[t]], BucketOf[requeueTo[t]], ss))
  /\ UNCHANGED key
  /\ Unlock(t)
  /\ Return(t)
  /\ UNCHANGED <<parker, victim>>

\* shouldRequeue says yes: the first waiter, or every one, waits on the other
\* key from now on, with no wake-up.
Requeue(t) ==
  LET ws == WaitersOn(target[t])
      ss == IF all[t] THEN ws ELSE <<Head(ws)>> IN
  /\ pc[t] = "requeue"
  /\ ws # <<>>
  /\ Relink(Moved(Links, BucketOf[target[t]], BucketOf[requeueTo[t]], ss))
  /\ key' = [s \in Threads |-> IF s \in ToSet(ss) THEN requeueTo[t] ELSE key[s]]
  /\ Unlock(t)
  /\ Return(t)
  /\ UNCHANGED <<parker, victim>>

\* It says no: the first waiter is let go, and unparkAllRequeue moves the others.
RequeueButFirst(t) ==
  LET ws == WaitersOn(target[t])
      ss == IF all[t] THEN Tail(ws) ELSE <<>>
      b == BucketOf[target[t]] IN
  /\ pc[t] = "requeue"
  /\ ws # <<>>
  /\ Relink(Moved(Removed(Links, b, Head(ws)), b, BucketOf[requeueTo[t]], ss))
  /\ key' = [s \in Threads |->
              IF s = Head(ws) THEN None ELSE IF s \in ToSet(ss) THEN requeueTo[t] ELSE key[s]]
  /\ victim' = [victim EXCEPT ![t] = Head(ws)]
  /\ pc' = [pc EXCEPT ![t] = "commit"]
  /\ UNCHANGED <<parker, lock, target, requeueTo, timed, all>>

-----------------------------------------------------------------------------

Step(t) ==
  \/ Unparked(t) \/ TimeOut(t) \/ TimeOutUnparked(t) \/ LeaveQueue(t)
  \/ Unlink(t) \/ CommitUnpark(t) \/ NoMoreMatches(t)
  \/ LockTo(t) \/ RequeueNobody(t) \/ Requeue(t) \/ RequeueButFirst(t)

Next == \E t \in Threads : Park(t) \/ Unpark(t) \/ UnparkRequeue(t) \/ Step(t)

Spec == Init /\ [][Next]_vars

\* A thread inside a call keeps running, a timeout passes, and a bucket lock
\* that is free time and again is got in the end: EscalatingLock queues its
\* waiters.
Fairness == \A t \in Threads : SF_vars(Step(t))

FairSpec == Spec /\ Fairness

-----------------------------------------------------------------------------
(* Properties.                                                             *)

Slept == {"parked", "timedOut"}

\* A sleeping thread can always be reached: it is in the queue an unpark of its
\* key searches, or has been unlinked and either let go already or about to
\* be, by a thread that holds its bucket's lock meanwhile.
SleeperIsReachable ==
  \A s \in Threads : pc[s] \in Slept =>
    \/ key[s] # None /\ s \in Slots(BucketOf[key[s]])
    \/ key[s] = None /\ parker[s] = 0
    \/ /\ key[s] = None
       /\ \E t \in Threads :
            pc[t] = "commit" /\ victim[t] = s /\ lock[BucketOf[target[t]]] = t

\* What parkFor verifies (parking_lot.h:149): a thread whose timeout has passed
\* and that finds its key unchanged under its bucket's lock is in that queue.
RemovalFindsSlot ==
  \A t \in Threads :
    LET b == BucketOf[target[t]] IN
    pc[t] = "timedOut" /\ key[t] = target[t] /\ Free(b) => t \in Slots(b)

Lifted == INSTANCE WaitQueues WITH
  waiting <- [k \in Keys |-> WaitersOn(k)],
  place <- [t \in Threads |->
             IF pc[t] \notin Slept THEN "out" ELSE IF key[t] = None THEN "woken" ELSE "in"]

\* Keys that share a bucket do not disturb one another: per key the parking lot
\* is a first-in first-out queue, a thread is woken only as the longest waiting
\* on its key, is woken or gives up but never both, and never waits twice.
ImplementsWaitQueues == Lifted!Spec

\* A thread that has been unlinked, or that set a timeout, does not sleep on.
WaitsEnd ==
  \A t \in Threads : pc[t] = "parked" /\ (timed[t] \/ key[t] = None) ~> pc[t] = "idle"
=============================================================================
