--------------------------- MODULE EscalatingLock ---------------------------
(***************************************************************************)
(* The escalating lock (engine/src/core/sync/escalating_lock.cpp): one     *)
(* word holds a locked bit, a queue-locked bit and the head of a linked    *)
(* queue of sleeping threads.  Threads join at the head; whoever unlocks   *)
(* walks to the tail, setting back links as it goes, and wakes the thread  *)
(* there.  The walk works on a copy of the word read earlier, and the next *)
(* compare-exchange finds out whether the copy is still good.              *)
(*                                                                         *)
(* A step is one atomic operation on the word or one link of the walk.     *)
(* Links and tails of queued nodes are only touched under the queue's bit, *)
(* so the plain writes around an atomic operation belong to its step.  How *)
(* long a thread spins before it sleeps is left open, and a weak           *)
(* compare-exchange that fails for no reason only repeats itself.          *)
(***************************************************************************)
EXTENDS Integers, Sequences, FiniteSets

CONSTANTS
  Threads,          \* each with its thread-local node, of the same name
  MaxLocks,         \* bound of the model on the lock() calls in one behaviour
  None              \* nullptr

ASSUME EscalatingLockAssumption ==
  /\ IsFiniteSet(Threads)
  /\ MaxLocks \in Nat
  /\ None \notin Threads

VARIABLES
  word,             \* m_state: its two bits and the queue's head
  parker,           \* per node: 1 from prepare until the unpark commits
  queueTail,        \* per node, as previous and next
  previous,
  next,
  pc,               \* per thread
  state,            \* per thread: unlockSlow's copy of the word
  current,          \* per thread: where its walk is; then the tail it found
  locks             \* lock() calls made so far

nodes == <<parker, queueTail, previous, next>>
vars == <<word, nodes, pc, state, current, locks>>

-----------------------------------------------------------------------------

Unlocked == [locked |-> FALSE, queueLocked |-> FALSE, head |-> None]

Goto(t, step) == pc' = [pc EXCEPT ![t] = step]

Init ==
  /\ word = Unlocked
  /\ parker = [t \in Threads |-> 0]
  /\ queueTail = [t \in Threads |-> None]
  /\ previous = [t \in Threads |-> None]
  /\ next = [t \in Threads |-> None]
  /\ pc = [t \in Threads |-> "idle"]
  /\ state = [t \in Threads |-> Unlocked]
  /\ current = [t \in Threads |-> None]
  /\ locks = 0

-----------------------------------------------------------------------------
(* lock and lockSlow.                                                      *)

Lock(t) ==
  /\ pc[t] = "idle"
  /\ locks < MaxLocks
  /\ locks' = locks + 1
  /\ Goto(t, "locking")
  /\ UNCHANGED <<word, nodes, state, current>>

\* A free lock is taken, whoever may be queued for it.
Acquire(t) ==
  /\ pc[t] = "locking"
  /\ ~word.locked
  /\ word' = [word EXCEPT !.locked = TRUE]
  /\ Goto(t, "holding")
  /\ UNCHANGED <<nodes, state, current, locks>>

\* A lock that is held is queued for: the node joins at the head, before the
\* thread sleeps.  The link of a node that starts a queue keeps its old value.
Enqueue(t) ==
  /\ pc[t] = "locking"
  /\ word.locked
  /\ parker' = [parker EXCEPT ![t] = 1]
  /\ queueTail' = [queueTail EXCEPT ![t] = IF word.head = None THEN t ELSE None]
  /\ previous' = [previous EXCEPT ![t] = None]
  /\ next' = IF word.head = None THEN next ELSE [next EXCEPT ![t] = word.head]
  /\ word' = [word EXCEPT !.head = t]
  /\ Goto(t, "parked")
  /\ UNCHANGED <<state, current, locks>>

\* parker.park() returns once the unpark has committed.
Unparked(t) ==
  /\ pc[t] = "parked"
  /\ parker[t] = 0
  /\ Goto(t, "locking")
  /\ UNCHANGED <<word, nodes, state, current, locks>>

-----------------------------------------------------------------------------
(* unlock and unlockSlow.                                                  *)

\* The subtraction clears the locked bit; a queue nobody else looks after has
\* to be seen to.
Unlock(t) ==
  /\ pc[t] = "holding"
  /\ word' = [word EXCEPT !.locked = FALSE]
  /\ Goto(t, IF word.queueLocked \/ word.head = None THEN "idle" ELSE "unlocking")
  /\ UNCHANGED <<nodes, state, current, locks>>

\* Mutant: the queue is taken although another thread has it.
LockQueueTwice(t) ==
  /\ pc[t] = "unlocking"
  /\ IF word.head = None
     THEN Goto(t, "idle") /\ UNCHANGED <<word, state, current>>
     ELSE /\ word' = [word EXCEPT !.queueLocked = TRUE]
          /\ state' = [state EXCEPT ![t] = word]
          /\ current' = [current EXCEPT ![t] = word.head]
          /\ Goto(t, "walk")
  /\ UNCHANGED <<nodes, locks>>

\* unlockSlow returns, or takes the queue's bit and goes on with the word as
\* it was before.
LockQueue(t) ==
  /\ pc[t] = "unlocking"
  /\ IF word.queueLocked \/ word.head = None
     THEN Goto(t, "idle") /\ UNCHANGED <<word, state, current>>
     ELSE /\ word' = [word EXCEPT !.queueLocked = TRUE]
          /\ state' = [state EXCEPT ![t] = word]
          /\ current' = [current EXCEPT ![t] = word.head]
          /\ Goto(t, "walk")
  /\ UNCHANGED <<nodes, locks>>

\* The walk: up to the first node that knows the tail, linking back.
Walk(t) ==
  /\ pc[t] = "walk"
  /\ queueTail[current[t]] = None
  /\ current' = [current EXCEPT ![t] = next[@]]
  /\ previous' = [previous EXCEPT ![next[current[t]]] = current[t]]
  /\ UNCHANGED <<word, parker, queueTail, next, pc, state, locks>>

\* The head learns the tail, so that the next walk stops there.
FindTail(t) ==
  LET tail == queueTail[current[t]] IN
  /\ pc[t] = "walk"
  /\ tail # None
  /\ queueTail' = [queueTail EXCEPT ![state[t].head] = tail]
  /\ current' = [current EXCEPT ![t] = tail]
  /\ Goto(t, "decide")
  /\ UNCHANGED <<word, parker, previous, next, state, locks>>

\* A compare-exchange that finds another word starts over with that word.
Rescan(t) ==
  /\ word # state[t]
  /\ state' = [state EXCEPT ![t] = word]
  /\ current' = [current EXCEPT ![t] = word.head]
  /\ Goto(t, "walk")
  /\ UNCHANGED <<word, nodes, locks>>

\* Mutant: the queue is left alone although the lock is free.
LeaveToHolderAnyway(t) ==
  /\ pc[t] = "decide"
  /\ IF word = state[t]
     THEN /\ word' = [word EXCEPT !.queueLocked = FALSE]
          /\ Goto(t, "idle")
          /\ UNCHANGED <<nodes, state, current, locks>>
     ELSE Rescan(t)

\* The lock was taken meanwhile: its holder will see to the queue.
LeaveToHolder(t) ==
  /\ pc[t] = "decide"
  /\ state[t].locked
  /\ IF word = state[t]
     THEN /\ word' = [word EXCEPT !.queueLocked = FALSE]
          /\ Goto(t, "idle")
          /\ UNCHANGED <<nodes, state, current, locks>>
     ELSE Rescan(t)

\* The only thread queued leaves an empty queue, unless another has come.
TakeLast(t) ==
  /\ pc[t] = "decide"
  /\ ~state[t].locked
  /\ previous[current[t]] = None
  /\ IF word = state[t]
     THEN word' = Unlocked /\ Goto(t, "wake") /\ UNCHANGED <<nodes, state, current, locks>>
     ELSE Rescan(t)

\* Mutant: the tail stays where it was.
TakeTailTwice(t) ==
  /\ pc[t] = "decide"
  /\ ~state[t].locked
  /\ previous[current[t]] # None
  /\ word' = [word EXCEPT !.queueLocked = FALSE]
  /\ Goto(t, "wake")
  /\ UNCHANGED <<nodes, state, current, locks>>

\* The tail leaves a longer queue; threads may have come, and the lock may have
\* been taken, since the word was read.
TakeTail(t) ==
  /\ pc[t] = "decide"
  /\ ~state[t].locked
  /\ previous[current[t]] # None
  /\ queueTail' = [queueTail EXCEPT ![state[t].head] = previous[current[t]]]
  /\ word' = [word EXCEPT !.queueLocked = FALSE]
  /\ Goto(t, "wake")
  /\ UNCHANGED <<parker, previous, next, state, current, locks>>

\* Mutant: the thread is not let go.
WakeNobody(t) ==
  /\ pc[t] = "wake"
  /\ Goto(t, "idle")
  /\ UNCHANGED <<word, nodes, state, current, locks>>

\* commitUnpark and the futex wake that follows it.
Wake(t) ==
  /\ pc[t] = "wake"
  /\ parker' = [parker EXCEPT ![current[t]] = 0]
  /\ Goto(t, "idle")
  /\ UNCHANGED <<word, queueTail, previous, next, state, current, locks>>

-----------------------------------------------------------------------------

Step(t) ==
  \/ Acquire(t) \/ Enqueue(t) \/ Unparked(t)
  \/ Unlock(t) \/ LockQueue(t) \/ Walk(t) \/ FindTail(t)
  \/ LeaveToHolder(t) \/ TakeLast(t) \/ TakeTail(t) \/ Wake(t)

Next == \E t \in Threads : Lock(t) \/ Step(t)

Spec == Init /\ [][Next]_vars

\* A thread that is not asleep keeps running, and unlocks what it has locked.
Fairness == \A t \in Threads : WF_vars(Step(t))

FairSpec == Spec /\ Fairness

-----------------------------------------------------------------------------
(* Properties.                                                             *)

Words == [locked : BOOLEAN, queueLocked : BOOLEAN, head : Threads \cup {None}]

\* The type invariant: also, unlockSlow works on a queue that has nodes.
TypeOK ==
  /\ word \in Words
  /\ parker \in [Threads -> {0, 1}]
  /\ queueTail \in [Threads -> Threads \cup {None}]
  /\ previous \in [Threads -> Threads \cup {None}]
  /\ next \in [Threads -> Threads \cup {None}]
  /\ pc \in [Threads -> {"idle", "locking", "parked", "holding", "unlocking", "walk", "decide", "wake"}]
  /\ state \in [Threads -> Words]
  /\ current \in [Threads -> Threads \cup {None}]
  /\ locks \in 0 .. MaxLocks
  /\ \A t \in Threads : pc[t] \in {"walk", "decide", "wake"} => {state[t].head, current[t]} \subseteq Threads

\* At most one thread holds the lock, and the word says whether one does.
MutualExclusion ==
  /\ \A t, u \in Threads : pc[t] = "holding" /\ pc[u] = "holding" => t = u
  /\ word.locked <=> \E t \in Threads : pc[t] = "holding"

\* The queue's bit is a lock as well: the links have one thread at work on them.
QueueHasOneKeeper ==
  /\ \A t, u \in Threads : pc[t] \in {"walk", "decide"} /\ pc[u] \in {"walk", "decide"} => t = u
  /\ word.queueLocked <=> \E t \in Threads : pc[t] \in {"walk", "decide"}

\* The n-th node from the queue's head, following the links, and how far the
\* queue reaches: to the tail that the first node to know it names.
Node(n) ==
  LET at[m \in 1 .. Cardinality(Threads) + 1] ==
        IF m = 1 THEN word.head ELSE IF at[m - 1] = None THEN None ELSE next[at[m - 1]]
  IN at[n]

Depths == 1 .. Cardinality(Threads)
Known == {n \in Depths : Node(n) # None /\ queueTail[Node(n)] # None}
Nearest(S) == CHOOSE n \in S : \A m \in S : n <= m
TailNode == queueTail[Node(Nearest(Known))]
Ends == {n \in Depths : Node(n) = TailNode}

\* A walk always ends: from the head there is a node that knows the tail, and
\* the tail lies on the way, at or behind it.
WalkEnds ==
  word.head # None =>
    /\ Known # {}
    /\ Ends # {}
    /\ Nearest(Known) <= Nearest(Ends)

\* The threads that sleep, longest first.
Queue ==
  IF word.head = None \/ ~WalkEnds THEN <<>>
  ELSE LET length == Nearest(Ends) IN [n \in 1 .. length |-> Node(length + 1 - n)]

Queued == {Queue[n] : n \in DOMAIN Queue}

\* A thread that sleeps is in the queue, or has been taken off it by a thread
\* that is about to wake it; nobody else is in the queue.
SleepersAreQueued ==
  /\ \A t \in Queued : pc[t] = "parked" /\ parker[t] = 1
  /\ \A t \in Threads : pc[t] = "parked" /\ parker[t] = 1 =>
       t \in Queued \/ \E u \in Threads : pc[u] = "wake" /\ current[u] = t

\* A queue is never left to nobody: while threads sleep and the lock is free,
\* some thread is on its way to the queue, or awake and on its way to the lock,
\* whose unlock will see to the queue.
QueueIsLookedAfter ==
  word.head # None =>
    \/ word.locked \/ word.queueLocked
    \/ \E t \in Threads :
         pc[t] \in {"locking", "unlocking", "wake"} \/ (pc[t] = "parked" /\ parker[t] = 0)

\* The thread between lock() and unlock().
Holder == IF \E t \in Threads : pc[t] = "holding" THEN CHOOSE t \in Threads : pc[t] = "holding" ELSE None

Promised == INSTANCE LockQueue WITH holder <- Holder, queue <- Queue

\* Under every interleaving of unlocks, walks and arrivals the sleepers are
\* let out one at a time, in the order in which they came.
ImplementsLockQueue == Promised!Spec

\* lock() returns, whatever the others do: the model makes finitely many calls.
LockIsGranted == \A t \in Threads : pc[t] = "locking" ~> pc[t] = "holding"
=============================================================================
