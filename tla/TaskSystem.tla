----------------------------- MODULE TaskSystem -----------------------------
(***************************************************************************)
(* The worker pool (engine/src/task/task_system.cpp): workers compete for  *)
(* a budget of Target permits, take ready tasks in batches from a shared   *)
(* queue, steal from one another, and park on a list from which whoever    *)
(* makes work ready wakes one of them.  The main thread launches tasks,    *)
(* waits for some of them and then destroys the pool.                      *)
(*                                                                         *)
(* Every step is one atomic operation or one critical section of the code. *)
(* The task graph is used through what TaskLifecycle promises: a task      *)
(* becomes ready when the tasks it needs have completed, and is run once.  *)
(* What the tasks and the main thread do is given by a script, a list of   *)
(* calls; waitHelpMaxDepth has its default, 0.                             *)
(***************************************************************************)
EXTENDS Integers, Sequences, FiniteSets

CONSTANTS
  WorkerCount,      \* workers.count + workers.maxStandbyWorkers
  Target,           \* m_targetActiveWorkerCount, which is workers.count
  Share,            \* tasks of one priority a worker takes in one batch
  Tasks,            \* the tasks the scripts launch, all of one priority
  Needs,            \* their prerequisites
  MainAffinity,     \* those that only the main thread may run
  Scripts,          \* what may happen: per task, and for Main, the calls it makes
  Main,             \* the main thread, and the name of its script
  None

Workers == 0 .. WorkerCount - 1
Threads == Workers \cup {Main}
Programs == Tasks \cup {Main}
Calls ==
  [op : {"launch", "wait"}, tasks : {<<h>> : h \in Tasks}]
  \cup [op : {"waitAll", "runMain"}, tasks : Seq(Tasks)]

ASSUME TaskSystemAssumption ==
  /\ WorkerCount \in Nat \ {0}
  /\ Target \in 1 .. WorkerCount
  /\ Share \in Nat \ {0}
  /\ Main \notin Workers \cup Tasks
  /\ None \notin Threads \cup Tasks
  /\ MainAffinity \subseteq Tasks
  /\ Needs \in [Tasks -> SUBSET Tasks]
  /\ \A s \in Scripts : s \in [Programs -> Seq(Calls)]

VARIABLES
  status,           \* per task, as far as the pool can tell
  shared,           \* m_affinityQueues[AnyWorker]
  mainQueue,        \* m_affinityQueues[MainThread]
  local,            \* per worker: localQueue
  permits,          \* m_activeSlots
  parkedIds,        \* m_parkedWorkerIds, last in first out
  asleep,           \* the workers the parking lot holds
  workerState,      \* per worker: Worker::state
  stopping,         \* per worker: Worker::stopping
  holdingSlot,      \* per worker: the local of runWorkerLoop
  pc,               \* per thread: the step it takes next
  frames,           \* per thread: the scripts it is in, innermost last
  taken,            \* per thread: tasks popped and not yet run or stored
  toEnqueue,        \* per thread: tasks made ready and not yet enqueued
  waking,           \* per thread: the worker it is about to unpark
  script,           \* the one of Scripts that happens
  latch,            \* per thread: what the latch of its wait still counts
  attached,         \* per task: the thread whose latch its completion counts down
  phase,            \* where Main looks for tasks once its script is over
  next              \* per thread: next worker to steal from, or to stop

queues == <<shared, mainQueue, local>>
budget == <<permits, parkedIds, asleep, workerState, holdingSlot>>
locals == <<taken, toEnqueue, waking, phase, next>>
waits == <<script, latch, attached>>
vars == <<status, queues, budget, stopping, waits, pc, frames, locals>>

-----------------------------------------------------------------------------

Top(t) == frames[t][Len(frames[t])]
Over(t) == Top(t).pos > Len(script[Top(t).name])
Call(t) == script[Top(t).name][Top(t).pos]
Calling(t, op) == pc[t] = "body" /\ ~Over(t) /\ Call(t).op = op
Waits(t) == ~Over(t) /\ Call(t).op \in {"wait", "waitAll"}

\* The tasks a call names: the only one, and of a span, the one the wait has come to.
TaskOf(t) == Head(Call(t).tasks)
SpanIsOver(t) == Top(t).at > Len(Call(t).tasks)
TaskAt(t) == Call(t).tasks[Top(t).at]

Goto(t, step) == pc' = [pc EXCEPT ![t] = step]
FrameOf(h, pos) == [name |-> h, pos |-> pos, at |-> 1, blocked |-> FALSE]
Enter(t, h) == frames' = [frames EXCEPT ![t] = Append(@, FrameOf(h, 1))]
SetTop(t, frame) == frames' = [frames EXCEPT ![t][Len(frames[t])] = frame]
Advance(t) == SetTop(t, FrameOf(Top(t).name, Top(t).pos + 1))

\* Where thread t goes on with `rest` of its frames left: in the caller's
\* script, or where the worker loop or the destructor takes its next task.
Return(t, rest) ==
  /\ frames' = [frames EXCEPT ![t] = rest]
  /\ Goto(t, IF rest # <<>> THEN "body" ELSE IF t = Main THEN phase ELSE "loop")

Leave(t) == Return(t, SubSeq(frames[t], 1, Len(frames[t]) - 1))

\* After a completion, or an enqueue and its wake-up, with the tasks in `left`
\* still to enqueue: the next of them, the end of the task, the next call, or
\* the latch of the wait that shed its permit.
Resume(t, left) ==
  IF left # {} THEN Goto(t, "enqueue") /\ UNCHANGED frames
  ELSE IF Over(t) THEN Leave(t)
  ELSE IF Waits(t) THEN Goto(t, "latch") /\ UNCHANGED frames
  ELSE Advance(t) /\ Goto(t, "body")

Init ==
  /\ status = [h \in Tasks |-> "absent"]
  /\ shared = <<>>
  /\ mainQueue = <<>>
  /\ local = [w \in Workers |-> <<>>]
  /\ permits = Target
  /\ parkedIds = <<>>
  /\ asleep = {}
  /\ workerState = [w \in Workers |-> "Parked"]
  /\ stopping = [w \in Workers |-> FALSE]
  /\ holdingSlot = [w \in Workers |-> FALSE]
  /\ pc = [t \in Threads |-> IF t = Main THEN "body" ELSE "start"]
  /\ frames = [t \in Threads |-> IF t = Main THEN <<FrameOf(Main, 1)>> ELSE <<>>]
  /\ taken = [t \in Threads |-> <<>>]
  /\ toEnqueue = [t \in Threads |-> {}]
  /\ waking = [t \in Threads |-> None]
  /\ script \in Scripts
  /\ latch = [t \in Threads |-> 0]
  /\ attached = [h \in Tasks |-> None]
  /\ phase = "drainMain"
  /\ next = [t \in Threads |-> 0]

-----------------------------------------------------------------------------
(* Calls made by a script: launch, wait and runMainThreadReadyTasks.       *)

Done(h) == status[h] = "done"

\* launch: the task graph says whether the new task is ready at once.
Launch(t) ==
  /\ Calling(t, "launch")
  /\ LET h == TaskOf(t) IN
       /\ status[h] = "absent"
       /\ \A p \in Needs[h] : status[p] # "absent"
       /\ IF \A p \in Needs[h] : Done(p)
          THEN /\ status' = [status EXCEPT ![h] = "ready"]
               /\ toEnqueue' = [toEnqueue EXCEPT ![t] = {h}]
               /\ Goto(t, "enqueue")
               /\ UNCHANGED frames
          ELSE /\ status' = [status EXCEPT ![h] = "waiting"]
               /\ Advance(t)
               /\ UNCHANGED <<toEnqueue, pc>>
  /\ UNCHANGED <<queues, budget, stopping, waits, taken, waking, phase, next>>

\* enqueueReadyTask puts the task in the queue of its affinity; only the
\* shared queue has workers to wake.
Enqueue(t) ==
  /\ pc[t] = "enqueue"
  /\ \E h \in toEnqueue[t] :
       /\ toEnqueue' = [toEnqueue EXCEPT ![t] = @ \ {h}]
       /\ IF h \in MainAffinity
          THEN /\ mainQueue' = Append(mainQueue, h)
               /\ Resume(t, toEnqueue[t] \ {h})
               /\ UNCHANGED shared
          ELSE /\ shared' = Append(shared, h)
               /\ Goto(t, "wake")
               /\ UNCHANGED <<mainQueue, frames>>
  /\ UNCHANGED <<status, local, budget, stopping, waits, taken, waking, phase, next>>

\* tryHelpComplete, as far as it goes by default: a waiter runs a ready task itself.
MayHelp(h) == status[h] = "ready" /\ h \notin MainAffinity
Help(t, h) == Enter(t, h) /\ status' = [status EXCEPT ![h] = "running"]

\* wait: nothing to do for a completed task; a ready one is run here.
WaitLooks(t) ==
  /\ Calling(t, "wait")
  /\ LET h == TaskOf(t) IN
       IF Done(h) THEN Advance(t) /\ UNCHANGED <<status, pc>>
       ELSE IF MayHelp(h) THEN Help(t, h) /\ UNCHANGED pc
       ELSE Goto(t, "attach") /\ UNCHANGED <<status, frames>>
  /\ UNCHANGED <<queues, budget, stopping, waits, locals>>

\* A worker that is to wait marks itself waiting, so that it can give up its permit.
WaitOnLatch(t) ==
  /\ Goto(t, IF t = Main THEN "latch" ELSE "shed")
  /\ workerState' = IF t = Main THEN workerState ELSE [workerState EXCEPT ![t] = "Waiting"]

\* The latch is attached unless the task has completed meanwhile.
Attach(t) ==
  /\ pc[t] = "attach"
  /\ LET h == TaskOf(t) IN
       IF Done(h)
       THEN Advance(t) /\ Goto(t, "body") /\ UNCHANGED <<latch, attached, workerState>>
       ELSE /\ latch' = [latch EXCEPT ![t] = 1]
            /\ attached' = [attached EXCEPT ![h] = t]
            /\ WaitOnLatch(t)
            /\ UNCHANGED frames
  /\ UNCHANGED <<status, queues, permits, parkedIds, asleep, holdingSlot, stopping, script, locals>>

\* wait on a span looks at one task after the other, and is over if each was complete or
\* has been run here.
WaitAllLooks(t) ==
  /\ Calling(t, "waitAll")
  /\ IF SpanIsOver(t)
     THEN /\ IF Top(t).blocked
             THEN /\ SetTop(t, [Top(t) EXCEPT !.at = 1])
                  /\ latch' = [latch EXCEPT ![t] = Len(Call(t).tasks) + 1]
                  /\ Goto(t, "attachAll")
             ELSE Advance(t) /\ UNCHANGED <<latch, pc>>
          /\ UNCHANGED status
     ELSE /\ IF MayHelp(TaskAt(t)) THEN Help(t, TaskAt(t))
             ELSE /\ SetTop(t, [Top(t) EXCEPT !.at = @ + 1, !.blocked = @ \/ ~Done(TaskAt(t))])
                  /\ UNCHANGED status
          /\ UNCHANGED <<latch, pc>>
  /\ UNCHANGED <<queues, budget, stopping, script, attached, locals>>

\* Then it attaches its latch to one after the other, and counts it down for those that are
\* complete by now. One more is counted so that the latch does not open meanwhile.
AttachAll(t) ==
  /\ pc[t] = "attachAll"
  /\ IF SpanIsOver(t)
     THEN /\ latch' = [latch EXCEPT ![t] = @ - 1]
          /\ WaitOnLatch(t)
          /\ UNCHANGED <<attached, frames>>
     ELSE /\ IF Done(TaskAt(t))
             THEN latch' = [latch EXCEPT ![t] = @ - 1] /\ UNCHANGED attached
             ELSE attached' = [attached EXCEPT ![TaskAt(t)] = t] /\ UNCHANGED latch
          /\ SetTop(t, [Top(t) EXCEPT !.at = @ + 1])
          /\ UNCHANGED <<workerState, pc>>
  /\ UNCHANGED <<status, queues, permits, parkedIds, asleep, holdingSlot, stopping, script, locals>>

Shed(t) ==
  /\ pc[t] = "shed"
  /\ permits' = permits + 1
  /\ Goto(t, "wake")
  /\ UNCHANGED <<status, queues, parkedIds, asleep, workerState, holdingSlot, stopping, waits, frames, locals>>

\* latch.wait() returns once the latch has been counted down.
Latched(t) ==
  /\ pc[t] = "latch"
  /\ latch[t] = 0
  /\ IF t = Main
     THEN Advance(t) /\ Goto(t, "body")
     ELSE Goto(t, "reacquire") /\ UNCHANGED frames
  /\ UNCHANGED <<status, queues, budget, stopping, waits, locals>>

\* The worker blocks until it has a permit again.
Reacquire(t) ==
  /\ pc[t] = "reacquire"
  /\ permits > 0
  /\ permits' = permits - 1
  /\ workerState' = [workerState EXCEPT ![t] = "Active"]
  /\ Advance(t)
  /\ Goto(t, "body")
  /\ UNCHANGED <<status, queues, parkedIds, asleep, holdingSlot, stopping, waits, locals>>

\* runMainThreadReadyTasks, called by the main thread's script: one pass of
\* its loop, which ends when the queue is empty.
RunMain(t) ==
  /\ Calling(t, "runMain")
  /\ IF mainQueue = <<>>
     THEN Advance(t) /\ UNCHANGED <<mainQueue, taken, pc>>
     ELSE /\ taken' = [taken EXCEPT ![t] = <<Head(mainQueue)>>]
          /\ mainQueue' = Tail(mainQueue)
          /\ Goto(t, "claim")
          /\ UNCHANGED frames
  /\ UNCHANGED <<status, shared, local, budget, stopping, waits, toEnqueue, waking, phase, next>>

-----------------------------------------------------------------------------
(* Running a task: runAndCompleteClaimedTask.                              *)

\* tryClaim fails for a task that a waiter has run in the meantime.
Claim(t) ==
  /\ pc[t] = "claim"
  /\ LET h == taken[t][1] IN
       IF status[h] = "ready"
       THEN Enter(t, h) /\ status' = [status EXCEPT ![h] = "running"] /\ Goto(t, "body")
       ELSE Return(t, frames[t]) /\ UNCHANGED status
  /\ taken' = [taken EXCEPT ![t] = <<>>]
  /\ UNCHANGED <<queues, budget, stopping, waits, toEnqueue, waking, phase, next>>

\* completeTask: the tasks that needed only this one are ready, and the latch that is
\* attached is counted down.
Complete(t) ==
  /\ pc[t] = "body"
  /\ Over(t)
  /\ Top(t).name \in Tasks
  /\ LET h == Top(t).name
         unblocked == {d \in Tasks : status[d] = "waiting" /\ \A p \in Needs[d] \ {h} : Done(p)} IN
       /\ status' = [d \in Tasks |-> IF d = h THEN "done"
                                     ELSE IF d \in unblocked THEN "ready" ELSE status[d]]
       /\ toEnqueue' = [toEnqueue EXCEPT ![t] = unblocked]
       /\ latch' = [u \in Threads |-> IF attached[h] = u THEN latch[u] - 1 ELSE latch[u]]
       /\ attached' = [attached EXCEPT ![h] = None]
       /\ Resume(t, unblocked)
  /\ UNCHANGED <<queues, budget, stopping, script, taken, waking, phase, next>>

-----------------------------------------------------------------------------
(* Waking a worker: wakeOneIfUnderTarget, after an enqueue or a shed.      *)

Wake(t) ==
  /\ pc[t] = "wake"
  /\ IF permits = 0
     THEN Resume(t, toEnqueue[t]) /\ UNCHANGED permits
     ELSE Goto(t, "wakePop") /\ permits' = permits - 1 /\ UNCHANGED frames
  /\ UNCHANGED <<status, queues, parkedIds, asleep, workerState, holdingSlot, stopping, waits, locals>>

\* Under m_parkedIndicesMutex the last worker to park is given the permit.
WakePop(t) ==
  /\ pc[t] = "wakePop"
  /\ IF parkedIds = <<>>
     THEN Goto(t, "giveBack") /\ UNCHANGED <<parkedIds, workerState, waking>>
     ELSE LET w == parkedIds[Len(parkedIds)] IN
          /\ parkedIds' = SubSeq(parkedIds, 1, Len(parkedIds) - 1)
          /\ workerState' = [workerState EXCEPT ![w] = "Active"]
          /\ waking' = [waking EXCEPT ![t] = w]
          /\ Goto(t, "unpark")
  /\ UNCHANGED <<status, queues, permits, asleep, holdingSlot, stopping, waits, frames, taken, toEnqueue,
                 phase, next>>

\* Nobody to give the permit to.
GiveBack(t) ==
  /\ pc[t] = "giveBack"
  /\ permits' = permits + 1
  /\ Resume(t, toEnqueue[t])
  /\ UNCHANGED <<status, queues, parkedIds, asleep, workerState, holdingSlot, stopping, waits, locals>>

\* unparkOne reaches the worker only if it is asleep by now.
Unpark(t) ==
  /\ pc[t] = "unpark"
  /\ asleep' = asleep \ {waking[t]}
  /\ waking' = [waking EXCEPT ![t] = None]
  /\ Resume(t, toEnqueue[t])
  /\ UNCHANGED <<status, queues, permits, parkedIds, workerState, holdingSlot, stopping, waits, taken,
                 toEnqueue, phase, next>>

-----------------------------------------------------------------------------
(* The worker loop.                                                        *)

\* A worker thread starts by trying for a permit.
StartWorker(w) ==
  /\ pc[w] = "start"
  /\ holdingSlot' = [holdingSlot EXCEPT ![w] = permits > 0]
  /\ permits' = IF permits > 0 THEN permits - 1 ELSE permits
  /\ Goto(w, "loop")
  /\ UNCHANGED <<status, queues, parkedIds, asleep, workerState, stopping, waits, frames, locals>>

\* The worker's own queue comes first; intake from elsewhere needs a permit.
PopLocal(w) ==
  /\ pc[w] \in {"loop", "refilled"}
  /\ IF local[w] # <<>>
     THEN /\ taken' = [taken EXCEPT ![w] = <<Head(local[w])>>]
          /\ local' = [local EXCEPT ![w] = Tail(@)]
          /\ Goto(w, "claim")
     ELSE /\ Goto(w, IF pc[w] = "refilled" THEN "steal" ELSE IF holdingSlot[w] THEN "batch" ELSE "stop?")
          /\ UNCHANGED <<taken, local>>
  /\ next' = [next EXCEPT ![w] = 1]
  /\ UNCHANGED <<status, shared, mainQueue, budget, stopping, waits, frames, toEnqueue, waking, phase>>

\* tryPopWeightedBatchInto takes a batch under the shared queue's mutex ...
TakeBatch(w) ==
  /\ pc[w] = "batch"
  /\ LET n == IF Len(shared) < Share THEN Len(shared) ELSE Share IN
       /\ taken' = [taken EXCEPT ![w] = SubSeq(shared, 1, n)]
       /\ shared' = SubSeq(shared, n + 1, Len(shared))
       /\ Goto(w, IF n = 0 THEN "steal" ELSE "refill")
  /\ UNCHANGED <<status, mainQueue, local, budget, stopping, waits, frames, toEnqueue, waking, phase, next>>

\* ... and stores it under the mutex of the worker's own.
Refill(w) ==
  /\ pc[w] = "refill"
  /\ local' = [local EXCEPT ![w] = @ \o taken[w]]
  /\ taken' = [taken EXCEPT ![w] = <<>>]
  /\ Goto(w, "refilled")
  /\ UNCHANGED <<status, shared, mainQueue, budget, stopping, waits, frames, toEnqueue, waking, phase, next>>

\* tryStealTask looks at one worker after the other, its successor first.
Steal(w) ==
  LET victim == (w + next[w]) % WorkerCount IN
  /\ pc[w] = "steal"
  /\ IF next[w] >= WorkerCount
     THEN Goto(w, "stop?") /\ UNCHANGED <<local, taken, next>>
     ELSE IF local[victim] = <<>>
     THEN next' = [next EXCEPT ![w] = @ + 1] /\ UNCHANGED <<local, taken, pc>>
     ELSE /\ taken' = [taken EXCEPT ![w] = <<Head(local[victim])>>]
          /\ local' = [local EXCEPT ![victim] = Tail(@)]
          /\ Goto(w, "claim")
          /\ UNCHANGED next
  /\ UNCHANGED <<status, shared, mainQueue, budget, stopping, waits, frames, toEnqueue, waking, phase>>

\* Mutant: a worker that stops takes its permit with it.
CheckStoppingKeepsSlot(w) ==
  /\ pc[w] = "stop?"
  /\ Goto(w, IF stopping[w] THEN "exited" ELSE IF holdingSlot[w] THEN "release" ELSE "park")
  /\ UNCHANGED <<status, queues, budget, stopping, waits, frames, locals>>

\* Nothing to run: leave the loop if told to, or give up the permit and park.
CheckStopping(w) ==
  /\ pc[w] = "stop?"
  /\ Goto(w, IF stopping[w] THEN (IF holdingSlot[w] THEN "exit" ELSE "exited")
             ELSE (IF holdingSlot[w] THEN "release" ELSE "park"))
  /\ UNCHANGED <<status, queues, budget, stopping, waits, frames, locals>>

ReleaseSlot(w) ==
  /\ pc[w] \in {"release", "exit"}
  /\ permits' = permits + 1
  /\ holdingSlot' = [holdingSlot EXCEPT ![w] = FALSE]
  /\ Goto(w, IF pc[w] = "exit" THEN "exited" ELSE "park")
  /\ UNCHANGED <<status, queues, parkedIds, asleep, workerState, stopping, waits, frames, locals>>

-----------------------------------------------------------------------------
(* Parking: parkWorker.                                                    *)

Park(w) ==
  /\ pc[w] = "park"
  /\ workerState' = [workerState EXCEPT ![w] = "Parked"]
  /\ parkedIds' = Append(parkedIds, w)
  /\ Goto(w, "recheck")
  /\ UNCHANGED <<status, queues, permits, asleep, holdingSlot, stopping, waits, frames, locals>>

\* Mutant: the queue is not looked at again.
RecheckSkipped(w) ==
  /\ pc[w] = "recheck"
  /\ Goto(w, "sleep")
  /\ UNCHANGED <<status, queues, budget, stopping, waits, frames, locals>>

\* Work that arrived before the worker was on the list woke nobody, so the
\* worker looks at the shared queue once more ...
Recheck(w) ==
  /\ pc[w] = "recheck"
  /\ Goto(w, IF shared = <<>> THEN "sleep" ELSE "recheckPermit")
  /\ UNCHANGED <<status, queues, budget, stopping, waits, frames, locals>>

\* ... and needs a permit to take it.
RecheckPermit(w) ==
  /\ pc[w] = "recheckPermit"
  /\ IF permits = 0
     THEN Goto(w, "sleep") /\ UNCHANGED permits
     ELSE Goto(w, "unlist") /\ permits' = permits - 1
  /\ UNCHANGED <<status, queues, parkedIds, asleep, workerState, holdingSlot, stopping, waits, frames, locals>>

Listed(w) == \E n \in 1 .. Len(parkedIds) : parkedIds[n] = w

\* tryRemoveParkedWorker: the last worker takes the place of the one removed.
Unlist(w) ==
  \E n \in 1 .. Len(parkedIds) :
    /\ parkedIds[n] = w
    /\ parkedIds' = SubSeq([parkedIds EXCEPT ![n] = parkedIds[Len(parkedIds)]],
                           1, Len(parkedIds) - 1)

\* Mutant: the worker keeps its permit although a waker has given it another.
UnlistSelfKeepingBoth(w) ==
  /\ pc[w] = "unlist"
  /\ IF Listed(w) THEN Unlist(w) ELSE UNCHANGED parkedIds
  /\ workerState' = [workerState EXCEPT ![w] = "Active"]
  /\ holdingSlot' = [holdingSlot EXCEPT ![w] = TRUE]
  /\ Goto(w, "loop")
  /\ UNCHANGED <<status, queues, permits, asleep, stopping, waits, frames, locals>>

\* A worker no longer on the list has been given a permit by a waker as well,
\* and returns the one it took itself.
UnlistSelf(w) ==
  /\ pc[w] = "unlist"
  /\ IF Listed(w)
     THEN /\ Unlist(w)
          /\ workerState' = [workerState EXCEPT ![w] = "Active"]
          /\ holdingSlot' = [holdingSlot EXCEPT ![w] = TRUE]
          /\ Goto(w, "loop")
     ELSE /\ Goto(w, "returnPermit")
          /\ UNCHANGED <<parkedIds, workerState, holdingSlot>>
  /\ UNCHANGED <<status, queues, permits, asleep, stopping, waits, frames, locals>>

ReturnPermit(w) ==
  /\ pc[w] = "returnPermit"
  /\ permits' = permits + 1
  /\ workerState' = [workerState EXCEPT ![w] = "Active"]
  /\ holdingSlot' = [holdingSlot EXCEPT ![w] = TRUE]
  /\ Goto(w, "loop")
  /\ UNCHANGED <<status, queues, parkedIds, asleep, stopping, waits, frames, locals>>

\* Mutant: the worker sleeps without validating.
SleepBlindly(w) ==
  /\ pc[w] = "sleep"
  /\ asleep' = asleep \cup {w}
  /\ Goto(w, "woken")
  /\ UNCHANGED <<status, queues, permits, parkedIds, workerState, holdingSlot, stopping, waits, frames, locals>>

\* The parking lot validates under its bucket lock, so a wake-up or a stop
\* that came first keeps the worker from sleeping.
Sleep(w) ==
  /\ pc[w] = "sleep"
  /\ asleep' = IF workerState[w] # "Active" /\ ~stopping[w] THEN asleep \cup {w} ELSE asleep
  /\ Goto(w, "woken")
  /\ UNCHANGED <<status, queues, permits, parkedIds, workerState, holdingSlot, stopping, waits, frames, locals>>

\* A worker made active holds the permit its waker took for it.
Woken(w) ==
  /\ pc[w] = "woken"
  /\ w \notin asleep
  /\ IF workerState[w] = "Active"
     THEN holdingSlot' = [holdingSlot EXCEPT ![w] = TRUE] /\ Goto(w, "loop")
     ELSE Goto(w, "unparked") /\ UNCHANGED holdingSlot
  /\ UNCHANGED <<status, queues, permits, parkedIds, asleep, workerState, stopping, waits, frames, locals>>

\* Mutant: a worker that nobody made active stays on the list.
UnparkedStayingListed(w) ==
  /\ pc[w] = "unparked"
  /\ holdingSlot' = [holdingSlot EXCEPT ![w] = ~Listed(w)]
  /\ Goto(w, "loop")
  /\ UNCHANGED <<status, queues, permits, parkedIds, asleep, workerState, stopping, waits, frames, locals>>

\* Otherwise it takes itself off the list, unless a waker has done so.
Unparked(w) ==
  /\ pc[w] = "unparked"
  /\ IF Listed(w) THEN Unlist(w) ELSE UNCHANGED parkedIds
  /\ holdingSlot' = [holdingSlot EXCEPT ![w] = ~Listed(w)]
  /\ Goto(w, "loop")
  /\ UNCHANGED <<status, queues, permits, asleep, workerState, stopping, waits, frames, locals>>

-----------------------------------------------------------------------------
(* The destructor, on the main thread.                                     *)

\* runMainThreadReadyTasks, in each of the destructor's three drains.
DrainMain ==
  /\ pc[Main] \in {"drainMain", "drain", "tail"}
  /\ IF mainQueue = <<>>
     THEN /\ Goto(Main, CASE phase = "drainMain" -> "stop"
                          [] phase = "drain" -> "drainShared"
                          [] phase = "tail" -> "drainShared")
          /\ UNCHANGED <<mainQueue, taken>>
     ELSE /\ taken' = [taken EXCEPT ![Main] = <<Head(mainQueue)>>]
          /\ mainQueue' = Tail(mainQueue)
          /\ Goto(Main, "claim")
  /\ UNCHANGED <<status, shared, local, budget, stopping, waits, frames, toEnqueue, waking, phase, next>>

\* Each worker is told to stop, and unparked in case it sleeps.
StopWorker ==
  /\ pc[Main] = "stop"
  /\ stopping' = [stopping EXCEPT ![next[Main]] = TRUE]
  /\ Goto(Main, "stopUnpark")
  /\ UNCHANGED <<status, queues, budget, waits, frames, locals>>

\* Mutant: a worker that sleeps is not unparked.
StopQuietly ==
  LET isLast == next[Main] = WorkerCount - 1 IN
  /\ pc[Main] = "stopUnpark"
  /\ next' = [next EXCEPT ![Main] = @ + 1]
  /\ phase' = IF isLast THEN "drain" ELSE phase
  /\ Goto(Main, IF isLast THEN "drain" ELSE "stop")
  /\ UNCHANGED <<status, queues, budget, stopping, waits, frames, taken, toEnqueue, waking>>

StopUnpark ==
  LET isLast == next[Main] = WorkerCount - 1 IN
  /\ pc[Main] = "stopUnpark"
  /\ asleep' = asleep \ {next[Main]}
  /\ next' = [next EXCEPT ![Main] = @ + 1]
  /\ phase' = IF isLast THEN "drain" ELSE phase
  /\ Goto(Main, IF isLast THEN "drain" ELSE "stop")
  /\ UNCHANGED <<status, queues, permits, parkedIds, workerState, holdingSlot, stopping, waits, frames,
                 taken, toEnqueue, waking>>

\* tryPopAndRunOneAnyWorkerTask; a drain ends when it finds nothing.
DrainShared ==
  /\ pc[Main] = "drainShared"
  /\ IF shared = <<>>
     THEN /\ Goto(Main, IF phase = "drain" THEN "join" ELSE "end")
          /\ UNCHANGED <<shared, taken>>
     ELSE /\ taken' = [taken EXCEPT ![Main] = <<Head(shared)>>]
          /\ shared' = Tail(shared)
          /\ Goto(Main, "claim")
  /\ UNCHANGED <<status, mainQueue, local, budget, stopping, waits, frames, toEnqueue, waking, phase, next>>

\* Mutant: nothing is drained once the workers have been joined.
JoinWithoutTail ==
  /\ pc[Main] = "join"
  /\ \A w \in Workers : pc[w] = "exited"
  /\ phase' = "tail"
  /\ Goto(Main, "end")
  /\ UNCHANGED <<status, queues, budget, stopping, waits, frames, taken, toEnqueue, waking, next>>

Join ==
  /\ pc[Main] = "join"
  /\ \A w \in Workers : pc[w] = "exited"
  /\ phase' = "tail"
  /\ Goto(Main, "tail")
  /\ UNCHANGED <<status, queues, budget, stopping, waits, frames, taken, toEnqueue, waking, next>>

\* The main thread's script is over, and it destroys the pool.
Destroy ==
  /\ pc[Main] = "body"
  /\ Over(Main)
  /\ Top(Main).name = Main
  /\ Leave(Main)
  /\ UNCHANGED <<status, queues, budget, stopping, waits, locals>>

-----------------------------------------------------------------------------

WorkerStep(w) ==
  \/ StartWorker(w) \/ PopLocal(w) \/ TakeBatch(w) \/ Refill(w) \/ Steal(w)
  \/ CheckStopping(w) \/ ReleaseSlot(w)
  \/ Park(w) \/ Recheck(w) \/ RecheckPermit(w) \/ UnlistSelf(w) \/ ReturnPermit(w)
  \/ Sleep(w) \/ Woken(w) \/ Unparked(w)

MainStep == Destroy \/ DrainMain \/ StopWorker \/ StopUnpark \/ DrainShared \/ Join

TaskStep(t) ==
  \/ Launch(t) \/ Enqueue(t) \/ WaitLooks(t) \/ Attach(t)
  \/ WaitAllLooks(t) \/ AttachAll(t) \/ Shed(t) \/ Latched(t)
  \/ Reacquire(t) \/ RunMain(t) \/ Claim(t) \/ Complete(t)
  \/ Wake(t) \/ WakePop(t) \/ GiveBack(t) \/ Unpark(t)

Next ==
  \/ \E t \in Threads : TaskStep(t)
  \/ \E w \in Workers : WorkerStep(w)
  \/ MainStep

\* Every thread keeps running whenever it is not blocked.
Fairness ==
  /\ \A t \in Threads : WF_vars(TaskStep(t))
  /\ \A w \in Workers : WF_vars(WorkerStep(w))
  /\ WF_vars(MainStep)

Spec == Init /\ [][Next]_vars
FairSpec == Spec /\ Fairness

-----------------------------------------------------------------------------
(* Properties.                                                             *)

\* Steps of parkWorker after the worker has put itself on the list.
ParkSteps == {"recheck", "recheckPermit", "unlist", "sleep", "woken", "unparked", "returnPermit"}

\* A permit is somewhere: free, held by a worker that runs or looks for tasks,
\* given to a worker that has been taken off the parked list and has not
\* noticed yet, or in the hands of a thread that tries to give it away or has
\* just taken it for its second look at the queue.
Shedding(w) ==
  /\ frames[w] # <<>>
  /\ Waits(w)
  /\ pc[w] \in {"wake", "wakePop", "giveBack", "unpark", "latch", "reacquire"}

Running == {w \in Workers : holdingSlot[w] /\ pc[w] \notin ParkSteps \cup {"park"} /\ ~Shedding(w)}
Granted == {w \in Workers : pc[w] \in ParkSteps /\ ~Listed(w)}
Passing == {t \in Threads : pc[t] \in {"wakePop", "giveBack", "unlist", "returnPermit"}}

\* However launches, waits, wake-ups and parking interleave, no permit is
\* lost and none is made up.
PermitsConserved ==
  permits + Cardinality(Running) + Cardinality(Granted) + Cardinality(Passing) = Target

\* A parked worker sleeps through no wake-up: one that sleeps although it has
\* been made active, or told to stop, has the call that wakes it on its way.
NoSleeperForgotten ==
  \A w \in asleep :
    /\ ~Listed(w) => workerState[w] = "Active"
    /\ workerState[w] = "Active" => \E t \in Threads : pc[t] = "unpark" /\ waking[t] = w
    /\ stopping[w] => pc[Main] = "stopUnpark" /\ next[Main] = w

\* The parked list names the workers that are parking or asleep, each once.
ParkedListIsExact ==
  /\ \A m, n \in 1 .. Len(parkedIds) : parkedIds[m] = parkedIds[n] => m = n
  /\ \A w \in Workers : Listed(w) => pc[w] \in ParkSteps \ {"returnPermit"} /\ workerState[w] = "Parked"

\* Work in the shared queue is not slept on: when every worker has parked
\* and no wake-up is under way, the shared queue is empty.
NoWorkSleptOn ==
  shared # <<>> =>
    \/ \E w \in Workers : pc[w] # "exited" /\ w \notin asleep
    \/ \E t \in Threads : pc[t] \in {"wake", "wakePop", "unpark"}
    \/ stopping # [w \in Workers |-> FALSE]

\* The assertions at the end of the destructor.
DestroyedClean ==
  pc[Main] = "end" =>
    /\ \A h \in Tasks : status[h] \in {"absent", "done"}
    /\ local = [w \in Workers |-> <<>>]
    /\ shared = <<>>
    /\ mainQueue = <<>>
    /\ permits = Target
    /\ parkedIds = <<>>

\* Every launched task completes: the scripts are finite, so from some point
\* on nothing is waiting, queued or running.
LaunchedTasksComplete == <>[](\A h \in Tasks : status[h] \in {"absent", "done"})

\* The main thread comes to the end of its waits, its drains and its joins.
DestructorReturns == <>(pc[Main] = "end")

\* A task in a worker's own queue is run, by that worker or by another.
CommittedWorkIsRun == \A w \in Workers : local[w] # <<>> ~> local[w] = <<>>
=============================================================================
