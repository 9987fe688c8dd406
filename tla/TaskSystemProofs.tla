-------------------------- MODULE TaskSystemProofs --------------------------
(***************************************************************************)
(* For any number of workers, any tasks and any scripts: no permit is lost *)
(* or made up, a parked worker sleeps through nothing, the parked list is  *)
(* exact, and a pool that has been destroyed has no task and no permit     *)
(* left over.  With two permits or more no work in the shared queue is     *)
(* slept on; with one it may be.                                           *)
(*                                                                         *)
(* What holds at a step of one thread is that thread's own affair for most *)
(* of it (ThreadInv); the list and the sleepers relate a worker to whoever *)
(* wakes it (ParkInv), the permits relate all of them, and what is left of *)
(* the tasks relates them to the queues (TaskInv).                         *)
(***************************************************************************)
EXTENDS TaskSystem, SequenceTheorems, FiniteSetTheorems, TLAPS

-----------------------------------------------------------------------------
(* Where a thread can be.                                                  *)

\* Handing out what it has made ready, and looking for a worker to wake.
Handing == {"enqueue", "wake", "wakePop", "giveBack", "unpark"}

\* In a wait, and of its call.
InWait == {"attach", "attachAll", "shed", "latch", "reacquire"}

\* Running a task, or Main its script.
InTask == {"body"} \cup InWait \cup Handing

\* In the worker loop, with a permit, without one, and either.
WithPermit == {"batch", "refill", "refilled", "steal", "release", "exit"}
WithoutPermit == {"start", "park", "exited"} \cup ParkSteps
InLoop == {"loop", "stop?"} \cup WithPermit \cup WithoutPermit

\* In the destructor.
InDestructor == {"drainMain", "stop", "stopUnpark", "drain", "drainShared", "join", "tail", "end"}

Frames == [name : Programs, pos : Nat \ {0}, at : Nat \ {0}, blocked : BOOLEAN]

\* The types of what the steps of threads look at.
PlaceTypeOK ==
  /\ pc \in [Threads -> InTask \cup {"claim"} \cup InLoop \cup InDestructor]
  /\ pc[Main] \notin InLoop \cup {"shed", "reacquire"}
  /\ \A w \in Workers : pc[w] \notin InDestructor

StackTypeOK ==
  /\ frames \in [Threads -> Seq(Frames)]
  /\ script \in Scripts

QueuesTypeOK ==
  /\ shared \in Seq(Tasks) /\ mainQueue \in Seq(Tasks)
  /\ local \in [Workers -> Seq(Tasks)]
  /\ taken \in [Threads -> Seq(Tasks)]
  /\ toEnqueue \in [Threads -> SUBSET Tasks]

BudgetTypeOK ==
  /\ permits \in Nat /\ parkedIds \in Seq(Workers) /\ asleep \subseteq Workers
  /\ workerState \in [Workers -> {"Parked", "Active", "Waiting"}]
  /\ stopping \in [Workers -> BOOLEAN] /\ holdingSlot \in [Workers -> BOOLEAN]
  /\ waking \in [Threads -> Workers \cup {None}]

PoolTypeOK ==
  /\ PlaceTypeOK /\ StackTypeOK /\ QueuesTypeOK /\ BudgetTypeOK
  /\ status \in [Tasks -> {"absent", "waiting", "ready", "running", "done"}]
  /\ phase \in {"drainMain", "drain", "tail"}
  /\ next \in [Threads -> Nat]

-----------------------------------------------------------------------------
(* One thread.                                                             *)

\* A task that runs is on the thread's stack, and the loops are below it.
StackFits(t) ==
  /\ pc[t] \in InTask => frames[t] # <<>>
  /\ pc[t] \notin InTask \cup {"claim"} => frames[t] = <<>>

\* A wait is a wait; what is still to be enqueued is not of one, and a task
\* whose calls are over by then has completed.
CallFits(t) ==
  /\ pc[t] \in InWait => Waits(t)
  /\ pc[t] = "enqueue" => toEnqueue[t] # {}
  /\ toEnqueue[t] # {} => pc[t] \in Handing /\ ~Waits(t)
  /\ pc[t] \in Handing /\ Over(t) => Top(t).name \in Tasks /\ status[Top(t).name] = "done"

\* Tasks are popped to be claimed, one at a time, or to be stored.
TakenFits(t) ==
  /\ pc[t] = "claim" => Len(taken[t]) = 1
  /\ taken[t] # <<>> => pc[t] \in {"claim", "refill"}

\* Whoever runs or looks for tasks has a permit; whoever has tasks of its own
\* has one too, and looks at them before it looks further.
PermitFits(w) ==
  /\ pc[w] \in InTask \cup {"claim"} \cup WithPermit => holdingSlot[w]
  /\ pc[w] \in WithoutPermit => ~holdingSlot[w]
  /\ local[w] # <<>> => holdingSlot[w] /\ pc[w] \notin (WithPermit \ {"refilled"}) \cup {"stop?"}
  /\ pc[w] \in {"exit", "exited"} => stopping[w]

\* How far the destructor is, and what it has behind it.
DestructorFits ==
  /\ pc[Main] \in {"drainMain", "stop", "stopUnpark"} => phase = "drainMain"
  /\ pc[Main] \in {"drain", "join"} => phase = "drain"
  /\ pc[Main] \in {"tail", "end"} => phase = "tail"
  /\ pc[Main] = "drainShared" => phase \in {"drain", "tail"}
  /\ phase = "drainMain" => next[Main] < WorkerCount
  /\ phase = "tail" => \A w \in Workers : pc[w] = "exited"
  /\ phase = "tail" /\ pc[Main] \in {"drainShared", "end"} => mainQueue = <<>>
  /\ pc[Main] = "end" => shared = <<>>

ThreadInv ==
  /\ \A t \in Threads : StackFits(t) /\ CallFits(t) /\ TakenFits(t)
  /\ \A w \in Workers : PermitFits(w)
  /\ DestructorFits

-----------------------------------------------------------------------------
(* The parked list and the sleepers.                                       *)

ListedOnce == \A m, n \in 1 .. Len(parkedIds) : parkedIds[m] = parkedIds[n] => m = n

\* A worker that is parking is on the list or has been made active, and one
\* that sleeps although it has been made active or told to stop is about to be woken.
ParkFits(w) ==
  /\ Listed(w) => pc[w] \in ParkSteps \ {"returnPermit"} /\ workerState[w] = "Parked"
  /\ pc[w] \in ParkSteps /\ ~Listed(w) => workerState[w] = "Active"
  /\ w \in asleep => pc[w] = "woken"
  /\ w \in asleep /\ workerState[w] = "Active" => \E t \in Threads : pc[t] = "unpark" /\ waking[t] = w
  /\ w \in asleep /\ stopping[w] => pc[Main] = "stopUnpark" /\ next[Main] = w

ParkInv == ListedOnce /\ \A w \in Workers : ParkFits(w)

-----------------------------------------------------------------------------
(* The tasks.                                                              *)

Holds(queue, h) == \E n \in 1 .. Len(queue) : queue[n] = h

\* A ready task is queued, popped, or about to be enqueued.
Queued(h) ==
  \/ Holds(shared, h) \/ Holds(mainQueue, h)
  \/ \E w \in Workers : Holds(local[w], h)
  \/ \E t \in Threads : Holds(taken[t], h) \/ h \in toEnqueue[t]

ReadyIsSomewhere == \A h \in Tasks : status[h] = "ready" => Queued(h)

\* A task that runs is on a stack, and nothing is that has not begun.
OnStack(t, h) == \E n \in 1 .. Len(frames[t]) : frames[t][n].name = h

RunningIsSomewhere ==
  \A h \in Tasks :
    /\ status[h] = "running" => \E t \in Threads : OnStack(t, h)
    /\ \A t \in Threads : OnStack(t, h) => status[h] \in {"running", "done"}

\* A waiting task has a prerequisite to wait for; the prerequisites were there
\* first, so that tasks do not wait for one another.
WaitingIsForSomething ==
  /\ \A h \in Tasks : status[h] = "waiting" => \E p \in Needs[h] : ~Done(p)
  /\ \A h \in Tasks : status[h] # "absent" => \A p \in Needs[h] : status[p] # "absent"
  /\ \A S \in SUBSET {h \in Tasks : status[h] # "absent"} :
       S # {} => \E h \in S : Needs[h] \cap S = {}

TaskInv == ReadyIsSomewhere /\ RunningIsSomewhere /\ WaitingIsForSomething

-----------------------------------------------------------------------------
(* Work in the shared queue.                                               *)

\* A worker that will not look at the shared queue again unless it is woken.
Committed(w) == Listed(w) /\ pc[w] \in {"sleep", "woken"}

WorkIsLookedAt ==
  shared # <<>> =>
    \/ \E w \in Workers : ~Committed(w)
    \/ \E t \in Threads : pc[t] \in {"wake", "wakePop"}

-----------------------------------------------------------------------------
(* Stacks.                                                                 *)

\* The innermost frame is one, and its call is a call of its script.
LEMMA TopIsAFrame ==
  ASSUME StackTypeOK, NEW t \in Threads, frames[t] # <<>>
  PROVE  /\ Len(frames[t]) \in Nat \ {0} /\ Top(t) \in Frames
         /\ ~Over(t) => Call(t) \in Calls
<1>1. Len(frames[t]) \in Nat \ {0} /\ Top(t) \in Frames
  BY EmptySeq DEF StackTypeOK, Top
<1>2. script[Top(t).name] \in Seq(Calls)
  BY <1>1, TaskSystemAssumption DEF StackTypeOK, Frames
<1>3. ASSUME ~Over(t) PROVE Call(t) \in Calls
  BY <1>1, <1>2, <1>3 DEF Over, Call, Frames
<1> QED BY <1>1, <1>3

\* The task a call names is one.
LEMMA NamedTask ==
  ASSUME StackTypeOK, NEW t \in Threads, frames[t] # <<>>, ~Over(t), Call(t).op \in {"launch", "wait"}
  PROVE  TaskOf(t) \in Tasks
<1>1. Call(t) \in Calls
  BY TopIsAFrame
<1>2. Call(t) \in [op : {"launch", "wait"}, tasks : {<<h>> : h \in Tasks}]
  <2> DEFINE call == Call(t)
  <2>1. call \in [op : {"waitAll", "runMain"}, tasks : Seq(Tasks)] => call.op \notin {"launch", "wait"}
    <3> HIDE DEF call
    <3> QED OBVIOUS
  <2> QED BY <1>1, <2>1 DEF Calls
<1>3. Call(t).tasks \in {<<h>> : h \in Tasks}
  BY <1>2
<1> QED BY <1>3 DEF TaskOf

\* So is the one of its span that a wait has come to.
LEMMA SpannedTask ==
  ASSUME StackTypeOK, NEW t \in Threads, frames[t] # <<>>, ~Over(t), ~SpanIsOver(t)
  PROVE  TaskAt(t) \in Tasks
<1>1. Call(t) \in Calls /\ Top(t) \in Frames
  BY TopIsAFrame
<1>2. Call(t).tasks \in Seq(Tasks)
  <2>1. \A h \in Tasks : <<h>> \in Seq(Tasks)
    OBVIOUS
  <2>2. Call(t).tasks \in {<<h>> : h \in Tasks} \cup Seq(Tasks)
    BY <1>1 DEF Calls
  <2> QED BY <2>1, <2>2
<1> QED BY <1>1, <1>2 DEF SpanIsOver, TaskAt, Frames

\* A task that is run goes on top of the stack.
LEMMA EnterStacks ==
  ASSUME StackTypeOK, NEW t \in Threads, NEW h \in Programs, Enter(t, h), UNCHANGED script
  PROVE  /\ StackTypeOK' /\ frames'[t] # <<>>
         /\ \A u \in Threads \ {t} : frames'[u] = frames[u]
         /\ \A g \in Tasks : OnStack(t, g)' <=> OnStack(t, g) \/ g = h
<1>1. FrameOf(h, 1) \in Frames
  BY DEF FrameOf, Frames
<1>2. /\ frames'[t] = Append(frames[t], FrameOf(h, 1))
      /\ \A u \in Threads \ {t} : frames'[u] = frames[u]
      /\ frames' \in [Threads -> Seq(Frames)]
  BY <1>1 DEF StackTypeOK, Enter
<1>3. /\ Len(frames'[t]) = Len(frames[t]) + 1 /\ frames'[t][Len(frames[t]) + 1] = FrameOf(h, 1)
      /\ \A n \in 1 .. Len(frames[t]) : frames'[t][n] = frames[t][n]
      /\ Len(frames[t]) \in Nat
  BY <1>1, <1>2, AppendProperties DEF StackTypeOK
<1>4. frames'[t] # <<>>
  BY <1>3
<1>5. ASSUME NEW g PROVE OnStack(t, g)' <=> OnStack(t, g) \/ g = h
  BY <1>3 DEF OnStack, FrameOf
<1> QED BY <1>2, <1>4, <1>5 DEF StackTypeOK

\* A call that is over, or has come further, changes the top, and not whose it is.
LEMMA SetTopStacks ==
  ASSUME StackTypeOK, NEW t \in Threads, frames[t] # <<>>, NEW frame \in Frames, SetTop(t, frame),
         frame.name = Top(t).name, UNCHANGED script
  PROVE  /\ StackTypeOK' /\ frames'[t] # <<>> /\ Top(t)' = frame
         /\ \A u \in Threads \ {t} : frames'[u] = frames[u]
         /\ \A g \in Tasks : OnStack(t, g)' <=> OnStack(t, g)
<1>1. Len(frames[t]) \in Nat \ {0}
  BY TopIsAFrame
<1>2. /\ frames'[t] = [frames[t] EXCEPT ![Len(frames[t])] = frame]
      /\ \A u \in Threads \ {t} : frames'[u] = frames[u]
      /\ frames' = [frames EXCEPT ![t] = frames'[t]]
  BY DEF StackTypeOK, SetTop
<1>3. frames[t] \in Seq(Frames)
  BY DEF StackTypeOK
<1>4. /\ frames'[t] \in Seq(Frames) /\ Len(frames'[t]) = Len(frames[t])
      /\ frames'[t][Len(frames[t])] = frame
      /\ \A n \in 1 .. Len(frames[t]) - 1 : frames'[t][n] = frames[t][n]
  BY <1>1, <1>2, <1>3
<1>5. frames'[t] # <<>>
  BY <1>1, <1>4
<1>6. StackTypeOK'
  BY <1>2, <1>4 DEF StackTypeOK
<1>7. \A g \in Tasks : OnStack(t, g)' <=> OnStack(t, g)
  BY <1>1, <1>4 DEF OnStack, Top
<1> QED BY <1>2, <1>4, <1>5, <1>6, <1>7 DEF Top

\* The next call.
LEMMA AdvanceStacks ==
  ASSUME StackTypeOK, NEW t \in Threads, frames[t] # <<>>, Advance(t), UNCHANGED script
  PROVE  /\ StackTypeOK' /\ frames'[t] # <<>>
         /\ \A u \in Threads \ {t} : frames'[u] = frames[u]
         /\ \A g \in Tasks : OnStack(t, g)' <=> OnStack(t, g)
<1>1. Top(t) \in Frames
  BY TopIsAFrame
<1>2. FrameOf(Top(t).name, Top(t).pos + 1) \in Frames
  BY <1>1 DEF FrameOf, Frames
<1>3. FrameOf(Top(t).name, Top(t).pos + 1).name = Top(t).name
  BY DEF FrameOf
<1> QED BY <1>2, <1>3, SetTopStacks DEF Advance

\* A task that is over leaves the stack, and the caller's frame is the top again.
LEMMA LeaveStacks ==
  ASSUME StackTypeOK, NEW t \in Threads, frames[t] # <<>>, Leave(t), UNCHANGED script
  PROVE  /\ StackTypeOK'
         /\ \A u \in Threads \ {t} : frames'[u] = frames[u]
         /\ \A g \in Tasks : /\ OnStack(t, g) /\ g # Top(t).name => OnStack(t, g)'
                             /\ OnStack(t, g)' => OnStack(t, g)
         /\ \/ frames'[t] # <<>> /\ Goto(t, "body")
            \/ frames'[t] = <<>> /\ Goto(t, IF t = Main THEN phase ELSE "loop")
<1> DEFINE rest == SubSeq(frames[t], 1, Len(frames[t]) - 1)
<1>1. Len(frames[t]) \in Nat \ {0} /\ frames[t] \in Seq(Frames)
  BY TopIsAFrame DEF StackTypeOK
<1>2. /\ rest \in Seq(Frames) /\ Len(rest) = Len(frames[t]) - 1
      /\ \A n \in 1 .. Len(frames[t]) - 1 : rest[n] = frames[t][n]
  BY <1>1
<1>3. frames' = [frames EXCEPT ![t] = rest] /\ Goto(t, IF rest # <<>> THEN "body"
                                                     ELSE IF t = Main THEN phase ELSE "loop")
  BY DEF Leave, Return
<1>4. frames'[t] = rest /\ \A u \in Threads \ {t} : frames'[u] = frames[u]
  BY <1>3 DEF StackTypeOK
<1>5. StackTypeOK'
  BY <1>2, <1>3 DEF StackTypeOK
<1>6. \A g \in Tasks : /\ OnStack(t, g) /\ g # Top(t).name => OnStack(t, g)'
                       /\ OnStack(t, g)' => OnStack(t, g)
  BY <1>1, <1>2, <1>4 DEF OnStack, Top
<1> QED BY <1>3, <1>4, <1>5, <1>6

\* Unless a thread's stack changes nothing does about its call.
LEMMA SameStack ==
  ASSUME NEW t \in Threads, frames'[t] = frames[t], UNCHANGED script
  PROVE  /\ Waits(t)' <=> Waits(t)
         /\ Over(t)' <=> Over(t)
         /\ Top(t)' = Top(t)
         /\ \A h \in Tasks : OnStack(t, h)' <=> OnStack(t, h)
<1>1. Top(t)' = Top(t)
  BY DEF Top
<1>2. (Over(t)' <=> Over(t)) /\ Call(t)' = Call(t)
  BY <1>1 DEF Over, Call
<1>3. Waits(t)' <=> Waits(t)
  BY <1>2 DEF Waits
<1> QED BY <1>1, <1>2, <1>3 DEF OnStack

-----------------------------------------------------------------------------
(* Places.                                                                 *)

Places == InTask \cup {"claim"} \cup InLoop \cup InDestructor

\* A step that takes a thread to a place where it may be.
LEMMA GotoKeepsPlaces ==
  ASSUME PlaceTypeOK, NEW t \in Threads, NEW step \in Places, Goto(t, step),
         t = Main => step \notin InLoop \cup {"shed", "reacquire"},
         t \in Workers => step \notin InDestructor
  PROVE  PlaceTypeOK' /\ pc'[t] = step /\ \A u \in Threads \ {t} : pc'[u] = pc[u]
BY TaskSystemAssumption DEF PlaceTypeOK, Goto, Places, Threads

\* Where a thread goes once it has handed out what was ready: to the next of
\* it, or, when its task is over, out of it, or on with its call.
LEMMA ResumeFits ==
  ASSUME PlaceTypeOK, StackTypeOK, phase \in {"drainMain", "drain", "tail"},
         NEW t \in Threads, frames[t] # <<>>, NEW left \in SUBSET Tasks, Resume(t, left),
         UNCHANGED script, toEnqueue'[t] = left, left # {} => ~Waits(t),
         Over(t) => Top(t).name \in Tasks /\ status'[Top(t).name] = "done"
  PROVE  /\ PlaceTypeOK' /\ StackTypeOK' /\ StackFits(t)' /\ CallFits(t)'
         /\ \A u \in Threads \ {t} : pc'[u] = pc[u] /\ frames'[u] = frames[u]
         /\ pc'[t] \in {"enqueue", "latch", "body"} \cup (IF t = Main THEN {phase} ELSE {"loop"})
         /\ pc'[t] = "latch" <=> Waits(t) /\ left = {}
         /\ pc'[t] = "latch" => Waits(t)'
<1> USE DEF InTask, InWait, Handing, InLoop, WithPermit, WithoutPermit, ParkSteps, InDestructor, Places
<1>1. CASE left # {}
  <2>1. Goto(t, "enqueue") /\ UNCHANGED frames
    BY <1>1 DEF Resume
  <2>2. PlaceTypeOK' /\ pc'[t] = "enqueue" /\ \A u \in Threads \ {t} : pc'[u] = pc[u]
    BY <2>1, GotoKeepsPlaces DEF Threads
  <2>3. StackTypeOK'
    BY <2>1 DEF StackTypeOK
  <2>4. /\ (Waits(t)' <=> Waits(t)) /\ (Over(t)' <=> Over(t)) /\ Top(t)' = Top(t)
    BY <2>1, SameStack
  <2>5. StackFits(t)'
    BY <2>1, <2>2 DEF StackFits
  <2>6. CallFits(t)'
    BY <1>1, <2>2, <2>4 DEF CallFits
  <2> QED BY <1>1, <2>1, <2>2, <2>3, <2>4, <2>5, <2>6
<1>2. CASE left = {} /\ Over(t)
  <2>1. Leave(t) /\ ~Waits(t)
    BY <1>2 DEF Resume, Waits
  <2>. DEFINE there == IF t = Main THEN phase ELSE "loop"
  <2>4. /\ StackTypeOK' /\ \A u \in Threads \ {t} : frames'[u] = frames[u]
        /\ ((frames'[t] # <<>> /\ Goto(t, "body")) \/ (frames'[t] = <<>> /\ Goto(t, there)))
    BY <1>2, <2>1, LeaveStacks
  <2>2. CASE frames'[t] # <<>> /\ Goto(t, "body")
    <3>1. PlaceTypeOK' /\ pc'[t] = "body" /\ \A u \in Threads \ {t} : pc'[u] = pc[u]
      BY <2>2, GotoKeepsPlaces DEF Threads
    <3>2. StackFits(t)'
      BY <2>2, <3>1 DEF StackFits
    <3>3. CallFits(t)'
      BY <1>2, <3>1 DEF CallFits
    <3> QED BY <1>2, <2>1, <2>4, <3>1, <3>2, <3>3
  <2>3. CASE frames'[t] = <<>> /\ Goto(t, IF t = Main THEN phase ELSE "loop")
    <3>1. PlaceTypeOK' /\ pc'[t] = (IF t = Main THEN phase ELSE "loop")
          /\ \A u \in Threads \ {t} : pc'[u] = pc[u]
      BY <2>3, GotoKeepsPlaces, TaskSystemAssumption DEF Threads
    <3>2. StackFits(t)'
      BY <2>3, <3>1 DEF StackFits
    <3>3. CallFits(t)'
      BY <1>2, <3>1 DEF CallFits
    <3>4. pc'[t] # "latch" /\ pc'[t] \in IF t = Main THEN {phase} ELSE {"loop"}
      BY <3>1
    <3> QED BY <1>2, <2>1, <2>4, <3>1, <3>2, <3>3, <3>4
  <2> QED BY <2>2, <2>3, <2>4
<1>3. CASE left = {} /\ ~Over(t) /\ Waits(t)
  <2>1. Goto(t, "latch") /\ UNCHANGED frames
    BY <1>3 DEF Resume
  <2>2. PlaceTypeOK' /\ pc'[t] = "latch" /\ \A u \in Threads \ {t} : pc'[u] = pc[u]
    BY <2>1, GotoKeepsPlaces DEF Threads
  <2>3. StackTypeOK'
    BY <2>1 DEF StackTypeOK
  <2>4. /\ (Waits(t)' <=> Waits(t)) /\ (Over(t)' <=> Over(t)) /\ Top(t)' = Top(t)
    BY <2>1, SameStack
  <2>5. StackFits(t)'
    BY <2>1, <2>2 DEF StackFits
  <2>6. CallFits(t)'
    BY <1>3, <2>2, <2>4 DEF CallFits
  <2> QED BY <1>3, <2>1, <2>2, <2>3, <2>4, <2>5, <2>6
<1>4. CASE left = {} /\ ~Over(t) /\ ~Waits(t)
  <2>1. Advance(t) /\ Goto(t, "body")
    BY <1>4 DEF Resume
  <2>2. PlaceTypeOK' /\ pc'[t] = "body" /\ \A u \in Threads \ {t} : pc'[u] = pc[u]
    BY <2>1, GotoKeepsPlaces DEF Threads
  <2>3. /\ StackTypeOK' /\ frames'[t] # <<>> /\ \A u \in Threads \ {t} : frames'[u] = frames[u]
    BY <2>1, AdvanceStacks
  <2>4. StackFits(t)'
    BY <2>2, <2>3 DEF StackFits
  <2>5. CallFits(t)'
    BY <1>4, <2>2 DEF CallFits
  <2> QED BY <1>4, <2>2, <2>3, <2>4, <2>5
<1> QED BY <1>1, <1>2, <1>3, <1>4

-----------------------------------------------------------------------------
(* Whose step it is.                                                       *)

\* A step of thread t leaves the others where they are: their stacks, what
\* they have popped and made ready, their permits; it may take a task from
\* another's queue, or tell another to stop, and what is done stays done.
MovesAlone(t) ==
  /\ UNCHANGED script
  /\ \A u \in Threads \ {t} :
       /\ pc'[u] = pc[u] /\ frames'[u] = frames[u]
       /\ taken'[u] = taken[u] /\ toEnqueue'[u] = toEnqueue[u]
  /\ \A w \in Workers \ {t} :
       /\ holdingSlot'[w] = holdingSlot[w] /\ (local'[w] # <<>> => local[w] # <<>>)
       /\ stopping[w] => stopping'[w]
  /\ \A h \in Tasks : status[h] = "done" => status'[h] = "done"

\* So what holds at the others' steps holds still.
LEMMA OthersKeepTheirs ==
  ASSUME ThreadInv, NEW t \in Threads, MovesAlone(t)
  PROVE  /\ \A u \in Threads \ {t} : StackFits(u)' /\ CallFits(u)' /\ TakenFits(u)'
         /\ \A w \in Workers \ {t} : PermitFits(w)'
<1>1. ASSUME NEW u \in Threads \ {t} PROVE StackFits(u)' /\ CallFits(u)' /\ TakenFits(u)'
  <2>1. /\ (Waits(u)' <=> Waits(u)) /\ (Over(u)' <=> Over(u)) /\ Top(u)' = Top(u)
    BY <1>1, SameStack DEF MovesAlone
  <2>2. StackFits(u) /\ CallFits(u) /\ TakenFits(u)
    BY <1>1 DEF ThreadInv
  <2>3. /\ pc'[u] = pc[u] /\ frames'[u] = frames[u]
        /\ taken'[u] = taken[u] /\ toEnqueue'[u] = toEnqueue[u]
    BY <1>1 DEF MovesAlone
  <2>4. StackFits(u)' /\ TakenFits(u)'
    BY <2>2, <2>3 DEF StackFits, TakenFits
  <2>5. pc[u] \in Handing /\ Over(u) => Top(u).name \in Tasks /\ status'[Top(u).name] = "done"
    BY <2>2 DEF CallFits, MovesAlone
  <2>6. CallFits(u)'
    BY <2>1, <2>2, <2>3, <2>5 DEF CallFits
  <2> QED BY <2>4, <2>6
<1>2. ASSUME NEW w \in Workers \ {t} PROVE PermitFits(w)'
  <2>1. PermitFits(w) /\ w \in Threads \ {t}
    BY <1>2 DEF ThreadInv, Threads
  <2>2. /\ pc'[w] = pc[w] /\ holdingSlot'[w] = holdingSlot[w] /\ (local'[w] # <<>> => local[w] # <<>>)
        /\ stopping[w] => stopping'[w]
    BY <1>2, <2>1 DEF MovesAlone
  <2> QED BY <2>1, <2>2 DEF PermitFits
<1> QED BY <1>1, <1>2

\* What a step of thread t has to show of itself.
Fits(t) ==
  /\ PoolTypeOK' /\ MovesAlone(t)
  /\ StackFits(t)' /\ CallFits(t)' /\ TakenFits(t)' /\ (t \in Workers => PermitFits(t)')

\* The destructor stands still while Main is in its script or runs a task,
\* and while a worker moves, the pool is not joined.
Aside(t) ==
  /\ pc[t] # "exited" /\ UNCHANGED <<phase>> /\ next'[Main] = next[Main]
  /\ t = Main => pc'[Main] \in InTask \cup {"claim", phase}

\* Such a step keeps it all.
LEMMA FittingStep ==
  ASSUME PoolTypeOK, ThreadInv, NEW t \in Threads, Fits(t), Aside(t)
  PROVE  PoolTypeOK' /\ ThreadInv'
<1>1. DestructorFits'
  <2>1. CASE t = Main
    <3>1. \A w \in Workers : pc'[w] = pc[w]
      BY <2>1, TaskSystemAssumption DEF Fits, MovesAlone, Threads
    <3>2. pc'[Main] \notin {"stop", "stopUnpark", "drainShared", "join", "end"}
      BY <2>1 DEF Aside, InTask, InWait, Handing, PoolTypeOK
    <3>3. pc'[Main] \in {"drainMain", "drain", "tail"} => pc'[Main] = phase
      BY <2>1 DEF Aside, InTask, InWait, Handing
    <3> QED BY <3>1, <3>2, <3>3 DEF ThreadInv, DestructorFits, Aside
  <2>2. CASE t \in Workers
    <3>1. pc'[Main] = pc[Main]
      BY <2>2, TaskSystemAssumption DEF Fits, MovesAlone, Threads
    <3>2. phase # "tail"
      BY <2>2 DEF Aside, ThreadInv, DestructorFits
    <3> QED BY <3>1, <3>2 DEF ThreadInv, DestructorFits, Aside
  <2> QED BY <2>1, <2>2 DEF Threads
<1>2. \A u \in Threads : StackFits(u)' /\ CallFits(u)' /\ TakenFits(u)'
  BY OthersKeepTheirs DEF Fits
<1>3. \A w \in Workers : PermitFits(w)'
  BY OthersKeepTheirs DEF Fits, Threads
<1> QED BY <1>1, <1>2, <1>3 DEF Fits, ThreadInv

-----------------------------------------------------------------------------
(* The worker loop.                                                        *)

\* A worker in its loop runs no task; it goes on in the loop, or claims one.
LEMMA LoopStepFits ==
  ASSUME PoolTypeOK, ThreadInv, NEW w \in Workers, pc[w] \in InLoop,
         NEW step \in InLoop \cup {"claim"}, Goto(w, step), UNCHANGED <<status, script, frames, toEnqueue>>
  PROVE  /\ PlaceTypeOK' /\ StackTypeOK' /\ StackFits(w)' /\ CallFits(w)' /\ pc'[w] = step
         /\ \A u \in Threads \ {w} : pc'[u] = pc[u]
<1> USE DEF InLoop, WithPermit, WithoutPermit, ParkSteps, InTask, InWait, Handing, InDestructor, Places
<1>1. w \in Threads /\ w # Main
  BY TaskSystemAssumption DEF Threads
<1>2. PlaceTypeOK' /\ pc'[w] = step /\ \A u \in Threads \ {w} : pc'[u] = pc[u]
  BY <1>1, GotoKeepsPlaces DEF PoolTypeOK
<1>3. StackTypeOK'
  BY DEF PoolTypeOK, StackTypeOK
<1>4. StackFits(w)'
  BY <1>1, <1>2 DEF ThreadInv, StackFits
<1>5. toEnqueue[w] = {}
  BY <1>1 DEF ThreadInv, CallFits
<1>6. CallFits(w)'
  BY <1>2, <1>5 DEF CallFits
<1> QED BY <1>2, <1>3, <1>4, <1>6

\* A worker that is taken off the list leaves a list of workers.
LEMMA UnlistKeepsType ==
  ASSUME parkedIds \in Seq(Workers), NEW w \in Workers, Unlist(w)
  PROVE  parkedIds' \in Seq(Workers)
<1>1. PICK n \in 1 .. Len(parkedIds) :
        parkedIds' = SubSeq([parkedIds EXCEPT ![n] = parkedIds[Len(parkedIds)]], 1, Len(parkedIds) - 1)
  BY DEF Unlist
<1>2. Len(parkedIds) \in Nat \ {0} /\ parkedIds[Len(parkedIds)] \in Workers
  BY <1>1
<1>3. /\ [parkedIds EXCEPT ![n] = parkedIds[Len(parkedIds)]] \in Seq(Workers)
      /\ Len([parkedIds EXCEPT ![n] = parkedIds[Len(parkedIds)]]) = Len(parkedIds)
  BY <1>2
<1> QED BY <1>1, <1>2, <1>3

\* The steps that look for no task and take none.
LEMMA PermitStepsFit ==
  ASSUME PoolTypeOK, ThreadInv, NEW w \in Workers,
         \/ StartWorker(w) \/ CheckStopping(w) \/ ReleaseSlot(w) \/ Park(w) \/ Recheck(w)
         \/ RecheckPermit(w) \/ UnlistSelf(w) \/ ReturnPermit(w) \/ Sleep(w) \/ Woken(w) \/ Unparked(w)
  PROVE  Fits(w) /\ Aside(w)
<1> USE DEF InLoop, WithPermit, WithoutPermit, ParkSteps
<1>1. w \in Threads /\ w # Main
  BY TaskSystemAssumption DEF Threads
<1>2. /\ UNCHANGED <<status, queues, stopping, waits, frames, locals>>
      /\ \A v \in Workers \ {w} : holdingSlot'[v] = holdingSlot[v]
  BY DEF StartWorker, CheckStopping, ReleaseSlot, Park, Recheck, RecheckPermit, UnlistSelf, ReturnPermit,
         Sleep, Woken, Unparked, PoolTypeOK, BudgetTypeOK, budget
<1>3. PICK step \in InLoop \ {"refill"} : Goto(w, step)
  BY DEF StartWorker, CheckStopping, ReleaseSlot, Park, Recheck, RecheckPermit, UnlistSelf, ReturnPermit,
         Sleep, Woken, Unparked
<1>4. pc[w] \in InLoop \ {"refill", "exited"}
  BY DEF StartWorker, CheckStopping, ReleaseSlot, Park, Recheck, RecheckPermit, UnlistSelf, ReturnPermit,
         Sleep, Woken, Unparked
<1>5. /\ PlaceTypeOK' /\ StackTypeOK' /\ StackFits(w)' /\ CallFits(w)' /\ pc'[w] = step
      /\ \A u \in Threads \ {w} : pc'[u] = pc[u]
  BY <1>2, <1>3, <1>4, LoopStepFits DEF waits, locals
<1>6. TakenFits(w)'
  BY <1>1, <1>2, <1>4, <1>5 DEF ThreadInv, TakenFits, locals, InTask
<1>7. MovesAlone(w)
  BY <1>2, <1>5 DEF MovesAlone, waits, locals, queues
<1>8. BudgetTypeOK'
  <2> USE DEF PoolTypeOK, BudgetTypeOK
  <2>1. CASE StartWorker(w) \/ RecheckPermit(w)
    <3>1. permits' \in Nat
      <4>1. CASE StartWorker(w)
        <5>1. permits' = IF permits > 0 THEN permits - 1 ELSE permits
          BY <4>1 DEF StartWorker
        <5> QED BY <5>1
      <4>2. CASE RecheckPermit(w)
        BY <4>2 DEF RecheckPermit
      <4> QED BY <2>1, <4>1, <4>2
    <3>2. holdingSlot' \in [Workers -> BOOLEAN]
      <4> DEFINE free == permits > 0
      <4>1. free \in BOOLEAN
        OBVIOUS
      <4>2. holdingSlot' \in {holdingSlot, [holdingSlot EXCEPT ![w] = free]}
        BY <2>1 DEF StartWorker, RecheckPermit
      <4> HIDE DEF free
      <4> QED BY <4>1, <4>2
    <3>3. UNCHANGED <<parkedIds, asleep, workerState>>
      BY <2>1 DEF StartWorker, RecheckPermit
    <3> QED BY <1>2, <3>1, <3>2, <3>3 DEF locals
  <2>2. CASE ReleaseSlot(w) \/ ReturnPermit(w)
    <3>1. permits' \in Nat /\ UNCHANGED <<parkedIds, asleep>>
      BY <2>2 DEF ReleaseSlot, ReturnPermit
    <3>2. holdingSlot' \in [Workers -> BOOLEAN]
      BY <2>2 DEF ReleaseSlot, ReturnPermit
    <3>3. workerState' \in [Workers -> {"Parked", "Active", "Waiting"}]
      BY <2>2 DEF ReleaseSlot, ReturnPermit
    <3> QED BY <1>2, <3>1, <3>2, <3>3 DEF locals
  <2>3. CASE CheckStopping(w) \/ Recheck(w)
    BY <2>3, <1>2 DEF CheckStopping, Recheck, locals, budget
  <2>4. CASE Park(w)
    BY <2>4, <1>2 DEF Park, locals
  <2>5. CASE Sleep(w) \/ Woken(w)
    BY <2>5, <1>2 DEF Sleep, Woken, locals
  <2>6. CASE UnlistSelf(w) \/ Unparked(w)
    <3>1. parkedIds' \in Seq(Workers)
      BY <2>6, UnlistKeepsType DEF UnlistSelf, Unparked
    <3>2. holdingSlot' \in [Workers -> BOOLEAN]
      BY <2>6 DEF UnlistSelf, Unparked
    <3>3. workerState' \in [Workers -> {"Parked", "Active", "Waiting"}]
      BY <2>6 DEF UnlistSelf, Unparked
    <3>4. UNCHANGED <<permits, asleep>>
      BY <2>6 DEF UnlistSelf, Unparked
    <3> QED BY <1>2, <3>1, <3>2, <3>3, <3>4 DEF locals
  <2> QED BY <2>1, <2>2, <2>3, <2>4, <2>5, <2>6
<1>9. PermitFits(w)'
  <2>1. PermitFits(w) /\ holdingSlot \in [Workers -> BOOLEAN] /\ pc \in [Threads -> Places]
    BY DEF ThreadInv, PoolTypeOK, BudgetTypeOK, PlaceTypeOK, Places
  <2>2. local'[w] = local[w] /\ stopping'[w] = stopping[w]
    BY <1>2 DEF queues
  <2> USE DEF InTask, InWait, Handing
  <2>3. CASE StartWorker(w)
    <3>1. pc[w] = "start" /\ pc'[w] = "loop"
      BY <1>1, <2>1, <2>3 DEF StartWorker, Goto
    <3>2. holdingSlot'[w] = (permits > 0)
      BY <2>1, <2>3 DEF StartWorker
    <3> QED BY <2>1, <2>2, <3>1, <3>2 DEF PermitFits
  <2>4. CASE CheckStopping(w)
    <3>1. pc[w] = "stop?" /\ pc'[w] = IF stopping[w] THEN (IF holdingSlot[w] THEN "exit" ELSE "exited")
                                             ELSE (IF holdingSlot[w] THEN "release" ELSE "park")
      BY <1>1, <2>1, <2>4 DEF CheckStopping, Goto
    <3>2. holdingSlot'[w] = holdingSlot[w]
      BY <2>1, <2>4 DEF CheckStopping, budget
    <3> QED BY <2>1, <2>2, <3>1, <3>2 DEF PermitFits
  <2>5. CASE ReleaseSlot(w)
    <3>1. pc[w] \in {"release", "exit"} /\ pc'[w] = IF pc[w] = "exit" THEN "exited" ELSE "park"
      BY <1>1, <2>1, <2>5 DEF ReleaseSlot, Goto
    <3>2. holdingSlot'[w] = FALSE
      BY <2>1, <2>5 DEF ReleaseSlot
    <3> QED BY <2>1, <2>2, <3>1, <3>2 DEF PermitFits
  <2>6. CASE Park(w)
    <3>1. pc[w] = "park" /\ pc'[w] = "recheck"
      BY <1>1, <2>1, <2>6 DEF Park, Goto
    <3>2. holdingSlot'[w] = holdingSlot[w]
      BY <2>1, <2>6 DEF Park
    <3> QED BY <2>1, <2>2, <3>1, <3>2 DEF PermitFits
  <2>7. CASE Recheck(w)
    <3>1. pc[w] = "recheck" /\ pc'[w] \in {"sleep", "recheckPermit"}
      BY <1>1, <2>1, <2>7 DEF Recheck, Goto
    <3>2. holdingSlot'[w] = holdingSlot[w]
      BY <2>1, <2>7 DEF Recheck, budget
    <3> QED BY <2>1, <2>2, <3>1, <3>2 DEF PermitFits
  <2>8. CASE RecheckPermit(w)
    <3>1. pc[w] = "recheckPermit" /\ pc'[w] \in {"sleep", "unlist"}
      BY <1>1, <2>1, <2>8 DEF RecheckPermit, Goto
    <3>2. holdingSlot'[w] = holdingSlot[w]
      BY <2>1, <2>8 DEF RecheckPermit
    <3> QED BY <2>1, <2>2, <3>1, <3>2 DEF PermitFits
  <2>9. CASE Sleep(w)
    <3>1. pc[w] = "sleep" /\ pc'[w] = "woken"
      BY <1>1, <2>1, <2>9 DEF Sleep, Goto
    <3>2. holdingSlot'[w] = holdingSlot[w]
      BY <2>1, <2>9 DEF Sleep
    <3> QED BY <2>1, <2>2, <3>1, <3>2 DEF PermitFits
  <2>10. CASE Woken(w)
    <3>1. pc[w] = "woken" /\ pc'[w] = IF workerState[w] = "Active" THEN "loop" ELSE "unparked"
      BY <1>1, <2>1, <2>10 DEF Woken, Goto
    <3>2. holdingSlot'[w] = (workerState[w] = "Active" \/ holdingSlot[w])
      BY <2>1, <2>10 DEF Woken
    <3> QED BY <2>1, <2>2, <3>1, <3>2 DEF PermitFits
  <2>11. CASE UnlistSelf(w)
    <3>1. pc[w] = "unlist" /\ pc'[w] = IF Listed(w) THEN "loop" ELSE "returnPermit"
      BY <1>1, <2>1, <2>11 DEF UnlistSelf, Goto
    <3>2. holdingSlot'[w] = (Listed(w) \/ holdingSlot[w])
      BY <2>1, <2>11 DEF UnlistSelf
    <3> QED BY <2>1, <2>2, <3>1, <3>2 DEF PermitFits
  <2>12. CASE ReturnPermit(w)
    <3>1. pc[w] = "returnPermit" /\ pc'[w] = "loop"
      BY <1>1, <2>1, <2>12 DEF ReturnPermit, Goto
    <3>2. holdingSlot'[w] = TRUE
      BY <2>1, <2>12 DEF ReturnPermit
    <3> QED BY <2>1, <2>2, <3>1, <3>2 DEF PermitFits
  <2>13. CASE Unparked(w)
    <3>1. pc[w] = "unparked" /\ pc'[w] = "loop"
      BY <1>1, <2>1, <2>13 DEF Unparked, Goto
    <3>2. holdingSlot'[w] = ~Listed(w)
      BY <2>1, <2>13 DEF Unparked
    <3> QED BY <2>1, <2>2, <3>1, <3>2 DEF PermitFits
  <2> QED BY <2>3, <2>4, <2>5, <2>6, <2>7, <2>8, <2>9, <2>10, <2>11, <2>12, <2>13
<1>10. PoolTypeOK'
  BY <1>2, <1>5, <1>8 DEF PoolTypeOK, QueuesTypeOK, queues, locals
<1>11. Aside(w)
  BY <1>1, <1>2, <1>4 DEF Aside, locals
<1> QED BY <1>5, <1>6, <1>7, <1>9, <1>10, <1>11 DEF Fits

\* The steps that take tasks, from the worker's own queue and from elsewhere.
LEMMA QueueStepsFit ==
  ASSUME PoolTypeOK, ThreadInv, NEW w \in Workers,
         PopLocal(w) \/ TakeBatch(w) \/ Refill(w) \/ Steal(w)
  PROVE  Fits(w) /\ Aside(w)
<1> USE DEF InLoop, WithPermit, WithoutPermit, ParkSteps
<1>1. w \in Threads /\ w # Main
  BY TaskSystemAssumption DEF Threads
<1>2. UNCHANGED <<status, mainQueue, budget, stopping, waits, frames, toEnqueue, waking, phase>>
  BY DEF PopLocal, TakeBatch, Refill, Steal
<1>3. /\ local \in [Workers -> Seq(Tasks)] /\ taken \in [Threads -> Seq(Tasks)] /\ shared \in Seq(Tasks)
      /\ next \in [Threads -> Nat] /\ pc \in [Threads -> Places]
  BY DEF PoolTypeOK, QueuesTypeOK, PlaceTypeOK, Places
<1>4. PermitFits(w) /\ TakenFits(w)
  BY <1>1 DEF ThreadInv
<1>5. CASE PopLocal(w)
  <2>1. pc[w] \in {"loop", "refilled"} /\ taken[w] = <<>>
    BY <1>4, <1>5 DEF PopLocal, TakenFits
  <2>2. next' \in [Threads -> Nat] /\ next'[Main] = next[Main] /\ UNCHANGED shared
    BY <1>1, <1>3, <1>5 DEF PopLocal
  <2>3. CASE local[w] # <<>>
    <3>1. /\ Goto(w, "claim")
          /\ taken' = [taken EXCEPT ![w] = <<Head(local[w])>>]
          /\ local' = [local EXCEPT ![w] = Tail(@)]
      BY <1>5, <2>3 DEF PopLocal
    <3>2. Head(local[w]) \in Tasks /\ Tail(local[w]) \in Seq(Tasks)
      BY <1>3, <2>3
    <3>3. /\ local' \in [Workers -> Seq(Tasks)] /\ taken' \in [Threads -> Seq(Tasks)]
          /\ taken'[w] = <<Head(local[w])>>
          /\ \A u \in Threads \ {w} : taken'[u] = taken[u]
          /\ \A v \in Workers \ {w} : local'[v] = local[v]
      BY <1>1, <1>3, <3>1, <3>2
    <3>4. /\ PlaceTypeOK' /\ StackTypeOK' /\ StackFits(w)' /\ CallFits(w)' /\ pc'[w] = "claim"
          /\ \A u \in Threads \ {w} : pc'[u] = pc[u]
      BY <1>2, <2>1, <3>1, LoopStepFits DEF waits
    <3>5. TakenFits(w)'
      BY <3>3, <3>4 DEF TakenFits
    <3>6. PermitFits(w)'
      BY <1>2, <1>4, <2>3, <3>4 DEF PermitFits, budget
    <3>7. PoolTypeOK'
      BY <1>2, <2>2, <3>3, <3>4 DEF PoolTypeOK, QueuesTypeOK, BudgetTypeOK, budget
    <3>8. MovesAlone(w)
      BY <1>2, <3>3, <3>4 DEF MovesAlone, budget, waits
    <3> QED BY <1>1, <1>2, <2>1, <2>2, <3>4, <3>5, <3>6, <3>7, <3>8 DEF Fits, Aside
  <2>4. CASE local[w] = <<>>
    <3>1. /\ Goto(w, IF pc[w] = "refilled" THEN "steal" ELSE IF holdingSlot[w] THEN "batch" ELSE "stop?")
          /\ UNCHANGED <<taken, local>>
      BY <1>5, <2>4 DEF PopLocal
    <3>2. PICK step \in {"steal", "batch", "stop?"} :
            /\ Goto(w, step)
            /\ step = IF pc[w] = "refilled" THEN "steal" ELSE IF holdingSlot[w] THEN "batch" ELSE "stop?"
      BY <3>1
    <3>3. /\ PlaceTypeOK' /\ StackTypeOK' /\ StackFits(w)' /\ CallFits(w)' /\ pc'[w] = step
          /\ \A u \in Threads \ {w} : pc'[u] = pc[u]
      BY <1>2, <2>1, <3>2, LoopStepFits DEF waits
    <3>4. TakenFits(w)'
      BY <2>1, <3>1, <3>3 DEF TakenFits
    <3>5. PermitFits(w)'
      BY <1>2, <1>4, <2>1, <2>4, <3>1, <3>2, <3>3 DEF PermitFits, budget, InTask, InWait, Handing
    <3>6. PoolTypeOK'
      BY <1>2, <2>2, <3>1, <3>3 DEF PoolTypeOK, QueuesTypeOK, BudgetTypeOK, budget
    <3>7. MovesAlone(w)
      BY <1>2, <3>1, <3>3 DEF MovesAlone, budget, waits
    <3> QED BY <1>1, <1>2, <2>1, <2>2, <3>3, <3>4, <3>5, <3>6, <3>7 DEF Fits, Aside
  <2> QED BY <2>3, <2>4
<1>6. CASE TakeBatch(w)
  <2> DEFINE n == IF Len(shared) < Share THEN Len(shared) ELSE Share
  <2>1. /\ pc[w] = "batch" /\ Goto(w, IF n = 0 THEN "steal" ELSE "refill")
        /\ taken' = [taken EXCEPT ![w] = SubSeq(shared, 1, n)]
        /\ shared' = SubSeq(shared, n + 1, Len(shared))
        /\ UNCHANGED <<local, next>>
    BY <1>6 DEF TakeBatch
  <2>2. n \in 0 .. Len(shared)
    BY <1>3, TaskSystemAssumption
  <2>3. /\ SubSeq(shared, 1, n) \in Seq(Tasks) /\ SubSeq(shared, n + 1, Len(shared)) \in Seq(Tasks)
        /\ n = 0 => SubSeq(shared, 1, n) = <<>>
    BY <1>3, <2>2
  <2>4. PICK step \in {"steal", "refill"} : Goto(w, step) /\ (step = "steal" <=> n = 0)
    BY <2>1
  <2> HIDE DEF n
  <2>5. /\ PlaceTypeOK' /\ StackTypeOK' /\ StackFits(w)' /\ CallFits(w)' /\ pc'[w] = step
        /\ \A u \in Threads \ {w} : pc'[u] = pc[u]
    BY <1>2, <2>1, <2>4, LoopStepFits DEF waits
  <2>6. /\ taken' \in [Threads -> Seq(Tasks)] /\ taken'[w] = SubSeq(shared, 1, n)
        /\ \A u \in Threads \ {w} : taken'[u] = taken[u]
    BY <1>1, <1>3, <2>1, <2>3
  <2>7. TakenFits(w)'
    BY <2>3, <2>4, <2>5, <2>6 DEF TakenFits
  <2>8. PermitFits(w)'
    BY <1>2, <1>4, <2>1, <2>4, <2>5 DEF PermitFits, budget, InTask, InWait, Handing
  <2>9. PoolTypeOK'
    BY <1>2, <2>1, <2>3, <2>5, <2>6 DEF PoolTypeOK, QueuesTypeOK, BudgetTypeOK, budget
  <2>10. MovesAlone(w)
    BY <1>2, <2>1, <2>5, <2>6 DEF MovesAlone, budget, waits
  <2> QED BY <1>1, <1>2, <2>1, <2>5, <2>7, <2>8, <2>9, <2>10 DEF Fits, Aside
<1>7. CASE Refill(w)
  <2>1. /\ pc[w] = "refill" /\ Goto(w, "refilled")
        /\ local' = [local EXCEPT ![w] = @ \o taken[w]] /\ taken' = [taken EXCEPT ![w] = <<>>]
        /\ UNCHANGED <<shared, next>>
    BY <1>7 DEF Refill
  <2>2. /\ PlaceTypeOK' /\ StackTypeOK' /\ StackFits(w)' /\ CallFits(w)' /\ pc'[w] = "refilled"
        /\ \A u \in Threads \ {w} : pc'[u] = pc[u]
    BY <1>2, <2>1, LoopStepFits DEF waits
  <2>3. local[w] \o taken[w] \in Seq(Tasks)
    BY <1>1, <1>3
  <2>4. /\ local' \in [Workers -> Seq(Tasks)] /\ taken' \in [Threads -> Seq(Tasks)] /\ taken'[w] = <<>>
        /\ \A u \in Threads \ {w} : taken'[u] = taken[u]
        /\ \A v \in Workers \ {w} : local'[v] = local[v]
    BY <1>1, <1>3, <2>1, <2>3
  <2>5. TakenFits(w)'
    BY <2>2, <2>4 DEF TakenFits
  <2>6. PermitFits(w)'
    BY <1>2, <1>4, <2>1, <2>2 DEF PermitFits, budget, InTask, InWait, Handing
  <2>7. PoolTypeOK'
    BY <1>2, <2>1, <2>2, <2>4 DEF PoolTypeOK, QueuesTypeOK, BudgetTypeOK, budget
  <2>8. MovesAlone(w)
    BY <1>2, <2>2, <2>4 DEF MovesAlone, budget, waits
  <2> QED BY <1>1, <1>2, <2>1, <2>2, <2>5, <2>6, <2>7, <2>8 DEF Fits, Aside
<1>8. CASE Steal(w)
  <2> DEFINE victim == (w + next[w]) % WorkerCount
  <2>1. pc[w] = "steal" /\ taken[w] = <<>> /\ UNCHANGED shared
    BY <1>4, <1>8 DEF Steal, TakenFits
  <2>2. victim \in Workers
    BY <1>1, <1>3, TaskSystemAssumption DEF Workers
  <2> HIDE DEF victim
  <2>3. CASE next[w] >= WorkerCount \/ (next[w] < WorkerCount /\ local[victim] = <<>>)
    <3>1. PICK step \in {"stop?", "steal"} :
            /\ Goto(w, step) /\ UNCHANGED <<local, taken>>
            /\ next' \in [Threads -> Nat] /\ next'[Main] = next[Main]
      <4>1. CASE next[w] >= WorkerCount
        BY <1>3, <1>8, <4>1 DEF Steal
      <4>2. CASE next[w] < WorkerCount /\ local[victim] = <<>>
        <5>1. ~(next[w] >= WorkerCount)
          BY <1>1, <1>3, <4>2, TaskSystemAssumption
        <5>2. next' = [next EXCEPT ![w] = @ + 1] /\ UNCHANGED <<local, taken, pc>>
          BY <1>8, <4>2, <5>1 DEF Steal, victim
        <5>3. Goto(w, "steal")
          BY <1>1, <1>3, <2>1, <5>2 DEF Goto
        <5> QED BY <1>1, <1>3, <5>2, <5>3
      <4> QED BY <2>3, <4>1, <4>2
    <3>2. /\ PlaceTypeOK' /\ StackTypeOK' /\ StackFits(w)' /\ CallFits(w)' /\ pc'[w] = step
          /\ \A u \in Threads \ {w} : pc'[u] = pc[u]
      BY <1>2, <2>1, <3>1, LoopStepFits DEF waits
    <3>3. TakenFits(w)'
      BY <2>1, <3>1, <3>2 DEF TakenFits
    <3>4. PermitFits(w)'
      BY <1>2, <1>4, <2>1, <3>1, <3>2 DEF PermitFits, budget, InTask, InWait, Handing
    <3>5. PoolTypeOK'
      BY <1>2, <2>1, <3>1, <3>2 DEF PoolTypeOK, QueuesTypeOK, BudgetTypeOK, budget
    <3>6. MovesAlone(w)
      BY <1>2, <3>1, <3>2 DEF MovesAlone, budget, waits
    <3> QED BY <1>1, <1>2, <2>1, <3>1, <3>2, <3>3, <3>4, <3>5, <3>6 DEF Fits, Aside
  <2>4. CASE next[w] < WorkerCount /\ local[victim] # <<>>
    <3>1. /\ Goto(w, "claim") /\ UNCHANGED next
          /\ taken' = [taken EXCEPT ![w] = <<Head(local[victim])>>]
          /\ local' = [local EXCEPT ![victim] = Tail(@)]
      <4>1. ~(next[w] >= WorkerCount)
        BY <1>1, <1>3, <2>4, TaskSystemAssumption
      <4> QED BY <1>8, <2>4, <4>1 DEF Steal, victim
    <3>2. Head(local[victim]) \in Tasks /\ Tail(local[victim]) \in Seq(Tasks)
      BY <1>3, <2>2, <2>4
    <3>3. /\ local' \in [Workers -> Seq(Tasks)] /\ taken' \in [Threads -> Seq(Tasks)]
          /\ taken'[w] = <<Head(local[victim])>>
          /\ \A u \in Threads \ {w} : taken'[u] = taken[u]
          /\ \A v \in Workers : local'[v] # <<>> => local[v] # <<>>
      BY <1>1, <1>3, <2>2, <2>4, <3>1, <3>2
    <3>4. /\ PlaceTypeOK' /\ StackTypeOK' /\ StackFits(w)' /\ CallFits(w)' /\ pc'[w] = "claim"
          /\ \A u \in Threads \ {w} : pc'[u] = pc[u]
      BY <1>2, <2>1, <3>1, LoopStepFits DEF waits
    <3>5. TakenFits(w)'
      BY <3>3, <3>4 DEF TakenFits
    <3>6. PermitFits(w)'
      BY <1>2, <1>4, <2>1, <3>4 DEF PermitFits, budget
    <3>7. PoolTypeOK'
      BY <1>2, <2>1, <3>1, <3>3, <3>4 DEF PoolTypeOK, QueuesTypeOK, BudgetTypeOK, budget
    <3>8. MovesAlone(w)
      BY <1>2, <3>3, <3>4 DEF MovesAlone, budget, waits
    <3> QED BY <1>1, <1>2, <2>1, <3>1, <3>4, <3>5, <3>6, <3>7, <3>8 DEF Fits, Aside
  <2> QED BY <1>1, <1>3, <2>3, <2>4, TaskSystemAssumption
<1> QED BY <1>5, <1>6, <1>7, <1>8

-----------------------------------------------------------------------------
(* Running tasks.                                                          *)

\* A step in a task that pops nothing and keeps its thread's permit has its
\* place, its stack and its call to show.
LEMMA StepInTaskFits ==
  ASSUME PoolTypeOK, ThreadInv, NEW t \in Threads, pc[t] \in InTask,
         PlaceTypeOK', StackTypeOK', shared' \in Seq(Tasks), mainQueue' \in Seq(Tasks),
         toEnqueue' \in [Threads -> SUBSET Tasks], BudgetTypeOK',
         status' \in [Tasks -> {"absent", "waiting", "ready", "running", "done"}],
         \A h \in Tasks : status[h] = "done" => status'[h] = "done",
         UNCHANGED <<script, phase, next, local, holdingSlot, stopping, taken>>,
         \A u \in Threads \ {t} : /\ pc'[u] = pc[u] /\ frames'[u] = frames[u]
                                  /\ toEnqueue'[u] = toEnqueue[u],
         StackFits(t)', CallFits(t)',
         pc'[t] \in InTask \cup (IF t = Main THEN {phase} ELSE {"loop"})
  PROVE  Fits(t) /\ Aside(t)
<1> USE DEF InTask, InWait, Handing
<1>1. taken[t] = <<>>
  BY DEF ThreadInv, TakenFits
<1>2. pc'[t] # "claim" /\ pc[t] # "exited"
  BY DEF PoolTypeOK
<1>3. TakenFits(t)'
  BY <1>1, <1>2 DEF TakenFits
<1>4. ASSUME t \in Workers PROVE PermitFits(t)'
  <2>1. pc'[t] \in InTask \cup {"loop"} /\ PermitFits(t)
    BY <1>4, TaskSystemAssumption DEF ThreadInv
  <2>2. holdingSlot[t]
    BY <2>1 DEF PermitFits
  <2> QED BY <2>1, <2>2 DEF PermitFits, WithPermit, WithoutPermit, ParkSteps
<1>5. PoolTypeOK'
  BY DEF PoolTypeOK, QueuesTypeOK
<1>6. MovesAlone(t)
  BY DEF MovesAlone
<1>7. Aside(t)
  BY <1>2 DEF Aside
<1> QED BY <1>3, <1>4, <1>5, <1>6, <1>7 DEF Fits

\* Where the next call is made, or the first of a task that begins.
LEMMA BodyFits ==
  ASSUME NEW t \in Threads, frames'[t] # <<>>, pc'[t] = "body", toEnqueue'[t] = {}
  PROVE  StackFits(t)' /\ CallFits(t)'
BY DEF StackFits, CallFits, InTask, InWait, Handing

\* What a thread that makes a call has of it.
LEMMA CallersFit ==
  ASSUME PoolTypeOK, ThreadInv, NEW t \in Threads, pc[t] \in {"body"} \cup InWait
  PROVE  /\ StackTypeOK /\ frames[t] # <<>> /\ toEnqueue[t] = {}
         /\ toEnqueue \in [Threads -> SUBSET Tasks] /\ pc \in [Threads -> Places]
BY DEF PoolTypeOK, QueuesTypeOK, PlaceTypeOK, ThreadInv, StackFits, CallFits, InTask, InWait, Handing,
       InLoop, WithPermit, WithoutPermit, ParkSteps, InDestructor, Places

\* The next call.
LEMMA AdvanceFits ==
  ASSUME PoolTypeOK, ThreadInv, NEW t \in Threads, pc[t] \in {"body"} \cup InWait,
         Advance(t), Goto(t, "body"), BudgetTypeOK',
         status' \in [Tasks -> {"absent", "waiting", "ready", "running", "done"}],
         \A h \in Tasks : status[h] = "done" => status'[h] = "done",
         UNCHANGED <<script, phase, next, queues, toEnqueue, holdingSlot, stopping, taken>>
  PROVE  Fits(t) /\ Aside(t)
<1>1. /\ StackTypeOK /\ frames[t] # <<>> /\ toEnqueue[t] = {}
      /\ toEnqueue \in [Threads -> SUBSET Tasks] /\ pc \in [Threads -> Places]
  BY CallersFit
<1>2. /\ StackTypeOK' /\ frames'[t] # <<>> /\ \A u \in Threads \ {t} : frames'[u] = frames[u]
  BY <1>1, AdvanceStacks
<1>3. PlaceTypeOK' /\ pc'[t] = "body" /\ \A u \in Threads \ {t} : pc'[u] = pc[u]
  BY GotoKeepsPlaces DEF Places, InTask, InLoop, WithPermit, WithoutPermit, ParkSteps, InDestructor, PoolTypeOK
<1>4. StackFits(t)' /\ CallFits(t)'
  BY <1>1, <1>2, <1>3, BodyFits
<1>5. pc[t] \in InTask /\ pc'[t] \in InTask
  BY <1>3 DEF InTask, InWait
<1> QED BY <1>1, <1>2, <1>3, <1>4, <1>5, StepInTaskFits DEF queues, PoolTypeOK, QueuesTypeOK

\* The thread stays in its call.
LEMMA SameCallFits ==
  ASSUME PoolTypeOK, ThreadInv, NEW t \in Threads, pc[t] \in InTask,
         NEW step \in InTask, Goto(t, step), UNCHANGED <<frames, script>>,
         status' \in [Tasks -> {"absent", "waiting", "ready", "running", "done"}],
         \A h \in Tasks : status[h] = "done" => status'[h] = "done",
         t = Main => step \notin {"shed", "reacquire"},
         toEnqueue' \in [Threads -> SUBSET Tasks],
         \A u \in Threads \ {t} : toEnqueue'[u] = toEnqueue[u],
         step \in InWait => Waits(t), step = "enqueue" => toEnqueue'[t] # {},
         toEnqueue'[t] # {} => step \in Handing /\ ~Waits(t),
         step \in Handing /\ Over(t) => Top(t).name \in Tasks /\ status[Top(t).name] = "done",
         shared' \in Seq(Tasks), mainQueue' \in Seq(Tasks), BudgetTypeOK',
         UNCHANGED <<phase, next, local, holdingSlot, stopping, taken>>
  PROVE  Fits(t) /\ Aside(t) /\ pc'[t] = step
<1> USE DEF InTask, InWait, Handing
<1>1. PlaceTypeOK' /\ pc'[t] = step /\ \A u \in Threads \ {t} : pc'[u] = pc[u]
  BY GotoKeepsPlaces DEF Places, InLoop, WithPermit, WithoutPermit, ParkSteps, InDestructor, PoolTypeOK
<1>2. StackTypeOK' /\ frames'[t] = frames[t]
  BY DEF PoolTypeOK, StackTypeOK
<1>3. StackFits(t)'
  BY <1>1, <1>2 DEF ThreadInv, StackFits
<1>4. /\ (Waits(t)' <=> Waits(t)) /\ (Over(t)' <=> Over(t)) /\ Top(t)' = Top(t)
  BY <1>2, SameStack
<1>5. CallFits(t)'
  BY <1>1, <1>4 DEF CallFits
<1> QED BY <1>1, <1>2, <1>3, <1>5, StepInTaskFits DEF PoolTypeOK

\* A task is run here.
LEMMA HelpFits ==
  ASSUME PoolTypeOK, ThreadInv, NEW t \in Threads, pc[t] = "body", NEW h \in Tasks, MayHelp(h), Help(t, h),
         UNCHANGED <<pc, script, phase, next, queues, toEnqueue, budget, stopping, taken, waking>>
  PROVE  Fits(t) /\ Aside(t)
<1>1. /\ StackTypeOK /\ frames[t] # <<>> /\ toEnqueue[t] = {}
      /\ toEnqueue \in [Threads -> SUBSET Tasks] /\ pc \in [Threads -> Places]
  BY CallersFit
<1>2. /\ StackTypeOK' /\ frames'[t] # <<>> /\ \A u \in Threads \ {t} : frames'[u] = frames[u]
  BY <1>1, EnterStacks DEF Help, Programs
<1>3. /\ status' \in [Tasks -> {"absent", "waiting", "ready", "running", "done"}]
      /\ \A g \in Tasks : status[g] = "done" => status'[g] = "done"
  BY DEF Help, MayHelp, PoolTypeOK
<1>4. StackFits(t)' /\ CallFits(t)'
  BY <1>1, <1>2, BodyFits
<1>5. PlaceTypeOK' /\ BudgetTypeOK'
  BY DEF PoolTypeOK, PlaceTypeOK, BudgetTypeOK, budget
<1>6. pc[t] \in InTask /\ pc'[t] \in InTask
  BY DEF InTask
<1> QED BY <1>1, <1>2, <1>3, <1>4, <1>5, <1>6, StepInTaskFits DEF queues, budget, PoolTypeOK, QueuesTypeOK

\* launch, wait and runMainThreadReadyTasks.
LEMMA LaunchFits ==
  ASSUME PoolTypeOK, ThreadInv, NEW t \in Threads, Launch(t)
  PROVE  Fits(t) /\ Aside(t)
<1> DEFINE h == TaskOf(t)
<1>1. /\ pc[t] = "body" /\ ~Over(t) /\ Call(t).op = "launch" /\ ~Waits(t)
      /\ status[h] = "absent"
      /\ UNCHANGED <<queues, budget, stopping, waits, taken, waking, phase, next>>
  BY DEF Launch, Calling, Waits
<1>2. /\ StackTypeOK /\ frames[t] # <<>> /\ toEnqueue[t] = {}
      /\ toEnqueue \in [Threads -> SUBSET Tasks] /\ pc \in [Threads -> Places]
  BY <1>1, CallersFit
<1>3. h \in Tasks
  BY <1>1, <1>2, NamedTask
<1> HIDE DEF h
<1>4. PICK new \in {"ready", "waiting"} : status' = [status EXCEPT ![h] = new]
  BY DEF Launch, h
<1>5. /\ status' \in [Tasks -> {"absent", "waiting", "ready", "running", "done"}]
      /\ \A g \in Tasks : status[g] = "done" => status'[g] = "done"
  BY <1>1, <1>3, <1>4 DEF PoolTypeOK
<1>6. BudgetTypeOK' /\ shared' \in Seq(Tasks) /\ mainQueue' \in Seq(Tasks)
  BY <1>1 DEF PoolTypeOK, BudgetTypeOK, QueuesTypeOK, budget, queues
<1>7. CASE toEnqueue' = [toEnqueue EXCEPT ![t] = {h}] /\ Goto(t, "enqueue") /\ UNCHANGED frames
  <2>1. /\ toEnqueue' \in [Threads -> SUBSET Tasks] /\ toEnqueue'[t] # {}
        /\ \A u \in Threads \ {t} : toEnqueue'[u] = toEnqueue[u]
    BY <1>2, <1>3, <1>7
  <2> QED BY <1>1, <1>2, <1>5, <1>6, <1>7, <2>1, SameCallFits DEF InTask, InWait, Handing, queues, budget, waits
<1>8. CASE Advance(t) /\ UNCHANGED <<toEnqueue, pc>>
  <2>1. Goto(t, "body")
    BY <1>1, <1>2, <1>8 DEF Goto
  <2> QED BY <1>1, <1>5, <1>6, <1>8, <2>1, AdvanceFits DEF budget, waits
<1> QED BY <1>7, <1>8 DEF Launch, h

(* wait looks at its task: it goes on, hands its next steps to helping, or goes to attach. *)
LEMMA WaitFits ==
  ASSUME PoolTypeOK, ThreadInv, NEW t \in Threads, WaitLooks(t)
  PROVE  Fits(t) /\ Aside(t)
<1> DEFINE h == TaskOf(t)
<1>1. /\ pc[t] = "body" /\ ~Over(t) /\ Call(t).op = "wait" /\ Waits(t)
      /\ UNCHANGED <<queues, budget, stopping, waits, locals>>
  BY DEF WaitLooks, Calling, Waits
<1>2. /\ StackTypeOK /\ frames[t] # <<>> /\ toEnqueue[t] = {}
      /\ toEnqueue \in [Threads -> SUBSET Tasks] /\ pc \in [Threads -> Places]
  BY <1>1, CallersFit
<1>3. h \in Tasks
  BY <1>1, <1>2, NamedTask
<1> HIDE DEF h
<1>4. BudgetTypeOK' /\ shared' \in Seq(Tasks) /\ mainQueue' \in Seq(Tasks)
  BY <1>1 DEF PoolTypeOK, BudgetTypeOK, QueuesTypeOK, budget, queues, locals
<1>5. CASE Advance(t) /\ UNCHANGED <<status, pc>>
  <2>1. Goto(t, "body")
    BY <1>1, <1>2, <1>5 DEF Goto
  <2> QED BY <1>1, <1>4, <1>5, <2>1, AdvanceFits DEF budget, waits, locals, PoolTypeOK
<1>6. CASE MayHelp(h) /\ Help(t, h) /\ UNCHANGED pc
  BY <1>1, <1>3, <1>6, HelpFits DEF budget, waits, locals
<1>7. CASE Goto(t, "attach") /\ UNCHANGED <<status, frames>>
  BY <1>1, <1>2, <1>4, <1>7, SameCallFits DEF InTask, InWait, Handing, queues, budget, waits, locals, PoolTypeOK
<1> QED BY <1>5, <1>6, <1>7 DEF WaitLooks, h

\* The worker that waits says so.
LEMMA WaitOnLatchFits ==
  ASSUME PoolTypeOK, ThreadInv, NEW t \in Threads, pc[t] \in InWait, Waits(t), WaitOnLatch(t),
         UNCHANGED <<frames, script, status, queues, permits, parkedIds, asleep, holdingSlot, stopping, locals>>
  PROVE  Fits(t) /\ Aside(t)
<1>1. /\ StackTypeOK /\ frames[t] # <<>> /\ toEnqueue[t] = {}
      /\ toEnqueue \in [Threads -> SUBSET Tasks] /\ pc \in [Threads -> Places]
  BY CallersFit
<1>2. PICK step \in {"latch", "shed"} : Goto(t, step) /\ (t = Main => step # "shed")
  BY DEF WaitOnLatch
<1>3. BudgetTypeOK' /\ shared' \in Seq(Tasks) /\ mainQueue' \in Seq(Tasks)
  <2>1. workerState' \in [Workers -> {"Parked", "Active", "Waiting"}]
    BY DEF WaitOnLatch, Threads, PoolTypeOK, BudgetTypeOK
  <2> QED BY <2>1 DEF PoolTypeOK, BudgetTypeOK, QueuesTypeOK, queues, locals
<1>4. pc[t] \in InTask /\ step \in InTask /\ step \in InWait /\ step \notin Handing /\ step # "enqueue"
  BY <1>2 DEF InTask, InWait, Handing
<1> QED BY <1>1, <1>2, <1>3, <1>4, SameCallFits DEF queues, locals, PoolTypeOK

(* wait has attached its latch or found the task complete: it goes to the latch or
   past the call. *)
LEMMA AttachFits ==
  ASSUME PoolTypeOK, ThreadInv, NEW t \in Threads, Attach(t)
  PROVE  Fits(t) /\ Aside(t)
<1>1. /\ pc[t] = "attach" /\ Waits(t)
      /\ UNCHANGED <<status, queues, permits, parkedIds, asleep, holdingSlot, stopping, script, locals>>
  BY DEF Attach, ThreadInv, CallFits, InWait
<1>2. CASE Advance(t) /\ Goto(t, "body") /\ UNCHANGED workerState
  <2>1. BudgetTypeOK'
    BY <1>1, <1>2 DEF PoolTypeOK, BudgetTypeOK, locals
  <2> QED BY <1>1, <1>2, <2>1, AdvanceFits DEF locals, PoolTypeOK, InWait
<1>3. CASE WaitOnLatch(t) /\ UNCHANGED frames
  BY <1>1, <1>3, WaitOnLatchFits DEF InWait
<1> QED BY <1>2, <1>3 DEF Attach

\* A wait on a span comes to its next task.
LEMMA SpanStepFits ==
  ASSUME PoolTypeOK, ThreadInv, NEW t \in Threads, pc[t] \in {"body", "attachAll"}, Waits(t),
         NEW frame \in Frames, frame.name = Top(t).name, frame.pos = Top(t).pos, SetTop(t, frame),
         NEW step \in {"body", "attachAll"}, Goto(t, step),
         UNCHANGED <<status, queues, budget, stopping, script, locals>>
  PROVE  Fits(t) /\ Aside(t)
<1>1. /\ StackTypeOK /\ frames[t] # <<>> /\ toEnqueue[t] = {}
      /\ toEnqueue \in [Threads -> SUBSET Tasks] /\ pc \in [Threads -> Places]
  BY CallersFit DEF InWait
<1>2. /\ StackTypeOK' /\ frames'[t] # <<>> /\ Top(t)' = frame
      /\ \A u \in Threads \ {t} : frames'[u] = frames[u]
  BY <1>1, SetTopStacks
<1>3. Waits(t)'
  BY <1>2 DEF Waits, Over, Call
<1>4. PlaceTypeOK' /\ pc'[t] = step /\ \A u \in Threads \ {t} : pc'[u] = pc[u]
  BY GotoKeepsPlaces DEF Places, InTask, InWait, InLoop, WithPermit, WithoutPermit, ParkSteps, InDestructor,
                         PoolTypeOK
<1>5. StackFits(t)' /\ CallFits(t)'
  BY <1>1, <1>2, <1>3, <1>4 DEF StackFits, CallFits, InTask, InWait, Handing, locals
<1>6. pc[t] \in InTask /\ pc'[t] \in InTask
  BY <1>4 DEF InTask, InWait
<1>7. BudgetTypeOK' /\ shared' \in Seq(Tasks) /\ mainQueue' \in Seq(Tasks)
  BY DEF PoolTypeOK, BudgetTypeOK, QueuesTypeOK, budget, queues, locals
<1> QED BY <1>1, <1>2, <1>4, <1>5, <1>6, <1>7, StepInTaskFits DEF queues, budget, locals, PoolTypeOK

(* wait on a span looks at its tasks in turn before it attaches to any of them. *)
LEMMA WaitAllFits ==
  ASSUME PoolTypeOK, ThreadInv, NEW t \in Threads, WaitAllLooks(t)
  PROVE  Fits(t) /\ Aside(t)
<1>1. /\ pc[t] = "body" /\ ~Over(t) /\ Call(t).op = "waitAll" /\ Waits(t)
      /\ UNCHANGED <<queues, budget, stopping, script, locals>>
  BY DEF WaitAllLooks, Calling, Waits
<1>2. /\ StackTypeOK /\ frames[t] # <<>> /\ toEnqueue[t] = {}
      /\ toEnqueue \in [Threads -> SUBSET Tasks] /\ pc \in [Threads -> Places]
  BY <1>1, CallersFit
<1>3. Top(t) \in Frames /\ BudgetTypeOK'
  BY <1>1, <1>2, TopIsAFrame DEF PoolTypeOK, BudgetTypeOK, budget, locals
<1>4. ASSUME UNCHANGED pc PROVE Goto(t, "body")
  BY <1>1, <1>2, <1>4 DEF Goto
<1>5. CASE SpanIsOver(t) /\ Top(t).blocked
  <2>1. SetTop(t, [Top(t) EXCEPT !.at = 1]) /\ Goto(t, "attachAll") /\ UNCHANGED status
    BY <1>5 DEF WaitAllLooks
  <2>2. /\ [Top(t) EXCEPT !.at = 1] \in Frames /\ [Top(t) EXCEPT !.at = 1].name = Top(t).name
        /\ [Top(t) EXCEPT !.at = 1].pos = Top(t).pos
    BY <1>3 DEF Frames
  <2> QED BY <1>1, <2>1, <2>2, SpanStepFits
<1>6. CASE SpanIsOver(t) /\ ~Top(t).blocked
  <2>1. Advance(t) /\ Goto(t, "body") /\ UNCHANGED status
    BY <1>4, <1>6 DEF WaitAllLooks
  <2> QED BY <1>1, <1>3, <2>1, AdvanceFits DEF budget, locals, PoolTypeOK
<1>7. CASE ~SpanIsOver(t) /\ MayHelp(TaskAt(t))
  <2>1. Help(t, TaskAt(t)) /\ UNCHANGED pc
    BY <1>7 DEF WaitAllLooks
  <2>2. TaskAt(t) \in Tasks
    BY <1>1, <1>2, <1>7, SpannedTask
  <2> QED BY <1>1, <1>7, <2>1, <2>2, HelpFits DEF locals
<1>8. CASE ~SpanIsOver(t) /\ ~MayHelp(TaskAt(t))
  <2> DEFINE blocked == Top(t).blocked \/ ~Done(TaskAt(t))
  <2>1. SetTop(t, [Top(t) EXCEPT !.at = @ + 1, !.blocked = blocked]) /\ Goto(t, "body") /\ UNCHANGED status
    BY <1>4, <1>8 DEF WaitAllLooks
  <2>2. blocked \in BOOLEAN
    BY DEF Done
  <2> HIDE DEF blocked
  <2> DEFINE further == [Top(t) EXCEPT !.at = @ + 1]
             frame == [Top(t) EXCEPT !.at = @ + 1, !.blocked = blocked]
  <2>3. frame \in Frames /\ frame.name = Top(t).name /\ frame.pos = Top(t).pos
    <3>1. further \in Frames /\ further.name = Top(t).name /\ further.pos = Top(t).pos
      BY <1>3 DEF Frames
    <3>2. frame = [further EXCEPT !.blocked = blocked]
      BY <1>3 DEF Frames
    <3> HIDE DEF further, frame
    <3> QED BY <2>2, <3>1, <3>2 DEF Frames
  <2> QED BY <1>1, <2>1, <2>3, SpanStepFits
<1> QED BY <1>5, <1>6, <1>7, <1>8

(* wait on a span attaches its latch to task after task, then waits for the latch. *)
LEMMA AttachAllFits ==
  ASSUME PoolTypeOK, ThreadInv, NEW t \in Threads, AttachAll(t)
  PROVE  Fits(t) /\ Aside(t)
<1>1. /\ pc[t] = "attachAll" /\ Waits(t)
      /\ UNCHANGED <<status, queues, permits, parkedIds, asleep, holdingSlot, stopping, script, locals>>
  BY DEF AttachAll, ThreadInv, CallFits, InWait
<1>2. CASE SpanIsOver(t)
  BY <1>1, <1>2, WaitOnLatchFits DEF AttachAll, InWait
<1>3. CASE ~SpanIsOver(t)
  <2>1. Top(t) \in Frames
    BY <1>1, CallersFit, TopIsAFrame DEF InWait
  <2>2. SetTop(t, [Top(t) EXCEPT !.at = @ + 1]) /\ UNCHANGED <<workerState, pc>>
    BY <1>3 DEF AttachAll
  <2>3. Goto(t, "attachAll")
    BY <1>1, <2>2, CallersFit DEF Goto, InWait
  <2> DEFINE frame == [Top(t) EXCEPT !.at = @ + 1]
  <2>4. frame \in Frames /\ frame.name = Top(t).name /\ frame.pos = Top(t).pos
    BY <2>1 DEF Frames
  <2> QED BY <1>1, <2>2, <2>3, <2>4, SpanStepFits DEF budget
<1> QED BY <1>2, <1>3

\* After its latch a worker takes a permit again; Main needs none.
LEMMA LatchStepsFit ==
  ASSUME PoolTypeOK, ThreadInv, NEW t \in Threads, Shed(t) \/ Latched(t) \/ Reacquire(t)
  PROVE  Fits(t) /\ Aside(t)
<1>1. /\ pc[t] \in {"shed", "latch", "reacquire"} /\ Waits(t)
      /\ UNCHANGED <<status, queues, parkedIds, asleep, holdingSlot, stopping, waits, locals>>
  BY DEF Shed, Latched, Reacquire, budget, ThreadInv, CallFits, InWait
<1>2. /\ StackTypeOK /\ frames[t] # <<>> /\ toEnqueue[t] = {}
      /\ toEnqueue \in [Threads -> SUBSET Tasks] /\ pc \in [Threads -> Places]
  BY <1>1, CallersFit DEF InWait
<1>3. shared' \in Seq(Tasks) /\ mainQueue' \in Seq(Tasks) /\ pc[t] \in InTask \cap InWait
  BY <1>1 DEF PoolTypeOK, QueuesTypeOK, queues, InTask, InWait
<1>4. CASE Shed(t)
  <2>1. permits' \in Nat /\ UNCHANGED <<workerState, frames>> /\ Goto(t, "wake")
    BY <1>4 DEF Shed, PoolTypeOK, BudgetTypeOK
  <2>2. BudgetTypeOK'
    BY <1>1, <2>1 DEF PoolTypeOK, BudgetTypeOK, locals
  <2>3. ~Over(t)
    BY <1>1 DEF Waits
  <2> QED BY <1>1, <1>2, <1>3, <2>1, <2>2, <2>3, SameCallFits
          DEF InTask, InWait, Handing, queues, waits, locals, PoolTypeOK
<1>5. CASE Latched(t)
  <2>1. BudgetTypeOK'
    BY <1>5 DEF Latched, PoolTypeOK, BudgetTypeOK, budget, locals
  <2>2. CASE t = Main
    BY <1>1, <1>3, <1>5, <2>1, <2>2, AdvanceFits DEF Latched, waits, locals, PoolTypeOK
  <2>3. CASE t # Main
    <3>1. Goto(t, "reacquire") /\ UNCHANGED frames
      BY <1>5, <2>3 DEF Latched
    <3> QED BY <1>1, <1>2, <1>3, <2>1, <2>3, <3>1, SameCallFits
            DEF InTask, InWait, Handing, queues, waits, locals, PoolTypeOK
  <2> QED BY <2>2, <2>3
<1>6. CASE Reacquire(t)
  <2>1. permits' \in Nat /\ Advance(t) /\ Goto(t, "body")
    BY <1>6 DEF Reacquire, PoolTypeOK, BudgetTypeOK
  <2>2. workerState' \in [Workers -> {"Parked", "Active", "Waiting"}]
    BY <1>6 DEF Reacquire, PoolTypeOK, BudgetTypeOK
  <2>3. BudgetTypeOK'
    BY <1>1, <2>1, <2>2 DEF PoolTypeOK, BudgetTypeOK, locals
  <2> QED BY <1>1, <1>3, <2>1, <2>3, AdvanceFits DEF waits, locals, PoolTypeOK
<1> QED BY <1>4, <1>5, <1>6

\* A thread that pops a task is to claim it.
LEMMA PopFits ==
  ASSUME PoolTypeOK, ThreadInv, NEW t \in Threads, pc[t] \in {"body"} \cup InDestructor,
         pc[t] # "end", t = Main \/ pc[t] = "body", NEW h \in Tasks,
         taken' = [taken EXCEPT ![t] = <<h>>], Goto(t, "claim"),
         shared' \in Seq(Tasks), mainQueue' \in Seq(Tasks),
         UNCHANGED <<status, local, budget, stopping, script, frames, toEnqueue, waking, phase, next>>
  PROVE  Fits(t) /\ Aside(t)
<1> USE DEF InTask, InWait, Handing, InDestructor
<1>1. PlaceTypeOK' /\ pc'[t] = "claim" /\ \A u \in Threads \ {t} : pc'[u] = pc[u]
  BY GotoKeepsPlaces DEF Places, InLoop, WithPermit, WithoutPermit, ParkSteps, PoolTypeOK
<1>2. /\ taken' \in [Threads -> Seq(Tasks)] /\ taken'[t] = <<h>>
      /\ \A u \in Threads \ {t} : taken'[u] = taken[u]
  BY DEF PoolTypeOK, QueuesTypeOK
<1>3. toEnqueue[t] = {} /\ StackTypeOK' /\ BudgetTypeOK'
  BY DEF ThreadInv, CallFits, PoolTypeOK, StackTypeOK, BudgetTypeOK, budget
<1>4. StackFits(t)' /\ CallFits(t)' /\ TakenFits(t)'
  BY <1>1, <1>2, <1>3 DEF StackFits, CallFits, TakenFits
<1>5. ASSUME t \in Workers PROVE PermitFits(t)'
  <2>1. pc[t] = "body" /\ PermitFits(t)
    BY <1>5, TaskSystemAssumption DEF ThreadInv
  <2>2. holdingSlot[t]
    BY <2>1 DEF PermitFits
  <2> QED BY <1>1, <2>1, <2>2 DEF PermitFits, WithPermit, WithoutPermit, ParkSteps, budget
<1>6. PoolTypeOK'
  BY <1>1, <1>2, <1>3 DEF PoolTypeOK, QueuesTypeOK
<1>7. MovesAlone(t)
  BY <1>1, <1>2 DEF MovesAlone, budget
<1> QED BY <1>1, <1>4, <1>5, <1>6, <1>7 DEF Fits, Aside

(* The main thread runs a task that only it may run, or finds none. *)
LEMMA RunMainFits ==
  ASSUME PoolTypeOK, ThreadInv, NEW t \in Threads, RunMain(t)
  PROVE  Fits(t) /\ Aside(t)
<1>1. /\ pc[t] = "body"
      /\ UNCHANGED <<status, shared, local, budget, stopping, waits, toEnqueue, waking, phase, next>>
  BY DEF RunMain, Calling
<1>2. /\ shared \in Seq(Tasks) /\ mainQueue \in Seq(Tasks) /\ pc \in [Threads -> Places]
  BY <1>1, CallersFit DEF PoolTypeOK, QueuesTypeOK
<1>3. CASE mainQueue = <<>>
  <2>1. Advance(t) /\ UNCHANGED <<mainQueue, taken, pc>>
    BY <1>3 DEF RunMain
  <2>2. Goto(t, "body")
    BY <1>1, <1>2, <2>1 DEF Goto
  <2>3. BudgetTypeOK'
    BY <1>1 DEF PoolTypeOK, BudgetTypeOK, budget
  <2> QED BY <1>1, <2>1, <2>2, <2>3, AdvanceFits DEF budget, waits, queues, PoolTypeOK
<1>4. CASE mainQueue # <<>>
  <2>1. /\ taken' = [taken EXCEPT ![t] = <<Head(mainQueue)>>] /\ mainQueue' = Tail(mainQueue)
        /\ Goto(t, "claim") /\ UNCHANGED frames
    BY <1>4 DEF RunMain
  <2>2. Head(mainQueue) \in Tasks /\ mainQueue' \in Seq(Tasks)
    BY <1>2, <1>4, <2>1
  <2> QED BY <1>1, <1>2, <2>1, <2>2, PopFits DEF waits
<1> QED BY <1>3, <1>4

\* What is popped is run, or left to whoever has run it in the meantime.
LEMMA ClaimFits ==
  ASSUME PoolTypeOK, ThreadInv, NEW t \in Threads, Claim(t)
  PROVE  Fits(t) /\ Aside(t)
<1> DEFINE h == taken[t][1]
<1> USE DEF InTask, InWait, Handing
<1>1. /\ pc[t] = "claim" /\ taken' = [taken EXCEPT ![t] = <<>>]
      /\ UNCHANGED <<queues, budget, stopping, waits, toEnqueue, waking, phase, next>>
  BY DEF Claim
<1>2. /\ taken \in [Threads -> Seq(Tasks)] /\ Len(taken[t]) = 1 /\ toEnqueue[t] = {} /\ StackTypeOK
  BY <1>1 DEF PoolTypeOK, QueuesTypeOK, ThreadInv, TakenFits, CallFits
<1>3. h \in Tasks
  <2>1. taken[t] \in Seq(Tasks) /\ 1 \in 1 .. Len(taken[t])
    BY <1>2
  <2> QED BY <2>1
<1> HIDE DEF h
<1>4. /\ taken' \in [Threads -> Seq(Tasks)] /\ taken'[t] = <<>>
      /\ \A u \in Threads \ {t} : taken'[u] = taken[u]
  BY <1>1, <1>2
<1>5. BudgetTypeOK' /\ QueuesTypeOK'
  BY <1>1, <1>4 DEF PoolTypeOK, BudgetTypeOK, QueuesTypeOK, budget, queues
<1>6. /\ status' \in [Tasks -> {"absent", "waiting", "ready", "running", "done"}]
      /\ \A g \in Tasks : status[g] = "done" => status'[g] = "done"
      /\ StackTypeOK' /\ PlaceTypeOK'
      /\ pc'[t] \in {"body"} \cup (IF t = Main THEN {phase} ELSE {"loop"})
      /\ \A u \in Threads \ {t} : pc'[u] = pc[u] /\ frames'[u] = frames[u]
      /\ pc'[t] = "body" <=> frames'[t] # <<>>
  <2>1. CASE status[h] = "ready"
    <3>1. Enter(t, h) /\ status' = [status EXCEPT ![h] = "running"] /\ Goto(t, "body")
      BY <2>1 DEF Claim, h
    <3>2. /\ StackTypeOK' /\ frames'[t] # <<>> /\ \A u \in Threads \ {t} : frames'[u] = frames[u]
      BY <1>1, <1>2, <1>3, <3>1, EnterStacks DEF waits, Programs
    <3>3. PlaceTypeOK' /\ pc'[t] = "body" /\ \A u \in Threads \ {t} : pc'[u] = pc[u]
      BY <3>1, GotoKeepsPlaces DEF Places, InLoop, WithPermit, WithoutPermit, ParkSteps, InDestructor, PoolTypeOK
    <3>4. /\ status' \in [Tasks -> {"absent", "waiting", "ready", "running", "done"}]
          /\ \A g \in Tasks : status[g] = "done" => status'[g] = "done"
      BY <1>3, <2>1, <3>1 DEF PoolTypeOK
    <3> QED BY <3>2, <3>3, <3>4
  <2>2. CASE status[h] # "ready"
    <3>1. Return(t, frames[t]) /\ UNCHANGED status
      BY <2>2 DEF Claim, h
    <3>2. UNCHANGED frames
      BY <1>2, <3>1 DEF Return, StackTypeOK
    <3>3. PICK step \in {"body", "loop", phase} :
            Goto(t, step) /\ step = IF frames[t] # <<>> THEN "body" ELSE IF t = Main THEN phase ELSE "loop"
      BY <3>1 DEF Return
    <3>4. PlaceTypeOK' /\ pc'[t] = step /\ \A u \in Threads \ {t} : pc'[u] = pc[u]
      <4>1. step \in Places
        BY DEF Places, InLoop, WithPermit, WithoutPermit, ParkSteps, InDestructor, PoolTypeOK
      <4>2. t = Main => step \notin InLoop \cup {"shed", "reacquire"}
        BY <3>3 DEF InLoop, WithPermit, WithoutPermit, ParkSteps, PoolTypeOK
      <4>3. t \in Workers => step \notin InDestructor
        BY <3>3, TaskSystemAssumption DEF InDestructor, PoolTypeOK
      <4> QED BY <3>3, <4>1, <4>2, <4>3, GotoKeepsPlaces DEF PoolTypeOK
    <3>5. StackTypeOK'
      BY <1>1, <1>2, <3>2 DEF StackTypeOK, waits
    <3>6. /\ pc'[t] \in {"body"} \cup (IF t = Main THEN {phase} ELSE {"loop"})
          /\ pc'[t] = "body" <=> frames'[t] # <<>>
      BY <3>2, <3>3, <3>4 DEF PoolTypeOK
    <3> QED BY <3>1, <3>2, <3>4, <3>5, <3>6 DEF PoolTypeOK
  <2> QED BY <2>1, <2>2
<1>7. toEnqueue'[t] = {}
  BY <1>1, <1>2
<1>8. pc'[t] \notin {"claim", "enqueue"} \cup InWait \cup Handing
  BY <1>6 DEF PoolTypeOK
<1>9. StackFits(t)' /\ CallFits(t)' /\ TakenFits(t)'
  <2>1. StackFits(t)'
    BY <1>6, <1>8 DEF StackFits
  <2>2. CallFits(t)'
    BY <1>7, <1>8 DEF CallFits
  <2>3. TakenFits(t)'
    BY <1>4, <1>8 DEF TakenFits
  <2> QED BY <2>1, <2>2, <2>3
<1>10. ASSUME t \in Workers PROVE PermitFits(t)'
  <2>1. pc'[t] \in {"body", "loop"} /\ PermitFits(t)
    BY <1>6, <1>10, TaskSystemAssumption DEF ThreadInv
  <2>2. holdingSlot[t]
    BY <1>1, <2>1 DEF PermitFits
  <2> QED BY <1>1, <2>1, <2>2 DEF PermitFits, WithPermit, WithoutPermit, ParkSteps, budget, queues
<1>11. PoolTypeOK'
  BY <1>1, <1>5, <1>6 DEF PoolTypeOK
<1>12. MovesAlone(t)
  BY <1>1, <1>4, <1>6 DEF MovesAlone, budget, queues, waits
<1>13. Aside(t)
  BY <1>1, <1>6 DEF Aside
<1> QED BY <1>9, <1>10, <1>11, <1>12, <1>13 DEF Fits

\* What is left to hand out when a thread goes on after a task or a wake-up.
LEMMA ResumeStepFits ==
  ASSUME PoolTypeOK, ThreadInv, NEW t \in Threads, pc[t] \in InTask,
         NEW left \in SUBSET Tasks, Resume(t, left), toEnqueue' = [toEnqueue EXCEPT ![t] = left],
         left # {} => ~Waits(t),
         Over(t) => Top(t).name \in Tasks /\ status'[Top(t).name] = "done",
         shared' \in Seq(Tasks), mainQueue' \in Seq(Tasks), BudgetTypeOK',
         status' \in [Tasks -> {"absent", "waiting", "ready", "running", "done"}],
         \A h \in Tasks : status[h] = "done" => status'[h] = "done",
         UNCHANGED <<script, phase, next, local, holdingSlot, stopping, taken>>
  PROVE  Fits(t) /\ Aside(t)
<1>1. frames[t] # <<>> /\ PlaceTypeOK /\ StackTypeOK /\ phase \in {"drainMain", "drain", "tail"}
  BY DEF ThreadInv, StackFits, PoolTypeOK
<1>2. /\ toEnqueue' \in [Threads -> SUBSET Tasks] /\ toEnqueue'[t] = left
      /\ \A u \in Threads \ {t} : toEnqueue'[u] = toEnqueue[u]
  BY DEF PoolTypeOK, QueuesTypeOK
<1>3. /\ PlaceTypeOK' /\ StackTypeOK' /\ StackFits(t)' /\ CallFits(t)'
      /\ \A u \in Threads \ {t} : pc'[u] = pc[u] /\ frames'[u] = frames[u]
      /\ pc'[t] \in {"enqueue", "latch", "body"} \cup (IF t = Main THEN {phase} ELSE {"loop"})
  BY <1>1, <1>2, ResumeFits
<1>4. pc'[t] \in InTask \cup (IF t = Main THEN {phase} ELSE {"loop"})
  BY <1>3 DEF InTask, InWait, Handing
<1> QED BY <1>2, <1>3, <1>4, StepInTaskFits

(* A body that is over completes its task: what it unblocks is enqueued by this thread. *)
LEMMA CompleteFits ==
  ASSUME PoolTypeOK, ThreadInv, NEW t \in Threads, Complete(t)
  PROVE  Fits(t) /\ Aside(t)
<1> DEFINE h == Top(t).name
           unblocked == {d \in Tasks : status[d] = "waiting" /\ \A p \in Needs[d] \ {h} : Done(p)}
<1>1. /\ pc[t] = "body" /\ Over(t) /\ h \in Tasks /\ Resume(t, unblocked)
      /\ toEnqueue' = [toEnqueue EXCEPT ![t] = unblocked]
      /\ status' = [d \in Tasks |-> IF d = h THEN "done" ELSE IF d \in unblocked THEN "ready" ELSE status[d]]
      /\ UNCHANGED <<queues, budget, stopping, script, taken, waking, phase, next>>
  BY DEF Complete
<1>2. \A d \in unblocked : status[d] = "waiting"
  OBVIOUS
<1>3. unblocked \in SUBSET Tasks /\ ~Waits(t)
  BY <1>1 DEF Waits
<1> HIDE DEF h, unblocked
<1>4. /\ status' \in [Tasks -> {"absent", "waiting", "ready", "running", "done"}]
      /\ \A g \in Tasks : status[g] = "done" => status'[g] = "done"
      /\ status'[h] = "done"
  BY <1>1, <1>2 DEF PoolTypeOK
<1>5. BudgetTypeOK' /\ shared' \in Seq(Tasks) /\ mainQueue' \in Seq(Tasks)
  BY <1>1 DEF PoolTypeOK, BudgetTypeOK, QueuesTypeOK, budget, queues
<1>6. pc[t] \in InTask /\ (Over(t) => Top(t).name \in Tasks /\ status'[Top(t).name] = "done")
  BY <1>1, <1>4 DEF InTask, h
<1> QED BY <1>1, <1>3, <1>4, <1>5, <1>6, ResumeStepFits DEF queues, budget

\* Handing out what is ready, and waking a worker for it.
LEMMA HandingStepsFit ==
  ASSUME PoolTypeOK, ThreadInv, NEW t \in Threads,
         Enqueue(t) \/ Wake(t) \/ WakePop(t) \/ GiveBack(t) \/ Unpark(t)
  PROVE  Fits(t) /\ Aside(t)
<1>1. /\ pc[t] \in Handing /\ pc[t] \in InTask
      /\ UNCHANGED <<status, local, holdingSlot, stopping, waits, taken, phase, next>>
  BY DEF Enqueue, Wake, WakePop, GiveBack, Unpark, budget, queues, locals, Handing, InTask
<1>2. /\ toEnqueue[t] # {} => ~Waits(t)
      /\ Over(t) => Top(t).name \in Tasks /\ status[Top(t).name] = "done"
  BY <1>1 DEF ThreadInv, CallFits
<1>3. /\ toEnqueue \in [Threads -> SUBSET Tasks] /\ shared \in Seq(Tasks) /\ mainQueue \in Seq(Tasks)
      /\ pc[t] # "enqueue" => toEnqueue = [toEnqueue EXCEPT ![t] = toEnqueue[t]]
      /\ status' \in [Tasks -> {"absent", "waiting", "ready", "running", "done"}]
      /\ \A h \in Tasks : status[h] = "done" => status'[h] = "done"
  BY <1>1 DEF PoolTypeOK, QueuesTypeOK
<1>4. CASE Enqueue(t)
  <2>1. pc[t] = "enqueue" /\ BudgetTypeOK'
    BY <1>4 DEF Enqueue, PoolTypeOK, BudgetTypeOK, budget
  <2>2. PICK h \in toEnqueue[t] :
          /\ toEnqueue' = [toEnqueue EXCEPT ![t] = @ \ {h}]
          /\ \/ mainQueue' = Append(mainQueue, h) /\ Resume(t, toEnqueue[t] \ {h}) /\ UNCHANGED shared
             \/ shared' = Append(shared, h) /\ Goto(t, "wake") /\ UNCHANGED <<mainQueue, frames>>
    BY <1>4 DEF Enqueue
  <2>3. h \in Tasks /\ toEnqueue[t] \ {h} \in SUBSET Tasks /\ ~Waits(t)
    BY <1>2, <1>3, <2>2
  <2>4. shared' \in Seq(Tasks) /\ mainQueue' \in Seq(Tasks)
    <3>1. Append(shared, h) \in Seq(Tasks) /\ Append(mainQueue, h) \in Seq(Tasks)
      BY <1>3, <2>3
    <3> QED BY <1>3, <2>2, <3>1
  <2>5. CASE Resume(t, toEnqueue[t] \ {h})
    BY <1>1, <1>2, <1>3, <2>1, <2>2, <2>3, <2>4, <2>5, ResumeStepFits DEF waits
  <2>6. CASE Goto(t, "wake") /\ UNCHANGED frames
    <3>1. /\ toEnqueue' \in [Threads -> SUBSET Tasks]
          /\ \A u \in Threads \ {t} : toEnqueue'[u] = toEnqueue[u]
      BY <1>3, <2>2, <2>3
    <3> QED BY <1>1, <1>2, <1>3, <2>1, <2>3, <2>4, <2>6, <3>1, SameCallFits
            DEF InTask, InWait, Handing, waits
  <2> QED BY <2>2, <2>5, <2>6
<1>5. CASE Wake(t)
  <2>1. pc[t] = "wake" /\ UNCHANGED <<queues, parkedIds, asleep, workerState, locals>>
    BY <1>5 DEF Wake
  <2>2. \/ Resume(t, toEnqueue[t]) /\ UNCHANGED permits
        \/ permits # 0 /\ Goto(t, "wakePop") /\ permits' = permits - 1 /\ UNCHANGED frames
    BY <1>5 DEF Wake
  <2>3. permits' \in Nat
    BY <2>2 DEF PoolTypeOK, BudgetTypeOK
  <2>4. BudgetTypeOK' /\ shared' \in Seq(Tasks) /\ mainQueue' \in Seq(Tasks)
    BY <1>1, <1>3, <2>1, <2>3 DEF PoolTypeOK, BudgetTypeOK, queues, locals
  <2>5. CASE Resume(t, toEnqueue[t])
    BY <1>1, <1>2, <1>3, <2>1, <2>4, <2>5, ResumeStepFits DEF waits, locals
  <2>6. CASE Goto(t, "wakePop") /\ UNCHANGED frames
    BY <1>1, <1>2, <1>3, <2>1, <2>4, <2>6, SameCallFits DEF InTask, InWait, Handing, waits, locals
  <2> QED BY <2>2, <2>5, <2>6
<1>6. CASE WakePop(t)
  <2>1. /\ pc[t] = "wakePop" /\ UNCHANGED <<queues, permits, asleep, frames, toEnqueue>>
        /\ shared' \in Seq(Tasks) /\ mainQueue' \in Seq(Tasks)
    BY <1>3, <1>6 DEF WakePop, queues
  <2>2. PICK step \in {"giveBack", "unpark"} : Goto(t, step)
    BY <1>6 DEF WakePop
  <2>3. BudgetTypeOK'
    <3>1. CASE parkedIds = <<>>
      BY <1>1, <1>6, <3>1 DEF WakePop, PoolTypeOK, BudgetTypeOK
    <3>2. CASE parkedIds # <<>>
      <4> DEFINE w == parkedIds[Len(parkedIds)]
      <4>1. w \in Workers /\ SubSeq(parkedIds, 1, Len(parkedIds) - 1) \in Seq(Workers)
        BY <3>2 DEF PoolTypeOK, BudgetTypeOK
      <4>2. /\ parkedIds' = SubSeq(parkedIds, 1, Len(parkedIds) - 1)
            /\ workerState' = [workerState EXCEPT ![w] = "Active"]
            /\ waking' = [waking EXCEPT ![t] = w]
        BY <1>6, <3>2 DEF WakePop
      <4> HIDE DEF w
      <4> QED BY <1>1, <2>1, <4>1, <4>2 DEF PoolTypeOK, BudgetTypeOK
    <3> QED BY <3>1, <3>2
  <2> QED BY <1>1, <1>2, <1>3, <2>1, <2>2, <2>3, SameCallFits DEF InTask, InWait, Handing, waits
<1>7. CASE GiveBack(t)
  <2>1. /\ pc[t] = "giveBack" /\ permits' = permits + 1 /\ Resume(t, toEnqueue[t])
        /\ UNCHANGED <<queues, parkedIds, asleep, workerState, locals>>
    BY <1>7 DEF GiveBack
  <2>2. BudgetTypeOK' /\ shared' \in Seq(Tasks) /\ mainQueue' \in Seq(Tasks)
    BY <1>1, <1>3, <2>1 DEF PoolTypeOK, BudgetTypeOK, queues, locals
  <2> QED BY <1>1, <1>2, <1>3, <2>1, <2>2, ResumeStepFits DEF waits, locals
<1>8. CASE Unpark(t)
  <2>1. /\ pc[t] = "unpark" /\ Resume(t, toEnqueue[t]) /\ UNCHANGED <<queues, toEnqueue>>
        /\ asleep' = asleep \ {waking[t]} /\ waking' = [waking EXCEPT ![t] = None]
        /\ UNCHANGED <<permits, parkedIds, workerState>>
    BY <1>8 DEF Unpark
  <2>2. BudgetTypeOK' /\ shared' \in Seq(Tasks) /\ mainQueue' \in Seq(Tasks)
    BY <1>1, <1>3, <2>1 DEF PoolTypeOK, BudgetTypeOK, queues
  <2> QED BY <1>1, <1>2, <1>3, <2>1, <2>2, ResumeStepFits DEF waits
<1> QED BY <1>4, <1>5, <1>6, <1>7, <1>8

-----------------------------------------------------------------------------
(* The destructor.                                                         *)

(* The destructor starts when the main thread's program is over. *)
LEMMA DestroyFits ==
  ASSUME PoolTypeOK, ThreadInv, Destroy
  PROVE  Fits(Main) /\ Aside(Main)
<1>1. /\ pc[Main] = "body" /\ Leave(Main) /\ Main \in Threads
      /\ UNCHANGED <<status, queues, budget, stopping, waits, locals>>
  BY DEF Destroy, Threads
<1>2. StackTypeOK /\ frames[Main] # <<>> /\ toEnqueue[Main] = {}
  BY <1>1, CallersFit
<1>3. /\ StackTypeOK' /\ \A u \in Threads \ {Main} : frames'[u] = frames[u]
      /\ \/ frames'[Main] # <<>> /\ Goto(Main, "body")
         \/ frames'[Main] = <<>> /\ Goto(Main, phase)
  BY <1>1, <1>2, LeaveStacks DEF waits
<1>4. PICK step \in {"body", phase} : Goto(Main, step) /\ (step = "body" => frames'[Main] # <<>>)
                                      /\ (step # "body" => frames'[Main] = <<>>)
  BY <1>3 DEF PoolTypeOK
<1>5. PlaceTypeOK' /\ pc'[Main] = step /\ \A u \in Threads \ {Main} : pc'[u] = pc[u]
  BY <1>1, <1>4, GotoKeepsPlaces, TaskSystemAssumption
     DEF Places, InTask, InWait, Handing, InLoop, WithPermit, WithoutPermit, ParkSteps, InDestructor, PoolTypeOK
<1>6. StackFits(Main)' /\ CallFits(Main)'
  BY <1>1, <1>2, <1>4, <1>5 DEF StackFits, CallFits, InTask, InWait, Handing, locals, PoolTypeOK
<1>7. BudgetTypeOK'
  BY <1>1 DEF PoolTypeOK, BudgetTypeOK, budget, locals
<1>8. pc[Main] \in InTask /\ pc'[Main] \in InTask \cup {phase}
  BY <1>1, <1>5 DEF InTask
<1> QED BY <1>1, <1>3, <1>5, <1>6, <1>7, <1>8, StepInTaskFits
        DEF queues, budget, waits, locals, PoolTypeOK, QueuesTypeOK

\* The destructor's own steps: to pop a task is to claim it, the others take it further.
LEMMA DestructorSteps ==
  ASSUME PoolTypeOK, ThreadInv, MainStep
  PROVE  PoolTypeOK' /\ ThreadInv' /\ MovesAlone(Main)
<1> USE DEF InTask, InWait, Handing, InLoop, WithPermit, WithoutPermit, ParkSteps, InDestructor
<1>1. /\ Main \in Threads /\ pc \in [Threads -> Places] /\ DestructorFits
      /\ shared \in Seq(Tasks) /\ mainQueue \in Seq(Tasks)
  BY DEF Threads, PoolTypeOK, PlaceTypeOK, Places, QueuesTypeOK, ThreadInv
<1>2. CASE Destroy
  BY <1>2, <1>1, DestroyFits, FittingStep DEF Fits
<1>3. ASSUME \/ DrainMain /\ mainQueue # <<>>
             \/ DrainShared /\ shared # <<>>
      PROVE  PoolTypeOK' /\ ThreadInv' /\ MovesAlone(Main)
  <2>1. PICK h \in Tasks :
          /\ taken' = [taken EXCEPT ![Main] = <<h>>] /\ Goto(Main, "claim")
          /\ shared' \in Seq(Tasks) /\ mainQueue' \in Seq(Tasks)
          /\ pc[Main] \in InDestructor \ {"end"}
          /\ UNCHANGED <<status, local, budget, stopping, script, frames, toEnqueue, waking, phase, next>>
    <3>1. CASE DrainMain /\ mainQueue # <<>>
      <4>1. Head(mainQueue) \in Tasks /\ Tail(mainQueue) \in Seq(Tasks)
        BY <1>1, <3>1
      <4> QED BY <1>1, <3>1, <4>1 DEF DrainMain, waits
    <3>2. CASE DrainShared /\ shared # <<>>
      <4>1. Head(shared) \in Tasks /\ Tail(shared) \in Seq(Tasks)
        BY <1>1, <3>2
      <4> QED BY <1>1, <3>2, <4>1 DEF DrainShared, waits
    <3> QED BY <1>3, <3>1, <3>2
  <2>2. Fits(Main) /\ Aside(Main)
    BY <1>1, <2>1, PopFits
  <2> QED BY <1>1, <2>2, FittingStep DEF Fits
<1>4. ASSUME NEW step \in InDestructor, Goto(Main, step), pc[Main] \in InDestructor,
             UNCHANGED <<status, queues, script, frames, taken, toEnqueue, holdingSlot>>,
             BudgetTypeOK', phase' \in {"drainMain", "drain", "tail"}, next' \in [Threads -> Nat],
             \A w \in Workers : stopping[w] => stopping'[w],
             pc'[Main] = step /\ (\A w \in Workers : pc'[w] = pc[w]) => DestructorFits'
      PROVE  PoolTypeOK' /\ ThreadInv' /\ MovesAlone(Main)
  <2>1. PlaceTypeOK' /\ pc'[Main] = step /\ \A u \in Threads \ {Main} : pc'[u] = pc[u]
    BY <1>1, <1>4, GotoKeepsPlaces, TaskSystemAssumption DEF Places, PoolTypeOK
  <2>2. toEnqueue[Main] = {} /\ frames[Main] = <<>> /\ taken[Main] = <<>>
    BY <1>1, <1>4 DEF ThreadInv, StackFits, CallFits, TakenFits
  <2>3. StackFits(Main)' /\ CallFits(Main)' /\ TakenFits(Main)'
    BY <1>4, <2>1, <2>2 DEF StackFits, CallFits, TakenFits
  <2>4. PoolTypeOK'
    BY <1>4, <2>1 DEF PoolTypeOK, StackTypeOK, QueuesTypeOK, queues
  <2>5. MovesAlone(Main)
    BY <1>4, <2>1 DEF MovesAlone, queues
  <2>6. Workers \subseteq Threads \ {Main}
    BY TaskSystemAssumption DEF Threads
  <2>7. DestructorFits'
    BY <1>4, <2>1, <2>6
  <2>8. \A t \in Threads : StackFits(t)' /\ CallFits(t)' /\ TakenFits(t)'
    BY <1>1, <2>3, <2>5, OthersKeepTheirs
  <2>9. \A w \in Workers : PermitFits(w)'
    BY <1>1, <2>5, <2>6, OthersKeepTheirs
  <2> QED BY <2>4, <2>5, <2>7, <2>8, <2>9 DEF ThreadInv
<1>5. ASSUME UNCHANGED <<budget, stopping, waking>> PROVE BudgetTypeOK'
  BY <1>5 DEF PoolTypeOK, BudgetTypeOK, budget
<1>6. CASE DrainMain /\ mainQueue = <<>>
  <2>1. PICK step \in {"stop", "drainShared"} :
          /\ Goto(Main, step) /\ step = IF phase = "drainMain" THEN "stop" ELSE "drainShared"
          /\ UNCHANGED <<status, queues, budget, stopping, waits, frames, locals>>
    BY <1>6 DEF DrainMain, PoolTypeOK, queues, locals
  <2>2. pc[Main] \in {"drainMain", "drain", "tail"}
    BY <1>6 DEF DrainMain
  <2>3. pc'[Main] = step /\ (\A w \in Workers : pc'[w] = pc[w]) => DestructorFits'
    BY <1>1, <1>6, <2>1, <2>2 DEF DestructorFits, queues, locals, PoolTypeOK
  <2> QED BY <1>4, <1>5, <2>1, <2>2, <2>3 DEF budget, waits, locals, PoolTypeOK
<1>7. CASE DrainShared /\ shared = <<>>
  <2>1. PICK step \in {"join", "end"} :
          /\ Goto(Main, step) /\ step = IF phase = "drain" THEN "join" ELSE "end"
          /\ UNCHANGED <<status, queues, budget, stopping, waits, frames, locals>>
    BY <1>7 DEF DrainShared, queues, locals
  <2>2. pc[Main] = "drainShared"
    BY <1>7 DEF DrainShared
  <2>3. pc'[Main] = step /\ (\A w \in Workers : pc'[w] = pc[w]) => DestructorFits'
    BY <1>1, <1>7, <2>1, <2>2 DEF DestructorFits, queues, locals, PoolTypeOK
  <2> QED BY <1>4, <1>5, <2>1, <2>2, <2>3 DEF budget, waits, locals, PoolTypeOK
<1>8. CASE StopWorker
  <2>1. /\ pc[Main] = "stop" /\ Goto(Main, "stopUnpark")
        /\ stopping' = [stopping EXCEPT ![next[Main]] = TRUE]
        /\ UNCHANGED <<status, queues, budget, waits, frames, locals>>
    BY <1>8 DEF StopWorker
  <2>2. BudgetTypeOK' /\ \A w \in Workers : stopping[w] => stopping'[w]
    BY <2>1 DEF PoolTypeOK, BudgetTypeOK, budget, locals
  <2>3. pc'[Main] = "stopUnpark" /\ (\A w \in Workers : pc'[w] = pc[w]) => DestructorFits'
    BY <1>1, <2>1 DEF DestructorFits, queues, locals
  <2> QED BY <1>4, <2>1, <2>2, <2>3 DEF budget, waits, locals, PoolTypeOK
<1>9. CASE StopUnpark
  <2> DEFINE isLast == next[Main] = WorkerCount - 1
  <2>1. /\ pc[Main] = "stopUnpark" /\ asleep' = asleep \ {next[Main]}
        /\ next' = [next EXCEPT ![Main] = @ + 1]
        /\ phase' = (IF isLast THEN "drain" ELSE phase)
        /\ Goto(Main, IF isLast THEN "drain" ELSE "stop")
        /\ UNCHANGED <<status, queues, permits, parkedIds, workerState, holdingSlot, stopping, waits, frames,
                       taken, toEnqueue, waking>>
    BY <1>9 DEF StopUnpark
  <2>2. next' \in [Threads -> Nat] /\ next'[Main] = next[Main] + 1 /\ next[Main] \in Nat
    BY <1>1, <2>1 DEF PoolTypeOK
  <2>3. BudgetTypeOK'
    BY <2>1 DEF PoolTypeOK, BudgetTypeOK
  <2>4. phase = "drainMain" /\ next[Main] < WorkerCount
    BY <1>1, <2>1 DEF DestructorFits
  <2>5. CASE isLast
    <3>1. phase' = "drain" /\ Goto(Main, "drain")
      BY <2>1, <2>5
    <3>2. pc'[Main] = "drain" /\ (\A w \in Workers : pc'[w] = pc[w]) => DestructorFits'
      BY <3>1 DEF DestructorFits
    <3> QED BY <1>4, <2>1, <2>2, <2>3, <3>1, <3>2 DEF waits
  <2>6. CASE ~isLast
    <3>1. phase' = "drainMain" /\ Goto(Main, "stop")
      BY <2>1, <2>4, <2>6
    <3>2. next'[Main] < WorkerCount
      BY <2>2, <2>4, <2>6, TaskSystemAssumption
    <3>3. pc'[Main] = "stop" /\ (\A w \in Workers : pc'[w] = pc[w]) => DestructorFits'
      BY <3>1, <3>2 DEF DestructorFits
    <3> QED BY <1>4, <2>1, <2>2, <2>3, <3>1, <3>3 DEF waits
  <2> QED BY <2>5, <2>6
<1>10. CASE Join
  <2>1. /\ pc[Main] = "join" /\ phase' = "tail" /\ Goto(Main, "tail")
        /\ \A w \in Workers : pc[w] = "exited"
        /\ UNCHANGED <<status, queues, budget, stopping, waits, frames, taken, toEnqueue, waking, next>>
    BY <1>10 DEF Join
  <2>2. pc'[Main] = "tail" /\ (\A w \in Workers : pc'[w] = pc[w]) => DestructorFits'
    BY <2>1 DEF DestructorFits
  <2> QED BY <1>4, <1>5, <2>1, <2>2 DEF budget, waits, PoolTypeOK
<1> QED BY <1>2, <1>3, <1>6, <1>7, <1>8, <1>9, <1>10 DEF MainStep

-----------------------------------------------------------------------------
(* Every step.                                                             *)

\* Every step of a thread fits, and stands beside the destructor.
LEMMA ThreadSteps ==
  ASSUME PoolTypeOK, ThreadInv
  PROVE  /\ \A t \in Threads : TaskStep(t) => Fits(t) /\ Aside(t)
         /\ \A w \in Workers : WorkerStep(w) => Fits(w) /\ Aside(w)
<1>1. ASSUME NEW t \in Threads, TaskStep(t) PROVE Fits(t) /\ Aside(t)
  BY <1>1, LaunchFits, WaitFits, AttachFits, WaitAllFits, AttachAllFits, LatchStepsFit, RunMainFits,
     ClaimFits, CompleteFits, HandingStepsFit DEF TaskStep
<1>2. ASSUME NEW w \in Workers, WorkerStep(w) PROVE Fits(w) /\ Aside(w)
  BY <1>2, PermitStepsFit, QueueStepsFit DEF WorkerStep
<1> QED BY <1>1, <1>2

PoolInv == PoolTypeOK /\ ThreadInv

(* When the task system starts, every thread is where its program begins. *)
LEMMA PoolStarts == Init => PoolInv
<1> SUFFICES ASSUME Init PROVE PoolInv
  OBVIOUS
<1> USE DEF Init, InTask, InWait, Handing, InLoop, WithPermit, WithoutPermit, ParkSteps, InDestructor
<1>1. Main \in Threads /\ Main \in Programs /\ Workers \subseteq Threads \ {Main} /\ WorkerCount > 0
  BY TaskSystemAssumption DEF Threads, Programs
<1>2. PlaceTypeOK
  BY <1>1 DEF PlaceTypeOK
<1>3. StackTypeOK
  <2>1. FrameOf(Main, 1) \in Frames
    BY <1>1 DEF FrameOf, Frames
  <2> QED BY <2>1 DEF StackTypeOK
<1>4. QueuesTypeOK
  BY DEF QueuesTypeOK
<1>5. BudgetTypeOK
  BY TaskSystemAssumption DEF BudgetTypeOK
<1>6. PoolTypeOK
  BY <1>2, <1>3, <1>4, <1>5 DEF PoolTypeOK
<1>7. \A t \in Threads : StackFits(t) /\ CallFits(t) /\ TakenFits(t)
  BY DEF StackFits, CallFits, TakenFits
<1>8. \A w \in Workers : PermitFits(w)
  BY <1>1 DEF PermitFits
<1>9. DestructorFits
  BY <1>1 DEF DestructorFits
<1> QED BY <1>6, <1>7, <1>8, <1>9 DEF PoolInv, ThreadInv

\* Each step is one thread's.
LEMMA PoolSteps ==
  ASSUME PoolInv, [Next]_vars
  PROVE  /\ PoolInv'
         /\ \/ UNCHANGED vars
            \/ \E t \in Threads : TaskStep(t) /\ MovesAlone(t)
            \/ \E w \in Workers : WorkerStep(w) /\ MovesAlone(w)
            \/ MainStep /\ MovesAlone(Main)
<1>1. ASSUME NEW t \in Threads, TaskStep(t) PROVE PoolInv' /\ MovesAlone(t)
  BY <1>1, ThreadSteps, FittingStep DEF PoolInv, Fits
<1>2. ASSUME NEW w \in Workers, WorkerStep(w) PROVE PoolInv' /\ MovesAlone(w)
  BY <1>2, ThreadSteps, FittingStep DEF PoolInv, Fits, Threads
<1>3. ASSUME MainStep PROVE PoolInv' /\ MovesAlone(Main)
  BY <1>3, DestructorSteps DEF PoolInv
<1>4. ASSUME UNCHANGED vars PROVE PoolInv'
  BY <1>4 DEF PoolInv, PoolTypeOK, PlaceTypeOK, StackTypeOK, QueuesTypeOK, BudgetTypeOK, ThreadInv, StackFits,
              CallFits, TakenFits, PermitFits, DestructorFits, Waits, Over, Top, Call, vars, queues, budget,
              locals, waits
<1> QED BY <1>1, <1>2, <1>3, <1>4 DEF Next

-----------------------------------------------------------------------------
(* The parked list.                                                        *)

\* Taking a worker off the list leaves the others on it, each once.
LEMMA ListWithout ==
  ASSUME parkedIds \in Seq(Workers), ListedOnce, NEW w \in Workers, Unlist(w)
  PROVE  ListedOnce' /\ \A v \in Workers : Listed(v)' <=> Listed(v) /\ v # w
<1> DEFINE len == Len(parkedIds)
<1>1. PICK n \in 1 .. len :
        /\ parkedIds[n] = w
        /\ parkedIds' = SubSeq([parkedIds EXCEPT ![n] = parkedIds[len]], 1, len - 1)
  BY DEF Unlist
<1>2. len \in Nat \ {0} /\ parkedIds[len] \in Workers
  BY <1>1
<1>3. /\ Len(parkedIds') = len - 1
      /\ \A m \in 1 .. len - 1 : parkedIds'[m] = IF m = n THEN parkedIds[len] ELSE parkedIds[m]
  <2> DEFINE moved == [parkedIds EXCEPT ![n] = parkedIds[len]]
  <2>1. /\ moved \in Seq(Workers) /\ Len(moved) = len
        /\ \A m \in 1 .. len : moved[m] = IF m = n THEN parkedIds[len] ELSE parkedIds[m]
    BY <1>2
  <2>2. parkedIds' = SubSeq(moved, 1, len - 1)
    BY <1>1
  <2> HIDE DEF moved, len
  <2> QED BY <1>2, <2>1, <2>2, SubSeqProperties
<1> HIDE DEF len
<1>4. ListedOnce'
  BY <1>2, <1>3 DEF ListedOnce, len
<1>5. ASSUME NEW v \in Workers, Listed(v), v # w PROVE Listed(v)'
  <2>1. PICK m \in 1 .. len : parkedIds[m] = v
    BY <1>5 DEF Listed, len
  <2>2. CASE m = len
    BY <1>1, <1>2, <1>3, <1>5, <2>1, <2>2 DEF Listed
  <2>3. CASE m # len
    BY <1>1, <1>2, <1>3, <1>5, <2>1, <2>3 DEF Listed
  <2> QED BY <2>2, <2>3
<1>6. ASSUME NEW v \in Workers, Listed(v)' PROVE Listed(v) /\ v # w
  <2>1. PICK m \in 1 .. len - 1 : parkedIds'[m] = v
    BY <1>3, <1>6 DEF Listed
  <2>2. CASE m = n
    BY <1>1, <1>2, <1>3, <2>1, <2>2 DEF Listed, ListedOnce, len
  <2>3. CASE m # n
    BY <1>1, <1>2, <1>3, <2>1, <2>3 DEF Listed, ListedOnce, len
  <2> QED BY <2>2, <2>3
<1> QED BY <1>4, <1>5, <1>6

\* So does taking the last, who is on it.
LEMMA ListWithoutLast ==
  ASSUME parkedIds \in Seq(Workers), ListedOnce, parkedIds # <<>>,
         parkedIds' = SubSeq(parkedIds, 1, Len(parkedIds) - 1)
  PROVE  LET last == parkedIds[Len(parkedIds)] IN
         /\ last \in Workers /\ Listed(last)
         /\ ListedOnce' /\ \A v \in Workers : Listed(v)' <=> Listed(v) /\ v # last
<1> DEFINE len == Len(parkedIds)
           last == parkedIds[len]
<1>1. len \in Nat \ {0} /\ last \in Workers
  BY EmptySeq
<1>2. Len(parkedIds') = len - 1 /\ \A m \in 1 .. len - 1 : parkedIds'[m] = parkedIds[m]
  <2>1. parkedIds' = SubSeq(parkedIds, 1, len - 1) /\ \A m \in 1 .. len - 1 : parkedIds[m] \in Workers
    BY <1>1
  <2> HIDE DEF len
  <2> QED BY <1>1, <2>1, SubSeqProperties
<1>3. Listed(last)
  BY <1>1 DEF Listed
<1>4. \A m \in 1 .. len - 1 : parkedIds[m] # last
  BY <1>1 DEF ListedOnce
<1> HIDE DEF len
<1>5. ListedOnce'
  BY <1>1, <1>2 DEF ListedOnce, len
<1>6. ASSUME NEW v \in Workers PROVE Listed(v)' <=> Listed(v) /\ v # last
  <2>1. Listed(v) <=> \E m \in 1 .. len : parkedIds[m] = v
    BY DEF Listed, len
  <2>2. Listed(v)' <=> \E m \in 1 .. len - 1 : parkedIds'[m] = v
    BY <1>2 DEF Listed
  <2> QED BY <1>1, <1>2, <1>4, <2>1, <2>2
<1> QED BY <1>1, <1>3, <1>5, <1>6 DEF len

\* A worker that is not on the list is added.
LEMMA ListWith ==
  ASSUME parkedIds \in Seq(Workers), ListedOnce, NEW w \in Workers, ~Listed(w),
         parkedIds' = Append(parkedIds, w)
  PROVE  ListedOnce' /\ \A v \in Workers : Listed(v)' <=> Listed(v) \/ v = w
<1> DEFINE len == Len(parkedIds)
<1>1. /\ len \in Nat /\ Len(parkedIds') = len + 1 /\ parkedIds'[len + 1] = w
      /\ \A m \in 1 .. len : parkedIds'[m] = parkedIds[m]
  BY AppendProperties
<1>2. \A m \in 1 .. len : parkedIds[m] # w
  BY DEF Listed
<1> HIDE DEF len
<1>3. ListedOnce'
  BY <1>1, <1>2 DEF ListedOnce, len
<1>4. ASSUME NEW v \in Workers PROVE Listed(v)' <=> Listed(v) \/ v = w
  <2>1. Listed(v) <=> \E m \in 1 .. len : parkedIds[m] = v
    BY DEF Listed, len
  <2>2. Listed(v)' <=> \E m \in 1 .. len + 1 : parkedIds'[m] = v
    BY <1>1 DEF Listed
  <2> QED BY <1>1, <2>1, <2>2
<1> QED BY <1>3, <1>4

-----------------------------------------------------------------------------
(* Parking and waking.                                                     *)

\* A worker beside the step of another is parked as it was, if the step
\* leaves it on or off the list and wakes nobody.
LEMMA OthersParked ==
  ASSUME ParkInv, NEW t \in Threads, MovesAlone(t), pc[t] \notin {"unpark", "stopUnpark"},
         next'[Main] = next[Main], \A u \in Threads \ {t} : waking'[u] = waking[u],
         NEW w \in Workers \ {t}, Listed(w)' <=> Listed(w), workerState'[w] = workerState[w],
         stopping'[w] = stopping[w], asleep' \subseteq asleep \cup {t}
  PROVE  ParkFits(w)'
<1>1. ParkFits(w) /\ w \in Threads \ {t} /\ Main \in Threads
  BY DEF ParkInv, Threads
<1>2. pc'[w] = pc[w] /\ (w \in asleep' => w \in asleep)
  BY <1>1 DEF MovesAlone
<1>3. \A u \in Threads : pc[u] = "unpark" => pc'[u] = "unpark" /\ waking'[u] = waking[u]
  BY DEF MovesAlone
<1>4. pc[Main] = "stopUnpark" => pc'[Main] = "stopUnpark"
  BY <1>1 DEF MovesAlone
<1> QED BY <1>1, <1>2, <1>3, <1>4 DEF ParkFits

\* A step that has to do with no list and no sleeper.
LEMMA QuietStep ==
  ASSUME ParkInv, NEW t \in Threads, MovesAlone(t),
         pc[t] \notin ParkSteps \cup {"unpark", "stopUnpark"}, pc'[t] \notin ParkSteps,
         next'[Main] = next[Main], UNCHANGED <<parkedIds, asleep, stopping, waking>>,
         \A w \in Workers \ {t} : workerState'[w] = workerState[w]
  PROVE  ParkInv'
<1>1. ListedOnce' /\ \A w \in Workers : Listed(w)' <=> Listed(w)
  BY DEF ParkInv, ListedOnce, Listed
<1>2. ASSUME NEW w \in Workers \ {t} PROVE ParkFits(w)'
  BY <1>1, OthersParked
<1>3. ASSUME t \in Workers PROVE ParkFits(t)'
  <2>1. ~Listed(t) /\ t \notin asleep
    BY <1>3 DEF ParkInv, ParkFits, ParkSteps
  <2> QED BY <1>1, <1>3, <2>1 DEF ParkFits
<1> QED BY <1>1, <1>2, <1>3 DEF ParkInv

\* A worker that runs a task parks at none of its steps.
LEMMA TaskStepsDoNotPark ==
  ASSUME PoolInv, PoolInv', NEW t \in Threads, TaskStep(t)
  PROVE  /\ pc[t] \in InTask \cup {"claim"} /\ pc'[t] \notin ParkSteps \cup {"park", "start", "exited"}
         /\ UNCHANGED <<stopping, holdingSlot>> /\ next'[Main] = next[Main]
<1>1. pc[t] \in InTask \cup {"claim"} /\ UNCHANGED <<stopping, holdingSlot, next>>
  BY DEF TaskStep, Launch, Enqueue, WaitLooks, Attach, WaitAllLooks, AttachAll, Shed, Latched, Reacquire,
         RunMain, Claim, Complete, Wake, WakePop, GiveBack, Unpark, Calling, WaitOnLatch,
         InTask, InWait, Handing, budget, locals
<1>2. CASE t \in Workers
  <2>1. holdingSlot[t]
    BY <1>1, <1>2 DEF PoolInv, ThreadInv, PermitFits
  <2>2. pc'[t] \in WithoutPermit => ~holdingSlot'[t]
    BY <1>2 DEF PoolInv, ThreadInv, PermitFits
  <2> QED BY <1>1, <2>1, <2>2 DEF WithoutPermit
<1>3. CASE t = Main
  BY <1>1, <1>3 DEF PoolInv, PoolTypeOK, PlaceTypeOK, InLoop, WithoutPermit
<1> QED BY <1>2, <1>3 DEF Threads

\* Wake-ups: the worker that is taken off the list is made active, and then
\* woken if it sleeps.
LEMMA WakingKeepsParked ==
  ASSUME PoolInv, PoolInv', ParkInv, NEW t \in Threads, TaskStep(t), MovesAlone(t)
  PROVE  ParkInv'
<1> USE DEF InTask, InWait, Handing, ParkSteps
<1>1. /\ pc[t] \in InTask \cup {"claim"} /\ pc'[t] \notin ParkSteps
      /\ UNCHANGED stopping /\ next'[Main] = next[Main]
  BY TaskStepsDoNotPark
<1>2. /\ parkedIds \in Seq(Workers) /\ ListedOnce
      /\ workerState \in [Workers -> {"Parked", "Active", "Waiting"}]
      /\ waking \in [Threads -> Workers \cup {None}]
  BY DEF PoolInv, PoolTypeOK, BudgetTypeOK, ParkInv
<1>3. CASE WakePop(t) /\ parkedIds # <<>>
  <2>1. PICK v \in Workers :
          /\ pc[t] = "wakePop" /\ Goto(t, "unpark")
          /\ parkedIds' = SubSeq(parkedIds, 1, Len(parkedIds) - 1)
          /\ v = parkedIds[Len(parkedIds)]
          /\ workerState' = [workerState EXCEPT ![v] = "Active"]
          /\ waking' = [waking EXCEPT ![t] = v]
          /\ UNCHANGED asleep
    <3>1. parkedIds[Len(parkedIds)] \in Workers
      BY <1>2, <1>3, EmptySeq
    <3> QED BY <1>3, <3>1 DEF WakePop, budget
  <2>2. /\ Listed(v) /\ ListedOnce'
        /\ \A w \in Workers : Listed(w)' <=> Listed(w) /\ w # v
    BY <1>2, <1>3, <2>1, ListWithoutLast
  <2>3. pc[v] \in ParkSteps /\ v \in Threads \ {t}
    BY <1>1, <2>1, <2>2 DEF ParkInv, ParkFits, Threads
  <2>4. pc'[t] = "unpark" /\ waking'[t] = v /\ pc'[v] = pc[v]
    BY <1>2, <2>1, <2>3 DEF PoolInv, PoolTypeOK, PlaceTypeOK, Goto
  <2>5. ASSUME NEW w \in Workers \ {t, v} PROVE ParkFits(w)'
    <3>1. workerState'[w] = workerState[w] /\ \A u \in Threads \ {t} : waking'[u] = waking[u]
      BY <1>2, <2>1
    <3> QED BY <1>1, <2>1, <2>2, <3>1, OthersParked
  <2>6. ParkFits(v)'
    <3>1. ~Listed(v)' /\ workerState'[v] = "Active"
      BY <1>2, <2>1, <2>2
    <3>2. pc[Main] = "stopUnpark" => pc'[Main] = "stopUnpark"
      BY <2>1 DEF MovesAlone, Threads
    <3>3. v \in asleep => pc[v] = "woken" /\ (stopping[v] => pc[Main] = "stopUnpark" /\ next[Main] = v)
      BY <2>2 DEF ParkInv, ParkFits
    <3> QED BY <1>1, <2>1, <2>4, <3>1, <3>2, <3>3 DEF ParkFits
  <2>7. ASSUME t \in Workers PROVE ParkFits(t)'
    <3>1. ~Listed(t) /\ t \notin asleep
      BY <2>1, <2>7 DEF ParkInv, ParkFits
    <3> QED BY <1>1, <2>1, <2>2, <2>7, <3>1 DEF ParkFits
  <2> QED BY <2>2, <2>5, <2>6, <2>7 DEF ParkInv
<1>4. CASE Unpark(t)
  <2>1. /\ pc[t] = "unpark" /\ asleep' = asleep \ {waking[t]}
        /\ waking' = [waking EXCEPT ![t] = None] /\ UNCHANGED <<parkedIds, workerState>>
    BY <1>4 DEF Unpark
  <2>2. ListedOnce' /\ \A w \in Workers : Listed(w)' <=> Listed(w)
    BY <1>2, <2>1 DEF ListedOnce, Listed
  <2>3. ASSUME NEW w \in Workers, t # w PROVE ParkFits(w)'
    <3>1. ParkFits(w) /\ w \in Threads /\ Main \in Threads
      BY DEF ParkInv, Threads
    <3>2. pc'[w] = pc[w] /\ (pc[Main] = "stopUnpark" => pc'[Main] = "stopUnpark")
      BY <2>1, <2>3, <3>1 DEF MovesAlone
    <3>3. \A u \in Threads : pc[u] = "unpark" /\ waking[u] = w /\ w \in asleep' =>
            pc'[u] = "unpark" /\ waking'[u] = w
      BY <1>2, <2>1 DEF MovesAlone
    <3> QED BY <1>1, <2>1, <2>2, <3>1, <3>2, <3>3 DEF ParkFits
  <2>4. ASSUME t \in Workers PROVE ParkFits(t)'
    <3>1. ~Listed(t) /\ t \notin asleep
      BY <2>1, <2>4 DEF ParkInv, ParkFits
    <3> QED BY <1>1, <2>1, <2>2, <2>4, <3>1 DEF ParkFits
  <2> QED BY <2>2, <2>3, <2>4 DEF ParkInv
<1>5. CASE ~(WakePop(t) /\ parkedIds # <<>>) /\ ~Unpark(t)
  <2>1. /\ UNCHANGED <<parkedIds, asleep, waking>>
        /\ \A w \in Workers \ {t} : workerState'[w] = workerState[w]
    BY <1>2, <1>5 DEF TaskStep, Launch, Enqueue, WaitLooks, Attach, WaitAllLooks, AttachAll, Shed, Latched,
         Reacquire, RunMain, Claim, Complete, Wake, WakePop, GiveBack, WaitOnLatch, budget, locals
  <2>2. pc[t] # "unpark"
    BY <1>5 DEF TaskStep, Launch, Enqueue, WaitLooks, Attach, WaitAllLooks, AttachAll, Shed, Latched,
         Reacquire, RunMain, Claim, Complete, Wake, WakePop, GiveBack, Calling
  <2> QED BY <1>1, <2>1, <2>2, QuietStep
<1> QED BY <1>3, <1>4, <1>5

\* Parking: a worker is on the list before it sleeps, and looks once more
\* whether it has been made active.
LEMMA ParkingKeepsParked ==
  ASSUME PoolInv, ParkInv, NEW w \in Workers, WorkerStep(w), MovesAlone(w)
  PROVE  ParkInv'
<1> USE DEF ParkSteps
<1>1. /\ w \in Threads /\ w # Main /\ pc \in [Threads -> Places]
      /\ parkedIds \in Seq(Workers) /\ ListedOnce /\ ParkFits(w)
      /\ workerState \in [Workers -> {"Parked", "Active", "Waiting"}]
  BY TaskSystemAssumption
     DEF Threads, PoolInv, PoolTypeOK, BudgetTypeOK, PlaceTypeOK, Places, ParkInv
<1>2. UNCHANGED <<stopping, waking>> /\ \A v \in Workers \ {w} : workerState'[v] = workerState[v]
  <2>1. UNCHANGED <<stopping, waking>>
    BY DEF WorkerStep, StartWorker, PopLocal, TakeBatch, Refill, Steal, CheckStopping, ReleaseSlot, Park,
       Recheck, RecheckPermit, UnlistSelf, ReturnPermit, Sleep, Woken, Unparked, budget, locals
  <2>2. workerState' \in {workerState, [workerState EXCEPT ![w] = "Active"], [workerState EXCEPT ![w] = "Parked"]}
    BY DEF WorkerStep, StartWorker, PopLocal, TakeBatch, Refill, Steal, CheckStopping, ReleaseSlot, Park,
       Recheck, RecheckPermit, UnlistSelf, ReturnPermit, Sleep, Woken, Unparked, budget
  <2> QED BY <1>1, <2>1, <2>2
<1>3. next'[Main] = next[Main]
  <2>1. next' \in {next, [next EXCEPT ![w] = 1], [next EXCEPT ![w] = next[w] + 1]}
    BY DEF WorkerStep, StartWorker, PopLocal, TakeBatch, Refill, Steal, CheckStopping, ReleaseSlot, Park,
       Recheck, RecheckPermit, UnlistSelf, ReturnPermit, Sleep, Woken, Unparked, locals
  <2> QED BY <1>1, <2>1 DEF PoolInv, PoolTypeOK, Threads
<1>4. ASSUME StartWorker(w) \/ PopLocal(w) \/ TakeBatch(w) \/ Refill(w) \/ Steal(w)
             \/ CheckStopping(w) \/ ReleaseSlot(w)
      PROVE  ParkInv'
  <2>1. /\ pc[w] \in {"start", "loop", "refilled", "batch", "refill", "steal", "stop?", "release", "exit"}
        /\ UNCHANGED <<parkedIds, asleep>>
    BY <1>4 DEF StartWorker, PopLocal, TakeBatch, Refill, Steal, CheckStopping, ReleaseSlot, budget
  <2>2. PICK step \in {"loop", "claim", "steal", "batch", "stop?", "refill", "refilled", "exit", "exited",
                       "release", "park"} : Goto(w, step) \/ pc'[w] = pc[w]
    BY <1>4 DEF StartWorker, PopLocal, TakeBatch, Refill, Steal, CheckStopping, ReleaseSlot
  <2>3. pc'[w] \notin ParkSteps
    BY <1>1, <2>1, <2>2 DEF Goto
  <2> QED BY <1>1, <1>2, <1>3, <2>1, <2>3, QuietStep
<1>5. ASSUME pc[w] \in ParkSteps \cup {"park"}, ListedOnce', asleep' \subseteq asleep \cup {w},
             \A v \in Workers \ {w} : Listed(v)' <=> Listed(v), ParkFits(w)'
      PROVE  ParkInv'
  <2>1. \A v \in Workers \ {w} : ParkFits(v)'
    BY <1>1, <1>2, <1>3, <1>5, OthersParked
  <2> QED BY <1>5, <2>1 DEF ParkInv
<1>6. CASE Park(w)
  <2>1. /\ pc[w] = "park" /\ pc'[w] = "recheck" /\ parkedIds' = Append(parkedIds, w)
        /\ workerState'[w] = "Parked" /\ UNCHANGED asleep
    BY <1>1, <1>6 DEF Park, Goto
  <2>2. ~Listed(w) /\ w \notin asleep
    BY <1>1, <2>1 DEF ParkFits
  <2>3. ListedOnce' /\ \A v \in Workers : Listed(v)' <=> Listed(v) \/ v = w
    BY <1>1, <2>1, <2>2, ListWith
  <2>4. ParkFits(w)'
    BY <2>1, <2>2, <2>3 DEF ParkFits
  <2> QED BY <1>5, <2>1, <2>3, <2>4
<1>7. CASE Recheck(w) \/ RecheckPermit(w) \/ ReturnPermit(w) \/ Sleep(w) \/ Woken(w)
           \/ (UnlistSelf(w) /\ ~Listed(w)) \/ (Unparked(w) /\ ~Listed(w))
  <2>1. UNCHANGED parkedIds /\ asleep' \subseteq asleep \cup {w}
    BY <1>7 DEF Recheck, RecheckPermit, ReturnPermit, Sleep, Woken, UnlistSelf, Unparked, budget
  <2>2. ListedOnce' /\ \A v \in Workers : Listed(v)' <=> Listed(v)
    BY <1>1, <2>1 DEF ListedOnce, Listed
  <2>3. CASE Recheck(w) \/ RecheckPermit(w) \/ (UnlistSelf(w) /\ ~Listed(w))
    <3>1. /\ pc[w] \in {"recheck", "recheckPermit", "unlist"} /\ UNCHANGED <<asleep, workerState>>
          /\ \/ pc'[w] \in {"sleep", "recheckPermit", "unlist"}
             \/ pc'[w] = "returnPermit" /\ ~Listed(w)
      BY <1>1, <2>3 DEF Recheck, RecheckPermit, UnlistSelf, Goto, budget
    <3>2. ParkFits(w)'
      BY <1>1, <2>2, <3>1 DEF ParkFits
    <3> QED BY <1>5, <2>1, <2>2, <3>1, <3>2
  <2>4. CASE ReturnPermit(w) \/ (Unparked(w) /\ ~Listed(w))
    <3>1. /\ pc[w] \in {"returnPermit", "unparked"} /\ pc'[w] = "loop" /\ ~Listed(w) /\ UNCHANGED asleep
      BY <1>1, <2>4 DEF ReturnPermit, Unparked, Goto, ParkFits
    <3>2. ParkFits(w)'
      BY <1>1, <2>2, <3>1 DEF ParkFits
    <3> QED BY <1>5, <2>1, <2>2, <3>1, <3>2
  <2>5. CASE Sleep(w)
    <3>1. /\ pc[w] = "sleep" /\ pc'[w] = "woken" /\ UNCHANGED workerState
          /\ asleep' = IF workerState[w] # "Active" /\ ~stopping[w] THEN asleep \cup {w} ELSE asleep
      BY <1>1, <2>5 DEF Sleep, Goto
    <3>2. w \notin asleep
      BY <1>1, <3>1 DEF ParkFits
    <3>3. ParkFits(w)'
      BY <1>1, <1>2, <2>2, <3>1, <3>2 DEF ParkFits
    <3> QED BY <1>5, <2>1, <2>2, <3>1, <3>3
  <2>6. CASE Woken(w)
    <3>1. /\ pc[w] = "woken" /\ w \notin asleep /\ UNCHANGED <<workerState, asleep>>
          /\ pc'[w] = IF workerState[w] = "Active" THEN "loop" ELSE "unparked"
      BY <1>1, <2>6 DEF Woken, Goto
    <3>2. ParkFits(w)'
      BY <1>1, <2>2, <3>1 DEF ParkFits
    <3> QED BY <1>5, <2>1, <2>2, <3>1, <3>2
  <2> QED BY <1>7, <2>3, <2>4, <2>5, <2>6
<1>8. CASE (UnlistSelf(w) /\ Listed(w)) \/ (Unparked(w) /\ Listed(w))
  <2>1. /\ pc[w] \in {"unlist", "unparked"} /\ pc'[w] = "loop" /\ Unlist(w) /\ UNCHANGED asleep
    BY <1>1, <1>8 DEF UnlistSelf, Unparked, Goto
  <2>2. ListedOnce' /\ \A v \in Workers : Listed(v)' <=> Listed(v) /\ v # w
    BY <1>1, <2>1, ListWithout
  <2>3. w \notin asleep
    BY <1>1, <2>1 DEF ParkFits
  <2>4. ParkFits(w)'
    BY <2>1, <2>2, <2>3 DEF ParkFits
  <2> QED BY <1>5, <2>1, <2>2, <2>4
<1> QED BY <1>4, <1>6, <1>7, <1>8 DEF WorkerStep

\* The destructor tells a worker to stop and then wakes it.
LEMMA StoppingKeepsParked ==
  ASSUME PoolInv, ParkInv, MainStep, MovesAlone(Main)
  PROVE  ParkInv'
<1> USE DEF ParkSteps
<1>1. /\ Main \in Threads /\ pc \in [Threads -> Places] /\ UNCHANGED <<parkedIds, waking, workerState>>
      /\ Main \notin Workers /\ Workers \subseteq Threads
  BY TaskSystemAssumption
     DEF Threads, PoolInv, PoolTypeOK, PlaceTypeOK, Places, MainStep, Destroy, DrainMain, StopWorker, StopUnpark,
         DrainShared, Join, budget, locals
<1>2. ListedOnce' /\ \A w \in Workers : Listed(w)' <=> Listed(w)
  BY <1>1 DEF ParkInv, ListedOnce, Listed
<1>3. CASE Destroy \/ DrainMain \/ DrainShared \/ Join
  <2>1. /\ pc[Main] \in {"body", "drainMain", "drain", "tail", "drainShared", "join"}
        /\ UNCHANGED <<asleep, stopping, next>>
    BY <1>3 DEF Destroy, DrainMain, DrainShared, Join, budget, locals
  <2>2. PICK step \in {"body", "stop", "drainShared", "claim", "join", "end", "tail", phase} : Goto(Main, step)
    BY <1>3 DEF Destroy, Leave, Return, DrainMain, DrainShared, Join, PoolInv, PoolTypeOK
  <2>3. pc'[Main] \notin ParkSteps
    BY <1>1, <2>2 DEF Goto, PoolInv, PoolTypeOK
  <2> QED BY <1>1, <2>1, <2>3, QuietStep
<1>4. CASE StopWorker
  <2>1. /\ pc[Main] = "stop" /\ pc'[Main] = "stopUnpark" /\ UNCHANGED <<asleep, next>>
        /\ stopping' = [stopping EXCEPT ![next[Main]] = TRUE]
    BY <1>1, <1>4 DEF StopWorker, Goto, budget, locals
  <2>2. ASSUME NEW w \in Workers, w # next[Main] PROVE ParkFits(w)'
    <3>1. stopping'[w] = stopping[w]
      BY <2>1, <2>2 DEF PoolInv, PoolTypeOK, BudgetTypeOK
    <3> QED BY <1>1, <1>2, <2>1, <2>2, <3>1, OthersParked
  <2>3. ASSUME NEW w \in Workers, w = next[Main] PROVE ParkFits(w)'
    <3>1. ParkFits(w) /\ pc'[w] = pc[w] /\ \A u \in Threads : pc[u] = "unpark" => pc'[u] = "unpark"
      BY <1>1, <2>1, <2>3 DEF ParkInv, MovesAlone
    <3> QED BY <1>1, <1>2, <2>1, <2>3, <3>1 DEF ParkFits
  <2> QED BY <1>2, <2>2, <2>3 DEF ParkInv
<1>5. CASE StopUnpark
  <2>1. pc[Main] = "stopUnpark" /\ asleep' = asleep \ {next[Main]} /\ UNCHANGED stopping
    BY <1>5 DEF StopUnpark
  <2>2. ASSUME NEW w \in Workers PROVE ParkFits(w)'
    <3>1. ParkFits(w) /\ pc'[w] = pc[w] /\ \A u \in Threads : pc[u] = "unpark" => pc'[u] = "unpark"
      BY <1>1, <2>1 DEF ParkInv, MovesAlone
    <3> QED BY <1>1, <1>2, <2>1, <3>1 DEF ParkFits
  <2> QED BY <1>2, <2>2 DEF ParkInv
<1> QED BY <1>3, <1>4, <1>5 DEF MainStep

(* Nobody is parked when the task system starts. *)
LEMMA ParkingStarts == Init => ParkInv
BY TaskSystemAssumption DEF Init, ParkInv, ListedOnce, ParkFits, ParkSteps, Listed, Threads

(* Every step keeps the list of parked workers equal to the workers that park. *)
LEMMA ParkingSteps ==
  ASSUME PoolInv, ParkInv, [Next]_vars
  PROVE  ParkInv'
<1>1. CASE UNCHANGED vars
  BY <1>1 DEF vars, budget, locals, ParkInv, ListedOnce, ParkFits, Listed
<1>2. PoolInv'
  BY PoolSteps
<1>3. ASSUME NEW t \in Threads, TaskStep(t), MovesAlone(t) PROVE ParkInv'
  BY <1>2, <1>3, WakingKeepsParked
<1>4. ASSUME NEW w \in Workers, WorkerStep(w), MovesAlone(w) PROVE ParkInv'
  BY <1>4, ParkingKeepsParked
<1>5. ASSUME MainStep, MovesAlone(Main) PROVE ParkInv'
  BY <1>5, StoppingKeepsParked
<1> QED BY <1>1, <1>3, <1>4, <1>5, PoolSteps

-----------------------------------------------------------------------------
(* The permits.                                                            *)

One(b) == IF b THEN 1 ELSE 0

\* What a thread has of the permits: its own, one it has been given, one to give away.
Own(t) == One(t \in Running) + One(t \in Granted) + One(t \in Passing)

\* Two sets that differ by one element at most.
LEMMA OneMoved ==
  ASSUME NEW S, NEW T, NEW x, IsFiniteSet(S), \A y : y # x => (y \in T <=> y \in S)
  PROVE  /\ IsFiniteSet(T) /\ Cardinality(S) \in Nat
         /\ Cardinality(T) = Cardinality(S) + One(x \in T) - One(x \in S)
<1>1. Cardinality(S) \in Nat
  BY FS_CardinalityType
<1>2. CASE x \in S <=> x \in T
  <2>1. S = T
    BY <1>2
  <2> QED BY <1>1, <1>2, <2>1 DEF One
<1>3. CASE x \in T /\ x \notin S
  <2>1. T = S \cup {x}
    BY <1>3
  <2> QED BY <1>1, <1>3, <2>1, FS_AddElement DEF One
<1>4. CASE x \in S /\ x \notin T
  <2>1. S = T \cup {x} /\ T \subseteq S
    BY <1>4
  <2>2. IsFiniteSet(T)
    BY <2>1, FS_Subset
  <2>3. Cardinality(T) \in Nat /\ Cardinality(S) = Cardinality(T) + 1
    BY <1>4, <2>1, <2>2, FS_AddElement, FS_CardinalityType
  <2> QED BY <1>4, <2>2, <2>3 DEF One
<1> QED BY <1>2, <1>3, <1>4

(* There are finitely many threads, so that those that hold a permit can be counted. *)
LEMMA FiniteThreads ==
  /\ IsFiniteSet(Threads) /\ IsFiniteSet(Running) /\ IsFiniteSet(Granted) /\ IsFiniteSet(Passing)
  /\ Cardinality(Running) \in Nat /\ Cardinality(Granted) \in Nat /\ Cardinality(Passing) \in Nat
<1>1. IsFiniteSet(Workers)
  BY TaskSystemAssumption, FS_Interval DEF Workers
<1>2. IsFiniteSet(Threads)
  BY <1>1, FS_AddElement DEF Threads
<1>3. Running \subseteq Threads /\ Granted \subseteq Threads /\ Passing \subseteq Threads
  BY DEF Running, Granted, Passing, Threads
<1>4. IsFiniteSet(Running) /\ IsFiniteSet(Granted) /\ IsFiniteSet(Passing)
  BY <1>2, <1>3, FS_Subset
<1> QED BY <1>2, <1>4, FS_CardinalityType

\* What one thread has less is free, or what is free is less by what it has more.
LEMMA BudgetSum ==
  ASSUME NEW a \in Nat, NEW b \in Nat, NEW r \in Nat, NEW g \in Nat, NEW p \in Nat,
         NEW r0 \in 0 .. 1, NEW g0 \in 0 .. 1, NEW p0 \in 0 .. 1,
         NEW r1 \in 0 .. 1, NEW g1 \in 0 .. 1, NEW p1 \in 0 .. 1,
         b + (r1 + g1 + p1) = a + (r0 + g0 + p0)
  PROVE  b + (r + r1 - r0) + (g + g1 - g0) + (p + p1 - p0) = a + r + g + p
OBVIOUS

\* A step conserves the permits if it only changes what its own thread has.
LEMMA OwnStep ==
  ASSUME PermitsConserved, NEW t \in Threads, permits \in Nat, permits' \in Nat,
         permits' + Own(t)' = permits + Own(t),
         \A u \in Threads \ {t} : /\ u \in Running' <=> u \in Running
                                  /\ u \in Granted' <=> u \in Granted
                                  /\ u \in Passing' <=> u \in Passing
  PROVE  PermitsConserved'
<1>1. /\ Running \subseteq Threads /\ Granted \subseteq Threads /\ Passing \subseteq Threads
      /\ Running' \subseteq Threads /\ Granted' \subseteq Threads /\ Passing' \subseteq Threads
  BY DEF Running, Granted, Passing, Threads
<1>2. \A y : y # t => /\ y \in Running' <=> y \in Running
                      /\ y \in Granted' <=> y \in Granted
                      /\ y \in Passing' <=> y \in Passing
  BY <1>1
<1>3. /\ One(t \in Running) \in 0 .. 1 /\ One(t \in Granted) \in 0 .. 1 /\ One(t \in Passing) \in 0 .. 1
      /\ One(t \in Running)' \in 0 .. 1 /\ One(t \in Granted)' \in 0 .. 1 /\ One(t \in Passing)' \in 0 .. 1
  BY DEF One
<1>4. PICK r \in Nat, g \in Nat, p \in Nat :
        r = Cardinality(Running) /\ g = Cardinality(Granted) /\ p = Cardinality(Passing)
  BY FiniteThreads
<1>5. /\ Cardinality(Running') = r + One(t \in Running)' - One(t \in Running)
      /\ Cardinality(Granted') = g + One(t \in Granted)' - One(t \in Granted)
      /\ Cardinality(Passing') = p + One(t \in Passing)' - One(t \in Passing)
  BY <1>2, <1>4, FiniteThreads, OneMoved
<1>6. PICK a \in Nat, b \in Nat, r0 \in 0 .. 1, g0 \in 0 .. 1, p0 \in 0 .. 1,
           r1 \in 0 .. 1, g1 \in 0 .. 1, p1 \in 0 .. 1 :
        /\ a = permits /\ b = permits'
        /\ r0 = One(t \in Running) /\ g0 = One(t \in Granted) /\ p0 = One(t \in Passing)
        /\ r1 = One(t \in Running)' /\ g1 = One(t \in Granted)' /\ p1 = One(t \in Passing)'
  BY <1>3
<1>7. b + (r1 + g1 + p1) = a + (r0 + g0 + p0)
  BY <1>6 DEF Own
<1>8. b + (r + r1 - r0) + (g + g1 - g0) + (p + p1 - p0) = a + r + g + p
  BY <1>7, BudgetSum
<1>9. a + r + g + p = Target
  BY <1>4, <1>6 DEF PermitsConserved
<1> QED BY <1>5, <1>6, <1>8, <1>9 DEF PermitsConserved

\* The others have what they had.
LEMMA OthersKeepPermits ==
  ASSUME NEW t \in Threads, MovesAlone(t), NEW u \in Threads \ {t}
  PROVE  /\ u \in Running' <=> u \in Running
         /\ u \in Passing' <=> u \in Passing
         /\ (Listed(u)' <=> Listed(u)) => (u \in Granted' <=> u \in Granted)
<1>1. pc'[u] = pc[u] /\ frames'[u] = frames[u] /\ (u \in Workers => holdingSlot'[u] = holdingSlot[u])
  BY DEF MovesAlone
<1>2. Shedding(u)' <=> Shedding(u)
  BY <1>1, SameStack DEF MovesAlone, Shedding
<1> QED BY <1>1, <1>2 DEF Running, Granted, Passing

\* Going on after a task or a wake-up, a thread has shed its permit if it is in a wait.
LEMMA ResumeSheds ==
  ASSUME PoolInv, NEW t \in Threads, frames[t] # <<>>, NEW left, Resume(t, left), UNCHANGED script
  PROVE  /\ pc'[t] \in {"enqueue", "latch", "body", "loop", phase}
         /\ Shedding(t)' <=> left = {} /\ Waits(t)
<1>1. pc \in [Threads -> Places] /\ StackTypeOK /\ phase \in {"drainMain", "drain", "tail"}
  BY DEF PoolInv, PoolTypeOK, PlaceTypeOK, Places
<1>2. CASE left # {}
  <2>1. pc'[t] = "enqueue"
    BY <1>1, <1>2 DEF Resume, Goto
  <2> QED BY <1>2, <2>1 DEF Shedding
<1>3. CASE left = {} /\ Over(t)
  <2>1. Leave(t) /\ ~Waits(t)
    BY <1>3 DEF Resume, Waits
  <2>2. pc'[t] \in {"body", "loop", phase}
    BY <1>1, <2>1 DEF Leave, Return, Goto
  <2> QED BY <1>1, <2>1, <2>2 DEF Shedding
<1>4. CASE left = {} /\ ~Over(t) /\ Waits(t)
  <2>1. pc'[t] = "latch" /\ UNCHANGED frames
    BY <1>1, <1>4 DEF Resume, Goto
  <2> QED BY <1>4, <2>1, SameStack DEF Shedding
<1>5. CASE left = {} /\ ~Over(t) /\ ~Waits(t)
  <2>1. pc'[t] = "body"
    BY <1>1, <1>5 DEF Resume, Goto
  <2> QED BY <1>5, <2>1 DEF Shedding
<1> QED BY <1>2, <1>3, <1>4, <1>5

\* A thread in a task has its permit unless it has shed it, and one more to give away.
LEMMA OwnInTask ==
  ASSUME PoolInv, PoolInv', NEW t \in Threads, TaskStep(t)
  PROVE  /\ Own(t) = One(t \in Workers /\ ~Shedding(t)) + One(pc[t] \in {"wakePop", "giveBack"})
         /\ Own(t)' = One(t \in Workers /\ ~Shedding(t)') + One(pc'[t] \in {"wakePop", "giveBack"})
<1>1. /\ pc[t] \in InTask \cup {"claim"} /\ pc'[t] \notin ParkSteps \cup {"park", "start", "exited"}
      /\ UNCHANGED holdingSlot
  BY TaskStepsDoNotPark
<1>2. pc[t] \notin ParkSteps \cup {"park"}
  BY <1>1 DEF InTask, InWait, Handing, ParkSteps
<1>3. t \in Workers => holdingSlot[t]
  BY <1>1 DEF PoolInv, ThreadInv, PermitFits
<1>4. /\ t \in Running <=> t \in Workers /\ ~Shedding(t)
      /\ t \in Running' <=> t \in Workers /\ ~Shedding(t)'
  BY <1>1, <1>2, <1>3 DEF Running
<1>5. t \notin Granted /\ t \notin Granted'
  BY <1>1, <1>2 DEF Granted
<1>6. /\ t \in Passing <=> pc[t] \in {"wakePop", "giveBack"}
      /\ t \in Passing' <=> pc'[t] \in {"wakePop", "giveBack"}
  BY <1>1, <1>2 DEF Passing, ParkSteps
<1> QED BY <1>4, <1>5, <1>6 DEF Own, One

\* In a task a permit that is taken is had, and one that is not had has been given up.
LEMMA TaskStepsConserve ==
  ASSUME PoolInv, PoolInv', NEW t \in Threads, TaskStep(t), ~(WakePop(t) /\ parkedIds # <<>>)
  PROVE  permits' + Own(t)' = permits + Own(t)
<1> USE DEF InTask, InWait, Handing
<1> DEFINE Sheds == t \in Workers /\ Shedding(t)
           Gives == pc[t] \in {"wakePop", "giveBack"}
<1>1. /\ pc \in [Threads -> Places] /\ permits \in Nat /\ phase \in {"drainMain", "drain", "tail"}
      /\ pc[Main] \notin {"shed", "reacquire"} /\ (pc[t] \in InTask => frames[t] # <<>>)
      /\ (pc[t] \in InWait => Waits(t)) /\ (toEnqueue[t] # {} => ~Waits(t))
      /\ (pc[t] = "enqueue" => toEnqueue[t] # {}) /\ UNCHANGED script
  <2>1. UNCHANGED script
    BY DEF TaskStep, Launch, Enqueue, WaitLooks, Attach, WaitAllLooks, AttachAll, Shed, Latched, Reacquire,
           RunMain, Claim, Complete, Wake, WakePop, GiveBack, Unpark, waits
  <2> QED BY <2>1 DEF PoolInv, PoolTypeOK, PlaceTypeOK, BudgetTypeOK, Places, ThreadInv, StackFits, CallFits
<1>2. /\ Own(t) = One(t \in Workers /\ ~Sheds) + One(Gives)
      /\ Own(t)' = One(t \in Workers /\ ~Sheds') + One(Gives')
  <2>1. /\ (t \in Workers /\ ~Shedding(t)) <=> (t \in Workers /\ ~Sheds)
        /\ (t \in Workers /\ ~Shedding(t)') <=> (t \in Workers /\ ~Sheds')
    OBVIOUS
  <2> QED BY <2>1, OwnInTask
<1>3. ASSUME UNCHANGED frames PROVE Sheds' <=> (t \in Workers /\ frames[t] # <<>> /\ Waits(t)
                            /\ pc'[t] \in {"wake", "wakePop", "giveBack", "unpark", "latch", "reacquire"})
  BY <1>1, <1>3, SameStack DEF Shedding
<1>4. ASSUME NEW left, Resume(t, left), pc[t] \in InTask
      PROVE  ~Gives' /\ (Sheds' <=> t \in Workers /\ left = {} /\ Waits(t))
  BY <1>1, <1>4, ResumeSheds
<1>5. pc[t] \in {"wake", "wakePop", "giveBack", "unpark", "latch", "reacquire"} =>
        (Sheds <=> t \in Workers /\ Waits(t))
  BY <1>1 DEF Shedding
<1>6. pc[t] \notin {"wake", "wakePop", "giveBack", "unpark", "latch", "reacquire"} => ~Sheds /\ ~Gives
  BY DEF Shedding
<1>7. CASE Launch(t) \/ WaitLooks(t) \/ WaitAllLooks(t) \/ RunMain(t) \/ Attach(t) \/ AttachAll(t) \/ Claim(t)
  <2>1. /\ permits' = permits /\ pc[t] \in {"body", "attach", "attachAll", "claim"}
        /\ \E step \in {"body", "enqueue", "attach", "attachAll", "claim", "shed", "loop", phase, "latch"} :
             (Goto(t, step) \/ pc' = pc) /\ (step = "latch" => t = Main)
    BY <1>7 DEF Launch, WaitLooks, WaitAllLooks, RunMain, Attach, AttachAll, Claim, Calling, WaitOnLatch, Help,
                Return, budget
  <2>2. ~Gives' /\ (t \in Workers => pc'[t] \notin {"wake", "unpark", "latch", "reacquire"})
    BY <1>1, <2>1, TaskSystemAssumption DEF Goto
  <2>3. ~Sheds'
    BY <2>2 DEF Shedding
  <2> QED BY <1>2, <1>6, <2>1, <2>2, <2>3
<1>8. CASE Complete(t)
  <2>1. permits' = permits /\ pc[t] = "body" /\ Over(t) /\ \E left : Resume(t, left)
    BY <1>8 DEF Complete, budget
  <2>2. ~Gives' /\ ~Sheds'
    BY <1>4, <2>1 DEF Waits
  <2> QED BY <1>2, <1>6, <2>1, <2>2
<1>9. CASE Enqueue(t)
  <2>1. permits' = permits /\ pc[t] = "enqueue" /\ ~Waits(t)
    BY <1>1, <1>9 DEF Enqueue, budget
  <2>2. (\E left : Resume(t, left)) \/ (Goto(t, "wake") /\ UNCHANGED frames)
    BY <1>9 DEF Enqueue
  <2>3. ~Gives' /\ ~Sheds'
    BY <1>1, <1>3, <1>4, <2>1, <2>2 DEF Goto
  <2> QED BY <1>2, <1>6, <2>1, <2>3
<1>10. CASE Shed(t)
  <2>1. pc[t] = "shed" /\ permits' = permits + 1 /\ pc'[t] = "wake" /\ UNCHANGED frames
    BY <1>1, <1>10 DEF Shed, Goto
  <2>2. t \in Workers /\ ~Gives' /\ Sheds'
    BY <1>1, <1>3, <2>1 DEF Threads
  <2> QED BY <1>1, <1>2, <1>6, <2>1, <2>2 DEF One
<1>11. CASE Latched(t)
  <2>1. /\ pc[t] = "latch" /\ permits' = permits
        /\ t \in Workers => pc'[t] = "reacquire" /\ UNCHANGED frames
        /\ t = Main => pc'[t] = "body"
    BY <1>1, <1>11, TaskSystemAssumption DEF Latched, Goto, budget, Threads
  <2>2. (Sheds' <=> Sheds) /\ ~Gives' /\ ~Gives
    BY <1>1, <1>3, <1>5, <2>1 DEF Threads
  <2> QED BY <1>2, <2>1, <2>2
<1>12. CASE Reacquire(t)
  <2>1. pc[t] = "reacquire" /\ permits > 0 /\ permits' = permits - 1 /\ pc'[t] = "body"
    BY <1>1, <1>12 DEF Reacquire, Goto
  <2>2. t \in Workers /\ Sheds /\ ~Sheds' /\ ~Gives /\ ~Gives'
    BY <1>1, <1>5, <2>1 DEF Threads, Shedding
  <2> QED BY <1>1, <1>2, <2>1, <2>2 DEF One
<1>13. CASE Wake(t) /\ permits # 0
  <2>1. pc[t] = "wake" /\ permits' = permits - 1 /\ pc'[t] = "wakePop" /\ UNCHANGED frames
    BY <1>1, <1>13 DEF Wake, Goto
  <2>2. (Sheds' <=> Sheds) /\ ~Gives /\ Gives'
    BY <1>1, <1>3, <1>5, <2>1
  <2> QED BY <1>1, <1>2, <2>1, <2>2 DEF One
<1>14. CASE WakePop(t) /\ parkedIds = <<>>
  <2>1. pc[t] = "wakePop" /\ permits' = permits /\ pc'[t] = "giveBack" /\ UNCHANGED frames
    BY <1>1, <1>14 DEF WakePop, Goto
  <2>2. (Sheds' <=> Sheds) /\ Gives /\ Gives'
    BY <1>1, <1>3, <1>5, <2>1
  <2> QED BY <1>2, <2>1, <2>2
<1>15. CASE (Wake(t) /\ permits = 0) \/ GiveBack(t) \/ Unpark(t)
  <2>1. /\ pc[t] \in {"wake", "giveBack", "unpark"} /\ Resume(t, toEnqueue[t])
        /\ permits' = permits + One(Gives)
    BY <1>1, <1>15 DEF Wake, GiveBack, Unpark, One
  <2>2. (Sheds' <=> Sheds) /\ ~Gives'
    BY <1>1, <1>4, <1>5, <2>1
  <2> QED BY <1>1, <1>2, <2>1, <2>2 DEF One
<1> QED BY <1>7, <1>8, <1>9, <1>10, <1>11, <1>12, <1>13, <1>14, <1>15 DEF TaskStep

\* A wake-up gives the permit to the worker it takes off the list.
LEMMA WakeUpsConserve ==
  ASSUME PoolInv, PoolInv', ParkInv, PermitsConserved, NEW t \in Threads, MovesAlone(t),
         WakePop(t), parkedIds # <<>>
  PROVE  PermitsConserved'
<1> USE DEF ParkSteps
<1>1. /\ parkedIds \in Seq(Workers) /\ ListedOnce /\ pc \in [Threads -> Places]
  BY DEF PoolInv, PoolTypeOK, PlaceTypeOK, Places, BudgetTypeOK, ParkInv
<1>2. PICK v \in Workers :
        /\ v = parkedIds[Len(parkedIds)] /\ parkedIds' = SubSeq(parkedIds, 1, Len(parkedIds) - 1)
        /\ pc[t] = "wakePop" /\ pc'[t] = "unpark"
        /\ UNCHANGED <<permits, holdingSlot, frames, script>>
  <2>1. parkedIds[Len(parkedIds)] \in Workers
    BY <1>1, EmptySeq
  <2> QED BY <1>1, <2>1 DEF WakePop, Goto, waits
<1>3. Listed(v) /\ ListedOnce' /\ \A w \in Workers : Listed(w)' <=> Listed(w) /\ w # v
  BY <1>1, <1>2, ListWithoutLast
<1>4. pc[v] \in ParkSteps /\ v \in Threads \ {t} /\ pc'[v] = pc[v]
  BY <1>2, <1>3 DEF ParkInv, ParkFits, Threads, MovesAlone
<1>5. \A w \in Workers \ {t} : pc'[w] = pc[w] /\ frames'[w] = frames[w]
  BY DEF MovesAlone, Threads
<1>6. Running' = Running
  <2>1. \A u \in Workers : Waits(u)' <=> Waits(u)
    BY <1>2, SameStack DEF Threads
  <2>2. \A u \in Workers : Shedding(u)' <=> Shedding(u)
    BY <1>2, <1>5, <2>1 DEF Shedding
  <2> QED BY <1>2, <1>5, <2>2 DEF Running
<1>7. Granted' = Granted \cup {v} /\ v \notin Granted
  <2>1. \A w \in Workers : pc'[w] \in ParkSteps <=> pc[w] \in ParkSteps
    BY <1>2, <1>5
  <2> QED BY <1>3, <1>4, <2>1 DEF Granted
<1>8. Passing = Passing' \cup {t} /\ t \notin Passing'
  <2>1. \A u \in Threads \ {t} : pc'[u] = pc[u]
    BY DEF MovesAlone
  <2> QED BY <1>2, <2>1 DEF Passing
<1>9. Cardinality(Granted') = Cardinality(Granted) + 1
  BY <1>7, FiniteThreads, FS_AddElement
<1>10. Cardinality(Passing) = Cardinality(Passing') + 1 /\ Cardinality(Passing') \in Nat
  <2>1. IsFiniteSet(Passing')
    BY <1>8, FiniteThreads, FS_Subset
  <2> QED BY <1>8, <2>1, FS_AddElement, FS_CardinalityType
<1>11. PICK p \in Nat, r \in Nat, g \in Nat, q \in Nat :
         /\ p = permits /\ r = Cardinality(Running) /\ g = Cardinality(Granted) /\ q = Cardinality(Passing')
  BY <1>10, FiniteThreads DEF PoolInv, PoolTypeOK, BudgetTypeOK
<1>12. p + r + g + (q + 1) = Target
  BY <1>10, <1>11 DEF PermitsConserved
<1>13. p + r + (g + 1) + q = Target
  BY <1>12
<1> QED BY <1>2, <1>6, <1>9, <1>11, <1>13 DEF PermitsConserved

\* In the loop, too; a worker that parks gives its permit up before, and has
\* one again when it stops parking if a waker has given it one or it took one itself.
LEMMA WorkerStepsConserve ==
  ASSUME PoolInv, ParkInv, PermitsConserved, NEW w \in Workers, MovesAlone(w), WorkerStep(w), PoolInv'
  PROVE  PermitsConserved'
<1> USE DEF ParkSteps
<1> DEFINE Has == holdingSlot[w] /\ pc[w] \notin ParkSteps \cup {"park"}
           Given == pc[w] \in ParkSteps /\ ~Listed(w)
           Gives == pc[w] \in {"unlist", "returnPermit"}
<1>1. /\ w \in Threads /\ pc \in [Threads -> Places] /\ holdingSlot \in [Workers -> BOOLEAN]
      /\ permits \in Nat /\ permits' \in Nat /\ parkedIds \in Seq(Workers) /\ ListedOnce /\ ParkFits(w)
      /\ PermitFits(w)
  BY DEF Threads, PoolInv, PoolTypeOK, PlaceTypeOK, Places, BudgetTypeOK, ThreadInv, ParkInv
<1>2. pc[w] \in InLoop /\ UNCHANGED frames
  BY DEF WorkerStep, StartWorker, PopLocal, TakeBatch, Refill, Steal, CheckStopping, ReleaseSlot, Park,
     Recheck, RecheckPermit, UnlistSelf, ReturnPermit, Sleep, Woken, Unparked,
     InLoop, WithPermit, WithoutPermit
<1>3. ~Shedding(w) /\ ~Shedding(w)' /\ pc[w] \notin {"wakePop", "giveBack"}
  <2>1. frames[w] = <<>>
    BY <1>1, <1>2 DEF PoolInv, ThreadInv, StackFits, InLoop, WithPermit, WithoutPermit, InTask, InWait, Handing
  <2> QED BY <1>2, <2>1 DEF Shedding, InLoop, WithPermit, WithoutPermit
<1>4. Own(w) = One(Has) + One(Given) + One(Gives)
  BY <1>1, <1>3 DEF Own, Running, Granted, Passing, One
<1>5. pc'[w] \notin {"wakePop", "giveBack"} => Own(w)' = One(Has') + One(Given') + One(Gives')
  BY <1>1, <1>3 DEF Own, Running, Granted, Passing, One
<1>6. ASSUME permits' + One(Has') + One(Given') + One(Gives') = permits + One(Has) + One(Given) + One(Gives),
             pc'[w] \notin {"wakePop", "giveBack"}, \A v \in Workers \ {w} : Listed(v)' <=> Listed(v)
      PROVE  PermitsConserved'
  <2>1. PICK a, b, c, a1, b1, c1 \in Nat :
          /\ One(Has) = a /\ One(Given) = b /\ One(Gives) = c
          /\ One(Has') = a1 /\ One(Given') = b1 /\ One(Gives') = c1
    BY DEF One
  <2>2. permits' + (a1 + b1 + c1) = permits + (a + b + c)
    <3>1. permits' + a1 + b1 + c1 = permits + a + b + c
      BY <1>6, <2>1
    <3>2. PICK m, n \in Nat : m = permits /\ n = permits'
      BY <1>1
    <3>3. n + a1 + b1 + c1 = m + a + b + c
      BY <3>1, <3>2
    <3>4. n + (a1 + b1 + c1) = m + (a + b + c)
      BY <3>3
    <3> QED BY <3>2, <3>4
  <2>3. permits' + Own(w)' = permits + Own(w)
    BY <1>4, <1>5, <1>6, <2>1, <2>2
  <2>4. \A u \in Threads \ {w} : /\ u \in Running' <=> u \in Running
                                 /\ u \in Granted' <=> u \in Granted
                                 /\ u \in Passing' <=> u \in Passing
    <3>1. \A u \in Threads \ {w} : u \notin Workers => u \notin Granted /\ u \notin Granted'
      BY DEF Granted
    <3> QED BY <1>1, <1>6, <3>1, OthersKeepPermits
  <2> QED BY <1>1, <2>3, <2>4, OwnStep
<1>7. ASSUME UNCHANGED parkedIds PROVE \A v \in Workers : Listed(v)' <=> Listed(v)
  BY <1>7 DEF Listed
<1>8. CASE StartWorker(w)
  <2>1. /\ pc[w] = "start" /\ pc'[w] = "loop" /\ holdingSlot'[w] = (permits > 0) /\ UNCHANGED parkedIds
        /\ permits' = IF permits > 0 THEN permits - 1 ELSE permits
    BY <1>1, <1>8 DEF StartWorker, Goto
  <2>2. ~Has /\ ~Given /\ ~Gives /\ (Has' <=> permits > 0) /\ ~Given' /\ ~Gives'
    BY <1>1, <2>1 DEF PermitFits, WithoutPermit
  <2> QED BY <1>1, <1>6, <1>7, <2>1, <2>2 DEF One
<1>9. CASE PopLocal(w) \/ TakeBatch(w) \/ Refill(w) \/ Steal(w) \/ CheckStopping(w)
  <2>1. /\ UNCHANGED <<permits, holdingSlot, parkedIds>>
        /\ pc[w] \in {"loop", "refilled", "batch", "refill", "steal", "stop?"}
    BY <1>9 DEF PopLocal, TakeBatch, Refill, Steal, CheckStopping, budget
  <2>2. \/ pc'[w] \in {"claim", "steal", "batch", "stop?", "refill", "refilled", "exit", "exited", "release"}
        \/ pc'[w] = "park" /\ ~holdingSlot[w]
    <3>1. PICK step \in {"claim", "steal", "batch", "stop?", "refill", "refilled", "exit", "exited",
                         "release", "park"} :
            (Goto(w, step) \/ (pc' = pc /\ pc[w] = "steal")) /\ (step = "park" => ~holdingSlot[w])
      BY <1>9 DEF PopLocal, TakeBatch, Refill, Steal, CheckStopping
    <3> QED BY <1>1, <3>1 DEF Goto
  <2>3. (Has' <=> Has) /\ ~Given /\ ~Gives /\ ~Given' /\ ~Gives'
    BY <2>1, <2>2
  <2> QED BY <1>6, <1>7, <2>1, <2>2, <2>3
<1>10. CASE ReleaseSlot(w)
  <2>1. /\ pc[w] \in {"release", "exit"} /\ pc'[w] \in {"park", "exited"} /\ ~holdingSlot'[w]
        /\ permits' = permits + 1 /\ UNCHANGED parkedIds
    BY <1>1, <1>10 DEF ReleaseSlot, Goto
  <2>2. Has /\ ~Given /\ ~Gives /\ ~Has' /\ ~Given' /\ ~Gives'
    BY <1>1, <2>1 DEF PermitFits, WithPermit
  <2> QED BY <1>1, <1>6, <1>7, <2>1, <2>2 DEF One
<1>11. CASE Park(w)
  <2>1. /\ pc[w] = "park" /\ pc'[w] = "recheck" /\ permits' = permits /\ parkedIds' = Append(parkedIds, w)
        /\ ~Listed(w)
    BY <1>1, <1>11 DEF Park, Goto, ParkFits
  <2>2. \A v \in Workers : Listed(v)' <=> Listed(v) \/ v = w
    BY <1>1, <2>1, ListWith
  <2>3. ~Has /\ ~Given /\ ~Gives /\ ~Has' /\ ~Given' /\ ~Gives'
    BY <2>1, <2>2
  <2> QED BY <1>6, <2>1, <2>2, <2>3
<1>12. CASE Recheck(w) \/ Sleep(w) \/ (RecheckPermit(w) /\ permits = 0)
            \/ (Woken(w) /\ workerState[w] # "Active") \/ (UnlistSelf(w) /\ ~Listed(w))
  <2>1. /\ pc[w] \in ParkSteps /\ pc'[w] \in ParkSteps /\ permits' = permits /\ UNCHANGED parkedIds
        /\ pc'[w] \in {"unlist", "returnPermit"} <=> pc[w] \in {"unlist", "returnPermit"}
    BY <1>1, <1>12 DEF Recheck, Sleep, RecheckPermit, Woken, UnlistSelf, Goto, budget
  <2>2. ~Has /\ ~Has' /\ (Given' <=> Given) /\ (Gives' <=> Gives)
    BY <1>7, <2>1
  <2> QED BY <1>6, <1>7, <2>1, <2>2
<1>13. CASE RecheckPermit(w) /\ permits # 0
  <2>1. /\ pc[w] = "recheckPermit" /\ pc'[w] = "unlist" /\ permits' = permits - 1 /\ UNCHANGED parkedIds
    BY <1>1, <1>13 DEF RecheckPermit, Goto
  <2>2. ~Has /\ ~Has' /\ (Given' <=> Given) /\ ~Gives /\ Gives'
    BY <1>7, <2>1
  <2>3. One(Given') = One(Given) /\ One(Given) \in Nat
    BY <2>2 DEF One
  <2> QED BY <1>1, <1>6, <1>7, <2>1, <2>2, <2>3 DEF One
<1>14. CASE UnlistSelf(w) /\ Listed(w)
  <2>1. /\ pc[w] = "unlist" /\ pc'[w] = "loop" /\ holdingSlot'[w] /\ permits' = permits /\ Unlist(w)
    BY <1>1, <1>14 DEF UnlistSelf, Goto
  <2>2. \A v \in Workers : Listed(v)' <=> Listed(v) /\ v # w
    BY <1>1, <2>1, ListWithout
  <2>3. ~Has /\ ~Given /\ Gives /\ Has' /\ ~Given' /\ ~Gives'
    BY <1>14, <2>1
  <2> QED BY <1>1, <1>6, <2>1, <2>2, <2>3 DEF One
<1>15. CASE ReturnPermit(w)
  <2>1. /\ pc[w] = "returnPermit" /\ pc'[w] = "loop" /\ holdingSlot'[w] /\ permits' = permits + 1
        /\ UNCHANGED parkedIds /\ ~Listed(w)
    BY <1>1, <1>15 DEF ReturnPermit, Goto, ParkFits
  <2>2. ~Has /\ Given /\ Gives /\ Has' /\ ~Given' /\ ~Gives'
    BY <2>1
  <2> QED BY <1>1, <1>6, <1>7, <2>1, <2>2 DEF One
<1>16. CASE (Woken(w) /\ workerState[w] = "Active") \/ (Unparked(w) /\ ~Listed(w))
  <2>1. /\ pc[w] \in {"woken", "unparked"} /\ pc'[w] = "loop" /\ holdingSlot'[w] /\ permits' = permits
        /\ UNCHANGED parkedIds /\ ~Listed(w)
    BY <1>1, <1>16 DEF Woken, Unparked, Goto, ParkFits
  <2>2. ~Has /\ Given /\ ~Gives /\ Has' /\ ~Given' /\ ~Gives'
    BY <2>1
  <2> QED BY <1>1, <1>6, <1>7, <2>1, <2>2 DEF One
<1>17. CASE Unparked(w) /\ Listed(w)
  <2>1. /\ pc[w] = "unparked" /\ pc'[w] = "loop" /\ ~holdingSlot'[w] /\ permits' = permits /\ Unlist(w)
    BY <1>1, <1>17 DEF Unparked, Goto
  <2>2. \A v \in Workers : Listed(v)' <=> Listed(v) /\ v # w
    BY <1>1, <2>1, ListWithout
  <2>3. ~Has /\ ~Given /\ ~Gives /\ ~Has' /\ ~Given' /\ ~Gives'
    BY <1>17, <2>1
  <2> QED BY <1>6, <2>1, <2>2, <2>3
<1> QED BY <1>8, <1>9, <1>10, <1>11, <1>12, <1>13, <1>14, <1>15, <1>16, <1>17 DEF WorkerStep

\* The destructor has nothing to do with permits.
LEMMA DestructorConserves ==
  ASSUME PoolInv, PermitsConserved, MainStep, MovesAlone(Main)
  PROVE  PermitsConserved'
<1>1. /\ Main \in Threads /\ Main \notin Workers /\ UNCHANGED <<permits, parkedIds>>
      /\ pc \in [Threads -> Places] /\ phase \in {"drainMain", "drain", "tail"}
  BY TaskSystemAssumption
     DEF Threads, PoolInv, PoolTypeOK, PlaceTypeOK, Places, MainStep, Destroy, DrainMain, StopWorker, StopUnpark,
         DrainShared, Join, budget
<1>2. \A u \in Threads \ {Main} : /\ u \in Running' <=> u \in Running
                                  /\ u \in Granted' <=> u \in Granted
                                  /\ u \in Passing' <=> u \in Passing
  <2>1. \A u \in Threads : Listed(u)' <=> Listed(u)
    BY <1>1 DEF Listed
  <2> QED BY <1>1, <2>1, OthersKeepPermits
<1>3. pc[Main] \in {"body", "drainMain", "drain", "tail", "drainShared", "join", "stop", "stopUnpark"}
  BY DEF MainStep, Destroy, DrainMain, StopWorker, StopUnpark, DrainShared, Join
<1>4. PICK step \in {"body", "stop", "stopUnpark", "drain", "drainShared", "claim", "join", "end", "tail", phase} :
        Goto(Main, step)
  BY DEF MainStep, Destroy, Leave, Return, DrainMain, StopWorker, StopUnpark, DrainShared, Join,
         PoolInv, PoolTypeOK
<1>5. pc'[Main] \notin {"wakePop", "giveBack", "unlist", "returnPermit"}
  BY <1>1, <1>4 DEF Goto
<1>6. /\ Main \notin Running /\ Main \notin Granted /\ Main \notin Passing
      /\ Main \notin Running' /\ Main \notin Granted' /\ Main \notin Passing'
  BY <1>1, <1>3, <1>5 DEF Running, Granted, Passing
<1>7. Running' = Running /\ Granted' = Granted /\ Passing' = Passing
  <2>1. /\ Running \subseteq Threads /\ Granted \subseteq Threads /\ Passing \subseteq Threads
        /\ Running' \subseteq Threads /\ Granted' \subseteq Threads /\ Passing' \subseteq Threads
    BY DEF Running, Granted, Passing, Threads
  <2> QED BY <1>2, <1>6, <2>1
<1> QED BY <1>1, <1>7 DEF PermitsConserved

\* All of it together.
PermitInv == PoolInv /\ ParkInv /\ PermitsConserved

(* At the start all the permits are free. *)
LEMMA PermitsStart == Init => PermitInv
<1> SUFFICES ASSUME Init PROVE PermitInv
  OBVIOUS
<1>1. PoolInv /\ ParkInv
  BY PoolStarts, ParkingStarts
<1>2. Running = {} /\ Granted = {} /\ Passing = {}
  BY TaskSystemAssumption DEF Init, Running, Granted, Passing, ParkSteps, Threads
<1>3. permits = Target /\ Target \in Nat
  BY TaskSystemAssumption DEF Init
<1>4. permits + 0 + 0 + 0 = Target
  BY <1>3
<1>5. PermitsConserved
  BY <1>2, <1>4, FS_EmptySet DEF PermitsConserved
<1> QED BY <1>1, <1>5 DEF PermitInv

(* Every step gives as many permits as it takes. *)
LEMMA PermitSteps ==
  ASSUME PermitInv, [Next]_vars
  PROVE  PermitInv'
<1>1. PoolInv /\ ParkInv /\ PermitsConserved /\ PoolInv' /\ ParkInv'
  BY PoolSteps, ParkingSteps DEF PermitInv
<1>2. CASE UNCHANGED vars
  <2>1. Running' = Running /\ Granted' = Granted /\ Passing' = Passing /\ permits' = permits
    BY <1>2 DEF vars, budget, waits, Running, Granted, Passing, Shedding, Waits, Over, Top, Call, Listed
  <2> QED BY <1>1, <2>1 DEF PermitsConserved, PermitInv
<1>3. ASSUME NEW t \in Threads, TaskStep(t), MovesAlone(t) PROVE PermitsConserved'
  <2>1. CASE WakePop(t) /\ parkedIds # <<>>
    BY <1>1, <1>3, <2>1, WakeUpsConserve
  <2>2. CASE ~(WakePop(t) /\ parkedIds # <<>>)
    <3>1. permits' + Own(t)' = permits + Own(t)
      BY <1>1, <1>3, <2>2, TaskStepsConserve
    <3>2. permits \in Nat /\ permits' \in Nat
      BY <1>1 DEF PoolInv, PoolTypeOK, BudgetTypeOK
    <3>3. UNCHANGED parkedIds
      BY <1>3, <2>2 DEF TaskStep, Launch, Enqueue, WaitLooks, Attach, WaitAllLooks, AttachAll, Shed, Latched,
         Reacquire, RunMain, Claim, Complete, Wake, WakePop, GiveBack, Unpark, budget
    <3>4. \A u \in Threads : Listed(u)' <=> Listed(u)
      BY <3>3 DEF Listed
    <3> QED BY <1>1, <1>3, <3>1, <3>2, <3>4, OwnStep, OthersKeepPermits
  <2> QED BY <2>1, <2>2
<1>4. ASSUME NEW w \in Workers, WorkerStep(w), MovesAlone(w) PROVE PermitsConserved'
  BY <1>1, <1>4, WorkerStepsConserve
<1>5. ASSUME MainStep, MovesAlone(Main) PROVE PermitsConserved'
  BY <1>1, <1>5, DestructorConserves
<1> QED BY <1>1, <1>2, <1>3, <1>4, <1>5, PoolSteps DEF PermitInv

\* What is always so of places, stacks, queues, list, sleepers and permits.
LEMMA PermitInvariant == Spec => []PermitInv
<1>1. Init => PermitInv
  BY PermitsStart
<1>2. PermitInv /\ [Next]_vars => PermitInv'
  BY PermitSteps
<1> QED BY <1>1, <1>2, PTL DEF Spec

-----------------------------------------------------------------------------
(* The theorems on permits, list and sleepers.                             *)

\* For any number of workers and any budget, however wake-ups, waits, parking and
\* stops interleave, no permit is lost and none made up: wakeOneIfUnderTarget,
\* shed and reacquire in waitOnLatch, parkWorker and the worker loop take and
\* give back m_activeSlots in step.
THEOREM NoPermitIsLost == Spec => []PermitsConserved
<1>1. PermitInv => PermitsConserved
  BY DEF PermitInv
<1> QED BY <1>1, PermitInvariant, PTL

\* m_parkedWorkerIds names every worker once at most, and only workers that are
\* parking or asleep and that no waker has made active.
THEOREM ParkedListNamesWhoParks == Spec => []ParkedListIsExact
<1>1. PermitInv => ParkedListIsExact
  BY DEF PermitInv, ParkInv, ListedOnce, ParkFits, ParkedListIsExact
<1> QED BY <1>1, PermitInvariant, PTL

\* No worker sleeps through the wake-up or the stop that is meant for it:
\* parkWorker's validation, and the unparkOne that comes after the state is set.
THEOREM SleepersAreRemembered == Spec => []NoSleeperForgotten
<1>1. PermitInv => NoSleeperForgotten
  <2> SUFFICES ASSUME PermitInv, NEW w \in asleep
               PROVE  /\ ~Listed(w) => workerState[w] = "Active"
                      /\ workerState[w] = "Active" => \E t \in Threads : pc[t] = "unpark" /\ waking[t] = w
                      /\ stopping[w] => pc[Main] = "stopUnpark" /\ next[Main] = w
    BY DEF NoSleeperForgotten
  <2>1. ParkFits(w)
    BY DEF PermitInv, PoolInv, PoolTypeOK, BudgetTypeOK, ParkInv
  <2> QED BY <2>1 DEF ParkFits, ParkSteps
<1> QED BY <1>1, PermitInvariant, PTL

-----------------------------------------------------------------------------
(* What becomes of the tasks.                                              *)

Launches(h) ==
  /\ status[h] = "absent" /\ \A p \in Needs[h] : status[p] # "absent"
  /\ status' = [status EXCEPT ![h] = IF \A p \in Needs[h] : Done(p) THEN "ready" ELSE "waiting"]

Runs(h) == status[h] = "ready" /\ status' = [status EXCEPT ![h] = "running"]

Unblocked(h) == {d \in Tasks : status[d] = "waiting" /\ \A p \in Needs[d] \ {h} : Done(p)}

Completes(h) ==
  status' = [d \in Tasks |-> IF d = h THEN "done" ELSE IF d \in Unblocked(h) THEN "ready" ELSE status[d]]

SameTasks(t) == \A g \in Tasks : OnStack(t, g)' <=> OnStack(t, g)

LeftBy(t, h) ==
  \A g \in Tasks : (OnStack(t, g) => OnStack(t, g)' \/ g = h) /\ (OnStack(t, g)' => OnStack(t, g))

\* A thread launches tasks, goes on, begins one, or comes to the end of one.
Moved(t) ==
  \/ SameTasks(t) /\ (UNCHANGED status \/ \E h \in Tasks : Launches(h))
  \/ \E h \in Tasks : Runs(h) /\ \A g \in Tasks : OnStack(t, g)' <=> OnStack(t, g) \/ g = h
  \/ \E h \in Tasks : OnStack(t, h) /\ Completes(h) /\ LeftBy(t, h)
  \/ \E h \in Programs : UNCHANGED status /\ (h \in Tasks => Done(h)) /\ LeftBy(t, h)

\* So what runs is on a stack.
LEMMA RunningKept ==
  ASSUME status \in [Tasks -> {"absent", "waiting", "ready", "running", "done"}], RunningIsSomewhere,
         NEW t \in Threads, MovesAlone(t), Moved(t)
  PROVE  RunningIsSomewhere'
<1>1. \A u \in Threads \ {t} : \A g \in Tasks : OnStack(u, g)' <=> OnStack(u, g)
  BY SameStack DEF MovesAlone
<1>2. ASSUME NEW g \in Tasks, status'[g] = "running" PROVE \E u \in Threads : OnStack(u, g)'
  <2>1. CASE status[g] = "running" /\ ~(Done(g)')
    <3>1. PICK u \in Threads : OnStack(u, g)
      BY <2>1 DEF RunningIsSomewhere
    <3>2. CASE u # t
      BY <1>1, <3>1, <3>2
    <3>3. CASE u = t
      <4>1. SameTasks(t) \/ OnStack(t, g)' \/ \E h \in Programs : LeftBy(t, h) /\ (h \in Tasks => h # g)
        BY <1>2, <2>1, <3>1, <3>3 DEF Moved, Completes, Done, Programs
      <4> QED BY <3>1, <3>3, <4>1 DEF SameTasks, LeftBy
    <3> QED BY <3>2, <3>3
  <2>2. CASE status[g] # "running"
    <3>1. PICK h \in Tasks : Runs(h) /\ OnStack(t, h)' /\ g = h
      BY <1>2, <2>2 DEF Moved, Launches, Runs, Completes
    <3> QED BY <3>1
  <2> QED BY <1>2, <2>1, <2>2 DEF Done
<1>3. ASSUME NEW g \in Tasks, NEW u \in Threads, OnStack(u, g)' PROVE status'[g] \in {"running", "done"}
  <2>1. OnStack(u, g) \/ Runs(g)
    BY <1>1, <1>3 DEF Moved, SameTasks, LeftBy
  <2>2. CASE Runs(g)
    BY <2>2 DEF Runs
  <2>3. CASE OnStack(u, g)
    <3>1. status[g] \in {"running", "done"}
      BY <2>3 DEF RunningIsSomewhere
    <3> QED BY <3>1 DEF Moved, Launches, Runs, Completes, Unblocked
  <2> QED BY <2>1, <2>2, <2>3
<1> QED BY <1>2, <1>3 DEF RunningIsSomewhere

\* And what waits does so for a task that was there before it.
LEMMA WaitingKept ==
  ASSUME status \in [Tasks -> {"absent", "waiting", "ready", "running", "done"}],
         RunningIsSomewhere, WaitingIsForSomething, NEW t \in Threads, Moved(t)
  PROVE  WaitingIsForSomething'
<1> DEFINE There == {h \in Tasks : status[h] # "absent"}
<1>1. \A h \in Tasks : Needs[h] \in SUBSET Tasks
  BY TaskSystemAssumption
<1>2. ASSUME There' = There PROVE /\ \A h \in Tasks : status'[h] # "absent" => \A p \in Needs[h] : status'[p] # "absent"
                                  /\ \A S \in SUBSET There' : S # {} => \E h \in S : Needs[h] \cap S = {}
  <2>1. \A S \in SUBSET There : S # {} => \E h \in S : Needs[h] \cap S = {}
    BY DEF WaitingIsForSomething
  <2>2. \A h \in Tasks : status'[h] # "absent" <=> status[h] # "absent"
    BY <1>2
  <2> QED BY <1>1, <1>2, <2>1, <2>2 DEF WaitingIsForSomething
<1>3. CASE UNCHANGED status
  BY <1>3 DEF WaitingIsForSomething, Done
<1>4. ASSUME NEW h \in Tasks, Runs(h) PROVE WaitingIsForSomething'
  <2>1. There' = There
    BY <1>4 DEF Runs
  <2>2. \A d \in Tasks : (status'[d] = "waiting" <=> status[d] = "waiting") /\ (Done(d)' <=> Done(d))
    BY <1>4 DEF Runs, Done
  <2> QED BY <1>1, <1>2, <2>1, <2>2 DEF WaitingIsForSomething
<1>5. ASSUME NEW h \in Tasks, OnStack(t, h), Completes(h) PROVE WaitingIsForSomething'
  <2>1. status[h] # "absent"
    BY <1>5 DEF RunningIsSomewhere
  <2>2. There' = There
    BY <1>5, <2>1 DEF Completes, Unblocked
  <2>3. ASSUME NEW d \in Tasks, status'[d] = "waiting" PROVE \E p \in Needs[d] : ~(Done(p)')
    <3>1. status[d] = "waiting" /\ d \notin Unblocked(h)
      BY <1>5, <2>3 DEF Completes
    <3>2. PICK p \in Needs[d] \ {h} : ~Done(p)
      BY <3>1 DEF Unblocked
    <3> QED BY <1>1, <1>5, <3>2 DEF Completes, Done
  <2> QED BY <1>2, <2>2, <2>3 DEF WaitingIsForSomething
<1>6. ASSUME NEW h \in Tasks, Launches(h) PROVE WaitingIsForSomething'
  <2>1. /\ status[h] = "absent" /\ \A p \in Needs[h] : status[p] # "absent"
        /\ \A d \in Tasks \ {h} : status'[d] = status[d]
        /\ status'[h] = IF \A p \in Needs[h] : Done(p) THEN "ready" ELSE "waiting"
    BY <1>6 DEF Launches
  <2>2. There' = There \cup {h} /\ h \notin There
    BY <2>1
  <2>3. \A d \in There' : Needs[d] \subseteq There
    BY <1>1, <2>1, <2>2 DEF WaitingIsForSomething
  <2>4. ASSUME NEW d \in Tasks, status'[d] = "waiting" PROVE \E p \in Needs[d] : ~(Done(p)')
    <3>1. \E p \in Needs[d] : ~Done(p)
      BY <2>1, <2>4 DEF WaitingIsForSomething
    <3>2. \A p \in Needs[d] : p \in Tasks \ {h}
      BY <2>2, <2>3, <2>4
    <3> QED BY <2>1, <3>1, <3>2 DEF Done
  <2>5. ASSUME NEW S \in SUBSET There', S # {} PROVE \E d \in S : Needs[d] \cap S = {}
    <3>1. CASE S \ {h} = {}
      BY <2>2, <2>3, <2>5, <3>1
    <3>2. CASE S \ {h} # {}
      <4>1. S \ {h} \in SUBSET There
        BY <2>2, <2>5
      <4>2. PICK d \in S \ {h} : Needs[d] \cap (S \ {h}) = {}
        BY <3>2, <4>1 DEF WaitingIsForSomething
      <4> QED BY <2>2, <2>3, <4>1, <4>2
    <3> QED BY <3>1, <3>2
  <2> QED BY <2>2, <2>3, <2>4, <2>5 DEF WaitingIsForSomething
<1> QED BY <1>3, <1>4, <1>5, <1>6 DEF Moved

\* Going on after a task or a wake-up, a thread leaves at most a task that is over.
LEMMA ResumeMoves ==
  ASSUME StackTypeOK, NEW t \in Threads, frames[t] # <<>>, NEW left, Resume(t, left), UNCHANGED script
  PROVE  SameTasks(t) \/ (Over(t) /\ LeftBy(t, Top(t).name))
<1>1. CASE UNCHANGED frames
  BY <1>1, SameStack DEF SameTasks
<1>2. CASE Advance(t)
  BY <1>2, AdvanceStacks DEF SameTasks
<1>3. CASE Leave(t) /\ Over(t)
  BY <1>3, LeaveStacks DEF LeftBy
<1> QED BY <1>1, <1>2, <1>3 DEF Resume

(* In a task's steps a thread's frames change only by its call going on, a task going on
   top of the stack, or the finished one leaving it. *)
LEMMA TaskStepsMove ==
  ASSUME PoolInv, NEW t \in Threads, TaskStep(t)
  PROVE  Moved(t)
<1> USE DEF InTask, InWait, Handing
<1>1. /\ StackTypeOK /\ (pc[t] \in InTask => frames[t] # <<>>) /\ UNCHANGED script
      /\ pc[t] \in Handing /\ Over(t) => Top(t).name \in Tasks /\ status[Top(t).name] = "done"
  <2>1. UNCHANGED script
    BY DEF TaskStep, Launch, Enqueue, WaitLooks, Attach, WaitAllLooks, AttachAll, Shed, Latched, Reacquire,
           RunMain, Claim, Complete, Wake, WakePop, GiveBack, Unpark, waits
  <2> QED BY <2>1 DEF PoolInv, PoolTypeOK, ThreadInv, StackFits, CallFits
<1>2. ASSUME UNCHANGED frames PROVE SameTasks(t)
  BY <1>1, <1>2, SameStack DEF SameTasks
<1>3. ASSUME Advance(t), frames[t] # <<>> PROVE SameTasks(t)
  BY <1>1, <1>3, AdvanceStacks DEF SameTasks
<1>4. ASSUME NEW h \in Tasks, Enter(t, h), status[h] = "ready", status' = [status EXCEPT ![h] = "running"]
      PROVE  Moved(t)
  <2>1. \A g \in Tasks : OnStack(t, g)' <=> OnStack(t, g) \/ g = h
    BY <1>1, <1>4, EnterStacks DEF Programs
  <2> QED BY <1>4, <2>1 DEF Moved, Runs
<1>5. CASE Launch(t)
  <2>1. /\ pc[t] = "body" /\ ~Over(t) /\ Call(t).op = "launch" /\ frames[t] # <<>>
    BY <1>1, <1>5 DEF Launch, Calling
  <2>2. TaskOf(t) \in Tasks
    BY <1>1, <2>1, NamedTask
  <2>3. Launches(TaskOf(t)) /\ (UNCHANGED frames \/ Advance(t))
    BY <1>5 DEF Launch, Launches
  <2> QED BY <1>2, <1>3, <2>1, <2>2, <2>3 DEF Moved
<1>6. CASE WaitLooks(t)
  <2>1. /\ pc[t] = "body" /\ ~Over(t) /\ Call(t).op = "wait" /\ frames[t] # <<>>
    BY <1>1, <1>6 DEF WaitLooks, Calling
  <2>2. TaskOf(t) \in Tasks
    BY <1>1, <2>1, NamedTask
  <2>3. \/ UNCHANGED status /\ (UNCHANGED frames \/ Advance(t))
        \/ MayHelp(TaskOf(t)) /\ Help(t, TaskOf(t))
    BY <1>6 DEF WaitLooks
  <2> QED BY <1>2, <1>3, <1>4, <2>1, <2>2, <2>3 DEF Moved, MayHelp, Help
<1>7. ASSUME NEW frame \in Frames, frame.name = Top(t).name, SetTop(t, frame), frames[t] # <<>>
      PROVE  SameTasks(t)
  BY <1>1, <1>7, SetTopStacks DEF SameTasks
<1>8. ASSUME pc[t] \in {"body", "attachAll"}
      PROVE  /\ frames[t] # <<>> /\ Top(t) \in Frames
             /\ [Top(t) EXCEPT !.at = 1] \in Frames /\ [Top(t) EXCEPT !.at = 1].name = Top(t).name
             /\ [Top(t) EXCEPT !.at = @ + 1] \in Frames /\ [Top(t) EXCEPT !.at = @ + 1].name = Top(t).name
  <2>1. frames[t] # <<>> /\ Top(t) \in Frames
    BY <1>1, <1>8, TopIsAFrame
  <2> QED BY <2>1 DEF Frames
<1>9. CASE WaitAllLooks(t)
  <2> DEFINE blocked == Top(t).blocked \/ ~Done(TaskAt(t))
             further == [Top(t) EXCEPT !.at = @ + 1, !.blocked = blocked]
  <2>1. pc[t] = "body" /\ ~Over(t) /\ frames[t] # <<>> /\ Top(t) \in Frames
    BY <1>1, <1>8, <1>9 DEF WaitAllLooks, Calling
  <2>2. further \in Frames /\ further.name = Top(t).name
    <3> DEFINE moved == [Top(t) EXCEPT !.at = @ + 1]
    <3>1. blocked \in BOOLEAN
      BY DEF Done
    <3> HIDE DEF blocked
    <3>2. moved \in Frames /\ moved.name = Top(t).name
      BY <1>8, <2>1
    <3>3. further = [moved EXCEPT !.blocked = blocked]
      BY <2>1 DEF Frames
    <3> HIDE DEF moved, further
    <3> QED BY <3>1, <3>2, <3>3 DEF Frames
  <2>3. CASE SpanIsOver(t)
    <3>1. UNCHANGED status /\ (SetTop(t, [Top(t) EXCEPT !.at = 1]) \/ Advance(t))
      BY <1>9, <2>3 DEF WaitAllLooks
    <3> QED BY <1>3, <1>7, <1>8, <2>1, <3>1 DEF Moved
  <2>4. CASE ~SpanIsOver(t) /\ MayHelp(TaskAt(t))
    <3>1. TaskAt(t) \in Tasks
      BY <1>1, <2>1, <2>4, SpannedTask
    <3>2. Help(t, TaskAt(t))
      BY <1>9, <2>4 DEF WaitAllLooks
    <3> QED BY <1>4, <2>4, <3>1, <3>2 DEF MayHelp, Help
  <2>5. CASE ~SpanIsOver(t) /\ ~MayHelp(TaskAt(t))
    <3>1. UNCHANGED status /\ SetTop(t, further)
      BY <1>9, <2>5 DEF WaitAllLooks
    <3> HIDE DEF further
    <3> QED BY <1>7, <2>1, <2>2, <3>1 DEF Moved
  <2> QED BY <2>3, <2>4, <2>5
<1>10. CASE AttachAll(t)
  <2>1. pc[t] = "attachAll" /\ UNCHANGED status /\ (UNCHANGED frames \/ SetTop(t, [Top(t) EXCEPT !.at = @ + 1]))
    BY <1>10 DEF AttachAll
  <2> QED BY <1>2, <1>7, <1>8, <2>1 DEF Moved
<1>11. CASE Attach(t) \/ Shed(t) \/ Latched(t) \/ Reacquire(t) \/ RunMain(t)
  <2>1. pc[t] \in InTask /\ UNCHANGED status /\ (UNCHANGED frames \/ Advance(t))
    BY <1>11 DEF Attach, Shed, Latched, Reacquire, RunMain, Calling
  <2> QED BY <1>1, <1>2, <1>3, <2>1 DEF Moved
<1>12. CASE Claim(t)
  <2> DEFINE h == taken[t][1]
  <2>1. pc[t] = "claim" /\ h \in Tasks
    <3>1. pc[t] = "claim" /\ Len(taken[t]) = 1 /\ taken[t] \in Seq(Tasks)
      BY <1>12 DEF Claim, PoolInv, PoolTypeOK, QueuesTypeOK, ThreadInv, TakenFits
    <3> QED BY <3>1
  <2>2. CASE status[h] = "ready"
    <3>1. Enter(t, h) /\ status' = [status EXCEPT ![h] = "running"]
      BY <1>12, <2>2 DEF Claim
    <3> QED BY <1>4, <2>1, <2>2, <3>1
  <2>3. CASE status[h] # "ready"
    <3>1. frames' = [frames EXCEPT ![t] = frames[t]] /\ UNCHANGED status
      BY <1>12, <2>3 DEF Claim, Return
    <3>2. frames'[t] = frames[t]
      BY <1>1, <3>1 DEF StackTypeOK
    <3>3. SameTasks(t)
      BY <1>1, <3>2, SameStack DEF SameTasks
    <3> QED BY <3>1, <3>3 DEF Moved
  <2> QED BY <2>2, <2>3
<1>13. CASE Complete(t)
  <2>1. /\ pc[t] = "body" /\ Over(t) /\ Top(t).name \in Tasks /\ frames[t] # <<>>
        /\ Completes(Top(t).name) /\ Resume(t, Unblocked(Top(t).name))
    BY <1>1, <1>13 DEF Complete, Completes, Unblocked
  <2>2. OnStack(t, Top(t).name)
    <3>1. Len(frames[t]) \in Nat \ {0}
      BY <1>1, <2>1, TopIsAFrame
    <3> QED BY <3>1 DEF OnStack, Top
  <2>3. LeftBy(t, Top(t).name)
    BY <1>1, <2>1, ResumeMoves DEF SameTasks, LeftBy
  <2> QED BY <2>1, <2>2, <2>3 DEF Moved
<1>14. CASE Enqueue(t) \/ Wake(t) \/ WakePop(t) \/ GiveBack(t) \/ Unpark(t)
  <2>1. /\ pc[t] \in Handing /\ UNCHANGED status
        /\ UNCHANGED frames \/ \E left : Resume(t, left)
    BY <1>14 DEF Enqueue, Wake, WakePop, GiveBack, Unpark
  <2>2. SameTasks(t) \/ (Over(t) /\ LeftBy(t, Top(t).name))
    BY <1>1, <1>2, <2>1, ResumeMoves
  <2> QED BY <1>1, <2>1, <2>2 DEF Moved, Programs, Done
<1> QED BY <1>5, <1>6, <1>9, <1>10, <1>11, <1>12, <1>13, <1>14 DEF TaskStep

\* The loops run nothing themselves, and Main's script is no task.
LEMMA LoopsMove ==
  ASSUME PoolInv
  PROVE  /\ \A w \in Workers : WorkerStep(w) => Moved(w)
         /\ MainStep => Moved(Main)
<1>1. ASSUME NEW t \in Threads, UNCHANGED <<frames, script, status>> PROVE Moved(t)
  BY <1>1, SameStack DEF Moved, SameTasks
<1>2. ASSUME NEW w \in Workers, WorkerStep(w) PROVE Moved(w)
  <2>1. UNCHANGED <<frames, script, status>>
    BY <1>2 DEF WorkerStep, StartWorker, PopLocal, TakeBatch, Refill, Steal, CheckStopping, ReleaseSlot, Park,
       Recheck, RecheckPermit, UnlistSelf, ReturnPermit, Sleep, Woken, Unparked, waits
  <2> QED BY <1>1, <1>2, <2>1 DEF Threads
<1>3. ASSUME MainStep PROVE Moved(Main)
  <2>1. Main \in Threads
    BY DEF Threads
  <2>2. CASE Destroy
    <3>1. /\ StackTypeOK /\ frames[Main] # <<>> /\ Leave(Main) /\ Top(Main).name = Main
          /\ UNCHANGED <<status, script>>
      BY <2>1, <2>2 DEF Destroy, waits, PoolInv, PoolTypeOK, ThreadInv, StackFits, InTask
    <3>2. LeftBy(Main, Main)
      BY <2>1, <3>1, LeaveStacks DEF LeftBy
    <3> QED BY <3>1, <3>2, TaskSystemAssumption DEF Moved, Programs
  <2>3. CASE ~Destroy
    <3>1. UNCHANGED <<frames, script, status>>
      BY <1>3, <2>3 DEF MainStep, DrainMain, StopWorker, StopUnpark, DrainShared, Join, waits
    <3> QED BY <1>1, <2>1, <3>1
  <2> QED BY <2>2, <2>3
<1> QED BY <1>2, <1>3

-----------------------------------------------------------------------------
(* Where ready tasks are.                                                  *)

\* What a queue holds after something is added to it, or taken from its front.
LEMMA HoldsAppended ==
  ASSUME NEW q \in Seq(Tasks), NEW h \in Tasks
  PROVE  /\ \A g : Holds(q, g) \/ g = h => Holds(Append(q, h), g)
         /\ Holds(<<h>>, h)
<1>1. Len(q) \in Nat /\ Len(Append(q, h)) = Len(q) + 1 /\ Append(q, h)[Len(q) + 1] = h
      /\ \A n \in 1 .. Len(q) : Append(q, h)[n] = q[n]
  BY AppendProperties
<1>2. Holds(<<h>>, h)
  BY DEF Holds
<1> QED BY <1>1, <1>2 DEF Holds

(* What a queue holds is its first task or in the rest of it. *)
LEMMA HoldsPopped ==
  ASSUME NEW q \in Seq(Tasks), q # <<>>
  PROVE  Head(q) \in Tasks /\ \A g : Holds(q, g) => Holds(Tail(q), g) \/ Holds(<<Head(q)>>, g)
<1>1. /\ Head(q) \in Tasks /\ Head(q) = q[1] /\ Len(q) \in Nat \ {0} /\ Len(Tail(q)) = Len(q) - 1
      /\ \A n \in 1 .. Len(q) - 1 : Tail(q)[n] = q[n + 1]
  BY EmptySeq
<1>2. ASSUME NEW g, NEW n \in 1 .. Len(q), q[n] = g PROVE Holds(Tail(q), g) \/ Holds(<<Head(q)>>, g)
  <2>1. CASE n = 1
    BY <1>1, <1>2, <2>1, HoldsAppended
  <2>2. CASE n # 1
    <3>1. n - 1 \in 1 .. Len(q) - 1 /\ Tail(q)[n - 1] = g
      BY <1>1, <1>2, <2>2
    <3> QED BY <1>1, <3>1 DEF Holds
  <2> QED BY <2>1, <2>2
<1> QED BY <1>1, <1>2 DEF Holds

(* What a queue holds is in one of the two parts it is cut into. *)
LEMMA HoldsSplit ==
  ASSUME NEW q \in Seq(Tasks), NEW n \in 0 .. Len(q)
  PROVE  \A g : Holds(q, g) => Holds(SubSeq(q, 1, n), g) \/ Holds(SubSeq(q, n + 1, Len(q)), g)
<1> DEFINE len == Len(q)
           front == SubSeq(q, 1, n)
           back == SubSeq(q, n + 1, len)
<1>1. len \in Nat /\ \A m \in 1 .. len : q[m] \in Tasks
  OBVIOUS
<1> HIDE DEF len
<1>2. Len(front) = n /\ \A m \in 1 .. n : front[m] = q[m]
  BY <1>1, SubSeqProperties DEF len
<1>3. Len(back) = len - n /\ \A m \in 1 .. len - n : back[m] = q[m + n]
  BY <1>1, SubSeqProperties DEF len
<1> HIDE DEF front, back
<1>4. ASSUME NEW g, NEW m \in 1 .. len, q[m] = g PROVE Holds(front, g) \/ Holds(back, g)
  <2>1. CASE m <= n
    BY <1>2, <1>4, <2>1 DEF Holds
  <2>2. CASE m > n
    <3>1. m - n \in 1 .. len - n /\ back[m - n] = g
      BY <1>1, <1>3, <1>4, <2>2 DEF len
    <3> QED BY <1>3, <3>1 DEF Holds
  <2> QED BY <1>1, <2>1, <2>2
<1> QED BY <1>4 DEF Holds, front, back, len

(* Two queues joined hold what either of them held. *)
LEMMA HoldsJoined ==
  ASSUME NEW q \in Seq(Tasks), NEW r \in Seq(Tasks)
  PROVE  \A g : Holds(q, g) \/ Holds(r, g) => Holds(q \o r, g)
<1>1. /\ Len(q) \in Nat /\ Len(r) \in Nat /\ Len(q \o r) = Len(q) + Len(r)
      /\ \A n \in 1 .. Len(q) : (q \o r)[n] = q[n]
      /\ \A n \in 1 .. Len(r) : (q \o r)[Len(q) + n] = r[n]
  BY ConcatProperties
<1>2. \A n \in 1 .. Len(r) : Len(q) + n \in 1 .. Len(q) + Len(r)
  BY <1>1
<1>3. \A n \in 1 .. Len(q) : n \in 1 .. Len(q) + Len(r)
  BY <1>1
<1>4. ASSUME NEW g, Holds(q, g) PROVE Holds(q \o r, g)
  BY <1>1, <1>3, <1>4 DEF Holds
<1>5. ASSUME NEW g, Holds(r, g) PROVE Holds(q \o r, g)
  BY <1>1, <1>2, <1>5 DEF Holds
<1> QED BY <1>4, <1>5

\* A task that is ready still, or has become so, is in a queue or in hand.
LEMMA ReadyKept ==
  ASSUME ReadyIsSomewhere, \A h \in Tasks : status'[h] = "ready" /\ (status[h] = "ready" => Queued(h)) => Queued(h)'
  PROVE  ReadyIsSomewhere'
BY DEF ReadyIsSomewhere

\* To pop a task is to have it in hand.
LEMMA PopKeepsQueued ==
  ASSUME PoolInv, NEW t \in Threads, taken[t] = <<>>, NEW h \in Tasks,
         taken' = [taken EXCEPT ![t] = <<h>>], UNCHANGED toEnqueue,
         NEW g \in Tasks, Queued(g),
         Holds(shared, g) => Holds(shared', g) \/ Holds(<<h>>, g),
         Holds(mainQueue, g) => Holds(mainQueue', g) \/ Holds(<<h>>, g),
         \A w \in Workers : Holds(local[w], g) => Holds(local'[w], g) \/ Holds(<<h>>, g)
  PROVE  Queued(g)'
<1>1. taken'[t] = <<h>> /\ \A u \in Threads \ {t} : taken'[u] = taken[u]
  BY DEF PoolInv, PoolTypeOK, QueuesTypeOK
<1>2. Holds(<<h>>, g) => Queued(g)'
  BY <1>1 DEF Queued
<1>3. \A u \in Threads : Holds(taken[u], g) => Holds(taken'[u], g)
  BY <1>1 DEF Holds
<1>4. CASE Holds(shared, g) \/ Holds(mainQueue, g)
  BY <1>2, <1>4 DEF Queued
<1>5. CASE \E w \in Workers : Holds(local[w], g)
  BY <1>2, <1>5 DEF Queued
<1>6. CASE \E u \in Threads : Holds(taken[u], g) \/ g \in toEnqueue[u]
  BY <1>3, <1>6 DEF Queued
<1> QED BY <1>4, <1>5, <1>6 DEF Queued

\* A step that moves no task but adds to what is to be enqueued.
LEMMA SameQueues ==
  ASSUME UNCHANGED <<shared, mainQueue, local, taken>>, \A u \in Threads : toEnqueue[u] \subseteq toEnqueue'[u]
  PROVE  \A g \in Tasks : Queued(g) => Queued(g)'
<1>1. \A g \in Tasks : \A t \in Threads : Holds(taken[t], g) \/ g \in toEnqueue[t] =>
        Holds(taken'[t], g) \/ g \in toEnqueue'[t]
  OBVIOUS
<1> QED BY <1>1 DEF Queued

(* No step of a task makes a ready task disappear from the queues. *)
LEMMA TaskStepsQueue ==
  ASSUME PoolInv, ReadyIsSomewhere, NEW t \in Threads, TaskStep(t)
  PROVE  ReadyIsSomewhere'
<1>1. /\ status \in [Tasks -> {"absent", "waiting", "ready", "running", "done"}]
      /\ shared \in Seq(Tasks) /\ mainQueue \in Seq(Tasks) /\ taken \in [Threads -> Seq(Tasks)]
      /\ toEnqueue \in [Threads -> SUBSET Tasks]
  BY DEF PoolInv, PoolTypeOK, QueuesTypeOK
<1>2. (pc[t] = "body" => toEnqueue[t] = {}) /\ (pc[t] \in InTask => taken[t] = <<>>)
  BY DEF PoolInv, ThreadInv, CallFits, TakenFits, InTask, InWait, Handing
<1>3. ASSUME UNCHANGED <<shared, mainQueue, local, taken, toEnqueue>>,
             \A h \in Tasks : status'[h] = "ready" => status[h] = "ready"
      PROVE  ReadyIsSomewhere'
  BY <1>3, SameQueues, ReadyKept
<1>4. ASSUME UNCHANGED <<shared, mainQueue, local, taken>>, NEW new \in SUBSET Tasks, toEnqueue[t] = {},
             toEnqueue' = [toEnqueue EXCEPT ![t] = new],
             \A h \in Tasks : status'[h] = "ready" => status[h] = "ready" \/ h \in new
      PROVE  ReadyIsSomewhere'
  <2>1. toEnqueue'[t] = new /\ \A u \in Threads : toEnqueue[u] \subseteq toEnqueue'[u]
    BY <1>1, <1>4
  <2>2. \A h \in new : Queued(h)'
    BY <2>1 DEF Queued
  <2> QED BY <1>4, <2>1, <2>2, SameQueues, ReadyKept
<1>5. CASE Launch(t)
  <2> DEFINE h == TaskOf(t)
  <2>1. pc[t] = "body" /\ UNCHANGED <<shared, mainQueue, local, taken>>
    BY <1>5 DEF Launch, Calling, queues
  <2>2. \/ status' = [status EXCEPT ![h] = "ready"] /\ toEnqueue' = [toEnqueue EXCEPT ![t] = {h}]
        \/ status' = [status EXCEPT ![h] = "waiting"] /\ UNCHANGED toEnqueue
    BY <1>5 DEF Launch
  <2>3. h \in Tasks
    <3>1. ~Over(t) /\ Call(t).op = "launch" /\ StackTypeOK /\ frames[t] # <<>>
      BY <1>5, <2>1 DEF Launch, Calling, PoolInv, PoolTypeOK, ThreadInv, StackFits, InTask
    <3> QED BY <3>1, NamedTask
  <2> HIDE DEF h
  <2>4. CASE status' = [status EXCEPT ![h] = "ready"] /\ toEnqueue' = [toEnqueue EXCEPT ![t] = {h}]
    <3>1. {h} \in SUBSET Tasks /\ toEnqueue[t] = {}
      BY <1>2, <2>1, <2>3
    <3>2. \A g \in Tasks : status'[g] = "ready" => status[g] = "ready" \/ g \in {h}
      BY <1>1, <2>3, <2>4
    <3> QED BY <1>4, <2>1, <2>4, <3>1, <3>2
  <2>5. CASE status' = [status EXCEPT ![h] = "waiting"] /\ UNCHANGED toEnqueue
    BY <1>1, <1>3, <2>1, <2>5
  <2> QED BY <2>2, <2>4, <2>5
<1>6. CASE Enqueue(t)
  <2>1. PICK h \in toEnqueue[t] :
          /\ toEnqueue' = [toEnqueue EXCEPT ![t] = @ \ {h}] /\ UNCHANGED <<status, local, taken>>
          /\ \/ mainQueue' = Append(mainQueue, h) /\ UNCHANGED shared
             \/ shared' = Append(shared, h) /\ UNCHANGED mainQueue
    BY <1>6 DEF Enqueue
  <2>2. ASSUME NEW g \in Tasks, Queued(g) PROVE Queued(g)'
    <3>1. h \in Tasks
      BY <1>1
    <3>2. \A u \in Threads : g \in toEnqueue[u] => g \in toEnqueue'[u] \/ g = h
      BY <1>1, <2>1
    <3>3. /\ Holds(shared, g) => Holds(shared', g)
          /\ Holds(mainQueue, g) => Holds(mainQueue', g)
          /\ g = h => Holds(shared', g) \/ Holds(mainQueue', g)
      BY <1>1, <2>1, <3>1, HoldsAppended
    <3>4. CASE Holds(shared, g) \/ Holds(mainQueue, g) \/ \E w \in Workers : Holds(local[w], g)
      BY <2>1, <3>3, <3>4 DEF Queued
    <3>5. CASE \E u \in Threads : Holds(taken[u], g) \/ g \in toEnqueue[u]
      BY <2>1, <3>2, <3>3, <3>5 DEF Queued
    <3> QED BY <2>2, <3>4, <3>5 DEF Queued
  <2> QED BY <2>1, <2>2, ReadyKept
<1>7. CASE WaitLooks(t) \/ WaitAllLooks(t)
  <2>1. /\ UNCHANGED <<shared, mainQueue, local, taken, toEnqueue>>
        /\ UNCHANGED status \/ \E h : status' = [status EXCEPT ![h] = "running"]
    BY <1>7 DEF WaitLooks, WaitAllLooks, Help, queues, locals
  <2> QED BY <1>1, <1>3, <2>1
<1>8. CASE Attach(t) \/ AttachAll(t) \/ Shed(t) \/ Latched(t) \/ Reacquire(t) \/ Wake(t)
           \/ WakePop(t) \/ GiveBack(t) \/ Unpark(t)
  <2>1. UNCHANGED <<shared, mainQueue, local, taken, toEnqueue, status>>
    BY <1>8 DEF Attach, AttachAll, Shed, Latched, Reacquire, Wake, WakePop, GiveBack, Unpark, queues, locals
  <2> QED BY <1>3, <2>1
<1>9. CASE RunMain(t)
  <2>1. CASE mainQueue = <<>>
    BY <1>3, <1>9, <2>1 DEF RunMain
  <2>2. CASE mainQueue # <<>>
    <3>1. PICK h \in Tasks : /\ h = Head(mainQueue) /\ taken' = [taken EXCEPT ![t] = <<h>>]
                             /\ mainQueue' = Tail(mainQueue) /\ UNCHANGED <<status, shared, local, toEnqueue>>
      BY <1>1, <1>9, <2>2, HoldsPopped DEF RunMain
    <3>2. taken[t] = <<>>
      BY <1>2, <1>9 DEF RunMain, Calling, InTask
    <3>3. \A g \in Tasks : Queued(g) => Queued(g)'
      BY <1>1, <2>2, <3>1, <3>2, PopKeepsQueued, HoldsPopped
    <3> QED BY <3>1, <3>3, ReadyKept
  <2> QED BY <2>1, <2>2
<1>10. CASE Claim(t)
  <2> DEFINE h == taken[t][1]
  <2>1. /\ pc[t] = "claim" /\ taken' = [taken EXCEPT ![t] = <<>>]
        /\ UNCHANGED <<shared, mainQueue, local, toEnqueue>>
        /\ IF status[h] = "ready" THEN status' = [status EXCEPT ![h] = "running"] ELSE UNCHANGED status
    BY <1>10 DEF Claim, queues
  <2>2. Len(taken[t]) = 1
    BY <2>1 DEF PoolInv, ThreadInv, TakenFits
  <2>3. ASSUME NEW g \in Tasks, status'[g] = "ready", status[g] = "ready", Queued(g) PROVE Queued(g)'
    <3>1. g # h
      BY <1>1, <2>1, <2>3
    <3>2. ~Holds(taken[t], g)
      BY <2>2, <3>1 DEF Holds
    <3>3. \A u \in Threads : Holds(taken[u], g) => Holds(taken'[u], g)
      BY <1>1, <2>1, <3>2
    <3>4. CASE Holds(shared, g) \/ Holds(mainQueue, g) \/ \E w \in Workers : Holds(local[w], g)
      BY <2>1, <3>4 DEF Queued
    <3>5. CASE \E u \in Threads : Holds(taken[u], g) \/ g \in toEnqueue[u]
      BY <2>1, <3>3, <3>5 DEF Queued
    <3> QED BY <2>3, <3>4, <3>5 DEF Queued
  <2>4. \A g \in Tasks : status'[g] = "ready" => status[g] = "ready"
    BY <1>1, <2>1
  <2> QED BY <2>3, <2>4, ReadyKept
<1>11. CASE Complete(t)
  <2> DEFINE h == Top(t).name
             unblocked == Unblocked(h)
  <2>1. /\ pc[t] = "body" /\ toEnqueue' = [toEnqueue EXCEPT ![t] = unblocked]
        /\ Completes(h) /\ UNCHANGED <<shared, mainQueue, local, taken>>
    BY <1>11 DEF Complete, Completes, Unblocked, queues
  <2>2. unblocked \in SUBSET Tasks
    BY DEF Unblocked
  <2>3. \A g \in Tasks : status'[g] = "ready" => status[g] = "ready" \/ g \in unblocked
    BY <2>1 DEF Completes
  <2> HIDE DEF unblocked
  <2> QED BY <1>2, <1>4, <2>1, <2>2, <2>3
<1> QED BY <1>5, <1>6, <1>7, <1>8, <1>9, <1>10, <1>11 DEF TaskStep

(* Nor does a step of a worker's loop or of the destructor. *)
LEMMA LoopsQueue ==
  ASSUME PoolInv, ReadyIsSomewhere
  PROVE  (\A w \in Workers : WorkerStep(w) => ReadyIsSomewhere') /\ (MainStep => ReadyIsSomewhere')
<1>1. /\ shared \in Seq(Tasks) /\ mainQueue \in Seq(Tasks) /\ taken \in [Threads -> Seq(Tasks)]
      /\ local \in [Workers -> Seq(Tasks)] /\ Workers \subseteq Threads
      /\ \A t \in Threads : taken[t] # <<>> => pc[t] \in {"claim", "refill"}
  BY DEF PoolInv, PoolTypeOK, QueuesTypeOK, ThreadInv, TakenFits, Threads
<1>2. ASSUME UNCHANGED <<shared, mainQueue, local, taken, toEnqueue, status>> PROVE ReadyIsSomewhere'
  BY <1>2, SameQueues, ReadyKept
<1>3. ASSUME NEW t \in Threads, pc[t] \notin {"claim", "refill"}, NEW h \in Tasks,
             taken' = [taken EXCEPT ![t] = <<h>>], UNCHANGED <<toEnqueue, status>>,
             \A g \in Tasks : /\ Holds(shared, g) => Holds(shared', g) \/ Holds(<<h>>, g)
                              /\ Holds(mainQueue, g) => Holds(mainQueue', g) \/ Holds(<<h>>, g)
                              /\ \A w \in Workers : Holds(local[w], g) => Holds(local'[w], g) \/ Holds(<<h>>, g)
      PROVE  ReadyIsSomewhere'
  <2>1. \A g \in Tasks : Queued(g) => Queued(g)'
    BY <1>1, <1>3, PopKeepsQueued
  <2> QED BY <1>3, <2>1, ReadyKept
<1>4. ASSUME NEW w \in Workers, NEW v \in Workers, pc[w] \notin {"claim", "refill"}, local[v] # <<>>,
             taken' = [taken EXCEPT ![w] = <<Head(local[v])>>], local' = [local EXCEPT ![v] = Tail(@)],
             UNCHANGED <<shared, mainQueue, toEnqueue, status>>
      PROVE  ReadyIsSomewhere'
  <2>1. PICK h \in Tasks : h = Head(local[v])
    BY <1>1, <1>4, HoldsPopped
  <2>2. \A g : Holds(local[v], g) => Holds(local'[v], g) \/ Holds(<<h>>, g)
    BY <1>1, <1>4, <2>1, HoldsPopped
  <2>3. \A u \in Workers : u # v => local'[u] = local[u]
    BY <1>1, <1>4
  <2> QED BY <1>1, <1>3, <1>4, <2>1, <2>2, <2>3
<1>5. ASSUME NEW w \in Workers, WorkerStep(w) PROVE ReadyIsSomewhere'
  <2>1. CASE PopLocal(w)
    <3>1. CASE local[w] # <<>>
      BY <1>4, <2>1, <3>1 DEF PopLocal
    <3>2. CASE local[w] = <<>>
      BY <1>2, <2>1, <3>2 DEF PopLocal
    <3> QED BY <3>1, <3>2
  <2>2. CASE Steal(w)
    <3>1. PICK v \in Workers : v = (w + next[w]) % WorkerCount
      <4>1. next[w] \in Nat /\ w \in Nat /\ WorkerCount \in Nat \ {0}
        BY <1>1, TaskSystemAssumption DEF Workers, PoolInv, PoolTypeOK
      <4>2. (w + next[w]) % WorkerCount \in Workers
        BY <4>1 DEF Workers
      <4> QED BY <4>2
    <3>2. CASE UNCHANGED <<local, taken>>
      BY <1>2, <2>2, <3>2 DEF Steal
    <3>3. CASE ~UNCHANGED <<local, taken>>
      <4>1. /\ local[v] # <<>> /\ taken' = [taken EXCEPT ![w] = <<Head(local[v])>>]
            /\ local' = [local EXCEPT ![v] = Tail(@)] /\ pc[w] = "steal"
            /\ UNCHANGED <<shared, mainQueue, toEnqueue, status>>
        BY <2>2, <3>1, <3>3 DEF Steal
      <4> QED BY <1>4, <4>1
    <3> QED BY <3>2, <3>3
  <2>3. CASE TakeBatch(w)
    <3>1. PICK n \in 0 .. Len(shared) :
            /\ taken' = [taken EXCEPT ![w] = SubSeq(shared, 1, n)]
            /\ shared' = SubSeq(shared, n + 1, Len(shared))
            /\ pc[w] = "batch" /\ UNCHANGED <<status, mainQueue, local, toEnqueue>>
      <4> DEFINE m == IF Len(shared) < Share THEN Len(shared) ELSE Share
      <4>1. m \in 0 .. Len(shared)
        BY <1>1, TaskSystemAssumption
      <4>2. /\ taken' = [taken EXCEPT ![w] = SubSeq(shared, 1, m)]
            /\ shared' = SubSeq(shared, m + 1, Len(shared))
            /\ pc[w] = "batch" /\ UNCHANGED <<status, mainQueue, local, toEnqueue>>
        BY <2>3 DEF TakeBatch
      <4> HIDE DEF m
      <4> QED BY <4>1, <4>2
    <3>2. taken[w] = <<>> /\ taken'[w] = SubSeq(shared, 1, n) /\ \A u \in Threads \ {w} : taken'[u] = taken[u]
      BY <1>1, <3>1
    <3>3. ASSUME NEW g \in Tasks, Queued(g) PROVE Queued(g)'
      <4>1. Holds(shared, g) => Holds(taken'[w], g) \/ Holds(shared', g)
        BY <1>1, <3>1, <3>2, HoldsSplit
      <4>2. \A u \in Threads : Holds(taken[u], g) => Holds(taken'[u], g)
        BY <3>2 DEF Holds
      <4>3. CASE Holds(shared, g)
        BY <1>1, <4>1, <4>3 DEF Queued
      <4>4. CASE Holds(mainQueue, g) \/ \E u \in Workers : Holds(local[u], g)
        BY <3>1, <4>4 DEF Queued
      <4>5. CASE \E u \in Threads : Holds(taken[u], g) \/ g \in toEnqueue[u]
        BY <3>1, <4>2, <4>5 DEF Queued
      <4> QED BY <3>3, <4>3, <4>4, <4>5 DEF Queued
    <3> QED BY <3>1, <3>3, ReadyKept
  <2>4. CASE Refill(w)
    <3>1. /\ local' = [local EXCEPT ![w] = @ \o taken[w]] /\ taken' = [taken EXCEPT ![w] = <<>>]
          /\ UNCHANGED <<status, shared, mainQueue, toEnqueue>>
      BY <2>4 DEF Refill
    <3>2. /\ local'[w] = local[w] \o taken[w] /\ \A u \in Workers \ {w} : local'[u] = local[u]
          /\ \A u \in Threads \ {w} : taken'[u] = taken[u]
      BY <1>1, <3>1
    <3>3. ASSUME NEW g \in Tasks, Queued(g) PROVE Queued(g)'
      <4>1. Holds(local[w], g) \/ Holds(taken[w], g) => Holds(local'[w], g)
        BY <1>1, <3>2, HoldsJoined
      <4>2. CASE Holds(shared, g) \/ Holds(mainQueue, g)
        BY <3>1, <4>2 DEF Queued
      <4>3. CASE \E u \in Workers : Holds(local[u], g)
        BY <3>2, <4>1, <4>3 DEF Queued
      <4>4. CASE \E u \in Threads : Holds(taken[u], g) \/ g \in toEnqueue[u]
        BY <3>1, <3>2, <4>1, <4>4 DEF Queued
      <4> QED BY <3>3, <4>2, <4>3, <4>4 DEF Queued
    <3> QED BY <3>1, <3>3, ReadyKept
  <2>5. CASE ~(PopLocal(w) \/ Steal(w) \/ TakeBatch(w) \/ Refill(w))
    <3>1. UNCHANGED <<shared, mainQueue, local, taken, toEnqueue, status>>
      BY <1>5, <2>5 DEF WorkerStep, StartWorker, CheckStopping, ReleaseSlot, Park, Recheck, RecheckPermit,
         UnlistSelf, ReturnPermit, Sleep, Woken, Unparked, queues, locals
    <3> QED BY <1>2, <3>1
  <2> QED BY <2>1, <2>2, <2>3, <2>4, <2>5
<1>6. ASSUME MainStep PROVE ReadyIsSomewhere'
  <2>1. Main \in Threads
    BY DEF Threads
  <2>2. CASE DrainMain /\ mainQueue # <<>>
    <3>1. PICK h \in Tasks : /\ h = Head(mainQueue) /\ taken' = [taken EXCEPT ![Main] = <<h>>]
                             /\ mainQueue' = Tail(mainQueue) /\ UNCHANGED <<status, shared, local, toEnqueue>>
                             /\ pc[Main] \notin {"claim", "refill"}
      BY <1>1, <2>2, HoldsPopped DEF DrainMain
    <3> QED BY <1>1, <1>3, <2>1, <2>2, <3>1, HoldsPopped
  <2>3. CASE DrainShared /\ shared # <<>>
    <3>1. PICK h \in Tasks : /\ h = Head(shared) /\ taken' = [taken EXCEPT ![Main] = <<h>>]
                             /\ shared' = Tail(shared) /\ UNCHANGED <<status, mainQueue, local, toEnqueue>>
                             /\ pc[Main] \notin {"claim", "refill"}
      BY <1>1, <2>3, HoldsPopped DEF DrainShared
    <3> QED BY <1>1, <1>3, <2>1, <2>3, <3>1, HoldsPopped
  <2>4. CASE ~(DrainMain /\ mainQueue # <<>>) /\ ~(DrainShared /\ shared # <<>>)
    <3>1. UNCHANGED <<shared, mainQueue, local, taken, toEnqueue, status>>
      BY <1>6, <2>4 DEF MainStep, Destroy, DrainMain, StopWorker, StopUnpark, DrainShared, Join, queues, locals
    <3> QED BY <1>2, <3>1
  <2> QED BY <2>2, <2>3, <2>4
<1> QED BY <1>5, <1>6

(* There are no tasks yet when the task system starts. *)
LEMMA TasksStart == Init => TaskInv
<1> SUFFICES ASSUME Init PROVE TaskInv
  OBVIOUS
<1>1. ReadyIsSomewhere
  BY DEF Init, ReadyIsSomewhere
<1>2. RunningIsSomewhere
  <2>1. \A t \in Threads, h \in Tasks : ~OnStack(t, h)
    BY TaskSystemAssumption DEF Init, OnStack, FrameOf
  <2> QED BY <2>1 DEF Init, RunningIsSomewhere
<1>3. WaitingIsForSomething
  BY DEF Init, WaitingIsForSomething
<1> QED BY <1>1, <1>2, <1>3 DEF TaskInv

(* Every step keeps ready tasks queued, running ones on a stack and waiting ones waiting
   for a task that is not over. *)
LEMMA TaskInvSteps ==
  ASSUME PoolInv, TaskInv, [Next]_vars
  PROVE  TaskInv'
<1>1. /\ status \in [Tasks -> {"absent", "waiting", "ready", "running", "done"}]
      /\ ReadyIsSomewhere /\ RunningIsSomewhere /\ WaitingIsForSomething
  BY DEF PoolInv, PoolTypeOK, TaskInv
<1>2. ASSUME NEW t \in Threads, MovesAlone(t), Moved(t), ReadyIsSomewhere' PROVE TaskInv'
  BY <1>1, <1>2, RunningKept, WaitingKept DEF TaskInv
<1>3. CASE UNCHANGED vars
  <2>1. ReadyIsSomewhere'
    BY <1>1, <1>3, SameQueues, ReadyKept DEF vars, queues, locals
  <2>2. RunningIsSomewhere' /\ WaitingIsForSomething'
    BY <1>1, <1>3 DEF vars, RunningIsSomewhere, WaitingIsForSomething, OnStack, Done
  <2> QED BY <2>1, <2>2 DEF TaskInv
<1>4. ASSUME NEW t \in Threads, TaskStep(t), MovesAlone(t) PROVE TaskInv'
  BY <1>1, <1>2, <1>4, TaskStepsMove, TaskStepsQueue
<1>5. ASSUME NEW w \in Workers, WorkerStep(w), MovesAlone(w) PROVE TaskInv'
  BY <1>1, <1>2, <1>5, LoopsMove, LoopsQueue DEF Threads
<1>6. ASSUME MainStep, MovesAlone(Main) PROVE TaskInv'
  BY <1>1, <1>2, <1>6, LoopsMove, LoopsQueue DEF Threads
<1> QED BY <1>3, <1>4, <1>5, <1>6, PoolSteps

\* No task is lost between queues, stacks and prerequisites.
LEMMA TaskInvariant == Spec => [](PermitInv /\ TaskInv)
<1>1. Init => TaskInv
  BY TasksStart
<1>2. PermitInv /\ TaskInv /\ [Next]_vars => TaskInv'
  BY TaskInvSteps DEF PermitInv
<1> QED BY <1>1, <1>2, PermitInvariant, PTL DEF Spec

\* The assertions of ~TaskSystem: whatever was launched, and whatever still ran
\* when the pool was destroyed, every task is done when the last drain is over,
\* every queue is empty, and all permits are back.
THEOREM PoolIsDestroyedClean == Spec => []DestroyedClean
<1>1. ASSUME PermitInv, TaskInv, pc[Main] = "end"
      PROVE  /\ \A h \in Tasks : status[h] \in {"absent", "done"}
             /\ local = [w \in Workers |-> <<>>]
             /\ shared = <<>> /\ mainQueue = <<>>
             /\ permits = Target
             /\ parkedIds = <<>>
  <2> USE DEF PermitInv, PoolInv
  <2>1. shared = <<>> /\ mainQueue = <<>> /\ \A w \in Workers : pc[w] = "exited"
    BY <1>1 DEF ThreadInv, DestructorFits
  <2>2. \A t \in Threads : pc[t] \in {"end", "exited"}
    BY <1>1, <2>1 DEF Threads
  <2>3. \A t \in Threads : frames[t] = <<>> /\ taken[t] = <<>> /\ toEnqueue[t] = {}
    BY <1>1, <2>2 DEF ThreadInv, StackFits, TakenFits, CallFits, InTask, InWait, Handing
  <2>4. \A w \in Workers : ~holdingSlot[w] /\ local[w] = <<>>
    BY <1>1, <2>1 DEF ThreadInv, PermitFits, WithoutPermit
  <2>5. local = [w \in Workers |-> <<>>]
    BY <1>1, <2>4 DEF PoolTypeOK, QueuesTypeOK
  <2>6. \A h \in Tasks : status[h] \notin {"ready", "running"}
    BY <1>1, <2>1, <2>3, <2>4 DEF TaskInv, ReadyIsSomewhere, Queued, Holds, RunningIsSomewhere, OnStack
  <2>7. \A h \in Tasks : status[h] # "waiting"
    <3> DEFINE S == {h \in Tasks : status[h] = "waiting"}
    <3>1. SUFFICES ASSUME S # {} PROVE FALSE
      OBVIOUS
    <3>2. PICK h \in S : Needs[h] \cap S = {}
      BY <1>1, <3>1 DEF TaskInv, WaitingIsForSomething
    <3>3. PICK p \in Needs[h] : ~Done(p) /\ status[p] # "absent"
      BY <1>1 DEF TaskInv, WaitingIsForSomething
    <3>4. p \in Tasks /\ status[p] \in {"absent", "waiting", "ready", "running", "done"}
      BY <1>1, TaskSystemAssumption DEF PoolTypeOK
    <3> QED BY <2>6, <3>2, <3>3, <3>4 DEF Done
  <2>8. \A h \in Tasks : status[h] \in {"absent", "done"}
    BY <1>1, <2>6, <2>7 DEF PoolTypeOK
  <2>9. permits = Target
    <3>1. Running = {} /\ Granted = {} /\ Passing = {}
      BY <2>1, <2>2, <2>4 DEF Running, Granted, Passing, ParkSteps
    <3>2. permits + 0 + 0 + 0 = Target /\ permits \in Nat
      BY <1>1, <3>1, FS_EmptySet DEF PermitsConserved, PoolTypeOK, BudgetTypeOK
    <3> QED BY <3>2
  <2>10. parkedIds = <<>>
    <3>1. \A w \in Workers : ~Listed(w)
      BY <1>1, <2>1 DEF ParkInv, ParkFits, ParkSteps
    <3>2. parkedIds \in Seq(Workers)
      BY <1>1 DEF PoolTypeOK, BudgetTypeOK
    <3>3. \A n \in 1 .. Len(parkedIds) : FALSE
      BY <3>1, <3>2 DEF Listed
    <3> QED BY <3>2, <3>3, EmptySeq
  <2> QED BY <2>1, <2>5, <2>8, <2>9, <2>10
<1>2. PermitInv /\ TaskInv => DestroyedClean
  BY <1>1 DEF DestroyedClean
<1> QED BY <1>2, TaskInvariant, PTL

-----------------------------------------------------------------------------
(* Work in the shared queue.                                               *)

\* When every worker sleeps or is about to, no worker has a permit, or one to give away.
LEMMA NobodyElseHasPermits ==
  ASSUME PermitInv, \A w \in Workers : Listed(w) /\ pc[w] \in {"recheckPermit", "sleep", "woken"}
  PROVE  permits + Cardinality(Passing) = Target /\ Passing \subseteq {Main}
<1>1. Running = {} /\ Granted = {} /\ Passing \subseteq {Main}
  BY DEF Running, Granted, Passing, ParkSteps, Threads
<1>2. PICK p, q \in Nat : p = permits /\ q = Cardinality(Passing)
  BY FiniteThreads DEF PermitInv, PoolInv, PoolTypeOK, BudgetTypeOK
<1>3. p + 0 + 0 + q = Target
  BY <1>1, <1>2, FS_EmptySet DEF PermitInv, PermitsConserved
<1> QED BY <1>1, <1>2, <1>3

\* With a budget of two, a worker that finds work and no permit, when it looks
\* again before it sleeps, has another thread to look for work after it.
LEMMA WorkStaysLookedAt ==
  ASSUME PermitInv, PermitInv', Target > 1, WorkIsLookedAt, [Next]_vars
  PROVE  WorkIsLookedAt'
<1> USE DEF PermitInv
<1>1. SUFFICES ASSUME shared' # <<>>, \A w \in Workers : Committed(w)',
                      \A t \in Threads : pc'[t] \notin {"wake", "wakePop"}
               PROVE  FALSE
  BY DEF WorkIsLookedAt
<1>2. /\ pc \in [Threads -> Places] /\ shared \in Seq(Tasks) /\ Target \in Nat
      /\ Workers \subseteq Threads \ {Main} /\ 0 \in Workers /\ Main \in Threads
  BY TaskSystemAssumption DEF Workers, Threads, PoolInv, PoolTypeOK, PlaceTypeOK, Places, QueuesTypeOK
<1>3. ASSUME \A w \in Workers : Committed(w), shared # <<>> PROVE pc[Main] \in {"wake", "wakePop"}
  BY <1>3 DEF WorkIsLookedAt, Committed, Threads
<1>4. CASE UNCHANGED vars
  <2>1. (\A w \in Workers : Committed(w)) /\ shared # <<>> /\ pc' = pc
    BY <1>1, <1>4 DEF vars, queues, budget, Committed, Listed
  <2> QED BY <1>1, <1>2, <1>3, <2>1
<1>5. ASSUME NEW t \in Threads, TaskStep(t), MovesAlone(t) PROVE FALSE
  <2>1. t = Main
    <3>1. t \in Workers => pc'[t] \notin ParkSteps
      BY <1>5, TaskStepsDoNotPark
    <3> QED BY <1>1, <3>1 DEF Committed, ParkSteps, Threads
  <2>2. \A w \in Workers : pc'[w] = pc[w]
    BY <1>2, <1>5, <2>1 DEF MovesAlone
  <2>3. CASE WakePop(t)
    <3>1. \A w \in Workers : Listed(w)'
      BY <1>1 DEF Committed
    <3>2. CASE parkedIds = <<>>
      <4>1. parkedIds' = <<>>
        BY <2>3, <3>2 DEF WakePop
      <4> QED BY <1>2, <3>1, <4>1 DEF Listed
    <3>3. CASE parkedIds # <<>>
      <4>1. parkedIds' = SubSeq(parkedIds, 1, Len(parkedIds) - 1) /\ parkedIds \in Seq(Workers) /\ ListedOnce
        BY <2>3, <3>3 DEF WakePop, PoolInv, PoolTypeOK, BudgetTypeOK, ParkInv
      <4>2. \E v \in Workers : ~Listed(v)'
        BY <3>3, <4>1, ListWithoutLast
      <4> QED BY <3>1, <4>2
    <3> QED BY <3>2, <3>3
  <2>4. CASE ~WakePop(t)
    <3>1. UNCHANGED parkedIds
      BY <1>5, <2>4 DEF TaskStep, Launch, Enqueue, WaitLooks, Attach, WaitAllLooks, AttachAll, Shed, Latched,
         Reacquire, RunMain, Claim, Complete, Wake, GiveBack, Unpark, budget
    <3>2. \A w \in Workers : Committed(w)
      BY <1>1, <2>2, <3>1 DEF Committed, Listed
    <3>3. shared # <<>>
      <4>1. CASE Enqueue(t)
        <5>1. ~Goto(t, "wake")
          BY <1>1, <1>2 DEF Goto
        <5> QED BY <1>1, <4>1, <5>1 DEF Enqueue
      <4>2. CASE ~Enqueue(t)
        <5>1. UNCHANGED shared
          BY <1>5, <4>2 DEF TaskStep, Launch, WaitLooks, Attach, WaitAllLooks, AttachAll, Shed, Latched,
             Reacquire, RunMain, Claim, Complete, Wake, WakePop, GiveBack, Unpark, queues
        <5> QED BY <1>1, <5>1
      <4> QED BY <4>1, <4>2
    <3>4. pc[Main] \in {"wake", "wakePop"}
      BY <1>3, <3>2, <3>3
    <3>5. Wake(t)
      BY <1>5, <2>1, <2>4, <3>4 DEF TaskStep, Launch, Enqueue, WaitLooks, Attach, WaitAllLooks, AttachAll, Shed,
         Latched, Reacquire, RunMain, Claim, Complete, GiveBack, Unpark, Calling
    <3>6. permits = 0
      BY <1>1, <1>2, <2>1, <3>5 DEF Wake, Goto
    <3>7. Passing = {}
      BY <3>2, <3>5, <2>1, NobodyElseHasPermits DEF Passing, Committed, Wake
    <3>8. permits + Cardinality(Passing) = Target
      BY <3>2, NobodyElseHasPermits DEF Committed
    <3> QED BY <1>2, <3>6, <3>7, <3>8, FS_EmptySet
  <2> QED BY <2>3, <2>4
<1>6. ASSUME NEW w \in Workers, WorkerStep(w), MovesAlone(w) PROVE FALSE
  <2>1. /\ pc'[w] \in {"sleep", "woken"} /\ pc'[Main] = pc[Main]
        /\ \A v \in Workers \ {w} : pc'[v] = pc[v]
    BY <1>1, <1>2, <1>6 DEF Committed, MovesAlone
  <2>2. Recheck(w) \/ RecheckPermit(w) \/ Sleep(w)
    <3>1. ~(StartWorker(w) \/ ReleaseSlot(w) \/ Park(w) \/ UnlistSelf(w) \/ ReturnPermit(w) \/ Woken(w)
            \/ Unparked(w))
      BY <1>2, <2>1 DEF StartWorker, ReleaseSlot, Park, UnlistSelf, ReturnPermit, Woken, Unparked, Goto
    <3>2. ~(PopLocal(w) \/ TakeBatch(w) \/ Refill(w) \/ Steal(w) \/ CheckStopping(w))
      BY <1>2, <2>1 DEF PopLocal, TakeBatch, Refill, Steal, CheckStopping, Goto
    <3> QED BY <1>6, <3>1, <3>2 DEF WorkerStep
  <2>3. UNCHANGED <<parkedIds, shared>> /\ \A v \in Workers : Listed(v)
    <3>1. UNCHANGED <<parkedIds, shared>>
      BY <2>2 DEF Recheck, RecheckPermit, Sleep, budget, queues
    <3> QED BY <1>1, <3>1 DEF Committed, Listed
  <2>4. CASE Recheck(w)
    <3>1. pc'[w] = "sleep" => shared = <<>>
      BY <1>2, <2>4 DEF Recheck, Goto
    <3>2. pc'[w] # "woken"
      BY <1>2, <2>4 DEF Recheck, Goto
    <3> QED BY <1>1, <2>1, <2>3, <3>1, <3>2
  <2>5. CASE RecheckPermit(w)
    <3>1. permits = 0 /\ pc[w] = "recheckPermit"
      BY <1>2, <2>1, <2>5 DEF RecheckPermit, Goto
    <3>2. \A v \in Workers : pc[v] \in {"recheckPermit", "sleep", "woken"}
      BY <1>1, <2>1, <3>1 DEF Committed
    <3>3. permits + Cardinality(Passing) = Target /\ Passing \subseteq {Main}
      BY <2>3, <3>2, NobodyElseHasPermits
    <3>4. Cardinality(Passing) \in Nat /\ Cardinality(Passing) <= 1
      <4>1. IsFiniteSet({Main}) /\ Cardinality({Main}) = 1
        BY FS_Singleton
      <4>2. IsFiniteSet(Passing) /\ Cardinality(Passing) <= Cardinality({Main})
        BY <3>3, <4>1, FS_Subset
      <4> QED BY <4>1, <4>2, FS_CardinalityType
    <3> QED BY <1>2, <3>1, <3>3, <3>4
  <2>6. CASE Sleep(w)
    <3>1. \A v \in Workers : Committed(v)
      BY <1>1, <2>1, <2>3, <2>6 DEF Committed, Sleep
    <3>2. pc[Main] \in {"wake", "wakePop"}
      BY <1>1, <1>3, <2>3, <3>1
    <3> QED BY <1>1, <1>2, <2>1, <3>2
  <2> QED BY <2>2, <2>4, <2>5, <2>6
<1>7. ASSUME MainStep, MovesAlone(Main) PROVE FALSE
  <2>1. /\ UNCHANGED parkedIds /\ \A w \in Workers : pc'[w] = pc[w]
        /\ pc[Main] \notin {"wake", "wakePop"}
    BY <1>2, <1>7 DEF MainStep, Destroy, DrainMain, StopWorker, StopUnpark, DrainShared, Join, budget, MovesAlone
  <2>2. \A w \in Workers : Committed(w)
    BY <1>1, <2>1 DEF Committed, Listed
  <2>3. shared # <<>>
    <3>1. CASE DrainShared
      BY <1>1, <3>1 DEF DrainShared
    <3>2. CASE ~DrainShared
      <4>1. UNCHANGED shared
        BY <1>7, <3>2 DEF MainStep, Destroy, DrainMain, StopWorker, StopUnpark, Join, queues
      <4> QED BY <1>1, <4>1
    <3> QED BY <3>1, <3>2
  <2> QED BY <1>3, <2>1, <2>2, <2>3
<1>8. PoolInv
  OBVIOUS
<1> QED BY <1>4, <1>5, <1>6, <1>7, <1>8, PoolSteps

\* parkWorker's second look at the shared queue, after the worker has put itself
\* on the parked list, is enough that work is not slept on if there are two
\* permits or more: the one that is missing then is not the only one.  With
\* one, the thread that is about to give it back may be the one that has looked
\* at the list before the worker was on it.
THEOREM WorkIsNotSleptOn ==
  ASSUME Target > 1
  PROVE  Spec => []NoWorkSleptOn
<1>1. Init => WorkIsLookedAt
  BY DEF Init, WorkIsLookedAt
<1>2. PermitInv /\ PermitInv' /\ WorkIsLookedAt /\ [Next]_vars => WorkIsLookedAt'
  BY WorkStaysLookedAt
<1>3. PermitInv /\ WorkIsLookedAt => NoWorkSleptOn
  <2> SUFFICES ASSUME PermitInv, WorkIsLookedAt, shared # <<>>,
                      \A t \in Threads : pc[t] \notin {"wake", "wakePop", "unpark"},
                      stopping = [w \in Workers |-> FALSE]
               PROVE  \E w \in Workers : pc[w] # "exited" /\ w \notin asleep
    BY DEF NoWorkSleptOn
  <2>1. PICK w \in Workers : ~Committed(w)
    BY DEF WorkIsLookedAt
  <2>2. pc[w] # "exited"
    BY DEF PermitInv, PoolInv, ThreadInv, PermitFits
  <2>3. w \notin asleep
    BY <2>1 DEF PermitInv, ParkInv, ParkFits, ParkSteps, Committed
  <2> QED BY <2>2, <2>3
<1> QED BY <1>1, <1>2, <1>3, PermitInvariant, PTL DEF Spec
=============================================================================
