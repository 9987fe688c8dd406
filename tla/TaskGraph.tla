----------------------------- MODULE TaskGraph -----------------------------
(***************************************************************************)
(* The task graph (engine/src/task/task_graph.cpp): a bounded array of     *)
(* task slots, each behind a mutex of its own, with generation counters    *)
(* that make handles of a reused slot stale.                               *)
(*                                                                         *)
(* Clients are the threads, or task bodies, that launch, help, wait on and *)
(* release tasks; workers take ready tasks from the shared queue, run them *)
(* and deliver their completion to the dependants.  Every step is one      *)
(* critical section of the code: launching is the only operation that      *)
(* holds a slot's mutex across several steps, because it locks the slots   *)
(* of the prerequisites one at a time while it holds the new one.          *)
(***************************************************************************)
EXTENDS Integers, Sequences, FiniteSets

CONSTANTS
  Clients,          \* threads that call launch, wait and release
  Workers,          \* threads that pop and run ready tasks
  MaxTasks,         \* TRIVIAL_TASK_GRAPH_MAX_TASK_COUNT
  SlotsPerPage,     \* TRIVIAL_TASK_GRAPH_SLOTS_PER_PAGE
  MaxGeneration,    \* bound of the model on how often one slot is released
  MaxLaunches,      \* bound of the model on the launches in one behaviour
  MaxPrerequisites, \* bound of the model on the prerequisites of one launch
  NoThread          \* no owner, no waiter

Threads == Clients \cup Workers
Indices == 0 .. MaxTasks - 1
Handles == [index : Indices, generation : 0 .. MaxGeneration]
NoHandle == [index |-> MaxTasks, generation |-> 0]

ASSUME TaskGraphAssumption ==
  /\ MaxTasks \in Nat \ {0}
  /\ SlotsPerPage \in Nat \ {0}
  /\ MaxGeneration \in Nat
  /\ MaxLaunches \in Nat
  /\ MaxPrerequisites \in Nat
  /\ Clients \cap Workers = {}
  /\ NoThread \notin Threads

VARIABLES
  generation,       \* per slot: m_generation
  status,           \* per slot: "Free", or the status of the task it holds
  prerequisites,    \* per slot: handles still outstanding
  dependants,       \* per slot: handles to notify on completion
  latch,            \* per slot: the thread whose latch is attached
  owner,            \* per slot: the launch holding its mutex across steps
  freeIndices,      \* m_freeTaskIndices, last in first out
  nextUnused,       \* m_nextUnusedTaskIndex
  pages,            \* pages allocated so far
  queued,           \* per handle: its entries in the ready queue
  pc, task, todo,   \* per thread: where it is, for which task, what is left
  ready,            \* per thread: the task it has made ready and must enqueue
  needs             \* history: prerequisites named when a handle was launched

slotVars == <<generation, status, prerequisites, dependants, latch, owner>>
indexVars == <<freeIndices, nextUnused, pages>>
threadVars == <<pc, task, todo, ready>>
vars == <<slotVars, indexVars, queued, threadVars, needs>>

-----------------------------------------------------------------------------

PageOf(i) == i \div SlotsPerPage

\* TaskSlot::isOccupiedBy
IsOccupiedBy(h) == status[h.index] # "Free" /\ generation[h.index] = h.generation

Unlocked(i) == owner[i] = NoThread

\* The handles the slots have given out, or will to their next task; the
\* model stops giving out more when there are MaxLaunches of them.
HandedOut == {h \in Handles : h.index < nextUnused /\ h.generation <= generation[h.index]}

\* A handle that launch() has returned to its caller: the launch that made it
\* has published it and, when it was ready at once, has enqueued it.
Known(h) ==
  /\ IsOccupiedBy(h)
  /\ status[h.index] # "Created"
  /\ ~ \E u \in Threads : pc[u] = "enqueue" /\ task[u] = h /\ ready[u] = h

Init ==
  /\ generation = [i \in Indices |-> 0]
  /\ status = [i \in Indices |-> "Free"]
  /\ prerequisites = [i \in Indices |-> {}]
  /\ dependants = [i \in Indices |-> {}]
  /\ latch = [i \in Indices |-> NoThread]
  /\ owner = [i \in Indices |-> NoThread]
  /\ freeIndices = <<>>
  /\ nextUnused = 0
  /\ pages = {}
  /\ queued = [h \in Handles |-> 0]
  /\ pc = [t \in Threads |-> "idle"]
  /\ task = [t \in Threads |-> NoHandle]
  /\ todo = [t \in Threads |-> {}]
  /\ ready = [t \in Threads |-> NoHandle]
  /\ needs = [h \in Handles |-> {}]

\* The call thread t is in returns, and its locals are gone.
Return(t) ==
  /\ pc' = [pc EXCEPT ![t] = "idle"]
  /\ task' = [task EXCEPT ![t] = NoHandle]
  /\ todo' = [todo EXCEPT ![t] = {}]
  /\ ready' = [ready EXCEPT ![t] = NoHandle]

-----------------------------------------------------------------------------
(* Launching: createDispatched and the enqueue that follows it.            *)

\* allocateTaskIndex under m_allocationMutex.  When both the free list and
\* the unused indices are exhausted launch() returns an invalid handle and
\* nothing changes.  Prerequisites are handles the caller still holds.
LaunchAllocate(t) ==
  /\ pc[t] = "idle"
  /\ t \in Clients
  /\ \E P \in SUBSET {h \in Handles : Known(h)} :
       /\ Cardinality(P) <= MaxPrerequisites
       /\ todo' = [todo EXCEPT ![t] = P]
  /\ \/ /\ freeIndices # <<>>
        /\ LET i == freeIndices[Len(freeIndices)] IN
             task' = [task EXCEPT ![t] = [index |-> i, generation |-> generation[i]]]
        /\ freeIndices' = SubSeq(freeIndices, 1, Len(freeIndices) - 1)
        /\ UNCHANGED nextUnused
     \/ /\ freeIndices = <<>>
        /\ nextUnused < MaxTasks
        /\ Cardinality(HandedOut) < MaxLaunches
        /\ task' = [task EXCEPT ![t] = [index |-> nextUnused, generation |-> generation[nextUnused]]]
        /\ nextUnused' = nextUnused + 1
        /\ UNCHANGED freeIndices
  /\ pc' = [pc EXCEPT ![t] = "page"]
  /\ UNCHANGED <<slotVars, pages, queued, ready, needs>>

\* ensurePage finds the page or allocates it under m_pageCreationMutex.
EnsurePage(t) ==
  /\ pc[t] = "page"
  /\ pages' = pages \cup {PageOf(task[t].index)}
  /\ pc' = [pc EXCEPT ![t] = "construct"]
  /\ UNCHANGED <<slotVars, freeIndices, nextUnused, queued, task, todo, ready, needs>>

\* Mutant: a failed page allocation forgets the index.
EnsurePageFailsLeaking(t) ==
  /\ pc[t] = "page"
  /\ PageOf(task[t].index) \notin pages
  /\ Return(t)
  /\ UNCHANGED <<slotVars, indexVars, queued, needs>>

\* The page allocation fails: createDispatched gives the index back.
EnsurePageFails(t) ==
  /\ pc[t] = "page"
  /\ PageOf(task[t].index) \notin pages
  /\ pc' = [pc EXCEPT ![t] = "freeIndex"]
  /\ todo' = [todo EXCEPT ![t] = {}]
  /\ UNCHANGED <<slotVars, indexVars, queued, task, ready, needs>>

\* The new slot is locked, and stays locked, and the task constructed in it.
Construct(t) ==
  LET i == task[t].index IN
  /\ pc[t] = "construct"
  /\ Unlocked(i)
  /\ owner' = [owner EXCEPT ![i] = t]
  /\ status' = [status EXCEPT ![i] = "Created"]
  /\ prerequisites' = [prerequisites EXCEPT ![i] = {}]
  /\ dependants' = [dependants EXCEPT ![i] = {}]
  /\ latch' = [latch EXCEPT ![i] = NoThread]
  /\ needs' = [needs EXCEPT ![task[t]] = todo[t]]
  /\ pc' = [pc EXCEPT ![t] = "attach"]
  /\ UNCHANGED <<generation, indexVars, queued, task, todo, ready>>

\* Mutant: an edge is added whatever the prerequisite's status.
AddPrerequisiteToCompleted(t) ==
  /\ pc[t] = "attach"
  /\ \E p \in todo[t] :
       /\ Unlocked(p.index)
       /\ prerequisites' = [prerequisites EXCEPT ![task[t].index] = @ \cup {p}]
       /\ dependants' = [dependants EXCEPT ![p.index] = @ \cup {task[t]}]
       /\ todo' = [todo EXCEPT ![t] = @ \ {p}]
  /\ UNCHANGED <<generation, status, latch, owner, indexVars, queued, pc, task, ready, needs>>

\* Mutant: the prerequisite's mutex stays locked until the launch is done.
AddPrerequisiteKeepingLock(t) ==
  /\ pc[t] = "attach"
  /\ \E p \in todo[t] :
       /\ Unlocked(p.index)
       /\ prerequisites' = [prerequisites EXCEPT ![task[t].index] = @ \cup {p}]
       /\ dependants' = [dependants EXCEPT ![p.index] = @ \cup {task[t]}]
       /\ owner' = [owner EXCEPT ![p.index] = t]
       /\ todo' = [todo EXCEPT ![t] = @ \ {p}]
  /\ UNCHANGED <<generation, status, latch, indexVars, queued, pc, task, ready, needs>>

\* addPrerequisiteLocked: under both mutexes, a prerequisite that has not
\* completed gains the dependant and the dependant gains the prerequisite.
AddPrerequisite(t) ==
  LET i == task[t].index IN
  /\ pc[t] = "attach"
  /\ \E p \in todo[t] :
       /\ Unlocked(p.index)
       /\ IF status[p.index] = "Completed"
          THEN UNCHANGED <<prerequisites, dependants>>
          ELSE /\ prerequisites' = [prerequisites EXCEPT ![i] = @ \cup {p}]
               /\ dependants' = [dependants EXCEPT ![p.index] = @ \cup {task[t]}]
       /\ todo' = [todo EXCEPT ![t] = @ \ {p}]
  /\ UNCHANGED <<generation, status, latch, owner, indexVars, queued, pc, task, ready, needs>>

\* Dispatch: the task is ready or waiting, and only now is its slot unlocked.
Publish(t) ==
  LET i == task[t].index
      isReady == prerequisites[i] = {} IN
  /\ pc[t] = "attach"
  /\ todo[t] = {}
  /\ status' = [status EXCEPT ![i] = IF isReady THEN "Ready" ELSE "Waiting"]
  /\ owner' = [owner EXCEPT ![i] = NoThread]
  /\ IF isReady
     THEN /\ pc' = [pc EXCEPT ![t] = "enqueue"]
          /\ ready' = [ready EXCEPT ![t] = task[t]]
          /\ UNCHANGED <<task, todo>>
     ELSE Return(t)
  /\ UNCHANGED <<generation, prerequisites, dependants, latch, indexVars, queued, needs>>

\* enqueueReadyTask, by a launch or by the delivery of a completion.
Enqueue(t) ==
  /\ pc[t] = "enqueue"
  /\ queued' = [queued EXCEPT ![ready[t]] = @ + 1]
  /\ IF todo[t] = {}
     THEN Return(t)
     ELSE /\ pc' = [pc EXCEPT ![t] = "notify"]
          /\ ready' = [ready EXCEPT ![t] = NoHandle]
          /\ UNCHANGED <<task, todo>>
  /\ UNCHANGED <<slotVars, indexVars, needs>>

-----------------------------------------------------------------------------
(* Running: tryClaim, executeClaimed and completeTask.                     *)

\* A worker takes an entry from the ready queue.
Pop(t) ==
  /\ pc[t] = "idle"
  /\ t \in Workers
  /\ \E h \in Handles :
       /\ queued[h] > 0
       /\ queued' = [queued EXCEPT ![h] = @ - 1]
       /\ task' = [task EXCEPT ![t] = h]
  /\ pc' = [pc EXCEPT ![t] = "claim"]
  /\ UNCHANGED <<slotVars, indexVars, todo, ready, needs>>

\* A thread in wait() sees the task it waits for ready and runs it itself;
\* the task's entry stays in the queue.
Help(t) ==
  /\ pc[t] = "idle"
  /\ t \in Clients
  /\ \E h \in Handles :
       /\ Known(h)
       /\ Unlocked(h.index)
       /\ status[h.index] = "Ready"
       /\ task' = [task EXCEPT ![t] = h]
  /\ pc' = [pc EXCEPT ![t] = "claim"]
  /\ UNCHANGED <<slotVars, indexVars, queued, todo, ready, needs>>

\* Mutant: a claim checks the status of whatever task the slot now holds.
TryClaimAnyGeneration(t) ==
  LET i == task[t].index IN
  /\ pc[t] = "claim"
  /\ Unlocked(i)
  /\ IF status[i] = "Ready"
     THEN /\ status' = [status EXCEPT ![i] = "Running"]
          /\ pc' = [pc EXCEPT ![t] = "run"]
          /\ UNCHANGED <<task, todo, ready>>
     ELSE /\ Return(t)
          /\ UNCHANGED status
  /\ UNCHANGED <<generation, prerequisites, dependants, latch, owner, indexVars, queued, needs>>

\* Mutant: a claim does not look at the status.
TryClaimAnyStatus(t) ==
  LET h == task[t] IN
  /\ pc[t] = "claim"
  /\ Unlocked(h.index)
  /\ IF IsOccupiedBy(h)
     THEN /\ status' = [status EXCEPT ![h.index] = "Running"]
          /\ pc' = [pc EXCEPT ![t] = "run"]
          /\ UNCHANGED <<task, todo, ready>>
     ELSE /\ Return(t)
          /\ UNCHANGED status
  /\ UNCHANGED <<generation, prerequisites, dependants, latch, owner, indexVars, queued, needs>>

\* tryClaim: of the threads that hold a handle, one gets to run the task, and
\* none does through a handle whose slot has been released since.
TryClaim(t) ==
  LET h == task[t] IN
  /\ pc[t] = "claim"
  /\ Unlocked(h.index)
  /\ IF IsOccupiedBy(h) /\ status[h.index] = "Ready"
     THEN /\ status' = [status EXCEPT ![h.index] = "Running"]
          /\ pc' = [pc EXCEPT ![t] = "run"]
          /\ UNCHANGED <<task, todo, ready>>
     ELSE /\ Return(t)
          /\ UNCHANGED status
  /\ UNCHANGED <<generation, prerequisites, dependants, latch, owner, indexVars, queued, needs>>

\* The payload has returned; completeAndCollectDependants marks the task
\* completed, copies the dependants and counts the attached latch down.
Complete(t) ==
  LET i == task[t].index IN
  /\ pc[t] = "run"
  /\ Unlocked(i)
  /\ status' = [status EXCEPT ![i] = "Completed"]
  /\ todo' = [todo EXCEPT ![t] = dependants[i]]
  /\ latch' = [latch EXCEPT ![i] = NoThread]
  /\ pc' = [u \in Threads |-> IF u = latch[i] THEN "idle" ELSE IF u = t THEN "notify" ELSE pc[u]]
  /\ task' = [u \in Threads |-> IF u = latch[i] THEN NoHandle ELSE task[u]]
  /\ UNCHANGED <<generation, prerequisites, dependants, owner, indexVars, queued, ready, needs>>

\* Mutant: the dependant is ready as soon as it is told once.
RemovePrerequisiteEagerly(t) ==
  /\ pc[t] = "notify"
  /\ \E d \in todo[t] :
       LET i == d.index IN
       /\ Unlocked(i)
       /\ prerequisites' = [prerequisites EXCEPT ![i] = @ \ {task[t]}]
       /\ todo' = [todo EXCEPT ![t] = @ \ {d}]
       /\ status' = [status EXCEPT ![i] = "Ready"]
       /\ ready' = [ready EXCEPT ![t] = d]
  /\ pc' = [pc EXCEPT ![t] = "enqueue"]
  /\ UNCHANGED <<generation, dependants, latch, owner, indexVars, queued, task, needs>>

\* Mutant: the dependant that becomes ready is not reported to the caller.
RemovePrerequisiteSilently(t) ==
  /\ pc[t] = "notify"
  /\ \E d \in todo[t] :
       LET i == d.index
           left == prerequisites[i] \ {task[t]} IN
       /\ Unlocked(i)
       /\ prerequisites' = [prerequisites EXCEPT ![i] = left]
       /\ todo' = [todo EXCEPT ![t] = @ \ {d}]
       /\ status' = [status EXCEPT ![i] = IF left = {} THEN "Ready" ELSE @]
  /\ UNCHANGED <<generation, dependants, latch, owner, indexVars, queued, pc, task, ready, needs>>

\* removePrerequisiteAndMarkReadyIfUnblocked for one collected dependant.
RemovePrerequisite(t) ==
  /\ pc[t] = "notify"
  /\ \E d \in todo[t] :
       LET i == d.index
           left == prerequisites[i] \ {task[t]} IN
       /\ Unlocked(i)
       /\ prerequisites' = [prerequisites EXCEPT ![i] = left]
       /\ todo' = [todo EXCEPT ![t] = @ \ {d}]
       /\ IF left = {}
          THEN /\ status' = [status EXCEPT ![i] = "Ready"]
               /\ ready' = [ready EXCEPT ![t] = d]
               /\ pc' = [pc EXCEPT ![t] = "enqueue"]
          ELSE UNCHANGED <<status, ready, pc>>
  /\ UNCHANGED <<generation, dependants, latch, owner, indexVars, queued, task, needs>>

\* Every collected dependant has been told: completeTask returns.
Delivered(t) ==
  /\ pc[t] = "notify"
  /\ todo[t] = {}
  /\ Return(t)
  /\ UNCHANGED <<slotVars, indexVars, queued, needs>>

-----------------------------------------------------------------------------
(* Waiting and releasing.                                                  *)

\* Mutant: a waiter sleeps on a task that has completed already.
AttachWaiterToCompleted(t) ==
  /\ pc[t] = "idle"
  /\ t \in Clients
  /\ \E h \in Handles :
       /\ Known(h)
       /\ Unlocked(h.index)
       /\ latch[h.index] = NoThread
       /\ latch' = [latch EXCEPT ![h.index] = t]
       /\ task' = [task EXCEPT ![t] = h]
  /\ pc' = [pc EXCEPT ![t] = "blocked"]
  /\ UNCHANGED <<generation, status, prerequisites, dependants, owner, indexVars, queued,
                 todo, ready, needs>>

\* tryAttachWaiter: the caller sleeps on its latch until the task completes.
\* One waiter per handle, and no release of a handle someone waits on.
AttachWaiter(t) ==
  /\ pc[t] = "idle"
  /\ t \in Clients
  /\ \E h \in Handles :
       /\ Known(h)
       /\ Unlocked(h.index)
       /\ status[h.index] # "Completed"
       /\ latch[h.index] = NoThread
       /\ latch' = [latch EXCEPT ![h.index] = t]
       /\ task' = [task EXCEPT ![t] = h]
  /\ pc' = [pc EXCEPT ![t] = "blocked"]
  /\ UNCHANGED <<generation, status, prerequisites, dependants, owner, indexVars, queued,
                 todo, ready, needs>>

\* release: a completed task is destroyed and its handle becomes stale.  Any
\* other call (stale handle, unfinished task) changes nothing.  Callers do
\* not release a handle that a launch in progress names as a prerequisite.
Release(t) ==
  /\ pc[t] = "idle"
  /\ t \in Clients
  /\ \E h \in Handles :
       /\ Known(h)
       /\ Unlocked(h.index)
       /\ status[h.index] = "Completed"
       /\ h.generation < MaxGeneration
       /\ Cardinality(HandedOut) < MaxLaunches
       /\ \A u \in Clients : pc[u] \in {"page", "construct", "attach"} => h \notin todo[u]
       /\ status' = [status EXCEPT ![h.index] = "Free"]
       /\ generation' = [generation EXCEPT ![h.index] = @ + 1]
       /\ dependants' = [dependants EXCEPT ![h.index] = {}]
       /\ needs' = [needs EXCEPT ![h] = {}]
       /\ task' = [task EXCEPT ![t] = h]
  /\ pc' = [pc EXCEPT ![t] = "freeIndex"]
  /\ UNCHANGED <<prerequisites, latch, owner, indexVars, queued, todo, ready>>

\* releaseTaskIndex, after the slot's mutex has been unlocked.
FreeIndex(t) ==
  /\ pc[t] = "freeIndex"
  /\ freeIndices' = Append(freeIndices, task[t].index)
  /\ Return(t)
  /\ UNCHANGED <<slotVars, nextUnused, pages, queued, needs>>

-----------------------------------------------------------------------------

\* The steps that finish what a thread has begun.
Continue(t) ==
  \/ EnsurePage(t)
  \/ EnsurePageFails(t)
  \/ Construct(t)
  \/ AddPrerequisite(t)
  \/ Publish(t)
  \/ Enqueue(t)
  \/ TryClaim(t)
  \/ Complete(t)
  \/ RemovePrerequisite(t)
  \/ Delivered(t)
  \/ FreeIndex(t)

\* The calls a thread may begin.
Begin(t) ==
  \/ LaunchAllocate(t)
  \/ Pop(t)
  \/ Help(t)
  \/ AttachWaiter(t)
  \/ Release(t)

Next == \E t \in Threads : Begin(t) \/ Continue(t)

\* A thread inside a call keeps running and a task body returns; a worker
\* that is idle eventually looks at the queue.
Fairness ==
  /\ \A t \in Threads : WF_vars(Continue(t))
  /\ WF_vars(\E t \in Workers : Pop(t))

Spec == Init /\ [][Next]_vars
FairSpec == Spec /\ Fairness

-----------------------------------------------------------------------------
(* Properties.                                                             *)

Statuses == {"Free", "Created", "Waiting", "Ready", "Running", "Completed"}
Places == {"idle", "page", "construct", "attach", "enqueue", "claim", "run", "notify",
           "blocked", "freeIndex"}

\* The type invariant.
TypeOK ==
  /\ generation \in [Indices -> 0 .. MaxGeneration]
  /\ status \in [Indices -> Statuses]
  /\ prerequisites \in [Indices -> SUBSET Handles]
  /\ dependants \in [Indices -> SUBSET Handles]
  /\ latch \in [Indices -> Clients \cup {NoThread}]
  /\ owner \in [Indices -> Clients \cup {NoThread}]
  /\ freeIndices \in Seq(Indices)
  /\ nextUnused \in 0 .. MaxTasks
  /\ pages \subseteq {PageOf(i) : i \in Indices}
  /\ queued \in [Handles -> Nat]
  /\ pc \in [Threads -> Places]
  /\ task \in [Threads -> Handles \cup {NoHandle}]
  /\ todo \in [Threads -> SUBSET Handles]
  /\ ready \in [Threads -> Handles \cup {NoHandle}]
  /\ needs \in [Handles -> SUBSET Handles]

\* Delivering a completion, seen from the thread that has collected the
\* dependants of task[u] and still has todo[u] to tell.
Delivering(u) == pc[u] = "notify" \/ (pc[u] = "enqueue" /\ ready[u] # task[u])

\* Threads between taking index i off the allocator and putting a task in the
\* slot, or between destroying the task and giving the index back.
Holding(i) == {u \in Threads : pc[u] \in {"page", "construct", "freeIndex"} /\ task[u].index = i}

\* No edge is lost: each prerequisite a task still counts will either complete
\* with that task among its dependants, or has completed and some thread is
\* about to deliver it.  A waiting task always has such a prerequisite, so it
\* cannot be left waiting for a completion that has gone by.
EdgesMatch ==
  \A d \in Handles :
    IsOccupiedBy(d) /\ status[d.index] \in {"Created", "Waiting"} =>
      /\ status[d.index] = "Waiting" => prerequisites[d.index] # {}
      /\ \A p \in prerequisites[d.index] :
           \/ /\ IsOccupiedBy(p)
              /\ status[p.index] \in {"Waiting", "Ready", "Running"}
              /\ d \in dependants[p.index]
           \/ \E u \in Threads : Delivering(u) /\ task[u] = p /\ d \in todo[u]

\* The assertions of removePrerequisiteAndMarkReadyIfUnblocked: when a thread
\* gets to lock a dependant it is about to tell, the slot still holds that
\* dependant, dispatched and waiting, and it still counts the prerequisite.
DeliveryFindsWaitingDependant ==
  \A u \in Threads : Delivering(u) =>
    \A d \in todo[u] : Unlocked(d.index) =>
      /\ IsOccupiedBy(d)
      /\ status[d.index] = "Waiting"
      /\ task[u] \in prerequisites[d.index]

\* A ready task is never lost and never scheduled twice: it is in the queue,
\* or about to be put there, or held by a thread about to claim it, and
\* the entries that exist or are about to exist number at most one.
ReadyIsScheduledOnce ==
  \A h \in Handles :
    LET coming == {u \in Threads : pc[u] = "enqueue" /\ ready[u] = h}
        claiming == {u \in Threads : pc[u] = "claim" /\ task[u] = h} IN
    /\ queued[h] + Cardinality(coming) <= 1
    /\ IsOccupiedBy(h) /\ status[h.index] = "Ready" =>
         queued[h] > 0 \/ coming # {} \/ claiming # {}

\* An index that has been handed out is in exactly one place: the free list,
\* a slot that holds a task, or the hands of one launch or release.
Listed(i) == \E n \in 1 .. Len(freeIndices) : freeIndices[n] = i

IndexInOnePlace ==
  /\ \A m, n \in 1 .. Len(freeIndices) : freeIndices[m] = freeIndices[n] => m = n
  /\ \A i \in Indices :
       /\ \A u, v \in Holding(i) : u = v
       /\ Listed(i) => Holding(i) = {}
       /\ Listed(i) \/ Holding(i) # {} => status[i] = "Free"
       /\ i < nextUnused <=> Listed(i) \/ Holding(i) # {} \/ status[i] # "Free"

\* A blocked waiter is owed a wake-up: its task is still to complete, and
\* completing it will count the waiter's latch down.
WaiterIsOwed ==
  \A t \in Threads : pc[t] = "blocked" =>
    /\ IsOccupiedBy(task[t])
    /\ status[task[t].index] \in {"Waiting", "Ready", "Running"}
    /\ latch[task[t].index] = t

\* A launch holds its own slot's mutex while it locks its prerequisites', and
\* the slots it has still to lock are never held by another launch: nobody can
\* wait in a cycle for slot mutexes.
LaunchNeverWaitsForLaunch ==
  \A t \in Threads : pc[t] = "attach" =>
    /\ owner[task[t].index] = t
    /\ \A p \in todo[t] : Unlocked(p.index)

\* Every task that has been launched completes, whatever order its
\* prerequisites, its launch and their completions come in: the model makes
\* finitely many launches, so from some point on no task is unfinished.
LaunchedTasksComplete == <>[](\A i \in Indices : status[i] \in {"Free", "Completed"})

\* The graph implements the lifecycle: handle h stands for the launch made
\* in slot h.index when its generation was h.generation.
LifecycleState(h) ==
  IF generation[h.index] > h.generation THEN "Released"
  ELSE IF IsOccupiedBy(h) /\ status[h.index] # "Created" THEN status[h.index]
  ELSE "Absent"

LifecycleNeeds(h) == IF LifecycleState(h) = "Absent" THEN {} ELSE needs[h]
LifecyclePending(h) == IF LifecycleState(h) = "Waiting" THEN prerequisites[h.index] ELSE {}

Lifecycle == INSTANCE TaskLifecycle WITH
  Tasks <- Handles,
  state <- [h \in Handles |-> LifecycleState(h)],
  needs <- [h \in Handles |-> LifecycleNeeds(h)],
  pending <- [h \in Handles |-> LifecyclePending(h)]

\* Launches, claims, completions and deliveries, however they interleave, are
\* steps of the lifecycle: a task runs once, after all its prerequisites.
ImplementsLifecycle == Lifecycle!Spec
=============================================================================
