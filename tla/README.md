# Trivial Game Engine: a TLA+ verification project

The Trivial Game Engine is a C++ engine with a task system of its own: worker
threads, a graph of tasks with prerequisites, and the locks and queues they
sleep on, all written from atomics and futexes; below it a segment allocator,
threads, clocks and CPU probes for three operating systems; above it a world of
entities and a Vulkan renderer. This project models these parts in TLA+, checks
them with TLC on small instances, and proves the most important properties for
every size with TLAPS. Paths below are relative to the repository's root,
written `src/...` as in `PROJECT.json`.

## 1. The system

| Component | State it keeps | Operations | What is hard about it | Modelled |
|---|---|---|---|---|
| Task graph (`src/engine/src/task/task_graph.cpp`) | an array of slots (generation, status, prerequisites, dependants, latch), a mutex per slot, a list of free indices, pages allocated on demand | create and dispatch with prerequisites, claim, complete, notify dependants, attach a waiter, release | one mutex at a time, so every multi-slot operation is interleaved with others; handles go stale when a slot is reused | partly |
| Task system (`src/engine/src/task/task_system.cpp`) | queues per affinity and per worker, a semaphore of permits, the list of parked workers, a state and a stop flag per worker | launch, wait for one or several, run main-thread tasks, worker loop, steal, park, wake, destructor | lost wake-ups, permits given twice or lost, tasks that wait inside workers, shutdown under load | partly |
| Parking lot (`src/engine/src/core/sync/parking_lot.h`) | a slot per thread, a hash table of buckets, each a linked queue behind a lock | park, parkFor, unparkOne, unparkAll and two requeues | a thread may time out while it is being unparked; a requeue needs two locks | yes |
| Parker (`src/engine/src/core/sync/parker*.cpp`) | one word per thread | prepare, park, parkFor, commitUnpark, wake | the wake may come before the sleep, or long after | yes |
| Escalating lock (`src/engine/src/core/sync/escalating_lock.*`) | one word: locked bit, queue-locked bit, head of a linked queue of thread-local nodes | lock, unlock | a queue walked and relinked with a copy of the word while others push to it | yes |
| Mutex, condition variable (`src/engine/src/core/sync/mutex.cpp`, `condition_variable.cpp`) | a word of two bits, and the parking lot's queues | lock, unlock, wait, notify one or all | the parked bit against the queue, which a notification fills from outside | yes |
| Semaphore, latch, event | one word each, and the queues | acquire and release, wait and count down, wait, trigger and reset | the word changes first and the sleepers are woken later, when the object may be gone | yes |
| Segment allocator, virtual memory (`src/engine/src/core/memory/`) | bitmaps of segments, the pages committed in each, a budget, a cache of freed segments and its clock | init, allocate, free, commit, trim, tick, shutdown | budget claimed outside the mutex, refusals of the system half-way, ages that wrap round | yes; partly |
| Thread and its stack (`src/engine/src/core/thread/`) | the thread's id and state, the stack mapped for it | create, adopt, resume, join | the kernel may still use the stack after a join | yes |
| World and component stores (`src/engine/src/world/`, `src/engine/include/trivial/ecs/`) | generations, a free list, arrays of components with flags | create, destroy, add, remove, has, get | stale handles, generations that run out | yes |
| World time (`src/engine/include/trivial/world/world_time.h`) | elapsed times and what is left of a nanosecond | tick, reset, settings | no part may be lost or counted twice | yes |
| Time, frame timer (`src/engine/include/trivial/core/time/`, `.../frame/`) | the frequency of the counter; the start, the last frame | now, sleepFor, sleepUntil, tick | conversions that seldom divide, in both directions, saturating | partly |
| Engine loop, applications, layers, renderer, GPU context (`src/engine/src/engine.cpp`, `application.cpp`, `src/engine/src/render/`, `src/engine/src/gpu/`) | the parts of the engine and their order | construct, run, draw a frame, destroy | parts taken down under their users | partly; yes |
| Vulkan backend (`src/engine/src/rhi/vulkan/`) | fences, semaphores, command buffers, a swapchain, a recreate flag | beginFrame, endFrame, resize, make and destroy | several frames in flight, a surface that changes under them | partly |
| Window (`src/engine/src/platform/glfw/`) | the window | poll, close, extent | - | partly |
| CPU capabilities (`src/engine/src/core/cpu/`) | features and topology | init, free, queries | processors and systems that report wrongly or too much | partly |
| Spin lock, task payloads, maths, logs, assertions, profiling, boids | - | - | an exchange in a loop, sequential template code, floating point, output | no |

How they interact: a `TaskSystem` owns a `TaskGraph` and calls into it with no
lock of its own held; the graph answers which tasks have become ready and the
system enqueues them and wakes a worker. Workers sleep in the parking lot, and
waits of tasks on a latch; mutexes, condition variables, semaphores, latches and
events all sleep in the same parking lot, whose buckets are guarded by
escalating locks and whose slots sleep on a parker. A worker's stack comes from
the stack allocator and goes when the worker is joined. The engine makes the
window, the backend and the renderer, then brings its services up (memory, CPU
capabilities, time, the main thread's record, the parking lot, the task system), runs
frames on the main thread, and takes the services down before the rest. Worlds are
used from that thread too.

What makes each correct, briefly: the task graph runs every launched task
exactly once, after its prerequisites, and loses no slot; the pool conserves its
permits, sleeps through no work, and its destructor returns with nothing left;
the parking lot is a set of first-in first-out queues, one per address; the
locks exclude, and nobody sleeps on what is free, open or unparked; the
allocator's budget is exact and every page is where somebody will find it; a
world gives each entity a handle of its own and the components added to it; the
GPU uses nothing that is reused or gone; what the machine is said to have it has;
time is neither lost nor made up.

`PROJECT.json` lists the hazards of the code line by line, with the properties
that would catch each, or the reason why none does.

## 2. The modules

```
TaskLifecycle          what a task graph promises (abstract)
  ^ refined by
TaskGraph              task_graph.cpp, one critical section a step
  TaskGraphInvariant   its inductive invariant
  TaskGraphProofs                            proofs, the refinement among them
  | used through its contract by
TaskSystem             task_system.cpp: pool, waits, destructor
  TaskSystemProofs                           proofs

WaitQueues             what a parking lot promises (abstract)
  ^ refined by
ParkingLot             parking_lot.h with the parker's state word
  ParkingLotProofs                           proofs, the refinement among them
WaitQueues
  | extended by, and used through its contract in
Monitor                mutex.cpp and condition_variable.cpp
Semaphore              semaphore.cpp
Signals                latch.cpp and event.cpp
Parker                 parker*.cpp
  SyncProofs                                 proofs about Monitor, Semaphore and Parker

LockQueue              what an escalating lock promises (abstract)
  ^ refined by
EscalatingLock         escalating_lock.cpp, one atomic operation a step
  EscalatingLockProofs                       proofs, the refinement among them

EntityMap              what a world promises (abstract)
  ^ refined by
World                  world.cpp, world.h and component_store.h, a call a step

VirtualMemory          virtual_memory_*.cpp, segment_allocator_metadata_*.cpp
  | extended by
SegmentAllocator       segment_allocator.cpp
Threads                thread*.cpp and thread_stack_allocator.cpp
  StorageProofs                              proofs about SegmentAllocator, Threads and World,
                                             the refinement of EntityMap among them

VulkanSetup            what the backend chooses when it is made
  | extended by
VulkanBackend          frames, device and presentation engine
  | extended by
Engine                 engine.cpp, application.cpp, renderer.cpp

CpuFeatures            what both architectures have in common
  | extended by
CpuX86, CpuArm64 -> CpuArm64Probes, CpuTopology
  | all extended by
CpuCapabilities        cpu_capabilities.cpp
Clock                  time*.cpp and frame_timer.h
  | extended by
WorldTime              world_time.h
  EngineProofs                               proofs about Engine and its backend,
                                             CpuCapabilities, Clock and WorldTime
```

A module `MCx` gives `x` its small instance, and the `.cfg` files name it.
`MCSync`, `MCMemory` and `MCEngine` check several components that share nothing in
one run: the first state says which of them is exercised, and the others stay as
they are. Every module keeps the source's names. Operators whose name is that of
another with a suffix, and whose comment says "Mutant", are wrong versions of the
operator after them; no specification uses them. They are there so that each
property can be shown to fail when the code is broken in a plausible way.

### TaskGraph

State and code: `generation`, `status`, `prerequisites`, `dependants` and
`latch` are the fields of a `TaskSlot`; `owner` is the slot's mutex where it is
held across steps; `freeIndices`, `nextUnused` and `pages` are the allocator.
`queued` counts a handle's entries in the pool's queue. A step is a critical
section. `createDispatched` is the one operation that holds a slot's mutex
across several: it is `LaunchAllocate`, `EnsurePage` or `EnsurePageFails`,
`Construct`, `AddPrerequisite` per prerequisite, and `Publish`. A worker is
`Pop`, `TryClaim`, `Complete`, then `RemovePrerequisite` per dependant with an
`Enqueue` for each that became ready, then `Delivered`. `Help` and `TryClaim` are
the waiter that runs a task itself; `AttachWaiter` and `Delivered` its latch;
`Release` and `FreeIndex` the two halves of a release.

Assumed of the callers, as the code asserts or documents: they use handles that
`launch` has returned to them (`Known`), have one waiter per handle, and do not
release a task that a launch in progress names. Left out: the failure of a launch
that names a stale prerequisite, the `Cancelled` status (nothing sets it), the
lifetime option (nothing reads it) and the debug-only cycle walk.

### TaskSystem

The task graph is used through what `TaskLifecycle` promises. What the tasks and
the main thread do is one of the constant `Scripts`: lists of `launch`, `wait`,
`waitAll` and `runMain` calls. `frames` is the stack of tasks a thread is in, since
a wait may run another task; `Return`, `Leave` and `Resume` are the return addresses.
Every semaphore operation, every critical section and every look at a flag is a
step of its own; the semaphore, latch, mutex and parking lot take effect
atomically, which is their contract. `latch` is the latch of a thread's wait and
`attached` says whose latch a task's completion counts down. A wait on a span looks at
its tasks one after the other (`WaitAllLooks`), then attaches to them one after the
other (`AttachAll`), with one more counted until it is through.

Abstractions: `Complete` makes all unblocked dependants ready at once, where the
code delivers one by one (nothing in the pool can tell the difference: the
enqueues are separate steps); `WaitLooks` joins a waiter's look at the status
with its claim, both of which the task graph re-checks; one priority, and
`waitHelpMaxDepth` at its default of 0; waits are on tasks that nobody has released.

### ParkingLot

`key`, `nextInQueue` and `parker` are the fields of a slot, `queueHead` and
`queueTail` those of a bucket. A step is a critical section of a bucket's lock,
cut where a thread without the lock can look inside: `Unlink` clears a slot's
key, `CommitUnpark` its parker, and `TimeOut` reads the key between the two. A requeue
takes the bucket of its source, then that of its target (`LockTo`), and moves the
waiters in one step while it holds both. Whether a caller's validation succeeds is
left open. The lock of a bucket is used through its contract, which `EscalatingLock`
establishes; the futex is external. `Requeues` says which pairs of addresses a requeue
may name. `LateCommits` says whether a thread whose timeout passes may park again
before the unparker has committed: the code lets it (section 5), and the passing run
leaves it out.

### Monitor, Semaphore, Signals

Each extends `WaitQueues`: parking, unparking and moving waiters are its steps, with
the callbacks the code runs under the bucket's lock. In `Monitor` a mutex is the bits
`locked` and `parked`; `MarkBeforeParking` and `ParkOnMutex` are the two halves of going
to sleep, between which the word may change. A notification reads the word, marks it
if it is locked or if it moves anybody, and then moves or wakes waiters, in up to three
steps; it holds both buckets throughout, so that nobody parks or unparks there meanwhile.
`Semaphore` adds to the counter first and wakes afterwards. In `Signals` only the address is used after the word has changed:
`StaleWake` is the wake-up meant for an object that was at the address before.

### Parker

`state` is the word; the sleeper is one thread and the waker another. `Look` is the
kernel's comparison and sleep in one step; wake-ups for no reason are steps of it. The
waker clears the word under the bucket's lock and asks for the wake-up after it has
been given back, so `Wake` may come when the sleeper is up, or asleep again. On Windows
a timed wait is rounded up to whole milliseconds (`UnitLength`) and is asked for in
pieces of at most `MaxUnits`.

### EscalatingLock

`word` is the atomic word as its three parts; `queueTail`, `previous`, `next`
and `parker` are the fields of the thread-local node. Each step is one atomic
operation on the word or one link of the walk; plain writes to a thread's own
node, or under the queue's bit, belong to the atomic operation that publishes
them. `state` is `unlockSlow`'s copy of the word: a compare-exchange that finds
another word starts the walk again (`Rescan`). The first copy is the word before
the queue's bit was set, so that the first compare-exchange of every walk fails;
the model keeps that. How long a thread spins is left open, and a weak
compare-exchange that fails for no reason only repeats itself.

### World

`size`, `generation`, `alive`, `freeIndices` and `aliveCount` are the members of
`World`; `length` and `active` are, per type of component, the size of its
store and the indices whose flag is set. Standard and dynamic stores behave
alike, a dynamic store that does not exist yet as one of size 0. A call is a
step. Calls that change nothing (a dead entity, no index left) are no steps;
neither are the queries, and what a component says is left out. `World::remove`
does not ask whether the entity is alive, and the abstract `EntityMap` says so: a
handle that has outlived its entity removes from the entity in its place.

### VirtualMemory, SegmentAllocator, Threads

A page is closed, sealed (Windows decommits lazily: committed still, without access)
or open; each call to the system is a set of outcomes, with those that fail half-way.
`refusals` bounds how often the system refuses. The allocator's mutex makes every
operation a step, but for a commit, whose steps are the read of what is committed, the
claim of budget, the commit, and the record or the return of it. `heap` is what the
mutex guards: the bitmaps of allocated, cached and pinned segments, the pages of each,
ages and the sweep's cursor. `FindFreeRun` and `FindCachedRun` are the scans of the
bitmaps word by word. `Threads` has the objects of the owner, the threads in the
kernel, and the stacks mapped for them; joining, leaving the kernel and unmapping are
separate. An allocator is not initialised again after a shutdown, which leaves
its count of committed bytes as it was; what Windows does to pages sealed and reused is
assumed as its documentation gives it.

### VulkanSetup, VulkanBackend, Engine

`VulkanSetup` has the choices the backend makes from what the system reports: instance
extensions, device, queue families, and the shape of a swapchain. `VulkanBackend` has
the host thread's frame (`BeginFrame` with its early returns, recording, submission,
presentation and a new swapchain), with the device (`Complete`), the queues and the
presentation engine as actors of their own. `Engine` puts the frame in the tick and the
parts in the order of their construction and destruction. Objects are compared by who
uses them, never by content: pipelines, shaders, layouts and barriers are left out, and
a layer draws the one mesh it has made. `destroyMesh` is called by nothing and left
out, and the pipeline keeps the format of the first swapchain. Surfaces have at least
two images; presentation is first in, first out. Between frames the state of a slot
that only the next use of it sets is kept reset.

### CpuFeatures, CpuX86, CpuArm64, CpuArm64Probes, CpuTopology, CpuCapabilities

The tables of the headers are functions here: where CPUID reports each feature, which
register state it needs, what it builds on, the bits of Linux's three words, the
numbers of Windows, the bits and flags of macOS. A probe reads them from a machine,
which is the record of what processor and system answer. `CpuCapabilities` reads the
machine once, checks the floor of the build, and keeps the topology between
`initCapabilities` and `freeCapabilities`. Linux's topology is not read by the
code, so it is unknown in the model too. On macOS `SveB16b16` is never detected, as it builds on `Sve`, which
macOS does not report; the model keeps that. A host of the model says more than the
program can see: which features the processor has (`real`) and which registers the OS
saves (`saved`). `HostsAnswerTruly` says how the answers follow from that: on x86-64 a
leaf that is answered reports what is there, XCR0 says what is saved, and of leaves beyond
the highest nothing is known; Windows lists a processor in one core, and in one cache of
a kind at most. Whether a feature is really there is a question for x86-64 only: on Arm the
answers of the OS are all there is. macOS's numbers are of 32 bits: `ProbeTopology` wraps
its sums at `CountLimit` (2^32), and `SharedCache` casts the processors that share a cache
to 16 bits, as the code does; the largest number of 16 bits is `LogicalProcessorLimit`, the
limit that `BuildTopology` checks on Windows and nothing checks on macOS. `CountsFitTheirWords`
says that a list stays within both. Brand strings, core names and the translation flag are
left out.

### Clock, WorldTime

Instants and durations are signed words, counters unsigned ones, both of a small width
here; conversions divide with the rounding of the code, in the branches it has for each
frequency. Linux and macOS are told the instant, or the count, to sleep to: `wakeAt`. A Windows
timer is told how long; there `wakeAt` is that many units of it, and `checkedAt` the instant
at which the code looked at the clock and set it. It may ring early, so that nothing is
assumed of when it wakes a thread; the code looks at the time again. A counter runs for at most `Uptime`, in proportion
the 292 years after which the nanoseconds since boot no longer fit. In `WorldTime` the factors
are fractions of one denominator where the code has doubles: their rounding is left
out, and that a part of a nanosecond is carried over is what is checked.

## 3. Runs

| Run | Instance | Result |
|---|---|---|
| `task_graph` | 2 clients, 1 worker, 3 slots on 2 pages, 3 launches of up to 2 prerequisites, each slot reused once | passes, 339,083 states |
| `task_system` | 2 workers, 2 permits, 4 tasks, 2 scripts | passes, 837,682 states |
| `parking_lot` | 3 threads, 3 addresses in 2 buckets, requeues from one address to the others | passes, 71,429 states |
| `escalating_lock` | 4 threads, 4 calls of `lock()` | passes, 38,838 states |
| `sync` | 3 threads; a mutex with a condition, a semaphore of 3, a latch of 2 and an event; or one parker | passes, 41,912 states |
| `memory` | 2 clients and the ticking thread, 1 to 3 segments of 2 pages on 4 builds; or 2 thread objects on 3; or a world of 3 places, 3 generations and 2 types | passes, 117,559 states |
| `engine` | 2 systems with 2 or 3 images; or 390 machines; or 8 counters; or a world's time | passes, 405,129 states |
| `lost_wake_up`, `stranded_batch`, `shutdown_hangs`, `timeout_race`, `too_many_processors` | see section 5 | each finds a violation |

**task_graph.** `EdgesMatch`: a waiting task counts exactly the prerequisites
that will notify it. `DeliveryFindsWaitingDependant`: a notification, sent after
the prerequisite's mutex is released, always finds the dependant it was meant
for. `ReadyIsScheduledOnce`: a ready task has an entry, or one under way, and
never two. `IndexInOnePlace`, `WaiterIsOwed`, `LaunchNeverWaitsForLaunch`: no
index leaks, no waiter is forgotten, and launches do not deadlock over slot
mutexes. `ImplementsLifecycle` is the refinement of `TaskLifecycle`, and
`LaunchedTasksComplete` liveness. Three slots are enough for a chain, a join and
a fork; reusing a slot once is what makes a handle stale; the second page is
what can fail to be allocated.

**task_system.** `ForkScript` has a task that launches another and waits for it
inside a worker, a task with a prerequisite, a task for the main thread launched by a
worker, and tasks left to the destructor; `SpanScript` a worker that waits for a task
of the main thread's and for its own task, which needs the former.
`PermitsConserved` accounts for each permit through parking, waking and waiting;
`NoSleeperForgotten` and `ParkedListIsExact` are about the race of a parking
worker with a waker; `NoWorkSleptOn` excludes lost wake-ups in this instance,
where the number of permits equals the number of workers and one thread outside
the pool launches. With one permit it is lost (section 5). `DestroyedClean` is
what the destructor asserts; `DestructorReturns` and `LaunchedTasksComplete` are
its liveness, and that of the waits: a span's latch counted once too often or too
seldom shows there.

**parking_lot.** Any thread may park, with or without a timeout, unpark one or all, on
any address, and move the waiters of `k1` to `k2`, in the same bucket, or `k3`, in the
other, for ever. `SleeperIsReachable` relates the links to the threads that sleep;
`RemovalFindsSlot` is the code's own verification; `ImplementsWaitQueues` says that
addresses that share a bucket do not disturb each other and that each is first-in
first-out, with waiters that are moved kept in their order; `WaitsEnd` that no thread
that was unlinked, or whose time is up, sleeps on. **The instance leaves out two things
the code does not exclude:** a thread that parks again before the late commit of an
unpark (`LateCommits`, section 5), and requeues in both directions between two buckets, each
of which holds one bucket's lock and waits for the other's. The engine itself
requeues only from a condition variable to its mutex; two whose buckets cross could
still meet.

**escalating_lock.** `QueueHasOneKeeper`: the queue's bit is a lock.
`SleepersAreQueued`: the queue is exactly the threads asleep.
`QueueIsLookedAfter`: an unlocker that leaves the queue leaves it to somebody.
`ImplementsLockQueue`: one holder at a time, and sleepers are let out longest
first. `LockIsGranted`: every `lock()` returns. Four threads give a holder, an unlocker
at work on the queue, and a queue of two, which is what walks, relinking, removal of
the last and removal of the tail need. `MaxLocks` bounds the calls of a behaviour, as
the lock itself lets a thread that runs barge in before one that was woken, without
bound.

**sync.** `HeldByOne`: a mutex excludes, also through `wait`. `SleepersAreMarked`:
where a mutex has sleepers its PARKED bit is set, so that the next unlock looks for
them; the queue may fill by a park, after a look at the word that is out of date, or by
a notification. `MutexSleeperIsWoken` is its liveness. `NoPermitSleptOn`: while
somebody sleeps on the semaphore, each free permit has a thread that may take it or is
about to wake one. `WaitersAreReleased`: a latch at 0 lets everybody go, and a timed wait
ends. `NoWakeUpMissed`: a thread asleep in the kernel on a word already cleared has a wake-up
coming. Three threads are a holder, a sleeper and one in between; three permits leave
two releases in a row unnoticed; a latch of two is counted down by one thread while
another has already opened it.

**memory.** `BudgetIsExact`: the committed bytes are those recorded and those in flight,
and within the budget. `EverySegmentHasItsPlace`: a segment is in one client's run, in
the cache, or without pages, and each page recorded can be used on each platform.
`CachedPagesAreReturned`: what is left in the cache is purged, although ages wrap round
and the sweep does a few at a time. `StacksOutliveThreads`: a stack is mapped as long as
the kernel's thread uses it, and no longer than an object knows it. The budget of 3
pages is less than what two clients may want at once; a cache of 2 is less than a run of 3;
`TickWrap` is just above `DecayTicks`, so that the count does wrap; one refusal per behaviour
falls on every call in turn. `ScanIsFirstFit` and `AllReservationsAreAligned`, which TLC
evaluates as assumptions, compare the bitmap scans with a plain first fit for every bitmap
up to five bits in words of two, and check every raw address up to 17.

On the world, `PlacesAreAccounted`: a place is in use, on the free list once, or
retired, and `aliveCount` is exact. `ImplementsEntityMap`: a handle is never given
out twice, a new entity starts empty, and components stay with the entity they
were added to. The instance runs until every place has used up its generations.

**engine.** `ResourcesOutliveTheirUse`: command buffers, semaphores, swapchains and the
engine's parts are not reused or gone under their users, with the surface resized,
minimised or lost to the frame at any moment. `FramesKeepEnding`: every frame that
begins ends, and the engine is gone once its loop is left. `CapabilitiesAreConsistent`:
each feature detected is there, with what it builds on and the registers it needs; a
topology is whole or unknown, a Mac's as long as its counts fit their words
(`CountsFitTheirWords`; beyond them it need not be, section 5). The machines leave out one feature each, or a group of
leaves, or answer leaves they do not have with every bit set, or are described by lists of
records with too few, too many or unused caches, or of levels up to the limits and beyond.
`TimeIsKept`: nobody returns from a sleep early; none is asked for longer than needed, which
is to the first count that is late enough, or on Windows for the units that the time takes
that is left at the look at the clock, no more and no fewer; frames' times go forward
within their bounds, and the world's times are exact sums. Words of 7 bits, seconds of 20
nanoseconds, at most 7 processors, a cast that wraps at 8 and sums that wrap at 16 are small
enough that every conversion meets its boundary. The tables are checked whole: `EachFeatureHasItsBit`, `AppleTargetsAreDetected`
and `QuotaIsWithinAvailable` are assumptions TLC evaluates, and so are
`PrerequisitesAreWhole`, `TablesNameFeatures` and `BuildsAreAccepted` of `CpuCapabilities`.

Type invariants, `GraphInvariant` and `MutualExclusion` are not listed in any run: they
are proved (section 4), and what they protect is what the runs' properties need.

`CHECK_DEADLOCK FALSE` appears where the bounded model comes to rest: when the
launches or lock calls allowed have been made, when the destructor has returned,
when every thread is parked without a timeout (nothing obliges another to unpark
it), when the parker's clock or the engine is at its end, when a thread has ended, and
when a world has used up its places.

**Fairness.** Threads are scheduled by the operating system: a thread whose next
step is possible takes it in the end (`WF` per thread). Clients need not launch,
park or lock; only what has been started is finished. `ParkingLot` assumes `SF`
because a bucket's lock is free time and again rather than for good, and the
escalating lock queues its waiters; `Monitor` for the same reason, as a notification holds
buckets, and because a holder unlocks in the end. `Parker` assumes that the kernel
wakes who is to be woken and that time passes. `SegmentAllocator` assumes only that one
thread ticks time and again, which is what `segment_allocator.h:91-92` asks of the
program. `Engine` assumes that the device completes what is submitted and that the
presentation engine gives images back, not that the window is ever resized or closed.
`TaskGraph`'s fairness also says that the pool keeps popping its queue, which is what
`TaskSystem` is about.

## 4. Proofs

All theorems hold for any number of threads, slots, tasks, calls and frames, from the
named assumptions on the constants only; two hypotheses stand in the theorems themselves,
`Target > 1` in one of `TaskSystemProofs` and `~LateCommits` in those of `ParkingLotProofs`,
one in a property, `CountsFitTheirWords` in `CapabilitiesAreConsistent`,
and what fails without each is shown in section 5. `PROJECT.json` lists the theorems with
the properties of the runs they state.

- `TaskLifecycleProofs`: `LifecycleTypeOK`, and `StartsAfterPrerequisites`, that
  no task of the abstract lifecycle starts before what it needs has completed.
- `TaskGraphProofs`: `GraphInvariantHolds`, and from it `TaskGraphTypeOK`,
  `NoEdgeIsLost` (`EdgesMatch`), `DeliveryAssertionsHold`, `IndicesAreConserved`,
  `NoWaiterIsForgotten` and `LaunchesDoNotDeadlock`. None of these is inductive
  alone. That a delivery finds its dependant waiting needs that the dependant
  still counts the prerequisite (`DependantsCount`, `DeliveriesAreOwed`), which
  needs that one thread only delivers it (`RunsOnce`), which needs that a task
  is claimed once in its slot's generation, which needs that an index is in one
  place (`IndexInOnePlace`). `GraphInvariant` is their conjunction with what the
  locals of each call are (`LocalsTyped`, `TodoIsLive`, `LaunchHandleIsNext`) and
  what the mutexes protect (`LocksHeldByLaunches`). The proof has a lemma per
  action and goes through the conjuncts the action can disturb.
  `ReadyTasksAreScheduledOnce` counts entries on top of it: a handle has at most
  one, queued or about to be, and one that has an entry was made ready once.
  `GraphImplementsLifecycle` is the refinement: what a task needs is the prerequisites
  its slot was made with, and what is pending of them those it still counts; a step on
  a slot that is reused maps to a step on a task of its own, as a handle carries the
  generation. `TasksRunAfterPrerequisites` is what the lifecycle promises, brought back
  to the graph.
- `TaskSystemProofs`. `ThreadInv` says where each thread may be: what is on its stack
  of frames at each step, which call it is in, what it has taken from a queue, whether it
  has a permit, and how far the destructor has got. `ParkInv` relates a parking worker to
  the list and to whoever takes it off. From these two, `ParkedListNamesWhoParks`
  and `SleepersAreRemembered`. `NoPermitIsLost` counts: the permits free, those of
  the workers that run, those granted to a worker taken off the list and those on
  their way to somebody make up `Target`; each step moves one from a set to another,
  and the counting is done by the library's theorems on cardinalities. `TaskInv` says
  that a ready task is in a queue or in somebody's hands, a running one on a stack, and
  that no waiting tasks wait for one another, so that with empty queues and stacks there
  is none: `PoolIsDestroyedClean`. **`WorkIsNotSleptOn` has the hypothesis `Target > 1`**:
  with one permit it is false, which is the finding `lost_wake_up`. When all
  workers are asleep or about to be, only the main thread can have a permit in its hands,
  and one only; so with two the last worker to look before it sleeps finds the other.
- `ParkingLotProofs`: `SleepersAreReachable`, `TimedOutFindTheirSlot` and
  `LotImplementsWaitQueues`, with any number of threads, keys and buckets and whichever keys
  share a bucket. **All three have the hypothesis `~LateCommits`**: without it a slot can
  be missed by its own removal, which is the finding `timeout_race`. Each bucket's links lead
  through a sequence of slots, no slot in two places (`Chained`), and the slots
  in it are those whose key is of that bucket (`Placed`). What an unpark of one key meets as
  it walks is that sequence less the slots of other keys (`View`): a push appends
  to one view, a removal cuts one out of one view, and a requeue carries a prefix of its
  source's view to the end of its target's, all other views as they were. `LotInv` adds who
  may have a key: only who parks or sleeps; not a thread an unparker has taken off, which is
  let go by that unparker alone, with the bucket's lock still held. As a walk
  has no induction over its length here, the lemmas on walks take the least position at
  which they would fail. A step maps to one of `WaitQueues`: `Park` to joining a queue,
  `LeaveQueue` to giving up, `Unlink` to waking the first, `Requeue` and `RequeueButFirst` to
  moving the waiters, without the first or after waking it, `Unparked` and `TimeOutUnparked`
  to returning; the others change nothing there.
- `EscalatingLockProofs`: `LockIsExclusive` and `QueueIsKeptByOne`. Each bit is
  set by the thread that goes on to hold it; the point is that the other
  compare-exchanges, built from copies of the word, leave both bits alone. A
  success compares the whole word, so the copy is the word; `TakeTail`, which
  compares nothing, clears the queue's bit only. `QueueInv` says that the links lay out a
  sequence of threads (`Linked`): forward links from the head to the tail; a place `k` of the
  node nearest to the head that knows the tail, which nobody nearer does; back links from the
  tail to `k`. `Walked` says what a walk that began at `h` and has come to `i` has set:
  threads that have arrived since are above `h`. `Slept` says who sleeps. From it
  `SleepersStayQueued`, `QueueIsNeverAbandoned` and the refinement, `LockImplementsLockQueue`.
  The last needs that `Queue`, which follows links from the head, is that sequence
  (`QueueIsFound`); as the provers have no induction over an operator, the two lemmas on
  following links take the least number for which they would fail.
- `SyncProofs`: `MutexIsExclusive` and `SleepersStayMarked`. The second is the hard
  one: a sleeper parks only on a marked word, but a notification moves waiters a step or two
  after it has marked the word, while other threads lock and unlock. `MovesAreMarked` says
  that the mark is still there, `OneNotifier` that no other notification runs meanwhile;
  only `unlockSlow` clears the mark, and it needs the bucket the notification holds.
  `PermitsAreNotSleptOn`: each free permit of the semaphore is matched with a thread awake
  that may take it or with a release that has not woken anybody yet.
  `WakeUpsAreNotMissed`: the waker clears the word before it asks for the wake-up, and
  the kernel looks at the word when it puts the thread to sleep.
- `StorageProofs`, on stacks: `StacksAreKeptAndGivenBack`, on each of the three systems, of which macOS
  lets a join return while the kernel still runs on the stack. On segments:
  `SegmentsHaveTheirPlace` and `CommitBudgetIsExact`, on each platform and whichever
  commits are refused. A commit takes several steps, most of them without the allocator's
  mutex; `JobsAreOnRuns` says that it is of a segment of the client's own, from where its
  pages end, so that neither a trim nor the sweep changes that number meanwhile. Two sums
  have to agree at every step, of the pages recorded and of those in flight, and a run has
  to be of segments nobody has: `ScansFindTheFirstRun` says that the scan, which skips
  whole words, finds the first run that fits. Neither the sums nor the scan can be worked
  out by induction here, so the lemmas on them take a smallest set, or the last bit, for
  which they would fail, by the well-foundedness theorems of the library.
  `ReservationsAreAligned`: wherever the system puts a reservation, the range cut out of it
  is aligned and whole, and nothing around it is kept.
  On the world: `WorldTypeOK`, `PlacesStayAccounted` and `WorldImplementsEntityMap`, the
  refinement itself. A handle is new because a place on the free list has a
  generation nobody has seen (`Given`), a new entity has nothing because no flag is
  set at a dead place (`DeadPlacesAreEmpty`), and both need that a place is on the
  list once and never while it is in use. The count is carried by the library's
  theorems on cardinalities.
- `EngineProofs`, on time: `SleepsLastAndFramesAdvance`, for every frequency and timebase
  whose time fits the word (`UptimeFitsTheWord`), `WorldTimeStaysExact`, and
  `TimeStaysKept`, the property of the run made of both. What they
  rest on is that a deadline converted to a count, rounded up, and back is not before the
  deadline and less than a period after it, with all the branches for particular
  frequencies: lemmas on the quotient and remainder of each conversion. On Windows it is that
  the units of a timer take the time that was left and one unit less does not (`DueTimeFits`).
  On features: `DetectedFeaturesCanBeUsed`. The features detected are closed under what
  they build on, however often and on whatever the machine answers, since each probe takes a
  feature only with all of its prerequisites; that needs the tables to be transitively closed
  (`PrerequisitesAreWhole`), which TLC evaluates on the tables themselves.
  On all that is read: `CapabilitiesCanBeReliedOn`, the whole of `CapabilitiesAreConsistent`,
  from three named assumptions more: `HostsAnswerTruly`, `VersionsHaveTheirRegister` (of the
  tables again) and `TopologyLimits`. That a feature taken is in the machine follows register
  by register: a register the code reads is one that is answered (`RegistersAreRead`), and the
  one answer that is not to be trusted, BMI on an Intel processor without AVX, is not used.
  For Windows's topology the argument goes in four steps. Ids, whatever they are, become their
  ranks, and ranks are in the order of the ids (`RanksKeepOrder`, `ScaledKeepOrder`), so that
  numbers have no gaps and are equal only where ids were. The list of processors has each one
  once, in order (`ProcessorsAreListed`), and so has the one that is left when caches are
  discarded (`DiscardedAreProcessors`). Counts are then of sets of ranks (`BuiltCountsAgree`). And
  as the records of one kind share no processor, two processors have the number of the same
  core, or of the same listed cache, exactly when one record has both (`BuiltSharingIsTrue`).
  For macOS the counts are sums over the levels. With `CountsFitTheirWords` no cast changes its
  number (`CacheIsWhole`, `SmallCountsAreKept`), as there are no more cores than processors; without
  it the theorem is false. The lemmas on sums are those of
  `StorageProofs`, repeated because the modules these extend have a variable of the same name.
  `QuotaStaysWithinAvailable` is the arithmetic of a Windows job's cap, for all of its inputs.
  On frames: `ResourcesAreNotReusedEarly`. `EngineInv` has the order of the parts
  (`PartsInv`), what phase the host and its frame are in (`PhaseInv`), and what is in the
  queues (`BackendInv`): a command buffer submitted is that of a slot whose fence is not
  signalled, each slot and each image is submitted once at a time, and a presentation waits
  for its own image's semaphore, which is signalled or will be by the submission that has
  the image. That a frame of
  slot `n` reuses nothing follows from the fence it has waited for; that a swapchain
  may go, from the wait for the device before it.

Model-checked only:

- liveness (fairness and ENABLED are out of the prover's reach): `DestructorReturns`,
  both `LaunchedTasksComplete`, `WaitsEnd`, `LockIsGranted`, `MutexSleeperIsWoken`,
  `WaitersAreReleased`, `CachedPagesAreReturned`, `FramesKeepEnding`.

Every other property of a passing run, invariant or refinement, is stated by a theorem.

## 5. Where the code and its words disagree

Each is shown by a run that checks the one property and finds it violated.

- **`lost_wake_up`** (`task_system.cpp:397`, `:419`, `:436`). A waker takes a
  permit before it looks at the parked list, and puts it back when the list is
  empty. A worker that lists itself in between sees the work, finds no permit and
  sleeps; the permit comes back and nobody is woken. With one worker and no
  standby worker the task, and the test's `wait`
  (`src/tests/task/task_system.cpp:108-110`), never finishes.
- **`stranded_batch`** (`task_system.cpp:229`). A worker that waits inside a task
  sleeps with the rest of its batch in its own queue. If the standby worker is on
  its way to the parked list when the permit is shed, it is not woken, and its last look
  before sleeping is at the shared queue only; when the awaited task depends on
  the batch nobody runs it. `src/docs/design/task_system.md:113` says that committed work
  is never stranded.
- **`shutdown_hangs`** (`task_system.cpp:98`). The destructor stops the workers
  before the tasks still running have finished. One of them may launch a task
  with a dependant and wait for it; the other workers have left, and the
  destructor is joining. `src/docs/design/task_system.md:163` says the pool drains to
  quiescence before any worker is asked to stop.
- **`timeout_race`** (`parking_lot.h:137`). A thread whose timeout has passed
  returns as soon as it reads its key as cleared, without the bucket's lock; the
  unparker commits afterwards. By then the thread may be parked on an address in
  another bucket, and the late store releases it from there, still linked. The
  verification at `parking_lot.h:149` then fails for a later timed park.
- **`too_many_processors`** (`cpu_probe_macos.cpp:189`).
  `src/docs/subsystems/core/cpu.md:463` says that more than 65535 logical processors make
  the whole topology unknown. On macOS nothing compares them with a limit: the topology is
  kept. What it then says can be wrong: of 65536 processors that share a cache the cast to
  16 bits leaves 0, beside a size that is known (`cpu_probe_macos.cpp:137`), and sums of 2^32
  and more wrap round.

## 6. What is not modelled

The components with status `not_modelled` in `PROJECT.json`, each with a reason, and what
the notes of the others leave out. Throughout: memory orders (the models are
sequentially consistent; the code's acquire and release pairs on each word are assumed
to order what they publish), exhaustion of the 2^32 generations of task slots, logging,
profiling and debug-only checks. In particular:

- **Stale task handles** given to a launch or a wait: a launch that names a stale handle
  of the very slot it has been given locks that slot twice (`task_graph.cpp:478`), and a
  wait on a span counts such a handle neither way (`task_system.cpp:260`).
- **A worker that waits for a main-thread task while the pool is destroyed**
  (`task_system.cpp:111`): another script of `TaskSystem` would show that nobody runs it.
- **A swapchain without area.** If one is made while the window is minimised, `beginFrame`
  returns before anything can find it out of date (`backend.cpp:188`), and nothing is
  drawn again. The model has the behaviour, and `FramesKeepEnding` does not exclude it.
- **Queries of component stores.** `has()` lets the index equal to the store's size
  through (`component_store.h:56`); a query changes no state, and what is read
  behind the array is not the model's to say.
- The debug messenger asserts an entry point of an extension that is optional
  (`debug_messenger.cpp:108`); entry points are not modelled.
- Task payloads (`task_payload.h`): storage and destruction of a type-erased callable,
  sequential and without state shared but through the task's status.

## 7. Plan

1. **Proofs**: what of `ParkingLot` survives `LateCommits`.
2. **Stale handles** in `TaskGraph` and `TaskSystem`, with the launches they make fail.
3. In `TaskSystem`: several priorities, a positive `waitHelpMaxDepth`, and scripts that
   wait for main-thread tasks inside workers.
4. Crossing requeues in `ParkingLot`, as a run of their own.
