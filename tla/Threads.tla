------------------------------ MODULE Threads ------------------------------
(***************************************************************************)
(* Threads (core/thread/thread.cpp, thread_*.cpp) and the stacks they run  *)
(* on (thread_stack_allocator.cpp).  One thread, the owner, creates them,  *)
(* resumes those created suspended, joins and destroys them; each runs its *)
(* routine and then leaves the kernel some time after a join can see it.   *)
(* On Windows the system provides the stack.                               *)
(***************************************************************************)
EXTENDS VirtualMemory, FiniteSets

CONSTANTS
  Objects,               \* the Thread objects
  MaxIds,                \* a bound: g_nextThreadId is not let past it
  MaxRefusals            \* a bound on what the operating system refuses

ASSUME ThreadsAssumption == IsFiniteSet(Objects) /\ {MaxIds, MaxRefusals} \subseteq Nat

NoStack == -1
NoThread == -1

VARIABLES
  threadBuild,
  state,                 \* m_state, per object
  id,                    \* m_id
  stack,                 \* m_stackAllocation: the stack, a number never used again
  port,                  \* m_machThreadPort: whether the object holds one
  kernel,                \* the kernel's thread for it: none, or how far it is
  stackOf,               \* and the stack that one runs on
  stacks,                \* the stacks that are mapped
  nextId, nextStack, threadRefusals

given == <<threadBuild, id, nextId>>
object == <<state, stack, port>>
memory == <<stackOf, stacks, nextStack>>
threadVars == <<given, object, kernel, memory, threadRefusals>>

ThreadsInit ==
  /\ threadBuild \in {"linux", "macos", "windows"}
  /\ state = [o \in Objects |-> "notStarted"]
  /\ id = [o \in Objects |-> NoThread]
  /\ stack = [o \in Objects |-> NoStack]
  /\ port = [o \in Objects |-> FALSE]
  /\ kernel = [o \in Objects |-> "none"]
  /\ stackOf = [o \in Objects |-> NoStack]
  /\ stacks = {} /\ nextId = 0 /\ nextStack = 0
  /\ threadRefusals = MaxRefusals

OwnStacks == threadBuild # "windows"
Joinable(o) == state[o] \in {"running", "suspended"}
At(o, point) == kernel' = [kernel EXCEPT ![o] = point]

-----------------------------------------------------------------------------
(* create takes an id first, and keeps it when it fails.                   *)
TakeId(o) ==
  /\ state[o] = "notStarted" /\ nextId < MaxIds
  /\ id' = [id EXCEPT ![o] = nextId]
  /\ nextId' = nextId + 1

\* The reservation or the commit of the stack is refused, and nothing is left of it.
NoStackForIt(o) ==
  /\ TakeId(o) /\ OwnStacks /\ threadRefusals > 0
  /\ threadRefusals' = threadRefusals - 1
  /\ UNCHANGED <<threadBuild, object, kernel, memory>>

\* The stack is allocated and the state set before there is a thread to look at it.
AllocateStack(o, suspended) ==
  /\ TakeId(o) /\ OwnStacks
  /\ stack' = [stack EXCEPT ![o] = nextStack]
  /\ stacks' = stacks \cup {nextStack}
  /\ nextStack' = nextStack + 1
  /\ state' = [state EXCEPT ![o] = IF suspended THEN "suspended" ELSE "running"]
  /\ At(o, "creating")
  /\ UNCHANGED <<threadBuild, port, stackOf, threadRefusals>>

\* pthread_create succeeds,
CreateKernelThread(o) ==
  /\ kernel[o] = "creating" /\ OwnStacks
  /\ At(o, "entering")
  /\ stackOf' = [stackOf EXCEPT ![o] = stack[o]]
  /\ UNCHANGED <<given, object, stacks, nextStack, threadRefusals>>

\* or fails, and create undoes what it did: it may be called again.
CreateFails(o) ==
  /\ kernel[o] = "creating" /\ threadRefusals > 0
  /\ stacks' = stacks \ {stack[o]}
  /\ stack' = [stack EXCEPT ![o] = NoStack]
  /\ state' = [state EXCEPT ![o] = "notStarted"]
  /\ At(o, "none")
  /\ threadRefusals' = threadRefusals - 1
  /\ UNCHANGED <<given, port, stackOf, nextStack>>

(* Windows: the thread is there, suspended by the kernel, until the state  *)
(* has been set.                                                           *)
CreateOnWindows(o, suspended) ==
  /\ TakeId(o) /\ ~OwnStacks
  /\ state' = [state EXCEPT ![o] = IF suspended THEN "suspended" ELSE "running"]
  /\ At(o, "entering")
  /\ UNCHANGED <<threadBuild, stack, port, memory, threadRefusals>>

WindowsRefuses(o) ==
  /\ TakeId(o) /\ ~OwnStacks /\ threadRefusals > 0
  /\ threadRefusals' = threadRefusals - 1
  /\ UNCHANGED <<threadBuild, object, kernel, memory>>

\* The thread that calls this is not joined: its type is Main.
AdoptCurrentThread(o) ==
  /\ TakeId(o) /\ \A p \in Objects : state[p] # "adopted"
  /\ state' = [state EXCEPT ![o] = "adopted"]
  /\ UNCHANGED <<threadBuild, stack, port, kernel, memory, threadRefusals>>

-----------------------------------------------------------------------------
(* runEntry.  On macOS the object gets the port of the thread first.       *)
Enter(o) ==
  /\ kernel[o] = "entering"
  /\ port' = [port EXCEPT ![o] = threadBuild = "macos"]
  /\ At(o, IF state[o] = "suspended" THEN "waiting" ELSE "routine")
  /\ UNCHANGED <<given, state, stack, memory, threadRefusals>>

\* m_state.wait: until the value is another.
SeeResumed(o) ==
  /\ kernel[o] = "waiting" /\ state[o] # "suspended"
  /\ At(o, "routine")
  /\ UNCHANGED <<given, object, memory, threadRefusals>>

Resume(o) ==
  /\ state[o] = "suspended" /\ kernel[o] # "creating"
  /\ state' = [state EXCEPT ![o] = "running"]
  /\ UNCHANGED <<given, stack, port, kernel, memory, threadRefusals>>

\* From here a join returns, and the thread is on its stack still.
EndRoutine(o) ==
  /\ kernel[o] = "routine"
  /\ At(o, "leaving")
  /\ UNCHANGED <<given, object, memory, threadRefusals>>

\* The kernel has done with it.
LeaveKernel(o) ==
  /\ kernel[o] = "leaving"
  /\ At(o, "gone")
  /\ stackOf' = [stackOf EXCEPT ![o] = NoStack]
  /\ UNCHANGED <<given, object, stacks, nextStack, threadRefusals>>

\* pthread_join on Linux, and a wait for the handle on Windows, are for the
\* kernel's thread; on macOS for the routine.
ReturnsFromJoin(o) ==
  kernel[o] \in IF threadBuild = "macos" THEN {"leaving", "gone"} ELSE {"gone"}

\* Mutant: the port is given back without a wait for the kernel's thread.
JoinAtOnce(o) ==
  /\ Joinable(o) /\ ReturnsFromJoin(o)
  /\ port' = [port EXCEPT ![o] = FALSE]
  /\ stacks' = stacks \ {stack[o]}
  /\ stack' = [stack EXCEPT ![o] = NoStack]
  /\ state' = [state EXCEPT ![o] = "joined"]
  /\ UNCHANGED <<given, kernel, stackOf, nextStack, threadRefusals>>

\* With a port the stack is given back when the port names no thread any more.
Join(o) ==
  /\ Joinable(o) /\ ReturnsFromJoin(o)
  /\ port[o] => kernel[o] = "gone"
  /\ port' = [port EXCEPT ![o] = FALSE]
  /\ stacks' = stacks \ {stack[o]}
  /\ stack' = [stack EXCEPT ![o] = NoStack]
  /\ state' = [state EXCEPT ![o] = "joined"]
  /\ UNCHANGED <<given, kernel, stackOf, nextStack, threadRefusals>>

-----------------------------------------------------------------------------
ThreadsNext == \E o \in Objects :
  \/ NoStackForIt(o) \/ CreateKernelThread(o) \/ CreateFails(o) \/ WindowsRefuses(o)
  \/ \E suspended \in BOOLEAN : AllocateStack(o, suspended) \/ CreateOnWindows(o, suspended)
  \/ AdoptCurrentThread(o) \/ Enter(o) \/ SeeResumed(o) \/ Resume(o)
  \/ EndRoutine(o) \/ LeaveKernel(o) \/ Join(o)

ThreadsSpec == ThreadsInit /\ [][ThreadsNext]_threadVars

-----------------------------------------------------------------------------
(* A thread's stack is mapped as long as the kernel's thread uses it; no   *)
(* other thread has it; and no stack stays mapped that no object knows.    *)
StacksOutliveThreads ==
  /\ \A o \in Objects : stackOf[o] # NoStack => stackOf[o] \in stacks
  /\ stacks = { stack[o] : o \in Objects } \ {NoStack}
  /\ \A o, p \in Objects : o # p /\ stack[o] = stack[p] => stack[o] = NoStack
=============================================================================
